------------------------------- MODULE Startup -------------------------------
(***************************************************************************)
(* TNFSDRV from the command line to the resident program: main(),          *)
(* tnfsdrv_connect, netw_connect and arp_resolve, over the packet driver's *)
(* handles, the drive table of DOS and the INT 2Fh chain.                  *)
(*                                                                         *)
(* The program is started Starts times, one after another.  A start may    *)
(* read another TNFSDRV.CFG and another profile; each may fail at every    *)
(* call that can, or be stopped by Ctrl-C, which runs none of its code.    *)
(* PDREL is the user's tool for the handles such a start leaves behind.    *)
(*                                                                         *)
(* One frame buffer belongs to the program being started; a resident       *)
(* program's is in NetwRx.  Mounting is one step: TnfsExchange shows that  *)
(* an exchange ends, with an answer or without.                            *)
(***************************************************************************)
EXTENDS Config

CONSTANTS
    Starts,         \* bound: how often the program is started
    Files,          \* the contents TNFSDRV.CFG may have
    Profiles,       \* the arguments TNFSDRV may be given ("default": none)
    Hosts,          \* the addresses on the wire, as servername spells them
    NoHost,         \* 0.0.0.0: what a name that is no address parses to
    Mac,            \* the hardware address of each host
    NoMac,
    Frames,         \* the frames that arrive
    ArpTries,       \* 3 in the code
    ArpTicks        \* ARP_TIMEOUT_TICKS

Types == {"IP", "ARP"}

ASSUME StartupAssumption ==
    /\ Starts \in Nat /\ NoHost \notin Hosts
    /\ ArpTries \in Nat \ {0} /\ ArpTicks \in Nat
    /\ NoMac \notin {Mac[h] : h \in Hosts}
    \* what the validation of arp_resolve looks at
    /\ Frames \subseteq [type : Types, long : BOOLEAN, reply : BOOLEAN, from : Hosts]

\* A file is a sequence of lines, and the head of a section has a name alone.
ASSUME FilesAssumption ==
    \A file \in Files :
        /\ file \in Seq({file[i] : i \in DOMAIN file})
        /\ \A i \in DOMAIN file : file[i].is = "section" => file[i] = Section(file[i].name)

Prog == 1 .. Starts
NoProg == 0

VARIABLES
    st,         \* what became of each start
    cur, pc,    \* the program being started and where it is; NoProg, "dos"
    \* the static data of the program being started
    cfg,        \* main: cfg, until the checks have taken what they need of it
    drive,      \* cfg.driveletter, checked
    server,     \* s_server_ip
    mac,        \* s_server_mac
    ipHandle,   \* s_ip_handle >= 0
    arpHandle,  \* s_arp_handle >= 0
    tries,      \* arp_resolve: retry
    left,       \* arp_resolve: ticks before the time-out
    box,        \* s_rx_buf: a frame, or <<>> for s_rx_len = 0
    \* what stays
    image,      \* what the resident programs have in memory; <<>>: not resident
    pd,         \* packet driver: who holds the handle for IP and for ARP
    mounted,    \* the starts that have a session
    cds,        \* the drive table: who filled in the entry of each letter
    chain,      \* the INT 2Fh handlers, the latest last
    asked       \* history: the file and the profile cfg was read from

control == <<st, cur, pc>>
config  == <<cfg, asked>>
params  == <<drive, server>>
arp     == <<mac, tries, left, box>>
handles == <<ipHandle, arpHandle, pd>>
stays   == <<mounted, cds, chain, image>>
vars == <<control, config, params, arp, handles, stays>>

Letters == 0 .. 25
Places == {"load", "checks", "openIp", "getAddress", "openArp", "arpSend", "arpWait", "arpFailed",
           "mount", "cds", "vector", "tsr"}

Macs == {Mac[h] : h \in Hosts} \cup {NoMac}

\* Every variable but the configuration, whose values ConfigMeans gives.
TypeOK ==
    /\ st \in [Prog -> {"new", "starting", "resident", "failed", "broken"}]
    /\ cur \in Prog \cup {NoProg} /\ pc \in Places \cup {"dos"}
    /\ drive \in Letters /\ server \in Hosts \cup {NoHost} /\ mac \in Macs
    /\ ipHandle \in BOOLEAN /\ arpHandle \in BOOLEAN
    /\ tries \in 0 .. ArpTries /\ left \in 0 .. ArpTicks /\ box \in Frames \cup {<<>>}
    /\ image \in [Prog -> {<<>>} \cup [drive : Letters, server : Hosts \cup {NoHost}, mac : Macs]]
    /\ pd \in [Types -> Prog \cup {NoProg}]
    /\ mounted \subseteq Prog
    /\ cds \in [Letters -> Prog \cup {NoProg}] /\ chain \in Seq(Prog)

\* The static data a program starts with.
Fresh ==
    /\ drive' = 13 /\ server' = NoHost /\ mac' = NoMac
    /\ ipHandle' = FALSE /\ arpHandle' = FALSE
    /\ tries' = 0 /\ left' = 0 /\ box' = <<>>

Init ==
    /\ st = [p \in Prog |-> "new"] /\ cur = NoProg /\ pc = "dos"
    /\ cfg = <<>> /\ asked = <<>>
    /\ drive = 13 /\ server = NoHost /\ mac = NoMac
    /\ ipHandle = FALSE /\ arpHandle = FALSE /\ tries = 0 /\ left = 0 /\ box = <<>>
    /\ image = [p \in Prog |-> <<>>]
    /\ pd = [t \in Types |-> NoProg] /\ mounted = {}
    /\ cds = [l \in Letters |-> NoProg] /\ chain = <<>>

-----------------------------------------------------------------------------
(* Helpers of the start in progress. *)

At(place) == cur # NoProg /\ pc = place

GoTo(place) == pc' = place /\ UNCHANGED <<st, cur>>

\* return 1 from main: the program is gone, with what it has not released.
Exit == st' = [st EXCEPT ![cur] = "failed"] /\ cur' = NoProg /\ pc' = "dos"

\* pd_access_type: the driver has one handle per type.
Access(type) == pd[type] = NoProg /\ pd' = [pd EXCEPT ![type] = cur]

\* pd_release_type
Release(type) == pd' = [pd EXCEPT ![type] = NoProg]

\* pd_release_type(s_ip_handle); s_ip_handle = -1
ReleaseIp == Release("IP") /\ ipHandle' = FALSE /\ UNCHANGED arpHandle
ReleaseArp == Release("ARP") /\ arpHandle' = FALSE /\ UNCHANGED ipHandle

\* parse_ip4: anything but a dotted address is 0.0.0.0
ParseIp4(name) == IF name \in Hosts THEN name ELSE NoHost

-----------------------------------------------------------------------------
(* main() up to the network *)

Start ==
    /\ cur = NoProg
    \* INT 2Fh goes through every handler: one whose memory is free is the end.
    /\ \A i \in DOMAIN chain : st[chain[i]] = "resident"
    /\ \E p \in Prog :
          /\ st[p] = "new" /\ \A q \in 1 .. p - 1 : st[q] # "new"
          /\ st' = [st EXCEPT ![p] = "starting"] /\ cur' = p
    /\ pc' = "load"
    /\ Fresh
    /\ UNCHANGED <<config, pd, stays>>

Load(file, profile) ==
    /\ At("load")
    /\ cfg' = ConfigLoad(file, profile)
    /\ asked' = [file |-> file, profile |-> profile]
    /\ GoTo("checks")
    /\ UNCHANGED <<params, arp, handles, stays>>

\* The checks of main() and of tnfsdrv_connect; the parameters they let pass.
\* The handle variables start at -1.
Checks ==
    /\ At("checks")
    /\ IF cfg.protocol = "UDP" /\ cfg.driveletter \in 2 .. 25 /\ cfg.localip # NoText
       THEN /\ drive' = cfg.driveletter
            /\ server' = ParseIp4(cfg.servername)
            /\ GoTo("openIp")
       ELSE Exit /\ UNCHANGED params
    /\ cfg' = <<>> /\ asked' = <<>>
    /\ UNCHANGED <<arp, handles, stays>>

-----------------------------------------------------------------------------
(* netw_connect and arp_resolve *)

\* Mutant: the result of pd_access_type is not looked at.
OpenIpUnchecked ==
    /\ At("openIp")
    /\ ipHandle' = TRUE
    /\ Access("IP") \/ UNCHANGED pd
    /\ GoTo("getAddress")
    /\ UNCHANGED <<config, params, arp, arpHandle, stays>>

OpenIp ==
    /\ At("openIp")
    /\ \/ /\ Access("IP")
          /\ ipHandle' = TRUE
          /\ GoTo("getAddress")
       \/ Exit /\ UNCHANGED <<pd, ipHandle>>      \* in use, or no handle left
    /\ UNCHANGED <<config, params, arp, arpHandle, stays>>

GetAddress ==
    /\ At("getAddress")
    /\ \/ GoTo("openArp") /\ UNCHANGED handles
       \/ ReleaseIp /\ Exit
    /\ UNCHANGED <<config, params, arp, stays>>

OpenArp ==
    /\ At("openArp")
    /\ tries' = 0
    /\ \/ /\ Access("ARP")
          /\ arpHandle' = TRUE
          /\ GoTo("arpSend") /\ UNCHANGED ipHandle
       \/ ReleaseIp /\ Exit
    /\ UNCHANGED <<config, params, mac, left, box, stays>>

\* One turn of the retry loop: forget what is in the buffer, send the request.
ArpSend ==
    /\ At("arpSend")
    /\ box' = <<>>
    /\ \/ left' = ArpTicks /\ GoTo("arpWait")
       \/ UNCHANGED left /\ GoTo("arpFailed")      \* the driver refuses it
    /\ UNCHANGED <<config, params, mac, tries, handles, stays>>

\* Mutant: whoever answers is taken for the server.
IsAnswerLoose(f) == f.long /\ f.type = "ARP" /\ f.reply

\* An ARP reply from the server's address.
IsAnswer(f) == f.long /\ f.type = "ARP" /\ f.reply /\ f.from = server

\* A look at a full buffer within the time.  An answer ends arp_resolve and
\* netw_connect; anything else is dropped.
ArpLook ==
    /\ At("arpWait") /\ left > 0 /\ box # <<>>
    /\ box' = <<>>
    /\ IF IsAnswer(box)
       THEN /\ left' = 0
            /\ mac' = Mac[box.from]
            /\ ReleaseArp
            /\ GoTo("mount")
       ELSE UNCHANGED <<mac, left, handles, control>>
    /\ UNCHANGED <<config, params, tries, stays>>

\* Mutant: one try too many.
ArpTimeoutOnceMore ==
    /\ At("arpWait") /\ left = 0
    /\ tries' = tries + 1
    /\ GoTo(IF tries < ArpTries THEN "arpSend" ELSE "arpFailed")
    /\ UNCHANGED <<config, params, mac, left, box, handles, stays>>

\* Mutant: the tries are not counted.
ArpTimeoutUncounted ==
    /\ At("arpWait") /\ left = 0
    /\ GoTo("arpSend")
    /\ UNCHANGED <<config, params, arp, handles, stays>>

ArpTimeout ==
    /\ At("arpWait") /\ left = 0
    /\ tries' = tries + 1
    /\ GoTo(IF tries + 1 < ArpTries THEN "arpSend" ELSE "arpFailed")
    /\ UNCHANGED <<config, params, mac, left, box, handles, stays>>

\* Mutant: the IP handle stays open when the server was not found.
ArpFailedKeepsIp ==
    /\ At("arpFailed")
    /\ IF arpHandle
       THEN ReleaseArp /\ UNCHANGED control
       ELSE Exit /\ UNCHANGED handles
    /\ UNCHANGED <<config, params, arp, stays>>

\* arp_resolve gives up its own handle, then netw_connect the other.
ArpFailed ==
    /\ At("arpFailed")
    /\ IF arpHandle
       THEN ReleaseArp /\ UNCHANGED control
       ELSE ReleaseIp /\ Exit
    /\ UNCHANGED <<config, params, arp, stays>>

-----------------------------------------------------------------------------
(* The rest of main() *)

\* Mutant: netw_disconnect forgets the handle without giving it back.
TnfsMountLeaks ==
    /\ At("mount")
    /\ \/ mounted' = mounted \cup {cur} /\ GoTo("cds") /\ UNCHANGED handles
       \/ /\ ipHandle' = FALSE
          /\ Exit /\ UNCHANGED <<pd, arpHandle, mounted>>
    /\ UNCHANGED <<config, params, arp, cds, chain, image>>

\* tnfs_mount; netw_disconnect when it fails.
TnfsMount ==
    /\ At("mount")
    /\ \/ mounted' = mounted \cup {cur} /\ GoTo("cds") /\ UNCHANGED handles
       \/ ReleaseIp /\ Exit /\ UNCHANGED mounted
    /\ UNCHANGED <<config, params, arp, cds, chain, image>>

\* init_cds: the entry is filled in whatever it was, unless a redirector
\* answers INT 2Fh/1100h with "not allowed"; the start goes on all the same.
InitCds ==
    /\ At("cds")
    /\ \/ cds' = [cds EXCEPT ![drive] = cur]
       \/ UNCHANGED cds
    /\ GoTo("vector")
    /\ UNCHANGED <<config, params, arp, handles, mounted, chain, image>>

SetVector ==
    /\ At("vector")
    /\ chain' = Append(chain, cur)
    /\ GoTo("tsr")
    /\ UNCHANGED <<config, params, arp, handles, mounted, cds, image>>

\* INT 21h/31h
GoResident ==
    /\ At("tsr")
    /\ st' = [st EXCEPT ![cur] = "resident"] /\ cur' = NoProg /\ pc' = "dos"
    /\ image' = [image EXCEPT ![cur] = [drive |-> drive, server |-> server, mac |-> mac]]
    /\ UNCHANGED <<config, params, arp, handles, mounted, cds, chain>>

-----------------------------------------------------------------------------
(* Around the program *)

\* pd_receiver: a frame of a registered type while the buffer is free.
Deliver(f) ==
    /\ cur # NoProg /\ pc \in {"getAddress", "openArp", "arpSend", "arpWait", "arpFailed"}
    /\ box = <<>>
    /\ f.type = "IP" => ipHandle
    /\ f.type = "ARP" => arpHandle
    /\ box' = f
    /\ UNCHANGED <<control, config, params, mac, tries, left, handles, stays>>

Tick ==
    /\ At("arpWait") /\ left > 0 /\ left' = left - 1
    /\ UNCHANGED <<control, config, params, mac, tries, box, handles, stays>>

\* Ctrl-C, on which DOS may act in any of its calls (log.txt is written all
\* along): nothing is undone.
Break ==
    /\ cur # NoProg
    /\ st' = [st EXCEPT ![cur] = "broken"] /\ cur' = NoProg /\ pc' = "dos"
    /\ cfg' = <<>> /\ asked' = <<>>
    /\ UNCHANGED <<params, arp, handles, stays>>

\* PDREL, for a handle that a broken start has left behind.
PdRel(type) ==
    /\ cur = NoProg /\ pd[type] # NoProg /\ st[pd[type]] = "broken"
    /\ Release(type)
    /\ UNCHANGED <<control, config, params, arp, ipHandle, arpHandle, stays>>

Foreground ==
    \/ \E file \in Files, profile \in Profiles : Load(file, profile)
    \/ Checks \/ OpenIp \/ GetAddress \/ OpenArp \/ ArpSend \/ ArpLook \/ ArpTimeout \/ ArpFailed
    \/ TnfsMount \/ InitCds \/ SetVector \/ GoResident

Next ==
    \/ Start \/ Foreground \/ Tick \/ Break
    \/ \E f \in Frames : Deliver(f)
    \/ \E type \in Types : PdRel(type)

Fairness == WF_vars(Foreground) /\ WF_vars(Tick)
Spec == Init /\ [][Next]_vars /\ Fairness

-----------------------------------------------------------------------------

\* The configuration a start goes by is what the file says: the profile's last
\* acceptable setting of each key, else [default]'s, else the built-in one
\* (config.c: two scans, each over the whole file).
ConfigMeans == pc = "checks" => cfg = Meaning(asked.file, asked.profile)

\* The packet driver's handles and the programs' own idea of them agree, on
\* every way out of netw_connect: a handle is open exactly while a live program
\* counts on it, or since Ctrl-C took its program away.
HandlesOwned ==
    /\ \A type \in Types : pd[type] # NoProg => st[pd[type]] \in {"starting", "resident", "broken"}
    /\ cur # NoProg => /\ ipHandle <=> pd["IP"] = cur
                       /\ arpHandle <=> pd["ARP"] = cur

\* p can do its work: it holds the IP handle and not the ARP one, which would
\* fill its only buffer with broadcasts; it has the address of the server it was
\* told of and a session; of the drives it has its own at most, and it is in the
\* INT 2Fh chain once.
Ready(p) ==
    /\ pd["IP"] = p /\ pd["ARP"] # p
    /\ image[p].server \in Hosts /\ image[p].mac = Mac[image[p].server]
    /\ p \in mounted
    /\ \A l \in Letters : cds[l] = p => l = image[p].drive
    /\ \E i \in DOMAIN chain : \A j \in DOMAIN chain : chain[j] = p <=> j = i

\* A program that stays resident has all it needs (main: connect, then the drive
\* table, then the vector, then INT 21h/31h).
ResidentReady == \A p \in Prog : st[p] = "resident" => Ready(p)

\* There is never a second resident program: nothing in main() looks for a
\* first one, it is the packet driver's one handle per type that stops it.
OneResident == \A p, q \in Prog : st[p] = "resident" /\ st[q] = "resident" => p = q

\* No handle, no session, no drive and no INT 2Fh handler of p's.
Absent(p) ==
    /\ \A type \in Types : pd[type] # p
    /\ p \notin mounted
    /\ \A l \in Letters : cds[l] # p
    /\ \A i \in DOMAIN chain : chain[i] # p

\* A start that fails leaves the machine as it found it, on every error path:
\* DOS gives its memory to the next program.
FailedLeavesNothing == \A p \in Prog : st[p] = "failed" => Absent(p)

\* Every start comes to its end, with whatever frames in place of the answer.
StartEnds == cur # NoProg ~> cur = NoProg

=============================================================================
