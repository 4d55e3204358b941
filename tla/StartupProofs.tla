---------------------------- MODULE StartupProofs ----------------------------
(* What a start of TNFSDRV guarantees, for any number of starts, any          *)
(* configuration file and any frames on the wire.                             *)
EXTENDS Startup, FiniteSetTheorems, WellFoundedInduction, TLAPS

HasIp == {"getAddress", "openArp", "arpSend", "arpWait", "arpFailed",
          "mount", "cds", "vector", "tsr"}
Found == {"mount", "cds", "vector", "tsr"}

\* What the program being started has, by how far it is.
Progress ==
    /\ ipHandle <=> pc \in HasIp
    /\ pc \in {"arpSend", "arpWait"} => arpHandle /\ tries < ArpTries
    /\ arpHandle => pc \in {"arpSend", "arpWait", "arpFailed"}
    /\ pc \in Found => server \in Hosts /\ mac = Mac[server]
    /\ cur \in mounted <=> pc \in {"cds", "vector", "tsr"}
    /\ \A l \in Letters : cds[l] = cur => pc \in {"vector", "tsr"} /\ l = drive
    /\ pc # "tsr" => \A i \in DOMAIN chain : chain[i] # cur
    /\ pc = "tsr" => \E i \in DOMAIN chain : \A j \in DOMAIN chain : chain[j] = cur <=> j = i

\* DOS runs one program at a time, and what is new has left no trace.
OneAtATime ==
    /\ pc = "dos" <=> cur = NoProg
    /\ \A p \in Prog : st[p] = "starting" <=> p = cur
    /\ \A p \in Prog : st[p] = "new" => Absent(p)

IInv ==
    /\ TypeOK /\ OneAtATime
    /\ cur # NoProg => Progress
    /\ HandlesOwned /\ ResidentReady /\ FailedLeavesNothing

LEMMA InitInv == Init => IInv
<1> SUFFICES ASSUME Init PROVE IInv
  OBVIOUS
<1>0. ArpTries \in Nat /\ ArpTicks \in Nat /\ NoProg \notin Prog
  BY StartupAssumption DEF Prog, NoProg
<1>1. TypeOK
  <2>1. image \in [Prog -> {<<>>} \cup [drive : Letters, server : Hosts \cup {NoHost}, mac : Macs]]
    BY DEF Init
  <2>2. cds \in [Letters -> Prog \cup {NoProg}] /\ pd \in [Types -> Prog \cup {NoProg}]
    BY DEF Init
  <2>3. chain \in Seq(Prog) /\ box \in Frames \cup {<<>>}
    BY DEF Init
  <2>4. st \in [Prog -> {"new", "starting", "resident", "failed", "broken"}]
    BY DEF Init
  <2>5. drive \in Letters /\ mac \in Macs /\ tries \in 0 .. ArpTries /\ left \in 0 .. ArpTicks
    BY <1>0 DEF Init, Letters, Macs
  <2> QED
    BY <2>1, <2>2, <2>3, <2>4, <2>5 DEF Init, TypeOK
<1>2. \A p \in Prog : Absent(p)
  BY <1>0 DEF Init, Absent, Types, Letters
<1> QED
  BY <1>0, <1>1, <1>2 DEF Init, IInv, OneAtATime, HandlesOwned, ResidentReady,
     FailedLeavesNothing, Types

LEMMA TypeStep ==
    ASSUME IInv, [Next]_vars
    PROVE  TypeOK'
<1>0. ArpTries \in Nat /\ ArpTicks \in Nat /\ NoProg \notin Prog
  BY StartupAssumption DEF Prog, NoProg
<1>1. TypeOK /\ (cur # NoProg => cur \in Prog)
  BY DEF IInv, TypeOK
<1>2. CASE Start
  <2>1. PICK p \in Prog : st' = [st EXCEPT ![p] = "starting"] /\ cur' = p
    BY <1>2 DEF Start
  <2>2. st' \in [Prog -> {"new", "starting", "resident", "failed", "broken"}]
    BY <1>1, <2>1 DEF TypeOK
  <2>3. drive' \in Letters /\ mac' \in Macs /\ tries' \in 0 .. ArpTries /\ left' \in 0 .. ArpTicks
    BY <1>0, <1>2 DEF Start, Fresh, Letters, Macs
  <2>4. /\ server' \in Hosts \cup {NoHost} /\ box' \in Frames \cup {<<>>}
        /\ ipHandle' \in BOOLEAN /\ arpHandle' \in BOOLEAN
        /\ cur' \in Prog \cup {NoProg} /\ pc' \in Places \cup {"dos"}
    BY <1>2, <2>1 DEF Start, Fresh, Places
  <2>5. UNCHANGED <<pd, stays>>
    BY <1>2 DEF Start
  <2> QED
    BY <1>1, <2>2, <2>3, <2>4, <2>5 DEF TypeOK, stays
<1>3. CASE \E file \in Files, profile \in Profiles : Load(file, profile)
  <2>1. UNCHANGED <<st, cur, params, arp, handles, stays>> /\ pc' = "checks"
    BY <1>3 DEF Load, GoTo
  <2> QED
    BY <1>1, <2>1 DEF TypeOK, params, arp, handles, stays, Places
<1>4. CASE Checks
  <2>1. drive' \in Letters /\ server' \in Hosts \cup {NoHost}
    <3>1. ParseIp4(cfg.servername) \in Hosts \cup {NoHost}
      BY DEF ParseIp4
    <3>2. \A l \in 2 .. 25 : l \in Letters
      BY DEF Letters
    <3> QED
      BY <1>1, <1>4, <3>1, <3>2 DEF Checks, TypeOK, params
  <2> QED
    BY <1>1, <1>4, <2>1 DEF Checks, Exit, GoTo, At, TypeOK, arp, handles, stays, Places
<1>5. CASE OpenIp
  BY <1>1, <1>5 DEF OpenIp, Access, Exit, GoTo, At, TypeOK, params, arp, stays, Places, Types
<1>6. CASE GetAddress
  BY <1>1, <1>6 DEF GetAddress, ReleaseIp, Release, Exit, GoTo, At, TypeOK, params, arp, handles, stays, Places, Types
<1>7. CASE OpenArp
  <2>1. tries' \in 0 .. ArpTries
    BY <1>0, <1>7 DEF OpenArp
  <2>2. /\ st' \in [Prog -> {"new", "starting", "resident", "failed", "broken"}]
        /\ cur' \in Prog \cup {NoProg} /\ pc' \in Places \cup {"dos"}
        /\ ipHandle' \in BOOLEAN /\ arpHandle' \in BOOLEAN
    BY <1>1, <1>7 DEF OpenArp, ReleaseIp, Exit, GoTo, At, TypeOK, Places
  <2>3. pd' \in [Types -> Prog \cup {NoProg}]
    BY <1>1, <1>7 DEF OpenArp, ReleaseIp, Access, Release, At, TypeOK
  <2>4. UNCHANGED <<params, mac, left, box, stays>>
    BY <1>7 DEF OpenArp
  <2> QED
    BY <1>1, <2>1, <2>2, <2>3, <2>4 DEF TypeOK, params, stays
<1>8. CASE ArpSend
  BY <1>0, <1>1, <1>8 DEF ArpSend, GoTo, At, TypeOK, params, handles, stays, Places
<1>9. CASE ArpLook
  <2>1. box \in Frames => box.from \in Hosts
    BY StartupAssumption
  <2>2. mac' \in Macs /\ left' \in 0 .. ArpTicks
    BY <1>0, <1>1, <1>9, <2>1 DEF ArpLook, TypeOK, Macs
  <2> QED
    BY <1>1, <1>9, <2>2, ZenonT(30) DEF ArpLook, ReleaseArp, Release, GoTo, At, TypeOK, params, stays, handles, control, Places, Types
<1>10. CASE ArpTimeout
  <2>1. tries' \in 0 .. ArpTries
    BY <1>0, <1>1, <1>10 DEF ArpTimeout, IInv, Progress, At, TypeOK
  <2> QED
    BY <1>1, <1>10, <2>1 DEF ArpTimeout, GoTo, At, TypeOK, params, handles, stays, Places
<1>11. CASE ArpFailed
  BY <1>1, <1>11, ZenonT(30) DEF ArpFailed, ReleaseArp, ReleaseIp, Release, Exit, At, TypeOK, params, arp, stays, control, Types
<1>12. CASE TnfsMount
  BY <1>1, <1>12 DEF TnfsMount, ReleaseIp, Release, Exit, GoTo, At, TypeOK, params, arp, handles, Places, Types
<1>13. CASE InitCds
  <2>1. cds' \in [Letters -> Prog \cup {NoProg}]
    BY <1>1, <1>13 DEF InitCds, TypeOK
  <2> QED
    BY <1>1, <1>13, <2>1 DEF InitCds, GoTo, At, TypeOK, params, arp, handles, Places
<1>14. CASE SetVector
  <2>1. chain' \in Seq(Prog)
    BY <1>1, <1>14 DEF SetVector, At, TypeOK
  <2> QED
    BY <1>1, <1>14, <2>1 DEF SetVector, GoTo, At, TypeOK, params, arp, handles, Places
<1>15. CASE GoResident
  <2>1. image' \in [Prog -> {<<>>} \cup [drive : Letters, server : Hosts \cup {NoHost}, mac : Macs]]
    BY <1>1, <1>15 DEF GoResident, TypeOK
  <2>2. st' \in [Prog -> {"new", "starting", "resident", "failed", "broken"}]
    BY <1>1, <1>15 DEF GoResident, TypeOK
  <2> QED
    BY <1>1, <1>15, <2>1, <2>2 DEF GoResident, At, TypeOK, params, arp, handles
<1>16. CASE Tick
  BY <1>0, <1>1, <1>16 DEF Tick, At, TypeOK, control, params, handles, stays
<1>17. CASE Break
  BY <1>1, <1>17 DEF Break, TypeOK, params, arp, handles, stays
<1>18. CASE \E f \in Frames : Deliver(f)
  BY <1>1, <1>18 DEF Deliver, TypeOK, control, params, handles, stays
<1>19. CASE \E type \in Types : PdRel(type)
  BY <1>1, <1>19 DEF PdRel, Release, TypeOK, control, params, arp, stays
<1>20. CASE UNCHANGED vars
  BY <1>1, <1>20 DEF TypeOK, vars, control, params, arp, handles, stays
<1> QED
  BY <1>2, <1>3, <1>4, <1>5, <1>6, <1>7, <1>8, <1>9, <1>10, <1>11, <1>12, <1>13, <1>14, <1>15,
     <1>16, <1>17, <1>18, <1>19, <1>20 DEF Next, Foreground

\* A step of q's that takes nothing from p leaves p as it was.
LEMMA Kept ==
    ASSUME TypeOK, NEW p \in Prog, NEW q \in Prog \ {p}, image'[p] = image[p],
           chain' = chain \/ chain' = Append(chain, q),
           \A type \in Types : pd'[type] = p <=> pd[type] = p,
           p \in mounted' <=> p \in mounted,
           \A l \in Letters : cds'[l] = p => cds[l] = p
    PROVE  (Absent(p) => Absent(p)') /\ (Ready(p) => Ready(p)')
<1>1. /\ \A i \in DOMAIN chain : i \in DOMAIN chain' /\ chain'[i] = chain[i]
      /\ \A i \in DOMAIN chain' : i \in DOMAIN chain \/ chain'[i] # p
  <2>1. chain \in Seq(Prog)
    BY DEF TypeOK
  <2>2. CASE chain' = chain
    BY <2>2
  <2>3. CASE chain' = Append(chain, q)
    <3>1. /\ DOMAIN chain = 1 .. Len(chain) /\ DOMAIN chain' = 1 .. Len(chain) + 1
          /\ Len(chain) \in Nat
      BY <2>1, <2>3
    <3>2. /\ \A i \in 1 .. Len(chain) : chain'[i] = chain[i]
          /\ chain'[Len(chain) + 1] = q
      BY <2>1, <2>3
    <3> QED
      BY <3>1, <3>2
  <2> QED
    BY <2>2, <2>3
<1>2. Absent(p) => Absent(p)'
  BY <1>1 DEF Absent
<1>3. ASSUME Ready(p) PROVE Ready(p)'
  <2>1. \E i \in DOMAIN chain' : \A j \in DOMAIN chain' : chain'[j] = p <=> j = i
    <3>1. PICK i \in DOMAIN chain : \A j \in DOMAIN chain : chain[j] = p <=> j = i
      BY <1>3 DEF Ready
    <3> QED
      BY <1>1, <3>1
  <2> QED
    BY <1>3, <2>1 DEF Ready, Types
<1> QED
  BY <1>2, <1>3

\* The start in progress gives up with no handle left: nothing of it remains.
LEMMA ExitIsClean ==
    ASSUME IInv, cur # NoProg, pc \notin {"cds", "vector", "tsr"}, Exit,
           \A type \in Types : pd'[type] = pd[type] \/ (pd[type] = cur /\ pd'[type] = NoProg),
           \A type \in Types : pd'[type] # cur,
           UNCHANGED stays
    PROVE  OneAtATime' /\ HandlesOwned' /\ ResidentReady' /\ FailedLeavesNothing' /\ cur' = NoProg
<1>1. cur \in Prog /\ cur' = NoProg /\ pc' = "dos" /\ NoProg \notin Prog
  BY StartupAssumption DEF IInv, TypeOK, Exit, Prog, NoProg
<1>2. \A p \in Prog : st'[p] = IF p = cur THEN "failed" ELSE st[p]
  BY <1>1 DEF Exit, IInv, TypeOK
<1>3. \A p \in Prog : p # cur => (Absent(p) => Absent(p)') /\ (Ready(p) => Ready(p)')
  BY <1>1, Kept DEF stays, IInv
<1>4. ASSUME NEW p \in Prog, p = cur PROVE Absent(p)'
  <2>0. Progress
    BY DEF IInv
  <2>1. \A l \in Letters : cds[l] # cur
    BY <2>0 DEF Progress
  <2>2. cur \notin mounted /\ \A i \in DOMAIN chain : chain[i] # cur
    BY <2>0 DEF Progress
  <2> QED
    BY <1>4, <2>1, <2>2 DEF Absent, stays
<1>5. HandlesOwned'
  <2>1. ASSUME NEW type \in Types, pd'[type] # NoProg
        PROVE  st'[pd'[type]] \in {"starting", "resident", "broken"}
    <3>1. pd'[type] = pd[type] /\ pd[type] \in Prog
      BY <2>1 DEF IInv, TypeOK
    <3> QED
      BY <1>2, <2>1, <3>1 DEF IInv, HandlesOwned
  <2> QED
    BY <1>1, <2>1 DEF HandlesOwned
<1>6. OneAtATime'
  BY <1>1, <1>2, <1>3 DEF OneAtATime, IInv
<1> QED
  BY <1>1, <1>2, <1>3, <1>4, <1>5, <1>6 DEF ResidentReady, FailedLeavesNothing, IInv

\* The start in progress goes on: only its own static data and handles change.
LEMMA StartGoesOn ==
    ASSUME IInv, cur # NoProg, UNCHANGED <<st, cur, image>>, pc' # "dos",
           chain' = chain \/ chain' = Append(chain, cur),
           mounted' = mounted \/ mounted' = mounted \cup {cur},
           \A l \in Letters : cds'[l] \in {cds[l], cur},
           \A type \in Types : pd'[type] = pd[type] \/ (pd[type] = NoProg /\ pd'[type] = cur)
                                                    \/ (pd[type] = cur /\ pd'[type] = NoProg),
           ipHandle' <=> pd'["IP"] = cur, arpHandle' <=> pd'["ARP"] = cur
    PROVE  OneAtATime' /\ HandlesOwned' /\ ResidentReady' /\ FailedLeavesNothing'
<1>1. cur \in Prog /\ NoProg \notin Prog /\ st[cur] = "starting"
  BY StartupAssumption DEF IInv, TypeOK, OneAtATime, Prog, NoProg
<1>2. \A p \in Prog : p # cur => (Absent(p) => Absent(p)') /\ (Ready(p) => Ready(p)')
  BY <1>1, Kept DEF IInv
<1>3. HandlesOwned'
  BY <1>1 DEF HandlesOwned, IInv, Types
<1>4. OneAtATime'
  BY <1>1, <1>2 DEF OneAtATime, IInv
<1> QED
  BY <1>1, <1>2, <1>3, <1>4 DEF ResidentReady, FailedLeavesNothing, IInv

\* Progress is about the program being started and what it has left so far.
LEMMA ProgressStep ==
    ASSUME IInv, [Next]_vars, cur' # NoProg
    PROVE  Progress'
<1>0. cur # NoProg => Progress /\ cur \in Prog
  BY DEF IInv, TypeOK
<1>1. CASE Start
  <2>1. PICK p \in Prog : st[p] = "new" /\ cur' = p
    BY <1>1 DEF Start
  <2>2. Absent(p)
    BY <2>1 DEF IInv, OneAtATime
  <2> QED
    BY <1>1, <2>1, <2>2 DEF Start, Fresh, Progress, Absent, stays, HasIp, Found
<1>2. CASE \E file \in Files, profile \in Profiles : Load(file, profile)
  BY <1>0, <1>2 DEF Load, GoTo, At, Progress, params, arp, handles, stays, HasIp, Found
<1>3. CASE Checks
  BY <1>0, <1>3 DEF Checks, GoTo, Exit, At, Progress, arp, handles, stays, HasIp, Found
<1>4. CASE OpenIp
  BY <1>0, <1>4 DEF OpenIp, GoTo, Exit, At, Progress, params, arp, stays, HasIp, Found
<1>5. CASE GetAddress
  <2>1. /\ pc = "getAddress" /\ pc' = "openArp" /\ cur' = cur /\ cur # NoProg
        /\ UNCHANGED <<handles, drive, stays>>
    BY <1>5 DEF GetAddress, GoTo, Exit, At, params
  <2> QED
    BY <1>0, <2>1 DEF Progress, handles, stays, HasIp, Found
<1>6. CASE OpenArp
  <2>1. 0 < ArpTries
    BY StartupAssumption
  <2> QED
    <3>1. /\ pc = "openArp" /\ pc' = "arpSend" /\ cur' = cur /\ cur # NoProg
          /\ tries' = 0 /\ arpHandle' = TRUE /\ ipHandle' = ipHandle
          /\ UNCHANGED <<drive, mounted, cds, chain>>
      BY <1>6 DEF OpenArp, GoTo, Exit, At, params, stays
    <3> QED
      BY <1>0, <2>1, <3>1 DEF Progress, HasIp, Found
<1>7. CASE ArpSend
  BY <1>0, <1>7 DEF ArpSend, GoTo, At, Progress, params, handles, stays, HasIp, Found
<1>8. CASE ArpLook
  <2>1. box \in Frames => box.from \in Hosts
    BY StartupAssumption
  <2>2. box \in Frames
    BY <1>8 DEF ArpLook, IInv, TypeOK
  <2> QED
    BY <1>0, <1>8, <2>1, <2>2 DEF ArpLook, IsAnswer, ReleaseArp, GoTo, At, Progress, params, handles,
       control, stays, HasIp, Found
<1>9. CASE ArpTimeout
  BY <1>0, <1>9 DEF ArpTimeout, GoTo, At, Progress, params, handles, stays, HasIp, Found
<1>10. CASE ArpFailed
  BY <1>0, <1>10 DEF ArpFailed, ReleaseArp, Exit, At, Progress, params, arp, control, stays, HasIp, Found
<1>11. CASE TnfsMount
  <2>1. /\ pc = "mount" /\ pc' = "cds" /\ cur' = cur /\ cur # NoProg
        /\ mounted' = mounted \cup {cur} /\ ipHandle' = ipHandle /\ arpHandle' = arpHandle
        /\ UNCHANGED <<drive, server, mac, cds, chain>>
    BY <1>11 DEF TnfsMount, GoTo, Exit, At, params, arp, handles
  <2> QED
    BY <1>0, <2>1 DEF Progress, HasIp, Found
<1>12. CASE InitCds
  <2>1. \A l \in Letters : cds'[l] = cur => l = drive
    BY <1>0, <1>12 DEF InitCds, At, Progress, IInv, TypeOK
  <2> QED
    BY <1>0, <1>12, <2>1 DEF InitCds, GoTo, At, Progress, params, arp, handles, HasIp, Found
<1>13. CASE SetVector
  <2>1. /\ chain \in Seq(Prog) /\ chain' = Append(chain, cur)
        /\ \A i \in DOMAIN chain : chain[i] # cur
    BY <1>0, <1>13 DEF SetVector, At, Progress, IInv, TypeOK
  <2>2. \A j \in DOMAIN chain' : chain'[j] = cur <=> j = Len(chain) + 1
    BY <2>1
  <2>3. Len(chain) + 1 \in DOMAIN chain'
    BY <2>1
  <2> QED
    BY <1>0, <1>13, <2>2, <2>3 DEF SetVector, GoTo, At, Progress, params, arp, handles, HasIp, Found
<1>14. CASE GoResident \/ Break
  BY <1>14 DEF GoResident, Break
<1>15. CASE Tick
  BY <1>0, <1>15 DEF Tick, Progress, control, params, handles, stays
<1>16. CASE \E f \in Frames : Deliver(f)
  BY <1>0, <1>16 DEF Deliver, Progress, control, params, handles, stays
<1>17. CASE \E type \in Types : PdRel(type)
  BY <1>17 DEF PdRel, control
<1>18. CASE UNCHANGED vars
  BY <1>0, <1>18 DEF Progress, vars, control, params, arp, handles, stays
<1> QED
  BY <1>1, <1>2, <1>3, <1>4, <1>5, <1>6, <1>7, <1>8, <1>9, <1>10, <1>11, <1>12, <1>13, <1>14, <1>15,
     <1>16, <1>17, <1>18 DEF Next, Foreground

LEMMA OthersStep ==
    ASSUME IInv, [Next]_vars
    PROVE  OneAtATime' /\ HandlesOwned' /\ ResidentReady' /\ FailedLeavesNothing'
<1>0. NoProg \notin Prog /\ (cur # NoProg => cur \in Prog /\ Progress)
  BY DEF IInv, TypeOK, Prog, NoProg
<1>1. cur # NoProg => (ipHandle <=> pd["IP"] = cur) /\ (arpHandle <=> pd["ARP"] = cur)
  BY DEF IInv, HandlesOwned
<1>2. CASE Start
  <2>1. PICK p \in Prog : /\ st[p] = "new" /\ cur' = p
                          /\ st' = [st EXCEPT ![p] = "starting"]
    BY <1>2 DEF Start
  <2>2. \A q \in Prog : (Absent(q) => Absent(q)') /\ (Ready(q) => Ready(q)')
    BY <1>2 DEF Start, Absent, Ready, stays
  <2>3. \A q \in Prog : st'[q] = IF q = p THEN "starting" ELSE st[q]
    BY <2>1 DEF IInv, TypeOK
  <2>4. Absent(p)' /\ cur = NoProg /\ pc' = "load" /\ pd' = pd /\ ~ipHandle' /\ ~arpHandle'
    BY <1>2, <2>1, <2>2 DEF Start, Fresh, IInv, OneAtATime
  <2>5. OneAtATime'
    BY <1>0, <2>1, <2>2, <2>3, <2>4 DEF OneAtATime, IInv
  <2>6. HandlesOwned'
    <3>1. \A type \in Types : pd[type] # NoProg => pd[type] \in Prog
      BY DEF IInv, TypeOK
    <3> QED
      BY <1>0, <2>1, <2>3, <2>4, <3>1 DEF HandlesOwned, IInv, Absent, Types
  <2> QED
    BY <2>2, <2>3, <2>5, <2>6 DEF ResidentReady, FailedLeavesNothing, IInv
<1>3. CASE \E file \in Files, profile \in Profiles : Load(file, profile)
  <2>1. UNCHANGED <<st, cur, handles, stays>> /\ pc' = "checks" /\ cur # NoProg
    BY <1>3 DEF Load, GoTo, At
  <2> QED
    BY <1>1, <2>1, StartGoesOn DEF handles, stays
<1>4. CASE Checks
  <2>1. UNCHANGED <<handles, stays>> /\ cur # NoProg /\ pc = "checks"
    BY <1>4 DEF Checks, At
  <2>2. CASE GoTo("openIp")
    BY <1>1, <2>1, <2>2, StartGoesOn DEF handles, stays, GoTo
  <2>3. CASE Exit
    BY <1>0, <1>1, <2>1, <2>3, ExitIsClean DEF handles, Progress, HasIp, Types
  <2> QED
    BY <1>4, <2>2, <2>3 DEF Checks
<1>5. CASE OpenIp
  <2>1. UNCHANGED <<arpHandle, stays>> /\ cur # NoProg /\ pc = "openIp"
    BY <1>5 DEF OpenIp, At
  <2>2. CASE Access("IP") /\ ipHandle' = TRUE /\ GoTo("getAddress")
    BY <1>0, <1>1, <2>1, <2>2, StartGoesOn DEF Access, GoTo, stays, Types, IInv, TypeOK
  <2>3. CASE Exit /\ UNCHANGED <<pd, ipHandle>>
    BY <1>0, <1>1, <2>1, <2>3, ExitIsClean DEF Progress, HasIp, Types
  <2> QED
    BY <1>5, <2>2, <2>3 DEF OpenIp
<1>6. CASE GetAddress
  <2>1. UNCHANGED stays /\ cur # NoProg /\ pc = "getAddress"
    BY <1>6 DEF GetAddress, At
  <2>2. CASE GoTo("openArp") /\ UNCHANGED handles
    BY <1>1, <2>1, <2>2, StartGoesOn DEF GoTo, handles, stays
  <2>3. CASE ReleaseIp /\ Exit
    BY <1>0, <1>1, <2>1, <2>3, ExitIsClean DEF ReleaseIp, Release, Progress, HasIp, Types, IInv, TypeOK
  <2> QED
    BY <1>6, <2>2, <2>3 DEF GetAddress
<1>7. CASE OpenArp
  <2>1. UNCHANGED stays /\ cur # NoProg /\ pc = "openArp"
    BY <1>7 DEF OpenArp, At
  <2>2. CASE Access("ARP") /\ arpHandle' = TRUE /\ GoTo("arpSend") /\ UNCHANGED ipHandle
    BY <1>0, <1>1, <2>1, <2>2, StartGoesOn DEF Access, GoTo, stays, Types, IInv, TypeOK
  <2>3. CASE ReleaseIp /\ Exit
    BY <1>0, <1>1, <2>1, <2>3, ExitIsClean DEF ReleaseIp, Release, Progress, HasIp, Types, IInv, TypeOK
  <2> QED
    BY <1>7, <2>2, <2>3 DEF OpenArp
<1>8. CASE ArpSend \/ ArpTimeout
  <2>1. UNCHANGED <<st, cur, handles, stays>> /\ pc' # "dos" /\ cur # NoProg
    BY <1>8 DEF ArpSend, ArpTimeout, GoTo, At
  <2> QED
    BY <1>1, <2>1, StartGoesOn DEF handles, stays
<1>9. CASE ArpLook
  <2>1. UNCHANGED <<st, cur, stays>> /\ pc' # "dos" /\ cur # NoProg /\ pc = "arpWait"
    BY <1>9 DEF ArpLook, GoTo, At, control
  <2>2. UNCHANGED handles \/ ReleaseArp
    BY <1>9 DEF ArpLook
  <2>3. CASE UNCHANGED handles
    BY <1>1, <2>1, <2>3, StartGoesOn DEF handles, stays
  <2>4. CASE ReleaseArp
    <3>1. /\ pd["ARP"] = cur /\ pd' = [pd EXCEPT !["ARP"] = NoProg] /\ arpHandle' = FALSE
          /\ UNCHANGED ipHandle
      BY <1>0, <1>1, <2>1, <2>4 DEF ReleaseArp, Release, Progress
    <3>2. pd'["ARP"] = NoProg /\ pd'["IP"] = pd["IP"]
      BY <3>1 DEF Types, IInv, TypeOK
    <3> QED
      BY <1>0, <1>1, <2>1, <3>1, <3>2, StartGoesOn DEF stays, Types
  <2> QED
    BY <2>2, <2>3, <2>4
<1>10. CASE ArpFailed
  <2>1. UNCHANGED stays /\ cur # NoProg /\ pc = "arpFailed"
    BY <1>10 DEF ArpFailed, At
  <2>2. CASE arpHandle /\ ReleaseArp /\ UNCHANGED control
    <3>1. /\ pd["ARP"] = cur /\ pd' = [pd EXCEPT !["ARP"] = NoProg] /\ arpHandle' = FALSE
          /\ UNCHANGED <<ipHandle, st, cur, pc, stays>>
      BY <1>1, <2>1, <2>2 DEF ReleaseArp, Release, control
    <3>2. pd'["ARP"] = NoProg /\ pd'["IP"] = pd["IP"]
      BY <3>1 DEF Types, IInv, TypeOK
    <3> QED
      BY <1>0, <1>1, <2>1, <3>1, <3>2, StartGoesOn DEF stays, Types
  <2>3. CASE ~arpHandle /\ ReleaseIp /\ Exit
    BY <1>0, <1>1, <2>1, <2>3, ExitIsClean DEF ReleaseIp, Release, Progress, HasIp, Types, IInv, TypeOK
  <2> QED
    BY <1>10, <2>2, <2>3 DEF ArpFailed
<1>11. CASE TnfsMount
  <2>1. UNCHANGED <<cds, chain, image>> /\ cur # NoProg /\ pc = "mount"
    BY <1>11 DEF TnfsMount, At
  <2>2. CASE mounted' = mounted \cup {cur} /\ GoTo("cds") /\ UNCHANGED handles
    BY <1>1, <2>1, <2>2, StartGoesOn DEF GoTo, handles
  <2>3. CASE ReleaseIp /\ Exit /\ UNCHANGED mounted
    BY <1>0, <1>1, <2>1, <2>3, ExitIsClean DEF ReleaseIp, Release, Progress, HasIp, Types, stays, IInv, TypeOK
  <2> QED
    BY <1>11, <2>2, <2>3 DEF TnfsMount
<1>12. CASE InitCds
  <2>1. \A l \in Letters : cds'[l] \in {cds[l], cur}
    BY <1>12 DEF InitCds, IInv, TypeOK
  <2>2. UNCHANGED <<st, cur, handles, mounted, chain, image>> /\ pc' # "dos" /\ cur # NoProg
    BY <1>12 DEF InitCds, GoTo, At
  <2> QED
    BY <1>1, <2>1, <2>2, StartGoesOn DEF handles
<1>13. CASE SetVector
  <2>1. /\ UNCHANGED <<st, cur, handles, mounted, cds, image>> /\ pc' # "dos" /\ cur # NoProg
        /\ chain' = Append(chain, cur)
    BY <1>13 DEF SetVector, GoTo, At
  <2> QED
    BY <1>1, <2>1, StartGoesOn DEF handles
<1>14. CASE GoResident
  <2>1. /\ cur # NoProg /\ pc = "tsr" /\ cur' = NoProg /\ pc' = "dos"
        /\ UNCHANGED <<pd, ipHandle, arpHandle, mounted, cds, chain>>
    BY <1>14 DEF GoResident, At, handles
  <2>2. \A p \in Prog : st'[p] = IF p = cur THEN "resident" ELSE st[p]
    BY <1>0, <1>14, <2>1 DEF GoResident, IInv, TypeOK
  <2>3. \A p \in Prog : image'[p] = IF p = cur THEN [drive |-> drive, server |-> server, mac |-> mac]
                                    ELSE image[p]
    BY <1>0, <1>14, <2>1 DEF GoResident, IInv, TypeOK
  <2>4. \A p \in Prog : p # cur => (Absent(p) => Absent(p)') /\ (Ready(p) => Ready(p)')
    BY <2>1, <2>3 DEF Absent, Ready
  <2>5. ASSUME NEW p \in Prog, p = cur PROVE Ready(p)'
    <3>1. /\ image'[p].drive = drive /\ image'[p].server = server /\ image'[p].mac = mac
          /\ ipHandle /\ ~arpHandle
      BY <1>0, <2>1, <2>3, <2>5 DEF Progress, HasIp
    <3> QED
      BY <1>0, <1>1, <2>1, <2>5, <3>1 DEF Ready, Progress, Found
  <2>6. OneAtATime'
    BY <1>0, <2>1, <2>2, <2>4 DEF OneAtATime, IInv
  <2>7. HandlesOwned'
    <3>1. \A type \in Types : pd[type] # NoProg => pd[type] \in Prog
      BY DEF IInv, TypeOK
    <3> QED
      BY <2>1, <2>2, <3>1 DEF HandlesOwned, IInv
  <2> QED
    BY <2>2, <2>4, <2>5, <2>6, <2>7 DEF ResidentReady, FailedLeavesNothing, IInv
<1>15. CASE Break
  <2>1. /\ cur # NoProg /\ cur' = NoProg /\ pc' = "dos" /\ UNCHANGED <<handles, stays>>
    BY <1>15 DEF Break
  <2>2. \A p \in Prog : st'[p] = IF p = cur THEN "broken" ELSE st[p]
    BY <1>0, <1>15, <2>1 DEF Break, IInv, TypeOK
  <2>3. \A p \in Prog : (Absent(p) => Absent(p)') /\ (Ready(p) => Ready(p)')
    BY <2>1 DEF Absent, Ready, handles, stays
  <2>4. OneAtATime'
    BY <1>0, <2>1, <2>2, <2>3 DEF OneAtATime, IInv
  <2>5. HandlesOwned'
    <3>1. \A type \in Types : pd[type] # NoProg => pd[type] \in Prog
      BY DEF IInv, TypeOK
    <3> QED
      BY <2>1, <2>2, <3>1 DEF HandlesOwned, IInv, handles
  <2> QED
    BY <2>2, <2>3, <2>4, <2>5 DEF ResidentReady, FailedLeavesNothing, IInv
<1>16. CASE \E type \in Types : PdRel(type)
  <2>1. PICK type \in Types : PdRel(type)
    BY <1>16
  <2>2. /\ cur = NoProg /\ st[pd[type]] = "broken" /\ pd[type] # NoProg
        /\ pd' = [pd EXCEPT ![type] = NoProg] /\ UNCHANGED <<st, cur, pc, stays>>
    BY <2>1 DEF PdRel, Release, control
  <2>3. \A t \in Types : pd'[t] = IF t = type THEN NoProg ELSE pd[t]
    BY <2>2 DEF IInv, TypeOK
  <2>4. \A p \in Prog : /\ Absent(p) => Absent(p)'
                        /\ st[p] = "resident" /\ Ready(p) => Ready(p)'
    BY <1>0, <2>2, <2>3 DEF Absent, Ready, stays, Types
  <2>5. OneAtATime' /\ HandlesOwned'
    BY <1>0, <2>2, <2>3, <2>4 DEF OneAtATime, HandlesOwned, IInv
  <2> QED
    BY <2>2, <2>4, <2>5 DEF ResidentReady, FailedLeavesNothing, IInv
<1>17. CASE Tick \/ (\E f \in Frames : Deliver(f)) \/ UNCHANGED vars
  <2>1. UNCHANGED <<control, handles, stays>>
    BY <1>17 DEF Tick, Deliver, vars
  <2> QED
    BY <2>1 DEF control, handles, stays, IInv, OneAtATime, HandlesOwned, ResidentReady, Ready,
       FailedLeavesNothing, Absent
<1> QED
  BY <1>2, <1>3, <1>4, <1>5, <1>6, <1>7, <1>8, <1>9, <1>10, <1>11, <1>12, <1>13, <1>14, <1>15,
     <1>16, <1>17 DEF Next, Foreground

THEOREM Invariance == Spec => []IInv
<1>1. IInv /\ [Next]_vars => IInv'
  BY TypeStep, ProgressStep, OthersStep DEF IInv
<1> QED
  BY InitInv, <1>1, PTL DEF Spec

\* Every variable stays in its range, whatever the configuration files say.
THEOREM TypeCorrect == Spec => []TypeOK
<1>1. IInv => TypeOK
  BY DEF IInv
<1> QED
  BY Invariance, <1>1, PTL

\* The packet driver's handles are those the live programs count on, or were
\* left by Ctrl-C: no error path of netw_connect or of the mount loses one.
THEOREM HandlesAreOwned == Spec => []HandlesOwned
<1>1. IInv => HandlesOwned
  BY DEF IInv
<1> QED
  BY Invariance, <1>1, PTL

\* A program that stays resident has all it needs.
THEOREM ResidentIsReady == Spec => []ResidentReady
<1>1. IInv => ResidentReady
  BY DEF IInv
<1> QED
  BY Invariance, <1>1, PTL

\* At most one program is resident: each would hold the one IP handle.
THEOREM AtMostOneResident == Spec => []OneResident
<1>1. IInv => OneResident
  BY DEF IInv, ResidentReady, Ready, OneResident
<1> QED
  BY Invariance, <1>1, PTL

\* A start that fails leaves the machine as it found it.
THEOREM FailureIsClean == Spec => []FailedLeavesNothing
<1>1. IInv => FailedLeavesNothing
  BY DEF IInv
<1> QED
  BY Invariance, <1>1, PTL
-----------------------------------------------------------------------------
(* The configuration: the two scans of the file find what it means.        *)

\* A file as FilesAssumption has it.
IsFile(file) ==
    /\ Len(file) \in Nat /\ DOMAIN file = 1 .. Len(file)
    /\ \A i \in DOMAIN file : file[i].is = "section" => file[i] = Section(file[i].name)

LEMMA FilesAreFiles == ASSUME NEW file \in Files PROVE IsFile(file)
<1>1. PICK S : file \in Seq(S)
  BY FilesAssumption
<1>2. Len(file) \in Nat /\ DOMAIN file = 1 .. Len(file)
  BY <1>1
<1>3. \A i \in DOMAIN file : file[i].is = "section" => file[i] = Section(file[i].name)
  BY FilesAssumption
<1> QED
  BY <1>2, <1>3 DEF IsFile

\* A set of numbers that is not empty has a least one: their intervals 0 .. n
\* are well-founded under inclusion.
LEMMA LeastNumber ==
    ASSUME NEW T, T \subseteq Nat, T # {}
    PROVE  \E x \in T : \A y \in T : x <= y
<1> DEFINE U == {0 .. n : n \in T}
<1>1. U \subseteq FiniteSubsetsOf(Nat) /\ U # {}
  <2>1. ASSUME NEW n \in T PROVE 0 .. n \in FiniteSubsetsOf(Nat)
    <3>1. IsFiniteSet(0 .. n)
      BY FS_Interval
    <3> QED
      BY <3>1 DEF FiniteSubsetsOf
  <2> QED
    BY <2>1
<1>2. PICK u \in U : \A v \in U : ~(<<v, u>> \in StrictSubsetOrdering(Nat))
  <2> HIDE DEF U
  <2>1. IsWellFoundedOn(StrictSubsetOrdering(Nat), FiniteSubsetsOf(Nat))
    BY FS_StrictSubsetOrderingWellFounded
  <2> QED
    BY <1>1, <2>1, WFMin
<1>3. PICK x \in T : u = 0 .. x
  OBVIOUS
<1>4. ASSUME NEW y \in T, y < x PROVE FALSE
  <2>1. 0 .. y \subseteq 0 .. x /\ x \in 0 .. x /\ x \notin 0 .. y
    BY <1>4
  <2>2. <<0 .. y, 0 .. x>> \in StrictSubsetOrdering(Nat)
    BY <2>1 DEF StrictSubsetOrdering
  <2> QED
    BY <2>2, <1>2, <1>3
<1> QED
  BY <1>4

\* Induction up to N, over the set of the numbers for which something holds.
LEMMA InductionTo ==
    ASSUME NEW N \in Nat, NEW S, 0 \in S, \A n \in 0 .. N - 1 : n \in S => n + 1 \in S
    PROVE  0 .. N \subseteq S
<1> DEFINE T == {n \in 0 .. N : n \notin S}
<1> SUFFICES ASSUME T # {} PROVE FALSE
  OBVIOUS
<1>1. PICK x \in T : \A y \in T : x <= y
  <2>1. T \subseteq Nat
    OBVIOUS
  <2> HIDE DEF T
  <2> QED
    BY <2>1, LeastNumber
<1>2. x \in 1 .. N /\ x - 1 \in 0 .. N - 1
  OBVIOUS
<1>3. x - 1 \in S
  BY <1>1, <1>2
<1> QED
  BY <1>2, <1>3

\* Where the scan of apply_section is after the first n lines.
IsScan(g, file, section, start, n) ==
    g = [i \in 0 .. n |-> IF i = 0 THEN [in |-> FALSE, cfg |-> start]
                          ELSE ApplyLine(section, g[i - 1], file[i])]

\* The scan exists: ApplySection is what its recursive definition says.
LEMMA ScanExists ==
    ASSUME NEW file, NEW section, NEW start, NEW N \in Nat
    PROVE  \E g : IsScan(g, file, section, start, N)
<1> DEFINE S == {n \in 0 .. N : \E g : IsScan(g, file, section, start, n)}
<1>1. 0 \in S
  <2>1. IsScan([i \in 0 .. 0 |-> [in |-> FALSE, cfg |-> start]], file, section, start, 0)
    BY DEF IsScan
  <2> QED
    BY <2>1
<1>2. ASSUME NEW n \in 0 .. N - 1, n \in S PROVE n + 1 \in S
  <2>1. PICK g : IsScan(g, file, section, start, n)
    BY <1>2
  <2>2. DOMAIN g = 0 .. n
    BY <2>1 DEF IsScan
  <2>3. PICK h : h = [i \in 0 .. n + 1 |-> IF i = n + 1 THEN ApplyLine(section, g[n], file[n + 1]) ELSE g[i]]
    OBVIOUS
  <2>4. ASSUME NEW i \in 0 .. n + 1
        PROVE  h[i] = IF i = 0 THEN [in |-> FALSE, cfg |-> start]
                      ELSE ApplyLine(section, h[i - 1], file[i])
    <3>1. CASE i = n + 1
      BY <3>1, <2>3
    <3>2. CASE i # n + 1
      <4>1. i \in 0 .. n /\ h[i] = g[i] /\ (i # 0 => h[i - 1] = g[i - 1])
        BY <3>2, <2>3
      <4> QED
        BY <4>1, <2>1 DEF IsScan
    <3> QED
      BY <3>1, <3>2
  <2>5. IsScan(h, file, section, start, n + 1)
    BY <2>3, <2>4 DEF IsScan
  <2> QED
    BY <2>5
<1>3. 0 .. N \subseteq S
  <2> HIDE DEF S
  <2> QED
    BY <1>1, <1>2, InductionTo
<1> QED
  BY <1>3

LEMMA ApplySectionScans ==
    ASSUME NEW file, IsFile(file), NEW section, NEW start
    PROVE  \E g : /\ IsScan(g, file, section, start, Len(file))
                  /\ ApplySection(file, section, start) = g[Len(file)].cfg
<1> DEFINE Def(g) == g = [i \in 0 .. Len(file) |-> IF i = 0 THEN [in |-> FALSE, cfg |-> start]
                          ELSE ApplyLine(section, g[i - 1], file[i])]
<1>1. \E g : Def(g)
  <2>1. PICK g : IsScan(g, file, section, start, Len(file))
    BY ScanExists DEF IsFile
  <2> QED
    BY <2>1 DEF IsScan
<1>2. PICK g : g = CHOOSE h : Def(h)
  OBVIOUS
<1>3. Def(g)
  <2> HIDE DEF Def
  <2> QED
    BY <1>1, <1>2
<1>4. ApplySection(file, section, start) = g[Len(file)].cfg
  BY <1>2 DEF ApplySection
<1> QED
  BY <1>3, <1>4 DEF IsScan

\* The keys of the configuration; no other is accepted.
Keys == DOMAIN ConfigDefaults

LEMMA AcceptedIsKey == ASSUME NEW key, NEW value, Accepts(key, value) PROVE key \in Keys
BY DEF Accepts, Keys, ConfigDefaults, TextKeys

\* A heading is under itself or not, another line goes with the one before it.
LEMMA UnderStep ==
    ASSUME NEW file, IsFile(file), NEW section, NEW n \in 0 .. Len(file) - 1
    PROVE  n + 1 \in Under(file, section) <=>
              IF file[n + 1].is = "section" THEN file[n + 1].name = section
              ELSE n \in Under(file, section)
<1> PICK N \in Nat : N = Len(file)
  BY DEF IsFile
<1>1. DOMAIN file = 1 .. N /\ n \in 0 .. N - 1 /\ n + 1 \in DOMAIN file
  BY DEF IsFile
<1>2. Section(section).is = "section" /\ Section(section).name = section
  BY DEF Section
<1>3. CASE file[n + 1].is = "section"
  <2>1. file[n + 1] = Section(file[n + 1].name)
    BY <1>1, <1>3 DEF IsFile
  <2>2. ASSUME n + 1 \in Under(file, section) PROVE file[n + 1].name = section
    <3>1. PICK h \in 1 .. n + 1 : file[h] = Section(section) /\ \A j \in h + 1 .. n + 1 : file[j].is # "section"
      BY <2>2 DEF Under
    <3>2. h = n + 1
      BY <3>1, <1>3
    <3> QED
      BY <3>1, <3>2, <1>2
  <2>3. ASSUME file[n + 1].name = section PROVE n + 1 \in Under(file, section)
    <3>1. n + 1 \in 1 .. n + 1 /\ n + 1 + 1 .. n + 1 = {}
      BY <1>1
    <3> QED
      BY <2>1, <2>3, <3>1, <1>1 DEF Under
  <2> QED
    BY <1>3, <2>2, <2>3
<1>4. CASE file[n + 1].is # "section"
  <2>1. ASSUME n + 1 \in Under(file, section) PROVE n \in Under(file, section)
    <3>1. PICK h \in 1 .. n + 1 : file[h] = Section(section) /\ \A j \in h + 1 .. n + 1 : file[j].is # "section"
      BY <2>1 DEF Under
    <3>2. h # n + 1
      BY <3>1, <1>2, <1>4
    <3>3. h \in 1 .. n /\ n \in DOMAIN file /\ \A j \in h + 1 .. n : file[j].is # "section"
      BY <3>1, <3>2, <1>1
    <3> QED
      BY <3>1, <3>3 DEF Under
  <2>2. ASSUME n \in Under(file, section) PROVE n + 1 \in Under(file, section)
    <3>1. PICK h \in 1 .. n : file[h] = Section(section) /\ \A j \in h + 1 .. n : file[j].is # "section"
      BY <2>2 DEF Under
    <3>2. h \in 1 .. n + 1 /\ \A j \in h + 1 .. n + 1 : j = n + 1 \/ j \in h + 1 .. n
      BY <1>1
    <3> QED
      BY <3>1, <3>2, <1>1, <1>4 DEF Under
  <2> QED
    BY <1>4, <2>1, <2>2
<1> QED
  BY <1>3, <1>4

\* The assignments among the first n lines, and what they make of a configuration.
Upto(file, section, key, n) == {i \in Assignments(file, section, key) : i <= n}
ValuesAfter(file, section, start, n) ==
    [key \in Keys |->
        IF Upto(file, section, key, n) # {}
        THEN Stored(key, file[LastOf(Upto(file, section, key, n))].value)
        ELSE start[key]]

LEMMA LastOfAdded ==
    ASSUME NEW T, NEW n \in Nat, \A x \in T : x \in Nat /\ x < n
    PROVE  LastOf(T \cup {n}) = n
BY DEF LastOf

\* One more line adds itself or nothing.
LEMMA UptoStep ==
    ASSUME NEW file, IsFile(file), NEW section, NEW key, NEW n \in 0 .. Len(file) - 1
    PROVE  /\ n + 1 \in Assignments(file, section, key) =>
                 \A x : x \in Upto(file, section, key, n + 1) <=> x \in Upto(file, section, key, n) \/ x = n + 1
           /\ n + 1 \notin Assignments(file, section, key) =>
                 Upto(file, section, key, n + 1) = Upto(file, section, key, n)
           /\ \A x \in Upto(file, section, key, n) : x \in Nat /\ x < n + 1
<1> PICK N \in Nat : N = Len(file)
  BY DEF IsFile
<1>1. Assignments(file, section, key) \subseteq 1 .. N
  BY DEF IsFile, Assignments, Under
<1>2. \A x \in 1 .. N : x <= n + 1 <=> x <= n \/ x = n + 1
  OBVIOUS
<1> QED
  BY <1>1, <1>2 DEF Upto

\* An assignment is an acceptable key line under its section.
LEMMA AssignmentAt ==
    ASSUME NEW file, IsFile(file), NEW section, NEW key, NEW i \in 1 .. Len(file)
    PROVE  i \in Assignments(file, section, key) <=>
              /\ i \in Under(file, section) /\ file[i].is = "key"
              /\ file[i].key = key /\ Accepts(key, file[i].value)
BY DEF Assignments, Under, IsFile

\* A line that assigns nothing leaves the values as they are.
LEMMA ValuesKept ==
    ASSUME NEW file, IsFile(file), NEW section, NEW start, NEW n \in 0 .. Len(file) - 1,
           \A key \in Keys : n + 1 \notin Assignments(file, section, key)
    PROVE  ValuesAfter(file, section, start, n + 1) = ValuesAfter(file, section, start, n)
<1>1. \A key \in Keys : Upto(file, section, key, n + 1) = Upto(file, section, key, n)
  BY UptoStep
<1> QED
  BY <1>1 DEF ValuesAfter

\* A key line in the section stores its value, if that is acceptable.
LEMMA KeyStep ==
    ASSUME NEW file, IsFile(file), NEW section, NEW start, NEW n \in 0 .. Len(file) - 1,
           file[n + 1].is = "key", n + 1 \in Under(file, section)
    PROVE  ApplyKey(ValuesAfter(file, section, start, n), file[n + 1])
              = ValuesAfter(file, section, start, n + 1)
<1> DEFINE line == file[n + 1]
           old == ValuesAfter(file, section, start, n)
           new == ValuesAfter(file, section, start, n + 1)
<1>0. n + 1 \in 1 .. Len(file) /\ n + 1 \in Nat
  BY DEF IsFile
<1>1. \A key \in Keys : n + 1 \in Assignments(file, section, key) <=> key = line.key /\ Accepts(key, line.value)
  BY <1>0, AssignmentAt
<1>2. CASE Accepts(line.key, line.value)
  <2>1. line.key \in Keys
    BY <1>2, AcceptedIsKey
  <2>2. DOMAIN old = Keys /\ DOMAIN new = Keys /\ new = [key \in Keys |-> new[key]]
    BY DEF ValuesAfter
  <2>3. new[line.key] = Stored(line.key, line.value)
    <3>0. PICK key \in Keys : key = line.key
      BY <2>1
    <3>1. /\ Upto(file, section, key, n + 1) = Upto(file, section, key, n) \cup {n + 1}
          /\ \A x \in Upto(file, section, key, n) : x \in Nat /\ x < n + 1
      <4>1. n + 1 \in Assignments(file, section, key)
        BY <1>1, <1>2, <3>0
      <4>2. Upto(file, section, key, n + 1) = Upto(file, section, key, n) \cup {n + 1}
        BY <4>1, UptoStep
      <4>3. \A x \in Upto(file, section, key, n) : x \in Nat /\ x < n + 1
        BY UptoStep
      <4> QED
        BY <4>2, <4>3
    <3>2. LastOf(Upto(file, section, key, n) \cup {n + 1}) = n + 1
      BY <3>1, <1>0, LastOfAdded
    <3> QED
      BY <3>0, <3>1, <3>2 DEF ValuesAfter
  <2>4. ASSUME NEW key \in Keys, key # line.key PROVE new[key] = old[key]
    <3>1. Upto(file, section, key, n + 1) = Upto(file, section, key, n)
      BY <1>1, <2>4, UptoStep
    <3> QED
      BY <3>1 DEF ValuesAfter
  <2>5. ApplyKey(old, line) = [old EXCEPT ![line.key] = Stored(line.key, line.value)]
    BY <1>2 DEF ApplyKey
  <2>6. ApplyKey(old, line) = new
    <3> HIDE DEF line, old, new
    <3> QED
      BY <2>1, <2>2, <2>3, <2>4, <2>5, ZenonT(30)
  <2> QED
    BY <2>6
<1>3. CASE ~Accepts(line.key, line.value)
  <2>1. ApplyKey(old, line) = old
    BY <1>3 DEF ApplyKey
  <2>2. \A key \in Keys : n + 1 \notin Assignments(file, section, key)
    BY <1>1, <1>3
  <2> QED
    BY <2>1, <2>2, ValuesKept
<1> QED
  BY <1>2, <1>3

\* After n lines the scan is in the section exactly if line n is under it, and
\* has made all assignments so far.
LEMMA ScanMeans ==
    ASSUME NEW file, IsFile(file), NEW section, NEW start, DOMAIN start = Keys,
           start = [key \in Keys |-> start[key]],
           NEW g, IsScan(g, file, section, start, Len(file))
    PROVE  g[Len(file)].cfg = ValuesAfter(file, section, start, Len(file))
<1> PICK N \in Nat : N = Len(file)
  BY DEF IsFile
<1> DEFINE After(n) == [in |-> (n \in Under(file, section)), cfg |-> ValuesAfter(file, section, start, n)]
           S == {n \in 0 .. N : g[n] = After(n)}
<1>1. 0 \in S
  <2>1. 0 \notin Under(file, section)
    BY DEF Under, IsFile
  <2>2. ValuesAfter(file, section, start, 0) = start
    <3>1. \A key \in Keys : Upto(file, section, key, 0) = {}
      BY DEF Upto, Assignments, Under, IsFile
    <3> QED
      BY <3>1 DEF ValuesAfter
  <2>3. g[0] = [in |-> FALSE, cfg |-> start]
    BY DEF IsScan
  <2>4. After(0) = [in |-> FALSE, cfg |-> start]
    <3>1. (0 \in Under(file, section)) = FALSE
      BY <2>1
    <3> QED
      BY <3>1, <2>2, Zenon
  <2> QED
    BY <2>3, <2>4
<1>2. ASSUME NEW n \in 0 .. N - 1, n \in S PROVE n + 1 \in S
  <2> DEFINE line == file[n + 1]
             old == ValuesAfter(file, section, start, n)
  <2>0. n \in 0 .. Len(file) - 1 /\ n + 1 \in 0 .. N /\ n + 1 \in 1 .. Len(file)
    OBVIOUS
  <2>1. g[n + 1] = ApplyLine(section, After(n), line)
    <3>1. g[n + 1] = ApplyLine(section, g[n], line)
      <4>1. \A i \in 0 .. N : i # 0 => g[i] = ApplyLine(section, g[i - 1], file[i])
        BY DEF IsScan
      <4>2. n + 1 # 0 /\ n + 1 - 1 = n
        OBVIOUS
      <4> QED
        BY <2>0, <4>1, <4>2
    <3> QED
      BY <3>1, <1>2
  <2>2. CASE line.is = "section"
    <3>1. ValuesAfter(file, section, start, n + 1) = old
      BY <2>0, <2>2, AssignmentAt, ValuesKept
    <3>2. n + 1 \in Under(file, section) <=> line.name = section
      BY <2>0, <2>2, UnderStep
    <3>3. ApplyLine(section, After(n), line) = [in |-> line.name = section, cfg |-> old]
      BY <2>2 DEF ApplyLine
    <3> QED
      BY <2>0, <2>1, <3>1, <3>2, <3>3
  <2>3. CASE line.is # "section"
    <3>1. n + 1 \in Under(file, section) <=> n \in Under(file, section)
      BY <2>0, <2>3, UnderStep
    <3>2. CASE line.is = "key" /\ n \in Under(file, section)
      <4>1. ApplyLine(section, After(n), line) = [in |-> (n \in Under(file, section)), cfg |-> ApplyKey(old, line)]
        BY <2>3, <3>2 DEF ApplyLine
      <4>2. ApplyKey(old, line) = ValuesAfter(file, section, start, n + 1)
        BY <2>0, <3>1, <3>2, KeyStep
      <4> QED
        BY <2>0, <2>1, <3>1, <4>1, <4>2
    <3>3. CASE ~(line.is = "key" /\ n \in Under(file, section))
      <4>1. ApplyLine(section, After(n), line) = After(n)
        BY <2>3, <3>3 DEF ApplyLine
      <4>2. ValuesAfter(file, section, start, n + 1) = old
        BY <2>0, <3>1, <3>3, AssignmentAt, ValuesKept
      <4> QED
        BY <2>0, <2>1, <3>1, <4>1, <4>2
    <3> QED
      BY <3>2, <3>3
  <2> QED
    BY <2>2, <2>3
<1>3. N \in S
  <2> HIDE DEF S
  <2> QED
    BY <1>1, <1>2, InductionTo
<1> QED
  BY <1>3

\* One scan gives each key its last acceptable assignment in the section.
LEMMA SectionMeans ==
    ASSUME NEW file, IsFile(file), NEW section, NEW start, start = [key \in Keys |-> start[key]]
    PROVE  ApplySection(file, section, start) =
              [key \in Keys |->
                  IF Assignments(file, section, key) # {}
                  THEN Stored(key, file[LastOf(Assignments(file, section, key))].value)
                  ELSE start[key]]
<1>1. PICK g : /\ IsScan(g, file, section, start, Len(file))
               /\ ApplySection(file, section, start) = g[Len(file)].cfg
  BY ApplySectionScans
<1>2. ApplySection(file, section, start) = ValuesAfter(file, section, start, Len(file))
  BY <1>1, ScanMeans
<1>3. ASSUME NEW key PROVE Upto(file, section, key, Len(file)) = Assignments(file, section, key)
  BY DEF Upto, Assignments, Under, IsFile
<1> QED
  BY <1>2, <1>3 DEF ValuesAfter

\* Both scans give what the file means.
LEMMA LoadMeans ==
    ASSUME NEW file \in Files, NEW profile
    PROVE  ConfigLoad(file, profile) = Meaning(file, profile)
<1> DEFINE general == [key \in Keys |->
                          IF Assignments(file, "default", key) # {}
                          THEN Stored(key, file[LastOf(Assignments(file, "default", key))].value)
                          ELSE ConfigDefaults[key]]
<1>0. IsFile(file)
  BY FilesAreFiles
<1>1. ApplySection(file, "default", ConfigDefaults) = general
  <2>1. ConfigDefaults = [key \in Keys |-> ConfigDefaults[key]]
    BY SMTT(60) DEF Keys, ConfigDefaults
  <2> QED
    BY <1>0, <2>1, SectionMeans
<1>2. CASE profile = "default"
  <2>1. Meaning(file, profile) = general
    BY <1>2 DEF Meaning, Keys
  <2> QED
    BY <1>1, <1>2, <2>1 DEF ConfigLoad
<1>3. CASE profile # "default"
  <2>1. ApplySection(file, profile, general) =
           [key \in Keys |->
               IF Assignments(file, profile, key) # {}
               THEN Stored(key, file[LastOf(Assignments(file, profile, key))].value)
               ELSE general[key]]
    <3>1. general = [key \in Keys |-> general[key]]
      OBVIOUS
    <3> HIDE DEF general
    <3> QED
      BY <1>0, <3>1, SectionMeans
  <2>2. Meaning(file, profile) =
           [key \in Keys |->
               IF Assignments(file, profile, key) # {}
               THEN Stored(key, file[LastOf(Assignments(file, profile, key))].value)
               ELSE general[key]]
    BY DEF Meaning, Keys
  <2>3. ConfigLoad(file, profile) = ApplySection(file, profile, general)
    BY <1>1, <1>3 DEF ConfigLoad
  <2> QED
    BY <2>1, <2>2, <2>3
<1> QED
  BY <1>2, <1>3

\* What a start goes by is what its file says, whatever the file.
THEOREM ConfigurationIsMeant == Spec => []ConfigMeans
<1>1. Init => ConfigMeans
  BY DEF Init, ConfigMeans
<1>2. ConfigMeans /\ [Next]_vars => ConfigMeans'
  <2> SUFFICES ASSUME ConfigMeans, [Next]_vars, pc' = "checks"
               PROVE  cfg' = Meaning(asked'.file, asked'.profile)
    BY DEF ConfigMeans
  <2>1. ASSUME NEW file \in Files, NEW profile \in Profiles, Load(file, profile)
        PROVE  cfg' = Meaning(asked'.file, asked'.profile)
    BY <2>1, LoadMeans DEF Load
  <2>2. CASE UNCHANGED <<control, config>>
    BY <2>2 DEF control, config, ConfigMeans
  <2>3. ~(Start \/ Checks \/ OpenIp \/ GetAddress \/ OpenArp \/ ArpSend \/ ArpTimeout
            \/ TnfsMount \/ InitCds \/ SetVector \/ GoResident \/ Break)
    BY DEF Start, Checks, OpenIp, GetAddress, OpenArp, ArpSend, ArpTimeout, TnfsMount, InitCds,
           SetVector, GoResident, Break, GoTo, Exit
  <2>4. CASE ArpLook
    BY <2>4, <2>2 DEF ArpLook, GoTo
  <2>5. CASE ArpFailed
    BY <2>5, <2>2 DEF ArpFailed, Exit
  <2>6. CASE Tick \/ (\E f \in Frames : Deliver(f)) \/ (\E type \in Types : PdRel(type))
    BY <2>6, <2>2 DEF Tick, Deliver, PdRel
  <2> QED
    BY <2>1, <2>2, <2>3, <2>4, <2>5, <2>6 DEF Next, Foreground, vars
<1> QED
  BY <1>1, <1>2, PTL DEF Spec

=============================================================================
