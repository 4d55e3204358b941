----------------------------- MODULE Redirector -----------------------------
(***************************************************************************)
(* The INT 2Fh AH=11h handlers of redirector.c over fs_tnfsmin.c: one      *)
(* action per subfunction, a whole DOS call each.  DOS passes the path in  *)
(* the SDA, keeps the search state in the DTA between FINDFIRST and        *)
(* FINDNEXT, and the open file in the SFT; all three belong to the caller  *)
(* and come back, unchecked, in later calls.                               *)
(*                                                                         *)
(* External: the server's answers (tnfsd over a POSIX tree), DOS itself,   *)
(* and other clients of the server (Foreign).                              *)
(***************************************************************************)
EXTENDS DirCache

CONSTANTS Search,     \* the DTAs with a search in them
          Template,   \* the FCB templates, each the set of names it matches
          Slot,       \* the SFT entries
          Fd,         \* the server's file handles
          NoFd,       \* 0xFF: the handle of an open that failed
          Uses,       \* what DOS does with the drive: groups of subfunctions
          Foreigners  \* whether other clients change the tree

ASSUME RedirectorAssumption ==
    /\ \A t \in Template : t \subseteq Short
    /\ NoFd \notin Fd /\ Foreigners \in BOOLEAN
    /\ Uses \subseteq {"dirs", "names", "attrs"}

VARIABLES
    cwd,  \* the CDS path
    dta,  \* per search: directory cursor and template; history: the directory
          \* ("dir"), the names to find, those found, in order, and whether the
          \* cache still lists that directory, whole ("intact")
    sft,  \* per entry: TNFS handle, position, size; history: the path asked for
    fds   \* the server's open files; "opened": the path the client named

dirVars == <<srv, cache>>
vars == <<dirVars, now, cwd, dta, sft, fds>>

NoSearch == [on |-> FALSE, idx |-> 0, tmpl |-> {}, dir |-> <<>>, want |-> {},
             found |-> <<>>, intact |-> FALSE, done |-> FALSE]
Closed == [open |-> FALSE, fd |-> NoFd, pos |-> 0, size |-> 0, asked |-> <<>>]
NoFile == [used |-> FALSE, path |-> <<>>, at |-> 0, opened |-> <<>>]

Init ==
    /\ CacheInit
    /\ cwd = <<>> /\ dta = [s \in Search |-> NoSearch]
    /\ sft = [s \in Slot |-> Closed] /\ fds = [d \in Fd |-> NoFile]

----------------------------------------------------------------------------
(* The server.                                                             *)
At(p, n) == [srv EXCEPT ![p] = n]
Fresh(p) == ~Exists(p) /\ IsDir(Parent(p))
CanRmdir(p) == IsDir(p) /\ Children(p) = {}
IsFile(p) == srv[p].kind = "file"

\* What is at x goes with p when p is renamed to q.
Under(p, x) == Len(x) >= Len(p) /\ SubSeq(x, 1, Len(p)) = p
Onto(q, p, x) == q \o SubSeq(x, Len(p) + 1, Len(x))
CanRename(p, q) ==
    /\ Exists(p) /\ IsDir(Parent(q)) /\ ~Under(p, q)
    /\ ~Exists(q) \/ (IsFile(p) /\ IsFile(q))
    /\ \A x \in Path : Under(p, x) /\ Exists(x) => Onto(q, p, x) \in Path
Renamed(p, q) == [x \in Path |->
    IF Under(q, x) THEN LET o == Onto(p, q, x) IN IF o \in Path THEN srv[o] ELSE Absent
    ELSE IF Under(p, x) THEN Absent ELSE srv[x]]

\* An open file follows its name; an unlinked one has no name any more (and
\* reads as empty: what is left of it matters to no property).
Detached(p) == [d \in Fd |-> IF fds[d].path = p THEN [fds[d] EXCEPT !.path = <<>>] ELSE fds[d]]
Moved(p, q) == [d \in Fd |->
    IF fds[d].used /\ Under(p, fds[d].path)
    THEN [fds[d] EXCEPT !.path = Onto(q, p, @)] ELSE Detached(q)[d]]

----------------------------------------------------------------------------
\* A search survives a call that leaves its entries where they are.
Survives(c) ==
    /\ c.path = cache.path /\ Len(cache.list) <= Len(c.list)
    /\ \A i \in DOMAIN cache.list : c.list[i].name = cache.list[i].name
Kept(c) == [s \in Search |-> [dta[s] EXCEPT !.intact = @ /\ Survives(c)]]

Leaves(c) == cache' = c /\ dta' = Kept(c)

\* Mutant: the cache is invalidated only when the server answered.
MkdirIfAnswered(p, c, f) ==
    IF StatSeen(p, f)
    THEN Leaves(c) /\ UNCHANGED srv
    ELSE /\ Leaves(IF Answered(f, "MKDIR") THEN Invalidated(c) ELSE c)
         /\ srv' = IF Executed(f, "MKDIR") /\ Fresh(p) THEN At(p, Directory) ELSE srv

(* AL=02h, and AL=03h when the directory was not found *)
MkdirAfter(p, c, f) ==
    IF StatSeen(p, f)
    THEN Leaves(c) /\ UNCHANGED srv
    ELSE /\ Leaves(Invalidated(c))
         /\ srv' = IF Executed(f, "MKDIR") /\ Fresh(p) THEN At(p, Directory) ELSE srv

MakeDir(p, f) == MkdirAfter(p, cache, f) /\ UNCHANGED <<cwd, sft, fds>>

(* AL=03h *)
SetCurDir(p, f) ==
    /\ \E r \in Resolves(p, f) :
          IF IsDirEntry(r) THEN Leaves(r.c) /\ UNCHANGED srv
                           ELSE MkdirAfter(p, r.c, f)
    /\ UNCHANGED <<cwd, sft, fds>>

(* AL=01h *)
RmDir(p, f) ==
    /\ \E l \in Loads(p, f) :
          IF l.ok /\ l.c.list # <<>>
          THEN Leaves(l.c) /\ UNCHANGED srv
          ELSE /\ Leaves(Invalidated(l.c))
               /\ srv' = IF Executed(f, "RMDIR") /\ CanRmdir(p) THEN At(p, Absent) ELSE srv
    /\ UNCHANGED <<cwd, sft, fds>>

\* Mutant: the entry is not checked to be a directory.
ChDirAnywhere(p, f) ==
    /\ \E r \in Resolves(p, f) :
          /\ Leaves(r.c)
          /\ cwd' = IF p = <<>> \/ r.i # 0 THEN p ELSE cwd
    /\ UNCHANGED <<srv, sft, fds>>

(* AL=05h *)
ChDir(p, f) ==
    /\ \E r \in Resolves(p, f) :
          /\ Leaves(r.c)
          /\ cwd' = IF p = <<>> \/ IsDirEntry(r) THEN p ELSE cwd
    /\ UNCHANGED <<srv, sft, fds>>

----------------------------------------------------------------------------
(* fs_enum_next() from index n; 0: end of the directory *)
NextMatch(l, n, t) ==
    LET m == {i \in DOMAIN l : i > n /\ l[i].name \in t} IN
    IF m = {} THEN 0 ELSE CHOOSE i \in m : \A j \in m : i <= j

Wanted(d, t) == {Name(p) : p \in Visible(d)} \cap t

\* History: the array has the whole directory, as it is on the server.
ListsWhole(c) == ~c.foreign /\ Cardinality(Visible(c.path)) <= CacheMax

(* AL=1Bh *)
FindFirst(s, d, t, f) ==
    /\ \E l \in Loads(d, f) :
          LET i == IF l.ok THEN NextMatch(l.c.list, 0, t) ELSE 0 IN
          /\ cache' = l.c
          /\ dta' = IF i = 0 THEN Kept(l.c)
                    ELSE [Kept(l.c) EXCEPT ![s] =
                            [on |-> TRUE, idx |-> i, tmpl |-> t, dir |-> d,
                             want |-> Wanted(d, t), found |-> <<l.c.list[i].name>>,
                             intact |-> ListsWhole(l.c), done |-> FALSE]]
    /\ UNCHANGED <<srv, cwd, sft, fds>>

(* AL=1Bh for the volume label: the search ends at once *)
FindVolume(s, t) ==
    /\ dta' = [dta EXCEPT ![s] = [NoSearch EXCEPT !.on = TRUE, !.idx = CacheMax, !.tmpl = t,
                                                  !.intact = TRUE]]
    /\ UNCHANGED <<dirVars, cwd, sft, fds>>

\* Mutants: the cursor is not written back to the DTA; the saved index, already
\* that of the next entry, is stepped again.
FindNextStays(s) ==
    /\ dta[s].on
    /\ LET i == NextMatch(cache.list, dta[s].idx, dta[s].tmpl) IN
       dta' = IF i = 0 THEN [dta EXCEPT ![s].done = TRUE]
              ELSE [dta EXCEPT ![s].found = Append(@, cache.list[i].name)]
    /\ UNCHANGED <<dirVars, cwd, sft, fds>>
FindNextSkips(s) ==
    /\ dta[s].on
    /\ LET i == NextMatch(cache.list, dta[s].idx + 1, dta[s].tmpl) IN
       dta' = IF i = 0 THEN [dta EXCEPT ![s].done = TRUE]
              ELSE [dta EXCEPT ![s].idx = i, ![s].found = Append(@, cache.list[i].name)]
    /\ UNCHANGED <<dirVars, cwd, sft, fds>>

(* AL=1Ch: whatever the cache lists now, valid or not *)
FindNext(s) ==
    /\ dta[s].on
    /\ LET i == NextMatch(cache.list, dta[s].idx, dta[s].tmpl) IN
       dta' = IF i = 0 THEN [dta EXCEPT ![s].done = TRUE]
              ELSE [dta EXCEPT ![s].idx = i, ![s].found = Append(@, cache.list[i].name)]
    /\ UNCHANGED <<dirVars, cwd, sft, fds>>

----------------------------------------------------------------------------
(* AL=0Eh: the attribute byte of the cache entry, overwritten whole; DOS    *)
(* does not pass the directory bit                                          *)
SetAttr(p, a, f) ==
    /\ \E r \in Resolves(p, f) :
          Leaves(IF r.i = 0 THEN r.c ELSE [r.c EXCEPT !.list[r.i].attr = a])
    /\ UNCHANGED <<srv, cwd, sft, fds>>

(* AL=0Fh: the STAT it falls back on changes nothing *)
GetAttr(p, f) ==
    /\ \E r \in Resolves(p, f) : Leaves(r.c)
    /\ UNCHANGED <<srv, cwd, sft, fds>>

(* AL=11h *)
Rename(p, q, f) ==
    /\ Leaves(Invalidated(cache))
    /\ IF Executed(f, "RENAME") /\ CanRename(p, q)
       THEN srv' = Renamed(p, q) /\ fds' = Moved(p, q)
       ELSE UNCHANGED <<srv, fds>>
    /\ UNCHANGED <<cwd, sft>>

(* AL=13h *)
Delete(p, f) ==
    /\ Leaves(Invalidated(cache))
    /\ IF Executed(f, "UNLINK") /\ IsFile(p)
       THEN srv' = At(p, Absent) /\ fds' = Detached(p)
       ELSE UNCHANGED <<srv, fds>>
    /\ UNCHANGED <<cwd, sft>>

----------------------------------------------------------------------------
Opened(s, fd, n, p) == [sft EXCEPT ![s] = [open |-> TRUE, fd |-> fd, pos |-> 0, size |-> n,
                                           asked |-> p]]
Free == {d \in Fd : ~fds[d].used}

\* Mutant: the static handle of an earlier open survives a failed one.
OpenStaleHandle(s, p, c, i, f) ==
    LET path == Append(c.path, c.list[i].name) IN
    IF Executed(f, "OPEN") /\ Answered(f, "OPEN") /\ IsFile(path) /\ Free # {}
    THEN \E d \in Free :
            /\ fds' = [fds EXCEPT ![d] = [used |-> TRUE, path |-> path, at |-> 0, opened |-> path]]
            /\ sft' = Opened(s, d, c.list[i].size, p)
    ELSE \E d \in {x \in Fd : fds[x].used} \cup {NoFd} :
            sft' = Opened(s, d, c.list[i].size, p) /\ UNCHANGED fds

\* fs_open() and sft_fill_handle() for entry i: a failure leaves 0xFF in the
\* SFT, and the call succeeds all the same.
OpenEntry(s, p, c, i, f) ==
    LET path == Append(c.path, c.list[i].name) IN
    IF Executed(f, "OPEN") /\ IsFile(path) /\ Free # {}
    THEN \E d \in Free :
            /\ fds' = [fds EXCEPT ![d] = [used |-> TRUE, path |-> path, at |-> 0, opened |-> path]]
            /\ sft' = Opened(s, IF Answered(f, "OPEN") THEN d ELSE NoFd, c.list[i].size, p)
    ELSE sft' = Opened(s, NoFd, c.list[i].size, p) /\ UNCHANGED fds

(* AL=16h *)
Open(s, p, writes, f) ==
    /\ ~sft[s].open
    /\ \E r \in Resolves(p, f) :
          /\ Leaves(r.c)
          /\ IF r.i # 0 /\ ~IsDirEntry(r) /\ ~(writes /\ "ro" \in r.c.list[r.i].attr)
             THEN OpenEntry(s, p, r.c, r.i, f)
             ELSE UNCHANGED <<sft, fds>>
    /\ UNCHANGED <<srv, cwd>>

\* fs_create_and_open(): the SFT is filled only when the server says so.
CreateFile(s, p, c, f) ==
    /\ Leaves(Invalidated(c))
    /\ IF Executed(f, "OPEN") /\ ~IsDir(p) /\ IsDir(Parent(p)) /\ Free # {}
       THEN /\ srv' = At(p, File(0))
            /\ \E d \in Free :
                  /\ fds' = [fds EXCEPT ![d] = [used |-> TRUE, path |-> p, at |-> 0, opened |-> p]]
                  /\ sft' = IF Answered(f, "OPEN") THEN Opened(s, d, 0, p) ELSE sft
       ELSE UNCHANGED <<srv, fds, sft>>

(* AL=17h *)
Create(s, p, f) == ~sft[s].open /\ CreateFile(s, p, cache, f) /\ UNCHANGED cwd

\* Mutant: the branch that opened the file does not return.
SpOpenFallsThrough(s, p, f) ==
    /\ ~sft[s].open
    /\ \E r \in Resolves(p, f) :
          IF IsDirEntry(r) THEN Leaves(r.c) /\ UNCHANGED <<srv, sft, fds>>
                           ELSE CreateFile(s, p, r.c, f)
    /\ UNCHANGED cwd

(* AL=2Eh: open, or create when the resolve failed *)
SpOpen(s, p, f) ==
    /\ ~sft[s].open
    /\ \E r \in Resolves(p, f) :
          IF r.i = 0 THEN CreateFile(s, p, r.c, f)
          ELSE /\ Leaves(r.c)
               /\ IF IsDirEntry(r) THEN UNCHANGED <<sft, fds>> ELSE OpenEntry(s, p, r.c, r.i, f)
               /\ UNCHANGED srv
    /\ UNCHANGED cwd

\* Mutant: the transfer starts wherever the server is.
OffsetOfServer(s, f) == fds[sft[s].fd].at

\* Where the server transfers: the result of LSEEK is ignored.
Offset(s, f) == IF Executed(f, "LSEEK") THEN sft[s].pos ELSE fds[sft[s].fd].at

(* AL=08h, of one unit *)
Read(s, f) ==
    /\ sft[s].open
    /\ IF sft[s].fd = NoFd THEN UNCHANGED <<sft, fds>>
       ELSE LET at == Offset(s, f)
                got == IF Executed(f, "READ") /\ at < srv[fds[sft[s].fd].path].size THEN 1 ELSE 0
            IN /\ Executed(f, "LSEEK") \/ sft[s].pos + got <= MaxSize
               /\ fds' = [fds EXCEPT ![sft[s].fd].at = at + got]
               /\ sft' = IF Answered(f, "READ") THEN [sft EXCEPT ![s].pos = @ + got] ELSE sft
    /\ UNCHANGED <<dirVars, cwd, dta>>

Larger(m, n) == IF m > n THEN m ELSE n

(* AL=09h, of one unit; the cached size of the file stays what it was *)
Write(s, f) ==
    /\ sft[s].open /\ sft[s].pos < MaxSize
    /\ IF sft[s].fd = NoFd
       THEN sft' = [sft EXCEPT ![s].size = Larger(@, sft[s].pos)] /\ UNCHANGED <<srv, fds>>
       ELSE LET at == Offset(s, f)
                put == IF Executed(f, "WRITE") THEN 1 ELSE 0
                pos == sft[s].pos + IF Answered(f, "WRITE") THEN put ELSE 0
                p == fds[sft[s].fd].path
            IN /\ at < MaxSize
               /\ fds' = [fds EXCEPT ![sft[s].fd].at = at + put]
               /\ sft' = [sft EXCEPT ![s].pos = pos, ![s].size = Larger(@, pos)]
               /\ srv' = IF IsFile(p) /\ put = 1 THEN At(p, File(Larger(srv[p].size, at + 1)))
                                                 ELSE srv
    /\ UNCHANGED <<cache, cwd, dta>>

(* AL=21h, to the end of the file *)
SeekEnd(s) ==
    /\ sft[s].open
    /\ sft' = [sft EXCEPT ![s].pos = sft[s].size]
    /\ UNCHANGED <<dirVars, cwd, dta, fds>>

(* AL=06h *)
Close(s, f) ==
    /\ sft[s].open
    /\ sft' = [sft EXCEPT ![s] = Closed]
    /\ fds' = IF sft[s].fd # NoFd /\ Executed(f, "CLOSE")
              THEN [fds EXCEPT ![sft[s].fd] = NoFile] ELSE fds
    /\ UNCHANGED <<dirVars, cwd, dta>>

----------------------------------------------------------------------------
\* The faults that touch no request but these.
May(requests) == {f \in Faults : f.on \subseteq requests}
Loading == {"OPENDIRX", "READDIRX", "CLOSEDIR"}
Resolving == Loading \cup {"STAT"}

PathCall(p) ==
    \/ /\ "dirs" \in Uses
       /\ \/ \E f \in May(Resolving \cup {"MKDIR"}) : SetCurDir(p, f)
          \/ \E f \in May({"STAT", "MKDIR"}) : MakeDir(p, f)
          \/ \E f \in May(Loading \cup {"RMDIR"}) : RmDir(p, f)
          \/ \E f \in May(Resolving) : ChDir(p, f)
    \/ /\ "names" \in Uses
       /\ \/ \E f \in May({"UNLINK"}) : Delete(p, f)
          \/ \E q \in DosPath, f \in May({"RENAME"}) : Rename(p, q, f)
    \/ /\ "attrs" \in Uses
       /\ \E f \in May(Resolving) : GetAttr(p, f) \/ \E a \in SUBSET {"ro"} : SetAttr(p, a, f)
SearchCall(s) ==
    \/ \E t \in Template : FindVolume(s, t)
    \/ \E d \in DosPath \cup {<<>>}, t \in Template, f \in May(Loading) : FindFirst(s, d, t, f)
    \/ FindNext(s)
FileCall(s) ==
    \/ \E p \in DosPath :
          \/ \E f \in May({"OPEN"}) : Create(s, p, f)
          \/ \E f \in May(Resolving \cup {"OPEN"}) :
                SpOpen(s, p, f) \/ \E w \in BOOLEAN : Open(s, p, w, f)
    \/ \E f \in May({"LSEEK", "READ"}) : Read(s, f)
    \/ \E f \in May({"LSEEK", "WRITE"}) : Write(s, f)
    \/ \E f \in May({"CLOSE"}) : Close(s, f)
    \/ SeekEnd(s)
Call ==
    \/ \E p \in DosPath : PathCall(p)
    \/ "dirs" \in Uses /\ \E f \in May({}) : ChDir(<<>>, f)
    \/ \E s \in Search : SearchCall(s)
    \/ \E s \in Slot : FileCall(s)

(* The timer interrupt, between two DOS calls. *)
Tick ==
    /\ now < MaxNow /\ now' = now + 1
    /\ UNCHANGED <<dirVars, cwd, dta, sft, fds>>

(* Another client creates or removes something. *)
Foreign(p) ==
    /\ Foreigners
    /\ \/ Fresh(p) /\ \E n \in {Directory, File(0)} : srv' = At(p, n)
       \/ (IsFile(p) \/ CanRmdir(p)) /\ srv' = At(p, Absent)
    /\ cache' = [cache EXCEPT !.foreign = TRUE]
    /\ fds' = Detached(p)
    /\ UNCHANGED <<now, cwd, dta, sft>>

Next == (Call /\ UNCHANGED now) \/ Tick \/ \E p \in Path \ {<<>>} : Foreign(p)
Spec == Init /\ [][Next]_vars

----------------------------------------------------------------------------
TypeOK ==
    /\ CacheTypeOK
    /\ cwd \in DosPath \cup {<<>>}
    /\ dta \in [Search -> [on : BOOLEAN, idx : 0 .. CacheMax, tmpl : Template \cup {{}},
                           dir : Path, want : SUBSET Short, found : Seq(Short),
                           intact : BOOLEAN, done : BOOLEAN]]
    /\ sft \in [Slot -> [open : BOOLEAN, fd : Fd \cup {NoFd}, pos : 0 .. MaxSize,
                         size : 0 .. MaxSize, asked : Path]]
    /\ fds \in [Fd -> [used : BOOLEAN, path : Path, at : 0 .. MaxSize, opened : Path]]

(* A search returns no name twice, and answers "no more files" only when every
   name that matched at FINDFIRST was returned, provided the directory fits in
   the array and no call in between put another listing in it.  Deletes,
   renames, STAT fallbacks and lost replies in between neither lose nor repeat
   entries: they leave the array the cursor indexes alone.  And whatever listings
   it goes through, a search returns DIR_CACHE_MAX names at most. *)
SearchComplete ==
    \A s \in Search :
        LET found == dta[s].found IN
        /\ Len(found) <= CacheMax
        /\ dta[s].intact =>
              /\ \A i, j \in DOMAIN found : found[i] = found[j] => i = j
              /\ dta[s].done => \A n \in dta[s].want : \E i \in DOMAIN found : found[i] = n

(* The current directory only ever changes to a directory that exists, though
   CHDIR looks at the cache alone - unless the cache is older than a change of
   another client. *)
ChdirToDirectory == [][cwd' # cwd /\ ~cache'.foreign => IsDir(cwd')]_vars

(* An SFT entry filled by OPEN, SPOPEN or CREATE holds a handle the server
   opened for the path DOS asked for, and still holds: fs_open() rebuilds that
   path from the cache, which loads and failures in between may have replaced. *)
HandleOfFile ==
    \A s \in Slot : sft[s].open /\ sft[s].fd # NoFd =>
        fds[sft[s].fd].used /\ fds[sft[s].fd].opened = sft[s].asked

(* No two open files of DOS share a server handle, whichever OPEN and CLOSE
   requests are lost on the way. *)
HandlesNotShared ==
    \A s, t \in Slot : sft[s].open /\ sft[t].open /\ sft[s].fd = sft[t].fd =>
        s = t \/ sft[s].fd = NoFd

(* A READ or WRITE that moves the DOS position moved bytes at that position on
   the server, even after a transfer whose reply was lost left the server's
   own offset ahead; LSEEK itself is taken to be executed (see LSEEK in the
   hazards). *)
TransfersInStep ==
    [][\A s \in Slot : sft[s].open /\ sft'[s].open /\ fds' # fds /\ sft'[s].pos # sft[s].pos
            => fds'[sft[s].fd].at = sft'[s].pos]_vars

(* SPOPEN, "open existing OR create if new", leaves a file that exists as it
   is, after any history of renames, deletions and lost replies - as long as the
   resolve itself is answered, the array has room for the directory, and it is
   not older than a change of another client: otherwise it takes the file for a
   new one, and the create truncates it. *)
SpOpenKeepsFiles ==
    [][\A p \in DosPath :
          /\ IsFile(p) /\ srv'[p] # srv[p] /\ ~cache.foreign
          /\ Cardinality(DosPath \cap Children(Parent(p))) <= CacheMax
          => ~\E s \in Slot, f \in Faults : f.on \cap Resolving = {} /\ SpOpen(s, p, f)]_vars

(* A load is not served from a listing older than the TTL ("TTL in seconds",
   config.h:29), whatever other clients did to the tree meanwhile: neither the
   turns of the 16-bit word that the age is measured with nor midnight, where
   the word falls back in the middle of a turn, make a listing young again.  Two
   limits are in Overdue: a midnight gives a listing what the word loses by it
   (0xB0 ticks, ten seconds), and a listing as old as a whole turn (an hour) has
   an age that has come round. *)
WithinTtl == ~cache.late

----------------------------------------------------------------------------
(* What the repository says and the code does not do; see the findings.      *)

(* The cache is invalidated "after write": with one client and one open file,
   a seek to the end of the file reaches its end. *)
SeeksToEnd ==
    [][\A s \in Slot : SeekEnd(s) /\ sft[s].fd # NoFd
            => sft'[s].pos = srv[fds[sft[s].fd].path].size]_vars
=============================================================================
