------------------------------ MODULE DirCache ------------------------------
(***************************************************************************)
(* The single active directory cache of fs_tnfsmin.c and the server tree   *)
(* it is filled from: load_dir_cache(), fs_resolve() and                   *)
(* cache_invalidate(), as operators on the module's state.  The handlers   *)
(* that call them, and the next-state relation, are in Redirector.         *)
(*                                                                         *)
(* A load talks to the server several times, but the machine does nothing  *)
(* else meanwhile: a DOS call runs to its end.  So a load is one step, and *)
(* what may go wrong in it is a fault: the requests whose replies are all  *)
(* lost (tnfs_sendReceive gives up), executed by the server or not.        *)
(*                                                                         *)
(* A path is a sequence of names, <<>> the root.  Names are 8.3 and upper  *)
(* case, or not visible to DOS (Names has the rest).  The archive          *)
(* attribute, which every file gets and nothing reads, is left out.        *)
(***************************************************************************)
EXTENDS Integers, Sequences, FiniteSets

CONSTANTS Path,         \* the paths that can exist; closed under Parent
          Short,        \* the names is_8dot3() accepts
          Bare,         \* those without a dot: the pattern "*.*" of OPENDIRX makes
                        \* the server leave out the files among them
          CacheEnabled, \* g_cache_enabled
          CacheMax,     \* DIR_CACHE_MAX
          Ttl,          \* g_cache_ttl_secs
          TicksPerSec,  \* 18
          TickMod,      \* 65536: the ticks are read as 16 bits
          DayTicks,     \* the BIOS count returns to 0 at midnight
          Starts,       \* when the program may start, in ticks since a midnight
          Faults,       \* the faults a DOS call may meet
          MaxSize,      \* bound: file sizes, in units of a transfer
          MaxNow        \* bound: ticks

Rpc == {"OPENDIRX", "READDIRX", "CLOSEDIR", "STAT", "MKDIR", "RMDIR", "UNLINK",
        "RENAME", "OPEN", "CLOSE", "LSEEK", "READ", "WRITE"}
Parent(p) == SubSeq(p, 1, Len(p) - 1)
Name(p) == p[Len(p)]

ASSUME DirCacheAssumption ==
    /\ <<>> \in Path /\ IsFiniteSet(Path)
    /\ \A p \in Path \ {<<>>} : p \in Seq(STRING) /\ Parent(p) \in Path
    /\ Bare \subseteq Short
    /\ Faults \subseteq [on : SUBSET Rpc, done : BOOLEAN]
    /\ CacheEnabled \in BOOLEAN
    /\ CacheMax \in Nat \ {0} /\ Ttl \in Nat \ {0} /\ MaxSize \in Nat
    /\ TicksPerSec \in Nat \ {0} /\ MaxNow \in Nat /\ Starts \subseteq 0 .. MaxNow
    /\ TickMod \in Nat \ {0} /\ DayTicks \in Nat /\ TickMod <= DayTicks

VARIABLES
    srv,     \* the server's tree: what is at each path
    cache,   \* s_active_path, _valid, _entries[0 .. _count-1], _loaded_ticks;
             \* history: "foreign", another client changed the tree since;
             \* "late", a listing that was overdue was served
    now      \* ticks since the midnight before the program started

Absent == [kind |-> "none", size |-> 0]
Directory == [kind |-> "dir", size |-> 0]
File(n) == [kind |-> "file", size |-> n]
Node == {Absent, Directory} \cup {File(n) : n \in 0 .. MaxSize}

\* An element of s_active_entries[].
Item == [name : Short, attr : SUBSET {"dir", "ro"}, size : 0 .. MaxSize]

Exists(p) == srv[p].kind # "none"
IsDir(p) == srv[p].kind = "dir"
Children(d) == {p \in Path \ {<<>>} : Parent(p) = d /\ Exists(p)}
Visible(d) == {p \in Children(d) : Name(p) \in Short \ Bare \/ (Name(p) \in Short /\ IsDir(p))}
DosPath == {p \in Path \ {<<>>} : \A i \in 1 .. Len(p) : p[i] \in Short}

\* A request whose replies are all lost fails at the client whether or not
\* the server executed it.
Executed(f, c) == c \in f.on => f.done
Answered(f, c) == c \notin f.on

----------------------------------------------------------------------------
Entry(p) == [name |-> Name(p), attr |-> IF IsDir(p) THEN {"dir"} ELSE {},
             size |-> srv[p].size]

\* What READDIRX can return: the server's order is its own, a full array ends
\* the loop.
Orders(S) == {s \in [1 .. Cardinality(S) -> S] : \A x \in S : \E i \in DOMAIN s : s[i] = x}
Shown(s) == IF Len(s) > CacheMax THEN CacheMax ELSE Len(s)
Listings(d) == {[i \in 1 .. Shown(s) |-> Entry(s[i])] : s \in Orders(Visible(d))}
Prefixes(l) == {SubSeq(l, 1, k) : k \in 0 .. Len(l)}

\* The word that get_bios_ticks() reads at time t.
BiosTicks(t) == (t % DayTicks) % TickMod

\* Mutant: a clock that went back has not moved.
AgeUnwrapped == LET age == BiosTicks(now) - BiosTicks(cache.loaded) IN
                IF age < 0 THEN 0 ELSE age

\* The age the TTL is compared with: a 16-bit difference of tick counts.
Age == (BiosTicks(now) - BiosTicks(cache.loaded)) % TickMod

Hit(d) == CacheEnabled /\ cache.valid /\ cache.path = d /\ Age \div TicksPerSec < Ttl

Emptied(l) == [cache EXCEPT !.valid = FALSE, !.list = l, !.foreign = FALSE]
\* Mutant: s_active_path is not set.
LoadedUnnamed(d, l) == [cache EXCEPT !.valid = TRUE, !.list = l, !.loaded = now,
                                     !.foreign = FALSE]
Loaded(d, l) == [path |-> d, valid |-> TRUE, list |-> l, loaded |-> now,
                 foreign |-> FALSE, late |-> cache.late]

\* The outcomes of load_dir_cache(d): whether it succeeded, and the cache.
\* The directory handle it opens on the server is left out.
Fetches(d, f) ==
    IF ~IsDir(d) \/ ~Executed(f, "OPENDIRX") \/ ~Answered(f, "OPENDIRX")
    THEN {[ok |-> FALSE, c |-> Emptied(<<>>)]}
    ELSE UNION {
        IF ~Answered(f, "READDIRX") THEN {[ok |-> FALSE, c |-> Emptied(k)] : k \in Prefixes(l)}
        ELSE IF ~Answered(f, "CLOSEDIR") THEN {[ok |-> FALSE, c |-> Emptied(l)]}
        ELSE {[ok |-> TRUE, c |-> Loaded(d, l)]} : l \in Listings(d)}

\* History: the listing is older than its TTL, and than what the word loses when
\* a midnight comes in between, but not by a whole turn of the word.
Overdue ==
    LET midnights == now \div DayTicks - cache.loaded \div DayTicks IN
    now - cache.loaded \in Ttl * TicksPerSec + midnights * (DayTicks % TickMod) .. TickMod - 1

Served == [cache EXCEPT !.late = @ \/ Overdue]
Loads(d, f) == IF Hit(d) THEN {[ok |-> TRUE, c |-> Served]} ELSE Fetches(d, f)

----------------------------------------------------------------------------
Named(l, n) == {i \in DOMAIN l : l[i].name = n}
StatSeen(p, f) == Answered(f, "STAT") /\ Exists(p)

\* Mutants of Resolved: no check against DIR_CACHE_MAX; the index is taken
\* after the search ran to the end.
ResolvedUnbounded(p, f, l) ==
    LET found == Named(l.c.list, Name(p)) IN
    IF ~l.ok THEN [i |-> 0, c |-> l.c]
    ELSE IF found # {}
         THEN [i |-> CHOOSE i \in found : \A j \in found : i <= j, c |-> l.c]
    ELSE IF StatSeen(p, f)
         THEN [i |-> Len(l.c.list) + 1, c |-> [l.c EXCEPT !.list = Append(@, Entry(p))]]
    ELSE [i |-> 0, c |-> l.c]
ResolvedLast(p, f, l) ==
    IF l.ok /\ Named(l.c.list, Name(p)) # {}
    THEN [i |-> Len(l.c.list), c |-> l.c]
    ELSE [i |-> 0, c |-> l.c]

\* The outcomes of fs_resolve(p): the index of the entry (0: not found), and
\* the cache the load left.
Resolved(p, f, l) ==
    LET found == Named(l.c.list, Name(p)) IN
    IF ~l.ok THEN [i |-> 0, c |-> l.c]
    ELSE IF found # {}
         THEN [i |-> CHOOSE i \in found : \A j \in found : i <= j, c |-> l.c]
    ELSE IF StatSeen(p, f) /\ Len(l.c.list) < CacheMax
         THEN [i |-> Len(l.c.list) + 1, c |-> [l.c EXCEPT !.list = Append(@, Entry(p))]]
    ELSE [i |-> 0, c |-> l.c]

Resolves(p, f) ==
    IF p = <<>> THEN {[i |-> 0, c |-> cache]}
    ELSE {Resolved(p, f, l) : l \in Loads(Parent(p), f)}

IsDirEntry(r) == r.i # 0 /\ "dir" \in r.c.list[r.i].attr

----------------------------------------------------------------------------
CacheInit ==
    /\ srv \in {t \in [Path -> Node] :
                  /\ t[<<>>] = Directory
                  /\ \A p \in Path \ {<<>>} : t[p] # Absent => t[Parent(p)] = Directory}
    /\ cache = [path |-> <<>>, valid |-> FALSE, list |-> <<>>, loaded |-> 0,
                foreign |-> FALSE, late |-> FALSE]
    /\ now \in Starts

Invalidated(c) == [c EXCEPT !.valid = FALSE]

CacheTypeOK ==
    /\ srv \in [Path -> Node]
    /\ cache \in [path : Path, valid : BOOLEAN, list : Seq(Item), loaded : 0 .. MaxNow,
                  foreign : BOOLEAN, late : BOOLEAN]
    /\ Len(cache.list) <= CacheMax
    /\ now \in 0 .. MaxNow /\ cache.loaded <= now

(* A valid cache lists only what is on the server, every entry with its kind,
   each name once, and everything the server lists there, if the array has room
   for it - as long as this client is the only one: every handler that changes
   the tree invalidates the cache, whatever its reply says or whether one comes. *)
CacheCoherent ==
    cache.valid /\ ~cache.foreign =>
        /\ \A i, j \in DOMAIN cache.list : cache.list[i].name = cache.list[j].name => i = j
        /\ \A i \in DOMAIN cache.list :
              LET p == Append(cache.path, cache.list[i].name) IN
              p \in Children(cache.path) /\ ("dir" \in cache.list[i].attr => IsDir(p))
        /\ Len(cache.list) < CacheMax \/ Cardinality(Visible(cache.path)) <= CacheMax =>
              \A p \in Visible(cache.path) : Named(cache.list, Name(p)) # {}
=============================================================================
