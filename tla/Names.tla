-------------------------------- MODULE Names --------------------------------
(***************************************************************************)
(* How a name travels: from the server's directory through is_8dot3() and  *)
(* the upper-casing of load_dir_cache() into the array, as an 11-byte FCB  *)
(* name to DOS, and back as a DOS path that fs_tnfsmin.c turns into a path *)
(* for the server - in three ways, one for searches, one for OPEN, one for *)
(* DELETE, MKDIR, RMDIR, RENAME and CREATE.                                *)
(*                                                                         *)
(* Names and paths are sequences of characters here, and only here: the    *)
(* other modules take names as they are.  A DOS path is written without    *)
(* its drive prefix ("N:\"), which the code skips; no path is as long as   *)
(* the buffers.  Requests are answered; Redirector has the ones that are   *)
(* not.  External: DOS, which parses a pattern into an FCB template and    *)
(* an FCB name into a path, and a server whose names are case-sensitive.   *)
(* A search and an open each load the directory afresh: DirCache has the   *)
(* cache that saves them the load.                                         *)
(***************************************************************************)
EXTENDS Naturals, SequencesExt

CONSTANTS Char,     \* the characters
          BaseMax,  \* 8: characters before the dot
          ExtMax,   \* 3: characters after it
          CacheMax, \* DIR_CACHE_MAX: names in the array
          UpperOf,  \* the lower-case letters, each with its upper case
          Pattern,  \* the patterns DOS searches for
          DosDir,   \* the directories DOS names, as spelled
          Trees     \* the files of each directory of the server

VARIABLES
    tree,     \* the server: the names of the files in each directory
    list,     \* s_active_entries[]: the names, with their attributes
    search,   \* the DTA: directory as spelled, FCB template, cursor
    shown,    \* the FCB names DOS was shown in this search
    over,     \* whether it was told that there are no more
    opened,   \* the last OPEN in the directory searched: the DOS path, and the
              \* path sent for it (None: refused, or not opened yet);
              \* history: the server's file it was meant for, if it has a name
              \* that survives the way to DOS and back
    removed   \* the last DELETE in it, likewise

vars == <<tree, list, search, shown, over, opened, removed>>

None == <<>>
Backslash == "\\"
Blank == " "
Root == <<"/">>
Special == {".", Blank, "/", Backslash, "?", "*"}
NameChar == Char \ {"/", Backslash}

Upper(c) == IF c \in DOMAIN UpperOf THEN UpperOf[c] ELSE c
Uppered(s) == [i \in DOMAIN s |-> Upper(s[i])]

----------------------------------------------------------------------------
(* Names in the array and in an FCB.                                       *)
DotAt(n) == SelectInSeq(n, LAMBDA c : c = ".")
Base(n) == IF DotAt(n) = 0 THEN n ELSE SubSeq(n, 1, DotAt(n) - 1)
Ext(n) == IF DotAt(n) = 0 THEN <<>> ELSE SubSeq(n, DotAt(n) + 1, Len(n))
Dots(n) == {i \in DOMAIN n : n[i] = "."}

Is8dot3(n) ==
    /\ \A i, j \in Dots(n) : i = j
    /\ Len(Base(n)) \in 1 .. BaseMax /\ Len(Ext(n)) <= ExtMax

IsDotEntry(n) == n \in {<<".">>, <<".", ".">>}

Padded(s, i) == IF i \in DOMAIN s THEN s[i] ELSE Blank

\* Mutant: the extension follows the base without a gap.
EntryToFcbPacked(n) == [i \in 1 .. BaseMax + ExtMax |-> Padded(Base(n) \o Ext(n), i)]

EntryToFcb(n) == [i \in 1 .. BaseMax + ExtMax |->
    IF i <= BaseMax THEN Padded(Base(n), i) ELSE Padded(Ext(n), i - BaseMax)]

TmplMatches(t, fcb) == \A i \in DOMAIN t : t[i] \in {"?", fcb[i]}

\* What load_dir_cache() makes of a directory.  The pattern it sends, "*.*",
\* makes the server leave out files without a dot; the order is the server's.
Joined(d, n) == (IF d = Root THEN d ELSE Append(d, "/")) \o n
Rest(d, x) == SubSeq(x, Len(Joined(d, <<>>)) + 1, Len(x))
SubDirs(d) == {n \in {Rest(d, x) : x \in DOMAIN tree} :
                  n # <<>> /\ n \in Seq(NameChar) /\ Joined(d, n) \in DOMAIN tree}
Entries(d) == tree[d] \cup SubDirs(d)
Listed(d) == {n \in tree[d] : Dots(n) # {}} \cup SubDirs(d)
Kept(d) == {n \in Listed(d) : ~IsDotEntry(n) /\ Is8dot3(n)}
Cut(s, n) == SubSeq(s, 1, IF Len(s) < n THEN Len(s) ELSE n)

Attr(d, n) == IF n \in SubDirs(d) THEN {"dir"} ELSE {}

\* Mutant: the names are stored as the server spells them.
StoredAsSpelled(d, n) == [name |-> Cut(n, BaseMax + 1 + ExtMax), attr |-> Attr(d, n)]

Stored(d, n) == [name |-> Uppered(Cut(n, BaseMax + 1 + ExtMax)), attr |-> Attr(d, n)]

\* The names that come after a full array are not read; those not kept take no place.
Lists(d) == {[i \in DOMAIN s |-> Stored(d, s[i])] :
                s \in {Cut(order, CacheMax) : order \in SetToSeqs(Kept(d))}}

----------------------------------------------------------------------------
(* DOS paths, made into paths for the server.                              *)
TnfsChar(c) == IF c = Backslash THEN "/" ELSE Upper(c)

\* Mutant: the path is sent as it is spelled.
ToTnfsPathAsSpelled(p) ==
    Root \o [i \in DOMAIN p |-> IF p[i] = Backslash THEN "/" ELSE p[i]]

\* fn1_to_tnfs_path(): DELETE, and every other request that names a path.
ToTnfsPath(p) == Root \o [i \in DOMAIN p |-> TnfsChar(p[i])]

LastBackslash(p) == SelectLastInSeq(p, LAMBDA c : c = Backslash)
DirPart(p) == SubSeq(p, 1, LastBackslash(p) - 1)
LastPart(p) == SubSeq(p, LastBackslash(p) + 1, Len(p))

\* dos_find_path_to_tnfs_dir_and_template(): with a wildcard or without, the
\* directory ends at the last backslash; the template is only logged.
FindDir(p) == Root \o [i \in DOMAIN DirPart(p) |-> TnfsChar(DirPart(p)[i])]

\* Mutant: the buffer for the entry does not count the dot.
SplitShort(p) == [dir |-> FindDir(p), entry |-> Uppered(Cut(LastPart(p), BaseMax + ExtMax))]

\* fn1_split()
Split(p) == [dir |-> FindDir(p), entry |-> Uppered(Cut(LastPart(p), BaseMax + ExtMax + 1))]

----------------------------------------------------------------------------
(* External: DOS.  A star fills the rest of its part with question marks;  *)
(* a path is made of a directory and the name an FCB stands for.           *)
Filled(s, i) ==
    LET star == SelectInSeq(s, LAMBDA c : c = "*") IN
    IF star # 0 /\ i >= star THEN "?" ELSE Padded(s, i)
Template(p) == [i \in 1 .. BaseMax + ExtMax |->
    IF i <= BaseMax THEN Filled(Base(p), i) ELSE Filled(Ext(p), i - BaseMax)]

Trimmed(s) == SubSeq(s, 1, SelectLastInSeq(s, LAMBDA c : c # Blank))
DosName(fcb) ==
    LET base == Trimmed(SubSeq(fcb, 1, BaseMax))
        ext == Trimmed(SubSeq(fcb, BaseMax + 1, BaseMax + ExtMax))
    IN  IF ext = <<>> THEN base ELSE base \o <<".">> \o ext
DosPath(d, n) == (IF d = <<>> THEN d ELSE Append(d, Backslash)) \o n

----------------------------------------------------------------------------
(* What is meant, said of the server's names and not of the code's: the   *)
(* reference for the properties.                                           *)
\* The server's directory that DOS's spelling of one stands for.
ServerDir(d) == Root \o [i \in DOMAIN d |-> IF d[i] = Backslash THEN "/" ELSE Upper(d[i])]

Short(n) == /\ n # <<>> /\ n[1] # "." /\ \A i, j \in Dots(n) : i = j
            /\ Len(Base(n)) <= BaseMax /\ Len(Ext(n)) <= ExtMax

(* The files whose names survive the way to DOS and back: upper case, and no
   dot at the end. *)
Faithful(d) == {n \in tree[d] : Short(n) /\ n = Uppered(n) /\ n[Len(n)] # "."}

\* The names that want a place in the array.
Shorts(d) == {n \in Listed(d) : Short(n)}

(* The files a program can count on to open: there is room for every short name
   and this one, and no directory has its name in another case. *)
Openable(d) == {n \in Faithful(d) : /\ Cardinality(Shorts(d) \cup {n}) <= CacheMax
                                    /\ \A m \in SubDirs(d) : Uppered(m) # n}

Meant(d, fcb) == {Joined(ServerDir(d), n) :
                     n \in {m \in Openable(ServerDir(d)) : m = DosName(fcb)}}

----------------------------------------------------------------------------
ASSUME LetterAssumption ==
    /\ BaseMax \in Nat \ {0} /\ ExtMax \in Nat \ {0} /\ CacheMax \in Nat \ {0}
    /\ Special \subseteq Char
    /\ DOMAIN UpperOf \subseteq Char \ Special
    /\ \A c \in DOMAIN UpperOf : UpperOf[c] \in (Char \ Special) \ DOMAIN UpperOf

(* The directories DOS names are there, in upper case, for the code sends them
   so; Redirector has the ones that are not.  No file has the name of a directory,
   though the two may differ in case alone. *)
ASSUME PlacesAssumption ==
    /\ DosDir \subseteq Seq(Char) /\ Pattern \subseteq Seq(NameChar)
    /\ \A t \in Trees :
          /\ IsFiniteSet(DOMAIN t) /\ DOMAIN t \subseteq Seq(Char)
          /\ t \in [DOMAIN t -> SUBSET Seq(NameChar)]
          /\ \A d \in DosDir \cup {<<>>} : ServerDir(d) \in DOMAIN t
          /\ \A x \in DOMAIN t : /\ IsFiniteSet(t[x])
                                 /\ \A n \in t[x] : Joined(x, n) \notin DOMAIN t

(* No pattern and no name of the server has a blank in it, which an FCB uses
   for what is not there, and the parts of a pattern fit the FCB. *)
ASSUME BlankAssumption ==
    /\ \A p \in Pattern : /\ Blank \notin ToSet(p)
                          /\ Len(Base(p)) <= BaseMax /\ Len(Ext(p)) <= ExtMax
    /\ \A t \in Trees : \A x \in DOMAIN t : \A n \in t[x] \cup {x} : Blank \notin ToSet(n)

----------------------------------------------------------------------------
NotOpened == [asked |-> <<>>, sent |-> None, meant |-> {}]
NotRemoved == [asked |-> <<>>, sent |-> None]

Init ==
    /\ tree \in Trees
    /\ list = <<>> /\ shown = <<>> /\ over = TRUE
    /\ search = [dir |-> <<>>, pattern |-> <<>>, tmpl |-> <<>>, next |-> 1]
    /\ opened = NotOpened /\ removed = NotRemoved

\* fs_enum_next(): the first entry from the cursor on that the template takes.
Advance(l, s) ==
    LET rest == {i \in DOMAIN l : i >= s.next /\ TmplMatches(s.tmpl, EntryToFcb(l[i].name))}
        i == CHOOSE i \in rest : \A j \in rest : i <= j
    IN  IF rest = {} THEN [next |-> Len(l) + 1, found |-> <<>>]
                     ELSE [next |-> i + 1, found |-> <<EntryToFcb(l[i].name)>>]

Step(l, s, before) ==
    LET a == Advance(l, s) IN
    /\ search' = [s EXCEPT !.next = a.next]
    /\ shown' = before \o a.found
    /\ over' = (a.found = <<>>)

FindFirst(d, p) ==
    /\ \E l \in Lists(FindDir(DosPath(d, p))) :
          /\ list' = l
          /\ Step(l, [dir |-> d, pattern |-> p, tmpl |-> Template(p), next |-> 1], <<>>)
    /\ opened' = NotOpened /\ removed' = NotRemoved
    /\ UNCHANGED tree

FindNext ==
    /\ ~over
    /\ Step(list, search, shown)
    /\ UNCHANGED <<tree, list, opened, removed>>

\* fs_resolve(): the first entry of the name, or one the server knows by STAT
\* while there is room for it.
First(l, e) == SelectInSeq(l, LAMBDA x : x.name = e.entry)
Known(e) == e.entry \in Entries(e.dir)
Resolved(l, e) == IF First(l, e) = 0 /\ Known(e) /\ Len(l) < CacheMax
                  THEN Append(l, Stored(e.dir, e.entry)) ELSE l

\* fs_setattr(): the attributes of that entry are replaced whole, in memory only.
WithAttr(l, e, attr) == [i \in DOMAIN l |-> IF i = First(l, e) THEN [l[i] EXCEPT !.attr = attr]
                                                              ELSE l[i]]

\* do_open() and fs_open(): not a directory, nor a read-only file to write to.
PathSent(l, e, writes) ==
    LET i == First(l, e) IN
    IF i = 0 \/ "dir" \in l[i].attr \/ (writes /\ "ro" \in l[i].attr)
    THEN None ELSE Joined(e.dir, l[i].name)

\* A program opens, or deletes, a name the search has shown or one it knows of.
Spelled == ToSet(shown) \cup
           {EntryToFcb(Uppered(n)) : n \in {m \in tree[ServerDir(search.dir)] : Short(m)}}

\* given: the attributes a SETATTR of the name has set since the load, if any.
Open(fcb, writes, given) ==
    /\ over
    /\ LET p == DosPath(search.dir, DosName(fcb))
           e == Split(p)
       IN  /\ \E l \in {Resolved(k, e) : k \in Lists(e.dir)} :
                 list' = IF given = <<>> THEN l ELSE WithAttr(l, e, given[1])
           /\ opened' = [asked |-> p, sent |-> PathSent(list', e, writes),
                        meant |-> IF writes /\ given = <<{"ro"}>> THEN {}
                                  ELSE Meant(search.dir, fcb)]
    /\ UNCHANGED <<tree, search, shown, over, removed>>

\* The directory may be spelled otherwise when the file is deleted.
Delete(d, fcb) ==
    /\ over /\ Uppered(d) = Uppered(search.dir)
    /\ LET p == DosPath(d, DosName(fcb)) IN
       /\ removed' = [asked |-> p, sent |-> ToTnfsPath(p)]
       /\ tree' = [x \in DOMAIN tree |-> {n \in tree[x] : Joined(x, n) # ToTnfsPath(p)}]
    /\ UNCHANGED <<list, search, shown, over, opened>>

Next ==
    \/ \E d \in DosDir, p \in Pattern : FindFirst(d, p)
    \/ FindNext
    \/ \E fcb \in Spelled, writes \in BOOLEAN, given \in {<<>>, <<{}>>, <<{"ro"}>>} :
          Open(fcb, writes, given)
    \/ \E fcb \in Spelled, d \in DosDir : Delete(d, fcb)

Spec == Init /\ [][Next]_vars

----------------------------------------------------------------------------
(* What DOS means by a pattern, said of names and not of FCBs: a question  *)
(* mark stands for one character or none at the end, a star for the rest   *)
(* of its part.                                                            *)
Covers(p, s) ==
    LET star == SelectInSeq(p, LAMBDA c : c = "*")
        fixed == IF star = 0 THEN Len(p) ELSE star - 1
    IN  /\ star # 0 \/ Len(s) <= Len(p)
        /\ \A i \in 1 .. fixed : p[i] = "?" \/ (i \in DOMAIN s /\ p[i] = s[i])
Globs(p, n) == Covers(Base(p), Base(n)) /\ Covers(Ext(p), Ext(n))

Wanted(d, p) == {n \in Shorts(ServerDir(d)) : Globs(p, Uppered(n))}

(* The name DOS makes of one: upper case, without a dot at its end. *)
Display(n) == IF Ext(n) = <<>> THEN Uppered(Base(n)) ELSE Uppered(n)

(* What is stored fits its place: the array holds no more names than it has
   places for, each upper case and within its 12 characters; an FCB name has 11. *)
TypeOK ==
    /\ tree \in [DOMAIN tree -> SUBSET Seq(NameChar)]
    /\ Len(list) <= CacheMax
    /\ \A i \in DOMAIN list : /\ list[i].name = Uppered(list[i].name)
                              /\ Len(list[i].name) <= BaseMax + 1 + ExtMax
                              /\ list[i].attr \subseteq {"dir", "ro"}
    /\ \A i \in DOMAIN shown : DOMAIN shown[i] = 1 .. BaseMax + ExtMax
    /\ over \in BOOLEAN

(* A search that came to its end has shown no name but those the server lists
   in the directory, that are short and that the pattern covers, and none more
   often than the server has it; and it has shown them all, when the short names
   of the directory are no more than the array has places for. *)
ShowsMatches ==
    over /\ search.tmpl # <<>> /\ removed.sent = None =>
        LET wanted == Wanted(search.dir, search.pattern)
            names == {DosName(shown[i]) : i \in DOMAIN shown}
        IN  /\ Len(shown) <= Cardinality(wanted) /\ names \subseteq {Display(n) : n \in wanted}
            /\ Cardinality(Shorts(ServerDir(search.dir))) <= CacheMax =>
                  Len(shown) = Cardinality(wanted) /\ names = {Display(n) : n \in wanted}

(* Opening a file by a name that a search showed, or by the name it has on the
   server, opens that file there, listed or not and however its directory is
   spelled; it is not refused.  Three cases are excepted, in which the code may
   refuse it: the array has no room for the short names of the directory and
   this one; a directory beside the file has the same name in another case; and
   a SETATTR has made the name read-only and it is opened to be written. *)
OpensWhatItShows == opened.meant # {} => opened.sent \in opened.meant

(* The two ways a path is made for the server agree: the file that OPEN names
   for a DOS path is the one that DELETE, MKDIR, RENAME and CREATE name for
   it, in either case. *)
OpenAndDeleteAgree ==
    opened.sent # None /\ removed.sent # None
      /\ Uppered(opened.asked) = Uppered(removed.asked)
        => opened.sent = removed.sent
=============================================================================
