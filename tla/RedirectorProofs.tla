-------------------------- MODULE RedirectorProofs --------------------------
(***************************************************************************)
(* Proofs about Redirector, and about the cache of DirCache under it, for  *)
(* every tree, every set of handles, searches and faults, and every size   *)
(* of the array.                                                           *)
(***************************************************************************)
EXTENDS Redirector, FiniteSetTheorems, SequenceTheorems, TLAPS

(***************************************************************************)
(* Numbers and sequences.                                                  *)
(***************************************************************************)

(* A set of numbers that is not empty has a least element. *)
LEMMA LeastNumber ==
  ASSUME NEW T, T \subseteq Nat, T # {}
  PROVE  \E x \in T : \A y \in T : x <= y
<1> DEFINE U == {0 .. n : n \in T}
<1>1. U \subseteq FiniteSubsetsOf(Nat) /\ U # {}
  <2>1. ASSUME NEW n \in T PROVE 0 .. n \in FiniteSubsetsOf(Nat)
    <3>1. IsFiniteSet(0 .. n)
      BY FS_Interval
    <3> QED BY <3>1 DEF FiniteSubsetsOf
  <2> QED BY <2>1
<1>2. PICK u \in U : \A v \in U : ~(<<v, u>> \in StrictSubsetOrdering(Nat))
  <2> HIDE DEF U
  <2>1. IsWellFoundedOn(StrictSubsetOrdering(Nat), FiniteSubsetsOf(Nat))
    BY FS_StrictSubsetOrderingWellFounded
  <2> QED BY <1>1, <2>1, WFMin
<1>3. PICK x \in T : u = 0 .. x
  OBVIOUS
<1>4. ASSUME NEW y \in T, y < x PROVE FALSE
  <2>1. 0 .. y \subseteq 0 .. x /\ x \in 0 .. x /\ x \notin 0 .. y
    BY <1>4
  <2>2. <<0 .. y, 0 .. x>> \in StrictSubsetOrdering(Nat)
    BY <2>1 DEF StrictSubsetOrdering
  <2> QED BY <2>2, <1>2, <1>3
<1> QED BY <1>4

LEMMA LenNat == ASSUME NEW p \in Seq(STRING) PROVE Len(p) \in Nat
OBVIOUS

(* A slice of a sequence, and two sequences joined, element by element. *)
LEMMA Slice ==
  ASSUME NEW x \in Seq(STRING), NEW m \in Nat \ {0}, NEW n \in Nat, n <= Len(x), m <= n + 1
  PROVE  /\ SubSeq(x, m, n) \in Seq(STRING) /\ Len(SubSeq(x, m, n)) = n - m + 1
         /\ \A i \in 1 .. n - m + 1 : SubSeq(x, m, n)[i] = x[i + m - 1]
<1>1. CASE m <= n
  BY <1>1
<1>2. CASE m = n + 1
  BY <1>2
<1> QED BY <1>1, <1>2

LEMMA Concat ==
  ASSUME NEW s \in Seq(STRING), NEW t \in Seq(STRING)
  PROVE  /\ s \o t \in Seq(STRING) /\ Len(s \o t) = Len(s) + Len(t)
         /\ \A i \in 1 .. Len(s) : (s \o t)[i] = s[i]
         /\ \A i \in 1 .. Len(t) : (s \o t)[Len(s) + i] = t[i]
OBVIOUS

(***************************************************************************)
(* Paths.                                                                  *)
(***************************************************************************)
LEMMA PathSeq == \A p \in Path : p \in Seq(STRING)
<1>1. <<>> \in Seq(STRING)
  OBVIOUS
<1> QED BY <1>1, DirCacheAssumption

(* The parent of a path is the path without its name. *)
LEMMA ParentSeq ==
  ASSUME NEW p \in Seq(STRING), p # <<>>
  PROVE  /\ Parent(p) \in Seq(STRING) /\ Len(Parent(p)) = Len(p) - 1
         /\ \A i \in 1 .. Len(p) - 1 : Parent(p)[i] = p[i]
<1>1. PICK n \in Nat : n = Len(p) /\ n > 0
  OBVIOUS
<1>2. n - 1 \in Nat /\ n - 1 <= Len(p) /\ 1 <= (n - 1) + 1 /\ 1 \in Nat \ {0}
  BY <1>1
<1>3. /\ SubSeq(p, 1, n - 1) \in Seq(STRING) /\ Len(SubSeq(p, 1, n - 1)) = (n - 1) - 1 + 1
         /\ \A i \in 1 .. (n - 1) - 1 + 1 : SubSeq(p, 1, n - 1)[i] = p[i + 1 - 1]
  BY ONLY <1>2, Slice, p \in Seq(STRING), n \in Nat
<1>4. (n - 1) - 1 + 1 = n - 1 /\ \A i \in 1 .. n - 1 : i + 1 - 1 = i
  OBVIOUS
<1>5. Parent(p) = SubSeq(p, 1, n - 1) /\ Len(p) - 1 = n - 1
  BY <1>1 DEF Parent
<1>6. \A i \in 1 .. n - 1 : SubSeq(p, 1, n - 1)[i] = p[i]
  BY <1>3, <1>4
<1> QED BY <1>3, <1>4, <1>5, <1>6

LEMMA ParentConcat ==
  ASSUME NEW q \in Seq(STRING), NEW t \in Seq(STRING), t # <<>>
  PROVE Parent(q \o t) = q \o Parent(t)
<1>1. Parent(t) \in Seq(STRING) /\ Len(Parent(t)) = Len(t) - 1
         /\ \A i \in 1 .. Len(t) - 1 : Parent(t)[i] = t[i]
  BY ParentSeq
<1>2. q \o t \in Seq(STRING) /\ Len(q \o t) = Len(q) + Len(t)
  OBVIOUS
<1>3. q \o t # <<>>
  OBVIOUS
<1>4. Parent(q \o t) \in Seq(STRING) /\ Len(Parent(q \o t)) = Len(q \o t) - 1
         /\ \A i \in 1 .. Len(q \o t) - 1 : Parent(q \o t)[i] = (q \o t)[i]
  BY <1>2, <1>3, ParentSeq
<1>5. q \o Parent(t) \in Seq(STRING)
  BY <1>1
<1>6. /\ Len(q \o Parent(t)) = Len(q) + Len(Parent(t))
      /\ \A i \in 1 .. Len(q) : (q \o Parent(t))[i] = q[i]
      /\ \A i \in 1 .. Len(Parent(t)) : (q \o Parent(t))[Len(q) + i] = Parent(t)[i]
    BY <1>1, Concat
<1>7. PICK m \in Nat, n \in Nat : m = Len(q) /\ n = Len(t) /\ n > 0
  OBVIOUS
<1>8. Len(Parent(q \o t)) = Len(q \o Parent(t))
  BY <1>1, <1>2, <1>4, <1>6, <1>7
<1>9. ASSUME NEW i \in 1 .. Len(q \o Parent(t)) PROVE Parent(q \o t)[i] = (q \o Parent(t))[i]
  <2>0. Len(q \o Parent(t)) = m + n - 1 /\ i \in 1 .. m + n - 1
    BY <1>1, <1>6, <1>7
  <2>1. i \in 1 .. Len(q \o t) - 1
    BY <2>0, <1>2, <1>7
  <2>2. CASE i \in 1 .. m
    BY <2>2, <2>1, <1>4, <1>6, <1>7, Concat
  <2>3. CASE i \in m + 1 .. m + n - 1
    <3>1. PICK j \in 1 .. n - 1 : i = m + j
      BY <2>3
    <3>2. /\ j \in 1 .. Len(t) - 1 /\ j \in 1 .. Len(t) /\ j \in 1 .. Len(Parent(t))
          /\ i = Len(q) + j
      BY <3>1, <1>1, <1>7
    <3>3. Parent(q \o t)[i] = t[j]
      BY <3>2, <2>1, <1>4, Concat
    <3>4. (q \o Parent(t))[i] = t[j]
      BY <3>2, <1>1, <1>6
    <3> QED BY <3>3, <3>4
  <2> QED BY <2>0, <2>2, <2>3
<1> QED BY <1>4, <1>5, <1>8, <1>9, SeqEqual

(* Slices of a parent, and parents of slices. *)
LEMMA ParentSlice ==
  ASSUME NEW x \in Seq(STRING), NEW m \in Nat \ {0}, NEW n \in Nat,
         m <= n + 1, n <= Len(Parent(x)), x # <<>>
  PROVE  SubSeq(Parent(x), m, n) = SubSeq(x, m, n)
<1>1. /\ Parent(x) \in Seq(STRING) /\ Len(Parent(x)) = Len(x) - 1
      /\ \A i \in 1 .. Len(x) - 1 : Parent(x)[i] = x[i]
  BY ParentSeq
<1>2. PICK k \in Nat : k = Len(x) /\ k > 0 /\ n <= k - 1
  BY <1>1, LenNat
<1>3. /\ SubSeq(Parent(x), m, n) \in Seq(STRING) /\ Len(SubSeq(Parent(x), m, n)) = n - m + 1
      /\ \A i \in 1 .. n - m + 1 : SubSeq(Parent(x), m, n)[i] = Parent(x)[i + m - 1]
  BY <1>1, Slice
<1>4. /\ SubSeq(x, m, n) \in Seq(STRING) /\ Len(SubSeq(x, m, n)) = n - m + 1
      /\ \A i \in 1 .. n - m + 1 : SubSeq(x, m, n)[i] = x[i + m - 1]
  <2>1. n <= Len(x)
    BY <1>2
  <2> QED BY <2>1, Slice
<1>5. ASSUME NEW i \in 1 .. n - m + 1 PROVE SubSeq(Parent(x), m, n)[i] = SubSeq(x, m, n)[i]
  <2>1. i + m - 1 \in 1 .. Len(x) - 1
    BY <1>2
  <2> QED BY <2>1, <1>1, <1>3, <1>4
<1> QED BY <1>3, <1>4, <1>5, SeqEqual

LEMMA SliceParent ==
  ASSUME NEW x \in Seq(STRING), NEW m \in Nat \ {0}, m <= Len(x)
  PROVE  /\ SubSeq(x, m, Len(x)) # <<>>
         /\ Parent(SubSeq(x, m, Len(x))) = SubSeq(x, m, Len(x) - 1)
<1> DEFINE t == SubSeq(x, m, Len(x))
<1>1. PICK k \in Nat : k = Len(x) /\ m <= k
  BY LenNat
<1>2. /\ t \in Seq(STRING) /\ Len(t) = k - m + 1
      /\ \A i \in 1 .. k - m + 1 : t[i] = x[i + m - 1]
  BY <1>1, Slice
<1>3. /\ SubSeq(x, m, k - 1) \in Seq(STRING) /\ Len(SubSeq(x, m, k - 1)) = k - m
      /\ \A i \in 1 .. k - m : SubSeq(x, m, k - 1)[i] = x[i + m - 1]
  <2>1. k - 1 \in Nat /\ k - 1 <= Len(x) /\ m <= (k - 1) + 1 /\ (k - 1) - m + 1 = k - m
    BY <1>1
  <2> QED BY <2>1, Slice
<1> HIDE DEF t
<1>4. t # <<>>
  <2>1. Len(t) > 0
    BY <1>1, <1>2
  <2> QED BY <2>1
<1>5. /\ Parent(t) \in Seq(STRING) /\ Len(Parent(t)) = k - m
      /\ \A i \in 1 .. k - m : Parent(t)[i] = t[i]
  BY <1>1, <1>2, <1>4, ParentSeq
<1>6. ASSUME NEW i \in 1 .. k - m PROVE Parent(t)[i] = SubSeq(x, m, k - 1)[i]
  BY <1>1, <1>2, <1>3, <1>5
<1>7. Parent(t) = SubSeq(x, m, k - 1)
  BY <1>3, <1>5, <1>6, SeqEqual
<1> QED BY <1>1, <1>4, <1>7 DEF t

LEMMA ParentName ==
  ASSUME NEW p \in Seq(STRING), p # <<>>
  PROVE  Name(p) \in STRING /\ Append(Parent(p), Name(p)) = p
<1>1. Len(p) \in Nat \ {0}
  OBVIOUS
<1> QED BY <1>1 DEF Parent, Name

LEMMA ParentOfAppend ==
  ASSUME NEW p \in Seq(STRING), NEW n, Append(p, n) \in Seq(STRING)
  PROVE  Parent(Append(p, n)) = p /\ Name(Append(p, n)) = n /\ Append(p, n) # <<>>
BY DEF Parent, Name

(* What is below a path is below it still when the path gets another name, and
   comes back with the name. *)
LEMMA OntoAndBack ==
  ASSUME NEW p \in Seq(STRING), NEW q \in Seq(STRING), NEW x \in Seq(STRING), Under(p, x)
  PROVE  /\ Onto(q, p, x) \in Seq(STRING)
         /\ Under(q, Onto(q, p, x)) /\ Onto(p, q, Onto(q, p, x)) = x
BY SMTT(30) DEF Onto, Under

LEMMA OntoParent ==
  ASSUME NEW p \in Seq(STRING), NEW q \in Seq(STRING), NEW x \in Seq(STRING),
         Under(p, x), x # p
  PROVE  /\ x # <<>> /\ Under(p, Parent(x)) /\ Parent(Onto(q, p, x)) = Onto(q, p, Parent(x))
         /\ Onto(q, p, x) # q /\ Onto(q, p, x) # <<>>
<1>1. PICK k \in Nat, n \in Nat : k = Len(x) /\ n = Len(p) /\ n < k
  <2>1. PICK k \in Nat, n \in Nat : k = Len(x) /\ n = Len(p) /\ n <= k
    BY LenNat DEF Under
  <2>2. ASSUME n = k PROVE FALSE
    <3>1. SubSeq(x, 1, Len(x)) = p
      BY <2>1, <2>2 DEF Under
    <3> QED BY <3>1, SubSeqFull
  <2>3. n < k
    BY <2>1, <2>2
  <2> QED BY <2>1, <2>3
<1>2. x # <<>> /\ Parent(x) \in Seq(STRING) /\ Len(Parent(x)) = k - 1
  BY <1>1, ParentSeq
<1>3. SubSeq(Parent(x), 1, n) = SubSeq(x, 1, n)
  <2>1. 1 \in Nat \ {0} /\ 1 <= n + 1 /\ n <= Len(Parent(x))
    BY <1>1, <1>2
  <2> QED BY <1>2, <2>1, ParentSlice
<1>4. Under(p, Parent(x))
  BY <1>1, <1>2, <1>3 DEF Under
<1> DEFINE t == SubSeq(x, n + 1, k)
<1>5. /\ t \in Seq(STRING) /\ t # <<>> /\ Parent(t) = SubSeq(x, n + 1, k - 1)
  <2>1. n + 1 \in Nat \ {0} /\ n + 1 <= Len(x) /\ k \in Nat /\ k <= Len(x) /\ n + 1 <= k + 1
    BY <1>1
  <2>2. t \in Seq(STRING)
    BY <2>1, Slice
  <2>3. t # <<>> /\ Parent(t) = SubSeq(x, n + 1, k - 1)
    BY <2>1, <1>1, SliceParent
  <2> QED BY <2>2, <2>3
<1>6. SubSeq(Parent(x), n + 1, k - 1) = SubSeq(x, n + 1, k - 1)
  <2>1. k - 1 \in Nat /\ n + 1 <= (k - 1) + 1 /\ n + 1 \in Nat \ {0} /\ k - 1 <= Len(Parent(x))
    BY <1>1, <1>2
  <2> QED BY <1>2, <2>1, ParentSlice
<1>7. Onto(q, p, x) = q \o t /\ Onto(q, p, Parent(x)) = q \o Parent(t)
  BY <1>1, <1>2, <1>5, <1>6 DEF Onto
<1> HIDE DEF t
<1>8. Parent(Onto(q, p, x)) = Onto(q, p, Parent(x))
  BY <1>5, <1>7, ParentConcat
<1>9. q \o t # q /\ q \o t # <<>>
  BY <1>5
<1> QED BY <1>2, <1>4, <1>7, <1>8, <1>9

(* Nothing shorter is below a path; what is below a parent is below the path's. *)
LEMMA UnderParent ==
  ASSUME NEW p \in Seq(STRING), NEW x \in Seq(STRING), x # <<>>
  PROVE  /\ ~Under(x, Parent(x)) /\ ~Under(x, <<>>)
         /\ Under(p, Parent(x)) => Under(p, x)
<1>1. PICK k \in Nat : k = Len(x) /\ k > 0 /\ Len(Parent(x)) = k - 1
  BY ParentSeq, LenNat
<1>2. ~Under(x, Parent(x)) /\ ~Under(x, <<>>)
  BY <1>1 DEF Under
<1>3. ASSUME Under(p, Parent(x)) PROVE Under(p, x)
  <2>1. PICK n \in Nat : n = Len(p) /\ n <= k - 1
    BY <1>1, <1>3, LenNat DEF Under
  <2>2. SubSeq(Parent(x), 1, n) = SubSeq(x, 1, n)
    BY <2>1, <1>1, ParentSlice
  <2> QED BY <1>1, <1>3, <2>1, <2>2 DEF Under
<1> QED BY <1>2, <1>3


(***************************************************************************)
(* The server's tree.                                                      *)
(***************************************************************************)
(* What exists is in a directory, up to the root. *)
TreeOK ==
    /\ srv \in [Path -> Node] /\ srv[<<>>] = Directory
    /\ \A p \in Path \ {<<>>} : Exists(p) => IsDir(Parent(p))

LEMMA NodeFacts ==
  ASSUME NEW n \in Node
  PROVE  /\ n.kind \in {"none", "dir", "file"} /\ n.size \in 0 .. MaxSize
         /\ n.kind = "none" <=> n = Absent
         /\ n.kind = "dir" <=> n = Directory
         /\ n.kind = "file" <=> n \in {File(k) : k \in 0 .. MaxSize}
BY DirCacheAssumption DEF Node, Absent, Directory, File

(* Only directories have anything below them. *)
LEMMA BelowADirectory ==
  ASSUME TreeOK, NEW p \in Path, NEW y \in Path, Under(p, y), y # p, Exists(y)
  PROVE  IsDir(p)
<1> DEFINE Wrong(x) == x \in Path /\ Under(p, x) /\ x # p /\ Exists(x)
           T == {n \in Nat : \E x \in Path : Wrong(x) /\ Len(x) = n}
<1> SUFFICES ASSUME ~IsDir(p) PROVE FALSE
  OBVIOUS
<1>1. p \in Seq(STRING) /\ \A x \in Path : x \in Seq(STRING)
  BY PathSeq
<1>2. Len(y) \in T
  BY <1>1, LenNat
<1>3. PICK n \in T : \A m \in T : n <= m
  <2>1. T \subseteq Nat /\ T # {}
    BY <1>2
  <2> HIDE DEF T
  <2> QED BY <2>1, LeastNumber
<1>4. PICK x \in Path : Wrong(x) /\ Len(x) = n
  OBVIOUS
<1>5. x # <<>> /\ Under(p, Parent(x)) /\ Parent(x) \in Path /\ Len(Parent(x)) = n - 1
  BY <1>1, <1>4, OntoParent, ParentSeq, DirCacheAssumption
<1>6. IsDir(Parent(x))
  BY <1>4, <1>5 DEF TreeOK
<1>7. Parent(x) # p /\ Exists(Parent(x))
  BY <1>6 DEF IsDir, Exists
<1>8. n - 1 \in T
  <2>1. n - 1 \in Nat
    BY <1>1, <1>5, LenNat
  <2> QED BY <2>1, <1>5, <1>7
<1> QED BY <1>3, <1>8

(* The paths DOS can name, and their parents. *)
LEMMA DosPathFacts ==
  ASSUME NEW p \in DosPath
  PROVE  /\ p \in Path /\ p # <<>> /\ p \in Seq(STRING) /\ Parent(p) \in Path
         /\ Name(p) \in Short /\ Append(Parent(p), Name(p)) = p
<1>1. p \in Path /\ p # <<>> /\ \A i \in 1 .. Len(p) : p[i] \in Short
  BY DEF DosPath
<1>2. p \in Seq(STRING) /\ Parent(p) \in Path
  BY <1>1, PathSeq, DirCacheAssumption
<1>3. Name(p) \in Short
  <2>1. Len(p) \in 1 .. Len(p)
    BY <1>1, <1>2
  <2> QED BY <1>1, <2>1 DEF Name
<1> QED BY <1>1, <1>2, <1>3, ParentName

(***************************************************************************)
(* Listings.                                                               *)
(***************************************************************************)
LEMMA VisibleFacts ==
  ASSUME NEW d \in Path
  PROVE  /\ Visible(d) \subseteq Children(d) /\ Children(d) \subseteq Path \ {<<>>}
         /\ \A p \in Visible(d) : Name(p) \in Short
         /\ \A p \in Children(d) : Parent(p) = d /\ Append(d, Name(p)) = p /\ Exists(p)
         /\ IsFiniteSet(Visible(d)) /\ Cardinality(Visible(d)) \in Nat
         /\ IsFiniteSet(Children(d)) /\ Cardinality(Children(d)) \in Nat
<1>1. Visible(d) \subseteq Children(d) /\ \A p \in Visible(d) : Name(p) \in Short
  BY DEF Visible
<1>2. Children(d) \subseteq Path \ {<<>>} /\ \A p \in Children(d) : Parent(p) = d /\ Exists(p)
  BY DEF Children
<1>3. \A p \in Children(d) : Append(d, Name(p)) = p
  BY <1>2, PathSeq, ParentName
<1>4. IsFiniteSet(Visible(d)) /\ IsFiniteSet(Children(d))
  BY <1>1, <1>2, FS_Subset, DirCacheAssumption
<1>5. Cardinality(Visible(d)) \in Nat /\ Cardinality(Children(d)) \in Nat
  BY <1>4, FS_CardinalityType
<1> QED BY <1>1, <1>2, <1>3, <1>4, <1>5

LEMMA EntryFacts ==
  ASSUME TreeOK, NEW p \in Path, Name(p) \in Short
  PROVE  /\ Entry(p) \in Item /\ Entry(p).name = Name(p)
         /\ "dir" \in Entry(p).attr <=> IsDir(p)
<1>1. srv[p].size \in 0 .. MaxSize
  BY NodeFacts DEF TreeOK
<1> QED BY <1>1 DEF Entry, Item

(* An order of a set has each of its elements once. *)
LEMMA OrderFacts ==
  ASSUME NEW S, IsFiniteSet(S), NEW s \in Orders(S)
  PROVE  /\ Cardinality(S) \in Nat /\ s \in [1 .. Cardinality(S) -> S]
         /\ Len(s) = Cardinality(S)
         /\ \A x \in S : \E i \in 1 .. Cardinality(S) : s[i] = x
         /\ \A i, j \in 1 .. Cardinality(S) : s[i] = s[j] => i = j
<1> DEFINE n == Cardinality(S)
<1>1. n \in Nat
  BY FS_CardinalityType
<1>2. s \in [1 .. n -> S] /\ \A x \in S : \E i \in 1 .. n : s[i] = x
  BY DEF Orders
<1>3. IsFiniteSet(1 .. n) /\ Cardinality(1 .. n) = n
  BY <1>1, FS_Interval
<1>4. s \in Surjection(1 .. n, S)
  BY <1>2 DEF Surjection
<1>5. s \in Injection(1 .. n, S)
  BY <1>3, <1>4, FS_Surjection
<1>6. \A i, j \in 1 .. n : s[i] = s[j] => i = j
  BY <1>2, <1>5 DEF Injection, IsInjective
<1>7. Len(s) = n
  BY <1>1, <1>2
<1> QED BY <1>1, <1>2, <1>6, <1>7

(* What READDIRX can return: visible entries of the directory, each name once,
   and all of them if there is room. *)
Faithful(l, d) ==
    /\ l \in Seq(Item) /\ Len(l) <= CacheMax
    /\ \A i \in 1 .. Len(l) : \E p \in Visible(d) : l[i] = Entry(p)
    /\ \A i, j \in 1 .. Len(l) : l[i].name = l[j].name => i = j
    /\ Len(l) < CacheMax \/ Cardinality(Visible(d)) <= CacheMax =>
          \A p \in Visible(d) : \E i \in 1 .. Len(l) : l[i].name = Name(p)

LEMMA ListingFacts ==
  ASSUME TreeOK, NEW d \in Path, NEW l \in Listings(d)
  PROVE  Faithful(l, d)
<1> DEFINE V == Visible(d)
           n == Cardinality(V)
<1>1. PICK s \in Orders(V) : l = [i \in 1 .. Shown(s) |-> Entry(s[i])]
  BY DEF Listings
<1>2. /\ n \in Nat /\ s \in [1 .. n -> V] /\ Len(s) = n
      /\ \A x \in V : \E i \in 1 .. n : s[i] = x
      /\ \A i, j \in 1 .. n : s[i] = s[j] => i = j
  BY VisibleFacts, OrderFacts
<1>3. /\ \A p \in V : /\ Entry(p) \in Item /\ Entry(p).name = Name(p)
                      /\ Append(d, Name(p)) = p
  BY VisibleFacts, EntryFacts
<1> HIDE DEF V, n
<1>4. PICK k \in Nat : k = Shown(s) /\ k <= CacheMax /\ k <= n /\ (k < CacheMax \/ n <= CacheMax => k = n)
  BY <1>2, DirCacheAssumption DEF Shown
<1>5. l \in Seq(Item) /\ Len(l) = k /\ \A i \in 1 .. k : s[i] \in V /\ l[i] = Entry(s[i])
  <2>1. \A i \in 1 .. k : s[i] \in V /\ Entry(s[i]) \in Item
    BY <1>2, <1>3, <1>4
  <2>2. l = [i \in 1 .. k |-> Entry(s[i])]
    BY <1>1, <1>4
  <2>3. l \in [1 .. k -> Item]
    BY <2>1, <2>2
  <2>4. l \in Seq(Item) /\ Len(l) = k
    BY <2>3
  <2> QED BY <2>1, <2>2, <2>4
<1>6. ASSUME NEW i \in 1 .. k, NEW j \in 1 .. k, l[i].name = l[j].name
      PROVE  i = j
  <2>1. s[i] = s[j]
    <3>1. s[i] \in V /\ s[j] \in V /\ Name(s[i]) = Name(s[j])
      BY <1>3, <1>5, <1>6
    <3> QED BY <3>1, <1>3
  <2> QED BY <2>1, <1>2, <1>4
<1>7. ASSUME k < CacheMax \/ n <= CacheMax, NEW p \in V
      PROVE  \E i \in 1 .. k : l[i].name = Name(p)
  BY <1>2, <1>3, <1>4, <1>5, <1>7, SMTT(30)
<1> QED BY <1>4, <1>5, <1>6, <1>7 DEF Faithful, V, n

LEMMA PrefixFacts ==
  ASSUME NEW S, NEW l \in Seq(S), NEW k \in 0 .. Len(l)
  PROVE  /\ SubSeq(l, 1, k) \in Seq(S) /\ Len(SubSeq(l, 1, k)) = k
         /\ \A i \in 1 .. k : SubSeq(l, 1, k)[i] = l[i]
<1>1. CASE k = 0
  BY <1>1
<1>2. CASE k > 0
  BY <1>2
<1> QED BY <1>1, <1>2

(***************************************************************************)
(* Loads.  A cache of its type, its names distinct whether or not it is    *)
(* valid, and one that agrees with the server.                             *)
(***************************************************************************)
DistinctNames(l) == \A i, j \in DOMAIN l : l[i].name = l[j].name => i = j

LEMMA FaithfulNames ==
  ASSUME NEW d, NEW l, Faithful(l, d), NEW k \in 0 .. Len(l)
  PROVE  DistinctNames(l) /\ DistinctNames(SubSeq(l, 1, k))
<1>1. /\ l \in Seq(Item) /\ DOMAIN l = 1 .. Len(l) /\ Len(l) \in Nat
      /\ \A i, j \in 1 .. Len(l) : l[i].name = l[j].name => i = j
  BY DEF Faithful
<1>2. PICK m : m = SubSeq(l, 1, k)
  OBVIOUS
<1>3. m \in Seq(Item) /\ DOMAIN m = 1 .. k /\ \A i \in 1 .. k : m[i] = l[i] /\ i \in 1 .. Len(l)
  <2>1. m \in Seq(Item) /\ Len(m) = k /\ \A i \in 1 .. k : m[i] = l[i]
    BY <1>1, <1>2, PrefixFacts
  <2> QED BY <2>1, <1>1
<1> QED BY <1>1, <1>2, <1>3 DEF DistinctNames

Cached(c) ==
    /\ c \in [path : Path, valid : BOOLEAN, list : Seq(Item), loaded : 0 .. MaxNow,
              foreign : BOOLEAN, late : BOOLEAN]
    /\ Len(c.list) <= CacheMax /\ c.loaded <= now
    /\ DistinctNames(c.list)

Agrees(c) ==
    /\ \A i, j \in DOMAIN c.list : c.list[i].name = c.list[j].name => i = j
    /\ \A i \in DOMAIN c.list :
          LET p == Append(c.path, c.list[i].name) IN
          p \in Children(c.path) /\ ("dir" \in c.list[i].attr => IsDir(p))
    /\ Len(c.list) < CacheMax \/ Cardinality(Visible(c.path)) <= CacheMax =>
          \A p \in Visible(c.path) : Named(c.list, Name(p)) # {}
Coherent(c) == c.valid /\ ~c.foreign => Agrees(c)

LEMMA TheCache == /\ CacheTypeOK => now \in 0 .. MaxNow
                  /\ CacheTypeOK /\ DistinctNames(cache.list) => Cached(cache)
                  /\ CacheCoherent <=> Coherent(cache)
BY DEF CacheTypeOK, Cached, CacheCoherent, Coherent, Agrees

LEMMA FaithfulAgrees ==
  ASSUME TreeOK, NEW c, Cached(c), Faithful(c.list, c.path)
  PROVE  Agrees(c)
<1>1. c.path \in Path /\ c.list \in Seq(Item) /\ DOMAIN c.list = 1 .. Len(c.list)
  BY DEF Cached
<1>2. ASSUME NEW i \in DOMAIN c.list
      PROVE  LET p == Append(c.path, c.list[i].name) IN
             p \in Children(c.path) /\ ("dir" \in c.list[i].attr => IsDir(p))
  <2>1. PICK p \in Visible(c.path) : c.list[i] = Entry(p)
    BY <1>1 DEF Faithful
  <2>2. /\ p \in Children(c.path) /\ Append(c.path, Name(p)) = p
        /\ Entry(p).name = Name(p) /\ ("dir" \in Entry(p).attr <=> IsDir(p))
    BY <1>1, VisibleFacts, EntryFacts
  <2> QED BY <2>1, <2>2
<1>3. \A i, j \in DOMAIN c.list : c.list[i].name = c.list[j].name => i = j
  BY <1>1 DEF Faithful
<1>4. Len(c.list) < CacheMax \/ Cardinality(Visible(c.path)) <= CacheMax =>
          \A p \in Visible(c.path) : Named(c.list, Name(p)) # {}
  BY <1>1 DEF Faithful, Named
<1> QED BY <1>2, <1>3, <1>4 DEF Agrees

(* Whatever is lost, a load leaves a cache that agrees with the server or is
   not valid, and one that succeeds leaves the directory it was asked for. *)
LEMMA LoadFacts ==
  ASSUME TreeOK, CacheTypeOK, DistinctNames(cache.list), CacheCoherent, NEW d \in Path, NEW f, NEW l \in Loads(d, f)
  PROVE  /\ l.ok \in BOOLEAN /\ Cached(l.c) /\ Coherent(l.c)
         /\ l.ok => l.c.valid /\ l.c.path = d
<1>0. Cached(cache) /\ Coherent(cache) /\ now \in 0 .. MaxNow
  BY TheCache
<1>1. CASE Hit(d)
  <2>1. l = [ok |-> TRUE, c |-> Served] /\ cache.valid /\ cache.path = d
    BY <1>1 DEF Loads, Hit
  <2>2. Cached(Served) /\ Served.valid = cache.valid /\ Served.path = cache.path
        /\ Served.list = cache.list /\ Served.foreign = cache.foreign
    BY <1>0 DEF Cached, Served
  <2>3. Coherent(Served)
    BY <1>0, <2>2 DEF Coherent, Agrees
  <2> QED BY <2>1, <2>2, <2>3
<1>2. CASE ~Hit(d)
  <2>1. ASSUME NEW k, k \in Seq(Item), Len(k) <= CacheMax, DistinctNames(k)
        PROVE  Cached(Emptied(k)) /\ Coherent(Emptied(k))
    BY <1>0, <2>1 DEF Cached, Emptied, Coherent
  <2>2. CASE l = [ok |-> FALSE, c |-> Emptied(<<>>)]
    <3>1. <<>> \in Seq(Item) /\ Len(<<>>) <= CacheMax /\ DistinctNames(<<>>)
      BY DirCacheAssumption DEF DistinctNames
    <3> QED BY <2>1, <2>2, <3>1
  <2>3. CASE \E k \in Listings(d) : \E j \in Prefixes(k) : l = [ok |-> FALSE, c |-> Emptied(j)]
    <3>1. PICK k \in Listings(d) : \E m \in 0 .. Len(k) :
             l = [ok |-> FALSE, c |-> Emptied(SubSeq(k, 1, m))]
      BY <2>3 DEF Prefixes
    <3>4. PICK m \in 0 .. Len(k) : l = [ok |-> FALSE, c |-> Emptied(SubSeq(k, 1, m))]
      BY <3>1
    <3>2. Faithful(k, d) /\ k \in Seq(Item) /\ Len(k) <= CacheMax
      BY ListingFacts DEF Faithful
    <3>3. /\ SubSeq(k, 1, m) \in Seq(Item) /\ Len(SubSeq(k, 1, m)) <= CacheMax
          /\ DistinctNames(SubSeq(k, 1, m))
      BY <3>2, PrefixFacts, FaithfulNames, DirCacheAssumption
    <3> QED BY <3>3, <3>4, <2>1
  <2>4. CASE \E k \in Listings(d) : l = [ok |-> FALSE, c |-> Emptied(k)]
    <3>1. PICK k \in Listings(d) : l = [ok |-> FALSE, c |-> Emptied(k)]
      BY <2>4
    <3>2. Faithful(k, d) /\ k \in Seq(Item) /\ Len(k) <= CacheMax /\ 0 \in 0 .. Len(k)
      BY ListingFacts DEF Faithful
    <3>3. DistinctNames(k)
      BY <3>2, FaithfulNames
    <3> QED BY <3>1, <3>2, <3>3, <2>1
  <2>5. CASE \E k \in Listings(d) : l = [ok |-> TRUE, c |-> Loaded(d, k)]
    <3>1. PICK k \in Listings(d) : l = [ok |-> TRUE, c |-> Loaded(d, k)]
      BY <2>5
    <3>2. Faithful(k, d) /\ k \in Seq(Item) /\ Len(k) <= CacheMax /\ 0 \in 0 .. Len(k)
      BY ListingFacts DEF Faithful
    <3>5. DistinctNames(k)
      BY <3>2, FaithfulNames
    <3>3. Cached(Loaded(d, k)) /\ Loaded(d, k).list = k /\ Loaded(d, k).path = d
          /\ Loaded(d, k).valid
      BY <1>0, <3>2, <3>5 DEF Cached, Loaded
    <3>4. Coherent(Loaded(d, k))
      BY <3>2, <3>3, FaithfulAgrees DEF Coherent
    <3> QED BY <3>1, <3>3, <3>4
  <2> QED BY <1>2, <2>2, <2>3, <2>4, <2>5 DEF Loads, Fetches
<1> QED BY <1>1, <1>2

(***************************************************************************)
(* Resolves.                                                               *)
(***************************************************************************)
(* An entry learnt by STAT keeps a cache what it was. *)
LEMMA LearntFacts ==
  ASSUME TreeOK, NEW p \in DosPath, Exists(p), NEW c, Cached(c), Coherent(c),
         c.path = Parent(p), Named(c.list, Name(p)) = {}, Len(c.list) < CacheMax
  PROVE  /\ Cached([c EXCEPT !.list = Append(@, Entry(p))])
         /\ Coherent([c EXCEPT !.list = Append(@, Entry(p))])
<1> DEFINE k == Append(c.list, Entry(p))
           e == [c EXCEPT !.list = k]
<1>1. /\ p \in Path /\ p # <<>> /\ Name(p) \in Short /\ Append(Parent(p), Name(p)) = p
      /\ p \in Children(Parent(p))
  BY DosPathFacts DEF Children
<1>2. Entry(p) \in Item /\ Entry(p).name = Name(p) /\ ("dir" \in Entry(p).attr <=> IsDir(p))
  BY <1>1, EntryFacts
<1>3. c.list \in Seq(Item) /\ Len(c.list) \in Nat
  BY DEF Cached
<1>4. /\ k \in Seq(Item) /\ Len(k) = Len(c.list) + 1
      /\ \A i \in 1 .. Len(c.list) : k[i] = c.list[i]
      /\ k[Len(c.list) + 1] = Entry(p)
  BY <1>2, <1>3, AppendProperties
<1> HIDE DEF k
<1>5. /\ e \in [path : Path, valid : BOOLEAN, list : Seq(Item), loaded : 0 .. MaxNow,
                foreign : BOOLEAN, late : BOOLEAN]
      /\ e.list = k /\ e.path = c.path /\ e.valid = c.valid /\ e.foreign = c.foreign
      /\ e.loaded = c.loaded
  BY <1>4 DEF Cached
<1>9. DOMAIN c.list = 1 .. Len(c.list) /\ DOMAIN k = 1 .. Len(c.list) + 1
  BY <1>3, <1>4
<1>10. DistinctNames(k)
  <2>1. \A i \in 1 .. Len(c.list) : c.list[i].name # Name(p)
    BY <1>9 DEF Named
  <2>2. SUFFICES ASSUME NEW i \in 1 .. Len(c.list) + 1, NEW j \in 1 .. Len(c.list) + 1,
                        k[i].name = k[j].name
                 PROVE  i = j
    BY <1>9 DEF DistinctNames
  <2>3. CASE i \in 1 .. Len(c.list) /\ j \in 1 .. Len(c.list)
    BY <2>2, <2>3, <1>4, <1>9 DEF Cached, DistinctNames
  <2>4. CASE i = Len(c.list) + 1 /\ j \in 1 .. Len(c.list)
    BY <2>1, <2>2, <2>4, <1>2, <1>4
  <2>5. CASE i \in 1 .. Len(c.list) /\ j = Len(c.list) + 1
    BY <2>1, <2>2, <2>5, <1>2, <1>4
  <2> QED BY <2>3, <2>4, <2>5, <1>3
<1>6. Cached(e)
  BY <1>3, <1>4, <1>5, <1>10, DirCacheAssumption DEF Cached
<1> HIDE DEF e
<1>7. ASSUME Agrees(c) PROVE Agrees(e)
  <2>1. DOMAIN c.list = 1 .. Len(c.list) /\ DOMAIN k = 1 .. Len(c.list) + 1
    BY <1>9
  <2>3. \A i, j \in DOMAIN k : k[i].name = k[j].name => i = j
    BY <1>10 DEF DistinctNames
  <2>4. \A i \in DOMAIN k : LET q == Append(c.path, k[i].name) IN
           q \in Children(c.path) /\ ("dir" \in k[i].attr => IsDir(q))
    <3>1. SUFFICES ASSUME NEW i \in 1 .. Len(c.list) + 1
                   PROVE  LET q == Append(c.path, k[i].name) IN
                          q \in Children(c.path) /\ ("dir" \in k[i].attr => IsDir(q))
      BY <2>1
    <3>2. CASE i \in 1 .. Len(c.list)
      BY <3>2, <2>1, <1>4, <1>7 DEF Agrees
    <3>3. CASE i = Len(c.list) + 1
      BY <3>3, <1>1, <1>2, <1>4
    <3> QED BY <3>2, <3>3, <1>3
  <2>5. \A q \in Visible(c.path) : Named(k, Name(q)) # {}
    <3>1. ASSUME NEW q \in Visible(c.path) PROVE Named(k, Name(q)) # {}
      <4>1. PICK i \in 1 .. Len(c.list) : c.list[i].name = Name(q)
        BY <1>7, <2>1 DEF Agrees, Named
      <4>2. i \in DOMAIN k /\ k[i].name = Name(q)
        BY <4>1, <1>3, <1>4, <2>1
      <4> QED BY <4>2 DEF Named
    <3> QED BY <3>1
  <2> QED BY <2>3, <2>4, <2>5, <1>5 DEF Agrees
<1>8. Coherent(e)
  BY <1>5, <1>7 DEF Coherent
<1> QED BY <1>6, <1>8 DEF k, e

(* The entry found is that of the path asked for. *)
Finds(p, i, c) ==
    /\ i \in 1 .. Len(c.list) /\ c.valid /\ c.path = Parent(p)
    /\ c.list[i].name = Name(p) /\ Append(c.path, c.list[i].name) = p

LEMMA ResolveFacts ==
  ASSUME TreeOK, CacheTypeOK, DistinctNames(cache.list), CacheCoherent,
         NEW p \in DosPath \cup {<<>>}, NEW f, NEW r \in Resolves(p, f)
  PROVE  /\ Cached(r.c) /\ Coherent(r.c)
         /\ r.i # 0 => p \in DosPath /\ Finds(p, r.i, r.c)
<1>1. CASE p = <<>>
  BY <1>1, TheCache DEF Resolves
<1>2. CASE p # <<>>
  <2>1. p \in DosPath /\ Parent(p) \in Path /\ Append(Parent(p), Name(p)) = p
    BY <1>2, DosPathFacts
  <2>2. PICK l \in Loads(Parent(p), f) : r = Resolved(p, f, l)
    BY <1>2 DEF Resolves
  <2>3. /\ Cached(l.c) /\ Coherent(l.c) /\ l.ok \in BOOLEAN
        /\ l.ok => l.c.valid /\ l.c.path = Parent(p)
    BY <2>1, LoadFacts
  <2>4. l.c.list \in Seq(Item) /\ Len(l.c.list) \in Nat /\ DOMAIN l.c.list = 1 .. Len(l.c.list)
    BY <2>3 DEF Cached
  <2> DEFINE found == Named(l.c.list, Name(p))
             least == CHOOSE i \in found : \A j \in found : i <= j
             learnt == [l.c EXCEPT !.list = Append(@, Entry(p))]
  <2>5. CASE l.ok /\ found # {}
    <3>1. r = [i |-> least, c |-> l.c]
      BY <2>2, <2>5 DEF Resolved
    <3>2. least \in found
      <4>1. found \subseteq Nat
        BY <2>4 DEF Named
      <4> HIDE DEF found
      <4>2. \E i \in found : \A j \in found : i <= j
        BY <4>1, <2>5, LeastNumber
      <4> QED BY <4>2
    <3> HIDE DEF least
    <3> QED BY <3>1, <3>2, <2>1, <2>3, <2>4, <2>5 DEF Finds, Named
  <2>6. CASE l.ok /\ found = {} /\ StatSeen(p, f) /\ Len(l.c.list) < CacheMax
    <3>1. r = [i |-> Len(l.c.list) + 1, c |-> learnt]
      BY <2>2, <2>6 DEF Resolved
    <3>2. Cached(learnt) /\ Coherent(learnt)
      BY <2>1, <2>3, <2>6, LearntFacts DEF StatSeen
    <3>3. Entry(p) \in Item /\ Entry(p).name = Name(p)
      BY <2>1, DosPathFacts, EntryFacts
    <3>4. /\ Len(Append(l.c.list, Entry(p))) = Len(l.c.list) + 1
          /\ Append(l.c.list, Entry(p))[Len(l.c.list) + 1] = Entry(p)
      BY <3>3, <2>4, AppendProperties
    <3>5. /\ learnt.list = Append(l.c.list, Entry(p))
          /\ learnt.path = l.c.path /\ learnt.valid = l.c.valid
      BY <2>3 DEF Cached
    <3>6. Finds(p, Len(l.c.list) + 1, learnt)
      <4> HIDE DEF learnt
      <4>1. learnt.valid /\ learnt.path = Parent(p) /\ learnt.list = Append(l.c.list, Entry(p))
        BY <3>5, <2>3, <2>6
      <4>2. Len(l.c.list) + 1 \in 1 .. Len(Append(l.c.list, Entry(p)))
        BY <3>4, <2>4
      <4>3. Append(l.c.list, Entry(p))[Len(l.c.list) + 1].name = Name(p)
        BY <3>3, <3>4
      <4> QED BY <4>1, <4>2, <4>3, <2>1, Zenon DEF Finds
    <3>7. r.i = Len(l.c.list) + 1 /\ r.c = learnt
      BY ONLY <3>1
    <3> HIDE DEF learnt
    <3> QED BY <3>7, <3>2, <3>6, <2>1
  <2>7. CASE r = [i |-> 0, c |-> l.c]
    BY <2>3, <2>7
  <2> QED BY <2>2, <2>3, <2>5, <2>6, <2>7 DEF Resolved
<1> QED BY <1>1, <1>2

(***************************************************************************)
(* The inductive invariant, in three parts: what the cache, the tree and   *)
(* the searches keep among them, what the open files keep, and that a file *)
(* the server has open is still a file.                                    *)
(***************************************************************************)
SearchRec == [on : BOOLEAN, idx : 0 .. CacheMax, tmpl : Template \cup {{}}, dir : Path,
              want : SUBSET Short, found : Seq(Short), intact : BOOLEAN, done : BOOLEAN]
SlotRec == [open : BOOLEAN, fd : Fd \cup {NoFd}, pos : 0 .. MaxSize, size : 0 .. MaxSize,
            asked : Path]
FdRec == [used : BOOLEAN, path : Path, at : 0 .. MaxSize, opened : Path]

(* A search has found no more names than its cursor has passed, and while the
   listing it began with is there: each of them once, each at or behind the
   cursor, and what it has still to find lies ahead. *)
Returned(r, n) == \E i \in DOMAIN r.found : r.found[i] = n
Ahead(r, l) ==
    /\ Len(r.found) <= r.idx
    /\ r.intact =>
        /\ r.want \subseteq r.tmpl
        /\ \A i, j \in DOMAIN r.found : r.found[i] = r.found[j] => i = j
        /\ \A k \in DOMAIN r.found : \E i \in DOMAIN l : i <= r.idx /\ l[i].name = r.found[k]
        /\ \A n \in r.want : Returned(r, n) \/ \E i \in DOMAIN l : i > r.idx /\ l[i].name = n
        /\ r.done => \A n \in r.want : Returned(r, n)
SearchAhead == \A s \in Search : Ahead(dta[s], cache.list)

Dirs ==
    /\ CacheTypeOK /\ TreeOK /\ CacheCoherent /\ DistinctNames(cache.list)
    /\ cwd \in DosPath \cup {<<>>}
    /\ dta \in [Search -> SearchRec] /\ SearchAhead

Files ==
    /\ sft \in [Slot -> SlotRec] /\ fds \in [Fd -> FdRec]
    /\ HandleOfFile /\ HandlesNotShared

OpenFilesExist ==
    \A d \in Fd : fds[d].used /\ fds[d].path # <<>> => IsFile(fds[d].path)

IInv == Dirs /\ Files /\ OpenFilesExist

LEMMA InvImplies == IInv => /\ TypeOK /\ CacheCoherent /\ SearchComplete
                            /\ HandleOfFile /\ HandlesNotShared
<1> SUFFICES ASSUME IInv
             PROVE  /\ TypeOK /\ CacheCoherent /\ SearchComplete
                    /\ HandleOfFile /\ HandlesNotShared
  OBVIOUS
<1>1. TypeOK
  BY DEF IInv, Dirs, Files, TypeOK, SearchRec, SlotRec, FdRec
<1>2. SearchComplete
  <2>1. ASSUME NEW s \in Search
        PROVE  /\ Len(dta[s].found) \in Nat /\ dta[s].idx \in 0 .. CacheMax
               /\ Ahead(dta[s], cache.list)
    <3>1. dta[s] \in SearchRec /\ Ahead(dta[s], cache.list)
      BY DEF IInv, Dirs, SearchAhead
    <3> QED BY <3>1 DEF SearchRec
  <2>2. ASSUME NEW s \in Search PROVE Len(dta[s].found) <= CacheMax
    BY <2>1, DirCacheAssumption DEF Ahead
  <2> QED BY <2>1, <2>2 DEF Ahead, Returned, SearchComplete
<1> QED BY <1>1, <1>2 DEF IInv, Dirs, Files

LEMMA InitInv == Init => IInv
<1> SUFFICES ASSUME Init PROVE IInv
  OBVIOUS
<1>1. /\ srv \in [Path -> Node] /\ srv[<<>>] = Directory
      /\ \A p \in Path \ {<<>>} : srv[p] # Absent => srv[Parent(p)] = Directory
  BY DEF Init, CacheInit
<1>2. TreeOK
  <2>1. ASSUME NEW p \in Path \ {<<>>}, Exists(p) PROVE IsDir(Parent(p))
    <3>1. srv[p] # Absent
      BY <2>1 DEF Exists, Absent
    <3> QED BY <1>1, <3>1 DEF IsDir, Directory
  <2> QED BY <1>1, <2>1 DEF TreeOK
<1>3. CacheTypeOK /\ CacheCoherent /\ DistinctNames(cache.list)
  <2>1. /\ cache = [path |-> <<>>, valid |-> FALSE, list |-> <<>>, loaded |-> 0,
                    foreign |-> FALSE, late |-> FALSE]
        /\ now \in 0 .. MaxNow
    BY DirCacheAssumption DEF Init, CacheInit
  <2>2. <<>> \in Seq(Item) /\ Len(<<>>) <= CacheMax /\ <<>> \in Path /\ 0 \in 0 .. MaxNow
    BY DirCacheAssumption
  <2> QED BY <1>1, <2>1, <2>2 DEF CacheTypeOK, CacheCoherent, DistinctNames
<1>4. dta \in [Search -> SearchRec] /\ SearchAhead
  <2>1. /\ dta = [s \in Search |-> NoSearch] /\ NoSearch \in SearchRec /\ ~NoSearch.intact
        /\ Len(NoSearch.found) <= NoSearch.idx
    BY DirCacheAssumption DEF Init, NoSearch, SearchRec
  <2> QED BY <2>1 DEF SearchAhead, Ahead
<1>5. Files /\ OpenFilesExist
  <2>1. sft = [s \in Slot |-> Closed] /\ Closed \in SlotRec /\ ~Closed.open
    BY DirCacheAssumption DEF Init, Closed, SlotRec
  <2>2. fds = [d \in Fd |-> NoFile] /\ NoFile \in FdRec /\ ~NoFile.used
    BY DirCacheAssumption DEF Init, NoFile, FdRec
  <2> QED BY <2>1, <2>2 DEF Files, OpenFilesExist, HandleOfFile, HandlesNotShared
<1> QED BY <1>2, <1>3, <1>4, <1>5 DEF IInv, Dirs, Init

(***************************************************************************)
(* Steps on the cache and the searches.                                    *)
(***************************************************************************)
LEMMA SameTree ==
  ASSUME srv' = srv, NEW c
  PROVE  Agrees(c)' <=> Agrees(c)
BY DEF Agrees, Children, Visible, Exists, IsDir, Named

(* A search keeps what it has ahead when its entries stay where they are. *)
LEMMA SurvivesAhead ==
  ASSUME CacheTypeOK, NEW c, Cached(c), Survives(c), NEW r, Ahead(r, cache.list)
  PROVE  Ahead(r, c.list)
<1>1. /\ DOMAIN cache.list \subseteq DOMAIN c.list
      /\ \A i \in DOMAIN cache.list : c.list[i].name = cache.list[i].name
  <2>1. /\ DOMAIN cache.list = 1 .. Len(cache.list) /\ Len(cache.list) \in Nat
        /\ DOMAIN c.list = 1 .. Len(c.list) /\ Len(c.list) \in Nat
    BY DEF CacheTypeOK, Cached
  <2> QED BY <2>1 DEF Survives
<1> QED BY <1>1 DEF Ahead

LEMMA KeptAhead ==
  ASSUME CacheTypeOK, dta \in [Search -> SearchRec], SearchAhead, NEW c, Cached(c)
  PROVE  Kept(c) \in [Search -> SearchRec] /\ \A s \in Search : Ahead(Kept(c)[s], c.list)
<1>1. ASSUME NEW s \in Search
      PROVE  /\ Kept(c)[s] = [dta[s] EXCEPT !.intact = @ /\ Survives(c)]
             /\ Kept(c)[s] \in SearchRec
             /\ Ahead(Kept(c)[s], c.list)
  <2>1. dta[s] \in SearchRec /\ Kept(c)[s] = [dta[s] EXCEPT !.intact = @ /\ Survives(c)]
    BY DEF Kept
  <2>2. /\ Kept(c)[s] \in SearchRec
        /\ Kept(c)[s].intact <=> dta[s].intact /\ Survives(c)
        /\ Kept(c)[s].want = dta[s].want /\ Kept(c)[s].found = dta[s].found
        /\ Kept(c)[s].tmpl = dta[s].tmpl /\ Kept(c)[s].idx = dta[s].idx
        /\ Kept(c)[s].done = dta[s].done
    BY <2>1 DEF SearchRec
  <2>5. \A n : Returned(Kept(c)[s], n) <=> Returned(dta[s], n)
    BY <2>2 DEF Returned
  <2>6. Len(Kept(c)[s].found) <= Kept(c)[s].idx
    BY <2>2 DEF SearchAhead, Ahead
  <2>3. CASE ~Survives(c)
    BY <2>1, <2>2, <2>3, <2>6 DEF Ahead
  <2>4. CASE Survives(c)
    <3>1. Ahead(dta[s], c.list)
      BY <2>4, SurvivesAhead DEF SearchAhead
    <3> QED BY <2>1, <2>2, <2>5, <2>6, <3>1 DEF Ahead
  <2> QED BY <2>1, <2>2, <2>3, <2>4
<1>2. Kept(c) = [s \in Search |-> Kept(c)[s]]
  BY DEF Kept
<1> QED BY <1>1, <1>2

(* A call that leaves a cache c, on a tree that is in order. *)
LEMMA LeavesStep ==
  ASSUME Dirs, NEW c, Cached(c), c.valid /\ ~c.foreign => Agrees(c)', Leaves(c),
         TreeOK', now' = now, cwd' \in DosPath \cup {<<>>}
  PROVE  Dirs'
<1>1. cache' = c /\ dta' = Kept(c)
  BY DEF Leaves
<1>2. CacheTypeOK'
  BY <1>1 DEF Dirs, CacheTypeOK, Cached, TreeOK
<1>3. CacheCoherent'
  BY <1>1 DEF CacheCoherent, Agrees
<1>4. dta' \in [Search -> SearchRec] /\ \A s \in Search : Ahead(dta'[s], c.list)
  BY <1>1, KeptAhead DEF Dirs
<1>5. SearchAhead'
  BY <1>1, <1>4 DEF SearchAhead, Ahead, Returned
<1>6. DistinctNames(cache.list)'
  BY <1>1 DEF Cached, DistinctNames
<1> QED BY <1>2, <1>3, <1>4, <1>5, <1>6 DEF Dirs

(***************************************************************************)
(* Steps on the tree, and what they leave of the files the server has open.*)
(***************************************************************************)
Present == {Directory} \cup {File(k) : k \in 0 .. MaxSize}

(* Something is put where no directory is. *)
LEMMA PutStep ==
  ASSUME TreeOK, NEW p \in Path \ {<<>>}, NEW n \in Present, ~IsDir(p), IsDir(Parent(p)),
         srv' = At(p, n)
  PROVE  /\ TreeOK' /\ srv'[p] = n
         /\ \A x \in Path : x # p => srv'[x] = srv[x]
<1>1. /\ srv' \in [Path -> Node] /\ srv'[p] = n
      /\ \A x \in Path : x # p => srv'[x] = srv[x]
  BY DEF At, TreeOK, Node, Present
<1>2. Parent(p) \in Path /\ Parent(p) # p
  BY DirCacheAssumption
<1>3. srv'[<<>>] = Directory
  BY <1>1, DirCacheAssumption DEF TreeOK
<1>4. ASSUME NEW x \in Path \ {<<>>}, Exists(x)' PROVE IsDir(Parent(x))'
  <2>1. CASE x = p
    BY <2>1, <1>1, <1>2 DEF IsDir
  <2>2. CASE x # p
    <3>1. Exists(x) /\ Parent(x) \in Path
      BY <2>2, <1>1, <1>4, DirCacheAssumption DEF Exists
    <3>2. IsDir(Parent(x)) /\ Parent(x) # p
      BY <3>1 DEF TreeOK
    <3> QED BY <3>1, <3>2, <1>1 DEF IsDir
  <2> QED BY <2>1, <2>2
<1> QED BY <1>1, <1>3, <1>4 DEF TreeOK

(* Something that has nothing below it is taken away. *)
LEMMA RemoveStep ==
  ASSUME TreeOK, NEW p \in Path \ {<<>>}, IsFile(p) \/ CanRmdir(p), srv' = At(p, Absent)
  PROVE  TreeOK' /\ \A x \in Path : x # p => srv'[x] = srv[x]
<1>1. /\ srv' \in [Path -> Node] /\ srv'[p] = Absent
      /\ \A x \in Path : x # p => srv'[x] = srv[x]
  BY DEF At, TreeOK, Node
<1>2. srv'[<<>>] = Directory
  BY <1>1, DirCacheAssumption DEF TreeOK
<1>3. ASSUME NEW x \in Path \ {<<>>}, Exists(x)' PROVE IsDir(Parent(x))'
  <2>1. x # p
    BY <1>1, <1>3 DEF Exists, Absent
  <2>2. Exists(x) /\ Parent(x) \in Path
    BY <2>1, <1>1, <1>3, DirCacheAssumption DEF Exists
  <2>3. IsDir(Parent(x))
    BY <2>2 DEF TreeOK
  <2>4. Parent(x) # p
    BY <2>2, <2>3 DEF CanRmdir, IsFile, IsDir, Children
  <2> QED BY <2>2, <2>3, <2>4, <1>1 DEF IsDir
<1> QED BY <1>1, <1>2, <1>3 DEF TreeOK

(* The files a rename moves, and those it leaves alone, are files after it. *)
LEMMA RenamedTree ==
  ASSUME TreeOK, NEW p \in DosPath, NEW q \in DosPath, CanRename(p, q), srv' = Renamed(p, q)
  PROVE  /\ TreeOK'
         /\ \A y \in Path : IsFile(y) /\ Under(p, y) =>
               Onto(q, p, y) \in Path /\ srv'[Onto(q, p, y)] = srv[y]
         /\ \A y \in Path : IsFile(y) /\ ~Under(p, y) /\ y # q => srv'[y] = srv[y]
<1>1. /\ p \in Path /\ p # <<>> /\ q \in Path /\ q # <<>> /\ \A x \in Path : x \in Seq(STRING)
      /\ \A x \in Path \ {<<>>} : Parent(x) \in Path
  BY DosPathFacts, PathSeq, DirCacheAssumption
<1>2. /\ Exists(p) /\ IsDir(Parent(q)) /\ ~Under(p, q)
      /\ ~Exists(q) \/ (IsFile(p) /\ IsFile(q))
      /\ \A x \in Path : Under(p, x) /\ Exists(x) => Onto(q, p, x) \in Path
  BY DEF CanRename
<1>3. \A x \in Path : srv'[x] =
         IF Under(q, x) THEN IF Onto(p, q, x) \in Path THEN srv[Onto(p, q, x)] ELSE Absent
         ELSE IF Under(p, x) THEN Absent ELSE srv[x]
  BY DEF Renamed
<1>4. srv' \in [Path -> Node]
  BY DEF Renamed, TreeOK, Node
<1>5. ASSUME NEW y \in Path, Exists(y), Under(p, y)
      PROVE  Onto(q, p, y) \in Path /\ srv'[Onto(q, p, y)] = srv[y]
  <2>1. Onto(q, p, y) \in Path /\ Under(q, Onto(q, p, y)) /\ Onto(p, q, Onto(q, p, y)) = y
    BY <1>1, <1>2, <1>5, OntoAndBack
  <2> QED BY <2>1, <1>3
<1>6. ASSUME NEW y \in Path, Exists(y), ~Under(p, y), y # q
      PROVE  srv'[y] = srv[y] /\ ~Under(q, y)
  <2>1. ~Under(q, y)
    <3>1. SUFFICES ASSUME Under(q, y) PROVE FALSE
      OBVIOUS
    <3>2. IsDir(q)
      BY <3>1, <1>1, <1>6, BelowADirectory
    <3> QED BY <3>2, <1>2 DEF IsDir, IsFile, Exists
  <2> QED BY <2>1, <1>3, <1>6
<1>7. srv'[<<>>] = Directory
  <2>1. ~Under(q, <<>>) /\ ~Under(p, <<>>)
    BY <1>1, UnderParent
  <2> QED BY <2>1, <1>1, <1>3, DirCacheAssumption DEF TreeOK
<1>8. ASSUME NEW x \in Path \ {<<>>}, Exists(x)' PROVE IsDir(Parent(x))'
  <2>1. Parent(x) \in Path /\ srv'[x].kind # "none" /\ x \in Seq(STRING)
    BY <1>1, <1>8 DEF Exists
  <2>2. CASE x = q
    <3>1. ~Under(q, Parent(q)) /\ ~Under(p, Parent(q))
      BY <1>1, <1>2, UnderParent
    <3> QED BY <3>1, <2>1, <2>2, <1>2, <1>3 DEF IsDir
  <2>3. CASE Under(q, x) /\ x # q
    <3> DEFINE o == Onto(p, q, x)
    <3>1. o \in Path /\ Exists(o)
      BY <2>1, <2>3, <1>3 DEF Exists, Absent
    <3>2. /\ Under(q, Parent(x)) /\ Parent(o) = Onto(p, q, Parent(x)) /\ o # <<>>
      BY <2>1, <2>3, <1>1, OntoParent
    <3>3. Parent(o) \in Path /\ IsDir(Parent(o))
      BY <3>1, <3>2, <1>1 DEF TreeOK
    <3> QED BY <3>2, <3>3, <2>1, <1>3 DEF IsDir
  <2>4. CASE ~Under(q, x)
    <3>1. ~Under(p, x) /\ Exists(x)
      BY <2>1, <2>4, <1>3 DEF Absent, Exists
    <3>2. ~Under(p, Parent(x)) /\ ~Under(q, Parent(x))
      BY <3>1, <2>1, <2>4, <1>1, UnderParent
    <3>3. IsDir(Parent(x))
      BY <3>1 DEF TreeOK
    <3> QED BY <3>2, <3>3, <2>1, <1>3 DEF IsDir
  <2> QED BY <2>2, <2>3, <2>4
<1>9. \A y \in Path : IsFile(y) => Exists(y)
  BY DEF IsFile, Exists
<1> QED BY <1>4, <1>5, <1>6, <1>7, <1>8, <1>9 DEF TreeOK

(***************************************************************************)
(* Steps on the open files.                                                *)
(***************************************************************************)
LEMMA SameFiles ==
  ASSUME Files, UNCHANGED <<sft, fds>>
  PROVE  Files'
BY DEF Files, HandleOfFile, HandlesNotShared

LEMMA SameOpenFiles ==
  ASSUME Files, OpenFilesExist, UNCHANGED fds, \A y \in Path : IsFile(y) => IsFile(y)'
  PROVE  OpenFilesExist'
<1>1. \A d \in Fd : fds[d].path \in Path
  BY DEF Files, FdRec
<1> QED BY <1>1 DEF OpenFilesExist

(* The server's files get other names, or none. *)
LEMMA RenamedFiles ==
  ASSUME Files, UNCHANGED sft, fds' \in [Fd -> FdRec],
         \A d \in Fd : fds'[d].used = fds[d].used /\ fds'[d].opened = fds[d].opened
  PROVE  Files'
<1>1. \A s \in Slot : sft[s].open /\ sft[s].fd # NoFd => sft[s].fd \in Fd
  BY DEF Files, SlotRec
<1> QED BY <1>1 DEF Files, HandleOfFile, HandlesNotShared

LEMMA DetachedFiles ==
  ASSUME Files, UNCHANGED sft, NEW p \in Path, fds' = Detached(p)
  PROVE  /\ Files'
         /\ \A d \in Fd : /\ fds'[d].used = fds[d].used
                          /\ fds'[d].path = IF fds[d].path = p THEN <<>> ELSE fds[d].path
<1>1. ASSUME NEW d \in Fd
      PROVE  /\ fds'[d] \in FdRec
             /\ fds'[d].used = fds[d].used /\ fds'[d].opened = fds[d].opened
             /\ fds'[d].path = IF fds[d].path = p THEN <<>> ELSE fds[d].path
  <2>1. fds[d] \in FdRec /\ <<>> \in Path
    BY DirCacheAssumption DEF Files
  <2>2. fds'[d] = IF fds[d].path = p THEN [fds[d] EXCEPT !.path = <<>>] ELSE fds[d]
    BY DEF Detached
  <2> QED BY <2>1, <2>2 DEF FdRec
<1>2. fds' \in [Fd -> FdRec]
  <2>1. fds' = [d \in Fd |-> fds'[d]]
    BY DEF Detached
  <2> QED BY <2>1, <1>1
<1> QED BY <1>1, <1>2, RenamedFiles

(* Only the open files at a path lose it when what is there goes. *)
LEMMA Detaches ==
  ASSUME Files, OpenFilesExist, UNCHANGED sft, NEW p \in Path, fds' = Detached(p),
         \A x \in Path : x # p => srv'[x] = srv[x]
  PROVE  Files' /\ OpenFilesExist'
<1>1. /\ Files'
      /\ \A d \in Fd : /\ fds'[d].used = fds[d].used /\ fds[d].path \in Path
                       /\ fds'[d].path = IF fds[d].path = p THEN <<>> ELSE fds[d].path
  BY DetachedFiles DEF Files, FdRec
<1> QED BY <1>1 DEF OpenFilesExist, IsFile

(* A slot that was closed gets a handle nobody has, or none; or the server
   alone has the file open. *)
LEMMA OpenedFiles ==
  ASSUME Files, NEW s \in Slot, ~sft[s].open, NEW p \in Path, NEW n \in 0 .. MaxSize,
         NEW d \in Free, NEW x \in {d, NoFd},
         fds' = [fds EXCEPT ![d] = [used |-> TRUE, path |-> p, at |-> 0, opened |-> p]],
         sft' = Opened(s, x, n, p) \/ sft' = sft
  PROVE  Files'
<1> DEFINE new == [used |-> TRUE, path |-> p, at |-> 0, opened |-> p]
           slot == [open |-> TRUE, fd |-> x, pos |-> 0, size |-> n, asked |-> p]
<1>1. d \in Fd /\ ~fds[d].used /\ 0 \in 0 .. MaxSize /\ NoFd \notin Fd
  BY DirCacheAssumption, RedirectorAssumption DEF Free
<1>2. new \in FdRec /\ slot \in SlotRec
  BY <1>1 DEF FdRec, SlotRec
<1>3. /\ fds' \in [Fd -> FdRec] /\ fds'[d] = new
      /\ \A e \in Fd \ {d} : fds'[e] = fds[e]
  BY <1>1, <1>2 DEF Files
<1>4. \A t \in Slot : sft[t].open => sft[t].fd # d
  BY <1>1 DEF Files, HandleOfFile
<1>5. CASE sft' = sft
  <2>1. HandleOfFile' /\ HandlesNotShared'
    BY <1>3, <1>4, <1>5 DEF Files, SlotRec, HandleOfFile, HandlesNotShared
  <2> QED BY <2>1, <1>3, <1>5 DEF Files
<1>6. CASE sft' = Opened(s, x, n, p)
  <2>1. /\ sft' \in [Slot -> SlotRec] /\ sft'[s] = slot
        /\ \A t \in Slot \ {s} : sft'[t] = sft[t]
    BY <1>2, <1>6 DEF Files, Opened
  <2>2. HandleOfFile'
    <3>1. ASSUME NEW t \in Slot, sft'[t].open, sft'[t].fd # NoFd
          PROVE  fds'[sft'[t].fd].used /\ fds'[sft'[t].fd].opened = sft'[t].asked
      <4>1. CASE t = s
        BY <4>1, <3>1, <2>1, <1>3
      <4>2. CASE t # s
        BY <4>2, <3>1, <2>1, <1>3, <1>4 DEF Files, SlotRec, HandleOfFile
      <4> QED BY <4>1, <4>2
    <3> QED BY <3>1 DEF HandleOfFile
  <2>3. HandlesNotShared'
    BY <2>1, <1>4 DEF Files, HandlesNotShared
  <2> QED BY <2>1, <2>2, <2>3, <1>3 DEF Files
<1> QED BY <1>5, <1>6

LEMMA FailedFiles ==
  ASSUME Files, NEW s \in Slot, ~sft[s].open, NEW p \in Path, NEW n \in 0 .. MaxSize,
         UNCHANGED fds, sft' = Opened(s, NoFd, n, p)
  PROVE  Files'
<1>1. 0 \in 0 .. MaxSize
  BY DirCacheAssumption
<1>2. /\ sft' \in [Slot -> SlotRec] /\ sft'[s].fd = NoFd
      /\ \A t \in Slot \ {s} : sft'[t] = sft[t]
  BY <1>1 DEF Files, Opened, SlotRec
<1>3. HandleOfFile' /\ HandlesNotShared'
  BY <1>2 DEF Files, HandleOfFile, HandlesNotShared
<1> QED BY <1>2, <1>3 DEF Files

(* The server has opened p, and p is a file now. *)
LEMMA OpenedIsFile ==
  ASSUME Files, OpenFilesExist, NEW p \in Path, IsFile(p)', NEW d \in Fd, NEW k,
         fds' = [fds EXCEPT ![d] = [used |-> TRUE, path |-> p, at |-> k, opened |-> p]],
         \A y \in Path : IsFile(y) => IsFile(y)'
  PROVE  OpenFilesExist'
<1>1. /\ fds'[d].path = p
      /\ \A e \in Fd \ {d} : fds'[e] = fds[e] /\ fds[e].path \in Path
  BY DEF Files, FdRec
<1> QED BY <1>1 DEF OpenFilesExist

(***************************************************************************)
(* Calls that leave the tree alone, and calls that change it.              *)
(***************************************************************************)
LEMMA Serves ==
  ASSUME IInv, NEW c, Cached(c), Coherent(c), Leaves(c), UNCHANGED <<srv, now>>,
         cwd' \in DosPath \cup {<<>>}
  PROVE  Dirs'
<1>1. TreeOK'
  BY DEF IInv, Dirs, TreeOK, Exists, IsDir
<1>2. c.valid /\ ~c.foreign => Agrees(c)'
  BY SameTree DEF Coherent
<1> QED BY <1>1, <1>2, LeavesStep DEF IInv

LEMMA Changes ==
  ASSUME IInv, NEW c, Cached(c), Leaves(Invalidated(c)), TreeOK', UNCHANGED <<now, cwd>>
  PROVE  Dirs'
<1>1. PICK e : e = Invalidated(c)
  OBVIOUS
<1>2. Cached(e) /\ ~e.valid
  BY <1>1 DEF Cached, Invalidated
<1> QED BY <1>1, <1>2, LeavesStep DEF IInv, Dirs

LEMMA SameKinds ==
  ASSUME UNCHANGED srv
  PROVE  \A y : IsFile(y)' = IsFile(y)
BY DEF IsFile

LEMMA ServesAll ==
  ASSUME IInv, NEW c, Cached(c), Coherent(c), Leaves(c), UNCHANGED <<srv, now, sft, fds>>,
         cwd' \in DosPath \cup {<<>>}
  PROVE  IInv'
BY Serves, SameFiles, SameOpenFiles, SameKinds DEF IInv

(***************************************************************************)
(* One lemma for each subfunction, or group of them.                       *)
(***************************************************************************)
LEMMA IInvParts ==
  ASSUME IInv
  PROVE  /\ TreeOK /\ CacheTypeOK /\ CacheCoherent /\ SearchAhead /\ Files /\ OpenFilesExist
         /\ dta \in [Search -> SearchRec] /\ cwd \in DosPath \cup {<<>>}
         /\ Cached(cache) /\ Coherent(cache) /\ DistinctNames(cache.list)
BY TheCache DEF IInv, Dirs

LEMMA MkdirStep ==
  ASSUME IInv, NEW p \in DosPath, NEW c, Cached(c), Coherent(c), NEW f,
         MkdirAfter(p, c, f), UNCHANGED <<now, cwd, sft, fds>>
  PROVE  IInv'
<1>1. CASE StatSeen(p, f)
  BY <1>1, ServesAll, IInvParts DEF MkdirAfter
<1>2. CASE ~StatSeen(p, f)
  <2>1. /\ Leaves(Invalidated(c))
        /\ srv' = IF Executed(f, "MKDIR") /\ Fresh(p) THEN At(p, Directory) ELSE srv
    BY <1>2 DEF MkdirAfter
  <2>2. TreeOK' /\ \A y \in Path : IsFile(y) => IsFile(y)'
    <3>1. CASE srv' = srv
      BY <3>1, IInvParts DEF TreeOK, Exists, IsDir, IsFile
    <3>2. CASE Fresh(p) /\ srv' = At(p, Directory)
      <4>1. p \in Path \ {<<>>} /\ ~IsDir(p) /\ ~IsFile(p) /\ IsDir(Parent(p))
        BY <3>2, DosPathFacts DEF Fresh, Exists, IsDir, IsFile
      <4>2. Directory \in Present
        BY DEF Present
      <4> QED BY <3>2, <4>1, <4>2, PutStep, IInvParts DEF IsFile
    <3> QED BY <2>1, <3>1, <3>2
  <2>3. Dirs'
    BY <2>1, <2>2, Changes
  <2> QED BY <2>2, <2>3, SameFiles, SameOpenFiles, IInvParts DEF IInv
<1> QED BY <1>1, <1>2

LEMMA SetCurDirStep ==
  ASSUME IInv, NEW p \in DosPath, NEW f, SetCurDir(p, f), UNCHANGED now
  PROVE  IInv'
<1>1. PICK r \in Resolves(p, f) : IF IsDirEntry(r) THEN Leaves(r.c) /\ UNCHANGED srv
                                                 ELSE MkdirAfter(p, r.c, f)
  BY DEF SetCurDir
<1>2. UNCHANGED <<cwd, sft, fds>>
  BY DEF SetCurDir
<1>3. Cached(r.c) /\ Coherent(r.c)
  BY ResolveFacts, IInvParts
<1>4. CASE IsDirEntry(r)
  BY <1>1, <1>2, <1>3, <1>4, ServesAll, IInvParts
<1>5. CASE ~IsDirEntry(r)
  BY <1>1, <1>2, <1>3, <1>5, MkdirStep
<1> QED BY <1>4, <1>5

LEMMA MakeDirStep ==
  ASSUME IInv, NEW p \in DosPath, NEW f, MakeDir(p, f), UNCHANGED now
  PROVE  IInv'
<1>1. PICK c : c = cache
  OBVIOUS
<1>2. Cached(c) /\ Coherent(c) /\ MkdirAfter(p, c, f) /\ UNCHANGED <<cwd, sft, fds>>
  BY <1>1, IInvParts DEF MakeDir
<1> QED BY <1>2, MkdirStep

LEMMA RmDirStep ==
  ASSUME IInv, NEW p \in DosPath, NEW f, RmDir(p, f), UNCHANGED now
  PROVE  IInv'
<1>1. PICK l \in Loads(p, f) :
          IF l.ok /\ l.c.list # <<>>
          THEN Leaves(l.c) /\ UNCHANGED srv
          ELSE /\ Leaves(Invalidated(l.c))
               /\ srv' = IF Executed(f, "RMDIR") /\ CanRmdir(p) THEN At(p, Absent) ELSE srv
  BY DEF RmDir
<1>2. UNCHANGED <<cwd, sft, fds>>
  BY DEF RmDir
<1>3. Cached(l.c) /\ Coherent(l.c) /\ p \in Path \ {<<>>}
  BY LoadFacts, IInvParts, DosPathFacts
<1>4. CASE l.ok /\ l.c.list # <<>>
  BY <1>1, <1>2, <1>3, <1>4, ServesAll, IInvParts
<1>5. CASE ~(l.ok /\ l.c.list # <<>>)
  <2>1. TreeOK' /\ \A y \in Path : IsFile(y) => IsFile(y)'
    <3>1. CASE srv' = srv
      BY <3>1, IInvParts DEF TreeOK, Exists, IsDir, IsFile
    <3>2. CASE CanRmdir(p) /\ srv' = At(p, Absent)
      <4>1. ~IsFile(p)
        BY <3>2 DEF CanRmdir, IsDir, IsFile
      <4> QED BY <1>3, <3>2, <4>1, RemoveStep, IInvParts DEF IsFile
    <3> QED BY <1>1, <1>5, <3>1, <3>2
  <2>2. Dirs'
    BY <1>1, <1>2, <1>3, <1>5, <2>1, Changes
  <2> QED BY <1>2, <2>1, <2>2, SameFiles, SameOpenFiles, IInvParts DEF IInv
<1> QED BY <1>4, <1>5

LEMMA ChDirStep ==
  ASSUME IInv, NEW p \in DosPath \cup {<<>>}, NEW f, ChDir(p, f), UNCHANGED now
  PROVE  IInv'
<1>1. PICK r \in Resolves(p, f) : Leaves(r.c) /\ cwd' = IF p = <<>> \/ IsDirEntry(r) THEN p ELSE cwd
  BY DEF ChDir
<1>2. Cached(r.c) /\ Coherent(r.c) /\ cwd' \in DosPath \cup {<<>>}
  BY <1>1, ResolveFacts, IInvParts
<1> QED BY <1>1, <1>2, ServesAll DEF ChDir

LEMMA GetAttrStep ==
  ASSUME IInv, NEW p \in DosPath, NEW f, GetAttr(p, f), UNCHANGED now
  PROVE  IInv'
<1>1. PICK r \in Resolves(p, f) : Leaves(r.c)
  BY DEF GetAttr
<1>2. Cached(r.c) /\ Coherent(r.c)
  BY ResolveFacts, IInvParts
<1> QED BY <1>1, <1>2, ServesAll, IInvParts DEF GetAttr

(* The attribute byte, overwritten, no longer says that the entry is a
   directory, but it is the entry's name that finds it. *)
LEMMA SetAttrStep ==
  ASSUME IInv, NEW p \in DosPath, NEW a \in SUBSET {"ro"}, NEW f, SetAttr(p, a, f), UNCHANGED now
  PROVE  IInv'
<1>1. PICK r \in Resolves(p, f) :
          Leaves(IF r.i = 0 THEN r.c ELSE [r.c EXCEPT !.list[r.i].attr = a])
  BY DEF SetAttr
<1>2. /\ Cached(r.c) /\ Coherent(r.c)
      /\ r.i # 0 => Finds(p, r.i, r.c)
  BY ResolveFacts, IInvParts
<1>3. PICK c : c = IF r.i = 0 THEN r.c ELSE [r.c EXCEPT !.list[r.i].attr = a]
  OBVIOUS
<1>4. Cached(c) /\ Coherent(c)
  <2>1. CASE r.i = 0
    BY <2>1, <1>2, <1>3
  <2>2. CASE r.i # 0
    <3> DEFINE l == r.c.list
               e == [l[r.i] EXCEPT !.attr = a]
               k == [l EXCEPT ![r.i] = e]
    <3>1. l \in Seq(Item) /\ r.i \in 1 .. Len(l) /\ DOMAIN l = 1 .. Len(l)
      BY <1>2, <2>2 DEF Cached, Finds
    <3>2. l[r.i] \in Item /\ e \in Item /\ e.name = l[r.i].name /\ e.attr = a
      <4>1. l[r.i] \in Item
        BY <3>1
      <4> QED BY <4>1 DEF Item
    <3> HIDE DEF e
    <3>3. /\ k \in Seq(Item) /\ Len(k) = Len(l) /\ DOMAIN k = DOMAIN l /\ k[r.i] = e
          /\ \A j \in DOMAIN l : j # r.i => k[j] = l[j]
      BY <3>1, <3>2
    <3>4. c = [r.c EXCEPT !.list = k]
      BY <1>2, <1>3, <2>2 DEF Cached, e
    <3> HIDE DEF k
    <3>8. DistinctNames(k)
      BY <1>2, <3>2, <3>3 DEF Cached, DistinctNames
    <3>5. /\ Cached(c) /\ c.list = k /\ c.path = r.c.path
          /\ c.valid = r.c.valid /\ c.foreign = r.c.foreign
      BY <1>2, <3>3, <3>4, <3>8 DEF Cached
    <3>6. /\ \A j \in DOMAIN l : k[j].name = l[j].name
          /\ \A j \in DOMAIN l : "dir" \in k[j].attr => "dir" \in l[j].attr
      BY <3>2, <3>3
    <3>7. Agrees(r.c) => Agrees(c)
      BY <3>3, <3>5, <3>6 DEF Agrees, Named
    <3> QED BY <1>2, <3>5, <3>7 DEF Coherent
  <2> QED BY <2>1, <2>2
<1> QED BY <1>1, <1>3, <1>4, ServesAll, IInvParts DEF SetAttr

LEMMA RenameStep ==
  ASSUME IInv, NEW p \in DosPath, NEW q \in DosPath, NEW f, Rename(p, q, f), UNCHANGED now
  PROVE  IInv'
<1>1. /\ Leaves(Invalidated(cache)) /\ UNCHANGED <<cwd, sft>>
      /\ IF Executed(f, "RENAME") /\ CanRename(p, q)
         THEN srv' = Renamed(p, q) /\ fds' = Moved(p, q)
         ELSE UNCHANGED <<srv, fds>>
  BY DEF Rename
<1>2. TreeOK' => Dirs'
  <2>1. PICK c : c = cache
    OBVIOUS
  <2>2. Cached(c) /\ Leaves(Invalidated(c))
    BY <1>1, <2>1, IInvParts
  <2> QED BY <1>1, <2>2, Changes
<1>3. CASE UNCHANGED <<srv, fds>>
  <2>1. TreeOK'
    BY <1>3, IInvParts DEF TreeOK, Exists, IsDir
  <2> QED BY <1>1, <1>2, <1>3, <2>1, SameFiles, SameOpenFiles, SameKinds, IInvParts DEF IInv
<1>4. CASE CanRename(p, q) /\ srv' = Renamed(p, q) /\ fds' = Moved(p, q)
  <2>1. /\ TreeOK'
        /\ \A y \in Path : IsFile(y) /\ Under(p, y) =>
              Onto(q, p, y) \in Path /\ srv'[Onto(q, p, y)] = srv[y]
        /\ \A y \in Path : IsFile(y) /\ ~Under(p, y) /\ y # q => srv'[y] = srv[y]
    BY <1>4, RenamedTree, IInvParts
  <2>2. ~Under(p, <<>>)
    BY DosPathFacts, UnderParent
  <2>3. ASSUME NEW d \in Fd
        PROVE  /\ fds'[d] \in FdRec
               /\ fds'[d].used = fds[d].used /\ fds'[d].opened = fds[d].opened
               /\ (fds[d].used /\ fds[d].path # <<>> => IsFile(fds[d].path))'
    <3>1. /\ fds[d] \in FdRec /\ <<>> \in Path /\ Files
          /\ fds[d].used /\ fds[d].path # <<>> => IsFile(fds[d].path)
      BY IInvParts, DirCacheAssumption DEF Files, OpenFilesExist
    <3>2. fds'[d] = IF fds[d].used /\ Under(p, fds[d].path)
                    THEN [fds[d] EXCEPT !.path = Onto(q, p, fds[d].path)]
                    ELSE IF fds[d].path = q THEN [fds[d] EXCEPT !.path = <<>>] ELSE fds[d]
      BY <1>4, <3>1 DEF Moved, Detached, FdRec
    <3>3. CASE fds[d].used /\ Under(p, fds[d].path)
      <4>1. PICK y \in Path : y = fds[d].path /\ IsFile(y) /\ Under(p, y)
        BY <2>2, <3>1, <3>3 DEF FdRec
      <4>2. Onto(q, p, y) \in Path /\ srv'[Onto(q, p, y)] = srv[y]
        BY <2>1, <4>1
      <4>3. fds'[d] = [fds[d] EXCEPT !.path = Onto(q, p, y)]
        BY <3>2, <3>3, <4>1
      <4> QED BY <3>1, <4>1, <4>2, <4>3 DEF FdRec, IsFile
    <3>4. CASE ~(fds[d].used /\ Under(p, fds[d].path))
      <4>1. CASE fds[d].path = q
        BY <3>1, <3>2, <3>4, <4>1 DEF FdRec
      <4>2. CASE fds[d].path # q
        BY <2>1, <3>1, <3>2, <3>4, <4>2 DEF FdRec, IsFile
      <4> QED BY <4>1, <4>2
    <3> QED BY <3>3, <3>4
  <2>4. fds' \in [Fd -> FdRec]
    <3>1. fds' = [d \in Fd |-> fds'[d]]
      BY <1>4 DEF Moved
    <3> QED BY <2>3, <3>1
  <2>5. Files' /\ OpenFilesExist'
    BY <1>1, <2>3, <2>4, RenamedFiles, IInvParts DEF OpenFilesExist
  <2> QED BY <1>2, <2>1, <2>5 DEF IInv
<1> QED BY <1>1, <1>3, <1>4

LEMMA DeleteStep ==
  ASSUME IInv, NEW p \in DosPath, NEW f, Delete(p, f), UNCHANGED now
  PROVE  IInv'
<1>1. /\ Leaves(Invalidated(cache)) /\ UNCHANGED <<cwd, sft>>
      /\ IF Executed(f, "UNLINK") /\ IsFile(p)
         THEN srv' = At(p, Absent) /\ fds' = Detached(p)
         ELSE UNCHANGED <<srv, fds>>
  BY DEF Delete
<1>2. TreeOK' => Dirs'
  <2>1. PICK c : c = cache
    OBVIOUS
  <2>2. Cached(c) /\ Leaves(Invalidated(c))
    BY <1>1, <2>1, IInvParts
  <2> QED BY <1>1, <2>2, Changes
<1>3. CASE UNCHANGED <<srv, fds>>
  <2>1. TreeOK'
    BY <1>3, IInvParts DEF TreeOK, Exists, IsDir
  <2> QED BY <1>1, <1>2, <1>3, <2>1, SameFiles, SameOpenFiles, SameKinds, IInvParts DEF IInv
<1>4. CASE IsFile(p) /\ srv' = At(p, Absent) /\ fds' = Detached(p)
  <2>1. TreeOK' /\ \A x \in Path : x # p => srv'[x] = srv[x]
    BY <1>4, DosPathFacts, RemoveStep, IInvParts
  <2>2. Files' /\ OpenFilesExist'
    BY <1>1, <1>4, <2>1, Detaches, DosPathFacts, IInvParts
  <2> QED BY <1>2, <2>1, <2>2 DEF IInv
<1> QED BY <1>1, <1>3, <1>4

(* A call on a search: the tree stays as it is. *)
LEMMA SearchStep ==
  ASSUME IInv, NEW c, Cached(c), Coherent(c), cache' = c,
         UNCHANGED <<srv, now, cwd, sft, fds>>, dta' \in [Search -> SearchRec],
         \A s \in Search : Ahead(dta'[s], c.list)
  PROVE  IInv'
<1>1. TreeOK'
  BY IInvParts DEF TreeOK, Exists, IsDir
<1>2. CacheTypeOK'
  BY IInvParts DEF CacheTypeOK, Cached, TreeOK
<1>3. CacheCoherent'
  <2>1. c.valid /\ ~c.foreign => Agrees(c)'
    BY SameTree DEF Coherent
  <2> QED BY <2>1 DEF CacheCoherent, Agrees
<1>4. SearchAhead'
  BY DEF SearchAhead, Ahead, Returned
<1>5. Files' /\ OpenFilesExist'
  BY SameFiles, SameOpenFiles, SameKinds, IInvParts
<1>6. cwd' \in DosPath \cup {<<>>}
  BY IInvParts
<1>7. DistinctNames(cache.list)'
  BY DEF Cached, DistinctNames
<1> QED BY <1>1, <1>2, <1>3, <1>4, <1>5, <1>6, <1>7 DEF IInv, Dirs

LEMMA NextMatchFacts ==
  ASSUME NEW S, NEW l \in Seq(S), NEW n \in Nat, NEW t
  PROVE  /\ NextMatch(l, n, t) \in 0 .. Len(l)
         /\ NextMatch(l, n, t) # 0 => /\ NextMatch(l, n, t) \in DOMAIN l
                                      /\ NextMatch(l, n, t) > n
                                      /\ l[NextMatch(l, n, t)].name \in t
         /\ \A j \in DOMAIN l : j > n /\ l[j].name \in t =>
               NextMatch(l, n, t) # 0 /\ NextMatch(l, n, t) <= j
<1> DEFINE m == {i \in DOMAIN l : i > n /\ l[i].name \in t}
           least == CHOOSE i \in m : \A j \in m : i <= j
<1>1. DOMAIN l = 1 .. Len(l) /\ Len(l) \in Nat
  OBVIOUS
<1>2. NextMatch(l, n, t) = IF m = {} THEN 0 ELSE least
  BY DEF NextMatch
<1>3. ASSUME m # {} PROVE least \in m /\ \A j \in m : least <= j
  <2>1. m \subseteq Nat
    BY <1>1
  <2> HIDE DEF m
  <2>2. \E i \in m : \A j \in m : i <= j
    BY <2>1, <1>3, LeastNumber
  <2> QED BY <2>2
<1> HIDE DEF least
<1> QED BY <1>1, <1>2, <1>3

LEMMA FindFirstStep ==
  ASSUME IInv, NEW s \in Search, NEW d \in DosPath \cup {<<>>}, NEW t \in Template, NEW f,
         FindFirst(s, d, t, f), UNCHANGED now
  PROVE  IInv'
<1>1. PICK l \in Loads(d, f) :
          LET i == IF l.ok THEN NextMatch(l.c.list, 0, t) ELSE 0 IN
          /\ cache' = l.c
          /\ dta' = IF i = 0 THEN Kept(l.c)
                    ELSE [Kept(l.c) EXCEPT ![s] =
                            [on |-> TRUE, idx |-> i, tmpl |-> t, dir |-> d,
                             want |-> Wanted(d, t), found |-> <<l.c.list[i].name>>,
                             intact |-> ListsWhole(l.c), done |-> FALSE]]
  BY DEF FindFirst
<1>2. UNCHANGED <<srv, cwd, sft, fds>>
  BY DEF FindFirst
<1>3. d \in Path
  BY DosPathFacts, DirCacheAssumption
<1>4. /\ Cached(l.c) /\ Coherent(l.c)
      /\ l.ok => l.c.valid /\ l.c.path = d
  BY <1>3, LoadFacts, IInvParts
<1>5. Kept(l.c) \in [Search -> SearchRec] /\ \A u \in Search : Ahead(Kept(l.c)[u], l.c.list)
  BY <1>4, KeptAhead, IInvParts
<1> DEFINE i == NextMatch(l.c.list, 0, t)
           new == [on |-> TRUE, idx |-> i, tmpl |-> t, dir |-> d,
                   want |-> Wanted(d, t), found |-> <<l.c.list[i].name>>,
                   intact |-> ListsWhole(l.c), done |-> FALSE]
<1>6. CASE dta' = Kept(l.c)
  BY <1>1, <1>2, <1>4, <1>5, <1>6, SearchStep
<1>7. CASE l.ok /\ i # 0 /\ dta' = [Kept(l.c) EXCEPT ![s] = new]
  <2>1. l.c.list \in Seq(Item) /\ Len(l.c.list) <= CacheMax /\ Len(l.c.list) \in Nat
        /\ DOMAIN l.c.list = 1 .. Len(l.c.list)
    BY <1>4 DEF Cached
  <2>2. /\ i \in DOMAIN l.c.list /\ i \in 0 .. Len(l.c.list) /\ l.c.list[i].name \in t
        /\ \A j \in DOMAIN l.c.list : j > 0 /\ l.c.list[j].name \in t => i <= j
    BY <1>7, <2>1, NextMatchFacts
  <2>3. Wanted(d, t) \subseteq Short /\ Wanted(d, t) \subseteq t
    BY <1>3, VisibleFacts DEF Wanted
  <2> HIDE DEF i
  <2>4. new \in SearchRec
    <3>1. l.c.list[i] \in Item
      BY <2>1, <2>2
    <3>2. <<l.c.list[i].name>> \in Seq(Short) /\ i \in 0 .. CacheMax
      BY <3>1, <2>1, <2>2, DirCacheAssumption DEF Item
    <3> QED BY <3>2, <2>3, <1>3 DEF SearchRec, ListsWhole
  <2>5. Ahead(new, l.c.list)
    <3>1. ASSUME ListsWhole(l.c), NEW n \in Wanted(d, t), n # l.c.list[i].name
          PROVE  \E j \in DOMAIN l.c.list : j > i /\ l.c.list[j].name = n
      <4>1. PICK p \in Visible(d) : n = Name(p) /\ n \in t
        BY DEF Wanted
      <4>2. \A q \in Visible(l.c.path) : Named(l.c.list, Name(q)) # {}
        BY <1>4, <1>7, <3>1 DEF Coherent, Agrees, ListsWhole
      <4>3. PICK j \in DOMAIN l.c.list : l.c.list[j].name = n
        BY <1>4, <1>7, <4>1, <4>2 DEF Named
      <4>4. i <= j /\ i # j
        BY <2>1, <2>2, <3>1, <4>1, <4>3
      <4> QED BY <2>1, <2>2, <4>3, <4>4
    <3>2. PICK n : n = l.c.list[i].name
      OBVIOUS
    <3>3. /\ new.found = <<n>> /\ new.idx = i /\ new.want = Wanted(d, t) /\ new.tmpl = t
          /\ new.intact = ListsWhole(l.c) /\ ~new.done
      BY <3>2
    <3> HIDE DEF new
    <3>4. /\ Len(new.found) = 1 /\ DOMAIN new.found = {1} /\ new.found[1] = n
          /\ \A w : Returned(new, w) <=> w = n
      BY <3>3 DEF Returned
    <3>5. Len(new.found) <= new.idx
      BY <3>3, <3>4, <2>1, <2>2
    <3> QED BY <3>1, <3>2, <3>3, <3>4, <3>5, <2>1, <2>2, <2>3 DEF Ahead
  <2> HIDE DEF new
  <2>6. dta' \in [Search -> SearchRec] /\ \A u \in Search : Ahead(dta'[u], l.c.list)
    BY <1>5, <1>7, <2>4, <2>5
  <2> QED BY <1>1, <1>2, <1>4, <2>6, SearchStep
<1> QED BY <1>1, <1>6, <1>7

LEMMA FindVolumeStep ==
  ASSUME IInv, NEW s \in Search, NEW t \in Template, FindVolume(s, t), UNCHANGED now
  PROVE  IInv'
<1> DEFINE new == [NoSearch EXCEPT !.on = TRUE, !.idx = CacheMax, !.tmpl = t, !.intact = TRUE]
<1>1. dta' = [dta EXCEPT ![s] = new] /\ UNCHANGED <<srv, cache, cwd, sft, fds>>
  BY DEF FindVolume, dirVars
<1>2. new \in SearchRec /\ \A l : Ahead(new, l)
  <2>1. CacheMax \in 0 .. CacheMax /\ <<>> \in Path /\ 0 \in 0 .. CacheMax
    BY DirCacheAssumption
  <2>2. NoSearch \in SearchRec /\ NoSearch.want = {} /\ ~NoSearch.done /\ NoSearch.found = <<>>
    BY <2>1 DEF NoSearch, SearchRec
  <2>3. /\ new \in SearchRec /\ new.want = {} /\ ~new.done /\ new.found = <<>>
        /\ new.idx = CacheMax
    BY <2>1, <2>2 DEF SearchRec
  <2> HIDE DEF new
  <2>4. Len(new.found) <= new.idx /\ DOMAIN new.found = {}
    BY <2>3, DirCacheAssumption
  <2> QED BY <2>3, <2>4 DEF Ahead
<1> HIDE DEF new
<1>3. PICK c : c = cache
  OBVIOUS
<1>4. dta' \in [Search -> SearchRec] /\ \A u \in Search : Ahead(dta'[u], c.list)
  <2>1. dta \in [Search -> SearchRec] /\ \A u \in Search : Ahead(dta[u], c.list)
    BY <1>3, IInvParts DEF SearchAhead
  <2>2. \A u \in Search : dta'[u] = new \/ dta'[u] = dta[u]
    BY <1>1, <2>1
  <2> QED BY <1>1, <1>2, <2>1, <2>2
<1> QED BY <1>1, <1>3, <1>4, SearchStep, IInvParts

LEMMA FindNextStep ==
  ASSUME IInv, NEW s \in Search, FindNext(s), UNCHANGED now
  PROVE  IInv'
<1>1. PICK c : c = cache
  OBVIOUS
<1>2. /\ Cached(c) /\ Coherent(c) /\ dta[s] \in SearchRec /\ Ahead(dta[s], c.list)
      /\ cache' = c /\ UNCHANGED <<srv, cwd, sft, fds>>
  BY <1>1, IInvParts DEF FindNext, dirVars, SearchAhead
<1> DEFINE i == NextMatch(c.list, dta[s].idx, dta[s].tmpl)
<1>3. dta' = IF i = 0 THEN [dta EXCEPT ![s].done = TRUE]
             ELSE [dta EXCEPT ![s].idx = i, ![s].found = Append(@, c.list[i].name)]
  BY <1>1 DEF FindNext
<1>4. /\ c.list \in Seq(Item) /\ Len(c.list) <= CacheMax /\ Len(c.list) \in Nat
      /\ DOMAIN c.list = 1 .. Len(c.list) /\ dta[s].idx \in Nat
  BY <1>2, DirCacheAssumption DEF Cached, SearchRec
<1>5. /\ i \in 0 .. Len(c.list)
      /\ i # 0 => i \in DOMAIN c.list /\ i > dta[s].idx
      /\ \A j \in DOMAIN c.list : j > dta[s].idx /\ c.list[j].name \in dta[s].tmpl =>
            i # 0 /\ i <= j
  BY <1>4, NextMatchFacts
<1> HIDE DEF i
<1>6. dta'[s] \in SearchRec /\ Ahead(dta'[s], c.list)
  <2>1. CASE i = 0
    <3>1. dta'[s] = [dta[s] EXCEPT !.done = TRUE]
      BY <1>3, <2>1, IInvParts
    <3>2. /\ dta'[s] \in SearchRec
          /\ dta'[s].idx = dta[s].idx /\ dta'[s].tmpl = dta[s].tmpl /\ dta'[s].want = dta[s].want
          /\ dta'[s].found = dta[s].found /\ dta'[s].intact = dta[s].intact
          /\ dta'[s].done = TRUE
      BY <3>1, <1>2 DEF SearchRec
    <3>4. \A n : Returned(dta'[s], n) <=> Returned(dta[s], n)
      BY <3>2 DEF Returned
    <3>3. Ahead(dta'[s], c.list)
      BY <3>2, <3>4, <1>2, <1>4, <1>5, <2>1 DEF Ahead
    <3> QED BY <3>2, <3>3
  <2>2. CASE i # 0
    <3>1. dta'[s] = [dta[s] EXCEPT !.idx = i, !.found = Append(@, c.list[i].name)]
      BY <1>3, <2>2, IInvParts
    <3>2. PICK m \in Short : m = c.list[i].name
      <4>1. c.list[i] \in Item
        BY <1>4, <1>5, <2>2
      <4> QED BY <4>1 DEF Item
    <3>3. PICK old \in Seq(Short) : old = dta[s].found
      BY <1>2 DEF SearchRec
    <3>4. PICK g \in Seq(Short) : g = Append(old, m)
      <4>1. Append(old, m) \in Seq(Short)
        BY AppendProperties
      <4> QED BY <4>1
    <3>5. /\ dta'[s] \in SearchRec /\ dta'[s].idx = i /\ dta'[s].tmpl = dta[s].tmpl
          /\ dta'[s].want = dta[s].want /\ dta'[s].found = g
          /\ dta'[s].intact = dta[s].intact /\ dta'[s].done = dta[s].done
      <4>1. dta'[s] = [dta[s] EXCEPT !.idx = i, !.found = g]
        BY <3>1, <3>2, <3>3, <3>4, <1>2 DEF SearchRec
      <4>2. i \in 0 .. CacheMax
        BY <1>4, <1>5, DirCacheAssumption
      <4> QED BY <4>1, <4>2, <1>2 DEF SearchRec
    <3>6. PICK k \in Nat : k = Len(old)
      OBVIOUS
    <3>7. /\ DOMAIN old = 1 .. k /\ DOMAIN g = 1 .. k + 1 /\ Len(g) = k + 1
          /\ g[k + 1] = m /\ \A j \in 1 .. k : g[j] = old[j]
      BY <3>4, <3>6
    <3>8. Len(g) <= i
      BY <3>3, <3>6, <3>7, <1>2, <1>4, <1>5, <2>2 DEF Ahead
    <3>9. \A n : Returned(dta'[s], n) <=> Returned(dta[s], n) \/ n = m
      <4>1. ASSUME NEW n, Returned(dta'[s], n) PROVE Returned(dta[s], n) \/ n = m
        BY <4>1, <3>3, <3>5, <3>7 DEF Returned
      <4>2. ASSUME NEW n, Returned(dta[s], n) PROVE Returned(dta'[s], n)
        BY <4>2, <3>3, <3>5, <3>7 DEF Returned
      <4>3. Returned(dta'[s], m)
        <5>1. k + 1 \in DOMAIN g /\ g[k + 1] = m
          BY <3>7
        <5> QED BY <5>1, <3>5 DEF Returned
      <4> QED BY <4>1, <4>2, <4>3
    <3>10. ASSUME dta[s].intact
           PROVE  /\ \A x, y \in DOMAIN g : g[x] = g[y] => x = y
                  /\ \A x \in DOMAIN g : \E j \in DOMAIN c.list : j <= i /\ c.list[j].name = g[x]
      <4>1. ASSUME NEW x \in 1 .. k
            PROVE  \E j \in DOMAIN c.list : j < i /\ c.list[j].name = g[x] /\ g[x] # m
        <5>1. PICK j \in DOMAIN c.list : j <= dta[s].idx /\ c.list[j].name = old[x]
          BY <3>3, <3>7, <3>10, <1>2 DEF Ahead
        <5>2. j < i /\ c.list[j].name = g[x]
          BY <5>1, <3>7, <1>4, <1>5, <2>2
        <5>3. g[x] # m
          BY <5>2, <3>2, <1>2, <1>4, <1>5, <2>2 DEF Cached, DistinctNames
        <5> QED BY <5>2, <5>3
      <4>2. ASSUME NEW x \in 1 .. k, NEW y \in 1 .. k, g[x] = g[y] PROVE x = y
        BY <4>2, <3>3, <3>7, <3>10, <1>2 DEF Ahead
      <4>3. i \in DOMAIN c.list /\ i <= i /\ c.list[i].name = g[k + 1]
        BY <3>2, <3>7, <1>4, <1>5, <2>2
      <4>4. \A x, y \in 1 .. k + 1 : g[x] = g[y] => x = y
        <5>1. SUFFICES ASSUME NEW x \in 1 .. k + 1, NEW y \in 1 .. k + 1, g[x] = g[y]
                       PROVE  x = y
          OBVIOUS
        <5>2. (x \in 1 .. k \/ x = k + 1) /\ (y \in 1 .. k \/ y = k + 1)
          BY <3>6
        <5> QED BY <5>1, <5>2, <4>1, <4>2, <3>7
      <4>5. ASSUME NEW x \in 1 .. k + 1
            PROVE  \E j \in DOMAIN c.list : j <= i /\ c.list[j].name = g[x]
        <5>1. CASE x \in 1 .. k
          BY <5>1, <4>1, <1>4, <1>5
        <5>2. CASE x = k + 1
          BY <5>2, <4>3
        <5> QED BY <5>1, <5>2, <3>6
      <4> QED BY <4>4, <4>5, <3>7
    <3>11. ASSUME dta[s].intact, NEW n \in dta[s].want, ~Returned(dta'[s], n)
           PROVE  \E j \in DOMAIN c.list : j > i /\ c.list[j].name = n
      <4>1. PICK j \in DOMAIN c.list : j > dta[s].idx /\ c.list[j].name = n
        BY <3>9, <3>11, <1>2 DEF Ahead
      <4>2. i <= j /\ i # j
        BY <4>1, <3>2, <3>9, <3>11, <1>2, <1>5 DEF Ahead
      <4> QED BY <4>1, <4>2, <1>4, <1>5, <2>2
    <3>12. dta[s].intact /\ dta[s].done => \A n \in dta[s].want : Returned(dta'[s], n)
      BY <3>9, <1>2 DEF Ahead
    <3>13. dta[s].intact => dta[s].want \subseteq dta[s].tmpl
      BY <1>2 DEF Ahead
    <3> QED BY <3>5, <3>8, <3>10, <3>11, <3>12, <3>13 DEF Ahead
  <2> QED BY <2>1, <2>2
<1>7. dta' \in [Search -> SearchRec] /\ \A u \in Search : Ahead(dta'[u], c.list)
  <2>1. \A u \in Search \ {s} : dta'[u] = dta[u]
    BY <1>3, IInvParts
  <2>2. dta' = [u \in Search |-> dta'[u]]
    BY <1>3, IInvParts
  <2> QED BY <2>1, <2>2, <1>1, <1>6, IInvParts DEF SearchAhead
<1> QED BY <1>2, <1>7, SearchStep

(***************************************************************************)
(* The subfunctions on open files.                                         *)
(***************************************************************************)
LEMMA SameKindsAgree ==
  ASSUME \A y \in Path : srv'[y].kind = srv[y].kind, NEW c
  PROVE  Agrees(c)' <=> Agrees(c)
<1>1. \A d : Children(d)' = Children(d) /\ Children(d) \subseteq Path
  BY DEF Children, Exists
<1>2. \A d : Visible(d)' = Visible(d)
  BY <1>1 DEF Visible, IsDir
<1>3. \A d : \A y \in Children(d) : IsDir(y)' = IsDir(y)
  BY <1>1 DEF IsDir
<1> QED BY <1>1, <1>2, <1>3 DEF Agrees, Named

(* A step that leaves the cache as it is, or out of date, and the kinds of what
   is on the server with it. *)
LEMMA KeepsDirs ==
  ASSUME Dirs, TreeOK', now' \in 0 .. MaxNow, now <= now', UNCHANGED <<cwd, dta>>,
         \/ cache' = cache /\ \A y \in Path : srv'[y].kind = srv[y].kind
         \/ cache' = [cache EXCEPT !.foreign = TRUE]
  PROVE  Dirs'
<1>1. /\ Cached(cache) /\ Coherent(cache) /\ now \in Nat /\ cache.loaded \in Nat
      /\ dta \in [Search -> SearchRec] /\ SearchAhead
  BY TheCache DEF Dirs, CacheTypeOK
<1>2. PICK c : c = cache
  OBVIOUS
<1>3. /\ Cached(cache') /\ cache'.list = c.list
      /\ (cache' = c /\ \A y \in Path : srv'[y].kind = srv[y].kind) \/ cache'.foreign
  BY <1>1, <1>2 DEF Cached
<1>4. CacheTypeOK'
  BY <1>1, <1>2, <1>3, DirCacheAssumption DEF CacheTypeOK, Cached, TreeOK
<1>5. CacheCoherent'
  <2>1. CASE cache' = c /\ \A y \in Path : srv'[y].kind = srv[y].kind
    <3>1. c.valid /\ ~c.foreign => Agrees(c)'
      BY <1>1, <1>2, <2>1, SameKindsAgree DEF Coherent
    <3> QED BY <2>1, <3>1 DEF CacheCoherent, Agrees
  <2>2. CASE cache'.foreign
    BY <2>2 DEF CacheCoherent
  <2> QED BY <1>2, <1>3, <2>1, <2>2
<1>6. SearchAhead'
  BY <1>1, <1>2, <1>3 DEF SearchAhead, Ahead, Returned
<1>7. DistinctNames(cache.list)'
  BY <1>3 DEF Cached, DistinctNames
<1> QED BY <1>1, <1>4, <1>5, <1>6, <1>7 DEF Dirs

(* Transfers and seeks: only positions and sizes change. *)
LEMMA TransferFiles ==
  ASSUME Files, fds' \in [Fd -> FdRec], sft' \in [Slot -> SlotRec],
         \A d \in Fd : fds'[d].used = fds[d].used /\ fds'[d].opened = fds[d].opened,
         \A s \in Slot : sft'[s].open = sft[s].open /\ sft'[s].fd = sft[s].fd
                         /\ sft'[s].asked = sft[s].asked
  PROVE  Files'
<1>1. \A s \in Slot : sft[s].open /\ sft[s].fd # NoFd => sft[s].fd \in Fd
  BY DEF Files, SlotRec
<1> QED BY <1>1 DEF Files, HandleOfFile, HandlesNotShared

LEMMA TransferOpen ==
  ASSUME Files, OpenFilesExist, \A y \in Path : srv'[y].kind = srv[y].kind,
         \A d \in Fd : fds'[d].used = fds[d].used /\ fds'[d].path = fds[d].path
  PROVE  OpenFilesExist'
<1>1. \A d \in Fd : fds[d].path \in Path
  BY DEF Files, FdRec
<1> QED BY <1>1 DEF OpenFilesExist, IsFile

(* Only the file calls change these. *)
LEMMA FileCallStep ==
  ASSUME IInv, UNCHANGED <<cache, now, cwd, dta>>, TreeOK', Files',
         \A y \in Path : srv'[y].kind = srv[y].kind,
         OpenFilesExist'
  PROVE  IInv'
<1>1. now' \in 0 .. MaxNow /\ now <= now'
  BY DirCacheAssumption DEF IInv, Dirs, CacheTypeOK
<1> QED BY <1>1, KeepsDirs DEF IInv

LEMMA SeekEndStep ==
  ASSUME IInv, NEW s \in Slot, SeekEnd(s), UNCHANGED now
  PROVE  IInv'
<1>1. sft' = [sft EXCEPT ![s].pos = sft[s].size] /\ UNCHANGED <<srv, cache, cwd, dta, fds>>
  BY DEF SeekEnd, dirVars
<1>2. sft \in [Slot -> SlotRec] /\ fds \in [Fd -> FdRec]
  BY IInvParts DEF Files
<1>3. /\ sft' \in [Slot -> SlotRec]
      /\ \A t \in Slot : sft'[t].open = sft[t].open /\ sft'[t].fd = sft[t].fd
                         /\ sft'[t].asked = sft[t].asked
  BY <1>1, <1>2 DEF SlotRec
<1>4. Files'
  BY <1>1, <1>2, <1>3, TransferFiles, IInvParts
<1>5. OpenFilesExist'
  BY <1>1, TransferOpen, IInvParts
<1>6. TreeOK'
  BY <1>1, IInvParts DEF TreeOK, Exists, IsDir
<1> QED BY <1>1, <1>4, <1>5, <1>6, FileCallStep

LEMMA CloseStep ==
  ASSUME IInv, NEW s \in Slot, NEW f, Close(s, f), UNCHANGED now
  PROVE  IInv'
<1>1. /\ sft[s].open /\ sft' = [sft EXCEPT ![s] = Closed]
      /\ \/ sft[s].fd # NoFd /\ fds' = [fds EXCEPT ![sft[s].fd] = NoFile]
         \/ fds' = fds
      /\ UNCHANGED <<srv, cache, cwd, dta>>
  BY DEF Close, dirVars
<1>2. sft \in [Slot -> SlotRec] /\ fds \in [Fd -> FdRec]
      /\ HandleOfFile /\ HandlesNotShared
  BY IInvParts DEF Files
<1>3. Closed \in SlotRec /\ NoFile \in FdRec /\ ~Closed.open /\ ~NoFile.used
  BY DirCacheAssumption DEF Closed, SlotRec, NoFile, FdRec
<1>4. /\ sft' \in [Slot -> SlotRec] /\ ~sft'[s].open
      /\ \A t \in Slot \ {s} : sft'[t] = sft[t]
  BY <1>1, <1>2, <1>3
<1>5. /\ fds' \in [Fd -> FdRec]
      /\ \A d \in Fd : fds'[d] = fds[d] \/ (~fds'[d].used /\ d = sft[s].fd /\ d # NoFd)
  BY <1>1, <1>2, <1>3
<1>6. Files'
  <2>1. HandlesNotShared'
    BY <1>2, <1>4 DEF HandlesNotShared
  <2>2. ASSUME NEW t \in Slot, sft'[t].open, sft'[t].fd # NoFd
        PROVE  fds'[sft'[t].fd].used /\ fds'[sft'[t].fd].opened = sft'[t].asked
    <3>1. t # s /\ sft'[t] = sft[t] /\ sft[t].fd \in Fd
      BY <2>2, <1>2, <1>4 DEF SlotRec
    <3>2. sft[t].fd # sft[s].fd
      BY <3>1, <2>2, <1>1, <1>2 DEF HandlesNotShared
    <3> QED BY <3>1, <3>2, <2>2, <1>2, <1>5 DEF HandleOfFile
  <2> QED BY <2>1, <2>2, <1>4, <1>5 DEF Files, HandleOfFile
<1>7. OpenFilesExist'
  BY <1>1, <1>5, IInvParts DEF OpenFilesExist, IsFile
<1>8. TreeOK'
  BY <1>1, IInvParts DEF TreeOK, Exists, IsDir
<1> QED BY <1>1, <1>6, <1>7, <1>8, FileCallStep

LEMMA ReadStep ==
  ASSUME IInv, NEW s \in Slot, NEW f, Read(s, f), UNCHANGED now
  PROVE  IInv'
<1>1. UNCHANGED <<srv, cache, cwd, dta>> /\ sft[s].open
  BY DEF Read, dirVars
<1>2. sft \in [Slot -> SlotRec] /\ fds \in [Fd -> FdRec] /\ TreeOK /\ sft[s] \in SlotRec
  BY IInvParts DEF Files
<1>3. TreeOK'
  BY <1>1, <1>2 DEF TreeOK, Exists, IsDir
<1>4. CASE sft[s].fd = NoFd
  <2>1. UNCHANGED <<sft, fds>>
    BY <1>4 DEF Read
  <2>2. Files'
    BY <2>1, SameFiles, IInvParts
  <2>3. OpenFilesExist'
    BY <1>1, <2>1, TransferOpen, IInvParts
  <2> QED BY <1>1, <1>3, <2>2, <2>3, FileCallStep
<1>5. CASE sft[s].fd # NoFd
  <2>1. PICK d \in Fd : d = sft[s].fd
    BY <1>2, <1>5 DEF SlotRec
  <2>2. PICK at : at = Offset(s, f)
    OBVIOUS
  <2>3. PICK got : got = IF Executed(f, "READ") /\ at < srv[fds[d].path].size THEN 1 ELSE 0
    OBVIOUS
  <2>4. /\ Executed(f, "LSEEK") \/ sft[s].pos + got <= MaxSize
        /\ fds' = [fds EXCEPT ![d].at = at + got]
        /\ sft' = IF Answered(f, "READ") THEN [sft EXCEPT ![s].pos = @ + got] ELSE sft
    BY <1>5, <2>1, <2>2, <2>3 DEF Read
  <2>5. fds[d] \in FdRec /\ srv[fds[d].path].size \in 0 .. MaxSize
    <3>1. fds[d] \in FdRec
      BY <1>2
    <3>2. srv[fds[d].path] \in Node
      BY <1>2, <3>1 DEF FdRec, TreeOK
    <3> QED BY <3>1, <3>2, NodeFacts
  <2>6. at \in 0 .. MaxSize
    BY <1>2, <2>1, <2>2, <2>5 DEF Offset, SlotRec, FdRec
  <2>7. at + got \in 0 .. MaxSize /\ sft[s].pos + got \in 0 .. MaxSize
    <3>1. at + got \in 0 .. MaxSize
      BY <2>3, <2>5, <2>6, DirCacheAssumption
    <3>2. CASE Executed(f, "LSEEK")
      BY <3>1, <3>2, <2>1, <2>2 DEF Offset
    <3>3. CASE ~Executed(f, "LSEEK")
      BY <1>2, <3>1, <3>3, <2>3, <2>4, DirCacheAssumption DEF SlotRec
    <3> QED BY <3>1, <3>2, <3>3
  <2>8. /\ fds' \in [Fd -> FdRec]
        /\ \A e \in Fd : /\ fds'[e].used = fds[e].used /\ fds'[e].opened = fds[e].opened
                         /\ fds'[e].path = fds[e].path
    BY <1>2, <2>4, <2>7 DEF FdRec
  <2>9. /\ sft' \in [Slot -> SlotRec]
        /\ \A t \in Slot : sft'[t].open = sft[t].open /\ sft'[t].fd = sft[t].fd
                           /\ sft'[t].asked = sft[t].asked
    BY <1>2, <2>4, <2>7 DEF SlotRec
  <2>10. Files' /\ OpenFilesExist'
    BY <1>1, <2>8, <2>9, TransferFiles, TransferOpen, IInvParts
  <2> QED BY <1>1, <1>3, <2>10, FileCallStep
<1> QED BY <1>4, <1>5

LEMMA WriteStep ==
  ASSUME IInv, NEW s \in Slot, NEW f, Write(s, f), UNCHANGED now
  PROVE  IInv'
<1>1. UNCHANGED <<cache, cwd, dta>> /\ sft[s].open /\ sft[s].pos < MaxSize
  BY DEF Write
<1>2. sft \in [Slot -> SlotRec] /\ fds \in [Fd -> FdRec] /\ TreeOK /\ sft[s] \in SlotRec
  BY IInvParts DEF Files
<1>3. \A m, n \in 0 .. MaxSize : Larger(m, n) \in 0 .. MaxSize
  BY DEF Larger
<1>4. CASE sft[s].fd = NoFd
  <2>1. sft' = [sft EXCEPT ![s].size = Larger(@, sft[s].pos)] /\ UNCHANGED <<srv, fds>>
    BY <1>4 DEF Write
  <2>2. Larger(sft[s].size, sft[s].pos) \in 0 .. MaxSize
    BY <1>2, <1>3 DEF SlotRec
  <2>3. /\ sft' \in [Slot -> SlotRec]
        /\ \A t \in Slot : sft'[t].open = sft[t].open /\ sft'[t].fd = sft[t].fd
                           /\ sft'[t].asked = sft[t].asked
    BY <1>2, <2>1, <2>2 DEF SlotRec
  <2>4. Files'
    BY <1>2, <2>1, <2>3, TransferFiles, IInvParts
  <2>5. OpenFilesExist'
    BY <2>1, TransferOpen, IInvParts
  <2>6. TreeOK'
    BY <1>2, <2>1 DEF TreeOK, Exists, IsDir
  <2> QED BY <1>1, <2>1, <2>4, <2>5, <2>6, FileCallStep
<1>5. CASE sft[s].fd # NoFd
  <2>1. PICK d \in Fd : d = sft[s].fd
    BY <1>2, <1>5 DEF SlotRec
  <2>2. PICK at : at = Offset(s, f)
    OBVIOUS
  <2>3. PICK put \in {0, 1} : put = IF Executed(f, "WRITE") THEN 1 ELSE 0
    OBVIOUS
  <2>4. PICK pos : pos = sft[s].pos + IF Answered(f, "WRITE") THEN put ELSE 0
    OBVIOUS
  <2>5. PICK p \in Path : p = fds[d].path
    BY <1>2 DEF FdRec
  <2>6. /\ at < MaxSize
        /\ fds' = [fds EXCEPT ![d].at = at + put]
        /\ sft' = [sft EXCEPT ![s].pos = pos, ![s].size = Larger(@, pos)]
        /\ srv' = IF IsFile(p) /\ put = 1 THEN At(p, File(Larger(srv[p].size, at + 1))) ELSE srv
    BY <1>5, <2>1, <2>2, <2>3, <2>4, <2>5 DEF Write
  <2>7. srv[p].size \in 0 .. MaxSize /\ fds[d] \in FdRec
    BY <1>2, NodeFacts DEF TreeOK
  <2>8. at \in 0 .. MaxSize
    BY <1>2, <2>1, <2>2, <2>7 DEF Offset, SlotRec, FdRec
  <2>9. at + put \in 0 .. MaxSize /\ at + 1 \in 0 .. MaxSize /\ pos \in 0 .. MaxSize
        /\ sft[s].size \in 0 .. MaxSize
    BY <1>1, <1>2, <2>3, <2>4, <2>6, <2>8, DirCacheAssumption DEF SlotRec
  <2>10. /\ fds' \in [Fd -> FdRec]
         /\ \A e \in Fd : /\ fds'[e].used = fds[e].used /\ fds'[e].opened = fds[e].opened
                          /\ fds'[e].path = fds[e].path
    BY <1>2, <2>6, <2>9 DEF FdRec
  <2>11. /\ sft' \in [Slot -> SlotRec]
         /\ \A t \in Slot : sft'[t].open = sft[t].open /\ sft'[t].fd = sft[t].fd
                            /\ sft'[t].asked = sft[t].asked
    <3>1. PICK g \in 0 .. MaxSize : g = Larger(sft[s].size, pos)
      BY <1>3, <2>9
    <3>2. sft' = [sft EXCEPT ![s].pos = pos, ![s].size = g]
      BY <1>2, <2>6, <3>1 DEF SlotRec
    <3> QED BY <1>2, <2>9, <3>2 DEF SlotRec
  <2>12. TreeOK' /\ \A y \in Path : srv'[y].kind = srv[y].kind
    <3>1. CASE srv' = srv
      BY <1>2, <3>1 DEF TreeOK, Exists, IsDir
    <3>2. CASE IsFile(p) /\ srv' = At(p, File(Larger(srv[p].size, at + 1)))
      <4>1. PICK n \in Present : n = File(Larger(srv[p].size, at + 1))
        BY <1>3, <2>7, <2>9 DEF Present
      <4>2. ~IsDir(p) /\ p # <<>> /\ Exists(p)
        BY <1>2, <3>2 DEF TreeOK, IsFile, IsDir, Exists, Directory
      <4>3. IsDir(Parent(p))
        BY <1>2, <4>2 DEF TreeOK
      <4>4. TreeOK' /\ srv'[p] = n /\ \A x \in Path : x # p => srv'[x] = srv[x]
        BY <1>2, <3>2, <4>1, <4>2, <4>3, PutStep
      <4>5. n.kind = "file"
        BY <4>1 DEF File
      <4> QED BY <3>2, <4>4, <4>5 DEF IsFile
    <3> QED BY <2>6, <3>1, <3>2
  <2>13. Files' /\ OpenFilesExist'
    BY <2>10, <2>11, <2>12, TransferFiles, TransferOpen, IInvParts
  <2> QED BY <1>1, <2>12, <2>13, FileCallStep
<1> QED BY <1>4, <1>5

LEMMA OpenEntryStep ==
  ASSUME Files, OpenFilesExist, NEW s \in Slot, ~sft[s].open, NEW p \in DosPath, NEW c, NEW i,
         Cached(c), Finds(p, i, c), NEW f, OpenEntry(s, p, c, i, f), UNCHANGED srv
  PROVE  Files' /\ OpenFilesExist'
<1>1. p \in Path /\ Append(c.path, c.list[i].name) = p
  BY DosPathFacts DEF Finds
<1>2. PICK n \in 0 .. MaxSize : n = c.list[i].size
  <2>1. c.list \in Seq(Item) /\ i \in 1 .. Len(c.list)
    BY DEF Cached, Finds
  <2>2. c.list[i] \in Item
    BY <2>1
  <2> QED BY <2>2 DEF Item
<1>3. CASE IsFile(p) /\ \E d \in Free :
            /\ fds' = [fds EXCEPT ![d] = [used |-> TRUE, path |-> p, at |-> 0, opened |-> p]]
            /\ sft' = Opened(s, IF Answered(f, "OPEN") THEN d ELSE NoFd, n, p)
  <2>1. PICK d \in Free :
            /\ fds' = [fds EXCEPT ![d] = [used |-> TRUE, path |-> p, at |-> 0, opened |-> p]]
            /\ sft' = Opened(s, IF Answered(f, "OPEN") THEN d ELSE NoFd, n, p)
    BY <1>3
  <2>2. PICK x \in {d, NoFd} : sft' = Opened(s, x, n, p)
    BY <2>1
  <2>3. Files'
    BY <1>1, <2>1, <2>2, OpenedFiles
  <2>4. OpenFilesExist'
    BY <1>1, <1>3, <2>1, OpenedIsFile, SameKinds DEF Free
  <2> QED BY <2>3, <2>4
<1>4. CASE sft' = Opened(s, NoFd, n, p) /\ UNCHANGED fds
  BY <1>1, <1>4, FailedFiles, SameOpenFiles, SameKinds
<1> QED BY <1>1, <1>2, <1>3, <1>4 DEF OpenEntry

LEMMA OpenStep ==
  ASSUME IInv, NEW s \in Slot, NEW p \in DosPath, NEW w, NEW f, Open(s, p, w, f), UNCHANGED now
  PROVE  IInv'
<1>1. PICK r \in Resolves(p, f) :
         /\ Leaves(r.c)
         /\ \/ r.i # 0 /\ OpenEntry(s, p, r.c, r.i, f)
            \/ UNCHANGED <<sft, fds>>
  BY DEF Open
<1>2. ~sft[s].open /\ UNCHANGED <<srv, cwd>>
  BY DEF Open
<1>3. Cached(r.c) /\ Coherent(r.c) /\ (r.i # 0 => Finds(p, r.i, r.c))
  BY ResolveFacts, IInvParts
<1>4. Dirs'
  BY <1>1, <1>2, <1>3, Serves, IInvParts
<1>5. CASE r.i # 0 /\ OpenEntry(s, p, r.c, r.i, f)
  <2>1. Files' /\ OpenFilesExist'
    BY <1>2, <1>3, <1>5, OpenEntryStep, IInvParts
  <2> QED BY <1>4, <2>1 DEF IInv
<1>6. CASE UNCHANGED <<sft, fds>>
  BY <1>2, <1>4, <1>6, SameFiles, SameOpenFiles, SameKinds, IInvParts DEF IInv
<1> QED BY <1>1, <1>5, <1>6

(* A create truncates what it finds, so the file is one that has no size. *)
LEMMA CreateFileStep ==
  ASSUME IInv, NEW s \in Slot, ~sft[s].open, NEW p \in DosPath, NEW c, Cached(c), NEW f,
         CreateFile(s, p, c, f), UNCHANGED <<now, cwd>>
  PROVE  IInv'
<1>1. /\ Leaves(Invalidated(c))
      /\ \/ /\ ~IsDir(p) /\ IsDir(Parent(p)) /\ srv' = At(p, File(0))
            /\ \E d \in Free :
                  /\ fds' = [fds EXCEPT ![d] = [used |-> TRUE, path |-> p, at |-> 0,
                                                opened |-> p]]
                  /\ sft' = Opened(s, d, 0, p) \/ sft' = sft
         \/ UNCHANGED <<srv, fds, sft>>
  BY DEF CreateFile
<1>2. CASE UNCHANGED <<srv, fds, sft>>
  <2>1. TreeOK'
    BY <1>2, IInvParts DEF TreeOK, Exists, IsDir
  <2>2. Dirs'
    BY <1>1, <2>1, Changes
  <2> QED BY <1>2, <2>2, SameFiles, SameOpenFiles, SameKinds, IInvParts DEF IInv
<1>3. CASE /\ ~IsDir(p) /\ IsDir(Parent(p)) /\ srv' = At(p, File(0))
           /\ \E d \in Free :
                 /\ fds' = [fds EXCEPT ![d] = [used |-> TRUE, path |-> p, at |-> 0,
                                               opened |-> p]]
                 /\ sft' = Opened(s, d, 0, p) \/ sft' = sft
  <2>1. PICK d \in Free :
           /\ fds' = [fds EXCEPT ![d] = [used |-> TRUE, path |-> p, at |-> 0, opened |-> p]]
           /\ sft' = Opened(s, d, 0, p) \/ sft' = sft
    BY <1>3
  <2>2. p \in Path \ {<<>>} /\ 0 \in 0 .. MaxSize /\ File(0) \in Present
    BY DosPathFacts, DirCacheAssumption DEF Present
  <2>3. TreeOK' /\ srv'[p] = File(0) /\ \A y \in Path : y # p => srv'[y] = srv[y]
    BY <1>3, <2>2, PutStep, IInvParts
  <2>4. IsFile(p)' /\ \A y \in Path : IsFile(y) => IsFile(y)'
    BY <2>3 DEF IsFile, File
  <2>5. Dirs'
    BY <1>1, <2>3, Changes
  <2>6. Files'
    BY <2>1, <2>2, OpenedFiles, IInvParts
  <2>7. OpenFilesExist'
    BY <2>1, <2>2, <2>4, OpenedIsFile, IInvParts DEF Free
  <2> QED BY <2>5, <2>6, <2>7 DEF IInv
<1> QED BY <1>1, <1>2, <1>3

LEMMA CreateStep ==
  ASSUME IInv, NEW s \in Slot, NEW p \in DosPath, NEW f, Create(s, p, f), UNCHANGED now
  PROVE  IInv'
<1>1. PICK c : c = cache
  OBVIOUS
<1>2. Cached(c) /\ ~sft[s].open /\ CreateFile(s, p, c, f) /\ UNCHANGED cwd
  BY <1>1, IInvParts DEF Create
<1> QED BY <1>2, CreateFileStep

LEMMA SpOpenStep ==
  ASSUME IInv, NEW s \in Slot, NEW p \in DosPath, NEW f, SpOpen(s, p, f), UNCHANGED now
  PROVE  IInv'
<1>1. PICK r \in Resolves(p, f) :
         IF r.i = 0 THEN CreateFile(s, p, r.c, f)
         ELSE /\ Leaves(r.c)
              /\ IF IsDirEntry(r) THEN UNCHANGED <<sft, fds>> ELSE OpenEntry(s, p, r.c, r.i, f)
              /\ UNCHANGED srv
  BY DEF SpOpen
<1>2. ~sft[s].open /\ UNCHANGED cwd
  BY DEF SpOpen
<1>3. Cached(r.c) /\ Coherent(r.c) /\ (r.i # 0 => Finds(p, r.i, r.c))
  BY ResolveFacts, IInvParts
<1>4. CASE r.i = 0
  BY <1>1, <1>2, <1>3, <1>4, CreateFileStep
<1>5. CASE r.i # 0
  <2>1. Dirs'
    BY <1>1, <1>2, <1>3, <1>5, Serves, IInvParts
  <2>2. CASE UNCHANGED <<sft, fds>>
    BY <1>1, <1>5, <2>1, <2>2, SameFiles, SameOpenFiles, SameKinds, IInvParts DEF IInv
  <2>3. CASE OpenEntry(s, p, r.c, r.i, f)
    <3>1. Files' /\ OpenFilesExist'
      BY <1>1, <1>2, <1>3, <1>5, <2>3, OpenEntryStep, IInvParts
    <3> QED BY <2>1, <3>1 DEF IInv
  <2> QED BY <1>1, <1>5, <2>2, <2>3
<1> QED BY <1>4, <1>5

(***************************************************************************)
(* Time, and other clients.                                                *)
(***************************************************************************)
LEMMA TickStep == ASSUME IInv, Tick PROVE IInv'
<1>1. now < MaxNow /\ now' = now + 1 /\ UNCHANGED <<srv, cache, cwd, dta, sft, fds>>
  BY DEF Tick, dirVars
<1>2. now' \in 0 .. MaxNow /\ now <= now'
  BY <1>1, DirCacheAssumption DEF IInv, Dirs, CacheTypeOK
<1>3. TreeOK'
  BY <1>1, IInvParts DEF TreeOK, Exists, IsDir
<1>4. Dirs'
  BY <1>1, <1>2, <1>3, KeepsDirs DEF IInv
<1> QED BY <1>1, <1>4, SameFiles, SameOpenFiles, SameKinds, IInvParts DEF IInv

LEMMA ForeignStep == ASSUME IInv, NEW p \in Path \ {<<>>}, Foreign(p) PROVE IInv'
<1>1. /\ cache' = [cache EXCEPT !.foreign = TRUE] /\ fds' = Detached(p)
      /\ UNCHANGED <<now, cwd, dta, sft>>
      /\ \/ Fresh(p) /\ \E n \in {Directory, File(0)} : srv' = At(p, n)
         \/ (IsFile(p) \/ CanRmdir(p)) /\ srv' = At(p, Absent)
  BY DEF Foreign
<1>2. TreeOK' /\ \A x \in Path : x # p => srv'[x] = srv[x]
  <2>1. CASE Fresh(p) /\ \E n \in {Directory, File(0)} : srv' = At(p, n)
    <3>1. PICK n \in {Directory, File(0)} : srv' = At(p, n)
      BY <2>1
    <3>2. n \in Present /\ ~IsDir(p) /\ IsDir(Parent(p))
      BY <2>1, DirCacheAssumption DEF Present, Fresh, Exists, IsDir
    <3> QED BY <3>1, <3>2, PutStep, IInvParts
  <2>2. CASE (IsFile(p) \/ CanRmdir(p)) /\ srv' = At(p, Absent)
    BY <2>2, RemoveStep, IInvParts
  <2> QED BY <1>1, <2>1, <2>2
<1>3. Files' /\ OpenFilesExist'
  BY <1>1, <1>2, Detaches, IInvParts
<1>4. now' \in 0 .. MaxNow /\ now <= now'
  BY <1>1, DirCacheAssumption DEF IInv, Dirs, CacheTypeOK
<1>5. Dirs'
  BY <1>1, <1>2, <1>4, KeepsDirs DEF IInv
<1> QED BY <1>3, <1>5 DEF IInv

(***************************************************************************)
(* The invariant holds of every step, and so of every state.               *)
(***************************************************************************)
LEMMA StutterStep == ASSUME IInv, UNCHANGED vars PROVE IInv'
<1>1. UNCHANGED <<srv, cache, now, cwd, dta, sft, fds>>
  BY DEF vars, dirVars
<1>2. now' \in 0 .. MaxNow /\ now <= now'
  BY <1>1, DirCacheAssumption DEF IInv, Dirs, CacheTypeOK
<1>3. TreeOK'
  BY <1>1, IInvParts DEF TreeOK, Exists, IsDir
<1>4. Dirs'
  BY <1>1, <1>2, <1>3, KeepsDirs DEF IInv
<1> QED BY <1>1, <1>4, SameFiles, SameOpenFiles, SameKinds, IInvParts DEF IInv

LEMMA NextInv == IInv /\ [Next]_vars => IInv'
<1> SUFFICES ASSUME IInv, [Next]_vars PROVE IInv'
  OBVIOUS
<1>1. ASSUME NEW p \in DosPath, PathCall(p), UNCHANGED now PROVE IInv'
  <2>1. \/ \E f : SetCurDir(p, f) \/ MakeDir(p, f) \/ RmDir(p, f) \/ ChDir(p, f)
                  \/ Delete(p, f) \/ GetAttr(p, f)
        \/ \E q \in DosPath : \E f : Rename(p, q, f)
        \/ \E a \in SUBSET {"ro"} : \E f : SetAttr(p, a, f)
    BY <1>1 DEF PathCall
  <2> QED BY <2>1, <1>1, SetCurDirStep, MakeDirStep, RmDirStep, ChDirStep, DeleteStep,
             GetAttrStep, RenameStep, SetAttrStep
<1>2. ASSUME NEW s \in Search, SearchCall(s), UNCHANGED now PROVE IInv'
  <2>1. \/ \E t \in Template : FindVolume(s, t)
        \/ \E d \in DosPath \cup {<<>>}, t \in Template : \E f : FindFirst(s, d, t, f)
        \/ FindNext(s)
    BY <1>2 DEF SearchCall
  <2> QED BY <2>1, <1>2, FindVolumeStep, FindFirstStep, FindNextStep
<1>3. ASSUME NEW s \in Slot, FileCall(s), UNCHANGED now PROVE IInv'
  <2>1. \/ \E p \in DosPath : \E f : \/ Create(s, p, f) \/ SpOpen(s, p, f)
                                     \/ \E w : Open(s, p, w, f)
        \/ \E f : Read(s, f) \/ Write(s, f) \/ Close(s, f)
        \/ SeekEnd(s)
    BY <1>3 DEF FileCall
  <2> QED BY <2>1, <1>3, CreateStep, SpOpenStep, OpenStep, ReadStep, WriteStep, CloseStep,
             SeekEndStep
<1>4. ASSUME NEW f, ChDir(<<>>, f), UNCHANGED now PROVE IInv'
  BY <1>4, ChDirStep
<1>5. CASE Call /\ UNCHANGED now
  BY <1>1, <1>2, <1>3, <1>4, <1>5 DEF Call
<1>6. CASE Tick
  BY <1>6, TickStep
<1>7. ASSUME NEW p \in Path \ {<<>>}, Foreign(p) PROVE IInv'
  BY <1>7, ForeignStep
<1>8. CASE UNCHANGED vars
  BY <1>8, StutterStep
<1> QED BY <1>5, <1>6, <1>7, <1>8 DEF Next

LEMMA Invariance == Spec => []IInv
BY InitInv, NextInv, PTL DEF Spec

(* Every state of the cache, the searches, the SFT and the server is of its
   type: no count, index or size leaves its bounds. *)
THEOREM TypeCorrect == Spec => []TypeOK
BY Invariance, InvImplies, PTL

(* A valid cache agrees with the server's tree, whatever was lost or answered
   in vain on the way, for every tree, array size and fault. *)
THEOREM CacheIsCoherent == Spec => []CacheCoherent
BY Invariance, InvImplies, PTL

(* A search is given each name once, and every name by the time it is told "no
   more files", while the listing it began with is there. *)
THEOREM SearchIsComplete == Spec => []SearchComplete
BY Invariance, InvImplies, PTL

(* The handle in an SFT entry is the server's handle of the file DOS opened. *)
THEOREM HandleIsOfFile == Spec => []HandleOfFile
BY Invariance, InvImplies, PTL

(* No two open SFT entries share a handle. *)
THEOREM NoHandleIsShared == Spec => []HandlesNotShared
BY Invariance, InvImplies, PTL

(***************************************************************************)
(* What a step may not do.                                                 *)
(***************************************************************************)
(* CHDIR is the only call that moves the current directory, and an entry it
   takes for a directory is one on the server. *)
LEMMA ChdirStep == IInv /\ [Next]_vars => [cwd' # cwd /\ ~cache'.foreign => IsDir(cwd')]_vars
<1> SUFFICES ASSUME IInv, Next, cwd' # cwd, ~cache'.foreign PROVE IsDir(cwd')
  OBVIOUS
<1>1. PICK p \in DosPath \cup {<<>>} : \E f : ChDir(p, f)
  BY ZenonT(60) DEF Next, Call, PathCall, SearchCall, FileCall, Tick, Foreign, SetCurDir, MakeDir, RmDir,
         Rename, Delete, GetAttr, SetAttr, FindVolume, FindFirst, FindNext, Open, Create, SpOpen,
         Read, Write, Close, SeekEnd
<1>2. PICK f : ChDir(p, f)
  BY <1>1
<1>3. PICK r \in Resolves(p, f) : /\ Leaves(r.c)
                                  /\ cwd' = IF p = <<>> \/ IsDirEntry(r) THEN p ELSE cwd
  BY <1>2 DEF ChDir
<1>4. CASE p = <<>>
  BY <1>3, <1>4, IInvParts DEF TreeOK, IsDir, Directory
<1>5. CASE p # <<>> /\ IsDirEntry(r)
  <2>1. cwd' = p /\ cache' = r.c /\ r.i # 0 /\ "dir" \in r.c.list[r.i].attr
    BY <1>3, <1>5 DEF Leaves, IsDirEntry
  <2>2. Cached(r.c) /\ Coherent(r.c) /\ Finds(p, r.i, r.c)
    BY <2>1, ResolveFacts, IInvParts
  <2>3. Agrees(r.c) /\ r.i \in DOMAIN r.c.list
    BY <2>1, <2>2 DEF Coherent, Finds, Cached
  <2> QED BY <2>1, <2>2, <2>3 DEF Agrees, Finds
<1> QED BY <1>3, <1>4, <1>5

(* The current directory is only ever changed to a directory that exists. *)
THEOREM ChdirIsToDirectory == Spec => ChdirToDirectory
BY Invariance, ChdirStep, PTL DEF Spec, ChdirToDirectory

(* A transfer that moves the position of DOS is one of the slot's own. *)
LEMMA TransferStep ==
  ASSUME \A f \in Faults : "LSEEK" \in f.on => f.done
  PROVE  IInv /\ [Next]_vars =>
            [\A s \in Slot : sft[s].open /\ sft'[s].open /\ fds' # fds /\ sft'[s].pos # sft[s].pos
                => fds'[sft[s].fd].at = sft'[s].pos]_vars
<1> SUFFICES ASSUME IInv, Next, NEW s \in Slot, sft[s].open, sft'[s].open, fds' # fds,
                    sft'[s].pos # sft[s].pos
             PROVE  fds'[sft[s].fd].at = sft'[s].pos
  OBVIOUS
<1>1. sft \in [Slot -> SlotRec] /\ fds \in [Fd -> FdRec]
  BY IInvParts DEF Files
<1>2. PICK t \in Slot : FileCall(t)
  BY DEF Next, Call, PathCall, SearchCall, Tick, Foreign, SetCurDir, MakeDir, RmDir, ChDir,
         Rename, Delete, GetAttr, SetAttr, FindVolume, FindFirst, FindNext
<1>3. ASSUME NEW f, NEW p, NEW c, NEW i, OpenEntry(t, p, c, i, f), ~sft[t].open PROVE FALSE
  BY <1>1, <1>3 DEF OpenEntry, Opened
<1>4. ASSUME NEW f, NEW p, NEW c, CreateFile(t, p, c, f), ~sft[t].open PROVE FALSE
  BY <1>1, <1>4 DEF CreateFile, Opened
<1>5. ASSUME NEW f, NEW p, Create(t, p, f) \/ SpOpen(t, p, f) \/ \E w : Open(t, p, w, f)
      PROVE  FALSE
  BY <1>3, <1>4, <1>5 DEF Create, SpOpen, Open
<1>6. ASSUME NEW f, Close(t, f) PROVE FALSE
  BY <1>1, <1>6 DEF Close, Closed
<1>7. ~SeekEnd(t)
  BY DEF SeekEnd
<1>8. ASSUME NEW f \in Faults, Read(t, f) PROVE fds'[sft[s].fd].at = sft'[s].pos
  <2>1. PICK at, got :
           /\ at = sft[t].pos /\ sft[t].fd # NoFd
           /\ fds' = [fds EXCEPT ![sft[t].fd].at = at + got]
           /\ sft' = IF Answered(f, "READ") THEN [sft EXCEPT ![t].pos = @ + got] ELSE sft
    BY <1>8 DEF Read, Offset, Executed
  <2>2. s = t
    BY <1>1, <2>1
  <2>3. sft[t].fd \in Fd
    BY <1>1, <2>1 DEF SlotRec
  <2> QED BY <1>1, <2>1, <2>2, <2>3 DEF SlotRec, FdRec
<1>9. ASSUME NEW f \in Faults, Write(t, f) PROVE fds'[sft[s].fd].at = sft'[s].pos
  <2>1. PICK put \in {0, 1} : put = IF Executed(f, "WRITE") THEN 1 ELSE 0
    OBVIOUS
  <2>2. PICK pos : pos = sft[t].pos + IF Answered(f, "WRITE") THEN put ELSE 0
    OBVIOUS
  <2>3. PICK size : size = Larger(sft[t].size, pos)
    OBVIOUS
  <2>4. sft[t].fd # NoFd /\ Offset(t, f) = sft[t].pos
    BY <1>9 DEF Write, Offset, Executed
  <2>5. fds' = [fds EXCEPT ![sft[t].fd].at = sft[t].pos + put]
    BY <1>9, <2>1, <2>4 DEF Write
  <2>6. sft' = [sft EXCEPT ![t].pos = pos, ![t].size = Larger(@, pos)]
    BY <1>9, <2>1, <2>2, <2>4 DEF Write
  <2>7. sft[t].fd \in Fd /\ sft[t].pos \in Nat
    BY <1>1, <2>4, DirCacheAssumption DEF SlotRec
  <2>8. sft'[t].pos = pos /\ \A u \in Slot \ {t} : sft'[u] = sft[u]
    BY <1>1, <2>6 DEF SlotRec
  <2>9. s = t
    BY <2>8
  <2>10. pos = sft[t].pos + put
    BY <2>1, <2>2, <2>7, <2>8, <2>9
  <2> QED BY <1>1, <2>5, <2>7, <2>8, <2>9, <2>10 DEF FdRec
<1> QED BY <1>2, <1>5, <1>6, <1>7, <1>8, <1>9 DEF FileCall, May

(* The offset the server transfers at and the position of DOS stay in step, for
   every loss but that of the LSEEK itself. *)
THEOREM TransfersAreInStep ==
  ASSUME \A f \in Faults : "LSEEK" \in f.on => f.done
  PROVE  Spec => TransfersInStep
BY Invariance, TransferStep, PTL DEF Spec, TransfersInStep

(* A listing of a directory that has room for it leaves out nothing that DOS
   can name. *)
LEMMA WholeListing ==
  ASSUME TreeOK, NEW c, Cached(c), Agrees(c), NEW p \in DosPath, c.path = Parent(p),
         IsFile(p), Named(c.list, Name(p)) = {},
         Cardinality(DosPath \cap Children(Parent(p))) <= CacheMax
  PROVE  Len(c.list) < CacheMax
<1> DEFINE D == DosPath \cap Children(Parent(p))
           h == [i \in 1 .. Len(c.list) |-> Append(c.path, c.list[i].name)]
<1>1. /\ p \in Path /\ p # <<>> /\ p \in Seq(STRING) /\ Parent(p) \in Path
      /\ Append(Parent(p), Name(p)) = p /\ p \in D
  BY DosPathFacts DEF Children, IsFile, Exists
<1>2. c.list \in Seq(Item) /\ Len(c.list) \in Nat /\ DOMAIN c.list = 1 .. Len(c.list)
      /\ Len(c.list) <= CacheMax
  BY DEF Cached
<1>3. ASSUME NEW i \in 1 .. Len(c.list)
      PROVE  h[i] \in D \ {p} /\ Name(h[i]) = c.list[i].name
  <2>1. PICK n \in Short : n = c.list[i].name
    <3>1. c.list[i] \in Item
      BY <1>2
    <3> QED BY <3>1 DEF Item
  <2>2. PICK x : x = Append(Parent(p), n)
    OBVIOUS
  <2>3. x \in Children(Parent(p)) /\ h[i] = x
    BY <1>2, <2>1, <2>2 DEF Agrees
  <2>4. x \in Path \ {<<>>} /\ x \in Seq(STRING)
    BY <2>3, PathSeq DEF Children
  <2>5. Name(x) = n
    <3>1. Parent(p) \in Seq(STRING)
      BY <1>1, PathSeq
    <3> QED BY <2>2, <2>4, <3>1, ParentOfAppend
  <2>6. x \in DosPath
    <3>1. Parent(p) \in Seq(STRING) /\ Len(Parent(p)) = Len(p) - 1
          /\ \A j \in 1 .. Len(p) - 1 : Parent(p)[j] = p[j]
      BY <1>1, ParentSeq
    <3>2. \A j \in 1 .. Len(p) : p[j] \in Short
      BY DEF DosPath
    <3>3. PICK k \in Nat : k = Len(Parent(p)) /\ k + 1 = Len(p)
      BY <1>1, <3>1, LenNat
    <3>4. Len(x) = k + 1 /\ x[k + 1] = n /\ \A j \in 1 .. k : x[j] = Parent(p)[j]
      BY <2>2, <3>1, <3>3
    <3>5. ASSUME NEW j \in 1 .. Len(x) PROVE x[j] \in Short
      BY <2>1, <3>1, <3>2, <3>3, <3>4
    <3> QED BY <2>4, <3>5 DEF DosPath
  <2>7. x # p
    BY <1>2, <2>1, <2>5 DEF Named
  <2> QED BY <2>1, <2>3, <2>5, <2>6, <2>7
<1> HIDE DEF D
<1>4. IsFiniteSet(D) /\ Cardinality(D) \in Nat /\ Cardinality(D) <= CacheMax
  <2>1. IsFiniteSet(D)
    BY <1>1, VisibleFacts, FS_Subset DEF D
  <2> QED BY <2>1, FS_CardinalityType DEF D
<1>5. IsFiniteSet(D \ {p}) /\ Cardinality(D \ {p}) = Cardinality(D) - 1
  BY <1>1, <1>4, FS_RemoveElement
<1>6. h \in Injection(1 .. Len(c.list), D \ {p})
  <2>1. h \in [1 .. Len(c.list) -> D \ {p}]
    BY <1>3
  <2>2. ASSUME NEW i \in 1 .. Len(c.list), NEW j \in 1 .. Len(c.list), h[i] = h[j] PROVE i = j
    <3>1. c.list[i].name = c.list[j].name
      BY <1>3, <2>2
    <3> QED BY <1>2, <3>1 DEF Agrees
  <2> QED BY <2>1, <2>2 DEF Injection, IsInjective
<1>7. Len(c.list) <= Cardinality(D) - 1
  <2>1. PICK k \in Nat : k = Len(c.list)
    BY <1>2
  <2>2. IsFiniteSet(1 .. k) /\ Cardinality(1 .. k) = k
    <3>1. 1 \in Int /\ k \in Int
      OBVIOUS
    <3>2. IsFiniteSet(1 .. k) /\ Cardinality(1 .. k) = IF 1 > k THEN 0 ELSE k - 1 + 1
      BY <3>1, FS_Interval
    <3> QED BY <3>2
  <2> HIDE DEF h
  <2>3. Cardinality(1 .. k) <= Cardinality(D \ {p})
    BY <1>5, <1>6, <2>1, <2>2, FS_Injection
  <2> QED BY <1>5, <2>1, <2>2, <2>3
<1> QED BY <1>2, <1>4, <1>7, DirCacheAssumption

(* A load that is answered succeeds in a directory that exists. *)
LEMMA AnsweredLoad ==
  ASSUME Cached(cache), ~cache.foreign, NEW f, f.on \cap Resolving = {}, NEW d, IsDir(d),
         NEW l \in Loads(d, f)
  PROVE  l.ok /\ ~l.c.foreign
<1>1. CASE Hit(d)
  <2>1. l = [ok |-> TRUE, c |-> Served] /\ Served.foreign = cache.foreign
    BY <1>1 DEF Loads, Served, Cached
  <2> QED BY <2>1
<1>2. CASE ~Hit(d)
  <2>1. /\ Executed(f, "OPENDIRX") /\ Answered(f, "OPENDIRX")
        /\ Answered(f, "READDIRX") /\ Answered(f, "CLOSEDIR")
    BY DEF Resolving, Loading, Executed, Answered
  <2>2. PICK k \in Listings(d) : l = [ok |-> TRUE, c |-> Loaded(d, k)]
    BY <1>2, <2>1 DEF Loads, Fetches
  <2> QED BY <2>2 DEF Loaded
<1> QED BY <1>1, <1>2

LEMMA SpOpenFinds ==
  ASSUME IInv, NEW p \in DosPath, IsFile(p), srv'[p] # srv[p], ~cache.foreign,
         Cardinality(DosPath \cap Children(Parent(p))) <= CacheMax,
         NEW s, NEW f, f.on \cap Resolving = {}, SpOpen(s, p, f)
  PROVE  FALSE
<1>1. PICK r \in Resolves(p, f) : r.i = 0
  <2>1. PICK r \in Resolves(p, f) : r.i = 0 \/ UNCHANGED srv
    BY DEF SpOpen
  <2> QED BY <2>1
<1>2. p \in Path /\ p # <<>> /\ Parent(p) \in Path
  BY DosPathFacts
<1>3. PICK l \in Loads(Parent(p), f) : r = Resolved(p, f, l)
  BY <1>1, <1>2 DEF Resolves
<1>4. Exists(p) /\ IsDir(Parent(p))
  BY <1>2, IInvParts DEF TreeOK, IsFile, Exists
<1>5. l.ok /\ ~l.c.foreign
  BY <1>4, AnsweredLoad, IInvParts
<1>6. Cached(l.c) /\ Agrees(l.c) /\ l.c.path = Parent(p)
  <2>1. Cached(l.c) /\ Coherent(l.c) /\ l.c.valid /\ l.c.path = Parent(p)
    BY <1>2, <1>5, LoadFacts, IInvParts
  <2> QED BY <2>1, <1>5 DEF Coherent
<1>7. StatSeen(p, f)
  BY <1>4 DEF StatSeen, Answered, Resolving
<1>8. l.c.list \in Seq(Item) /\ Len(l.c.list) \in Nat /\ DOMAIN l.c.list = 1 .. Len(l.c.list)
  BY <1>6 DEF Cached
<1> DEFINE found == Named(l.c.list, Name(p))
<1>9. CASE found = {}
  <2>1. Len(l.c.list) < CacheMax
    BY <1>6, <1>9, WholeListing, IInvParts
  <2>2. r.i = Len(l.c.list) + 1
    BY <1>3, <1>5, <1>7, <1>9, <2>1 DEF Resolved
  <2> QED BY <1>1, <1>8, <2>2
<1>10. CASE found # {}
  <2>1. r.i = CHOOSE i \in found : \A j \in found : i <= j
    BY <1>3, <1>5, <1>10 DEF Resolved
  <2>2. found \subseteq Nat \ {0}
    BY <1>8 DEF Named
  <2> HIDE DEF found
  <2>3. \E i \in found : \A j \in found : i <= j
    BY <1>10, <2>2, LeastNumber
  <2>4. r.i \in found
    BY <2>1, <2>3
  <2> QED BY <1>1, <2>2, <2>4
<1> QED BY <1>9, <1>10

(* "Open existing OR create if new" does not create what exists. *)
THEOREM SpOpenKeeps == Spec => SpOpenKeepsFiles
<1>1. IInv /\ [Next]_vars =>
        [\A p \in DosPath :
            /\ IsFile(p) /\ srv'[p] # srv[p] /\ ~cache.foreign
            /\ Cardinality(DosPath \cap Children(Parent(p))) <= CacheMax
            => ~\E s \in Slot, f \in Faults : f.on \cap Resolving = {} /\ SpOpen(s, p, f)]_vars
  BY SpOpenFinds
<1> QED BY <1>1, Invariance, PTL DEF Spec, SpOpenKeepsFiles

(***************************************************************************)
(* The age of what is served.                                              *)
(***************************************************************************)
(* % is the remainder that division leaves. *)
LEMMA Division ==
  ASSUME NEW M \in Nat \ {0}, NEW x \in Nat
  PROVE  \E q \in Int : \E r \in 0 .. M - 1 : q = x \div M /\ r = x % M /\ x = M * q + r
<1>1. PICK q \in Int : q = x \div M
  OBVIOUS
<1>2. PICK r \in 0 .. M - 1 : r = x % M
  OBVIOUS
<1>3. x = M * q + r
  BY <1>1, <1>2
<1> QED BY <1>1, <1>2, <1>3

LEMMA ModUnique ==
  ASSUME NEW M \in Nat \ {0}, NEW q \in Int, NEW r \in 0 .. M - 1, NEW x \in Int,
         x = M * q + r
  PROVE  x % M = r
OBVIOUS

(* The difference of two words is the word of the difference. *)
Difference(M, a, b) == ((b % M) - (a % M)) % M
Apart(M, a, b, r) == \E q \in Int : b - a = M * q + r

LEMMA ModDifference ==
  ASSUME NEW M \in Nat \ {0}, NEW a \in Nat, NEW b \in Nat,
         NEW r \in 0 .. M - 1, Apart(M, a, b, r)
  PROVE  Difference(M, a, b) = r
<1>0. PICK q \in Int : b - a = M * q + r
  BY DEF Apart
<1>1. PICK p \in Int, x \in 0 .. M - 1 : p = a \div M /\ x = a % M /\ a = M * p + x
  BY Division, Zenon
<1>2. PICK n \in Int, y \in 0 .. M - 1 : n = b \div M /\ y = b % M /\ b = M * n + y
  BY Division, Zenon
<1>3. PICK z \in Int : z = q - n + p
  OBVIOUS
<1>4. y - x = M * z + r
  <2>1. PICK mq \in Int, mn \in Int, mp \in Int : mq = M * q /\ mn = M * n /\ mp = M * p
    OBVIOUS
  <2>2. M * z = mq - mn + mp
    BY <1>3, <2>1
  <2>3. a = mp + x /\ b = mn + y /\ b - a = mq + r
    BY <1>0, <1>1, <1>2, <2>1
  <2>4. y - x = mq - mn + mp + r
    BY ONLY <2>3, mq \in Int, mn \in Int, mp \in Int, x \in Int, y \in Int, r \in Int,
            a \in Int, b \in Int
  <2> QED BY <2>2, <2>4
<1>5. PICK d \in Int : d = y - x
  OBVIOUS
<1>6. d % M = r
  BY <1>3, <1>4, <1>5, ModUnique
<1> QED BY <1>1, <1>2, <1>5, <1>6 DEF Difference

(* Of two times less than a turn of the word apart, in days not shorter than
   that, there is one midnight at most between them; and the words differ by the
   time less what that midnight takes from it. *)
Lost(M, D, s, t) == (t \div D - s \div D) * (D % M)

LEMMA WordDifference ==
  ASSUME NEW M \in Nat \ {0}, NEW D \in Nat \ {0}, M <= D, NEW s \in Nat, NEW t \in Nat,
         t - s \in 0 .. M - 1, Lost(M, D, s, t) <= t - s
  PROVE  Difference(M, s % D, t % D) = t - s - Lost(M, D, s, t)
<1> DEFINE m == t \div D - s \div D
           age == t - s
           gain == Lost(M, D, s, t)
<1> age \in 0 .. M - 1 /\ gain <= age
  OBVIOUS
<1>0. m \in Int /\ gain = m * (D % M) /\ age = t - s
  <2>1. t \div D \in Int /\ s \div D \in Int
    OBVIOUS
  <2> QED BY <2>1 DEF Lost
<1> HIDE DEF gain, age
<1>1. PICK p \in Int, a \in 0 .. D - 1 : p = s \div D /\ a = s % D /\ s = D * p + a
  BY Division, Zenon
<1>2. PICK n \in Int, b \in 0 .. D - 1 : n = t \div D /\ b = t % D /\ t = D * n + b
  BY Division, Zenon
<1>3. PICK k \in Int, lost \in 0 .. M - 1 : k = D \div M /\ lost = D % M /\ D = M * k + lost
  BY Division, Zenon
<1>4. PICK x \in Int : x = D * m
  OBVIOUS
<1>5. age = x + b - a
  <2>1. PICK dn \in Int, dp \in Int : dn = D * n /\ dp = D * p
    OBVIOUS
  <2>2. m = n - p
    BY <1>1, <1>2
  <2>3. x = dn - dp
    BY <1>4, <2>1, <2>2
  <2>4. s = dp + a /\ t = dn + b
    BY <1>1, <1>2, <2>1
  <2> QED BY <1>0, <2>3, <2>4
<1>10. gain = m * lost
  BY <1>0, <1>3
<1> HIDE DEF m
<1>6. m \in {0, 1}
  <2>1. x > 0 - D /\ x < 2 * D
    BY <1>5
  <2>2. ASSUME m <= -1 PROVE FALSE
    <3>1. D * m <= 0 - D
      BY <1>0, <2>2
    <3> QED BY <3>1, <2>1, <1>4
  <2>3. ASSUME m >= 2 PROVE FALSE
    <3>1. D * m >= 2 * D
      BY <1>0, <2>3
    <3> QED BY <3>1, <2>1, <1>4
  <2> QED BY <1>0, <2>2, <2>3
<1>7. a \in Nat /\ b \in Nat
  OBVIOUS
<1>8. CASE m = 0
  <2>1. b - a = age /\ gain = 0
    <3>1. gain = 0 * lost /\ x = D * 0
      BY <1>4, <1>8, <1>10
    <3>2. gain = 0 /\ x = 0
      BY ONLY <3>1, lost \in Int, D \in Int
    <3> QED BY <3>2, <1>5
  <2>2. b - a = M * 0 + age
    BY <2>1
  <2>3. Difference(M, a, b) = age
    BY <2>2, <1>7, ModDifference DEF Apart
  <2>4. age - gain = age
    BY <2>1
  <2> QED BY <2>3, <2>4, <1>1, <1>2, Zenon DEF gain, age
<1>9. CASE m = 1
  <2>1. gain = lost /\ x = D
    <3>1. gain = 1 * lost /\ x = D * 1
      BY <1>4, <1>9, <1>10
    <3> QED BY ONLY <3>1, lost \in Int, D \in Int
  <2>2. PICK r \in 0 .. M - 1 : r = age - gain
    BY <2>1
  <2>3. b - a = M * (0 - k) + r
    <3>1. PICK mk \in Int : mk = M * k
      OBVIOUS
    <3>2. M * (0 - k) = 0 - mk
      BY <3>1
    <3>3. D = mk + lost
      BY <1>3, <3>1
    <3> QED BY <3>2, <3>3, <2>1, <2>2, <1>5
  <2>4. Apart(M, a, b, r)
    <3>1. 0 - k \in Int
      OBVIOUS
    <3> QED BY <2>3, <3>1, Zenon DEF Apart
  <2>5. Difference(M, a, b) = r
    BY <2>4, <1>7, ModDifference
  <2> QED BY <2>2, <2>5, <1>1, <1>2, Zenon DEF gain, age
<1> QED BY <1>6, <1>8, <1>9

(* What is served is not overdue. *)
LEMMA HitInTime ==
  ASSUME CacheTypeOK, NEW d, Hit(d)
  PROVE  ~Overdue
<1> SUFFICES ASSUME Overdue PROVE FALSE
  OBVIOUS
<1>1. /\ now \in Nat /\ cache.loaded \in Nat /\ TickMod \in Nat \ {0} /\ DayTicks \in Nat \ {0}
      /\ TickMod <= DayTicks /\ TicksPerSec \in Nat \ {0} /\ Ttl \in Nat \ {0}
  BY DirCacheAssumption DEF CacheTypeOK
<1>2. PICK due \in Nat : due = Ttl * TicksPerSec
  BY <1>1
<1>3. PICK gain : gain = Lost(TickMod, DayTicks, cache.loaded, now)
  OBVIOUS
<1>4. now - cache.loaded \in due + gain .. TickMod - 1
  BY <1>2, <1>3 DEF Overdue, Lost
<1>5. gain \in Nat
  <2>1. now \div DayTicks - cache.loaded \div DayTicks \in Int
    BY <1>1
  <2>2. now \div DayTicks >= cache.loaded \div DayTicks
    BY <1>1 DEF CacheTypeOK
  <2>3. PICK m \in Nat : m = now \div DayTicks - cache.loaded \div DayTicks
    BY <2>1, <2>2, <1>1
  <2>4. PICK l \in Nat : l = DayTicks % TickMod
    BY <1>1
  <2>5. m * l \in Nat
    OBVIOUS
  <2> QED BY <2>3, <2>4, <2>5, <1>3 DEF Lost
<1>6. now - cache.loaded \in 0 .. TickMod - 1 /\ gain <= now - cache.loaded
  BY <1>1, <1>2, <1>4, <1>5
<1>7. Age = Difference(TickMod, cache.loaded % DayTicks, now % DayTicks)
  BY Zenon DEF Age, BiosTicks, Difference
<1>8. Age = now - cache.loaded - gain
  BY <1>1, <1>3, <1>6, <1>7, WordDifference
<1>9. PICK x \in Nat : x = Age /\ x >= Ttl * TicksPerSec
  BY <1>1, <1>2, <1>4, <1>5, <1>6, <1>8
<1>10. x \div TicksPerSec >= Ttl
  BY <1>1, <1>9
<1>11. x \div TicksPerSec \in Int /\ x \div TicksPerSec < Ttl
  BY <1>1, <1>9 DEF Hit
<1> QED BY <1>1, <1>10, <1>11

LEMMA LoadsInTime ==
  ASSUME CacheTypeOK, DistinctNames(cache.list), ~cache.late, NEW d, NEW f, NEW l \in Loads(d, f)
  PROVE  ~l.c.late
<1>1. Cached(cache) /\ now \in 0 .. MaxNow
  BY TheCache
<1>2. CASE Hit(d)
  <2>1. ~Overdue
    BY <1>2, HitInTime
  <2>2. l = [ok |-> TRUE, c |-> Served]
    BY <1>2 DEF Loads
  <2>3. ~Served.late
    BY <1>1, <2>1 DEF Served, Cached
  <2> QED BY <2>2, <2>3
<1>3. CASE ~Hit(d)
  <2>1. \/ \E k : l = [ok |-> FALSE, c |-> Emptied(k)]
        \/ \E k : l = [ok |-> TRUE, c |-> Loaded(d, k)]
    BY <1>3 DEF Loads, Fetches
  <2>2. ASSUME NEW k PROVE ~Emptied(k).late /\ ~Loaded(d, k).late
    BY <1>1 DEF Emptied, Loaded, Cached
  <2>3. (\E k : l.c = Emptied(k)) \/ (\E k : l.c = Loaded(d, k))
    BY <2>1
  <2> QED BY <2>2, <2>3
<1> QED BY <1>2, <1>3

LEMMA ResolvesInTime ==
  ASSUME IInv, ~cache.late, NEW p \in DosPath \cup {<<>>}, NEW f,
         NEW r \in Resolves(p, f)
  PROVE  Cached(r.c) /\ ~r.c.late
<1>1. Cached(r.c)
  BY ResolveFacts, IInvParts
<1>2. CASE p = <<>>
  <2>1. r = [i |-> 0, c |-> cache]
    BY <1>2 DEF Resolves
  <2>2. r.c = cache
    BY <2>1
  <2> QED BY <1>1, <2>2
<1>3. CASE p # <<>>
  <2>1. PICK l \in Loads(Parent(p), f) : r = Resolved(p, f, l)
    BY <1>3 DEF Resolves
  <2>2. ~l.c.late
    BY <2>1, LoadsInTime, IInvParts
  <2>3. Cached(l.c)
    BY <1>3, DosPathFacts, LoadFacts, IInvParts
  <2>4. r.c = l.c \/ r.c = [l.c EXCEPT !.list = Append(@, Entry(p))]
    BY <2>1 DEF Resolved
  <2> QED BY <1>1, <2>2, <2>3, <2>4 DEF Cached
<1> QED BY <1>1, <1>2, <1>3

LEMMA TtlStep == IInv /\ WithinTtl /\ [Next]_vars => WithinTtl'
<1> SUFFICES ASSUME IInv, ~cache.late, [Next]_vars PROVE ~cache'.late
  BY DEF WithinTtl
<1> DEFINE InTime(c) == Cached(c) /\ ~c.late
<1>1. PICK old : old = cache /\ InTime(old)
  BY IInvParts
<1>2. ASSUME NEW c, InTime(c) PROVE InTime(Invalidated(c))
  BY <1>2 DEF Invalidated, Cached
<1>3. ASSUME NEW p \in DosPath, NEW c, InTime(c), NEW f, MkdirAfter(p, c, f) PROVE ~cache'.late
  BY <1>2, <1>3 DEF MkdirAfter, Leaves
<1>4. ASSUME NEW p, NEW c, InTime(c), NEW s, NEW f, CreateFile(s, p, c, f) PROVE ~cache'.late
  BY <1>2, <1>4 DEF CreateFile, Leaves
<1>5. ASSUME NEW p \in DosPath \cup {<<>>}, NEW f, NEW r \in Resolves(p, f) PROVE InTime(r.c)
  BY <1>5, ResolvesInTime
<1>6. ASSUME NEW p \in DosPath, NEW f, SetCurDir(p, f) \/ MakeDir(p, f) PROVE ~cache'.late
  <2>1. CASE SetCurDir(p, f)
    BY <1>3, <1>5, <2>1 DEF SetCurDir, Leaves
  <2>2. CASE MakeDir(p, f)
    BY <1>1, <1>3, <2>2 DEF MakeDir
  <2> QED BY <1>6, <2>1, <2>2
<1>7. ASSUME NEW p \in DosPath, NEW f, RmDir(p, f) PROVE ~cache'.late
  <2>1. PICK l \in Loads(p, f) : cache' = l.c \/ cache' = Invalidated(l.c)
    BY <1>7 DEF RmDir, Leaves
  <2>2. InTime(l.c)
    BY LoadsInTime, LoadFacts, DosPathFacts, IInvParts
  <2> QED BY <1>2, <2>1, <2>2
<1>8. ASSUME NEW p \in DosPath \cup {<<>>}, NEW f, ChDir(p, f) \/ GetAttr(p, f) PROVE ~cache'.late
  BY <1>5, <1>8 DEF ChDir, GetAttr, Leaves
<1>9. ASSUME NEW p \in DosPath, NEW a, NEW f, SetAttr(p, a, f) PROVE ~cache'.late
  <2>1. PICK r \in Resolves(p, f) :
           cache' = r.c \/ cache' = [r.c EXCEPT !.list[r.i].attr = a]
    BY <1>9 DEF SetAttr, Leaves
  <2>2. InTime(r.c)
    BY <1>5
  <2>3. cache' = [r.c EXCEPT !.list = [@ EXCEPT ![r.i].attr = a]] => cache'.late = r.c.late
    BY <2>2 DEF Cached
  <2> QED BY <2>1, <2>2, <2>3
<1>10. ASSUME NEW p, NEW f, Delete(p, f) \/ \E q : Rename(p, q, f) PROVE ~cache'.late
  BY <1>1, <1>2, <1>10 DEF Delete, Rename, Leaves
<1>11. ASSUME NEW s, NEW d \in DosPath \cup {<<>>}, NEW t, NEW f, FindFirst(s, d, t, f)
       PROVE  ~cache'.late
  <2>1. PICK l \in Loads(d, f) : cache' = l.c
    BY <1>11 DEF FindFirst
  <2> QED BY <2>1, LoadsInTime, IInvParts
<1>12. ASSUME NEW s, NEW p \in DosPath, NEW f, Create(s, p, f) PROVE ~cache'.late
  BY <1>1, <1>4, <1>12 DEF Create
<1>13. ASSUME NEW s, NEW p \in DosPath, NEW f, SpOpen(s, p, f) \/ \E w : Open(s, p, w, f)
       PROVE  ~cache'.late
  BY <1>4, <1>5, <1>13 DEF SpOpen, Open, Leaves
<1>14. CASE Call
  <2>1. \/ UNCHANGED cache
        \/ \E p \in DosPath : \E f : \/ SetCurDir(p, f) \/ MakeDir(p, f) \/ RmDir(p, f)
                                     \/ ChDir(p, f) \/ GetAttr(p, f)
                                     \/ Delete(p, f) \/ \E q : Rename(p, q, f)
                                     \/ \E a : SetAttr(p, a, f)
        \/ \E f : ChDir(<<>>, f)
        \/ \E s, t, f : \E d \in DosPath \cup {<<>>} : FindFirst(s, d, t, f)
        \/ \E p \in DosPath : \E s, f : \/ Create(s, p, f) \/ SpOpen(s, p, f)
                                        \/ \E w : Open(s, p, w, f)
    <3>1. CASE \E p \in DosPath : PathCall(p)
      BY <3>1 DEF PathCall
    <3>2. CASE \E s \in Search : SearchCall(s)
      BY <3>2 DEF SearchCall, FindVolume, FindNext, dirVars
    <3>3. CASE \E s \in Slot : FileCall(s)
      BY <3>3 DEF FileCall, Read, Write, Close, SeekEnd, dirVars
    <3> QED BY <1>14, <3>1, <3>2, <3>3 DEF Call
  <2> QED BY <2>1, <1>1, <1>6, <1>7, <1>8, <1>9, <1>10, <1>11, <1>12, <1>13
<1>15. CASE Tick \/ UNCHANGED vars
  BY <1>1, <1>15 DEF Tick, vars, dirVars
<1>16. ASSUME NEW p, Foreign(p) PROVE ~cache'.late
  BY <1>1, <1>16 DEF Foreign, Cached
<1> QED BY <1>14, <1>15, <1>16 DEF Next

(* No listing older than the TTL is served, for every TTL, width of the word and
   length of the day, whenever the program starts and however long it runs,
   whatever other clients do - but for the two limits of Overdue: what a midnight
   gives, and an age of a whole turn of the word or more. *)
THEOREM ServedWithinTtl == Spec => []WithinTtl
<1>1. Init => WithinTtl
  BY DEF Init, CacheInit, WithinTtl
<1> QED BY <1>1, TtlStep, Invariance, PTL DEF Spec
=============================================================================
