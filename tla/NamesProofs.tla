----------------------------- MODULE NamesProofs -----------------------------
(***************************************************************************)
(* Proofs about Names, for every alphabet, length of names, tree of the    *)
(* server and spelling of a directory: a path that OPEN makes for a DOS    *)
(* path is the one DELETE makes for it, and it is the path of the file     *)
(* that the name stood for on its way to DOS.                              *)
(***************************************************************************)
EXTENDS Names, FiniteSetTheorems, SequenceTheorems, WellFoundedInduction, TLAPS

-----------------------------------------------------------------------------
(* Numbers.                                                                *)

\* A set of numbers that is not empty has a least one: their intervals 0 .. n
\* are well-founded under inclusion.
LEMMA LeastNumber ==
    ASSUME NEW T, T \subseteq Nat, T # {}
    PROVE  \E x \in T : \A y \in T : x <= y
<1> DEFINE U == {0 .. n : n \in T}
<1>1. U \subseteq FiniteSubsetsOf(Nat) /\ U # {}
  <2>1. ASSUME NEW n \in T PROVE 0 .. n \in FiniteSubsetsOf(Nat)
    <3>1. IsFiniteSet(0 .. n)
      BY FS_Interval
    <3> QED
      BY <3>1 DEF FiniteSubsetsOf
  <2> QED
    BY <2>1
<1>2. PICK u \in U : \A v \in U : ~(<<v, u>> \in StrictSubsetOrdering(Nat))
  <2> HIDE DEF U
  <2>1. IsWellFoundedOn(StrictSubsetOrdering(Nat), FiniteSubsetsOf(Nat))
    BY FS_StrictSubsetOrderingWellFounded
  <2> QED
    BY <1>1, <2>1, WFMin
<1>3. PICK x \in T : u = 0 .. x
  OBVIOUS
<1>4. ASSUME NEW y \in T, y < x PROVE FALSE
  <2>1. 0 .. y \subseteq 0 .. x /\ x \in 0 .. x /\ x \notin 0 .. y
    BY <1>4
  <2>2. <<0 .. y, 0 .. x>> \in StrictSubsetOrdering(Nat)
    BY <2>1 DEF StrictSubsetOrdering
  <2> QED
    BY <2>2, <1>2, <1>3
<1> QED
  BY <1>4

\* What Min and Max are in a set of indices.
LEMMA MinFacts ==
    ASSUME NEW n \in Nat, NEW T, T \subseteq 1 .. n, T # {}
    PROVE  Min(T) \in T /\ \A y \in T : Min(T) <= y
<1>1. T \subseteq Nat
    OBVIOUS
<1>2. \E x \in T : \A y \in T : x <= y
    BY <1>1, LeastNumber
<1> QED
    BY <1>2 DEF Min

LEMMA MaxFacts ==
    ASSUME NEW n \in Nat, NEW T, T \subseteq 1 .. n, T # {}
    PROVE  Max(T) \in T /\ \A y \in T : Max(T) >= y
<1> DEFINE R == {n - x : x \in T}
<1>1. R \subseteq Nat /\ R # {}
    OBVIOUS
<1>2. PICK r \in R : \A y \in R : r <= y
  <2> HIDE DEF R
  <2> QED
    BY <1>1, LeastNumber
<1>3. PICK x \in T : r = n - x
    OBVIOUS
<1>4. \A y \in T : x >= y
  <2> SUFFICES ASSUME NEW y \in T PROVE x >= y
    OBVIOUS
  <2>1. r <= n - y /\ x \in 1 .. n /\ y \in 1 .. n
    BY <1>2
  <2> QED
    BY <1>3, <2>1
<1>5. \E z \in T : \A y \in T : z >= y
    BY <1>4
<1> QED
    BY <1>5 DEF Max

-----------------------------------------------------------------------------
(* Characters and parts of names.                                          *)

\* Upper-casing is idempotent and has nothing to do with special characters.
LEMMA UpperFacts ==
    ASSUME NEW c \in Char
    PROVE  /\ Upper(c) \in Char /\ Upper(Upper(c)) = Upper(c)
           /\ \A s \in Special : Upper(c) = s <=> c = s
           /\ c \in NameChar => Upper(c) \in NameChar
<1>1. /\ DOMAIN UpperOf \subseteq Char \ Special
      /\ \A x \in DOMAIN UpperOf : UpperOf[x] \in (Char \ Special) \ DOMAIN UpperOf
    BY LetterAssumption
<1>2. "/" \in Special /\ Backslash \in Special
    BY DEF Special
<1> QED
    BY <1>1, <1>2 DEF Upper, NameChar

\* The same for names and paths.
LEMMA UpperedFacts ==
    ASSUME NEW s \in Seq(Char)
    PROVE  /\ Uppered(s) \in Seq(Char) /\ Len(Uppered(s)) = Len(s)
           /\ \A i \in 1 .. Len(s) : Uppered(s)[i] = Upper(s[i])
           /\ Uppered(Uppered(s)) = Uppered(s)
           /\ s \in Seq(NameChar) => Uppered(s) \in Seq(NameChar)
<1>n. PICK n \in Nat : n = Len(s) /\ DOMAIN s = 1 .. n
    OBVIOUS
<1>u. PICK u : u = Uppered(s)
    OBVIOUS
<1>1. u = [i \in 1 .. n |-> Upper(s[i])]
    BY <1>n, <1>u DEF Uppered
<1>2. \A i \in 1 .. n : s[i] \in Char
    BY <1>n
<1>3. u \in [1 .. n -> Char]
    BY <1>1, <1>2, UpperFacts
<1>4. u \in Seq(Char) /\ Len(u) = n /\ DOMAIN u = 1 .. n
    BY <1>3
<1>5. Uppered(u) = u
  <2>1. Uppered(u) = [i \in 1 .. n |-> Upper(u[i])]
      BY <1>4 DEF Uppered
  <2>2. \A i \in 1 .. n : Upper(u[i]) = u[i]
      BY <1>1, <1>2, UpperFacts
  <2>3. \A i \in 1 .. n : Uppered(u)[i] = u[i]
      BY <2>1, <2>2
  <2>4. DOMAIN Uppered(u) = 1 .. n
      BY <2>1
  <2> QED
      BY <2>1, <2>2, <1>1
<1>6. ASSUME s \in Seq(NameChar) PROVE u \in Seq(NameChar)
  <2>1. \A i \in 1 .. n : s[i] \in NameChar
      BY <1>6, <1>n
  <2>2. u \in [1 .. n -> NameChar]
      BY <1>1, <1>2, <2>1, UpperFacts
  <2> QED
      BY <2>2
<1> QED
    BY <1>n, <1>u, <1>1, <1>4, <1>5, <1>6

\* The dot is in the name, or there is none.
LEMMA DotFacts ==
    ASSUME NEW S, NEW n \in Seq(S)
    PROVE  /\ DotAt(n) \in 0 .. Len(n)
           /\ DotAt(n) # 0 => n[DotAt(n)] = "."
           /\ \A i \in 1 .. Len(n) : n[i] = "." => DotAt(n) # 0 /\ DotAt(n) <= i
<1> DEFINE T == {i \in 1 .. Len(n) : n[i] = "."}
<1>1. Len(n) \in Nat
    OBVIOUS
<1>2. T \subseteq 1 .. Len(n) /\ \A i \in 1 .. Len(n) : n[i] = "." <=> i \in T
    OBVIOUS
<1>3. DotAt(n) = IF T # {} THEN Min(T) ELSE 0
    BY DEF DotAt, SelectInSeq
<1>4. \A i \in T : n[i] = "."
    OBVIOUS
<1> HIDE DEF T
<1>5. CASE T = {}
    BY <1>1, <1>2, <1>3, <1>5
<1>6. CASE T # {}
  <2>1. Min(T) \in T /\ \A y \in T : Min(T) <= y
    BY <1>1, <1>2, <1>6, MinFacts
  <2>2. DotAt(n) = Min(T)
    BY <1>3, <1>6
  <2>3. DotAt(n) \in 1 .. Len(n) /\ n[DotAt(n)] = "."
    BY <1>2, <1>4, <2>1, <2>2
  <2>4. \A i \in 1 .. Len(n) : n[i] = "." => DotAt(n) <= i
    BY <1>2, <2>1, <2>2
  <2> QED
    BY <1>1, <2>3, <2>4
<1> QED
    BY <1>5, <1>6

\* The parts of a name are names.
LEMMA PartFacts ==
    ASSUME NEW S, NEW n \in Seq(S)
    PROVE  /\ Base(n) \in Seq(S) /\ Ext(n) \in Seq(S)
           /\ Len(Base(n)) = (IF DotAt(n) = 0 THEN Len(n) ELSE DotAt(n) - 1)
           /\ Len(Ext(n)) = (IF DotAt(n) = 0 THEN 0 ELSE Len(n) - DotAt(n))
           /\ \A i \in 1 .. Len(Base(n)) : Base(n)[i] = n[i]
           /\ \A i \in 1 .. Len(Ext(n)) : Ext(n)[i] = n[DotAt(n) + i]
           /\ \A i \in 1 .. Len(Base(n)) : i \in 1 .. Len(n)
           /\ \A i \in 1 .. Len(Ext(n)) : DotAt(n) + i \in 1 .. Len(n)
<1>d. PICK d : d = DotAt(n)
    OBVIOUS
<1>1. d \in 0 .. Len(n) /\ Len(n) \in Nat
    BY <1>d, DotFacts
<1>2. CASE d = 0
    BY <1>d, <1>2 DEF Base, Ext
<1>3. CASE d # 0
  <2>1. Base(n) = SubSeq(n, 1, d - 1) /\ Ext(n) = SubSeq(n, d + 1, Len(n))
      BY <1>d, <1>3 DEF Base, Ext
  <2>2. /\ \A i \in 1 .. d - 1 : n[i] \in S
        /\ \A i \in d + 1 .. Len(n) : n[i] \in S
      BY <1>1
  <2>3. /\ SubSeq(n, 1, d - 1) \in Seq(S) /\ Len(SubSeq(n, 1, d - 1)) = d - 1
        /\ \A i \in 1 .. d - 1 : SubSeq(n, 1, d - 1)[i] = n[i]
      BY <1>1, <1>3, <2>2
  <2>4. /\ SubSeq(n, d + 1, Len(n)) \in Seq(S) /\ Len(SubSeq(n, d + 1, Len(n))) = Len(n) - d
        /\ \A i \in 1 .. Len(n) - d : SubSeq(n, d + 1, Len(n))[i] = n[d + i]
      BY <1>1, <1>3, <2>2
  <2>5. /\ \A i \in 1 .. d - 1 : i \in 1 .. Len(n)
        /\ \A i \in 1 .. Len(n) - d : d + i \in 1 .. Len(n)
      BY <1>1, <1>3
  <2> QED
      BY <1>d, <1>3, <2>1, <2>3, <2>4, <2>5
<1> QED
    BY <1>2, <1>3

LEMMA NoBlankInParts ==
    ASSUME NEW S, NEW n \in Seq(S), Blank \notin ToSet(n)
    PROVE  Blank \notin ToSet(Base(n)) /\ Blank \notin ToSet(Ext(n))
<1>1. \A i \in 1 .. Len(n) : n[i] # Blank
    BY DEF ToSet
<1>b. PICK b \in Seq(S) : b = Base(n) /\ \A i \in 1 .. Len(b) : i \in 1 .. Len(n) /\ b[i] = n[i]
    BY PartFacts
<1>e. PICK e \in Seq(S) : /\ e = Ext(n)
                          /\ \A i \in 1 .. Len(e) : /\ DotAt(n) + i \in 1 .. Len(n)
                                                    /\ e[i] = n[DotAt(n) + i]
    BY PartFacts
<1>2. (\A i \in 1 .. Len(b) : b[i] # Blank) /\ (\A i \in 1 .. Len(e) : e[i] # Blank)
    BY <1>1, <1>b, <1>e
<1>3. DOMAIN b = 1 .. Len(b) /\ DOMAIN e = 1 .. Len(e)
    OBVIOUS
<1> QED
    BY <1>2, <1>3, <1>b, <1>e DEF ToSet

\* Trimming takes something off the end.
LEMMA TrimmedFacts ==
    ASSUME NEW S, NEW s \in Seq(S)
    PROVE  /\ Trimmed(s) \in Seq(S) /\ Len(Trimmed(s)) <= Len(s) /\ Len(Trimmed(s)) \in Nat
           /\ \A i \in 1 .. Len(Trimmed(s)) : Trimmed(s)[i] = s[i]
           /\ \A i \in 1 .. Len(s) : s[i] # Blank => i <= Len(Trimmed(s))
           /\ Len(Trimmed(s)) > 0 => s[Len(Trimmed(s))] # Blank
<1> DEFINE T == {i \in 1 .. Len(s) : s[i] # Blank}
<1>1. Len(s) \in Nat /\ \A i \in 1 .. Len(s) : s[i] \in S
    OBVIOUS
<1>2. T \subseteq 1 .. Len(s) /\ \A i \in 1 .. Len(s) : s[i] # Blank <=> i \in T
    OBVIOUS
<1>k. PICK k : k = IF T # {} THEN Max(T) ELSE 0
    OBVIOUS
<1>3. Trimmed(s) = SubSeq(s, 1, k)
    BY <1>k DEF Trimmed, SelectLastInSeq
<1> HIDE DEF T
<1>4. T # {} => Max(T) \in T /\ \A y \in T : Max(T) >= y
    BY <1>1, <1>2, MaxFacts
<1>5. k \in 0 .. Len(s) /\ (k > 0 => s[k] # Blank) /\ \A i \in 1 .. Len(s) : s[i] # Blank => i <= k
  <2>1. CASE T = {}
    <3>1. k = 0
      BY <1>k, <2>1
    <3> QED
      BY <3>1, <1>1, <1>2, <2>1
  <2>2. CASE T # {}
    <3>1. k \in T /\ \A y \in T : k >= y
      BY <1>k, <1>4, <2>2
    <3>2. k \in 1 .. Len(s) /\ s[k] # Blank
      BY <1>2, <3>1
    <3>3. \A i \in 1 .. Len(s) : s[i] # Blank => i <= k
      BY <1>2, <3>1, <1>1, <3>2
    <3> QED
      BY <3>2, <3>3, <1>1
  <2> QED
    BY <2>1, <2>2
<1>6. /\ SubSeq(s, 1, k) \in Seq(S) /\ Len(SubSeq(s, 1, k)) = k
      /\ \A i \in 1 .. k : SubSeq(s, 1, k)[i] = s[i]
  <2>1. k \in Nat /\ k <= Len(s) /\ \A i \in 1 .. k : s[i] \in S
    BY <1>1, <1>5
  <2> QED
    BY <1>1, <2>1
<1>7. Trimmed(s) \in Seq(S) /\ Len(Trimmed(s)) = k /\ \A i \in 1 .. k : Trimmed(s)[i] = s[i]
    BY <1>3, <1>6
<1> QED
    BY <1>1, <1>5, <1>7

-----------------------------------------------------------------------------
(* Paths.                                                                  *)

LEMMA CharFacts ==
    /\ NameChar \subseteq Char /\ Backslash \in Char /\ "/" \in Char
    /\ Backslash \notin NameChar /\ "/" \notin NameChar
    /\ "." \in NameChar /\ Blank \in NameChar
    /\ Blank # "?" /\ Blank # "."
<1>1. Special \subseteq Char
    BY LetterAssumption
<1>2. {".", Blank, "/", Backslash} \subseteq Special
    BY DEF Special
<1>3. "." # "/" /\ Backslash # "/" /\ "." # Backslash /\ Blank # "/" /\ Blank # Backslash
      /\ Blank # "?" /\ Blank # "."
    BY DEF Backslash, Blank
<1> QED
    BY <1>1, <1>2, <1>3 DEF NameChar

\* A path takes the directory and the name apart again where they were joined.
LEMMA PathFacts ==
    ASSUME NEW d \in Seq(Char), NEW n \in Seq(NameChar)
    PROVE  /\ DosPath(d, n) \in Seq(Char)
           /\ DirPart(DosPath(d, n)) = d /\ LastPart(DosPath(d, n)) = n
           /\ d = <<>> => DosPath(d, n) = n
           /\ d # <<>> => DosPath(d, n) = Append(d, Backslash) \o n
<1>p. PICK p : p = DosPath(d, n)
    OBVIOUS
<1>k. PICK k : k = IF d = <<>> THEN 0 ELSE Len(d) + 1
    OBVIOUS
<1> DEFINE T == {i \in 1 .. Len(p) : p[i] = Backslash}
<1>0. n \in Seq(Char) /\ Append(d, Backslash) \in Seq(Char) /\ Backslash \in Char
  <2>1. n \in Seq(Char)
    BY CharFacts, SeqMonotonic
  <2> QED
    BY <2>1, CharFacts, AppendProperties
<1>1. /\ p \in Seq(Char) /\ Len(p) = k + Len(n) /\ k \in Nat /\ Len(n) \in Nat
      /\ k > 0 => k = Len(d) + 1 /\ p[k] = Backslash /\ \A i \in 1 .. Len(d) : p[i] = d[i]
      /\ \A i \in 1 .. Len(n) : p[k + i] = n[i]
  <2>1. CASE d = <<>>
    <3>1. p = n /\ k = 0
      BY <1>p, <1>k, <2>1, <1>0, ConcatEmptySeq DEF DosPath
    <3> QED
      BY <3>1, <1>0
  <2>2. CASE d # <<>>
    <3>1. p = Append(d, Backslash) \o n /\ k = Len(d) + 1
      BY <1>p, <1>k, <2>2 DEF DosPath
    <3>2. /\ Len(Append(d, Backslash)) = k /\ k \in Nat /\ Len(d) \in Nat /\ Len(n) \in Nat
          /\ Append(d, Backslash)[k] = Backslash
          /\ \A i \in 1 .. Len(d) : Append(d, Backslash)[i] = d[i]
      BY <3>1, <1>0
    <3>a. PICK a \in Seq(Char) : a = Append(d, Backslash)
      BY <1>0
    <3>3. /\ p \in Seq(Char) /\ Len(p) = k + Len(n)
          /\ \A i \in 1 .. k + Len(n) : p[i] = IF i <= k THEN a[i] ELSE n[i - k]
      BY <3>1, <3>2, <3>a, <1>0, ConcatProperties
    <3>4. \A i \in 1 .. k : p[i] = a[i]
      BY <3>2, <3>3
    <3>5. \A i \in 1 .. Len(n) : p[k + i] = n[i]
      <4> SUFFICES ASSUME NEW i \in 1 .. Len(n) PROVE p[k + i] = n[i]
        OBVIOUS
      <4>1. k + i \in 1 .. k + Len(n) /\ ~(k + i <= k) /\ (k + i) - k = i
        BY <3>2
      <4> QED
        BY <4>1, <3>3
    <3> QED
      BY <3>1, <3>2, <3>3, <3>4, <3>5, <3>a
  <2> QED
    BY <2>1, <2>2
<1>2. \A i \in 1 .. Len(n) : n[i] # Backslash
    BY CharFacts
<1>3. \A i \in 1 .. Len(p) : p[i] = Backslash => i <= k
  <2>1. Len(p) = k + Len(n) /\ k \in Nat /\ Len(n) \in Nat
    BY <1>1
  <2>2. ASSUME NEW i \in 1 .. Len(p), i > k PROVE p[i] # Backslash
    <3>1. i - k \in 1 .. Len(n) /\ k + (i - k) = i
      BY <2>1, <2>2
    <3>2. p[k + (i - k)] = n[i - k]
      BY <3>1, <1>1
    <3> QED
      BY <3>1, <3>2, <1>2
  <2>3. \A i \in 1 .. Len(p) : i > k \/ i <= k
    BY <2>1
  <2> QED
    BY <2>2, <2>3
<1>4. LastBackslash(p) = k
  <2>1. LastBackslash(p) = IF T # {} THEN Max(T) ELSE 0
    BY DEF LastBackslash, SelectLastInSeq
  <2>2. CASE k = 0
    <3>1. T = {}
      BY <1>1, <1>3, <2>2
    <3> QED
      BY <2>1, <2>2, <3>1
  <2>3. CASE k > 0
    <3>1. k \in T /\ T \subseteq 1 .. Len(p) /\ T # {} /\ Len(p) \in Nat
      BY <1>1, <2>3
    <3>2. \A i \in T : i <= k
      BY <1>3
    <3> HIDE DEF T
    <3>3. Max(T) \in T /\ \A i \in T : Max(T) >= i
      BY <3>1, MaxFacts
    <3>4. PICK m \in T : m = Max(T)
      BY <3>3
    <3>5. m \in Nat /\ m <= k /\ m >= k
      BY <3>1, <3>2, <3>3, <3>4
    <3>6. Max(T) = k
      BY <3>4, <3>5, <1>1
    <3> QED
      BY <2>1, <3>1, <3>6
  <2> QED
    BY <1>1, <2>2, <2>3
<1>5. DirPart(p) = d
  <2>1. DirPart(p) = SubSeq(p, 1, k - 1)
    BY <1>4 DEF DirPart
  <2>2. CASE k = 0
    <3>1. d = <<>>
      BY <1>k, <2>2
    <3>2. SubSeq(p, 1, k - 1) = <<>>
      BY <2>2, SubSeqEmpty
    <3> QED
      BY <2>1, <3>1, <3>2
  <2>3. CASE k > 0
    <3>1. k - 1 = Len(d) /\ Len(d) \in Nat /\ \A i \in 1 .. Len(d) : p[i] = d[i] /\ p[i] \in Char
      BY <1>1, <2>3
    <3>2. /\ SubSeq(p, 1, Len(d)) \in Seq(Char) /\ Len(SubSeq(p, 1, Len(d))) = Len(d)
          /\ \A i \in 1 .. Len(d) : SubSeq(p, 1, Len(d))[i] = p[i]
      BY <3>1, <1>1
    <3> QED
      BY <2>1, <3>1, <3>2, SeqEqual
  <2> QED
    BY <1>1, <2>2, <2>3
<1>6. LastPart(p) = n
  <2>1. LastPart(p) = SubSeq(p, k + 1, k + Len(n))
    BY <1>1, <1>4 DEF LastPart
  <2>2. \A i \in k + 1 .. k + Len(n) : p[i] \in Char
    BY <1>1
  <2>3. /\ SubSeq(p, k + 1, k + Len(n)) \in Seq(Char) /\ Len(SubSeq(p, k + 1, k + Len(n))) = Len(n)
        /\ \A i \in 1 .. Len(n) : SubSeq(p, k + 1, k + Len(n))[i] = p[k + i]
    BY <1>1, <2>2
  <2> QED
    BY <2>1, <2>3, <1>0, <1>1, SeqEqual
<1> QED
    BY <1>p, <1>1, <1>5, <1>6, <1>0, ConcatEmptySeq DEF DosPath

\* Every path sent for a DOS path is spelled in upper case and with slashes.
LEMMA ServerDirFacts ==
    ASSUME NEW d \in Seq(Char)
    PROVE  /\ ServerDir(d) \in Seq(Char) /\ Len(ServerDir(d)) = Len(d) + 1
           /\ ServerDir(d)[1] = "/"
           /\ \A i \in 1 .. Len(d) : ServerDir(d)[i + 1] = TnfsChar(d[i])
           /\ ToTnfsPath(d) = ServerDir(d)
           /\ ServerDir(d) = Root <=> d = <<>>
<1>c. PICK c : c = [i \in DOMAIN d |-> TnfsChar(d[i])]
    OBVIOUS
<1>1. \A i \in 1 .. Len(d) : TnfsChar(d[i]) \in Char
    BY CharFacts, UpperFacts DEF TnfsChar
<1>2. c \in Seq(Char) /\ Len(c) = Len(d) /\ \A i \in 1 .. Len(d) : c[i] = TnfsChar(d[i])
    BY <1>c, <1>1
<1>3. ServerDir(d) = <<"/">> \o c /\ ToTnfsPath(d) = <<"/">> \o c
    BY <1>c DEF ServerDir, ToTnfsPath, TnfsChar, Root
<1>4. <<"/">> \in Seq(Char) /\ Len(<<"/">>) = 1 /\ <<"/">>[1] = "/" /\ Len(d) \in Nat
    BY CharFacts
<1>5. /\ <<"/">> \o c \in Seq(Char) /\ Len(<<"/">> \o c) = 1 + Len(d)
      /\ \A i \in 1 .. 1 + Len(d) :
            (<<"/">> \o c)[i] = IF i <= 1 THEN <<"/">>[i] ELSE c[i - 1]
    BY <1>2, <1>4, ConcatProperties
<1>6. \A i \in 1 .. Len(d) : (<<"/">> \o c)[i + 1] = c[i]
  <2> SUFFICES ASSUME NEW i \in 1 .. Len(d) PROVE (<<"/">> \o c)[i + 1] = c[i]
    OBVIOUS
  <2>1. i + 1 \in 1 .. 1 + Len(d) /\ ~(i + 1 <= 1) /\ (i + 1) - 1 = i
    BY <1>4
  <2> QED
    BY <2>1, <1>5
<1>7. (<<"/">> \o c)[1] = "/"
  <2>1. 1 \in 1 .. 1 + Len(d)
    BY <1>4
  <2> QED
    BY <2>1, <1>4, <1>5
<1>8. <<"/">> \o c = <<"/">> <=> d = <<>>
  <2>1. CASE d = <<>>
    <3>1. c = <<>>
      BY <1>2, <2>1
    <3> QED
      BY <3>1, <2>1, <1>4, ConcatEmptySeq
  <2>2. CASE d # <<>>
    <3>1. Len(<<"/">> \o c) # 1
      BY <2>2, <1>4, <1>5
    <3> QED
      BY <3>1, <2>2, <1>4
  <2> QED
    BY <2>1, <2>2
<1> QED
    BY <1>2, <1>3, <1>4, <1>5, <1>6, <1>7, <1>8 DEF Root

\* Two spellings of a path that differ in case only are sent as one path.
LEMMA SpelledAlike ==
    ASSUME NEW p \in Seq(Char), NEW q \in Seq(Char), Uppered(p) = Uppered(q)
    PROVE  ToTnfsPath(p) = ToTnfsPath(q)
<1>1. \A c \in Char : TnfsChar(c) = IF Upper(c) = Backslash THEN "/" ELSE Upper(c)
    BY UpperFacts DEF TnfsChar, Special
<1>2. Len(p) = Len(q) /\ \A i \in 1 .. Len(p) : Upper(p[i]) = Upper(q[i])
    BY UpperedFacts
<1>3. [i \in DOMAIN p |-> TnfsChar(p[i])] = [i \in DOMAIN q |-> TnfsChar(q[i])]
    BY <1>1, <1>2
<1> QED
    BY <1>3 DEF ToTnfsPath

\* The path of an entry is the directory, a slash and the name.
LEMMA JoinedFacts ==
    ASSUME NEW d \in Seq(Char), NEW n \in Seq(Char)
    PROVE  /\ Joined(d, n) \in Seq(Char)
           /\ Joined(d, <<>>) \in Seq(Char)
           /\ Joined(d, n) = Joined(d, <<>>) \o n
           /\ d # <<>> => Joined(d, n) # <<>>
<1>j. PICK j : j = IF d = Root THEN d ELSE Append(d, "/")
    OBVIOUS
<1>1. j \in Seq(Char) /\ (d # <<>> => j # <<>>)
    BY <1>j, CharFacts, AppendProperties
<1>2. Joined(d, n) = j \o n /\ Joined(d, <<>>) = j
    BY <1>j, <1>1, ConcatEmptySeq DEF Joined
<1>3. j \o n \in Seq(Char) /\ (j # <<>> => j \o n # <<>>)
    BY <1>1, ConcatProperties, ConcatEqualIffEmpty
<1> QED
    BY <1>1, <1>2, <1>3

\* OPEN and FINDFIRST name the same directory as DOS, OPEN the same entry, and
\* what OPEN joins again is what DELETE makes of the whole path.
LEMMA SplitFacts ==
    ASSUME NEW d \in Seq(Char), NEW n \in Seq(NameChar)
    PROVE  /\ FindDir(DosPath(d, n)) = ServerDir(d)
           /\ Split(DosPath(d, n)).dir = ServerDir(d)
           /\ Len(n) <= BaseMax + 1 + ExtMax => Split(DosPath(d, n)).entry = Uppered(n)
           /\ Joined(ServerDir(d), Uppered(n)) = ToTnfsPath(DosPath(d, n))
<1>p. PICK p \in Seq(Char) : p = DosPath(d, n) /\ DirPart(p) = d /\ LastPart(p) = n
    BY PathFacts
<1>1. FindDir(p) = ServerDir(d)
    BY <1>p DEF FindDir, ServerDir, TnfsChar
<1>2. Split(p).dir = ServerDir(d)
    BY <1>1 DEF Split
<1>3. ASSUME Len(n) <= BaseMax + 1 + ExtMax PROVE Split(p).entry = Uppered(n)
  <2>1. Cut(n, BaseMax + ExtMax + 1) = n
    <3>1. BaseMax \in Nat /\ ExtMax \in Nat /\ Len(n) \in Nat
      BY LetterAssumption
    <3>2. (IF Len(n) < BaseMax + ExtMax + 1 THEN Len(n) ELSE BaseMax + ExtMax + 1) = Len(n)
      BY <3>1, <1>3
    <3> QED
      BY <3>2, SubSeqFull DEF Cut
  <2> QED
    BY <2>1, <1>p DEF Split
<1>n. n \in Seq(Char) /\ Uppered(n) \in Seq(Char) /\ Len(Uppered(n)) = Len(n) /\ Len(n) \in Nat
      /\ Len(d) \in Nat
  <2>1. n \in Seq(Char)
    BY CharFacts, SeqMonotonic
  <2> QED
    BY <2>1, UpperedFacts
<1>u. \A i \in 1 .. Len(n) : Uppered(n)[i] = TnfsChar(n[i])
  <2>1. \A i \in 1 .. Len(n) : Uppered(n)[i] = Upper(n[i])
    BY <1>n, UpperedFacts
  <2>2. \A i \in 1 .. Len(n) : n[i] # Backslash
    BY CharFacts
  <2> QED
    BY <2>1, <2>2 DEF TnfsChar
<1>s. PICK s \in Seq(Char) : s = ServerDir(d)
    BY ServerDirFacts
<1>t. PICK t \in Seq(Char) : t = ToTnfsPath(p)
    BY ServerDirFacts
<1>4. /\ Len(t) = Len(p) + 1 /\ t[1] = "/" /\ \A i \in 1 .. Len(p) : t[i + 1] = TnfsChar(p[i])
      /\ Len(s) = Len(d) + 1 /\ s[1] = "/" /\ \A i \in 1 .. Len(d) : s[i + 1] = TnfsChar(d[i])
  <2>1. Len(t) = Len(p) + 1 /\ t[1] = "/" /\ \A i \in 1 .. Len(p) : t[i + 1] = TnfsChar(p[i])
    <3>1. t = ServerDir(p)
      BY <1>t, ServerDirFacts
    <3> QED
      BY <3>1, ServerDirFacts
  <2>2. Len(s) = Len(d) + 1 /\ s[1] = "/" /\ \A i \in 1 .. Len(d) : s[i + 1] = TnfsChar(d[i])
    BY <1>s, ServerDirFacts
  <2> QED
    BY <2>1, <2>2
<1>5. Joined(s, Uppered(n)) = t
  <2>1. CASE d = <<>>
    <3>1. s = Root /\ p = n
      BY <2>1, <1>s, <1>p, PathFacts, ServerDirFacts
    <3>2. Joined(s, Uppered(n)) = s \o Uppered(n)
      BY <3>1 DEF Joined
    <3>3. t = Root \o [i \in DOMAIN n |-> TnfsChar(n[i])]
      BY <3>1, <1>t DEF ToTnfsPath
    <3>4. [i \in DOMAIN n |-> TnfsChar(n[i])] = Uppered(n)
      BY <1>n, <1>u
    <3> QED
      BY <3>1, <3>2, <3>3, <3>4
  <2>2. CASE d # <<>>
    <3>1. s # Root /\ p = Append(d, Backslash) \o n
      BY <2>2, <1>s, <1>p, PathFacts, ServerDirFacts
    <3>2. PICK a \in Seq(Char) : a = Append(s, "/")
      BY CharFacts, AppendProperties
    <3>3. Len(a) = Len(d) + 2 /\ a[Len(d) + 2] = "/" /\ \A i \in 1 .. Len(d) + 1 : a[i] = s[i]
      BY <3>2, <1>4, <1>n, CharFacts
    <3>4. Joined(s, Uppered(n)) = a \o Uppered(n)
      BY <3>1, <3>2 DEF Joined
    <3>5. /\ a \o Uppered(n) \in Seq(Char) /\ Len(a \o Uppered(n)) = Len(d) + 2 + Len(n)
          /\ \A i \in 1 .. Len(d) + 2 + Len(n) : (a \o Uppered(n))[i] =
                IF i <= Len(d) + 2 THEN a[i] ELSE Uppered(n)[i - (Len(d) + 2)]
      <4>1. PICK u \in Seq(Char) : u = Uppered(n)
        BY <1>n
      <4>2. PICK m \in Nat : m = Len(d) + 2 /\ m = Len(a)
        BY <3>3, <1>n
      <4>3. /\ a \o u \in Seq(Char) /\ Len(a \o u) = m + Len(u)
            /\ \A i \in 1 .. m + Len(u) : (a \o u)[i] = IF i <= m THEN a[i] ELSE u[i - m]
        <5>1. /\ a \o u \in Seq(Char) /\ Len(a \o u) = Len(a) + Len(u)
              /\ \A i \in 1 .. Len(a) + Len(u) :
                    (a \o u)[i] = IF i <= Len(a) THEN a[i] ELSE u[i - Len(a)]
          BY ConcatProperties
        <5> QED
          BY <4>2, <5>1
      <4> QED
        BY <4>1, <4>2, <4>3, <1>n
    <3>6. PICK b \in Seq(Char) : b = Append(d, Backslash)
      BY CharFacts, AppendProperties
    <3>7. /\ Len(b) = Len(d) + 1 /\ b[Len(d) + 1] = Backslash
          /\ \A i \in 1 .. Len(d) : b[i] = d[i]
      BY <3>6, <1>n, CharFacts
    <3>8. /\ Len(p) = Len(d) + 1 + Len(n)
          /\ \A i \in 1 .. Len(d) + 1 + Len(n) : p[i] =
                IF i <= Len(d) + 1 THEN b[i] ELSE n[i - (Len(d) + 1)]
      BY <3>1, <3>6, <3>7, <1>n, ConcatProperties
    <3>9. Len(a \o Uppered(n)) = Len(t)
      BY <3>5, <3>8, <1>4, <1>n
    <3>10. ASSUME NEW i \in 1 .. Len(d) + 2 + Len(n) PROVE (a \o Uppered(n))[i] = t[i]
      <4>1. CASE i = 1
        BY <4>1, <3>3, <3>5, <1>4, <1>n
      <4>2. CASE i \in 2 .. Len(d) + 1
        <5>1. PICK j \in 1 .. Len(d) : i = j + 1
          <6>1. i - 1 \in 1 .. Len(d) /\ i = (i - 1) + 1
            BY <4>2, <1>n
          <6> QED
            BY <6>1
        <5>2. a[i] = TnfsChar(d[j]) /\ (a \o Uppered(n))[i] = a[i]
          <6>1. a[i] = TnfsChar(d[j])
            BY <5>1, <3>3, <3>5, <1>4, <1>n
          <6>2. (a \o Uppered(n))[i] = a[i]
            BY <4>2, <3>3, <3>5, <1>4, <1>n
          <6> QED
            BY <6>1, <6>2
        <5>3. p[j] = d[j] /\ t[j + 1] = TnfsChar(p[j])
          BY <3>7, <3>8, <1>4, <1>n
        <5> QED
          BY <5>1, <5>2, <5>3
      <4>3. CASE i = Len(d) + 2
        <5>1. (a \o Uppered(n))[i] = "/"
          BY <4>3, <3>3, <3>5
        <5>2. Len(d) + 1 \in 1 .. Len(p) /\ p[Len(d) + 1] = Backslash /\ i = (Len(d) + 1) + 1
          BY <4>3, <3>7, <3>8, <1>n
        <5>3. t[i] = TnfsChar(Backslash)
          BY <5>2, <1>4
        <5> QED
          BY <5>1, <5>3 DEF TnfsChar
      <4>4. CASE i > Len(d) + 2
        <5>1. PICK j \in 1 .. Len(n) : i = Len(d) + 2 + j
          <6>1. i - (Len(d) + 2) \in 1 .. Len(n) /\ i = Len(d) + 2 + (i - (Len(d) + 2))
            BY <4>4, <1>n
          <6> QED
            BY <6>1
        <5>2. ~(i <= Len(d) + 2) /\ i - (Len(d) + 2) = j
          BY <5>1, <1>n
        <5>3. (a \o Uppered(n))[i] = TnfsChar(n[j])
          BY <5>2, <3>5, <1>u
        <5>4. /\ Len(d) + 1 + j \in 1 .. Len(d) + 1 + Len(n) /\ ~(Len(d) + 1 + j <= Len(d) + 1)
              /\ (Len(d) + 1 + j) - (Len(d) + 1) = j /\ i = (Len(d) + 1 + j) + 1
          BY <5>1, <1>n
        <5>5. p[Len(d) + 1 + j] = n[j]
          BY <5>4, <3>8
        <5>6. t[i] = TnfsChar(n[j])
          BY <5>4, <5>5, <3>8, <1>4
        <5> QED
          BY <5>3, <5>6
      <4> QED
        <5>1. i = 1 \/ i \in 2 .. Len(d) + 1 \/ i = Len(d) + 2 \/ i > Len(d) + 2
          BY <1>n
        <5> QED
          BY <5>1, <4>1, <4>2, <4>3, <4>4
    <3> QED
      BY <3>4, <3>5, <3>9, <3>10, SeqEqual
  <2> QED
    BY <2>1, <2>2
<1> QED
    BY <1>p, <1>1, <1>2, <1>3, <1>5, <1>s, <1>t

-----------------------------------------------------------------------------
(* FCB names.                                                              *)
Fcb == [1 .. BaseMax + ExtMax -> NameChar]

LEMMA FcbFacts ==
    ASSUME NEW n \in Seq(NameChar)
    PROVE  EntryToFcb(n) \in Fcb
<1>1. Base(n) \in Seq(NameChar) /\ Ext(n) \in Seq(NameChar)
    BY PartFacts
<1>2. \A s \in Seq(NameChar) : \A i : Padded(s, i) \in NameChar
    BY CharFacts DEF Padded
<1> QED
    BY <1>1, <1>2 DEF EntryToFcb, Fcb

\* The name that DOS makes of an FCB name fits the buffer of OPEN.
LEMMA DosNameFacts ==
    ASSUME NEW fcb \in Fcb
    PROVE  DosName(fcb) \in Seq(NameChar) /\ Len(DosName(fcb)) <= BaseMax + 1 + ExtMax
<1>0. BaseMax \in Nat /\ ExtMax \in Nat
    BY LetterAssumption
<1>1. \A i \in 1 .. BaseMax + ExtMax : fcb[i] \in NameChar
    BY DEF Fcb
<1>b. PICK b : b = SubSeq(fcb, 1, BaseMax)
    OBVIOUS
<1>e. PICK e : e = SubSeq(fcb, BaseMax + 1, BaseMax + ExtMax)
    OBVIOUS
<1>2. b \in Seq(NameChar) /\ Len(b) = BaseMax
  <2>1. \A i \in 1 .. BaseMax : fcb[i] \in NameChar
    BY <1>0, <1>1
  <2> QED
    BY <2>1, <1>0, <1>b, SubSeqProperties
<1>3. e \in Seq(NameChar) /\ Len(e) = ExtMax
  <2>1. \A i \in BaseMax + 1 .. BaseMax + ExtMax : fcb[i] \in NameChar
    BY <1>0, <1>1
  <2> QED
    BY <2>1, <1>0, <1>e, SubSeqProperties
<1>4. PICK tb \in Seq(NameChar) : tb = Trimmed(b) /\ Len(tb) <= BaseMax /\ Len(tb) \in Nat
    BY <1>2, TrimmedFacts
<1>5. PICK te \in Seq(NameChar) : te = Trimmed(e) /\ Len(te) <= ExtMax /\ Len(te) \in Nat
    BY <1>3, TrimmedFacts
<1>6. DosName(fcb) = IF te = <<>> THEN tb ELSE tb \o <<".">> \o te
    BY <1>b, <1>e, <1>4, <1>5 DEF DosName
<1>7. <<".">> \in Seq(NameChar) /\ Len(<<".">>) = 1
    BY CharFacts
<1>8. tb \o <<".">> \in Seq(NameChar) /\ Len(tb \o <<".">>) = Len(tb) + 1
    BY <1>7, ConcatProperties
<1>9. tb \o <<".">> \o te \in Seq(NameChar)
      /\ Len(tb \o <<".">> \o te) = Len(tb) + 1 + Len(te)
    BY <1>8, ConcatProperties
<1> QED
    BY <1>0, <1>4, <1>5, <1>6, <1>9

-----------------------------------------------------------------------------
(* Directories.                                                            *)
TreeOK ==
    /\ IsFiniteSet(DOMAIN tree) /\ DOMAIN tree \subseteq Seq(Char)
    /\ tree \in [DOMAIN tree -> SUBSET Seq(NameChar)]
    /\ \A d \in DosDir \cup {<<>>} : ServerDir(d) \in DOMAIN tree
    /\ \A x \in DOMAIN tree : /\ IsFiniteSet(tree[x])
                              /\ \A n \in tree[x] : Joined(x, n) \notin DOMAIN tree
                              /\ \A n \in tree[x] \cup {x} : Blank \notin ToSet(n)

LEMMA SubDirsFacts ==
    ASSUME TreeOK, NEW d \in DOMAIN tree
    PROVE  /\ IsFiniteSet(SubDirs(d)) /\ SubDirs(d) \subseteq Seq(NameChar)
           /\ \A n \in SubDirs(d) : Blank \notin ToSet(n) /\ Joined(d, n) \in DOMAIN tree
<1>1. SubDirs(d) \subseteq Seq(NameChar) /\ \A n \in SubDirs(d) : Joined(d, n) \in DOMAIN tree
    BY DEF SubDirs
<1>2. SubDirs(d) \subseteq {Rest(d, x) : x \in DOMAIN tree}
    BY DEF SubDirs
<1>3. IsFiniteSet({Rest(d, x) : x \in DOMAIN tree})
  <2> DEFINE f == [x \in DOMAIN tree |-> Rest(d, x)]
  <2>1. f \in Surjection(DOMAIN tree, {Rest(d, x) : x \in DOMAIN tree})
    BY DEF Surjection
  <2> QED
    BY <2>1, FS_Surjection DEF TreeOK
<1>4. IsFiniteSet(SubDirs(d))
    BY <1>2, <1>3, FS_Subset
<1>5. ASSUME NEW n \in SubDirs(d) PROVE Blank \notin ToSet(n)
  <2>1. PICK x \in DOMAIN tree : n = Rest(d, x)
    BY <1>2
  <2>2. x \in Seq(Char) /\ Blank \notin ToSet(x)
    BY DEF TreeOK
  <2>3. PICK k \in Nat \ {0} : k = Len(Joined(d, <<>>)) + 1
    <3>1. d \in Seq(Char) /\ <<>> \in Seq(Char)
      BY DEF TreeOK
    <3>2. Joined(d, <<>>) \in Seq(Char)
      BY <3>1, JoinedFacts
    <3> QED
      BY <3>2
  <2>4. n = SubSeq(x, k, Len(x)) /\ Len(x) \in Nat
    BY <2>1, <2>2, <2>3 DEF Rest
  <2>5. /\ Len(n) = (IF k <= Len(x) THEN Len(x) - k + 1 ELSE 0)
        /\ \A i \in 1 .. Len(x) - k + 1 : n[i] = x[k + i - 1]
    <3>1. \A i \in k .. Len(x) : x[i] \in Char
      BY <2>2, <2>3
    <3> QED
      BY <3>1, <2>3, <2>4, SubSeqProperties
  <2>6. n \in Seq(NameChar)
    BY <1>1
  <2>7. ASSUME NEW i \in 1 .. Len(n) PROVE n[i] # Blank
    <3>1. i \in 1 .. Len(x) - k + 1 /\ k + i - 1 \in 1 .. Len(x)
      BY <2>3, <2>4, <2>5, <2>6
    <3> QED
      BY <3>1, <2>2, <2>5 DEF ToSet
  <2> QED
    BY <2>6, <2>7 DEF ToSet
<1> QED
    BY <1>1, <1>4, <1>5

LEMMA KeptFacts ==
    ASSUME TreeOK, NEW d \in DOMAIN tree
    PROVE  /\ IsFiniteSet(Kept(d))
           /\ \A n \in Kept(d) : n \in Seq(NameChar) /\ Blank \notin ToSet(n) /\ Is8dot3(n)
                                 /\ Len(n) <= BaseMax + 1 + ExtMax
<1>1. IsFiniteSet(tree[d] \cup SubDirs(d))
    BY SubDirsFacts, FS_Union DEF TreeOK
<1>2. Kept(d) \subseteq tree[d] \cup SubDirs(d)
    BY DEF Kept, Listed
<1>3. IsFiniteSet(Kept(d))
    BY <1>1, <1>2, FS_Subset
<1>4. ASSUME NEW n \in Kept(d)
      PROVE  n \in Seq(NameChar) /\ Blank \notin ToSet(n) /\ Is8dot3(n)
             /\ Len(n) <= BaseMax + 1 + ExtMax
  <2>1. n \in Seq(NameChar) /\ Blank \notin ToSet(n)
    BY <1>2, SubDirsFacts DEF TreeOK
  <2>2. Is8dot3(n)
    BY DEF Kept
  <2>3. Len(Base(n)) \in 1 .. BaseMax /\ Len(Ext(n)) <= ExtMax
    BY <2>2 DEF Is8dot3
  <2>4. /\ Len(Base(n)) = (IF DotAt(n) = 0 THEN Len(n) ELSE DotAt(n) - 1)
        /\ Len(Ext(n)) = (IF DotAt(n) = 0 THEN 0 ELSE Len(n) - DotAt(n))
        /\ DotAt(n) \in 0 .. Len(n) /\ Len(n) \in Nat
    BY <2>1, PartFacts, DotFacts
  <2>5. BaseMax \in Nat /\ ExtMax \in Nat
    BY LetterAssumption
  <2>6. Len(n) <= BaseMax + 1 + ExtMax
    BY <2>3, <2>4, <2>5
  <2> QED
    BY <2>1, <2>2, <2>6
<1> QED
    BY <1>3, <1>4

\* The code keeps, of the names a listing has, the short ones.
LEMMA KeptIsShort ==
    ASSUME TreeOK, NEW x \in DOMAIN tree, NEW n \in Listed(x)
    PROVE  n \in Kept(x) <=> Short(n)
<1>1. n \in Seq(NameChar)
    BY SubDirsFacts DEF TreeOK, Listed
<1>d. PICK d : d = DotAt(n) /\ d \in 0 .. Len(n) /\ (d # 0 => n[d] = ".")
               /\ \A i \in 1 .. Len(n) : n[i] = "." => d # 0 /\ d <= i
    BY <1>1, DotFacts
<1>2. /\ Len(n) \in Nat /\ (n = <<>> <=> Len(n) = 0)
      /\ Len(Base(n)) = (IF d = 0 THEN Len(n) ELSE d - 1) /\ d \in Nat
  <2>1. Len(Base(n)) = (IF d = 0 THEN Len(n) ELSE d - 1)
    BY <1>1, <1>d, PartFacts
  <2>2. Len(n) \in Nat /\ (n = <<>> <=> Len(n) = 0)
    BY <1>1, EmptySeq
  <2> QED
    BY <2>1, <2>2, <1>d
<1>3. Len(Base(n)) \in Nat /\ (Len(Base(n)) >= 1 <=> n # <<>> /\ n[1] # ".")
  <2>1. CASE Len(n) = 0
    BY <2>1, <1>2, <1>d
  <2>2. CASE Len(n) > 0 /\ n[1] = "."
    <3>1. 1 \in 1 .. Len(n)
      BY <2>2, <1>2
    <3>2. d = 1
      BY <3>1, <2>2, <1>2, <1>d
    <3> QED
      BY <3>2, <2>2, <1>2
  <2>3. CASE Len(n) > 0 /\ n[1] # "."
    <3>1. d # 1
      BY <2>3, <1>d
    <3> QED
      BY <3>1, <2>3, <1>2
  <2> QED
    BY <2>1, <2>2, <2>3, <1>2
<1>4. IsDotEntry(n) => n # <<>> /\ n[1] = "."
    BY DEF IsDotEntry
<1>5. BaseMax \in Nat /\ ExtMax \in Nat
    BY LetterAssumption
<1>6. Is8dot3(n) <=> Short(n)
    BY <1>3, <1>5 DEF Is8dot3, Short
<1> QED
    BY <1>4, <1>6 DEF Kept, Short

\* The array: as many of the names kept as it has places for, each once.
LEMMA ShortsKept ==
    ASSUME TreeOK, NEW d \in DOMAIN tree
    PROVE  Shorts(d) = Kept(d)
<1>1. \A n \in Listed(d) : n \in Kept(d) <=> Short(n)
    BY KeptIsShort
<1>2. Kept(d) \subseteq Listed(d)
    BY DEF Kept
<1> QED
    BY <1>1, <1>2 DEF Shorts

Orders(d) == {Cut(order, CacheMax) : order \in SetToSeqs(Kept(d))}

LEMMA OrderFacts ==
    ASSUME TreeOK, NEW d \in DOMAIN tree, NEW s \in Orders(d)
    PROVE  /\ s \in Seq(Seq(NameChar)) /\ Len(s) \in Nat /\ DOMAIN s = 1 .. Len(s)
           /\ Cardinality(Kept(d)) \in Nat
           /\ Len(s) <= CacheMax /\ Len(s) <= Cardinality(Kept(d))
           /\ \A i \in 1 .. Len(s) : s[i] \in Kept(d)
           /\ \A i, j \in 1 .. Len(s) : s[i] = s[j] => i = j
           /\ Cardinality(Kept(d)) <= CacheMax =>
                 \A n \in Kept(d) : \E i \in 1 .. Len(s) : s[i] = n
<1>o. PICK o \in SetToSeqs(Kept(d)) : s = Cut(o, CacheMax)
    BY DEF Orders
<1>m. PICK m \in Nat : m = Cardinality(Kept(d))
    BY KeptFacts, FS_CardinalityType
<1>1. o \in [1 .. m -> Kept(d)] /\ \A i, j \in 1 .. m : i # j => o[i] # o[j]
    BY <1>m DEF SetToSeqs
<1>2. o \in Seq(Seq(NameChar)) /\ Len(o) = m /\ DOMAIN o = 1 .. m
  <2>1. o \in [1 .. m -> Seq(NameChar)]
    BY <1>1, KeptFacts
  <2> QED
    BY <2>1
<1>3. ASSUME NEW n \in Kept(d) PROVE \E i \in 1 .. m : o[i] = n
  <2>1. o \in Injection(1 .. m, Kept(d))
    BY <1>1 DEF Injection, IsInjective
  <2>2. IsFiniteSet(1 .. m) /\ Cardinality(1 .. m) = m
    BY FS_Interval
  <2>3. o \in Surjection(1 .. m, Kept(d))
    BY <2>1, <2>2, <1>m, KeptFacts, FS_Injection
  <2> QED
    BY <2>3 DEF Surjection
<1>k. PICK k \in Nat : k = (IF m < CacheMax THEN m ELSE CacheMax)
    BY LetterAssumption
<1>4. k <= m /\ k <= CacheMax /\ (m <= CacheMax => k = m)
    BY <1>k, LetterAssumption
<1>5. s \in Seq(Seq(NameChar)) /\ Len(s) = k /\ DOMAIN s = 1 .. k /\ \A i \in 1 .. k : s[i] = o[i]
  <2>1. s = SubSeq(o, 1, k)
    BY <1>o, <1>2, <1>k DEF Cut
  <2>2. \A i \in 1 .. k : i \in 1 .. m
    BY <1>4
  <2>3. /\ SubSeq(o, 1, k) \in Seq(Seq(NameChar)) /\ Len(SubSeq(o, 1, k)) = k
        /\ \A i \in 1 .. k : SubSeq(o, 1, k)[i] = o[i]
    <3>1. \A i \in 1 .. k : o[i] \in Seq(NameChar)
      BY <1>1, <2>2, KeptFacts
    <3> QED
      BY <3>1, <1>2, <1>4
  <2> QED
    BY <2>1, <2>3
<1>6. \A i \in 1 .. k : i \in 1 .. m
    BY <1>4
<1> QED
    BY <1>m, <1>1, <1>3, <1>4, <1>5, <1>6

\* An entry of the array is upper case and fits its place.
Entry == [name : {n \in Seq(NameChar) : n = Uppered(n) /\ Len(n) <= BaseMax + 1 + ExtMax},
          attr : SUBSET {"dir", "ro"}]

LEMMA StoredFacts ==
    ASSUME NEW d, NEW n \in Seq(NameChar), Len(n) <= BaseMax + 1 + ExtMax
    PROVE  Stored(d, n) \in Entry /\ Stored(d, n) = [name |-> Uppered(n), attr |-> Attr(d, n)]
<1>1. Cut(n, BaseMax + 1 + ExtMax) = n
  <2>1. BaseMax \in Nat /\ ExtMax \in Nat /\ Len(n) \in Nat
    BY LetterAssumption
  <2>2. (IF Len(n) < BaseMax + 1 + ExtMax THEN Len(n) ELSE BaseMax + 1 + ExtMax) = Len(n)
    BY <2>1
  <2> QED
    BY <2>2, SubSeqFull DEF Cut
<1>u. PICK u \in Seq(NameChar) : u = Uppered(n) /\ u = Uppered(u) /\ Len(u) = Len(n)
  <2>1. n \in Seq(Char)
    BY CharFacts, SeqMonotonic
  <2> QED
    BY <2>1, UpperedFacts
<1>2. Attr(d, n) \in SUBSET {"dir", "ro"}
    BY DEF Attr
<1>3. Stored(d, n) = [name |-> u, attr |-> Attr(d, n)]
    BY <1>1, <1>u DEF Stored
<1>4. u \in {k \in Seq(NameChar) : k = Uppered(k) /\ Len(k) <= BaseMax + 1 + ExtMax}
    BY <1>u
<1> QED
    BY <1>2, <1>3, <1>4, <1>u DEF Entry

\* The array holds the names of a sequence, in upper case and in its order.
Follows(l, s) ==
    l \in Seq(Entry) /\ Len(l) = Len(s) /\ \A i \in 1 .. Len(s) : l[i].name = Uppered(s[i])

LEMMA ListsFacts ==
    ASSUME TreeOK, NEW d \in DOMAIN tree, NEW l \in Lists(d)
    PROVE  \E s \in Orders(d) : /\ Follows(l, s)
                                /\ \A i \in 1 .. Len(s) : l[i].attr = Attr(d, s[i])
<1>1. PICK s \in Orders(d) : l = [i \in DOMAIN s |-> Stored(d, s[i])]
    BY DEF Lists, Orders
<1>n. PICK k \in Nat : k = Len(s) /\ DOMAIN s = 1 .. k /\ \A i \in 1 .. k : s[i] \in Kept(d)
    BY OrderFacts
<1>2. \A i \in 1 .. k : /\ Stored(d, s[i]) \in Entry
                        /\ Stored(d, s[i]) = [name |-> Uppered(s[i]), attr |-> Attr(d, s[i])]
  <2> SUFFICES ASSUME NEW n \in Kept(d)
               PROVE  /\ Stored(d, n) \in Entry
                      /\ Stored(d, n) = [name |-> Uppered(n), attr |-> Attr(d, n)]
    BY <1>n
  <2> QED
    BY KeptFacts, StoredFacts
<1>3. l \in [1 .. k -> Entry] /\ \A i \in 1 .. k : l[i] = Stored(d, s[i])
    BY <1>1, <1>n, <1>2
<1>4. l \in Seq(Entry) /\ Len(l) = k
    BY <1>3
<1>5. ASSUME NEW i \in 1 .. k PROVE l[i].name = Uppered(s[i]) /\ l[i].attr = Attr(d, s[i])
  <2>1. l[i] = [name |-> Uppered(s[i]), attr |-> Attr(d, s[i])]
    BY <1>2, <1>3
  <2> QED
    BY <2>1
<1> QED
    BY <1>n, <1>4, <1>5 DEF Follows

-----------------------------------------------------------------------------
(* The invariant: what was sent for a path, and what it was meant for.     *)
SearchRec == [dir : DosDir \cup {<<>>}, pattern : Pattern \cup {<<>>},
              tmpl : {Template(p) : p \in Pattern} \cup {<<>>}, next : Nat \ {0}]

\* A request names the server's path that stands for the path DOS asked for.
SentOK ==
    /\ opened.sent # None => opened.asked \in Seq(Char) /\ opened.sent = ToTnfsPath(opened.asked)
    /\ removed.sent # None => removed.asked \in Seq(Char) /\ removed.sent = ToTnfsPath(removed.asked)

ListingOK == /\ list \in Seq(Entry) /\ Len(list) <= CacheMax
             /\ shown \in Seq(Fcb) /\ over \in BOOLEAN

IInv == TreeOK /\ search \in SearchRec /\ ListingOK /\ SentOK /\ OpensWhatItShows

LEMMA DirFacts ==
    ASSUME TreeOK, NEW d \in DosDir \cup {<<>>}
    PROVE  d \in Seq(Char) /\ ServerDir(d) \in DOMAIN tree
<1>1. DosDir \subseteq Seq(Char)
    BY PlacesAssumption
<1> QED
    BY <1>1, EmptySeq DEF TreeOK

LEMMA ListsType ==
    ASSUME TreeOK, NEW d \in DOMAIN tree, NEW l \in Lists(d)
    PROVE  /\ l \in Seq(Entry) /\ Len(l) <= CacheMax
           /\ \A i \in 1 .. Len(l) : l[i].attr \subseteq {"dir"}
<1>1. PICK s \in Orders(d) : Follows(l, s) /\ \A i \in 1 .. Len(s) : l[i].attr = Attr(d, s[i])
    BY ListsFacts
<1>2. Len(s) <= CacheMax
    BY OrderFacts
<1> QED
    BY <1>1, <1>2 DEF Follows, Attr

\* The first entry of a name.
LEMMA FirstFacts ==
    ASSUME NEW l \in Seq(Entry), NEW e
    PROVE  /\ First(l, e) \in 0 .. Len(l)
           /\ First(l, e) # 0 => l[First(l, e)].name = e.entry
           /\ \A i \in 1 .. Len(l) : l[i].name = e.entry => First(l, e) # 0
<1> DEFINE T == {i \in 1 .. Len(l) : l[i].name = e.entry}
<1>1. Len(l) \in Nat
    OBVIOUS
<1>2. T \subseteq 1 .. Len(l) /\ \A i \in 1 .. Len(l) : l[i].name = e.entry <=> i \in T
    OBVIOUS
<1>3. First(l, e) = IF T # {} THEN Min(T) ELSE 0
    BY DEF First, SelectInSeq
<1>4. \A i \in T : l[i].name = e.entry
    OBVIOUS
<1> HIDE DEF T
<1>5. CASE T = {}
    BY <1>1, <1>2, <1>3, <1>5
<1>6. CASE T # {}
  <2>1. Min(T) \in T
    BY <1>1, <1>2, <1>6, MinFacts
  <2>2. First(l, e) \in 1 .. Len(l) /\ l[First(l, e)].name = e.entry
    BY <1>2, <1>3, <1>4, <1>6, <2>1
  <2> QED
    BY <1>1, <2>2
<1> QED
    BY <1>5, <1>6

\* fs_resolve() adds a name the server knows, while there is room.
LEMMA ResolvedFacts ==
    ASSUME NEW l \in Seq(Entry), Len(l) <= CacheMax, NEW e, e.entry \in Seq(NameChar),
           e.entry = Uppered(e.entry), Len(e.entry) <= BaseMax + 1 + ExtMax
    PROVE  /\ Resolved(l, e) \in Seq(Entry) /\ Len(Resolved(l, e)) <= CacheMax
           /\ \/ Resolved(l, e) = l /\ ~(First(l, e) = 0 /\ Known(e) /\ Len(l) < CacheMax)
              \/ Resolved(l, e) = Append(l, [name |-> e.entry, attr |-> Attr(e.dir, e.entry)])
<1>v. PICK v \in Entry : /\ v = Stored(e.dir, e.entry)
                         /\ v = [name |-> e.entry, attr |-> Attr(e.dir, e.entry)]
    BY StoredFacts
<1>1. CASE First(l, e) = 0 /\ Known(e) /\ Len(l) < CacheMax
  <2>1. Resolved(l, e) = Append(l, v)
    BY <1>1, <1>v DEF Resolved
  <2>2. Append(l, v) \in Seq(Entry) /\ Len(Append(l, v)) = Len(l) + 1 /\ Len(l) \in Nat
    BY AppendProperties
  <2>3. Len(l) + 1 <= CacheMax
    BY <1>1, <2>2, LetterAssumption
  <2> QED
    BY <2>1, <2>2, <2>3, <1>v
<1>2. CASE ~(First(l, e) = 0 /\ Known(e) /\ Len(l) < CacheMax)
    BY <1>2 DEF Resolved
<1> QED
    BY <1>1, <1>2

\* fs_setattr() gives one entry other attributes.
LEMMA WithAttrFacts ==
    ASSUME NEW l \in Seq(Entry), NEW e, NEW attr \in SUBSET {"dir", "ro"}
    PROVE  /\ WithAttr(l, e, attr) \in Seq(Entry) /\ Len(WithAttr(l, e, attr)) = Len(l)
           /\ \A i \in 1 .. Len(l) : /\ WithAttr(l, e, attr)[i].name = l[i].name
                                     /\ WithAttr(l, e, attr)[i].attr \in {attr, l[i].attr}
<1>k. PICK k \in Nat : k = Len(l) /\ DOMAIN l = 1 .. k
    OBVIOUS
<1>w. PICK w : w = WithAttr(l, e, attr)
    OBVIOUS
<1>f. PICK f : f = First(l, e)
    OBVIOUS
<1>1. w = [i \in 1 .. k |-> IF i = f THEN [l[i] EXCEPT !.attr = attr] ELSE l[i]]
    BY <1>k, <1>w, <1>f DEF WithAttr
<1>2. ASSUME NEW i \in 1 .. k
      PROVE  w[i] \in Entry /\ w[i].name = l[i].name /\ w[i].attr \in {attr, l[i].attr}
  <2>1. l[i] \in Entry
    BY <1>k
  <2>2. w[i] = l[i] \/ w[i] = [l[i] EXCEPT !.attr = attr]
    BY <1>1
  <2>3. /\ [l[i] EXCEPT !.attr = attr] \in Entry
        /\ [l[i] EXCEPT !.attr = attr].name = l[i].name
        /\ [l[i] EXCEPT !.attr = attr].attr = attr
    BY <2>1 DEF Entry
  <2> QED
    BY <2>1, <2>2, <2>3
<1>3. w \in [1 .. k -> Entry]
    BY <1>1, <1>2
<1>4. w \in Seq(Entry) /\ Len(w) = k
    BY <1>3
<1> QED
    BY <1>k, <1>w, <1>2, <1>4

\* A file that can be counted on is found, and nothing else has its name.
LEMMA OpenableFacts ==
    ASSUME TreeOK, NEW x \in DOMAIN tree, NEW n \in Openable(x), NEW l \in Lists(x),
           n \in Seq(NameChar), Len(n) <= BaseMax + 1 + ExtMax, NEW e, e.dir = x, e.entry = n
    PROVE  /\ \E i \in 1 .. Len(Resolved(l, e)) : Resolved(l, e)[i].name = n
           /\ \A i \in 1 .. Len(Resolved(l, e)) :
                 Resolved(l, e)[i].name = n => "dir" \notin Resolved(l, e)[i].attr
<1>1. /\ n \in tree[x] /\ Short(n) /\ n = Uppered(n)
      /\ Cardinality(Kept(x) \cup {n}) <= CacheMax /\ \A m \in SubDirs(x) : Uppered(m) # n
    BY ShortsKept DEF Openable, Faithful
<1>s. PICK s \in Orders(x) : Follows(l, s) /\ \A i \in 1 .. Len(s) : l[i].attr = Attr(x, s[i])
    BY ListsFacts
<1>2. l \in Seq(Entry) /\ Len(l) = Len(s) /\ Len(l) <= CacheMax
      /\ \A i \in 1 .. Len(s) : l[i].name = Uppered(s[i])
    BY <1>s, ListsType DEF Follows
<1>3. \A i \in 1 .. Len(l) : l[i].name = n => "dir" \notin l[i].attr
    BY <1>1, <1>2, <1>s DEF Attr
<1>4. "dir" \notin Attr(x, n) /\ Known(e)
    BY <1>1 DEF Attr, Known, Entries
<1>e. /\ e.entry \in Seq(NameChar) /\ e.entry = Uppered(e.entry)
      /\ Len(e.entry) <= BaseMax + 1 + ExtMax
    BY <1>1
<1>r. PICK r \in Seq(Entry) : r = Resolved(l, e)
    BY <1>2, <1>e, ResolvedFacts
<1>5. \/ r = l /\ ~(First(l, e) = 0 /\ Known(e) /\ Len(l) < CacheMax)
      \/ r = Append(l, [name |-> n, attr |-> Attr(x, n)])
    BY <1>2, <1>e, <1>r, ResolvedFacts
<1>6. CASE r = l /\ ~(First(l, e) = 0 /\ Known(e) /\ Len(l) < CacheMax)
  <2>1. CASE First(l, e) # 0
    <3>f. PICK f : f = First(l, e)
      OBVIOUS
    <3>1. f \in 0 .. Len(l) /\ (f # 0 => l[f].name = e.entry)
      BY <3>f, <1>2, FirstFacts
    <3>2. f \in 1 .. Len(l) /\ l[f].name = n
      BY <3>1, <3>f, <2>1, <1>2
    <3> QED
      BY <3>2, <1>3, <1>6, <1>r
  <2>2. CASE ~(Len(l) < CacheMax)
    <3>c. PICK c \in Nat : c = Cardinality(Kept(x)) /\ Len(s) <= c
      BY OrderFacts
    <3>1. IsFiniteSet(Kept(x))
      BY KeptFacts
    <3>2. n \in Kept(x)
      <4> SUFFICES ASSUME n \notin Kept(x) PROVE FALSE
        OBVIOUS
      <4>1. Cardinality(Kept(x) \cup {n}) = c + 1
        BY <3>1, <3>c, FS_AddElement
      <4>2. c + 1 <= CacheMax /\ Len(s) \in Nat
        BY <4>1, <1>1, OrderFacts
      <4> QED
        BY <4>2, <3>c, <2>2, <1>2, LetterAssumption
    <3>3. c <= CacheMax
      <4>1. Kept(x) \cup {n} = Kept(x)
        BY <3>2
      <4> QED
        BY <4>1, <3>c, <1>1
    <3>4. PICK i \in 1 .. Len(s) : s[i] = n
      BY <3>2, <3>3, <3>c, OrderFacts
    <3>5. i \in 1 .. Len(l) /\ l[i].name = n
      BY <3>4, <1>1, <1>2
    <3> QED
      BY <3>5, <1>3, <1>6, <1>r
  <2> QED
    BY <2>1, <2>2, <1>4, <1>6
<1>7. CASE r = Append(l, [name |-> n, attr |-> Attr(x, n)])
  <2>v. PICK v : v = [name |-> n, attr |-> Attr(x, n)] /\ r = Append(l, v)
    BY <1>7
  <2>1. v.name = n /\ "dir" \notin v.attr
    BY <2>v, <1>4
  <2>2. /\ Len(r) = Len(l) + 1 /\ Len(l) \in Nat /\ r[Len(l) + 1] = v
        /\ \A i \in 1 .. Len(l) : r[i] = l[i]
    BY <2>v, <1>2
  <2>3. \A i \in 1 .. Len(r) : i \in 1 .. Len(l) \/ i = Len(l) + 1
    BY <2>2
  <2>4. Len(l) + 1 \in 1 .. Len(r)
    BY <2>2
  <2> QED
    BY <2>1, <2>2, <2>3, <2>4, <1>3, <1>r
<1> QED
    BY <1>5, <1>6, <1>7

\* fs_enum_next() finds the first entry that matches, or none.
LEMMA AdvanceFacts ==
    ASSUME NEW l \in Seq(Entry), NEW s, s.next \in Nat
    PROVE  LET rest == {i \in 1 .. Len(l) : i >= s.next /\ TmplMatches(s.tmpl, EntryToFcb(l[i].name))}
           IN  \/ rest = {} /\ Advance(l, s) = [next |-> Len(l) + 1, found |-> <<>>]
               \/ \E i \in rest : /\ \A j \in rest : i <= j
                                  /\ Advance(l, s) = [next |-> i + 1, found |-> <<EntryToFcb(l[i].name)>>]
<1> DEFINE rest == {i \in 1 .. Len(l) : i >= s.next /\ TmplMatches(s.tmpl, EntryToFcb(l[i].name))}
<1>1. DOMAIN l = 1 .. Len(l) /\ rest \subseteq Nat
    OBVIOUS
<1>i. PICK i : i = CHOOSE k \in rest : \A j \in rest : k <= j
    OBVIOUS
<1>2. Advance(l, s) = IF rest = {} THEN [next |-> Len(l) + 1, found |-> <<>>]
                                   ELSE [next |-> i + 1, found |-> <<EntryToFcb(l[i].name)>>]
    BY <1>1, <1>i DEF Advance
<1> HIDE DEF rest
<1>3. rest # {} => i \in rest /\ \A j \in rest : i <= j
  <2> SUFFICES ASSUME rest # {} PROVE i \in rest /\ \A j \in rest : i <= j
    OBVIOUS
  <2>1. \E k \in rest : \A j \in rest : k <= j
    BY <1>1, LeastNumber
  <2> QED
    BY <2>1, <1>i
<1>4. CASE rest = {}
    BY <1>2, <1>4 DEF rest
<1>5. CASE rest # {}
  <2>1. i \in rest /\ \A j \in rest : i <= j
    BY <1>3, <1>5
  <2>2. Advance(l, s) = [next |-> i + 1, found |-> <<EntryToFcb(l[i].name)>>]
    BY <1>2, <1>5
  <2> QED
    BY <2>1, <2>2 DEF rest
<1> QED
    BY <1>4, <1>5

LEMMA StepFacts ==
    ASSUME NEW l \in Seq(Entry), NEW s \in SearchRec, NEW before \in Seq(Fcb), Step(l, s, before)
    PROVE  /\ search' \in SearchRec /\ search' = [s EXCEPT !.next = Advance(l, s).next]
           /\ shown' \in Seq(Fcb) /\ shown' = before \o Advance(l, s).found
           /\ over' \in BOOLEAN /\ over' = (Advance(l, s).found = <<>>)
<1>a. PICK a : a = Advance(l, s)
    OBVIOUS
<1>1. /\ search' = [s EXCEPT !.next = a.next] /\ shown' = before \o a.found
      /\ over' = (a.found = <<>>)
    BY <1>a DEF Step
<1>2. a.next \in Nat \ {0} /\ a.found \in Seq(Fcb)
  <2>1. s.next \in Nat /\ Len(l) \in Nat
    BY DEF SearchRec
  <2>2. CASE a = [next |-> Len(l) + 1, found |-> <<>>]
    BY <2>1, <2>2
  <2>3. ASSUME NEW i \in 1 .. Len(l), a = [next |-> i + 1, found |-> <<EntryToFcb(l[i].name)>>]
        PROVE  a.next \in Nat \ {0} /\ a.found \in Seq(Fcb)
    <3>0. l[i] \in Entry
      OBVIOUS
    <3>1. l[i].name \in Seq(NameChar)
      BY <3>0 DEF Entry
    <3>2. EntryToFcb(l[i].name) \in Fcb
      BY <3>1, FcbFacts
    <3> QED
      BY <2>3, <3>2
  <2> QED
    BY <2>1, <2>2, <2>3, <1>a, AdvanceFacts
<1>3. search' \in SearchRec
    BY <1>1, <1>2 DEF SearchRec
<1>4. shown' \in Seq(Fcb)
    BY <1>1, <1>2, ConcatProperties
<1> QED
    BY <1>a, <1>1, <1>3, <1>4

LEMMA SpelledFacts ==
    ASSUME IInv, NEW fcb \in Spelled
    PROVE  fcb \in Fcb
<1>1. CASE fcb \in ToSet(shown)
    BY <1>1 DEF ToSet, IInv, ListingOK
<1>2. ASSUME NEW n \in tree[ServerDir(search.dir)], fcb = EntryToFcb(Uppered(n))
      PROVE  fcb \in Fcb
  <2>1. n \in Seq(NameChar)
    BY DirFacts DEF IInv, TreeOK, SearchRec
  <2>2. Uppered(n) \in Seq(NameChar)
    BY <2>1, CharFacts, SeqMonotonic, UpperedFacts
  <2> QED
    BY <2>2, <1>2, FcbFacts
<1> QED
    BY <1>1, <1>2 DEF Spelled

-----------------------------------------------------------------------------
(* Every step keeps it.                                                    *)
LEMMA InitOK == Init => IInv
<1> SUFFICES ASSUME Init PROVE IInv
    OBVIOUS
<1>1. TreeOK
  <2>1. PICK t \in Trees : tree = t
    BY DEF Init
  <2> QED
    BY <2>1, PlacesAssumption, BlankAssumption DEF TreeOK
<1>2. search \in SearchRec
    BY DEF Init, SearchRec
<1>3. ListingOK
    BY EmptySeq, LetterAssumption DEF Init, ListingOK
<1>4. SentOK /\ OpensWhatItShows
    BY DEF Init, SentOK, OpensWhatItShows, NotOpened, NotRemoved
<1> QED
    BY <1>1, <1>2, <1>3, <1>4 DEF IInv

LEMMA FindFirstStep ==
    ASSUME IInv, NEW d \in DosDir, NEW p \in Pattern, FindFirst(d, p)
    PROVE  IInv'
<1>1. UNCHANGED tree /\ opened' = NotOpened /\ removed' = NotRemoved
    BY DEF FindFirst
<1>2. PICK l \in Lists(FindDir(DosPath(d, p))) :
          /\ list' = l
          /\ Step(l, [dir |-> d, pattern |-> p, tmpl |-> Template(p), next |-> 1], <<>>)
    BY DEF FindFirst
<1>3. d \in Seq(Char) /\ p \in Seq(NameChar) /\ ServerDir(d) \in DOMAIN tree /\ TreeOK
    BY DirFacts, PlacesAssumption DEF IInv
<1>4. l \in Seq(Entry) /\ Len(l) <= CacheMax
    BY <1>2, <1>3, SplitFacts, ListsType
<1>5. [dir |-> d, pattern |-> p, tmpl |-> Template(p), next |-> 1] \in SearchRec
    BY DEF SearchRec
<1>6. search' \in SearchRec /\ ListingOK'
    BY <1>2, <1>4, <1>5, StepFacts, EmptySeq DEF ListingOK
<1>7. TreeOK'
    BY <1>1, <1>3 DEF TreeOK
<1>8. (SentOK /\ OpensWhatItShows)'
    BY <1>1 DEF SentOK, OpensWhatItShows, NotOpened, NotRemoved
<1> QED
    BY <1>6, <1>7, <1>8 DEF IInv

LEMMA FindNextStep ==
    ASSUME IInv, FindNext
    PROVE  IInv'
<1>1. UNCHANGED <<tree, list, opened, removed>> /\ Step(list, search, shown)
    BY DEF FindNext
<1>2. search' \in SearchRec /\ ListingOK'
    BY <1>1, StepFacts DEF IInv, ListingOK
<1>3. TreeOK'
    BY <1>1 DEF IInv, TreeOK
<1>4. (SentOK /\ OpensWhatItShows)'
    BY <1>1 DEF IInv, SentOK, OpensWhatItShows
<1> QED
    BY <1>2, <1>3, <1>4 DEF IInv

LEMMA OpenStep ==
    ASSUME IInv, NEW fcb \in Spelled, NEW writes \in BOOLEAN,
           NEW given \in {<<>>, <<{}>>, <<{"ro"}>>}, Open(fcb, writes, given)
    PROVE  IInv'
<1>d. PICK d : d = search.dir /\ d \in DosDir \cup {<<>>}
    BY DEF IInv, SearchRec
<1>n. PICK n \in Seq(NameChar) : n = DosName(fcb) /\ Len(n) <= BaseMax + 1 + ExtMax
    BY SpelledFacts, DosNameFacts
<1>p. PICK p : p = DosPath(d, n)
    OBVIOUS
<1>x. PICK x : x = ServerDir(d)
    OBVIOUS
<1>e. PICK e : e = Split(p)
    OBVIOUS
<1>1. d \in Seq(Char) /\ x \in DOMAIN tree /\ TreeOK /\ p \in Seq(Char) /\ n \in Seq(Char)
    BY <1>d, <1>p, <1>x, DirFacts, PathFacts, CharFacts, SeqMonotonic DEF IInv
<1>u. PICK u \in Seq(NameChar) : u = Uppered(n) /\ u = Uppered(u) /\ Len(u) = Len(n)
    BY <1>1, UpperedFacts
<1>2. e.dir = x /\ e.entry = u /\ Joined(x, u) = ToTnfsPath(p)
    BY <1>1, <1>e, <1>n, <1>p, <1>u, <1>x, SplitFacts
<1>3. UNCHANGED <<tree, search, shown, over, removed>>
    BY DEF Open
<1>4. PICK k \in Lists(x) :
          list' = IF given = <<>> THEN Resolved(k, e) ELSE WithAttr(Resolved(k, e), e, given[1])
    BY <1>2, <1>d, <1>e, <1>n, <1>p DEF Open
<1>5. opened' = [asked |-> p, sent |-> PathSent(list', e, writes),
                 meant |-> IF writes /\ given = <<{"ro"}>> THEN {} ELSE Meant(d, fcb)]
    BY <1>d, <1>e, <1>n, <1>p DEF Open
<1>6. k \in Seq(Entry) /\ Len(k) <= CacheMax /\ \A i \in 1 .. Len(k) : k[i].attr \subseteq {"dir"}
    BY <1>1, ListsType
<1>0. /\ e.entry \in Seq(NameChar) /\ e.entry = Uppered(e.entry)
      /\ Len(e.entry) <= BaseMax + 1 + ExtMax
    BY <1>2, <1>n, <1>u
<1>r. PICK r \in Seq(Entry) : r = Resolved(k, e) /\ Len(r) <= CacheMax
    BY <1>0, <1>6, ResolvedFacts
<1>7. \A i \in 1 .. Len(r) : r[i].attr \subseteq {"dir"}
  <2>1. r = k \/ r = Append(k, [name |-> u, attr |-> Attr(x, u)])
    BY <1>0, <1>2, <1>6, <1>r, ResolvedFacts
  <2>2. CASE r = k
    BY <2>2, <1>6
  <2>3. CASE r = Append(k, [name |-> u, attr |-> Attr(x, u)])
    <3>v. PICK v : v = [name |-> u, attr |-> Attr(x, u)] /\ r = Append(k, v)
      BY <2>3
    <3>1. v.attr \subseteq {"dir"}
      BY <3>v DEF Attr
    <3>2. \A i \in 1 .. Len(r) : r[i] = v \/ (i \in 1 .. Len(k) /\ r[i] = k[i])
      BY <3>v, <1>6
    <3> QED
      BY <3>1, <3>2, <1>6
  <2> QED
    BY <2>1, <2>2, <2>3
<1>l. PICK l \in Seq(Entry) :
          /\ l = list' /\ Len(l) = Len(r)
          /\ \A i \in 1 .. Len(r) : /\ l[i].name = r[i].name
                                    /\ "dir" \in l[i].attr => "dir" \in r[i].attr
                                    /\ "ro" \in l[i].attr => given = <<{"ro"}>>
  <2>1. CASE given = <<>>
    <3>1. list' = r
      BY <2>1, <1>4, <1>r
    <3> QED
      BY <3>1, <1>7
  <2>2. ASSUME NEW a \in {{}, {"ro"}}, given = <<a>>
        PROVE  /\ list' \in Seq(Entry) /\ Len(list') = Len(r)
               /\ \A i \in 1 .. Len(r) : /\ list'[i].name = r[i].name
                                         /\ "dir" \in list'[i].attr => "dir" \in r[i].attr
                                         /\ "ro" \in list'[i].attr => given = <<{"ro"}>>
    <3>1. list' = WithAttr(r, e, a)
      BY <2>2, <1>4, <1>r
    <3>2. /\ WithAttr(r, e, a) \in Seq(Entry) /\ Len(WithAttr(r, e, a)) = Len(r)
          /\ \A i \in 1 .. Len(r) : /\ WithAttr(r, e, a)[i].name = r[i].name
                                    /\ WithAttr(r, e, a)[i].attr \in {a, r[i].attr}
      BY WithAttrFacts
    <3>w. PICK w \in Seq(Entry) :
              /\ w = list' /\ Len(w) = Len(r)
              /\ \A i \in 1 .. Len(r) : w[i].name = r[i].name /\ w[i].attr \in {a, r[i].attr}
      BY <3>1, <3>2
    <3>3. "dir" \notin a /\ ("ro" \in a => a = {"ro"})
      OBVIOUS
    <3>4. ASSUME NEW i \in 1 .. Len(r)
          PROVE  /\ "dir" \in w[i].attr => "dir" \in r[i].attr
                 /\ "ro" \in w[i].attr => given = <<{"ro"}>>
      <4>1. CASE w[i].attr = a
        BY <4>1, <3>3, <2>2
      <4>2. CASE w[i].attr = r[i].attr
        BY <4>2, <1>7
      <4> QED
        BY <4>1, <4>2, <3>w
    <3> QED
      BY <3>w, <3>4
  <2> QED
    BY <2>1, <2>2
<1>f. PICK f : f = First(l, e)
    OBVIOUS
<1>8. f \in 0 .. Len(l) /\ (f # 0 => l[f].name = u)
      /\ \A i \in 1 .. Len(l) : l[i].name = u => f # 0
    BY <1>2, <1>f, FirstFacts
<1>9. PathSent(l, e, writes) =
          IF f = 0 \/ "dir" \in l[f].attr \/ (writes /\ "ro" \in l[f].attr) THEN None
          ELSE Joined(x, l[f].name)
    BY <1>2, <1>f DEF PathSent
<1>10. ListingOK'
    BY <1>3, <1>l, <1>r DEF IInv, ListingOK
<1>11. opened'.sent \in {None, ToTnfsPath(p)} /\ opened'.asked = p
    BY <1>2, <1>5, <1>8, <1>9, <1>l
<1>12. SentOK'
    BY <1>1, <1>3, <1>11 DEF IInv, SentOK
<1>13. OpensWhatItShows'
  <2> SUFFICES ASSUME opened'.meant # {} PROVE opened'.sent \in opened'.meant
    BY DEF OpensWhatItShows
  <2>1. Meant(d, fcb) = {Joined(x, m) : m \in {j \in Openable(x) : j = n}}
    BY <1>n, <1>x DEF Meant
  <2>2. opened'.meant = Meant(d, fcb) /\ ~(writes /\ given = <<{"ro"}>>)
    BY <1>5
  <2>3. n \in Openable(x)
    BY <2>1, <2>2
  <2>4. u = n
    BY <2>3, <1>u DEF Openable, Faithful
  <2>5. /\ \E i \in 1 .. Len(r) : r[i].name = n
        /\ \A i \in 1 .. Len(r) : r[i].name = n => "dir" \notin r[i].attr
    <3>1. e.dir = x /\ e.entry = n
      BY <2>4, <1>2
    <3>2. TreeOK /\ x \in DOMAIN tree /\ k \in Lists(x)
      BY <1>1, <1>4
    <3>3. n \in Seq(NameChar) /\ Len(n) <= BaseMax + 1 + ExtMax
      BY <1>n
    <3>4. /\ \E i \in 1 .. Len(Resolved(k, e)) : Resolved(k, e)[i].name = n
          /\ \A i \in 1 .. Len(Resolved(k, e)) :
                Resolved(k, e)[i].name = n => "dir" \notin Resolved(k, e)[i].attr
      BY <3>1, <3>2, <3>3, <2>3, OpenableFacts
    <3> QED
      BY <3>4, <1>r, Zenon
  <2>6. f \in 1 .. Len(r) /\ l[f].name = n
    BY <2>4, <2>5, <1>8, <1>l
  <2>7. "dir" \notin l[f].attr /\ ~(writes /\ "ro" \in l[f].attr)
    BY <2>2, <2>5, <2>6, <1>l
  <2>8. PathSent(l, e, writes) = Joined(x, n)
    BY <2>6, <2>7, <1>9
  <2> QED
    BY <2>1, <2>2, <2>3, <2>8, <1>5, <1>l
<1>14. TreeOK' /\ search' \in SearchRec
    BY <1>3 DEF IInv, TreeOK
<1> QED
    BY <1>10, <1>12, <1>13, <1>14 DEF IInv

LEMMA DeleteStep ==
    ASSUME IInv, NEW fcb \in Spelled, NEW d \in DosDir, Delete(d, fcb)
    PROVE  IInv'
<1>p. PICK p : p = DosPath(d, DosName(fcb))
    OBVIOUS
<1>1. p \in Seq(Char)
    BY <1>p, DirFacts, SpelledFacts, DosNameFacts, PathFacts DEF IInv
<1>2. /\ removed' = [asked |-> p, sent |-> ToTnfsPath(p)]
      /\ tree' = [x \in DOMAIN tree |-> {n \in tree[x] : Joined(x, n) # ToTnfsPath(p)}]
      /\ UNCHANGED <<list, search, shown, over, opened>>
    BY <1>p DEF Delete
<1>3. DOMAIN tree' = DOMAIN tree /\ \A x \in DOMAIN tree : tree'[x] \subseteq tree[x]
    BY <1>2
<1>4. TreeOK'
  <2>1. \A x \in DOMAIN tree : IsFiniteSet(tree'[x])
    BY <1>3, FS_Subset DEF IInv, TreeOK
  <2>2. tree' \in [DOMAIN tree' -> SUBSET Seq(NameChar)]
    BY <1>2, <1>3 DEF IInv, TreeOK
  <2> QED
    BY <1>3, <2>1, <2>2 DEF IInv, TreeOK
<1>5. SentOK' /\ OpensWhatItShows'
    BY <1>1, <1>2 DEF IInv, SentOK, OpensWhatItShows
<1>6. ListingOK' /\ search' \in SearchRec
    BY <1>2 DEF IInv, ListingOK
<1> QED
    BY <1>4, <1>5, <1>6 DEF IInv

LEMMA NextOK == IInv /\ [Next]_vars => IInv'
<1> SUFFICES ASSUME IInv, [Next]_vars PROVE IInv'
    OBVIOUS
<1>1. CASE UNCHANGED vars
    BY <1>1 DEF vars, IInv, TreeOK, ListingOK, SentOK, OpensWhatItShows
<1> QED
    BY <1>1, FindFirstStep, FindNextStep, OpenStep, DeleteStep DEF Next

-----------------------------------------------------------------------------
(* Names there and back.                                                   *)

\* Upper-casing leaves the parts of a name where they are.
LEMMA UpperParts ==
    ASSUME NEW n \in Seq(NameChar)
    PROVE  /\ DotAt(Uppered(n)) = DotAt(n)
           /\ Base(Uppered(n)) = Uppered(Base(n)) /\ Ext(Uppered(n)) = Uppered(Ext(n))
           /\ Blank \notin ToSet(n) => Blank \notin ToSet(Uppered(n))
<1>0. n \in Seq(Char)
    BY CharFacts, SeqMonotonic
<1>u. PICK u \in Seq(NameChar) : u = Uppered(n) /\ u \in Seq(Char) /\ Len(u) = Len(n)
                                 /\ \A i \in 1 .. Len(n) : u[i] = Upper(n[i])
    BY <1>0, UpperedFacts
<1>1. \A i \in 1 .. Len(n) : /\ u[i] = "." <=> n[i] = "."
                             /\ u[i] = Blank <=> n[i] = Blank
  <2>1. \A i \in 1 .. Len(n) : n[i] \in Char
    BY <1>0
  <2>2. "." \in Special /\ Blank \in Special
    BY DEF Special
  <2> QED
    BY <2>1, <2>2, <1>u, UpperFacts
<1>d. PICK d : d = DotAt(n) /\ d \in 0 .. Len(n) /\ (d # 0 => n[d] = ".")
               /\ \A i \in 1 .. Len(n) : n[i] = "." => d # 0 /\ d <= i
    BY DotFacts
<1>e. PICK e : e = DotAt(u) /\ e \in 0 .. Len(n) /\ (e # 0 => u[e] = ".")
               /\ \A i \in 1 .. Len(n) : u[i] = "." => e # 0 /\ e <= i
    BY <1>u, DotFacts
<1>2. Len(n) \in Nat
    OBVIOUS
<1>3. d = e
  <2>1. CASE d = 0 /\ e = 0
    BY <2>1
  <2>2. CASE d # 0
    <3>1. d \in 1 .. Len(n) /\ u[d] = "."
      BY <2>2, <1>1, <1>2, <1>d
    <3>2. e # 0 /\ e <= d
      BY <3>1, <1>e
    <3>3. e \in 1 .. Len(n) /\ n[e] = "."
      BY <3>2, <1>1, <1>2, <1>e
    <3> QED
      BY <3>1, <3>2, <3>3, <1>d
  <2>3. CASE e # 0
    <3>1. e \in 1 .. Len(n) /\ n[e] = "."
      BY <2>3, <1>1, <1>2, <1>e
    <3>2. d # 0
      BY <3>1, <1>d
    <3> QED
      BY <2>2, <3>2
  <2> QED
    BY <2>1, <2>2, <2>3
<1>4. /\ Base(n) \in Seq(NameChar) /\ Ext(n) \in Seq(NameChar)
      /\ Base(u) \in Seq(NameChar) /\ Ext(u) \in Seq(NameChar)
      /\ Len(Base(u)) = Len(Base(n)) /\ Len(Ext(u)) = Len(Ext(n))
      /\ \A i \in 1 .. Len(Base(n)) : Base(n)[i] = n[i] /\ Base(u)[i] = u[i]
      /\ \A i \in 1 .. Len(Ext(n)) : Ext(n)[i] = n[d + i] /\ Ext(u)[i] = u[d + i]
      /\ Len(Base(n)) <= Len(n) /\ (Len(Ext(n)) > 0 => Len(Ext(n)) + d = Len(n))
  <2>1. /\ Base(n) \in Seq(NameChar) /\ Ext(n) \in Seq(NameChar)
        /\ Len(Base(n)) = (IF d = 0 THEN Len(n) ELSE d - 1)
        /\ Len(Ext(n)) = (IF d = 0 THEN 0 ELSE Len(n) - d)
        /\ \A i \in 1 .. Len(Base(n)) : Base(n)[i] = n[i]
        /\ \A i \in 1 .. Len(Ext(n)) : Ext(n)[i] = n[d + i]
    BY <1>d, PartFacts
  <2>2. /\ Base(u) \in Seq(NameChar) /\ Ext(u) \in Seq(NameChar)
        /\ Len(Base(u)) = (IF d = 0 THEN Len(n) ELSE d - 1)
        /\ Len(Ext(u)) = (IF d = 0 THEN 0 ELSE Len(n) - d)
        /\ \A i \in 1 .. Len(Base(u)) : Base(u)[i] = u[i]
        /\ \A i \in 1 .. Len(Ext(u)) : Ext(u)[i] = u[d + i]
    <3>1. DotAt(u) = d /\ Len(u) = Len(n)
      BY <1>3, <1>e, <1>u
    <3> QED
      BY <3>1, PartFacts
  <2> QED
    BY <2>1, <2>2, <1>2, <1>d
<1>b. PICK b \in Seq(NameChar) : b = Base(n) /\ b \in Seq(Char)
    BY <1>4, CharFacts, SeqMonotonic
<1>x. PICK x \in Seq(NameChar) : x = Ext(n) /\ x \in Seq(Char)
    BY <1>4, CharFacts, SeqMonotonic
<1>5. Base(u) = Uppered(b)
  <2>1. Uppered(b) \in Seq(NameChar) /\ Len(Uppered(b)) = Len(b)
        /\ \A i \in 1 .. Len(b) : Uppered(b)[i] = Upper(b[i])
    BY <1>b, UpperedFacts
  <2>2. \A i \in 1 .. Len(b) : Base(u)[i] = Upper(b[i])
    BY <1>2, <1>4, <1>b, <1>u
  <2>3. Base(u) \in Seq(NameChar) /\ Len(Base(u)) = Len(b)
    BY <1>4, <1>b
  <2>4. \A i \in 1 .. Len(b) : Base(u)[i] = Uppered(b)[i]
    BY <2>1, <2>2
  <2> QED
    BY <2>1, <2>3, <2>4, SeqEqual
<1>6. Ext(u) = Uppered(x)
  <2>1. Uppered(x) \in Seq(NameChar) /\ Len(Uppered(x)) = Len(x)
        /\ \A i \in 1 .. Len(x) : Uppered(x)[i] = Upper(x[i])
    BY <1>x, UpperedFacts
  <2>2. \A i \in 1 .. Len(x) : Ext(u)[i] = Upper(x[i])
    <3> SUFFICES ASSUME NEW i \in 1 .. Len(x) PROVE Ext(u)[i] = Upper(x[i])
      OBVIOUS
    <3>1. d + i \in 1 .. Len(n)
      BY <1>2, <1>4, <1>d, <1>x
    <3> QED
      BY <3>1, <1>4, <1>u, <1>x
  <2>3. Ext(u) \in Seq(NameChar) /\ Len(Ext(u)) = Len(x)
    BY <1>4, <1>x
  <2>4. \A i \in 1 .. Len(x) : Ext(u)[i] = Uppered(x)[i]
    BY <2>1, <2>2
  <2> QED
    BY <2>1, <2>3, <2>4, SeqEqual
<1>7. Blank \notin ToSet(n) => Blank \notin ToSet(u)
    BY <1>1, <1>u DEF ToSet
<1> QED
    BY <1>3, <1>5, <1>6, <1>7, <1>b, <1>d, <1>e, <1>u, <1>x

\* Trimming takes off what padding put on.
LEMMA PadTrim ==
    ASSUME NEW s \in Seq(NameChar), NEW b \in Seq(NameChar), Len(s) <= Len(b),
           Blank \notin ToSet(s), \A i \in 1 .. Len(b) : b[i] = Padded(s, i)
    PROVE  Trimmed(b) = s
<1>t. PICK t \in Seq(NameChar) :
          /\ t = Trimmed(b) /\ Len(t) <= Len(b) /\ Len(t) \in Nat
          /\ \A i \in 1 .. Len(t) : t[i] = b[i]
          /\ \A i \in 1 .. Len(b) : b[i] # Blank => i <= Len(t)
          /\ Len(t) > 0 => b[Len(t)] # Blank
    BY TrimmedFacts
<1>1. /\ \A i \in 1 .. Len(s) : b[i] = s[i] /\ s[i] # Blank
      /\ \A i \in 1 .. Len(b) : i > Len(s) => b[i] = Blank
      /\ Len(s) \in Nat /\ Len(b) \in Nat
  <2>1. DOMAIN s = 1 .. Len(s) /\ Len(s) \in Nat /\ Len(b) \in Nat
    OBVIOUS
  <2>2. \A i \in 1 .. Len(s) : b[i] = s[i]
    BY <2>1 DEF Padded
  <2>3. \A i \in 1 .. Len(s) : s[i] # Blank
    BY <2>1 DEF ToSet
  <2>4. \A i \in 1 .. Len(b) : i > Len(s) => b[i] = Blank
    BY <2>1 DEF Padded
  <2> QED
    BY <2>1, <2>2, <2>3, <2>4
<1>2. Len(t) <= Len(s)
    BY <1>t, <1>1
<1>3. Len(s) <= Len(t)
  <2>1. CASE Len(s) = 0
    BY <2>1, <1>t
  <2>2. CASE Len(s) > 0
    <3>1. Len(s) \in 1 .. Len(s) /\ Len(s) \in 1 .. Len(b)
      BY <2>2, <1>1
    <3> QED
      BY <3>1, <1>1, <1>t
  <2> QED
    BY <2>1, <2>2, <1>1
<1>4. Len(t) = Len(s) /\ \A i \in 1 .. Len(s) : t[i] = s[i]
    BY <1>1, <1>2, <1>3, <1>t
<1> QED
    BY <1>4, <1>t, SeqEqual

\* DOS reads in an FCB the name that was written into it.
LEMMA ThereAndBack ==
    ASSUME NEW n \in Seq(NameChar), Blank \notin ToSet(n),
           Len(Base(n)) <= BaseMax, Len(Ext(n)) <= ExtMax
    PROVE  DosName(EntryToFcb(n)) = IF Ext(n) = <<>> THEN Base(n) ELSE n
<1>0. BaseMax \in Nat /\ ExtMax \in Nat
    BY LetterAssumption
<1>f. PICK f : f = EntryToFcb(n)
    OBVIOUS
<1>1. /\ \A i \in 1 .. BaseMax : f[i] = Padded(Base(n), i)
      /\ \A i \in 1 .. ExtMax : f[BaseMax + i] = Padded(Ext(n), i)
  <2>1. \A i \in 1 .. BaseMax + ExtMax :
           f[i] = IF i <= BaseMax THEN Padded(Base(n), i) ELSE Padded(Ext(n), i - BaseMax)
    BY <1>f DEF EntryToFcb
  <2>2. \A i \in 1 .. BaseMax : i \in 1 .. BaseMax + ExtMax /\ i <= BaseMax
    BY <1>0
  <2>3. \A i \in 1 .. ExtMax : /\ BaseMax + i \in 1 .. BaseMax + ExtMax
                               /\ ~(BaseMax + i <= BaseMax) /\ (BaseMax + i) - BaseMax = i
    BY <1>0
  <2> QED
    BY <2>1, <2>2, <2>3
<1>2. f \in Fcb /\ \A i \in 1 .. BaseMax + ExtMax : f[i] \in NameChar
    BY <1>f, FcbFacts DEF Fcb
<1>d. PICK d : d = DotAt(n) /\ d \in 0 .. Len(n) /\ (d # 0 => n[d] = ".")
    BY DotFacts
<1>3. /\ Base(n) \in Seq(NameChar) /\ Ext(n) \in Seq(NameChar) /\ Len(n) \in Nat
      /\ Len(Base(n)) = (IF d = 0 THEN Len(n) ELSE d - 1)
      /\ Len(Ext(n)) = (IF d = 0 THEN 0 ELSE Len(n) - d)
      /\ \A i \in 1 .. Len(Base(n)) : Base(n)[i] = n[i]
      /\ \A i \in 1 .. Len(Ext(n)) : Ext(n)[i] = n[d + i]
    BY <1>d, PartFacts
<1>4. Blank \notin ToSet(Base(n)) /\ Blank \notin ToSet(Ext(n))
    BY NoBlankInParts
<1>b. PICK b \in Seq(NameChar) : /\ b = SubSeq(f, 1, BaseMax) /\ Len(b) = BaseMax
                                 /\ \A i \in 1 .. BaseMax : b[i] = f[i]
  <2>1. \A i \in 1 .. BaseMax : f[i] \in NameChar
    BY <1>0, <1>2
  <2>2. /\ SubSeq(f, 1, BaseMax) \in Seq(NameChar) /\ Len(SubSeq(f, 1, BaseMax)) = BaseMax
        /\ \A i \in 1 .. BaseMax : SubSeq(f, 1, BaseMax)[i] = f[i]
    BY <2>1, <1>0, SubSeqProperties
  <2> QED
    BY <2>2
<1>e. PICK e \in Seq(NameChar) :
          /\ e = SubSeq(f, BaseMax + 1, BaseMax + ExtMax) /\ Len(e) = ExtMax
          /\ \A i \in 1 .. ExtMax : e[i] = f[BaseMax + i]
  <2> DEFINE q == SubSeq(f, BaseMax + 1, BaseMax + ExtMax)
  <2>1. \A i \in BaseMax + 1 .. BaseMax + ExtMax : f[i] \in NameChar
    BY <1>0, <1>2
  <2>l. PICK lo \in Int : lo = BaseMax + 1
    BY <1>0
  <2>h. PICK hi \in Int : hi = BaseMax + ExtMax
    BY <1>0
  <2>2. /\ lo <= hi /\ hi - lo + 1 = ExtMax
        /\ \A i \in 1 .. ExtMax : lo + i - 1 = BaseMax + i
    BY <2>l, <2>h, LetterAssumption
  <2>3. /\ SubSeq(f, lo, hi) \in Seq(NameChar)
        /\ Len(SubSeq(f, lo, hi)) = IF lo <= hi THEN hi - lo + 1 ELSE 0
        /\ \A i \in 1 .. hi - lo + 1 : SubSeq(f, lo, hi)[i] = f[lo + i - 1]
    BY <2>1, <2>l, <2>h, SubSeqProperties
  <2>4. q = SubSeq(f, lo, hi)
    BY <2>l, <2>h
  <2> HIDE DEF q
  <2>5. q \in Seq(NameChar) /\ Len(q) = ExtMax /\ \A i \in 1 .. ExtMax : q[i] = f[BaseMax + i]
    BY <2>2, <2>3, <2>4
  <2> QED
    BY <2>5 DEF q
<1>5. Trimmed(b) = Base(n)
    BY <1>1, <1>3, <1>4, <1>b, PadTrim
<1>6. Trimmed(e) = Ext(n)
    BY <1>1, <1>3, <1>4, <1>e, PadTrim
<1>7. DosName(f) = IF Ext(n) = <<>> THEN Base(n) ELSE Base(n) \o <<".">> \o Ext(n)
    BY <1>5, <1>6, <1>b, <1>e DEF DosName
<1>8. ASSUME Ext(n) # <<>> PROVE Base(n) \o <<".">> \o Ext(n) = n
  <2>1. d # 0
    BY <1>3, <1>8, EmptySeq
  <2>2. d \in 1 .. Len(n) /\ d \in Nat /\ Len(n) \in Nat
    BY <2>1, <1>3, <1>d
  <2>3. Base(n) = SubSeq(n, 1, d - 1) /\ Ext(n) = SubSeq(n, d + 1, Len(n))
    BY <2>1, <1>d DEF Base, Ext
  <2>4. SubSeq(n, d, d) = <<".">>
    <3>1. n[d] = "." /\ \A i \in d .. d : n[i] \in NameChar
      BY <2>1, <2>2, <1>d
    <3>2. /\ SubSeq(n, d, d) \in Seq(NameChar) /\ Len(SubSeq(n, d, d)) = d - d + 1
          /\ \A i \in 1 .. d - d + 1 : SubSeq(n, d, d)[i] = n[d + i - 1]
      BY <3>1, <2>2, SubSeqProperties
    <3>3. d - d + 1 = 1 /\ d + 1 - 1 = d
      BY <2>2
    <3>4. Len(SubSeq(n, d, d)) = 1 /\ SubSeq(n, d, d)[1] = "."
      BY <3>1, <3>2, <3>3
    <3>5. PICK o \in Seq(NameChar) : o = <<".">> /\ Len(o) = 1 /\ o[1] = "."
      <4>1. <<".">> \in Seq(NameChar) /\ Len(<<".">>) = 1 /\ <<".">>[1] = "."
        BY CharFacts
      <4> QED
        BY <4>1
    <3>6. PICK q \in Seq(NameChar) : q = SubSeq(n, d, d) /\ Len(q) = 1 /\ q[1] = "."
      BY <3>2, <3>4
    <3>7. Len(q) = Len(o) /\ \A i \in 1 .. Len(q) : q[i] = o[i]
      BY <3>5, <3>6
    <3>8. q = o
      BY <3>7, SeqEqual
    <3> QED
      BY <3>5, <3>6, <3>8
  <2>5. SubSeq(n, 1, d - 1) \o SubSeq(n, d, d) = SubSeq(n, 1, d)
    <3>1. /\ 1 \in 1 .. Len(n) + 1 /\ d - 1 \in 1 - 1 .. Len(n) /\ d \in d - 1 .. Len(n)
          /\ (d - 1) + 1 = d
      BY <2>2
    <3>2. SubSeq(n, 1, d - 1) \o SubSeq(n, (d - 1) + 1, d) = SubSeq(n, 1, d)
      BY <3>1, ConcatAdjacentSubSeq
    <3> QED
      BY <3>1, <3>2
  <2>6. SubSeq(n, 1, d) \o SubSeq(n, d + 1, Len(n)) = SubSeq(n, 1, Len(n))
    <3>1. 1 \in 1 .. Len(n) + 1 /\ d \in 1 - 1 .. Len(n) /\ Len(n) \in d .. Len(n)
      BY <2>2
    <3> QED
      BY <3>1, ConcatAdjacentSubSeq
  <2> QED
    BY <2>3, <2>4, <2>5, <2>6, SubSeqFull
<1> QED
    BY <1>7, <1>8, <1>f

-----------------------------------------------------------------------------
(* What is shown and what is meant.                                        *)

\* A template takes a part of a name where the pattern covers it.
LEMMA PartCovers ==
    ASSUME NEW W \in Nat, NEW p \in Seq(NameChar), NEW s \in Seq(NameChar),
           Len(p) <= W, Len(s) <= W, Blank \notin ToSet(p), Blank \notin ToSet(s)
    PROVE  (\A i \in 1 .. W : Filled(p, i) \in {"?", Padded(s, i)}) <=> Covers(p, s)
<1> DEFINE T == {i \in 1 .. Len(p) : p[i] = "*"}
<1>t. PICK t : t = IF T # {} THEN Min(T) ELSE 0
    OBVIOUS
<1>f. PICK f : f = IF t = 0 THEN Len(p) ELSE t - 1
    OBVIOUS
<1>1. /\ \A i : Filled(p, i) = IF t # 0 /\ i >= t THEN "?" ELSE Padded(p, i)
      /\ Covers(p, s) <=> /\ t # 0 \/ Len(s) <= Len(p)
                          /\ \A i \in 1 .. f : p[i] = "?" \/ (i \in DOMAIN s /\ p[i] = s[i])
  <2>1. SelectInSeq(p, LAMBDA c : c = "*") = t
    BY <1>t DEF SelectInSeq
  <2> HIDE DEF T
  <2> QED
    BY <2>1, <1>f DEF Filled, Covers
<1>2. t \in 0 .. Len(p) /\ Len(p) \in Nat /\ Len(s) \in Nat
  <2>1. T \subseteq 1 .. Len(p) /\ Len(p) \in Nat /\ Len(s) \in Nat
    OBVIOUS
  <2> HIDE DEF T
  <2>2. CASE T # {}
    <3>1. Min(T) \in T
      BY <2>1, <2>2, MinFacts
    <3>2. t \in T
      BY <3>1, <2>2, <1>t
    <3> QED
      BY <3>2, <2>1
  <2>3. CASE T = {}
    BY <2>1, <2>3, <1>t
  <2> QED
    BY <2>2, <2>3
<1> HIDE DEF T
<1>3. f \in 0 .. Len(p) /\ f <= W /\ (t # 0 => f = t - 1) /\ (t = 0 => f = Len(p))
    BY <1>2, <1>f
<1>4. /\ \A i \in 1 .. Len(p) : p[i] # Blank /\ Padded(p, i) = p[i]
      /\ \A i \in 1 .. Len(s) : s[i] # Blank /\ Padded(s, i) = s[i]
      /\ \A i \in 1 .. W : i > Len(p) => Padded(p, i) = Blank
      /\ \A i \in 1 .. W : i > Len(s) => Padded(s, i) = Blank
      /\ DOMAIN s = 1 .. Len(s)
  <2>1. DOMAIN p = 1 .. Len(p) /\ DOMAIN s = 1 .. Len(s)
    OBVIOUS
  <2>2. /\ \A i \in 1 .. Len(p) : p[i] # Blank
        /\ \A i \in 1 .. Len(s) : s[i] # Blank
    BY <2>1 DEF ToSet
  <2>3. \A i \in 1 .. Len(p) : Padded(p, i) = p[i]
    BY <2>1 DEF Padded
  <2>4. \A i \in 1 .. Len(s) : Padded(s, i) = s[i]
    BY <2>1 DEF Padded
  <2>5. \A i \in 1 .. W : i > Len(p) => Padded(p, i) = Blank
    BY <2>1, <1>2 DEF Padded
  <2>6. \A i \in 1 .. W : i > Len(s) => Padded(s, i) = Blank
    BY <2>1, <1>2 DEF Padded
  <2> QED
    BY <2>1, <2>2, <2>3, <2>4, <2>5, <2>6
<1>5. ASSUME \A i \in 1 .. W : Filled(p, i) \in {"?", Padded(s, i)}
      PROVE  Covers(p, s)
  <2>1. ASSUME t = 0, Len(s) > Len(p) PROVE FALSE
    <3>1. Len(s) \in 1 .. W /\ Len(s) \in 1 .. Len(s)
      BY <2>1, <1>2
    <3>2. Filled(p, Len(s)) = Blank
      BY <3>1, <2>1, <1>1, <1>4
    <3>3. Padded(s, Len(s)) # Blank
      BY <3>1, <1>4
    <3> QED
      BY <3>1, <3>2, <3>3, <1>5, CharFacts
  <2>2. ASSUME NEW i \in 1 .. f PROVE p[i] = "?" \/ (i \in DOMAIN s /\ p[i] = s[i])
    <3>1. i \in 1 .. W /\ i \in 1 .. Len(p) /\ ~(t # 0 /\ i >= t)
      BY <1>2, <1>3
    <3>2. p[i] = "?" \/ p[i] = Padded(s, i)
      BY <3>1, <1>1, <1>4, <1>5
    <3>3. p[i] # Blank
      BY <3>1, <1>4
    <3>4. CASE i > Len(s)
      BY <3>1, <3>2, <3>3, <3>4, <1>4
    <3>5. CASE i \in 1 .. Len(s)
      BY <3>2, <3>5, <1>4
    <3> QED
      BY <3>1, <3>4, <3>5, <1>2
  <2>3. t # 0 \/ Len(s) <= Len(p)
    BY <2>1, <1>2
  <2> QED
    BY <2>2, <2>3, <1>1
<1>6. ASSUME Covers(p, s), NEW i \in 1 .. W
      PROVE  Filled(p, i) \in {"?", Padded(s, i)}
  <2>1. CASE t # 0 /\ i >= t
    BY <2>1, <1>1
  <2>2. CASE i \in 1 .. f
    <3>1. ~(t # 0 /\ i >= t) /\ i \in 1 .. Len(p)
      BY <2>2, <1>2, <1>3
    <3>2. Filled(p, i) = p[i]
      BY <3>1, <1>1, <1>4
    <3>3. p[i] = "?" \/ (i \in 1 .. Len(s) /\ p[i] = s[i])
      BY <2>2, <1>1, <1>4, <1>6
    <3> QED
      BY <3>2, <3>3, <1>4
  <2>3. CASE t = 0 /\ i > f
    <3>1. i > Len(p) /\ i > Len(s)
      BY <2>3, <1>1, <1>2, <1>3, <1>6
    <3> QED
      BY <3>1, <2>3, <1>1, <1>4
  <2> QED
    BY <2>1, <2>2, <2>3, <1>2, <1>3
<1> QED
    BY <1>5, <1>6

\* And a whole name, which has no more of a part than an FCB has place for.
LEMMA GlobMatches ==
    ASSUME NEW p \in Pattern, NEW n \in Seq(NameChar), Blank \notin ToSet(n),
           Len(Base(n)) <= BaseMax, Len(Ext(n)) <= ExtMax
    PROVE  TmplMatches(Template(p), EntryToFcb(n)) <=> Globs(p, n)
<1>0. BaseMax \in Nat /\ ExtMax \in Nat
    BY LetterAssumption
<1>1. /\ p \in Seq(NameChar) /\ Blank \notin ToSet(p)
      /\ Len(Base(p)) <= BaseMax /\ Len(Ext(p)) <= ExtMax
    BY PlacesAssumption, BlankAssumption
<1>2. ASSUME NEW s \in Seq(NameChar), Blank \notin ToSet(s)
      PROVE  /\ Base(s) \in Seq(NameChar) /\ Ext(s) \in Seq(NameChar)
             /\ Blank \notin ToSet(Base(s)) /\ Blank \notin ToSet(Ext(s))
  BY <1>2, PartFacts, NoBlankInParts
<1>b. (\A i \in 1 .. BaseMax : Filled(Base(p), i) \in {"?", Padded(Base(n), i)})
          <=> Covers(Base(p), Base(n))
    BY <1>0, <1>1, <1>2, PartCovers
<1>e. (\A i \in 1 .. ExtMax : Filled(Ext(p), i) \in {"?", Padded(Ext(n), i)})
          <=> Covers(Ext(p), Ext(n))
    BY <1>0, <1>1, <1>2, PartCovers
<1>t. PICK t : t = Template(p)
    OBVIOUS
<1>f. PICK f : f = EntryToFcb(n)
    OBVIOUS
<1>3. /\ DOMAIN t = 1 .. BaseMax + ExtMax
      /\ \A i \in 1 .. BaseMax : t[i] = Filled(Base(p), i) /\ f[i] = Padded(Base(n), i)
      /\ \A i \in 1 .. ExtMax : t[BaseMax + i] = Filled(Ext(p), i)
                                /\ f[BaseMax + i] = Padded(Ext(n), i)
  <2>1. /\ \A i \in 1 .. BaseMax : i \in 1 .. BaseMax + ExtMax /\ i <= BaseMax
        /\ \A i \in 1 .. ExtMax : /\ BaseMax + i \in 1 .. BaseMax + ExtMax
                                  /\ ~(BaseMax + i <= BaseMax) /\ (BaseMax + i) - BaseMax = i
    BY <1>0
  <2>2. \A i \in 1 .. BaseMax + ExtMax :
           t[i] = IF i <= BaseMax THEN Filled(Base(p), i) ELSE Filled(Ext(p), i - BaseMax)
    BY <1>t DEF Template
  <2>3. \A i \in 1 .. BaseMax + ExtMax :
           f[i] = IF i <= BaseMax THEN Padded(Base(n), i) ELSE Padded(Ext(n), i - BaseMax)
    BY <1>f DEF EntryToFcb
  <2>4. DOMAIN t = 1 .. BaseMax + ExtMax
    BY <1>t DEF Template
  <2> QED
    BY <2>1, <2>2, <2>3, <2>4
<1>4. TmplMatches(t, f) <=> /\ \A i \in 1 .. BaseMax : t[i] \in {"?", f[i]}
                            /\ \A i \in 1 .. ExtMax : t[BaseMax + i] \in {"?", f[BaseMax + i]}
  <2>1. TmplMatches(t, f) <=> \A i \in 1 .. BaseMax + ExtMax : t[i] \in {"?", f[i]}
    BY <1>3 DEF TmplMatches
  <2>2. \A i \in 1 .. BaseMax + ExtMax :
            i \in 1 .. BaseMax \/ (i - BaseMax \in 1 .. ExtMax /\ i = BaseMax + (i - BaseMax))
    BY <1>0
  <2>3. /\ \A i \in 1 .. BaseMax : i \in 1 .. BaseMax + ExtMax
        /\ \A i \in 1 .. ExtMax : BaseMax + i \in 1 .. BaseMax + ExtMax
    BY <1>0
  <2>4. ASSUME \A i \in 1 .. BaseMax + ExtMax : t[i] \in {"?", f[i]}
        PROVE  /\ \A i \in 1 .. BaseMax : t[i] \in {"?", f[i]}
               /\ \A i \in 1 .. ExtMax : t[BaseMax + i] \in {"?", f[BaseMax + i]}
    BY <2>3, <2>4
  <2>5. ASSUME \A i \in 1 .. BaseMax : t[i] \in {"?", f[i]},
               \A i \in 1 .. ExtMax : t[BaseMax + i] \in {"?", f[BaseMax + i]},
               NEW i \in 1 .. BaseMax + ExtMax
        PROVE  t[i] \in {"?", f[i]}
    BY <2>2, <2>5
  <2> QED
    BY <2>1, <2>4, <2>5
<1>5. TmplMatches(t, f) <=> Covers(Base(p), Base(n)) /\ Covers(Ext(p), Ext(n))
    BY <1>3, <1>4, <1>b, <1>e
<1> QED
    BY <1>5, <1>f, <1>t DEF Globs

-----------------------------------------------------------------------------
(* A search: what was shown so far is what matches below the cursor, in some *)
(* order of the directory.                                                 *)
Matching(s, t, k) == {i \in 1 .. Len(s) : i < k /\ TmplMatches(t, EntryToFcb(Uppered(s[i])))}

ShownUpTo(s, t, k, seen) ==
    /\ Len(seen) = Cardinality(Matching(s, t, k))
    /\ ToSet(seen) = {EntryToFcb(Uppered(s[i])) : i \in Matching(s, t, k)}

Traced(s) ==
    /\ search.next \in 1 .. Len(s) + 1
    /\ ShownUpTo(s, search.tmpl, search.next, shown)
    /\ ~over => Follows(list, s)
    /\ over => search.next = Len(s) + 1

Progress ==
    search.tmpl # <<>> /\ removed.sent = None =>
        /\ search.pattern \in Pattern /\ search.tmpl = Template(search.pattern)
        /\ \E s \in Orders(ServerDir(search.dir)) : Traced(s)

LEMMA MatchingFinite ==
    ASSUME NEW s, NEW t, NEW k, Len(s) \in Nat
    PROVE  IsFiniteSet(Matching(s, t, k)) /\ Cardinality(Matching(s, t, k)) \in Nat
<1>1. IsFiniteSet(1 .. Len(s)) /\ Matching(s, t, k) \subseteq 1 .. Len(s)
    BY FS_Interval DEF Matching
<1> QED
    BY <1>1, FS_Subset, FS_CardinalityType

LEMMA StepTraced ==
    ASSUME TreeOK, NEW x \in DOMAIN tree, NEW s \in Orders(x), NEW q \in SearchRec,
           NEW l, Follows(l, s), NEW before \in Seq(Fcb), q.next \in 1 .. Len(s) + 1,
           ShownUpTo(s, q.tmpl, q.next, before), Step(l, q, before)
    PROVE  /\ search'.dir = q.dir /\ search'.pattern = q.pattern /\ search'.tmpl = q.tmpl
           /\ search'.next \in 1 .. Len(s) + 1
           /\ ShownUpTo(s, q.tmpl, search'.next, shown')
           /\ over' => search'.next = Len(s) + 1
<1>1. /\ s \in Seq(Seq(NameChar)) /\ Len(s) \in Nat /\ DOMAIN s = 1 .. Len(s)
      /\ \A i \in 1 .. Len(s) : s[i] \in Kept(x)
    BY OrderFacts
<1>l. l \in Seq(Entry) /\ Len(l) = Len(s) /\ \A i \in 1 .. Len(s) : l[i].name = Uppered(s[i])
    BY DEF Follows
<1>t. PICK t : t = q.tmpl
    OBVIOUS
<1>k. PICK k \in 1 .. Len(s) + 1 : k = q.next
    OBVIOUS
<1>a. PICK a : a = Advance(l, q)
    OBVIOUS
<1>2. /\ search' = [q EXCEPT !.next = a.next] /\ shown' = before \o a.found
      /\ over' = (a.found = <<>>)
  BY <1>l, <1>a, StepFacts
<1>3. search'.dir = q.dir /\ search'.pattern = q.pattern /\ search'.tmpl = q.tmpl
      /\ search'.next = a.next
    BY <1>2 DEF SearchRec
<1> DEFINE fcb(i) == EntryToFcb(Uppered(s[i]))
<1> DEFINE rest == {i \in 1 .. Len(s) : i >= k /\ TmplMatches(t, fcb(i))}
<1>4. \/ rest = {} /\ a = [next |-> Len(s) + 1, found |-> <<>>]
      \/ \E i \in rest : (\A j \in rest : i <= j) /\ a = [next |-> i + 1, found |-> <<fcb(i)>>]
  <2>1. q.next \in Nat
    BY DEF SearchRec
  <2> DEFINE r == {i \in 1 .. Len(l) : i >= q.next /\ TmplMatches(q.tmpl, EntryToFcb(l[i].name))}
  <2>2. \/ r = {} /\ Advance(l, q) = [next |-> Len(l) + 1, found |-> <<>>]
        \/ \E i \in r : /\ \A j \in r : i <= j
                        /\ Advance(l, q) = [next |-> i + 1, found |-> <<EntryToFcb(l[i].name)>>]
    BY <2>1, <1>l, AdvanceFacts
  <2>3. r = rest
    BY <1>k, <1>l, <1>t
  <2>4. \A i \in r : EntryToFcb(l[i].name) = fcb(i)
    BY <1>l
  <2> QED
    BY <2>2, <2>3, <2>4, <1>a, <1>l
<1> DEFINE M(n) == Matching(s, t, n)
<1>5. Len(before) = Cardinality(M(k)) /\ ToSet(before) = {fcb(i) : i \in M(k)}
    BY <1>k, <1>t DEF ShownUpTo
<1>6. CASE rest = {} /\ a = [next |-> Len(s) + 1, found |-> <<>>]
  <2>1. M(Len(s) + 1) = M(k)
    BY <1>1, <1>6 DEF Matching
  <2>2. shown' = before /\ search'.next = Len(s) + 1
    BY <1>2, <1>3, <1>6, ConcatEmptySeq
  <2>3. ShownUpTo(s, t, Len(s) + 1, before)
    BY <1>5, <2>1 DEF ShownUpTo
  <2>4. Len(s) + 1 \in 1 .. Len(s) + 1
    BY <1>1
  <2> QED
    BY <1>3, <1>t, <2>2, <2>3, <2>4
<1>7. ASSUME NEW i \in rest, \A j \in rest : i <= j, a = [next |-> i + 1, found |-> <<fcb(i)>>]
      PROVE  /\ search'.next \in 1 .. Len(s) + 1 /\ ~over'
             /\ ShownUpTo(s, t, search'.next, shown')
  <2>n. PICK n \in 1 .. Len(s) + 1 : n = i + 1 /\ n = search'.next
    <3>1. i + 1 \in 1 .. Len(s) + 1
      BY <1>1
    <3> QED
      BY <3>1, <1>3, <1>7
  <2>1. M(n) = M(k) \cup {i} /\ i \notin M(k)
    BY <1>1, <1>7, <2>n DEF Matching
  <2>2. Cardinality(M(n)) = Cardinality(M(k)) + 1 /\ Cardinality(M(k)) \in Nat
    <3>1. IsFiniteSet(M(k)) /\ Cardinality(M(k)) \in Nat
      BY <1>1, MatchingFinite
    <3> QED
      BY <3>1, <2>1, FS_AddElement
  <2>f. PICK f \in Fcb : f = fcb(i)
    <3>0. l[i] \in Entry
      BY <1>l
    <3>1. l[i].name \in Seq(NameChar) /\ l[i].name = Uppered(s[i])
      BY <3>0, <1>l DEF Entry
    <3> QED
      BY <3>1, FcbFacts
  <2>3. shown' = before \o <<f>> /\ ~over'
    BY <1>2, <1>7, <2>f
  <2>4. /\ before \o <<f>> \in Seq(Fcb) /\ Len(before \o <<f>>) = Len(before) + 1
        /\ ToSet(before \o <<f>>) = ToSet(before) \cup {f}
    <3>1. before \o <<f>> = Append(before, f)
      BY AppendIsConcat
    <3>2. /\ Append(before, f) \in Seq(Fcb) /\ Len(Append(before, f)) = Len(before) + 1
          /\ \A j \in 1 .. Len(before) : Append(before, f)[j] = before[j]
          /\ Append(before, f)[Len(before) + 1] = f /\ Len(before) \in Nat
      BY AppendProperties
    <3>b. PICK b \in Seq(Fcb) : b = Append(before, f)
      BY <3>2
    <3>m. PICK m \in Nat : m = Len(before)
      BY <3>2
    <3>3. /\ ToSet(before) = {before[j] : j \in 1 .. m}
          /\ ToSet(b) = {b[j] : j \in 1 .. m + 1}
      <4>1. DOMAIN before = 1 .. m /\ DOMAIN b = 1 .. m + 1
        BY <3>2, <3>b, <3>m
      <4> QED
        BY <4>1 DEF ToSet
    <3>4. {b[j] : j \in 1 .. m + 1} = {before[j] : j \in 1 .. m} \cup {f}
      <4>1. 1 .. m + 1 = (1 .. m) \cup {m + 1}
        OBVIOUS
      <4>2. b[m + 1] = f /\ \A j \in 1 .. m : b[j] = before[j]
        BY <3>2, <3>b, <3>m
      <4>3. {b[j] : j \in 1 .. m} = {before[j] : j \in 1 .. m}
        BY <4>2
      <4>4. {b[j] : j \in 1 .. m + 1} = {b[j] : j \in 1 .. m} \cup {b[m + 1]}
        BY <4>1
      <4> QED
        BY <4>2, <4>3, <4>4
    <3> QED
      BY <3>1, <3>2, <3>3, <3>4, <3>b
  <2>5. {fcb(j) : j \in M(n)} = {fcb(j) : j \in M(k)} \cup {f}
    BY <2>1, <2>f
  <2>6. ShownUpTo(s, t, n, shown')
    <3>1. Len(before \o <<f>>) = Cardinality(M(n))
      BY <1>5, <2>2, <2>4
    <3>2. ToSet(before \o <<f>>) = {fcb(j) : j \in M(n)}
      BY <1>5, <2>4, <2>5
    <3> QED
      BY <3>1, <3>2, <2>3 DEF ShownUpTo
  <2> QED
    BY <2>3, <2>6, <2>n
<1> QED
    BY <1>3, <1>4, <1>6, <1>7, <1>t

LEMMA ProgressStep == IInv /\ Progress /\ [Next]_vars => Progress'
<1> SUFFICES ASSUME IInv, Progress, [Next]_vars PROVE Progress'
    OBVIOUS
<1>1. ASSUME NEW d \in DosDir, NEW p \in Pattern, FindFirst(d, p) PROVE Progress'
  <2>x. PICK x \in DOMAIN tree : x = ServerDir(d) /\ d \in Seq(Char) /\ p \in Seq(NameChar)
    BY DirFacts, PlacesAssumption DEF IInv
  <2>1. TreeOK /\ UNCHANGED tree
    BY <1>1 DEF IInv, FindFirst
  <2>q. PICK q \in SearchRec : q = [dir |-> d, pattern |-> p, tmpl |-> Template(p), next |-> 1]
    <3>1. [dir |-> d, pattern |-> p, tmpl |-> Template(p), next |-> 1] \in SearchRec
      BY DEF SearchRec
    <3> QED
      BY <3>1
  <2>2. PICK l \in Lists(x) : list' = l /\ Step(l, q, <<>>)
    BY <1>1, <2>x, <2>q, SplitFacts DEF FindFirst
  <2>3. PICK s \in Orders(x) : Follows(l, s)
    BY <2>1, <2>2, ListsFacts
  <2>4. Len(s) \in Nat
    BY <2>1, OrderFacts
  <2>5. ShownUpTo(s, q.tmpl, q.next, <<>>)
    <3>1. Matching(s, q.tmpl, 1) = {}
      BY <2>4 DEF Matching
    <3>2. Cardinality({}) = 0 /\ Len(<<>>) = 0 /\ ToSet(<<>>) = {}
      BY FS_EmptySet DEF ToSet
    <3>3. q.next = 1
      BY <2>q
    <3> QED
      BY <3>1, <3>2, <3>3 DEF ShownUpTo
  <2>6. /\ search'.dir = d /\ search'.pattern = p /\ search'.tmpl = Template(p)
        /\ search'.next \in 1 .. Len(s) + 1
        /\ ShownUpTo(s, Template(p), search'.next, shown')
        /\ over' => search'.next = Len(s) + 1
    <3>1. q.next \in 1 .. Len(s) + 1 /\ <<>> \in Seq(Fcb)
      BY <2>4, <2>q
    <3> QED
      BY <3>1, <2>1, <2>2, <2>3, <2>5, <2>q, StepTraced
  <2>7. Traced(s)'
    BY <2>2, <2>3, <2>6 DEF Traced
  <2>8. Orders(x)' = Orders(x)
    BY <2>1 DEF Orders, Kept, Listed, SubDirs
  <2>9. s \in Orders(ServerDir(search.dir))'
    BY <2>6, <2>8, <2>x
  <2> QED
    BY <2>6, <2>7, <2>9 DEF Progress
<1>2. CASE FindNext
  <2> SUFFICES ASSUME search'.tmpl # <<>>, removed'.sent = None
               PROVE  /\ search'.pattern \in Pattern /\ search'.tmpl = Template(search'.pattern)
                      /\ \E s \in Orders(ServerDir(search.dir))' : Traced(s)'
    BY DEF Progress
  <2>1. ~over /\ UNCHANGED <<tree, list, opened, removed>> /\ Step(list, search, shown)
    BY <1>2 DEF FindNext
  <2>2. TreeOK /\ search \in SearchRec /\ shown \in Seq(Fcb) /\ list \in Seq(Entry)
    BY DEF IInv, ListingOK
  <2>3. search' = [search EXCEPT !.next = Advance(list, search).next]
    BY <2>1, <2>2, StepFacts
  <2>4. search'.dir = search.dir /\ search'.pattern = search.pattern /\ search'.tmpl = search.tmpl
    BY <2>2, <2>3 DEF SearchRec
  <2>5. /\ search.pattern \in Pattern /\ search.tmpl = Template(search.pattern)
        /\ \E s \in Orders(ServerDir(search.dir)) : Traced(s)
    BY <2>1, <2>4 DEF Progress
  <2>x. PICK x \in DOMAIN tree : x = ServerDir(search.dir)
    BY <2>2, DirFacts DEF SearchRec
  <2>6. PICK s \in Orders(x) : Traced(s)
    BY <2>5, <2>x
  <2>7. Follows(list, s) /\ search.next \in 1 .. Len(s) + 1
        /\ ShownUpTo(s, search.tmpl, search.next, shown)
    BY <2>1, <2>6 DEF Traced
  <2>8. /\ search'.next \in 1 .. Len(s) + 1
        /\ ShownUpTo(s, search.tmpl, search'.next, shown')
        /\ over' => search'.next = Len(s) + 1
    BY <2>1, <2>2, <2>7, StepTraced
  <2>9. Traced(s)'
    BY <2>1, <2>4, <2>7, <2>8 DEF Traced
  <2>10. Orders(x)' = Orders(x)
    BY <2>1 DEF Orders, Kept, Listed, SubDirs
  <2> QED
    BY <2>4, <2>5, <2>9, <2>10, <2>x
<1>3. ASSUME UNCHANGED <<tree, search, shown, over, removed>>, over \/ UNCHANGED list
      PROVE  Progress'
  <2>1. \A x : Orders(x)' = Orders(x)
    BY <1>3 DEF Orders, Kept, Listed, SubDirs
  <2>2. \A s : Traced(s) => Traced(s)'
    BY <1>3 DEF Traced
  <2>x. PICK x : x = ServerDir(search.dir) /\ x = ServerDir(search.dir)'
    BY <1>3
  <2> QED
    BY <1>3, <2>1, <2>2, <2>x DEF Progress
<1>4. ASSUME NEW fcb \in Spelled, NEW writes \in BOOLEAN,
             NEW given \in {<<>>, <<{}>>, <<{"ro"}>>}, Open(fcb, writes, given)
      PROVE  Progress'
    BY <1>3, <1>4 DEF Open
<1>5. ASSUME NEW fcb \in Spelled, NEW d \in DosDir, Delete(d, fcb) PROVE Progress'
  <2>1. removed'.sent # None
    <3>1. removed'.sent = ToTnfsPath(DosPath(d, DosName(fcb)))
      BY <1>5 DEF Delete
    <3>2. DosPath(d, DosName(fcb)) \in Seq(Char)
      BY DirFacts, SpelledFacts, DosNameFacts, PathFacts DEF IInv
    <3>3. Len(ToTnfsPath(DosPath(d, DosName(fcb)))) # 0
      <4>p. PICK p \in Seq(Char) : p = DosPath(d, DosName(fcb))
        BY <3>2
      <4>1. Len(ToTnfsPath(p)) = Len(p) + 1 /\ Len(p) \in Nat
        BY ServerDirFacts
      <4> QED
        BY <4>1, <4>p
    <3> QED
      BY <3>1, <3>3 DEF None
  <2> QED
    BY <2>1 DEF Progress
<1>6. CASE UNCHANGED vars
    BY <1>3, <1>6 DEF vars
<1> QED
    BY <1>1, <1>2, <1>4, <1>5, <1>6 DEF Next

LEMMA ProgressInit == Init => Progress
  BY DEF Init, Progress

\* What has been shown at the end of a search is what was to be shown.
LEMMA ProgressShows == IInv /\ Progress => ShowsMatches
<1> DEFINE names == {DosName(shown[i]) : i \in DOMAIN shown}
<1> SUFFICES ASSUME IInv, Progress, over, search.tmpl # <<>>, removed.sent = None
             PROVE  LET wanted == Wanted(search.dir, search.pattern) IN
                    /\ Len(shown) <= Cardinality(wanted)
                    /\ names \subseteq {Display(n) : n \in wanted}
                    /\ Cardinality(Shorts(ServerDir(search.dir))) <= CacheMax =>
                          /\ Len(shown) = Cardinality(wanted)
                          /\ names = {Display(n) : n \in wanted}
    BY DEF ShowsMatches
<1>p. PICK p \in Pattern : p = search.pattern /\ search.tmpl = Template(p)
    BY DEF Progress
<1>x. PICK x \in DOMAIN tree : x = ServerDir(search.dir)
    BY DirFacts DEF IInv, SearchRec
<1>s. PICK s \in Orders(x) : Traced(s)
    BY <1>x DEF Progress
<1>0. TreeOK /\ shown \in Seq(Fcb)
    BY DEF IInv, ListingOK
<1>1. /\ Len(s) \in Nat /\ \A i \in 1 .. Len(s) : s[i] \in Kept(x)
      /\ \A i, j \in 1 .. Len(s) : s[i] = s[j] => i = j
      /\ Cardinality(Kept(x)) <= CacheMax => \A n \in Kept(x) : \E i \in 1 .. Len(s) : s[i] = n
    BY <1>0, OrderFacts
<1>2. ASSUME NEW n \in Kept(x)
      PROVE  /\ DosName(EntryToFcb(Uppered(n))) = Display(n)
             /\ TmplMatches(Template(p), EntryToFcb(Uppered(n))) <=> Globs(p, Uppered(n))
  <2>1. /\ n \in Seq(NameChar) /\ n \in Seq(Char) /\ Blank \notin ToSet(n) /\ Is8dot3(n)
        /\ Base(n) \in Seq(NameChar) /\ Ext(n) \in Seq(NameChar)
    BY <1>0, KeptFacts, PartFacts, CharFacts, SeqMonotonic
  <2>2. Len(Base(n)) <= BaseMax /\ Len(Ext(n)) <= ExtMax
    BY <2>1, LetterAssumption DEF Is8dot3
  <2>u. PICK u \in Seq(NameChar) : u = Uppered(n)
    BY <2>1, UpperedFacts
  <2>3. /\ Blank \notin ToSet(u) /\ Base(u) = Uppered(Base(n)) /\ Ext(u) = Uppered(Ext(n))
    BY <2>1, <2>u, UpperParts
  <2>b. PICK b \in Seq(Char) : b = Base(n)
    BY <2>1, CharFacts, SeqMonotonic
  <2>e. PICK e \in Seq(Char) : e = Ext(n)
    BY <2>1, CharFacts, SeqMonotonic
  <2>4. /\ Len(Uppered(b)) = Len(b) /\ Len(Uppered(e)) = Len(e)
        /\ Uppered(e) = <<>> <=> e = <<>>
    <3>1. Len(Uppered(b)) = Len(b) /\ Len(Uppered(e)) = Len(e) /\ Uppered(e) \in Seq(Char)
      BY UpperedFacts
    <3>o. PICK o \in Seq(Char) : o = Uppered(e) /\ Len(o) = Len(e)
      BY <3>1
    <3>2. o = <<>> <=> e = <<>>
      BY <3>o
    <3> QED
      BY <3>1, <3>2, <3>o
  <2>5. Len(Base(u)) <= BaseMax /\ Len(Ext(u)) <= ExtMax
    BY <2>2, <2>3, <2>4, <2>b, <2>e
  <2>6. DosName(EntryToFcb(u)) = IF Ext(u) = <<>> THEN Base(u) ELSE u
    BY <2>3, <2>5, ThereAndBack
  <2>7. TmplMatches(Template(p), EntryToFcb(u)) <=> Globs(p, u)
    BY <2>3, <2>5, GlobMatches
  <2> QED
    BY <2>3, <2>4, <2>6, <2>7, <2>b, <2>e, <2>u DEF Display
<1> DEFINE M == Matching(s, Template(p), Len(s) + 1)
<1> DEFINE W == Wanted(search.dir, p)
<1>3. Len(shown) = Cardinality(M) /\ ToSet(shown) = {EntryToFcb(Uppered(s[i])) : i \in M}
    BY <1>p, <1>s DEF Traced, ShownUpTo
<1>4. M = {i \in 1 .. Len(s) : Globs(p, Uppered(s[i]))}
  <2>1. M = {i \in 1 .. Len(s) : TmplMatches(Template(p), EntryToFcb(Uppered(s[i])))}
    BY <1>1 DEF Matching
  <2> QED
    BY <2>1, <1>1, <1>2
<1>5. W = {n \in Kept(x) : Globs(p, Uppered(n))}
    BY <1>0, <1>x, ShortsKept DEF Wanted
<1>w. IsFiniteSet(W)
  <2>1. W \subseteq Kept(x)
    BY <1>5
  <2> QED
    BY <2>1, <1>0, KeptFacts, FS_Subset
<1> HIDE DEF M, W
<1>6. /\ \A i \in M : s[i] \in W
      /\ \A i, j \in M : s[i] = s[j] => i = j
      /\ Cardinality(Kept(x)) <= CacheMax => \A n \in W : \E i \in M : s[i] = n
    BY <1>1, <1>4, <1>5
<1>7. /\ Cardinality(M) <= Cardinality(W)
      /\ Cardinality(Kept(x)) <= CacheMax => Cardinality(M) = Cardinality(W)
  <2>f. PICK f : f = [i \in M |-> s[i]]
    OBVIOUS
  <2>1. f \in [M -> W] /\ \A i \in M : f[i] = s[i]
    BY <2>f, <1>6
  <2>2. f \in Injection(M, W)
    BY <2>1, <1>6 DEF Injection, IsInjective
  <2>3. Cardinality(Kept(x)) <= CacheMax => f \in Surjection(M, W)
    BY <2>1, <1>6 DEF Surjection
  <2> QED
    BY <2>2, <2>3, <1>w, FS_Injection
<1>8. names = {Display(s[i]) : i \in M}
  <2>1. names = {DosName(f) : f \in ToSet(shown)}
    BY DEF ToSet
  <2>2. {DosName(f) : f \in ToSet(shown)} = {DosName(EntryToFcb(Uppered(s[i]))) : i \in M}
    BY <1>3
  <2>3. {DosName(EntryToFcb(Uppered(s[i]))) : i \in M} = {Display(s[i]) : i \in M}
    BY <1>1, <1>2, <1>4
  <2> QED
    BY <2>1, <2>2, <2>3
<1>9. /\ {Display(s[i]) : i \in M} \subseteq {Display(n) : n \in W}
      /\ Cardinality(Kept(x)) <= CacheMax => {Display(s[i]) : i \in M} = {Display(n) : n \in W}
    BY <1>6
<1>10. W = Wanted(search.dir, search.pattern)
       /\ Cardinality(Shorts(ServerDir(search.dir))) = Cardinality(Kept(x))
    BY <1>0, <1>p, <1>x, ShortsKept DEF W
<1> QED
    BY <1>3, <1>7, <1>8, <1>9, <1>10

-----------------------------------------------------------------------------
(* The theorems.                                                           *)
LEMMA Invariants == Spec => [](IInv /\ Progress)
<1>1. Init => IInv /\ Progress
    BY InitOK, ProgressInit
<1>2. IInv /\ Progress /\ [Next]_vars => (IInv /\ Progress)'
    BY NextOK, ProgressStep
<1> QED
    BY <1>1, <1>2, PTL DEF Spec

(* The array holds no more names than it has places for, upper case and within
   12 characters, and what DOS is shown is 11 characters long, whatever names
   the server has. *)
THEOREM TypeCorrect == Spec => []TypeOK
<1>1. IInv => TypeOK
  <2> SUFFICES ASSUME IInv PROVE TypeOK
    OBVIOUS
  <2>1. list \in Seq(Entry) /\ Len(list) <= CacheMax /\ shown \in Seq(Fcb) /\ over \in BOOLEAN
        /\ tree \in [DOMAIN tree -> SUBSET Seq(NameChar)]
    BY DEF IInv, ListingOK, TreeOK
  <2>2. ASSUME NEW i \in DOMAIN list
        PROVE  /\ list[i].name = Uppered(list[i].name)
               /\ Len(list[i].name) <= BaseMax + 1 + ExtMax
               /\ list[i].attr \subseteq {"dir", "ro"}
    <3>1. list[i] \in Entry
      BY <2>1
    <3> QED
      BY <3>1 DEF Entry
  <2>3. \A i \in DOMAIN shown : DOMAIN shown[i] = 1 .. BaseMax + ExtMax
    BY <2>1 DEF Fcb
  <2> QED
    BY <2>1, <2>2, <2>3 DEF TypeOK
<1> QED
    BY <1>1, Invariants, PTL

(* At the end of a search DOS has been shown no name but the short ones that the
   pattern covers, each once, and all of those when the short names of the
   directory are no more than CacheMax: the padding, the templates and the cursor
   of fs_enum_next() lose nothing, in whatever order the server lists; only the
   array's limit does. *)
THEOREM SearchShowsMatches == Spec => []ShowsMatches
<1> QED
    BY Invariants, ProgressShows, PTL

(* OPEN takes a name apart and joins it again to the file the name was shown
   for: the case of its spelling and the length of its parts do not matter, as
   long as the array has room, no directory has the name in another case, and
   no SETATTR has made it read-only for one who writes. *)
THEOREM OpensTheFileShown == Spec => []OpensWhatItShows
<1>1. IInv => OpensWhatItShows
    BY DEF IInv
<1> QED
    BY <1>1, Invariants, PTL

(* OPEN, which splits a path, and DELETE, which does not, send one path for one
   name. *)
THEOREM OpenAndDeleteNameTheSame == Spec => []OpenAndDeleteAgree
<1>1. IInv => OpenAndDeleteAgree
  <2> SUFFICES ASSUME IInv, opened.sent # None, removed.sent # None,
                      Uppered(opened.asked) = Uppered(removed.asked)
               PROVE  opened.sent = removed.sent
    BY DEF OpenAndDeleteAgree
  <2>1. /\ opened.asked \in Seq(Char) /\ opened.sent = ToTnfsPath(opened.asked)
        /\ removed.asked \in Seq(Char) /\ removed.sent = ToTnfsPath(removed.asked)
    BY DEF IInv, SentOK
  <2> QED
    BY <2>1, SpelledAlike
<1> QED
    BY <1>1, Invariants, PTL
=============================================================================
