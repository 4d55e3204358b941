---------------------------- MODULE RingBufProofs ----------------------------
(* The dump is the beginning of the log: for every buffer size, any amount of *)
(* logging and any number of dumps.                                          *)
EXTENDS RingBuf, TLAPS

\* The buffer holds what was logged first and never turns over.
BufferHoldsTheBeginning ==
    /\ head = IF Len(logged) < RingSize THEN Len(logged) ELSE RingSize - 1
    /\ \A i \in 0 .. head - 1 : data[i] = logged[i + 1]

\* Between snapshot and end, the dump reads what was there at the snapshot.
DumpReads ==
    /\ cut <= Len(logged)
    /\ dump \in {"snapped", "reading", "done"} => snap = Held /\ cursor = Len(copied)
    /\ Len(copied) <= Held
    /\ \A i \in DOMAIN copied : copied[i] = logged[i]
    /\ dump = "done" => Len(copied) = Held

IInv == TypeOK /\ BufferHoldsTheBeginning /\ DumpReads

LEMMA AfterIs ==
    ASSUME NEW i \in 0 .. RingSize - 1
    PROVE  After(i) = IF i = RingSize - 1 THEN 0 ELSE i + 1
<1>1. RingSize \in Nat \ {0}
  BY RingAssumption
<1>2. CASE i = RingSize - 1
  <2>1. RingSize % RingSize = 0
    BY <1>1
  <2> QED
    BY <1>1, <1>2, <2>1 DEF After
<1>3. CASE i # RingSize - 1
  <2>1. i + 1 \in 0 .. RingSize - 1
    BY <1>1, <1>3
  <2> QED
    BY <1>1, <1>3, <2>1 DEF After
<1> QED
  BY <1>2, <1>3

LEMMA InitInv == Init => IInv
BY RingAssumption DEF Init, IInv, TypeOK, BufferHoldsTheBeginning, DumpReads, Held

LEMMA PutKeeps ==
    ASSUME IInv, NEW c \in Char, Len(logged) < MaxLogged, RbPutc(c), UNCHANGED dumper
    PROVE  IInv'
<1> USE RingAssumption DEF IInv
<1>1. /\ logged' = Append(logged, c) /\ Len(logged') = Len(logged) + 1 /\ logged' \in Seq(Char)
      /\ \A i \in 1 .. Len(logged) : logged'[i] = logged[i]
      /\ logged'[Len(logged) + 1] = c
      /\ UNCHANGED <<tail, enabled, dump, snap, cursor, copied, cut, dumps>>
  BY DEF RbPutc, TypeOK, dumper
<1>2. CASE After(head) = tail
  <2>1. head = RingSize - 1 /\ UNCHANGED <<data, head>>
    BY <1>2, AfterIs DEF RbPutc, TypeOK
  <2>2. BufferHoldsTheBeginning'
    BY <1>1, <2>1 DEF BufferHoldsTheBeginning, TypeOK
  <2> QED
    BY <1>1, <2>1, <2>2 DEF TypeOK, DumpReads, Held
<1>3. CASE After(head) # tail
  <2>1. head < RingSize - 1 /\ head' = head + 1 /\ data' = [data EXCEPT ![head] = c]
    BY <1>3, AfterIs DEF RbPutc, TypeOK
  <2>2. data' \in [0 .. RingSize - 1 -> Char] /\ head' \in 0 .. RingSize - 1
    BY <2>1 DEF TypeOK
  <2>3. head = Len(logged)
    BY <2>1 DEF BufferHoldsTheBeginning, TypeOK
  <2>4. BufferHoldsTheBeginning'
    BY <1>1, <2>1, <2>3 DEF BufferHoldsTheBeginning, TypeOK
  <2> QED
    BY <1>1, <2>2, <2>4 DEF TypeOK, DumpReads, Held
<1> QED
  BY <1>2, <1>3

LEMMA StepInv == IInv /\ [Next]_vars => IInv'
<1> SUFFICES ASSUME IInv, [Next]_vars PROVE IInv'
  OBVIOUS
<1> USE RingAssumption DEF IInv
<1>1. ASSUME NEW c \in Char, LogIfEnabled(c) \/ LogAlways(c) PROVE IInv'
  BY <1>1, PutKeeps DEF LogIfEnabled, LogAlways
<1>2. CASE DumpStop
  <2>1. /\ UNCHANGED <<data, head, tail, logged, snap, cursor, copied, cut>>
        /\ dump' = "stopped" /\ enabled' = FALSE /\ dumps' \in 0 .. MaxDumps
    BY <1>2 DEF DumpStop, TypeOK
  <2>2. TypeOK'
    BY <2>1 DEF TypeOK
  <2> QED
    BY <2>1, <2>2 DEF BufferHoldsTheBeginning, DumpReads, Held
<1>3. CASE DumpSnapshot
  <2>1. TypeOK'
    BY <1>3 DEF DumpSnapshot, TypeOK, rbuf
  <2>2. BufferHoldsTheBeginning'
    BY <1>3 DEF DumpSnapshot, BufferHoldsTheBeginning, rbuf
  <2>3. DumpReads'
    BY <1>3 DEF DumpSnapshot, DumpReads, BufferHoldsTheBeginning, TypeOK, Held, rbuf
  <2> QED
    BY <2>1, <2>2, <2>3
<1>4. CASE DumpOpen
  BY <1>4 DEF DumpOpen, TypeOK, BufferHoldsTheBeginning, DumpReads, Held, rbuf
<1>5. CASE DumpOne
  <2>1. /\ cursor = Len(copied) /\ snap = Held /\ cursor < Held /\ dump = "reading"
        /\ cut \in Nat /\ cut <= Len(logged)
    BY <1>5 DEF DumpOne, Unread, DumpReads, TypeOK, Held
  <2>2. cursor \in 0 .. head - 1 /\ cursor < RingSize - 1
    BY <2>1 DEF BufferHoldsTheBeginning, TypeOK, Held
  <2>3. cursor' = cursor + 1 /\ copied' = Append(copied, data[cursor])
    BY <1>5, <2>2, AfterIs DEF DumpOne, TypeOK
  <2>4. data[cursor] \in Char /\ data[cursor] = logged[cursor + 1]
    BY <2>2 DEF BufferHoldsTheBeginning, TypeOK
  <2>5. UNCHANGED <<data, head, tail, enabled, logged, dump, snap, cut, dumps>>
    BY <1>5 DEF DumpOne, rbuf
  <2>6. TypeOK'
    BY <2>2, <2>3, <2>4, <2>5 DEF TypeOK
  <2>7. DumpReads'
    BY <2>1, <2>3, <2>4, <2>5 DEF DumpReads, TypeOK, Held
  <2> QED
    BY <2>5, <2>6, <2>7 DEF BufferHoldsTheBeginning
<1>6. CASE DumpEnd
  <2>1. Len(copied) = Held
    BY <1>6 DEF DumpEnd, Unread, DumpReads, TypeOK, Held
  <2> QED
    BY <1>6, <2>1 DEF DumpEnd, TypeOK, BufferHoldsTheBeginning, DumpReads, Held, rbuf
<1>7. CASE UNCHANGED vars
  BY <1>7 DEF vars, rbuf, dumper, TypeOK, BufferHoldsTheBeginning, DumpReads, Held
<1> QED
  BY <1>1, <1>2, <1>3, <1>4, <1>5, <1>6, <1>7 DEF Next

LEMMA Invariance == Spec => []IInv
BY InitInv, StepInv, PTL DEF Spec

\* Type correctness of the ring buffer (ringbuf.c) and of DUMPBUF (dumpbuf.c).
THEOREM TypeCorrect == Spec => []TypeOK
<1>1. IInv => TypeOK
  BY DEF IInv
<1> QED
  BY Invariance, <1>1, PTL

\* For every RING_SIZE, DUMPBUF writes the beginning of the log as it was at
\* its snapshot, whatever the resident program logs between its steps.
THEOREM DumpCorrect == Spec => []DumpIsTheBeginning
<1>1. IInv => DumpIsTheBeginning
  BY DEF IInv, DumpReads, DumpIsTheBeginning
<1> QED
  BY Invariance, <1>1, PTL
=============================================================================
