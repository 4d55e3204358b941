------------------------------- MODULE RingBuf -------------------------------
(***************************************************************************)
(* The debug ring buffer of the resident program (ringbuf.c, DEBUG build)  *)
(* and DUMPBUF, a program that reads it through a far pointer (dumpbuf.c). *)
(* DUMPBUF's own DOS calls may enter the resident program, so log calls    *)
(* come between any two of its steps; rb_putc() itself is not interrupted  *)
(* by another one (the INT 2Fh guard; the receiver callback logs nothing). *)
(*                                                                         *)
(* Some callers of rb_putc() test rbuf.enabled, those in netw_pd.c do not. *)
(***************************************************************************)
EXTENDS Naturals, Sequences

CONSTANTS Char,
          RingSize,  \* RING_SIZE
          MaxLogged, \* bound: log calls
          MaxDumps   \* bound: runs of DUMPBUF

ASSUME RingAssumption ==
    RingSize \in Nat \ {0} /\ MaxLogged \in Nat /\ MaxDumps \in Nat

VARIABLES
    data, head, tail, enabled,  \* rbuf
    logged,  \* history: every character handed to rb_putc()
    dump,    \* DUMPBUF: "no", "stopped", "snapped", "reading" or "done"
    snap,    \* snap_head
    cursor,  \* the local "i", which starts as snap_tail
    copied,  \* what it wrote so far; its length is "count"
    cut,     \* history: how much had been logged when it took the snapshot
    dumps    \* history: runs of DUMPBUF

rbuf == <<data, head, tail, enabled>>
dumper == <<dump, snap, cursor, copied, cut, dumps>>
vars == <<rbuf, logged, dumper>>

Init ==
    /\ data \in {[i \in 0 .. RingSize - 1 |-> c] : c \in Char}
    /\ head = 0 /\ tail = 0 /\ enabled = TRUE
    /\ logged = <<>>
    /\ dump = "no" /\ snap = 0 /\ cursor = 0 /\ copied = <<>> /\ cut = 0 /\ dumps = 0

After(i) == (i + 1) % RingSize

\* Mutant: the index does not wrap.
PutcStraight(c) ==
    /\ logged' = Append(logged, c)
    /\ IF head + 1 = tail THEN UNCHANGED <<data, head>>
       ELSE data' = [data EXCEPT ![head] = c] /\ head' = head + 1
    /\ UNCHANGED <<tail, enabled>>

\* A full buffer keeps the earliest data.
RbPutc(c) ==
    /\ logged' = Append(logged, c)
    /\ IF After(head) = tail THEN UNCHANGED <<data, head>>
       ELSE data' = [data EXCEPT ![head] = c] /\ head' = After(head)
    /\ UNCHANGED <<tail, enabled>>

LogIfEnabled(c) == enabled /\ Len(logged) < MaxLogged /\ RbPutc(c) /\ UNCHANGED dumper
LogAlways(c) == Len(logged) < MaxLogged /\ RbPutc(c) /\ UNCHANGED dumper

DumpStop ==
    /\ dump \in {"no", "done"} /\ dumps < MaxDumps
    /\ dump' = "stopped" /\ enabled' = FALSE /\ dumps' = dumps + 1
    /\ UNCHANGED <<data, head, tail, logged, snap, cursor, copied, cut>>

DumpSnapshot ==
    /\ dump = "stopped" /\ dump' = "snapped"
    /\ snap' = head /\ cursor' = tail
    /\ copied' = <<>> /\ cut' = Len(logged)
    /\ UNCHANGED <<rbuf, logged, dumps>>

\* fopen() fails, and DUMPBUF exits, or not.
DumpOpen ==
    /\ dump = "snapped" /\ dump' \in {"no", "reading"}
    /\ UNCHANGED <<rbuf, logged, snap, cursor, copied, cut, dumps>>

Unread(to) == cursor # to /\ Len(copied) < RingSize

\* Mutant: the loop runs to the live rb->head.
DumpOneLive ==
    /\ dump = "reading" /\ Unread(head)
    /\ copied' = Append(copied, data[cursor])
    /\ cursor' = After(cursor)
    /\ UNCHANGED <<rbuf, logged, dump, snap, cut, dumps>>

DumpOne ==
    /\ dump = "reading" /\ Unread(snap)
    /\ copied' = Append(copied, data[cursor])
    /\ cursor' = After(cursor)
    /\ UNCHANGED <<rbuf, logged, dump, snap, cut, dumps>>

DumpEnd ==
    /\ dump = "reading" /\ ~Unread(snap)
    /\ dump' = "done"
    /\ UNCHANGED <<rbuf, logged, snap, cursor, copied, cut, dumps>>

Next ==
    \/ \E c \in Char : LogIfEnabled(c) \/ LogAlways(c)
    \/ DumpStop \/ DumpSnapshot \/ DumpOpen \/ DumpOne \/ DumpEnd

Spec == Init /\ [][Next]_vars

-----------------------------------------------------------------------------

\* Every variable stays in its range.
TypeOK ==
    /\ data \in [0 .. RingSize - 1 -> Char]
    /\ head \in 0 .. RingSize - 1 /\ tail = 0 /\ enabled \in BOOLEAN
    /\ logged \in Seq(Char) /\ Len(logged) <= MaxLogged
    /\ dump \in {"no", "stopped", "snapped", "reading", "done"}
    /\ snap \in 0 .. RingSize - 1 /\ cursor \in 0 .. RingSize - 1
    /\ copied \in Seq(Char) /\ cut \in 0 .. MaxLogged /\ dumps \in 0 .. MaxDumps

Held == IF cut < RingSize THEN cut ELSE RingSize - 1

\* Whatever is logged between its steps, DUMPBUF writes the beginning of the
\* log as it was at its snapshot: each character in the order it was logged,
\* none logged later ("loop bound is snap_head, never rb->head"), none from
\* another turn of the ring ("keep earliest data, discard new"), and when it
\* ends all of it that fits the buffer.
DumpIsTheBeginning ==
    /\ Len(copied) <= Held
    /\ \A i \in DOMAIN copied : copied[i] = logged[i]
    /\ dump = "done" => Len(copied) = Held
=============================================================================
