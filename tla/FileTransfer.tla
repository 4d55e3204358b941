---------------------------- MODULE FileTransfer ----------------------------
(***************************************************************************)
(* READ and WRITE of any length on one open file: do_read, do_write and    *)
(* do_seekend over fs_read and fs_write, which send an LSEEK and then cut  *)
(* the transfer into requests of at most Chunk units; the server keeps the *)
(* contents and an offset per handle.                                      *)
(*                                                                         *)
(* A request may be executed or not, and answered or not (TnfsExchange: at *)
(* most once, and an answered one was executed).  A unit stands for a byte *)
(* of the program's buffer; s_read_buf and s_write_buf are passed through. *)
(***************************************************************************)
EXTENDS Integers

CONSTANTS MaxLen, MaxN, Units, Width,   \* as in DosFile
          Chunk,        \* sizeof(s_read_buf), sizeof(s_write_buf)
          ShortWrites   \* may the server write less than it was sent?

ASSUME TransferAssumption ==
    /\ MaxLen \in Nat /\ MaxN \in Nat /\ 0 \in Units
    /\ Width \in Nat /\ Width > MaxLen
    /\ Chunk \in Nat \ {0} /\ ShortWrites \in BOOLEAN

VARIABLES
    data, len,  \* server: the file
    offset,     \* server: the offset of the handle
    dta,        \* the caller's buffer (SDA+0Ch)
    pos, size,  \* SFT+15h, SFT+11h
    fd,         \* SFT+07h: a handle, or FALSE for 0xFF
    at,         \* "idle", or where fs_read or fs_write is
    call,       \* the call: what it is, n, total, whether every request was answered
    astray,     \* history: whether the LSEEK of the latest call was not executed
    before      \* history: data, len, dta and astray when the call began, where
                \* its first request starts, units written in it

server == <<data, len, offset>>
sft == <<pos, size, fd>>
vars == <<server, dta, sft, at, call, astray, before>>

Places == 0 .. MaxLen - 1
Buffer == 0 .. MaxN - 1

Shorter(m, n) == IF m < n THEN m ELSE n
Longer(m, n) == IF m < n THEN n ELSE m

NoCall == [op |-> "none", n |-> 0, total |-> 0, answered |-> TRUE]
NoHistory == [data |-> <<>>, len |-> 0, dta |-> <<>>, astray |-> FALSE, from |-> 0, made |-> 0]

TypeOK ==
    /\ data \in [Places -> Units] /\ len \in 0 .. MaxLen /\ offset \in 0 .. Width - 1
    /\ dta \in [Buffer -> Units]
    /\ pos \in 0 .. Width - 1 /\ size \in 0 .. MaxLen /\ fd \in BOOLEAN
    /\ at \in {"idle", "lseek", "loop", "return"}
    /\ call \in [op : {"none", "read", "write"}, n : 0 .. MaxN, total : 0 .. MaxN, answered : BOOLEAN]
    /\ astray \in BOOLEAN /\ before.from \in 0 .. Width - 1 /\ before.made \in 0 .. MaxN

\* fs_open: the size is that of the directory's listing, which is not of today.
Init ==
    /\ data \in [Places -> Units] /\ len \in 0 .. MaxLen
    /\ \A i \in Places : i >= len => data[i] = 0
    /\ offset = 0
    /\ dta \in [Buffer -> Units]
    /\ pos = 0 /\ size \in 0 .. len /\ fd \in BOOLEAN
    /\ at = "idle" /\ call = NoCall /\ astray = FALSE /\ before = NoHistory

-----------------------------------------------------------------------------
(* The program and DOS, between calls *)

Fill == at = "idle" /\ dta' \in [Buffer -> Units] /\ UNCHANGED <<server, sft, at, call, astray, before>>

Seek ==
    /\ at = "idle" /\ pos' \in 0 .. MaxLen
    /\ UNCHANGED <<server, dta, size, fd, at, call, astray, before>>

\* Mutant: the sum is not cut off at 32 bits.
SeekEndWide(distance) ==
    /\ at = "idle" /\ pos' = size + distance
    /\ UNCHANGED <<server, dta, size, fd, at, call, astray, before>>

\* AL=21h: unsigned 32-bit addition of a signed distance.
SeekEnd(distance) ==
    /\ at = "idle" /\ pos' = (size + distance) % Width
    /\ UNCHANGED <<server, dta, size, fd, at, call, astray, before>>

-----------------------------------------------------------------------------
(* fs_read, fs_write *)

\* AL=08h, AL=09h; a WRITE stays within the longest file (bound).
Begin(op, n) ==
    /\ at = "idle"
    /\ op = "write" => pos + n <= MaxLen
    /\ call' = [op |-> op, n |-> n, total |-> 0, answered |-> TRUE]
    /\ before' = [data |-> data, len |-> len, dta |-> dta, astray |-> astray,
                  from |-> pos, made |-> 0]
    /\ astray' = FALSE
    /\ at' = IF fd THEN "lseek" ELSE "return"
    /\ UNCHANGED <<server, dta, sft>>

\* The result of tnfs_lseek is not looked at.
Lseek ==
    /\ at = "lseek" /\ at' = "loop"
    /\ \/ offset' = pos /\ call' \in {call, [call EXCEPT !.answered = FALSE]}
          /\ UNCHANGED astray
       \/ UNCHANGED offset /\ call' = [call EXCEPT !.answered = FALSE]
          /\ astray' = TRUE
    /\ before' = [before EXCEPT !.from = offset']
    /\ UNCHANGED <<data, len, dta, sft>>

Rest == Shorter(call.n - call.total, Chunk)

\* No answer: the loop is left, whatever was executed.
Unanswered == at' = "return" /\ call' = [call EXCEPT !.answered = FALSE]

\* Mutant: only one request is ever sent.
ReadChunkOnce ==
    /\ at = "loop" /\ call.op = "read" /\ call.total < call.n
    /\ LET got == IF offset < len THEN Shorter(Rest, len - offset) ELSE 0 IN
       \/ Unanswered /\ offset' \in {offset, offset + got} /\ UNCHANGED dta
       \/ /\ offset' = offset + got
          /\ at' = "return"
          /\ call' = [call EXCEPT !.total = @ + got]
          /\ dta' = [i \in Buffer |-> IF i \in call.total .. call.total + got - 1
                                      THEN data[offset + i - call.total] ELSE dta[i]]
    /\ UNCHANGED <<data, len, sft, astray, before>>

\* Mutant: a short answer does not end the loop.
ReadChunkForever ==
    /\ at = "loop" /\ call.op = "read" /\ call.total < call.n
    /\ LET got == IF offset < len THEN Shorter(Rest, len - offset) ELSE 0 IN
       /\ offset' = offset + got
       /\ UNCHANGED at
       /\ call' = [call EXCEPT !.total = @ + got]
       /\ dta' = [i \in Buffer |-> IF i \in call.total .. call.total + got - 1
                                   THEN data[offset + i - call.total] ELSE dta[i]]
    /\ UNCHANGED <<data, len, sft, astray, before>>

\* One READ: the server gives what there is; less than was asked for ends it.
ReadChunk ==
    /\ at = "loop" /\ call.op = "read" /\ call.total < call.n
    /\ LET got == IF offset < len THEN Shorter(Rest, len - offset) ELSE 0 IN
       \/ Unanswered /\ offset' \in {offset, offset + got} /\ UNCHANGED dta
       \/ /\ offset' = offset + got
          /\ at' = IF got < Rest THEN "return" ELSE "loop"
          /\ call' = [call EXCEPT !.total = @ + got]
          /\ dta' = [i \in Buffer |-> IF i \in call.total .. call.total + got - 1
                                      THEN data[offset + i - call.total] ELSE dta[i]]
    /\ UNCHANGED <<data, len, sft, astray, before>>

\* Mutant: every chunk is sent from the beginning of the buffer.
ServerWritesFirst(k) ==
    /\ offset + k <= MaxLen
    /\ data' = [i \in Places |-> IF i \in offset .. offset + k - 1 THEN dta[i - offset] ELSE data[i]]
    /\ len' = IF k = 0 THEN len ELSE Longer(len, offset + k)
    /\ offset' = offset + k
    /\ before' = [before EXCEPT !.made = @ + k]

\* The server writes k units of the buffer from its offset on, and stays within
\* the longest file (bound).
ServerWrites(k) ==
    /\ offset + k <= MaxLen
    /\ data' = [i \in Places |-> IF i \in offset .. offset + k - 1
                                 THEN dta[call.total + i - offset] ELSE data[i]]
    /\ len' = IF k = 0 THEN len ELSE Longer(len, offset + k)
    /\ offset' = offset + k
    /\ before' = [before EXCEPT !.made = @ + k]

\* One WRITE: an answer without an error counts as the whole chunk, whatever
\* count it carries.
WriteChunk ==
    /\ at = "loop" /\ call.op = "write" /\ call.total < call.n
    /\ \/ Unanswered /\ (ServerWrites(Rest) \/ UNCHANGED <<server, before>>)
       \/ /\ \E k \in 0 .. Rest : (k = Rest \/ ShortWrites) /\ ServerWrites(k)
          /\ call' = [call EXCEPT !.total = @ + Rest]
          /\ UNCHANGED at
    /\ UNCHANGED <<dta, sft, astray>>

Done == at = "return" \/ (at = "loop" /\ call.total >= call.n)

\* do_read: the position moves by what was read.
ReturnRead ==
    /\ Done /\ call.op = "read"
    /\ pos' = (pos + call.total) % Width
    /\ at' = "idle" /\ call' = NoCall /\ before' = NoHistory
    /\ UNCHANGED <<server, dta, size, fd, astray>>

\* do_write: so it does by what was written, and the size follows it.
ReturnWrite ==
    /\ Done /\ call.op = "write"
    /\ pos' = (pos + call.total) % Width
    /\ size' = Longer(size, pos')
    /\ at' = "idle" /\ call' = NoCall /\ before' = NoHistory
    /\ UNCHANGED <<server, dta, fd, astray>>

Transfer == Lseek \/ ReadChunk \/ WriteChunk \/ ReturnRead \/ ReturnWrite

Next ==
    \/ Fill \/ Seek
    \/ \E distance \in -MaxLen .. MaxLen : SeekEnd(distance)
    \/ \E op \in {"read", "write"}, n \in 0 .. MaxN : Begin(op, n)
    \/ Transfer

Spec == Init /\ [][Next]_vars /\ WF_vars(Transfer)

-----------------------------------------------------------------------------

\* READ and WRITE are single steps on the file: until a call returns DOS sees
\* the file and the buffer as they were when it began, then as the count says
\* (fs_read and fs_write, whatever the chunks and the replies that are lost);
\* at another place than the position only when the LSEEK was not executed.
Idle == at = "idle"
D == INSTANCE DosFile WITH data <- IF Idle THEN data ELSE before.data,
                           len <- IF Idle THEN len ELSE before.len,
                           dta <- IF Idle THEN dta ELSE before.dta,
                           astray <- IF Idle THEN astray ELSE before.astray
DosFileSpec == D!FSpec

\* A call whose requests were all answered did all it was asked for, but for a
\* READ that reached the end of the file: there only does a short count mean
\* what DOS takes it to mean.
CompleteIfAnswered ==
    [][(ReturnRead \/ ReturnWrite) /\ fd /\ call.answered =>
          call.total = call.n \/ (call.op = "read" /\ pos + call.total >= len)]_vars

\* "CX = bytes actually written" (handler.asm): what a WRITE reports, when it
\* was answered, is what the server wrote.
ReportsActual == [][ReturnWrite /\ fd /\ call.answered => call.total = before.made]_vars

\* Every call returns to DOS.
TransferEnds == ~Idle ~> Idle
=============================================================================
