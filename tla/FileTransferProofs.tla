-------------------------- MODULE FileTransferProofs --------------------------
(***************************************************************************)
(* Proofs about FileTransfer, for every length of file and transfer, every *)
(* chunk size and every set of contents, when the server writes all it was *)
(* sent (~ShortWrites): a transfer of many requests, any of them lost, is  *)
(* one READ or WRITE of DosFile.                                           *)
(***************************************************************************)
EXTENDS FileTransfer, TLAPS

LEMMA Sizes == MaxLen \in Nat /\ MaxN \in Nat /\ Width \in Nat /\ Width > MaxLen
BY TransferAssumption

LEMMA ModRange == ASSUME NEW x \in Int PROVE x % Width \in 0 .. Width - 1
BY Sizes

LEMMA ModSmall == ASSUME NEW x \in 0 .. Width - 1 PROVE x % Width = x
BY Sizes

-----------------------------------------------------------------------------
(* The inductive invariant: what a call in progress has done so far.       *)

Contents == [Places -> Units]
From == before.from

\* What was saved when the call began, and where the transfer starts.
Snapshot ==
    /\ call.op \in {"read", "write"}
    /\ before \in [data : Contents, len : 0 .. MaxLen, dta : [Buffer -> Units],
                  astray : BOOLEAN, from : 0 .. Width - 1, made : 0 .. MaxN]
    /\ call.total <= call.n /\ before.made <= call.n
    /\ call.op = "write" => pos + call.n <= MaxLen
    /\ From = pos \/ (astray /\ ~call.answered)
    /\ at # "return" => fd
    /\ at = "lseek" => call.total = 0 /\ before.made = 0 /\ call.answered

\* The caller's buffer holds what was read so far; the file is as it was.
Reading ==
    call.op = "read" =>
        /\ data = before.data /\ len = before.len /\ before.made = 0
        /\ call.total = 0 \/ From + call.total <= len
        /\ dta = D!Filled(before.dta, data, From, call.total)
        /\ at = "loop" => offset = From + call.total
        /\ at = "return" /\ fd /\ call.answered => From + call.total >= len

\* The file holds what was written so far, of which total units are reported.
Writing ==
    call.op = "write" =>
        /\ dta = before.dta
        /\ call.total <= before.made
        /\ before.made = 0 \/ From + before.made <= MaxLen
        /\ data = D!Overlay(before.data, dta, From, before.made)
        /\ len = IF before.made = 0 THEN before.len ELSE Longer(before.len, From + before.made)
        /\ at = "loop" => offset = From + before.made /\ call.total = before.made
        /\ at = "return" => ~fd \/ ~call.answered

InProgress == at # "idle" => Snapshot /\ Reading /\ Writing

IInv == TypeOK /\ InProgress

LEMMA Initially == Init => IInv
<1> SUFFICES ASSUME Init PROVE IInv
    OBVIOUS
<1> USE Sizes
<1>1. call \in [op : {"none", "read", "write"}, n : 0 .. MaxN, total : 0 .. MaxN, answered : BOOLEAN]
    BY DEF Init, NoCall
<1>2. before.from \in 0 .. Width - 1 /\ before.made \in 0 .. MaxN
    BY DEF Init, NoHistory
<1>3. /\ data \in [Places -> Units] /\ len \in 0 .. MaxLen /\ offset = 0
      /\ dta \in [Buffer -> Units] /\ pos = 0 /\ size \in 0 .. len
      /\ fd \in BOOLEAN /\ at = "idle" /\ astray \in BOOLEAN
    BY Zenon DEF Init
<1>4. TypeOK
    BY <1>1, <1>2, <1>3 DEF TypeOK
<1> QED
    BY <1>3, <1>4 DEF IInv, InProgress

\* Before the first request nothing is in the buffer or the file.
LEMMA NothingYet ==
    ASSUME NEW d \in Contents, NEW b \in [Buffer -> Units], NEW f \in Int
    PROVE  D!Filled(b, d, f, 0) = b /\ D!Overlay(d, b, f, 0) = d
BY Sizes DEF Contents, D!Filled, D!Overlay, D!Places, D!Buffer, Places, Buffer

-----------------------------------------------------------------------------
(* One lemma per step of a call.                                           *)

LEMMA BeginStep ==
    ASSUME IInv, NEW op \in {"read", "write"}, NEW n \in 0 .. MaxN, Begin(op, n)
    PROVE  IInv'
<1> USE Sizes DEF IInv, Begin
<1>0. /\ UNCHANGED <<data, len, offset, dta, pos, size, fd>> /\ astray' = FALSE
      /\ at' = IF fd THEN "lseek" ELSE "return"
      /\ before' = [data |-> data, len |-> len, dta |-> dta, astray |-> astray,
                    from |-> pos, made |-> 0]
      /\ call' = [op |-> op, n |-> n, total |-> 0, answered |-> TRUE]
    BY DEF server, sft
<1>1. TypeOK'
  <2>1. /\ before'.made = 0 /\ before'.from = pos
        /\ call' \in [op : {"none", "read", "write"}, n : 0 .. MaxN, total : 0 .. MaxN, answered : BOOLEAN]
      BY <1>0
  <2>2. /\ UNCHANGED <<data, len, offset, dta, pos, size>> /\ at' \in {"lseek", "return"}
      BY <1>0
  <2>3. fd' \in BOOLEAN /\ astray' \in BOOLEAN
      BY <1>0, Zenon DEF TypeOK
  <2> HIDE DEF Begin
  <2> QED
      BY <2>1, <2>2, <2>3, SMT DEF TypeOK
<1>2. Snapshot'
    BY <1>0 DEF Snapshot, TypeOK, From, Contents
<1>3. D!Filled(dta, data, pos, 0) = dta /\ D!Overlay(data, dta, pos, 0) = data
    BY NothingYet DEF TypeOK, Contents
<1>4. Reading' /\ Writing'
  <2>2. at' # "loop" /\ (at' = "return" => ~fd')
      BY <1>0 DEF TypeOK
  <2>3. /\ before'.data = data /\ before'.len = len /\ before'.dta = dta /\ before'.from = pos
        /\ before'.made = 0 /\ call'.total = 0
      BY <1>0
  <2> QED
      BY <1>0, <1>3, <2>2, <2>3 DEF Reading, Writing, From
<1> QED
    BY <1>1, <1>2, <1>4 DEF InProgress

LEMMA LseekStep == ASSUME IInv, Lseek PROVE IInv'
<1> USE Sizes DEF IInv, InProgress
<1>0. at = "lseek" /\ at' = "loop" /\ Snapshot /\ Reading /\ Writing
    BY DEF Lseek
<1>1. /\ UNCHANGED <<data, len, dta, pos, size, fd>>
      /\ before' = [before EXCEPT !.from = offset']
      /\ call' \in {call, [call EXCEPT !.answered = FALSE]}
      /\ \/ offset' = pos
         \/ offset' = offset /\ astray' /\ call' = [call EXCEPT !.answered = FALSE]
      /\ astray' \in BOOLEAN
    BY Zenon DEF Lseek, sft, IInv, TypeOK
<1>2. /\ call'.op = call.op /\ call'.n = call.n /\ call'.total = 0 /\ call'.answered \in BOOLEAN
      /\ call' \in [op : {"none", "read", "write"}, n : 0 .. MaxN, total : 0 .. MaxN, answered : BOOLEAN]
    BY <1>0, <1>1 DEF TypeOK, Snapshot
<1>3. offset' \in 0 .. Width - 1
    BY <1>1 DEF TypeOK
<1>4. before.made = 0 /\ call.total = 0
    BY <1>0 DEF Snapshot
<1>5. /\ before'.data = before.data /\ before'.len = before.len /\ before'.dta = before.dta
      /\ before'.astray = before.astray /\ before'.made = 0 /\ before'.from = offset'
    BY <1>1, <1>4 DEF TypeOK, Snapshot
<1>6. TypeOK'
    BY <1>0, <1>1, <1>2, <1>3, <1>5 DEF TypeOK
<1>7. Snapshot'
    BY <1>0, <1>1, <1>2, <1>5 DEF Snapshot, From, TypeOK
<1>8. /\ D!Filled(before.dta, data, From, 0) = before.dta
      /\ D!Filled(before.dta, data, offset', 0) = before.dta
      /\ D!Overlay(before.data, dta, From, 0) = before.data
      /\ D!Overlay(before.data, dta, offset', 0) = before.data
    BY <1>0, <1>3, NothingYet DEF TypeOK, Snapshot, Contents, From
<1>9. Reading'
  <2> SUFFICES ASSUME call.op = "read" PROVE Reading'
      BY <1>2 DEF Reading
  <2>1. data = before.data /\ len = before.len /\ dta = before.dta
      BY <1>0, <1>4, <1>8 DEF Reading
  <2> QED
      BY <1>0, <1>1, <1>2, <1>3, <1>4, <1>5, <1>8, <2>1, SMT DEF Reading, From
<1>10. Writing'
  <2> SUFFICES ASSUME call.op = "write" PROVE Writing'
      BY <1>2 DEF Writing
  <2>1. data = before.data /\ len = before.len /\ dta = before.dta
      BY <1>0, <1>4, <1>8 DEF Writing
  <2> QED
      BY <1>0, <1>1, <1>2, <1>3, <1>4, <1>5, <1>8, <2>1, SMT DEF Writing, From
<1> QED
    BY <1>6, <1>7, <1>9, <1>10

CallType == [op : {"none", "read", "write"}, n : 0 .. MaxN, total : 0 .. MaxN, answered : BOOLEAN]

LEMMA ReadChunkStep == ASSUME IInv, ReadChunk PROVE IInv'
<1> USE Sizes
<1> DEFINE got == IF offset < len THEN Shorter(Rest, len - offset) ELSE 0
<1>1. /\ at = "loop" /\ call.op = "read" /\ call.total < call.n
      /\ TypeOK /\ Snapshot /\ Reading
      /\ UNCHANGED <<data, len, pos, size, fd, astray, before>>
    BY DEF ReadChunk, IInv, InProgress, sft
<1>2. /\ call \in CallType /\ before.from \in Nat /\ offset = From + call.total
      /\ call.total \in Nat /\ call.n \in 0 .. MaxN
    BY <1>1 DEF TypeOK, Reading, CallType, From
<1>3. /\ got \in Nat /\ got <= Rest /\ call.total + got <= call.n
      /\ got = 0 \/ offset + got <= len
      /\ got < Rest => offset + got >= len
      /\ offset + got \in 0 .. Width - 1
    BY <1>1, <1>2, TransferAssumption, SMT DEF TypeOK, Rest, Shorter
<1>4. Writing'
    BY <1>1, <1>2 DEF ReadChunk, Unanswered, Writing, CallType
<1>5. CASE /\ Unanswered /\ offset' \in {offset, offset + got} /\ UNCHANGED dta
  <2>1. /\ at' = "return" /\ call' \in CallType /\ ~call'.answered
        /\ call'.op = "read" /\ call'.n = call.n /\ call'.total = call.total
      BY <1>1, <1>2, <1>5 DEF Unanswered, CallType
  <2>2. offset' \in 0 .. Width - 1
      BY <1>3, <1>5, <1>1 DEF TypeOK
  <2>3. TypeOK'
      BY <1>1, <1>5, <2>1, <2>2, SMT DEF TypeOK, CallType
  <2>4. Snapshot'
      BY <1>1, <2>1, Zenon DEF Snapshot, From
  <2>5. Reading'
      BY <1>1, <1>5, <2>1 DEF Reading, From
  <2> QED
      BY <1>4, <2>3, <2>4, <2>5 DEF IInv, InProgress
<1>6. CASE /\ offset' = offset + got
           /\ at' = IF got < Rest THEN "return" ELSE "loop"
           /\ call' = [call EXCEPT !.total = @ + got]
           /\ dta' = [i \in Buffer |-> IF i \in call.total .. call.total + got - 1
                                       THEN data[offset + i - call.total] ELSE dta[i]]
  <2>1. /\ call' \in CallType /\ call'.answered = call.answered
        /\ call'.op = "read" /\ call'.n = call.n /\ call'.total = call.total + got
      BY <1>1, <1>2, <1>3, <1>6 DEF CallType
  <2>2. dta' = D!Filled(before.dta, data, From, call.total + got) /\ dta' \in [Buffer -> Units]
    <3>1. data \in Contents /\ before.dta \in [Buffer -> Units] /\ dta \in [Buffer -> Units]
        BY <1>1 DEF TypeOK, Snapshot, Contents
    <3>2. dta = D!Filled(before.dta, data, From, call.total)
        BY <1>1 DEF Reading
    <3>3. got = 0 \/ From + call.total + got <= MaxLen
        BY <1>1, <1>2, <1>3 DEF TypeOK, From
    <3>4. got \in Nat /\ From \in Nat /\ call.total \in Nat /\ offset = From + call.total
        BY <1>2, <1>3 DEF From
    <3>5. dta' = [i \in Buffer |-> IF i \in call.total .. call.total + got - 1
                                   THEN data[offset + i - call.total] ELSE dta[i]]
        BY <1>6
    <3> HIDE DEF got
    <3>6. \A i \in Buffer : i \in call.total .. call.total + got - 1 =>
              offset + i - call.total = From + i /\ From + i \in Places
        BY <3>3, <3>4 DEF Buffer, Places
    <3>7. dta' \in [Buffer -> Units]
        BY <3>1, <3>5, <3>6 DEF Contents
    <3>8. \A i \in Buffer : dta'[i] = D!Filled(before.dta, data, From, call.total + got)[i]
        BY <3>1, <3>2, <3>4, <3>5, <3>6 DEF D!Filled, D!Buffer, Buffer
    <3> QED
        BY <3>7, <3>8 DEF D!Filled, D!Buffer, Buffer
  <2>3. at' \in {"loop", "return"}
      BY <1>6
  <2>4. TypeOK'
      BY <1>1, <1>3, <1>6, <2>1, <2>2, <2>3, SMT DEF TypeOK, CallType
  <2>5. Snapshot'
    <3>1. call'.total <= call'.n /\ at' # "lseek" /\ fd
        BY <1>1, <1>2, <1>3, <2>1, <2>3 DEF Snapshot
    <3> QED
        BY <1>1, <2>1, <3>1, Zenon DEF Snapshot, From
  <2>6. Reading'
    <3>1. call'.total = 0 \/ From + call'.total <= len
        BY <1>1, <1>2, <1>3, <2>1 DEF Reading, From
    <3>2. offset' = From + call'.total
        BY <1>2, <1>3, <1>6, <2>1 DEF From
    <3>3. at' = "return" => From + call'.total >= len
        BY <1>2, <1>3, <1>6, <2>1 DEF From
    <3> QED
        BY <1>1, <2>1, <2>2, <3>1, <3>2, <3>3 DEF Reading, From
  <2> QED
      BY <1>4, <2>4, <2>5, <2>6 DEF IInv, InProgress
<1> QED
    BY <1>5, <1>6 DEF ReadChunk

\* What a request to write puts in the file continues what the call wrote before.
LEMMA WritesOn ==
    ASSUME TypeOK, Snapshot, Writing, at = "loop", call.op = "write", call.total < call.n,
           ServerWrites(Rest)
    PROVE  /\ data' = D!Overlay(before.data, dta, From, before.made + Rest) /\ data' \in Contents
           /\ len' = Longer(before.len, From + before.made + Rest) /\ len' \in 0 .. MaxLen
           /\ offset' = From + before.made + Rest /\ offset' \in 0 .. Width - 1
           /\ Rest \in 1 .. MaxN /\ call.total + Rest <= call.n
           /\ From + before.made + Rest <= MaxLen
           /\ before' = [before EXCEPT !.made = @ + Rest]
<1> USE Sizes
<1>1. /\ From \in Nat /\ before.made \in Nat /\ call.total = before.made /\ offset = From + before.made
      /\ call.n \in 0 .. MaxN /\ call.total \in Nat /\ call.total < call.n
      /\ before.data \in Contents /\ before.len \in 0 .. MaxLen /\ dta \in [Buffer -> Units]
      /\ data = D!Overlay(before.data, dta, From, before.made) /\ data \in Contents
      /\ len = IF before.made = 0 THEN before.len ELSE Longer(before.len, From + before.made)
    BY DEF TypeOK, Snapshot, Writing, From, Contents
<1>2. Rest \in 1 .. MaxN /\ call.total + Rest <= call.n
    BY <1>1, TransferAssumption, SMT DEF Rest, Shorter
<1>3. /\ offset + Rest <= MaxLen /\ offset' = offset + Rest
      /\ data' = [i \in Places |-> IF i \in offset .. offset + Rest - 1
                                   THEN dta[call.total + i - offset] ELSE data[i]]
      /\ len' = IF Rest = 0 THEN len ELSE Longer(len, offset + Rest)
      /\ before' = [before EXCEPT !.made = @ + Rest]
    BY DEF ServerWrites
<1> DEFINE k == Rest
<1>4. k \in 1 .. MaxN /\ call.total + k <= call.n /\ offset + k <= MaxLen
    BY <1>2, <1>3
<1>5. /\ data' = [i \in Places |-> IF i \in offset .. offset + k - 1
                                   THEN dta[call.total + i - offset] ELSE data[i]]
      /\ len' = Longer(len, offset + k) /\ offset' = offset + k
    BY <1>2, <1>3
<1> HIDE DEF k
<1>6. \A i \in Places : i \in offset .. offset + k - 1 =>
          call.total + i - offset = i - From /\ i - From \in Buffer
  <2>1. /\ From \in Nat /\ call.total \in Nat /\ call.n <= MaxN /\ call.n \in Nat /\ k \in Nat
        /\ offset = From + call.total /\ call.total + k <= call.n
      BY <1>1, <1>4
  <2> QED
      BY <2>1 DEF Places, Buffer
<1>7. data' \in Contents
    BY <1>1, <1>5, <1>6 DEF Contents
<1>8. \A i \in Places : data'[i] = IF i \in From .. From + (before.made + k) - 1
                                   THEN dta[i - From] ELSE before.data[i]
  <2> TAKE i \in Places
  <2>1. i \in Int /\ data[i] = IF i \in From .. From + before.made - 1
                             THEN dta[i - From] ELSE before.data[i]
      BY <1>1 DEF D!Overlay, D!Places, Places
  <2>2. CASE i \in offset .. offset + k - 1
    <3>1. data'[i] = dta[i - From]
        BY <1>5, <1>6, <2>2
    <3> QED
        BY <1>1, <1>4, <2>1, <2>2, <3>1
  <2>3. CASE i \notin offset .. offset + k - 1
    <3>1. data'[i] = data[i]
        BY <1>5, <2>3
    <3> QED
        BY <1>1, <1>4, <2>1, <2>3, <3>1
  <2> QED
      BY <2>2, <2>3
<1>9. data' = D!Overlay(before.data, dta, From, before.made + k)
  <2>1. data' = [i \in Places |-> data'[i]]
      BY <1>7 DEF Contents
  <2> QED
      BY <1>8, <2>1 DEF D!Overlay, D!Places, Places
<1>10. len' = Longer(before.len, From + before.made + k) /\ len' \in 0 .. MaxLen
    BY <1>1, <1>4, <1>5 DEF Longer
<1>11. offset' = From + before.made + k /\ offset' \in 0 .. Width - 1 /\ From + before.made + k <= MaxLen
    BY <1>1, <1>4, <1>5
<1> QED
    BY <1>2, <1>3, <1>7, <1>9, <1>10, <1>11 DEF k

LEMMA WriteChunkStep == ASSUME IInv, WriteChunk, ~ShortWrites PROVE IInv'
<1> USE Sizes
<1>1. /\ at = "loop" /\ call.op = "write" /\ call.total < call.n
      /\ TypeOK /\ Snapshot /\ Writing
      /\ UNCHANGED <<dta, pos, size, fd, astray>>
    BY DEF WriteChunk, IInv, InProgress, sft
<1>2. call \in CallType /\ call.total = before.made /\ From \in Nat /\ before.made \in Nat
    BY <1>1 DEF TypeOK, CallType, Writing, From
<1>3. /\ Unanswered /\ (ServerWrites(Rest) \/ UNCHANGED <<server, before>>)
      \/ /\ ServerWrites(Rest)
         /\ call' = [call EXCEPT !.total = @ + Rest]
         /\ UNCHANGED at
    BY DEF WriteChunk
<1>4. CASE Unanswered /\ UNCHANGED <<server, before>>
  <2>1. /\ at' = "return" /\ call' \in CallType /\ ~call'.answered
        /\ call'.op = "write" /\ call'.n = call.n /\ call'.total = call.total
        /\ UNCHANGED <<data, len, offset, before>>
      BY <1>1, <1>2, <1>4 DEF Unanswered, CallType, server
  <2>2. TypeOK'
      BY <1>1, <2>1, SMT DEF TypeOK, CallType
  <2>3. Snapshot'
      BY <1>1, <2>1, Zenon DEF Snapshot, From
  <2>4. Reading' /\ Writing'
      BY <1>1, <2>1 DEF Reading, Writing, From
  <2> QED
      BY <2>2, <2>3, <2>4 DEF IInv, InProgress
<1>5. CASE ServerWrites(Rest)
  <2>1. /\ data' = D!Overlay(before.data, dta, From, before.made + Rest) /\ data' \in Contents
        /\ len' = Longer(before.len, From + before.made + Rest) /\ len' \in 0 .. MaxLen
        /\ offset' = From + before.made + Rest /\ offset' \in 0 .. Width - 1
        /\ Rest \in 1 .. MaxN /\ call.total + Rest <= call.n
        /\ From + before.made + Rest <= MaxLen
        /\ before' = [before EXCEPT !.made = @ + Rest]
      BY <1>1, <1>5, WritesOn
  <2>2. /\ before'.data = before.data /\ before'.len = before.len /\ before'.dta = before.dta
        /\ before'.from = before.from /\ before'.made = before.made + Rest
        /\ before' \in [data : Contents, len : 0 .. MaxLen, dta : [Buffer -> Units],
                         astray : BOOLEAN, from : 0 .. Width - 1, made : 0 .. MaxN]
      BY <1>1, <1>2, <2>1 DEF Snapshot, CallType
  <2>3. /\ call' \in CallType /\ call'.op = "write" /\ call'.n = call.n
        /\ \/ at' = "return" /\ ~call'.answered /\ call'.total = call.total
           \/ at' = "loop" /\ call'.total = call.total + Rest
    <3>1. CASE Unanswered
        BY <1>1, <1>2, <3>1 DEF Unanswered, CallType
    <3>2. CASE call' = [call EXCEPT !.total = @ + Rest] /\ UNCHANGED at
      <4>1. call.total + Rest \in 0 .. MaxN
          BY <1>2, <2>1 DEF CallType
      <4> QED
          BY <1>1, <1>2, <3>2, <4>1 DEF CallType
    <3> QED
        BY <1>3, <3>1, <3>2
  <2>4. TypeOK'
      BY <1>1, <2>1, <2>2, <2>3, SMT DEF TypeOK, CallType, Contents
  <2>5. Snapshot'
    <3>1. call'.total <= call'.n /\ before'.made <= call'.n /\ at' # "lseek"
        BY <1>2, <2>1, <2>2, <2>3 DEF CallType
    <3>2. From' = pos' \/ (astray' /\ ~call'.answered)
      <4>1. call'.answered => call.answered
          BY <1>2, <1>3 DEF Unanswered, CallType
      <4> QED
          BY <1>1, <2>2, <4>1, Zenon DEF Snapshot, From
    <3>3. call'.op = "write" => pos' + call'.n <= MaxLen
        BY <1>1, <2>3 DEF Snapshot
    <3>4. fd'
        BY <1>1, Zenon DEF Snapshot
    <3> QED
        BY <2>2, <2>3, <3>1, <3>2, <3>3, <3>4, Zenon DEF Snapshot
  <2>6. Reading'
      BY <2>3 DEF Reading
  <2>7. Writing'
    <3>1. dta' = before'.dta
        BY <1>1, <2>2 DEF Writing
    <3>2. call'.total <= before'.made /\ (at' = "loop" => call'.total = before'.made)
        BY <1>2, <2>1, <2>2, <2>3 DEF CallType
    <3>3. /\ From' = From /\ before'.made # 0 /\ From + before'.made = From + before.made + Rest
          /\ From + before'.made <= MaxLen
        BY <1>2, <2>1, <2>2 DEF From
    <3> QED
        BY <1>1, <2>1, <2>2, <2>3, <3>1, <3>2, <3>3 DEF Writing
  <2> QED
      BY <2>4, <2>5, <2>6, <2>7 DEF IInv, InProgress
<1> QED
    BY <1>3, <1>4, <1>5

\* The steps at which a call ends, and those outside calls, leave none in progress.
LEMMA OutsideStep ==
    ASSUME IInv,
           \/ Fill \/ Seek \/ ReturnRead \/ ReturnWrite
           \/ \E distance \in -MaxLen .. MaxLen : SeekEnd(distance)
    PROVE  IInv'
<1> USE Sizes
<1>1. TypeOK
    BY DEF IInv
<1>2. CASE Fill
    BY <1>1, <1>2, SMT DEF Fill, IInv, InProgress, TypeOK, server, sft
<1>3. CASE Seek
    BY <1>1, <1>3, SMT DEF Seek, IInv, InProgress, TypeOK, server
<1>4. ASSUME NEW distance \in -MaxLen .. MaxLen, SeekEnd(distance) PROVE IInv'
  <2>1. pos' \in 0 .. Width - 1
      BY <1>1, <1>4, ModRange DEF SeekEnd, TypeOK
  <2> QED
      BY <1>1, <1>4, <2>1, SMT DEF SeekEnd, IInv, InProgress, TypeOK, server
<1>5. CASE ReturnRead \/ ReturnWrite
  <2>1. at' = "idle" /\ call' = NoCall /\ before' = NoHistory
      BY <1>5 DEF ReturnRead, ReturnWrite
  <2>2. call' \in CallType /\ before'.from = 0 /\ before'.made = 0
      BY <2>1 DEF NoCall, NoHistory, CallType
  <2>3. pos' = (pos + call.total) % Width /\ UNCHANGED <<data, len, offset, dta, fd, astray>>
      BY <1>5 DEF ReturnRead, ReturnWrite, server
  <2>4. pos' \in 0 .. Width - 1
      BY <1>1, <2>3, ModRange DEF TypeOK
  <2>5. size' \in 0 .. MaxLen
    <3>1. CASE ReturnRead
        BY <1>1, <3>1 DEF ReturnRead, TypeOK
    <3>2. CASE ReturnWrite
      <4>1. Snapshot /\ call.op = "write" /\ call.total \in Nat
          BY <1>1, <3>2 DEF ReturnWrite, Done, IInv, InProgress, TypeOK
      <4>2. pos + call.total \in 0 .. MaxLen
          BY <1>1, <4>1 DEF Snapshot, TypeOK
      <4>3. pos' = pos + call.total
          BY <2>3, <4>2, ModSmall
      <4> QED
          BY <1>1, <3>2, <4>2, <4>3 DEF ReturnWrite, Longer, TypeOK
    <3> QED
        BY <1>5, <3>1, <3>2
  <2> QED
      BY <1>1, <2>1, <2>2, <2>3, <2>4, <2>5, SMT DEF IInv, InProgress, TypeOK, CallType
<1> QED
    BY <1>2, <1>3, <1>4, <1>5

LEMMA Step == ASSUME IInv, [Next]_vars, ~ShortWrites PROVE IInv'
<1>1. ASSUME NEW op \in {"read", "write"}, NEW n \in 0 .. MaxN, Begin(op, n) PROVE IInv'
    BY <1>1, BeginStep
<1>2. CASE UNCHANGED vars
  <2>1. UNCHANGED <<data, len, offset, dta, pos, size, fd, at, call, astray, before>>
      BY <1>2 DEF vars, server, sft
  <2> QED
      BY <2>1 DEF IInv, TypeOK, InProgress, Snapshot, Reading, Writing, From
<1> QED
    BY <1>1, <1>2, OutsideStep, LseekStep, ReadChunkStep, WriteChunkStep DEF Next, Transfer

-----------------------------------------------------------------------------

LEMMA Invariance == ASSUME ~ShortWrites PROVE Spec => []IInv
<1>1. IInv /\ [Next]_vars => IInv'
    BY Step
<1> QED
    BY <1>1, Initially, PTL DEF Spec

\* Positions, sizes and counts stay in their ranges: a transfer never counts more
\* units than it was asked for, in whatever chunks it is done.
THEOREM TypeCorrect == ASSUME ~ShortWrites PROVE Spec => []TypeOK
<1>1. IInv => TypeOK
    BY DEF IInv
<1> QED
    BY <1>1, Invariance, PTL

\* What a returning call has done, on what there was when it began.
LEMMA Returned ==
    ASSUME IInv, ReturnRead \/ ReturnWrite
    PROVE  /\ at # "idle" /\ at' = "idle" /\ Snapshot /\ Reading /\ Writing /\ TypeOK
           /\ UNCHANGED <<data, len, dta, fd, astray>>
           /\ pos' = (pos + call.total) % Width
           /\ From \in 0 .. Width - 1 /\ call.total \in 0 .. MaxN /\ before.made \in 0 .. MaxN
           /\ From = pos \/ astray
BY DEF ReturnRead, ReturnWrite, Done, IInv, InProgress, TypeOK, server, Snapshot, From

\* A READ or WRITE of any length, in any number of requests of which any may be
\* lost, is one step on the file and the caller's buffer.
THEOREM ImplementsDosFile == ASSUME ~ShortWrites PROVE Spec => DosFileSpec
<1>1. Init => D!FInit
    BY Zenon DEF Init, Idle, D!FInit, D!Places, D!Buffer, Places, Buffer
<1>2. ASSUME IInv, [Next]_vars
      PROVE  [D!FNext]_<<IF Idle THEN data ELSE before.data, IF Idle THEN len ELSE before.len,
                         IF Idle THEN dta ELSE before.dta, pos, size,
                         IF Idle THEN astray ELSE before.astray>>
  <2>1. CASE Fill
      BY <2>1 DEF Fill, Idle, D!FNext, D!Fill, D!Buffer, Buffer, server, sft
  <2>2. CASE Seek
      BY <2>2 DEF Seek, Idle, D!FNext, D!Seek, server
  <2>3. ASSUME NEW distance \in -MaxLen .. MaxLen, SeekEnd(distance) PROVE D!SeekEnd(distance)
      BY <2>3 DEF SeekEnd, Idle, D!SeekEnd, server
  <2>4. ASSUME NEW op \in {"read", "write"}, NEW n \in 0 .. MaxN, Begin(op, n)
        PROVE  UNCHANGED <<IF Idle THEN data ELSE before.data, IF Idle THEN len ELSE before.len,
                           IF Idle THEN dta ELSE before.dta, pos, size,
                           IF Idle THEN astray ELSE before.astray>>
    <3>1. /\ Idle /\ ~Idle' /\ UNCHANGED <<pos, size>>
          /\ before'.data = data /\ before'.len = len /\ before'.dta = dta /\ before'.astray = astray
        BY <2>4 DEF Begin, Idle, sft
    <3> QED
        BY <3>1, Zenon
  <2>5. CASE Lseek \/ ReadChunk \/ WriteChunk
    <3>1. at # "idle" /\ at' # "idle" /\ UNCHANGED <<pos, size>>
        BY <2>5 DEF Lseek, ReadChunk, WriteChunk, Unanswered, sft
    <3>2. Snapshot
        BY <1>2, <3>1 DEF IInv, InProgress
    <3>3. \/ before' = before
          \/ before' = [before EXCEPT !.from = offset']
          \/ \E k \in 0 .. Rest : before' = [before EXCEPT !.made = @ + k]
          \/ before' = [before EXCEPT !.made = @ + Rest]
        BY <2>5 DEF Lseek, ReadChunk, WriteChunk, ServerWrites
    <3>4. /\ before'.data = before.data /\ before'.len = before.len
          /\ before'.dta = before.dta /\ before'.astray = before.astray
        BY <3>2, <3>3 DEF Snapshot
    <3> QED
        BY <3>1, <3>4, Zenon DEF Idle
  <2>6. CASE ReturnRead
    <3>1. /\ ~Idle /\ Idle' /\ call.op = "read" /\ UNCHANGED size
          /\ pos' = (pos + call.total) % Width
        BY <1>2, <2>6, Returned DEF ReturnRead, Idle
    <3>2. astray' \in BOOLEAN /\ (From = pos \/ astray')
      <4>1. astray' = astray
          BY <1>2, <2>6, Returned
      <4> QED
          BY <1>2, <2>6, <4>1, Returned, Zenon DEF TypeOK
    <3>3. /\ data' = before.data /\ len' = before.len
          /\ call.total = 0 \/ From + call.total <= before.len
          /\ dta' = D!Filled(before.dta, before.data, From, call.total)
        BY <1>2, <2>6, <3>1, Returned, Zenon DEF Reading
    <3>4. D!Read(call.total, From)
        BY <3>1, <3>2, <3>3, Zenon DEF D!Read
    <3> QED
        BY <1>2, <2>6, <3>4, Returned, Zenon DEF D!FNext
  <2>7. CASE ReturnWrite
    <3>1. /\ ~Idle /\ Idle' /\ call.op = "write" /\ size' = Longer(size, pos')
          /\ pos' = (pos + call.total) % Width
        BY <1>2, <2>7, Returned DEF ReturnWrite, Idle
    <3>2. astray' \in BOOLEAN /\ (From = pos \/ astray')
      <4>1. astray' = astray
          BY <1>2, <2>7, Returned
      <4> QED
          BY <1>2, <2>7, <4>1, Returned, Zenon DEF TypeOK
    <3>3. /\ dta' = before.dta
          /\ call.total <= before.made /\ (before.made = 0 \/ From + before.made <= MaxLen)
          /\ data' = D!Overlay(before.data, before.dta, From, before.made)
          /\ len' = IF before.made = 0 THEN before.len ELSE Longer(before.len, From + before.made)
        BY <1>2, <2>7, <3>1, Returned, Zenon DEF Writing
    <3>4. D!Write(call.total, before.made, From)
        BY <3>1, <3>2, <3>3, Zenon DEF D!Write, D!Longer, Longer
    <3>5. before.made \in call.total .. MaxN
        BY <1>2, <2>7, <3>3, Returned, Sizes
    <3> QED
        BY <1>2, <2>7, <3>4, <3>5, Returned, Zenon DEF D!FNext
  <2>8. CASE UNCHANGED vars
      BY <2>8 DEF vars, server, sft, Idle
  <2> QED
      BY <1>2, <2>1, <2>2, <2>3, <2>4, <2>5, <2>6, <2>7, <2>8 DEF Next, Transfer, D!FNext
<1> QED
    BY Invariance, <1>1, <1>2, PTL DEF Spec, DosFileSpec, D!FSpec, D!fileVars

\* When every request was answered only the end of the file makes a count short.
THEOREM AnsweredIsComplete == ASSUME ~ShortWrites PROVE Spec => CompleteIfAnswered
<1>1. ASSUME IInv, (ReturnRead \/ ReturnWrite) /\ fd /\ call.answered
      PROVE  call.total = call.n \/ (call.op = "read" /\ pos + call.total >= len)
  <2>1. /\ Snapshot /\ Reading /\ Writing /\ TypeOK /\ From = pos
      BY <1>1, Returned, Zenon DEF Snapshot
  <2>2. CASE at = "loop" /\ call.total >= call.n
    <3>1. call.total <= call.n /\ call.total \in Nat /\ call.n \in Nat
        BY <2>1, Sizes DEF Snapshot, TypeOK
    <3> QED
        BY <2>2, <3>1
  <2>3. CASE at = "return"
      BY <1>1, <2>1, <2>3 DEF ReturnRead, ReturnWrite, Reading, Writing
  <2> QED
      BY <1>1, <2>2, <2>3 DEF ReturnRead, ReturnWrite, Done
<1>2. IInv /\ [Next]_vars => [(ReturnRead \/ ReturnWrite) /\ fd /\ call.answered =>
          call.total = call.n \/ (call.op = "read" /\ pos + call.total >= len)]_vars
    BY <1>1
<1> QED
    BY Invariance, <1>2, PTL DEF Spec, CompleteIfAnswered
=============================================================================
