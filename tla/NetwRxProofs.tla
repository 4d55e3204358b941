---------------------------- MODULE NetwRxProofs ----------------------------
(***************************************************************************)
(* Proofs about NetwRx, for any number of nested deliveries, any frames    *)
(* and any timer constants, when a delivery is not interrupted by the      *)
(* foreground (Preempts = FALSE); about the timeout, in either case.       *)
(***************************************************************************)
EXTENDS NetwRx, TLAPS

Busy(s) == drv[s].st # "idle"
Reading == {"parse", "head", "tail"}

\* RX_AWAITING says exactly that a delivery has the buffer.
AwaitingMeansGranted == (rxLen = "awaiting") <=> (\E s \in Slot : Busy(s))

\* A delivery has written the halves its progress says, with its own frame.
DeliveryProgress ==
    \A s \in Slot : Busy(s) =>
        /\ drv[s].frame \in Frame /\ ~drv[s].old
        /\ drv[s].st \in {"half", "copied"} => rxBuf[1] = drv[s].frame
        /\ drv[s].st = "copied" => rxBuf[2] = drv[s].frame

\* A full buffer holds one frame, received since the last clear.
FullIsWhole ==
    rxLen = "full" => rxBuf[1] = rxBuf[2] /\ rxBuf[1] \in Frame /\ ~old

\* The foreground reads a full buffer only; its copy agrees with it so far.
ReadingIsConsistent ==
    /\ pc \in Reading => rxLen = "full"
    /\ pc \in {"head", "tail"} => rxBuf[1] \in ForUs /\ out[1] = rxBuf[1]
    /\ pc = "tail" => out[2] = rxBuf[2]

IInv ==
    /\ TypeOK /\ OneGrant /\ WholeFrames
    /\ AwaitingMeansGranted /\ DeliveryProgress /\ FullIsWhole /\ ReadingIsConsistent

-----------------------------------------------------------------------------

\* The initial states satisfy the invariant.
LEMMA InitInv == Init => IInv
<1> SUFFICES ASSUME Init PROVE IInv
    OBVIOUS
<1> USE ForUsAssumption, PreemptsAssumption, TicksAssumption
<1>1. \A s \in Slot : drv[s] = NoDelivery
    BY DEF Init
<1>2. TypeOK
  <2>1. drv \in [Slot -> [st : DeliveryStates, frame : Half, old : BOOLEAN]]
      BY DEF Init, NoDelivery, DeliveryStates, Half
  <2>2. Nothing \in [1 .. 2 -> Half]
      BY DEF Nothing, Half
  <2>3. 0 \in 0 .. TickMod - 1 /\ 0 \in 0 .. TimeoutTicks
      OBVIOUS
  <2> HIDE DEF Nothing
  <2> QED
      BY <2>1, <2>2, <2>3, Zenon DEF Init, TypeOK, Waiting
<1>3. OneGrant /\ AwaitingMeansGranted /\ DeliveryProgress
    BY <1>1 DEF Init, OneGrant, AwaitingMeansGranted, DeliveryProgress, Busy, NoDelivery
<1>4. WholeFrames /\ FullIsWhole /\ ReadingIsConsistent
    BY DEF Init, WholeFrames, FullIsWhole, ReadingIsConsistent, Reading, Nothing
<1> QED
    BY <1>2, <1>3, <1>4 DEF IInv

\* The upcalls of the packet driver preserve the invariant.
LEMMA DriverInv == ASSUME IInv, NEW s \in Slot, Driver(s) PROVE IInv'
<1> USE ForUsAssumption DEF IInv
<1>1. ASSUME NEW f \in Frame, GrantBuffer(s, f) PROVE IInv'
  <2> USE <1>1 DEF GrantBuffer
  <2>1. \A t \in Slot : ~Busy(t)
      BY DEF AwaitingMeansGranted
  <2>2. \A t \in Slot : drv'[t] = IF t = s THEN [st |-> "granted", frame |-> f, old |-> FALSE] ELSE drv[t]
      BY DEF TypeOK
  <2>3. TypeOK'
      BY DEF TypeOK, fgVars, timeVars, DeliveryStates, Half
  <2>4. (OneGrant /\ AwaitingMeansGranted /\ DeliveryProgress)'
      BY <2>1, <2>2 DEF OneGrant, AwaitingMeansGranted, DeliveryProgress, Busy
  <2>5. (WholeFrames /\ FullIsWhole /\ ReadingIsConsistent)'
      BY DEF WholeFrames, FullIsWhole, ReadingIsConsistent, Reading, fgVars
  <2> QED
      BY <2>3, <2>4, <2>5
<1>2. CASE RefuseFrame(s)
    BY <1>2 DEF RefuseFrame, vars, fgVars, timeVars, TypeOK, OneGrant, WholeFrames,
                AwaitingMeansGranted, DeliveryProgress, Busy, FullIsWhole,
                ReadingIsConsistent
<1>3. ASSUME drv[s].st \in {"granted", "half"}, rxLen' = rxLen, UNCHANGED <<fgVars, timeVars, old>>,
             NEW i \in 1 .. 2, rxBuf' = [rxBuf EXCEPT ![i] = drv[s].frame],
             NEW st \in {"half", "copied"}, drv' = [drv EXCEPT ![s].st = st],
             st = "half" => i = 1,
             st = "copied" => i = 2 /\ drv[s].st = "half"
      PROVE  IInv'
  <2> USE <1>3
  <2>1. Busy(s) /\ rxLen = "awaiting" /\ \A t \in Slot : Busy(t) => t = s
      BY DEF AwaitingMeansGranted, OneGrant, Busy
  <2>2. drv[s] \in [st : DeliveryStates, frame : Half, old : BOOLEAN]
      BY DEF TypeOK
  <2>3. \A t \in Slot : drv'[t] = IF t = s THEN [drv[s] EXCEPT !.st = st] ELSE drv[t]
      BY DEF TypeOK
  <2>4. TypeOK'
    <3>1. drv' \in [Slot -> [st : DeliveryStates, frame : Half, old : BOOLEAN]]
        BY <2>2 DEF TypeOK, DeliveryStates
    <3>2. rxBuf' \in [1 .. 2 -> Half]
        BY <2>2 DEF TypeOK
    <3> QED
        BY <3>1, <3>2 DEF TypeOK, fgVars, timeVars
  <2>5. (OneGrant /\ AwaitingMeansGranted)'
      BY <2>1, <2>2, <2>3 DEF OneGrant, AwaitingMeansGranted, Busy
  <2>6. DeliveryProgress'
      BY <2>1, <2>2, <2>3 DEF DeliveryProgress, Busy, TypeOK
  <2>7. (WholeFrames /\ FullIsWhole /\ ReadingIsConsistent)'
      BY <2>1 DEF WholeFrames, FullIsWhole, ReadingIsConsistent, Reading, fgVars
  <2> QED
      BY <2>4, <2>5, <2>6, <2>7
<1>4. CASE CopyFirstHalf(s)
    BY <1>3, <1>4 DEF CopyFirstHalf
<1>5. CASE CopySecondHalf(s)
    BY <1>3, <1>5 DEF CopySecondHalf
<1>6. CASE FrameDelivered(s)
  <2> USE <1>6 DEF FrameDelivered
  <2>1. Busy(s) /\ rxLen = "awaiting" /\ \A t \in Slot : Busy(t) => t = s
      BY DEF AwaitingMeansGranted, OneGrant, Busy
  <2>2. \A t \in Slot : drv'[t] = IF t = s THEN NoDelivery ELSE drv[t]
      BY DEF TypeOK
  <2>3. TypeOK'
      BY DEF TypeOK, NoDelivery, fgVars, timeVars, DeliveryStates, Half
  <2>4. (OneGrant /\ AwaitingMeansGranted /\ DeliveryProgress)'
      BY <2>1, <2>2 DEF OneGrant, AwaitingMeansGranted, DeliveryProgress, Busy, NoDelivery
  <2>5. FullIsWhole'
      BY <2>1 DEF FullIsWhole, DeliveryProgress
  <2>6. (WholeFrames /\ ReadingIsConsistent)'
      BY <2>1 DEF WholeFrames, ReadingIsConsistent, Reading, fgVars
  <2> QED
      BY <2>3, <2>4, <2>5, <2>6
<1> QED
    BY <1>1, <1>2, <1>4, <1>5, <1>6 DEF Driver

\* Time passes without disturbing the invariant.
LEMMA TickInv == ASSUME IInv, Tick PROVE IInv'
<1> USE TicksAssumption DEF Tick, IInv, netVars, fgVars
<1>1. clock' \in 0 .. DayTicks - 1
  <2>1. clock + 1 \in Int
      BY DEF TypeOK
  <2> QED
      BY <2>1, SMT
<1>2. waited' \in 0 .. TimeoutTicks
    BY DEF TypeOK
<1>3. TypeOK'
    BY <1>1, <1>2 DEF TypeOK
<1>4. (OneGrant /\ WholeFrames /\ AwaitingMeansGranted /\ DeliveryProgress
        /\ FullIsWhole /\ ReadingIsConsistent)'
    BY DEF OneGrant, WholeFrames, AwaitingMeansGranted, DeliveryProgress, Busy,
           FullIsWhole, ReadingIsConsistent
<1> QED
    BY <1>3, <1>4

\* When no delivery is under way, freeing the buffer leaves the driver alone.
LEMMA FreeBufferIdle ==
    ASSUME TypeOK, FreeBuffer, \A s \in Slot : drv[s].st = "idle"
    PROVE  drv' = drv /\ rxLen' = "free" /\ rxBuf' = rxBuf /\ old' = TRUE
BY DEF FreeBuffer, TypeOK

\* Every step of the foreground preserves the invariant.
LEMMA ForegroundInv == ASSUME ~Preempts, IInv, Foreground PROVE IInv'
<1> USE DEF IInv
<1>1. \A s \in Slot : drv[s].st = "idle"
    BY DEF Foreground, NetwOpenRx, NetwClearRx, NetwSend, NetwSendFails, Timeout, NotYet,
           LookEmpty, LookFull, DropFrame, CopyHead, CopyTail, ReturnFrame, Goto,
           ForegroundRuns
<1>2. ASSUME FreeBuffer, UNCHANGED <<out, timeVars>>, pc' \in {"clear", "send", "poll", "idle"},
             got' = got \/ (got' = out /\ pc = "tail")
      PROVE  IInv'
  <2> USE <1>2
  <2>1. drv' = drv /\ rxLen' = "free" /\ rxBuf' = rxBuf /\ old' = TRUE
      BY <1>1, FreeBufferIdle
  <2>2. TypeOK'
      BY <2>1 DEF TypeOK, timeVars, Waiting
  <2>3. (OneGrant /\ AwaitingMeansGranted /\ DeliveryProgress)'
      BY <1>1, <2>1 DEF OneGrant, AwaitingMeansGranted, DeliveryProgress, Busy
  <2>4. WholeFrames'
      BY DEF WholeFrames, FullIsWhole, ReadingIsConsistent, Reading
  <2>5. (FullIsWhole /\ ReadingIsConsistent)'
      BY <2>1 DEF FullIsWhole, ReadingIsConsistent, Reading
  <2> QED
      BY <2>2, <2>3, <2>4, <2>5
<1>3. ASSUME UNCHANGED <<netVars, out, got, clock, old>>,
             start' \in 0 .. TickMod - 1, waited' \in 0 .. TimeoutTicks,
             pc' \in Waiting \cup {"idle", "clear", "send"},
             pc' \in Reading => pc' = "parse" /\ rxLen = "full"
      PROVE  IInv'
  <2> USE <1>3 DEF netVars
  <2>1. TypeOK'
      BY DEF TypeOK
  <2>2. (OneGrant /\ WholeFrames /\ AwaitingMeansGranted /\ DeliveryProgress /\ FullIsWhole)'
      BY DEF OneGrant, WholeFrames, AwaitingMeansGranted, DeliveryProgress, FullIsWhole, Busy
  <2>3. ReadingIsConsistent'
      BY DEF ReadingIsConsistent, Reading
  <2> QED
      BY <2>1, <2>2, <2>3
<1>4. ASSUME UNCHANGED <<netVars, got, timeVars, old>>,
             \/ pc = "parse" /\ pc' = "head" /\ rxBuf[1] \in ForUs
                  /\ out' = [out EXCEPT ![1] = rxBuf[1]]
             \/ pc = "head" /\ pc' = "tail" /\ out' = [out EXCEPT ![2] = rxBuf[2]]
      PROVE  IInv'
  <2> USE <1>4 DEF netVars
  <2>1. TypeOK'
      BY DEF TypeOK, timeVars, Waiting
  <2>2. (OneGrant /\ WholeFrames /\ AwaitingMeansGranted /\ DeliveryProgress /\ FullIsWhole)'
      BY DEF OneGrant, WholeFrames, AwaitingMeansGranted, DeliveryProgress, FullIsWhole, Busy
  <2>3. ReadingIsConsistent'
      BY DEF ReadingIsConsistent, Reading, TypeOK
  <2> QED
      BY <2>1, <2>2, <2>3
<1>5. CASE NetwOpenRx \/ NetwClearRx \/ DropFrame \/ ReturnFrame
    BY <1>2, <1>5 DEF NetwOpenRx, NetwClearRx, DropFrame, ReturnFrame, Goto
<1>6. CASE NetwSend
  <2>1. clock % TickMod \in 0 .. TickMod - 1 /\ 0 \in 0 .. TimeoutTicks
      BY TicksAssumption, SMT DEF TypeOK
  <2> QED
      BY <1>3, <1>6, <2>1 DEF NetwSend, Goto, Waiting, Reading
<1>7. CASE NetwSendFails \/ Timeout \/ NotYet \/ LookEmpty \/ LookFull
    BY <1>3, <1>7 DEF NetwSendFails, Timeout, NotYet, LookEmpty, LookFull, Goto,
                      Waiting, Reading, timeVars, TypeOK
<1>8. CASE CopyHead \/ CopyTail
    BY <1>4, <1>8 DEF CopyHead, CopyTail, Goto
<1> QED
    BY <1>5, <1>6, <1>7, <1>8 DEF Foreground

\* The invariant is inductive.
LEMMA StepInv == ASSUME ~Preempts, IInv, [Next]_vars PROVE IInv'
<1>1. CASE Next
    BY <1>1, DriverInv, TickInv, ForegroundInv DEF Next
<1>2. CASE UNCHANGED vars
    BY <1>2 DEF vars, netVars, fgVars, timeVars, IInv, TypeOK, OneGrant, WholeFrames,
                AwaitingMeansGranted, DeliveryProgress, FullIsWhole, ReadingIsConsistent, Busy
<1> QED
    BY <1>1, <1>2

LEMMA Invariance == ASSUME ~Preempts PROVE Spec => []IInv
<1>1. IInv /\ [Next]_vars => IInv'
    BY StepInv
<1> QED
    BY InitInv, <1>1, PTL DEF Spec

-----------------------------------------------------------------------------
(* The timer.                                                              *)

\* % is the remainder that division leaves.
LEMMA ModUnique ==
    ASSUME NEW M \in Nat \ {0}, NEW q \in Int, NEW r \in 0 .. M - 1, NEW x \in Int, x = M * q + r
    PROVE  x % M = r
OBVIOUS

\* The next tick in a counter of M values.
LEMMA ModSucc ==
    ASSUME NEW M \in Nat \ {0}, NEW c \in Nat
    PROVE  (c + 1) % M = IF (c % M) + 1 = M THEN 0 ELSE (c % M) + 1
<1>1. PICK q \in Int : q = c \div M
    OBVIOUS
<1>2. PICK r \in 0 .. M - 1 : r = c % M
    OBVIOUS
<1>3. c = M * q + r
    BY <1>1, <1>2
<1>4. CASE r + 1 = M
  <2>1. c + 1 = M * (q + 1) + 0
      BY <1>3, <1>4
  <2> QED
      BY <2>1, <1>2, <1>4, ModUnique
<1>5. CASE r + 1 # M
  <2>1. PICK s \in 0 .. M - 1 : s = r + 1
      BY <1>5
  <2>2. PICK x \in Int : x = c + 1
      OBVIOUS
  <2>3. x = M * q + s
      BY <1>3, <2>1, <2>2
  <2>4. x % M = s
      BY <2>3, ModUnique
  <2> QED
      BY <2>1, <2>2, <2>4, <1>2, <1>5
<1> QED
    BY <1>4, <1>5

\* One turn of the counter is taken off by %.
LEMMA ModTurn ==
    ASSUME NEW M \in Nat \ {0}, NEW x \in 0 .. M - 1
    PROVE  x % M = x /\ (x + M) % M = x
OBVIOUS

\* The 16-bit difference is the time waited, unless midnight came in between.
ClockIsStartAndWaited ==
    pc \in Waiting /\ waited <= clock =>
        clock % TickMod = IF start + waited < TickMod THEN start + waited
                          ELSE start + waited - TickMod

TimeInv ==
    /\ clock \in 0 .. DayTicks - 1 /\ start \in 0 .. TickMod - 1 /\ waited \in 0 .. TimeoutTicks
    /\ ClockIsStartAndWaited

LEMMA ElapsedIsWaited ==
    ASSUME TimeInv, pc \in Waiting, waited <= clock
    PROVE  Elapsed = waited
<1> USE TicksAssumption
<1>1. waited \in 0 .. TickMod - 1 /\ start \in 0 .. TickMod - 1
    BY DEF TimeInv
<1>2. (clock % TickMod) + TickMod - start \in {waited, waited + TickMod}
    BY <1>1 DEF TimeInv, ClockIsStartAndWaited
<1> QED
    BY <1>1, <1>2, ModTurn DEF Elapsed

LEMMA TimeStep == TimeInv /\ [Next]_vars => TimeInv'
<1> SUFFICES ASSUME TimeInv, [Next]_vars PROVE TimeInv'
    OBVIOUS
<1> USE TicksAssumption
<1>1. CASE UNCHANGED <<clock, start, waited>> /\ (pc' \in Waiting => pc \in Waiting)
    BY <1>1 DEF TimeInv, ClockIsStartAndWaited
<1>2. CASE NetwSend
  <2>1. start' = clock % TickMod /\ start' \in 0 .. TickMod - 1 /\ waited' = 0 /\ clock' = clock
      BY <1>2 DEF NetwSend, TimeInv
  <2> QED
      BY <2>1 DEF TimeInv, ClockIsStartAndWaited
<1>3. CASE Tick
  <2>1. clock \in Nat /\ clock % DayTicks = clock /\ clock' = (clock + 1) % DayTicks
      BY <1>3, ModTurn DEF Tick, TimeInv
  <2>2. clock' = IF clock + 1 = DayTicks THEN 0 ELSE clock + 1
      BY <2>1 DEF TimeInv
  <2>3. (clock + 1) % TickMod = IF (clock % TickMod) + 1 = TickMod THEN 0
                               ELSE (clock % TickMod) + 1
      BY <2>1, ModSucc
  <2>4. pc' = pc /\ start' = start
      BY <1>3 DEF Tick, fgVars
  <2>5. CASE pc \in Waiting
    <3>1. waited' = waited + 1 /\ waited' \in 0 .. TimeoutTicks
        BY <1>3, <2>5 DEF Tick, TimeInv
    <3>2. ASSUME waited' <= clock' PROVE clock' = clock + 1 /\ waited <= clock
        BY <3>1, <3>2, <2>1, <2>2 DEF TimeInv
    <3> QED
        BY <3>1, <3>2, <2>1, <2>2, <2>3, <2>4, <2>5 DEF TimeInv, ClockIsStartAndWaited
  <2>6. CASE pc \notin Waiting
      BY <1>3, <2>6, <2>1, <2>2, <2>4 DEF Tick, TimeInv, ClockIsStartAndWaited
  <2> QED
      BY <2>5, <2>6
<1>4. ASSUME NEW s \in Slot, Driver(s) PROVE TimeInv'
    BY <1>4, <1>1 DEF Driver, GrantBuffer, RefuseFrame, CopyFirstHalf, CopySecondHalf,
                      FrameDelivered, vars, fgVars, timeVars
<1>5. CASE Foreground
    BY <1>5, <1>1, <1>2 DEF Foreground, NetwOpenRx, NetwClearRx, NetwSendFails, Timeout, NotYet,
                      LookEmpty, LookFull, DropFrame, CopyHead, CopyTail, ReturnFrame, Goto,
                      Waiting, timeVars
<1>6. CASE UNCHANGED vars
    BY <1>6, <1>1 DEF vars
<1> QED
    BY <1>3, <1>4, <1>5, <1>6 DEF Next

-----------------------------------------------------------------------------

\* The variables of the receive path keep their types.
THEOREM TypeCorrect == ASSUME ~Preempts PROVE Spec => []TypeOK
<1>1. IInv => TypeOK
    BY DEF IInv
<1> QED
    BY Invariance, <1>1, PTL

\* RX_AWAITING keeps the buffer to one delivery (netw_pd_rcv.asm:21), and no
\* delivery writes it while netw_recv() reads it.
THEOREM BufferIsExclusive ==
    ASSUME ~Preempts PROVE Spec => []BufferExclusive
<1>1. IInv => BufferExclusive
    BY DEF IInv, BufferExclusive, OneGrant, NoWriterWhileReading, AwaitingMeansGranted,
           ReadingIsConsistent, Reading, Busy
<1> QED
    BY Invariance, <1>1, PTL

\* netw_recv() returns whole frames that passed its filters, received after the
\* last netw_clear_rx() (netw_pd.c:464).
THEOREM ReturnsAreWholeAndFresh ==
    ASSUME ~Preempts PROVE Spec => []WholeAndFresh
<1>1. IInv => WholeAndFresh
    BY DEF IInv, WholeAndFresh, FreshFrame, FullIsWhole, ReadingIsConsistent, Reading
<1> QED
    BY Invariance, <1>1, PTL

\* No wait is given up early, wherever the 16-bit timer was when it began, unless
\* midnight came into it; also when the foreground can preempt the driver.
THEOREM NeverGivesUpEarly == Spec => NeverEarly
<1>1. Init => TimeInv
    BY TicksAssumption DEF Init, TimeInv, ClockIsStartAndWaited, Waiting
<1>2. TimeInv /\ [Next]_vars =>
        [pc = "poll" /\ pc' \in {"clear", "idle"} /\ waited <= clock => waited >= TimeoutTicks]_vars
  <2> SUFFICES ASSUME TimeInv, Next, pc = "poll", pc' \in {"clear", "idle"}, waited <= clock
               PROVE  waited >= TimeoutTicks
      OBVIOUS
  <2>1. Timeout
    <3>1. ~Tick /\ \A s \in Slot : ~Driver(s)
        BY DEF Tick, Driver, GrantBuffer, RefuseFrame, CopyFirstHalf, CopySecondHalf,
               FrameDelivered, vars, fgVars
    <3> QED
        BY <3>1 DEF Next, Foreground, NetwOpenRx, NetwClearRx, NetwSend, NetwSendFails, NotYet,
                    LookEmpty, LookFull, DropFrame, CopyHead, CopyTail, ReturnFrame, Goto
  <2> QED
      BY <2>1, ElapsedIsWaited DEF Timeout, Waiting
<1> QED
    BY <1>1, <1>2, TimeStep, PTL DEF Spec, NeverEarly

\* The receive path implements the one-place mailbox.
THEOREM ImplementsMailbox == ASSUME ~Preempts PROVE Spec => MailboxSpec
<1> DEFINE mail == IF rxLen = "full" THEN rxBuf ELSE Nothing
<1>1. Init => Mailbox!MInit
    BY DEF Init, Mailbox!MInit, Mailbox!Nothing, Nothing
<1>2. ASSUME IInv, [Next]_vars PROVE [Mailbox!MNext]_<<mail, got>>
  <2> USE <1>2 DEF Mailbox!MNext, IInv
  <2>1. ASSUME NEW s \in Slot, Driver(s) PROVE [Mailbox!MNext]_<<mail, got>>
    <3>1. CASE FrameDelivered(s)
      <4> USE <3>1 DEF FrameDelivered
      <4>1. rxLen = "awaiting" /\ Busy(s)
          BY <2>1 DEF AwaitingMeansGranted, Busy
      <4>2. drv[s].frame \in Frame /\ rxBuf[1] = drv[s].frame /\ rxBuf[2] = drv[s].frame
          BY <4>1 DEF DeliveryProgress
      <4>3. rxBuf = <<drv[s].frame, drv[s].frame>>
          BY <4>2 DEF TypeOK
      <4> QED
          BY <4>1, <4>2, <4>3 DEF Mailbox!Put, Mailbox!Whole, Mailbox!Nothing, Nothing, fgVars
    <3>2. CASE RefuseFrame(s) \/ \E f \in Frame : GrantBuffer(s, f)
        BY <3>2 DEF RefuseFrame, GrantBuffer, vars, fgVars
    <3>3. CASE CopyFirstHalf(s) \/ CopySecondHalf(s)
      <4>1. Busy(s)
          BY <3>3 DEF CopyFirstHalf, CopySecondHalf, Busy
      <4>2. rxLen = "awaiting"
          BY <4>1 DEF AwaitingMeansGranted
      <4> QED
          BY <4>2, <3>3 DEF CopyFirstHalf, CopySecondHalf, fgVars
    <3> QED
        BY <2>1, <3>1, <3>2, <3>3 DEF Driver
  <2>2. CASE Tick
      BY <2>2 DEF Tick, netVars, fgVars
  <2>3. CASE NetwOpenRx \/ NetwClearRx \/ DropFrame
      BY <2>3 DEF NetwOpenRx, NetwClearRx, DropFrame, FreeBuffer, Mailbox!Discard,
                  Mailbox!Nothing, Nothing
  <2>4. CASE ReturnFrame
    <3>1. rxLen = "full" /\ out = rxBuf
        BY <2>4 DEF ReturnFrame, Goto, ReadingIsConsistent, Reading, TypeOK
    <3>2. rxBuf # Nothing
        BY <3>1, ForUsAssumption DEF FullIsWhole, Nothing
    <3> QED
        BY <2>4, <3>1, <3>2 DEF ReturnFrame, FreeBuffer, Mailbox!Take, Mailbox!Nothing, Nothing
  <2>5. CASE NetwSend \/ NetwSendFails \/ Timeout \/ NotYet \/ LookEmpty \/ LookFull
               \/ CopyHead \/ CopyTail
      BY <2>5 DEF NetwSend, NetwSendFails, Timeout, NotYet, LookEmpty, LookFull, CopyHead,
                  CopyTail, netVars
  <2>6. CASE UNCHANGED vars
      BY <2>6 DEF vars, netVars, fgVars
  <2> QED
      BY <2>1, <2>2, <2>3, <2>4, <2>5, <2>6 DEF Next, Foreground
<1>3. QED
    BY Invariance, <1>1, <1>2, PTL DEF Spec, MailboxSpec, Mailbox!MSpec, Mailbox!mboxVars
=============================================================================
