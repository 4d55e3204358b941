------------------------------- MODULE NetwRx -------------------------------
(***************************************************************************)
(* The receive path of TNFSDRV: the packet-driver callback pd_receiver_    *)
(* (netw_pd_rcv.asm) and the foreground that waits for a reply (netw_pd.c: *)
(* netw_open_rx, netw_clear_rx, netw_send, netw_recv, in the order         *)
(* tnfs_sendReceive() calls them).  They share one frame buffer, s_rx_buf, *)
(* and one word, s_rx_len.                                                 *)
(*                                                                         *)
(* A Slot is one delivery in progress inside the packet driver: AX=0 call, *)
(* copy of the two halves of the frame, AX=1 call.  Deliveries nest.       *)
(* Preempts says whether the foreground can run while a delivery is in     *)
(* progress (a driver that copies with interrupts enabled or by DMA); when *)
(* it is FALSE a delivery is one interrupt as far as the foreground sees.  *)
(***************************************************************************)
EXTENDS Integers

CONSTANTS Slot,          \* deliveries the driver may have in progress
          Frame,         \* frames on the wire
          ForUs,         \* those every filter of netw_recv() lets through
          NoFrame,
          Preempts,
          TimeoutTicks,  \* RECV_TIMEOUT_TICKS
          TickMod,       \* the 16 bits of the timer netw_recv() reads
          DayTicks       \* the BIOS count returns to 0 at midnight

ASSUME ForUsAssumption == ForUs \subseteq Frame /\ NoFrame \notin Frame
ASSUME PreemptsAssumption == Preempts \in BOOLEAN
ASSUME TicksAssumption ==
    /\ TimeoutTicks \in Nat \ {0} /\ TickMod \in Nat \ {0} /\ DayTicks \in Nat \ {0}
    /\ TimeoutTicks < TickMod /\ TickMod <= DayTicks

VARIABLES
    rxLen,     \* s_rx_len: "free" (0), "awaiting" (0xFFFF) or "full" (1..1514)
    rxBuf,     \* s_rx_buf, as its two halves
    drv,       \* per slot: how far the delivery is, its frame, see "old" below
    pc,        \* where the foreground is
    out,       \* the caller's buffer, as its two halves
    got,       \* the frame the last successful netw_recv() returned
    clock,     \* the BIOS tick count
    start,     \* the local "start" of netw_recv(): the low word of clock
    waited,    \* history: ticks that really passed since start, up to TimeoutTicks
    old        \* history: the frame in rxBuf was granted before the last clear

netVars == <<rxLen, rxBuf, drv>>
fgVars == <<pc, out, got>>
timeVars == <<clock, start, waited>>
vars == <<rxLen, rxBuf, drv, pc, out, got, clock, start, waited, old>>

Half == Frame \cup {NoFrame}
Nothing == <<NoFrame, NoFrame>>
NoDelivery == [st |-> "idle", frame |-> NoFrame, old |-> FALSE]
DeliveryStates == {"idle", "granted", "half", "copied"}
Waiting == {"poll", "look", "parse", "head", "tail"}

Init ==
    /\ rxLen = "free" /\ rxBuf = Nothing
    /\ drv = [s \in Slot |-> NoDelivery]
    /\ pc = "idle" /\ out = Nothing /\ got = Nothing
    /\ clock \in 0 .. DayTicks - 1 /\ start = 0 /\ waited = 0
    /\ old = FALSE

-----------------------------------------------------------------------------
(* The packet driver and its upcalls, in interrupt context.                *)

\* Mutant: a buffer that awaits a frame is granted again.
GrantAwaited(s, f) ==
    /\ drv[s].st = "idle"
    /\ rxLen # "full"
    /\ rxLen' = "awaiting"
    /\ drv' = [drv EXCEPT ![s] = [st |-> "granted", frame |-> f, old |-> FALSE]]
    /\ UNCHANGED <<rxBuf, fgVars, timeVars, old>>

\* AX=0 while s_rx_len is 0: the buffer is handed out and marked.
GrantBuffer(s, f) ==
    /\ drv[s].st = "idle"
    /\ rxLen = "free"
    /\ rxLen' = "awaiting"
    /\ drv' = [drv EXCEPT ![s] = [st |-> "granted", frame |-> f, old |-> FALSE]]
    /\ UNCHANGED <<rxBuf, fgVars, timeVars, old>>

\* AX=0 otherwise: ES:DI = 0, the driver drops the frame.
RefuseFrame(s) ==
    /\ drv[s].st = "idle"
    /\ rxLen # "free"
    /\ UNCHANGED vars

\* The driver copies the frame into the buffer it was given.
CopyFirstHalf(s) ==
    /\ drv[s].st = "granted"
    /\ rxBuf' = [rxBuf EXCEPT ![1] = drv[s].frame]
    /\ drv' = [drv EXCEPT ![s].st = "half"]
    /\ UNCHANGED <<rxLen, fgVars, timeVars, old>>

CopySecondHalf(s) ==
    /\ drv[s].st = "half"
    /\ rxBuf' = [rxBuf EXCEPT ![2] = drv[s].frame]
    /\ drv' = [drv EXCEPT ![s].st = "copied"]
    /\ UNCHANGED <<rxLen, fgVars, timeVars, old>>

\* AX=1: the length replaces RX_AWAITING.
FrameDelivered(s) ==
    /\ drv[s].st = "copied"
    /\ rxLen' = "full"
    /\ old' = drv[s].old
    /\ drv' = [drv EXCEPT ![s] = NoDelivery]
    /\ UNCHANGED <<rxBuf, fgVars, timeVars>>

Driver(s) ==
    \/ \E f \in Frame : GrantBuffer(s, f)
    \/ RefuseFrame(s) \/ CopyFirstHalf(s) \/ CopySecondHalf(s) \/ FrameDelivered(s)

\* The timer interrupt.  A wait is looked at once in TickMod - TimeoutTicks
\* ticks (most of an hour), so time need not run on after TimeoutTicks.
Tick ==
    /\ pc \in Waiting => waited < TimeoutTicks
    /\ clock' = (clock + 1) % DayTicks
    /\ waited' = IF pc \in Waiting THEN waited + 1 ELSE waited
    /\ UNCHANGED <<netVars, fgVars, start, old>>

-----------------------------------------------------------------------------
(* The foreground: one exchange of tnfs_sendReceive(), seen from below.    *)

ForegroundRuns == Preempts \/ \A s \in Slot : drv[s].st = "idle"

Goto(from, to) == ForegroundRuns /\ pc = from /\ pc' = to

\* s_rx_len = 0: what is in the buffer, or on its way to it, is now old.
FreeBuffer ==
    /\ rxLen' = "free"
    /\ drv' = [s \in Slot |->
                 IF drv[s].st = "idle" THEN drv[s] ELSE [drv[s] EXCEPT !.old = TRUE]]
    /\ old' = TRUE
    /\ UNCHANGED rxBuf

NetwOpenRx ==
    /\ Goto("idle", "clear")
    /\ FreeBuffer
    /\ UNCHANGED <<out, got, timeVars>>

\* Mutant: the buffer is not emptied between two attempts.
ClearsNothing ==
    /\ Goto("clear", "send")
    /\ old' = TRUE
    /\ UNCHANGED <<netVars, out, got, timeVars>>

NetwClearRx ==
    /\ Goto("clear", "send")
    /\ FreeBuffer
    /\ UNCHANGED <<out, got, timeVars>>

\* Mutant: the start is kept unreduced, as bios_ticks() in 32 bits.
StartsUnreduced ==
    /\ Goto("send", "poll")
    /\ start' = clock /\ waited' = 0
    /\ UNCHANGED <<netVars, out, got, clock, old>>

\* pd_send_pkt() succeeded: netw_recv() starts and samples the timer.
NetwSend ==
    /\ Goto("send", "poll")
    /\ start' = clock % TickMod /\ waited' = 0
    /\ UNCHANGED <<netVars, out, got, clock, old>>

\* netw_send() failed: a retry without a wait, or the end of the exchange.
NetwSendFails ==
    /\ ForegroundRuns /\ pc = "send" /\ pc' \in {"clear", "idle"}
    /\ UNCHANGED <<netVars, out, got, timeVars, old>>

\* Mutant: the difference the other way round.
ElapsedSwapped == (start + TickMod - (clock % TickMod)) % TickMod

\* (uint16_t)(bios_ticks() - start)
Elapsed == ((clock % TickMod) + TickMod - start) % TickMod

\* The deadline is tested before the buffer, on every turn of the loop.
Timeout ==
    /\ ForegroundRuns /\ pc = "poll"
    /\ Elapsed >= TimeoutTicks
    /\ pc' \in {"clear", "idle"}
    /\ UNCHANGED <<netVars, out, got, timeVars, old>>

NotYet ==
    /\ Goto("poll", "look")
    /\ Elapsed < TimeoutTicks
    /\ UNCHANGED <<netVars, out, got, timeVars, old>>

LookEmpty ==
    /\ Goto("look", "poll")
    /\ rxLen \in {"free", "awaiting"}
    /\ UNCHANGED <<netVars, out, got, timeVars, old>>

LookFull ==
    /\ Goto("look", "parse")
    /\ rxLen = "full"
    /\ UNCHANGED <<netVars, out, got, timeVars, old>>

\* Mutant: the deadline is tested only while the buffer is empty.
DropAndLook ==
    /\ Goto("parse", "look")
    /\ rxBuf[1] \notin ForUs
    /\ FreeBuffer
    /\ UNCHANGED <<out, got, timeVars>>

\* A frame that fails a filter frees the buffer; the wait goes on.
DropFrame ==
    /\ Goto("parse", "poll")
    /\ rxBuf[1] \notin ForUs
    /\ FreeBuffer
    /\ UNCHANGED <<out, got, timeVars>>

CopyHead ==
    /\ Goto("parse", "head")
    /\ rxBuf[1] \in ForUs
    /\ out' = [out EXCEPT ![1] = rxBuf[1]]
    /\ UNCHANGED <<netVars, got, timeVars, old>>

CopyTail ==
    /\ Goto("head", "tail")
    /\ out' = [out EXCEPT ![2] = rxBuf[2]]
    /\ UNCHANGED <<netVars, got, timeVars, old>>

\* Mutant: the buffer is not freed after the copy.
ReturnKeepsFrame ==
    /\ Goto("tail", "idle")
    /\ got' = out
    /\ UNCHANGED <<netVars, out, timeVars, old>>

ReturnFrame ==
    /\ Goto("tail", "idle")
    /\ got' = out
    /\ FreeBuffer
    /\ UNCHANGED <<out, timeVars>>

Foreground ==
    \/ NetwOpenRx \/ NetwClearRx \/ NetwSend \/ NetwSendFails \/ Timeout \/ NotYet
    \/ LookEmpty \/ LookFull \/ DropFrame \/ CopyHead \/ CopyTail \/ ReturnFrame

Next == (\E s \in Slot : Driver(s)) \/ Tick \/ Foreground

Spec == Init /\ [][Next]_vars

\* Interrupts end, the timer ticks, and the foreground is not starved by them.
FairSpec ==
    /\ Spec
    /\ \A s \in Slot : WF_vars(CopyFirstHalf(s) \/ CopySecondHalf(s) \/ FrameDelivered(s))
    /\ WF_vars(Tick)
    /\ SF_vars(Foreground /\ pc # "idle")

-----------------------------------------------------------------------------

\* Every variable stays in its range.
TypeOK ==
    /\ rxLen \in {"free", "awaiting", "full"}
    /\ rxBuf \in [1 .. 2 -> Half] /\ out \in [1 .. 2 -> Half] /\ got \in [1 .. 2 -> Half]
    /\ drv \in [Slot -> [st : DeliveryStates, frame : Half, old : BOOLEAN]]
    /\ pc \in Waiting \cup {"idle", "clear", "send"}
    /\ clock \in 0 .. DayTicks - 1 /\ start \in 0 .. TickMod - 1
    /\ waited \in 0 .. TimeoutTicks /\ old \in BOOLEAN

\* The one buffer is granted to one delivery at a time.
OneGrant ==
    \A s, t \in Slot : drv[s].st # "idle" /\ drv[t].st # "idle" => s = t

\* While netw_recv() inspects or copies a frame no delivery is under way.
NoWriterWhileReading ==
    pc \in {"parse", "head", "tail"} =>
        rxLen = "full" /\ \A s \in Slot : drv[s].st = "idle"

\* The buffer has one owner, a delivery or the reader: nothing locks s_rx_buf but
\* the value of s_rx_len, and RX_AWAITING is there so that two deliveries in one
\* burst do not both get it (netw_pd_rcv.asm:21).
BufferExclusive == OneGrant /\ NoWriterWhileReading

\* What was returned is one frame, whole, and one the filters accept.
WholeFrames ==
    got # Nothing => got[1] = got[2] /\ got[1] \in ForUs

\* The frame being returned was granted after netw_clear_rx().
FreshFrame == pc \in {"head", "tail"} => ~old

\* What netw_recv() returns is one whole frame for us, received in this exchange
\* and never left over in the buffer from the previous one (netw_pd.c:464).
WholeAndFresh == WholeFrames /\ FreshFrame

\* netw_recv() gives up only after RECV_TIMEOUT_TICKS really passed, wherever
\* in its 16-bit range the timer was when the wait began (netw_pd.c:40).  A wait
\* that midnight comes into is another matter: the count returns to 0 in the
\* middle of a turn, and the difference takes that for most of an hour.  It came
\* into this one if fewer ticks passed since midnight than since start.
NeverEarly ==
    [][pc = "poll" /\ pc' \in {"clear", "idle"} /\ waited <= clock
        => waited >= TimeoutTicks]_vars

\* Every wait ends: frames for others, however many, cannot hold netw_recv()
\* in its loop, which runs inside the DOS call of the application.
WaitEnds == (pc \in Waiting) ~> (pc \notin Waiting)

\* The receive path implements the one-place mailbox.
Mailbox == INSTANCE RxMailbox WITH
    mail <- IF rxLen = "full" THEN rxBuf ELSE Nothing,
    taken <- got

MailboxSpec == Mailbox!MSpec
=============================================================================
