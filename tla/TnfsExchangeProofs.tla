------------------------- MODULE TnfsExchangeProofs -------------------------
(***************************************************************************)
(* Proofs about TnfsExchange: the types for every value of the constants;  *)
(* the header check and at-most-once execution for every number of         *)
(* requests, retries, sessions, frames in flight and restarts of either    *)
(* side, and every range of sequence numbers.  The argument: the frames of *)
(* the session in use all belong to this life of the client (a session is  *)
(* adopted once, from the only reply that offers it), and are told apart   *)
(* by their numbers for as long as they may be in flight.                  *)
(***************************************************************************)
EXTENDS TnfsExchange, TLAPS

Busy == pc \in {"send", "wait"}

-----------------------------------------------------------------------------
(* Queues.                                                                 *)

\* Taking the head of a queue leaves a queue of what was in it.
LEMMA TailFacts ==
    ASSUME NEW S, NEW q \in Seq(S), q # <<>>
    PROVE  /\ Tail(q) \in Seq(S) /\ Head(q) \in S
           /\ Head(q) \in InFlight(q)
           /\ InFlight(Tail(q)) \subseteq InFlight(q)
           /\ Len(Tail(q)) = Len(q) - 1
           /\ \A i \in DOMAIN Tail(q) : i + 1 \in DOMAIN q /\ Tail(q)[i] = q[i + 1]
<1>1. Len(q) \in Nat /\ Len(q) > 0 /\ DOMAIN q = 1 .. Len(q)
    OBVIOUS
<1>2. Tail(q) \in Seq(S) /\ Head(q) = q[1] /\ q[1] \in S /\ Len(Tail(q)) = Len(q) - 1
    BY <1>1
<1>3. \A i \in DOMAIN Tail(q) : i + 1 \in DOMAIN q /\ Tail(q)[i] = q[i + 1]
    BY <1>1, <1>2
<1>4. Head(q) \in InFlight(q)
    BY <1>1, <1>2 DEF InFlight
<1>5. InFlight(Tail(q)) \subseteq InFlight(q)
    BY <1>3 DEF InFlight
<1> QED
    BY <1>2, <1>3, <1>4, <1>5

\* Appending adds one frame, at the end.
LEMMA AppendFacts ==
    ASSUME NEW S, NEW q \in Seq(S), NEW x \in S
    PROVE  /\ Append(q, x) \in Seq(S)
           /\ InFlight(Append(q, x)) \subseteq InFlight(q) \cup {x}
           /\ \A i \in DOMAIN Append(q, x) :
                 (i \in DOMAIN q /\ Append(q, x)[i] = q[i]) \/ (i = Len(q) + 1 /\ Append(q, x)[i] = x)
<1>1. /\ Append(q, x) \in Seq(S) /\ Len(q) \in Nat /\ DOMAIN q = 1 .. Len(q)
      /\ DOMAIN Append(q, x) = 1 .. Len(q) + 1
    OBVIOUS
<1>2. \A i \in DOMAIN Append(q, x) :
         (i \in DOMAIN q /\ Append(q, x)[i] = q[i]) \/ (i = Len(q) + 1 /\ Append(q, x)[i] = x)
    BY <1>1
<1> QED
    BY <1>1, <1>2 DEF InFlight

-----------------------------------------------------------------------------
(* Types.                                                                  *)

\* The retry counter is below its limit while an exchange runs.
TypeInv == TypeOK /\ (Busy => retry < SendRetries)

LEMMA NoMsgType == NoMsg \in Msg
BY ExchangeAssumption DEF NoMsg, Msg

LEMMA MsgFields ==
    ASSUME NEW m \in Msg
    PROVE  m.id \in Nat /\ m.sid \in 0 .. MaxSid /\ m.seq \in 0 .. SeqMod - 1
BY DEF Msg

\* A reply differs from its request in the code and, for a MOUNT, the session.
LEMMA AnswerFields ==
    ASSUME NEW m \in Msg, NEW c \in {"done", "badsid"}
    PROVE  /\ Answer(m, c) \in Msg /\ Answer(m, c).code = c
           /\ Answer(m, c).id = m.id /\ Answer(m, c).sid = m.sid
           /\ Answer(m, c).seq = m.seq /\ Answer(m, c).cmd = m.cmd
BY DEF Msg, Answer

LEMMA MountReplyFields ==
    ASSUME NEW m \in Msg, NEW s \in 0 .. MaxSid
    PROVE  /\ MountReply(m, s) \in Msg /\ MountReply(m, s).code = "done"
           /\ MountReply(m, s).id = m.id /\ MountReply(m, s).sid = s
           /\ MountReply(m, s).seq = m.seq /\ MountReply(m, s).cmd = m.cmd
BY DEF Msg, MountReply

LEMMA SeqSucc ==
    ASSUME NEW x \in 0 .. SeqMod - 1
    PROVE  (x + 1) % SeqMod = IF x + 1 = SeqMod THEN 0 ELSE x + 1
BY ExchangeAssumption, SMT

LEMMA ReplyType ==
    ASSUME NEW r \in Msg, toSrv \in Seq(Msg), toCli \in Seq(Msg), toSrv # <<>>, Reply(r)
    PROVE  toSrv' \in Seq(Msg) /\ toCli' \in Seq(Msg)
BY TailFacts, AppendFacts DEF Reply

\* The types are inductive.
LEMMA TypeStep == ASSUME TypeInv, [Next]_vars PROVE TypeInv'
<1> USE ExchangeAssumption DEF TypeInv, Busy
<1>1. ASSUME NEW cmd \in Cmd \cup {"mount"}, BeginExchange(cmd) PROVE TypeInv'
  <2> USE <1>1 DEF BeginExchange
  <2>1. nextSeq' \in 0 .. SeqMod - 1
      BY SeqSucc DEF TypeOK
  <2>2. req' \in Msg /\ box' \in Msg
      BY NoMsgType DEF TypeOK, Msg
  <2> QED
      BY <2>1, <2>2 DEF TypeOK, netVars, srvVars
<1>2. CASE Send
  <2> USE <1>2 DEF Send
  <2>1. toSrv' \in Seq(Msg)
      BY AppendFacts DEF TypeOK
  <2> QED
      BY <2>1, NoMsgType DEF TypeOK, srvVars
<1>3. CASE NoAnswer
    BY <1>3, NoMsgType DEF NoAnswer, Fail, TypeOK, srvVars, netVars
<1>4. CASE StaleReply
    BY <1>4, NoMsgType DEF StaleReply, Fail, TypeOK, srvVars, netVars
<1>5. CASE Accept
  <2>1. box.sid \in 0 .. MaxSid
      BY MsgFields DEF TypeOK
  <2> QED
      BY <1>5, <2>1, NoMsgType DEF Accept, Fail, TypeOK, srvVars, netVars
<1>6. CASE Reboot
  <2>1. /\ 0 \in 0 .. MaxSid /\ 0 \in 0 .. SeqMod - 1 /\ 0 \in 0 .. SendRetries
        /\ nReboots' \in 0 .. MaxReboots
      BY <1>6 DEF Reboot, TypeOK
  <2> QED
      BY <1>6, <2>1, NoMsgType, Zenon DEF Reboot, TypeOK, srvVars, netVars
<1>7. CASE Deliver
    BY <1>7, TailFacts DEF Deliver, TypeOK, srvVars
<1>8. CASE Lose
    BY <1>8, TailFacts DEF Lose, TypeOK, srvVars, cliVars
<1>9. CASE ServerMount
  <2> USE <1>9 DEF ServerMount
  <2>1. Head(toSrv) \in Msg
      BY TailFacts DEF TypeOK
  <2>2. MountReply(Head(toSrv), nSid + 1) \in Msg /\ nSid + 1 \in Sid
    <3>1. nSid + 1 \in Sid /\ nSid + 1 \in 0 .. MaxSid
        BY DEF TypeOK, Sid
    <3> QED
        BY <2>1, <3>1, MountReplyFields
  <2>3. toSrv' \in Seq(Msg) /\ toCli' \in Seq(Msg)
      BY <2>2, ReplyType DEF TypeOK
  <2> QED
      BY <2>2, <2>3 DEF TypeOK, Reply, cliVars
<1>10. CASE ServerExecute
  <2> USE <1>10 DEF ServerExecute
  <2>1. Head(toSrv) \in Msg
      BY TailFacts DEF TypeOK
  <2>2. Answer(Head(toSrv), "done") \in Msg /\ Head(toSrv).id \in Nat
      BY <2>1, AnswerFields, MsgFields DEF TypeOK
  <2>3. toSrv' \in Seq(Msg) /\ toCli' \in Seq(Msg)
      BY <2>2, ReplyType DEF TypeOK
  <2>4. nExec' \in Nat
    <3>1. nExec \in Nat /\ nExec' = nExec + 1
        BY Zenon DEF TypeOK
    <3> QED
        BY ONLY <3>1
  <2> QED
      BY <2>2, <2>3, <2>4 DEF TypeOK, Reply, cliVars
<1>11. CASE ServerRepeat
  <2> USE <1>11 DEF ServerRepeat
  <2>1. sess[Head(toSrv).sid] \in Msg
    <3>1. Head(toSrv) \in Msg
        BY TailFacts DEF TypeOK
    <3>2. Head(toSrv).sid \in Sid
        BY <3>1, MsgFields DEF Known, Sid
    <3> QED
        BY <3>2 DEF TypeOK
  <2>2. toSrv' \in Seq(Msg) /\ toCli' \in Seq(Msg)
      BY <2>1, ReplyType DEF TypeOK
  <2> QED
      BY <2>2 DEF TypeOK, Reply, cliVars, srvVars
<1>12. CASE ServerRefuse
  <2> USE <1>12 DEF ServerRefuse
  <2>1. Answer(Head(toSrv), "badsid") \in Msg
    <3>1. Head(toSrv) \in Msg
        BY TailFacts DEF TypeOK
    <3> QED
        BY <3>1, AnswerFields
  <2>2. toSrv' \in Seq(Msg) /\ toCli' \in Seq(Msg)
      BY <2>1, ReplyType DEF TypeOK
  <2> QED
      BY <2>2 DEF TypeOK, Reply, cliVars, srvVars
<1>13. CASE ServerRestart
    BY <1>13, NoMsgType DEF ServerRestart, TypeOK, cliVars, netVars
<1>14. CASE UNCHANGED vars
    BY <1>14 DEF vars, cliVars, netVars, srvVars, TypeOK
<1> QED
    BY <1>1, <1>2, <1>3, <1>4, <1>5, <1>6, <1>7, <1>8, <1>9, <1>10, <1>11, <1>12, <1>13, <1>14
    DEF Next, Client, Server

LEMMA TypeInit == Init => TypeInv
<1> SUFFICES ASSUME Init PROVE TypeInv
    OBVIOUS
<1>1. sess \in [Sid -> Msg]
    BY NoMsgType DEF Init
<1>2. toSrv \in Seq(Msg) /\ toCli \in Seq(Msg)
    BY DEF Init
<1>3. /\ 0 \in 0 .. MaxSid /\ 0 \in 0 .. SeqMod - 1 /\ 0 \in 0 .. SendRetries
      /\ 0 \in 0 .. MaxReq /\ 0 \in 0 .. MaxReboots /\ 0 \in Nat
    BY ExchangeAssumption
<1> QED
    BY <1>1, <1>2, <1>3, NoMsgType, Zenon DEF Init, TypeInv, TypeOK, Busy

\* Every variable of the exchange stays in its range, retries included.
THEOREM TypeCorrect == Spec => []TypeOK
<1>1. TypeInv => TypeOK
    BY DEF TypeInv
<1> QED
    BY TypeInit, TypeStep, <1>1, PTL DEF Spec

-----------------------------------------------------------------------------
(* The header check and at-most-once execution.                            *)

\* The sequence number of request id, counted back from the next one: no two
\* of the last SeqMod requests have the same.
SeqOf(id) ==
    IF nextSeq - (nReq + 1 - id) < 0 THEN nextSeq - (nReq + 1 - id) + SeqMod
                                     ELSE nextSeq - (nReq + 1 - id)

\* A frame of one of the last SeqMod requests.
Recent(m) == m.id \in 1 .. nReq /\ nReq < m.id + SeqMod

\* A frame of the session in use is numbered as prepareCommand did.
Numbered(m) == m.cmd # "mount" /\ m.sid = sid => m.seq = SeqOf(m.id)

\* The requests the server may still get, and the replies the client may.
Pending == InFlight(toSrv) \cup {m \in {req} : Busy}
Replies == InFlight(toCli) \cup {m \in {box} : m # NoMsg}

RequestInv(m) ==
    /\ Recent(m) /\ Numbered(m)
    /\ lastExec <= m.id /\ (m.id = nReq => m = req)
    /\ IF m.cmd = "mount" THEN m.sid = 0 /\ m.seq = 0 ELSE m.sid \in 1 .. nSid

\* Copies of a request are equal; within a session numbers tell requests apart.
PairInv ==
    \A m, p \in Pending :
        /\ m.id = p.id => m = p
        /\ m.cmd # "mount" /\ p.cmd # "mount" /\ m.sid = p.sid /\ m.seq = p.seq => m.id = p.id

\* Requests travel in the order they were made.
InOrder == \A i, j \in DOMAIN toSrv : i <= j => toSrv[i].id <= toSrv[j].id

\* A reply that reports a file operation done comes after its execution.
DoneInv(m) ==
    m.code = "done" =>
        IF m.cmd = "mount" THEN m.sid \in 1 .. nSid ELSE m.id <= lastExec

ReplyInv(m) ==
    /\ Recent(m) /\ Numbered(m) /\ DoneInv(m)
    /\ m.cmd # "mount" => m.sid \in 1 .. nSid

\* The number 0 was given to a request of this life no older than the frame.
StartsAfter(m) == \E first \in m.id .. nReq : SeqOf(first) = 0

\* What a session remembers: its last request executed, or its MOUNT.
Remembered(s) ==
    /\ s <= nSid /\ sess[s].sid = s /\ sess[s].code = "done"
    /\ sess[s].id \in 1 .. nReq /\ DoneInv(sess[s]) /\ Numbered(sess[s])
    /\ sess[s].cmd = "mount" => sess[s].seq = 0
    /\ s = sid => /\ Recent(sess[s])
                  /\ sess[s].cmd = "mount" => StartsAfter(sess[s])

\* A pending request of a session has the number remembered there only if it is
\* the request remembered, as it is if it was the last one executed.
Told(m, s) ==
    m.cmd # "mount" /\ m.sid = s =>
        /\ m.seq = sess[s].seq => sess[s].cmd # "mount" /\ sess[s].id = m.id
        /\ m.id = lastExec => m.seq = sess[s].seq

SessionInv ==
    \A s \in Sid : sess[s] # NoMsg => Remembered(s) /\ \A m \in Pending : Told(m, s)

\* A reply that offers a new session: no one has used it, and no one else offers it.
Offers(m) == m.cmd = "mount" /\ m.code = "done"
Unused(m) ==
    /\ m.sid # sid /\ sess[m.sid] \in {NoMsg, m}
    /\ \A p \in Pending \cup Replies : p.cmd # "mount" => p.sid # m.sid
OfferInv == \A m \in Replies : Offers(m) => Unused(m)
OfferedOnce ==
    /\ \A i, j \in DOMAIN toCli :
          Offers(toCli[i]) /\ Offers(toCli[j]) /\ toCli[i].sid = toCli[j].sid => i = j
    /\ box # NoMsg /\ Offers(box) => \A m \in InFlight(toCli) : Offers(m) => m.sid # box.sid

\* A life of the client begins with MOUNT, under the number 0 and without a session.
ClientInv ==
    /\ IF mounted THEN sid \in 1 .. nSid ELSE sid = 0
    /\ pc = "idle" /\ ~mounted => nextSeq = 0
    /\ pc = "off" => ~mounted
    /\ req.id = nReq
    /\ Busy => /\ nReq >= 1 /\ req.seq = SeqOf(nReq) /\ req.sid = sid
               /\ req.cmd = "mount" <=> ~mounted

FramesInv ==
    /\ \A m \in Pending : RequestInv(m)
    /\ \A m \in Replies : ReplyInv(m)
    /\ PairInv /\ SessionInv /\ OfferInv

IInv ==
    /\ TypeInv /\ lastExec <= nReq
    /\ FramesInv /\ InOrder /\ OfferedOnce /\ ClientInv

\* The initial states satisfy the invariant.
LEMMA InitInv == Init => IInv
<1> SUFFICES ASSUME Init PROVE IInv
    OBVIOUS
<1>1. InFlight(toSrv) = {} /\ InFlight(toCli) = {} /\ ~Busy /\ box = NoMsg
    BY DEF Init, InFlight, Busy
<1>2. Pending = {} /\ Replies = {}
    BY <1>1 DEF Pending, Replies
<1>3. InOrder /\ OfferedOnce
    BY <1>1 DEF Init, InOrder, OfferedOnce
<1>4. ClientInv /\ lastExec <= nReq
    BY <1>1 DEF Init, ClientInv, NoMsg
<1>5. FramesInv
    BY <1>2 DEF Init, FramesInv, PairInv, SessionInv, OfferInv
<1> QED
    BY TypeInit, <1>3, <1>4, <1>5 DEF IInv

\* A new request does not renumber the earlier ones of the window.
LEMMA SeqOfShift ==
    ASSUME TypeOK, nextSeq' = (nextSeq + 1) % SeqMod, nReq' = nReq + 1
    PROVE  /\ SeqOf(nReq)' = nextSeq
           /\ \A id \in 1 .. nReq : nReq' < id + SeqMod => SeqOf(id)' = SeqOf(id)
<1>1. nextSeq' = IF nextSeq + 1 = SeqMod THEN 0 ELSE nextSeq + 1
    BY SeqSucc DEF TypeOK
<1>2. nextSeq \in 0 .. SeqMod - 1 /\ nReq \in Nat /\ SeqMod \in Nat \ {0}
    BY ExchangeAssumption DEF TypeOK
<1> QED
    BY <1>1, <1>2 DEF SeqOf

\* A frame is pending when it is in flight or is the request being sent, and a
\* reply when it is in flight or in the receive buffer.
LEMMA FrameSets ==
    /\ \A m : m \in Pending <=> m \in InFlight(toSrv) \/ (Busy /\ m = req)
    /\ \A m : m \in Replies <=> m \in InFlight(toCli) \/ (box # NoMsg /\ m = box)
BY DEF Pending, Replies

\* What is said of the frames stays true while frames only disappear and no
\* request is made, executed or offered a session.
LEMMA FramesKept ==
    ASSUME FramesInv, UNCHANGED <<sid, nextSeq, nReq, nSid, lastExec, sess, req>>,
           Pending' \subseteq Pending, Replies' \subseteq Replies
    PROVE  FramesInv'
<1> USE DEF FramesInv
<1>1. \A m \in Pending' : RequestInv(m)'
    BY DEF RequestInv, Recent, Numbered, SeqOf
<1>2. \A m \in Replies' : ReplyInv(m)'
    BY DEF ReplyInv, Recent, Numbered, SeqOf, DoneInv
<1>3. PairInv'
    BY DEF PairInv
<1>4. SessionInv'
  <2>1. \A s \in Sid : sess[s] # NoMsg => Remembered(s)'
      BY DEF SessionInv, Remembered, Recent, Numbered, SeqOf, DoneInv, StartsAfter
  <2>2. \A s \in Sid : sess[s] # NoMsg => \A m \in Pending' : Told(m, s)'
      BY DEF SessionInv, Told
  <2> QED
      BY <2>1, <2>2 DEF SessionInv
<1>5. OfferInv'
    BY DEF OfferInv, Unused
<1> QED
    BY <1>1, <1>2, <1>3, <1>4, <1>5

\* A new request does not renumber the frames of the window.
LEMMA RecentKept ==
    ASSUME TypeOK, nextSeq' = (nextSeq + 1) % SeqMod, nReq' = nReq + 1, UNCHANGED sid,
           NEW m, Recent(m), nReq + 1 < m.id + SeqMod
    PROVE  /\ Recent(m)' /\ (Numbered(m) => Numbered(m)')
           /\ StartsAfter(m) => StartsAfter(m)'
<1>1. nReq \in Nat /\ SeqMod \in Nat /\ m.id \in 1 .. nReq
    BY ExchangeAssumption DEF TypeOK, Recent
<1>2. \A id \in 1 .. nReq : nReq' < id + SeqMod => SeqOf(id)' = SeqOf(id)
    BY SeqOfShift
<1>3. Recent(m)'
    BY <1>1 DEF Recent
<1>4. Numbered(m) => Numbered(m)'
    BY <1>1, <1>2 DEF Numbered
<1>5. ASSUME StartsAfter(m) PROVE StartsAfter(m)'
  <2>1. PICK first \in m.id .. nReq : SeqOf(first) = 0
      BY <1>5 DEF StartsAfter
  <2>2. SeqOf(first)' = 0 /\ first \in m.id .. nReq'
      BY <1>1, <1>2, <2>1
  <2> QED
      BY <2>2 DEF StartsAfter
<1> QED
    BY <1>3, <1>4, <1>5

\* A new request has none of the numbers of the window.
LEMMA NewSeqDiffers ==
    ASSUME TypeOK, nextSeq' = (nextSeq + 1) % SeqMod, nReq' = nReq + 1,
           NEW id \in 1 .. nReq, nReq + 1 < id + SeqMod
    PROVE  SeqOf(id)' # nextSeq
<1>1. nextSeq' = IF nextSeq + 1 = SeqMod THEN 0 ELSE nextSeq + 1
    BY SeqSucc DEF TypeOK
<1>2. nextSeq \in 0 .. SeqMod - 1 /\ nReq \in Nat /\ SeqMod \in Nat \ {0}
    BY ExchangeAssumption DEF TypeOK
<1> QED
    BY <1>1, <1>2 DEF SeqOf

\* Starting an exchange.
LEMMA BeginInv ==
    ASSUME IInv, TypeInv', NEW cmd \in Cmd \cup {"mount"}, BeginExchange(cmd)
    PROVE  IInv'
<1> USE DEF IInv, TypeInv, BeginExchange, netVars, srvVars
<1>1. /\ nReq \in Nat /\ lastExec \in Nat /\ SeqMod \in Nat \ {0} /\ nSid \in Nat
      /\ nReq' = nReq + 1 /\ lastExec' = lastExec /\ nSid' = nSid /\ sid' = sid /\ sess' = sess
      /\ lastExec <= nReq
    BY ExchangeAssumption DEF TypeOK
<1>r. PICK r : r = req'
    OBVIOUS
<1>2. /\ r = req' /\ r.id = nReq + 1 /\ r.sid = sid /\ r.seq = nextSeq /\ r.cmd = cmd
      /\ SeqOf(r.id)' = nextSeq
  <2>1. SeqOf(nReq)' = nextSeq
      BY SeqOfShift
  <2> QED
      BY <1>r, <1>1, <2>1
<1>3. /\ \A m : m \in Pending <=> m \in InFlight(toSrv)
      /\ \A m : m \in Pending' <=> m \in Pending \/ m = r
      /\ \A m \in Replies' : m \in InFlight(toCli) /\ m \in Replies
    BY <1>r, FrameSets DEF Busy, Pending, Replies
<1>4. \A m \in Pending : RequestInv(m) /\ Recent(m)' /\ Numbered(m)'
    BY <1>3, RecentKept DEF FramesInv, RequestInv, WithinWindow
<1>5. /\ Recent(r)' /\ Numbered(r)'
      /\ IF r.cmd = "mount" THEN r.sid = 0 /\ r.seq = 0 ELSE r.sid \in 1 .. nSid
  <2>1. IF cmd = "mount" THEN sid = 0 /\ nextSeq = 0 ELSE sid \in 1 .. nSid
      BY DEF ClientInv
  <2> QED
      BY <1>1, <1>2, <2>1 DEF Recent, Numbered
<1>6. \A m \in Pending' : RequestInv(m)'
  <2>1. \A m \in Pending : RequestInv(m)'
      BY <1>1, <1>4 DEF RequestInv, Recent
  <2>2. RequestInv(r)'
      BY <1>1, <1>2, <1>5 DEF RequestInv
  <2> QED
      BY <1>3, <2>1, <2>2
<1>7. \A m \in Replies' : ReplyInv(m)'
    BY <1>1, <1>3, RecentKept DEF FramesInv, ReplyInv, DoneInv, WithinWindow
<1>8. PairInv'
  <2>1. ASSUME NEW m \in Pending
        PROVE  m.id # r.id /\ ~(m.cmd # "mount" /\ m.sid = r.sid /\ m.seq = r.seq)
    <3>1. m.id \in 1 .. nReq /\ Recent(m)' /\ Numbered(m)'
        BY <1>4 DEF RequestInv, Recent
    <3>2. m.cmd # "mount" /\ m.sid = r.sid => m.seq = SeqOf(m.id)'
        BY <1>1, <1>2, <3>1 DEF Numbered
    <3>3. SeqOf(m.id)' # nextSeq
        BY <1>1, <3>1, NewSeqDiffers DEF Recent
    <3> QED
        BY <1>1, <1>2, <3>1, <3>2, <3>3
  <2>2. \A m, p \in Pending :
           /\ m.id = p.id => m = p
           /\ m.cmd # "mount" /\ p.cmd # "mount" /\ m.sid = p.sid /\ m.seq = p.seq => m.id = p.id
      BY DEF FramesInv, PairInv
  <2> QED
      BY <1>3, <2>1, <2>2 DEF PairInv
<1>9. SessionInv'
  <2> SUFFICES ASSUME NEW s \in Sid, sess[s] # NoMsg
               PROVE  Remembered(s)' /\ \A m \in Pending' : Told(m, s)'
      BY DEF SessionInv
  <2>1. Remembered(s) /\ \A m \in Pending : Told(m, s)
      BY DEF FramesInv, SessionInv
  <2>x. PICK x : x = sess[s]
      OBVIOUS
  <2>2. s = sid => Recent(x) /\ Recent(x)' /\ Numbered(x)' /\ (x.cmd = "mount" => StartsAfter(x)')
    <3>1. s = sid => Recent(x) /\ nReq + 1 < x.id + SeqMod
        BY <2>1, <2>x DEF Remembered, WithinWindow, Sid
    <3> QED
        BY <2>1, <2>x, <3>1, RecentKept DEF Remembered
  <2>3. Remembered(s)'
    <3>1. /\ s <= nSid /\ x.sid = s /\ x.code = "done" /\ x.id \in 1 .. nReq /\ DoneInv(x)
          /\ x.cmd = "mount" => x.seq = 0
        BY <2>1, <2>x DEF Remembered
    <3>2. DoneInv(x)' /\ Numbered(x)' /\ x.id \in 1 .. nReq'
        BY <1>1, <2>2, <3>1 DEF DoneInv, Numbered
    <3>3. sess'[s] = x
        BY <1>1, <2>x
    <3> QED
        BY <1>1, <2>2, <3>1, <3>2, <3>3
        DEF Remembered, DoneInv, Numbered, Recent, StartsAfter, SeqOf
  <2>4. \A m \in Pending : Told(m, s)'
      BY <1>1, <2>1 DEF Told
  <2>5. Told(r, s)'
    <3> SUFFICES ASSUME r.cmd # "mount", sid = s PROVE x.seq # nextSeq /\ r.id # lastExec
        BY <1>1, <1>2, <2>x DEF Told
    <3>1. x.id \in 1 .. nReq /\ x.sid = s /\ (x.cmd = "mount" => x.seq = 0)
        BY <2>1, <2>x DEF Remembered
    <3>2. PICK i \in x.id .. nReq : x.seq = SeqOf(i)'
      <4>1. CASE x.cmd = "mount"
        <5>1. PICK i \in x.id .. nReq : SeqOf(i) = 0
            BY <2>1, <2>x, <4>1 DEF Remembered, StartsAfter
        <5>2. nReq + 1 < i + SeqMod /\ i \in 1 .. nReq
            BY <1>1, <2>x, <3>1, <5>1 DEF WithinWindow, Sid
        <5> QED
            BY <1>1, <3>1, <4>1, <5>1, <5>2, SeqOfShift
      <4>2. CASE x.cmd # "mount"
          BY <1>1, <2>2, <3>1, <4>2 DEF Numbered
      <4> QED
          BY <4>1, <4>2
    <3>3. i \in 1 .. nReq /\ nReq + 1 < i + SeqMod
        BY <1>1, <2>x, <3>1, <3>2 DEF WithinWindow, Sid
    <3>4. SeqOf(i)' # nextSeq
        BY <1>1, <3>3, NewSeqDiffers
    <3> QED
        BY <1>1, <1>2, <3>2, <3>4
  <2> QED
      BY <1>3, <2>3, <2>4, <2>5
<1>10. OfferInv'
  <2> SUFFICES ASSUME NEW m \in Replies', Offers(m) PROVE Unused(m)'
      BY DEF OfferInv
  <2>1. Unused(m)
      BY <1>3 DEF FramesInv, OfferInv
  <2> QED
      BY <1>1, <1>2, <1>3, <2>1 DEF Unused
<1>11. InOrder' /\ OfferedOnce'
    BY DEF InOrder, OfferedOnce
<1>12. ClientInv'
    BY <1>1, <1>2, <1>r DEF ClientInv, Busy
<1> QED
    BY <1>1, <1>6, <1>7, <1>8, <1>9, <1>10, <1>11, <1>12 DEF FramesInv

\* Removing the first request keeps the order, and it was the oldest.
LEMMA TailInOrder ==
    ASSUME TypeOK, InOrder, toSrv # <<>>, toSrv' = Tail(toSrv)
    PROVE  /\ InOrder'
           /\ InFlight(toSrv)' \subseteq InFlight(toSrv)
           /\ Head(toSrv) \in InFlight(toSrv) /\ Head(toSrv) \in Msg
           /\ \A m \in InFlight(toSrv) : Head(toSrv).id <= m.id
<1>1. toSrv \in Seq(Msg) /\ Len(toSrv) \in Nat /\ Len(toSrv) >= 1 /\ DOMAIN toSrv = 1 .. Len(toSrv)
    BY DEF TypeOK
<1>2. \A i \in DOMAIN toSrv' : i + 1 \in DOMAIN toSrv /\ toSrv'[i] = toSrv[i + 1]
    BY <1>1, TailFacts
<1>3. InOrder'
  <2> SUFFICES ASSUME NEW i \in DOMAIN toSrv', NEW j \in DOMAIN toSrv', i <= j
               PROVE  toSrv'[i].id <= toSrv'[j].id
      BY DEF InOrder
  <2>1. i + 1 \in DOMAIN toSrv /\ j + 1 \in DOMAIN toSrv /\ i \in Int /\ j \in Int
      BY <1>1, <1>2
  <2> QED
      BY <1>2, <2>1 DEF InOrder
<1>4. \A m \in InFlight(toSrv) : Head(toSrv).id <= m.id
  <2> SUFFICES ASSUME NEW i \in DOMAIN toSrv PROVE toSrv[1].id <= toSrv[i].id
      BY <1>1 DEF InFlight
  <2> QED
      BY <1>1 DEF InOrder
<1> QED
    BY <1>1, <1>3, <1>4, TailFacts DEF InFlight

\* Sending the request: it was pending already, and is the newest in flight.
LEMMA SendInv == ASSUME IInv, TypeInv', Send PROVE IInv'
<1> USE DEF IInv, TypeInv, Send, srvVars
<1>1. /\ InFlight(toSrv)' \subseteq InFlight(toSrv) \cup {req}
      /\ \A i \in DOMAIN toSrv' : (i \in DOMAIN toSrv /\ toSrv'[i] = toSrv[i])
                                   \/ (i = Len(toSrv) + 1 /\ toSrv'[i] = req)
    BY AppendFacts, SMTT(30) DEF TypeOK, InFlight
<1>2. Pending' \subseteq Pending /\ Replies' \subseteq Replies
    BY <1>1 DEF Pending, Replies, Busy
<1>3. FramesInv'
    BY <1>2, FramesKept
<1>4. InOrder'
  <2>1. \A i \in DOMAIN toSrv : toSrv[i].id <= nReq /\ toSrv[i].id \in Nat
      BY DEF InFlight, FramesInv, Pending, RequestInv, Recent
  <2>2. req.id = nReq /\ nReq \in Nat
      BY DEF ClientInv, TypeOK
  <2>3. Len(toSrv) \in Nat /\ DOMAIN toSrv = 1 .. Len(toSrv)
      BY DEF TypeOK
  <2> QED
      BY <1>1, <2>1, <2>2, <2>3 DEF InOrder
<1>5. OfferedOnce' /\ ClientInv'
    BY DEF OfferedOnce, ClientInv, Busy, SeqOf
<1> QED
    BY <1>3, <1>4, <1>5

\* An exchange that ends, or tries again, in the same session.
LEMMA SameSession ==
    ASSUME IInv, TypeInv', UNCHANGED <<nextSeq, req, netVars, srvVars, nReq, sid, mounted>>,
           Busy, box' = box \/ box' = NoMsg, pc' \in {"send", "idle", "off"},
           pc' = "idle" => mounted, pc' = "off" => ~mounted
    PROVE  IInv'
<1> USE DEF IInv, netVars, srvVars
<1>1. Pending' \subseteq Pending /\ Replies' \subseteq Replies
    BY DEF Pending, Replies, Busy
<1>2. FramesInv'
    BY <1>1, FramesKept
<1>3. InOrder' /\ OfferedOnce' /\ ClientInv'
    BY DEF InOrder, OfferedOnce, ClientInv, Busy, SeqOf
<1> QED
    BY <1>2, <1>3

\* tnfs_mount() adopts a session that is offered nowhere else and that no frame
\* carries, so that nothing of an earlier life of the machine is taken for its.
LEMMA AdoptInv ==
    ASSUME IInv, TypeInv', Accept, box.code = "done", req.cmd = "mount"
    PROVE  IInv'
<1> USE DEF IInv, TypeInv, Accept, netVars, srvVars
<1>x. PICK x : x = box
    OBVIOUS
<1>1. /\ x \in Replies /\ Offers(x) /\ ReplyInv(x) /\ Unused(x) /\ x.seq = req.seq
      /\ x.sid \in 1 .. nSid
    BY <1>x DEF Matches, Offers, Replies, FramesInv, OfferInv, ReplyInv, DoneInv
<1>2. /\ sid' = x.sid /\ sid = 0 /\ Busy /\ ~Busy' /\ box' = NoMsg /\ mounted' = TRUE
      /\ UNCHANGED <<nextSeq, nReq, nSid, lastExec, sess, req, toSrv, toCli>>
    BY <1>x DEF ClientInv, Busy
<1>3. /\ \A m \in Pending' : m \in Pending
      /\ \A m \in Replies' : m \in Replies /\ m \in InFlight(toCli)
    BY <1>2 DEF Pending, Replies
<1>4. \A m \in Pending \cup Replies : m.cmd # "mount" => m.sid # x.sid
    BY <1>1 DEF Unused
<1>5. \A m \in Pending' : RequestInv(m)'
    BY <1>2, <1>3, <1>4 DEF FramesInv, RequestInv, Recent, Numbered
<1>6. \A m \in Replies' : ReplyInv(m)'
    BY <1>2, <1>3, <1>4 DEF FramesInv, ReplyInv, Recent, Numbered, DoneInv
<1>7. PairInv'
    BY <1>3 DEF FramesInv, PairInv
<1>8. SessionInv'
  <2> SUFFICES ASSUME NEW s \in Sid, sess[s] # NoMsg
               PROVE  Remembered(s)' /\ \A m \in Pending' : Told(m, s)'
      BY <1>2 DEF SessionInv
  <2>1. Remembered(s) /\ \A m \in Pending : Told(m, s)
      BY DEF FramesInv, SessionInv
  <2>2. s = x.sid => sess[s] = x
      BY <1>1 DEF Unused
  <2>3. StartsAfter(x)
    <3>1. nReq \in x.id .. nReq /\ SeqOf(nReq) = 0
      <4>1. req \in Pending /\ req.seq = SeqOf(nReq) /\ req.seq = 0
          BY <1>2 DEF ClientInv, FramesInv, Pending, RequestInv
      <4> QED
          BY <1>1, <4>1 DEF ReplyInv, Recent, TypeOK
    <3> QED
        BY <3>1 DEF StartsAfter
  <2>4. Remembered(s)'
    <3>1. CASE s = x.sid
        BY <1>1, <1>2, <2>1, <2>2, <2>3, <3>1
        DEF Remembered, Offers, ReplyInv, Recent, Numbered, DoneInv, StartsAfter, SeqOf
    <3>2. CASE s # x.sid
        BY <1>2, <2>1, <3>2 DEF Remembered, Numbered, DoneInv
    <3> QED
        BY <3>1, <3>2
  <2> QED
      BY <1>2, <1>3, <2>1, <2>4 DEF Told
<1>9. OfferInv'
  <2> SUFFICES ASSUME NEW m \in Replies', Offers(m) PROVE Unused(m)'
      BY DEF OfferInv
  <2>1. Unused(m) /\ m.sid # x.sid
      BY <1>x, <1>1, <1>3 DEF FramesInv, OfferInv, OfferedOnce, Offers, NoMsg
  <2> QED
      BY <1>2, <1>3, <2>1 DEF Unused
<1>10. InOrder' /\ OfferedOnce'
    BY <1>2 DEF InOrder, OfferedOnce
<1>11. ClientInv'
    BY <1>1, <1>2 DEF ClientInv
<1> QED
    BY <1>2, <1>5, <1>6, <1>7, <1>8, <1>9, <1>10, <1>11 DEF FramesInv

\* The client's steps.
LEMMA ClientStepInv == ASSUME IInv, TypeInv', Client PROVE IInv'
<1>1. ASSUME NEW cmd \in Cmd \cup {"mount"}, BeginExchange(cmd) PROVE IInv'
    BY <1>1, BeginInv
<1>2. CASE Send
    BY <1>2, SendInv
<1>3. CASE NoAnswer
    BY <1>3, SameSession DEF NoAnswer, Fail, Busy
<1>4. CASE StaleReply
    BY <1>4, SameSession DEF StaleReply, Fail, Busy
<1>5. CASE Accept
  <2>1. CASE box.code # "done"
      BY <1>5, <2>1, SameSession DEF Accept, Fail, Busy
  <2>2. CASE box.code = "done" /\ req.cmd # "mount"
    <3>1. mounted /\ Busy
        BY <1>5, <2>2 DEF Accept, Busy, IInv, ClientInv
    <3> QED
        BY <1>5, <2>2, <3>1, SameSession DEF Accept
  <2>3. CASE box.code = "done" /\ req.cmd = "mount"
      BY <1>5, <2>3, AdoptInv
  <2> QED
      BY <2>1, <2>2, <2>3
<1> QED
    BY <1>1, <1>2, <1>3, <1>4, <1>5 DEF Client

\* A reset: no session is in use, and what is in flight belongs to others.
LEMMA RebootInv == ASSUME IInv, TypeInv', Reboot PROVE IInv'
<1> USE DEF IInv, TypeInv, Reboot, netVars, srvVars
<1>1. /\ ~Busy' /\ \A m \in Pending' : m \in Pending
      /\ \A m \in Replies' : m \in Replies
    BY DEF Pending, Replies, Busy
<1>2. \A m \in Pending' : RequestInv(m)'
    BY <1>1 DEF FramesInv, RequestInv, Recent, Numbered
<1>3. \A m \in Replies' : ReplyInv(m)'
    BY <1>1 DEF FramesInv, ReplyInv, Recent, Numbered, DoneInv
<1>4. PairInv'
    BY <1>1 DEF FramesInv, PairInv
<1>5. SessionInv'
  <2>1. \A s \in Sid : Remembered(s) => Remembered(s)'
      BY DEF Remembered, Numbered, DoneInv, Sid
  <2>2. \A s \in Sid, m \in Pending' : Told(m, s) => Told(m, s)'
      BY DEF Told
  <2> QED
      BY <1>1, <2>1, <2>2 DEF FramesInv, SessionInv
<1>6. OfferInv'
  <2>1. \A m \in Replies' : Offers(m) => m.sid # 0
      BY <1>1 DEF FramesInv, ReplyInv, DoneInv, Offers
  <2> QED
      BY <1>1, <2>1 DEF FramesInv, OfferInv, Unused
<1>7. InOrder' /\ OfferedOnce' /\ ClientInv'
    BY <1>1 DEF InOrder, OfferedOnce, ClientInv
<1> QED
    BY <1>2, <1>3, <1>4, <1>5, <1>6, <1>7 DEF FramesInv

\* The network.
LEMMA NetworkInv == ASSUME IInv, TypeInv', Deliver \/ Lose PROVE IInv'
<1> USE DEF IInv, TypeInv
<1>1. UNCHANGED <<nextSeq, nReq, sid, mounted, nSid, lastExec, sess, pc, req>>
    BY DEF Deliver, Lose, cliVars, srvVars
<1>2. InOrder' /\ InFlight(toSrv)' \subseteq InFlight(toSrv)
    BY TailInOrder DEF Deliver, Lose, InOrder, InFlight
<1>3. \/ toCli' = toCli /\ box' = box
      \/ /\ toCli # <<>> /\ toCli' = Tail(toCli)
         /\ box' = box \/ (box = NoMsg /\ box' = Head(toCli))
    BY DEF Deliver, Lose, cliVars
<1>4. InFlight(toCli)' \subseteq InFlight(toCli) /\ (toCli # <<>> => Head(toCli) \in InFlight(toCli))
  <2>1. toCli \in Seq(Msg)
      BY DEF TypeOK
  <2>2. toCli # <<>> => /\ InFlight(Tail(toCli)) \subseteq InFlight(toCli)
                        /\ Head(toCli) \in InFlight(toCli)
      BY <2>1, TailFacts
  <2>3. InFlight(toCli)' = InFlight(toCli')
      BY DEF InFlight
  <2>4. CASE toCli' = toCli
      BY <2>2, <2>3, <2>4
  <2>5. CASE toCli # <<>> /\ toCli' = Tail(toCli)
      BY <2>2, <2>3, <2>5
  <2> QED
      BY <1>3, <2>4, <2>5
<1>5. Pending' \subseteq Pending /\ Replies' \subseteq Replies
    BY <1>1, <1>2, <1>3, <1>4 DEF Pending, Replies, Busy
<1>6. FramesInv'
    BY <1>1, <1>5, FramesKept
<1>7. OfferedOnce'
  <2>1. CASE toCli' = toCli /\ box' = box
      BY <2>1 DEF OfferedOnce, InFlight
  <2>2. CASE toCli # <<>> /\ toCli' = Tail(toCli)
    <3>1. /\ 1 \in DOMAIN toCli /\ Head(toCli) = toCli[1] /\ DOMAIN toCli \subseteq Int
          /\ DOMAIN toCli' \subseteq Int
          /\ \A i \in DOMAIN toCli' : i + 1 \in DOMAIN toCli /\ toCli'[i] = toCli[i + 1] /\ i > 0
      <4>1. PICK q \in Seq(Msg) : q = toCli
          BY DEF TypeOK
      <4>2. /\ Len(q) \in Nat /\ Len(q) >= 1 /\ DOMAIN q = 1 .. Len(q) /\ Head(q) = q[1]
            /\ DOMAIN Tail(q) = 1 .. Len(q) - 1
          BY <2>2, <4>1
      <4>3. \A i \in DOMAIN Tail(q) : i + 1 \in DOMAIN q /\ Tail(q)[i] = q[i + 1]
          BY <2>2, <4>1, TailFacts
      <4> QED
          BY <2>2, <4>1, <4>2, <4>3
    <3>2. \A i, j \in DOMAIN toCli' :
             Offers(toCli'[i]) /\ Offers(toCli'[j]) /\ toCli'[i].sid = toCli'[j].sid => i = j
        BY <3>1 DEF OfferedOnce
    <3>3. ASSUME box' # NoMsg, Offers(box'), NEW m \in InFlight(toCli'), Offers(m)
          PROVE  m.sid # box'.sid
      <4>1. PICK i \in DOMAIN toCli' : m = toCli'[i]
          BY <3>3 DEF InFlight
      <4>2. CASE box' = box
          BY <1>4, <3>3, <4>2 DEF OfferedOnce, InFlight
      <4>3. CASE box' = Head(toCli)
          BY <3>1, <3>3, <4>1, <4>3 DEF OfferedOnce
      <4> QED
          BY <1>3, <2>2, <4>2, <4>3
    <3> QED
        BY <3>2, <3>3 DEF OfferedOnce, InFlight, Offers
  <2> QED
      BY <1>3, <2>1, <2>2
<1>8. ClientInv'
    BY <1>1 DEF ClientInv, Busy, SeqOf
<1> QED
    BY <1>1, <1>2, <1>6, <1>7, <1>8

-----------------------------------------------------------------------------
(* The server.                                                             *)

\* What a server step does to the queues.
LEMMA ReplyFacts ==
    ASSUME IInv, toSrv # <<>>, NEW r \in Msg, Reply(r)
    PROVE  /\ InOrder'
           /\ \A m \in Pending' : m \in Pending
           /\ \A m \in Replies' : m \in Replies \/ m = r
           /\ Head(toSrv) \in Pending /\ Head(toSrv) \in Msg
           /\ \A m \in Pending : Head(toSrv).id <= m.id
           /\ \A i \in DOMAIN toCli' : (i \in DOMAIN toCli /\ toCli'[i] = toCli[i])
                                        \/ (i = Len(toCli) + 1 /\ toCli'[i] = r)
           /\ UNCHANGED <<sid, mounted, nextSeq, pc, req, retry, box, nReq, nReboots, res>>
<1> USE DEF IInv, TypeInv
<1>1. UNCHANGED <<sid, mounted, nextSeq, pc, req, retry, box, nReq, nReboots, res>>
    BY DEF Reply, cliVars
<1>2. /\ InOrder' /\ InFlight(toSrv)' \subseteq InFlight(toSrv)
      /\ Head(toSrv) \in InFlight(toSrv) /\ Head(toSrv) \in Msg
      /\ \A m \in InFlight(toSrv) : Head(toSrv).id <= m.id
    BY TailInOrder DEF Reply
<1>3. /\ InFlight(toCli)' \subseteq InFlight(toCli) \cup {r}
      /\ \A i \in DOMAIN toCli' : (i \in DOMAIN toCli /\ toCli'[i] = toCli[i])
                                   \/ (i = Len(toCli) + 1 /\ toCli'[i] = r)
    BY AppendFacts DEF TypeOK, Reply, InFlight
<1>4. /\ \A m \in Pending' : m \in Pending
      /\ \A m \in Replies' : m \in Replies \/ m = r
      /\ Head(toSrv) \in Pending
    BY <1>1, <1>2, <1>3 DEF Pending, Replies, Busy
<1>5. Head(toSrv).id <= req.id
    BY <1>4 DEF FramesInv, RequestInv, Recent, ClientInv, TypeOK
<1> QED
    BY <1>1, <1>2, <1>3, <1>4, <1>5 DEF Pending

\* A server step that sends reply r, and possibly executes the oldest request
\* or creates a session, keeps the invariants of everything in flight, provided
\* that it leaves the sessions on offer alone.
LEMMA ServerFrames ==
    ASSUME IInv, toSrv # <<>>, NEW r \in Msg, Reply(r), ReplyInv(r)',
           nSid' \in Nat, nSid' >= nSid,
           lastExec' = lastExec \/ lastExec' = Head(toSrv).id,
           \A x \in Replies : Offers(x) => /\ sess'[x.sid] = sess[x.sid]
                                           /\ r.sid # x.sid,
           Offers(r) => /\ r.sid # sid /\ sess'[r.sid] = r
                        /\ \A p \in Pending \cup Replies : p.cmd # "mount" => p.sid # r.sid
    PROVE  /\ lastExec <= lastExec' /\ lastExec' <= nReq'
           /\ \A m \in Pending' : RequestInv(m)'
           /\ \A m \in Replies' : ReplyInv(m)'
           /\ \A m : m.id \in Nat /\ DoneInv(m) => DoneInv(m)'
           /\ (PairInv /\ OfferInv /\ OfferedOnce /\ InOrder /\ ClientInv)'
<1> USE DEF IInv, TypeInv, FramesInv
<1>1. UNCHANGED <<sid, mounted, nextSeq, pc, req, retry, box, nReq, nReboots, res>>
    BY ReplyFacts
<1>2. PICK h : h = Head(toSrv)
    OBVIOUS
<1>3. /\ h \in Pending /\ RequestInv(h) /\ h.id \in Nat /\ h.id <= nReq /\ lastExec <= h.id
      /\ \A m \in Pending : h.id <= m.id
    BY <1>2, ReplyFacts DEF RequestInv, Recent, TypeOK
<1>4. lastExec <= lastExec' /\ lastExec' <= nReq' /\ lastExec \in Nat /\ nReq \in Nat /\ nSid \in Nat
    BY <1>1, <1>2, <1>3 DEF TypeOK
<1>5. \A m : m.id \in Nat /\ DoneInv(m) => DoneInv(m)'
    BY <1>2, <1>3, <1>4 DEF DoneInv
<1>6. \A m \in Pending' : RequestInv(m)'
  <2> SUFFICES ASSUME NEW m \in Pending' PROVE RequestInv(m)'
      OBVIOUS
  <2>1. RequestInv(m) /\ lastExec' <= m.id
      BY <1>2, <1>3, ReplyFacts DEF RequestInv
  <2> QED
      BY <1>1, <1>4, <2>1 DEF RequestInv, Recent, Numbered, SeqOf
<1>7. \A m \in Replies' : ReplyInv(m)'
  <2> SUFFICES ASSUME NEW m \in Replies, ReplyInv(m) PROVE ReplyInv(m)'
      BY ReplyFacts
  <2>1. DoneInv(m)'
      BY <1>5 DEF ReplyInv, Recent
  <2> QED
      BY <1>1, <1>4, <2>1 DEF ReplyInv, Recent, Numbered, SeqOf
<1>8. PairInv'
    BY ReplyFacts DEF PairInv
<1>9. OfferInv'
  <2> SUFFICES ASSUME NEW m \in Replies', Offers(m) PROVE Unused(m)'
      BY DEF OfferInv
  <2>1. CASE m \in Replies
    <3>1. Unused(m)
        BY <2>1 DEF OfferInv
    <3> QED
        BY <1>1, <2>1, <3>1, ReplyFacts DEF Unused
  <2>2. CASE m = r
      BY <1>1, <2>2, ReplyFacts DEF Unused, Offers
  <2> QED
      BY <2>1, <2>2, ReplyFacts
<1>10. OfferedOnce'
  <2>1. \A i \in DOMAIN toCli : toCli[i] \in Replies
      BY DEF Replies, InFlight
  <2>2. box # NoMsg => box \in Replies
      BY DEF Replies
  <2>3. \A i, j \in DOMAIN toCli' :
           Offers(toCli'[i]) /\ Offers(toCli'[j]) /\ toCli'[i].sid = toCli'[j].sid => i = j
      BY <2>1, ReplyFacts DEF OfferedOnce
  <2>4. ASSUME box # NoMsg, Offers(box), NEW m \in InFlight(toCli'), Offers(m)
        PROVE  m.sid # box.sid
    <3>1. m \in InFlight(toCli) \/ m = r
        BY <2>4, ReplyFacts DEF InFlight
    <3> QED
        BY <2>2, <2>4, <3>1 DEF OfferedOnce
  <2> QED
      BY <1>1, <2>3, <2>4 DEF OfferedOnce, InFlight, Offers
<1>11. (InOrder /\ ClientInv)'
    BY <1>1, <1>4, ReplyFacts DEF ClientInv, Busy, SeqOf
<1> QED
    BY <1>4, <1>5, <1>6, <1>7, <1>8, <1>9, <1>10, <1>11

\* The oldest request, and what no session on offer has to do with it.
LEMMA OldestFacts ==
    ASSUME IInv, toSrv # <<>>, NEW m, m = Head(toSrv)
    PROVE  /\ m \in Pending /\ m \in Msg /\ RequestInv(m) /\ Recent(m) /\ Numbered(m)
           /\ m.id \in Nat /\ m.id <= nReq /\ lastExec <= m.id /\ nSid \in Nat
           /\ IF m.cmd = "mount" THEN m.sid = 0 /\ m.seq = 0
                                 ELSE m.sid \in 1 .. nSid /\ m.sid \in Sid
           /\ \A x \in Replies : Offers(x) => x.sid \in 1 .. nSid /\ x.sid # m.sid
<1> USE DEF IInv, TypeInv, FramesInv
<1>1. m \in Pending /\ m \in Msg /\ m.id \in Nat
    BY TailInOrder, TailFacts, MsgFields DEF TypeOK, Pending
<1>2. RequestInv(m) /\ nReq \in Nat /\ nSid \in 0 .. MaxSid /\ MaxSid \in Nat
    BY <1>1, ExchangeAssumption DEF TypeOK
<1>3. IF m.cmd = "mount" THEN m.sid = 0 /\ m.seq = 0 ELSE m.sid \in 1 .. nSid /\ m.sid \in Sid
    BY <1>2 DEF RequestInv, Sid
<1>4. \A x \in Replies : Offers(x) => x.sid \in 1 .. nSid /\ x.sid # m.sid
    BY <1>1, <1>3 DEF OfferInv, Unused, Offers, ReplyInv, DoneInv
<1> QED
    BY <1>1, <1>2, <1>3, <1>4 DEF RequestInv, Recent

\* MOUNT: a session that no one has used is offered.
LEMMA ServerMountInv == ASSUME IInv, TypeInv', ServerMount PROVE IInv'
<1> USE DEF IInv, TypeInv, ServerMount
<1>m. PICK m : m = Head(toSrv)
    OBVIOUS
<1>s. PICK s0 : s0 = nSid + 1
    OBVIOUS
<1>r. PICK r : r = MountReply(m, s0)
    OBVIOUS
<1>1. /\ toSrv # <<>> /\ m.cmd = "mount" /\ nSid' = s0 /\ lastExec' = lastExec /\ Reply(r)
      /\ s0 = nSid + 1 /\ s0 \in Sid /\ s0 \in 0 .. MaxSid
      /\ sess' = [sess EXCEPT ![s0] = r]
    BY <1>m, <1>s, <1>r DEF TypeOK, Sid
<1>2. /\ m \in Msg /\ Recent(m) /\ m.seq = 0 /\ m.id \in Nat /\ nSid \in Nat
      /\ \A x \in Replies : Offers(x) => x.sid \in 1 .. nSid
    BY <1>m, <1>1, OldestFacts
<1>3. /\ r \in Msg /\ r.code = "done" /\ r.id = m.id /\ r.sid = s0 /\ r.seq = 0
      /\ r.cmd = "mount"
    BY <1>r, <1>1, <1>2, MountReplyFields
<1>4. /\ \A m2 \in Pending' : m2 \in Pending
      /\ UNCHANGED <<sid, mounted, nextSeq, pc, req, retry, box, nReq, nReboots, res>>
    BY <1>1, <1>3, ReplyFacts
<1>5. ReplyInv(r)'
    BY <1>1, <1>2, <1>3, <1>4 DEF ReplyInv, Recent, Numbered, DoneInv
<1>6. \A p \in Pending \cup Replies : p.cmd # "mount" => p.sid \in 1 .. nSid
    BY DEF FramesInv, RequestInv, ReplyInv
<1>7. sid \in 0 .. nSid
    BY <1>2 DEF ClientInv
<1>8. sess'[s0] = r /\ \A s \in Sid : s # s0 => sess'[s] = sess[s]
    BY <1>1 DEF TypeOK
<1>9. /\ \A x \in Replies : Offers(x) => sess'[x.sid] = sess[x.sid] /\ r.sid # x.sid
      /\ r.sid # sid /\ sess'[r.sid] = r
      /\ \A p \in Pending \cup Replies : p.cmd # "mount" => p.sid # r.sid
  <2>1. \A x \in Replies : Offers(x) => x.sid \in Sid /\ x.sid # s0
    <3>1. MaxSid \in Nat /\ nSid \in 0 .. MaxSid
        BY ExchangeAssumption DEF TypeOK
    <3> QED
        BY <1>1, <1>2, <3>1 DEF Sid
  <2>2. \A p \in Pending \cup Replies : p.cmd # "mount" => p.sid # s0
      BY <1>1, <1>2, <1>6
  <2> QED
      BY <1>1, <1>2, <1>3, <1>7, <1>8, <2>1, <2>2
<1>10. nSid' \in Nat /\ nSid' >= nSid
    BY <1>1, <1>2
<1>11. /\ lastExec <= lastExec' /\ lastExec' <= nReq'
       /\ \A m2 \in Pending' : RequestInv(m2)'
       /\ \A m2 \in Replies' : ReplyInv(m2)'
       /\ \A m2 : m2.id \in Nat /\ DoneInv(m2) => DoneInv(m2)'
       /\ (PairInv /\ OfferInv /\ OfferedOnce /\ InOrder /\ ClientInv)'
    BY <1>1, <1>3, <1>5, <1>9, <1>10, ServerFrames
<1>12. SessionInv'
  <2> SUFFICES ASSUME NEW s \in Sid, sess'[s] # NoMsg
               PROVE  Remembered(s)' /\ \A p \in Pending' : Told(p, s)'
      BY DEF SessionInv
  <2>1. CASE s = s0
    <3>1. Remembered(s)'
        BY <1>1, <1>2, <1>3, <1>4, <1>5, <1>7, <1>8, <2>1
        DEF Remembered, ReplyInv, Recent, Numbered, DoneInv
    <3>2. \A p \in Pending' : Told(p, s)'
        BY <1>1, <1>2, <1>4, <1>6, <2>1 DEF Told
    <3> QED
        BY <3>1, <3>2
  <2>2. CASE s # s0
    <3>1. Remembered(s) /\ sess'[s] = sess[s] /\ \A p \in Pending : Told(p, s)
        BY <1>8, <2>2 DEF FramesInv, SessionInv
    <3>2. Remembered(s)'
        BY <1>1, <1>2, <1>4, <3>1
        DEF Remembered, Recent, Numbered, DoneInv, StartsAfter, SeqOf
    <3>3. \A p \in Pending' : Told(p, s)'
        BY <1>1, <1>4, <3>1 DEF Told
    <3> QED
        BY <3>2, <3>3
  <2> QED
      BY <2>1, <2>2
<1> QED
    BY <1>11, <1>12 DEF FramesInv

\* A request executed: it was not the last one executed, and its session now
\* remembers it.
LEMMA ServerExecuteInv == ASSUME IInv, TypeInv', ServerExecute PROVE IInv'
<1> USE DEF IInv, TypeInv, ServerExecute
<1>m. PICK m : m = Head(toSrv)
    OBVIOUS
<1>r. PICK r : r = Answer(m, "done")
    OBVIOUS
<1>1. /\ toSrv # <<>> /\ m.cmd # "mount" /\ nSid' = nSid /\ lastExec' = m.id /\ Reply(r)
      /\ sess' = [sess EXCEPT ![m.sid] = r] /\ sess[m.sid] # NoMsg
    BY <1>m, <1>r DEF Known
<1>2. /\ m \in Pending /\ m \in Msg /\ Recent(m) /\ Numbered(m) /\ m.id \in Nat /\ nSid \in Nat
      /\ m.sid \in 1 .. nSid /\ m.sid \in Sid
      /\ \A x \in Replies : Offers(x) => x.sid \in 1 .. nSid /\ x.sid # m.sid
    BY <1>m, <1>1, OldestFacts
<1>3. /\ r \in Msg /\ r.code = "done" /\ r.id = m.id /\ r.sid = m.sid /\ r.seq = m.seq
      /\ r.cmd = m.cmd
    BY <1>r, <1>2, AnswerFields
<1>4. /\ \A m2 \in Pending' : m2 \in Pending
      /\ UNCHANGED <<sid, mounted, nextSeq, pc, req, retry, box, nReq, nReboots, res>>
    BY <1>1, <1>3, ReplyFacts
<1>5. ReplyInv(r)'
    BY <1>1, <1>2, <1>3, <1>4 DEF ReplyInv, Recent, Numbered, DoneInv, SeqOf
<1>6. sess'[m.sid] = r /\ \A s \in Sid : s # m.sid => sess'[s] = sess[s]
    BY <1>1, <1>2 DEF TypeOK
<1>7. \A x \in Replies : Offers(x) => sess'[x.sid] = sess[x.sid] /\ r.sid # x.sid
  <2>1. MaxSid \in Nat /\ nSid \in 0 .. MaxSid
      BY ExchangeAssumption DEF TypeOK
  <2>2. \A x \in Replies : Offers(x) => x.sid \in Sid /\ x.sid # m.sid
      BY <1>2, <2>1 DEF Sid
  <2> QED
      BY <1>3, <1>6, <2>2
<1>8. /\ lastExec <= lastExec' /\ lastExec' <= nReq'
      /\ \A m2 \in Pending' : RequestInv(m2)'
      /\ \A m2 \in Replies' : ReplyInv(m2)'
      /\ \A m2 : m2.id \in Nat /\ DoneInv(m2) => DoneInv(m2)'
      /\ (PairInv /\ OfferInv /\ OfferedOnce /\ InOrder /\ ClientInv)'
  <2>1. ~Offers(r) /\ nSid' \in Nat /\ nSid' >= nSid
      BY <1>1, <1>2, <1>3 DEF Offers
  <2> QED
      BY <1>m, <1>1, <1>3, <1>5, <1>7, <2>1, ServerFrames
<1>9. \A p \in Pending : p.id = m.id => p = m
    BY <1>2 DEF FramesInv, PairInv
<1>10. SessionInv'
  <2> SUFFICES ASSUME NEW s \in Sid, sess'[s] # NoMsg
               PROVE  Remembered(s)' /\ \A p \in Pending' : Told(p, s)'
      BY DEF SessionInv
  <2>1. CASE s = m.sid
    <3>1. Remembered(s)'
        BY <1>1, <1>2, <1>3, <1>4, <1>5, <1>6, <2>1
        DEF Remembered, ReplyInv, Recent, Numbered, DoneInv, SeqOf
    <3>2. ASSUME NEW p \in Pending' PROVE Told(p, s)'
      <4>1. p \in Pending /\ (p.cmd # "mount" /\ p.sid = s /\ p.seq = m.seq => p.id = m.id)
          BY <1>1, <1>2, <1>4, <2>1, <3>2 DEF FramesInv, PairInv
      <4> QED
          BY <1>1, <1>3, <1>6, <1>9, <2>1, <4>1 DEF Told
    <3> QED
        BY <3>1, <3>2
  <2>2. CASE s # m.sid
    <3>1. Remembered(s) /\ sess'[s] = sess[s] /\ \A p \in Pending : Told(p, s)
        BY <1>6, <2>2 DEF FramesInv, SessionInv
    <3>2. Remembered(s)'
      <4>1. DoneInv(sess[s])'
        <5>1. PICK x : x = sess[s]
            OBVIOUS
        <5>2. x.id \in Nat /\ DoneInv(x)
            BY <3>1, <5>1 DEF Remembered
        <5>3. DoneInv(x)' /\ sess'[s] = x
            BY <1>8, <3>1, <5>1, <5>2
        <5> QED
            BY <5>3 DEF DoneInv
      <4> QED
          BY <1>1, <1>2, <1>4, <3>1, <4>1
          DEF Remembered, Recent, Numbered, StartsAfter, SeqOf
    <3>3. ASSUME NEW p \in Pending' PROVE Told(p, s)'
        BY <1>1, <1>4, <1>9, <2>2, <3>1, <3>3 DEF Told
    <3> QED
        BY <3>2, <3>3
  <2> QED
      BY <2>1, <2>2
<1> QED
    BY <1>8, <1>10 DEF FramesInv

\* An answer that changes nothing at the server: one from memory, or a refusal.
LEMMA ServerIdle ==
    ASSUME IInv, TypeInv', toSrv # <<>>, UNCHANGED srvVars,
           NEW r \in Msg, Reply(r), ReplyInv(r), ~Offers(r), r.sid = Head(toSrv).sid
    PROVE  IInv'
<1> USE DEF IInv, TypeInv, srvVars
<1>1. /\ \A m \in Pending' : m \in Pending
      /\ UNCHANGED <<sid, mounted, nextSeq, pc, req, retry, box, nReq, nReboots, res>>
    BY ReplyFacts
<1>2. ReplyInv(r)'
    BY <1>1 DEF ReplyInv, Recent, Numbered, DoneInv, SeqOf
<1>3. \A x \in Replies : Offers(x) => r.sid # x.sid
    BY OldestFacts
<1>4. nSid \in Nat
    BY OldestFacts
<1>5. /\ lastExec <= lastExec' /\ lastExec' <= nReq'
      /\ \A m \in Pending' : RequestInv(m)'
      /\ \A m \in Replies' : ReplyInv(m)'
      /\ (PairInv /\ OfferInv /\ OfferedOnce /\ InOrder /\ ClientInv)'
    BY <1>2, <1>3, <1>4, ServerFrames
<1>6. SessionInv'
  <2>1. \A s \in Sid : Remembered(s) => Remembered(s)'
      BY <1>1 DEF Remembered, Recent, Numbered, DoneInv, StartsAfter, SeqOf
  <2>2. \A s \in Sid, m \in Pending' : Told(m, s) => Told(m, s)'
      BY DEF Told
  <2> QED
      BY <1>1, <2>1, <2>2 DEF FramesInv, SessionInv
<1> QED
    BY <1>5, <1>6 DEF FramesInv

LEMMA ServerRepeatInv == ASSUME IInv, TypeInv', ServerRepeat PROVE IInv'
<1> USE DEF IInv, TypeInv, ServerRepeat, srvVars
<1>m. PICK m : m = Head(toSrv)
    OBVIOUS
<1>r. PICK r : r = sess[m.sid]
    OBVIOUS
<1>1. /\ toSrv # <<>> /\ m.cmd # "mount" /\ Reply(r) /\ r # NoMsg /\ r.seq = m.seq
    BY <1>m, <1>r DEF Known
<1>2. /\ m \in Pending /\ Recent(m) /\ m.sid \in 1 .. nSid /\ m.sid \in Sid
    BY <1>m, <1>1, OldestFacts
<1>3. r \in Msg /\ Remembered(m.sid) /\ Told(m, m.sid)
    BY <1>r, <1>1, <1>2 DEF TypeOK, FramesInv, SessionInv
<1>4. r.cmd # "mount" /\ r.id = m.id /\ r.sid = m.sid /\ DoneInv(r) /\ Numbered(r)
    BY <1>r, <1>1, <1>3 DEF Told, Remembered
<1>5. ReplyInv(r) /\ ~Offers(r)
    BY <1>2, <1>4 DEF ReplyInv, Recent, Offers
<1> QED
    BY <1>m, <1>1, <1>3, <1>4, <1>5, ServerIdle

LEMMA ServerRefuseInv == ASSUME IInv, TypeInv', ServerRefuse PROVE IInv'
<1> USE DEF ServerRefuse
<1>m. PICK m : m = Head(toSrv)
    OBVIOUS
<1>r. PICK r : r = Answer(m, "badsid")
    OBVIOUS
<1>1. toSrv # <<>> /\ Reply(r)
    BY <1>m, <1>r
<1>2. /\ m \in Msg /\ Recent(m) /\ Numbered(m) /\ (m.cmd # "mount" => m.sid \in 1 .. nSid)
    BY <1>m, <1>1, OldestFacts
<1>3. /\ r \in Msg /\ r.code = "badsid" /\ r.id = m.id /\ r.sid = m.sid /\ r.seq = m.seq
      /\ r.cmd = m.cmd
    BY <1>r, <1>2, AnswerFields
<1>4. ReplyInv(r) /\ ~Offers(r)
    BY <1>2, <1>3 DEF ReplyInv, Recent, Numbered, DoneInv, Offers
<1> QED
    BY <1>m, <1>1, <1>3, <1>4, ServerIdle

\* The server forgets its sessions.
LEMMA ServerRestartInv == ASSUME IInv, TypeInv', ServerRestart PROVE IInv'
<1> USE DEF IInv, TypeInv, ServerRestart, cliVars, netVars
<1>1. UNCHANGED <<sid, mounted, nextSeq, pc, req, box, toSrv, toCli, nReq, nSid, lastExec>>
    OBVIOUS
<1>2. /\ \A m \in Pending' : m \in Pending
      /\ \A m \in Replies' : m \in Replies
    BY <1>1 DEF Pending, Replies, Busy
<1>3. \A m \in Pending' : RequestInv(m)'
    BY <1>1, <1>2 DEF FramesInv, RequestInv, Recent, Numbered, SeqOf
<1>4. \A m \in Replies' : ReplyInv(m)'
    BY <1>1, <1>2 DEF FramesInv, ReplyInv, Recent, Numbered, DoneInv, SeqOf
<1>5. PairInv' /\ SessionInv'
    BY <1>2 DEF FramesInv, PairInv, SessionInv
<1>6. OfferInv'
  <2> SUFFICES ASSUME NEW m \in Replies', Offers(m) PROVE Unused(m)'
      BY DEF OfferInv
  <2>1. Unused(m) /\ m.sid \in Sid
    <3>1. m.sid \in 1 .. nSid /\ nSid \in 0 .. MaxSid /\ MaxSid \in Nat
        BY <1>2, ExchangeAssumption DEF FramesInv, ReplyInv, DoneInv, Offers, TypeOK
    <3> QED
        BY <1>2, <3>1 DEF FramesInv, OfferInv, Sid
  <2> QED
      BY <1>1, <1>2, <2>1 DEF Unused
<1>7. InOrder' /\ OfferedOnce' /\ ClientInv'
    BY <1>1 DEF InOrder, OfferedOnce, ClientInv, Busy, SeqOf
<1> QED
    BY <1>1, <1>3, <1>4, <1>5, <1>6, <1>7 DEF FramesInv

-----------------------------------------------------------------------------
(* The theorems.                                                           *)

\* The invariant is inductive, restarts of either side included.
LEMMA StepInv == ASSUME IInv, [Next]_vars PROVE IInv'
<1>1. TypeInv'
    BY TypeStep DEF IInv
<1>2. CASE Client
    BY <1>1, <1>2, ClientStepInv
<1>3. CASE Reboot
    BY <1>1, <1>3, RebootInv
<1>4. CASE Deliver \/ Lose
    BY <1>1, <1>4, NetworkInv
<1>5. CASE Server
    BY <1>1, <1>5, ServerMountInv, ServerExecuteInv, ServerRepeatInv, ServerRefuseInv,
       ServerRestartInv
    DEF Server
<1>6. CASE UNCHANGED vars
  <2> USE <1>6 DEF vars, cliVars, netVars, srvVars, IInv
  <2>1. FramesInv'
    <3>1. Pending' \subseteq Pending /\ Replies' \subseteq Replies
        BY DEF Pending, Replies, Busy
    <3> QED
        BY <3>1, FramesKept
  <2>2. InOrder' /\ OfferedOnce' /\ ClientInv'
      BY DEF InOrder, OfferedOnce, ClientInv, Busy, SeqOf
  <2> QED
      BY <1>1, <2>1, <2>2
<1> QED
    BY <1>2, <1>3, <1>4, <1>5, <1>6 DEF Next

LEMMA Invariance == Spec => []IInv
<1>1. IInv /\ [Next]_vars => IInv'
    BY StepInv
<1> QED
    BY InitInv, <1>1, PTL DEF Spec

\* Two frames of the window with the same sequence number are the same request.
LEMMA SameSeqSameRequest ==
    ASSUME TypeOK, NEW i \in 1 .. nReq, NEW j \in 1 .. nReq,
           nReq < i + SeqMod, nReq < j + SeqMod, SeqOf(i) = SeqOf(j)
    PROVE  i = j
BY ExchangeAssumption DEF TypeOK, SeqOf

\* Under the invariant a matching reply is the reply to the request itself.
LEMMA MatchIsMine ==
    ASSUME IInv, Busy, box # NoMsg, Matches(box), req.cmd # "mount" PROVE box.id = req.id
<1> USE DEF IInv, TypeInv
<1>1. /\ req.id = nReq /\ req.seq = SeqOf(nReq) /\ req.sid = sid /\ sid \in 1 .. nSid
      /\ nReq \in 1 .. nReq
    BY DEF ClientInv, TypeOK
<1>2. Recent(box) /\ Numbered(box)
    BY DEF FramesInv, Replies, ReplyInv
<1>3. box.id \in 1 .. nReq /\ nReq < box.id + SeqMod /\ SeqOf(box.id) = SeqOf(nReq)
    BY <1>1, <1>2 DEF Recent, Numbered, Matches
<1> QED
    BY <1>1, <1>3, SameSeqSameRequest, ExchangeAssumption DEF TypeOK

\* The header check of tnfs.c:147 lets through the reply to the request in hand
\* only, whatever was lost, repeated or late, however often the sequence number
\* has wrapped, and whichever side was restarted.
THEOREM AnswersMatch == Spec => []AcceptedAnswersRequest
<1>1. IInv => AcceptedAnswersRequest
    BY MatchIsMine DEF AcceptedAnswersRequest, Busy
<1> QED
    BY Invariance, <1>1, PTL

\* Every call is executed at most once and in order, and is reported answered
\* only after it was executed.
THEOREM ImplementsAtMostOnce == Spec => AtMostOnceSpec
<1>1. Init => AtMostOnce!AInit
    BY DEF Init, AtMostOnce!AInit, NoMsg
<1>2. ASSUME IInv, [Next]_vars
      PROVE  [AtMostOnce!ANext]_<<nReq, pc \in {"send", "wait"}, req.cmd = "mount", lastExec,
                                nExec, res>>
  <2> USE <1>2 DEF IInv, AtMostOnce!ANext
  <2>1. ASSUME NEW cmd \in Cmd \cup {"mount"}, BeginExchange(cmd) PROVE AtMostOnce!BeginCall
      BY <2>1 DEF BeginExchange, AtMostOnce!BeginCall, srvVars
  <2>2. CASE Send
      BY <2>2 DEF Send, srvVars
  <2>3. CASE NoAnswer
      BY <2>3 DEF NoAnswer, Fail, AtMostOnce!GivenUp, srvVars
  <2>4. CASE StaleReply
      BY <2>4 DEF StaleReply, Fail, AtMostOnce!GivenUp, srvVars
  <2>5. CASE Accept
    <3>1. CASE box.code # "done"
        BY <2>5, <3>1 DEF Accept, Fail, AtMostOnce!GivenUp, srvVars
    <3>2. CASE box.code = "done"
      <4>1. req.cmd = "mount" \/ lastExec = nReq
        <5> SUFFICES ASSUME req.cmd # "mount" PROVE lastExec = nReq
            OBVIOUS
        <5>1. box.id = nReq /\ box.cmd = req.cmd
            BY <2>5, MatchIsMine DEF Accept, Matches, Busy, ClientInv
        <5>2. DoneInv(box)
            BY <2>5 DEF Accept, FramesInv, Replies, ReplyInv
        <5> QED
            BY <3>2, <5>1, <5>2 DEF DoneInv, TypeInv, TypeOK
      <4> QED
          BY <2>5, <3>2, <4>1 DEF Accept, AtMostOnce!Answered, srvVars
    <3> QED
        BY <3>1, <3>2
  <2>6. CASE Deliver \/ Lose \/ ServerRestart
      BY <2>6 DEF Deliver, Lose, ServerRestart, cliVars, srvVars
  <2>7. CASE ServerMount \/ ServerRepeat \/ ServerRefuse
      BY <2>7 DEF ServerMount, ServerRepeat, ServerRefuse, Reply, cliVars, srvVars
  <2>8. CASE ServerExecute
    <3>m. PICK m : m = Head(toSrv)
        OBVIOUS
    <3>1. /\ m \in Pending /\ m.id \in Nat /\ m.id <= nReq /\ lastExec <= m.id /\ m.sid \in Sid
          /\ m.cmd # "mount" /\ sess[m.sid] # NoMsg /\ sess[m.sid].seq # m.seq
        BY <2>8, <3>m, OldestFacts DEF ServerExecute, Known
    <3>2. m.id # lastExec
        BY <3>1 DEF FramesInv, SessionInv, Told
    <3>3. lastExec' = m.id /\ nExec' = nExec + 1 /\ m.id \in lastExec + 1 .. nReq
        BY <2>8, <3>m, <3>1, <3>2 DEF ServerExecute, TypeInv, TypeOK
    <3> QED
        BY <2>8, <3>3 DEF ServerExecute, Reply, cliVars, AtMostOnce!Execute
  <2>9. CASE Reboot
      BY <2>9 DEF Reboot, AtMostOnce!GivenUp, srvVars
  <2>10. CASE UNCHANGED vars
      BY <2>10 DEF vars, cliVars, srvVars
  <2> QED
      BY <2>1, <2>2, <2>3, <2>4, <2>5, <2>6, <2>7, <2>8, <2>9, <2>10 DEF Next, Client, Server
<1> QED
    BY Invariance, <1>1, <1>2, PTL DEF Spec, AtMostOnceSpec, AtMostOnce!ASpec, AtMostOnce!amoVars
=============================================================================
