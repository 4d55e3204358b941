---------------------------- MODULE TnfsExchange ----------------------------
(***************************************************************************)
(* Request/reply exchanges of tnfs.c over a network that loses frames:     *)
(* tnfs_prepareCommand() numbers a request with an 8-bit sequence number,  *)
(* tnfs_sendReceive() sends it up to TNFS_SEND_RETRIES times and takes the *)
(* first frame that arrives as the answer, tnfs_mount() adopts a session.  *)
(* The receive path below it is the one-place mailbox of RxMailbox.        *)
(*                                                                         *)
(* External: the network is one Ethernet segment (netw_pd.c resolves the   *)
(* server itself by ARP), so it loses frames but does not reorder them;    *)
(* the server keeps, per session, the last request and its reply, and      *)
(* answers a repeated sequence number from there - what a client that      *)
(* retries RENAME or WRITE with an unchanged header counts on.             *)
(***************************************************************************)
EXTENDS Integers, Sequences

CONSTANTS Cmd,         \* the TNFS commands other than MOUNT
          SeqMod,      \* 256: tnfs_request_id is a uint8_t
          SendRetries, \* TNFS_SEND_RETRIES
          MaxSid,      \* bound: sessions the server can create
          MaxReq,      \* bound: requests made
          MaxReboots,  \* bound: restarts of the client machine
          MaxQueue     \* bound: frames in flight each way; one more is lost

ASSUME ExchangeAssumption ==
    /\ SeqMod \in Nat \ {0} /\ SendRetries \in Nat \ {0}
    /\ MaxSid \in Nat /\ MaxReq \in Nat /\ MaxReboots \in Nat /\ MaxQueue \in Nat
    /\ "mount" \notin Cmd

VARIABLES
    sid,       \* tnfs_session_id; 0 before MOUNT
    mounted,   \* s_mounted
    nextSeq,   \* tnfs_request_id
    pc,        \* "idle", "send", "wait" or "off" (MOUNT failed, program exits)
    req,       \* the request: the header saved by tnfs_sendReceive()
    retry,     \* the local "retry"
    box,       \* the receive buffer: a frame or NoMsg
    toSrv, toCli,  \* frames in flight
    sess, nSid,    \* server: last reply per session (NoMsg: no such session)
    nReq, nReboots, \* history: requests made, reboots
    lastExec,  \* history: the last request the server executed
    nExec,     \* history: how many times it executed one
    res        \* what the last finished exchange returned

cliVars == <<sid, mounted, nextSeq, pc, req, retry, box>>
netVars == <<toSrv, toCli>>
srvVars == <<sess, nSid, lastExec, nExec>>
vars == <<cliVars, netVars, srvVars, nReq, nReboots, res>>

Sid == 1 .. MaxSid
NoMsg == [id |-> 0, sid |-> 0, seq |-> 0, cmd |-> "none", code |-> "none"]
Msg == [id : Nat, sid : 0 .. MaxSid, seq : 0 .. SeqMod - 1,
        cmd : Cmd \cup {"mount", "none"}, code : {"none", "request", "done", "badsid"}]

Init ==
    /\ sid = 0 /\ mounted = FALSE /\ nextSeq = 0 /\ pc = "idle"
    /\ req = NoMsg /\ retry = 0 /\ box = NoMsg
    /\ toSrv = <<>> /\ toCli = <<>>
    /\ sess = [s \in Sid |-> NoMsg] /\ nSid = 0 /\ lastExec = 0 /\ nExec = 0
    /\ nReq = 0 /\ nReboots = 0 /\ res = "none"

InFlight(q) == {q[i] : i \in DOMAIN q}

\* Environment: no frame stays in flight, and the server is not out of reach,
\* for as long as the sequence numbers take to come round.
WithinWindow ==
    /\ \A m \in InFlight(toSrv) \cup InFlight(toCli) : nReq + 1 < m.id + SeqMod
    /\ sid # 0 /\ sess[sid] # NoMsg => nReq + 1 < sess[sid].id + SeqMod

-----------------------------------------------------------------------------
(* Client.                                                                 *)

\* tnfs_prepareCommand() and the head of tnfs_sendReceive(): the header is
\* filled in and saved, netw_open_rx() empties the receive buffer.  The first
\* request is the MOUNT of tnfsdrv_connect().
BeginExchange(cmd) ==
    /\ pc = "idle" /\ nReq < MaxReq /\ WithinWindow
    /\ cmd = "mount" <=> ~mounted
    /\ nReq' = nReq + 1
    /\ req' = [id |-> nReq + 1, sid |-> sid, seq |-> nextSeq, cmd |-> cmd, code |-> "request"]
    /\ nextSeq' = (nextSeq + 1) % SeqMod
    /\ pc' = "send" /\ retry' = 0 /\ box' = NoMsg
    /\ UNCHANGED <<sid, mounted, netVars, srvVars, nReboots, res>>

\* netw_clear_rx() and netw_send(), which returned 0.
Send ==
    /\ pc = "send" /\ pc' = "wait"
    /\ box' = NoMsg
    /\ toSrv' = IF Len(toSrv) < MaxQueue THEN Append(toSrv, req) ELSE toSrv
    /\ UNCHANGED <<sid, mounted, nextSeq, req, retry, toCli, srvVars, nReq, nReboots, res>>

\* -TNFS_EPROTO: tnfs_mount() passes it on and the program exits.
Fail ==
    /\ pc' = IF mounted THEN "idle" ELSE "off"
    /\ res' = "failed"
    /\ UNCHANGED <<sid, mounted>>

\* Mutants of NoAnswer: one retry too many; a timeout is not counted; every
\* attempt is numbered afresh.
RetriesOnceMore ==
    /\ pc \in {"send", "wait"}
    /\ retry' = retry + 1
    /\ IF retry < SendRetries
         THEN pc' = "send" /\ UNCHANGED <<sid, mounted, res>>
         ELSE Fail
    /\ box' = IF pc = "send" THEN NoMsg ELSE box
    /\ UNCHANGED <<nextSeq, req, netVars, srvVars, nReq, nReboots>>
TimeoutNotCounted ==
    /\ pc \in {"send", "wait"}
    /\ retry' = IF pc = "send" THEN retry + 1 ELSE retry
    /\ IF retry' < SendRetries
         THEN pc' = "send" /\ UNCHANGED <<sid, mounted, res>>
         ELSE Fail
    /\ box' = IF pc = "send" THEN NoMsg ELSE box
    /\ UNCHANGED <<nextSeq, req, netVars, srvVars, nReq, nReboots>>
RetriesRenumbered ==
    /\ pc \in {"send", "wait"}
    /\ retry' = retry + 1
    /\ IF retry + 1 < SendRetries
         THEN /\ pc' = "send" /\ UNCHANGED <<sid, mounted, res>>
              /\ req' = [req EXCEPT !.seq = nextSeq] /\ nextSeq' = (nextSeq + 1) % SeqMod
         ELSE Fail /\ UNCHANGED <<req, nextSeq>>
    /\ box' = IF pc = "send" THEN NoMsg ELSE box
    /\ UNCHANGED <<netVars, srvVars, nReq, nReboots>>

\* netw_send() failed or netw_recv() timed out (also with a frame just in).
NoAnswer ==
    /\ pc \in {"send", "wait"}
    /\ retry' = retry + 1
    /\ IF retry + 1 < SendRetries
         THEN pc' = "send" /\ UNCHANGED <<sid, mounted, res>>
         ELSE Fail
    /\ box' = IF pc = "send" THEN NoMsg ELSE box
    /\ UNCHANGED <<nextSeq, req, netVars, srvVars, nReq, nReboots>>

\* Mutant: the sequence number is not compared.
MatchesAnyNumber(m) ==
    /\ req.sid = 0 \/ m.sid = req.sid
    /\ m.cmd = req.cmd

\* The check on the header of what arrived; a MOUNT has no session to compare.
Matches(m) ==
    /\ req.sid = 0 \/ m.sid = req.sid
    /\ m.seq = req.seq
    /\ m.cmd = req.cmd

\* The first frame to arrive does not match: the exchange is over.
StaleReply ==
    /\ pc = "wait" /\ box # NoMsg /\ ~Matches(box)
    /\ Fail
    /\ box' = NoMsg
    /\ UNCHANGED <<nextSeq, req, retry, netVars, srvVars, nReq, nReboots>>

\* The answer; tnfs_mount() adopts the session it carries.
Accept ==
    /\ pc = "wait" /\ box # NoMsg /\ Matches(box)
    /\ IF box.code = "done"
         THEN /\ pc' = "idle" /\ res' = "answered"
              /\ sid' = IF req.cmd = "mount" THEN box.sid ELSE sid
              /\ mounted' = TRUE
         ELSE Fail
    /\ box' = NoMsg
    /\ UNCHANGED <<nextSeq, req, retry, netVars, srvVars, nReq, nReboots>>

\* The machine is reset and the program run again, with the same local port.
Reboot ==
    /\ nReboots < MaxReboots /\ nReboots' = nReboots + 1
    /\ sid' = 0 /\ mounted' = FALSE /\ nextSeq' = 0 /\ pc' = "idle"
    /\ retry' = 0 /\ box' = NoMsg /\ res' = "failed"
    /\ UNCHANGED <<req, netVars, srvVars, nReq>>

Client ==
    \/ \E cmd \in Cmd \cup {"mount"} : BeginExchange(cmd)
    \/ Send \/ NoAnswer \/ StaleReply \/ Accept

-----------------------------------------------------------------------------
(* Network and server.                                                     *)

\* A frame for us enters the mailbox if it is empty, else it is refused.
Deliver ==
    /\ toCli # <<>> /\ toCli' = Tail(toCli)
    /\ box' = IF box = NoMsg THEN Head(toCli) ELSE box
    /\ UNCHANGED <<sid, mounted, nextSeq, pc, req, retry, toSrv, srvVars, nReq, nReboots, res>>

Lose ==
    /\ \/ toSrv # <<>> /\ toSrv' = Tail(toSrv) /\ UNCHANGED toCli
       \/ toCli # <<>> /\ toCli' = Tail(toCli) /\ UNCHANGED toSrv
    /\ UNCHANGED <<cliVars, srvVars, nReq, nReboots, res>>

Reply(r) ==
    /\ toSrv' = Tail(toSrv)
    /\ toCli' = IF Len(toCli) < MaxQueue THEN Append(toCli, r) ELSE toCli
    /\ UNCHANGED <<cliVars, nReq, nReboots, res>>

Known(s) == s # 0 /\ sess[s] # NoMsg

Answer(m, code) == [m EXCEPT !.code = code]
MountReply(m, s) == [m EXCEPT !.sid = s, !.code = "done"]

\* MOUNT: every copy of the request creates a session.
ServerMount ==
    /\ toSrv # <<>> /\ Head(toSrv).cmd = "mount" /\ nSid < MaxSid
    /\ nSid' = nSid + 1
    /\ sess' = [sess EXCEPT ![nSid + 1] = MountReply(Head(toSrv), nSid + 1)]
    /\ Reply(MountReply(Head(toSrv), nSid + 1))
    /\ UNCHANGED <<lastExec, nExec>>

\* A request with a new sequence number is executed.
ServerExecute ==
    /\ toSrv # <<>> /\ Head(toSrv).cmd # "mount"
    /\ LET m == Head(toSrv)
       IN  /\ Known(m.sid) /\ sess[m.sid].seq # m.seq
           /\ lastExec' = m.id /\ nExec' = nExec + 1
           /\ sess' = [sess EXCEPT ![m.sid] = Answer(m, "done")]
           /\ Reply(Answer(m, "done"))
    /\ UNCHANGED nSid

\* A repeated one is answered from memory.
ServerRepeat ==
    /\ toSrv # <<>> /\ Head(toSrv).cmd # "mount"
    /\ Known(Head(toSrv).sid) /\ sess[Head(toSrv).sid].seq = Head(toSrv).seq
    /\ Reply(sess[Head(toSrv).sid])
    /\ UNCHANGED srvVars

ServerRefuse ==
    /\ toSrv # <<>>
    /\ IF Head(toSrv).cmd = "mount" THEN nSid = MaxSid ELSE ~Known(Head(toSrv).sid)
    /\ Reply(Answer(Head(toSrv), "badsid"))
    /\ UNCHANGED srvVars

\* The server restarts and forgets its sessions.
ServerRestart ==
    /\ \E s \in Sid : Known(s)
    /\ sess' = [s \in Sid |-> NoMsg]
    /\ UNCHANGED <<cliVars, netVars, nSid, lastExec, nExec, nReq, nReboots, res>>

Server == ServerMount \/ ServerExecute \/ ServerRepeat \/ ServerRefuse \/ ServerRestart

Next == Client \/ Reboot \/ Deliver \/ Lose \/ Server

Spec == Init /\ [][Next]_vars

\* The client's loop runs until it returns: its waits end (NetwRx, WaitEnds).
FairSpec == Spec /\ WF_vars(Send \/ NoAnswer \/ StaleReply \/ Accept)

-----------------------------------------------------------------------------

\* Every variable stays in its range.
TypeOK ==
    /\ sid \in 0 .. MaxSid /\ mounted \in BOOLEAN /\ nextSeq \in 0 .. SeqMod - 1
    /\ pc \in {"idle", "send", "wait", "off"}
    /\ req \in Msg /\ retry \in 0 .. SendRetries /\ box \in Msg
    /\ toSrv \in Seq(Msg) /\ toCli \in Seq(Msg)
    /\ sess \in [Sid -> Msg] /\ nSid \in 0 .. MaxSid /\ lastExec \in Nat /\ nExec \in Nat
    /\ nReq \in 0 .. MaxReq /\ nReboots \in 0 .. MaxReboots
    /\ res \in {"none", "answered", "failed"}

\* A file operation is never answered with the reply to another request, be it
\* late, a repeat, one whose sequence number has come round, or one of an
\* earlier life of this machine (the header check of tnfs.c:147).
AcceptedAnswersRequest ==
    pc = "wait" /\ box # NoMsg /\ Matches(box) /\ req.cmd # "mount" => box.id = req.id

\* Every exchange returns to its caller, an application inside a DOS call.
ExchangeEnds == (pc \in {"send", "wait"}) ~> (pc \in {"idle", "off"})

\* Retries, losses, repeats and wrapped sequence numbers give at-most-once,
\* in-order execution, and an answer means the call was executed.
AtMostOnce == INSTANCE AtMostOnceCall WITH
    cur <- nReq, busy <- pc \in {"send", "wait"}, exempt <- req.cmd = "mount",
    execd <- lastExec, count <- nExec

AtMostOnceSpec == AtMostOnce!ASpec
=============================================================================
