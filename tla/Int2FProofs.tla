----------------------------- MODULE Int2FProofs -----------------------------
(* What the INT 2Fh guard guarantees, for any number of calls. *)
EXTENDS Int2F, TLAPS

\* A call in the C code is the innermost one, holds the guard, and the saved
\* frame and, once it is done, the results are its own.
Guarded ==
    \A i \in DOMAIN act :
        act[i].at \in {"c", "done"} =>
            /\ inHandler /\ i = Len(act)
            /\ saved = act[i].call
            /\ act[i].at = "done" => res = act[i].call

IInv == TypeOK /\ Guarded

\* The records of the variables act and ret, by name: the provers need the
\* types of EXCEPT's results stated.
Calls == [call : 1 .. MaxCalls, at : Places, private : BOOLEAN]
Rets == [call : 0 .. MaxCalls, frame : 0 .. MaxCalls, res : 0 .. MaxCalls, whole : BOOLEAN]

LEMMA InitInv == Init => IInv
<1> SUFFICES ASSUME Init PROVE IInv
  OBVIOUS
<1>1. MaxCalls \in Nat /\ act = <<>> /\ act \in Seq(Calls)
  BY Int2FAssumption DEF Init
<1>2. ret \in Rets
  BY <1>1 DEF Init, Rets
<1>3. TypeOK
  BY <1>1, <1>2 DEF Init, TypeOK, Calls, Rets
<1> QED
  BY <1>1, <1>3 DEF IInv, Guarded

LEMMA TopIsACall ==
    ASSUME act \in Seq(Calls), act # <<>>
    PROVE  Len(act) \in Nat \ {0} /\ Len(act) \in DOMAIN act /\ Top \in Calls /\ Top.call \in 1 .. MaxCalls
<1>1. Len(act) \in Nat \ {0} /\ Len(act) \in DOMAIN act /\ act[Len(act)] \in Calls
  OBVIOUS
<1> QED
  BY <1>1 DEF Top, Calls

LEMMA GoOnType ==
    ASSUME act \in Seq(Calls), NEW from \in Places, NEW to \in Places, GoOn(from, to)
    PROVE  act' \in Seq(Calls)
<1>1. Len(act) \in DOMAIN act /\ Top \in Calls
  BY TopIsACall DEF GoOn
<1>2. [Top EXCEPT !.at = to] \in Calls
  BY <1>1 DEF Calls
<1>3. act' = [act EXCEPT ![Len(act)] = [Top EXCEPT !.at = to]]
  BY DEF GoOn, Top
<1> QED
  BY <1>1, <1>2, <1>3

LEMMA StepType ==
    ASSUME TypeOK, [Next]_vars PROVE TypeOK'
<1>0. act \in Seq(Calls) /\ ret \in Rets /\ MaxCalls \in Nat
  BY Int2FAssumption DEF TypeOK, Calls, Rets
<1>1. SUFFICES /\ act' \in Seq(Calls) /\ ret' \in Rets
               /\ inHandler' \in BOOLEAN /\ saved' \in 0 .. MaxCalls /\ res' \in 0 .. MaxCalls
               /\ broken' \subseteq 1 .. MaxCalls /\ last' \in 0 .. MaxCalls
  BY DEF TypeOK, Calls, Rets
<1>2. CASE Enter
  <2> DEFINE private == act # <<>> /\ Top.at \in OnPrivateStack
             call == [call |-> last + 1, at |-> "c", private |-> private]
  <2>1. last + 1 \in 1 .. MaxCalls
    BY <1>0, <1>2 DEF Enter, TypeOK
  <2>2. act' = Append(act, call) /\ broken' = broken \cup (IF private THEN {last + 1} ELSE {})
    BY <1>2 DEF Enter
  <2>3. call \in Calls
    <3>1. private \in BOOLEAN
      OBVIOUS
    <3> QED
      BY <2>1, <3>1 DEF Calls, Places
  <2>4. act' \in Seq(Calls)
    BY <1>0, <2>2, <2>3
  <2> HIDE DEF private
  <2> QED
    BY <1>0, <1>2, <2>1, <2>2, <2>4 DEF Enter, TypeOK
<1>3. CASE HandlerDone
  <2>1. GoOn("c", "done") /\ res' = Top.call /\ UNCHANGED <<inHandler, saved, broken, last, ret>>
    BY <1>3 DEF HandlerDone
  <2>2. act' \in Seq(Calls) /\ Top.call \in 1 .. MaxCalls
    BY <1>0, <2>1, GoOnType, TopIsACall DEF Places, GoOn
  <2> QED
    BY <1>0, <2>1, <2>2 DEF TypeOK
<1>4. CASE ClearGuard
  <2>1. GoOn("done", "open")
    BY <1>4 DEF ClearGuard
  <2>2. act' \in Seq(Calls)
    BY <1>0, <2>1, GoOnType DEF Places
  <2> QED
    BY <1>0, <1>4, <2>2 DEF TypeOK, ClearGuard
<1>5. CASE RestoreStack
  <2>1. GoOn("open", "write") /\ UNCHANGED <<inHandler, saved, res, broken, last>>
    BY <1>5 DEF RestoreStack
  <2>2. act' \in Seq(Calls) /\ Top.call \in 1 .. MaxCalls
    BY <1>0, <2>1, GoOnType, TopIsACall DEF Places, GoOn
  <2>3. ret' = [ret EXCEPT !.call = Top.call, !.frame = saved, !.whole = saved \notin broken]
    BY <1>5 DEF RestoreStack
  <2>4. ret' \in Rets
    <3>1. saved \in 0 .. MaxCalls /\ Top.call \in 0 .. MaxCalls /\ (saved \notin broken) \in BOOLEAN
      BY <1>0, <2>2 DEF TypeOK
    <3> QED
      BY <1>0, <2>3, <3>1 DEF Rets
  <2> QED
    BY <1>0, <2>1, <2>2, <2>4 DEF TypeOK
<1>6. CASE Return
  <2>1. act' \in Seq(Calls)
    BY <1>0, <1>6, TopIsACall DEF Return
  <2>2. Top.call \in 1 .. MaxCalls /\ ret' = [ret EXCEPT !.call = Top.call, !.res = res]
    BY <1>0, <1>6, TopIsACall DEF Return
  <2>3. ret' \in Rets
    <3>1. Top.call \in 0 .. MaxCalls /\ res \in 0 .. MaxCalls
      BY <1>0, <2>2 DEF TypeOK
    <3> QED
      BY <1>0, <2>2, <3>1 DEF Rets
  <2> QED
    BY <1>6, <2>1, <2>3 DEF Return, TypeOK
<1>7. CASE Refuse \/ UNCHANGED vars
  BY <1>0, <1>7 DEF Refuse, vars, TypeOK
<1> QED
  BY <1>2, <1>3, <1>4, <1>5, <1>6, <1>7 DEF Next

LEMMA StepGuarded ==
    ASSUME IInv, [Next]_vars PROVE Guarded'
<1> USE DEF IInv, TypeOK, Guarded
<1>1. CASE Enter
  <2> SUFFICES ASSUME NEW i \in DOMAIN act', act'[i].at \in {"c", "done"}
      PROVE /\ inHandler' /\ i = Len(act') /\ saved' = act'[i].call
            /\ act'[i].at = "done" => res' = act'[i].call
    OBVIOUS
  <2>1. i \in DOMAIN act => act'[i] = act[i] /\ ~(act[i].at \in {"c", "done"})
    BY <1>1 DEF Enter
  <2>2. i = Len(act')
    BY <2>1, <1>1 DEF Enter
  <2> QED
    BY <2>2, <1>1 DEF Enter
<1>2. ASSUME NEW from, NEW to, GoOn(from, to)
      PROVE  /\ DOMAIN act' = DOMAIN act /\ Len(act') = Len(act) /\ Len(act) \in DOMAIN act
             /\ act'[Len(act)].at = to /\ act'[Len(act)].call = Top.call
             /\ \A i \in DOMAIN act : i # Len(act) => act'[i] = act[i]
             /\ act[Len(act)].at = from
  BY <1>2 DEF GoOn, Top
<1>3. CASE HandlerDone
  <2>1. GoOn("c", "done") /\ UNCHANGED <<inHandler, saved>> /\ res' = Top.call
    BY <1>3 DEF HandlerDone
  <2> QED
    BY <1>2, <2>1 DEF Top
<1>4. CASE ClearGuard
  <2>1. GoOn("done", "open")
    BY <1>4 DEF ClearGuard
  <2> QED
    BY <1>2, <2>1
<1>5. CASE RestoreStack
  <2>1. GoOn("open", "write") /\ UNCHANGED <<inHandler, saved, res>>
    BY <1>5 DEF RestoreStack
  <2> QED
    BY <1>2, <2>1
<1>6. CASE Return
  <2>1. \A i \in DOMAIN act' : i \in DOMAIN act /\ act'[i] = act[i] /\ i # Len(act)
    BY <1>6 DEF Return
  <2> QED
    BY <2>1, <1>6 DEF Return
<1>7. CASE Refuse \/ UNCHANGED vars
  BY <1>7 DEF Refuse, vars
<1> QED
  BY <1>1, <1>3, <1>4, <1>5, <1>6, <1>7 DEF Next

LEMMA Invariance == Spec => []IInv
<1>1. IInv /\ [Next]_vars => IInv'
  BY StepType, StepGuarded DEF IInv
<1> QED
  BY InitInv, <1>1, PTL DEF Spec

\* Type correctness of the entry code (handler.asm).
THEOREM TypeCorrect == Spec => []TypeOK
<1>1. IInv => TypeOK
  BY DEF IInv
<1> QED
  BY Invariance, <1>1, PTL

\* However many calls come in, and wherever they interrupt one another, at
\* most one is in the C code, whose locals and stack are shared.
THEOREM NotReentered == Spec => []CNotReentered
<1>1. IInv => CNotReentered
  BY DEF IInv, Guarded, CNotReentered
<1> QED
  BY Invariance, <1>1, PTL

\* Until a call clears the guard, saved_ss:saved_sp and res_* are its own.
THEOREM OwnUntilCleared == Spec => []KeepsItsOwn
<1>1. IInv => KeepsItsOwn
  BY DEF IInv, Guarded, KeepsItsOwn
<1> QED
  BY Invariance, <1>1, PTL
=============================================================================
