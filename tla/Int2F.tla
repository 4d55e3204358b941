-------------------------------- MODULE Int2F --------------------------------
(***************************************************************************)
(* The INT 2Fh entry of handler.asm around the C code of redirector.c: the *)
(* guard in_handler, the private stack, the saved caller's stack and the   *)
(* result variables res_*, of which there is one each.                     *)
(*                                                                         *)
(* A call may come from DOS, or from an interrupt handler (the driver's, a *)
(* resident program's) while an earlier call is in progress; it is then    *)
(* finished before the earlier one goes on.  Calls are numbered.  A call   *)
(* with another AH is passed on and touches nothing.                       *)
(***************************************************************************)
EXTENDS Naturals, Sequences

CONSTANTS MaxCalls  \* bound: calls accepted

ASSUME Int2FAssumption == MaxCalls \in Nat

VARIABLES
    act,        \* the calls in progress, innermost last: number, place, and
                \* whether its register frame is on the private stack
    inHandler,  \* in_handler
    saved,      \* saved_ss:saved_sp, as the call whose register frame it is
    res,        \* res_*, as the call whose results they are
    broken,     \* calls whose register frame was overwritten
    last,       \* history: the number of the latest call
    ret         \* history: how the latest return went

vars == <<act, inHandler, saved, res, broken, last, ret>>

\* "c": in the C function; "done": it returned, res_* is set; "open": the
\* guard is cleared; "write": back on the caller's stack, res_* not yet copied.
Places == {"c", "done", "open", "write"}
OnPrivateStack == {"c", "done", "open"}
Top == act[Len(act)]

Init ==
    /\ act = <<>> /\ inHandler = FALSE /\ saved = 0 /\ res = 0 /\ broken = {}
    /\ last = 0 /\ ret = [call |-> 0, frame |-> 0, res |-> 0, whole |-> TRUE]

\* Mutant: the guard is not set.
EnterUnguarded ==
    /\ ~inHandler /\ last < MaxCalls
    /\ last' = last + 1
    /\ LET private == act # <<>> /\ Top.at \in OnPrivateStack IN
       /\ act' = Append(act, [call |-> last + 1, at |-> "c", private |-> private])
       /\ broken' = broken \cup (IF private THEN {last + 1} ELSE {})
    /\ saved' = last + 1
    /\ UNCHANGED <<inHandler, res, ret>>

\* From INT to the instruction after STI interrupts are off: the check, the
\* arguments, the stack switch and the guard are one step.  A frame that lies
\* on the private stack is below the top the switch goes back to.
Enter ==
    /\ ~inHandler /\ last < MaxCalls
    /\ inHandler' = TRUE
    /\ last' = last + 1
    /\ LET private == act # <<>> /\ Top.at \in OnPrivateStack IN
       /\ act' = Append(act, [call |-> last + 1, at |-> "c", private |-> private])
       /\ broken' = broken \cup (IF private THEN {last + 1} ELSE {})
    /\ saved' = last + 1
    /\ UNCHANGED <<res, ret>>

\* Mutant: the stack is switched, and the caller's saved, before the check.
RefuseLate ==
    /\ inHandler /\ act # <<>>
    /\ saved' = last + 1
    /\ UNCHANGED <<act, inHandler, res, broken, last, ret>>

\* The nested call returns at once with AX=2 and CF=1.
Refuse == inHandler /\ act # <<>> /\ UNCHANGED vars

GoOn(from, to) ==
    /\ act # <<>> /\ Top.at = from
    /\ act' = [act EXCEPT ![Len(act)].at = to]

\* The dispatch and the C function, down to its return value in res_*.
HandlerDone ==
    /\ GoOn("c", "done")
    /\ res' = Top.call
    /\ UNCHANGED <<inHandler, saved, broken, last, ret>>

ClearGuard ==
    /\ GoOn("done", "open")
    /\ inHandler' = FALSE
    /\ UNCHANGED <<saved, res, broken, last, ret>>

\* CLI, SS:SP, STI: the frame the call ends in is the one saved last.
RestoreStack ==
    /\ GoOn("open", "write")
    /\ ret' = [ret EXCEPT !.call = Top.call, !.frame = saved, !.whole = saved \notin broken]
    /\ UNCHANGED <<inHandler, saved, res, broken, last>>

Return ==
    /\ act # <<>> /\ Top.at = "write"
    /\ act' = SubSeq(act, 1, Len(act) - 1)
    /\ ret' = [ret EXCEPT !.call = Top.call, !.res = res]
    /\ UNCHANGED <<inHandler, saved, res, broken, last>>

Next == Enter \/ Refuse \/ HandlerDone \/ ClearGuard \/ RestoreStack \/ Return
Spec == Init /\ [][Next]_vars

-----------------------------------------------------------------------------

\* Every variable stays in its range.
TypeOK ==
    /\ act \in Seq([call : 1 .. MaxCalls, at : Places, private : BOOLEAN])
    /\ inHandler \in BOOLEAN /\ saved \in 0 .. MaxCalls /\ res \in 0 .. MaxCalls
    /\ broken \subseteq 1 .. MaxCalls /\ last \in 0 .. MaxCalls
    /\ ret \in [call : 0 .. MaxCalls, frame : 0 .. MaxCalls, res : 0 .. MaxCalls,
                whole : BOOLEAN]

\* The C code, whose locals are static and whose stack is the one private
\* stack, is never entered while a call is still in it: not by a nested call
\* during it, nor by one in the windows on the way out.
CNotReentered ==
    \A i, j \in DOMAIN act : act[i].at \in {"c", "done"} /\ act[j].at \in {"c", "done"} => i = j

\* Until a call clears the guard, the frame it will return to and the results
\* it will return are its own, whatever is called meanwhile.
KeepsItsOwn ==
    \A i \in DOMAIN act :
        /\ act[i].at \in {"c", "done"} => saved = act[i].call
        /\ act[i].at = "done" => res = act[i].call
=============================================================================
