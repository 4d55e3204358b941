------------------------------ MODULE RxMailbox ------------------------------
(***************************************************************************)
(* What the receive path of TNFSDRV promises to tnfs_sendReceive(): a one- *)
(* place mailbox.  A frame enters it whole and only when it is empty, it   *)
(* may be discarded, and what the caller takes is exactly what entered.    *)
(* A frame is the pair of its halves, so that a torn frame is expressible. *)
(***************************************************************************)
CONSTANTS Frame,      \* the frames the interface can receive
          NoFrame

VARIABLES mail,       \* the frame in the box, or Nothing
          taken       \* the last frame handed to the caller, or Nothing

mboxVars == <<mail, taken>>

Nothing == <<NoFrame, NoFrame>>
Whole(f) == <<f, f>>

MInit == mail = Nothing /\ taken = Nothing

Put(f) == mail = Nothing /\ mail' = Whole(f) /\ UNCHANGED taken

Discard == mail' = Nothing /\ UNCHANGED taken

Take == mail # Nothing /\ taken' = mail /\ mail' = Nothing

MNext == (\E f \in Frame : Put(f)) \/ Discard \/ Take

MSpec == MInit /\ [][MNext]_mboxVars
==============================================================================
