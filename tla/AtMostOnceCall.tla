--------------------------- MODULE AtMostOnceCall ---------------------------
(***************************************************************************)
(* What tnfs_sendReceive() promises to the file-system backend: calls are  *)
(* numbered in the order they are made; the server executes a call at most *)
(* once and never after a later one; a call is reported as answered only   *)
(* after it was executed.  A call may be given up, executed or not.        *)
(***************************************************************************)
EXTENDS Naturals

VARIABLES cur,     \* the number of the latest call
          busy,    \* it is in progress
          exempt,  \* it is a MOUNT, which executes no file operation
          execd,   \* the latest call the server has executed
          count,   \* how many times it has executed one
          res      \* how the latest finished call ended

amoVars == <<cur, busy, exempt, execd, count, res>>

AInit == cur = 0 /\ ~busy /\ exempt = FALSE /\ execd = 0 /\ count = 0 /\ res = "none"

BeginCall ==
    /\ ~busy
    /\ cur' = cur + 1 /\ busy' = TRUE /\ exempt' \in BOOLEAN
    /\ UNCHANGED <<execd, count, res>>

Execute ==
    /\ execd' \in execd + 1 .. cur /\ count' = count + 1
    /\ UNCHANGED <<cur, busy, exempt, res>>

Answered ==
    /\ busy /\ (exempt \/ execd = cur)
    /\ busy' = FALSE /\ res' = "answered"
    /\ UNCHANGED <<cur, exempt, execd, count>>

GivenUp ==
    /\ busy' = FALSE /\ res' = "failed"
    /\ UNCHANGED <<cur, exempt, execd, count>>

ANext == BeginCall \/ Execute \/ Answered \/ GivenUp

ASpec == AInit /\ [][ANext]_amoVars
=============================================================================
