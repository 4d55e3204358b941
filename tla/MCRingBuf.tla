------------------------------ MODULE MCRingBuf ------------------------------
(* A ring of three characters, two of them distinct, and more logged than fits. *)
EXTENDS RingBuf

CONSTANTS a, b
MCChar == {a, b}
=============================================================================
