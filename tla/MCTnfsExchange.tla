--------------------------- MODULE MCTnfsExchange ---------------------------
(* Instances of TnfsExchange for TLC.                                      *)
EXTENDS TnfsExchange

CONSTANTS a, b

MCCmd == {a, b}
=============================================================================
