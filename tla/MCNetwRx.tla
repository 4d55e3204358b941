------------------------------ MODULE MCNetwRx ------------------------------
(* Instances of NetwRx for TLC.                                            *)
EXTENDS NetwRx

CONSTANTS s1, s2, f1, f2, g1

MCSlot == {s1, s2}
MCFrame == {f1, f2, g1}
MCForUs == {f1, f2}
=============================================================================
