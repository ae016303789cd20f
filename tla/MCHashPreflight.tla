--------------------------- MODULE MCHashPreflight ---------------------------
(* Instances of HashPreflight for TLC. *)
EXTENDS HashPreflight

CONSTANTS a, b, c, d

MCOld == {a, b}
MCNamed == {a}
MCPooled == {b}
MCElsewhere == {b}
MCNew == {c, d}
=============================================================================
