-------------------------- MODULE MCHashOperations --------------------------
(* One hash that a manual check, a check of all and a preflight ask for. *)
EXTENDS HashOperations, TLC

CONSTANTS h1, m1, b1

OneHash == {h1}
OneManual == {m1}
OneBulk == {b1}
=============================================================================
