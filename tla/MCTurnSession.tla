---------------------------- MODULE MCTurnSession ----------------------------
(* Instances of TurnSession for TLC. *)
EXTENDS TurnSession

CONSTANT s1

OneSession == {s1}
=============================================================================
