------------------------------- MODULE MCBridge -------------------------------
(* Instances of Bridge for TLC. *)
EXTENDS Bridge

CONSTANTS d1, d2

MCCallers == {d1, d2}
OneCaller == {d1}

=============================================================================
