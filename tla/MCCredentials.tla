--------------------------- MODULE MCCredentials ---------------------------
(* Instances of Credentials for TLC. *)
EXTENDS Credentials

CONSTANTS g1, g2, p, b1, b2

MCCalls == {g1, g2, p}
MCBrowsers == {b1, b2}

(* A worker group in each of two Cores, and a probe. *)
MCCoreOf == [c \in MCCalls |-> CASE c = g1 -> 1 [] c = g2 -> 2 [] c = p -> 0]
=============================================================================
