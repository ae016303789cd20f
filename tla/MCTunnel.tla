------------------------------ MODULE MCTunnel ------------------------------
(* Instances of TunnelSystem for TLC. *)
EXTENDS TunnelSystem

CONSTANTS h1, h2

TwoHelpers == {h1, h2}

Four == {"linux", "elevated", "helper", "darwin"}

(* The platforms without a second process are small enough to start the GUI twice. *)
MCRuns == [p \in Four |-> IF p \in {"linux", "elevated"} THEN 2 ELSE 1]
=============================================================================
