------------------------------ MODULE Lifecycle ------------------------------
(***************************************************************************)
(* What the connection lifecycle promises, without saying how: the client   *)
(* runs one session at a time, the WireGuard interface belongs to the       *)
(* session that runs, and a session lets go of its place only after the     *)
(* interface is gone.  Bridge.tla is shown to implement this module.        *)
(***************************************************************************)
EXTENDS Naturals

CONSTANT MaxCalls   \* how many sessions are followed; session numbers are 1..MaxCalls

VARIABLES
    holder,   \* the session that holds the only place, 0 when there is none
    link,     \* the session whose interface is up, 0 when no interface is up
    spent     \* the sessions ever admitted

absVars == <<holder, link, spent>>

AbsSessions == 1..MaxCalls

AbsInit == holder = 0 /\ link = 0 /\ spent = {}

(* A session that never ran before takes the free place. *)
Admit ==
    /\ holder = 0
    /\ \E s \in AbsSessions \ spent : holder' = s /\ spent' = spent \cup {s}
    /\ UNCHANGED link

(* The holder brings its interface up; nobody else can. *)
Raise ==
    /\ holder # 0
    /\ link' = holder
    /\ UNCHANGED <<holder, spent>>

(* The interface may be removed at any moment: by the user, by an error, at the end. *)
Lower ==
    /\ link' = 0
    /\ UNCHANGED <<holder, spent>>

(* The place is given back only with the interface down. *)
Release ==
    /\ link = 0
    /\ holder' = 0
    /\ UNCHANGED <<link, spent>>

AbsNext == Admit \/ Raise \/ Lower \/ Release

AbsSpec == AbsInit /\ [][AbsNext]_absVars
=============================================================================
