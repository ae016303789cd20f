------------------------------- MODULE MacHelper -------------------------------
(***************************************************************************)
(* macOS (backend/wg_darwin.go): the helper is started once per Apply, as    *)
(* root, creates the utun and the routes, hands the descriptor of the utun   *)
(* to the GUI process and waits for "down" or the end of the connection to    *)
(* delete the exclude routes it added.  The utun exists as long as one of the  *)
(* two processes has it open.                                                  *)
(***************************************************************************)
EXTENDS Tunnel

-----------------------------------------------------------------------------
(***************************************************************************)
(* The GUI: teardownDarwin.                                                   *)
(***************************************************************************)
StopDevice(t) ==
    /\ Step(t, "stopDevice", "sayDown")
    /\ link' = IF wg[App].dev THEN link \ {App} ELSE link
    /\ Recorded(App, "dev", FALSE)
    /\ UNCHANGED <<routes, rule, refused, taken, helperVars, sessionVars, guiVars, faults>>

SayDown(t) ==
    /\ \/ client = NoHelper /\ Return(t, "sayDown") /\ UNCHANGED inbox
       \/ client # NoHelper /\ Step(t, "sayDown", "awaitExit")
          /\ inbox' = [inbox EXCEPT ![client] = IF pc[client] = "gone" THEN @ ELSE <<"down">>]
    /\ UNCHANGED <<machineVars, wg, taken, client, conn, target, outbox, poisoned, sessionVars, guiVars, faults>>

(* The helper ended, or 5 s are over; the connection closed is the one helperConn has now. *)
HangUp(t) ==
    /\ Return(t, "awaitExit")
    /\ conn' = [h \in Helpers |-> IF h = client THEN "closed" ELSE conn[h]]
    /\ client' = NoHelper
    /\ UNCHANGED <<machineVars, wg, taken, target, inbox, outbox, poisoned, sessionVars, guiVars, faults>>
-----------------------------------------------------------------------------
(***************************************************************************)
(* The GUI: applyDarwin.                                                      *)
(***************************************************************************)
(* osascript asks for the password and starts the helper, which dials within 30 s. *)
AskPassword(t) ==
    /\ platform = "darwin"
    /\ \/ Step(t, "create", "failed") /\ UNCHANGED <<target, conn>>
       \/ /\ pc[t] = "create"
          /\ \E h \in NextHelper :
               /\ pc' = [pc EXCEPT ![t] = "receive", ![h] = "build"]
               /\ target' = [target EXCEPT ![t] = h]
               /\ conn' = [conn EXCEPT ![h] = "open"]
          /\ UNCHANGED <<next, mixed>>
    /\ UNCHANGED <<machineVars, wg, taken, client, inbox, outbox, poisoned, sessionVars, guiVars, faults>>

(* recvTunFD: the descriptor; or an error of the helper, its end or 60 s without a message, *)
(* on which the connection is closed.                                                       *)
ReceiveFD(t) ==
    LET h == target[t] IN
    /\ \/ /\ Step(t, "receive", "wrap")
          /\ outbox[h] = <<"fd">>
          /\ outbox' = [outbox EXCEPT ![h] = <<>>]
          /\ link' = link \cup {App}
          /\ UNCHANGED conn
       \/ /\ Step(t, "receive", "failed")
          /\ outbox[h] # <<"fd">>
          /\ conn' = [conn EXCEPT ![h] = "closed"]
          /\ outbox' = [outbox EXCEPT ![h] = <<>>]
          /\ UNCHANGED link
    /\ UNCHANGED <<routes, rule, refused, wg, taken, client, target, inbox, poisoned, sessionVars, guiVars, faults>>

(* The userspace device on top of the descriptor. *)
WrapDevice(t) ==
    /\ \/ Step(t, "wrap", "keep") /\ UNCHANGED <<link, conn>>
       \/ /\ Step(t, "wrap", "failed")
          /\ link' = link \ {App}
          /\ conn' = [conn EXCEPT ![target[t]] = "closed"]
    /\ UNCHANGED <<routes, rule, refused, wg, taken, client, target, inbox, outbox, poisoned, sessionVars, guiVars, faults>>

Keep(t) ==
    /\ Step(t, "keep", "ok")
    /\ Recorded(App, "dev", TRUE)
    /\ client' = target[t]
    /\ target' = [target EXCEPT ![t] = NoHelper]
    /\ UNCHANGED <<machineVars, taken, conn, inbox, outbox, poisoned, sessionVars, guiVars, faults>>

MacGUI(t) ==
    \/ StopDevice(t) \/ SayDown(t) \/ HangUp(t)
    \/ AskPassword(t) \/ ReceiveFD(t) \/ WrapDevice(t) \/ Keep(t)
-----------------------------------------------------------------------------
(***************************************************************************)
(* The helper: RunWGHelperDarwin.                                             *)
(***************************************************************************)
(* utun, its address; the process ends when either fails. *)
BuildUtun(h) ==
    /\ \/ Step(h, "build", "routes") /\ link' = link \cup {h} /\ UNCHANGED outbox
       \/ /\ Step(h, "build", "gone")
          /\ outbox' = [outbox EXCEPT ![h] = IF conn[h] = "open" THEN <<"error">> ELSE @]
          /\ UNCHANGED link
    /\ UNCHANGED <<routes, rule, refused, wg, taken, client, conn, target, inbox, poisoned, sessionVars, guiVars, faults>>

(* Each exclude is deleted and added again, so what an earlier run left does not stop it. *)
MacRoutes(h) ==
    /\ Step(h, "routes", "sendFD")
    /\ \/ routes' = TRUE /\ taken' = [taken EXCEPT ![h] = TRUE]
       \/ UNCHANGED <<routes, taken>>
    /\ UNCHANGED <<link, rule, refused, wg, helperVars, sessionVars, guiVars, faults>>

SendFD(h) ==
    /\ Step(h, "sendFD", "hold")
    /\ outbox' = [outbox EXCEPT ![h] = IF conn[h] = "open" THEN <<"fd">> ELSE @]
    /\ UNCHANGED <<machineVars, wg, taken, client, conn, target, inbox, poisoned, sessionVars, guiVars, faults>>

(* Mutant: only "down" ends the loop, not an error of Read. *)
LetGoWhenTold(h) ==
    /\ inbox[h] # <<>>
    /\ Step(h, "hold", "cleanUp")
    /\ UNCHANGED <<machineVars, wg, taken, helperVars, sessionVars, guiVars, faults>>

LetGo(h) ==
    /\ inbox[h] # <<>> \/ conn[h] = "closed"
    /\ Step(h, "hold", "cleanUp")
    /\ UNCHANGED <<machineVars, wg, taken, helperVars, sessionVars, guiVars, faults>>

CleanUp(h) ==
    /\ Step(h, "cleanUp", "gone")
    /\ routes' = (routes /\ ~taken[h])
    /\ taken' = [taken EXCEPT ![h] = FALSE]
    /\ link' = link \ {h}
    /\ inbox' = [inbox EXCEPT ![h] = <<>>]
    /\ UNCHANGED <<rule, refused, wg, client, conn, target, outbox, poisoned, sessionVars, guiVars, faults>>

MacHelperProcess(h) == BuildUtun(h) \/ MacRoutes(h) \/ SendFD(h) \/ LetGo(h) \/ CleanUp(h)
=============================================================================
