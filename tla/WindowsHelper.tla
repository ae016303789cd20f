----------------------------- MODULE WindowsHelper -----------------------------
(***************************************************************************)
(* The elevated helper of Windows (backend/wg_elevation_windows.go): the    *)
(* GUI process launches its own executable through UAC, sends it commands   *)
(* over a local connection and waits for one result each; the helper does   *)
(* the work with a WG of its own, and takes everything down on every way    *)
(* out of its loop.                                                          *)
(*                                                                           *)
(* The mutex of windowsWGHelperState is held while the user looks at the UAC  *)
(* dialog, the mutex of a client while its request waits for the result.      *)
(***************************************************************************)
EXTENDS Tunnel

StateLocked == \E t \in AppThreads : pc[t] = "uac"
ClientLocked(h) == \E t \in AppThreads : target[t] = h /\ pc[t] \in {"await", "awaitDown"}
Alive(h) == pc[h] \notin {"unused", "gone"}
-----------------------------------------------------------------------------
(***************************************************************************)
(* The GUI: getOrStartWindowsWGHelper, startWindowsWGHelper.                  *)
(***************************************************************************)
GetClient(t) ==
    /\ ~StateLocked
    /\ \/ client # NoHelper /\ Step(t, "lockState", "request")
       \/ client = NoHelper /\ Step(t, "lockState", "uac")
    /\ target' = [target EXCEPT ![t] = client]
    /\ UNCHANGED <<machineVars, wg, taken, client, conn, inbox, outbox, poisoned, sessionVars, guiVars, faults>>

(* ShellExecute with the verb runas, and the hello of the elevated process it launched; a *)
(* process that dials too late finds no listener and ends.                                *)
HelperConnects(t) ==
    /\ pc[t] = "uac"
    /\ \E h \in NextHelper :
         /\ pc' = [pc EXCEPT ![t] = "request", ![h] = "ready"]
         /\ target' = [target EXCEPT ![t] = h]
         /\ client' = h
         /\ conn' = [conn EXCEPT ![h] = "open"]
    /\ UNCHANGED <<machineVars, wg, next, mixed, taken, inbox, outbox, poisoned, sessionVars, guiVars, faults>>

(* The user refuses, the process does not dial within 60 s, or it is not elevated. *)
NotElevated(t) ==
    /\ Step(t, "uac", "failed")
    /\ UNCHANGED <<machineVars, wg, taken, helperVars, sessionVars, guiVars, faults>>
-----------------------------------------------------------------------------
(***************************************************************************)
(* The GUI: windowsWGHelperClient.request.                                    *)
(***************************************************************************)
(* The encoder fails on a connection that is closed, and may on one whose helper ended. *)
Send(t, from, command, waiting, error) ==
    LET h == target[t] IN
    /\ h # NoHelper /\ ~ClientLocked(h)
    /\ \/ Step(t, from, waiting) /\ conn[h] = "open"
          /\ inbox' = [inbox EXCEPT ![h] = IF Alive(h) THEN Append(@, command) ELSE @]
       \/ Step(t, from, error) /\ (conn[h] = "closed" \/ ~Alive(h)) /\ UNCHANGED inbox
    /\ UNCHANGED <<machineVars, wg, taken, client, conn, target, outbox, poisoned, sessionVars, guiVars, faults>>

(* The next result, if the deadline of 90 s did not pass in an earlier request. *)
Receive(t, from, ok, error) ==
    LET h == target[t] IN
    /\ pc[t] = from /\ outbox[h] # <<>> /\ ~poisoned[h]
    /\ Step(t, from, IF Head(outbox[h]) = "ok" THEN ok ELSE error)
    /\ outbox' = [outbox EXCEPT ![h] = Tail(@)]
    /\ UNCHANGED <<machineVars, wg, taken, client, conn, target, inbox, poisoned, sessionVars, guiVars, faults>>

(* The decoder fails: it did before, the helper ended, or the connection was closed; or the *)
(* deadline passes.                                                                         *)
ReceiveFails(t, from, error) ==
    LET h == target[t] IN
    /\ Step(t, from, error)
    /\ \/ (poisoned[h] \/ conn[h] = "closed" \/ (~Alive(h) /\ outbox[h] = <<>>)) /\ UNCHANGED <<poisoned, faults>>
       \/ Fault /\ poisoned' = [poisoned EXCEPT ![h] = TRUE]
    /\ UNCHANGED <<machineVars, wg, taken, client, conn, target, inbox, outbox, sessionVars, guiVars>>

RequestApply(t) == Send(t, "request", "apply", "await", "failed")
AwaitApply(t) == Receive(t, "await", "ok", "failed") \/ ReceiveFails(t, "await", "failed")

(* Mutant: the client stays in windowsWGHelperState. *)
ReadClient(t) ==
    /\ ~StateLocked
    /\ \/ client # NoHelper /\ Step(t, "release", "askDown")
       \/ client = NoHelper /\ Return(t, "release")
    /\ target' = [target EXCEPT ![t] = client]
    /\ UNCHANGED <<machineVars, wg, taken, client, conn, inbox, outbox, poisoned, sessionVars, guiVars, faults>>

(* teardownWindowsPrivilegedHelper. *)
TakeClient(t) ==
    /\ ~StateLocked
    /\ \/ client # NoHelper /\ Step(t, "release", "askDown")
       \/ client = NoHelper /\ Return(t, "release")
    /\ target' = [target EXCEPT ![t] = client]
    /\ client' = NoHelper
    /\ UNCHANGED <<machineVars, wg, taken, conn, inbox, outbox, poisoned, sessionVars, guiVars, faults>>

RequestDown(t) == Send(t, "askDown", "teardown", "awaitDown", "closeConn")
AwaitDown(t) == Receive(t, "awaitDown", "closeConn", "closeConn") \/ ReceiveFails(t, "awaitDown", "closeConn")

(* Results that come now are read by nobody. *)
Close(h) ==
    /\ conn' = [conn EXCEPT ![h] = "closed"]
    /\ outbox' = [outbox EXCEPT ![h] = <<>>]

CloseConn(t) ==
    /\ Return(t, "closeConn")
    /\ Close(target[t])
    /\ target' = [target EXCEPT ![t] = NoHelper]
    /\ UNCHANGED <<machineVars, wg, taken, client, inbox, poisoned, sessionVars, guiVars, faults>>

WindowsGUI(t) ==
    \/ GetClient(t) \/ HelperConnects(t) \/ NotElevated(t)
    \/ RequestApply(t) \/ AwaitApply(t)
    \/ TakeClient(t) \/ RequestDown(t) \/ AwaitDown(t) \/ CloseConn(t)
-----------------------------------------------------------------------------
(***************************************************************************)
(* The helper: runWindowsWGHelper.                                            *)
(***************************************************************************)
ReadCommand(h) ==
    /\ pc[h] = "ready" /\ inbox[h] # <<>>
    /\ BeginTeardown(h, IF Head(inbox[h]) = "apply" THEN "create" ELSE "leave")
    /\ inbox' = [inbox EXCEPT ![h] = Tail(@)]
    /\ UNCHANGED <<machineVars, wg, taken, client, conn, target, outbox, poisoned, sessionVars, guiVars, faults>>

(* Mutant: no deferred Teardown. *)
ReadFailsAtOnce(h) ==
    /\ conn[h] = "closed"
    /\ Step(h, "ready", "gone")
    /\ inbox' = [inbox EXCEPT ![h] = <<>>]
    /\ UNCHANGED <<machineVars, wg, taken, client, conn, target, outbox, poisoned, sessionVars, guiVars, faults>>

(* The decoder fails: the deferred Teardown runs, then the process ends. *)
ReadFails(h) ==
    /\ pc[h] = "ready" /\ conn[h] = "closed"
    /\ BeginTeardown(h, "gone")
    /\ inbox' = [inbox EXCEPT ![h] = <<>>]
    /\ UNCHANGED <<machineVars, wg, taken, client, conn, target, outbox, poisoned, sessionVars, guiVars, faults>>

Reply(h, result) ==
    outbox' = [outbox EXCEPT ![h] = IF conn[h] = "open" THEN Append(@, result) ELSE @]

(* Mutant: the error of applyWindowsLocal is not sent. *)
AnswerAlwaysOK(h) ==
    /\ \E from \in {"ok", "failed"} : Step(h, from, "ready")
    /\ Reply(h, "ok")
    /\ UNCHANGED <<machineVars, wg, taken, client, conn, target, inbox, poisoned, sessionVars, guiVars, faults>>

(* The result of an apply; the loop goes on. *)
Answer(h) ==
    /\ \/ Step(h, "ok", "ready") /\ Reply(h, "ok")
       \/ Step(h, "failed", "ready") /\ Reply(h, "error")
    /\ UNCHANGED <<machineVars, wg, taken, client, conn, target, inbox, poisoned, sessionVars, guiVars, faults>>

(* The result of a teardown; the loop is left, and the deferred Teardown runs once more: all *)
(* it finds to do is to remove the IPv6 rule again.                                          *)
AnswerDown(h) ==
    /\ pc[h] = "leave"
    /\ Reply(h, "ok")
    /\ inbox' = [inbox EXCEPT ![h] = <<>>]
    /\ pc' = [pc EXCEPT ![h] = "unprotect"]
    /\ next' = [next EXCEPT ![h] = "gone"]
    /\ UNCHANGED <<machineVars, wg, mixed, taken, client, conn, target, poisoned, sessionVars, guiVars, faults>>

WindowsHelperProcess(h) ==
    \/ ReadCommand(h) \/ ReadFails(h) \/ Answer(h) \/ AnswerDown(h)
    \/ Windows(h)
=============================================================================
