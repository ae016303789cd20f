------------------------------ MODULE TunnelProofs ---------------------------
(***************************************************************************)
(* Theorems about the tunnel of the machine on the four platforms, for any   *)
(* number of sessions, runs of the GUI, helpers and faults.                   *)
(*                                                                           *)
(* Control says where the two goroutines of the GUI can be and what that       *)
(* tells of the session; LinuxInv, ElevatedInv, HelperInv and DarwinInv say     *)
(* who answers for what is set up on the machine.                              *)
(***************************************************************************)
EXTENDS TunnelSystem, TLAPS, SequenceTheorems

Shape ==
    /\ platform \in {"linux", "elevated", "helper", "darwin"}
    /\ DOMAIN pc = Threads /\ DOMAIN next = Threads
    /\ wg \in [Processes -> WG]
    /\ taken \in [Threads -> BOOLEAN]
    /\ DOMAIN target = AppThreads /\ DOMAIN conn = Helpers
    /\ DOMAIN inbox = Helpers /\ DOMAIN outbox = Helpers
    /\ routes \in BOOLEAN /\ rule \in BOOLEAN

(* The labels of a Teardown and of an Apply in the GUI. *)
Down ==
    CASE platform = "linux" -> {"take", "deleteRoutes", "deleteLink"}
      [] platform = "elevated" -> {"takeDown", "unprotect"}
      [] platform = "helper" -> {"release", "askDown", "awaitDown", "closeConn"}
      [] platform = "darwin" -> {"stopDevice", "sayDown", "awaitExit"}

Up ==
    CASE platform = "linux" -> {"create", "configure", "addRoutes", "keepRoutes"}
      [] platform = "elevated" -> {"create", "routes", "protect"}
      [] platform = "helper" -> {"lockState", "uac", "request", "await"}
      [] platform = "darwin" -> {"create", "receive", "wrap", "keep"}

(* Only forwardEvents sets up, and it has the config then; what it recorded as applied it     *)
(* takes down before the session is forgotten.                                                *)
Control ==
    /\ pc["forward"] \in Down \cup Up \cup {"idle", "ok", "failed", "error", "final"}
    /\ pc["user"] \in Down \cup {"idle", "stop", "exit"}
    /\ IF pc["forward"] \in Down THEN next["forward"] \in {"create", "error", "final"}
       ELSE next["forward"] = "idle"
    /\ pc["user"] \in Down => next["user"] \in {"stop", "exit"}
    /\ platform = "helper" => next["forward"] # "create"
    /\ core = "none" => pc["forward"] = "idle" /\ ~configured
    /\ alone => pc["user"] = "idle"
    /\ applied => configured /\ (pc["forward"] \in {"idle", "final"} \/ next["forward"] = "final")
    /\ pc["forward"] \in Up \cup {"ok"} \/ next["forward"] = "create" => configured

(* What the GUI does outside an Apply and a Teardown. *)
SessionStep ==
    \/ Connect \/ CoreEnds \/ Config \/ ApplyOK \/ ApplyFails \/ ApplyError \/ Drained \/ Reset
    \/ Disconnect \/ StopCore \/ Shutdown \/ GuiEnds \/ Start \/ CleanStale
-----------------------------------------------------------------------------
(***************************************************************************)
(* Steps of a thread and of the record of what was set up.                    *)
(***************************************************************************)
LEMMA Names ==
    /\ "forward" \in Threads /\ "user" \in Threads /\ "forward" \in AppThreads /\ "user" \in AppThreads
    /\ "forward" \notin Helpers /\ "user" \notin Helpers /\ "forward" # "user"
    /\ App \in Processes /\ App \notin Helpers /\ NoHelper \notin Helpers
    /\ \A h \in Helpers : h \in Threads /\ h \in Processes /\ ProcessOf(h) = h /\ h \notin AppThreads
    /\ \A t \in AppThreads : t \in Threads /\ t \notin Helpers /\ ProcessOf(t) = App
BY TunnelAssumption DEF AppThreads, Threads, Processes, App, ProcessOf

LEMMA StepIs ==
    ASSUME Shape, NEW t \in Threads, NEW a, NEW b, Step(t, a, b)
    PROVE  /\ pc[t] = a /\ pc'[t] = b /\ DOMAIN pc' = Threads /\ next' = next
           /\ \A s \in Threads \ {t} : pc'[s] = pc[s]
BY DEF Shape, Step

LEMMA ReturnIs ==
    ASSUME Shape, NEW t \in Threads, NEW a, Return(t, a)
    PROVE  /\ pc[t] = a /\ pc'[t] = next[t] /\ DOMAIN pc' = Threads
           /\ next'[t] = "idle" /\ DOMAIN next' = Threads
           /\ \A s \in Threads \ {t} : pc'[s] = pc[s] /\ next'[s] = next[s]
BY DEF Shape, Return

LEMMA BeginIs ==
    ASSUME Shape, NEW t \in Threads, NEW then, BeginTeardown(t, then)
    PROVE  /\ pc'[t] = TeardownOf(t) /\ DOMAIN pc' = Threads
           /\ next'[t] = then /\ DOMAIN next' = Threads
           /\ \A s \in Threads \ {t} : pc'[s] = pc[s] /\ next'[s] = next[s]
BY DEF Shape, BeginTeardown

(* A step of a thread keeps what there is of threads. *)
LEMMA ThreadsStay ==
    ASSUME Shape, NEW t \in Threads, NEW a, NEW b,
           Step(t, a, b) \/ Return(t, a) \/ BeginTeardown(t, b)
    PROVE  DOMAIN pc' = Threads /\ DOMAIN next' = Threads
BY StepIs, ReturnIs, BeginIs DEF Shape

LEMMA RecordedIs ==
    ASSUME Shape, NEW p \in Processes, NEW value \in BOOLEAN
    PROVE  /\ Recorded(p, "dev", value) =>
                /\ wg' \in [Processes -> WG]
                /\ wg'[p].dev = value /\ wg'[p].routes = wg[p].routes /\ wg'[p].protected = wg[p].protected
                /\ \A q \in Processes \ {p} : wg'[q] = wg[q]
           /\ Recorded(p, "routes", value) =>
                /\ wg' \in [Processes -> WG]
                /\ wg'[p].routes = value /\ wg'[p].dev = wg[p].dev /\ wg'[p].protected = wg[p].protected
                /\ \A q \in Processes \ {p} : wg'[q] = wg[q]
           /\ Recorded(p, "protected", value) =>
                /\ wg' \in [Processes -> WG]
                /\ wg'[p].protected = value /\ wg'[p].dev = wg[p].dev /\ wg'[p].routes = wg[p].routes
                /\ \A q \in Processes \ {p} : wg'[q] = wg[q]
<1>1. wg[p] \in WG
  BY DEF Shape
<1>2. ASSUME Recorded(p, "dev", value)
      PROVE  /\ wg' \in [Processes -> WG]
             /\ wg'[p].dev = value /\ wg'[p].routes = wg[p].routes /\ wg'[p].protected = wg[p].protected
             /\ \A q \in Processes \ {p} : wg'[q] = wg[q]
  BY <1>1, <1>2 DEF Shape, Recorded, WG
<1>3. ASSUME Recorded(p, "routes", value)
      PROVE  /\ wg' \in [Processes -> WG]
             /\ wg'[p].routes = value /\ wg'[p].dev = wg[p].dev /\ wg'[p].protected = wg[p].protected
             /\ \A q \in Processes \ {p} : wg'[q] = wg[q]
  BY <1>1, <1>3 DEF Shape, Recorded, WG
<1>4. ASSUME Recorded(p, "protected", value)
      PROVE  /\ wg' \in [Processes -> WG]
             /\ wg'[p].protected = value /\ wg'[p].dev = wg[p].dev /\ wg'[p].routes = wg[p].routes
             /\ \A q \in Processes \ {p} : wg'[q] = wg[q]
  BY <1>1, <1>4 DEF Shape, Recorded, WG
<1> QED
  BY <1>2, <1>3, <1>4

(* TakeDown clears two fields at once. *)
LEMMA TakenDown ==
    ASSUME Shape, NEW p \in Processes, wg' = [wg EXCEPT ![p].routes = FALSE, ![p].dev = FALSE]
    PROVE  /\ wg' \in [Processes -> WG]
           /\ wg'[p].routes = FALSE /\ wg'[p].dev = FALSE /\ wg'[p].protected = wg[p].protected
           /\ \A q \in Processes \ {p} : wg'[q] = wg[q]
<1>1. wg[p] \in WG
  BY DEF Shape
<1>2. wg' = [wg EXCEPT ![p] = [wg[p] EXCEPT !.routes = FALSE, !.dev = FALSE]]
  BY <1>1 DEF Shape, WG
<1> DEFINE new == [wg[p] EXCEPT !.routes = FALSE, !.dev = FALSE]
<1>3. new \in WG /\ new.routes = FALSE /\ new.dev = FALSE /\ new.protected = wg[p].protected
  BY <1>1 DEF WG
<1> HIDE DEF new
<1>4. wg' = [wg EXCEPT ![p] = new]
  BY <1>2 DEF new
<1> QED
  BY <1>3, <1>4 DEF Shape

LEMMA Forgotten ==
    ASSUME Shape, NEW p \in Processes, wg' = [wg EXCEPT ![p] = NoWG]
    PROVE  wg' \in [Processes -> WG] /\ wg'[p] = NoWG /\ \A q \in Processes \ {p} : wg'[q] = wg[q]
<1>1. NoWG \in WG
  BY DEF NoWG, WG
<1> QED
  BY <1>1 DEF Shape

LEMMA StepOf ==
    ASSUME [Next]_vars
    PROVE  \/ SessionStep
           \/ \E t \in AppThreads : GuiThread(t)
           \/ \E h \in Helpers : HelperProcess(h) \/ KillHelper(h)
           \/ UNCHANGED vars
BY DEF Next, Forwarder, Exit, Kill, SessionStep
-----------------------------------------------------------------------------
(***************************************************************************)
(* Shape is kept by every step.                                              *)
(***************************************************************************)
LEMMA ProcessIs == ASSUME NEW t \in Threads PROVE ProcessOf(t) \in Processes
BY DEF ProcessOf, Threads, Processes

LEMMA BooleanFields ==
    ASSUME Shape, NEW p \in Processes
    PROVE  wg[p].dev \in BOOLEAN /\ wg[p].routes \in BOOLEAN /\ wg[p].protected \in BOOLEAN
<1>1. wg[p] \in WG
  BY DEF Shape
<1> QED
  BY <1>1 DEF WG

LEMMA LinuxShape ==
    ASSUME Shape, NEW t \in AppThreads,
           Linux(t)
    PROVE  Shape'
<1> USE Names DEF Shape, machineVars, threadVars, helperVars, sessionVars, guiVars
<1>1. CASE TakeRoutes(t)
  BY <1>1, ThreadsStay, RecordedIs, BooleanFields DEF TakeRoutes
<1>2. CASE DeleteRoutes(t)
  BY <1>2, ThreadsStay DEF DeleteRoutes
<1>3. CASE DeleteLink(t)
  BY <1>3, ThreadsStay DEF DeleteLink
<1>4. CASE AddLink(t)
  BY <1>4, ThreadsStay DEF AddLink
<1>5. CASE SetUpLink(t)
  BY <1>5, ThreadsStay DEF SetUpLink
<1>6. CASE AddRoutes(t)
  BY <1>6, ThreadsStay DEF AddRoutes
<1>7. CASE KeepRoutes(t)
  BY <1>7, ThreadsStay, RecordedIs, BooleanFields DEF KeepRoutes
<1> QED
  BY <1>1, <1>2, <1>3, <1>4, <1>5, <1>6, <1>7 DEF Linux

LEMMA WindowsShape ==
    ASSUME Shape, NEW t \in Threads,
           Windows(t)
    PROVE  Shape'
<1> USE Names DEF Shape, machineVars, threadVars, helperVars, sessionVars, guiVars
<1>1. CASE TakeDown(t)
  BY <1>1, ThreadsStay, TakenDown, ProcessIs DEF TakeDown
<1>2. CASE Unprotect(t)
  BY <1>2, ThreadsStay, RecordedIs, ProcessIs DEF Unprotect
<1>3. CASE CreateDevice(t)
  BY <1>3, ThreadsStay, RecordedIs, ProcessIs DEF CreateDevice
<1>4. CASE SetUpRoutes(t)
  BY <1>4, ThreadsStay, RecordedIs, ProcessIs DEF SetUpRoutes
<1>5. CASE Protect(t)
  BY <1>5, ThreadsStay, RecordedIs, ProcessIs DEF Protect
<1> QED
  BY <1>1, <1>2, <1>3, <1>4, <1>5 DEF Windows

LEMMA WindowsGUIShape ==
    ASSUME Shape, NEW t \in AppThreads,
           WindowsGUI(t)
    PROVE  Shape'
<1> USE Names DEF Shape, machineVars, threadVars, helperVars, sessionVars, guiVars
<1>1. CASE GetClient(t)
  BY <1>1, ThreadsStay DEF GetClient
<1>2. CASE HelperConnects(t)
  BY <1>2, ThreadsStay DEF HelperConnects
<1>3. CASE NotElevated(t)
  BY <1>3, ThreadsStay DEF NotElevated
<1>4. CASE RequestApply(t)
  BY <1>4, ThreadsStay DEF RequestApply, Send
<1>5. CASE AwaitApply(t)
  BY <1>5, ThreadsStay DEF AwaitApply, Receive, ReceiveFails
<1>6. CASE TakeClient(t)
  BY <1>6, ThreadsStay DEF TakeClient
<1>7. CASE RequestDown(t)
  BY <1>7, ThreadsStay DEF RequestDown, Send
<1>8. CASE AwaitDown(t)
  BY <1>8, ThreadsStay DEF AwaitDown, Receive, ReceiveFails
<1>9. CASE CloseConn(t)
  BY <1>9, ThreadsStay DEF CloseConn, Close
<1> QED
  BY <1>1, <1>2, <1>3, <1>4, <1>5, <1>6, <1>7, <1>8, <1>9 DEF WindowsGUI

LEMMA WindowsHelperShape ==
    ASSUME Shape, NEW h \in Helpers,
           ReadCommand(h) \/ ReadFails(h) \/ Answer(h) \/ AnswerDown(h)
    PROVE  Shape'
<1> USE Names DEF Shape, machineVars, threadVars, helperVars, sessionVars, guiVars
<1>1. CASE ReadCommand(h)
  BY <1>1, ThreadsStay DEF ReadCommand
<1>2. CASE ReadFails(h)
  BY <1>2, ThreadsStay DEF ReadFails
<1>3. CASE Answer(h)
  BY <1>3, ThreadsStay DEF Answer, Reply
<1>4. CASE AnswerDown(h)
  BY <1>4, ThreadsStay DEF AnswerDown, Reply
<1> QED
  BY <1>1, <1>2, <1>3, <1>4

LEMMA MacGUIShape ==
    ASSUME Shape, NEW t \in AppThreads,
           MacGUI(t)
    PROVE  Shape'
<1> USE Names DEF Shape, machineVars, threadVars, helperVars, sessionVars, guiVars
<1>1. CASE StopDevice(t)
  BY <1>1, ThreadsStay, RecordedIs DEF StopDevice
<1>2. CASE SayDown(t)
  BY <1>2, ThreadsStay DEF SayDown
<1>3. CASE HangUp(t)
  BY <1>3, ThreadsStay DEF HangUp
<1>4. CASE AskPassword(t)
  BY <1>4, ThreadsStay DEF AskPassword
<1>5. CASE ReceiveFD(t)
  BY <1>5, ThreadsStay DEF ReceiveFD
<1>6. CASE WrapDevice(t)
  BY <1>6, ThreadsStay DEF WrapDevice
<1>7. CASE Keep(t)
  BY <1>7, ThreadsStay, RecordedIs DEF Keep
<1> QED
  BY <1>1, <1>2, <1>3, <1>4, <1>5, <1>6, <1>7 DEF MacGUI

LEMMA MacHelperShape ==
    ASSUME Shape, NEW h \in Helpers,
           MacHelperProcess(h)
    PROVE  Shape'
<1> USE Names DEF Shape, machineVars, threadVars, helperVars, sessionVars, guiVars
<1>1. CASE BuildUtun(h)
  BY <1>1, ThreadsStay DEF BuildUtun
<1>2. CASE MacRoutes(h)
  BY <1>2, ThreadsStay DEF MacRoutes
<1>3. CASE SendFD(h)
  BY <1>3, ThreadsStay DEF SendFD
<1>4. CASE LetGo(h)
  BY <1>4, ThreadsStay DEF LetGo
<1>5. CASE CleanUp(h)
  BY <1>5, ThreadsStay DEF CleanUp
<1> QED
  BY <1>1, <1>2, <1>3, <1>4, <1>5 DEF MacHelperProcess

LEMMA SessionShape ==
    ASSUME Shape, SessionStep
    PROVE  Shape'
<1> USE Names DEF Shape, machineVars, threadVars, helperVars, sessionVars, guiVars
<1>1. CASE Connect
  BY <1>1 DEF Connect
<1>2. CASE CoreEnds
  BY <1>2 DEF CoreEnds
<1>3. CASE Config
  BY <1>3, ThreadsStay DEF Config
<1>4. CASE ApplyOK
  BY <1>4, ThreadsStay DEF ApplyOK
<1>5. CASE ApplyFails
  BY <1>5, ThreadsStay DEF ApplyFails
<1>6. CASE ApplyError
  BY <1>6, ThreadsStay DEF ApplyError
<1>7. CASE Drained
  BY <1>7, ThreadsStay DEF Drained
<1>8. CASE Reset
  BY <1>8, ThreadsStay DEF Reset
<1>9. CASE Disconnect
  BY <1>9, ThreadsStay DEF Disconnect
<1>10. CASE StopCore
  BY <1>10, ThreadsStay DEF StopCore
<1>11. CASE Shutdown
  BY <1>11, ThreadsStay DEF Shutdown
<1>12. CASE GuiEnds
  BY <1>12, Forgotten DEF GuiEnds
<1>13. CASE Start
  BY <1>13 DEF Start
<1>14. CASE CleanStale
  BY <1>14 DEF CleanStale
<1> QED
  BY <1>1, <1>2, <1>3, <1>4, <1>5, <1>6, <1>7, <1>8, <1>9, <1>10, <1>11, <1>12, <1>13, <1>14 DEF SessionStep

LEMMA KillShape == ASSUME Shape, NEW h \in Helpers, KillHelper(h) PROVE Shape'
BY Names, Forgotten DEF KillHelper, Shape, machineVars, threadVars, helperVars, sessionVars, guiVars

(* Shape is kept by every step. *)
LEMMA ShapeKept == ASSUME Shape, [Next]_vars PROVE Shape'
<1>1. CASE SessionStep
  BY <1>1, SessionShape
<1>2. ASSUME NEW t \in AppThreads, GuiThread(t) PROVE Shape'
  <2>1. Linux(t) \/ Windows(t) \/ WindowsGUI(t) \/ MacGUI(t)
    BY <1>2 DEF GuiThread, Shape
  <2> QED
    BY <2>1, Names, LinuxShape, WindowsShape, WindowsGUIShape, MacGUIShape
<1>3. ASSUME NEW h \in Helpers, HelperProcess(h) PROVE Shape'
  BY <1>3, Names, MacHelperShape, WindowsHelperShape, WindowsShape DEF HelperProcess, WindowsHelperProcess
<1>4. ASSUME NEW h \in Helpers, KillHelper(h) PROVE Shape'
  BY <1>4, KillShape
<1>5. CASE UNCHANGED vars
  BY <1>5 DEF Shape, vars, machineVars, threadVars, helperVars, sessionVars, guiVars
<1> QED
  BY <1>1, <1>2, <1>3, <1>4, <1>5, StepOf
-----------------------------------------------------------------------------
(***************************************************************************)
(* Control is kept by every step.                                            *)
(***************************************************************************)
LEMMA LabelSets ==
    ASSUME Shape
    PROVE  /\ \A l \in {"idle", "ok", "failed", "error", "final", "stop", "exit"} : l \notin Down /\ l \notin Up
           /\ Down \cap Up = {}
           /\ \A t \in AppThreads : TeardownOf(t) \in Down
           /\ platform = "helper" => "lockState" \in Up
           /\ platform # "helper" => "create" \in Up
<1> USE Names DEF Down, Up, TeardownOf
<1>1. CASE platform = "linux"
  BY <1>1
<1>2. CASE platform = "elevated"
  BY <1>2
<1>3. CASE platform = "helper"
  BY <1>3
<1>4. CASE platform = "darwin"
  BY <1>4
<1> QED
  BY <1>1, <1>2, <1>3, <1>4 DEF Shape

LEMMA SetsStay == ASSUME UNCHANGED platform PROVE Down' = Down /\ Up' = Up
BY DEF Down, Up

(* What a goroutine does inside an Apply or a Teardown. *)
Moves(t) ==
    /\ UNCHANGED <<platform, core, configured, applied, alone>>
    /\ \A s \in AppThreads \ {t} : pc'[s] = pc[s] /\ next'[s] = next[s]
    /\ \/ pc[t] \in Down /\ pc'[t] \in Down /\ next'[t] = next[t]
       \/ pc[t] \in Down /\ pc'[t] = next[t] /\ next'[t] = "idle"
       \/ pc[t] \in Up /\ pc'[t] \in Up \cup {"ok", "failed"} /\ next'[t] = next[t]

LEMMA MovesKeep == ASSUME Shape, Control, NEW t \in AppThreads, Moves(t) PROVE Control'
<1> USE Names, LabelSets
<1>1. Down' = Down /\ Up' = Up
  BY SetsStay DEF Moves
<1>2. CASE t = "forward"
  <2>1. /\ UNCHANGED <<platform, core, configured, applied, alone>>
        /\ pc'["user"] = pc["user"] /\ next'["user"] = next["user"]
    BY <1>2 DEF Moves
  <2>2. CASE pc["forward"] \in Down /\ pc'["forward"] \in Down /\ next'["forward"] = next["forward"]
    BY <1>1, <2>1, <2>2 DEF Control
  <2>3. CASE pc["forward"] \in Down /\ pc'["forward"] = next["forward"] /\ next'["forward"] = "idle"
    BY <1>1, <2>1, <2>3 DEF Control
  <2>4. CASE pc["forward"] \in Up /\ pc'["forward"] \in Up \cup {"ok", "failed"} /\ next'["forward"] = next["forward"]
    BY <1>1, <2>1, <2>4 DEF Control
  <2> QED
    BY <1>2, <2>2, <2>3, <2>4 DEF Moves
<1>3. CASE t = "user"
  <2>1. /\ UNCHANGED <<platform, core, configured, applied, alone>>
        /\ pc'["forward"] = pc["forward"] /\ next'["forward"] = next["forward"]
    BY <1>3 DEF Moves
  <2>2. CASE pc["user"] \in Down /\ pc'["user"] \in Down /\ next'["user"] = next["user"]
    BY <1>1, <2>1, <2>2 DEF Control
  <2>3. CASE pc["user"] \in Down /\ pc'["user"] = next["user"] /\ next'["user"] = "idle"
    BY <1>1, <2>1, <2>3 DEF Control
  <2>4. pc["user"] \notin Up
    BY DEF Control
  <2> QED
    BY <1>3, <2>2, <2>3, <2>4 DEF Moves
<1> QED
  BY <1>2, <1>3 DEF AppThreads

LEMMA LinuxMoves ==
    ASSUME Shape, Control, platform = "linux", NEW t \in AppThreads,
           Linux(t)
    PROVE  Moves(t)
<1> USE Names DEF Moves, Down, Up, machineVars, threadVars, helperVars, sessionVars, guiVars
<1>1. CASE TakeRoutes(t)
  BY <1>1, StepIs DEF TakeRoutes
<1>2. CASE DeleteRoutes(t)
  BY <1>2, StepIs DEF DeleteRoutes
<1>3. CASE DeleteLink(t)
  BY <1>3, ReturnIs DEF DeleteLink
<1>4. CASE AddLink(t)
  BY <1>4, StepIs DEF AddLink
<1>5. CASE SetUpLink(t)
  BY <1>5, StepIs DEF SetUpLink
<1>6. CASE AddRoutes(t)
  BY <1>6, StepIs DEF AddRoutes
<1>7. CASE KeepRoutes(t)
  BY <1>7, StepIs DEF KeepRoutes
<1> QED
  BY <1>1, <1>2, <1>3, <1>4, <1>5, <1>6, <1>7 DEF Linux

LEMMA WindowsMoves ==
    ASSUME Shape, Control, platform = "elevated", NEW t \in AppThreads,
           Windows(t)
    PROVE  Moves(t)
<1> USE Names DEF Moves, Down, Up, machineVars, threadVars, helperVars, sessionVars, guiVars
<1>1. CASE TakeDown(t)
  BY <1>1, StepIs DEF TakeDown
<1>2. CASE Unprotect(t)
  BY <1>2, ReturnIs DEF Unprotect
<1>3. CASE CreateDevice(t)
  BY <1>3, StepIs DEF CreateDevice
<1>4. CASE SetUpRoutes(t)
  BY <1>4, StepIs DEF SetUpRoutes
<1>5. CASE Protect(t)
  BY <1>5, StepIs DEF Protect
<1> QED
  BY <1>1, <1>2, <1>3, <1>4, <1>5 DEF Windows

LEMMA WindowsGUIMoves ==
    ASSUME Shape, Control, platform = "helper", NEW t \in AppThreads,
           WindowsGUI(t)
    PROVE  Moves(t)
<1> USE Names DEF Moves, Down, Up, machineVars, threadVars, helperVars, sessionVars, guiVars
<1>1. CASE GetClient(t)
  BY <1>1, StepIs DEF GetClient
<1>2. CASE HelperConnects(t)
  BY <1>2 DEF HelperConnects, NextHelper, Shape
<1>3. CASE NotElevated(t)
  BY <1>3, StepIs DEF NotElevated
<1>4. CASE RequestApply(t)
  BY <1>4, StepIs DEF RequestApply, Send
<1>5. CASE AwaitApply(t)
  BY <1>5, StepIs DEF AwaitApply, Receive, ReceiveFails
<1>6. CASE TakeClient(t)
  BY <1>6, StepIs, ReturnIs DEF TakeClient
<1>7. CASE RequestDown(t)
  BY <1>7, StepIs DEF RequestDown, Send
<1>8. CASE AwaitDown(t)
  BY <1>8, StepIs DEF AwaitDown, Receive, ReceiveFails
<1>9. CASE CloseConn(t)
  BY <1>9, ReturnIs DEF CloseConn, Close
<1> QED
  BY <1>1, <1>2, <1>3, <1>4, <1>5, <1>6, <1>7, <1>8, <1>9 DEF WindowsGUI

LEMMA MacGUIMoves ==
    ASSUME Shape, Control, platform = "darwin", NEW t \in AppThreads,
           MacGUI(t)
    PROVE  Moves(t)
<1> USE Names DEF Moves, Down, Up, machineVars, threadVars, helperVars, sessionVars, guiVars
<1>1. CASE StopDevice(t)
  BY <1>1, StepIs DEF StopDevice
<1>2. CASE SayDown(t)
  BY <1>2, StepIs, ReturnIs DEF SayDown
<1>3. CASE HangUp(t)
  BY <1>3, ReturnIs DEF HangUp
<1>4. CASE AskPassword(t)
  BY <1>4, StepIs DEF AskPassword, NextHelper, Shape
<1>5. CASE ReceiveFD(t)
  BY <1>5, StepIs DEF ReceiveFD
<1>6. CASE WrapDevice(t)
  BY <1>6, StepIs DEF WrapDevice
<1>7. CASE Keep(t)
  BY <1>7, StepIs DEF Keep
<1> QED
  BY <1>1, <1>2, <1>3, <1>4, <1>5, <1>6, <1>7 DEF MacGUI

LEMMA SessionControl ==
    ASSUME Shape, Control, SessionStep
    PROVE  Control'
<1> USE Names, SetsStay DEF Control, machineVars, threadVars, helperVars, sessionVars, guiVars
<1>1. CASE Connect
  BY <1>1 DEF Connect
<1>2. CASE CoreEnds
  BY <1>2 DEF CoreEnds
<1>3. CASE Config
  BY <1>3, BeginIs, LabelSets DEF Config, Shape
<1>4. CASE ApplyOK
  BY <1>4, StepIs, LabelSets DEF ApplyOK
<1>5. CASE ApplyFails
  BY <1>5, BeginIs, StepIs, LabelSets DEF ApplyFails
<1>6. CASE ApplyError
  BY <1>6, StepIs, LabelSets DEF ApplyError
<1>7. CASE Drained
  BY <1>7, BeginIs, LabelSets DEF Drained
<1>8. CASE Reset
  BY <1>8, StepIs, LabelSets DEF Reset
<1>9. CASE Disconnect
  BY <1>9, BeginIs, LabelSets DEF Disconnect
<1>10. CASE StopCore
  BY <1>10, StepIs, LabelSets DEF StopCore
<1>11. CASE Shutdown
  BY <1>11, BeginIs, LabelSets DEF Shutdown
<1>12. CASE GuiEnds
  BY <1>12, LabelSets DEF GuiEnds, Shape
<1>13. CASE Start
  BY <1>13 DEF Start
<1>14. CASE CleanStale
  BY <1>14 DEF CleanStale
<1> QED
  BY <1>1, <1>2, <1>3, <1>4, <1>5, <1>6, <1>7, <1>8, <1>9, <1>10, <1>11, <1>12, <1>13, <1>14 DEF SessionStep

(* A helper leaves the goroutines of the GUI where they are. *)
Apart ==
    /\ \A s \in AppThreads : pc'[s] = pc[s] /\ next'[s] = next[s]
    /\ UNCHANGED <<platform, core, configured, applied>> /\ (alone' => alone)

LEMMA ApartKeeps == ASSUME Control, Apart PROVE Control'
BY Names, SetsStay DEF Control, Apart

LEMMA HelpersApart ==
    ASSUME Shape, NEW h \in Helpers,
           WindowsHelperProcess(h) \/ MacHelperProcess(h) \/ KillHelper(h)
    PROVE  Apart
<1> USE Names DEF Apart, machineVars, threadVars, helperVars, sessionVars, guiVars
<1>1. CASE TakeDown(h)
  BY <1>1, StepIs DEF TakeDown
<1>2. CASE Unprotect(h)
  BY <1>2, ReturnIs DEF Unprotect
<1>3. CASE CreateDevice(h)
  BY <1>3, StepIs DEF CreateDevice
<1>4. CASE SetUpRoutes(h)
  BY <1>4, StepIs DEF SetUpRoutes
<1>5. CASE Protect(h)
  BY <1>5, StepIs DEF Protect
<1>6. CASE ReadCommand(h)
  BY <1>6, BeginIs DEF ReadCommand
<1>7. CASE ReadFails(h)
  BY <1>7, BeginIs DEF ReadFails
<1>8. CASE Answer(h)
  BY <1>8, StepIs DEF Answer
<1>9. CASE AnswerDown(h)
  BY <1>9 DEF AnswerDown, Shape
<1>10. CASE BuildUtun(h)
  BY <1>10, StepIs DEF BuildUtun
<1>11. CASE MacRoutes(h)
  BY <1>11, StepIs DEF MacRoutes
<1>12. CASE SendFD(h)
  BY <1>12, StepIs DEF SendFD
<1>13. CASE LetGo(h)
  BY <1>13, StepIs DEF LetGo
<1>14. CASE CleanUp(h)
  BY <1>14, StepIs DEF CleanUp
<1>15. CASE KillHelper(h)
  BY <1>15 DEF KillHelper, Shape
<1> QED
  BY <1>1, <1>2, <1>3, <1>4, <1>5, <1>6, <1>7, <1>8, <1>9, <1>10, <1>11, <1>12, <1>13, <1>14, <1>15
  DEF Windows, WindowsHelperProcess, MacHelperProcess

LEMMA ControlKept == ASSUME Shape, Control, [Next]_vars PROVE Control'
<1>1. CASE SessionStep
  BY <1>1, SessionControl
<1>2. ASSUME NEW t \in AppThreads, GuiThread(t) PROVE Control'
  <2>1. Moves(t)
    BY <1>2, LinuxMoves, WindowsMoves, WindowsGUIMoves, MacGUIMoves DEF GuiThread, Shape
  <2> QED
    BY <2>1, MovesKeep
<1>3. ASSUME NEW h \in Helpers, HelperProcess(h) \/ KillHelper(h) PROVE Control'
  <2>1. Apart
    BY <1>3, HelpersApart DEF HelperProcess
  <2> QED
    BY <2>1, ApartKeeps
<1>4. CASE UNCHANGED vars
  BY <1>4, SetsStay DEF Control, vars, machineVars, threadVars, helperVars, sessionVars, guiVars
<1> QED
  BY <1>1, <1>2, <1>3, <1>4, StepOf
-----------------------------------------------------------------------------
(***************************************************************************)
(* The invariants of the platforms.                                          *)
(***************************************************************************)
(* forwardEvents will take down once more. *)
Pending == core # "none" /\ pc["forward"] # "final"

(* WG.Apply returned nil. *)
Settled == pc["forward"] = "ok" \/ (applied /\ pc["forward"] = "idle")

(* Linux: the exclude routes are in the list of the WG or in the local one of a goroutine that  *)
(* is about to delete or to record them; the list of the WG is full only between an Apply and    *)
(* the next Teardown of forwardEvents.                                                            *)
LinuxInv ==
    /\ client = NoHelper /\ \A h \in Helpers : pc[h] = "unused"
    /\ ~rule /\ link \subseteq {App} /\ ~wg[App].protected
    /\ ~lost =>
         /\ link # {} => Pending
         /\ routes => wg[App].routes \/ \E t \in AppThreads : taken[t] /\ pc[t] \in {"deleteRoutes", "keepRoutes"}
         /\ wg[App].routes => core # "none" /\ pc["forward"] \in {"idle", "ok", "take"}
    /\ alone /\ (pc["forward"] \in {"configure", "addRoutes", "keepRoutes"} \/ Settled) => App \in link

(* An elevated GUI on Windows: what is recorded in the WG is there, and what is there is recorded *)
(* by forwardEvents, the only one that sets up.                                                     *)
ElevatedInv ==
    /\ client = NoHelper /\ \A h \in Helpers : pc[h] = "unused"
    /\ link \subseteq {App} /\ (wg[App].dev <=> App \in link)
    /\ wg[App].protected => rule
    /\ wg[App].dev => core # "none" /\ pc["forward"] \in {"routes", "protect", "ok", "failed", "idle", "takeDown"}
    /\ wg[App].routes => core # "none" /\ pc["forward"] \in {"protect", "ok", "failed", "idle", "takeDown"}
    /\ ~lost =>
         /\ routes => wg[App].routes
         /\ rule /\ ~refused => Pending
    /\ alone /\ (pc["forward"] \in {"routes", "protect"} \/ Settled) => wg[App].dev

LEMMA UnusedRests ==
    ASSUME NEW h \in Helpers, pc[h] = "unused"
    PROVE  ~HelperProcess(h) /\ ~KillHelper(h)
BY DEF HelperProcess, WindowsHelperProcess, MacHelperProcess, Windows, TakeDown, Unprotect, CreateDevice, SetUpRoutes,
       Protect, ReadCommand, ReadFails, Answer, AnswerDown, BuildUtun, MacRoutes, SendFD, LetGo, CleanUp, Step, Return,
       KillHelper, Alive

LEMMA LinuxSession ==
    ASSUME Shape, Control, LinuxInv, platform = "linux", SessionStep
    PROVE  LinuxInv'
<1> USE Names DEF Shape, Control, Down, Up, LinuxInv, Pending, Settled, machineVars, threadVars, helperVars, sessionVars, guiVars
<1>1. CASE Connect
  BY <1>1 DEF Connect
<1>2. CASE CoreEnds
  BY <1>2 DEF CoreEnds
<1>3. CASE Config
  BY <1>3, BeginIs DEF Config, TeardownOf
<1>4. CASE ApplyOK
  BY <1>4, StepIs DEF ApplyOK
<1>5. CASE ApplyFails
  BY <1>5, BeginIs, StepIs DEF ApplyFails, TeardownOf
<1>6. CASE ApplyError
  BY <1>6, StepIs DEF ApplyError
<1>7. CASE Drained
  BY <1>7, BeginIs DEF Drained, TeardownOf
<1>8. CASE Reset
  BY <1>8, StepIs DEF Reset
<1>9. CASE Disconnect
  BY <1>9, BeginIs DEF Disconnect, TeardownOf
<1>10. CASE StopCore
  BY <1>10, StepIs DEF StopCore
<1>11. CASE Shutdown
  BY <1>11, BeginIs DEF Shutdown, TeardownOf
<1>12. CASE GuiEnds
  <2>1. /\ pc' = [s \in Threads |-> IF s \in AppThreads THEN "idle" ELSE pc[s]]
        /\ wg' = [wg EXCEPT ![App] = NoWG] /\ client' = NoHelper /\ core' = "none" /\ alone' = FALSE
        /\ lost' = (lost \/ (platform \in {"linux", "elevated"} /\ Something))
        /\ UNCHANGED <<routes, rule, refused>>
    BY <1>12 DEF GuiEnds
  <2>2. pc'["forward"] = "idle" /\ \A h \in Helpers : pc'[h] = pc[h]
    BY <2>1
  <2>3. wg'[App].dev = FALSE /\ wg'[App].routes = FALSE /\ wg'[App].protected = FALSE
    BY <2>1, Forgotten DEF NoWG
  <2>4. ~lost' => link = {} /\ ~routes /\ ~rule
    BY <2>1 DEF Something
  <2>5. link' = link
    BY <1>12 DEF GuiEnds
  <2> QED
    BY <2>1, <2>2, <2>3, <2>4, <2>5
<1>13. CASE Start
  BY <1>13 DEF Start
<1>14. CASE CleanStale
  BY <1>14 DEF CleanStale
<1> QED
  BY <1>1, <1>2, <1>3, <1>4, <1>5, <1>6, <1>7, <1>8, <1>9, <1>10, <1>11, <1>12, <1>13, <1>14 DEF SessionStep

LEMMA LinuxThreads ==
    ASSUME Shape, Control, LinuxInv, platform = "linux", NEW t \in AppThreads, Linux(t)
    PROVE  LinuxInv'
<1> USE Names
<1>0. t = "forward" \/ t = "user"
  BY DEF AppThreads
<1>1. /\ pc["user"] \in {"idle", "stop", "exit", "take", "deleteRoutes", "deleteLink"}
      /\ pc["user"] \in {"take", "deleteRoutes", "deleteLink"} => next["user"] \in {"stop", "exit"}
      /\ pc["forward"] \in {"take", "deleteRoutes", "deleteLink"} => next["forward"] \in {"create", "error", "final"}
      /\ core = "none" => pc["forward"] = "idle"
      /\ alone => pc["user"] = "idle"
  BY DEF Control, Down, Up
<1>2. Moves(t)
  BY LinuxMoves DEF Linux
<1>3. UNCHANGED <<platform, core, configured, applied, alone>> /\ \A s \in AppThreads \ {t} : pc'[s] = pc[s] /\ next'[s] = next[s]
  BY <1>2 DEF Moves
<1>4. CASE TakeRoutes(t)
  <2>1. /\ pc[t] = "take" /\ pc'[t] = "deleteRoutes" /\ next' = next /\ \A s \in Threads \ {t} : pc'[s] = pc[s]
    BY <1>4, StepIs DEF TakeRoutes
  <2>2. /\ taken' = [taken EXCEPT ![t] = wg[App].routes] /\ Recorded(App, "routes", FALSE)
        /\ UNCHANGED <<link, routes, rule, refused, client, lost>>
    BY <1>4 DEF TakeRoutes, machineVars, helperVars, guiVars
  <2>3. wg'[App].routes = FALSE /\ wg'[App].protected = wg[App].protected
    BY <2>2, RecordedIs
  <2>4. taken'[t] = wg[App].routes /\ \A s \in Threads \ {t} : taken'[s] = taken[s]
    BY <2>2 DEF Shape
  <2>5. ASSUME ~lost, routes PROVE \E s \in AppThreads : taken'[s] /\ pc'[s] \in {"deleteRoutes", "keepRoutes"}
    BY <2>1, <2>4, <2>5 DEF LinuxInv
  <2>6. ~(pc'["forward"] \in {"configure", "addRoutes", "keepRoutes"} \/ Settled') \/ (pc'["forward"] = pc["forward"] /\ t = "user")
    BY <1>0, <2>1 DEF Settled
  <2> QED
    BY <1>0, <1>1, <1>3, <2>1, <2>2, <2>3, <2>5, <2>6 DEF LinuxInv, Pending, Settled
<1>5. CASE DeleteRoutes(t)
  <2>1. /\ pc[t] = "deleteRoutes" /\ pc'[t] = "deleteLink" /\ next' = next /\ \A s \in Threads \ {t} : pc'[s] = pc[s]
    BY <1>5, StepIs DEF DeleteRoutes
  <2>2. routes' = (routes /\ ~taken[t]) /\ UNCHANGED <<link, rule, refused, wg, taken, client, lost>>
    BY <1>5 DEF DeleteRoutes, helperVars, guiVars
  <2>3. ASSUME ~lost, routes' PROVE wg[App].routes \/ \E s \in AppThreads : taken[s] /\ pc'[s] \in {"deleteRoutes", "keepRoutes"}
    BY <2>1, <2>2, <2>3 DEF LinuxInv
  <2> QED
    BY <1>0, <1>1, <1>3, <2>1, <2>2, <2>3 DEF LinuxInv, Pending, Settled
<1>6. CASE DeleteLink(t)
  <2>1. /\ pc[t] = "deleteLink" /\ pc'[t] = next[t] /\ \A s \in Threads \ {t} : pc'[s] = pc[s]
    BY <1>6, ReturnIs DEF DeleteLink
  <2>2. /\ link' = {} /\ taken' = [taken EXCEPT ![t] = FALSE]
        /\ UNCHANGED <<routes, rule, refused, wg, client, lost>>
    BY <1>6 DEF DeleteLink, helperVars, guiVars
  <2>3. \A s \in Threads \ {t} : taken'[s] = taken[s]
    BY <2>2 DEF Shape
  <2>4. ASSUME ~lost, routes PROVE wg[App].routes \/ \E s \in AppThreads : taken'[s] /\ pc'[s] \in {"deleteRoutes", "keepRoutes"}
    BY <2>1, <2>3, <2>4 DEF LinuxInv
  <2>5. t = "user" => ~alone
    BY <1>1, <2>1
  <2>6. t = "forward" => pc'["forward"] \in {"create", "error", "final"}
    BY <1>1, <2>1
  <2>7. wg[App].routes /\ ~lost => core # "none" /\ pc'["forward"] \in {"idle", "ok", "take"}
    BY <1>0, <2>1 DEF LinuxInv
  <2>8. ~(alone /\ (pc'["forward"] \in {"configure", "addRoutes", "keepRoutes"} \/ Settled'))
    BY <1>0, <1>3, <2>1, <2>5, <2>6 DEF Settled
  <2> QED
    BY <1>3, <2>1, <2>2, <2>4, <2>7, <2>8 DEF LinuxInv
<1>7. CASE AddLink(t)
  <2>1. /\ pc[t] = "create" /\ pc'[t] \in {"configure", "failed"} /\ (pc'[t] = "configure" => link' = {App})
        /\ \A s \in Threads \ {t} : pc'[s] = pc[s]
    BY <1>7, StepIs DEF AddLink
  <2>2. t = "forward" /\ core # "none"
    BY <1>0, <1>1, <2>1
  <2>3. (link' = {App} \/ link' = link) /\ UNCHANGED <<routes, rule, refused, wg, taken, client, lost>>
    BY <1>7 DEF AddLink, helperVars, guiVars
  <2>4. ASSUME ~lost, routes PROVE wg[App].routes \/ \E s \in AppThreads : taken[s] /\ pc'[s] \in {"deleteRoutes", "keepRoutes"}
    BY <2>1, <2>4 DEF LinuxInv
  <2> QED
    BY <1>3, <2>1, <2>2, <2>3, <2>4 DEF LinuxInv, Pending, Settled
<1>8. CASE SetUpLink(t)
  <2>1. /\ pc[t] = "configure" /\ pc'[t] \in {"addRoutes", "failed"} /\ \A s \in Threads \ {t} : pc'[s] = pc[s]
    BY <1>8, StepIs DEF SetUpLink
  <2>2. t = "forward" /\ core # "none"
    BY <1>0, <1>1, <2>1
  <2>3. UNCHANGED <<link, routes, rule, refused, wg, taken, client, lost>>
    BY <1>8 DEF SetUpLink, helperVars, guiVars, machineVars
  <2>4. ASSUME ~lost, routes PROVE wg[App].routes \/ \E s \in AppThreads : taken[s] /\ pc'[s] \in {"deleteRoutes", "keepRoutes"}
    BY <2>1, <2>4 DEF LinuxInv
  <2> QED
    BY <1>3, <2>1, <2>2, <2>3, <2>4 DEF LinuxInv, Pending, Settled
<1>9. CASE AddRoutes(t)
  <2>1. /\ pc[t] = "addRoutes" /\ pc'[t] = "keepRoutes" /\ \A s \in Threads \ {t} : pc'[s] = pc[s]
    BY <1>9, StepIs DEF AddRoutes
  <2>2. t = "forward" /\ core # "none"
    BY <1>0, <1>1, <2>1
  <2>3. UNCHANGED <<link, rule, refused, wg, client, lost>> /\ \A s \in Threads \ {t} : taken'[s] = taken[s]
    BY <1>9 DEF AddRoutes, helperVars, guiVars, Shape
  <2>4. (routes' = TRUE /\ taken'[t] = TRUE) \/ routes' = routes
    BY <1>9 DEF AddRoutes, Shape
  <2>5. ASSUME ~lost, routes' PROVE wg[App].routes \/ \E s \in AppThreads : taken'[s] /\ pc'[s] \in {"deleteRoutes", "keepRoutes"}
    BY <2>1, <2>3, <2>4, <2>5 DEF LinuxInv
  <2> QED
    BY <1>3, <2>1, <2>2, <2>3, <2>5 DEF LinuxInv, Pending, Settled
<1>10. CASE KeepRoutes(t)
  <2>1. /\ pc[t] = "keepRoutes" /\ pc'[t] = "ok" /\ \A s \in Threads \ {t} : pc'[s] = pc[s]
    BY <1>10, StepIs DEF KeepRoutes
  <2>2. t = "forward" /\ core # "none"
    BY <1>0, <1>1, <2>1
  <2>3. /\ taken' = [taken EXCEPT ![t] = FALSE] /\ Recorded(App, "routes", taken[t]) /\ taken[t] \in BOOLEAN
        /\ UNCHANGED <<link, routes, rule, refused, client, lost>>
    BY <1>10 DEF KeepRoutes, machineVars, helperVars, guiVars, Shape
  <2>4. wg'[App].routes = taken[t] /\ wg'[App].protected = wg[App].protected
    BY <2>3, RecordedIs
  <2>5. \A s \in Threads \ {t} : taken'[s] = taken[s]
    BY <2>3 DEF Shape
  <2>6. ~lost => ~wg[App].routes
    BY <2>1, <2>2 DEF LinuxInv
  <2>7. ASSUME ~lost, routes PROVE wg'[App].routes \/ \E s \in AppThreads : taken'[s] /\ pc'[s] \in {"deleteRoutes", "keepRoutes"}
    BY <2>1, <2>4, <2>5, <2>6, <2>7 DEF LinuxInv
  <2>8. ~rule /\ link \subseteq {App} /\ ~wg'[App].protected
    BY <2>4 DEF LinuxInv
  <2>9. alone => App \in link
    BY <2>1, <2>2 DEF LinuxInv
  <2> QED
    BY <1>3, <2>1, <2>2, <2>3, <2>7, <2>8, <2>9 DEF LinuxInv, Pending
<1> QED
  BY <1>4, <1>5, <1>6, <1>7, <1>8, <1>9, <1>10 DEF Linux

LEMMA ElevatedSession ==
    ASSUME Shape, Control, ElevatedInv, platform = "elevated", SessionStep
    PROVE  ElevatedInv'
<1> USE Names DEF Shape, Control, Down, Up, ElevatedInv, Pending, Settled, machineVars, threadVars, helperVars, sessionVars, guiVars
<1>1. CASE Connect
  BY <1>1 DEF Connect
<1>2. CASE CoreEnds
  BY <1>2 DEF CoreEnds
<1>3. CASE Config
  BY <1>3, BeginIs DEF Config, TeardownOf
<1>4. CASE ApplyOK
  BY <1>4, StepIs DEF ApplyOK
<1>5. CASE ApplyFails
  BY <1>5, BeginIs, StepIs DEF ApplyFails, TeardownOf
<1>6. CASE ApplyError
  BY <1>6, StepIs DEF ApplyError
<1>7. CASE Drained
  BY <1>7, BeginIs DEF Drained, TeardownOf
<1>8. CASE Reset
  BY <1>8, StepIs DEF Reset
<1>9. CASE Disconnect
  BY <1>9, BeginIs DEF Disconnect, TeardownOf
<1>10. CASE StopCore
  BY <1>10, StepIs DEF StopCore
<1>11. CASE Shutdown
  BY <1>11, BeginIs DEF Shutdown, TeardownOf
<1>12. CASE GuiEnds
  <2>1. /\ pc' = [s \in Threads |-> IF s \in AppThreads THEN "idle" ELSE pc[s]]
        /\ wg' = [wg EXCEPT ![App] = NoWG] /\ client' = NoHelper /\ core' = "none" /\ alone' = FALSE
        /\ lost' = (lost \/ (platform \in {"linux", "elevated"} /\ Something))
        /\ UNCHANGED <<routes, rule, refused>>
    BY <1>12 DEF GuiEnds
  <2>2. pc'["forward"] = "idle" /\ \A h \in Helpers : pc'[h] = pc[h]
    BY <2>1
  <2>3. wg'[App].dev = FALSE /\ wg'[App].routes = FALSE /\ wg'[App].protected = FALSE
    BY <2>1, Forgotten DEF NoWG
  <2>4. ~lost' => link = {} /\ ~routes /\ ~rule
    BY <2>1 DEF Something
  <2>5. link' = link \ {App}
    BY <1>12 DEF GuiEnds
  <2> QED
    BY <2>1, <2>2, <2>3, <2>4, <2>5
<1>13. CASE Start
  BY <1>13 DEF Start
<1>14. CASE CleanStale
  BY <1>14 DEF CleanStale
<1> QED
  BY <1>1, <1>2, <1>3, <1>4, <1>5, <1>6, <1>7, <1>8, <1>9, <1>10, <1>11, <1>12, <1>13, <1>14 DEF SessionStep

LEMMA ElevatedThreads ==
    ASSUME Shape, Control, ElevatedInv, platform = "elevated", NEW t \in AppThreads, Windows(t)
    PROVE  ElevatedInv'
<1> USE Names
<1>0. t = "forward" \/ t = "user"
  BY DEF AppThreads
<1>1. /\ pc["user"] \in {"idle", "stop", "exit", "takeDown", "unprotect"}
      /\ pc["forward"] \in {"takeDown", "unprotect"} => next["forward"] \in {"create", "error", "final"}
      /\ core = "none" => pc["forward"] = "idle"
      /\ alone => pc["user"] = "idle"
  BY DEF Control, Down, Up
<1>2. Moves(t)
  BY WindowsMoves DEF Windows
<1>3. UNCHANGED <<platform, core, configured, applied, alone>> /\ ProcessOf(t) = App
  BY <1>2 DEF Moves
<1>4. wg[App].dev \in BOOLEAN /\ wg[App].routes \in BOOLEAN /\ wg[App].protected \in BOOLEAN
  BY BooleanFields
<1>5. CASE TakeDown(t)
  <2>1. /\ pc[t] = "takeDown" /\ pc'[t] = "unprotect" /\ \A s \in Threads \ {t} : pc'[s] = pc[s]
    BY <1>5, StepIs DEF TakeDown
  <2>2. /\ wg' = [wg EXCEPT ![App].routes = FALSE, ![App].dev = FALSE]
        /\ routes' = (routes /\ ~wg[App].routes) /\ link' = IF wg[App].dev THEN link \ {App} ELSE link
        /\ UNCHANGED <<rule, refused, client, lost>>
    BY <1>3, <1>5 DEF TakeDown, helperVars, guiVars
  <2>3. wg'[App].routes = FALSE /\ wg'[App].dev = FALSE /\ wg'[App].protected = wg[App].protected
    BY <2>2, TakenDown
  <2>4. link' = {} /\ (~lost => ~routes')
    BY <2>2 DEF ElevatedInv
  <2>5. t = "user" => ~alone
    BY <1>1, <2>1
  <2>6. ~(alone /\ (pc'["forward"] \in {"routes", "protect"} \/ Settled'))
    BY <1>0, <2>1, <2>5 DEF Settled
  <2>7. Pending => Pending'
    BY <1>0, <1>3, <2>1 DEF Pending
  <2> QED
    BY <1>3, <2>1, <2>2, <2>3, <2>4, <2>6, <2>7 DEF ElevatedInv
<1>6. CASE Unprotect(t)
  <2>1. /\ pc[t] = "unprotect" /\ pc'[t] = next[t] /\ \A s \in Threads \ {t} : pc'[s] = pc[s]
    BY <1>6, ReturnIs DEF Unprotect
  <2>2. /\ \/ rule' = FALSE /\ Recorded(App, "protected", FALSE)
           \/ rule /\ refused' = TRUE /\ UNCHANGED <<rule, wg>>
        /\ UNCHANGED <<link, routes, client, lost>>
    BY <1>3, <1>6 DEF Unprotect, helperVars, guiVars
  <2>3. /\ wg'[App].routes = wg[App].routes /\ wg'[App].dev = wg[App].dev
        /\ \/ rule' = FALSE /\ wg'[App].protected = FALSE
           \/ rule' /\ refused' = TRUE
    <3>1. CASE rule' = FALSE /\ Recorded(App, "protected", FALSE)
      BY <3>1, RecordedIs
    <3>2. CASE rule /\ refused' = TRUE /\ UNCHANGED <<rule, wg>>
      BY <3>2
    <3> QED
      BY <2>2, <3>1, <3>2
  <2>4. wg[App].dev \/ wg[App].routes => t = "user" /\ pc'["forward"] = pc["forward"]
    BY <1>0, <2>1 DEF ElevatedInv
  <2>5. t = "user" => ~alone
    BY <1>1, <2>1
  <2>6. t = "forward" => pc'["forward"] \in {"create", "error", "final"}
    BY <1>1, <2>1
  <2>7. ~(alone /\ (pc'["forward"] \in {"routes", "protect"} \/ Settled'))
    BY <1>0, <2>1, <2>5, <2>6 DEF Settled
  <2>8. \A h \in Helpers : pc'[h] = pc[h]
    BY <2>1
  <2>9. /\ wg'[App].dev => core # "none" /\ pc'["forward"] \in {"routes", "protect", "ok", "failed", "idle", "takeDown"}
        /\ wg'[App].routes => core # "none" /\ pc'["forward"] \in {"protect", "ok", "failed", "idle", "takeDown"}
    BY <2>3, <2>4 DEF ElevatedInv
  <2>10. rule' => refused' = TRUE
    BY <2>3
  <2>11. /\ wg'[App].dev <=> App \in link'
         /\ wg'[App].protected => rule'
         /\ ~lost' /\ routes' => wg'[App].routes
    BY <2>2, <2>3 DEF ElevatedInv
  <2> QED
    BY <1>3, <2>2, <2>7, <2>8, <2>9, <2>10, <2>11 DEF ElevatedInv
<1>7. CASE CreateDevice(t)
  <2>1. /\ pc[t] = "create" /\ pc'[t] \in {"routes", "failed"} /\ \A s \in Threads \ {t} : pc'[s] = pc[s]
    BY <1>7, StepIs DEF CreateDevice
  <2>2. t = "forward" /\ core # "none" /\ pc["forward"] = "create"
    BY <1>0, <1>1, <2>1
  <2>3. /\ \/ link' = link \cup {App} /\ Recorded(App, "dev", TRUE)
           \/ pc'[t] = "failed" /\ UNCHANGED <<link, wg>>
        /\ UNCHANGED <<routes, rule, refused, client, lost>>
    BY <1>3, <1>7, StepIs DEF CreateDevice, helperVars, guiVars
  <2>4. wg'[App].routes = wg[App].routes /\ wg'[App].protected = wg[App].protected
    BY <2>3, RecordedIs
  <2>5. (App \in link' /\ wg'[App].dev = TRUE) \/ (pc'["forward"] = "failed" /\ UNCHANGED <<link, wg>>)
    BY <2>2, <2>3, RecordedIs
  <2>6. link' \subseteq {App}
    BY <2>3 DEF ElevatedInv
  <2>7. ~wg[App].dev /\ ~wg[App].routes
    BY <2>2 DEF ElevatedInv
  <2> QED
    BY <1>3, <2>1, <2>2, <2>3, <2>4, <2>5, <2>6, <2>7 DEF ElevatedInv, Pending, Settled
<1>8. CASE SetUpRoutes(t)
  <2>1. /\ pc[t] = "routes" /\ pc'[t] = "protect" /\ \A s \in Threads \ {t} : pc'[s] = pc[s]
    BY <1>8, StepIs DEF SetUpRoutes
  <2>2. t = "forward" /\ core # "none" /\ pc["forward"] = "routes"
    BY <1>0, <1>1, <2>1
  <2>3. /\ \/ Recorded(App, "routes", TRUE)
           \/ Recorded(App, "routes", FALSE) /\ UNCHANGED routes
        /\ UNCHANGED <<link, rule, refused, client, lost>>
    BY <1>3, <1>8 DEF SetUpRoutes, helperVars, guiVars
  <2>4. /\ wg'[App].dev = wg[App].dev /\ wg'[App].protected = wg[App].protected
        /\ wg'[App].routes = TRUE \/ (wg'[App].routes = FALSE /\ UNCHANGED routes)
    BY <2>3, RecordedIs
  <2>5. ~wg[App].routes
    BY <2>2 DEF ElevatedInv
  <2> QED
    BY <1>3, <2>1, <2>2, <2>3, <2>4, <2>5 DEF ElevatedInv, Pending, Settled
<1>9. CASE Protect(t)
  <2>1. /\ pc[t] = "protect" /\ pc'[t] \in {"ok", "failed"} /\ \A s \in Threads \ {t} : pc'[s] = pc[s]
    BY <1>9, StepIs DEF Protect
  <2>2. t = "forward" /\ core # "none" /\ pc["forward"] = "protect"
    BY <1>0, <1>1, <2>1
  <2>3. /\ \/ UNCHANGED <<rule, refused, wg>>
           \/ rule' = TRUE /\ Recorded(App, "protected", TRUE)
           \/ UNCHANGED <<rule, wg>>
           \/ rule' = FALSE /\ Recorded(App, "protected", FALSE)
        /\ UNCHANGED <<link, routes, client, lost>>
    BY <1>3, <1>9 DEF Protect, helperVars, guiVars
  <2>4. /\ wg'[App].dev = wg[App].dev /\ wg'[App].routes = wg[App].routes
        /\ wg'[App].protected => rule'
    BY <2>3, RecordedIs DEF ElevatedInv
  <2>5. Pending'
    BY <1>3, <2>1, <2>2 DEF Pending
  <2> QED
    BY <1>3, <2>1, <2>2, <2>3, <2>4, <2>5 DEF ElevatedInv, Settled
<1> QED
  BY <1>5, <1>6, <1>7, <1>8, <1>9 DEF Windows

-----------------------------------------------------------------------------
(***************************************************************************)
(* macOS.                                                                    *)
(***************************************************************************)
(* The exclude routes are on the list of a helper that runs; the interface is open in a helper *)
(* that runs, and in the GUI from the descriptor to the next Teardown of forwardEvents.          *)
DarwinInv ==
    /\ ~rule /\ ~wg[App].protected /\ link \subseteq Processes
    /\ \A h \in Helpers : pc[h] \in {"unused", "build", "routes", "sendFD", "hold", "cleanUp", "gone"}
    /\ \A h \in Helpers : h \in link => pc[h] \in {"routes", "sendFD", "hold", "cleanUp"}
    /\ ~lost /\ routes => \E h \in Helpers : taken[h] /\ pc[h] \in {"sendFD", "hold", "cleanUp"}
    /\ App \in link <=> wg[App].dev \/ pc["forward"] \in {"wrap", "keep"}
    /\ wg[App].dev => core # "none" /\ pc["forward"] \in {"ok", "idle", "stopDevice"}
    /\ client # NoHelper => core # "none" /\ pc["forward"] \in {"ok", "idle", "stopDevice", "sayDown", "awaitExit"}
    /\ alone /\ Settled => wg[App].dev

LEMMA DarwinSession ==
    ASSUME Shape, Control, DarwinInv, platform = "darwin", SessionStep
    PROVE  DarwinInv'
<1> USE Names DEF Shape, Control, Down, Up, DarwinInv, Pending, Settled, machineVars, threadVars, helperVars, sessionVars, guiVars
<1>1. CASE Connect
  BY <1>1 DEF Connect
<1>2. CASE CoreEnds
  BY <1>2 DEF CoreEnds
<1>3. CASE Config
  BY <1>3, BeginIs DEF Config, TeardownOf
<1>4. CASE ApplyOK
  BY <1>4, StepIs DEF ApplyOK
<1>5. CASE ApplyFails
  BY <1>5, BeginIs, StepIs DEF ApplyFails, TeardownOf
<1>6. CASE ApplyError
  BY <1>6, StepIs DEF ApplyError
<1>7. CASE Drained
  BY <1>7, BeginIs DEF Drained, TeardownOf
<1>8. CASE Reset
  BY <1>8, StepIs DEF Reset
<1>9. CASE Disconnect
  BY <1>9, BeginIs DEF Disconnect, TeardownOf
<1>10. CASE StopCore
  BY <1>10, StepIs DEF StopCore
<1>11. CASE Shutdown
  BY <1>11, BeginIs DEF Shutdown, TeardownOf
<1>12. CASE GuiEnds
  <2>1. /\ pc' = [t \in Threads |-> IF t \in AppThreads THEN "idle" ELSE pc[t]]
        /\ taken' = [t \in Threads |-> t \in Helpers /\ taken[t]]
        /\ wg' = [wg EXCEPT ![App] = NoWG] /\ client' = NoHelper /\ core' = "none" /\ alone' = FALSE
        /\ link' = link \ {App}
        /\ lost' = (lost \/ (platform \in {"linux", "elevated"} /\ Something))
        /\ UNCHANGED <<platform, routes, rule>>
    BY <1>12 DEF GuiEnds
  <2>2. pc'["forward"] = "idle" /\ \A h \in Helpers : pc'[h] = pc[h]
    BY <2>1
  <2>3. wg'[App].dev = FALSE /\ wg'[App].protected = FALSE
    BY <2>1, Forgotten DEF NoWG
  <2>4. ~lost' => ~lost
    BY <2>1
  <2>5. \A h \in Helpers : taken[h] => taken'[h]
    BY <2>1
  <2>6. ~lost' /\ routes' => \E h \in Helpers : taken'[h] /\ pc'[h] \in {"sendFD", "hold", "cleanUp"}
    BY <2>1, <2>2, <2>4, <2>5
  <2> QED
    BY <2>1, <2>2, <2>3, <2>6
<1>13. CASE Start
  BY <1>13 DEF Start
<1>14. CASE CleanStale
  BY <1>14 DEF CleanStale
<1> QED
  BY <1>1, <1>2, <1>3, <1>4, <1>5, <1>6, <1>7, <1>8, <1>9, <1>10, <1>11, <1>12, <1>13, <1>14 DEF SessionStep

LEMMA DarwinThreads ==
    ASSUME Shape, Control, DarwinInv, platform = "darwin", NEW t \in AppThreads, MacGUI(t)
    PROVE  DarwinInv'
<1> USE Names
<1>0. t = "forward" \/ t = "user"
  BY DEF AppThreads
<1>1. /\ pc["user"] \in {"idle", "stop", "exit", "stopDevice", "sayDown", "awaitExit"}
      /\ pc["forward"] \in {"stopDevice", "sayDown", "awaitExit"} => next["forward"] \in {"create", "error", "final"}
      /\ core = "none" => pc["forward"] = "idle"
      /\ alone => pc["user"] = "idle"
  BY DEF Control, Down, Up
<1>2. Moves(t)
  BY MacGUIMoves DEF MacGUI
<1>3. UNCHANGED <<platform, core, configured, applied, alone>>
  BY <1>2 DEF Moves
<1>4. wg[App].dev \in BOOLEAN
  BY BooleanFields
<1>5. CASE StopDevice(t)
  <2>1. /\ pc[t] = "stopDevice" /\ pc'[t] = "sayDown" /\ \A s \in Threads \ {t} : pc'[s] = pc[s]
    BY <1>5, StepIs DEF StopDevice
  <2>2. /\ link' = IF wg[App].dev THEN link \ {App} ELSE link
        /\ Recorded(App, "dev", FALSE) /\ UNCHANGED <<routes, rule, taken, client, lost>>
    BY <1>5 DEF StopDevice, helperVars, guiVars
  <2>3. wg'[App].dev = FALSE /\ wg'[App].protected = wg[App].protected
    BY <2>2, RecordedIs
  <2>4. App \in link' <=> pc'["forward"] \in {"wrap", "keep"}
    BY <1>0, <2>1, <2>2 DEF DarwinInv
  <2>5. ~(alone /\ Settled')
    BY <1>0, <1>1, <2>1 DEF Settled
  <2>6. client # NoHelper => core # "none" /\ pc'["forward"] \in {"ok", "idle", "stopDevice", "sayDown", "awaitExit"}
    BY <1>0, <2>1 DEF DarwinInv
  <2>7. \A h \in Helpers : pc'[h] = pc[h] /\ (h \in link' => h \in link)
    BY <2>1, <2>2
  <2>8. link' \subseteq Processes
    BY <2>2 DEF DarwinInv
  <2> QED
    BY <1>3, <2>2, <2>3, <2>4, <2>5, <2>6, <2>7, <2>8 DEF DarwinInv
<1>6. CASE SayDown(t)
  <2>1. /\ pc[t] = "sayDown" /\ (pc'[t] = "awaitExit" \/ (client = NoHelper /\ pc'[t] = next[t]))
        /\ \A s \in Threads \ {t} : pc'[s] = pc[s]
    BY <1>6, StepIs, ReturnIs DEF SayDown
  <2>2. UNCHANGED <<link, routes, rule, wg, taken, client, lost>>
    BY <1>6 DEF SayDown, machineVars, guiVars
  <2>3. t = "forward" => pc'["forward"] \in {"awaitExit", "create", "error", "final"}
    BY <1>1, <2>1
  <2>4. ~(alone /\ Settled')
    BY <1>0, <1>1, <2>1, <2>3 DEF Settled
  <2>5. client # NoHelper => core # "none" /\ pc'["forward"] \in {"ok", "idle", "stopDevice", "sayDown", "awaitExit"}
    BY <1>0, <2>1 DEF DarwinInv
  <2>6. wg[App].dev => t = "user"
    BY <1>0, <2>1 DEF DarwinInv
  <2>7. pc'["forward"] \in {"wrap", "keep"} <=> pc["forward"] \in {"wrap", "keep"}
    BY <1>0, <2>1, <2>3
  <2>8. \A h \in Helpers : pc'[h] = pc[h]
    BY <2>1
  <2>9. t = "user" => pc'["forward"] = pc["forward"]
    BY <2>1
  <2> QED
    BY <1>3, <2>2, <2>4, <2>5, <2>6, <2>7, <2>8, <2>9 DEF DarwinInv
<1>7. CASE HangUp(t)
  <2>1. pc[t] = "awaitExit" /\ pc'[t] = next[t] /\ \A s \in Threads \ {t} : pc'[s] = pc[s]
    BY <1>7, ReturnIs DEF HangUp
  <2>2. client' = NoHelper /\ UNCHANGED <<link, routes, rule, wg, taken, lost>>
    BY <1>7 DEF HangUp, machineVars, guiVars
  <2>3. t = "forward" => pc'["forward"] \in {"create", "error", "final"}
    BY <1>1, <2>1
  <2>4. ~(alone /\ Settled')
    BY <1>0, <1>1, <2>1, <2>3 DEF Settled
  <2>5. wg[App].dev => t = "user"
    BY <1>0, <2>1 DEF DarwinInv
  <2>6. pc'["forward"] \in {"wrap", "keep"} <=> pc["forward"] \in {"wrap", "keep"}
    BY <1>0, <2>1, <2>3
  <2>7. \A h \in Helpers : pc'[h] = pc[h]
    BY <2>1
  <2>8. t = "user" => pc'["forward"] = pc["forward"]
    BY <2>1
  <2> QED
    BY <1>3, <2>2, <2>4, <2>5, <2>6, <2>7, <2>8 DEF DarwinInv
<1>8. CASE AskPassword(t)
  <2>1. pc[t] = "create" /\ UNCHANGED <<link, routes, rule, wg, taken, client, lost>>
    BY <1>8, StepIs DEF AskPassword, machineVars, guiVars
  <2>2. t = "forward"
    BY <1>0, <1>1, <2>1
  <2>3. CASE Step(t, "create", "failed")
    <3>1. pc'["forward"] = "failed" /\ \A h \in Helpers : pc'[h] = pc[h]
      BY <2>2, <2>3, StepIs
    <3> QED
      BY <1>3, <2>1, <2>2, <3>1 DEF DarwinInv, Settled
  <2>4. ASSUME NEW h \in NextHelper, pc' = [pc EXCEPT ![t] = "receive", ![h] = "build"] PROVE DarwinInv'
    <3>1. h \in Helpers /\ pc[h] = "unused"
      BY <2>4 DEF NextHelper
    <3>2. pc'["forward"] = "receive" /\ pc'[h] = "build" /\ \A k \in Helpers \ {h} : pc'[k] = pc[k]
      BY <2>2, <2>4, <3>1 DEF Shape
    <3>3. ~lost /\ routes => \E k \in Helpers : taken[k] /\ pc'[k] \in {"sendFD", "hold", "cleanUp"}
      BY <3>1, <3>2 DEF DarwinInv
    <3> QED
      BY <1>3, <2>1, <2>2, <3>1, <3>2, <3>3 DEF DarwinInv, Settled
  <2> QED
    BY <1>8, <2>3, <2>4 DEF AskPassword
<1>9. CASE ReceiveFD(t)
  <2>1. pc[t] = "receive" /\ \A s \in Threads \ {t} : pc'[s] = pc[s]
    BY <1>9, StepIs DEF ReceiveFD
  <2>2. t = "forward" /\ UNCHANGED <<routes, rule, wg, taken, client, lost>>
    BY <1>0, <1>1, <1>9, <2>1 DEF ReceiveFD, guiVars
  <2>3. (pc'[t] = "wrap" /\ link' = link \cup {App}) \/ (pc'[t] = "failed" /\ UNCHANGED link)
    BY <1>9, StepIs DEF ReceiveFD
  <2>4. ~wg[App].dev /\ client = NoHelper /\ App \notin link
    BY <2>1, <2>2 DEF DarwinInv
  <2>5. \A h \in Helpers : pc'[h] = pc[h] /\ (h \in link' => h \in link)
    BY <2>1, <2>2, <2>3
  <2>6. link' \subseteq Processes
    BY <2>3 DEF DarwinInv
  <2> QED
    BY <1>3, <2>2, <2>3, <2>4, <2>5, <2>6 DEF DarwinInv, Settled
<1>10. CASE WrapDevice(t)
  <2>1. pc[t] = "wrap" /\ \A s \in Threads \ {t} : pc'[s] = pc[s]
    BY <1>10, StepIs DEF WrapDevice
  <2>2. t = "forward" /\ UNCHANGED <<routes, rule, wg, taken, client, lost>>
    BY <1>0, <1>1, <1>10, <2>1 DEF WrapDevice, guiVars
  <2>3. (pc'[t] = "keep" /\ UNCHANGED link) \/ (pc'[t] = "failed" /\ link' = link \ {App})
    BY <1>10, StepIs DEF WrapDevice
  <2>4. ~wg[App].dev /\ client = NoHelper /\ App \in link
    BY <2>1, <2>2 DEF DarwinInv
  <2>5. \A h \in Helpers : pc'[h] = pc[h] /\ (h \in link' => h \in link)
    BY <2>1, <2>2, <2>3
  <2>6. link' \subseteq Processes
    BY <2>3 DEF DarwinInv
  <2> QED
    BY <1>3, <2>2, <2>3, <2>4, <2>5, <2>6 DEF DarwinInv, Settled
<1>11. CASE Keep(t)
  <2>1. pc[t] = "keep" /\ pc'[t] = "ok" /\ \A s \in Threads \ {t} : pc'[s] = pc[s]
    BY <1>11, StepIs DEF Keep
  <2>2. t = "forward" /\ core # "none" /\ Recorded(App, "dev", TRUE) /\ UNCHANGED <<link, routes, rule, taken, lost>>
    BY <1>0, <1>1, <1>11, <2>1 DEF Keep, machineVars, guiVars
  <2>3. wg'[App].dev = TRUE /\ wg'[App].protected = wg[App].protected
    BY <2>2, RecordedIs
  <2>4. App \in link
    BY <2>1, <2>2 DEF DarwinInv
  <2>5. \A h \in Helpers : pc'[h] = pc[h]
    BY <2>1, <2>2
  <2> QED
    BY <1>3, <2>1, <2>2, <2>3, <2>4, <2>5 DEF DarwinInv
<1> QED
  BY <1>5, <1>6, <1>7, <1>8, <1>9, <1>10, <1>11 DEF MacGUI

LEMMA DarwinHelpers ==
    ASSUME Shape, DarwinInv, platform = "darwin", NEW h \in Helpers, MacHelperProcess(h) \/ KillHelper(h)
    PROVE  DarwinInv'
<1> USE Names
<1>1. Apart
  BY HelpersApart DEF MacHelperProcess
<1>2. /\ pc'["forward"] = pc["forward"] /\ UNCHANGED <<platform, core, configured, applied>> /\ (alone' => alone)
  BY <1>1 DEF Apart
<1>3. CASE BuildUtun(h)
  <2>1. /\ pc[h] = "build" /\ \A s \in Threads \ {h} : pc'[s] = pc[s]
        /\ (pc'[h] = "routes" /\ link' = link \cup {h}) \/ (pc'[h] = "gone" /\ UNCHANGED link)
    BY <1>3, StepIs DEF BuildUtun
  <2>2. UNCHANGED <<routes, rule, wg, taken, client, lost>>
    BY <1>3 DEF BuildUtun, guiVars
  <2>3. ~lost /\ routes => \E k \in Helpers : taken[k] /\ pc'[k] \in {"sendFD", "hold", "cleanUp"}
    BY <2>1 DEF DarwinInv
  <2>4. \A k \in Helpers : k \in link' => pc'[k] \in {"routes", "sendFD", "hold", "cleanUp"}
    BY <2>1 DEF DarwinInv
  <2>5. link' \subseteq Processes /\ (App \in link' <=> App \in link)
    BY <2>1 DEF DarwinInv
  <2>6. \A k \in Helpers : pc'[k] \in {"unused", "build", "routes", "sendFD", "hold", "cleanUp", "gone"}
    BY <2>1 DEF DarwinInv
  <2> QED
    BY <1>2, <2>2, <2>3, <2>4, <2>5, <2>6 DEF DarwinInv, Settled
<1>4. CASE MacRoutes(h)
  <2>1. pc[h] = "routes" /\ pc'[h] = "sendFD" /\ \A s \in Threads \ {h} : pc'[s] = pc[s]
    BY <1>4, StepIs DEF MacRoutes
  <2>2. /\ (routes' = TRUE /\ taken' = [taken EXCEPT ![h] = TRUE]) \/ UNCHANGED <<routes, taken>>
        /\ UNCHANGED <<link, rule, wg, client, lost>>
    BY <1>4 DEF MacRoutes, helperVars, guiVars
  <2>3. taken'[h] = TRUE \/ UNCHANGED <<routes, taken>>
    BY <2>2 DEF Shape
  <2>4. ~lost /\ routes' => \E k \in Helpers : taken'[k] /\ pc'[k] \in {"sendFD", "hold", "cleanUp"}
    <3>1. CASE taken'[h] = TRUE
      BY <2>1, <3>1
    <3>2. CASE UNCHANGED <<routes, taken>>
      BY <2>1, <3>2 DEF DarwinInv
    <3> QED
      BY <2>3, <3>1, <3>2
  <2> QED
    BY <1>2, <2>1, <2>2, <2>4 DEF DarwinInv, Settled
<1>5. CASE SendFD(h)
  <2>1. pc[h] = "sendFD" /\ pc'[h] = "hold" /\ \A s \in Threads \ {h} : pc'[s] = pc[s]
    BY <1>5, StepIs DEF SendFD
  <2>2. UNCHANGED <<link, routes, rule, wg, taken, client, lost>>
    BY <1>5 DEF SendFD, machineVars, guiVars
  <2>3. ~lost /\ routes => \E k \in Helpers : taken[k] /\ pc'[k] \in {"sendFD", "hold", "cleanUp"}
    BY <2>1 DEF DarwinInv
  <2> QED
    BY <1>2, <2>1, <2>2, <2>3 DEF DarwinInv, Settled
<1>6. CASE LetGo(h)
  <2>1. pc[h] = "hold" /\ pc'[h] = "cleanUp" /\ \A s \in Threads \ {h} : pc'[s] = pc[s]
    BY <1>6, StepIs DEF LetGo
  <2>2. UNCHANGED <<link, routes, rule, wg, taken, client, lost>>
    BY <1>6 DEF LetGo, machineVars, helperVars, guiVars
  <2>3. ~lost /\ routes => \E k \in Helpers : taken[k] /\ pc'[k] \in {"sendFD", "hold", "cleanUp"}
    BY <2>1 DEF DarwinInv
  <2> QED
    BY <1>2, <2>1, <2>2, <2>3 DEF DarwinInv, Settled
<1>7. CASE CleanUp(h)
  <2>1. pc[h] = "cleanUp" /\ pc'[h] = "gone" /\ \A s \in Threads \ {h} : pc'[s] = pc[s]
    BY <1>7, StepIs DEF CleanUp
  <2>2. /\ routes' = (routes /\ ~taken[h]) /\ taken' = [taken EXCEPT ![h] = FALSE] /\ link' = link \ {h}
        /\ UNCHANGED <<rule, wg, client, lost>>
    BY <1>7 DEF CleanUp, guiVars
  <2>3. \A k \in Helpers \ {h} : taken'[k] = taken[k]
    BY <2>2 DEF Shape
  <2>4. ~lost /\ routes' => \E k \in Helpers : taken'[k] /\ pc'[k] \in {"sendFD", "hold", "cleanUp"}
    BY <2>1, <2>2, <2>3 DEF DarwinInv
  <2> QED
    BY <1>2, <2>1, <2>2, <2>4 DEF DarwinInv, Settled
<1>8. CASE KillHelper(h)
  <2>1. /\ pc' = [pc EXCEPT ![h] = "gone"] /\ lost' = (lost \/ Something) /\ link' = link \ {h}
        /\ wg' = [wg EXCEPT ![h] = NoWG] /\ UNCHANGED <<routes, rule, client>> /\ alone' = FALSE
    BY <1>8 DEF KillHelper
  <2>2. pc'[h] = "gone" /\ \A s \in Threads \ {h} : pc'[s] = pc[s]
    BY <2>1 DEF Shape
  <2>3. wg'[App] = wg[App]
    BY <2>1, Forgotten
  <2>4. ~lost' => ~routes
    BY <2>1 DEF Something
  <2> QED
    BY <1>2, <2>1, <2>2, <2>3, <2>4 DEF DarwinInv
<1> QED
  BY <1>3, <1>4, <1>5, <1>6, <1>7, <1>8 DEF MacHelperProcess

-----------------------------------------------------------------------------
(***************************************************************************)
(* Windows with a helper.                                                    *)
(***************************************************************************)
(* The client is one of this session: the Teardown of forwardEvents takes it away. *)
ClientInv ==
    /\ client \in Helpers \cup {NoHelper}
    /\ client # NoHelper => /\ core # "none" /\ configured
                            /\ pc["forward"] \in {"request", "await", "ok", "failed", "idle", "release"}

(* A helper knows what it has set up, and has nothing when it ends. *)
HoldsInv ==
    /\ link \subseteq Helpers
    /\ \A h \in Helpers :
         /\ pc[h] \in {"unused", "ready", "takeDown", "unprotect", "create", "routes", "protect", "ok", "failed", "leave", "gone"}
         /\ pc[h] \in {"takeDown", "unprotect"} => next[h] \in {"create", "leave", "gone"}
         /\ wg[h].dev <=> h \in link
         /\ wg[h].dev => pc[h] \in {"routes", "protect", "ok", "failed", "ready", "takeDown"}
         /\ wg[h].routes => pc[h] \in {"protect", "ok", "failed", "ready", "takeDown"}
         /\ pc[h] = "unused" => wg[h] = NoWG /\ inbox[h] = <<>> /\ outbox[h] = <<>>

(* The exclude routes are on the list of a helper, and somebody is left to remove the rule. *)
AnswersInv ==
    ~lost =>
      /\ routes => \E h \in Helpers : wg[h].routes
      /\ rule /\ ~refused => \E h \in Helpers : Alive(h)

(* A helper between the command apply and the answer that the GUI reads. *)
Working(h) ==
    \/ pc[h] = "ready" /\ inbox[h] = <<"apply">> /\ outbox[h] = <<>>
    \/ /\ inbox[h] = <<>> /\ outbox[h] = <<>>
       /\ \/ pc[h] \in {"takeDown", "unprotect"} /\ next[h] = "create"
          \/ pc[h] \in {"create", "failed"}
          \/ pc[h] \in {"routes", "protect", "ok"} /\ wg[h].dev
    \/ pc[h] = "ready" /\ inbox[h] = <<>> /\ (outbox[h] = <<"error">> \/ (outbox[h] = <<"ok">> /\ wg[h].dev))

Serving(h) ==
    /\ h \in Helpers /\ conn[h] = "open"
    /\ pc["forward"] = "request" => target["forward"] = h /\ pc[h] = "ready" /\ inbox[h] = <<>> /\ outbox[h] = <<>>
    /\ pc["forward"] = "await" => target["forward"] = h /\ Working(h)
    /\ Settled => pc[h] = "ready" /\ inbox[h] = <<>> /\ wg[h].dev

(* While nobody else touches the tunnel there is one helper, the one this session launched, and *)
(* the answer ok is of the apply that was asked for.                                              *)
ServesInv ==
    alone =>
      /\ core # "none" /\ (~configured \/ pc["forward"] \in {"lockState", "uac"}) => \A h \in Helpers : ~Alive(h)
      /\ \A h, k \in Helpers : Alive(h) /\ Alive(k) => h = k
      /\ \A h \in Helpers : Alive(h) /\ wg[h].protected => rule
      /\ pc["forward"] \in {"request", "await"} \/ Settled => Serving(client)

LEMMA HelperLabels ==
    ASSUME Shape, Control, platform = "helper"
    PROVE  /\ pc["forward"] \in {"release", "askDown", "awaitDown", "closeConn", "lockState", "uac", "request", "await",
                                 "idle", "ok", "failed", "error", "final"}
           /\ pc["user"] \in {"release", "askDown", "awaitDown", "closeConn", "idle", "stop", "exit"}
           /\ pc["forward"] \in {"release", "askDown", "awaitDown", "closeConn"} => next["forward"] \in {"error", "final"}
           /\ pc["user"] \in {"release", "askDown", "awaitDown", "closeConn"} => next["user"] \in {"stop", "exit"}
           /\ core = "none" => pc["forward"] = "idle"
           /\ alone => pc["user"] = "idle"
           /\ pc["forward"] \in {"lockState", "uac", "request", "await", "ok"} => configured
           /\ applied => configured /\ (pc["forward"] \in {"idle", "final"} \/ next["forward"] = "final")
BY DEF Control, Down, Up

LEMMA ClientSession ==
    ASSUME Shape, Control, ClientInv, platform = "helper", SessionStep
    PROVE  ClientInv'
<1> USE Names DEF Shape, Control, Down, Up, ClientInv, Pending, Settled, machineVars, threadVars, helperVars, sessionVars, guiVars
<1>1. CASE Connect
  BY <1>1 DEF Connect
<1>2. CASE CoreEnds
  BY <1>2 DEF CoreEnds
<1>3. CASE Config
  BY <1>3, BeginIs DEF Config, TeardownOf
<1>4. CASE ApplyOK
  BY <1>4, StepIs DEF ApplyOK
<1>5. CASE ApplyFails
  BY <1>5, BeginIs, StepIs DEF ApplyFails, TeardownOf
<1>6. CASE ApplyError
  BY <1>6, StepIs DEF ApplyError
<1>7. CASE Drained
  BY <1>7, BeginIs DEF Drained, TeardownOf
<1>8. CASE Reset
  BY <1>8, StepIs DEF Reset
<1>9. CASE Disconnect
  BY <1>9, BeginIs DEF Disconnect, TeardownOf
<1>10. CASE StopCore
  BY <1>10, StepIs DEF StopCore
<1>11. CASE Shutdown
  BY <1>11, BeginIs DEF Shutdown, TeardownOf
<1>12. CASE GuiEnds
  BY <1>12, Forgotten DEF GuiEnds, Something
<1>13. CASE Start
  BY <1>13 DEF Start
<1>14. CASE CleanStale
  BY <1>14 DEF CleanStale
<1> QED
  BY <1>1, <1>2, <1>3, <1>4, <1>5, <1>6, <1>7, <1>8, <1>9, <1>10, <1>11, <1>12, <1>13, <1>14 DEF SessionStep

(* What the steps of the GUI do to its client and to the helpers. *)
LEMMA ClientThreads ==
    ASSUME Shape, Control, ClientInv, platform = "helper", NEW t \in AppThreads, WindowsGUI(t)
    PROVE  ClientInv'
<1> USE Names
<1>0. t = "forward" \/ t = "user"
  BY DEF AppThreads
<1>1. Moves(t)
  BY WindowsGUIMoves DEF WindowsGUI
<1>2. UNCHANGED <<platform, core, configured, applied, alone>> /\ (t = "user" => pc'["forward"] = pc["forward"])
  BY <1>1 DEF Moves
<1> USE HelperLabels DEF ClientInv
<1>3. CASE GetClient(t)
  <2>1. pc[t] = "lockState" /\ UNCHANGED client
    BY <1>3, StepIs DEF GetClient
  <2>2. t = "forward" /\ client = NoHelper
    BY <1>0, <2>1
  <2> QED
    BY <2>1, <2>2
<1>4. CASE HelperConnects(t)
  <2>1. PICK h \in NextHelper : pc[t] = "uac" /\ pc' = [pc EXCEPT ![t] = "request", ![h] = "ready"] /\ client' = h
    BY <1>4 DEF HelperConnects
  <2>2. h \in Helpers /\ t = "forward" /\ pc'["forward"] = "request" /\ core # "none" /\ configured
    BY <1>0, <2>1 DEF NextHelper, Shape
  <2> QED
    BY <1>2, <2>1, <2>2
<1>5. CASE NotElevated(t)
  BY <1>0, <1>2, <1>5, StepIs DEF NotElevated, helperVars
<1>6. CASE RequestApply(t) \/ AwaitApply(t)
  <2>1. pc[t] \in {"request", "await"} /\ pc'[t] \in {"await", "ok", "failed"} /\ UNCHANGED client
    BY <1>6, StepIs DEF RequestApply, AwaitApply, Send, Receive, ReceiveFails
  <2> QED
    BY <1>0, <1>2, <2>1
<1>7. CASE TakeClient(t)
  BY <1>7 DEF TakeClient
<1>8. CASE RequestDown(t) \/ AwaitDown(t) \/ CloseConn(t)
  <2>1. pc[t] \in {"askDown", "awaitDown", "closeConn"} /\ UNCHANGED client
    BY <1>8, StepIs, ReturnIs DEF RequestDown, AwaitDown, CloseConn, Send, Receive, ReceiveFails
  <2> QED
    BY <1>0, <1>2, <2>1
<1> QED
  BY <1>3, <1>4, <1>5, <1>6, <1>7, <1>8 DEF WindowsGUI

(* Helpers that are not launched have no messages, and only one that is launched changes its    *)
(* label.                                                                                       *)
LEMMA GuiAndHelpers ==
    ASSUME Shape, NEW t \in AppThreads, WindowsGUI(t)
    PROVE  /\ UNCHANGED <<link, routes, rule, refused, wg, lost>>
           /\ \A h \in Helpers : next'[h] = next[h]
           /\ \/ \A h \in Helpers : pc'[h] = pc[h]
              \/ \E h \in Helpers : /\ pc[h] = "unused" /\ pc'[h] = "ready" /\ pc[t] = "uac"
                                    /\ \A k \in Helpers \ {h} : pc'[k] = pc[k]
           /\ \A h \in Helpers : pc[h] = "unused" /\ inbox[h] = <<>> /\ outbox[h] = <<>> => inbox'[h] = <<>> /\ outbox'[h] = <<>>
<1> USE Names
<1>1. UNCHANGED <<link, routes, rule, refused, wg, lost>>
  BY DEF WindowsGUI, GetClient, HelperConnects, NotElevated, RequestApply, AwaitApply, TakeClient, RequestDown, AwaitDown,
         CloseConn, Send, Receive, ReceiveFails, machineVars, guiVars
<1>2. CASE HelperConnects(t)
  <2>1. PICK h \in NextHelper : pc[t] = "uac" /\ pc' = [pc EXCEPT ![t] = "request", ![h] = "ready"]
    BY <1>2 DEF HelperConnects
  <2>2. h \in Helpers /\ pc[h] = "unused"
    BY <2>1 DEF NextHelper
  <2>3. pc'[h] = "ready" /\ \A k \in Helpers \ {h} : pc'[k] = pc[k]
    BY <2>1, <2>2 DEF Shape
  <2>4. UNCHANGED <<next, inbox, outbox>>
    BY <1>2 DEF HelperConnects
  <2> QED
    BY <1>1, <2>1, <2>2, <2>3, <2>4
<1>3. CASE GetClient(t) \/ NotElevated(t) \/ TakeClient(t)
  <2>1. UNCHANGED <<inbox, outbox>>
    BY <1>3 DEF GetClient, NotElevated, TakeClient, helperVars
  <2>2. \A h \in Helpers : pc'[h] = pc[h] /\ next'[h] = next[h]
    BY <1>3, StepIs, ReturnIs DEF GetClient, NotElevated, TakeClient
  <2> QED
    BY <1>1, <2>1, <2>2
<1>4. CASE RequestApply(t) \/ RequestDown(t)
  <2>1. \A h \in Helpers : pc'[h] = pc[h] /\ next'[h] = next[h]
    BY <1>4, StepIs DEF RequestApply, RequestDown, Send
  <2>2. UNCHANGED outbox
    BY <1>4 DEF RequestApply, RequestDown, Send
  <2>3. \A h \in Helpers : ~Alive(h) => inbox'[h] = inbox[h]
    BY <1>4 DEF RequestApply, RequestDown, Send, Shape
  <2> QED
    BY <1>1, <2>1, <2>2, <2>3 DEF Alive
<1>5. CASE AwaitApply(t) \/ AwaitDown(t)
  <2>1. \A h \in Helpers : pc'[h] = pc[h] /\ next'[h] = next[h]
    BY <1>5, StepIs DEF AwaitApply, AwaitDown, Receive, ReceiveFails
  <2>2. UNCHANGED inbox /\ \A h \in Helpers : outbox[h] = <<>> => outbox'[h] = <<>>
    BY <1>5 DEF AwaitApply, AwaitDown, Receive, ReceiveFails, Shape
  <2> QED
    BY <1>1, <2>1, <2>2
<1>6. CASE CloseConn(t)
  <2>1. \A h \in Helpers : pc'[h] = pc[h] /\ next'[h] = next[h]
    BY <1>6, ReturnIs DEF CloseConn
  <2>2. UNCHANGED inbox /\ \A h \in Helpers : outbox[h] = <<>> => outbox'[h] = <<>>
    BY <1>6 DEF CloseConn, Close, Shape
  <2> QED
    BY <1>1, <2>1, <2>2
<1> QED
  BY <1>2, <1>3, <1>4, <1>5, <1>6 DEF WindowsGUI

(* The session leaves the helpers alone. *)
LEMMA SessionAndHelpers ==
    ASSUME Shape, platform = "helper", link \subseteq Helpers, SessionStep
    PROVE  /\ UNCHANGED <<link, routes, rule, refused, inbox>> /\ (lost' <=> lost)
           /\ \A h \in Helpers : pc'[h] = pc[h] /\ next'[h] = next[h] /\ wg'[h] = wg[h]
           /\ \A h \in Helpers : outbox[h] = <<>> => outbox'[h] = <<>>
<1> USE Names DEF Shape, machineVars, threadVars, helperVars, sessionVars, guiVars
<1>1. CASE Connect
  BY <1>1 DEF Connect
<1>2. CASE CoreEnds
  BY <1>2 DEF CoreEnds
<1>3. CASE Config
  BY <1>3, BeginIs DEF Config
<1>4. CASE ApplyOK
  BY <1>4, StepIs DEF ApplyOK
<1>5. CASE ApplyFails
  BY <1>5, BeginIs, StepIs DEF ApplyFails
<1>6. CASE ApplyError
  BY <1>6, StepIs DEF ApplyError
<1>7. CASE Drained
  BY <1>7, BeginIs DEF Drained
<1>8. CASE Reset
  BY <1>8, StepIs DEF Reset
<1>9. CASE Disconnect
  BY <1>9, BeginIs DEF Disconnect
<1>10. CASE StopCore
  BY <1>10, StepIs DEF StopCore
<1>11. CASE Shutdown
  BY <1>11, BeginIs DEF Shutdown
<1>12. CASE Start
  BY <1>12 DEF Start
<1>13. CASE CleanStale
  BY <1>13 DEF CleanStale
<1>14. CASE GuiEnds
  <2>1. /\ pc' = [t \in Threads |-> IF t \in AppThreads THEN "idle" ELSE pc[t]]
        /\ next' = [t \in Threads |-> IF t \in AppThreads THEN "idle" ELSE next[t]]
        /\ wg' = [wg EXCEPT ![App] = NoWG] /\ link' = link \ {App} /\ outbox' = [h \in Helpers |-> <<>>]
        /\ lost' = (lost \/ (platform \in {"linux", "elevated"} /\ Something))
        /\ UNCHANGED <<routes, rule, refused, inbox>>
    BY <1>14 DEF GuiEnds
  <2>2. lost' <=> lost
    BY <2>1
  <2>3. link' = link
    BY <2>1
  <2>4. \A h \in Helpers : wg'[h] = wg[h]
    BY <2>1, Forgotten
  <2> QED
    BY <2>1, <2>2, <2>3, <2>4
<1> QED
  BY <1>1, <1>2, <1>3, <1>4, <1>5, <1>6, <1>7, <1>8, <1>9, <1>10, <1>11, <1>12, <1>13, <1>14 DEF SessionStep

(* The invariants of the helpers survive what leaves the helpers alone. *)
LEMMA AloneKeeps ==
    ASSUME HoldsInv, AnswersInv, UNCHANGED <<link, routes, rule, refused>>, lost' <=> lost,
           \A h \in Helpers : pc'[h] = pc[h] /\ next'[h] = next[h] /\ wg'[h] = wg[h],
           \A h \in Helpers : pc[h] = "unused" => inbox'[h] = <<>> /\ outbox'[h] = <<>>
    PROVE  HoldsInv' /\ AnswersInv'
<1>1. HoldsInv'
  BY DEF HoldsInv
<1>2. AnswersInv'
  BY DEF AnswersInv, Alive
<1> QED
  BY <1>1, <1>2

LEMMA HoldsThreads ==
    ASSUME Shape, HoldsInv, AnswersInv, NEW t \in AppThreads, WindowsGUI(t)
    PROVE  HoldsInv' /\ AnswersInv'
<1> USE Names
<1>1. /\ UNCHANGED <<link, routes, rule, refused, wg, lost>>
      /\ \A h \in Helpers : next'[h] = next[h]
      /\ \A h \in Helpers : pc[h] = "unused" => inbox'[h] = <<>> /\ outbox'[h] = <<>>
  BY GuiAndHelpers DEF HoldsInv
<1>2. CASE \A h \in Helpers : pc'[h] = pc[h]
  BY <1>1, <1>2, AloneKeeps
<1>3. ASSUME NEW h \in Helpers, pc[h] = "unused", pc'[h] = "ready", \A k \in Helpers \ {h} : pc'[k] = pc[k]
      PROVE  HoldsInv' /\ AnswersInv'
  <2>1. wg[h] = NoWG
    BY <1>3 DEF HoldsInv
  <2>2. ~wg[h].dev /\ ~wg[h].routes
    BY <2>1 DEF NoWG
  <2>3. HoldsInv'
    BY <1>1, <1>3, <2>2 DEF HoldsInv
  <2>4. AnswersInv'
    BY <1>1, <1>3 DEF AnswersInv, Alive
  <2> QED
    BY <2>3, <2>4
<1> QED
  BY <1>2, <1>3, GuiAndHelpers

(* A step of a helper: the others stay as they are. *)
Others(h) ==
    /\ \A k \in Helpers \ {h} : /\ pc'[k] = pc[k] /\ next'[k] = next[k] /\ wg'[k] = wg[k]
                               /\ inbox'[k] = inbox[k] /\ outbox'[k] = outbox[k]
    /\ link' \ {h} = link \ {h}

LEMMA OthersKeep ==
    ASSUME Shape, HoldsInv, NEW h \in Helpers, Others(h),
           /\ pc'[h] \in {"ready", "takeDown", "unprotect", "create", "routes", "protect", "ok", "failed", "leave", "gone"}
           /\ pc'[h] \in {"takeDown", "unprotect"} => next'[h] \in {"create", "leave", "gone"}
           /\ wg'[h].dev <=> h \in link'
           /\ wg'[h].dev => pc'[h] \in {"routes", "protect", "ok", "failed", "ready", "takeDown"}
           /\ wg'[h].routes => pc'[h] \in {"protect", "ok", "failed", "ready", "takeDown"}
    PROVE  HoldsInv'
<1>1. link' \subseteq Helpers /\ \A k \in Helpers \ {h} : k \in link' <=> k \in link
  BY DEF HoldsInv, Others
<1> QED
  BY <1>1 DEF HoldsInv, Others

(* What each step of a helper does to its own state. *)
LEMMA HelperSteps ==
    ASSUME Shape, NEW h \in Helpers
    PROVE  /\ ReadCommand(h) => /\ Others(h) /\ pc[h] = "ready" /\ pc'[h] = "takeDown" /\ inbox[h] # <<>>
                                /\ next'[h] = IF Head(inbox[h]) = "apply" THEN "create" ELSE "leave"
                                /\ inbox'[h] = Tail(inbox[h]) /\ outbox'[h] = outbox[h]
                                /\ UNCHANGED <<link, routes, rule, refused, wg, conn, client, lost>>
           /\ ReadFails(h) => /\ Others(h) /\ pc[h] = "ready" /\ conn[h] = "closed" /\ pc'[h] = "takeDown" /\ next'[h] = "gone"
                              /\ UNCHANGED <<link, routes, rule, refused, wg, conn, client, lost>>
           /\ Answer(h) => /\ Others(h) /\ pc'[h] = "ready" /\ UNCHANGED next /\ inbox'[h] = inbox[h]
                           /\ \/ pc[h] = "ok" /\ outbox'[h] = IF conn[h] = "open" THEN Append(outbox[h], "ok") ELSE outbox[h]
                              \/ pc[h] = "failed" /\ outbox'[h] = IF conn[h] = "open" THEN Append(outbox[h], "error") ELSE outbox[h]
                           /\ UNCHANGED <<link, routes, rule, refused, wg, conn, client, lost>>
           /\ AnswerDown(h) => /\ Others(h) /\ pc[h] = "leave" /\ pc'[h] = "unprotect" /\ next'[h] = "gone"
                               /\ UNCHANGED <<link, routes, rule, refused, wg, conn, client, lost>>
<1> USE Names DEF Shape, Others, Reply, TeardownOf, machineVars, threadVars, sessionVars, guiVars
<1>1. ASSUME ReadCommand(h)
      PROVE  /\ Others(h) /\ pc[h] = "ready" /\ pc'[h] = "takeDown" /\ inbox[h] # <<>>
             /\ next'[h] = IF Head(inbox[h]) = "apply" THEN "create" ELSE "leave"
             /\ inbox'[h] = Tail(inbox[h]) /\ outbox'[h] = outbox[h]
             /\ UNCHANGED <<link, routes, rule, refused, wg, conn, client, lost>>
  BY <1>1, BeginIs DEF ReadCommand
<1>2. ASSUME ReadFails(h)
      PROVE  /\ Others(h) /\ pc[h] = "ready" /\ conn[h] = "closed" /\ pc'[h] = "takeDown" /\ next'[h] = "gone"
             /\ UNCHANGED <<link, routes, rule, refused, wg, conn, client, lost>>
  BY <1>2, BeginIs DEF ReadFails
<1>3. ASSUME Answer(h)
      PROVE  /\ Others(h) /\ pc'[h] = "ready" /\ UNCHANGED next /\ inbox'[h] = inbox[h]
             /\ \/ pc[h] = "ok" /\ outbox'[h] = IF conn[h] = "open" THEN Append(outbox[h], "ok") ELSE outbox[h]
                \/ pc[h] = "failed" /\ outbox'[h] = IF conn[h] = "open" THEN Append(outbox[h], "error") ELSE outbox[h]
             /\ UNCHANGED <<link, routes, rule, refused, wg, conn, client, lost>>
  <2>1. CASE Step(h, "ok", "ready") /\ Reply(h, "ok")
    <3>1. pc[h] = "ok" /\ pc'[h] = "ready" /\ next' = next /\ \A s \in Threads \ {h} : pc'[s] = pc[s]
      BY <2>1, StepIs
    <3> QED
      BY <1>3, <2>1, <3>1 DEF Answer
  <2>2. CASE Step(h, "failed", "ready") /\ Reply(h, "error")
    <3>1. pc[h] = "failed" /\ pc'[h] = "ready" /\ next' = next /\ \A s \in Threads \ {h} : pc'[s] = pc[s]
      BY <2>2, StepIs
    <3> QED
      BY <1>3, <2>2, <3>1 DEF Answer
  <2> QED
    BY <1>3, <2>1, <2>2 DEF Answer
<1>4. ASSUME AnswerDown(h)
      PROVE  /\ Others(h) /\ pc[h] = "leave" /\ pc'[h] = "unprotect" /\ next'[h] = "gone"
             /\ UNCHANGED <<link, routes, rule, refused, wg, conn, client, lost>>
  BY <1>4 DEF AnswerDown
<1> QED
  BY <1>1, <1>2, <1>3, <1>4

(* What the steps of applyWindowsLocal and its Teardown do in a helper. *)
Fields(h, dev, rts, prot) == wg'[h].dev = dev /\ wg'[h].routes = rts /\ wg'[h].protected = prot

LEMMA WindowsSteps ==
    ASSUME Shape, NEW h \in Helpers, Windows(h)
    PROVE  /\ Others(h) /\ UNCHANGED <<conn, client, lost>> /\ inbox'[h] = inbox[h] /\ outbox'[h] = outbox[h]
           /\ \/ /\ pc[h] = "takeDown" /\ pc'[h] = "unprotect" /\ next'[h] = next[h] /\ UNCHANGED <<rule, refused>>
                 /\ Fields(h, FALSE, FALSE, wg[h].protected)
                 /\ routes' = (routes /\ ~wg[h].routes) /\ link' = IF wg[h].dev THEN link \ {h} ELSE link
              \/ /\ pc[h] = "unprotect" /\ pc'[h] = next[h] /\ UNCHANGED <<link, routes>>
                 /\ \/ rule' = FALSE /\ Fields(h, wg[h].dev, wg[h].routes, FALSE)
                    \/ rule /\ refused' = TRUE /\ UNCHANGED <<rule, wg>>
              \/ /\ pc[h] = "create" /\ next'[h] = next[h] /\ UNCHANGED <<routes, rule, refused>>
                 /\ \/ pc'[h] \in {"routes", "failed"} /\ link' = link \cup {h} /\ Fields(h, TRUE, wg[h].routes, wg[h].protected)
                    \/ pc'[h] = "failed" /\ UNCHANGED <<link, wg>>
              \/ /\ pc[h] = "routes" /\ pc'[h] = "protect" /\ next'[h] = next[h] /\ UNCHANGED <<link, rule, refused>>
                 /\ \/ routes' = TRUE /\ Fields(h, wg[h].dev, TRUE, wg[h].protected)
                    \/ Fields(h, wg[h].dev, FALSE, wg[h].protected) /\ UNCHANGED routes
              \/ /\ pc[h] = "protect" /\ pc'[h] \in {"ok", "failed"} /\ next'[h] = next[h] /\ UNCHANGED <<link, routes>>
                 /\ \/ UNCHANGED <<rule, refused, wg>>
                    \/ rule' = TRUE /\ Fields(h, wg[h].dev, wg[h].routes, TRUE)
                    \/ rule /\ refused' = TRUE /\ UNCHANGED <<rule, wg>>
                    \/ rule' = FALSE /\ Fields(h, wg[h].dev, wg[h].routes, FALSE)
<1> USE Names DEF Others, Fields
<1>1. CASE TakeDown(h)
  <2>1. /\ pc[h] = "takeDown" /\ pc'[h] = "unprotect" /\ next' = next /\ \A s \in Threads \ {h} : pc'[s] = pc[s]
    BY <1>1, StepIs DEF TakeDown
  <2>2. /\ wg' = [wg EXCEPT ![h].routes = FALSE, ![h].dev = FALSE] /\ routes' = (routes /\ ~wg[h].routes)
        /\ link' = IF wg[h].dev THEN link \ {h} ELSE link
        /\ UNCHANGED <<rule, refused, conn, client, lost, inbox, outbox>>
    BY <1>1 DEF TakeDown, helperVars, guiVars
  <2> QED
    BY <2>1, <2>2, TakenDown
<1>2. CASE Unprotect(h)
  <2>1. /\ pc[h] = "unprotect" /\ pc'[h] = next[h]
        /\ \A s \in Threads \ {h} : pc'[s] = pc[s] /\ next'[s] = next[s]
    BY <1>2, ReturnIs DEF Unprotect
  <2>2. /\ \/ rule' = FALSE /\ Recorded(h, "protected", FALSE)
           \/ rule /\ refused' = TRUE /\ UNCHANGED <<rule, wg>>
        /\ UNCHANGED <<link, routes, conn, client, lost, inbox, outbox>>
    BY <1>2 DEF Unprotect, helperVars, guiVars
  <2> QED
    BY <2>1, <2>2, RecordedIs
<1>3. CASE CreateDevice(h)
  <2>1. /\ pc[h] = "create" /\ next' = next /\ \A s \in Threads \ {h} : pc'[s] = pc[s]
    BY <1>3, StepIs DEF CreateDevice
  <2>2. /\ \/ pc'[h] \in {"routes", "failed"} /\ link' = link \cup {h} /\ Recorded(h, "dev", TRUE)
           \/ pc'[h] = "failed" /\ UNCHANGED <<link, wg>>
        /\ UNCHANGED <<routes, rule, refused, conn, client, lost, inbox, outbox>>
    BY <1>3, StepIs DEF CreateDevice, helperVars, guiVars
  <2> QED
    BY <2>1, <2>2, RecordedIs
<1>4. CASE SetUpRoutes(h)
  <2>1. /\ pc[h] = "routes" /\ pc'[h] = "protect" /\ next' = next /\ \A s \in Threads \ {h} : pc'[s] = pc[s]
    BY <1>4, StepIs DEF SetUpRoutes
  <2>2. /\ \/ routes' = TRUE /\ Recorded(h, "routes", TRUE)
           \/ Recorded(h, "routes", FALSE) /\ UNCHANGED routes
        /\ UNCHANGED <<link, rule, refused, conn, client, lost, inbox, outbox>>
    BY <1>4 DEF SetUpRoutes, helperVars, guiVars
  <2> QED
    BY <2>1, <2>2, RecordedIs
<1>5. CASE Protect(h)
  <2>1. /\ pc[h] = "protect" /\ pc'[h] \in {"ok", "failed"} /\ next' = next /\ \A s \in Threads \ {h} : pc'[s] = pc[s]
    BY <1>5, StepIs DEF Protect
  <2>2. /\ \/ UNCHANGED <<rule, refused, wg>>
           \/ rule' = TRUE /\ Recorded(h, "protected", TRUE)
           \/ rule /\ refused' = TRUE /\ UNCHANGED <<rule, wg>>
           \/ rule' = FALSE /\ Recorded(h, "protected", FALSE)
        /\ UNCHANGED <<link, routes, conn, client, lost, inbox, outbox>>
    BY <1>5 DEF Protect, helperVars, guiVars
  <2> QED
    BY <2>1, <2>2, RecordedIs
<1> QED
  BY <1>1, <1>2, <1>3, <1>4, <1>5 DEF Windows


(* The helpers keep HoldsInv and AnswersInv. *)
LEMMA HelpersHold ==
    ASSUME Shape, HoldsInv, AnswersInv, NEW h \in Helpers, WindowsHelperProcess(h)
    PROVE  HoldsInv' /\ AnswersInv'
<1> USE Names
<1>0. wg[h].dev \in BOOLEAN /\ wg[h].routes \in BOOLEAN /\ (wg[h].dev <=> h \in link)
  BY BooleanFields DEF HoldsInv
<1>1. ASSUME Others(h), UNCHANGED <<link, routes, rule, refused, wg, lost>>,
             pc[h] \in {"ready", "ok", "failed", "leave"},
             \/ pc'[h] = "ready"
             \/ pc[h] = "ready" /\ pc'[h] = "takeDown" /\ next'[h] \in {"create", "leave", "gone"}
             \/ pc[h] = "leave" /\ pc'[h] = "unprotect" /\ next'[h] = "gone"
      PROVE  HoldsInv' /\ AnswersInv'
  <2>1. /\ wg[h].dev => pc[h] \in {"ok", "failed", "ready"}
        /\ wg[h].routes => pc[h] \in {"ok", "failed", "ready"}
    BY <1>1 DEF HoldsInv
  <2>2. HoldsInv'
    BY <1>0, <1>1, <2>1, OthersKeep
  <2>3. \A k \in Helpers : Alive(k) => Alive(k)'
    BY <1>1 DEF Others, Alive
  <2>4. AnswersInv'
    BY <1>1, <2>3 DEF AnswersInv
  <2> QED
    BY <2>2, <2>4
<1>2. CASE ReadCommand(h) \/ ReadFails(h) \/ Answer(h) \/ AnswerDown(h)
  BY <1>1, <1>2, HelperSteps
<1>3. ASSUME Windows(h) PROVE HoldsInv' /\ AnswersInv'
  <2>1. Others(h) /\ UNCHANGED lost
    BY <1>3, WindowsSteps
  <2>2. \A k \in Helpers \ {h} : pc'[k] = pc[k] /\ wg'[k] = wg[k]
    BY <2>1 DEF Others
  <2>3. CASE /\ pc[h] = "takeDown" /\ pc'[h] = "unprotect" /\ next'[h] = next[h] /\ UNCHANGED <<rule, refused>>
             /\ Fields(h, FALSE, FALSE, wg[h].protected)
             /\ routes' = (routes /\ ~wg[h].routes) /\ link' = IF wg[h].dev THEN link \ {h} ELSE link
    <3>1. h \notin link' /\ ~wg'[h].dev /\ ~wg'[h].routes /\ next'[h] \in {"create", "leave", "gone"}
      BY <1>0, <2>3 DEF HoldsInv, Fields
    <3>2. HoldsInv'
      BY <2>1, <2>3, <3>1, OthersKeep
    <3>3. AnswersInv'
      BY <2>1, <2>2, <2>3, <1>0 DEF AnswersInv, Alive
    <3> QED
      BY <3>2, <3>3
  <2>4. CASE /\ pc[h] = "unprotect" /\ pc'[h] = next[h] /\ UNCHANGED <<link, routes>>
             /\ \/ rule' = FALSE /\ Fields(h, wg[h].dev, wg[h].routes, FALSE)
                \/ rule /\ refused' = TRUE /\ UNCHANGED <<rule, wg>>
    <3>1. /\ wg'[h].dev = wg[h].dev /\ wg'[h].routes = wg[h].routes /\ next[h] \in {"create", "leave", "gone"}
          /\ ~wg[h].dev /\ ~wg[h].routes
      BY <1>0, <2>4 DEF HoldsInv, Fields
    <3>2. HoldsInv'
      BY <1>0, <2>1, <2>4, <3>1, OthersKeep
    <3>3. \/ rule' = FALSE
          \/ refused' = TRUE
      BY <2>4
    <3>4. AnswersInv'
      BY <2>1, <2>2, <2>4, <3>1, <3>3 DEF AnswersInv
    <3> QED
      BY <3>2, <3>4
  <2>5. CASE /\ pc[h] = "create" /\ next'[h] = next[h] /\ UNCHANGED <<routes, rule, refused>>
             /\ \/ pc'[h] \in {"routes", "failed"} /\ link' = link \cup {h} /\ Fields(h, TRUE, wg[h].routes, wg[h].protected)
                \/ pc'[h] = "failed" /\ UNCHANGED <<link, wg>>
    <3>1. /\ wg'[h].routes = wg[h].routes /\ ~wg[h].dev /\ ~wg[h].routes /\ pc'[h] \in {"routes", "failed"}
          /\ wg'[h].dev <=> h \in link'
      BY <1>0, <2>5 DEF HoldsInv, Fields
    <3>2. HoldsInv'
      BY <2>1, <3>1, OthersKeep
    <3>3. AnswersInv'
      BY <2>1, <2>2, <2>5, <3>1 DEF AnswersInv, Alive
    <3> QED
      BY <3>2, <3>3
  <2>6. CASE /\ pc[h] = "routes" /\ pc'[h] = "protect" /\ next'[h] = next[h] /\ UNCHANGED <<link, rule, refused>>
             /\ \/ routes' = TRUE /\ Fields(h, wg[h].dev, TRUE, wg[h].protected)
                \/ Fields(h, wg[h].dev, FALSE, wg[h].protected) /\ UNCHANGED routes
    <3>1. /\ wg'[h].dev = wg[h].dev /\ ~wg[h].routes
          /\ wg'[h].routes \/ UNCHANGED routes
      BY <1>0, <2>6 DEF HoldsInv, Fields
    <3>2. HoldsInv'
      BY <1>0, <2>1, <2>6, <3>1, OthersKeep
    <3>3. AnswersInv'
      BY <2>1, <2>2, <2>6, <3>1 DEF AnswersInv, Alive
    <3> QED
      BY <3>2, <3>3
  <2>7. CASE /\ pc[h] = "protect" /\ pc'[h] \in {"ok", "failed"} /\ next'[h] = next[h] /\ UNCHANGED <<link, routes>>
             /\ \/ UNCHANGED <<rule, refused, wg>>
                \/ rule' = TRUE /\ Fields(h, wg[h].dev, wg[h].routes, TRUE)
                \/ rule /\ refused' = TRUE /\ UNCHANGED <<rule, wg>>
                \/ rule' = FALSE /\ Fields(h, wg[h].dev, wg[h].routes, FALSE)
    <3>1. wg'[h].dev = wg[h].dev /\ wg'[h].routes = wg[h].routes
      BY <2>7 DEF Fields
    <3>2. HoldsInv'
      BY <1>0, <2>1, <2>7, <3>1, OthersKeep
    <3>3. AnswersInv'
      BY <2>1, <2>2, <2>7, <3>1 DEF AnswersInv, Alive
    <3> QED
      BY <3>2, <3>3
  <2> QED
    BY <1>3, <2>3, <2>4, <2>5, <2>6, <2>7, WindowsSteps
<1> QED
  BY <1>2, <1>3 DEF WindowsHelperProcess

(* A helper that is killed holds nothing any more; what it had set up is lost. *)
LEMMA KillHolds ==
    ASSUME Shape, HoldsInv, AnswersInv, NEW h \in Helpers, KillHelper(h)
    PROVE  HoldsInv' /\ AnswersInv'
<1> USE Names
<1>1. wg'[h] = NoWG /\ \A q \in Processes \ {h} : wg'[q] = wg[q]
  BY Forgotten DEF KillHelper
<1>2. ~wg'[h].dev /\ ~wg'[h].routes
  BY <1>1 DEF NoWG
<1>3. pc'[h] = "gone" /\ link' = link \ {h} /\ Others(h)
  BY <1>1 DEF KillHelper, Others, Shape
<1>4. HoldsInv'
  BY <1>2, <1>3, OthersKeep
<1>5. lost' = (lost \/ Something) /\ UNCHANGED <<routes, rule, refused>>
  BY DEF KillHelper
<1>6. AnswersInv'
  BY <1>5 DEF AnswersInv, Something
<1> QED
  BY <1>4, <1>6

(* A step of a helper leaves the client where it is. *)
LEMMA ClientHelpers ==
    ASSUME Shape, ClientInv, NEW h \in Helpers, WindowsHelperProcess(h) \/ KillHelper(h)
    PROVE  ClientInv'
<1>1. Apart
  BY HelpersApart DEF WindowsHelperProcess, Windows
<1>2. UNCHANGED client
  BY HelperSteps, WindowsSteps DEF WindowsHelperProcess, KillHelper
<1> QED
  BY <1>1, <1>2, Names DEF ClientInv, Apart
-----------------------------------------------------------------------------
(***************************************************************************)
(* The helper of the session that is alone.                                  *)
(***************************************************************************)
LEMMA OneMessage ==
    ASSUME NEW x
    PROVE  Append(<<>>, x) = <<x>> /\ Head(<<x>>) = x /\ Tail(<<x>>) = <<>> /\ <<x>> # <<>>
OBVIOUS

(* The helpers and the connections are as they were, and the session is no further than it was. *)
LEMMA ServesStill ==
    ASSUME ServesInv, alone' => alone, UNCHANGED <<rule, conn, client, target>>,
           \A h \in Helpers : /\ pc'[h] = pc[h] /\ next'[h] = next[h] /\ wg'[h] = wg[h]
                              /\ inbox'[h] = inbox[h] /\ outbox'[h] = outbox[h],
           alone /\ core' # "none" /\ (~configured' \/ pc'["forward"] \in {"lockState", "uac"}) =>
               core # "none" /\ (~configured \/ pc["forward"] \in {"lockState", "uac"}),
           alone => pc'["forward"] \notin {"request", "await"} \/ pc'["forward"] = pc["forward"],
           alone /\ Settled' => Settled
    PROVE  ServesInv'
<1>0. SUFFICES ASSUME alone, alone' PROVE ServesInv'
  BY DEF ServesInv
<1>1. \A h \in Helpers : Alive(h)' <=> Alive(h)
  BY DEF Alive
<1>2. core' # "none" /\ (~configured' \/ pc'["forward"] \in {"lockState", "uac"}) => \A h \in Helpers : ~Alive(h)'
  BY <1>0, <1>1 DEF ServesInv
<1>3. /\ \A h, k \in Helpers : Alive(h)' /\ Alive(k)' => h = k
      /\ \A h \in Helpers : Alive(h)' /\ wg'[h].protected => rule'
  BY <1>0, <1>1 DEF ServesInv
<1>4. ASSUME pc'["forward"] \in {"request", "await"} \/ Settled' PROVE Serving(client)'
  <2>1. Serving(client)
    BY <1>0, <1>4 DEF ServesInv
  <2>2. client \in Helpers /\ (Working(client)' <=> Working(client))
    BY <2>1 DEF Serving, Working
  <2> QED
    BY <1>0, <2>1, <2>2 DEF Serving
<1> QED
  BY <1>2, <1>3, <1>4 DEF ServesInv

LEMMA ServesSession ==
    ASSUME Shape, Control, HoldsInv, ServesInv, platform = "helper", SessionStep
    PROVE  ServesInv'
<1> USE Names
<1>1. /\ UNCHANGED <<rule, inbox>>
      /\ \A h \in Helpers : pc'[h] = pc[h] /\ next'[h] = next[h] /\ wg'[h] = wg[h]
  BY SessionAndHelpers DEF HoldsInv
<1>2. \A h \in Helpers : Alive(h)' <=> Alive(h)
  BY <1>1 DEF Alive
<1>3. CASE Connect
  <2>1. core = "none" /\ pc' = pc /\ pc["forward"] = "idle" /\ ~applied' /\ (alone' => ~HelperIsAlive)
    BY <1>3 DEF Connect, threadVars
  <2>2. alone' => \A h \in Helpers : ~Alive(h)'
    BY <1>2, <2>1 DEF HelperIsAlive
  <2> QED
    BY <2>1, <2>2 DEF ServesInv, Settled
<1>4. CASE CoreEnds
  BY <1>1, <1>4, ServesStill DEF CoreEnds, threadVars, helperVars, guiVars, Settled
<1>5. CASE Config
  <2>1. /\ core # "none" /\ ~configured /\ pc'["forward"] = "lockState"
        /\ UNCHANGED <<alone, conn, client, target, core, outbox>>
    BY <1>5 DEF Config, Shape, helperVars, guiVars
  <2> QED
    BY <1>1, <2>1, ServesStill DEF Settled
<1>6. CASE ApplyOK
  <2>1. /\ pc["forward"] = "ok" /\ pc'["forward"] = "idle"
        /\ UNCHANGED <<alone, conn, client, target, core, configured, outbox>>
    BY <1>6, StepIs DEF ApplyOK, helperVars, guiVars
  <2> QED
    BY <1>1, <2>1, ServesStill DEF Settled
<1>7. CASE ApplyFails \/ Drained
  <2>1. /\ pc'["forward"] = "release"
        /\ UNCHANGED <<alone, conn, client, target, core, configured, outbox>>
    BY <1>7, BeginIs DEF ApplyFails, Drained, TeardownOf, helperVars, guiVars, sessionVars
  <2> QED
    BY <1>1, <2>1, ServesStill DEF Settled
<1>8. CASE ApplyError
  <2>1. /\ pc["forward"] = "error" /\ pc'["forward"] = "idle" /\ core' = "ended"
        /\ UNCHANGED <<alone, conn, client, target, configured, applied, outbox>>
    BY <1>8, StepIs DEF ApplyError, helperVars, guiVars
  <2>2. ~applied /\ core # "none"
    BY <2>1, LabelSets DEF Control
  <2> QED
    BY <1>1, <2>1, <2>2, ServesStill DEF Settled
<1>9. CASE Reset
  <2>1. pc'["forward"] = "idle" /\ core' = "none" /\ ~applied' /\ UNCHANGED alone
    BY <1>9, StepIs DEF Reset, guiVars
  <2> QED
    BY <1>1, <1>2, <2>1 DEF ServesInv, Settled
<1>10. CASE Disconnect \/ Shutdown \/ GuiEnds
  <2>1. ~alone'
    BY <1>10 DEF Disconnect, Shutdown, GuiEnds
  <2> QED
    BY <2>1 DEF ServesInv
<1>11. CASE StopCore
  <2>1. pc["user"] = "stop" /\ UNCHANGED alone
    BY <1>11, StepIs DEF StopCore, guiVars
  <2>2. ~alone
    BY <2>1 DEF Control
  <2> QED
    BY <2>1, <2>2 DEF ServesInv
<1>12. CASE Start
  BY <1>1, <1>12, ServesStill DEF Start, threadVars, helperVars, sessionVars, Settled
<1>13. CASE CleanStale
  BY <1>1, <1>13, ServesStill DEF CleanStale, threadVars, helperVars, sessionVars, Settled
<1> QED
  BY <1>3, <1>4, <1>5, <1>6, <1>7, <1>8, <1>9, <1>10, <1>11, <1>12, <1>13 DEF SessionStep

LEMMA ServesThreads ==
    ASSUME Shape, Control, ClientInv, HoldsInv, ServesInv, platform = "helper", NEW t \in AppThreads, WindowsGUI(t)
    PROVE  ServesInv'
<1> USE Names
<1>1. Moves(t)
  BY WindowsGUIMoves DEF WindowsGUI
<1>2. UNCHANGED <<core, configured, applied, alone, wg, rule>> /\ \A h \in Helpers : next'[h] = next[h]
  BY <1>1, GuiAndHelpers DEF Moves
<1>3. SUFFICES ASSUME alone PROVE ServesInv'
  BY <1>2 DEF ServesInv
<1>4. pc["user"] = "idle" /\ t = "forward"
  <2>1. pc["user"] = "idle"
    BY <1>3 DEF Control
  <2>2. t # "user"
    BY <1>1, <2>1, LabelSets DEF Moves
  <2> QED
    BY <2>1, <2>2 DEF AppThreads
<1>5. ASSUME \A h \in Helpers : pc'[h] = pc[h], pc'["forward"] \notin {"lockState", "uac", "request", "await", "idle", "ok"}
      PROVE  ServesInv'
  <2>1. \A h \in Helpers : Alive(h)' <=> Alive(h)
    BY <1>5 DEF Alive
  <2>2. ~Settled'
    BY <1>5 DEF Settled
  <2> QED
    BY <1>2, <1>3, <1>5, <2>1, <2>2 DEF ServesInv
<1>6. CASE GetClient(t)
  <2>1. pc["forward"] = "lockState" /\ (client # NoHelper \/ pc'["forward"] = "uac") /\ \A h \in Helpers : pc'[h] = pc[h]
    BY <1>4, <1>6, StepIs DEF GetClient
  <2>2. client = NoHelper
    BY <2>1 DEF ClientInv
  <2>3. core # "none"
    BY <2>1, HelperLabels
  <2>4. \A h \in Helpers : ~Alive(h)'
    BY <1>3, <2>1, <2>3 DEF ServesInv, Alive
  <2> QED
    BY <2>1, <2>2, <2>4 DEF ServesInv, Settled
<1>7. CASE HelperConnects(t)
  <2>1. PICK h \in NextHelper : /\ pc["forward"] = "uac" /\ pc' = [pc EXCEPT !["forward"] = "request", ![h] = "ready"]
                                /\ client' = h /\ target' = [target EXCEPT !["forward"] = h]
                                /\ conn' = [conn EXCEPT ![h] = "open"] /\ UNCHANGED <<inbox, outbox>>
    BY <1>4, <1>7 DEF HelperConnects
  <2>2. h \in Helpers /\ pc[h] = "unused"
    BY <2>1 DEF NextHelper
  <2>3. /\ pc'["forward"] = "request" /\ pc'[h] = "ready" /\ target'["forward"] = h /\ conn'[h] = "open"
        /\ \A k \in Helpers \ {h} : pc'[k] = pc[k]
    BY <2>1, <2>2 DEF Shape
  <2>4. core # "none" /\ configured
    BY <2>1, HelperLabels
  <2>5. \A k \in Helpers \ {h} : ~Alive(k)'
    BY <1>3, <2>1, <2>3, <2>4 DEF ServesInv, Alive
  <2>6. wg[h] = NoWG /\ inbox[h] = <<>> /\ outbox[h] = <<>>
    BY <2>2 DEF HoldsInv
  <2>7. ~wg'[h].protected
    BY <1>2, <2>6 DEF NoWG
  <2>8. Serving(client)'
    BY <2>1, <2>2, <2>3, <2>6 DEF Serving, Settled
  <2> QED
    BY <1>2, <2>2, <2>3, <2>4, <2>5, <2>7, <2>8 DEF ServesInv
<1>8. CASE NotElevated(t)
  BY <1>4, <1>5, <1>8, StepIs DEF NotElevated
<1>9. CASE RequestApply(t)
  <2>1. pc["forward"] = "request" /\ \A h \in Helpers : pc'[h] = pc[h]
    BY <1>4, <1>9, StepIs DEF RequestApply, Send
  <2>2. /\ Serving(client) /\ target["forward"] = client /\ client \in Helpers /\ conn[client] = "open" /\ pc[client] = "ready"
        /\ inbox[client] = <<>> /\ outbox[client] = <<>>
    BY <1>3, <2>1 DEF ServesInv, Serving
  <2>3. Alive(client)
    BY <2>2 DEF Alive
  <2>4. /\ pc'["forward"] = "await" /\ inbox' = [inbox EXCEPT ![client] = Append(@, "apply")]
        /\ UNCHANGED <<client, conn, target, outbox>>
    BY <1>4, <1>9, <2>2, <2>3, StepIs DEF RequestApply, Send
  <2>5. inbox'[client] = <<"apply">>
    BY <2>2, <2>4, OneMessage DEF Shape
  <2>6. Serving(client)'
    BY <2>1, <2>2, <2>4, <2>5 DEF Serving, Working, Settled
  <2>7. \A h \in Helpers : Alive(h)' <=> Alive(h)
    BY <2>1 DEF Alive
  <2>8. core # "none" /\ configured
    BY <2>1, HelperLabels
  <2> QED
    BY <1>2, <1>3, <2>4, <2>6, <2>7, <2>8 DEF ServesInv
<1>10. CASE AwaitApply(t)
  <2>1. pc["forward"] = "await" /\ \A h \in Helpers : pc'[h] = pc[h]
    BY <1>4, <1>10, StepIs DEF AwaitApply, Receive, ReceiveFails
  <2>2. /\ target["forward"] = client /\ client \in Helpers /\ conn[client] = "open" /\ Working(client)
    BY <1>3, <2>1 DEF ServesInv, Serving
  <2>3. CASE pc'["forward"] = "failed"
    BY <1>5, <2>1, <2>3
  <2>4. ASSUME pc'["forward"] # "failed" PROVE ServesInv'
    <3>1. /\ pc'["forward"] = "ok" /\ outbox[client] # <<>> /\ Head(outbox[client]) = "ok"
          /\ UNCHANGED <<client, conn, inbox>>
      BY <1>4, <1>10, <2>2, <2>4, StepIs DEF AwaitApply, Receive, ReceiveFails
    <3>2. pc[client] = "ready" /\ inbox[client] = <<>> /\ wg[client].dev
      BY <2>2, <3>1, OneMessage DEF Working
    <3>3. Serving(client)'
      BY <1>2, <2>1, <2>2, <3>1, <3>2 DEF Serving
    <3>4. \A h \in Helpers : Alive(h)' <=> Alive(h)
      BY <2>1 DEF Alive
    <3>5. core # "none" /\ configured
      BY <2>1, HelperLabels
    <3> QED
      BY <1>2, <1>3, <3>1, <3>3, <3>4, <3>5 DEF ServesInv
  <2> QED
    BY <2>3, <2>4
<1>11. CASE TakeClient(t)
  <2>1. pc["forward"] = "release" /\ (pc'["forward"] = "askDown" \/ pc'["forward"] = next["forward"])
        /\ \A h \in Helpers : pc'[h] = pc[h]
    BY <1>4, <1>11, StepIs, ReturnIs DEF TakeClient
  <2> QED
    BY <1>5, <2>1, HelperLabels
<1>12. CASE RequestDown(t) \/ AwaitDown(t)
  <2>1. pc'["forward"] \in {"awaitDown", "closeConn"} /\ \A h \in Helpers : pc'[h] = pc[h]
    BY <1>4, <1>12, StepIs DEF RequestDown, AwaitDown, Send, Receive, ReceiveFails
  <2> QED
    BY <1>5, <2>1
<1>13. CASE CloseConn(t)
  <2>1. pc["forward"] = "closeConn" /\ pc'["forward"] = next["forward"] /\ \A h \in Helpers : pc'[h] = pc[h]
    BY <1>4, <1>13, ReturnIs DEF CloseConn
  <2> QED
    BY <1>5, <2>1, HelperLabels
<1> QED
  BY <1>6, <1>7, <1>8, <1>9, <1>10, <1>11, <1>12, <1>13 DEF WindowsGUI

(* A step of the helper brings the apply that was asked for on its way to the answer. *)
LEMMA WorkGoesOn ==
    ASSUME Shape, HoldsInv, NEW h \in Helpers, WindowsHelperProcess(h), conn[h] = "open", Working(h)
    PROVE  Working(h)'
<1> USE Names
<1>1. CASE ReadCommand(h)
  <2>1. pc[h] = "ready" /\ inbox[h] # <<>> /\ pc'[h] = "takeDown" /\ inbox'[h] = Tail(inbox[h]) /\ outbox'[h] = outbox[h]
        /\ next'[h] = IF Head(inbox[h]) = "apply" THEN "create" ELSE "leave"
    BY <1>1, HelperSteps
  <2>2. inbox[h] = <<"apply">> /\ outbox[h] = <<>>
    BY <2>1 DEF Working
  <2> QED
    BY <2>1, <2>2, OneMessage DEF Working
<1>2. ~ReadFails(h)
  BY HelperSteps
<1>3. CASE Answer(h)
  <2>1. /\ pc'[h] = "ready" /\ inbox'[h] = inbox[h] /\ wg' = wg
        /\ \/ pc[h] = "ok" /\ outbox'[h] = Append(outbox[h], "ok")
           \/ pc[h] = "failed" /\ outbox'[h] = Append(outbox[h], "error")
    BY <1>3, HelperSteps
  <2>2. inbox[h] = <<>> /\ outbox[h] = <<>> /\ (pc[h] = "ok" => wg[h].dev)
    BY <2>1 DEF Working
  <2> QED
    BY <2>1, <2>2, OneMessage DEF Working
<1>4. ~AnswerDown(h)
  BY HelperSteps DEF Working
<1>5. ASSUME Windows(h) PROVE Working(h)'
  <2>1. pc[h] \in {"takeDown", "unprotect", "create", "routes", "protect"} /\ inbox'[h] = inbox[h] /\ outbox'[h] = outbox[h]
    BY <1>5, WindowsSteps
  <2>2. /\ inbox'[h] = <<>> /\ outbox'[h] = <<>>
        /\ pc[h] \in {"takeDown", "unprotect"} => next[h] = "create"
        /\ pc[h] \in {"routes", "protect"} => wg[h].dev
    BY <2>1 DEF Working
  <2>3. \/ pc'[h] = "unprotect" /\ next'[h] = "create"
        \/ pc'[h] \in {"create", "failed"}
        \/ pc'[h] \in {"routes", "protect", "ok"} /\ wg'[h].dev
    BY <1>5, <2>1, <2>2, WindowsSteps DEF Fields
  <2> QED
    BY <2>2, <2>3 DEF Working
<1> QED
  BY <1>1, <1>2, <1>3, <1>4, <1>5 DEF WindowsHelperProcess

LEMMA ServesHelpers ==
    ASSUME Shape, HoldsInv, ServesInv, NEW h \in Helpers, WindowsHelperProcess(h) \/ KillHelper(h)
    PROVE  ServesInv'
<1> USE Names
<1>1. CASE KillHelper(h)
  BY <1>1 DEF ServesInv, KillHelper
<1>2. ASSUME WindowsHelperProcess(h) PROVE ServesInv'
  <2>1. Apart
    BY <1>2, HelpersApart DEF WindowsHelperProcess, Windows
  <2>2. Others(h) /\ UNCHANGED <<conn, client>> /\ Alive(h)
    BY <1>2, HelperSteps, WindowsSteps DEF WindowsHelperProcess, Alive
  <2>3. UNCHANGED target
    BY <1>2 DEF WindowsHelperProcess, ReadCommand, ReadFails, Answer, AnswerDown, Windows, TakeDown, Unprotect,
                CreateDevice, SetUpRoutes, Protect, helperVars
  <2>4. SUFFICES ASSUME alone PROVE ServesInv'
    BY <2>1 DEF Apart, ServesInv
  <2>5. /\ \A k \in Helpers : Alive(k) => k = h
        /\ \A k \in Helpers \ {h} : ~Alive(k) /\ ~Alive(k)'
        /\ ~(core # "none" /\ (~configured \/ pc["forward"] \in {"lockState", "uac"}))
    BY <2>2, <2>4 DEF ServesInv, Others, Alive
  <2>6. /\ pc'["forward"] = pc["forward"] /\ UNCHANGED <<core, configured, applied>>
    BY <2>1 DEF Apart
  <2>7. wg'[h].protected => rule'
    <3>1. wg[h].protected => rule
      BY <2>2, <2>4 DEF ServesInv
    <3>2. CASE Windows(h)
      BY <3>1, <3>2, WindowsSteps DEF Fields
    <3>3. CASE ReadCommand(h) \/ ReadFails(h) \/ Answer(h) \/ AnswerDown(h)
      BY <3>1, <3>3, HelperSteps
    <3> QED
      BY <1>2, <3>2, <3>3 DEF WindowsHelperProcess
  <2>8. ASSUME pc["forward"] \in {"request", "await"} \/ Settled PROVE Serving(client)'
    <3>1. Serving(client) /\ client \in Helpers /\ conn[client] = "open"
      BY <2>4, <2>8 DEF ServesInv, Serving
    <3>2. Alive(client)
      BY <2>8, <3>1 DEF Serving, Working, Alive
    <3>3. client = h
      BY <2>5, <3>1, <3>2
    <3>4. ~(pc[h] = "ready" /\ inbox[h] = <<>>)
      BY <1>2, <3>1, <3>3, HelperSteps, WindowsSteps DEF WindowsHelperProcess
    <3>5. pc["forward"] = "await" /\ target["forward"] = h /\ Working(h) /\ ~Settled
      BY <2>8, <3>1, <3>3, <3>4 DEF Serving
    <3>6. Working(h)'
      BY <1>2, <3>1, <3>3, <3>5, WorkGoesOn
    <3>7. ~Settled' /\ pc'["forward"] = "await" /\ target'["forward"] = h /\ client' = h /\ conn'[h] = "open"
      BY <2>2, <2>3, <2>6, <3>1, <3>3, <3>5 DEF Settled
    <3> QED
      BY <3>6, <3>7 DEF Serving
  <2>9. Settled' <=> Settled
    BY <2>6 DEF Settled
  <2> QED
    BY <2>5, <2>6, <2>7, <2>8, <2>9 DEF ServesInv
<1> QED
  BY <1>1, <1>2
-----------------------------------------------------------------------------
(***************************************************************************)
(* All platforms.                                                            *)
(***************************************************************************)
HelperInv == ClientInv /\ HoldsInv /\ AnswersInv /\ ServesInv

TunnelInv ==
    /\ Shape /\ Control
    /\ platform = "linux" => LinuxInv
    /\ platform = "elevated" => ElevatedInv
    /\ platform = "helper" => HelperInv
    /\ platform = "darwin" => DarwinInv

LEMMA TunnelInit == Init => TunnelInv
<1> SUFFICES ASSUME Init PROVE TunnelInv
  OBVIOUS
<1> USE Names
<1>1. NoWG \in WG /\ ~NoWG.dev /\ ~NoWG.routes /\ ~NoWG.protected
  BY DEF NoWG, WG
<1>2. Shape
  BY <1>1, TunnelAssumption DEF Init, Shape
<1>3. /\ pc["forward"] = "idle" /\ pc["user"] = "idle" /\ next["forward"] = "idle"
      /\ \A h \in Helpers : pc[h] = "unused" /\ inbox[h] = <<>> /\ outbox[h] = <<>> /\ wg[h] = NoWG
      /\ wg[App] = NoWG /\ client = NoHelper /\ core = "none" /\ link = {}
      /\ ~rule /\ ~routes /\ ~configured /\ ~applied /\ ~alone
  BY DEF Init
<1>4. Control
  BY <1>2, <1>3, LabelSets DEF Control
<1>5. LinuxInv /\ ElevatedInv
  BY <1>1, <1>3 DEF LinuxInv, ElevatedInv
<1>6. HelperInv
  BY <1>1, <1>3 DEF HelperInv, ClientInv, HoldsInv, AnswersInv, ServesInv
<1>7. DarwinInv
  BY <1>1, <1>3 DEF DarwinInv
<1> QED
  BY <1>2, <1>4, <1>5, <1>6, <1>7 DEF TunnelInv

LEMMA PlatformStays == ASSUME Shape, Control, [Next]_vars PROVE platform' = platform
<1>1. CASE SessionStep
  BY <1>1 DEF SessionStep, Connect, CoreEnds, Config, ApplyOK, ApplyFails, ApplyError, Drained, Reset, Disconnect,
              StopCore, Shutdown, GuiEnds, Start, CleanStale, guiVars
<1>2. ASSUME NEW t \in AppThreads, GuiThread(t) PROVE platform' = platform
  BY <1>2, LinuxMoves, WindowsMoves, WindowsGUIMoves, MacGUIMoves DEF GuiThread, Shape, Moves
<1>3. ASSUME NEW h \in Helpers, HelperProcess(h) \/ KillHelper(h) PROVE platform' = platform
  BY <1>3, HelpersApart DEF HelperProcess, Apart
<1> QED
  BY <1>1, <1>2, <1>3, StepOf DEF vars, guiVars

LEMMA LinuxKept == ASSUME Shape, Control, platform = "linux", LinuxInv, [Next]_vars PROVE LinuxInv'
<1>1. CASE SessionStep
  BY <1>1, LinuxSession
<1>2. ASSUME NEW t \in AppThreads, GuiThread(t) PROVE LinuxInv'
  BY <1>2, LinuxThreads DEF GuiThread
<1>3. ASSUME NEW h \in Helpers, HelperProcess(h) \/ KillHelper(h) PROVE LinuxInv'
  BY <1>3, UnusedRests DEF LinuxInv
<1>4. CASE UNCHANGED vars
  BY <1>4 DEF LinuxInv, Pending, Settled, vars, machineVars, threadVars, helperVars, sessionVars, guiVars
<1> QED
  BY <1>1, <1>2, <1>3, <1>4, StepOf

LEMMA ElevatedKept == ASSUME Shape, Control, platform = "elevated", ElevatedInv, [Next]_vars PROVE ElevatedInv'
<1>1. CASE SessionStep
  BY <1>1, ElevatedSession
<1>2. ASSUME NEW t \in AppThreads, GuiThread(t) PROVE ElevatedInv'
  BY <1>2, ElevatedThreads DEF GuiThread
<1>3. ASSUME NEW h \in Helpers, HelperProcess(h) \/ KillHelper(h) PROVE ElevatedInv'
  BY <1>3, UnusedRests DEF ElevatedInv
<1>4. CASE UNCHANGED vars
  BY <1>4 DEF ElevatedInv, Pending, Settled, vars, machineVars, threadVars, helperVars, sessionVars, guiVars
<1> QED
  BY <1>1, <1>2, <1>3, <1>4, StepOf

LEMMA HelperKept == ASSUME Shape, Control, platform = "helper", HelperInv, [Next]_vars PROVE HelperInv'
<1> USE DEF HelperInv
<1>1. CASE SessionStep
  <2>1. ClientInv' /\ ServesInv'
    BY <1>1, ClientSession, ServesSession
  <2>2. link \subseteq Helpers /\ \A h \in Helpers : pc[h] = "unused" => inbox[h] = <<>> /\ outbox[h] = <<>>
    BY DEF HoldsInv
  <2>3. HoldsInv' /\ AnswersInv'
    BY <1>1, <2>2, SessionAndHelpers, AloneKeeps
  <2> QED
    BY <2>1, <2>3
<1>2. ASSUME NEW t \in AppThreads, GuiThread(t) PROVE HelperInv'
  BY <1>2, ClientThreads, HoldsThreads, ServesThreads DEF GuiThread
<1>3. ASSUME NEW h \in Helpers, HelperProcess(h) \/ KillHelper(h) PROVE HelperInv'
  BY <1>3, ClientHelpers, HelpersHold, KillHolds, ServesHelpers DEF HelperProcess
<1>4. CASE UNCHANGED vars
  <2>1. UNCHANGED <<link, routes, rule, refused, wg, pc, next, client, conn, target, inbox, outbox,
                    core, configured, applied, alone, lost>>
    BY <1>4 DEF vars, machineVars, threadVars, helperVars, sessionVars, guiVars
  <2>2. ClientInv' /\ HoldsInv' /\ AnswersInv'
    BY <2>1 DEF ClientInv, HoldsInv, AnswersInv, Alive
  <2>3. ServesInv'
    BY <2>1, ServesStill DEF Settled
  <2> QED
    BY <2>2, <2>3
<1> QED
  BY <1>1, <1>2, <1>3, <1>4, StepOf

LEMMA DarwinKept == ASSUME Shape, Control, platform = "darwin", DarwinInv, [Next]_vars PROVE DarwinInv'
<1>1. CASE SessionStep
  BY <1>1, DarwinSession
<1>2. ASSUME NEW t \in AppThreads, GuiThread(t) PROVE DarwinInv'
  BY <1>2, DarwinThreads DEF GuiThread
<1>3. ASSUME NEW h \in Helpers, HelperProcess(h) \/ KillHelper(h) PROVE DarwinInv'
  BY <1>3, DarwinHelpers DEF HelperProcess
<1>4. CASE UNCHANGED vars
  BY <1>4 DEF DarwinInv, Settled, vars, machineVars, threadVars, helperVars, sessionVars, guiVars
<1> QED
  BY <1>1, <1>2, <1>3, <1>4, StepOf

LEMMA TunnelStep == TunnelInv /\ [Next]_vars => TunnelInv'
BY ShapeKept, ControlKept, PlatformStays, LinuxKept, ElevatedKept, HelperKept, DarwinKept DEF TunnelInv

(* Who is left when everything is quiet. *)
LEMMA QuietIsClean == TunnelInv => NothingIsLeft
<1> SUFFICES ASSUME TunnelInv, core = "none", ~HelperIsAlive, \A t \in AppThreads : pc[t] = "idle", ~lost, ~refused
             PROVE  ~Something
  BY DEF NothingIsLeft, Quiet
<1> USE Names
<1>1. \A h \in Helpers : pc[h] \in {"unused", "gone"}
  BY DEF HelperIsAlive, Alive
<1>2. pc["forward"] = "idle"
  OBVIOUS
<1>3. CASE platform = "linux"
  BY <1>3 DEF TunnelInv, LinuxInv, Pending, Something
<1>4. CASE platform = "elevated"
  BY <1>4 DEF TunnelInv, ElevatedInv, Pending, Something
<1>5. CASE platform = "helper"
  <2>1. HoldsInv /\ AnswersInv
    BY <1>5 DEF TunnelInv, HelperInv
  <2>2. link \subseteq Helpers /\ \A h \in Helpers : h \notin link /\ ~wg[h].routes /\ ~Alive(h)
    BY <1>1, <2>1 DEF HoldsInv, Alive
  <2> QED
    BY <2>1, <2>2 DEF AnswersInv, Something
<1>6. CASE platform = "darwin"
  <2>1. DarwinInv
    BY <1>6 DEF TunnelInv
  <2>2. link \subseteq Processes /\ App \notin link /\ \A h \in Helpers : h \notin link
    BY <1>1, <1>2, <2>1 DEF DarwinInv
  <2>3. link = {}
    BY <2>2 DEF Processes
  <2>4. ~routes /\ ~rule
    BY <1>1, <2>1 DEF DarwinInv
  <2> QED
    BY <2>3, <2>4 DEF Something
<1> QED
  BY <1>3, <1>4, <1>5, <1>6 DEF TunnelInv, Shape

LEMMA SettledIsUp == TunnelInv => TunnelIsComplete
<1> SUFFICES ASSUME TunnelInv, applied, alone, pc["forward"] = "idle"
             PROVE  \E p \in link : (platform = "linux" \/ wg[p].dev) /\ (wg[p].protected => rule)
  BY DEF TunnelIsComplete
<1>1. Settled
  BY DEF Settled
<1>2. CASE platform = "linux"
  BY <1>1, <1>2 DEF TunnelInv, LinuxInv
<1>3. CASE platform = "elevated"
  BY <1>1, <1>3 DEF TunnelInv, ElevatedInv
<1>4. CASE platform = "helper"
  <2>1. HoldsInv /\ ServesInv
    BY <1>4 DEF TunnelInv, HelperInv
  <2>2. client \in Helpers /\ pc[client] = "ready" /\ wg[client].dev
    BY <1>1, <2>1 DEF ServesInv, Serving
  <2>3. client \in link /\ Alive(client)
    BY <2>1, <2>2 DEF HoldsInv, Alive
  <2> QED
    BY <2>1, <2>2, <2>3 DEF ServesInv
<1>5. CASE platform = "darwin"
  BY <1>1, <1>5 DEF TunnelInv, DarwinInv
<1> QED
  BY <1>2, <1>3, <1>4, <1>5 DEF TunnelInv, Shape

LEMMA ForgottenClient == TunnelInv => NoClientLeft
<1> SUFFICES ASSUME TunnelInv, core = "none" PROVE client = NoHelper
  BY DEF NoClientLeft
<1> QED
  BY DEF TunnelInv, Shape, LinuxInv, ElevatedInv, HelperInv, ClientInv, DarwinInv

(* When no session is left, nobody sets up or takes down and no helper runs, there is no        *)
(* interface, no exclude route and no IPv6 rule (WG.Apply and WG.Teardown of backend/wg.go,      *)
(* wg_elevation_windows.go and wg_darwin.go), whatever was killed or refused on the way, as long *)
(* as no process died with what it had set up and the firewall took the last command.            *)
THEOREM TheMachineIsRestored == Spec => []NothingIsLeft
<1> QED
  BY TunnelInit, TunnelStep, QuietIsClean, PTL DEF Spec

(* The session that Bridge.forwardEvents (backend/bridge.go) calls applied, and that nobody      *)
(* disturbed, has its interface up: in the GUI process, or in the one helper it launched, whose   *)
(* answer ok is the answer to its own request.                                                     *)
THEOREM AppliedTunnelsAreUp == Spec => []TunnelIsComplete
<1> QED
  BY TunnelInit, TunnelStep, SettledIsUp, PTL DEF Spec

(* The last Teardown of Bridge.forwardEvents took the connection to the helper out of             *)
(* windowsWGHelperState (w.helperConn on macOS): the next session cannot meet it.                  *)
THEOREM SessionsForgetTheirClient == Spec => []NoClientLeft
<1> QED
  BY TunnelInit, TunnelStep, ForgottenClient, PTL DEF Spec
-----------------------------------------------------------------------------
(***************************************************************************)
(* Types.                                                                    *)
(***************************************************************************)
(* What TypeOK adds to Shape. *)
Rest ==
    /\ platform \in Platforms /\ link \subseteq Processes /\ refused \in BOOLEAN
    /\ client \in Helpers \cup {NoHelper}
    /\ conn \in [Helpers -> {"none", "open", "closed"}]
    /\ target \in [AppThreads -> Helpers \cup {NoHelper}]
    /\ core \in {"none", "running", "ended"}
    /\ sessions \in 0..MaxSessions /\ runs \in 1..MaxRuns[platform] /\ stops \in 0..MaxSessions

Types == Shape /\ Rest

LEMMA SessionTypes ==
    ASSUME Types, SessionStep
    PROVE  Rest'
<1> USE Names, TunnelAssumption DEF Types, Rest, machineVars, threadVars, helperVars, sessionVars, guiVars
<1>1. CASE Connect
  BY <1>1 DEF Connect
<1>2. CASE CoreEnds
  BY <1>2 DEF CoreEnds
<1>3. CASE Config
  BY <1>3 DEF Config
<1>4. CASE ApplyOK
  BY <1>4 DEF ApplyOK
<1>5. CASE ApplyFails
  BY <1>5 DEF ApplyFails
<1>6. CASE ApplyError
  BY <1>6 DEF ApplyError
<1>7. CASE Drained
  BY <1>7 DEF Drained
<1>8. CASE Reset
  BY <1>8 DEF Reset
<1>9. CASE Disconnect
  BY <1>9 DEF Disconnect
<1>10. CASE StopCore
  BY <1>10 DEF StopCore
<1>11. CASE Shutdown
  BY <1>11 DEF Shutdown
<1>12. CASE GuiEnds
  BY <1>12 DEF GuiEnds
<1>13. CASE Start
  BY <1>13 DEF Start
<1>14. CASE CleanStale
  BY <1>14 DEF CleanStale
<1> QED
  BY <1>1, <1>2, <1>3, <1>4, <1>5, <1>6, <1>7, <1>8, <1>9, <1>10, <1>11, <1>12, <1>13, <1>14 DEF SessionStep

LEMMA ThreadTypes ==
    ASSUME Types, NEW t \in AppThreads, Linux(t) \/ WindowsGUI(t) \/ MacGUI(t)
    PROVE  Rest'
<1> USE Names, TunnelAssumption DEF Types, Rest, machineVars, threadVars, helperVars, sessionVars, guiVars
<1>1. CASE TakeRoutes(t)
  BY <1>1 DEF TakeRoutes
<1>2. CASE DeleteRoutes(t)
  BY <1>2 DEF DeleteRoutes
<1>3. CASE DeleteLink(t)
  BY <1>3 DEF DeleteLink
<1>4. CASE AddLink(t)
  BY <1>4 DEF AddLink
<1>5. CASE SetUpLink(t)
  BY <1>5 DEF SetUpLink
<1>6. CASE AddRoutes(t)
  BY <1>6 DEF AddRoutes
<1>7. CASE KeepRoutes(t)
  BY <1>7 DEF KeepRoutes
<1>8. CASE GetClient(t)
  BY <1>8 DEF GetClient
<1>9. CASE HelperConnects(t)
  BY <1>9 DEF HelperConnects, NextHelper
<1>10. CASE NotElevated(t)
  BY <1>10 DEF NotElevated
<1>11. CASE RequestApply(t)
  BY <1>11 DEF RequestApply, Send
<1>12. CASE AwaitApply(t)
  BY <1>12 DEF AwaitApply, Receive, ReceiveFails
<1>13. CASE TakeClient(t)
  BY <1>13 DEF TakeClient
<1>14. CASE RequestDown(t)
  BY <1>14 DEF RequestDown, Send
<1>15. CASE AwaitDown(t)
  BY <1>15 DEF AwaitDown, Receive, ReceiveFails
<1>16. CASE CloseConn(t)
  BY <1>16 DEF CloseConn, Close
<1>17. CASE StopDevice(t)
  BY <1>17 DEF StopDevice
<1>18. CASE SayDown(t)
  BY <1>18 DEF SayDown
<1>19. CASE HangUp(t)
  BY <1>19 DEF HangUp
<1>20. CASE AskPassword(t)
  BY <1>20 DEF AskPassword, NextHelper
<1>21. CASE ReceiveFD(t)
  BY <1>21 DEF ReceiveFD
<1>22. CASE WrapDevice(t)
  BY <1>22 DEF WrapDevice
<1>23. CASE Keep(t)
  BY <1>23 DEF Keep
<1> QED
  BY <1>1, <1>2, <1>3, <1>4, <1>5, <1>6, <1>7, <1>8, <1>9, <1>10, <1>11, <1>12, <1>13, <1>14, <1>15,
     <1>16, <1>17, <1>18, <1>19, <1>20, <1>21, <1>22, <1>23 DEF Linux, WindowsGUI, MacGUI

LEMMA WindowsTypes ==
    ASSUME Types, NEW t \in Threads, Windows(t)
    PROVE  Rest'
<1> USE Names, TunnelAssumption DEF Types, Rest, machineVars, threadVars, helperVars, sessionVars, guiVars
<1>1. CASE TakeDown(t)
  BY <1>1, ProcessIs DEF TakeDown
<1>2. CASE Unprotect(t)
  BY <1>2 DEF Unprotect
<1>3. CASE CreateDevice(t)
  BY <1>3, ProcessIs DEF CreateDevice
<1>4. CASE SetUpRoutes(t)
  BY <1>4 DEF SetUpRoutes
<1>5. CASE Protect(t)
  BY <1>5 DEF Protect
<1> QED
  BY <1>1, <1>2, <1>3, <1>4, <1>5 DEF Windows

LEMMA HelperTypes ==
    ASSUME Types, NEW h \in Helpers,
           MacHelperProcess(h) \/ ReadCommand(h) \/ ReadFails(h) \/ Answer(h) \/ AnswerDown(h) \/ KillHelper(h)
    PROVE  Rest'
<1> USE Names, TunnelAssumption DEF Types, Rest, machineVars, threadVars, helperVars, sessionVars, guiVars
<1>1. CASE BuildUtun(h)
  BY <1>1 DEF BuildUtun
<1>2. CASE MacRoutes(h)
  BY <1>2 DEF MacRoutes
<1>3. CASE SendFD(h)
  BY <1>3 DEF SendFD
<1>4. CASE LetGo(h)
  BY <1>4 DEF LetGo
<1>5. CASE CleanUp(h)
  BY <1>5 DEF CleanUp
<1>6. CASE ReadCommand(h)
  BY <1>6 DEF ReadCommand
<1>7. CASE ReadFails(h)
  BY <1>7 DEF ReadFails
<1>8. CASE Answer(h)
  BY <1>8 DEF Answer
<1>9. CASE AnswerDown(h)
  BY <1>9 DEF AnswerDown
<1>10. CASE KillHelper(h)
  BY <1>10 DEF KillHelper
<1> QED
  BY <1>1, <1>2, <1>3, <1>4, <1>5, <1>6, <1>7, <1>8, <1>9, <1>10 DEF MacHelperProcess

(* Every variable keeps its type (backend/wg.go, wg_elevation_windows.go, wg_darwin.go,          *)
(* bridge.go); the session a Disconnect remembers is one of those there were.                      *)
THEOREM TypeCorrect == Spec => []TypeOK
<1>1. Init => Types
  <2> SUFFICES ASSUME Init PROVE Types
    OBVIOUS
  <2>1. Shape
    BY TunnelInit DEF TunnelInv
  <2>2. MaxRuns[platform] \in Nat \ {0} /\ 1 \in 1..MaxRuns[platform] /\ 0 \in 0..MaxSessions
    BY TunnelAssumption DEF Init
  <2>3. /\ platform \in Platforms /\ link = {} /\ refused = FALSE /\ client = NoHelper /\ core = "none"
        /\ sessions = 0 /\ runs = 1 /\ stops = 0
    BY DEF Init
  <2>4. conn \in [Helpers -> {"none", "open", "closed"}] /\ target \in [AppThreads -> Helpers \cup {NoHelper}]
    BY DEF Init
  <2>5. Rest
    BY <2>2, <2>3, <2>4 DEF Rest
  <2> QED
    BY <2>1, <2>5 DEF Types
<1>2. Types /\ [Next]_vars => Types'
  <2> SUFFICES ASSUME Types, [Next]_vars PROVE Types'
    OBVIOUS
  <2>1. Shape'
    BY ShapeKept DEF Types
  <2>2. CASE SessionStep
    BY <2>1, <2>2, SessionTypes DEF Types
  <2>3. ASSUME NEW t \in AppThreads, GuiThread(t) PROVE Types'
    <3>1. Linux(t) \/ Windows(t) \/ WindowsGUI(t) \/ MacGUI(t)
      BY <2>3 DEF GuiThread, Types, Shape
    <3> QED
      BY <2>1, <3>1, Names, ThreadTypes, WindowsTypes DEF Types
  <2>4. ASSUME NEW h \in Helpers, HelperProcess(h) \/ KillHelper(h) PROVE Types'
    <3>1. Rest'
      BY <2>4, Names, HelperTypes, WindowsTypes DEF HelperProcess, WindowsHelperProcess
    <3> QED
      BY <2>1, <3>1 DEF Types
  <2>5. CASE UNCHANGED vars
    BY <2>1, <2>5 DEF Types, Rest, vars, machineVars, helperVars, sessionVars, guiVars
  <2> QED
    BY <2>2, <2>3, <2>4, <2>5, StepOf
<1>3. Types => TypeOK
  BY DEF Types, Shape, Rest, TypeOK
<1> QED
  BY <1>1, <1>2, <1>3, PTL DEF Spec
=============================================================================
