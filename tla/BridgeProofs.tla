----------------------------- MODULE BridgeProofs -----------------------------
(***************************************************************************)
(* Proofs about Bridge for every number of Connect calls, every set of       *)
(* Disconnect goroutines and every channel capacity.                         *)
(*                                                                           *)
(* The safety properties are not inductive: that two Cores never run needs   *)
(* to know which goroutine is responsible for the Core that runs.            *)
(* BridgeInv says so: while bridge.Connect is between its two critical        *)
(* sections it owns the running flag, and afterwards forwardEvents of         *)
(* exactly the session in b.core owns it.                                     *)
(*                                                                           *)
(* The second part is about what the frontend is told.  EventInv ties the     *)
(* words told to a session to its event channel, to what its forwardEvents    *)
(* has done and to the two flags of the Bridge.                               *)
(***************************************************************************)
EXTENDS Bridge, TLAPS, SequenceTheorems

(* Emission keeps the channel a sequence of events within its capacity. *)
LEMMA EmitType ==
    ASSUME NEW s \in Sessions, NEW e \in Events, Emit(s, e),
           queue \in [Sessions -> Seq(Events)],
           \A t \in Sessions : Len(queue[t]) <= QueueCap
    PROVE  /\ queue' \in [Sessions -> Seq(Events)]
           /\ \A t \in Sessions : Len(queue'[t]) <= QueueCap
<1>1. PICK q \in Emitted(queue[s], e) : queue' = [queue EXCEPT ![s] = q]
  BY DEF Emit
<1>2. q \in Seq(Events) /\ Len(q) <= QueueCap
  <2>1. queue[s] \in Seq(Events) /\ Len(queue[s]) <= QueueCap
    OBVIOUS
  <2>2. CASE q = Append(queue[s], e) /\ Len(queue[s]) < QueueCap
    BY <2>1, <2>2, ConstAssumption
  <2>3. CASE q = Append(Tail(queue[s]), e) /\ queue[s] # <<>>
    <3>1. Tail(queue[s]) \in Seq(Events) /\ Len(Tail(queue[s])) = Len(queue[s]) - 1
      BY <2>1, <2>3
    <3>2. QED BY <2>1, <2>3, <3>1, ConstAssumption
  <2>4. CASE q = queue[s]
    BY <2>1, <2>4
  <2>5. QED BY <1>1, <2>2, <2>3, <2>4 DEF Emitted
<1>3. QED BY <1>1, <1>2

(* The state predicates hold when the application starts. *)
LEMMA InitTypeOK == Init => TypeOK
<1> SUFFICES ASSUME Init PROVE TypeOK
  OBVIOUS
<1>1. /\ queue \in [Sessions -> Seq(Events)]
      /\ \A s \in Sessions : Len(queue[s]) <= QueueCap
      /\ told \in [Sessions -> Seq({"connecting", "connected", "disconnected"})]
  BY ConstAssumption DEF Init
<1>2. /\ dpc \in [Callers -> {"idle", "read", "teardown", "stop"}]
      /\ dcore \in [Callers -> 0..MaxCalls]
  BY ConstAssumption DEF Init
<1>3. /\ fpc \in [Sessions -> ForwardPhases] /\ core \in [Sessions -> CorePhases]
      /\ outcome \in [Sessions -> {"none", "ok", "error"}]
  BY DEF Init, ForwardPhases, CorePhases
<1>4. /\ cancelled \in BOOLEAN /\ running \in BOOLEAN /\ wgApplied \in BOOLEAN /\ published \in BOOLEAN
      /\ stopped \in [Sessions -> BOOLEAN] /\ configSent \in [Sessions -> BOOLEAN]
      /\ traffic \in [Sessions -> BOOLEAN] /\ pendingStop \in [Sessions -> BOOLEAN]
  BY DEF Init
<1>5. call \in 0..MaxCalls /\ bcore \in 0..MaxCalls /\ tunnel \in 0..MaxCalls
  BY ConstAssumption DEF Init
<1>6. cpc \in {"idle", "preflight", "enter", "start", "install"} /\ proc \in {"running", "torn", "exited"}
  BY DEF Init
<1>7. QED BY <1>1, <1>2, <1>3, <1>4, <1>5, <1>6, Zenon DEF TypeOK

LEMMA InitBridgeInv == Init => BridgeInv
BY ConstAssumption DEF Init, BridgeInv, OpeningInv, CoreHasOwner, ForwarderInv, RunningIsExact,
      TunnelHasKeeper, Opening, Forwarding, Holding, Sessions
-----------------------------------------------------------------------------
(* The goroutine of App.Connect keeps the types. *)
LEMMA ConnectStepType ==
    ASSUME TypeOK, ConnectStep
    PROVE  TypeOK'
<1> USE ConstAssumption DEF TypeOK, Sessions, CorePhases, ForwardPhases,
        appVars, bridgeVars, coreVars, fwdVars, discVars
<1>1. CASE Preflight /\ UNCHANGED proc
  BY <1>1 DEF Preflight, ConnectReturns
<1>2. CASE BridgeEnter /\ UNCHANGED proc
  BY <1>2 DEF BridgeEnter, ConnectReturns
<1>3. CASE StartFail /\ UNCHANGED proc
  BY <1>3 DEF StartFail, ConnectReturns
<1>4. CASE StartOK /\ UNCHANGED proc
  <2>1. PICK q : queue' = [queue EXCEPT ![call] = q]
    BY <1>4 DEF StartOK, Emit
  <2>2. queue' \in [Sessions -> Seq(Events)] /\ \A s \in Sessions : Len(queue'[s]) <= QueueCap
    <3>1. CASE call \in Sessions
      BY <1>4, <3>1, EmitType DEF StartOK, Events
    <3>2. CASE call \notin Sessions
      BY <2>1, <3>2
    <3>3. QED BY <3>1, <3>2
  <2>3. QED BY <1>4, <2>2 DEF StartOK
<1>5. CASE Install /\ UNCHANGED proc
  BY <1>5 DEF Install, ConnectReturns
<1>6. QED BY <1>1, <1>2, <1>3, <1>4, <1>5 DEF ConnectStep

(* The goroutines of a Core keep the types. *)
LEMMA CoreStepType ==
    ASSUME TypeOK, NEW s \in Sessions, CoreStep(s)
    PROVE  TypeOK'
<1> USE ConstAssumption DEF TypeOK, Sessions, CorePhases, ForwardPhases,
        appVars, bridgeVars, coreVars, fwdVars, discVars
<1>1. CASE EmitConfig(s) /\ UNCHANGED proc
  BY <1>1, EmitType DEF EmitConfig, Events
<1>2. CASE EmitStats(s) /\ UNCHANGED proc
  BY <1>2, EmitType DEF EmitStats, Events
<1>3. CASE EmitOther(s) /\ UNCHANGED proc
  BY <1>3, EmitType DEF EmitOther, Events
<1>4. CASE CarryTraffic(s) /\ UNCHANGED proc
  BY <1>4 DEF CarryTraffic
<1>5. CASE CoreExit(s) /\ UNCHANGED proc
  BY <1>5 DEF CoreExit
<1>6. CASE CoreClose(s) /\ UNCHANGED proc
  BY <1>6 DEF CoreClose
<1>7. QED BY <1>1, <1>2, <1>3, <1>4, <1>5, <1>6 DEF CoreStep

(* forwardEvents keeps the types. *)
LEMMA ForwardStepType ==
    ASSUME TypeOK, NEW s \in Sessions, ForwardStep(s)
    PROVE  TypeOK'
<1> USE ConstAssumption DEF TypeOK, Sessions, CorePhases, ForwardPhases,
        appVars, bridgeVars, coreVars, fwdVars, discVars
<1>1. CASE Receive(s) /\ UNCHANGED proc
  <2>1. /\ Tail(queue[s]) \in Seq(Events)
        /\ Len(Tail(queue[s])) <= QueueCap
    BY <1>1 DEF Receive
  <2>2. queue' \in [Sessions -> Seq(Events)] /\ \A t \in Sessions : Len(queue'[t]) <= QueueCap
    BY <1>1, <2>1 DEF Receive
  <2>3. Append(told[s], "connecting") \in Seq({"connecting", "connected", "disconnected"})
    OBVIOUS
  <2>4. told' \in [Sessions -> Seq({"connecting", "connected", "disconnected"})]
    BY <1>1, <2>3 DEF Receive, Tell
  <2>5. /\ fpc' = fpc \/ GoTo(s, "applying") \/ GoTo(s, "announce")
        /\ published' = published \/ published' = TRUE
        /\ tunnel' = tunnel \/ tunnel' = 0
    BY <1>1, Zenon DEF Receive
  <2>6. fpc' \in [Sessions -> ForwardPhases]
    BY <2>5 DEF GoTo
  <2>7. published' \in BOOLEAN
    BY <2>5, Zenon
  <2>8. tunnel' \in 0..MaxCalls
    BY <2>5
  <2>9. UNCHANGED <<call, cpc, cancelled, running, bcore, wgApplied, core, stopped, configSent,
                    traffic, outcome, pendingStop, dpc, dcore, proc>>
    BY <1>1 DEF Receive
  <2>10. QED BY <2>2, <2>4, <2>6, <2>7, <2>8, <2>9
<1>2. CASE Announce(s) /\ UNCHANGED proc
  <2>1. Append(told[s], "connected") \in Seq({"connecting", "connected", "disconnected"})
    OBVIOUS
  <2>2. QED BY <1>2, <2>1 DEF Announce, Tell, GoTo
<1>3. CASE ApplyUp(s) /\ UNCHANGED proc
  BY <1>3 DEF ApplyUp, GoTo
<1>4. CASE ApplyOK(s) /\ UNCHANGED proc
  BY <1>4 DEF ApplyOK, GoTo
<1>5. CASE ApplyError(s) /\ UNCHANGED proc
  <2>1. pendingStop' \in [Sessions -> BOOLEAN]
    BY <1>5 DEF ApplyError
  <2>2. /\ tunnel' \in 0..MaxCalls
        /\ outcome' \in [Sessions -> {"none", "ok", "error"}]
        /\ fpc' \in [Sessions -> ForwardPhases]
    BY <1>5 DEF ApplyError, GoTo
  <2>3. UNCHANGED <<call, cpc, cancelled, running, bcore, wgApplied, published, core, stopped,
                    configSent, traffic, queue, told, dpc, dcore, proc>>
    BY <1>5 DEF ApplyError
  <2>4. QED BY <2>1, <2>2, <2>3
<1>6. CASE Drained(s) /\ UNCHANGED proc
  BY <1>6 DEF Drained, GoTo
<1>7. CASE FinalTeardown(s) /\ UNCHANGED proc
  BY <1>7 DEF FinalTeardown, GoTo
<1>8. CASE Reset(s) /\ UNCHANGED proc
  <2>1. fpc' \in [Sessions -> ForwardPhases]
    BY <1>8 DEF Reset, GoTo
  <2>2. running' \in BOOLEAN /\ wgApplied' \in BOOLEAN /\ published' \in BOOLEAN
    BY <1>8, Zenon DEF Reset
  <2>3. bcore' \in 0..MaxCalls
    BY <1>8 DEF Reset
  <2>4. UNCHANGED <<appVars, coreVars, queue, told, outcome, pendingStop, discVars, tunnel, proc>>
    BY <1>8 DEF Reset
  <2>5. QED BY <2>1, <2>2, <2>3, <2>4
<1>9. CASE Notify(s) /\ UNCHANGED proc
  <2>1. Append(told[s], "disconnected") \in Seq({"connecting", "connected", "disconnected"})
    OBVIOUS
  <2>2. QED BY <1>9, <2>1 DEF Notify, Tell, GoTo
<1>10. QED BY <1>1, <1>2, <1>3, <1>4, <1>5, <1>6, <1>7, <1>8, <1>9 DEF ForwardStep

(* Type correctness of the Bridge (bridge.go, app.go, main.go), with the bound of *)
(* the event channel: no sequence of emits ever overfills it.                      *)
THEOREM TypeCorrect == Spec => []TypeOK
<1>1. Init => TypeOK
  BY InitTypeOK
<1>2. TypeOK /\ [Next]_vars => TypeOK'
  <2> SUFFICES ASSUME TypeOK, [Next]_vars PROVE TypeOK'
    OBVIOUS
  <2> USE ConstAssumption DEF TypeOK, Sessions, CorePhases, ForwardPhases,
          appVars, bridgeVars, coreVars, fwdVars, discVars
  <2>1. CASE UserStep
    <3>1. CASE ConnectBegin /\ UNCHANGED proc
      BY <3>1 DEF ConnectBegin
    <3>2. ASSUME NEW d \in Callers, DisconnectBegin(d), UNCHANGED proc PROVE TypeOK'
      <4>1. cancelled' \in BOOLEAN
        BY <3>2, Zenon DEF DisconnectBegin
      <4>2. dpc' \in [Callers -> {"idle", "read", "teardown", "stop"}]
        BY <3>2 DEF DisconnectBegin
      <4>3. UNCHANGED <<call, cpc, bridgeVars, coreVars, queue, fwdVars, pendingStop, dcore, tunnel, proc>>
        BY <3>2 DEF DisconnectBegin
      <4>4. QED BY <4>1, <4>2, <4>3
    <3>3. QED BY <2>1, <3>1, <3>2 DEF UserStep
  <2>2. CASE ConnectStep
    BY <2>2, ConnectStepType
  <2>3. ASSUME NEW s \in Sessions, CoreStep(s) PROVE TypeOK'
    BY <2>3, CoreStepType
  <2>4. ASSUME NEW s \in Sessions, ForwardStep(s) PROVE TypeOK'
    BY <2>4, ForwardStepType
  <2>5. ASSUME NEW s \in Sessions, AsyncStop(s) PROVE TypeOK'
    BY <2>5 DEF AsyncStop
  <2>6. ASSUME NEW d \in Callers, DisconnectStep(d) PROVE TypeOK'
    <3>1. CASE ReadCore(d) /\ UNCHANGED proc
      BY <3>1 DEF ReadCore
    <3>2. CASE UserTeardown(d) /\ UNCHANGED proc
      BY <3>2 DEF UserTeardown
    <3>3. CASE UserStop(d) /\ UNCHANGED proc
      <4>1. stopped' \in [Sessions -> BOOLEAN]
        BY <3>3 DEF UserStop
      <4>2. /\ dpc' \in [Callers -> {"idle", "read", "teardown", "stop"}]
            /\ dcore' \in [Callers -> 0..MaxCalls]
        BY <3>3 DEF UserStop
      <4>3. UNCHANGED <<appVars, bridgeVars, core, configSent, traffic, queue, fwdVars, pendingStop, tunnel, proc>>
        BY <3>3 DEF UserStop
      <4>4. QED BY <4>1, <4>2, <4>3
    <3>4. QED BY <2>6, <3>1, <3>2, <3>3 DEF DisconnectStep
  <2>7. CASE Shutdown
    BY <2>7 DEF Shutdown
  <2>8. CASE ProcessExit
    BY <2>8 DEF ProcessExit
  <2>9. CASE UNCHANGED vars
    BY <2>9 DEF vars
  <2>10. QED BY <2>1, <2>2, <2>3, <2>4, <2>5, <2>6, <2>7, <2>8, <2>9 DEF Next
<1>3. QED BY <1>1, <1>2, PTL DEF Spec
-----------------------------------------------------------------------------

(* The goroutine of App.Connect keeps the invariant. *)
LEMMA ConnectStepInv ==
    ASSUME TypeOK, BridgeInv, ConnectStep
    PROVE  BridgeInv'
<1>1. /\ core \in [Sessions -> CorePhases] /\ fpc \in [Sessions -> ForwardPhases]
      /\ call \in 0..MaxCalls /\ bcore \in 0..MaxCalls /\ tunnel \in 0..MaxCalls
      /\ running \in BOOLEAN
  BY DEF TypeOK
<1> USE <1>1, ConstAssumption DEF BridgeInv, OpeningInv, CoreHasOwner, ForwarderInv, RunningIsExact,
        TunnelHasKeeper, Opening, Forwarding, Holding, Sessions, CorePhases, ForwardPhases,
        appVars, bridgeVars, coreVars, fwdVars, discVars
<1>2. CASE Preflight
  BY <1>2 DEF Preflight, ConnectReturns
<1>3. CASE BridgeEnter
  BY <1>3 DEF BridgeEnter, ConnectReturns
<1>4. CASE StartFail
  BY <1>4 DEF StartFail, ConnectReturns
<1>5. CASE StartOK
  BY <1>5 DEF StartOK
<1>6. CASE Install
  BY <1>6 DEF Install, ConnectReturns
<1>7. QED BY <1>2, <1>3, <1>4, <1>5, <1>6 DEF ConnectStep

(* The goroutines of a Core keep the invariant. *)
LEMMA CoreStepInv ==
    ASSUME TypeOK, BridgeInv, NEW s \in Sessions, CoreStep(s)
    PROVE  BridgeInv'
<1>1. /\ core \in [Sessions -> CorePhases] /\ fpc \in [Sessions -> ForwardPhases]
      /\ call \in 0..MaxCalls /\ bcore \in 0..MaxCalls /\ tunnel \in 0..MaxCalls
      /\ running \in BOOLEAN
  BY DEF TypeOK
<1> USE <1>1, ConstAssumption DEF BridgeInv, OpeningInv, CoreHasOwner, ForwarderInv, RunningIsExact,
        TunnelHasKeeper, Opening, Forwarding, Holding, Sessions, CorePhases, ForwardPhases,
        appVars, bridgeVars, coreVars, fwdVars, discVars
<1>2. CASE EmitConfig(s)
  BY <1>2 DEF EmitConfig
<1>3. CASE EmitStats(s)
  BY <1>3 DEF EmitStats
<1>4. CASE EmitOther(s)
  BY <1>4 DEF EmitOther
<1>5. CASE CarryTraffic(s)
  BY <1>5 DEF CarryTraffic
<1>6. CASE CoreExit(s)
  BY <1>6 DEF CoreExit
<1>7. CASE CoreClose(s)
  BY <1>7 DEF CoreClose
<1>8. QED BY <1>2, <1>3, <1>4, <1>5, <1>6, <1>7 DEF CoreStep

(* forwardEvents keeps the invariant. *)
LEMMA ForwardStepInv ==
    ASSUME TypeOK, BridgeInv, NEW s \in Sessions, ForwardStep(s)
    PROVE  BridgeInv'
<1>1. /\ core \in [Sessions -> CorePhases] /\ fpc \in [Sessions -> ForwardPhases]
      /\ call \in 0..MaxCalls /\ bcore \in 0..MaxCalls /\ tunnel \in 0..MaxCalls
      /\ running \in BOOLEAN
  BY DEF TypeOK
<1> USE <1>1, ConstAssumption DEF BridgeInv, OpeningInv, CoreHasOwner, ForwarderInv, RunningIsExact,
        TunnelHasKeeper, Opening, Forwarding, Holding, Sessions, CorePhases, ForwardPhases,
        appVars, bridgeVars, coreVars, fwdVars, discVars
<1>2. CASE Receive(s)
  BY <1>2 DEF Receive, GoTo
<1>3. CASE Announce(s)
  BY <1>3 DEF Announce, GoTo
<1>4. CASE ApplyUp(s)
  BY <1>4 DEF ApplyUp, GoTo
<1>5. CASE ApplyOK(s)
  BY <1>5 DEF ApplyOK, GoTo
<1>6. CASE ApplyError(s)
  BY <1>6 DEF ApplyError, GoTo
<1>7. CASE Drained(s)
  BY <1>7 DEF Drained, GoTo
<1>8. CASE FinalTeardown(s)
  BY <1>8 DEF FinalTeardown, GoTo
<1>9. CASE Reset(s)
  BY <1>9 DEF Reset, GoTo
<1>10. CASE Notify(s)
  BY <1>10 DEF Notify, GoTo
<1>11. QED BY <1>2, <1>3, <1>4, <1>5, <1>6, <1>7, <1>8, <1>9, <1>10 DEF ForwardStep

(* Every step keeps the invariant: "go c.Stop()", Disconnect, Shutdown and the      *)
(* exit change nothing it speaks of except the interface, which they only remove.   *)
LEMMA StepInv ==
    ASSUME TypeOK, BridgeInv, [Next]_vars
    PROVE  BridgeInv'
<1> USE DEF BridgeInv, OpeningInv, CoreHasOwner, ForwarderInv, RunningIsExact,
        TunnelHasKeeper, Opening, Forwarding, appVars, bridgeVars, coreVars, fwdVars, discVars
<1>1. CASE ConnectBegin /\ UNCHANGED proc
  <2>1. call' = call + 1 /\ call' \in Sessions /\ call \in Nat
    BY <1>1, ConstAssumption DEF ConnectBegin, TypeOK, Sessions
  <2>2. core[call'] = "unborn" /\ fpc[call'] = "none"
    BY <2>1
  <2>3. \A s \in Sessions : s > call' => s > call
    BY <2>1 DEF Sessions
  <2>4. cpc = "idle" /\ cpc' = "preflight"
    BY <1>1 DEF ConnectBegin
  <2>5. UNCHANGED <<bridgeVars, coreVars, fwdVars, tunnel>>
    BY <1>1 DEF ConnectBegin
  <2>6. QED BY <2>1, <2>2, <2>3, <2>4, <2>5
<1>2. ASSUME NEW d \in Callers, DisconnectBegin(d) PROVE BridgeInv'
  BY <1>2 DEF DisconnectBegin
<1>3. CASE ConnectStep
  BY <1>3, ConnectStepInv
<1>4. ASSUME NEW s \in Sessions, CoreStep(s) PROVE BridgeInv'
  BY <1>4, CoreStepInv
<1>5. ASSUME NEW s \in Sessions, ForwardStep(s) PROVE BridgeInv'
  BY <1>5, ForwardStepInv
<1>6. ASSUME NEW s \in Sessions, AsyncStop(s) PROVE BridgeInv'
  BY <1>6 DEF AsyncStop
<1>7. ASSUME NEW d \in Callers, DisconnectStep(d) PROVE BridgeInv'
  BY <1>7 DEF DisconnectStep, ReadCore, UserTeardown, UserStop
<1>8. CASE Shutdown
  BY <1>8 DEF Shutdown
<1>9. CASE ProcessExit
  BY <1>9 DEF ProcessExit
<1>10. CASE UNCHANGED vars
  BY <1>10 DEF vars
<1>11. QED BY <1>1, <1>2, <1>3, <1>4, <1>5, <1>6, <1>7, <1>8, <1>9, <1>10 DEF Next, UserStep

(* The inductive invariant holds in every reachable state of the lifecycle        *)
(* (bridge.go, app.go, main.go).                                                  *)
THEOREM InvariantHolds == Spec => []BridgeInv
<1>1. TypeOK /\ BridgeInv /\ [Next]_vars => BridgeInv'
  BY StepInv
<1>2. QED BY InitBridgeInv, <1>1, TypeCorrect, PTL DEF Spec

(* Two Cores never run at the same time, for any number of Connects, Disconnects   *)
(* and failures (the b.running check of bridge.go:32-42).                          *)
THEOREM OnlyOneCore == Spec => []OneCore
<1>1. TypeOK /\ BridgeInv => OneCore
  BY DEF TypeOK, BridgeInv, OpeningInv, CoreHasOwner, ForwarderInv, OneCore, Opening,
         Forwarding, Holding
<1>2. QED BY <1>1, InvariantHolds, TypeCorrect, PTL

(* b.running is TRUE exactly while a Connect is starting its Core or a forwarder     *)
(* holds the Bridge (bridge.go:43, 45-54, 292-304).                                  *)
THEOREM RunningExact == Spec => []RunningIsExact
<1>1. BridgeInv => RunningIsExact
  BY DEF BridgeInv
<1>2. QED BY <1>1, InvariantHolds, PTL

(* As long as an interface is up, the forwardEvents of its session is still to run   *)
(* its final wg.Teardown (bridge.go:287-289).                                        *)
THEOREM TunnelKept == Spec => []TunnelHasKeeper
<1>1. BridgeInv => TunnelHasKeeper
  BY DEF BridgeInv
<1>2. QED BY <1>1, InvariantHolds, PTL
-----------------------------------------------------------------------------
(* The Bridge starts where the abstract lifecycle starts. *)
LEMMA InitRefines == Init => Place!AbsInit
BY DEF Init, Place!AbsInit

(* Each step of App.Connect's goroutine is one of the abstract lifecycle, or none. *)
LEMMA ConnectStepRefines ==
    ASSUME TypeOK, BridgeInv, ConnectStep
    PROVE  [Place!AbsNext]_(Place!absVars)
<1> USE DEF Place!absVars, appVars, bridgeVars, coreVars, fwdVars, discVars
<1>1. /\ core \in [Sessions -> CorePhases] /\ call \in 0..MaxCalls /\ bcore \in 0..MaxCalls
      /\ Sessions = Place!AbsSessions
  BY DEF TypeOK, Sessions, Place!AbsSessions
<1>2. CASE Preflight
  BY <1>2 DEF Preflight
<1>3. CASE BridgeEnter /\ running
  BY <1>3 DEF BridgeEnter
<1>4. CASE BridgeEnter /\ ~running
  <2>1. bcore = 0 /\ call \in Sessions /\ core[call] = "unborn"
    <3>1. bcore # 0 => bcore \in Sessions
      BY <1>1, ConstAssumption DEF Sessions
    <3>2. bcore = 0
      BY <1>4, <3>1 DEF BridgeInv, ForwarderInv
    <3>3. QED BY <1>4, <3>2 DEF BridgeEnter, BridgeInv, OpeningInv
  <2>2. /\ running' /\ bcore' = 0 /\ call' = call /\ tunnel' = tunnel
        /\ core' = [core EXCEPT ![call] = "starting"]
    BY <1>4, <2>1 DEF BridgeEnter
  <2>3. {s \in Sessions : core'[s] # "unborn"} = {s \in Sessions : core[s] # "unborn"} \cup {call}
    BY <1>1, <2>1, <2>2
  <2>4. call \in Place!AbsSessions \ {s \in Sessions : core[s] # "unborn"}
    BY <1>1, <2>1
  <2>5. Place!Admit
    BY <1>4, <2>1, <2>2, <2>3, <2>4 DEF Place!Admit
  <2>6. QED BY <2>5 DEF Place!AbsNext
<1>5. CASE StartFail
  <2>1. cpc = "start" /\ tunnel = 0 /\ core[call] = "starting"
    BY <1>5 DEF StartFail, BridgeInv, OpeningInv, ForwarderInv, TunnelHasKeeper, TypeOK,
                Opening, Forwarding, Holding, Sessions
  <2>2. {s \in Sessions : core'[s] # "unborn"} = {s \in Sessions : core[s] # "unborn"}
    BY <1>1, <1>5, <2>1 DEF StartFail
  <2>3. Place!Release
    BY <1>5, <2>1, <2>2 DEF StartFail, Place!Release
  <2>4. QED BY <2>3 DEF Place!AbsNext
<1>6. CASE StartOK
  <2>1. core[call] = "starting"
    BY <1>6 DEF StartOK, BridgeInv, OpeningInv
  <2>2. {s \in Sessions : core'[s] # "unborn"} = {s \in Sessions : core[s] # "unborn"}
    BY <1>1, <1>6, <2>1 DEF StartOK
  <2>3. QED BY <1>6, <2>2 DEF StartOK
<1>7. CASE Install
  <2>1. running /\ bcore = 0 /\ call # 0
    BY <1>7 DEF Install, BridgeInv, OpeningInv, Opening, Sessions
  <2>2. QED BY <1>7, <2>1 DEF Install
<1>8. QED BY <1>2, <1>3, <1>4, <1>5, <1>6, <1>7 DEF ConnectStep

(* Each step of forwardEvents is one of the abstract lifecycle, or none. *)
LEMMA ForwardStepRefines ==
    ASSUME TypeOK, BridgeInv, NEW s \in Sessions, ForwardStep(s)
    PROVE  [Place!AbsNext]_(Place!absVars)
<1> USE DEF Place!absVars, appVars, bridgeVars, coreVars, fwdVars, discVars, GoTo
<1>1. fpc[s] \in Holding => running /\ bcore = s /\ s # 0
  BY DEF BridgeInv, ForwarderInv, Forwarding, Sessions
<1>2. UNCHANGED <<core, call>>
  BY DEF ForwardStep, Receive, Announce, ApplyUp, ApplyOK, ApplyError, Drained, FinalTeardown,
         Reset, Notify, Tell
<1>3. CASE Receive(s) \/ ApplyError(s) \/ FinalTeardown(s)
  <2>1. UNCHANGED <<running, bcore>> /\ (tunnel' = 0 \/ tunnel' = tunnel)
    BY <1>3 DEF Receive, ApplyError, FinalTeardown
  <2>2. QED BY <1>2, <2>1 DEF Place!AbsNext, Place!Lower
<1>4. CASE Announce(s) \/ ApplyOK(s) \/ Drained(s) \/ Notify(s)
  BY <1>2, <1>4 DEF Announce, ApplyOK, Drained, Notify
<1>5. CASE ApplyUp(s)
  <2>1. running /\ bcore = s /\ s # 0 /\ tunnel' = s /\ UNCHANGED <<running, bcore>>
    BY <1>1, <1>5 DEF ApplyUp, Holding
  <2>2. Place!Raise
    BY <1>2, <2>1 DEF Place!Raise
  <2>3. QED BY <2>2 DEF Place!AbsNext
<1>6. CASE Reset(s)
  <2>1. tunnel = 0
    <3>1. fpc[s] = "reset" /\ bcore = s
      BY <1>1, <1>6 DEF Reset, Holding
    <3>2. tunnel \in Sessions \/ tunnel = 0
      BY ConstAssumption DEF TypeOK, Sessions
    <3>3. QED BY <3>1, <3>2 DEF BridgeInv, ForwarderInv, TunnelHasKeeper, Forwarding, Holding
  <2>2. ~running' /\ tunnel' = tunnel
    BY <1>6 DEF Reset
  <2>3. Place!Release
    BY <1>2, <2>1, <2>2 DEF Place!Release
  <2>4. QED BY <2>3 DEF Place!AbsNext
<1>7. QED BY <1>3, <1>4, <1>5, <1>6 DEF ForwardStep

(* The phases of a Core beyond its creation are invisible in the abstract lifecycle. *)
LEMMA CoreStepRefines ==
    ASSUME TypeOK, NEW s \in Sessions, CoreStep(s)
    PROVE  UNCHANGED Place!absVars
<1> USE DEF Place!absVars, appVars, bridgeVars, coreVars, fwdVars, discVars
<1>1. {t \in Sessions : core'[t] # "unborn"} = {t \in Sessions : core[t] # "unborn"}
  <2>1. core' = core \/ (core[s] # "unborn" /\ core' = [core EXCEPT ![s] = "draining"])
                    \/ (core[s] # "unborn" /\ core' = [core EXCEPT ![s] = "closed"])
    BY DEF CoreStep, EmitConfig, EmitStats, EmitOther, CarryTraffic, CoreExit, CoreClose
  <2>2. core \in [Sessions -> CorePhases]
    BY DEF TypeOK
  <2>3. QED BY <2>1, <2>2
<1>2. UNCHANGED <<running, bcore, call, tunnel>>
  BY DEF CoreStep, EmitConfig, EmitStats, EmitOther, CarryTraffic, CoreExit, CoreClose
<1>3. QED BY <1>1, <1>2

(* Bridge implements Lifecycle: one session holds the place at a time, the interface  *)
(* is its own, and it lets go only when the interface is gone (bridge.go, wg.go).     *)
THEOREM Refinement == Spec => ImplementsLifecycle
<1>1. TypeOK /\ BridgeInv /\ [Next]_vars => [Place!AbsNext]_(Place!absVars)
  <2> SUFFICES ASSUME TypeOK, BridgeInv, [Next]_vars PROVE [Place!AbsNext]_(Place!absVars)
    OBVIOUS
  <2> USE DEF Place!absVars, appVars, bridgeVars, coreVars, fwdVars, discVars
  <2>1. CASE ConnectBegin
    <3>1. cpc = "idle" /\ (running /\ bcore = 0 => Opening)
      <4>1. \A s \in Sessions : Forwarding(s) => bcore = s /\ s # 0
        BY DEF BridgeInv, ForwarderInv, Sessions
      <4>2. QED BY <2>1, <4>1 DEF ConnectBegin, BridgeInv, RunningIsExact
    <3>2. running => bcore # 0
      BY <3>1 DEF Opening
    <3>3. QED BY <2>1, <3>2 DEF ConnectBegin
  <2>2. ASSUME NEW d \in Callers, DisconnectBegin(d) PROVE UNCHANGED Place!absVars
    BY <2>2 DEF DisconnectBegin
  <2>3. CASE ConnectStep
    BY <2>3, ConnectStepRefines
  <2>4. ASSUME NEW s \in Sessions, CoreStep(s) PROVE UNCHANGED Place!absVars
    BY <2>4, CoreStepRefines
  <2>5. ASSUME NEW s \in Sessions, ForwardStep(s) PROVE [Place!AbsNext]_(Place!absVars)
    BY <2>5, ForwardStepRefines
  <2>6. ASSUME NEW s \in Sessions, AsyncStop(s) PROVE UNCHANGED Place!absVars
    BY <2>6 DEF AsyncStop
  <2>7. ASSUME NEW d \in Callers, DisconnectStep(d) PROVE [Place!AbsNext]_(Place!absVars)
    BY <2>7 DEF DisconnectStep, ReadCore, UserTeardown, UserStop, Place!AbsNext, Place!Lower
  <2>8. CASE Shutdown
    BY <2>8 DEF Shutdown, Place!AbsNext, Place!Lower
  <2>9. CASE ProcessExit
    BY <2>9 DEF ProcessExit
  <2>10. CASE UNCHANGED vars
    BY <2>10 DEF vars
  <2>11. QED BY <2>1, <2>2, <2>3, <2>4, <2>5, <2>6, <2>7, <2>8, <2>9, <2>10 DEF Next, UserStep
<1>2. QED BY InitRefines, <1>1, TypeCorrect, InvariantHolds, PTL
          DEF Spec, ImplementsLifecycle, Place!AbsSpec
-----------------------------------------------------------------------------
(***************************************************************************)
(* What the frontend is told.  The statuses are in order because of what is    *)
(* in the event channel: 'connecting' once, before anything that counts, one     *)
(* config, and confirmations only of traffic.                                      *)
(***************************************************************************)
Unborn == {"unborn", "starting", "failed"}

(* What a session was told before its success, before its end, and with a success. *)
Early == {<<>>, <<"connecting">>}
Open == Early \cup {<<"connected">>, <<"connecting", "connected">>}
Successful == {<<"connected">>, <<"connecting", "connected">>,
               <<"connected", "disconnected">>, <<"connecting", "connected", "disconnected">>}

QueueInv(s) ==
    \A i \in 1..Len(queue[s]) :
        /\ queue[s][i] = "confirmed" => traffic[s]
        /\ queue[s][i] = "config" =>
             /\ configSent[s] /\ outcome[s] = "none" /\ fpc[s] \notin {"applying", "up"}
             /\ \A j \in 1..Len(queue[s]) : queue[s][j] = "config" => j = i
        /\ queue[s][i] = "connecting" =>
             /\ told[s] = <<>> /\ fpc[s] \in {"none", "recv"} /\ core[s] \notin Unborn
             /\ \A j \in 1..Len(queue[s]) :
                  (j < i => queue[s][j] = "other") /\ (queue[s][j] = "connecting" => j = i)

PhaseInv(s) ==
    /\ core[s] \in Unborn => ~configSent[s] /\ ~traffic[s] /\ fpc[s] = "none"
    /\ fpc[s] = "none" => told[s] = <<>> /\ outcome[s] = "none"
    /\ outcome[s] # "none" \/ fpc[s] \in {"applying", "up"} => configSent[s]
    /\ fpc[s] \in {"applying", "up"} => outcome[s] = "none"
    /\ fpc[s] = "announce" => outcome[s] = "ok" /\ traffic[s] /\ told[s] \in Early
    /\ told[s] \in Successful => outcome[s] = "ok" /\ traffic[s]
    /\ fpc[s] = "done" => \E before \in Open : told[s] = Append(before, "disconnected")
    /\ fpc[s] # "done" => told[s] \in Open

(* b.wgApplied and b.connectedPublished are about the session of b.core. *)
FlagInv ==
    /\ cpc = "install" => core[call] \notin Unborn
    /\ bcore # 0 =>
         /\ wgApplied => outcome[bcore] = "ok"
         /\ ~published => told[bcore] \in Early /\ fpc[bcore] # "announce"

EventInv == FlagInv /\ \A s \in Sessions : QueueInv(s) /\ PhaseInv(s)

LEMMA OneWord == \A x : Append(<<>>, x) = <<x>>
  OBVIOUS

LEMMA TwoWords == \A x, y : Append(<<x>>, y) = <<x, y>>
<1> TAKE x, y
<1> DEFINE S == {x, y}
<1>1. <<x>> \in Seq(S) /\ <<x, y>> \in Seq(S) /\ Append(<<x>>, y) \in Seq(S)
  OBVIOUS
<1>2. Len(<<x>>) = 1 /\ Len(<<x, y>>) = 2 /\ Len(Append(<<x>>, y)) = 2
  BY <1>1
<1>3. Append(<<x>>, y)[1] = x /\ Append(<<x>>, y)[2] = y
  BY <1>1, <1>2
<1>4. \A i \in 1..2 : Append(<<x>>, y)[i] = <<x, y>>[i]
  BY <1>3
<1> QED
  BY <1>1, <1>2, <1>4, SeqEqual

LEMMA ThreeWords == \A x, y, z : Append(<<x, y>>, z) = <<x, y, z>>
<1> TAKE x, y, z
<1> DEFINE S == {x, y, z}
<1>1. <<x, y>> \in Seq(S) /\ <<x, y, z>> \in Seq(S) /\ Append(<<x, y>>, z) \in Seq(S)
  OBVIOUS
<1>2. Len(<<x, y>>) = 2 /\ Len(<<x, y, z>>) = 3 /\ Len(Append(<<x, y>>, z)) = 3
  BY <1>1
<1>3. Append(<<x, y>>, z)[1] = x /\ Append(<<x, y>>, z)[2] = y /\ Append(<<x, y>>, z)[3] = z
  BY <1>1, <1>2
<1>4. \A i \in 1..3 : Append(<<x, y>>, z)[i] = <<x, y, z>>[i]
  BY <1>3
<1> QED
  BY <1>1, <1>2, <1>4, SeqEqual

(* The few sequences of statuses there are. *)
LEMMA Words ==
    /\ <<>> \in Early /\ Append(<<>>, "connecting") \in Early
    /\ Early \subseteq Open /\ Early \cap Successful = {}
    /\ \A w \in Early : Append(w, "connected") \in Open
    /\ \A w \in Open : Append(w, "disconnected") \in Successful => w \in Successful
<1>1. /\ Append(<<>>, "connecting") = <<"connecting">> /\ Append(<<>>, "connected") = <<"connected">>
      /\ Append(<<"connecting">>, "connected") = <<"connecting", "connected">>
      /\ Append(<<>>, "disconnected") = <<"disconnected">>
      /\ Append(<<"connecting">>, "disconnected") = <<"connecting", "disconnected">>
  BY OneWord, TwoWords
<1>2. <<"disconnected">> \notin Successful /\ <<"connecting", "disconnected">> \notin Successful
  BY DEF Successful
<1>3. Early \cap Successful = {}
  BY DEF Early, Successful
<1> QED
  BY <1>1, <1>2, <1>3, Zenon DEF Early, Open, Successful

(* One emit: the events that stay keep their order, the new one is the last. *)
LEMMA EmittedShape ==
    ASSUME NEW q \in Seq(Events), NEW e, NEW p \in Emitted(q, e)
    PROVE  \E d \in {0, 1} : \A i \in 1..Len(p) :
             (i + d \in 1..Len(q) /\ p[i] = q[i + d]) \/ (p[i] = e /\ i = Len(p))
<1>1. CASE p = Append(q, e)
  <2>1. \A i \in 1..Len(p) : (i + 0 \in 1..Len(q) /\ p[i] = q[i + 0]) \/ (p[i] = e /\ i = Len(p))
    BY <1>1
  <2> QED
    BY <2>1
<1>2. CASE p = q
  <2>1. \A i \in 1..Len(p) : i + 0 \in 1..Len(q) /\ p[i] = q[i + 0]
    BY <1>2
  <2> QED
    BY <2>1
<1>3. CASE q # <<>> /\ p = Append(Tail(q), e)
  <2>1. \A i \in 1..Len(p) : (i + 1 \in 1..Len(q) /\ p[i] = q[i + 1]) \/ (p[i] = e /\ i = Len(p))
    BY <1>3
  <2> QED
    BY <2>1
<1> QED
  BY <1>1, <1>2, <1>3 DEF Emitted

(* The session itself when nothing of it that counts here changes. *)
LEMMA QuietSession ==
    ASSUME NEW s \in Sessions, QueueInv(s), PhaseInv(s),
           queue'[s] = queue[s], configSent'[s] = configSent[s], traffic'[s] = traffic[s],
           outcome'[s] = outcome[s], told'[s] = told[s], fpc'[s] = fpc[s],
           core'[s] \in Unborn <=> core[s] \in Unborn
    PROVE  QueueInv(s)' /\ PhaseInv(s)'
  BY DEF QueueInv, PhaseInv

(* An event joins the channel of a Core that produces it. *)
LEMMA EmitKeepsEvents ==
    ASSUME TypeOK, EventInv, NEW s \in Sessions, NEW e \in {"config", "confirmed", "other"}, Emit(s, e),
           UNCHANGED <<core, traffic, outcome, told, fpc, cpc, call, bcore, wgApplied, published>>,
           e = "config" => ~configSent[s] /\ core[s] \notin Unborn,
           e = "confirmed" => traffic[s],
           configSent' = IF e = "config" THEN [configSent EXCEPT ![s] = TRUE] ELSE configSent
    PROVE  EventInv'
<1>1. \A t \in Sessions \ {s} : queue'[t] = queue[t] /\ configSent'[t] = configSent[t]
  BY DEF Emit, TypeOK
<1>2. configSent'[s] = (configSent[s] \/ e = "config")
  BY DEF TypeOK
<1>3. PICK d \in {0, 1} : \A i \in 1..Len(queue'[s]) :
        (i + d \in 1..Len(queue[s]) /\ queue'[s][i] = queue[s][i + d]) \/ (queue'[s][i] = e /\ i = Len(queue'[s]))
  <2>1. queue[s] \in Seq(Events) /\ queue'[s] \in Emitted(queue[s], e)
    BY DEF Emit, TypeOK
  <2>2. PICK q, p : q \in Seq(Events) /\ p \in Emitted(q, e) /\ q = queue[s] /\ p = queue'[s]
    BY <2>1
  <2>3. \E d \in {0, 1} : \A i \in 1..Len(p) :
          (i + d \in 1..Len(q) /\ p[i] = q[i + d]) \/ (p[i] = e /\ i = Len(p))
    BY <2>2, EmittedShape
  <2> QED
    BY <2>2, <2>3
<1>4. Len(queue[s]) \in Nat /\ Len(queue'[s]) \in Nat
  <2>1. queue \in [Sessions -> Seq(Events)] /\ \A t \in Sessions : Len(queue[t]) <= QueueCap
    BY DEF TypeOK
  <2>2. e \in Events
    BY DEF Events
  <2>3. queue' \in [Sessions -> Seq(Events)]
    BY <2>1, <2>2, EmitType
  <2>4. QED BY <2>1, <2>3
<1>5. QueueInv(s) /\ PhaseInv(s)
  BY DEF EventInv
<1>6. QueueInv(s)'
  <2>1. ASSUME NEW i \in 1..Len(queue'[s]), queue'[s][i] = "confirmed" PROVE traffic[s]
    BY <1>3, <1>5, <2>1 DEF QueueInv
  <2>2. ASSUME NEW i \in 1..Len(queue'[s]), queue'[s][i] = "config"
        PROVE  /\ configSent'[s] /\ outcome[s] = "none" /\ fpc[s] \notin {"applying", "up"}
               /\ \A j \in 1..Len(queue'[s]) : queue'[s][j] = "config" => j = i
    <3>1. CASE e = "config"
      <4>1. \A k \in 1..Len(queue[s]) : queue[s][k] # "config"
        BY <1>5, <3>1 DEF QueueInv
      <4>2. outcome[s] = "none" /\ fpc[s] \notin {"applying", "up"}
        BY <1>5, <3>1 DEF PhaseInv
      <4> QED
        BY <1>2, <1>3, <2>2, <3>1, <4>1, <4>2
    <3>2. CASE e # "config"
      <4>1. i + d \in 1..Len(queue[s]) /\ queue[s][i + d] = "config"
        BY <1>3, <2>2, <3>2
      <4>2. configSent'[s] /\ outcome[s] = "none" /\ fpc[s] \notin {"applying", "up"}
        BY <1>2, <1>5, <4>1 DEF QueueInv
      <4>3. ASSUME NEW j \in 1..Len(queue'[s]), queue'[s][j] = "config" PROVE j = i
        <5>1. j + d \in 1..Len(queue[s]) /\ queue[s][j + d] = "config"
          BY <1>3, <3>2, <4>3
        <5>2. j + d = i + d
          BY <1>5, <4>1, <5>1 DEF QueueInv
        <5> QED
          BY <5>2
      <4> QED
        BY <4>2, <4>3
    <3> QED
      BY <3>1, <3>2
  <2>3. ASSUME NEW i \in 1..Len(queue'[s]), queue'[s][i] = "connecting"
        PROVE  /\ told[s] = <<>> /\ fpc[s] \in {"none", "recv"} /\ core[s] \notin Unborn
               /\ \A j \in 1..Len(queue'[s]) :
                    (j < i => queue'[s][j] = "other") /\ (queue'[s][j] = "connecting" => j = i)
    <3>1. i + d \in 1..Len(queue[s]) /\ queue[s][i + d] = "connecting"
      BY <1>3, <2>3
    <3>2. ASSUME NEW j \in 1..Len(queue'[s]) PROVE (j < i => queue'[s][j] = "other") /\ (queue'[s][j] = "connecting" => j = i)
      <4>1. CASE j + d \in 1..Len(queue[s]) /\ queue'[s][j] = queue[s][j + d]
        BY <1>3, <1>4, <1>5, <3>1, <4>1 DEF QueueInv
      <4>2. CASE queue'[s][j] = e /\ j = Len(queue'[s])
        BY <1>4, <4>2
      <4> QED
        BY <1>3, <4>1, <4>2
    <3> QED
      BY <1>5, <3>1, <3>2 DEF QueueInv
  <2> QED
    BY <2>1, <2>2, <2>3 DEF QueueInv
<1>7. PhaseInv(s)'
  BY <1>2, <1>5 DEF PhaseInv
<1>8. \A t \in Sessions \ {s} : QueueInv(t)' /\ PhaseInv(t)'
  BY <1>1, QuietSession DEF EventInv
<1>9. FlagInv'
  BY DEF EventInv, FlagInv
<1> QED
  BY <1>6, <1>7, <1>8, <1>9 DEF EventInv

(* Connect: the Core emits 'connecting' when it is created, with nothing that counts before it. *)
LEMMA ConnectKeepsEvents ==
    ASSUME TypeOK, BridgeInv, EventInv, ConnectStep
    PROVE  EventInv'
<1> USE DEF EventInv
<1>1. cpc # "idle"
  BY DEF ConnectStep, Preflight, BridgeEnter, StartFail, StartOK, Install
<1>2. call \in Sessions /\ fpc[call] = "none"
  BY <1>1 DEF BridgeInv, OpeningInv
<1>3. QueueInv(call) /\ PhaseInv(call)
  BY <1>2
<1>4. bcore # 0 => bcore \in Sessions /\ bcore # call /\ running /\ ~Opening
  BY <1>2, ConstAssumption DEF BridgeInv, ForwarderInv, Forwarding, Holding, TypeOK, Sessions
<1>5. CASE Preflight
  <2>1. UNCHANGED <<queue, configSent, traffic, outcome, told, fpc, core, call, bcore, wgApplied, published>> /\ cpc' # "install"
    BY <1>5 DEF Preflight, ConnectReturns, bridgeVars, coreVars, fwdVars
  <2> QED
    BY <2>1, QuietSession DEF FlagInv
<1>6. CASE BridgeEnter
  <2>1. UNCHANGED <<queue, configSent, traffic, outcome, told, fpc, call, bcore>> /\ cpc' # "install"
    BY <1>6 DEF BridgeEnter, ConnectReturns, bridgeVars, fwdVars
  <2>2. core' = core \/ (core[call] = "unborn" /\ core' = [core EXCEPT ![call] = "starting"])
    BY <1>6 DEF BridgeEnter, BridgeInv, OpeningInv
  <2>3. \A s \in Sessions : core'[s] \in Unborn <=> core[s] \in Unborn
    BY <2>2 DEF Unborn, TypeOK
  <2>4. FlagInv'
    <3>1. CASE running
      BY <1>6, <2>1, <3>1 DEF BridgeEnter, bridgeVars, FlagInv
    <3>2. CASE ~running
      BY <1>4, <2>1, <3>2 DEF FlagInv
    <3> QED
      BY <3>1, <3>2
  <2> QED
    BY <2>1, <2>3, <2>4, QuietSession
<1>7. CASE StartFail
  <2>1. /\ UNCHANGED <<queue, configSent, traffic, outcome, told, fpc, call, bcore>> /\ cpc' # "install"
        /\ core[call] = "starting" /\ core' = [core EXCEPT ![call] = "failed"]
    BY <1>7 DEF StartFail, ConnectReturns, fwdVars, BridgeInv, OpeningInv
  <2>2. \A s \in Sessions : core'[s] \in Unborn <=> core[s] \in Unborn
    BY <1>2, <2>1 DEF Unborn, TypeOK
  <2>3. bcore = 0
    BY <1>4, <1>7 DEF StartFail, Opening
  <2> QED
    BY <2>1, <2>2, <2>3, QuietSession DEF FlagInv
<1>8. CASE StartOK
  <2>1. /\ UNCHANGED <<configSent, traffic, outcome, told, fpc, call, bcore, wgApplied, published>> /\ bcore = 0
        /\ core[call] = "starting" /\ core' = [core EXCEPT ![call] = "live"] /\ Emit(call, "connecting")
    BY <1>4, <1>8 DEF StartOK, fwdVars, bridgeVars, coreVars, BridgeInv, OpeningInv, Opening
  <2>2. /\ \A s \in Sessions \ {call} : core'[s] = core[s] /\ queue'[s] = queue[s]
        /\ core'[call] = "live"
    BY <1>2, <2>1 DEF Emit, TypeOK
  <2>3. ~configSent[call] /\ ~traffic[call] /\ told[call] = <<>> /\ outcome[call] = "none"
    BY <1>2, <1>3, <2>1 DEF PhaseInv, Unborn
  <2>4. \A i \in 1..Len(queue[call]) : queue[call][i] = "other"
    <3>1. \A i \in 1..Len(queue[call]) : queue[call][i] \in Events
      BY <1>2, ElementOfSeq DEF TypeOK
    <3> QED
      BY <1>3, <2>1, <2>3, <3>1 DEF QueueInv, Unborn, Events
  <2>5. PICK d \in {0, 1} : \A i \in 1..Len(queue'[call]) :
          (i + d \in 1..Len(queue[call]) /\ queue'[call][i] = queue[call][i + d])
            \/ (queue'[call][i] = "connecting" /\ i = Len(queue'[call]))
    <3>1. queue[call] \in Seq(Events) /\ queue'[call] \in Emitted(queue[call], "connecting")
      BY <1>2, <2>1 DEF Emit, TypeOK
    <3> QED
      BY <3>1, EmittedShape
  <2>6. Len(queue'[call]) \in Nat
    BY <1>2, <2>1, EmitType DEF TypeOK, Events
  <2>7. QueueInv(call)'
    <3>1. \A i \in 1..Len(queue'[call]) :
            queue'[call][i] = "other" \/ (queue'[call][i] = "connecting" /\ i = Len(queue'[call]))
      BY <2>4, <2>5
    <3>2. ASSUME NEW i \in 1..Len(queue'[call]), queue'[call][i] = "connecting"
          PROVE  \A j \in 1..Len(queue'[call]) :
                   (j < i => queue'[call][j] = "other") /\ (queue'[call][j] = "connecting" => j = i)
      BY <2>6, <3>1, <3>2
    <3>3. told'[call] = <<>> /\ fpc'[call] = "none" /\ core'[call] \notin Unborn /\ call' = call
      BY <1>2, <2>1, <2>2, <2>3 DEF Unborn
    <3> QED
      BY <3>1, <3>2, <3>3 DEF QueueInv
  <2>8. PhaseInv(call)'
    BY <1>3, <2>1, <2>2 DEF PhaseInv, Unborn
  <2>9. FlagInv'
    BY <2>1, <2>2 DEF FlagInv, Unborn
  <2> QED
    BY <2>1, <2>2, <2>7, <2>8, <2>9, QuietSession
<1>9. CASE Install
  <2>1. /\ UNCHANGED <<queue, configSent, traffic, outcome, told, core, call>> /\ cpc' # "install"
        /\ fpc' = [fpc EXCEPT ![call] = "recv"] /\ bcore' = call /\ ~wgApplied' /\ core[call] \notin Unborn
    BY <1>9 DEF Install, ConnectReturns, coreVars, FlagInv
  <2>2. fpc'[call] = "recv" /\ \A s \in Sessions \ {call} : fpc'[s] = fpc[s]
    BY <1>2, <2>1 DEF TypeOK
  <2>3. told[call] = <<>> /\ outcome[call] = "none"
    BY <1>2, <1>3 DEF PhaseInv
  <2>4. QueueInv(call)' /\ PhaseInv(call)'
    BY <1>3, <2>1, <2>2, <2>3, Words DEF QueueInv, PhaseInv
  <2>5. FlagInv'
    BY <2>1, <2>2, <2>3, Words DEF FlagInv
  <2> QED
    BY <2>1, <2>2, <2>4, <2>5, QuietSession
<1> QED
  BY <1>5, <1>6, <1>7, <1>8, <1>9 DEF ConnectStep

(* The goroutines of a Core emit one config, and confirm only traffic. *)
LEMMA CoreKeepsEvents ==
    ASSUME TypeOK, BridgeInv, EventInv, NEW s \in Sessions, CoreStep(s)
    PROVE  EventInv'
<1> USE DEF coreVars, fwdVars, appVars, bridgeVars
<1>1. CASE EmitConfig(s)
  BY <1>1, EmitKeepsEvents DEF EmitConfig, Producing, Unborn
<1>2. CASE EmitStats(s)
  BY <1>2, EmitKeepsEvents DEF EmitStats
<1>3. CASE EmitOther(s)
  BY <1>3, EmitKeepsEvents DEF EmitOther
<1>4. CASE CarryTraffic(s)
  <2>1. /\ UNCHANGED <<queue, configSent, outcome, told, fpc, core, cpc, call, bcore, wgApplied, published>>
        /\ core[s] = "live" /\ traffic' = [traffic EXCEPT ![s] = TRUE]
    BY <1>4 DEF CarryTraffic
  <2>2. traffic'[s] /\ \A t \in Sessions \ {s} : traffic'[t] = traffic[t]
    BY <2>1 DEF TypeOK
  <2>3. QueueInv(s)' /\ PhaseInv(s)'
    BY <2>1, <2>2 DEF EventInv, QueueInv, PhaseInv, Unborn
  <2>4. FlagInv'
    BY <2>1 DEF EventInv, FlagInv
  <2> QED
    BY <2>1, <2>2, <2>3, <2>4, QuietSession DEF EventInv
<1>5. CASE CoreExit(s) \/ CoreClose(s)
  <2>1. /\ UNCHANGED <<queue, configSent, traffic, outcome, told, fpc, cpc, call, bcore, wgApplied, published>>
        /\ core[s] \in {"live", "draining"} /\ \E to \in {"draining", "closed"} : core' = [core EXCEPT ![s] = to]
    BY <1>5 DEF CoreExit, CoreClose
  <2>2. \A t \in Sessions : core'[t] \in Unborn <=> core[t] \in Unborn
    BY <2>1 DEF Unborn, TypeOK
  <2>3. FlagInv'
    <3>1. cpc = "install" => call \in Sessions
      BY DEF BridgeInv, OpeningInv
    <3> QED
      BY <2>1, <2>2, <3>1 DEF EventInv, FlagInv
  <2> QED
    BY <2>1, <2>2, <2>3, QuietSession DEF EventInv
<1> QED
  BY <1>1, <1>2, <1>3, <1>4, <1>5 DEF CoreStep

(* The rest of the channel, when its first event is taken. *)
LEMMA TailShape ==
    ASSUME NEW q \in Seq(Events), q # <<>>
    PROVE  /\ Head(q) = q[1] /\ 1 \in 1..Len(q) /\ Len(q) \in Nat
           /\ \A i \in 1..Len(Tail(q)) : i \in Nat /\ i + 1 \in 1..Len(q) /\ Tail(q)[i] = q[i + 1]
  BY HeadTailProperties, LenProperties

(* forwardEvents takes one event. *)
LEMMA ReceiveKeepsEvents ==
    ASSUME TypeOK, BridgeInv, EventInv, NEW s \in Sessions, Receive(s)
    PROVE  EventInv'
<1> DEFINE e == Head(queue[s])
<1>1. /\ fpc[s] = "recv" /\ queue[s] \in Seq(Events) /\ queue[s] # <<>> /\ queue'[s] = Tail(queue[s])
      /\ UNCHANGED <<configSent, traffic, outcome, core, cpc, call, bcore, wgApplied>>
      /\ \A t \in Sessions \ {s} : queue'[t] = queue[t]
  BY DEF Receive, TypeOK, appVars, coreVars
<1>2. bcore = s /\ s # 0
  BY <1>1, ConstAssumption DEF BridgeInv, ForwarderInv, Forwarding, Holding, Sessions
<1>3. /\ e = queue[s][1] /\ 1 \in 1..Len(queue[s])
      /\ \A i \in 1..Len(queue'[s]) : i \in Nat /\ i + 1 \in 1..Len(queue[s]) /\ queue'[s][i] = queue[s][i + 1]
  BY <1>1, TailShape
<1> HIDE DEF e
<1>4. QueueInv(s) /\ PhaseInv(s) /\ FlagInv
  BY DEF EventInv
(* What is left of the channel. *)
<1>5. ASSUME NEW i \in 1..Len(queue'[s])
      PROVE  /\ queue'[s][i] = "confirmed" => traffic[s]
             /\ queue'[s][i] = "config" =>
                  /\ configSent[s] /\ outcome[s] = "none" /\ e # "config"
                  /\ \A j \in 1..Len(queue'[s]) : queue'[s][j] = "config" => j = i
             /\ queue'[s][i] = "connecting" =>
                  /\ told[s] = <<>> /\ core[s] \notin Unborn /\ e = "other"
                  /\ \A j \in 1..Len(queue'[s]) :
                       (j < i => queue'[s][j] = "other") /\ (queue'[s][j] = "connecting" => j = i)
  <2>1. PICK k \in 1..Len(queue[s]) : k = i + 1 /\ queue'[s][i] = queue[s][k] /\ i \in Nat /\ 1 < k
    BY <1>3, <1>5
  <2>2. queue'[s][i] = "confirmed" => traffic[s]
    BY <1>4, <2>1 DEF QueueInv
  <2>3. ASSUME queue'[s][i] = "config"
        PROVE  /\ configSent[s] /\ outcome[s] = "none" /\ e # "config"
               /\ \A j \in 1..Len(queue'[s]) : queue'[s][j] = "config" => j = i
    <3>1. \A j \in 1..Len(queue[s]) : queue[s][j] = "config" => j = k
      BY <1>4, <2>1, <2>3 DEF QueueInv
    <3>2. configSent[s] /\ outcome[s] = "none"
      BY <1>4, <2>1, <2>3 DEF QueueInv
    <3>3. e # "config"
      BY <1>3, <2>1, <3>1
    <3>4. ASSUME NEW j \in 1..Len(queue'[s]), queue'[s][j] = "config" PROVE j = i
      <4>1. j + 1 = k /\ j \in Nat
        BY <1>3, <3>1, <3>4
      <4> QED
        BY <2>1, <4>1
    <3> QED
      BY <3>2, <3>3, <3>4
  <2>4. ASSUME queue'[s][i] = "connecting"
        PROVE  /\ told[s] = <<>> /\ core[s] \notin Unborn /\ e = "other"
               /\ \A j \in 1..Len(queue'[s]) :
                    (j < i => queue'[s][j] = "other") /\ (queue'[s][j] = "connecting" => j = i)
    <3>1. \A j \in 1..Len(queue[s]) : (j < k => queue[s][j] = "other") /\ (queue[s][j] = "connecting" => j = k)
      BY <1>4, <2>1, <2>4 DEF QueueInv
    <3>2. told[s] = <<>> /\ core[s] \notin Unborn
      BY <1>4, <2>1, <2>4 DEF QueueInv
    <3>3. e = "other"
      BY <1>3, <2>1, <3>1
    <3>4. ASSUME NEW j \in 1..Len(queue'[s]) PROVE (j < i => queue'[s][j] = "other") /\ (queue'[s][j] = "connecting" => j = i)
      <4>1. j \in Nat /\ j + 1 \in 1..Len(queue[s]) /\ queue'[s][j] = queue[s][j + 1]
        BY <1>3, <3>4
      <4>2. (j + 1 < k => queue[s][j + 1] = "other") /\ (queue[s][j + 1] = "connecting" => j + 1 = k)
        BY <3>1, <4>1
      <4> QED
        BY <2>1, <4>1, <4>2
    <3> QED
      BY <3>2, <3>3, <3>4
  <2> QED
    BY <2>2, <2>3, <2>4
<1>6. ASSUME QueueInv(s)', PhaseInv(s)', FlagInv', \A t \in Sessions \ {s} : told'[t] = told[t] /\ fpc'[t] = fpc[t]
      PROVE  EventInv'
  BY <1>1, <1>6, QuietSession DEF EventInv
<1>7. CASE e = "connecting" /\ Tell(s, "connecting") /\ UNCHANGED <<fpc, published>>
  <2>1. told[s] = <<>>
    BY <1>3, <1>4, <1>7 DEF QueueInv
  <2>2. told'[s] = Append(<<>>, "connecting") /\ \A t \in Sessions \ {s} : told'[t] = told[t]
    BY <1>7, <2>1 DEF Tell, TypeOK
  <2>3. told'[s] \in Early /\ told'[s] \in Open /\ told'[s] \notin Successful
    BY <2>2, Words
  <2>4. QueueInv(s)'
    BY <1>1, <1>5, <1>7 DEF QueueInv
  <2>5. PhaseInv(s)'
    BY <1>1, <1>4, <1>7, <2>3 DEF PhaseInv
  <2>6. FlagInv'
    BY <1>1, <1>2, <1>4, <1>7, <2>3 DEF FlagInv
  <2> QED
    BY <1>6, <1>7, <2>2, <2>4, <2>5, <2>6
<1>8. CASE e = "config" /\ GoTo(s, "applying") /\ UNCHANGED <<told, published>>
  <2>1. configSent[s] /\ outcome[s] = "none"
    BY <1>3, <1>4, <1>8 DEF QueueInv
  <2>2. fpc'[s] = "applying" /\ \A t \in Sessions \ {s} : fpc'[t] = fpc[t]
    BY <1>8 DEF GoTo, TypeOK
  <2>3. QueueInv(s)'
    BY <1>1, <1>5, <1>8, <2>2 DEF QueueInv
  <2>4. PhaseInv(s)'
    BY <1>1, <1>4, <1>8, <2>1, <2>2 DEF PhaseInv, Unborn
  <2>5. FlagInv'
    BY <1>1, <1>2, <1>4, <1>8, <2>2 DEF FlagInv
  <2> QED
    BY <1>6, <1>8, <2>2, <2>3, <2>4, <2>5
<1>9. CASE e = "confirmed" /\ PublishNow /\ published' = TRUE /\ GoTo(s, "announce") /\ UNCHANGED told
  <2>1. traffic[s] /\ outcome[s] = "ok" /\ told[s] \in Early
    BY <1>2, <1>3, <1>4, <1>9 DEF QueueInv, FlagInv, PublishNow
  <2>2. fpc'[s] = "announce" /\ \A t \in Sessions \ {s} : fpc'[t] = fpc[t]
    BY <1>9 DEF GoTo, TypeOK
  <2>3. QueueInv(s)'
    BY <1>1, <1>5, <1>9, <2>2 DEF QueueInv
  <2>4. PhaseInv(s)'
    BY <1>1, <1>4, <1>9, <2>1, <2>2 DEF PhaseInv
  <2>5. FlagInv'
    BY <1>1, <1>4, <1>9 DEF FlagInv
  <2> QED
    BY <1>6, <1>9, <2>2, <2>3, <2>4, <2>5
<1>10. CASE UNCHANGED <<fpc, told, published>>
  <2>1. QueueInv(s)'
    BY <1>1, <1>5, <1>10 DEF QueueInv
  <2>2. PhaseInv(s)' /\ FlagInv'
    BY <1>1, <1>4, <1>10 DEF PhaseInv, FlagInv
  <2> QED
    BY <1>6, <1>10, <2>1, <2>2
<1> QED
  BY <1>7, <1>8, <1>9, <1>10 DEF Receive, e

(* The other steps of forwardEvents. *)
LEMMA ForwardKeepsEvents ==
    ASSUME TypeOK, BridgeInv, EventInv, NEW s \in Sessions, ForwardStep(s)
    PROVE  EventInv'
<1> USE DEF appVars, bridgeVars, coreVars
<1>1. QueueInv(s) /\ PhaseInv(s) /\ FlagInv /\ \A t \in Sessions : QueueInv(t) /\ PhaseInv(t)
  BY DEF EventInv
<1>2. fpc[s] \in Holding => bcore = s
  BY DEF BridgeInv, ForwarderInv, Forwarding
<1>3. bcore # 0 => bcore \in Sessions /\ fpc[bcore] \in Holding
  BY ConstAssumption DEF BridgeInv, ForwarderInv, Forwarding, TypeOK, Sessions
<1>4. \A to : GoTo(s, to) => fpc'[s] = to /\ \A t \in Sessions \ {s} : fpc'[t] = fpc[t]
  BY DEF GoTo, TypeOK
<1>5. \A status : Tell(s, status) =>
        told'[s] = Append(told[s], status) /\ \A t \in Sessions \ {s} : told'[t] = told[t]
  BY DEF Tell, TypeOK
<1>6. CASE Receive(s)
  BY <1>6, ReceiveKeepsEvents
<1>7. CASE Announce(s)
  <2>1. /\ UNCHANGED <<queue, configSent, traffic, outcome, core, cpc, call, bcore, wgApplied, published>>
        /\ fpc[s] = "announce" /\ Tell(s, "connected") /\ GoTo(s, "recv")
    BY <1>7 DEF Announce
  <2>2. bcore = s /\ published
    <3>1. bcore = s
      BY <1>2, <2>1 DEF Holding
    <3>2. s # 0
      BY ConstAssumption DEF Sessions
    <3>3. QED BY <1>1, <2>1, <3>1, <3>2 DEF FlagInv
  <2>3. told[s] \in Early /\ outcome[s] = "ok" /\ traffic[s] /\ told'[s] \in Open
    BY <1>1, <1>5, <2>1, Words DEF PhaseInv
  <2>4. QueueInv(s)'
    BY <1>1, <1>4, <2>1 DEF QueueInv
  <2>5. PhaseInv(s)'
    BY <1>1, <1>4, <2>1, <2>3 DEF PhaseInv
  <2>6. FlagInv'
    BY <1>1, <2>1, <2>2 DEF FlagInv
  <2> QED
    BY <1>1, <1>4, <1>5, <2>1, <2>4, <2>5, <2>6, QuietSession DEF EventInv
<1>8. CASE ApplyUp(s)
  <2>1. /\ UNCHANGED <<queue, configSent, traffic, outcome, told, core, cpc, call, bcore, wgApplied, published>>
        /\ fpc[s] = "applying" /\ GoTo(s, "up")
    BY <1>8 DEF ApplyUp
  <2>2. QueueInv(s)' /\ PhaseInv(s)'
    BY <1>1, <1>4, <2>1 DEF QueueInv, PhaseInv, Unborn
  <2>3. FlagInv'
    BY <1>1, <1>3, <1>4, <2>1 DEF FlagInv
  <2> QED
    BY <1>1, <1>4, <2>1, <2>2, <2>3, QuietSession DEF EventInv
<1>9. CASE ApplyOK(s) \/ ApplyError(s)
  <2>1. /\ UNCHANGED <<queue, configSent, traffic, told, core, cpc, call, bcore, published>>
        /\ fpc[s] \in {"applying", "up"} /\ GoTo(s, "recv")
    BY <1>9 DEF ApplyOK, ApplyError
  <2>2. /\ \A t \in Sessions \ {s} : outcome'[t] = outcome[t]
        /\ outcome'[s] = "ok" \/ (outcome'[s] = "error" /\ UNCHANGED wgApplied)
    BY <1>9 DEF ApplyOK, ApplyError, TypeOK
  <2>3. bcore = s /\ outcome[s] = "none" /\ configSent[s] /\ told[s] \notin Successful
    BY <1>1, <1>2, <2>1 DEF PhaseInv, Holding
  <2>4. QueueInv(s)'
    BY <1>1, <1>4, <2>1 DEF QueueInv
  <2>5. PhaseInv(s)'
    BY <1>1, <1>4, <2>1, <2>3 DEF PhaseInv, Unborn
  <2>6. FlagInv'
    BY <1>1, <1>4, <2>1, <2>2, <2>3 DEF FlagInv
  <2> QED
    BY <1>1, <1>4, <2>1, <2>2, <2>4, <2>5, <2>6, QuietSession DEF EventInv
<1>10. CASE Drained(s) \/ FinalTeardown(s) \/ Reset(s)
  <2>1. /\ UNCHANGED <<queue, configSent, traffic, outcome, told, core, cpc, call>>
        /\ bcore' = 0 \/ UNCHANGED <<bcore, wgApplied, published>>
        /\ \E to \in {"teardown", "reset", "notify"} : GoTo(s, to)
        /\ fpc[s] \in {"teardown", "reset"} \/ (fpc[s] = "recv" /\ queue[s] = <<>>)
    BY <1>10 DEF Drained, FinalTeardown, Reset
  <2>2. fpc'[s] \in {"teardown", "reset", "notify"} /\ \A t \in Sessions \ {s} : fpc'[t] = fpc[t]
    BY <1>4, <2>1
  <2>3. QueueInv(s)'
    BY <1>1, <2>1, <2>2 DEF QueueInv
  <2>4. PhaseInv(s)'
    BY <1>1, <2>1, <2>2 DEF PhaseInv, Unborn
  <2>5. FlagInv'
    BY <1>1, <1>3, <2>1, <2>2 DEF FlagInv
  <2> QED
    BY <1>1, <2>1, <2>2, <2>3, <2>4, <2>5, QuietSession DEF EventInv
<1>11. CASE Notify(s)
  <2>1. /\ UNCHANGED <<queue, configSent, traffic, outcome, core, cpc, call, bcore, wgApplied, published>>
        /\ fpc[s] = "notify" /\ Tell(s, "disconnected") /\ GoTo(s, "done")
    BY <1>11 DEF Notify
  <2>2. told[s] \in Open /\ told'[s] = Append(told[s], "disconnected")
    BY <1>1, <1>5, <2>1 DEF PhaseInv
  <2>3. told'[s] \in Successful => outcome[s] = "ok" /\ traffic[s]
    BY <1>1, <2>2, Words DEF PhaseInv
  <2>4. QueueInv(s)'
    BY <1>1, <1>4, <2>1 DEF QueueInv
  <2>5. PhaseInv(s)'
    BY <1>1, <1>4, <2>1, <2>2, <2>3 DEF PhaseInv, Unborn
  <2>6. FlagInv'
    <3>1. bcore # 0 => bcore \in Sessions \ {s}
      BY <1>3, <2>1 DEF Holding
    <3> QED
      BY <1>1, <1>4, <1>5, <2>1, <3>1 DEF FlagInv
  <2> QED
    BY <1>1, <1>4, <1>5, <2>1, <2>4, <2>5, <2>6, QuietSession DEF EventInv
<1> QED
  BY <1>6, <1>7, <1>8, <1>9, <1>10, <1>11 DEF ForwardStep

(* EventInv holds in every reachable state. *)
LEMMA EventsHold == Spec => []EventInv
<1>1. Init => EventInv
  BY Words DEF Init, EventInv, FlagInv, QueueInv, PhaseInv, Sessions
<1>2. TypeOK /\ BridgeInv /\ EventInv /\ [Next]_vars => EventInv'
  <2> SUFFICES ASSUME TypeOK, BridgeInv, EventInv, [Next]_vars PROVE EventInv'
    OBVIOUS
  <2> USE DEF appVars, bridgeVars, coreVars, fwdVars, discVars
  <2>1. ASSUME UNCHANGED <<queue, configSent, traffic, outcome, told, fpc, core, call, bcore, wgApplied, published>>,
               cpc' = cpc \/ cpc' # "install"
        PROVE  EventInv'
    BY <2>1, QuietSession DEF EventInv, FlagInv
  <2>2. CASE UserStep
    <3>1. UNCHANGED <<queue, configSent, traffic, outcome, told, fpc, core, bcore, wgApplied, published>>
      BY <2>2 DEF UserStep, ConnectBegin, DisconnectBegin
    <3>2. UNCHANGED <<call, cpc>> \/ cpc' = "preflight"
      BY <2>2 DEF UserStep, ConnectBegin, DisconnectBegin
    <3> QED
      BY <3>1, <3>2, QuietSession DEF EventInv, FlagInv
  <2>3. CASE ConnectStep
    BY <2>3, ConnectKeepsEvents
  <2>4. ASSUME NEW s \in Sessions, CoreStep(s) PROVE EventInv'
    BY <2>4, CoreKeepsEvents
  <2>5. ASSUME NEW s \in Sessions, ForwardStep(s) PROVE EventInv'
    BY <2>5, ForwardKeepsEvents
  <2>6. ASSUME NEW s \in Sessions, AsyncStop(s) PROVE EventInv'
    BY <2>1, <2>6 DEF AsyncStop
  <2>7. ASSUME NEW d \in Callers, DisconnectStep(d) PROVE EventInv'
    BY <2>1, <2>7 DEF DisconnectStep, ReadCore, UserTeardown, UserStop
  <2>8. CASE Shutdown \/ ProcessExit \/ UNCHANGED vars
    BY <2>1, <2>8 DEF Shutdown, ProcessExit, vars
  <2> QED
    BY <2>2, <2>3, <2>4, <2>5, <2>6, <2>7, <2>8 DEF Next
<1> QED
  BY <1>1, <1>2, TypeCorrect, InvariantHolds, PTL DEF Spec

(* Every session is told connecting, connected, disconnected in this order and each at most     *)
(* once, for any capacity of the channel and whatever it loses (core.emit, forwardEvents).        *)
THEOREM StatusesInOrder == Spec => []StatusOrder
<1>1. EventInv => StatusOrder
  <2> SUFFICES ASSUME EventInv, NEW s \in Sessions
               PROVE  told[s] \in {<<>>, <<"connecting">>, <<"connected">>, <<"disconnected">>,
                                   <<"connecting", "connected">>, <<"connecting", "disconnected">>,
                                   <<"connected", "disconnected">>,
                                   <<"connecting", "connected", "disconnected">>}
    BY DEF StatusOrder
  <2>1. told[s] \in Open \/ \E before \in Open : told[s] = Append(before, "disconnected")
    BY DEF EventInv, PhaseInv
  <2>2. /\ Append(<<>>, "disconnected") = <<"disconnected">>
        /\ Append(<<"connecting">>, "disconnected") = <<"connecting", "disconnected">>
        /\ Append(<<"connected">>, "disconnected") = <<"connected", "disconnected">>
        /\ Append(<<"connecting", "connected">>, "disconnected") = <<"connecting", "connected", "disconnected">>
    BY OneWord, TwoWords, ThreeWords, Zenon
  <2> QED
    BY <2>1, <2>2, Zenon DEF Open, Early
<1> QED
  BY <1>1, EventsHold, PTL

(* "connected" is published only after the own Apply succeeded and packets passed both ways      *)
(* (bridge.go: publishConnected, tunnelTrafficConfirmed).                                          *)
THEOREM EveryConnectedIsEarned == Spec => []ConnectedIsEarned
<1>1. EventInv /\ StatusOrder => ConnectedIsEarned
  <2> SUFFICES ASSUME EventInv, StatusOrder, NEW s \in Sessions, NEW i \in DOMAIN told[s], told[s][i] = "connected"
               PROVE  outcome[s] = "ok" /\ traffic[s]
    BY DEF ConnectedIsEarned
  <2>1. /\ told[s] # <<>> /\ told[s] # <<"connecting">> /\ told[s] # <<"disconnected">>
        /\ told[s] # <<"connecting", "disconnected">>
    OBVIOUS
  <2>2. told[s] \in Successful
    BY <2>1, Zenon DEF StatusOrder, Successful
  <2> QED
    BY <2>2 DEF EventInv, PhaseInv
<1> QED
  BY <1>1, EventsHold, StatusesInOrder, PTL
=============================================================================
