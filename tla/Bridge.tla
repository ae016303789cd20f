-------------------------------- MODULE Bridge --------------------------------
(***************************************************************************)
(* The connection lifecycle of the client: App.Connect, App.Disconnect and   *)
(* App.Shutdown (backend/app.go), the Bridge that owns one Core at a time    *)
(* (backend/bridge.go), the Core's start, stop and event channel             *)
(* (core/main.go), and the WireGuard interface they all touch                *)
(* (backend/wg.go).                                                          *)
(*                                                                           *)
(* Every goroutine has a program counter, and a step ends wherever the code  *)
(* releases a mutex, blocks, or calls into another component:                *)
(*   - cpc     the goroutine of the one App.Connect that holds connectCancel *)
(*   - dpc[d]  the goroutine of an App.Disconnect call (Wails runs each       *)
(*             binding call on a goroutine of its own, so several may run)   *)
(*   - fpc[s]  forwardEvents of session s                                    *)
(*   - core[s] the run goroutine of core.start of session s                  *)
(*   - pendingStop[s]  the goroutine of "go c.Stop()" after a failed Apply   *)
(*   - proc    the process: App.Shutdown and the exit that follows it        *)
(*                                                                           *)
(* A session is the Core that one App.Connect call creates and is numbered   *)
(* by that call.  MaxCalls bounds the calls, QueueCap the event channel.      *)
(***************************************************************************)
EXTENDS Naturals, Sequences

CONSTANTS
    MaxCalls,   \* how many App.Connect calls are followed (bound of the model)
    Callers,    \* goroutines that run App.Disconnect
    QueueCap    \* capacity of Core.events (1024 in core.New)

ASSUME ConstAssumption ==
    /\ MaxCalls \in Nat \ {0}
    /\ QueueCap \in Nat \ {0}

Sessions == 1..MaxCalls

(* The events whose order and loss matter to the lifecycle.  "confirmed" is   *)
(* an EventStats with active workers and bytes in both directions             *)
(* (tunnelTrafficConfirmed); "other" is every event that changes no state of  *)
(* the Bridge: logs, progress, diagnostics, CAPTCHA, stats without traffic.   *)
Events == {"connecting", "config", "confirmed", "other"}

VARIABLES
    call,          \* number of App.Connect calls accepted so far
    cpc,           \* where that call is: "idle", "preflight", "enter", "start", "install"
    cancelled,     \* its connectCtx is cancelled (FALSE again once connectCancel is nil)
    running,       \* Bridge.running
    bcore,         \* Bridge.core as a session number, 0 for nil
    wgApplied,     \* Bridge.wgApplied
    published,     \* Bridge.connectedPublished
    core,          \* [Sessions -> phase of the Core]
    stopped,       \* [Sessions -> the Core's context is cancelled]
    configSent,    \* [Sessions -> the one wg_config was emitted]
    traffic,       \* [Sessions -> both byte counters are positive]
    queue,         \* [Sessions -> Core.events]
    fpc,           \* [Sessions -> where forwardEvents is]
    pendingStop,   \* [Sessions -> a "go c.Stop()" has not run yet]
    dpc,           \* [Callers -> where App.Disconnect is]
    dcore,         \* [Callers -> the Core that Bridge.Disconnect read, 0 for nil]
    tunnel,        \* the session whose interface exists, 0 for none
    proc,          \* "running", "torn" (after Shutdown's Teardown), "exited"
    told,          \* history: the state_changed statuses published per session
    outcome        \* history: what Apply returned per session: "none", "ok", "error"

appVars  == <<call, cpc, cancelled>>
bridgeVars == <<running, bcore, wgApplied, published>>
coreVars == <<core, stopped, configSent, traffic>>
discVars == <<dpc, dcore>>
fwdVars  == <<fpc, told, outcome>>
vars == <<appVars, bridgeVars, coreVars, queue, fwdVars, pendingStop, discVars, tunnel, proc>>

CorePhases == {"unborn", "starting", "live", "draining", "closed", "failed"}
ForwardPhases == {"none", "recv", "announce", "applying", "up", "teardown", "reset", "notify", "done"}

(* forwardEvents runs and still holds the Bridge. *)
Holding == {"recv", "announce", "applying", "up", "teardown", "reset"}
Forwarding(s) == fpc[s] \in Holding

(* bridge.Connect is past its check of b.running and has not returned. *)
Opening == cpc \in {"start", "install"}

Alive == proc # "exited"
-----------------------------------------------------------------------------
Init ==
    /\ call = 0 /\ cpc = "idle" /\ cancelled = FALSE
    /\ running = FALSE /\ bcore = 0 /\ wgApplied = FALSE /\ published = FALSE
    /\ core = [s \in Sessions |-> "unborn"]
    /\ stopped = [s \in Sessions |-> FALSE]
    /\ configSent = [s \in Sessions |-> FALSE]
    /\ traffic = [s \in Sessions |-> FALSE]
    /\ queue = [s \in Sessions |-> <<>>]
    /\ fpc = [s \in Sessions |-> "none"]
    /\ told = [s \in Sessions |-> <<>>]
    /\ outcome = [s \in Sessions |-> "none"]
    /\ pendingStop = [s \in Sessions |-> FALSE]
    /\ dpc = [d \in Callers |-> "idle"]
    /\ dcore = [d \in Callers |-> 0]
    /\ tunnel = 0 /\ proc = "running"
-----------------------------------------------------------------------------
(***************************************************************************)
(* Core.emit                                                                *)
(***************************************************************************)

(* What one emit may make of the channel q.  It tries to send; if the channel is  *)
(* full it receives one event, the oldest, whatever it is, and tries again.  The  *)
(* three operations are not one step: if another goroutine takes the slot that    *)
(* was freed, e itself is lost, and if the reader makes room after the first       *)
(* attempt, the oldest event is thrown away for nothing.                           *)
Emitted(q, e) ==
    (IF Len(q) < QueueCap THEN {Append(q, e)} ELSE {q})
        \cup (IF q # <<>> THEN {Append(Tail(q), e)} ELSE {})

Emit(s, e) == \E q \in Emitted(queue[s], e) : queue' = [queue EXCEPT ![s] = q]
-----------------------------------------------------------------------------
(***************************************************************************)
(* App.Connect and Bridge.Connect                                           *)
(***************************************************************************)

(* App.Connect takes connectCancel.  A call made while another one holds it   *)
(* returns an error and changes nothing, so it is no step here.               *)
ConnectBegin ==
    /\ cpc = "idle"
    /\ call < MaxCalls
    /\ call' = call + 1
    /\ cpc' = "preflight"
    /\ UNCHANGED <<cancelled, bridgeVars, coreVars, queue, fwdVars, pendingStop, discVars, tunnel>>

(* App.Connect returns, and its deferred call sets connectCancel to nil. *)
ConnectReturns == cpc' = "idle" /\ cancelled' = FALSE

(* prepareVKHashes returns: with an error, or cancelled, or with the hashes. *)
Preflight ==
    /\ cpc = "preflight"
    /\ \/ ConnectReturns
       \/ ~cancelled /\ cpc' = "enter" /\ UNCHANGED cancelled
    /\ UNCHANGED <<call, bridgeVars, coreVars, queue, fwdVars, pendingStop, discVars, tunnel>>

(* bridge.Connect entered although a session runs: the missing check. *)
BridgeEnterUnchecked ==
    /\ cpc = "enter"
    /\ running' = TRUE /\ wgApplied' = FALSE /\ published' = FALSE
    /\ cpc' = "start"
    /\ core' = [core EXCEPT ![call] = "starting"]
    /\ UNCHANGED <<call, cancelled, bcore, stopped, configSent, traffic,
                   queue, fwdVars, pendingStop, discVars, tunnel>>

(* bridge.Connect up to the first Unlock: one session at a time. *)
BridgeEnter ==
    /\ cpc = "enter"
    /\ IF running
         THEN /\ ConnectReturns
              /\ UNCHANGED <<bridgeVars, core>>
         ELSE /\ running' = TRUE /\ wgApplied' = FALSE /\ published' = FALSE
              /\ cpc' = "start"
              /\ core' = [core EXCEPT ![call] = "starting"]
              /\ UNCHANGED <<bcore, cancelled>>
    /\ UNCHANGED <<call, stopped, configSent, traffic,
                   queue, fwdVars, pendingStop, discVars, tunnel>>

(* No hashes, or core.Start fails: validation, the resolver, the local socket. *)
StartFail ==
    /\ cpc = "start"
    /\ core' = [core EXCEPT ![call] = "failed"]
    /\ stopped' = [stopped EXCEPT ![call] = TRUE]
    /\ running' = FALSE /\ wgApplied' = FALSE /\ published' = FALSE
    /\ ConnectReturns
    /\ UNCHANGED <<call, bcore, configSent, traffic,
                   queue, fwdVars, pendingStop, discVars, tunnel>>

(* core.start succeeds: it emits "connecting" and starts its goroutines.  The *)
(* Bridge does not know this Core yet: b.core is still nil.                    *)
StartOK ==
    /\ cpc = "start"
    /\ core' = [core EXCEPT ![call] = "live"]
    /\ Emit(call, "connecting")
    /\ cpc' = "install"
    /\ UNCHANGED <<call, cancelled, bridgeVars, stopped, configSent, traffic,
                   fwdVars, pendingStop, discVars, tunnel>>

(* The second critical section of bridge.Connect, and "go forwardEvents"; both  *)
(* Connects return.                                                             *)
Install ==
    /\ cpc = "install"
    /\ bcore' = call
    /\ running' = TRUE /\ wgApplied' = FALSE /\ published' = FALSE
    /\ fpc' = [fpc EXCEPT ![call] = "recv"]
    /\ ConnectReturns
    /\ UNCHANGED <<call, coreVars, queue, told, outcome, pendingStop, discVars, tunnel>>

ConnectStep ==
    /\ Alive
    /\ Preflight \/ BridgeEnter \/ StartFail \/ StartOK \/ Install
    /\ UNCHANGED proc
-----------------------------------------------------------------------------
(***************************************************************************)
(* The Core                                                                 *)
(***************************************************************************)
Producing(s) == core[s] \in {"live", "draining"}

(* The configCh goroutine of core.start: at most one wg_config per Core. *)
EmitConfig(s) ==
    /\ Producing(s)
    /\ ~configSent[s]
    /\ configSent' = [configSent EXCEPT ![s] = TRUE]
    /\ Emit(s, "config")
    /\ UNCHANGED <<appVars, bridgeVars, core, stopped, traffic, fwdVars, pendingStop, discVars, tunnel>>

(* A tick of Stats.RunLoop: the counters are cumulative, so once both are      *)
(* positive every tick with an active worker confirms the traffic.            *)
EmitStats(s) ==
    /\ Producing(s)
    /\ traffic[s]
    /\ Emit(s, "confirmed")
    /\ UNCHANGED <<appVars, bridgeVars, coreVars, fwdVars, pendingStop, discVars, tunnel>>

(* Any other event of the Core: core.start already reports the name lookup. *)
EmitOther(s) ==
    /\ core[s] = "starting" \/ Producing(s)
    /\ Emit(s, "other")
    /\ UNCHANGED <<appVars, bridgeVars, coreVars, fwdVars, pendingStop, discVars, tunnel>>

(* Packets pass in both directions.  The Dispatcher counts only what it reads   *)
(* from and writes to the local socket the interface is connected to.          *)
CarryTraffic(s) ==
    /\ core[s] = "live"
    /\ tunnel = s
    /\ ~traffic[s]
    /\ traffic' = [traffic EXCEPT ![s] = TRUE]
    /\ UNCHANGED <<appVars, bridgeVars, core, stopped, configSent, queue, fwdVars, pendingStop, discVars, tunnel>>

(* wg.Wait returns: every WorkerGroup ended, after a Stop or because no worker *)
(* is left; the deferred cancel runs.                                          *)
CoreExit(s) ==
    /\ core[s] = "live"
    /\ core' = [core EXCEPT ![s] = "draining"]
    /\ stopped' = [stopped EXCEPT ![s] = TRUE]
    /\ UNCHANGED <<appVars, bridgeVars, configSent, traffic, queue, fwdVars, pendingStop, discVars, tunnel>>

(* The last deferred call: close(c.events). *)
CoreClose(s) ==
    /\ core[s] = "draining"
    /\ core' = [core EXCEPT ![s] = "closed"]
    /\ UNCHANGED <<appVars, bridgeVars, stopped, configSent, traffic, queue, fwdVars, pendingStop, discVars, tunnel>>

CoreStep(s) ==
    /\ Alive
    /\ EmitConfig(s) \/ EmitStats(s) \/ EmitOther(s) \/ CarryTraffic(s) \/ CoreExit(s) \/ CoreClose(s)
    /\ UNCHANGED proc

(* The part of it that must happen: a cancelled Core unwinds. *)
CoreUnwind(s) ==
    /\ Alive
    /\ (stopped[s] /\ CoreExit(s)) \/ CoreClose(s)
    /\ UNCHANGED proc
-----------------------------------------------------------------------------
(***************************************************************************)
(* forwardEvents                                                            *)
(***************************************************************************)
Tell(s, status) == told' = [told EXCEPT ![s] = Append(@, status)]

GoTo(s, phase) == fpc' = [fpc EXCEPT ![s] = phase]

(* The test of b.connectedPublished dropped from publishConnected. *)
PublishNowAgain == wgApplied

(* publishConnected, for an event that tunnelTrafficConfirmed accepts. *)
PublishNow == wgApplied /\ ~published

(* One event taken from the channel.  Apply begins by removing what an earlier *)
(* session may have left; the announcement of "connected" happens after the     *)
(* mutex is released.                                                           *)
Receive(s) ==
    /\ fpc[s] = "recv"
    /\ queue[s] # <<>>
    /\ queue' = [queue EXCEPT ![s] = Tail(@)]
    /\ LET e == Head(queue[s]) IN
         \/ /\ e = "connecting"
            /\ Tell(s, "connecting")
            /\ UNCHANGED <<fpc, published, tunnel>>
         \/ /\ e = "config"
            /\ GoTo(s, "applying")
            /\ tunnel' = 0
            /\ UNCHANGED <<told, published>>
         \/ /\ e = "confirmed" /\ PublishNow
            /\ published' = TRUE
            /\ GoTo(s, "announce")
            /\ UNCHANGED <<told, tunnel>>
         \/ /\ e = "other" \/ (e = "confirmed" /\ ~PublishNow)
            /\ UNCHANGED <<fpc, told, published, tunnel>>
    /\ UNCHANGED <<appVars, running, bcore, wgApplied, coreVars, outcome, pendingStop, discVars>>

(* onEvent("state_changed", "connected") *)
Announce(s) ==
    /\ fpc[s] = "announce"
    /\ Tell(s, "connected")
    /\ GoTo(s, "recv")
    /\ UNCHANGED <<appVars, bridgeVars, coreVars, queue, outcome, pendingStop, discVars, tunnel>>

(* Inside wg.Apply the interface comes into existence. *)
ApplyUp(s) ==
    /\ fpc[s] = "applying"
    /\ tunnel' = s
    /\ GoTo(s, "up")
    /\ UNCHANGED <<appVars, bridgeVars, coreVars, queue, told, outcome, pendingStop, discVars>>

(* wg.Apply returns nil and b.wgApplied is set. *)
ApplyOK(s) ==
    /\ fpc[s] = "up"
    /\ wgApplied' = TRUE
    /\ outcome' = [outcome EXCEPT ![s] = "ok"]
    /\ GoTo(s, "recv")
    /\ UNCHANGED <<appVars, running, bcore, published, coreVars, queue, told, pendingStop, discVars, tunnel>>

(* The Core is left running after a failed Apply. *)
ApplyErrorKeepsCore(s) ==
    /\ fpc[s] \in {"applying", "up"}
    /\ outcome' = [outcome EXCEPT ![s] = "error"]
    /\ tunnel' \in {0, tunnel}
    /\ GoTo(s, "recv")
    /\ UNCHANGED <<appVars, bridgeVars, coreVars, queue, told, pendingStop, discVars>>

(* b.wgApplied is set although Apply failed. *)
ApplyErrorMarksApplied(s) ==
    /\ fpc[s] \in {"applying", "up"}
    /\ outcome' = [outcome EXCEPT ![s] = "error"]
    /\ tunnel' \in {0, tunnel}
    /\ wgApplied' = TRUE
    /\ GoTo(s, "recv")
    /\ UNCHANGED <<appVars, running, bcore, published, coreVars, queue, told, pendingStop, discVars>>

(* wg.Apply returns an error, before or after the interface exists.  Windows    *)
(* removes what was built, Linux and macOS leave it for the next Teardown.  The *)
(* Core that b.core names is stopped by a goroutine of its own.                 *)
ApplyError(s) ==
    /\ fpc[s] \in {"applying", "up"}
    /\ outcome' = [outcome EXCEPT ![s] = "error"]
    /\ tunnel' \in {0, tunnel}
    /\ pendingStop' = IF bcore = 0 THEN pendingStop ELSE [pendingStop EXCEPT ![bcore] = TRUE]
    /\ GoTo(s, "recv")
    /\ UNCHANGED <<appVars, bridgeVars, coreVars, queue, told, discVars>>

(* The range over the channel ends: it is closed and empty. *)
Drained(s) ==
    /\ fpc[s] = "recv"
    /\ queue[s] = <<>>
    /\ core[s] = "closed"
    /\ GoTo(s, "teardown")
    /\ UNCHANGED <<appVars, bridgeVars, coreVars, queue, told, outcome, pendingStop, discVars, tunnel>>

(* The last wg.Teardown forgotten. *)
FinalTeardownSkipped(s) ==
    /\ fpc[s] = "teardown"
    /\ GoTo(s, "reset")
    /\ UNCHANGED <<appVars, bridgeVars, coreVars, queue, told, outcome, pendingStop, discVars, tunnel>>

(* The wg.Teardown after the loop. *)
FinalTeardown(s) ==
    /\ fpc[s] = "teardown"
    /\ tunnel' = 0
    /\ GoTo(s, "reset")
    /\ UNCHANGED <<appVars, bridgeVars, coreVars, queue, told, outcome, pendingStop, discVars>>

(* The Bridge is free again, before the frontend is told. *)
Reset(s) ==
    /\ fpc[s] = "reset"
    /\ running' = FALSE /\ wgApplied' = FALSE /\ published' = FALSE
    /\ bcore' = 0
    /\ GoTo(s, "notify")
    /\ UNCHANGED <<appVars, coreVars, queue, told, outcome, pendingStop, discVars, tunnel>>

(* onEvent("state_changed", "disconnected") *)
Notify(s) ==
    /\ fpc[s] = "notify"
    /\ Tell(s, "disconnected")
    /\ GoTo(s, "done")
    /\ UNCHANGED <<appVars, bridgeVars, coreVars, queue, outcome, pendingStop, discVars, tunnel>>

ForwardStep(s) ==
    /\ Alive
    /\ \/ Receive(s) \/ Announce(s) \/ ApplyUp(s) \/ ApplyOK(s) \/ ApplyError(s)
       \/ Drained(s) \/ FinalTeardown(s) \/ Reset(s) \/ Notify(s)
    /\ UNCHANGED proc
-----------------------------------------------------------------------------
(***************************************************************************)
(* App.Disconnect, "go c.Stop()", App.Shutdown                              *)
(***************************************************************************)

(* App.Disconnect cancels the connectCtx of a Connect that is under way. *)
DisconnectBegin(d) ==
    /\ dpc[d] = "idle"
    /\ cancelled' = (cancelled \/ cpc # "idle")
    /\ dpc' = [dpc EXCEPT ![d] = "read"]
    /\ UNCHANGED <<call, cpc, bridgeVars, coreVars, queue, fwdVars, pendingStop, dcore, tunnel>>

(* Bridge.Disconnect copies b.core and lets the mutex go. *)
ReadCore(d) ==
    /\ dpc[d] = "read"
    /\ dcore' = [dcore EXCEPT ![d] = bcore]
    /\ dpc' = [dpc EXCEPT ![d] = "teardown"]
    /\ UNCHANGED <<appVars, bridgeVars, coreVars, queue, fwdVars, pendingStop, tunnel>>

(* wg.Teardown at once, without waiting for the Core. *)
UserTeardown(d) ==
    /\ dpc[d] = "teardown"
    /\ tunnel' = 0
    /\ dpc' = [dpc EXCEPT ![d] = "stop"]
    /\ UNCHANGED <<appVars, bridgeVars, coreVars, queue, fwdVars, pendingStop, dcore>>

(* The Core that was read is not stopped. *)
UserStopForgotten(d) ==
    /\ dpc[d] = "stop"
    /\ dpc' = [dpc EXCEPT ![d] = "idle"]
    /\ dcore' = [dcore EXCEPT ![d] = 0]
    /\ UNCHANGED <<appVars, bridgeVars, coreVars, queue, fwdVars, pendingStop, tunnel>>

(* c.Stop() on the Core that was read, if there was one; the call returns. *)
UserStop(d) ==
    /\ dpc[d] = "stop"
    /\ stopped' = IF dcore[d] = 0 THEN stopped ELSE [stopped EXCEPT ![dcore[d]] = TRUE]
    /\ dpc' = [dpc EXCEPT ![d] = "idle"]
    /\ dcore' = [dcore EXCEPT ![d] = 0]
    /\ UNCHANGED <<appVars, bridgeVars, core, configSent, traffic, queue, fwdVars, pendingStop, tunnel>>

DisconnectStep(d) ==
    /\ Alive
    /\ ReadCore(d) \/ UserTeardown(d) \/ UserStop(d)
    /\ UNCHANGED proc

(* The goroutine started after a failed Apply. *)
AsyncStop(s) ==
    /\ Alive
    /\ pendingStop[s]
    /\ pendingStop' = [pendingStop EXCEPT ![s] = FALSE]
    /\ stopped' = [stopped EXCEPT ![s] = TRUE]
    /\ UNCHANGED <<appVars, bridgeVars, core, configSent, traffic, queue, fwdVars, discVars, tunnel, proc>>

(* The frontend's requests; there is no frontend any more at shutdown. *)
UserStep ==
    /\ proc = "running"
    /\ ConnectBegin \/ \E d \in Callers : DisconnectBegin(d)
    /\ UNCHANGED proc

(* Wails calls OnShutdown once; it removes the interface and stops nothing. *)
Shutdown ==
    /\ proc = "running"
    /\ proc' = "torn"
    /\ tunnel' = 0
    /\ UNCHANGED <<appVars, bridgeVars, coreVars, queue, fwdVars, pendingStop, discVars>>

(* main returns; every goroutine ends where it stands, the interface of the     *)
(* Linux kernel and the routes and firewall rule of Windows do not.             *)
ProcessExit ==
    /\ proc = "torn"
    /\ proc' = "exited"
    /\ UNCHANGED <<appVars, bridgeVars, coreVars, queue, fwdVars, pendingStop, discVars, tunnel>>

Next ==
    \/ UserStep
    \/ ConnectStep
    \/ \E s \in Sessions : CoreStep(s) \/ ForwardStep(s) \/ AsyncStop(s)
    \/ \E d \in Callers : DisconnectStep(d)
    \/ Shutdown
    \/ ProcessExit

Spec == Init /\ [][Next]_vars

(* The Go scheduler runs every goroutine that can run.  Nothing is assumed of   *)
(* the user, of the events the Core chooses to emit, or of a Core that nobody   *)
(* stopped; core.Start returns (its lookup and its listen loop are bounded),    *)
(* and a Core whose context is cancelled unwinds.                               *)
Fairness ==
    /\ WF_vars(ConnectStep)
    /\ \A s \in Sessions :
         /\ WF_vars(CoreUnwind(s))
         /\ WF_vars(ForwardStep(s))
         /\ WF_vars(AsyncStop(s))
    /\ \A d \in Callers : WF_vars(DisconnectStep(d))
    /\ WF_vars(ProcessExit)

FairSpec == Spec /\ Fairness
-----------------------------------------------------------------------------
(***************************************************************************)
(* Properties                                                               *)
(***************************************************************************)

(* Types, and the channel never holds more than its capacity (core.New,       *)
(* Core.emit).                                                                *)
TypeOK ==
    /\ call \in 0..MaxCalls
    /\ cpc \in {"idle", "preflight", "enter", "start", "install"}
    /\ cancelled \in BOOLEAN /\ running \in BOOLEAN /\ wgApplied \in BOOLEAN /\ published \in BOOLEAN
    /\ bcore \in 0..MaxCalls
    /\ core \in [Sessions -> CorePhases]
    /\ stopped \in [Sessions -> BOOLEAN]
    /\ configSent \in [Sessions -> BOOLEAN]
    /\ traffic \in [Sessions -> BOOLEAN]
    /\ queue \in [Sessions -> Seq(Events)]
    /\ \A s \in Sessions : Len(queue[s]) <= QueueCap
    /\ fpc \in [Sessions -> ForwardPhases]
    /\ told \in [Sessions -> Seq({"connecting", "connected", "disconnected"})]
    /\ outcome \in [Sessions -> {"none", "ok", "error"}]
    /\ pendingStop \in [Sessions -> BOOLEAN]
    /\ dpc \in [Callers -> {"idle", "read", "teardown", "stop"}]
    /\ dcore \in [Callers -> 0..MaxCalls]
    /\ tunnel \in 0..MaxCalls
    /\ proc \in {"running", "torn", "exited"}

(* Two Cores never run at the same time: whatever order the calls, the failures *)
(* and the ends of sessions come in, a Core that is not closed is the only one.  *)
(* The logger, activeCore and the WireGuard interface are shared by all Cores.   *)
OneCore ==
    \A s, t \in Sessions :
        core[s] \in {"starting", "live", "draining"} /\ core[t] \in {"starting", "live", "draining"} => s = t

(* b.running is exact: set from the moment a Connect passed its check until      *)
(* forwardEvents of that session gave the Bridge back, and never longer, so a    *)
(* later Connect is neither refused for ever nor let in too early.               *)
RunningIsExact == running <=> Opening \/ \E s \in Sessions : Forwarding(s)

(* An interface never outlives the goroutine that will remove it: when one is    *)
(* up, forwardEvents of its session has its final wg.Teardown still before it.   *)
(* "Teardown ... гарантирует снятие временной IPv6-защиты" (bridge.go:288).       *)
TunnelHasKeeper ==
    tunnel # 0 => fpc[tunnel] \in Holding \ {"reset"}

(* The frontend hears of each session: connecting, connected, disconnected, in    *)
(* this order and each at most once, even if the full channel lost some of them.  *)
StatusOrder ==
    \A s \in Sessions :
        told[s] \in {<<>>, <<"connecting">>, <<"connected">>, <<"disconnected">>,
                     <<"connecting", "connected">>, <<"connecting", "disconnected">>,
                     <<"connected", "disconnected">>,
                     <<"connecting", "connected", "disconnected">>}

(* "connected" is earned: it is published only for a session whose own Apply      *)
(* succeeded and through whose interface packets passed both ways, never after a  *)
(* failed Apply ("приложение не переходит в ложное состояние VPN", README).        *)
ConnectedIsEarned ==
    \A s \in Sessions :
        (\E i \in DOMAIN told[s] : told[s][i] = "connected") => outcome[s] = "ok" /\ traffic[s]

(* A Disconnect that found the Core ends its session: the frontend is told        *)
(* "disconnected" unless the process exits first.                                 *)
Ended(s) == fpc[s] = "done" \/ ~Alive
FoundCoreEnds ==
    \A d \in Callers, s \in Sessions : (dpc[d] = "stop" /\ dcore[d] = s) ~> Ended(s)

(* A failed wg.Apply ends its session (the "go c.Stop()" of forwardEvents).        *)
FailedApplyEnds == \A s \in Sessions : (outcome[s] = "error") ~> Ended(s)

(* A connection whose connectCtx a Disconnect cancelled does not go on: its Core    *)
(* never runs, or ends and stays ended ("отсутствие продолжения подключения",        *)
(* docs/windows-captcha-e2e.md:31; "подключение отменено", app.go:115).               *)
CancelledConnectEnds ==
    \A s \in Sessions :
        (cancelled /\ cpc # "idle" /\ call = s)
            ~> [](core[s] \notin {"starting", "live", "draining"} \/ ~Alive)

(* App.Shutdown releases the external network state before the application ends    *)
(* (app.go:67): no interface is left when the process is gone.  The code does not    *)
(* do this: it does not wait for an Apply that is under way or still to come.         *)
ExitLeavesNoTunnel == proc = "exited" => tunnel = 0

(***************************************************************************)
(* The inductive invariant of BridgeProofs.tla: which goroutine is            *)
(* responsible for the Core that runs and for the running flag.               *)
(***************************************************************************)
(* Connect's own session has not been handed to a forwarder. *)
OpeningInv ==
    /\ cpc # "idle" => call \in Sessions /\ fpc[call] = "none"
    /\ cpc \in {"preflight", "enter"} => core[call] = "unborn"
    /\ cpc = "start" => core[call] = "starting"
    /\ \A s \in Sessions : core[s] = "starting" => cpc = "start" /\ s = call
    /\ \A s \in Sessions : s > call => core[s] = "unborn" /\ fpc[s] = "none"
    /\ Opening => running /\ bcore = 0

(* A running Core has somebody who will see its end. *)
CoreHasOwner ==
    \A s \in Sessions :
        core[s] \in {"live", "draining"} =>
            \/ fpc[s] \in {"recv", "announce", "applying", "up"}
            \/ cpc = "install" /\ s = call

(* The forwarder that holds the Bridge is the one of b.core. *)
ForwarderInv ==
    /\ \A s \in Sessions : Forwarding(s) => bcore = s /\ running /\ ~Opening
    /\ bcore # 0 => Forwarding(bcore)

(* While bridge.Connect is between its two critical sections it owns b.running,   *)
(* and afterwards forwardEvents of exactly the session in b.core owns it, with    *)
(* the Core and the interface of that session (bridge.go:43-110, 292-304).        *)
BridgeInv == OpeningInv /\ CoreHasOwner /\ ForwarderInv /\ RunningIsExact /\ TunnelHasKeeper

(* The lifecycle as its users see it: see Lifecycle.tla.                            *)
Place == INSTANCE Lifecycle WITH
    holder <- IF ~running THEN 0 ELSE IF bcore # 0 THEN bcore ELSE call,
    link <- tunnel,
    spent <- {s \in Sessions : core[s] # "unborn"}

ImplementsLifecycle == Place!AbsSpec
=============================================================================
