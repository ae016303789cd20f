----------------------------- MODULE TurnSession -----------------------------
(***************************************************************************)
(* The inside of RunSession (core/session.go): one main goroutine per        *)
(* session, the two goroutines between the TURN relay and the DTLS           *)
(* connection, the ticker, the three goroutines of the proxy, the two         *)
(* context.AfterFunc hooks that set the deadlines which wake them up, and the *)
(* semaphore handshakeSem that all sessions share.  The sessions of the        *)
(* remaining workers and probes are seen only through that semaphore.          *)
(*                                                                           *)
(* A goroutine is "none" before it starts, "run" while it runs or blocks, and *)
(* "ended".  The reader of the DTLS connection is followed step by step,      *)
(* because it sets its own deadline again before every read.                  *)
(***************************************************************************)
EXTENDS Naturals, FiniteSets

CONSTANTS
    Sessions,      \* the calls of RunSession that are followed
    HandshakeCap   \* capacity of handshakeSem (3)

ASSUME SessionAssumption ==
    /\ IsFiniteSet(Sessions)
    /\ HandshakeCap \in Nat \ {0}

VARIABLES
    stopped,     \* the Core's context is cancelled
    slots,       \* how many tokens handshakeSem holds
    others,      \* how many of them are of sessions that are not followed
    main,        \* [Sessions -> where RunSession is]
    sessCancel,  \* [Sessions -> sessCancel was called]
    relayHook,   \* [Sessions -> AfterFunc that cuts the relay: "none", "armed", "fired", "off"]
    dtlsHook,    \* [Sessions -> AfterFunc that cuts the DTLS connection]
    dtls,        \* [Sessions -> dtlsConn: "none", "open", "closed"]
    fromRelay,   \* [Sessions -> goroutine relay to pipe]
    toRelay,     \* [Sessions -> goroutine pipe to relay]
    ticker,      \* [Sessions -> goroutine of the binding requests]
    keepalive,   \* [Sessions -> goroutine of the pings]
    writer,      \* [Sessions -> goroutine SendCh to DTLS]
    reader,      \* [Sessions -> goroutine DTLS to ReturnCh: "loop", "read", "push" while it runs]
    deadline,    \* [Sessions -> read deadline of dtlsConn: "none", "now", "far" (30 min)]
    active,      \* stats.ActiveConnections
    registered   \* the sessions whose slot the Dispatcher knows

hookVars == <<relayHook, dtlsHook>>
relayVars == <<fromRelay, toRelay, ticker>>
proxyVars == <<keepalive, writer, reader, deadline>>
statVars == <<active, registered>>
vars == <<stopped, slots, others, main, sessCancel, hookVars, dtls, relayVars, proxyVars, statVars>>

MainPhases == {"setup", "sem", "handshake", "opened", "serving", "relayWait", "returned"}

Init ==
    /\ stopped = FALSE /\ slots = 0 /\ others = 0
    /\ main = [s \in Sessions |-> "setup"]
    /\ sessCancel = [s \in Sessions |-> FALSE]
    /\ relayHook = [s \in Sessions |-> "none"] /\ dtlsHook = [s \in Sessions |-> "none"]
    /\ dtls = [s \in Sessions |-> "none"]
    /\ fromRelay = [s \in Sessions |-> "none"] /\ toRelay = [s \in Sessions |-> "none"]
    /\ ticker = [s \in Sessions |-> "none"] /\ keepalive = [s \in Sessions |-> "none"]
    /\ writer = [s \in Sessions |-> "none"] /\ reader = [s \in Sessions |-> "none"]
    /\ deadline = [s \in Sessions |-> "none"]
    /\ active = 0 /\ registered = {}

(* sessCtx is done: a child of the Core's context. *)
Done(s) == stopped \/ sessCancel[s]

Set(f, s, v) == [f EXCEPT ![s] = v]
-----------------------------------------------------------------------------
(***************************************************************************)
(* The main goroutine                                                       *)
(***************************************************************************)

(* RunSession returns before the relay exists: address, socket, TURN client or *)
(* Allocate failed.                                                            *)
SetupFails(s) ==
    /\ main[s] = "setup"
    /\ main' = Set(main, s, "returned")
    /\ UNCHANGED <<stopped, slots, others, sessCancel, hookVars, dtls, relayVars, proxyVars, statVars>>

(* The relay is allocated; the goroutines that move packets start. *)
Allocate(s) ==
    /\ main[s] = "setup"
    /\ main' = Set(main, s, "sem")
    /\ fromRelay' = Set(fromRelay, s, "run")
    /\ toRelay' = Set(toRelay, s, "run")
    /\ ticker' = Set(ticker, s, "run")
    /\ relayHook' = Set(relayHook, s, "armed")
    /\ UNCHANGED <<stopped, slots, others, sessCancel, dtlsHook, dtls, proxyVars, statVars>>

Disarm(hook, s) == IF hook[s] = "armed" THEN Set(hook, s, "off") ELSE hook

(* The connection is not closed. *)
ReturnLeavesDTLS(s) ==
    /\ main' = Set(main, s, "returned")
    /\ relayHook' = Disarm(relayHook, s)
    /\ dtlsHook' = Disarm(dtlsHook, s)
    /\ dtls' = dtls
    /\ sessCancel' = Set(sessCancel, s, TRUE)
    /\ active' = IF main[s] \in {"opened", "serving", "relayWait"} THEN active - 1 ELSE active
    /\ registered' = registered \ {s}

(* The deferred calls, in the order Go runs them: the hooks are taken back before *)
(* the context is cancelled; the counters and the Dispatcher forget the session.  *)
Return(s) ==
    /\ main' = Set(main, s, "returned")
    /\ relayHook' = Disarm(relayHook, s)
    /\ dtlsHook' = Disarm(dtlsHook, s)
    /\ dtls' = IF dtls[s] = "open" THEN Set(dtls, s, "closed") ELSE dtls
    /\ sessCancel' = Set(sessCancel, s, TRUE)
    /\ active' = IF main[s] \in {"opened", "serving", "relayWait"} THEN active - 1 ELSE active
    /\ registered' = registered \ {s}

(* GenerateSelfSigned fails. *)
NoCertificate(s) ==
    /\ main[s] = "sem"
    /\ Return(s)
    /\ UNCHANGED <<stopped, slots, others, relayVars, proxyVars>>

(* sessCtx is done while waiting for handshakeSem. *)
LeaveQueue(s) ==
    /\ main[s] = "sem" /\ Done(s)
    /\ Return(s)
    /\ UNCHANGED <<stopped, slots, others, relayVars, proxyVars>>

(* A token of handshakeSem. *)
Acquire(s) ==
    /\ main[s] = "sem"
    /\ slots < HandshakeCap
    /\ slots' = slots + 1
    /\ main' = Set(main, s, "handshake")
    /\ UNCHANGED <<stopped, others, sessCancel, hookVars, dtls, relayVars, proxyVars, statVars>>

(* The token is kept when dtls.Client fails. *)
ClientFailsKeepsSlot(s) ==
    /\ main[s] = "handshake" /\ dtls[s] = "none"
    /\ Return(s)
    /\ UNCHANGED <<stopped, slots, others, relayVars, proxyVars>>

(* dtls.Client fails. *)
ClientFails(s) ==
    /\ main[s] = "handshake" /\ dtls[s] = "none"
    /\ slots' = slots - 1
    /\ Return(s)
    /\ UNCHANGED <<stopped, others, relayVars, proxyVars>>

(* dtlsConn exists; the handshake begins. *)
Client(s) ==
    /\ main[s] = "handshake" /\ dtls[s] = "none"
    /\ dtls' = Set(dtls, s, "open")
    /\ UNCHANGED <<stopped, slots, others, main, sessCancel, hookVars, relayVars, proxyVars, statVars>>

(* The handshake failed, timed out (20 s) or was cancelled. *)
HandshakeFails(s) ==
    /\ main[s] = "handshake" /\ dtls[s] = "open"
    /\ slots' = slots - 1
    /\ Return(s)
    /\ UNCHANGED <<stopped, others, relayVars, proxyVars>>

HandshakeOK(s) ==
    /\ main[s] = "handshake" /\ dtls[s] = "open"
    /\ slots' = slots - 1
    /\ active' = active + 1
    /\ main' = Set(main, s, "opened")
    /\ UNCHANGED <<stopped, others, sessCancel, hookVars, dtls, relayVars, proxyVars, registered>>

(* The server refused the password: FATAL_AUTH. *)
Denied(s) ==
    /\ main[s] = "opened"
    /\ Return(s)
    /\ UNCHANGED <<stopped, slots, others, relayVars, proxyVars>>

(* After RequestConfig or SendAuth: the slot is registered, the hook armed, the *)
(* proxy goroutines start.                                                      *)
Serve(s) ==
    /\ main[s] = "opened"
    /\ main' = Set(main, s, "serving")
    /\ registered' = registered \cup {s}
    /\ dtlsHook' = Set(dtlsHook, s, "armed")
    /\ keepalive' = Set(keepalive, s, "run")
    /\ writer' = Set(writer, s, "run")
    /\ reader' = Set(reader, s, "loop")
    /\ UNCHANGED <<stopped, slots, others, sessCancel, relayHook, dtls, relayVars, deadline, active>>

(* proxyWg.Wait returns; sessCancel. *)
ProxyDone(s) ==
    /\ main[s] = "serving"
    /\ keepalive[s] = "ended" /\ writer[s] = "ended" /\ reader[s] = "ended"
    /\ main' = Set(main, s, "relayWait")
    /\ sessCancel' = Set(sessCancel, s, TRUE)
    /\ UNCHANGED <<stopped, slots, others, hookVars, dtls, relayVars, proxyVars, statVars>>

(* relayWg and sessionWg are done; RunSession returns nil. *)
RelayDone(s) ==
    /\ main[s] = "relayWait"
    /\ fromRelay[s] = "ended" /\ toRelay[s] = "ended" /\ ticker[s] = "ended"
    /\ Return(s)
    /\ UNCHANGED <<stopped, slots, others, relayVars, proxyVars>>

(* Another session takes a token. *)
OthersTake ==
    /\ slots < HandshakeCap
    /\ slots' = slots + 1 /\ others' = others + 1
    /\ UNCHANGED <<stopped, main, sessCancel, hookVars, dtls, relayVars, proxyVars, statVars>>

(* It gives the token back. *)
OthersGive ==
    /\ others > 0
    /\ slots' = slots - 1 /\ others' = others - 1
    /\ UNCHANGED <<stopped, main, sessCancel, hookVars, dtls, relayVars, proxyVars, statVars>>

MainStep(s) ==
    \/ SetupFails(s) \/ Allocate(s) \/ NoCertificate(s) \/ LeaveQueue(s) \/ Acquire(s)
    \/ ClientFails(s) \/ Client(s) \/ HandshakeFails(s) \/ HandshakeOK(s)
    \/ Denied(s) \/ Serve(s) \/ ProxyDone(s) \/ RelayDone(s)
-----------------------------------------------------------------------------
(***************************************************************************)
(* The hooks and the goroutines between relay and DTLS                      *)
(***************************************************************************)

(* The hook of the relay does nothing. *)
CutRelayIdle(s) ==
    /\ relayHook[s] = "armed" /\ Done(s)
    /\ relayHook' = Set(relayHook, s, "off")
    /\ UNCHANGED <<stopped, slots, others, main, sessCancel, dtlsHook, dtls, relayVars, proxyVars, statVars>>

(* relay.SetDeadline(now) and pipeA.SetDeadline(now) *)
CutRelay(s) ==
    /\ relayHook[s] = "armed" /\ Done(s)
    /\ relayHook' = Set(relayHook, s, "fired")
    /\ UNCHANGED <<stopped, slots, others, main, sessCancel, dtlsHook, dtls, relayVars, proxyVars, statVars>>

(* dtlsConn.SetDeadline(now) *)
CutDTLS(s) ==
    /\ dtlsHook[s] = "armed" /\ Done(s)
    /\ dtlsHook' = Set(dtlsHook, s, "fired")
    /\ deadline' = Set(deadline, s, "now")
    /\ UNCHANGED <<stopped, slots, others, main, sessCancel, relayHook, dtls, relayVars, keepalive, writer, reader, statVars>>

(* A read of the relay fails: cut, or relay.Close after RunSession returned. *)
FromRelayEnds(s) ==
    /\ fromRelay[s] = "run"
    /\ relayHook[s] = "fired" \/ main[s] = "returned"
    /\ fromRelay' = Set(fromRelay, s, "ended")
    /\ sessCancel' = Set(sessCancel, s, TRUE)
    /\ UNCHANGED <<stopped, slots, others, main, hookVars, dtls, toRelay, ticker, proxyVars, statVars>>

(* A read of the pipe fails: cut, or its other end was closed with dtlsConn.  What the *)
(* goroutine meets with a packet in hand is ToRelayFails.                                *)
ToRelayEnds(s) ==
    /\ toRelay[s] = "run"
    /\ relayHook[s] = "fired" \/ dtls[s] = "closed"
    /\ toRelay' = Set(toRelay, s, "ended")
    /\ sessCancel' = Set(sessCancel, s, TRUE)
    /\ UNCHANGED <<stopped, slots, others, main, hookVars, dtls, fromRelay, ticker, proxyVars, statVars>>

TickerEnds(s) ==
    /\ ticker[s] = "run" /\ Done(s)
    /\ ticker' = Set(ticker, s, "ended")
    /\ UNCHANGED <<stopped, slots, others, main, sessCancel, hookVars, dtls, fromRelay, toRelay, proxyVars, statVars>>

(* The network breaks: a read of the relay returns an error by itself, or the packet *)
(* cannot be written to the pipe.                                                     *)
RelayBreaks(s) ==
    /\ fromRelay[s] = "run"
    /\ fromRelay' = Set(fromRelay, s, "ended")
    /\ sessCancel' = Set(sessCancel, s, TRUE)
    /\ UNCHANGED <<stopped, slots, others, main, hookVars, dtls, toRelay, ticker, proxyVars, statVars>>

(* The session goes on without the goroutine that sends to the relay. *)
ToRelayFailsAlone(s) ==
    /\ toRelay[s] = "run" /\ dtls[s] # "none"
    /\ toRelay' = Set(toRelay, s, "ended")
    /\ UNCHANGED <<stopped, slots, others, main, sessCancel, hookVars, dtls, fromRelay, ticker, proxyVars, statVars>>

(* A packet of the DTLS connection cannot be wrapped, or relay.WriteTo fails: the   *)
(* goroutine ends while everything else still runs.                                  *)
ToRelayFails(s) ==
    /\ toRelay[s] = "run" /\ dtls[s] # "none"
    /\ toRelay' = Set(toRelay, s, "ended")
    /\ sessCancel' = Set(sessCancel, s, TRUE)
    /\ UNCHANGED <<stopped, slots, others, main, hookVars, dtls, fromRelay, ticker, proxyVars, statVars>>
-----------------------------------------------------------------------------
(***************************************************************************)
(* The proxy goroutines                                                     *)
(***************************************************************************)
KeepaliveEnds(s) ==
    /\ keepalive[s] = "run" /\ Done(s)
    /\ keepalive' = Set(keepalive, s, "ended")
    /\ UNCHANGED <<stopped, slots, others, main, sessCancel, hookVars, dtls, relayVars, writer, reader, deadline, statVars>>

(* A ping that cannot be written ends the goroutine and nothing else. *)
PingFails(s) ==
    /\ keepalive[s] = "run"
    /\ keepalive' = Set(keepalive, s, "ended")
    /\ UNCHANGED <<stopped, slots, others, main, sessCancel, hookVars, dtls, relayVars, writer, reader, deadline, statVars>>

WriterEnds(s) ==
    /\ writer[s] = "run" /\ Done(s)
    /\ writer' = Set(writer, s, "ended")
    /\ sessCancel' = Set(sessCancel, s, TRUE)
    /\ UNCHANGED <<stopped, slots, others, main, hookVars, dtls, relayVars, keepalive, reader, deadline, statVars>>

(* A packet that cannot be written ends the session. *)
WriteFails(s) ==
    /\ writer[s] = "run"
    /\ writer' = Set(writer, s, "ended")
    /\ sessCancel' = Set(sessCancel, s, TRUE)
    /\ UNCHANGED <<stopped, slots, others, main, hookVars, dtls, relayVars, keepalive, reader, deadline, statVars>>

(* SetReadDeadline(now + 30 min), whatever the deadline was. *)
ReadAgain(s) ==
    /\ reader[s] = "loop"
    /\ deadline' = Set(deadline, s, "far")
    /\ reader' = Set(reader, s, "read")
    /\ UNCHANGED <<stopped, slots, others, main, sessCancel, hookVars, dtls, relayVars, keepalive, writer, statVars>>

(* A packet comes through the relay. *)
PacketRead(s) ==
    /\ reader[s] = "read"
    /\ fromRelay[s] = "run" /\ deadline[s] = "far"
    /\ reader' = Set(reader, s, "push")
    /\ UNCHANGED <<stopped, slots, others, main, sessCancel, hookVars, dtls, relayVars, keepalive, writer, deadline, statVars>>

(* ReturnCh takes it. *)
PacketPushed(s) ==
    /\ reader[s] = "push"
    /\ reader' = Set(reader, s, "loop")
    /\ UNCHANGED <<stopped, slots, others, main, sessCancel, hookVars, dtls, relayVars, keepalive, writer, deadline, statVars>>

ReaderLeaves(s) ==
    /\ reader' = Set(reader, s, "ended")
    /\ sessCancel' = Set(sessCancel, s, TRUE)
    /\ UNCHANGED <<stopped, slots, others, main, hookVars, dtls, relayVars, keepalive, writer, deadline, statVars>>

(* sessCtx is done while ReturnCh is full. *)
PushGivenUp(s) == reader[s] = "push" /\ Done(s) /\ ReaderLeaves(s)

(* The read returns at once because the hook cut the connection. *)
ReadCut(s) == reader[s] = "read" /\ deadline[s] = "now" /\ ReaderLeaves(s)

(* The read fails by itself. *)
ReadFails(s) == reader[s] = "read" /\ ReaderLeaves(s)

(* 30 minutes without a packet: the reader leaves only if sessCtx is done. *)
ReadTimesOut(s) ==
    /\ reader[s] = "read" /\ deadline[s] = "far"
    /\ IF Done(s)
         THEN ReaderLeaves(s)
         ELSE /\ reader' = Set(reader, s, "loop")
              /\ UNCHANGED <<stopped, slots, others, main, sessCancel, hookVars, dtls, relayVars, keepalive, writer, deadline, statVars>>

GoroutineStep(s) ==
    \/ CutRelay(s) \/ CutDTLS(s)
    \/ FromRelayEnds(s) \/ ToRelayEnds(s) \/ TickerEnds(s)
    \/ RelayBreaks(s) \/ ToRelayFails(s)
    \/ KeepaliveEnds(s) \/ PingFails(s) \/ WriterEnds(s) \/ WriteFails(s)
    \/ ReadAgain(s) \/ PacketRead(s) \/ PacketPushed(s) \/ PushGivenUp(s)
    \/ ReadCut(s) \/ ReadFails(s) \/ ReadTimesOut(s)

(* Core.Stop *)
Stop ==
    /\ ~stopped
    /\ stopped' = TRUE
    /\ UNCHANGED <<slots, others, main, sessCancel, hookVars, dtls, relayVars, proxyVars, statVars>>

Next == Stop \/ OthersTake \/ OthersGive \/ \E s \in Sessions : MainStep(s) \/ GoroutineStep(s)

Spec == Init /\ [][Next]_vars

(* Every step that waits for nobody is fair, and so is what a timeout bounds: the *)
(* set-up (TURN), the handshake (20 s), the exchange that follows it (15 s).  The   *)
(* senders blocked on a channel are served in turn, so a token given back again   *)
(* and again reaches everybody: the strong form for Acquire.                       *)
MainFairness(s) ==
    /\ WF_vars(SetupFails(s) \/ Allocate(s))
    /\ WF_vars(LeaveQueue(s)) /\ SF_vars(Acquire(s))
    /\ WF_vars(ClientFails(s) \/ Client(s))
    /\ WF_vars(HandshakeFails(s) \/ HandshakeOK(s))
    /\ WF_vars(Denied(s) \/ Serve(s))
    /\ WF_vars(ProxyDone(s)) /\ WF_vars(RelayDone(s))

GoroutineFairness(s) ==
    /\ WF_vars(CutRelay(s)) /\ WF_vars(CutDTLS(s))
    /\ WF_vars(FromRelayEnds(s)) /\ WF_vars(ToRelayEnds(s)) /\ WF_vars(TickerEnds(s))
    /\ WF_vars(KeepaliveEnds(s)) /\ WF_vars(WriterEnds(s))
    /\ WF_vars(ReadAgain(s)) /\ WF_vars(ReadCut(s)) /\ WF_vars(PacketPushed(s) \/ PushGivenUp(s))

(* Everything is prompt but the 30 minutes of an idle read. *)
PromptSpec == Spec /\ WF_vars(OthersGive) /\ \A s \in Sessions : MainFairness(s) /\ GoroutineFairness(s)

(* The 30 minutes pass, too. *)
FairSpec == PromptSpec /\ \A s \in Sessions : WF_vars(ReadTimesOut(s))
-----------------------------------------------------------------------------
(***************************************************************************)
(* Properties                                                               *)
(***************************************************************************)
Goroutine == {"none", "run", "ended"}
Hook == {"none", "armed", "fired", "off"}

(* Types; the tokens stay within the capacity, ActiveConnections within the sessions. *)
TypeOK ==
    /\ stopped \in BOOLEAN
    /\ slots \in 0..HandshakeCap /\ others \in 0..HandshakeCap
    /\ main \in [Sessions -> MainPhases]
    /\ sessCancel \in [Sessions -> BOOLEAN]
    /\ relayHook \in [Sessions -> Hook] /\ dtlsHook \in [Sessions -> Hook]
    /\ dtls \in [Sessions -> {"none", "open", "closed"}]
    /\ fromRelay \in [Sessions -> Goroutine] /\ toRelay \in [Sessions -> Goroutine]
    /\ ticker \in [Sessions -> Goroutine] /\ keepalive \in [Sessions -> Goroutine]
    /\ writer \in [Sessions -> Goroutine]
    /\ reader \in [Sessions -> {"none", "loop", "read", "push", "ended"}]
    /\ deadline \in [Sessions -> {"none", "now", "far"}]
    /\ active \in 0..Cardinality(Sessions)
    /\ registered \subseteq Sessions

(* A token of handshakeSem is held exactly by the sessions in their handshake,      *)
(* whichever of its returns RunSession takes: none is lost (session.go:319-348).    *)
HandshakeSlots == slots = others + Cardinality({s \in Sessions : main[s] = "handshake"})

(* When every session has returned, nothing is counted as an active connection and   *)
(* the Dispatcher knows no slot: writeLoop gives no packet to a session that is gone *)
(* (the deferred calls, session.go:382-383, 418-424).                                *)
StatsSettle ==
    (\A s \in Sessions : main[s] = "returned") => active = 0 /\ registered = {}

(* Core.Stop ends every session, at the latest when the idle read times out.         *)
StopReturnsSessions == stopped ~> \A s \in Sessions : main[s] = "returned"

(* A session does not go on with one of its goroutines missing: when the writer, the *)
(* reader or one of the two goroutines of the relay ended, be it that it failed while *)
(* all the others still ran, all of it ends (the deferred sessCancel of each).         *)
EndsTogether ==
    \A s \in Sessions :
        ("ended" \in {writer[s], reader[s], fromRelay[s], toRelay[s]}) ~> (main[s] = "returned")

(* A session that waits for handshakeSem gets its turn, however busy it is.          *)
HandshakeGranted == \A s \in Sessions : (main[s] = "sem") ~> (main[s] # "sem")

(* A session that had a DTLS connection leaves no goroutine behind.                  *)
ConnectedLeavesNothing ==
    \A s \in Sessions :
        (main[s] = "returned" /\ dtls[s] # "none") ~>
            ({fromRelay[s], toRelay[s], ticker[s], keepalive[s], writer[s], reader[s]} \subseteq {"none", "ended"})

(* "Stop останавливает ядро." (main.go:360): the sessions end when the Core is       *)
(* stopped, without a wait for the 30 minutes of an idle read.  The code does not do  *)
(* this: ReadAgain sets the deadline that CutDTLS had set to now (session.go:479).     *)
StopIsPrompt == stopped ~> \A s \in Sessions : main[s] = "returned"
=============================================================================
