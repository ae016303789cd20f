-------------------------- MODULE TurnSessionProofs --------------------------
(***************************************************************************)
(* Proofs about TurnSession for every finite set of sessions and every        *)
(* capacity of handshakeSem.                                                  *)
(*                                                                           *)
(* The counters are related to where the sessions are: the tokens of          *)
(* handshakeSem to those in their handshake, ActiveConnections to those that   *)
(* came out of it.  The inductive invariant counts both sets; the bounds that   *)
(* TypeOK states follow from it.                                              *)
(***************************************************************************)
EXTENDS TurnSession, FiniteSetTheorems, TLAPS

(* The types of all that is not counted. *)
StateTypes ==
    /\ stopped \in BOOLEAN
    /\ main \in [Sessions -> MainPhases]
    /\ sessCancel \in [Sessions -> BOOLEAN]
    /\ relayHook \in [Sessions -> Hook] /\ dtlsHook \in [Sessions -> Hook]
    /\ dtls \in [Sessions -> {"none", "open", "closed"}]
    /\ fromRelay \in [Sessions -> Goroutine] /\ toRelay \in [Sessions -> Goroutine]
    /\ ticker \in [Sessions -> Goroutine] /\ keepalive \in [Sessions -> Goroutine]
    /\ writer \in [Sessions -> Goroutine]
    /\ reader \in [Sessions -> {"none", "loop", "read", "push", "ended"}]
    /\ deadline \in [Sessions -> {"none", "now", "far"}]

In(P) == {s \in Sessions : main[s] \in P}
Connected == {"opened", "serving", "relayWait"}

CountInv ==
    /\ slots \in Nat /\ others \in Nat /\ slots <= HandshakeCap
    /\ slots = others + Cardinality(In({"handshake"}))
    /\ active = Cardinality(In(Connected))
    /\ registered \subseteq In({"serving", "relayWait"})
-----------------------------------------------------------------------------
LEMMA InitTypes == Init => StateTypes
<1> SUFFICES ASSUME Init PROVE StateTypes
  OBVIOUS
<1> USE DEF Init, MainPhases, Hook, Goroutine
<1>1. stopped \in BOOLEAN /\ sessCancel \in [Sessions -> BOOLEAN] /\ main \in [Sessions -> MainPhases]
  OBVIOUS
<1>2. /\ relayHook \in [Sessions -> Hook] /\ dtlsHook \in [Sessions -> Hook]
      /\ dtls \in [Sessions -> {"none", "open", "closed"}]
      /\ deadline \in [Sessions -> {"none", "now", "far"}]
  OBVIOUS
<1>3. /\ fromRelay \in [Sessions -> Goroutine] /\ toRelay \in [Sessions -> Goroutine]
      /\ ticker \in [Sessions -> Goroutine] /\ keepalive \in [Sessions -> Goroutine]
      /\ writer \in [Sessions -> Goroutine]
      /\ reader \in [Sessions -> {"none", "loop", "read", "push", "ended"}]
  OBVIOUS
<1>4. QED BY <1>1, <1>2, <1>3, Zenon DEF StateTypes

(* RunSession, its goroutines and its hooks keep the types. *)
LEMMA NextTypes == StateTypes /\ [Next]_vars => StateTypes'
<1> SUFFICES ASSUME StateTypes, [Next]_vars PROVE StateTypes'
  OBVIOUS
<1> USE DEF StateTypes, hookVars, relayVars, proxyVars, statVars, Set
<1>1. ASSUME NEW s \in Sessions, MainStep(s) PROVE StateTypes'
  <2> USE DEF MainPhases, Hook, Goroutine
  <2>1. ASSUME Return(s)
        PROVE  /\ main' \in [Sessions -> MainPhases] /\ sessCancel' \in [Sessions -> BOOLEAN]
               /\ relayHook' \in [Sessions -> Hook] /\ dtlsHook' \in [Sessions -> Hook]
               /\ dtls' \in [Sessions -> {"none", "open", "closed"}]
    BY <2>1 DEF Return, Disarm
  <2>2. CASE SetupFails(s)
    BY <2>2 DEF SetupFails
  <2>3. CASE Allocate(s)
    BY <2>3 DEF Allocate
  <2>4. CASE NoCertificate(s)
    BY <2>1, <2>4 DEF NoCertificate
  <2>5. CASE LeaveQueue(s)
    BY <2>1, <2>5 DEF LeaveQueue
  <2>6. CASE Acquire(s)
    BY <2>6 DEF Acquire
  <2>7. CASE ClientFails(s)
    BY <2>1, <2>7 DEF ClientFails
  <2>8. CASE Client(s)
    BY <2>8 DEF Client
  <2>9. CASE HandshakeFails(s)
    BY <2>1, <2>9 DEF HandshakeFails
  <2>10. CASE HandshakeOK(s)
    BY <2>10 DEF HandshakeOK
  <2>11. CASE Denied(s)
    BY <2>1, <2>11 DEF Denied
  <2>12. CASE Serve(s)
    BY <2>12 DEF Serve
  <2>13. CASE ProxyDone(s)
    BY <2>13 DEF ProxyDone
  <2>14. CASE RelayDone(s)
    BY <2>1, <2>14 DEF RelayDone
  <2>15. QED BY <1>1, <2>2, <2>3, <2>4, <2>5, <2>6, <2>7, <2>8, <2>9, <2>10, <2>11, <2>12, <2>13, <2>14 DEF MainStep
<1>2. ASSUME NEW s \in Sessions, GoroutineStep(s) PROVE StateTypes'
  <2> USE DEF Hook, Goroutine, ReaderLeaves
  <2>1. CASE CutRelay(s)
    BY <2>1 DEF CutRelay
  <2>2. CASE CutDTLS(s)
    BY <2>2 DEF CutDTLS
  <2>3. CASE FromRelayEnds(s)
    BY <2>3 DEF FromRelayEnds
  <2>4. CASE ToRelayEnds(s)
    BY <2>4 DEF ToRelayEnds
  <2>5. CASE TickerEnds(s)
    BY <2>5 DEF TickerEnds
  <2>6. CASE RelayBreaks(s)
    BY <2>6 DEF RelayBreaks
  <2>7. CASE KeepaliveEnds(s)
    BY <2>7 DEF KeepaliveEnds
  <2>8. CASE PingFails(s)
    BY <2>8 DEF PingFails
  <2>9. CASE WriterEnds(s)
    BY <2>9 DEF WriterEnds
  <2>10. CASE WriteFails(s)
    BY <2>10 DEF WriteFails
  <2>11. CASE ReadAgain(s)
    BY <2>11 DEF ReadAgain
  <2>12. CASE PacketRead(s)
    BY <2>12 DEF PacketRead
  <2>13. CASE PacketPushed(s)
    BY <2>13 DEF PacketPushed
  <2>14. CASE PushGivenUp(s)
    BY <2>14 DEF PushGivenUp
  <2>15. CASE ReadCut(s)
    BY <2>15 DEF ReadCut
  <2>16. CASE ReadFails(s)
    BY <2>16 DEF ReadFails
  <2>17. CASE ReadTimesOut(s)
    <3>1. CASE Done(s)
      <4>1. ReaderLeaves(s)
        <5> HIDE DEF ReaderLeaves
        <5>1. QED BY <2>17, <3>1, Zenon DEF ReadTimesOut
      <4>2. QED BY <4>1
    <3>2. CASE ~Done(s)
      BY <2>17, <3>2 DEF ReadTimesOut
    <3>3. QED BY <3>1, <3>2
  <2>18. CASE ToRelayFails(s)
    BY <2>18 DEF ToRelayFails
  <2>19. QED BY <1>2, <2>1, <2>2, <2>3, <2>4, <2>5, <2>6, <2>7, <2>8, <2>9, <2>10, <2>11, <2>12, <2>13, <2>14, <2>15, <2>16, <2>17, <2>18
           DEF GoroutineStep
<1>3. CASE Stop \/ OthersTake \/ OthersGive
  BY <1>3 DEF Stop, OthersTake, OthersGive
<1>4. CASE UNCHANGED vars
  BY <1>4 DEF vars
<1>5. QED BY <1>1, <1>2, <1>3, <1>4 DEF Next
-----------------------------------------------------------------------------
(* How many sessions are at one of the places P after one of them moved. *)
LEMMA Recount ==
    ASSUME StateTypes, NEW s \in Sessions, NEW p, NEW P, main' = [main EXCEPT ![s] = p]
    PROVE  /\ Cardinality(In(P)) \in Nat
           /\ (main[s] \in P <=> p \in P) => Cardinality(In(P)') = Cardinality(In(P))
           /\ main[s] \notin P /\ p \in P => Cardinality(In(P)') = Cardinality(In(P)) + 1
           /\ main[s] \in P /\ p \notin P => Cardinality(In(P)') = Cardinality(In(P)) - 1
<1>1. main'[s] = p /\ \A t \in Sessions : t # s => main'[t] = main[t]
  BY DEF StateTypes
<1>2. IsFiniteSet(In(P))
  <2>1. In(P) \subseteq Sessions
    BY DEF In
  <2>2. QED BY <2>1, FS_Subset, SessionAssumption
<1>3. Cardinality(In(P)) \in Nat
  BY <1>2, FS_CardinalityType
<1>4. ASSUME main[s] \in P <=> p \in P PROVE In(P)' = In(P)
  BY <1>1, <1>4 DEF In
<1>5. ASSUME main[s] \notin P, p \in P PROVE Cardinality(In(P)') = Cardinality(In(P)) + 1
  <2>1. s \notin In(P) /\ In(P)' = In(P) \cup {s}
    BY <1>1, <1>5 DEF In
  <2>2. QED BY <1>2, <2>1, FS_AddElement
<1>6. ASSUME main[s] \in P, p \notin P PROVE Cardinality(In(P)') = Cardinality(In(P)) - 1
  <2>1. s \in In(P) /\ In(P)' = In(P) \ {s}
    BY <1>1, <1>6 DEF In
  <2>2. QED BY <1>2, <2>1, FS_RemoveElement
<1>7. QED BY <1>3, <1>4, <1>5, <1>6

LEMMA InitCounts == Init => CountInv
<1> SUFFICES ASSUME Init PROVE CountInv
  OBVIOUS
<1>1. In({"handshake"}) = {} /\ In(Connected) = {}
  BY DEF Init, In, Connected
<1>2. QED BY <1>1, FS_EmptySet, SessionAssumption DEF Init, CountInv

(* One followed session moves: the tokens and the counters follow it. *)
LEMMA MainCounts ==
    ASSUME StateTypes, CountInv, NEW s \in Sessions, MainStep(s)
    PROVE  CountInv'
<1>1. ASSUME NEW p, main' = Set(main, s, p)
      PROVE  /\ Cardinality(In({"handshake"})) \in Nat /\ Cardinality(In(Connected)) \in Nat
             /\ Cardinality(In({"handshake"})') = IF main[s] = "handshake" /\ p # "handshake"
                                                    THEN Cardinality(In({"handshake"})) - 1
                                                    ELSE IF main[s] # "handshake" /\ p = "handshake"
                                                           THEN Cardinality(In({"handshake"})) + 1
                                                           ELSE Cardinality(In({"handshake"}))
             /\ Cardinality(In(Connected)') = IF main[s] \in Connected /\ p \notin Connected
                                                THEN Cardinality(In(Connected)) - 1
                                                ELSE IF main[s] \notin Connected /\ p \in Connected
                                                       THEN Cardinality(In(Connected)) + 1
                                                       ELSE Cardinality(In(Connected))
  <2>1. main' = [main EXCEPT ![s] = p]
    BY <1>1 DEF Set
  <2>2. /\ Cardinality(In({"handshake"})) \in Nat
        /\ (main[s] \in {"handshake"} <=> p \in {"handshake"}) =>
              Cardinality(In({"handshake"})') = Cardinality(In({"handshake"}))
        /\ main[s] \notin {"handshake"} /\ p \in {"handshake"} =>
              Cardinality(In({"handshake"})') = Cardinality(In({"handshake"})) + 1
        /\ main[s] \in {"handshake"} /\ p \notin {"handshake"} =>
              Cardinality(In({"handshake"})') = Cardinality(In({"handshake"})) - 1
    BY <2>1, Recount
  <2>3. /\ Cardinality(In(Connected)) \in Nat
        /\ (main[s] \in Connected <=> p \in Connected) => Cardinality(In(Connected)') = Cardinality(In(Connected))
        /\ main[s] \notin Connected /\ p \in Connected => Cardinality(In(Connected)') = Cardinality(In(Connected)) + 1
        /\ main[s] \in Connected /\ p \notin Connected => Cardinality(In(Connected)') = Cardinality(In(Connected)) - 1
    BY <2>1, Recount
  <2>4. QED BY <2>2, <2>3
<1>2. ASSUME NEW p, main' = Set(main, s, p)
      PROVE  main'[s] = p /\ \A t \in Sessions \ {s} : main'[t] = main[t]
  BY <1>2 DEF StateTypes, Set
<1>3. ASSUME NEW p \in {"setup", "sem", "handshake"}, main[s] = p
      PROVE  s \notin registered
  BY <1>3 DEF CountInv, In
<1>4. CASE SetupFails(s)
  <2>1. main' = Set(main, s, "returned") /\ main[s] = "setup"
    BY <1>4 DEF SetupFails
  <2>2. UNCHANGED <<slots, others, active, registered>>
    BY <1>4 DEF SetupFails, statVars
  <2>3. registered' \subseteq In({"serving", "relayWait"})'
    BY <2>1, <2>2, <1>2, <1>3 DEF CountInv, In
  <2>4. QED BY <2>1, <2>2, <2>3, <1>1 DEF CountInv, Connected
<1>5. CASE Acquire(s)
  <2>1. main' = Set(main, s, "handshake") /\ main[s] = "sem"
    BY <1>5 DEF Acquire
  <2>2. slots < HandshakeCap /\ slots' = slots + 1 /\ UNCHANGED <<others, active, registered>>
    BY <1>5 DEF Acquire, statVars
  <2>3. registered' \subseteq In({"serving", "relayWait"})'
    BY <2>1, <2>2, <1>2, <1>3 DEF CountInv, In
  <2>4. QED BY <2>1, <2>2, <2>3, <1>1, SessionAssumption DEF CountInv, Connected
<1>6. ASSUME Return(s), main[s] \in MainPhases \ {"returned"}, UNCHANGED others,
             slots' = IF main[s] = "handshake" THEN slots - 1 ELSE slots
      PROVE  CountInv'
  <2>1. main' = Set(main, s, "returned") /\ registered' = registered \ {s}
    BY <1>6 DEF Return
  <2>2. active' = IF main[s] \in Connected THEN active - 1 ELSE active
    BY <1>6 DEF Return, Connected
  <2>3. registered' \subseteq In({"serving", "relayWait"})'
    BY <2>1, <1>2 DEF CountInv, In
  <2>4. "returned" \notin Connected
    BY DEF Connected
  <2>5. slots' = others' + Cardinality(In({"handshake"})')
    BY <1>6, <2>1, <1>1 DEF CountInv
  <2>6. Cardinality(In({"handshake"})') \in Nat /\ slots' <= slots
    <3>1. IsFiniteSet(In({"handshake"})')
      BY SessionAssumption, FS_Subset DEF In
    <3>2. QED BY <3>1, FS_CardinalityType, <1>6 DEF CountInv
  <2>7. active' = Cardinality(In(Connected)')
    BY <2>1, <2>2, <2>4, <1>1 DEF CountInv
  <2>8. QED BY <1>6, <2>3, <2>5, <2>6, <2>7, SessionAssumption DEF CountInv
<1>7. CASE NoCertificate(s) \/ LeaveQueue(s) \/ Denied(s) \/ RelayDone(s)
  BY <1>6, <1>7 DEF NoCertificate, LeaveQueue, Denied, RelayDone, MainPhases
<1>8. CASE ClientFails(s) \/ HandshakeFails(s)
  BY <1>6, <1>8 DEF ClientFails, HandshakeFails, MainPhases
<1>9. CASE Allocate(s)
  <2>1. main' = Set(main, s, "sem") /\ main[s] = "setup"
    BY <1>9 DEF Allocate
  <2>2. UNCHANGED <<slots, others, active, registered>>
    BY <1>9 DEF Allocate, statVars
  <2>3. registered' \subseteq In({"serving", "relayWait"})'
    BY <2>1, <2>2, <1>2, <1>3 DEF CountInv, In
  <2>4. QED BY <2>1, <2>2, <2>3, <1>1 DEF CountInv, Connected
<1>10. CASE HandshakeOK(s)
  <2>1. main' = Set(main, s, "opened") /\ main[s] = "handshake"
    BY <1>10 DEF HandshakeOK
  <2>2. slots' = slots - 1 /\ active' = active + 1 /\ UNCHANGED <<others, registered>>
    BY <1>10 DEF HandshakeOK
  <2>3. registered' \subseteq In({"serving", "relayWait"})'
    BY <2>1, <2>2, <1>2, <1>3 DEF CountInv, In
  <2>4. Cardinality(In({"handshake"})) >= 1
    <3>1. s \in In({"handshake"}) /\ IsFiniteSet(In({"handshake"}))
      BY <2>1, SessionAssumption, FS_Subset DEF In
    <3>2. QED BY <3>1, FS_EmptySet, <1>1, <2>1
  <2>5. QED BY <2>1, <2>2, <2>3, <2>4, <1>1, SessionAssumption DEF CountInv, Connected
<1>11. CASE Client(s)
  BY <1>11 DEF Client, CountInv, In, statVars
<1>12. CASE Serve(s)
  <2>1. main' = Set(main, s, "serving") /\ main[s] = "opened"
    BY <1>12 DEF Serve
  <2>2. registered' = registered \cup {s} /\ UNCHANGED <<slots, others, active>>
    BY <1>12 DEF Serve
  <2>3. registered' \subseteq In({"serving", "relayWait"})'
    BY <2>1, <2>2, <1>2 DEF CountInv, In
  <2>4. QED BY <2>1, <2>2, <2>3, <1>1 DEF CountInv, Connected
<1>13. CASE ProxyDone(s)
  <2>1. main' = Set(main, s, "relayWait") /\ main[s] = "serving"
    BY <1>13 DEF ProxyDone
  <2>2. UNCHANGED <<slots, others, active, registered>>
    BY <1>13 DEF ProxyDone, statVars
  <2>3. registered' \subseteq In({"serving", "relayWait"})'
    BY <2>1, <2>2, <1>2 DEF CountInv, In
  <2>4. QED BY <2>1, <2>2, <2>3, <1>1 DEF CountInv, Connected
<1>14. QED
  BY <1>4, <1>5, <1>7, <1>8, <1>9, <1>10, <1>11, <1>12, <1>13 DEF MainStep
-----------------------------------------------------------------------------
(* The goroutines and the hooks touch no counter, the other sessions only the tokens. *)
LEMMA OtherCounts ==
    ASSUME StateTypes, CountInv,
           \/ \E s \in Sessions : GoroutineStep(s)
           \/ Stop \/ OthersTake \/ OthersGive \/ UNCHANGED vars
    PROVE  CountInv'
<1> USE DEF statVars
<1>1. IsFiniteSet(In({"handshake"})) /\ Cardinality(In({"handshake"})) \in Nat
  BY SessionAssumption, FS_Subset, FS_CardinalityType DEF In
<1>2. ASSUME UNCHANGED <<main, slots, others, active, registered>> PROVE CountInv'
  BY <1>2 DEF CountInv, In
<1>3. CASE \E s \in Sessions : GoroutineStep(s)
  <2>1. PICK s \in Sessions : GoroutineStep(s)
    BY <1>3
  <2>2. UNCHANGED <<main, slots, others, active, registered>>
    BY <2>1 DEF GoroutineStep, CutRelay, CutDTLS, FromRelayEnds, ToRelayEnds, TickerEnds, RelayBreaks,
                ToRelayFails, KeepaliveEnds, PingFails, WriterEnds, WriteFails, ReadAgain, PacketRead, PacketPushed,
                PushGivenUp, ReadCut, ReadFails, ReadTimesOut, ReaderLeaves
  <2>3. QED BY <1>2, <2>2
<1>4. CASE Stop
  BY <1>2, <1>4 DEF Stop
<1>5. CASE OthersTake
  <2>1. UNCHANGED <<main, active, registered>> /\ slots' = slots + 1 /\ others' = others + 1 /\ slots < HandshakeCap
    BY <1>5 DEF OthersTake
  <2>2. QED BY <1>1, <2>1, SessionAssumption DEF CountInv, In
<1>6. CASE OthersGive
  <2>1. UNCHANGED <<main, active, registered>> /\ slots' = slots - 1 /\ others' = others - 1 /\ others > 0
    BY <1>6 DEF OthersGive
  <2>2. QED BY <1>1, <2>1, SessionAssumption DEF CountInv, In
<1>7. CASE UNCHANGED vars
  BY <1>2, <1>7 DEF vars
<1>8. QED BY <1>3, <1>4, <1>5, <1>6, <1>7
-----------------------------------------------------------------------------
(* The tokens and the counters agree with where the sessions are, always. *)
THEOREM SessionInvariant == Spec => [](StateTypes /\ CountInv)
<1>1. Init => StateTypes /\ CountInv
  BY InitTypes, InitCounts
<1>2. StateTypes /\ CountInv /\ [Next]_vars => (StateTypes /\ CountInv)'
  BY NextTypes, MainCounts, OtherCounts DEF Next
<1>3. QED BY <1>1, <1>2, PTL DEF Spec

(* No return of RunSession loses a token of handshakeSem, and none gives two back. *)
THEOREM TokensAccounted == Spec => []HandshakeSlots
<1>1. CountInv => HandshakeSlots
  <2>1. In({"handshake"}) = {s \in Sessions : main[s] = "handshake"}
    BY DEF In
  <2>2. QED BY <2>1 DEF CountInv, HandshakeSlots
<1>2. QED BY <1>1, SessionInvariant, PTL

(* When every session returned, ActiveConnections is 0 and the Dispatcher knows none. *)
THEOREM CountersSettle == Spec => []StatsSettle
<1>1. CountInv => StatsSettle
  <2> SUFFICES ASSUME CountInv, \A s \in Sessions : main[s] = "returned"
               PROVE  active = 0 /\ registered = {}
    BY DEF StatsSettle
  <2>1. In(Connected) = {} /\ In({"serving", "relayWait"}) = {}
    BY DEF In, Connected
  <2>2. QED BY <2>1, FS_EmptySet DEF CountInv
<1>2. QED BY <1>1, SessionInvariant, PTL

(* The types and the bounds: at most HandshakeCap tokens, at most one connection for  *)
(* each session.                                                                      *)
THEOREM TypeCorrect == Spec => []TypeOK
<1>1. StateTypes /\ CountInv => TypeOK
  <2> SUFFICES ASSUME StateTypes, CountInv PROVE TypeOK
    OBVIOUS
  <2>1. In(Connected) \subseteq Sessions /\ In({"handshake"}) \subseteq Sessions
    BY DEF In
  <2>2. /\ Cardinality(In(Connected)) \in Nat /\ Cardinality(In({"handshake"})) \in Nat
        /\ Cardinality(Sessions) \in Nat /\ Cardinality(In(Connected)) <= Cardinality(Sessions)
    BY <2>1, FS_Subset, FS_CardinalityType, SessionAssumption
  <2>3. slots \in 0..HandshakeCap /\ others \in 0..HandshakeCap /\ active \in 0..Cardinality(Sessions)
    BY <2>2, SessionAssumption DEF CountInv
  <2>4. registered \subseteq Sessions
    BY DEF CountInv, In
  <2>5. QED BY <2>3, <2>4 DEF TypeOK, StateTypes
<1>2. QED BY <1>1, SessionInvariant, PTL
=============================================================================
