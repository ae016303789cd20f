-------------------------- MODULE WorkerGroupsProofs --------------------------
(***************************************************************************)
(* Proofs about WorkerGroups for every number of groups, of workers per       *)
(* group, of attempts and every set of TURN addresses.                        *)
(*                                                                           *)
(* Two inductive invariants, each over its own part of the state: RequestInv  *)
(* about the one request for the config, ChainInv about the order in which    *)
(* groups and workers start and end.  The addresses the workers dial are left  *)
(* out: what SelectSeq returns needs induction over sequences.                *)
(***************************************************************************)
EXTENDS WorkerGroups, Integers, TLAPS

(* The types the two invariants rely on. *)
StateTypes ==
    /\ stopped \in BOOLEAN /\ closed \in BOOLEAN
    /\ gpc \in [Groups -> GroupPhases]
    /\ creds \in [Groups -> URLLists \cup {<<>>}]
    /\ credsSignal \in [Groups -> {"open", "timer", "closed"}]
    /\ spawnSignal \in [Groups -> BOOLEAN]
    /\ wpc \in [Workers -> WorkerPhases]
    /\ attempts \in [Workers -> 0..(MaxAttempts - 1)]
    /\ asks \in [Workers -> BOOLEAN] /\ got \in [Workers -> BOOLEAN]
    /\ inFlight \in BOOLEAN /\ configSent \in BOOLEAN

(* Who may ask for the config: at most one session, only while nobody has it. *)
RequestInv ==
    /\ RequestIsHeld
    /\ configSent => inFlight
    /\ \A w \in Workers :
         /\ asks[w] => inFlight /\ ~configSent /\ wpc[w] \in {"setup", "ask", "up"}
         /\ got[w] => asks[w] /\ wpc[w] = "up"
         /\ wpc[w] = "ask" => asks[w]
         /\ \A v \in Workers : asks[w] /\ asks[v] => v = w
    /\ confs = IF configSent \/ \E w \in Workers : got[w] THEN 1 ELSE 0

(* What each signal says, and what a group that is over leaves behind. *)
ChainInv ==
    /\ ChainOrder
    /\ \A g \in Groups :
         /\ gpc[g] = "waitSpawn" => creds[g] # <<>>
         /\ credsSignal[g] # "open" => \A h \in 1..g : creds[h] # <<>>
         /\ spawnSignal[g] => \A h \in 1..g : \A w \in WorkersOf(h) : wpc[w] # "unborn"
         /\ gpc[g] \in Waiting => \A w \in WorkersOf(g) : wpc[w] = "unborn"
         /\ gpc[g] = "returned" => \A w \in WorkersOf(g) : wpc[w] \in {"unborn", "ended"}
    /\ closed => \A g \in Groups : gpc[g] = "returned"
-----------------------------------------------------------------------------
(* Every worker belongs to a group: the numbers main.go gives to the workers of *)
(* consecutive groups are consecutive.                                          *)
LEMMA GroupOfWorker == \A w \in Workers : GroupOf(w) \in Groups
<1> SUFFICES ASSUME NEW w \in Workers PROVE GroupOf(w) \in Groups
  OBVIOUS
<1> DEFINE d == (w - 1) \div PerGroup
<1>1. NumGroups \in Nat /\ PerGroup \in Nat /\ PerGroup > 0 /\ NumGroups > 0
  BY WorkerAssumption
<1>2. w \in Int /\ 1 <= w /\ w <= NumGroups * PerGroup
  BY <1>1 DEF Workers
<1>3. d \in Int /\ PerGroup * d <= w - 1
  BY <1>1, <1>2
<1>4. d >= 0
  BY <1>1, <1>2
<1>5. d < NumGroups
  <2> SUFFICES ASSUME d >= NumGroups PROVE FALSE
    BY <1>1, <1>3
  <2>1. PerGroup * d >= PerGroup * NumGroups
    BY <1>1, <1>3
  <2>2. PerGroup * NumGroups = NumGroups * PerGroup
    BY <1>1
  <2> HIDE DEF d
  <2>3. PerGroup * d \in Int /\ PerGroup * NumGroups \in Int
    BY <1>1, <1>3
  <2>4. QED BY <1>1, <1>2, <1>3, <2>1, <2>2, <2>3
<1>6. QED BY <1>1, <1>3, <1>4, <1>5 DEF GroupOf, Groups

LEMMA WorkersOfGroup == \A g \in Groups : \A w \in WorkersOf(g) : w \in Workers /\ GroupOf(w) = g
BY DEF WorkersOf
-----------------------------------------------------------------------------
LEMMA InitTypes == Init => StateTypes
<1> SUFFICES ASSUME Init PROVE StateTypes
  OBVIOUS
<1>1. attempts \in [Workers -> 0..(MaxAttempts - 1)]
  <2>1. 0 \in 0..(MaxAttempts - 1)
    BY WorkerAssumption
  <2>2. QED BY <2>1 DEF Init
<1>2. /\ creds \in [Groups -> URLLists \cup {<<>>}]
      /\ credsSignal \in [Groups -> {"open", "timer", "closed"}]
      /\ spawnSignal \in [Groups -> BOOLEAN]
      /\ asks \in [Workers -> BOOLEAN] /\ got \in [Workers -> BOOLEAN]
  BY DEF Init
<1>3. gpc \in [Groups -> GroupPhases] /\ wpc \in [Workers -> WorkerPhases]
  BY DEF Init, GroupPhases, Waiting, WorkerPhases
<1>4. QED BY <1>1, <1>2, <1>3 DEF Init, StateTypes

(* Every step keeps the types. *)
LEMMA NextTypes == StateTypes /\ [Next]_vars => StateTypes'
<1> SUFFICES ASSUME StateTypes, [Next]_vars PROVE StateTypes'
  OBVIOUS
<1> USE DEF StateTypes, groupVars, workerVars, configVars
<1>1. ASSUME NEW g \in Groups, GroupStep(g) PROVE StateTypes'
  <2> USE DEF GroupGoesTo, GroupPhases, Waiting, WorkerPhases
  <2>1. CASE TakeTurn(g)
    BY <2>1 DEF TakeTurn
  <2>2. CASE GiveUpWaiting(g)
    BY <2>2 DEF GiveUpWaiting
  <2>3. CASE FetchOK(g)
    <3>1. PICK urls \in URLLists : creds' = [creds EXCEPT ![g] = urls]
      BY <2>3 DEF FetchOK
    <3>2. credsSignal' \in [Groups -> {"open", "timer", "closed"}]
      BY <2>3 DEF FetchOK
    <3>3. gpc' \in [Groups -> GroupPhases]
      BY <2>3 DEF FetchOK
    <3>4. QED BY <2>3, <3>1, <3>2, <3>3 DEF FetchOK
  <2>4. CASE FetchFail(g)
    BY <2>4 DEF FetchFail
  <2>5. CASE FetchCancelled(g)
    BY <2>5 DEF FetchCancelled
  <2>6. CASE SignalCreds(g)
    BY <2>6 DEF SignalCreds
  <2>7. CASE Spawn(g)
    <3>1. spawnSignal' \in [Groups -> BOOLEAN]
      BY <2>7 DEF Spawn
    <3>2. wpc' \in [Workers -> WorkerPhases]
      BY <2>7 DEF Spawn
    <3>3. gpc' \in [Groups -> GroupPhases]
      BY <2>7 DEF Spawn
    <3>4. QED BY <2>7, <3>1, <3>2, <3>3 DEF Spawn
  <2>8. CASE GroupEnds(g)
    BY <2>8 DEF GroupEnds
  <2>9. QED BY <1>1, <2>1, <2>2, <2>3, <2>4, <2>5, <2>6, <2>7, <2>8 DEF GroupStep, FetchEnds
<1>2. ASSUME NEW w \in Workers, WorkerStep(w) PROVE StateTypes'
  <2> USE WorkerAssumption DEF WorkerGoesTo, WorkerPhases
  <2>1. CASE Leave(w)
    BY <2>1 DEF Leave
  <2>2. CASE Choose(w)
    <3>1. attempts' \in [Workers -> 0..(MaxAttempts - 1)]
      BY <2>2 DEF Choose
    <3>2. QED BY <2>2, <3>1 DEF Choose
  <2>3. CASE ClearExpired(w)
    BY <2>3 DEF ClearExpired
  <2>4. CASE SwapRequest(w)
    <3>1. Wins(w) \in BOOLEAN
      BY DEF Wins
    <3>2. asks' \in [Workers -> BOOLEAN]
      BY <2>4, <3>1, Zenon DEF SwapRequest
    <3>3. QED BY <2>4, <3>2 DEF SwapRequest
  <2>5. ASSUME SettleRequest(w)
        PROVE  /\ asks' \in [Workers -> BOOLEAN] /\ got' \in [Workers -> BOOLEAN]
               /\ inFlight' \in BOOLEAN /\ configSent' \in BOOLEAN
    BY <2>5 DEF SettleRequest
  <2>6. CASE AddressDead(w)
    BY <2>5, <2>6 DEF AddressDead
  <2>7. CASE WrapTimeout(w)
    <3>1. attempts' \in [Workers -> 0..(MaxAttempts - 1)]
      BY <2>7 DEF WrapTimeout
    <3>2. QED BY <2>5, <2>7, <3>1 DEF WrapTimeout
  <2>8. CASE SessionFatal(w)
    BY <2>5, <2>8 DEF SessionFatal
  <2>9. CASE SessionOpens(w)
    BY <2>9 DEF SessionOpens
  <2>10. CASE ConfigArrives(w)
    BY <2>10 DEF ConfigArrives
  <2>11. CASE NoConfig(w)
    BY <2>11 DEF NoConfig
  <2>12. CASE SessionEnds(w)
    <3>1. attempts' \in [Workers -> 0..(MaxAttempts - 1)]
      BY <2>12 DEF SessionEnds
    <3>2. QED BY <2>5, <2>12, <3>1 DEF SessionEnds
  <2>13. QED BY <1>2, <2>1, <2>2, <2>3, <2>4, <2>6, <2>7, <2>8, <2>9, <2>10, <2>11, <2>12
             DEF WorkerStep, SetupEnds
<1>3. CASE \E a \in Addrs : BanExpires(a)
  BY <1>3 DEF BanExpires
<1>4. CASE CoreEnds
  BY <1>4 DEF CoreEnds
<1>5. CASE Stop
  BY <1>5 DEF Stop
<1>6. CASE UNCHANGED vars
  BY <1>6 DEF vars
<1>7. QED BY <1>1, <1>2, <1>3, <1>4, <1>5, <1>6 DEF Next
-----------------------------------------------------------------------------
LEMMA InitChain == Init => ChainInv
<1> SUFFICES ASSUME Init PROVE ChainInv
  OBVIOUS
<1>1. \A g \in Groups : gpc[g] = "waitCreds" /\ credsSignal[g] = "open" /\ spawnSignal[g] = FALSE
  BY DEF Init
<1>2. \A g \in Groups : \A w \in WorkersOf(g) : wpc[w] = "unborn"
  BY WorkersOfGroup DEF Init
<1>3. closed = FALSE
  BY DEF Init
<1>4. QED BY <1>1, <1>2, <1>3 DEF ChainInv, ChainOrder

(* A worker that takes a step was born and has not ended; no step of a worker *)
(* disturbs a group.                                                          *)
LEMMA WorkerStepShape ==
    ASSUME StateTypes, NEW w \in Workers, WorkerStep(w)
    PROVE  /\ wpc[w] \notin {"unborn", "ended"}
           /\ \E p \in WorkerPhases \ {"unborn"} : wpc' = [wpc EXCEPT ![w] = p]
           /\ UNCHANGED <<closed, gpc, creds, credsSignal, spawnSignal>>
<1> USE DEF StateTypes, WorkerGoesTo, WorkerPhases, groupVars
<1>1. CASE Leave(w)
  BY <1>1 DEF Leave
<1>2. CASE Choose(w)
  BY <1>2 DEF Choose
<1>3. CASE ClearExpired(w)
  BY <1>3 DEF ClearExpired
<1>4. CASE SwapRequest(w)
  BY <1>4 DEF SwapRequest
<1>5. CASE AddressDead(w)
  BY <1>5 DEF AddressDead
<1>6. CASE WrapTimeout(w)
  BY <1>6 DEF WrapTimeout
<1>7. CASE SessionFatal(w)
  BY <1>7 DEF SessionFatal
<1>8. CASE SessionOpens(w)
  BY <1>8 DEF SessionOpens
<1>9. CASE ConfigArrives(w)
  BY <1>9 DEF ConfigArrives
<1>10. CASE NoConfig(w)
  BY <1>10 DEF NoConfig
<1>11. CASE SessionEnds(w)
  BY <1>11 DEF SessionEnds
<1>12. QED BY <1>1, <1>2, <1>3, <1>4, <1>5, <1>6, <1>7, <1>8, <1>9, <1>10, <1>11
           DEF WorkerStep, SetupEnds

(* Every step of a group keeps the chain. *)
LEMMA GroupKeepsChain ==
    ASSUME StateTypes, ChainInv, NEW g \in Groups, GroupStep(g)
    PROVE  ChainInv'
<1> USE WorkerAssumption DEF StateTypes, ChainInv, ChainOrder, GroupGoesTo, WorkersOf, Groups, Waiting
<1>1. CASE TakeTurn(g)
  <2>1. ASSUME NEW h \in Groups, h < g PROVE creds[h] # <<>>
    <3>1. g - 1 \in Groups /\ h \in 1..(g - 1) /\ g > 1
      BY <2>1
    <3>2. credsSignal[g - 1] = "closed"
      BY <1>1, <3>1 DEF TakeTurn
    <3>3. QED BY <3>1, <3>2
  <2>2. QED BY <1>1, <2>1 DEF TakeTurn, workerVars
<1>2. CASE GiveUpWaiting(g)
  BY <1>2 DEF GiveUpWaiting, workerVars
<1>3. CASE FetchOK(g)
  <2>1. creds'[g] # <<>> /\ \A h \in Groups \ {g} : creds'[h] = creds[h]
    BY <1>3 DEF FetchOK
  <2>2. \A h \in 1..g : creds'[h] # <<>>
    BY <1>3, <2>1 DEF FetchOK
  <2>3. \A h \in Groups : creds[h] # <<>> => creds'[h] # <<>>
    BY <2>1
  <2>4. /\ gpc' = [gpc EXCEPT ![g] = "waitSpawn"]
        /\ \A h \in Groups \ {g} : credsSignal'[h] = credsSignal[h]
        /\ wpc' = wpc /\ spawnSignal' = spawnSignal /\ closed' = closed
    BY <1>3 DEF FetchOK, workerVars
  <2>5. QED BY <1>3, <2>1, <2>2, <2>3, <2>4 DEF FetchOK
<1>4. CASE FetchFail(g)
  BY <1>4 DEF FetchFail, workerVars
<1>5. CASE FetchCancelled(g)
  BY <1>5 DEF FetchCancelled, workerVars
<1>6. CASE SignalCreds(g)
  BY <1>6 DEF SignalCreds, workerVars
<1>7. CASE Spawn(g)
  <2>1. /\ \A w \in WorkersOf(g) : wpc'[w] = "loop"
        /\ \A w \in Workers : GroupOf(w) # g => wpc'[w] = wpc[w]
        /\ gpc' = [gpc EXCEPT ![g] = "running"] /\ gpc[g] = "waitSpawn"
        /\ \A h \in Groups \ {g} : spawnSignal'[h] = spawnSignal[h]
        /\ UNCHANGED <<closed, creds, credsSignal>>
    BY <1>7 DEF Spawn
  <2>2. \A w \in Workers : wpc[w] # "unborn" => wpc'[w] # "unborn"
    BY <2>1
  <2>3. \A h \in Groups : h < g => \A w \in WorkersOf(h) : wpc[w] # "unborn"
    BY <1>7 DEF Spawn
  <2>4. \A h \in 1..g : \A w \in WorkersOf(h) : wpc'[w] # "unborn"
    BY <2>1, <2>2, <2>3
  <2>5. ChainOrder'
    BY <2>1, <2>2, <2>4
  <2>6. \A h \in Groups : spawnSignal'[h] => \A k \in 1..h : \A w \in WorkersOf(k) : wpc'[w] # "unborn"
    BY <2>1, <2>2, <2>4
  <2>7. \A h \in Groups \ {g} : \A w \in WorkersOf(h) : wpc'[w] = wpc[w]
    BY <2>1
  <2>8. QED BY <2>1, <2>5, <2>6, <2>7
<1>8. CASE GroupEnds(g)
  BY <1>8 DEF GroupEnds, workerVars
<1>9. QED BY <1>1, <1>2, <1>3, <1>4, <1>5, <1>6, <1>7, <1>8 DEF GroupStep, FetchEnds

(* Every step keeps the chain. *)
LEMMA NextChain == StateTypes /\ ChainInv /\ [Next]_vars => ChainInv'
<1> SUFFICES ASSUME StateTypes, ChainInv, [Next]_vars PROVE ChainInv'
  OBVIOUS
<1>1. CASE \E g \in Groups : GroupStep(g)
  BY <1>1, GroupKeepsChain
<1>2. ASSUME NEW w \in Workers, WorkerStep(w) PROVE ChainInv'
  <2>1. PICK p \in WorkerPhases \ {"unborn"} : wpc' = [wpc EXCEPT ![w] = p]
    BY <1>2, WorkerStepShape
  <2>2. wpc[w] \notin {"unborn", "ended"} /\ UNCHANGED <<closed, gpc, creds, credsSignal, spawnSignal>>
    BY <1>2, WorkerStepShape
  <2>3. \A v \in Workers : /\ wpc[v] # "unborn" => wpc'[v] # "unborn"
                           /\ wpc[v] \in {"unborn", "ended"} => wpc'[v] = wpc[v]
    BY <2>1, <2>2 DEF StateTypes
  <2>4. QED BY <2>2, <2>3 DEF ChainInv, ChainOrder, WorkersOf
<1>3. CASE \E a \in Addrs : BanExpires(a)
  BY <1>3 DEF BanExpires, ChainInv, ChainOrder, groupVars, workerVars
<1>4. CASE CoreEnds
  BY <1>4 DEF CoreEnds, ChainInv, ChainOrder, groupVars, workerVars
<1>5. CASE Stop
  BY <1>5 DEF Stop, ChainInv, ChainOrder, groupVars, workerVars
<1>6. CASE UNCHANGED vars
  BY <1>6 DEF vars, ChainInv, ChainOrder, groupVars, workerVars
<1>7. QED BY <1>1, <1>2, <1>3, <1>4, <1>5, <1>6 DEF Next
-----------------------------------------------------------------------------
LEMMA InitRequest == Init => RequestInv
BY DEF Init, RequestInv, RequestIsHeld

(* Settling the request of one session leaves the right to ask with somebody or free. *)
LEMMA SettleKeepsRequest ==
    ASSUME StateTypes, RequestInv, NEW w \in Workers, SettleRequest(w), confs' = confs,
           wpc'[w] \notin {"ask"},
           \A v \in Workers \ {w} : wpc'[v] = wpc[v]
    PROVE  RequestInv'
<1> USE DEF StateTypes, RequestInv, RequestIsHeld, SettleRequest
<1>1. \A v \in Workers \ {w} : asks'[v] = asks[v] /\ got'[v] = got[v]
  OBVIOUS
<1>2. ~asks'[w] /\ ~got'[w]
  OBVIOUS
<1>3. CASE got[w]
  <2>1. configSent' /\ inFlight' /\ confs' = 1
    BY <1>3
  <2>2. \A v \in Workers : ~asks'[v] /\ ~got'[v]
    BY <1>1, <1>2, <1>3
  <2>3. QED BY <1>1, <1>2, <2>1, <2>2
<1>4. CASE asks[w] /\ ~got[w]
  <2>1. ~inFlight' /\ ~configSent' /\ \A v \in Workers : ~asks'[v] /\ ~got'[v]
    BY <1>1, <1>2, <1>4
  <2>2. confs' = 0
    BY <1>4
  <2>3. QED BY <1>1, <1>2, <2>1, <2>2
<1>5. CASE ~asks[w]
  <2>1. inFlight' = inFlight /\ configSent' = configSent
    BY <1>5
  <2>2. asks' = asks /\ got' = got
    BY <1>5
  <2>3. QED BY <1>1, <1>2, <1>5, <2>1, <2>2
<1>6. QED BY <1>3, <1>4, <1>5

(* Every step keeps the bookkeeping of the request. *)
LEMMA NextRequest == StateTypes /\ ChainInv /\ RequestInv /\ [Next]_vars => RequestInv'
<1> SUFFICES ASSUME StateTypes, ChainInv, RequestInv, [Next]_vars PROVE RequestInv'
  OBVIOUS
<1>1. ASSUME wpc' = wpc, UNCHANGED <<asks, got, configVars>> PROVE RequestInv'
  BY <1>1 DEF RequestInv, RequestIsHeld, configVars
<1>2. ASSUME NEW g \in Groups, GroupStep(g) PROVE RequestInv'
  <2>1. CASE Spawn(g)
    <3>1. UNCHANGED <<asks, got, configVars>>
      BY <2>1 DEF Spawn
    <3>2. \A w \in Workers : wpc'[w] = wpc[w] \/ (wpc[w] = "unborn" /\ wpc'[w] = "loop")
      BY <2>1 DEF Spawn, StateTypes, ChainInv, Waiting, WorkersOf
    <3>3. \A w \in Workers : /\ wpc[w] \in {"setup", "ask", "up"} => wpc'[w] = wpc[w]
                             /\ wpc'[w] \in {"setup", "ask", "up"} => wpc'[w] = wpc[w]
      BY <3>2
    <3>4. QED BY <3>1, <3>2, <3>3 DEF RequestInv, RequestIsHeld, configVars
  <2>2. CASE ~Spawn(g)
    BY <1>1, <1>2, <2>2 DEF GroupStep, FetchEnds, TakeTurn, GiveUpWaiting, FetchOK, FetchFail, FetchCancelled,
       SignalCreds, GroupEnds, workerVars
  <2>3. QED BY <2>1, <2>2
<1>3. ASSUME NEW w \in Workers, WorkerStep(w) PROVE RequestInv'
  <2> USE DEF StateTypes, WorkerGoesTo
  <2>1. ASSUME NEW p \in {"ended", "chosen", "swap", "setup"}, wpc' = [wpc EXCEPT ![w] = p],
               wpc[w] \in {"loop", "chosen"}, UNCHANGED <<asks, got, configVars>>
        PROVE  RequestInv'
    BY <2>1 DEF RequestInv, RequestIsHeld, configVars
  <2>2. CASE Leave(w)
    BY <2>1, <2>2 DEF Leave
  <2>3. CASE Choose(w)
    BY <2>1, <2>3 DEF Choose
  <2>4. CASE ClearExpired(w)
    BY <2>1, <2>4 DEF ClearExpired
  <2>5. CASE SwapRequest(w)
    <3>1. CASE inFlight
      <4>1. asks' = asks /\ got' = got /\ inFlight' = inFlight /\ UNCHANGED <<configSent, confs>>
        BY <2>5, <3>1 DEF SwapRequest, Wins, RequestInv
      <4>2. wpc' = [wpc EXCEPT ![w] = "setup"] /\ wpc[w] = "swap"
        BY <2>5 DEF SwapRequest
      <4>3. QED BY <4>1, <4>2 DEF RequestInv, RequestIsHeld
    <3>2. CASE ~inFlight
      <4>1. /\ asks' = [asks EXCEPT ![w] = TRUE] /\ got' = got /\ inFlight'
            /\ UNCHANGED <<configSent, confs>>
            /\ wpc' = [wpc EXCEPT ![w] = "setup"] /\ wpc[w] = "swap"
        BY <2>5, <3>2 DEF SwapRequest, Wins
      <4>2. ~configSent /\ \A v \in Workers : ~asks[v] /\ ~got[v] /\ wpc[v] # "ask"
        BY <3>2 DEF RequestInv
      <4>3. \A v \in Workers : /\ asks'[v] <=> (v = w)
                               /\ v # w => wpc'[v] = wpc[v]
        BY <4>1, <4>2
      <4>4. QED BY <4>1, <4>2, <4>3 DEF RequestInv, RequestIsHeld
    <3>3. QED BY <3>1, <3>2
  <2>6. ASSUME NEW p \in {"loop", "ended"}, SettleRequest(w), confs' = confs, wpc' = [wpc EXCEPT ![w] = p]
        PROVE  RequestInv'
    BY <2>6, SettleKeepsRequest
  <2>7. CASE AddressDead(w)
    BY <2>6, <2>7 DEF AddressDead
  <2>8. CASE WrapTimeout(w)
    BY <2>6, <2>8 DEF WrapTimeout
  <2>9. CASE SessionFatal(w)
    BY <2>6, <2>9 DEF SessionFatal
  <2>10. CASE SessionEnds(w)
    BY <2>6, <2>10 DEF SessionEnds
  <2>11. CASE SessionOpens(w)
    BY <2>11 DEF SessionOpens, RequestInv, RequestIsHeld, configVars
  <2>12. CASE ConfigArrives(w)
    <3>1. asks[w] /\ inFlight /\ ~configSent /\ confs = 0
      BY <2>12 DEF ConfigArrives, RequestInv
    <3>2. /\ got' = [got EXCEPT ![w] = TRUE] /\ confs' = 1
          /\ wpc' = [wpc EXCEPT ![w] = "up"]
          /\ UNCHANGED <<asks, inFlight, configSent>>
      BY <2>12, <3>1 DEF ConfigArrives
    <3>3. \A v \in Workers \ {w} : ~asks[v] /\ ~got[v] /\ wpc'[v] = wpc[v]
      BY <3>1, <3>2 DEF RequestInv
    <3>4. QED BY <3>1, <3>2, <3>3 DEF RequestInv, RequestIsHeld
  <2>13. CASE NoConfig(w)
    BY <2>13 DEF NoConfig, RequestInv, RequestIsHeld, configVars
  <2>14. QED BY <1>3, <2>2, <2>3, <2>4, <2>5, <2>7, <2>8, <2>9, <2>10, <2>11, <2>12, <2>13
             DEF WorkerStep, SetupEnds
<1>4. CASE \E a \in Addrs : BanExpires(a)
  BY <1>1, <1>4 DEF BanExpires, workerVars
<1>5. CASE CoreEnds
  BY <1>1, <1>5 DEF CoreEnds, workerVars
<1>6. CASE Stop
  BY <1>1, <1>6 DEF Stop, workerVars
<1>7. CASE UNCHANGED vars
  BY <1>1, <1>7 DEF vars, workerVars
<1>8. QED BY <1>2, <1>3, <1>4, <1>5, <1>6, <1>7 DEF Next
-----------------------------------------------------------------------------
(* The two invariants hold together in every reachable state. *)
THEOREM GroupInvariant == Spec => [](StateTypes /\ ChainInv /\ RequestInv)
<1>1. Init => StateTypes /\ ChainInv /\ RequestInv
  BY InitTypes, InitChain, InitRequest
<1>2. StateTypes /\ ChainInv /\ RequestInv /\ [Next]_vars => (StateTypes /\ ChainInv /\ RequestInv)'
  BY NextTypes, NextChain, NextRequest
<1>3. QED BY <1>1, <1>2, PTL DEF Spec

(* One Core delivers one WireGuard config, whatever its workers do: what goes into   *)
(* configCh (worker_group.go:262-288) is read once.                                  *)
THEOREM OneConfig == Spec => []ConfigOnce
<1>1. RequestInv => ConfigOnce
  BY DEF RequestInv, ConfigOnce
<1>2. QED BY <1>1, GroupInvariant, PTL

(* configRequestInFlight (worker_group.go:262-288) is never set for nothing.         *)
THEOREM RequestHeld == Spec => []RequestIsHeld
<1>1. RequestInv => RequestIsHeld
  BY DEF RequestInv
<1>2. QED BY <1>1, GroupInvariant, PTL

(* The groups ask VK and start their workers in order (waitCreds and waitSpawn,      *)
(* worker_group.go:58-64, 169-175).                                                  *)
THEOREM ChainInOrder == Spec => []ChainOrder
<1>1. ChainInv => ChainOrder
  BY DEF ChainInv
<1>2. QED BY <1>1, GroupInvariant, PTL

(* No worker is left when core.start closes configCh (main.go:352-353).              *)
THEOREM NoWorkerOutlivesCore == Spec => []NothingOutlivesCore
<1>1. StateTypes /\ ChainInv => NothingOutlivesCore
  <2> SUFFICES ASSUME StateTypes, ChainInv, closed, NEW w \in Workers
               PROVE  wpc[w] \in {"unborn", "ended"}
    BY DEF NothingOutlivesCore
  <2>1. GroupOf(w) \in Groups /\ w \in WorkersOf(GroupOf(w))
    BY GroupOfWorker DEF WorkersOf
  <2>2. QED BY <2>1 DEF ChainInv
<1>2. QED BY <1>1, GroupInvariant, PTL
=============================================================================
