----------------------------- MODULE WorkerGroups -----------------------------
(***************************************************************************)
(* The goroutines that carry the traffic of one Core: the chain of           *)
(* WorkerGroups that core.start creates (core/main.go), the worker loop of    *)
(* each (core/worker_group.go), the one request for the WireGuard config the  *)
(* first group makes, and the blacklist of TURN addresses all workers share   *)
(* (core/blacklist.go).                                                       *)
(*                                                                           *)
(* A session of a worker (RunSession, core/session.go) is seen here from      *)
(* outside: it is being set up, it asks for the config, it is up, or it ended *)
(* with a result; TurnSession.tla looks inside.  Pauses and sleeps are a      *)
(* worker that has not taken its next step yet.  Core.Pause has no caller, so  *)
(* pauseFlag stays 0.                                                         *)
(***************************************************************************)
EXTENDS Naturals, Sequences

CONSTANTS
    NumGroups,    \* Workers / workersPerGroup
    PerGroup,     \* workersPerGroup (9)
    Addrs,        \* the TURN addresses
    URLLists,     \* the lists of addresses VK may hand out with the credentials, never empty
    MaxAttempts   \* maxAttemptsPerAddress (3)

ASSUME WorkerAssumption ==
    /\ NumGroups \in Nat \ {0}
    /\ PerGroup \in Nat \ {0}
    /\ MaxAttempts \in Nat \ {0}
    /\ URLLists \subseteq Seq(Addrs) \ {<<>>}

Groups == 1..NumGroups
Workers == 1..(NumGroups * PerGroup)

(* workerIDCounter: group g has the PerGroup numbers after those of g - 1. *)
GroupOf(w) == ((w - 1) \div PerGroup) + 1
WorkersOf(g) == {w \in Workers : GroupOf(w) = g}

VARIABLES
    stopped,      \* the Core's context is cancelled
    closed,       \* wg.Wait returned: configCh is closed, the Core ends
    gpc,          \* [Groups -> where WorkerGroup is]
    failed,       \* [Groups -> why it got no credentials while the Core ran: "no", "error", "cancelled"]
    creds,        \* [Groups -> the TURN addresses of its credentials]
    credsSignal,  \* [Groups -> "open", "timer" (the 2 s goroutine runs), "closed"]
    spawnSignal,  \* [Groups -> signalSpawn is closed]
    wpc,          \* [Workers -> where the worker is]
    addr,         \* [Workers -> currentTurnAddr, "" before the first]
    attempts,     \* [Workers -> addressAttempts]
    asks,         \* [Workers -> getConf of the session that runs]
    got,          \* [Workers -> configDelivered of that session]
    inFlight,     \* configRequestInFlight of the first group
    configSent,   \* configSent of the first group
    confs,        \* how many configs were put into configCh
    stale,        \* [Workers -> addresses whose expired ban IsBanned is about to delete]
    bans          \* [Addrs -> "none", "active", "expired" (still an entry of the map)]

groupVars == <<gpc, failed, creds, credsSignal, spawnSignal>>
workerVars == <<wpc, addr, attempts, asks, got, stale>>
configVars == <<inFlight, configSent, confs>>
vars == <<stopped, closed, groupVars, workerVars, configVars, bans>>

Waiting == {"waitCreds", "fetch", "waitSpawn"}
GroupPhases == Waiting \cup {"running", "returned"}
WorkerPhases == {"unborn", "loop", "chosen", "swap", "setup", "ask", "up", "ended"}

Init ==
    /\ stopped = FALSE /\ closed = FALSE
    /\ gpc = [g \in Groups |-> "waitCreds"]
    /\ failed = [g \in Groups |-> "no"]
    /\ creds = [g \in Groups |-> <<>>]
    /\ credsSignal = [g \in Groups |-> "open"]
    /\ spawnSignal = [g \in Groups |-> FALSE]
    /\ wpc = [w \in Workers |-> "unborn"]
    /\ addr = [w \in Workers |-> ""]
    /\ attempts = [w \in Workers |-> 0]
    /\ asks = [w \in Workers |-> FALSE]
    /\ got = [w \in Workers |-> FALSE]
    /\ inFlight = FALSE /\ configSent = FALSE /\ confs = 0
    /\ stale = [w \in Workers |-> {}]
    /\ bans = [a \in Addrs |-> "none"]
-----------------------------------------------------------------------------
(***************************************************************************)
(* WorkerGroup                                                              *)
(***************************************************************************)
GroupGoesTo(g, phase) == gpc' = [gpc EXCEPT ![g] = phase]

(* The predecessor gave the signal; the first group has none to wait for. *)
TakeTurn(g) ==
    /\ gpc[g] = "waitCreds"
    /\ g > 1 => credsSignal[g - 1] = "closed"
    /\ GroupGoesTo(g, "fetch")
    /\ UNCHANGED <<stopped, closed, failed, creds, credsSignal, spawnSignal, workerVars, configVars, bans>>

(* The wait for signalCreds does not look at ctx. *)
GiveUpWaitingSpawn(g) ==
    /\ stopped
    /\ gpc[g] = "waitSpawn"
    /\ GroupGoesTo(g, "returned")
    /\ UNCHANGED <<stopped, closed, failed, creds, credsSignal, spawnSignal, workerVars, configVars, bans>>

(* ctx.Done while waiting for either signal. *)
GiveUpWaiting(g) ==
    /\ stopped
    /\ gpc[g] \in {"waitCreds", "waitSpawn"}
    /\ GroupGoesTo(g, "returned")
    /\ UNCHANGED <<stopped, closed, failed, creds, credsSignal, spawnSignal, workerVars, configVars, bans>>

(* VK gave credentials; the goroutine that closes signalCreds 2 s later starts. *)
FetchOK(g) ==
    /\ gpc[g] = "fetch"
    /\ \E urls \in URLLists : creds' = [creds EXCEPT ![g] = urls]
    /\ credsSignal' = [credsSignal EXCEPT ![g] = IF g < NumGroups THEN "timer" ELSE @]
    /\ GroupGoesTo(g, "waitSpawn")
    /\ UNCHANGED <<stopped, closed, failed, spawnSignal, workerVars, configVars, bans>>

(* The Core is not stopped when the credentials of the first group fail. *)
FetchFailKeepsCore(g) ==
    /\ gpc[g] = "fetch"
    /\ failed' = [failed EXCEPT ![g] = IF stopped THEN "no" ELSE "error"]
    /\ GroupGoesTo(g, "returned")
    /\ UNCHANGED <<stopped, closed, creds, credsSignal, spawnSignal, workerVars, configVars, bans>>

(* VK gave none.  A failure of the first group stops the Core. *)
FetchFail(g) ==
    /\ gpc[g] = "fetch"
    /\ failed' = [failed EXCEPT ![g] = IF stopped THEN "no" ELSE "error"]
    /\ stopped' = (stopped \/ g = 1)
    /\ GroupGoesTo(g, "returned")
    /\ UNCHANGED <<closed, creds, credsSignal, spawnSignal, workerVars, configVars, bans>>

(* The error is context.Canceled: the Core was stopped, or the user cancelled the *)
(* CAPTCHA, whose own context ends while the one of the Core goes on.             *)
FetchCancelled(g) ==
    /\ gpc[g] = "fetch"
    /\ failed' = [failed EXCEPT ![g] = IF stopped THEN "no" ELSE "cancelled"]
    /\ GroupGoesTo(g, "returned")
    /\ UNCHANGED <<stopped, closed, creds, credsSignal, spawnSignal, workerVars, configVars, bans>>

(* time.Sleep(2 s); close(signalCreds): this goroutine has no ctx. *)
SignalCreds(g) ==
    /\ credsSignal[g] = "timer"
    /\ credsSignal' = [credsSignal EXCEPT ![g] = "closed"]
    /\ UNCHANGED <<stopped, closed, gpc, failed, creds, spawnSignal, workerVars, configVars, bans>>

(* Workers started without waiting for the group before. *)
SpawnEarly(g) ==
    /\ gpc[g] = "waitSpawn"
    /\ GroupGoesTo(g, "running")
    /\ spawnSignal' = [spawnSignal EXCEPT ![g] = g < NumGroups]
    /\ wpc' = [w \in Workers |-> IF w \in WorkersOf(g) THEN "loop" ELSE wpc[w]]
    /\ UNCHANGED <<stopped, closed, failed, creds, credsSignal, addr, attempts, asks, got, stale, configVars, bans>>

(* All workers of the group are started, then signalSpawn is closed. *)
Spawn(g) ==
    /\ gpc[g] = "waitSpawn"
    /\ g > 1 => spawnSignal[g - 1]
    /\ GroupGoesTo(g, "running")
    /\ spawnSignal' = [spawnSignal EXCEPT ![g] = g < NumGroups]
    /\ wpc' = [w \in Workers |-> IF w \in WorkersOf(g) THEN "loop" ELSE wpc[w]]
    /\ UNCHANGED <<stopped, closed, failed, creds, credsSignal, addr, attempts, asks, got, stale, configVars, bans>>

(* wg.Wait of the group returns. *)
GroupEnds(g) ==
    /\ gpc[g] = "running"
    /\ \A w \in WorkersOf(g) : wpc[w] = "ended"
    /\ GroupGoesTo(g, "returned")
    /\ UNCHANGED <<stopped, closed, failed, creds, credsSignal, spawnSignal, workerVars, configVars, bans>>

FetchEnds(g) == FetchOK(g) \/ FetchFail(g) \/ FetchCancelled(g)

GroupStep(g) ==
    \/ TakeTurn(g) \/ GiveUpWaiting(g) \/ FetchEnds(g)
    \/ SignalCreds(g) \/ Spawn(g) \/ GroupEnds(g)

(* wg.Wait of core.start returns; close(configCh) and the deferred cancel. *)
CoreEnds ==
    /\ ~closed
    /\ \A g \in Groups : gpc[g] = "returned"
    /\ closed' = TRUE
    /\ stopped' = TRUE
    /\ UNCHANGED <<groupVars, workerVars, configVars, bans>>

(* Core.Stop *)
Stop ==
    /\ ~stopped
    /\ stopped' = TRUE
    /\ UNCHANGED <<closed, groupVars, workerVars, configVars, bans>>
-----------------------------------------------------------------------------
(***************************************************************************)
(* The worker loop                                                          *)
(***************************************************************************)
WorkerGoesTo(w, phase) == wpc' = [wpc EXCEPT ![w] = phase]

(* The addresses of its credentials that IsBanned clears, in their order. *)
Available(w) == SelectSeq(creds[GroupOf(w)], LAMBDA a : bans[a] # "active")

(* selectTurnAddress *)
TurnAddress(w) == LET urls == Available(w) IN urls[((w - 1) % Len(urls)) + 1]

(* ctx is done: at the head of the loop or during a sleep. *)
Leave(w) ==
    /\ stopped
    /\ wpc[w] = "loop"
    /\ WorkerGoesTo(w, "ended")
    /\ UNCHANGED <<stopped, closed, groupVars, addr, attempts, asks, got, stale, configVars, bans>>

(* Its addresses whose entry in the map has run out. *)
Expired(w) ==
    LET urls == creds[GroupOf(w)]
    IN  {urls[i] : i \in {j \in DOMAIN urls : bans[urls[j]] = "expired"}}

(* The loop up to the choice of the address.  IsBanned reads under RLock; an entry *)
(* that has run out is deleted under Lock, in a critical section of its own.       *)
Choose(w) ==
    /\ ~stopped
    /\ wpc[w] = "loop"
    /\ Available(w) # <<>>
    /\ addr' = [addr EXCEPT ![w] = TurnAddress(w)]
    /\ attempts' = [attempts EXCEPT ![w] = IF TurnAddress(w) = addr[w] THEN @ ELSE 0]
    /\ stale' = [stale EXCEPT ![w] = Expired(w)]
    /\ WorkerGoesTo(w, "chosen")
    /\ UNCHANGED <<stopped, closed, groupVars, asks, got, configVars, bans>>

(* Only the workers of the first group ask for the config, until it was sent. *)
WantsConfig(w) == GroupOf(w) = 1 /\ ~configSent

(* The deletions of IsBanned, whatever the entries are by now; then configSent is read. *)
ClearExpired(w) ==
    /\ wpc[w] = "chosen"
    /\ bans' = [a \in Addrs |-> IF a \in stale[w] THEN "none" ELSE bans[a]]
    /\ stale' = [stale EXCEPT ![w] = {}]
    /\ WorkerGoesTo(w, IF WantsConfig(w) THEN "swap" ELSE "setup")
    /\ UNCHANGED <<stopped, closed, groupVars, addr, attempts, asks, got, configVars>>

(* The request is taken without the comparison. *)
WinsAlways(w) == wpc[w] = "swap"

(* CompareAndSwapInt32(&configRequestInFlight, 0, 1) *)
Wins(w) == wpc[w] = "swap" /\ ~inFlight

(* The compare-and-swap and the call of RunSession. *)
SwapRequest(w) ==
    /\ wpc[w] = "swap"
    /\ asks' = [asks EXCEPT ![w] = Wins(w)]
    /\ inFlight' = TRUE
    /\ WorkerGoesTo(w, "setup")
    /\ UNCHANGED <<stopped, closed, groupVars, addr, attempts, got, stale, configSent, confs, bans>>

(* The request is never given back. *)
SettleRequestNever(w) ==
    /\ configSent' = (configSent \/ got[w])
    /\ inFlight' = inFlight
    /\ asks' = [asks EXCEPT ![w] = FALSE]
    /\ got' = [got EXCEPT ![w] = FALSE]

(* RunSession returned: a request that brought no config may be made again. *)
SettleRequest(w) ==
    /\ configSent' = (configSent \/ got[w])
    /\ inFlight' = (inFlight /\ ~(asks[w] /\ ~got[w]))
    /\ asks' = [asks EXCEPT ![w] = FALSE]
    /\ got' = [got EXCEPT ![w] = FALSE]

(* ADDRESS_DEAD: the address is banned for everybody. *)
AddressDead(w) ==
    /\ wpc[w] = "setup" /\ ~stopped
    /\ bans' = [bans EXCEPT ![addr[w]] = "active"]
    /\ SettleRequest(w)
    /\ WorkerGoesTo(w, "loop")
    /\ UNCHANGED <<stopped, closed, groupVars, addr, attempts, confs, stale>>

(* WRAP_TIMEOUT: another obfuscation mode, and after MaxAttempts a ban. *)
WrapTimeout(w) ==
    /\ wpc[w] = "setup" /\ ~stopped
    /\ IF attempts[w] + 1 >= MaxAttempts
         THEN /\ bans' = [bans EXCEPT ![addr[w]] = "active"]
              /\ attempts' = [attempts EXCEPT ![w] = 0]
         ELSE /\ attempts' = [attempts EXCEPT ![w] = @ + 1]
              /\ UNCHANGED bans
    /\ SettleRequest(w)
    /\ WorkerGoesTo(w, "loop")
    /\ UNCHANGED <<stopped, closed, groupVars, addr, confs, stale>>

(* FATAL, or any error once ctx is done: the worker ends for good.  The refusal  *)
(* of the server (FATAL_AUTH) comes as the answer to the request for the config. *)
SessionFatal(w) ==
    /\ wpc[w] \in {"setup", "ask"}
    /\ SettleRequest(w)
    /\ WorkerGoesTo(w, "ended")
    /\ UNCHANGED <<stopped, closed, groupVars, addr, attempts, confs, stale, bans>>

(* The DTLS handshake succeeded. *)
SessionOpens(w) ==
    /\ wpc[w] = "setup"
    /\ WorkerGoesTo(w, IF asks[w] THEN "ask" ELSE "up")
    /\ UNCHANGED <<stopped, closed, groupVars, addr, attempts, asks, got, stale, configVars, bans>>

(* The server sent the config; it is put into configCh. *)
ConfigArrives(w) ==
    /\ wpc[w] = "ask"
    /\ got' = [got EXCEPT ![w] = TRUE]
    /\ confs' = confs + 1
    /\ WorkerGoesTo(w, "up")
    /\ UNCHANGED <<stopped, closed, groupVars, addr, attempts, asks, stale, inFlight, configSent, bans>>

(* NOCONF, or no usable answer within 15 s: the session goes on without. *)
NoConfig(w) ==
    /\ wpc[w] = "ask"
    /\ WorkerGoesTo(w, "up")
    /\ UNCHANGED <<stopped, closed, groupVars, addr, attempts, asks, got, stale, configVars, bans>>

(* The session is over: RunSession returns nil. *)
SessionEnds(w) ==
    /\ wpc[w] = "up"
    /\ attempts' = [attempts EXCEPT ![w] = 0]
    /\ SettleRequest(w)
    /\ WorkerGoesTo(w, "loop")
    /\ UNCHANGED <<stopped, closed, groupVars, addr, confs, stale, bans>>

SetupEnds(w) ==
    AddressDead(w) \/ WrapTimeout(w) \/ SessionFatal(w) \/ SessionOpens(w) \/ ConfigArrives(w) \/ NoConfig(w)

WorkerStep(w) == Leave(w) \/ Choose(w) \/ ClearExpired(w) \/ SwapRequest(w) \/ SetupEnds(w) \/ SessionEnds(w)

(* Five minutes pass. *)
BanExpires(a) ==
    /\ bans[a] = "active"
    /\ bans' = [bans EXCEPT ![a] = "expired"]
    /\ UNCHANGED <<stopped, closed, groupVars, workerVars, configVars>>

Next ==
    \/ \E g \in Groups : GroupStep(g)
    \/ \E w \in Workers : WorkerStep(w)
    \/ \E a \in Addrs : BanExpires(a)
    \/ CoreEnds \/ Stop

Spec == Init /\ [][Next]_vars

(* What the code bounds in time is fair: the requests to VK (90 s), the set-up   *)
(* of a session and the request for the config (timeouts), timers, and every step *)
(* that waits for nobody.  A session that is up may stay up for ever; it ends when *)
(* ctx is done.  Neither the user nor VK owes anything.                           *)
Fairness ==
    /\ \A g \in Groups :
         /\ WF_vars(TakeTurn(g)) /\ WF_vars(GiveUpWaiting(g)) /\ WF_vars(FetchEnds(g))
         /\ WF_vars(SignalCreds(g)) /\ WF_vars(Spawn(g)) /\ WF_vars(GroupEnds(g))
    /\ \A w \in Workers :
         /\ WF_vars(Leave(w)) /\ WF_vars(Choose(w)) /\ WF_vars(ClearExpired(w) \/ SwapRequest(w)) /\ WF_vars(SetupEnds(w))
         /\ WF_vars(stopped /\ SessionEnds(w))
    /\ WF_vars(CoreEnds)

FairSpec == Spec /\ Fairness
-----------------------------------------------------------------------------
(***************************************************************************)
(* Properties                                                               *)
(***************************************************************************)

(* Types; a worker never counts maxAttemptsPerAddress failures without the ban. *)
TypeOK ==
    /\ stopped \in BOOLEAN /\ closed \in BOOLEAN
    /\ gpc \in [Groups -> GroupPhases]
    /\ failed \in [Groups -> {"no", "error", "cancelled"}]
    /\ creds \in [Groups -> URLLists \cup {<<>>}]
    /\ credsSignal \in [Groups -> {"open", "timer", "closed"}]
    /\ spawnSignal \in [Groups -> BOOLEAN]
    /\ wpc \in [Workers -> WorkerPhases]
    /\ addr \in [Workers -> Addrs \cup {""}]
    /\ attempts \in [Workers -> 0..(MaxAttempts - 1)]
    /\ asks \in [Workers -> BOOLEAN] /\ got \in [Workers -> BOOLEAN]
    /\ inFlight \in BOOLEAN /\ configSent \in BOOLEAN /\ confs \in Nat
    /\ stale \in [Workers -> SUBSET Addrs]
    /\ bans \in [Addrs -> {"none", "active", "expired"}]

(* One Core delivers one WireGuard config, however its workers race for it, fail   *)
(* and come back: configCh (capacity 1, one reader) never gets a second one, and   *)
(* the Bridge applies at most one (configRequestInFlight, worker_group.go:262-288). *)
ConfigOnce == confs <= 1 /\ (confs = 1 => configSent \/ \E w \in Workers : got[w])

(* The right to ask is never lost: while configRequestInFlight is set, either the   *)
(* config was delivered or a session that will settle the request is running.      *)
RequestIsHeld == inFlight => configSent \/ \E w \in Workers : asks[w]

(* The groups follow each other: a group asks VK only when every earlier one has    *)
(* its credentials, and no worker starts before all workers of earlier groups      *)
(* (waitCreds, waitSpawn, worker_group.go:58-64, 169-175).                          *)
ChainOrder ==
    \A g, h \in Groups : h < g =>
        /\ gpc[g] \in {"fetch", "waitSpawn", "running"} => creds[h] # <<>>
        /\ gpc[g] = "running" => \A w \in WorkersOf(h) : wpc[w] # "unborn"

(* When configCh is closed and the Core reports its end, no worker is left that     *)
(* could send into it or still owns a session (wg.Wait, main.go:352-353).           *)
NothingOutlivesCore == closed => \A w \in Workers : wpc[w] \in {"unborn", "ended"}

(* Core.Stop ends everything, wherever the groups and workers are.                  *)
StopEndsCore == stopped ~> closed

(* When VK refuses the first group its credentials, the Core ends: "Release the     *)
(* other groups blocked on waitCreds and return the UI to idle"                     *)
(* (worker_group.go:109).                                                           *)
FirstErrorEndsCore == (failed[1] = "error") ~> closed

(* The same for every way the first group can go without credentials, a cancelled   *)
(* CAPTCHA included: "without cancellation the core can remain connecting"          *)
(* (worker_group.go:110).                                                           *)
FirstGroupLossEndsCore == (failed[1] # "no") ~> closed
=============================================================================
