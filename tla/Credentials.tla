----------------------------- MODULE Credentials -----------------------------
(***************************************************************************)
(* How TURN credentials are asked of VK: the process-wide gate that lets one *)
(* request through at a time and the lockout after failed CAPTCHAs            *)
(* (core/vk_auth.go), the two ways to ask with their CAPTCHA retries          *)
(* (core/vk_auth.go, core/creds_vkcalls.go, core/vk_auth_policy.go), the       *)
(* coordinator that each Core has for the challenge the user must solve        *)
(* (core/captcha_flow.go), and the native browser that App.OpenCaptcha starts  *)
(* for it (backend/app.go, backend/bridge.go).                                 *)
(*                                                                           *)
(* A call is one goroutine that asks for credentials: a worker group of a      *)
(* Core, or the probe of a hash, which belongs to no Core.  The credential      *)
(* cache in front of the gate is left out: its keys are those of one worker     *)
(* group, which asks once per Core, so its locks are never contended.          *)
(***************************************************************************)
EXTENDS Naturals

CONSTANTS
    NumCores,        \* how many Cores are followed (bound of the model)
    Calls,           \* the goroutines that ask for credentials
    CoreOf,          \* [Calls -> the Core it works for, 0 for a probe]
    NoCall,          \* nobody
    Browsers,        \* goroutines that run App.OpenCaptcha
    Steps,           \* requests of VK Calls (3), and client_id pairs (at most 4)
    LegacyTries,     \* CAPTCHAs the legacy way solves before it gives up (3)
    MaxChallenges    \* how many challenges are followed (bound of the model)

Cores == 1..NumCores
Challenges == 1..MaxChallenges

ASSUME CredentialsAssumption ==
    /\ NumCores \in Nat \ {0}
    /\ CoreOf \in [Calls -> 0..NumCores]
    /\ NoCall \notin Calls
    /\ Steps \in Nat \ {0} /\ LegacyTries \in Nat \ {0} /\ MaxChallenges \in Nat \ {0}

VARIABLES
    activeCore,   \* the Core that started last, also after its end; 0 for none
    live,         \* that Core has not ended
    bcore,        \* Bridge.core
    done,         \* [Calls -> its context is done]
    gate,         \* who has the token of vkRequestGate
    pc,           \* [Calls -> where it is]
    request,      \* [Calls -> the variables of its request]
    lockout,      \* the time of globalCaptchaLockout has not passed
    issued,       \* number of challenges so far; they are numbered in order
    challenge,    \* [Challenges -> captchaPending]
    current,      \* [Cores -> captchaCoordinator.current, 0 for nil]
    challengeGate,\* [Cores -> captchaCoordinator.gate is taken]
    browser       \* [Browsers -> what App.OpenCaptcha does, and for which challenge]

coreVars == <<activeCore, live, bcore>>
callVars == <<done, gate, pc, request>>
coordinatorVars == <<issued, current, challengeGate>>
vars == <<coreVars, callVars, lockout, coordinatorVars, challenge, browser>>

(* A request: by VK Calls or the legacy way, its step or client_id pair, the CAPTCHAs *)
(* solved in it, and the challenge it waits for.                                      *)
Fresh(way) == [path |-> way, step |-> 1, tries |-> 0, id |-> 0]
NoRequest == Fresh("calls")

(* A challenge: the Core whose coordinator has it, whether its context is not done,   *)
(* whether a browser was launched, and which challenge the token in its buffer solves. *)
NoChallenge == [home |-> 0, pending |-> FALSE, launched |-> FALSE, result |-> 0]

NoBrowser == [at |-> "idle", id |-> 0]

InChallenge == {"wait", "solved", "refused"}
Inside == {"throttle", "request", "captcha"} \cup InChallenge

Init ==
    /\ activeCore = 0 /\ live = FALSE /\ bcore = 0
    /\ done = [c \in Calls |-> FALSE]
    /\ gate = NoCall
    /\ pc = [c \in Calls |-> "idle"] /\ request = [c \in Calls |-> NoRequest]
    /\ lockout = FALSE
    /\ issued = 0 /\ challenge = [i \in Challenges |-> NoChallenge]
    /\ current = [k \in Cores |-> 0] /\ challengeGate = [k \in Cores |-> FALSE]
    /\ browser = [b \in Browsers |-> NoBrowser]
-----------------------------------------------------------------------------
(***************************************************************************)
(* Cores and contexts                                                       *)
(***************************************************************************)

(* core.start of the next Core: one runs at a time (Bridge.tla). *)
StartCore ==
    /\ ~live /\ activeCore < NumCores
    /\ activeCore' = activeCore + 1
    /\ live' = TRUE
    /\ UNCHANGED <<bcore, callVars, lockout, coordinatorVars, challenge, browser>>

(* Bridge.Connect installs it. *)
Install ==
    /\ live /\ bcore = 0
    /\ bcore' = activeCore
    /\ UNCHANGED <<activeCore, live, callVars, lockout, coordinatorVars, challenge, browser>>

(* Its groups have returned and forwardEvents gave the Bridge back.  activeCore *)
(* keeps pointing to it.                                                        *)
EndCore ==
    /\ live /\ bcore = activeCore
    /\ \A c \in Calls : CoreOf[c] = activeCore => pc[c] = "returned"
    /\ live' = FALSE /\ bcore' = 0
    /\ UNCHANGED <<activeCore, callVars, lockout, coordinatorVars, challenge, browser>>

(* The contexts of the calls in S end, and with them those of their challenges. *)
ContextsEnd(S) ==
    /\ done' = [c \in Calls |-> done[c] \/ c \in S]
    /\ challenge' = [i \in Challenges |->
                       IF \E c \in S : request[c].id = i THEN [challenge[i] EXCEPT !.pending = FALSE]
                       ELSE challenge[i]]
    /\ UNCHANGED <<coreVars, gate, pc, request, lockout, coordinatorVars, browser>>

(* Core.Stop *)
StopCore ==
    /\ live
    /\ \E c \in Calls : CoreOf[c] = activeCore /\ ~done[c]
    /\ ContextsEnd({c \in Calls : CoreOf[c] = activeCore})

(* The 90 s of a call pass, or its probe is cancelled. *)
CallTimesOut(c) ==
    /\ pc[c] \notin {"idle", "returned"} /\ ~done[c]
    /\ ContextsEnd({c})
-----------------------------------------------------------------------------
(***************************************************************************)
(* A call up to its first request                                           *)
(***************************************************************************)
GoTo(c, phase) == pc' = [pc EXCEPT ![c] = phase]

(* The deferred receive from vkRequestGate; the variables of the call are gone. *)
Return(c) ==
    /\ GoTo(c, "returned")
    /\ gate' = NoCall
    /\ request' = [request EXCEPT ![c] = NoRequest]

(* GetCreds, or the probe. *)
Begin(c) ==
    /\ pc[c] = "idle"
    /\ CoreOf[c] = 0 \/ (live /\ CoreOf[c] = activeCore)
    /\ GoTo(c, IF done[c] THEN "returned" ELSE "gate")
    /\ UNCHANGED <<coreVars, done, gate, request, lockout, coordinatorVars, challenge, browser>>

(* The send to vkRequestGate; also one that ctx.Done could have won. *)
EnterGate(c) ==
    /\ pc[c] = "gate" /\ gate = NoCall
    /\ gate' = c
    /\ GoTo(c, "throttle")
    /\ UNCHANGED <<coreVars, done, request, lockout, coordinatorVars, challenge, browser>>

(* A plain send, looked at afterwards. *)
LeaveGateAfterSend(c) ==
    /\ pc[c] = "gate" /\ done[c] /\ gate = NoCall
    /\ GoTo(c, "returned")
    /\ UNCHANGED <<coreVars, done, gate, request, lockout, coordinatorVars, challenge, browser>>

(* ctx.Done while waiting for the gate. *)
LeaveGate(c) ==
    /\ pc[c] = "gate" /\ done[c]
    /\ GoTo(c, "returned")
    /\ UNCHANGED <<coreVars, done, gate, request, lockout, coordinatorVars, challenge, browser>>

(* The token of the gate is not given back. *)
CutOffKeepsGate(c) ==
    /\ pc[c] \in {"throttle", "captcha"} /\ done[c]
    /\ GoTo(c, "returned")
    /\ request' = [request EXCEPT ![c] = NoRequest]
    /\ UNCHANGED <<coreVars, done, gate, lockout, coordinatorVars, challenge, browser>>

(* ctx is done behind the gate, while throttled, or inside the automatic solver. *)
CutOff(c) ==
    /\ pc[c] \in {"throttle", "captcha"} /\ done[c]
    /\ Return(c)
    /\ UNCHANGED <<coreVars, done, lockout, coordinatorVars, challenge, browser>>

(* The lockout is not looked at. *)
AdmittedAlways(c) == pc[c] = "throttle" /\ ~done[c]

(* The request may be made: 3 to 6 s after the last one, and not in the lockout. *)
Admitted(c) == pc[c] = "throttle" /\ ~done[c] /\ ~lockout

FirstRequest(c) ==
    /\ Admitted(c)
    /\ \E way \in {"calls", "legacy"} : request' = [request EXCEPT ![c] = Fresh(way)]
    /\ GoTo(c, "request")
    /\ UNCHANGED <<coreVars, done, gate, lockout, coordinatorVars, challenge, browser>>

LockedOut(c) ==
    /\ pc[c] = "throttle" /\ ~done[c] /\ lockout
    /\ Return(c)
    /\ UNCHANGED <<coreVars, done, lockout, coordinatorVars, challenge, browser>>
-----------------------------------------------------------------------------
(***************************************************************************)
(* Requests to VK                                                           *)
(***************************************************************************)

(* Credentials, an error that ends the call, or ctx is done. *)
RequestEnds(c) ==
    /\ pc[c] = "request"
    /\ Return(c)
    /\ UNCHANGED <<coreVars, done, lockout, coordinatorVars, challenge, browser>>

(* The next request of VK Calls, or the next client_id after a refusal. *)
NextStep(c) ==
    /\ pc[c] = "request" /\ ~done[c] /\ request[c].step < Steps
    /\ request' = [request EXCEPT ![c].step = @ + 1, ![c].tries = 0]
    /\ UNCHANGED <<coreVars, done, gate, pc, lockout, coordinatorVars, challenge, browser>>

(* vkAuthShouldUseLegacy: VK Calls answered something unusable. *)
Fallback(c) ==
    /\ pc[c] = "request" /\ request[c].path = "calls" /\ ~done[c]
    /\ request' = [request EXCEPT ![c] = Fresh("legacy")]
    /\ UNCHANGED <<coreVars, done, gate, pc, lockout, coordinatorVars, challenge, browser>>

(* VK Calls resumes a request after one CAPTCHA, the legacy way after three. *)
MayTry(c) == request[c].tries < (IF request[c].path = "calls" THEN 1 ELSE LegacyTries)

(* VK asks for a CAPTCHA. *)
Challenged(c) ==
    /\ pc[c] = "request" /\ MayTry(c)
    /\ GoTo(c, "captcha")
    /\ UNCHANGED <<coreVars, done, gate, request, lockout, coordinatorVars, challenge, browser>>

(* VK asks once too often: the legacy way locks everybody out for 60 s. *)
TooMany(c) ==
    /\ pc[c] = "request" /\ ~MayTry(c)
    /\ lockout' = (lockout \/ request[c].path = "legacy")
    /\ Return(c)
    /\ UNCHANGED <<coreVars, done, coordinatorVars, challenge, browser>>

(* The solver of core/captcha_v2.go succeeded without the user. *)
SolvedAlone(c) ==
    /\ pc[c] = "captcha" /\ ~done[c]
    /\ request' = [request EXCEPT ![c].tries = @ + 1]
    /\ GoTo(c, "request")
    /\ UNCHANGED <<coreVars, done, gate, lockout, coordinatorVars, challenge, browser>>

(* captchaCoreFromContext: its own Core, or the one that started last. *)
Home(c) == IF CoreOf[c] # 0 THEN CoreOf[c] ELSE activeCore

(* requestWebViewCaptcha of a probe before the first Core. *)
NobodyToAsk(c) ==
    /\ pc[c] = "captcha" /\ Home(c) = 0 /\ ~done[c]
    /\ lockout' = (lockout \/ request[c].path = "legacy")
    /\ Return(c)
    /\ UNCHANGED <<coreVars, done, coordinatorVars, challenge, browser>>

(* captchaCoordinator.begin *)
Challenge(c) ==
    LET k == Home(c)
        i == issued + 1 IN
    /\ pc[c] = "captcha" /\ ~done[c]
    /\ k # 0 /\ ~challengeGate[k]
    /\ issued < MaxChallenges
    /\ issued' = i
    /\ challenge' = [challenge EXCEPT ![i].home = k, ![i].pending = TRUE]
    /\ current' = [current EXCEPT ![k] = i]
    /\ challengeGate' = [challengeGate EXCEPT ![k] = TRUE]
    /\ request' = [request EXCEPT ![c].id = i]
    /\ GoTo(c, "wait")
    /\ UNCHANGED <<coreVars, done, gate, lockout, browser>>

(* The challenge this call waits for. *)
Mine(c) == challenge[request[c].id]

(* The context is not looked at again when the token was received. *)
TakeTokenUnchecked(c) ==
    /\ pc[c] = "wait" /\ Mine(c).result # 0
    /\ GoTo(c, "solved")
    /\ UNCHANGED <<coreVars, done, gate, request, lockout, coordinatorVars, challenge, browser>>

(* The select of waitForCaptcha receives the token, whether or not the context *)
(* is done as well.                                                            *)
TakeToken(c) ==
    /\ pc[c] = "wait" /\ Mine(c).result # 0
    /\ GoTo(c, IF Mine(c).pending THEN "solved" ELSE "refused")
    /\ UNCHANGED <<coreVars, done, gate, request, lockout, coordinatorVars, challenge, browser>>

(* ... or sees the context: cancelled by the user, by the call, or 60 s passed. *)
WaitEnds(c) ==
    /\ pc[c] = "wait" /\ ~Mine(c).pending
    /\ GoTo(c, "refused")
    /\ UNCHANGED <<coreVars, done, gate, request, lockout, coordinatorVars, challenge, browser>>

(* The deferred finish; nobody has the captchaPending any more. *)
CloseChallenge(i) ==
    LET k == challenge[i].home IN
    /\ current' = [current EXCEPT ![k] = IF @ = i THEN 0 ELSE @]
    /\ challengeGate' = [challengeGate EXCEPT ![k] = FALSE]
    /\ challenge' = [challenge EXCEPT ![i] = NoChallenge]
    /\ UNCHANGED <<coreVars, done, lockout, issued, browser>>

(* The request is made again with the token. *)
Resume(c) ==
    /\ pc[c] = "solved"
    /\ CloseChallenge(request[c].id)
    /\ request' = [request EXCEPT ![c].tries = @ + 1, ![c].id = 0]
    /\ GoTo(c, "request")
    /\ UNCHANGED gate

(* A cancelled or expired context ends the call: it is no reason for the lockout, *)
(* and for VK Calls none for the legacy way.                                      *)
GiveUp(c) ==
    /\ pc[c] = "refused"
    /\ CloseChallenge(request[c].id)
    /\ Return(c)

CallStep(c) ==
    \/ Begin(c) \/ EnterGate(c) \/ LeaveGate(c) \/ CutOff(c) \/ FirstRequest(c) \/ LockedOut(c)
    \/ RequestEnds(c) \/ NextStep(c) \/ Fallback(c) \/ Challenged(c) \/ TooMany(c)
    \/ SolvedAlone(c) \/ NobodyToAsk(c) \/ Challenge(c) \/ TakeToken(c) \/ WaitEnds(c)
    \/ Resume(c) \/ GiveUp(c)
-----------------------------------------------------------------------------
(***************************************************************************)
(* The user and the browser.  Every request goes through Bridge.core; it is   *)
(* read a moment before the coordinator is asked, but it changes only when    *)
(* that Core has no call of its own left.                                    *)
(***************************************************************************)
Reaches(i) == bcore # 0 /\ current[bcore] = i

(* captchaCoordinator.active without its test of launched. *)
MayOpenAgain(i) == Reaches(i) /\ challenge[i].pending

(* captchaCoordinator.active *)
MayOpen(i) == Reaches(i) /\ challenge[i].pending /\ ~challenge[i].launched

(* App.OpenCaptcha; where it is refused it changes nothing. *)
OpenCaptcha(b, i) ==
    /\ browser[b].at = "idle" /\ MayOpen(i)
    /\ challenge' = [challenge EXCEPT ![i].launched = TRUE]
    /\ browser' = [browser EXCEPT ![b] = [at |-> "open", id |-> i]]
    /\ UNCHANGED <<coreVars, callVars, lockout, coordinatorVars>>

(* solveVKCaptchaInBrowser returns: an error (no Edge, window closed, ctx), or the *)
(* token of the challenge it was opened for.                                       *)
BrowserEnds(b) ==
    /\ browser[b].at = "open"
    /\ \E answer \in {"failed", "answered"} : browser' = [browser EXCEPT ![b].at = answer]
    /\ UNCHANGED <<coreVars, callVars, lockout, coordinatorVars, challenge>>

(* The failure is not reported to the coordinator. *)
LaunchFailedForgotten(b) ==
    /\ browser[b].at = "failed"
    /\ browser' = [browser EXCEPT ![b] = NoBrowser]
    /\ UNCHANGED <<coreVars, callVars, lockout, coordinatorVars, challenge>>

(* captchaCoordinator.launchFailed *)
LaunchFailed(b) ==
    LET i == browser[b].id IN
    /\ browser[b].at = "failed"
    /\ challenge' = IF Reaches(i) THEN [challenge EXCEPT ![i].launched = FALSE] ELSE challenge
    /\ browser' = [browser EXCEPT ![b] = NoBrowser]
    /\ UNCHANGED <<coreVars, callVars, lockout, coordinatorVars>>

(* captchaCoordinator.submit without its test of the id. *)
AcceptsAny(b, i) == Reaches(i) /\ challenge[i].pending /\ challenge[i].result = 0

(* captchaCoordinator.submit: the challenge is the one of the token, its context is *)
(* not done, and the buffer of one token is free.                                   *)
Accepts(b, i) == Reaches(i) /\ challenge[i].pending /\ challenge[i].result = 0 /\ i = browser[b].id

SubmitCaptcha(b) ==
    /\ browser[b].at = "answered"
    /\ challenge' = [i \in Challenges |->
                       IF Accepts(b, i) THEN [challenge[i] EXCEPT !.result = browser[b].id] ELSE challenge[i]]
    /\ browser' = [browser EXCEPT ![b] = NoBrowser]
    /\ UNCHANGED <<coreVars, callVars, lockout, coordinatorVars>>

ChallengeEnds(i) ==
    /\ challenge[i].pending
    /\ challenge' = [challenge EXCEPT ![i].pending = FALSE]
    /\ UNCHANGED <<coreVars, callVars, lockout, coordinatorVars, browser>>

(* App.CancelCaptcha *)
CancelCaptcha(i) == Reaches(i) /\ ChallengeEnds(i)

(* captchaManualWebViewTimeout, 60 s *)
ChallengeTimesOut(i) == ChallengeEnds(i)

(* 60 s after it was set. *)
LockoutEnds ==
    /\ lockout
    /\ lockout' = FALSE
    /\ UNCHANGED <<coreVars, callVars, coordinatorVars, challenge, browser>>

BrowserStep(b) == BrowserEnds(b) \/ LaunchFailed(b) \/ SubmitCaptcha(b)

Next ==
    \/ StartCore \/ Install \/ EndCore \/ StopCore \/ LockoutEnds
    \/ \E c \in Calls : CallTimesOut(c) \/ CallStep(c)
    \/ \E b \in Browsers : BrowserStep(b) \/ \E i \in Challenges : OpenCaptcha(b, i)
    \/ \E i \in Challenges : CancelCaptcha(i) \/ ChallengeTimesOut(i)

Spec == Init /\ [][Next]_vars

(* A call whose context is done goes on wherever the code looks at the context:   *)
(* requests carry it, selects name it.  No timer, no user and no VK is fair here.   *)
Fairness == \A c \in Calls : WF_vars(done[c] /\ pc[c] # "idle" /\ CallStep(c))

FairSpec == Spec /\ Fairness
-----------------------------------------------------------------------------
(***************************************************************************)
(* Properties                                                               *)
(***************************************************************************)

(* Types; no way counts more CAPTCHAs than it may solve.                      *)
TypeOK ==
    /\ activeCore \in 0..NumCores /\ live \in BOOLEAN /\ bcore \in {0, activeCore}
    /\ done \in [Calls -> BOOLEAN]
    /\ gate \in Calls \cup {NoCall}
    /\ pc \in [Calls -> {"idle", "gate", "returned"} \cup Inside]
    /\ request \in [Calls -> [path : {"calls", "legacy"}, step : 1..Steps,
                              tries : 0..LegacyTries, id : 0..MaxChallenges]]
    /\ \A c \in Calls : request[c].path = "calls" => request[c].tries <= 1
    /\ lockout \in BOOLEAN
    /\ issued \in 0..MaxChallenges
    /\ challenge \in [Challenges -> [home : 0..NumCores, pending : BOOLEAN, launched : BOOLEAN,
                                     result : 0..MaxChallenges]]
    /\ current \in [Cores -> 0..MaxChallenges] /\ challengeGate \in [Cores -> BOOLEAN]
    /\ browser \in [Browsers -> [at : {"idle", "open", "failed", "answered"}, id : 0..MaxChallenges]]

(* The two gates are held by exactly who is behind them, on every way out: one      *)
(* request to VK at a time in the whole process, one challenge at a time in a Core,  *)
(* and no token is left behind by a cancelled call (vkRequestGate, vk_auth.go:361;    *)
(* "An already canceled request must not retain the single challenge gate",           *)
(* captcha_flow_test.go:158).                                                         *)
GatesAreExact ==
    /\ \A c \in Calls : gate = c <=> pc[c] \in Inside
    /\ \A k \in Cores :
         challengeGate[k] <=> \E c \in Calls : pc[c] \in InChallenge /\ current[k] = request[c].id

(* A call goes on only with the token of its own challenge, although browsers of    *)
(* earlier challenges, and of earlier connections, may still answer ("accepted        *)
(* previous operation result", captcha_flow_test.go:121).                             *)
TokenIsOwn == \A c \in Calls : pc[c] = "solved" => Mine(c).result = request[c].id

(* A challenge that was cancelled or ran out before its call looked gives the call   *)
(* no token, even if one lies in the buffer ("последующий токен не принимается",       *)
(* docs/windows-captcha-e2e.md:30).                                                   *)
EndedChallengeIsLost ==
    [][\A c \in Calls : pc[c] = "wait" /\ ~Mine(c).pending => pc'[c] # "solved"]_vars

(* The user never has two windows for challenges that still wait: neither two for    *)
(* one challenge, nor one each for two ("captchaCoordinator owns exactly one active,  *)
(* correlated browser challenge", captcha_flow.go:26).                                *)
OneBrowser ==
    \A a, b \in Browsers :
        /\ browser[a].at = "open" /\ challenge[browser[a].id].pending
        /\ browser[b].at = "open" /\ challenge[browser[b].id].pending
        => a = b

(* A challenge the user can still reach is never stuck as launched: a browser works  *)
(* on it or a token was taken, otherwise it may be opened again ("failed Edge launch  *)
(* must be retryable", captcha_flow_test.go:112).                                     *)
LaunchedIsWorkedOn ==
    \A i \in Challenges :
        challenge[i].pending /\ challenge[i].launched /\ Reaches(i) =>
            challenge[i].result # 0 \/ \E b \in Browsers : browser[b].id = i

(* While the lockout after failed CAPTCHAs lasts nobody is asked for another one      *)
(* (globalCaptchaLockout, vk_auth.go:399).                                            *)
LockoutHolds ==
    [][\A c \in Calls : pc[c] = "captcha" /\ pc'[c] = "wait" => ~lockout]_vars

(* Stop, a cancelled probe and the 90 s reach a call wherever it waits: behind another  *)
(* call that waits for the user, for VK, or for its own challenge ("A concurrent        *)
(* refresh must not trap canceled streams", vk_auth.go:324).                            *)
ContextReachesCall ==
    \A c \in Calls : (done[c] /\ pc[c] # "idle") ~> (pc[c] = "returned")
=============================================================================
