-------------------------- MODULE CredentialsProofs --------------------------
(***************************************************************************)
(* Proofs about Credentials for every number of Cores, every set of calls and *)
(* browsers, every number of requests, retries and challenges.                *)
(*                                                                           *)
(* GatesAreExact alone is not inductive: that a Core's challenge gate is free  *)
(* again after a challenge needs to know that the challenge was the current    *)
(* one of the Core it began in.  GateInv says so, and that only the call       *)
(* behind vkRequestGate can have a challenge; BrowserInv adds what a browser,   *)
(* which may outlive its challenge and its connection, still knows of it.       *)
(***************************************************************************)
EXTENDS Credentials, TLAPS

(* Types; only a call that may solve one CAPTCHA more is at work on one. *)
TypeInv ==
    /\ TypeOK
    /\ bcore # 0 => live
    /\ \A c \in Calls : pc[c] \in {"captcha"} \cup InChallenge => MayTry(c)

(* The challenge that call c waits for is the current one of its Core. *)
OwnsChallenge(c) ==
    LET i == request[c].id
        k == challenge[i].home IN
    i \in 1..issued /\ i \in Challenges /\ k \in Cores /\ current[k] = i /\ challengeGate[k]

HasChallenge(c, i) == pc[c] \in InChallenge /\ request[c].id = i

GateInv ==
    /\ \A c \in Calls : gate = c <=> pc[c] \in Inside
    /\ \A c \in Calls : IF pc[c] \in InChallenge THEN OwnsChallenge(c) ELSE request[c].id = 0
    /\ \A k \in Cores : challengeGate[k] \/ current[k] # 0 =>
         \E c \in Calls : HasChallenge(c, current[k]) /\ challenge[current[k]].home = k
    /\ \A i \in Challenges : challenge[i] # NoChallenge => \E c \in Calls : HasChallenge(c, i)
    /\ \A i \in Challenges : challenge[i].result \in {0, i}
    /\ \A c \in Calls : pc[c] = "solved" => Mine(c).result # 0
Requests == [path : {"calls", "legacy"}, step : 1..Steps, tries : 0..LegacyTries, id : 0..MaxChallenges]
Pendings == [home : 0..NumCores, pending : BOOLEAN, launched : BOOLEAN, result : 0..MaxChallenges]
-----------------------------------------------------------------------------
LEMMA InitTypes == Init => TypeInv
<1> SUFFICES ASSUME Init PROVE TypeInv
  OBVIOUS
<1> USE CredentialsAssumption DEF Init
<1>1. /\ activeCore \in 0..NumCores /\ live \in BOOLEAN /\ bcore \in {0, activeCore}
      /\ done \in [Calls -> BOOLEAN] /\ gate \in Calls \cup {NoCall}
      /\ lockout \in BOOLEAN /\ issued \in 0..MaxChallenges
  <2>1. 0 \in 0..NumCores /\ 0 \in 0..MaxChallenges
    OBVIOUS
  <2>2. done \in [Calls -> BOOLEAN]
    OBVIOUS
  <2>3. QED BY <2>1, <2>2
<1>2. pc \in [Calls -> {"idle", "gate", "returned"} \cup Inside]
  OBVIOUS
<1>3. request \in [Calls -> [path : {"calls", "legacy"}, step : 1..Steps, tries : 0..LegacyTries, id : 0..MaxChallenges]]
  BY DEF NoRequest, Fresh
<1>4. challenge \in [Challenges -> [home : 0..NumCores, pending : BOOLEAN, launched : BOOLEAN, result : 0..MaxChallenges]]
  BY DEF NoChallenge
<1>5. current \in [Cores -> 0..MaxChallenges] /\ challengeGate \in [Cores -> BOOLEAN]
  OBVIOUS
<1>6. browser \in [Browsers -> [at : {"idle", "open", "failed", "answered"}, id : 0..MaxChallenges]]
  BY DEF NoBrowser
<1>7. \A c \in Calls : request[c].tries = 0 /\ pc[c] = "idle"
  BY DEF NoRequest, Fresh
<1>8. \A c \in Calls : request[c].path = "calls" => request[c].tries <= 1
  BY <1>7
<1>9. TypeOK
  BY <1>1, <1>2, <1>3, <1>4, <1>5, <1>6, <1>8, Zenon DEF TypeOK
<1>10. QED BY <1>7, <1>9 DEF TypeInv, InChallenge

(* Closing a challenge keeps the types of what the coordinators know. *)
LEMMA ClosingKeepsTypes ==
    ASSUME TypeInv, NEW i, CloseChallenge(i)
    PROVE  /\ challenge' \in [Challenges -> [home : 0..NumCores, pending : BOOLEAN, launched : BOOLEAN,
                                              result : 0..MaxChallenges]]
           /\ current' \in [Cores -> 0..MaxChallenges] /\ challengeGate' \in [Cores -> BOOLEAN]
           /\ UNCHANGED <<activeCore, live, bcore, done, lockout, issued, browser>>
<1> USE DEF TypeInv, TypeOK, CloseChallenge
<1>1. NoChallenge \in Pendings
  BY CredentialsAssumption DEF NoChallenge, Pendings
<1>2. challenge' \in [Challenges -> Pendings]
  BY <1>1 DEF Pendings
<1>3. current' \in [Cores -> 0..MaxChallenges] /\ challengeGate' \in [Cores -> BOOLEAN]
  <2>1. 0 \in 0..MaxChallenges
    BY CredentialsAssumption
  <2> DEFINE k == challenge[i].home
  <2>2. current' = [current EXCEPT ![k] = IF @ = i THEN 0 ELSE @] /\ challengeGate' = [challengeGate EXCEPT ![k] = FALSE]
    OBVIOUS
  <2> HIDE DEF k
  <2>3. \A v \in 0..MaxChallenges : (IF v = i THEN 0 ELSE v) \in 0..MaxChallenges
    BY <2>1
  <2>4. current' \in [Cores -> 0..MaxChallenges]
    BY <2>2, <2>3
  <2>5. QED BY <2>2, <2>4
<1>4. QED BY <1>2, <1>3 DEF Pendings, coreVars

(* A call keeps the types. *)
LEMMA CallKeepsTypes ==
    ASSUME TypeInv, NEW c \in Calls, CallStep(c)
    PROVE  TypeInv'
<1> USE CredentialsAssumption DEF TypeInv, TypeOK, GoTo, Inside, InChallenge, MayTry,
        coreVars, callVars, coordinatorVars
<1>1. CASE Begin(c)
  BY <1>1 DEF Begin
<1>2. CASE EnterGate(c)
  BY <1>2 DEF EnterGate
<1>3. CASE LeaveGate(c)
  BY <1>3 DEF LeaveGate
<1>4. CASE CutOff(c)
  BY <1>4 DEF CutOff, Return, NoRequest, Fresh
<1>5. CASE FirstRequest(c)
  BY <1>5 DEF FirstRequest, Fresh, Admitted
<1>6. CASE LockedOut(c)
  BY <1>6 DEF LockedOut, Return, NoRequest, Fresh
<1>7. CASE RequestEnds(c)
  BY <1>7 DEF RequestEnds, Return, NoRequest, Fresh
<1>8. CASE NextStep(c)
  <2>1. request[c] \in Requests
    BY DEF Requests
  <2>2. PICK r \in Requests : /\ request' = [request EXCEPT ![c] = r]
                              /\ r.tries = 0
    <3> DEFINE r == [request[c] EXCEPT !.step = @ + 1, !.tries = 0]
    <3>1. r \in Requests /\ r.tries = 0
      <4>1. request[c].step + 1 \in 1..Steps /\ 0 \in 0..LegacyTries
        BY <1>8, <2>1 DEF NextStep, Requests
      <4> DEFINE r1 == [request[c] EXCEPT !.step = @ + 1]
      <4>2. r1 \in Requests
        BY <2>1, <4>1 DEF Requests
      <4>3. r = [r1 EXCEPT !.tries = 0]
        BY <2>1
      <4> HIDE DEF r1
      <4>4. [r1 EXCEPT !.tries = 0] \in Requests /\ [r1 EXCEPT !.tries = 0].tries = 0
        BY <4>1, <4>2 DEF Requests
      <4>5. QED BY <4>3, <4>4
    <3>2. request' = [request EXCEPT ![c] = r]
      BY <1>8 DEF NextStep
    <3>3. QED BY <3>1, <3>2
  <2>3. request' \in [Calls -> Requests] /\ \A d \in Calls : d # c => request'[d] = request[d]
    BY <2>2 DEF Requests
  <2>4. request'[c].tries = 0
    BY <2>2
  <2>5. UNCHANGED <<coreVars, done, gate, pc, lockout, coordinatorVars, challenge, browser>>
    BY <1>8 DEF NextStep
  <2>6. QED BY <1>8, <2>3, <2>4, <2>5 DEF NextStep, Requests
<1>9. CASE Fallback(c)
  BY <1>9 DEF Fallback, Fresh
<1>10. CASE Challenged(c)
  BY <1>10 DEF Challenged
<1>11. CASE TooMany(c)
  BY <1>11 DEF TooMany, Return, NoRequest, Fresh
<1>12. CASE SolvedAlone(c)
  BY <1>12 DEF SolvedAlone
<1>13. CASE NobodyToAsk(c)
  BY <1>13 DEF NobodyToAsk, Return, NoRequest, Fresh
<1>14. CASE Challenge(c)
  <2>1. issued + 1 \in Challenges /\ Home(c) \in Cores /\ Home(c) \in 0..NumCores /\ issued + 1 \in 0..MaxChallenges
    BY <1>14 DEF Challenge, Home, Challenges, Cores
  <2>2. request' = [request EXCEPT ![c].id = issued + 1] /\ pc' = [pc EXCEPT ![c] = "wait"] /\ pc[c] = "captcha"
    BY <1>14 DEF Challenge
  <2>3. request' \in [Calls -> Requests] /\ \A d \in Calls : request'[d].path = request[d].path /\ request'[d].tries = request[d].tries
    BY <2>1, <2>2 DEF Requests
  <2>4. challenge' \in [Challenges -> Pendings]
    <3>1. PICK mid : /\ mid = [challenge EXCEPT ![issued + 1].home = Home(c)]
                     /\ challenge' = [mid EXCEPT ![issued + 1].pending = TRUE]
      BY <1>14 DEF Challenge
    <3>2. mid \in [Challenges -> Pendings]
      BY <2>1, <3>1 DEF Pendings
    <3>3. QED BY <2>1, <3>1, <3>2 DEF Pendings
  <2>5. /\ current' \in [Cores -> 0..MaxChallenges] /\ challengeGate' \in [Cores -> BOOLEAN]
        /\ issued' \in 0..MaxChallenges
        /\ UNCHANGED <<coreVars, done, gate, lockout, browser>>
    BY <1>14, <2>1 DEF Challenge
  <2>6. QED BY <2>2, <2>3, <2>4, <2>5 DEF Requests, Pendings
<1>15. CASE TakeToken(c)
  BY <1>15 DEF TakeToken
<1>16. CASE WaitEnds(c)
  BY <1>16 DEF WaitEnds
<1>17. CASE Resume(c)
  <2>1. /\ request' = [request EXCEPT ![c].tries = @ + 1, ![c].id = 0]
        /\ pc' = [pc EXCEPT ![c] = "request"] /\ pc[c] = "solved" /\ gate' = gate
    BY <1>17 DEF Resume
  <2>2. request[c] \in Requests /\ MayTry(c)
    BY <2>1 DEF Requests
  <2>3. PICK r \in Requests : /\ request' = [request EXCEPT ![c] = r]
                              /\ r.path = "calls" => r.tries <= 1
    <3> DEFINE r == [request[c] EXCEPT !.tries = @ + 1, !.id = 0]
    <3>1. r \in Requests /\ (r.path = "calls" => r.tries <= 1)
      <4>1. /\ request[c].tries + 1 \in 0..LegacyTries /\ 0 \in 0..MaxChallenges
            /\ request[c].path = "calls" => request[c].tries + 1 <= 1
        BY <2>2 DEF Requests
      <4> DEFINE r1 == [request[c] EXCEPT !.tries = @ + 1]
      <4>2. r1 \in Requests /\ (r1.path = "calls" => r1.tries <= 1)
        BY <2>2, <4>1 DEF Requests
      <4>3. r = [r1 EXCEPT !.id = 0]
        BY <2>2
      <4> HIDE DEF r1
      <4> DEFINE r2 == [r1 EXCEPT !.id = 0]
      <4>4. r2 \in Requests /\ r2.path = r1.path /\ r2.tries = r1.tries
        BY <4>1, <4>2 DEF Requests
      <4>5. QED BY <4>2, <4>3, <4>4
    <3>2. request' = [request EXCEPT ![c] = r]
      BY <2>1
    <3>3. QED BY <3>1, <3>2
  <2>4. /\ request' \in [Calls -> Requests]
        /\ \A d \in Calls : d # c => request'[d] = request[d]
        /\ request'[c].path = "calls" => request'[c].tries <= 1
    BY <2>3 DEF Requests
  <2>5. CloseChallenge(request[c].id)
    BY <1>17 DEF Resume
  <2>6. QED BY <2>1, <2>4, <2>5, ClosingKeepsTypes DEF Requests
<1>18. CASE GiveUp(c)
  <2>1. /\ request' = [request EXCEPT ![c] = NoRequest]
        /\ pc' = [pc EXCEPT ![c] = "returned"] /\ gate' = NoCall
        /\ CloseChallenge(request[c].id)
    BY <1>18 DEF GiveUp, Return
  <2>2. NoRequest \in Requests /\ NoRequest.tries = 0
    BY DEF Requests, NoRequest, Fresh
  <2>3. /\ request' \in [Calls -> Requests]
        /\ \A d \in Calls : d # c => request'[d] = request[d]
        /\ request'[c].tries = 0
    BY <2>1, <2>2 DEF Requests
  <2>4. QED BY <2>1, <2>3, ClosingKeepsTypes DEF Requests
<1>19. QED BY <1>1, <1>2, <1>3, <1>4, <1>5, <1>6, <1>7, <1>8, <1>9, <1>10, <1>11, <1>12, <1>13, <1>14, <1>15, <1>16, <1>17, <1>18 DEF CallStep

(* Marking challenges as done keeps their type. *)
LEMMA ContextsKeepTypes ==
    ASSUME TypeInv, NEW S, ContextsEnd(S)
    PROVE  TypeInv'
<1> USE DEF TypeInv, TypeOK, ContextsEnd
<1>1. \A i \in Challenges : [challenge[i] EXCEPT !.pending = FALSE] \in Pendings
  BY DEF Pendings
<1>2. challenge' \in [Challenges -> Pendings]
  <2>1. \A i \in Challenges : challenge[i] \in Pendings
    BY DEF Pendings
  <2>2. QED BY <1>1, <2>1
<1>3. done' \in [Calls -> BOOLEAN]
  OBVIOUS
<1>4. QED BY <1>2, <1>3 DEF Pendings, coreVars, coordinatorVars, MayTry

(* The Cores, the user, the browsers and the timers keep the types. *)
LEMMA RestKeepsTypes ==
    ASSUME TypeInv, [Next]_vars, ~\E c \in Calls : CallStep(c)
    PROVE  TypeInv'
<1> USE CredentialsAssumption DEF TypeInv, TypeOK, MayTry, coreVars, callVars, coordinatorVars
<1>1. CASE StartCore
  BY <1>1 DEF StartCore
<1>2. CASE Install
  BY <1>2 DEF Install
<1>3. CASE EndCore
  BY <1>3 DEF EndCore
<1>4. CASE StopCore
  BY <1>4, ContextsKeepTypes DEF StopCore
<1>5. CASE LockoutEnds
  BY <1>5 DEF LockoutEnds
<1>6. CASE \E c \in Calls : CallTimesOut(c)
  BY <1>6, ContextsKeepTypes DEF CallTimesOut
<1>7. ASSUME NEW b \in Browsers, BrowserStep(b) PROVE TypeInv'
  <2>1. NoBrowser \in [at : {"idle", "open", "failed", "answered"}, id : 0..MaxChallenges]
    BY DEF NoBrowser
  <2>2. CASE BrowserEnds(b)
    <3>1. browser' \in [Browsers -> [at : {"idle", "open", "failed", "answered"}, id : 0..MaxChallenges]]
      BY <2>2 DEF BrowserEnds
    <3>2. QED BY <2>2, <3>1 DEF BrowserEnds
  <2>3. CASE LaunchFailed(b)
    <3>1. challenge' \in [Challenges -> Pendings]
      <4>1. \A i : [challenge EXCEPT ![i].launched = FALSE] \in [Challenges -> Pendings]
        BY DEF Pendings
      <4>2. challenge \in [Challenges -> Pendings]
        BY DEF Pendings
      <4>3. QED BY <2>3, <4>1, <4>2 DEF LaunchFailed
    <3>2. browser' = [browser EXCEPT ![b] = NoBrowser]
      BY <2>3 DEF LaunchFailed
    <3>3. QED BY <2>1, <2>3, <3>1, <3>2 DEF LaunchFailed, Pendings
  <2>4. CASE SubmitCaptcha(b)
    <3>1. \A i \in Challenges : /\ challenge[i] \in Pendings
                                /\ [challenge[i] EXCEPT !.result = browser[b].id] \in Pendings
      BY DEF Pendings
    <3>2. challenge' \in [Challenges -> Pendings]
      BY <2>4, <3>1 DEF SubmitCaptcha
    <3>3. QED BY <2>1, <2>4, <3>2 DEF SubmitCaptcha, Pendings
  <2>5. QED BY <1>7, <2>2, <2>3, <2>4 DEF BrowserStep
<1>8. ASSUME NEW b \in Browsers, NEW i \in Challenges, OpenCaptcha(b, i) PROVE TypeInv'
  <2>1. challenge' \in [Challenges -> Pendings]
    BY <1>8 DEF OpenCaptcha, Pendings
  <2>2. browser' \in [Browsers -> [at : {"idle", "open", "failed", "answered"}, id : 0..MaxChallenges]]
    BY <1>8 DEF OpenCaptcha, Challenges
  <2>3. QED BY <1>8, <2>1, <2>2 DEF OpenCaptcha, Pendings
<1>9. ASSUME NEW i \in Challenges, CancelCaptcha(i) \/ ChallengeTimesOut(i) PROVE TypeInv'
  <2>1. ChallengeEnds(i)
    BY <1>9 DEF CancelCaptcha, ChallengeTimesOut
  <2>2. challenge' \in [Challenges -> Pendings]
    BY <2>1 DEF ChallengeEnds, Pendings
  <2>3. QED BY <2>1, <2>2 DEF ChallengeEnds, Pendings
<1>10. CASE UNCHANGED vars
  BY <1>10 DEF vars
<1>11. QED BY <1>1, <1>2, <1>3, <1>4, <1>5, <1>6, <1>7, <1>8, <1>9, <1>10 DEF Next

LEMMA NextTypes == TypeInv /\ [Next]_vars => TypeInv'
BY CallKeepsTypes, RestKeepsTypes

(* Every reachable state is well typed: no way solves more CAPTCHAs than it may.     *)
THEOREM TypeCorrect == Spec => []TypeOK
<1>1. TypeInv => TypeOK
  BY DEF TypeInv
<1>2. QED BY <1>1, InitTypes, NextTypes, PTL DEF Spec
-----------------------------------------------------------------------------
LEMMA InitGates == Init => GateInv
BY CredentialsAssumption DEF Init, GateInv, Inside, InChallenge, NoRequest, Fresh, NoChallenge, Cores

(* At most one call is behind vkRequestGate, so at most one has a challenge. *)
LEMMA OneInside ==
    ASSUME GateInv, NEW c \in Calls, NEW d \in Calls, pc[c] \in Inside, pc[d] \in Inside
    PROVE  c = d
BY DEF GateInv

(* A call that has no challenge and gets none keeps the invariant, if it keeps the gate. *)
LEMMA MovesOutside ==
    ASSUME TypeInv, GateInv, NEW c \in Calls, NEW p, pc[c] \notin InChallenge, p \notin InChallenge,
           pc' = [pc EXCEPT ![c] = p],
           \A d \in Calls : request'[d].id = request[d].id,
           \A d \in Calls : gate' = d <=> pc'[d] \in Inside,
           UNCHANGED <<coordinatorVars, challenge>>
    PROVE  GateInv'
<1>1. /\ pc'[c] \notin InChallenge /\ request'[c].id = 0 /\ request[c].id = 0
      /\ \A d \in Calls : d # c => pc'[d] = pc[d]
  BY DEF TypeInv, TypeOK, GateInv
<1>2. \A d \in Calls : \A i : HasChallenge(d, i) => HasChallenge(d, i)'
  BY <1>1 DEF HasChallenge
<1>3. \A d \in Calls : OwnsChallenge(d) => OwnsChallenge(d)'
  BY DEF OwnsChallenge, coordinatorVars
<1>4. \A d \in Calls : pc'[d] = "solved" => d # c
  BY <1>1 DEF InChallenge
<1>5. \A d \in Calls : IF pc'[d] \in InChallenge THEN OwnsChallenge(d)' ELSE request'[d].id = 0
  BY <1>1, <1>3 DEF GateInv
<1>6. \A d \in Calls : pc'[d] = "solved" => Mine(d)'.result # 0
  BY <1>1, <1>4 DEF GateInv, Mine
<1>7. QED BY <1>2, <1>5, <1>6 DEF GateInv, coordinatorVars

(* What the user, a browser or a context does to the record of a challenge keeps it. *)
LEMMA RecordsChange ==
    ASSUME TypeInv, GateInv, UNCHANGED <<gate, pc, request, coordinatorVars>>,
           \A i \in Challenges :
              \/ challenge'[i] = challenge[i]
              \/ /\ challenge[i] # NoChallenge
                 /\ challenge'[i].home = challenge[i].home
                 /\ challenge'[i].result \in {0, i}
                 /\ challenge[i].result # 0 => challenge'[i].result # 0
    PROVE  GateInv'
<1>1. \A d \in Calls, i \in Challenges : HasChallenge(d, i)' <=> HasChallenge(d, i)
  BY DEF HasChallenge
<1>2. \A k \in Cores, d \in Calls :
        HasChallenge(d, current[k]) /\ challenge[current[k]].home = k =>
            HasChallenge(d, current[k])' /\ challenge'[current'[k]].home = k
  BY DEF HasChallenge, coordinatorVars, GateInv, OwnsChallenge
<1>3. \A d \in Calls : OwnsChallenge(d) => OwnsChallenge(d)'
  BY DEF OwnsChallenge, coordinatorVars
<1>4. \A d \in Calls : pc[d] = "solved" => request[d].id \in Challenges
  BY DEF GateInv, OwnsChallenge, InChallenge
<1>5. \A d \in Calls : pc'[d] = "solved" => Mine(d)'.result # 0
  BY <1>4 DEF GateInv, Mine
<1>6. \A i \in Challenges : challenge'[i].result \in {0, i}
  BY DEF GateInv
<1>7. QED BY <1>1, <1>2, <1>3, <1>5, <1>6 DEF GateInv, coordinatorVars

(* The deferred finish frees the coordinator of the Core the challenge began in. *)
LEMMA ClosingKeepsGates ==
    ASSUME TypeInv, GateInv, NEW c \in Calls, NEW p, pc[c] \in InChallenge, p \notin InChallenge,
           pc' = [pc EXCEPT ![c] = p],
           CloseChallenge(request[c].id), request'[c].id = 0,
           \A d \in Calls \ {c} : request'[d] = request[d],
           \A d \in Calls : gate' = d <=> pc'[d] \in Inside
    PROVE  GateInv'
<1> DEFINE i == request[c].id
           k == challenge[i].home
<1>1. i \in 1..issued /\ i \in Challenges /\ k \in Cores /\ current[k] = i /\ challengeGate[k]
  BY DEF GateInv, OwnsChallenge
<1>2. \A d \in Calls \ {c} : pc[d] \notin InChallenge /\ pc'[d] = pc[d] /\ request'[d].id = 0
  <2>1. \A d \in Calls \ {c} : pc[d] \notin InChallenge
    BY OneInside DEF Inside
  <2>2. QED BY <2>1 DEF TypeInv, TypeOK, GateInv
<1>3. pc'[c] = p
  BY DEF TypeInv, TypeOK
<1>4. \A h \in Cores : h # k => ~challengeGate[h] /\ current[h] = 0
  <2> SUFFICES ASSUME NEW h \in Cores, h # k, challengeGate[h] \/ current[h] # 0 PROVE FALSE
    BY DEF TypeInv, TypeOK
  <2>1. PICK d \in Calls : HasChallenge(d, current[h]) /\ challenge[current[h]].home = h
    BY DEF GateInv
  <2>2. d = c
    BY <1>2, <2>1 DEF HasChallenge
  <2>3. current[h] = i
    BY <2>1, <2>2 DEF HasChallenge
  <2>4. QED BY <2>1, <2>3
<1>5. \A h \in Cores : ~challengeGate'[h] /\ current'[h] = 0
  BY <1>1, <1>4 DEF CloseChallenge, TypeInv, TypeOK
<1>6. \A j \in Challenges : challenge'[j] = NoChallenge
  <2> SUFFICES ASSUME NEW j \in Challenges, challenge'[j] # NoChallenge PROVE FALSE
    OBVIOUS
  <2>1. j # i /\ challenge[j] # NoChallenge
    BY DEF CloseChallenge, TypeInv, TypeOK
  <2>2. PICK d \in Calls : HasChallenge(d, j)
    BY <2>1 DEF GateInv
  <2>3. QED BY <1>2, <2>1, <2>2 DEF HasChallenge
<1>7. \A d \in Calls : pc'[d] \notin InChallenge /\ request'[d].id = 0
  BY <1>2, <1>3
<1>8. QED BY <1>5, <1>6, <1>7 DEF GateInv, NoChallenge, InChallenge

(* A call that enters or leaves a gate, or changes its request, outside a challenge. *)
LEMMA OutsideKeepsGates ==
    ASSUME TypeInv, GateInv, NEW c \in Calls,
           \/ Begin(c) \/ EnterGate(c) \/ LeaveGate(c) \/ CutOff(c) \/ FirstRequest(c) \/ LockedOut(c) \/ RequestEnds(c)
           \/ NextStep(c) \/ Fallback(c) \/ Challenged(c) \/ TooMany(c) \/ SolvedAlone(c) \/ NobodyToAsk(c)
    PROVE  GateInv'
<1> USE CredentialsAssumption DEF TypeInv, TypeOK, GoTo, Inside, InChallenge, callVars, coordinatorVars
<1>1. pc[c] \notin InChallenge => request[c].id = 0
  BY DEF GateInv
<1>2. \A d \in Calls : gate = d <=> pc[d] \in Inside
  BY DEF GateInv
<1>3. ASSUME Return(c), pc[c] \in Inside \ InChallenge, UNCHANGED <<coordinatorVars, challenge>>
      PROVE  GateInv'
  <2>1. \A d \in Calls : request'[d].id = request[d].id
    BY <1>1, <1>3 DEF Return, NoRequest, Fresh
  <2>2. pc' = [pc EXCEPT ![c] = "returned"] /\ \A d \in Calls : gate' = d <=> pc'[d] \in Inside
    BY <1>2, <1>3 DEF Return
  <2>3. QED BY <1>3, <2>1, <2>2, MovesOutside
<1>4. CASE Begin(c)
  <2>1. \A d \in Calls : request'[d].id = request[d].id
    BY <1>1, <1>4 DEF Begin
  <2>2. PICK p \in {"gate", "returned"} : pc' = [pc EXCEPT ![c] = p]
    BY <1>4 DEF Begin
  <2>3. \A d \in Calls : gate' = d <=> pc'[d] \in Inside
    BY <1>2, <1>4, <2>2 DEF Begin
  <2>4. QED BY <1>4, <2>1, <2>2, <2>3, MovesOutside DEF Begin
<1>5. CASE EnterGate(c)
  <2>1. \A d \in Calls : request'[d].id = request[d].id
    BY <1>1, <1>5 DEF EnterGate
  <2>2. pc' = [pc EXCEPT ![c] = "throttle"]
    BY <1>5 DEF EnterGate
  <2>3. \A d \in Calls : gate' = d <=> pc'[d] \in Inside
    BY <1>2, <1>5, <2>2 DEF EnterGate
  <2>4. QED BY <1>5, <2>1, <2>2, <2>3, MovesOutside DEF EnterGate
<1>6. CASE LeaveGate(c)
  <2>1. \A d \in Calls : request'[d].id = request[d].id
    BY <1>1, <1>6 DEF LeaveGate
  <2>2. pc' = [pc EXCEPT ![c] = "returned"]
    BY <1>6 DEF LeaveGate
  <2>3. \A d \in Calls : gate' = d <=> pc'[d] \in Inside
    BY <1>2, <1>6, <2>2 DEF LeaveGate
  <2>4. QED BY <1>6, <2>1, <2>2, <2>3, MovesOutside DEF LeaveGate
<1>7. CASE CutOff(c)
  BY <1>3, <1>7 DEF CutOff
<1>8. CASE FirstRequest(c)
  <2>1. \A d \in Calls : request'[d].id = request[d].id
    BY <1>1, <1>8 DEF FirstRequest, Fresh, NoRequest, Admitted
  <2>2. pc' = [pc EXCEPT ![c] = "request"]
    BY <1>8 DEF FirstRequest
  <2>3. \A d \in Calls : gate' = d <=> pc'[d] \in Inside
    BY <1>2, <1>8, <2>2 DEF FirstRequest, Admitted
  <2>4. QED BY <1>8, <2>1, <2>2, <2>3, MovesOutside DEF FirstRequest, Admitted
<1>9. CASE LockedOut(c)
  BY <1>3, <1>9 DEF LockedOut
<1>10. CASE RequestEnds(c)
  BY <1>3, <1>10 DEF RequestEnds
<1>11. CASE NextStep(c)
  <2>1. \A d \in Calls : request'[d].id = request[d].id
    BY <1>1, <1>11 DEF NextStep
  <2>2. pc' = [pc EXCEPT ![c] = "request"]
    BY <1>11 DEF NextStep
  <2>3. \A d \in Calls : gate' = d <=> pc'[d] \in Inside
    BY <1>2, <1>11, <2>2 DEF NextStep
  <2>4. QED BY <1>11, <2>1, <2>2, <2>3, MovesOutside DEF NextStep
<1>12. CASE Fallback(c)
  <2>1. \A d \in Calls : request'[d].id = request[d].id
    BY <1>1, <1>12 DEF Fallback, Fresh, NoRequest
  <2>2. pc' = [pc EXCEPT ![c] = "request"]
    BY <1>12 DEF Fallback
  <2>3. \A d \in Calls : gate' = d <=> pc'[d] \in Inside
    BY <1>2, <1>12, <2>2 DEF Fallback
  <2>4. QED BY <1>12, <2>1, <2>2, <2>3, MovesOutside DEF Fallback
<1>13. CASE Challenged(c)
  <2>1. \A d \in Calls : request'[d].id = request[d].id
    BY <1>1, <1>13 DEF Challenged
  <2>2. pc' = [pc EXCEPT ![c] = "captcha"]
    BY <1>13 DEF Challenged
  <2>3. \A d \in Calls : gate' = d <=> pc'[d] \in Inside
    BY <1>2, <1>13, <2>2 DEF Challenged
  <2>4. QED BY <1>13, <2>1, <2>2, <2>3, MovesOutside DEF Challenged
<1>14. CASE TooMany(c)
  BY <1>3, <1>14 DEF TooMany
<1>15. CASE SolvedAlone(c)
  <2>1. \A d \in Calls : request'[d].id = request[d].id
    BY <1>1, <1>15 DEF SolvedAlone
  <2>2. pc' = [pc EXCEPT ![c] = "request"]
    BY <1>15 DEF SolvedAlone
  <2>3. \A d \in Calls : gate' = d <=> pc'[d] \in Inside
    BY <1>2, <1>15, <2>2 DEF SolvedAlone
  <2>4. QED BY <1>15, <2>1, <2>2, <2>3, MovesOutside DEF SolvedAlone
<1>16. CASE NobodyToAsk(c)
  BY <1>3, <1>16 DEF NobodyToAsk
<1>17. QED BY <1>4, <1>5, <1>6, <1>7, <1>8, <1>9, <1>10, <1>11, <1>12, <1>13, <1>14, <1>15, <1>16

(* The next challenge begins where none is: the call that holds vkRequestGate has none. *)
LEMMA BeginningKeepsGates ==
    ASSUME TypeInv, GateInv, NEW c \in Calls, Challenge(c)
    PROVE  GateInv'
<1> USE CredentialsAssumption DEF TypeInv, TypeOK
<1>0. PICK i, k : i = issued + 1 /\ k = Home(c)
  OBVIOUS
<1>1. i \in Challenges /\ i \in 1..issued' /\ k \in Cores
  <2>1. issued \in Nat /\ issued' = issued + 1 /\ issued + 1 <= MaxChallenges
    BY DEF Challenge
  <2>2. i \in Challenges /\ i \in 1..issued'
    BY <1>0, <2>1 DEF Challenges
  <2>3. k \in Cores
    <3>1. k \in 0..NumCores /\ k # 0
      BY <1>0 DEF Challenge, Home
    <3>2. QED BY <3>1 DEF Cores
  <2>4. QED BY <2>2, <2>3
<1>2. /\ pc' = [pc EXCEPT ![c] = "wait"] /\ pc[c] = "captcha" /\ gate' = gate
      /\ request' = [request EXCEPT ![c].id = i]
      /\ challenge' = [challenge EXCEPT ![i].home = k, ![i].pending = TRUE]
      /\ current' = [current EXCEPT ![k] = i] /\ challengeGate' = [challengeGate EXCEPT ![k] = TRUE]
  BY <1>0 DEF Challenge, GoTo
<1>3. \A d \in Calls : pc[d] \notin InChallenge /\ request[d].id = 0
  <2>1. pc[c] \in Inside /\ pc[c] \notin InChallenge
    BY <1>2 DEF Inside, InChallenge
  <2>2. \A d \in Calls : pc[d] \notin InChallenge
    BY <2>1, OneInside DEF Inside
  <2>3. QED BY <2>2 DEF GateInv
<1>4. \A j \in Challenges : challenge[j] = NoChallenge
  BY <1>3 DEF GateInv, HasChallenge
<1>5. \A h \in Cores : ~challengeGate[h] /\ current[h] = 0
  BY <1>3 DEF GateInv, HasChallenge
<1>6. /\ challenge'[i].home = k /\ challenge'[i].result = 0
      /\ \A j \in Challenges \ {i} : challenge'[j] = NoChallenge
  <2>1. challenge'[i].home = k /\ challenge'[i].result = challenge[i].result
    BY <1>1, <1>2
  <2>2. \A j \in Challenges \ {i} : challenge'[j] = challenge[j]
    BY <1>1, <1>2
  <2>3. NoChallenge.result = 0
    BY DEF NoChallenge
  <2>4. QED BY <1>1, <1>4, <2>1, <2>2, <2>3
<1>7. /\ pc'[c] = "wait" /\ request'[c].id = i
      /\ \A d \in Calls \ {c} : pc'[d] = pc[d] /\ request'[d] = request[d]
  BY <1>2
<1>8. /\ current'[k] = i /\ challengeGate'[k]
      /\ \A h \in Cores \ {k} : current'[h] = 0 /\ ~challengeGate'[h]
  BY <1>1, <1>2, <1>5
<1>9. HasChallenge(c, i)' /\ OwnsChallenge(c)'
  BY <1>1, <1>6, <1>7, <1>8 DEF HasChallenge, OwnsChallenge, InChallenge
<1>10. \A d \in Calls : gate' = d <=> pc'[d] \in Inside
  BY <1>2, <1>7 DEF GateInv, Inside, InChallenge
<1>11. \A d \in Calls : IF pc'[d] \in InChallenge THEN OwnsChallenge(d)' ELSE request'[d].id = 0
  <2>1. ASSUME NEW d \in Calls, d # c PROVE pc'[d] \notin InChallenge /\ request'[d].id = 0
    BY <1>3, <1>7, <2>1
  <2>2. pc'[c] \in InChallenge /\ OwnsChallenge(c)'
    BY <1>7, <1>9 DEF InChallenge
  <2> HIDE DEF TypeInv, TypeOK
  <2>3. QED BY <2>1, <2>2, Zenon
<1>12. \A h \in Cores : challengeGate'[h] \/ current'[h] # 0 =>
         \E d \in Calls : HasChallenge(d, current[h])' /\ challenge'[current'[h]].home = h
  BY <1>6, <1>8, <1>9 DEF HasChallenge
<1>13. \A j \in Challenges : challenge'[j] # NoChallenge => \E d \in Calls : HasChallenge(d, j)'
  BY <1>6, <1>9 DEF HasChallenge
<1>14. \A j \in Challenges : challenge'[j].result \in {0, j}
  BY <1>6 DEF NoChallenge
<1>15. \A d \in Calls : pc'[d] # "solved"
  BY <1>3, <1>7 DEF InChallenge
<1>16. QED BY <1>10, <1>11, <1>12, <1>13, <1>14, <1>15 DEF GateInv

(* The answer of waitForCaptcha. *)
LEMMA WaitingKeepsGates ==
    ASSUME TypeInv, GateInv, NEW c \in Calls, TakeToken(c) \/ WaitEnds(c)
    PROVE  GateInv'
<1>1. /\ pc[c] = "wait"
      /\ UNCHANGED <<gate, request, coordinatorVars, challenge>>
      /\ \/ pc' = [pc EXCEPT ![c] = "refused"]
         \/ pc' = [pc EXCEPT ![c] = "solved"] /\ Mine(c).result # 0
  BY DEF TakeToken, WaitEnds, GoTo
<1>2. /\ pc'[c] \in InChallenge /\ pc[c] \in InChallenge
      /\ pc'[c] = "solved" => Mine(c).result # 0
      /\ \A d \in Calls \ {c} : pc'[d] = pc[d]
  BY <1>1 DEF TypeInv, TypeOK, InChallenge
<1>3. \A d \in Calls : (pc'[d] \in InChallenge <=> pc[d] \in InChallenge) /\ (pc'[d] \in Inside <=> pc[d] \in Inside)
  BY <1>2 DEF Inside
<1>4. \A d \in Calls : \A j : HasChallenge(d, j)' <=> HasChallenge(d, j)
  BY <1>1, <1>3 DEF HasChallenge
<1>5. \A d \in Calls : OwnsChallenge(d) => OwnsChallenge(d)'
  BY <1>1 DEF OwnsChallenge, coordinatorVars
<1>6. \A d \in Calls : pc'[d] = "solved" => Mine(d)'.result # 0
  BY <1>1, <1>2 DEF GateInv, Mine
<1>7. QED BY <1>1, <1>3, <1>4, <1>5, <1>6 DEF GateInv, coordinatorVars

(* A call keeps the invariant of the gates. *)
LEMMA CallKeepsGates ==
    ASSUME TypeInv, GateInv, NEW c \in Calls, CallStep(c)
    PROVE  GateInv'
<1> USE DEF TypeInv, TypeOK, GoTo
<1>1. CASE Challenge(c)
  BY <1>1, BeginningKeepsGates
<1>2. CASE TakeToken(c) \/ WaitEnds(c)
  BY <1>2, WaitingKeepsGates
<1>3. CASE Resume(c)
  <2>1. /\ pc[c] \in InChallenge /\ CloseChallenge(request[c].id)
        /\ pc' = [pc EXCEPT ![c] = "request"]
        /\ request'[c].id = 0 /\ \A d \in Calls \ {c} : request'[d] = request[d]
    BY <1>3 DEF Resume, InChallenge
  <2>2. \A d \in Calls : gate' = d <=> pc'[d] \in Inside
    BY <1>3, <2>1 DEF Resume, GateInv, Inside
  <2>3. "request" \notin InChallenge
    BY DEF InChallenge
  <2>4. QED BY <2>1, <2>2, <2>3, ClosingKeepsGates
<1>4. CASE GiveUp(c)
  <2>1. /\ pc[c] \in InChallenge /\ CloseChallenge(request[c].id)
        /\ pc' = [pc EXCEPT ![c] = "returned"] /\ gate' = NoCall
        /\ request'[c].id = 0 /\ \A d \in Calls \ {c} : request'[d] = request[d]
    BY <1>4 DEF GiveUp, Return, InChallenge, NoRequest, Fresh
  <2>2. \A d \in Calls : gate' = d <=> pc'[d] \in Inside
    BY <2>1, CredentialsAssumption DEF GateInv, Inside, InChallenge
  <2>3. "returned" \notin InChallenge
    BY DEF InChallenge
  <2>4. QED BY <2>1, <2>2, <2>3, ClosingKeepsGates
<1>5. QED BY <1>1, <1>2, <1>3, <1>4, OutsideKeepsGates DEF CallStep

(* The contexts that end, the user and the browser keep it. *)
LEMMA RestKeepsGates ==
    ASSUME TypeInv, GateInv, [Next]_vars, ~\E c \in Calls : CallStep(c)
    PROVE  GateInv'
<1> USE DEF TypeInv, TypeOK, callVars
<1>1. ASSUME UNCHANGED <<gate, pc, request, coordinatorVars, challenge>> PROVE GateInv'
  BY <1>1, RecordsChange
<1>2. ASSUME NEW S \in SUBSET Calls, ContextsEnd(S) PROVE GateInv'
  <2>1. ASSUME NEW i \in Challenges, NEW c \in S, request[c].id = i
        PROVE  challenge[i] # NoChallenge \/ challenge[i].pending = FALSE
    BY DEF NoChallenge
  <2>2. ASSUME NEW i \in Challenges, challenge'[i] # challenge[i]
        PROVE  /\ challenge[i] # NoChallenge
               /\ challenge'[i].home = challenge[i].home /\ challenge'[i].result = challenge[i].result
    <3>1. challenge'[i] = [challenge[i] EXCEPT !.pending = FALSE]
      BY <1>2, <2>2 DEF ContextsEnd
    <3>2. challenge[i].pending = TRUE
      BY <2>2, <3>1
    <3>3. QED BY <3>1, <3>2 DEF NoChallenge
  <2>3. UNCHANGED <<gate, pc, request, coordinatorVars>>
    BY <1>2 DEF ContextsEnd
  <2>4. QED BY <2>2, <2>3, RecordsChange DEF GateInv
<1>3. CASE StartCore \/ Install \/ EndCore \/ LockoutEnds
  BY <1>1, <1>3 DEF StartCore, Install, EndCore, LockoutEnds
<1>4. CASE StopCore
  BY <1>2, <1>4 DEF StopCore
<1>5. CASE \E c \in Calls : CallTimesOut(c)
  BY <1>2, <1>5 DEF CallTimesOut
<1>6. ASSUME NEW b \in Browsers, BrowserStep(b) PROVE GateInv'
  <2>1. CASE BrowserEnds(b)
    BY <1>1, <2>1 DEF BrowserEnds
  <2>2. CASE LaunchFailed(b)
    <3> DEFINE i == browser[b].id
    <3>1. CASE ~Reaches(i) \/ i \notin Challenges
      <4>1. challenge' = challenge
        BY <2>2, <3>1 DEF LaunchFailed
      <4>2. QED BY <1>1, <2>2, <4>1 DEF LaunchFailed
    <3>2. CASE Reaches(i) /\ i \in Challenges
      <4>1. challenge' = [challenge EXCEPT ![i].launched = FALSE] /\ UNCHANGED <<gate, pc, request, coordinatorVars>>
        BY <2>2, <3>2 DEF LaunchFailed
      <4>2. bcore \in Cores /\ current[bcore] = i /\ i # 0
        BY <3>2, CredentialsAssumption DEF Reaches, Cores, Challenges
      <4>3. PICK c \in Calls : HasChallenge(c, i) /\ challenge[i].home = bcore
        BY <4>2 DEF GateInv
      <4>4. challenge[i] # NoChallenge
        BY <4>2, <4>3, CredentialsAssumption DEF NoChallenge, Cores
      <4>5. \A j \in Challenges : j # i => challenge'[j] = challenge[j]
        BY <4>1
      <4>6. challenge'[i].home = challenge[i].home /\ challenge'[i].result = challenge[i].result
        BY <3>2, <4>1
      <4>7. QED BY <4>1, <4>4, <4>5, <4>6, RecordsChange DEF GateInv
    <3>3. QED BY <3>1, <3>2
  <2>3. CASE SubmitCaptcha(b)
    <3>1. ASSUME NEW i \in Challenges, Accepts(b, i)
          PROVE  /\ challenge[i] # NoChallenge /\ challenge'[i].home = challenge[i].home
                 /\ challenge'[i].result = i /\ challenge[i].result = 0
      BY <2>3, <3>1 DEF SubmitCaptcha, Accepts, NoChallenge
    <3>2. ASSUME NEW i \in Challenges, ~Accepts(b, i) PROVE challenge'[i] = challenge[i]
      BY <2>3, <3>2 DEF SubmitCaptcha
    <3>3. UNCHANGED <<gate, pc, request, coordinatorVars>>
      BY <2>3 DEF SubmitCaptcha
    <3>4. QED BY <3>1, <3>2, <3>3, RecordsChange
  <2>4. QED BY <1>6, <2>1, <2>2, <2>3 DEF BrowserStep
<1>7. ASSUME NEW b \in Browsers, NEW i \in Challenges, OpenCaptcha(b, i) PROVE GateInv'
  <2>1. challenge[i] # NoChallenge
    BY <1>7 DEF OpenCaptcha, MayOpen, NoChallenge
  <2>2. /\ challenge'[i].home = challenge[i].home /\ challenge'[i].result = challenge[i].result
        /\ \A j \in Challenges : j # i => challenge'[j] = challenge[j]
    BY <1>7 DEF OpenCaptcha
  <2>3. QED BY <1>7, <2>1, <2>2, RecordsChange DEF OpenCaptcha, GateInv
<1>8. ASSUME NEW i \in Challenges, CancelCaptcha(i) \/ ChallengeTimesOut(i) PROVE GateInv'
  <2>1. ChallengeEnds(i)
    BY <1>8 DEF CancelCaptcha, ChallengeTimesOut
  <2>2. challenge[i] # NoChallenge
    BY <2>1 DEF ChallengeEnds, NoChallenge
  <2>3. /\ challenge'[i].home = challenge[i].home /\ challenge'[i].result = challenge[i].result
        /\ \A j \in Challenges : j # i => challenge'[j] = challenge[j]
    BY <2>1 DEF ChallengeEnds
  <2>4. QED BY <2>1, <2>2, <2>3, RecordsChange DEF ChallengeEnds, GateInv
<1>9. CASE UNCHANGED vars
  BY <1>1, <1>9 DEF vars
<1>10. QED BY <1>3, <1>4, <1>5, <1>6, <1>7, <1>8, <1>9 DEF Next

LEMMA NextGates == TypeInv /\ GateInv /\ [Next]_vars => GateInv'
BY CallKeepsGates, RestKeepsGates

LEMMA GatesHold == Spec => [](TypeInv /\ GateInv)
<1>1. Init => TypeInv /\ GateInv
  BY InitTypes, InitGates
<1>2. TypeInv /\ GateInv /\ [Next]_vars => (TypeInv /\ GateInv)'
  BY NextTypes, NextGates
<1>3. QED BY <1>1, <1>2, PTL DEF Spec

(* Nothing holds vkRequestGate or the challenge gate of a Core but the call behind   *)
(* it: no way out keeps a token (vk_auth.go:361-371, captcha_flow.go:70-99).          *)
THEOREM GatesExact == Spec => []GatesAreExact
<1>1. TypeInv /\ GateInv => GatesAreExact
  <2> SUFFICES ASSUME TypeInv, GateInv PROVE GatesAreExact
    OBVIOUS
  <2>1. ASSUME NEW k \in Cores, challengeGate[k]
        PROVE  \E c \in Calls : pc[c] \in InChallenge /\ current[k] = request[c].id
    BY <2>1 DEF GateInv, HasChallenge
  <2>2. ASSUME NEW k \in Cores, NEW c \in Calls, pc[c] \in InChallenge, current[k] = request[c].id
        PROVE  challengeGate[k]
    <3>1. /\ current[k] # 0 /\ challengeGate[challenge[request[c].id].home]
      BY <2>2 DEF GateInv, OwnsChallenge
    <3>2. challenge[current[k]].home = k
      BY <3>1 DEF GateInv
    <3>3. QED BY <2>2, <3>1, <3>2
  <2>3. QED BY <2>1, <2>2 DEF GatesAreExact, GateInv, TypeInv, TypeOK
<1>2. QED BY <1>1, GatesHold, PTL

(* A token that a call goes on with was solved for its own challenge, whichever      *)
(* browsers answer late (captchaCoordinator.submit, captcha_flow.go).                *)
THEOREM OwnToken == Spec => []TokenIsOwn
<1>1. TypeInv /\ GateInv => TokenIsOwn
  BY DEF GateInv, TokenIsOwn, Mine, OwnsChallenge, InChallenge
<1>2. QED BY <1>1, GatesHold, PTL
-----------------------------------------------------------------------------
(***************************************************************************)
(* Browsers                                                                 *)
(***************************************************************************)

(* No browser knows a challenge that has not begun; one works on a challenge that *)
(* still waits only if it alone was launched for it; a challenge that was          *)
(* launched belongs to the Core the Bridge has, or to one it will not have again.  *)
BrowserInv ==
    /\ \A b \in Browsers : browser[b].id \in 0..issued
    /\ \A b \in Browsers : browser[b].at = "open" => browser[b].id \in Challenges
    /\ \A b \in Browsers, i \in Challenges :
         browser[b].id = i /\ challenge[i].pending => challenge[i].launched
    /\ \A a, b \in Browsers, i \in Challenges :
         browser[a].id = i /\ browser[b].id = i /\ challenge[i].pending => a = b
    /\ \A i \in Challenges : challenge[i].home <= activeCore
    /\ \A c \in Calls : pc[c] # "idle" => CoreOf[c] <= activeCore
    /\ \A i \in Challenges : challenge[i].launched =>
         challenge[i].home = bcore \/ challenge[i].home < activeCore \/ ~live
    /\ \A i \in Challenges :
         challenge[i].pending /\ challenge[i].launched /\ challenge[i].home = bcore =>
             challenge[i].result # 0 \/ \E b \in Browsers : browser[b].id = i

LEMMA InitBrowsers == Init => BrowserInv
<1> SUFFICES ASSUME Init PROVE BrowserInv
  OBVIOUS
<1>1. \A i \in Challenges : challenge[i] = NoChallenge
  BY DEF Init
<1>2. \A b \in Browsers : browser[b].id = 0 /\ browser[b].at = "idle"
  BY DEF Init, NoBrowser
<1>3. NoChallenge.home = 0 /\ NoChallenge.pending = FALSE /\ NoChallenge.launched = FALSE
  BY DEF NoChallenge
<1>4. issued = 0 /\ activeCore = 0 /\ \A c \in Calls : pc[c] = "idle"
  BY DEF Init
<1>5. QED BY <1>1, <1>2, <1>3, <1>4 DEF BrowserInv, Challenges

(* A challenge that comes to its end says nothing about browsers any more. *)
LEMMA EndingKeepsBrowsers ==
    ASSUME TypeInv, BrowserInv, UNCHANGED <<activeCore, live, bcore, issued, browser>>,
           \A c \in Calls : pc'[c] # "idle" => CoreOf[c] <= activeCore,
           \A i \in Challenges :
              \/ challenge'[i] = challenge[i]
              \/ challenge'[i] = NoChallenge
              \/ challenge'[i] = [challenge[i] EXCEPT !.pending = FALSE]
    PROVE  BrowserInv'
<1>1. NoChallenge.home = 0 /\ NoChallenge.pending = FALSE /\ NoChallenge.launched = FALSE
  BY DEF NoChallenge
<1>2. \A i \in Challenges : LET ended == [challenge[i] EXCEPT !.pending = FALSE] IN
        /\ ended.pending = FALSE /\ ended.home = challenge[i].home
        /\ ended.launched = challenge[i].launched
  BY DEF TypeInv, TypeOK
<1>3. \A i \in Challenges :
        \/ challenge'[i] = challenge[i]
        \/ /\ challenge'[i].pending = FALSE
           /\ \/ challenge'[i].home = 0 /\ challenge'[i].launched = FALSE
              \/ challenge'[i].home = challenge[i].home /\ challenge'[i].launched = challenge[i].launched
  BY <1>1, <1>2
<1>4. 0 <= activeCore /\ activeCore' = activeCore
  BY DEF TypeInv, TypeOK
<1>5. QED BY <1>3, <1>4 DEF BrowserInv

(* A call starts no browser; the challenge it begins has none yet. *)
LEMMA CallKeepsBrowsers ==
    ASSUME TypeInv, GateInv, BrowserInv, NEW c \in Calls, CallStep(c)
    PROVE  BrowserInv'
<1> USE CredentialsAssumption
<1>1. UNCHANGED <<activeCore, live, bcore, browser>>
  BY DEF CallStep, Begin, EnterGate, LeaveGate, CutOff, FirstRequest, LockedOut, RequestEnds, NextStep,
     Fallback, Challenged, TooMany, SolvedAlone, NobodyToAsk, Challenge, TakeToken, WaitEnds, Resume,
     GiveUp, CloseChallenge, coreVars
<1>2. \A d \in Calls : pc'[d] # "idle" => CoreOf[d] <= activeCore
  <2>1. CASE Begin(c)
    <3>1. CoreOf[c] <= activeCore /\ \A d \in Calls : d # c => pc'[d] = pc[d]
      BY <2>1 DEF Begin, GoTo, TypeInv, TypeOK
    <3>2. QED BY <3>1 DEF BrowserInv
  <2>2. CASE ~Begin(c)
    <3>1. pc[c] # "idle"
      BY <2>2 DEF CallStep, EnterGate, LeaveGate, CutOff, FirstRequest, Admitted, LockedOut, RequestEnds, NextStep,
         Fallback, Challenged, TooMany, SolvedAlone, NobodyToAsk, Challenge, TakeToken, WaitEnds, Resume, GiveUp
    <3>2. \A d \in Calls : d # c => pc'[d] = pc[d]
      BY DEF CallStep, Begin, EnterGate, LeaveGate, CutOff, FirstRequest, LockedOut, RequestEnds, NextStep,
         Fallback, Challenged, TooMany, SolvedAlone, NobodyToAsk, Challenge, TakeToken, WaitEnds, Resume,
         GiveUp, GoTo, Return, TypeInv, TypeOK
    <3>3. QED BY <3>1, <3>2 DEF BrowserInv
  <2>3. QED BY <2>1, <2>2
<1>3. CASE Challenge(c)
  <2>0. PICK i, k : i = issued + 1 /\ k = Home(c)
    OBVIOUS
  <2>1. /\ i \in Challenges /\ issued' = i /\ i > issued
        /\ challenge' = [challenge EXCEPT ![i].home = k, ![i].pending = TRUE]
    <3>1. issued \in Nat /\ issued < MaxChallenges
      BY <1>3 DEF Challenge, TypeInv, TypeOK
    <3>2. QED BY <1>3, <2>0, <3>1 DEF Challenge, Challenges
  <2>2. k <= activeCore
    BY <1>3, <2>0 DEF Challenge, Home, BrowserInv, TypeInv, TypeOK
  <2>3. challenge[i] = NoChallenge
    <3>1. ~\E d \in Calls : HasChallenge(d, i)
      BY <2>0, <2>1 DEF HasChallenge, GateInv, OwnsChallenge, TypeInv, TypeOK
    <3>2. QED BY <2>1, <3>1 DEF GateInv
  <2>4. /\ challenge'[i].launched = FALSE /\ challenge'[i].home = k
        /\ \A j \in Challenges : j # i => challenge'[j] = challenge[j]
    <3>1. challenge[i].launched = FALSE
      BY <2>3 DEF NoChallenge
    <3>2. QED BY <2>1, <3>1 DEF TypeInv, TypeOK
  <2>5. \A b \in Browsers : browser[b].id # i /\ browser[b].id \in 0..issued'
    BY <2>0, <2>1 DEF BrowserInv, TypeInv, TypeOK
  <2>6. QED BY <1>1, <1>2, <2>2, <2>4, <2>5 DEF BrowserInv
<1>4. CASE Resume(c) \/ GiveUp(c)
  <2>1. CloseChallenge(request[c].id)
    BY <1>4 DEF Resume, GiveUp
  <2>2. issued' = issued /\ \A i \in Challenges : challenge'[i] = challenge[i] \/ challenge'[i] = NoChallenge
    BY <2>1 DEF CloseChallenge, TypeInv, TypeOK
  <2>3. QED BY <1>1, <1>2, <2>2, EndingKeepsBrowsers
<1>5. CASE ~Challenge(c) /\ ~Resume(c) /\ ~GiveUp(c)
  <2>1. challenge' = challenge /\ issued' = issued
    BY <1>5 DEF CallStep, Begin, EnterGate, LeaveGate, CutOff, FirstRequest, LockedOut, RequestEnds, NextStep,
       Fallback, Challenged, TooMany, SolvedAlone, NobodyToAsk, TakeToken, WaitEnds, coordinatorVars
  <2>2. QED BY <1>1, <1>2, <2>1, EndingKeepsBrowsers
<1>6. QED BY <1>3, <1>4, <1>5

(* Cores that come and go strand the challenges that were launched for them. *)
LEMMA CoresKeepBrowsers ==
    ASSUME TypeInv, GateInv, BrowserInv, StartCore \/ Install \/ EndCore
    PROVE  BrowserInv'
<1> USE CredentialsAssumption DEF TypeInv, TypeOK
<1>1. UNCHANGED <<issued, browser, challenge, pc>>
  BY DEF StartCore, Install, EndCore, callVars, coordinatorVars
<1>2. activeCore' \in Nat /\ activeCore <= activeCore'
  BY DEF StartCore, Install, EndCore
<1>3. \A i \in Challenges : challenge'[i].home <= activeCore'
  BY <1>1, <1>2 DEF BrowserInv
<1>4. \A c \in Calls : pc'[c] # "idle" => CoreOf[c] <= activeCore'
  BY <1>1, <1>2 DEF BrowserInv
<1>5. ASSUME NEW i \in Challenges, challenge[i].launched
      PROVE  challenge'[i].home = bcore' \/ challenge'[i].home < activeCore' \/ ~live'
  <2>1. challenge[i].home <= activeCore /\ challenge[i].home \in Nat
    BY DEF BrowserInv
  <2>2. challenge[i].home = bcore \/ challenge[i].home < activeCore \/ ~live
    BY <1>5 DEF BrowserInv
  <2>3. CASE StartCore
    BY <1>1, <2>1, <2>3 DEF StartCore
  <2>4. CASE Install
    BY <1>1, <2>1, <2>2, <2>4 DEF Install
  <2>5. CASE EndCore
    BY <1>1, <2>5 DEF EndCore
  <2>6. QED BY <2>3, <2>4, <2>5
<1>6. ASSUME NEW i \in Challenges, challenge[i].pending, challenge[i].launched, challenge[i].home = bcore'
      PROVE  challenge[i].home = bcore
  <2>1. challenge[i].home # 0
    BY <1>6 DEF GateInv, NoChallenge, HasChallenge, OwnsChallenge, Cores
  <2>2. challenge[i].home = bcore \/ challenge[i].home < activeCore \/ ~live
    BY <1>6 DEF BrowserInv
  <2>3. CASE StartCore
    BY <1>6, <2>3 DEF StartCore
  <2>4. CASE Install
    BY <1>6, <2>2, <2>4 DEF Install
  <2>5. CASE EndCore
    BY <1>6, <2>1, <2>5 DEF EndCore
  <2>6. QED BY <2>3, <2>4, <2>5
<1>7. QED BY <1>1, <1>3, <1>4, <1>5, <1>6 DEF BrowserInv

(* A challenge that still waits is the current one of the Core it began in. *)
LEMMA PendingIsCurrent ==
    ASSUME TypeInv, GateInv, NEW i \in Challenges, challenge[i].pending
    PROVE  /\ challenge[i].home \in Cores /\ current[challenge[i].home] = i
           /\ i # 0 /\ i \in 1..issued
<1>1. challenge[i] # NoChallenge
  BY DEF NoChallenge
<1>2. PICK c \in Calls : HasChallenge(c, i)
  BY <1>1 DEF GateInv
<1>3. OwnsChallenge(c) /\ request[c].id = i
  BY <1>2 DEF GateInv, HasChallenge
<1>4. QED BY <1>3 DEF OwnsChallenge, TypeInv, TypeOK

LEMMA ReachedHome ==
    ASSUME TypeInv, GateInv, NEW i \in Challenges, challenge[i].pending
    PROVE  Reaches(i) <=> challenge[i].home = bcore
<1>1. /\ challenge[i].home \in Cores /\ current[challenge[i].home] = i /\ i # 0
  BY PendingIsCurrent
<1>2. ASSUME Reaches(i) PROVE challenge[i].home = bcore
  <2>1. bcore \in Cores /\ current[bcore] = i
    BY <1>2 DEF Reaches, TypeInv, TypeOK, Cores
  <2>2. QED BY <1>1, <2>1 DEF GateInv
<1>3. ASSUME challenge[i].home = bcore PROVE Reaches(i)
  BY <1>1, <1>3, CredentialsAssumption DEF Reaches, Cores
<1>4. QED BY <1>2, <1>3

(* A browser that is opened, that ends, fails or answers. *)
LEMMA UserKeepsBrowsers ==
    ASSUME TypeInv, GateInv, BrowserInv, NEW b \in Browsers,
           BrowserStep(b) \/ \E i \in Challenges : OpenCaptcha(b, i)
    PROVE  BrowserInv'
<1> USE CredentialsAssumption
<1>1. /\ UNCHANGED <<activeCore, live, bcore, pc, issued>>
      /\ \A c \in Calls : pc'[c] # "idle" => CoreOf[c] <= activeCore
  BY DEF BrowserStep, BrowserEnds, LaunchFailed, SubmitCaptcha, OpenCaptcha, coreVars, callVars, coordinatorVars, BrowserInv
<1>2. ASSUME NEW i \in Challenges, OpenCaptcha(b, i) PROVE BrowserInv'
  <2>1. /\ challenge[i].pending /\ ~challenge[i].launched /\ i \in 1..issued
        /\ challenge[i].home = bcore
    BY <1>2, PendingIsCurrent, ReachedHome DEF OpenCaptcha, MayOpen
  <2>2. /\ challenge'[i].launched = TRUE /\ challenge'[i].pending = challenge[i].pending
        /\ challenge'[i].home = challenge[i].home /\ challenge'[i].result = challenge[i].result
        /\ \A j \in Challenges : j # i => challenge'[j] = challenge[j]
    BY <1>2 DEF OpenCaptcha, TypeInv, TypeOK
  <2>3. /\ browser'[b].id = i /\ \A a \in Browsers : a # b => browser'[a] = browser[a]
    BY <1>2 DEF OpenCaptcha, TypeInv, TypeOK
  <2>4. \A a \in Browsers : browser[a].id # i
    BY <2>1 DEF BrowserInv
  <2>5. i \in 0..issued
    BY <2>1 DEF TypeInv, TypeOK
  <2>6. \A a \in Browsers, j \in Challenges : browser'[a].id = j =>
          \/ a = b /\ j = i
          \/ a # b /\ j # i /\ browser[a].id = j
    BY <2>3, <2>4
  <2>7. /\ \A a \in Browsers : browser'[a].id \in 0..issued'
        /\ \A a \in Browsers : browser'[a].at = "open" => browser'[a].id \in Challenges
    BY <1>1, <2>3, <2>5 DEF BrowserInv
  <2>8. /\ \A a \in Browsers, j \in Challenges :
             browser'[a].id = j /\ challenge'[j].pending => challenge'[j].launched
        /\ \A a, d \in Browsers, j \in Challenges :
             browser'[a].id = j /\ browser'[d].id = j /\ challenge'[j].pending => a = d
    BY <2>2, <2>6 DEF BrowserInv
  <2>9. /\ \A j \in Challenges : challenge'[j].home <= activeCore'
        /\ \A j \in Challenges : challenge'[j].launched =>
             challenge'[j].home = bcore' \/ challenge'[j].home < activeCore' \/ ~live'
    BY <1>1, <2>1, <2>2 DEF BrowserInv
  <2>10. ASSUME NEW j \in Challenges, challenge'[j].pending, challenge'[j].launched, challenge'[j].home = bcore'
         PROVE  challenge'[j].result # 0 \/ \E a \in Browsers : browser'[a].id = j
    <3>1. CASE j = i
      BY <2>3, <3>1
    <3>2. CASE j # i
      <4>1. challenge[j].pending /\ challenge[j].launched /\ challenge[j].home = bcore /\ challenge'[j] = challenge[j]
        BY <1>1, <2>2, <2>10, <3>2
      <4>2. CASE challenge[j].result # 0
        BY <4>1, <4>2
      <4>3. CASE challenge[j].result = 0
        <5>1. PICK a \in Browsers : browser[a].id = j
          BY <4>1, <4>3 DEF BrowserInv
        <5>2. CASE a = b
          <6>1. j = i
            <7>1. current[bcore] = i /\ current[bcore] = j
              BY <2>1, <4>1, PendingIsCurrent
            <7>2. QED BY <7>1
          <6>2. QED BY <3>2, <6>1
        <5>3. CASE a # b
          BY <2>3, <5>1, <5>3
        <5>4. QED BY <5>2, <5>3
      <4>4. QED BY <4>2, <4>3
    <3>3. QED BY <3>1, <3>2
  <2>11. QED BY <1>1, <2>7, <2>8, <2>9, <2>10 DEF BrowserInv
<1>3. CASE BrowserEnds(b)
  <2>1. challenge' = challenge
    BY <1>3 DEF BrowserEnds
  <2>2. \A a \in Browsers : browser'[a].id = browser[a].id /\ (browser'[a].at = "open" => browser[a].at = "open")
    BY <1>3 DEF BrowserEnds, TypeInv, TypeOK
  <2>3. QED BY <1>1, <2>1, <2>2 DEF BrowserInv
<1>4. CASE LaunchFailed(b) \/ SubmitCaptcha(b)
  <2>1. /\ browser'[b].id = 0 /\ browser'[b].at = "idle"
        /\ \A a \in Browsers : a # b => browser'[a] = browser[a]
    BY <1>4 DEF LaunchFailed, SubmitCaptcha, NoBrowser, TypeInv, TypeOK
  <2>2. 0 \in 0..issued /\ \A j \in Challenges : j # 0
    BY DEF TypeInv, TypeOK, Challenges
  <2>3. ASSUME NEW i \in Challenges
        PROVE  /\ challenge'[i].pending = challenge[i].pending /\ challenge'[i].home = challenge[i].home
               /\ challenge'[i].launched => challenge[i].launched
               /\ challenge[i].result # 0 => challenge'[i].result # 0
               /\ challenge[i].launched /\ ~challenge'[i].launched => i = browser[b].id
    <3>1. CASE LaunchFailed(b)
      BY <3>1 DEF LaunchFailed, TypeInv, TypeOK
    <3>2. CASE SubmitCaptcha(b)
      <4>1. CASE Accepts(b, i)
        <5>1. challenge'[i] = [challenge[i] EXCEPT !.result = browser[b].id]
          BY <3>2, <4>1 DEF SubmitCaptcha
        <5>2. challenge[i].result = 0
          BY <4>1 DEF Accepts
        <5>3. QED BY <5>1, <5>2 DEF TypeInv, TypeOK
      <4>2. CASE ~Accepts(b, i)
        BY <3>2, <4>2 DEF SubmitCaptcha
      <4>3. QED BY <4>1, <4>2
    <3>3. QED BY <1>4, <3>1, <3>2
  <2>4. ASSUME NEW i \in Challenges, challenge'[i].pending, challenge'[i].launched, challenge'[i].home = bcore
        PROVE  challenge'[i].result # 0 \/ \E a \in Browsers : browser'[a].id = i
    <3>1. challenge[i].pending /\ challenge[i].launched /\ challenge[i].home = bcore
      BY <2>3, <2>4
    <3>2. CASE browser[b].id # i
      BY <2>1, <2>3, <3>1, <3>2 DEF BrowserInv
    <3>3. CASE browser[b].id = i
      <4>1. Reaches(i)
        BY <3>1, ReachedHome
      <4>2. ~LaunchFailed(b)
        BY <2>4, <3>3, <4>1 DEF LaunchFailed, TypeInv, TypeOK
      <4>3. CASE challenge[i].result # 0
        BY <2>3, <4>3
      <4>4. CASE challenge[i].result = 0
        <5>1. Accepts(b, i)
          BY <3>1, <3>3, <4>1, <4>4 DEF Accepts
        <5>2. challenge'[i].result = i
          BY <1>4, <3>3, <4>2, <5>1 DEF SubmitCaptcha, TypeInv, TypeOK
        <5>3. QED BY <2>2, <5>2
      <4>5. QED BY <4>3, <4>4
    <3>4. QED BY <3>2, <3>3
  <2>5. ASSUME NEW a \in Browsers, NEW i \in Challenges, browser'[a].id = i, challenge'[i].pending
        PROVE  challenge'[i].launched
    <3>1. a # b /\ browser[a].id = i /\ challenge[i].pending /\ challenge[i].launched
      BY <2>1, <2>2, <2>3, <2>5 DEF BrowserInv
    <3>2. browser[b].id # i
      BY <3>1 DEF BrowserInv
    <3>3. QED BY <2>3, <3>1, <3>2 DEF TypeInv, TypeOK
  <2>6. /\ \A a \in Browsers : browser'[a].id \in 0..issued'
        /\ \A a \in Browsers : browser'[a].at = "open" => browser'[a].id \in Challenges
        /\ \A a, d \in Browsers, i \in Challenges :
             browser'[a].id = i /\ browser'[d].id = i /\ challenge'[i].pending => a = d
    BY <1>1, <2>1, <2>2, <2>3 DEF BrowserInv
  <2>7. /\ \A i \in Challenges : challenge'[i].home <= activeCore'
        /\ \A i \in Challenges : challenge'[i].launched =>
             challenge'[i].home = bcore' \/ challenge'[i].home < activeCore' \/ ~live'
    BY <1>1, <2>3 DEF BrowserInv
  <2>8. QED BY <1>1, <2>4, <2>5, <2>6, <2>7 DEF BrowserInv
<1>5. QED BY <1>2, <1>3, <1>4 DEF BrowserStep

LEMMA NextBrowsers == TypeInv /\ GateInv /\ BrowserInv /\ [Next]_vars => BrowserInv'
<1> SUFFICES ASSUME TypeInv, GateInv, BrowserInv, [Next]_vars PROVE BrowserInv'
  OBVIOUS
<1>1. CASE \E c \in Calls : CallStep(c)
  BY <1>1, CallKeepsBrowsers
<1>2. CASE StartCore \/ Install \/ EndCore
  BY <1>2, CoresKeepBrowsers
<1>3. ASSUME NEW S, ContextsEnd(S) PROVE BrowserInv'
  <2>1. \A i \in Challenges : challenge'[i] = challenge[i] \/ challenge'[i] = [challenge[i] EXCEPT !.pending = FALSE]
    BY <1>3 DEF ContextsEnd
  <2>2. UNCHANGED <<activeCore, live, bcore, issued, browser, pc>>
    BY <1>3 DEF ContextsEnd, coreVars, coordinatorVars
  <2>3. \A c \in Calls : pc'[c] # "idle" => CoreOf[c] <= activeCore
    BY <2>2 DEF BrowserInv
  <2>4. QED BY <2>1, <2>2, <2>3, EndingKeepsBrowsers
<1>4. CASE StopCore \/ \E c \in Calls : CallTimesOut(c)
  BY <1>3, <1>4 DEF StopCore, CallTimesOut
<1>5. CASE LockoutEnds \/ UNCHANGED vars
  BY <1>5, EndingKeepsBrowsers DEF LockoutEnds, vars, coreVars, callVars, coordinatorVars, BrowserInv
<1>6. ASSUME NEW i \in Challenges, CancelCaptcha(i) \/ ChallengeTimesOut(i) PROVE BrowserInv'
  <2>1. ChallengeEnds(i)
    BY <1>6 DEF CancelCaptcha, ChallengeTimesOut
  <2>2. \A j \in Challenges : challenge'[j] = challenge[j] \/ challenge'[j] = [challenge[j] EXCEPT !.pending = FALSE]
    BY <2>1 DEF ChallengeEnds, TypeInv, TypeOK
  <2>3. UNCHANGED <<activeCore, live, bcore, issued, browser, pc>>
    BY <2>1 DEF ChallengeEnds, coreVars, callVars, coordinatorVars
  <2>4. \A c \in Calls : pc'[c] # "idle" => CoreOf[c] <= activeCore
    BY <2>3 DEF BrowserInv
  <2>5. QED BY <2>2, <2>3, <2>4, EndingKeepsBrowsers
<1>7. CASE \E b \in Browsers : BrowserStep(b) \/ \E i \in Challenges : OpenCaptcha(b, i)
  BY <1>7, UserKeepsBrowsers
<1>8. QED BY <1>1, <1>2, <1>4, <1>5, <1>6, <1>7 DEF Next

LEMMA BrowsersHold == Spec => [](TypeInv /\ GateInv /\ BrowserInv)
<1>1. Init => TypeInv /\ GateInv /\ BrowserInv
  BY InitTypes, InitGates, InitBrowsers
<1>2. TypeInv /\ GateInv /\ BrowserInv /\ [Next]_vars => (TypeInv /\ GateInv /\ BrowserInv)'
  BY NextTypes, NextGates, NextBrowsers
<1>3. QED BY <1>1, <1>2, PTL DEF Spec

(* No two windows for challenges that still wait, of one connection or of two        *)
(* (captchaCoordinator.active, captcha_flow.go).                                     *)
THEOREM OneBrowserOnly == Spec => []OneBrowser
<1>1. TypeInv /\ GateInv /\ BrowserInv => OneBrowser
  <2> SUFFICES ASSUME TypeInv, GateInv, BrowserInv, NEW a \in Browsers, NEW b \in Browsers,
                      browser[a].at = "open", challenge[browser[a].id].pending,
                      browser[b].at = "open", challenge[browser[b].id].pending
               PROVE  a = b
    BY DEF OneBrowser
  <2> DEFINE i == browser[a].id
             j == browser[b].id
  <2>1. i \in Challenges /\ j \in Challenges
    BY DEF BrowserInv
  <2>2. challenge[i] # NoChallenge /\ challenge[j] # NoChallenge
    BY DEF NoChallenge
  <2>3. PICK c \in Calls : HasChallenge(c, i)
    BY <2>1, <2>2 DEF GateInv
  <2>4. PICK d \in Calls : HasChallenge(d, j)
    BY <2>1, <2>2 DEF GateInv
  <2>5. c = d
    BY <2>3, <2>4, OneInside DEF HasChallenge, Inside
  <2>6. i = j
    BY <2>3, <2>4, <2>5 DEF HasChallenge
  <2>7. QED BY <2>1, <2>6 DEF BrowserInv
<1>2. QED BY <1>1, BrowsersHold, PTL

(* A challenge that the user can reach and that is marked as launched is worked on   *)
(* (captchaCoordinator.launchFailed, captcha_flow.go; App.OpenCaptcha, app.go:153).  *)
THEOREM WorkedOn == Spec => []LaunchedIsWorkedOn
<1>1. TypeInv /\ GateInv /\ BrowserInv => LaunchedIsWorkedOn
  BY ReachedHome DEF BrowserInv, LaunchedIsWorkedOn
<1>2. QED BY <1>1, BrowsersHold, PTL
-----------------------------------------------------------------------------
(***************************************************************************)
(* The lockout, and the token that comes too late                           *)
(***************************************************************************)

(* Behind the throttle nobody is while the lockout lasts: only a call that is there *)
(* sets it, and it leaves, and nobody else is behind the gate.                      *)
LockInv == \A c \in Calls : pc[c] \in Inside \ {"throttle"} => ~lockout

(* A step of a call moves no other call. *)
LEMMA OneCallMoves ==
    ASSUME TypeInv, NEW c \in Calls, CallStep(c), NEW d \in Calls, d # c
    PROVE  pc'[d] = pc[d]
BY DEF TypeInv, TypeOK, CallStep, GoTo, Return,
       Begin, EnterGate, LeaveGate, CutOff, FirstRequest, LockedOut, RequestEnds, NextStep, Fallback,
       Challenged, TooMany, SolvedAlone, NobodyToAsk, Challenge, TakeToken, WaitEnds, Resume, GiveUp

(* The other steps move none. *)
LEMMA RestMovesNobody ==
    ASSUME [Next]_vars, ~\E c \in Calls : CallStep(c)
    PROVE  pc' = pc /\ (lockout' = lockout \/ lockout' = FALSE)
<1> USE DEF callVars
<1>1. CASE StartCore \/ Install \/ EndCore \/ LockoutEnds
  BY <1>1 DEF StartCore, Install, EndCore, LockoutEnds
<1>2. CASE StopCore \/ \E c \in Calls : CallTimesOut(c)
  BY <1>2 DEF StopCore, CallTimesOut, ContextsEnd
<1>3. CASE \E b \in Browsers : BrowserStep(b) \/ \E i \in Challenges : OpenCaptcha(b, i)
  BY <1>3 DEF BrowserStep, BrowserEnds, LaunchFailed, SubmitCaptcha, OpenCaptcha
<1>4. CASE \E i \in Challenges : CancelCaptcha(i) \/ ChallengeTimesOut(i)
  BY <1>4 DEF CancelCaptcha, ChallengeTimesOut, ChallengeEnds
<1>5. CASE UNCHANGED vars
  BY <1>5 DEF vars
<1>6. QED BY <1>1, <1>2, <1>3, <1>4, <1>5 DEF Next

LEMMA NextLock == TypeInv /\ GateInv /\ LockInv /\ [Next]_vars => LockInv'
<1> SUFFICES ASSUME TypeInv, GateInv, LockInv, [Next]_vars PROVE LockInv'
  OBVIOUS
<1>1. ASSUME NEW c \in Calls, CallStep(c) PROVE LockInv'
  <2>1. CASE TooMany(c) \/ NobodyToAsk(c)
    <3>1. pc[c] \in Inside /\ pc'[c] = "returned"
      BY <2>1 DEF TooMany, NobodyToAsk, Return, GoTo, Inside, TypeInv, TypeOK
    <3>2. \A d \in Calls : d # c => pc'[d] \notin Inside
      BY <1>1, <3>1, OneInside, OneCallMoves
    <3>3. "returned" \notin Inside
      BY DEF Inside, InChallenge
    <3>4. QED BY <3>1, <3>2, <3>3 DEF LockInv
  <2>2. CASE ~TooMany(c) /\ ~NobodyToAsk(c)
    <3>1. lockout' = lockout
      BY <1>1, <2>2 DEF CallStep, Begin, EnterGate, LeaveGate, CutOff, FirstRequest, LockedOut, RequestEnds, NextStep,
         Fallback, Challenged, SolvedAlone, Challenge, TakeToken, WaitEnds, Resume, GiveUp, CloseChallenge
    <3>2. pc'[c] \in Inside \ {"throttle"} => ~lockout
      <4>1. CASE pc[c] \in Inside \ {"throttle"}
        BY <4>1 DEF LockInv
      <4>2. CASE FirstRequest(c)
        BY <4>2 DEF FirstRequest, Admitted
      <4>3. CASE pc[c] \notin Inside \ {"throttle"} /\ ~FirstRequest(c)
        BY <1>1, <2>2, <4>3
           DEF CallStep, Begin, EnterGate, LeaveGate, CutOff, LockedOut, RequestEnds, NextStep, Fallback, Challenged,
               SolvedAlone, Challenge, TakeToken, WaitEnds, Resume, GiveUp, GoTo, Return, Inside, InChallenge,
               TypeInv, TypeOK
      <4>4. QED BY <4>1, <4>2, <4>3
    <3>3. QED BY <1>1, <3>1, <3>2, OneCallMoves DEF LockInv
  <2>3. QED BY <2>1, <2>2
<1>2. CASE ~\E c \in Calls : CallStep(c)
  BY <1>2, RestMovesNobody DEF LockInv
<1>3. QED BY <1>1, <1>2

(* Nobody is asked for a CAPTCHA while the lockout lasts (vk_auth.go:399).           *)
THEOREM LockoutKept == Spec => LockoutHolds
<1>1. Init => TypeInv /\ GateInv /\ LockInv
  BY InitTypes, InitGates DEF Init, LockInv
<1>2. TypeInv /\ GateInv /\ LockInv /\ [Next]_vars => (TypeInv /\ GateInv /\ LockInv)'
  BY NextTypes, NextGates, NextLock
<1>3. LockInv => [\A c \in Calls : pc[c] = "captcha" /\ pc'[c] = "wait" => ~lockout]_vars
  BY DEF LockInv, Inside
<1>4. QED BY <1>1, <1>2, <1>3, PTL DEF Spec, LockoutHolds

(* A token that waitForCaptcha receives after the challenge ended is thrown away      *)
(* (captcha_flow.go:176).                                                            *)
THEOREM EndedIsLost == Spec => EndedChallengeIsLost
<1>1. TypeInv /\ [Next]_vars => [\A c \in Calls : pc[c] = "wait" /\ ~Mine(c).pending => pc'[c] # "solved"]_vars
  <2> SUFFICES ASSUME TypeInv, [Next]_vars, NEW c \in Calls, pc[c] = "wait", ~Mine(c).pending
               PROVE  pc'[c] # "solved"
    BY Zenon
  <2>1. CASE CallStep(c)
    BY <2>1 DEF TypeInv, TypeOK, CallStep, GoTo, Return,
       Begin, EnterGate, LeaveGate, CutOff, FirstRequest, Admitted, LockedOut, RequestEnds, NextStep, Fallback,
       Challenged, TooMany, SolvedAlone, NobodyToAsk, Challenge, TakeToken, WaitEnds, Resume, GiveUp
  <2>2. CASE \E d \in Calls : d # c /\ CallStep(d)
    BY <2>2, OneCallMoves
  <2>3. CASE ~\E d \in Calls : CallStep(d)
    BY <2>3, RestMovesNobody
  <2>4. QED BY <2>1, <2>2, <2>3
<1>2. QED BY <1>1, InitTypes, NextTypes, PTL DEF Spec, EndedChallengeIsLost
=============================================================================
