------------------------- MODULE HashPreflightProofs -------------------------
(***************************************************************************)
(* Theorems about HashPreflight, for any hashes, calls, edits and faults.     *)
(***************************************************************************)
EXTENDS HashPreflight, TLAPS

(* What a probe found valid of the hashes that were created. *)
Proven(hashes) == hashes \cap New \subseteq good

(* Where a thread puts its new hash into the files. *)
Placing == {"load", "save", "commit", "replaced"}

ProvenInv ==
    /\ DOMAIN pc = Threads /\ DOMAIN new = Threads /\ DOMAIN loaded = Threads /\ "local" \in DOMAIN plan
    /\ Proven(profile) /\ Proven(pool) /\ Proven(shown) /\ Proven(plan.local)
    /\ \A t \in Threads : Proven(loaded[t])
    /\ \A t \in Threads : pc[t] \in Placing => Proven({new[t]})
-----------------------------------------------------------------------------
(* A step that puts no hash anywhere, and brings no thread where it could. *)
LEMMA PlacesNothing ==
    ASSUME ProvenInv, good \subseteq good',
           profile' \subseteq profile, pool' \subseteq pool, shown' \subseteq shown, plan'.local \subseteq plan.local,
           DOMAIN pc' = Threads, DOMAIN new' = Threads, DOMAIN loaded' = Threads, "local" \in DOMAIN plan',
           \A t \in Threads : loaded'[t] \subseteq loaded[t],
           \A t \in Threads : pc'[t] \in Placing => pc[t] \in Placing /\ new'[t] = new[t]
    PROVE  ProvenInv'
  BY DEF ProvenInv, Proven

(* A step of a thread that only goes on, somewhere where it places nothing. *)
LEMMA GoesOn ==
    ASSUME ProvenInv, NEW t \in Threads, NEW from, NEW to, to \notin Placing, Move(t, from, to),
           good \subseteq good', UNCHANGED <<profile, shown, new, loaded>>, pool' \subseteq pool,
           plan'.local \subseteq plan.local, "local" \in DOMAIN plan'
    PROVE  ProvenInv'
<1>1. /\ DOMAIN pc' = Threads
      /\ \A u \in Threads : pc'[u] = IF u = t THEN to ELSE pc[u]
  BY DEF Move, ProvenInv
<1> QED
  BY <1>1, PlacesNothing DEF ProvenInv

(* What the plan of a preflight is made of stays what the window showed. *)
LEMMA PreparingKeepsProven == ASSUME ProvenInv, Preparing PROVE ProvenInv'
<1> USE DEF Connector, Threads
<1>1. CASE Sync
  <2>1. CASE profile' = plan.local /\ Move(Connector, "sync", "register")
    <3>1. UNCHANGED <<pool, shown, plan, new, loaded, good>>
      BY <1>1 DEF Sync, files, preflight, replacement
    <3>2. \A t \in Threads : pc'[t] \in Placing => pc[t] \in Placing
      BY <2>1 DEF Move, ProvenInv, Placing
    <3> QED
      BY <2>1, <3>1, <3>2 DEF ProvenInv, Proven, Move
  <2>2. CASE Move(Connector, "sync", "failed") /\ UNCHANGED profile
    BY <1>1, <2>2, GoesOn DEF Sync, files, preflight, replacement, Placing, ProvenInv
  <2> QED
    BY <1>1, <2>1, <2>2 DEF Sync
<1>2. CASE Register
  BY <1>2, GoesOn DEF Register, preflight, replacement, Placing, ProvenInv
<1>3. CASE Candidates
  <2>1. UNCHANGED <<profile, pool, shown, new, loaded, good>>
    BY <1>3 DEF Candidates, replacement
  <2>2. plan'.local = plan.local /\ "local" \in DOMAIN plan'
    BY <1>3 DEF Candidates, ProvenInv
  <2>3. \E to \in {"failed", "use", "read"} : Move(Connector, "candidates", to)
    BY <1>3 DEF Candidates
  <2> QED
    BY <2>1, <2>2, <2>3, GoesOn DEF Placing
<1>4. ASSUME NEW h \in Hashes, ReadCheck(h) PROVE ProvenInv'
  <2>1. UNCHANGED <<pc, profile, pool, shown, new, loaded, good>>
    BY <1>4 DEF ReadCheck, files, replacement, history
  <2>2. plan'.local = plan.local /\ "local" \in DOMAIN plan'
    BY <1>4 DEF ReadCheck, ProvenInv
  <2> QED
    BY <2>1, <2>2, PlacesNothing DEF ProvenInv
<1>5. CASE Decide
  <2>1. \E to \in {"check", "use"} : Move(Connector, "read", to)
    BY <1>5 DEF Decide
  <2> QED
    BY <1>5, <2>1, GoesOn DEF Decide, files, replacement, history, Placing, ProvenInv
<1>6. ASSUME NEW h \in Hashes, BeginCheck(h) PROVE ProvenInv'
  <2>1. plan'.local = plan.local /\ "local" \in DOMAIN plan'
    BY <1>6 DEF BeginCheck, ProvenInv
  <2> QED
    BY <1>6, <2>1, GoesOn DEF BeginCheck, files, replacement, history, Placing
<1>7. CASE ProbeAnswers
  <2>1. UNCHANGED <<profile, pool, shown, new, loaded>> /\ good \subseteq good'
    BY <1>7 DEF ProbeAnswers, Recorded, replacement
  <2>2. plan'.local = plan.local /\ "local" \in DOMAIN plan'
    BY <1>7 DEF ProbeAnswers, ProvenInv
  <2>3. \E to \in {"check", "use"} : Move(Connector, "probe", to)
    BY <1>7 DEF ProbeAnswers
  <2> QED
    BY <2>1, <2>2, <2>3, GoesOn DEF Placing
<1>8. CASE ProbeCanceled
  BY <1>8, GoesOn DEF ProbeCanceled, files, preflight, replacement, history, Placing, ProvenInv
<1>9. CASE CheckFails
  <2>1. \E from \in {"check", "probe"} : Move(Connector, from, "failed")
    BY <1>9 DEF CheckFails
  <2> QED
    BY <1>9, <2>1, GoesOn DEF CheckFails, files, preflight, replacement, history, Placing, ProvenInv
<1>10. CASE ChecksDone
  BY <1>10, GoesOn DEF ChecksDone, files, preflight, replacement, history, Placing, ProvenInv
<1>11. CASE Final
  <2>1. \E to \in {"failed", "use", "replace"} : Move(Connector, "final", to)
    BY <1>11 DEF Final
  <2> QED
    BY <1>11, <2>1, GoesOn DEF Final, files, replacement, history, Placing, ProvenInv
<1>12. ASSUME NEW h \in Hashes, AutoReplace(h) PROVE ProvenInv'
  <2>1. plan'.local = plan.local /\ "local" \in DOMAIN plan'
    BY <1>12 DEF AutoReplace, ProvenInv
  <2>2. \E to \in {"generate", "replaceFailed"} : Move(Connector, "replace", to)
    BY <1>12 DEF AutoReplace
  <2> QED
    BY <1>12, <2>1, <2>2, GoesOn DEF AutoReplace, files, history, Placing
<1>13. CASE NoMoreReplacements
  BY <1>13, GoesOn DEF NoMoreReplacements, files, preflight, replacement, history, Placing, ProvenInv
<1>14. CASE HandOver
  <2>1. \E to \in {"failed", "connected"} : Move(Connector, "use", to)
    BY <1>14 DEF HandOver
  <2> QED
    BY <1>14, <2>1, GoesOn DEF HandOver, files, preflight, replacement, history, Placing, ProvenInv
<1>15. CASE Returns
  <2>1. UNCHANGED <<profile, pool, shown, new, loaded, good>> /\ plan' = NoPlan
    BY <1>15 DEF Returns, files, replacement
  <2>2. plan'.local = {} /\ "local" \in DOMAIN plan'
    BY <2>1 DEF NoPlan
  <2>3. DOMAIN pc' = Threads /\ \A t \in Threads : pc'[t] \in Placing => pc[t] \in Placing
    BY <1>15 DEF Returns, ProvenInv, Placing
  <2> QED
    BY <2>1, <2>2, <2>3, PlacesNothing DEF ProvenInv
<1> QED
  BY <1>1, <1>2, <1>3, <1>4, <1>5, <1>6, <1>7, <1>8, <1>9, <1>10, <1>11, <1>12, <1>13, <1>14, <1>15 DEF Preparing

(* A created hash is placed by the thread whose probe found it valid. *)
LEMMA ReplacingKeepsProven == ASSUME ProvenInv, NEW t \in Threads, Replacing(t) PROVE ProvenInv'
<1>1. CASE Generate(t)
  <2>1. UNCHANGED <<profile, pool, shown, plan, loaded, good>>
    BY <1>1 DEF Generate, files, preflight
  <2>2. /\ DOMAIN pc' = Threads /\ DOMAIN new' = Threads
        /\ \A u \in Threads : pc'[u] \in Placing => pc[u] \in Placing /\ new'[u] = new[u]
    BY <1>1 DEF Generate, Move, ProvenInv, Placing
  <2> QED
    BY <2>1, <2>2, PlacesNothing DEF ProvenInv
<1>2. CASE GenerateFails(t)
  BY <1>2, GoesOn DEF GenerateFails, files, preflight, replacement, history, Placing, ProvenInv
<1>3. CASE Enter(t)
  <2>1. \E to \in {"verify", "replaceFailed"} : Move(t, "enter", to)
    BY <1>3 DEF Enter
  <2> QED
    BY <1>3, <2>1, GoesOn DEF Enter, preflight, replacement, history, Placing, ProvenInv
<1>4. CASE Verify(t)
  <2>1. UNCHANGED <<profile, pool, shown, plan, new, loaded>> /\ good \subseteq good'
    BY <1>4 DEF Verify, Recorded, preflight, replacement
  <2>2. CASE Move(t, "verify", "cleanUp")
    BY <2>1, <2>2, GoesOn DEF Placing, ProvenInv
  <2>3. CASE Move(t, "verify", "load") /\ Recorded(new[t], "valid")
    <3>1. Proven({new[t]})'
      BY <2>1, <2>3 DEF Recorded, Proven
    <3>2. /\ DOMAIN pc' = Threads
          /\ \A u \in Threads \ {t} : pc'[u] = pc[u]
      BY <2>3 DEF Move, ProvenInv
    <3> QED
      BY <2>1, <3>1, <3>2 DEF ProvenInv, Proven
  <2> QED
    BY <1>4, <2>2, <2>3 DEF Verify
<1>5. CASE VerifyFails(t)
  BY <1>5, GoesOn DEF VerifyFails, files, preflight, replacement, history, Placing, ProvenInv
<1>6. CASE CleanUp(t)
  BY <1>6, GoesOn DEF CleanUp, preflight, replacement, history, Placing, ProvenInv
<1>7. CASE Load(t)
  <2>1. UNCHANGED <<profile, pool, shown, plan, new, good>>
    BY <1>7 DEF Load, files, preflight, history
  <2>2. /\ DOMAIN pc' = Threads
        /\ \A u \in Threads : pc'[u] \in Placing => pc[u] \in Placing
    BY <1>7 DEF Load, Move, ProvenInv, Placing
  <2>3. /\ DOMAIN loaded' = Threads
        /\ \A u \in Threads : loaded'[u] = loaded[u] \/ loaded'[u] = profile
    BY <1>7 DEF Load, ProvenInv
  <2> QED
    BY <2>1, <2>2, <2>3 DEF ProvenInv, Proven
<1>8. CASE Save(t)
  <2>1. UNCHANGED <<pool, shown, plan, new, loaded, good>>
    BY <1>8 DEF Save, preflight
  <2>2. CASE Move(t, "save", "commit") /\ profile' = (loaded[t] \ {old[t]}) \cup {new[t]}
    <3>1. Proven(profile')
      BY <2>2 DEF Move, ProvenInv, Placing, Proven
    <3>2. /\ DOMAIN pc' = Threads
          /\ \A u \in Threads : pc'[u] \in Placing => pc[u] \in Placing
      BY <2>2 DEF Move, ProvenInv, Placing
    <3> QED
      BY <2>1, <3>1, <3>2 DEF ProvenInv, Proven
  <2>3. CASE Move(t, "save", "replaceFailed") /\ UNCHANGED profile
    BY <2>1, <2>3, GoesOn DEF Placing, ProvenInv
  <2> QED
    BY <1>8, <2>2, <2>3 DEF Save
<1>9. CASE Commit(t)
  <2>1. UNCHANGED <<profile, shown, plan, new, loaded, good>>
    BY <1>9 DEF Commit, preflight, replacement, history
  <2>2. pc[t] = "commit" /\ pool' \subseteq pool \cup {new[t]}
    BY <1>9 DEF Commit, Move
  <2>3. Proven(pool')
    BY <2>2 DEF ProvenInv, Placing, Proven
  <2>4. /\ DOMAIN pc' = Threads
        /\ \A u \in Threads : pc'[u] \in Placing => pc[u] \in Placing
    BY <1>9 DEF Commit, Move, ProvenInv, Placing
  <2> QED
    BY <2>1, <2>3, <2>4 DEF ProvenInv, Proven
<1>10. CASE CommitFails(t)
  BY <1>10, GoesOn DEF CommitFails, files, preflight, replacement, history, Placing, ProvenInv
<1>11. CASE Announce(t)
  <2>1. UNCHANGED <<profile, pool, plan, good>>
    BY <1>11 DEF Announce, files, history
  <2>2. pc[t] = "replaced" /\ shown' \subseteq shown \cup {new[t]}
    BY <1>11 DEF Announce, Move
  <2>3. Proven(shown')
    BY <2>2 DEF ProvenInv, Placing, Proven
  <2>4. /\ DOMAIN pc' = Threads /\ DOMAIN new' = Threads /\ DOMAIN loaded' = Threads
        /\ \A u \in Threads : pc'[u] \in Placing => pc[u] \in Placing /\ new'[u] = new[u]
        /\ \A u \in Threads : loaded'[u] \subseteq loaded[u]
    BY <1>11 DEF Announce, Move, ProvenInv, Placing
  <2> QED
    BY <2>1, <2>3, <2>4 DEF ProvenInv, Proven
<1>12. CASE GiveUp(t)
  <2>1. UNCHANGED <<profile, pool, shown, plan, good>>
    BY <1>12 DEF GiveUp, files, preflight, history
  <2>2. /\ DOMAIN pc' = Threads /\ DOMAIN new' = Threads /\ DOMAIN loaded' = Threads
        /\ \A u \in Threads : pc'[u] \in Placing => pc[u] \in Placing /\ new'[u] = new[u]
        /\ \A u \in Threads : loaded'[u] \subseteq loaded[u]
    BY <1>12 DEF GiveUp, Move, ProvenInv, Placing
  <2> QED
    BY <2>1, <2>2, PlacesNothing DEF ProvenInv
<1> QED
  BY <1>1, <1>2, <1>3, <1>4, <1>5, <1>6, <1>7, <1>8, <1>9, <1>10, <1>11, <1>12 DEF Replacing

(* The user enters hashes that are there already. *)
LEMMA UserKeepsProven == ASSUME ProvenInv, User PROVE ProvenInv'
<1>1. CASE EditServer
  <2>1. profile' \subseteq Old /\ shown' \subseteq Old /\ UNCHANGED <<pool, pc, plan, new, loaded, good>>
    BY <1>1 DEF EditServer, preflight, replacement
  <2> QED
    BY <2>1, PreflightAssumption DEF ProvenInv, Proven
<1>2. ASSUME NEW h \in Hashes, AddVKHash(h) PROVE ProvenInv'
  <2>1. h \in Old /\ pool' = pool \cup {h} /\ UNCHANGED <<profile, shown, pc, plan, new, loaded, good>>
    BY <1>2 DEF AddVKHash, preflight, replacement
  <2> QED
    BY <2>1, PreflightAssumption DEF ProvenInv, Proven
<1>3. ASSUME NEW h \in Hashes, DeleteVKHash(h) \/ OtherCheck(h) PROVE ProvenInv'
  <2>1. pool' \subseteq pool /\ good \subseteq good' /\ UNCHANGED <<profile, shown, pc, plan, new, loaded>>
    BY <1>3 DEF DeleteVKHash, OtherCheck, Recorded, preflight, replacement, history
  <2> QED
    BY <2>1, PlacesNothing DEF ProvenInv
<1>4. CASE Disconnect \/ CancelVKHashChecks
  <2>1. UNCHANGED <<profile, pool, shown, pc, plan, new, loaded, good>>
    BY <1>4 DEF Disconnect, CancelVKHashChecks, files, preflight, replacement, history
  <2> QED
    BY <2>1, PlacesNothing DEF ProvenInv
<1>5. ASSUME NEW h \in Hashes, ReplaceVKHash(h) PROVE ProvenInv'
  BY <1>5, GoesOn DEF ReplaceVKHash, files, preflight, history, Threads, Placing, ProvenInv
<1> QED
  BY <1>1, <1>2, <1>3, <1>4, <1>5 DEF User

(* ProvenInv is kept by every step. *)
LEMMA ProvenKept == ASSUME ProvenInv, [Next]_vars PROVE ProvenInv'
<1>1. CASE Connect
  <2>1. UNCHANGED <<profile, pool, shown, new, loaded, good>> /\ plan' = [NoPlan EXCEPT !.local = shown]
    BY <1>1 DEF Connect, files, replacement
  <2>2. plan'.local = shown /\ "local" \in DOMAIN plan'
    BY <2>1 DEF NoPlan
  <2>3. DOMAIN pc' = Threads /\ \A t \in Threads : pc'[t] \in Placing => pc[t] \in Placing
    BY <1>1 DEF Connect, Move, ProvenInv, Placing
  <2> QED
    BY <2>1, <2>2, <2>3 DEF ProvenInv, Proven
<1>2. CASE Preparing
  BY <1>2, PreparingKeepsProven
<1>3. CASE User
  BY <1>3, UserKeepsProven
<1>4. ASSUME NEW t \in Threads, Replacing(t) PROVE ProvenInv'
  BY <1>4, ReplacingKeepsProven
<1>5. CASE DeadlinePasses \/ ProfilesUnreadable \/ UNCHANGED vars
  <2>1. UNCHANGED <<profile, pool, shown, pc, plan, new, loaded, good>>
    BY <1>5 DEF DeadlinePasses, ProfilesUnreadable, vars, files, preflight, replacement, history
  <2> QED
    BY <2>1, PlacesNothing DEF ProvenInv
<1>6. CASE Crash
  <2>1. UNCHANGED <<profile, pool, shown, good>> /\ plan' = NoPlan
    BY <1>6 DEF Crash, files
  <2>2. plan'.local = {} /\ "local" \in DOMAIN plan'
    BY <2>1 DEF NoPlan
  <2>3. /\ DOMAIN pc' = Threads /\ DOMAIN new' = Threads /\ DOMAIN loaded' = Threads
        /\ \A t \in Threads : pc'[t] = "idle" /\ loaded'[t] = {}
    BY <1>6 DEF Crash
  <2> QED
    BY <2>1, <2>2, <2>3, PlacesNothing DEF Placing
<1> QED
  BY <1>1, <1>2, <1>3, <1>4, <1>5, <1>6 DEF Next

(* A created hash comes into the profile, the pool or the window only after a probe found it     *)
(* valid, for any hashes, edits, cancellations, faults and crashes (replaceVKHashWithContext: the  *)
(* check before the profile and the pool are changed).                                               *)
THEOREM OnlyProvenHashesAreUsed == Spec => []ReplacementIsValid
<1>1. Init => ProvenInv
  <2>1. NoPlan.local = {} /\ "local" \in DOMAIN NoPlan
    BY DEF NoPlan
  <2> QED
    BY <2>1, PreflightAssumption DEF Init, ProvenInv, Proven, Placing
<1>2. ProvenInv /\ [Next]_vars => ProvenInv'
  BY ProvenKept
<1>3. ProvenInv => ReplacementIsValid
  BY DEF ProvenInv, Proven, ReplacementIsValid
<1> QED
  BY <1>1, <1>2, <1>3, PTL DEF Spec
-----------------------------------------------------------------------------
(***************************************************************************)
(* The values have the shape the actions expect.                              *)
(***************************************************************************)
Fields == {"local", "unread", "valid", "fallback", "stale", "invalid", "probed", "untried", "tries"}

ShapeInv ==
    /\ DOMAIN pc = Threads /\ DOMAIN old = Threads /\ DOMAIN new = Threads /\ DOMAIN loaded = Threads
    /\ DOMAIN plan = Fields /\ plan.tries \in Nat /\ created \in Nat

(* Fields and counters that an action sets keep their shape. *)
LEMMA ShapeKept == ASSUME ShapeInv, [Next]_vars PROVE ShapeInv'
<1> USE DEF ShapeInv, Fields
<1>1. CASE Connect
  BY <1>1 DEF Connect, Move, NoPlan, replacement
<1>2. CASE Preparing
  <2>1. CASE Sync \/ Register \/ Decide \/ ProbeCanceled \/ CheckFails \/ ChecksDone \/ Final \/ NoMoreReplacements \/ HandOver
    <3>1. UNCHANGED <<plan, created, old, new, loaded>>
      BY <2>1
         DEF Sync, Register, Decide, ProbeCanceled, CheckFails, ChecksDone, Final, NoMoreReplacements, HandOver,
            preflight, replacement, history
    <3>2. DOMAIN pc' = Threads
      BY <2>1 DEF Sync, Register, Decide, ProbeCanceled, CheckFails, ChecksDone, Final, NoMoreReplacements, HandOver, Move
    <3> QED
      BY <3>1, <3>2
  <2>2. CASE Candidates
    BY <2>2 DEF Candidates, Move, replacement
  <2>3. ASSUME NEW h \in Hashes, ReadCheck(h) PROVE ShapeInv'
    BY <2>3 DEF ReadCheck, replacement, history
  <2>4. ASSUME NEW h \in Hashes, BeginCheck(h) PROVE ShapeInv'
    BY <2>4 DEF BeginCheck, Move, replacement, history
  <2>5. CASE ProbeAnswers
    BY <2>5 DEF ProbeAnswers, Move, replacement
  <2>6. ASSUME NEW h \in Hashes, AutoReplace(h) PROVE ShapeInv'
    BY <2>6 DEF AutoReplace, Move, history
  <2>7. CASE Returns
    BY <2>7 DEF Returns, NoPlan, replacement
  <2> QED
    BY <1>2, <2>1, <2>2, <2>3, <2>4, <2>5, <2>6, <2>7 DEF Preparing
<1>3. CASE User
  <2>1. UNCHANGED <<plan, created, new, loaded>>
    BY <1>3
       DEF User, EditServer, Disconnect, CancelVKHashChecks, AddVKHash, DeleteVKHash, OtherCheck, ReplaceVKHash,
          preflight, replacement, history
  <2>2. DOMAIN pc' = Threads /\ DOMAIN old' = Threads
    BY <1>3
       DEF User, EditServer, Disconnect, CancelVKHashChecks, AddVKHash, DeleteVKHash, OtherCheck, ReplaceVKHash, Move,
          replacement
  <2> QED
    BY <2>1, <2>2
<1>4. ASSUME NEW t \in Threads, Replacing(t) PROVE ShapeInv'
  <2>1. UNCHANGED plan
    BY <1>4
       DEF Replacing, Generate, GenerateFails, Enter, Verify, VerifyFails, CleanUp, Load, Save, Commit, CommitFails,
          Announce, GiveUp, preflight
  <2>2. DOMAIN pc' = Threads
    BY <1>4
       DEF Replacing, Generate, GenerateFails, Enter, Verify, VerifyFails, CleanUp, Load, Save, Commit, CommitFails,
          Announce, GiveUp, Move
  <2>3. DOMAIN old' = Threads /\ DOMAIN new' = Threads /\ DOMAIN loaded' = Threads
    BY <1>4
       DEF Replacing, Generate, GenerateFails, Enter, Verify, VerifyFails, CleanUp, Load, Save, Commit, CommitFails,
          Announce, GiveUp, replacement
  <2>4. created' \in Nat
    BY <1>4
       DEF Replacing, Generate, GenerateFails, Enter, Verify, VerifyFails, CleanUp, Load, Save, Commit, CommitFails,
          Announce, GiveUp, history
  <2> QED
    BY <2>1, <2>2, <2>3, <2>4
<1>5. CASE DeadlinePasses \/ ProfilesUnreadable \/ UNCHANGED vars
  BY <1>5 DEF DeadlinePasses, ProfilesUnreadable, vars, preflight, replacement, history
<1>6. CASE Crash
  BY <1>6 DEF Crash, NoPlan
<1> QED
  BY <1>1, <1>2, <1>3, <1>4, <1>5, <1>6 DEF Next
-----------------------------------------------------------------------------
(***************************************************************************)
(* A hash that VK created for a thread is known nowhere else until that thread *)
(* puts it into the profile or the pool.                                        *)
(***************************************************************************)
(* Where a thread has the hash it replaces, and the one VK created. *)
HasNew == {"enter", "verify", "cleanUp", "load", "save", "commit", "replaced"}
HasOld == HasNew \cup {"generate"}

(* Where nobody but the thread has seen its new hash. *)
Private == {"enter", "verify", "load", "save"}

Candidate == plan.local \cup plan.unread \cup plan.stale \cup plan.invalid \cup {h \in {plan.probed} : pc[Connector] = "probe"}
Seen ==
    profile \cup pool \cup shown \cup Candidate \cup loaded[Connector] \cup loaded[Editor]
    \cup {old[t] : t \in {u \in Threads : pc[u] \in HasOld}}

IssuedInv ==
    /\ Seen \cap New \subseteq issued
    /\ \A t \in Threads : pc[t] \in HasNew => new[t] \in New \cap issued

PrivateInv ==
    /\ \A t \in Threads : pc[t] \in Private => new[t] \notin Seen
    /\ \A t \in Threads : pc[t] \in Private \ {"enter"} => new[t] \in entries
    /\ \A t, u \in Threads : t # u /\ pc[t] \in HasNew /\ pc[u] \in HasNew => new[t] # new[u]

(* A thread that goes from one label to another; the other one stays where it is. *)
LEMMA Moves ==
    ASSUME ShapeInv, NEW t \in Threads, NEW from, NEW to, Move(t, from, to)
    PROVE  pc[t] = from /\ pc'[t] = to /\ \A u \in Threads \ {t} : pc'[u] = pc[u]
  BY DEF Move, ShapeInv

(* The thread's new hash, at the three places where it is published. *)
Published(h) == \E t \in Threads : pc[t] \in {"save", "commit", "replaced"} /\ pc'[t] \notin Private /\ h = new[t]

(* What is seen after a step of the preflight was seen before it. *)
LEMMA PreparingShowsNothing == ASSUME ShapeInv, Preparing PROVE Seen' \subseteq Seen \cup Old
<1>0. Connector \in Threads /\ Editor \in Threads
  BY DEF Threads
<1> USE DEF Fields
<1>1. CASE Sync \/ Register \/ Decide \/ CheckFails \/ ChecksDone \/ Final \/ NoMoreReplacements \/ HandOver \/ ProbeCanceled
  <2>1. profile' \subseteq profile \cup plan.local /\ UNCHANGED <<pool, shown, plan, loaded, old>>
    BY <1>1
       DEF Sync, Register, Decide, CheckFails, ChecksDone, Final, NoMoreReplacements, HandOver, ProbeCanceled, files,
          preflight, replacement
  <2>2. \E from, to : Move(Connector, from, to) /\ to \notin HasOld \cup {"probe"}
    <3>1. CASE HandOver
      BY <3>1 DEF HandOver, HasOld, HasNew
    <3>2. CASE Sync \/ Register
      BY <3>2 DEF Sync, Register, HasOld, HasNew
    <3>3. CASE Decide \/ CheckFails \/ ChecksDone \/ NoMoreReplacements \/ ProbeCanceled
      BY <3>3 DEF Decide, CheckFails, ChecksDone, NoMoreReplacements, ProbeCanceled, HasOld, HasNew
    <3>4. CASE Final
      BY <3>4 DEF Final, HasOld, HasNew
    <3> QED
      BY <1>1, <3>1, <3>2, <3>3, <3>4
  <2>3. \A t \in Threads : pc'[t] \in HasOld => pc[t] \in HasOld
    BY <1>0, <2>2, Moves
  <2>4. pc'[Connector] # "probe"
    BY <1>0, <2>2, Moves
  <2> QED
    BY <2>1, <2>3, <2>4 DEF Seen, Candidate
<1>2. CASE Candidates
  <2>1. UNCHANGED <<profile, pool, shown, loaded, old>>
    BY <1>2 DEF Candidates, replacement
  <2>2. \E to \in {"failed", "use", "read"} : Move(Connector, "candidates", to)
    BY <1>2 DEF Candidates
  <2>3. pc'[Connector] # "probe" /\ \A t \in Threads : pc'[t] \in HasOld => pc[t] \in HasOld
    BY <1>0, <2>2, Moves DEF HasOld, HasNew
  <2>4. plan'.local = plan.local /\ plan'.stale = plan.stale /\ plan'.invalid = plan.invalid
    BY <1>2 DEF Candidates, ShapeInv
  <2>5. plan'.unread \subseteq plan.unread \cup plan.local \cup pool
    <3> DEFINE found == (IF policy.mode = "pool" THEN {} ELSE plan.local) \cup (IF policy.mode = "local" THEN {} ELSE pool)
    <3>1. plan' = plan \/ plan' = [plan EXCEPT !.unread = found, !.untried = found]
      BY <1>2 DEF Candidates
    <3>2. found \subseteq plan.local \cup pool
      OBVIOUS
    <3> HIDE DEF found
    <3>3. plan'.unread = plan.unread \/ plan'.unread = found
      BY <3>1 DEF ShapeInv
    <3> QED
      BY <3>2, <3>3
  <2> QED
    BY <2>1, <2>3, <2>4, <2>5 DEF Seen, Candidate
<1>3. ASSUME NEW h \in Hashes, ReadCheck(h) PROVE Seen' \subseteq Seen \cup Old
  <2>1. UNCHANGED <<profile, pool, shown, loaded, old, pc>>
    BY <1>3 DEF ReadCheck, files, replacement
  <2>2. h \in plan.unread /\ pc[Connector] = "read"
    BY <1>3 DEF ReadCheck
  <2>3. plan'.local = plan.local /\ plan'.unread \subseteq plan.unread
    BY <1>3 DEF ReadCheck, ShapeInv
  <2>4. plan'.stale \subseteq plan.stale \cup {h} /\ plan'.invalid \subseteq plan.invalid \cup {h}
    BY <1>3 DEF ReadCheck, ShapeInv
  <2> QED
    BY <2>1, <2>2, <2>3, <2>4 DEF Seen, Candidate
<1>4. ASSUME NEW h \in Hashes, BeginCheck(h) PROVE Seen' \subseteq Seen \cup Old
  <2>1. UNCHANGED <<profile, pool, shown, loaded, old>>
    BY <1>4 DEF BeginCheck, files, replacement
  <2>2. h \in plan.stale /\ \A t \in Threads : pc'[t] \in HasOld => pc[t] \in HasOld
    BY <1>0, <1>4, Moves DEF BeginCheck, HasOld, HasNew
  <2>3. plan'.local = plan.local /\ plan'.unread = plan.unread /\ plan'.stale \subseteq plan.stale /\ plan'.invalid = plan.invalid /\ plan'.probed = h
    BY <1>4 DEF BeginCheck, ShapeInv
  <2> QED
    BY <2>1, <2>2, <2>3 DEF Seen, Candidate
<1>5. CASE ProbeAnswers
  <2>1. UNCHANGED <<profile, pool, shown, loaded, old>>
    BY <1>5 DEF ProbeAnswers, replacement
  <2>2. \E to \in {"use", "check"} : Move(Connector, "probe", to)
    BY <1>5 DEF ProbeAnswers
  <2>3. pc[Connector] = "probe" /\ pc'[Connector] # "probe" /\ \A t \in Threads : pc'[t] \in HasOld => pc[t] \in HasOld
    BY <1>0, <2>2, Moves DEF HasOld, HasNew
  <2>4. plan'.local = plan.local /\ plan'.unread = plan.unread /\ plan'.stale = plan.stale
    BY <1>5 DEF ProbeAnswers, ShapeInv
  <2>5. plan'.invalid \subseteq plan.invalid \cup {plan.probed}
    BY <1>5 DEF ProbeAnswers, ShapeInv
  <2> QED
    BY <2>1, <2>3, <2>4, <2>5 DEF Seen, Candidate
<1>6. ASSUME NEW h \in Hashes, AutoReplace(h) PROVE Seen' \subseteq Seen \cup Old
  <2>1. UNCHANGED <<profile, pool, shown, loaded>>
    BY <1>6 DEF AutoReplace, files
  <2>2. Move(Connector, "replace", IF h \in Listed THEN "generate" ELSE "replaceFailed") /\ old' = [old EXCEPT ![Connector] = h] /\ h \in plan.invalid
    BY <1>6 DEF AutoReplace
  <2>3. /\ pc'[Connector] # "probe" /\ \A t \in Threads : pc'[t] \in HasOld => pc[t] \in HasOld \/ t = Connector
        /\ \A t \in Threads \ {Connector} : pc'[t] = pc[t]
    BY <1>0, <2>2, Moves DEF HasOld, HasNew
  <2>4. \A t \in Threads : old'[t] = IF t = Connector THEN h ELSE old[t]
    BY <2>2 DEF ShapeInv
  <2>5. plan'.local = plan.local /\ plan'.unread = plan.unread /\ plan'.stale = plan.stale /\ plan'.invalid = plan.invalid
    BY <1>6 DEF AutoReplace, ShapeInv
  <2> QED
    BY <2>1, <2>2, <2>3, <2>4, <2>5 DEF Seen, Candidate
<1>7. CASE Returns
  <2>1. UNCHANGED <<profile, pool, shown, loaded, old>> /\ plan' = NoPlan
    BY <1>7 DEF Returns, files, replacement
  <2>2. pc'[Connector] # "probe" /\ \A t \in Threads : pc'[t] \in HasOld => pc[t] \in HasOld
    BY <1>7 DEF Returns, ShapeInv, HasOld, HasNew
  <2>3. plan'.local = {} /\ plan'.unread = {} /\ plan'.stale = {} /\ plan'.invalid = {}
    BY <2>1 DEF NoPlan
  <2> QED
    BY <2>1, <2>2, <2>3 DEF Seen, Candidate
<1> QED
  BY <1>1, <1>2, <1>3, <1>4, <1>5, <1>6, <1>7 DEF Preparing

(* A replacement publishes its new hash when it saves the profile, changes the pool or tells the window. *)
LEMMA ReplacingPublishes ==
    ASSUME ShapeInv, NEW t \in Threads, Replacing(t)
    PROVE  \A h \in Seen' : h \in Seen \/ Published(h)
<1>0. Connector \in Threads /\ Editor \in Threads
  BY DEF Threads
<1>1. UNCHANGED plan
  BY DEF Replacing, Generate, GenerateFails, Enter, Verify, VerifyFails, CleanUp, Load, Save, Commit, CommitFails,
        Announce, GiveUp, preflight
<1>2. CASE Generate(t) \/ GenerateFails(t) \/ Enter(t) \/ Verify(t) \/ VerifyFails(t) \/ CleanUp(t) \/ CommitFails(t)
  <2>1. UNCHANGED <<profile, pool, shown, loaded, old>>
    BY <1>2 DEF Generate, GenerateFails, Enter, Verify, VerifyFails, CleanUp, CommitFails, files, replacement
  <2>2. \E from \in HasOld : \E to : to # "probe" /\ Move(t, from, to)
    <3>1. CASE Generate(t)
      BY <3>1 DEF Generate, HasOld, HasNew
    <3>2. CASE Verify(t)
      BY <3>2 DEF Verify, HasOld, HasNew
    <3>3. CASE GenerateFails(t) \/ Enter(t) \/ VerifyFails(t) \/ CleanUp(t) \/ CommitFails(t)
      BY <3>3 DEF GenerateFails, Enter, VerifyFails, CleanUp, CommitFails, HasOld, HasNew
    <3> QED
      BY <1>2, <3>1, <3>2, <3>3
  <2>3. (pc'[Connector] = "probe" => pc[Connector] = "probe") /\ \A u \in Threads : pc'[u] \in HasOld => pc[u] \in HasOld
    BY <1>0, <2>2, Moves
  <2> QED
    BY <1>1, <2>1, <2>3 DEF Seen, Candidate
<1>3. CASE Load(t)
  <2>1. UNCHANGED <<profile, pool, shown, old>>
    BY <1>3 DEF Load, files
  <2>2. \E to \in {"save", "commit"} : Move(t, "load", to)
    BY <1>3 DEF Load
  <2>3. (pc'[Connector] = "probe" => pc[Connector] = "probe") /\ \A u \in Threads : pc'[u] \in HasOld => pc[u] \in HasOld
    BY <1>0, <2>2, Moves DEF HasOld, HasNew
  <2>4. \A u \in Threads : loaded'[u] \subseteq loaded[u] \cup profile
    BY <1>3 DEF Load, ShapeInv
  <2> QED
    BY <1>0, <1>1, <2>1, <2>3, <2>4 DEF Seen, Candidate
<1>4. CASE Save(t)
  <2>1. UNCHANGED <<pool, shown, loaded, old>>
    BY <1>4 DEF Save
  <2>2. \E to \in {"commit", "replaceFailed"} : Move(t, "save", to)
    BY <1>4 DEF Save
  <2>3. /\ pc'[Connector] = "probe" => pc[Connector] = "probe"
        /\ \A u \in Threads : pc'[u] \in HasOld => pc[u] \in HasOld
        /\ pc[t] = "save" /\ pc'[t] \notin Private
    BY <1>0, <2>2, Moves DEF HasOld, HasNew, Private
  <2>4. profile' \subseteq profile \cup loaded[t] \cup {new[t]}
    BY <1>4 DEF Save
  <2>5. Published(new[t])
    BY <2>3 DEF Published
  <2> QED
    BY <1>1, <2>1, <2>3, <2>4, <2>5 DEF Seen, Candidate, Threads
<1>5. CASE Commit(t)
  <2>1. UNCHANGED <<profile, shown, loaded, old>>
    BY <1>5 DEF Commit, replacement
  <2>2. \E to \in {"replaced", "replaceFailed"} : Move(t, "commit", to)
    BY <1>5 DEF Commit
  <2>3. /\ pc'[Connector] = "probe" => pc[Connector] = "probe"
        /\ \A u \in Threads : pc'[u] \in HasOld => pc[u] \in HasOld
        /\ pc[t] = "commit" /\ pc'[t] \notin Private
    BY <1>0, <2>2, Moves DEF HasOld, HasNew, Private
  <2>4. pool' \subseteq pool \cup {new[t]}
    BY <1>5 DEF Commit
  <2>5. Published(new[t])
    BY <2>3 DEF Published
  <2> QED
    BY <1>1, <2>1, <2>3, <2>4, <2>5 DEF Seen, Candidate
<1>6. CASE Announce(t) \/ GiveUp(t)
  <2>1. UNCHANGED <<profile, pool>>
    BY <1>6 DEF Announce, GiveUp, files
  <2>2. \E from \in {"replaced", "replaceFailed"}, to \in {"use", "replace", "idle"} : Move(t, from, to) /\ (from # "replaced" => UNCHANGED shown)
    BY <1>6 DEF Announce, GiveUp
  <2>3. /\ pc'[Connector] = "probe" => pc[Connector] = "probe"
        /\ \A u \in Threads : pc'[u] \in HasOld => pc[u] \in HasOld /\ u # t
        /\ pc[t] # "replaced" => UNCHANGED shown
        /\ pc'[t] \notin Private
    BY <1>0, <2>2, Moves DEF HasOld, HasNew, Private
  <2>4. shown' \subseteq shown \cup {new[t]}
    BY <1>6 DEF Announce, GiveUp
  <2>5. \A u \in Threads : loaded'[u] \subseteq loaded[u] /\ (u # t => old'[u] = old[u])
    BY <1>6 DEF Announce, GiveUp, ShapeInv
  <2>6. pc[t] = "replaced" => Published(new[t])
    BY <2>3 DEF Published
  <2> QED
    BY <1>0, <1>1, <2>1, <2>3, <2>4, <2>5, <2>6 DEF Seen, Candidate
<1> QED
  BY <1>2, <1>3, <1>4, <1>5, <1>6 DEF Replacing

(* Only a publishing thread shows a created hash that was not seen before. *)
LEMMA SeenAfter == ASSUME ShapeInv, [Next]_vars PROVE \A h \in Seen' : h \in Seen \cup Old \/ Published(h)
<1>0. Connector \in Threads /\ Editor \in Threads /\ Connector # Editor
  BY DEF Threads, Connector, Editor
<1>1. CASE Connect
  <2>1. UNCHANGED <<profile, pool, shown, loaded, old>> /\ plan' = [NoPlan EXCEPT !.local = shown]
    BY <1>1 DEF Connect, files, replacement
  <2>2. pc'[Connector] # "probe" /\ \A t \in Threads : pc'[t] \in HasOld => pc[t] \in HasOld
    BY <1>0, <1>1, Moves DEF Connect, HasOld, HasNew
  <2>3. plan'.local = shown /\ plan'.unread = {} /\ plan'.stale = {} /\ plan'.invalid = {}
    BY <2>1 DEF NoPlan
  <2> QED
    BY <2>1, <2>2, <2>3 DEF Seen, Candidate
<1>2. CASE Preparing
  BY <1>2, PreparingShowsNothing
<1>3. CASE User
  <2>1. UNCHANGED <<plan, loaded>>
    BY <1>3
       DEF User, EditServer, Disconnect, CancelVKHashChecks, AddVKHash, DeleteVKHash, OtherCheck, ReplaceVKHash,
          preflight, replacement
  <2>2. CASE \E h \in Hashes : ReplaceVKHash(h)
    <3>1. PICK h \in Hashes : ReplaceVKHash(h)
      BY <2>2
    <3>2. UNCHANGED <<profile, pool, shown>> /\ h \in pool \cup profile \cup Elsewhere
      BY <3>1 DEF ReplaceVKHash, files, Listed, InUse
    <3>3. \A t \in Threads : (t # Editor => pc'[t] = pc[t]) /\ old'[t] = IF t = Editor THEN h ELSE old[t]
      BY <1>0, <3>1, Moves DEF ReplaceVKHash, ShapeInv
    <3> QED
      BY <1>0, <2>1, <3>2, <3>3, PreflightAssumption DEF Seen, Candidate
  <2>3. CASE EditServer \/ Disconnect \/ CancelVKHashChecks \/ \E h \in Hashes : AddVKHash(h) \/ DeleteVKHash(h) \/ OtherCheck(h)
    <3>1. UNCHANGED <<pc, old>>
      BY <2>3 DEF EditServer, Disconnect, CancelVKHashChecks, AddVKHash, DeleteVKHash, OtherCheck, replacement
    <3>2. profile' \subseteq profile \cup Old /\ pool' \subseteq pool \cup Old /\ shown' \subseteq shown \cup Old
      BY <2>3 DEF EditServer, Disconnect, CancelVKHashChecks, AddVKHash, DeleteVKHash, OtherCheck, files
    <3> QED
      BY <2>1, <3>1, <3>2 DEF Seen, Candidate
  <2> QED
    BY <1>3, <2>2, <2>3 DEF User
<1>4. ASSUME NEW t \in Threads, Replacing(t) PROVE \A h \in Seen' : h \in Seen \cup Old \/ Published(h)
  BY <1>4, ReplacingPublishes
<1>5. CASE DeadlinePasses \/ ProfilesUnreadable \/ UNCHANGED vars
  <2>1. UNCHANGED <<profile, pool, shown, pc, plan, loaded, old>>
    BY <1>5 DEF DeadlinePasses, ProfilesUnreadable, vars, files, preflight, replacement
  <2> QED
    BY <2>1 DEF Seen, Candidate
<1>6. CASE Crash
  <2>1. UNCHANGED <<profile, pool, shown>> /\ plan' = NoPlan
    BY <1>6 DEF Crash, files
  <2>2. plan'.local = {} /\ plan'.unread = {} /\ plan'.stale = {} /\ plan'.invalid = {}
    BY <2>1 DEF NoPlan
  <2>3. \A t \in Threads : pc'[t] \notin HasOld \cup {"probe"} /\ loaded'[t] = {}
    BY <1>6 DEF Crash, HasOld, HasNew
  <2> QED
    BY <1>0, <2>1, <2>2, <2>3 DEF Seen, Candidate
<1> QED
  BY <1>1, <1>2, <1>3, <1>4, <1>5, <1>6 DEF Next

(* What a step does with the new hash of a thread: nothing, or VK has just created it. *)
NewStays(t) ==
    /\ pc'[t] \in HasNew => pc[t] \in HasNew /\ new'[t] = new[t]
    /\ pc'[t] \in Private => pc[t] \in Private
    /\ pc'[t] \in Private \ {"enter"} => pc[t] \in Private \ {"enter"} \/ new[t] \in entries'

NewComes(t) ==
    /\ pc'[t] = "enter" /\ new'[t] \in New \ issued /\ new'[t] \in issued'
    /\ \A u \in Threads \ {t} : NewStays(u)

LEMMA GoesOnWithNew ==
    ASSUME ShapeInv, NEW t \in Threads, NEW from, NEW to, Move(t, from, to),
           \A u \in Threads : u = t \/ new'[u] = new[u],
           to \in HasNew => from \in HasNew /\ new'[t] = new[t],
           to \in Private => from \in Private \ {"enter"}
    PROVE  \A u \in Threads : NewStays(u)
  BY Moves DEF NewStays

LEMMA NewAfter ==
    ASSUME ShapeInv, [Next]_vars
    PROVE  issued \subseteq issued' /\ ((\A t \in Threads : NewStays(t)) \/ \E t \in Threads : NewComes(t))
<1>0. Connector \in Threads /\ Editor \in Threads /\ Connector # Editor
  BY DEF Threads, Connector, Editor
<1> DEFINE Stays == \A t \in Threads : NewStays(t)
<1>1. CASE Connect \/ Preparing
  <2>1. UNCHANGED <<new, issued>>
    BY <1>1
       DEF Connect, Preparing, Sync, Register, Candidates, ReadCheck, Decide, BeginCheck, ProbeAnswers, ProbeCanceled,
          CheckFails, ChecksDone, Final, AutoReplace, NoMoreReplacements, HandOver, Returns, replacement, history
  <2>2. /\ pc'[Connector] \in HasNew => pc'[Connector] = pc[Connector]
        /\ \A t \in Threads \ {Connector} : pc'[t] = pc[t]
    <3>1. CASE UNCHANGED pc
      BY <3>1
    <3>2. CASE \E from, to : Move(Connector, from, to) /\ to \notin HasNew
      BY <1>0, <3>2, Moves
    <3>3. CASE Connect
      BY <3>2, <3>3 DEF Connect, HasNew
    <3>4. CASE Sync \/ Register
      BY <3>2, <3>4 DEF Sync, Register, HasNew
    <3>5. CASE Candidates
      BY <3>2, <3>5 DEF Candidates, HasNew
    <3>6. CASE \E h \in Hashes : ReadCheck(h) \/ BeginCheck(h)
      BY <3>1, <3>2, <3>6 DEF ReadCheck, BeginCheck, HasNew
    <3>7. CASE Decide \/ ProbeAnswers
      BY <3>2, <3>7 DEF Decide, ProbeAnswers, HasNew
    <3>8. CASE ProbeCanceled \/ CheckFails \/ ChecksDone \/ NoMoreReplacements
      BY <3>2, <3>8 DEF ProbeCanceled, CheckFails, ChecksDone, NoMoreReplacements, HasNew
    <3>9. CASE Final
      BY <3>2, <3>9 DEF Final, HasNew
    <3>10. CASE HandOver
      BY <3>2, <3>10 DEF HandOver, HasNew
    <3>11. CASE \E h \in Hashes : AutoReplace(h)
      BY <3>2, <3>11 DEF AutoReplace, HasNew
    <3>12. CASE Returns
      BY <1>0, <3>12 DEF Returns, HasNew, ShapeInv
    <3> QED
      BY <1>1, <3>3, <3>4, <3>5, <3>6, <3>7, <3>8, <3>9, <3>10, <3>11, <3>12 DEF Preparing
  <2> QED
    BY <1>0, <2>1, <2>2 DEF NewStays, HasNew, Private
<1>2. CASE User
  <2>1. UNCHANGED <<new, issued>>
    BY <1>2
       DEF User, EditServer, Disconnect, CancelVKHashChecks, AddVKHash, DeleteVKHash, OtherCheck, ReplaceVKHash,
          replacement, history
  <2>2. UNCHANGED pc \/ Move(Editor, "idle", "generate")
    BY <1>2 DEF User, EditServer, Disconnect, CancelVKHashChecks, AddVKHash, DeleteVKHash, OtherCheck, ReplaceVKHash
  <2>3. CASE UNCHANGED pc
    BY <2>1, <2>3 DEF NewStays
  <2>4. CASE Move(Editor, "idle", "generate")
    BY <1>0, <2>1, <2>4, GoesOnWithNew DEF HasNew, Private
  <2> QED
    BY <2>2, <2>3, <2>4
<1>3. ASSUME NEW t \in Threads, Replacing(t)
      PROVE  issued \subseteq issued' /\ (Stays \/ \E u \in Threads : NewComes(u))
  <2>1. CASE Generate(t)
    <3>1. PICK h \in New \ issued : new' = [new EXCEPT ![t] = h] /\ issued' = issued \cup {h}
      BY <2>1 DEF Generate
    <3>2. /\ pc'[t] \in {"enter", "replaceFailed"} /\ \A u \in Threads \ {t} : pc'[u] = pc[u]
      BY <2>1, Moves DEF Generate
    <3>3. \A u \in Threads : new'[u] = IF u = t THEN h ELSE new[u]
      BY <3>1 DEF ShapeInv
    <3>4. \A u \in Threads \ {t} : NewStays(u)
      BY <3>2, <3>3 DEF NewStays
    <3>5. CASE pc'[t] = "enter"
      BY <3>1, <3>3, <3>4, <3>5 DEF NewComes
    <3>6. CASE pc'[t] = "replaceFailed"
      BY <3>1, <3>4, <3>6 DEF NewStays, HasNew, Private
    <3> QED
      BY <3>2, <3>5, <3>6
  <2>2. ~Generate(t) => UNCHANGED issued
    BY <1>3
       DEF Replacing, GenerateFails, Enter, Verify, VerifyFails, CleanUp, Load, Save, Commit, CommitFails, Announce,
          GiveUp, history
  <2>3. ASSUME GenerateFails(t) \/ VerifyFails(t) \/ CleanUp(t) \/ CommitFails(t) PROVE Stays
    <3>1. UNCHANGED new
      BY <2>3 DEF GenerateFails, VerifyFails, CleanUp, CommitFails, replacement
    <3>2. \E from, to : Move(t, from, to) /\ (to \in HasNew => from \in HasNew) /\ to \notin Private
      BY <2>3 DEF GenerateFails, VerifyFails, CleanUp, CommitFails, HasNew, Private
    <3> QED
      BY <3>1, <3>2, GoesOnWithNew
  <2>4. ASSUME Enter(t) PROVE Stays
    <3>1. UNCHANGED new
      BY <2>4 DEF Enter, replacement
    <3>2. CASE Move(t, "enter", "verify") /\ entries' = entries \cup {new[t]}
      BY <3>1, <3>2, Moves DEF NewStays, HasNew, Private
    <3>3. CASE Move(t, "enter", "replaceFailed")
      BY <3>1, <3>3, GoesOnWithNew DEF HasNew, Private
    <3> QED
      BY <2>4, <3>2, <3>3 DEF Enter
  <2>5. ASSUME Verify(t) PROVE Stays
    <3>1. UNCHANGED new /\ \E to \in {"load", "cleanUp"} : Move(t, "verify", to)
      BY <2>5 DEF Verify, replacement
    <3> QED
      BY <3>1, GoesOnWithNew DEF HasNew, Private
  <2>6. ASSUME Load(t) PROVE Stays
    <3>1. UNCHANGED new /\ \E to \in {"save", "commit"} : Move(t, "load", to)
      BY <2>6 DEF Load
    <3> QED
      BY <3>1, GoesOnWithNew DEF HasNew, Private
  <2>7. ASSUME Save(t) \/ Commit(t) PROVE Stays
    <3>1. UNCHANGED new /\ \E from \in {"save", "commit"}, to \in {"commit", "replaced", "replaceFailed"} : Move(t, from, to)
      BY <2>7 DEF Save, Commit, replacement
    <3> QED
      BY <3>1, GoesOnWithNew DEF HasNew, Private
  <2>8. ASSUME Announce(t) \/ GiveUp(t) PROVE Stays
    <3>1. \A u \in Threads : u = t \/ new'[u] = new[u]
      BY <2>8 DEF Announce, GiveUp, ShapeInv
    <3>2. \E from, to : Move(t, from, to) /\ to \notin HasNew \cup Private
      BY <2>8 DEF Announce, GiveUp, HasNew, Private
    <3> QED
      BY <3>1, <3>2, GoesOnWithNew
  <2> QED
    BY <1>3, <2>1, <2>2, <2>3, <2>4, <2>5, <2>6, <2>7, <2>8 DEF Replacing
<1>4. CASE DeadlinePasses \/ ProfilesUnreadable \/ UNCHANGED vars
  <2>1. UNCHANGED <<pc, new, issued>>
    BY <1>4 DEF DeadlinePasses, ProfilesUnreadable, vars, replacement, history
  <2> QED
    BY <2>1 DEF NewStays
<1>5. CASE Crash
  BY <1>5 DEF Crash, NewStays, HasNew, Private
<1> QED
  BY <1>1, <1>2, <1>3, <1>4, <1>5 DEF Next

(* Only what is used nowhere leaves the registry: what the user deletes, a hash that was        *)
(* replaced, and a created one that is cleaned up.                                                 *)
LEMMA RemovedAfter ==
    ASSUME ShapeInv, [Next]_vars, NEW h \in entries, h \notin entries'
    PROVE  ~InUse(h) /\ (h \in Seen \cup Old \/ \E t \in Threads : pc[t] = "cleanUp" /\ h = new[t])
<1> DEFINE Goal == ~InUse(h) /\ (h \in Seen \cup Old \/ \E t \in Threads : pc[t] = "cleanUp" /\ h = new[t])
<1>1. CASE Connect \/ DeadlinePasses \/ ProfilesUnreadable \/ Crash \/ UNCHANGED vars
  BY <1>1 DEF Connect, DeadlinePasses, ProfilesUnreadable, Crash, vars, files
<1>2. CASE Preparing
  BY <1>2
     DEF Preparing, Sync, Register, Candidates, Entered, ReadCheck, Decide, BeginCheck, ProbeAnswers, ProbeCanceled,
        CheckFails, ChecksDone, Final, AutoReplace, NoMoreReplacements, HandOver, Returns, files
<1>3. CASE User
  <2>1. PICK x \in Hashes : DeleteVKHash(x)
    BY <1>3 DEF User, EditServer, Disconnect, CancelVKHashChecks, AddVKHash, Entered, OtherCheck, ReplaceVKHash, files
  <2>2. h = x /\ ~InUse(x) /\ x \in pool
    BY <2>1 DEF DeleteVKHash, Listed
  <2> QED
    BY <2>2 DEF Seen
<1>4. ASSUME NEW t \in Threads, Replacing(t) PROVE Goal
  <2>1. CASE CleanUp(t)
    BY <2>1 DEF CleanUp, Move
  <2>2. CASE Commit(t)
    <3>1. pc[t] = "commit" /\ h = old[t] /\ ~InUse(h)
      BY <2>2 DEF Commit, Move
    <3> QED
      BY <3>1 DEF Seen, HasOld, HasNew
  <2> QED
    BY <1>4, <2>1, <2>2
       DEF Replacing, Generate, GenerateFails, Enter, Verify, VerifyFails, Load, Save, CommitFails, Announce, GiveUp, files
<1> QED
  BY <1>1, <1>2, <1>3, <1>4 DEF Next

(* VK gives out a new link, so that nobody knows it, and nobody else comes to know it while the  *)
(* thread enters it, has it probed and saves it.                                                   *)
LEMMA IssuedKept == ASSUME ShapeInv, IssuedInv, PrivateInv, [Next]_vars PROVE IssuedInv' /\ PrivateInv'
<1>0. Old \cap New = {}
  BY PreflightAssumption
<1>1. \A h \in Seen' : h \in Seen \cup Old \/ Published(h)
  BY SeenAfter
<1>2. issued \subseteq issued' /\ ((\A t \in Threads : NewStays(t)) \/ \E t \in Threads : NewComes(t))
  BY NewAfter
<1>3. \A h \in entries \ entries' : h \in Seen \cup Old \/ \E t \in Threads : pc[t] = "cleanUp" /\ h = new[t]
  BY RemovedAfter
<1>4. \A h : Published(h) => h \in New \cap issued
  BY DEF Published, IssuedInv, HasNew
<1>5. Seen' \cap New \subseteq issued'
  BY <1>0, <1>1, <1>2, <1>4 DEF IssuedInv
<1>6. IssuedInv'
  BY <1>2, <1>5 DEF IssuedInv, NewStays, NewComes
(* A new hash stays private, *)
<1>7. ASSUME NEW t \in Threads, pc'[t] \in Private, NewStays(t) PROVE new'[t] \notin Seen'
  <2>1. pc[t] \in Private /\ new'[t] = new[t] /\ new[t] \in New /\ new[t] \notin Seen
    BY <1>7 DEF NewStays, IssuedInv, PrivateInv, Private, HasNew
  <2>2. ~Published(new[t])
    BY <1>7, <2>1 DEF Published, PrivateInv, Private, HasNew
  <2> QED
    BY <1>0, <1>1, <2>1, <2>2
<1>8. ASSUME NEW t \in Threads, NewComes(t) PROVE new'[t] \notin Seen'
  BY <1>0, <1>1, <1>4, <1>8 DEF NewComes, IssuedInv
(* and its entry with it. *)
<1>9. ASSUME NEW t \in Threads, pc'[t] \in Private \ {"enter"}, NewStays(t) PROVE new'[t] \in entries'
  <2>1. pc[t] \in Private /\ new'[t] = new[t] /\ new[t] \in New \ Seen
    BY <1>9 DEF NewStays, IssuedInv, PrivateInv, Private, HasNew
  <2>2. new[t] \in entries \/ new[t] \in entries'
    BY <1>9 DEF NewStays, PrivateInv
  <2>3. \A u \in Threads : pc[u] = "cleanUp" => new[u] # new[t]
    BY <2>1 DEF PrivateInv, Private, HasNew
  <2> QED
    BY <1>0, <1>3, <2>1, <2>2, <2>3
<1>10. ASSUME NEW t \in Threads, NEW u \in Threads, t # u, pc'[t] \in HasNew, pc'[u] \in HasNew PROVE new'[t] # new'[u]
  <2>1. CASE NewStays(t) /\ NewStays(u)
    BY <1>10, <2>1 DEF NewStays, PrivateInv
  <2>2. CASE NewComes(t) \/ NewComes(u)
    BY <1>10, <2>2 DEF NewStays, NewComes, IssuedInv
  <2> QED
    BY <1>2, <1>10, <2>1, <2>2 DEF NewComes
<1>11. PrivateInv'
  <2>1. \A t \in Threads : pc'[t] \in Private => new'[t] \notin Seen'
    BY <1>2, <1>7, <1>8 DEF NewComes
  <2>2. \A t \in Threads : pc'[t] \in Private \ {"enter"} => new'[t] \in entries'
    BY <1>2, <1>9 DEF NewComes
  <2> QED
    BY <1>10, <2>1, <2>2 DEF PrivateInv
<1> QED
  BY <1>6, <1>11
-----------------------------------------------------------------------------
(***************************************************************************)
(* The profile names registered hashes.                                       *)
(***************************************************************************)
(* A step leaves the profile and what is written of it, replaces it by one whose missing entries *)
(* it records, or saves a replacement.                                                            *)
LEMMA ProfileAfter ==
    ASSUME ShapeInv, [Next]_vars
    PROVE  /\ readable' => readable
           /\ lost => lost'
           /\ \/ profile' = profile /\ unregistered \subseteq unregistered' \cup entries'
              \/ profile' \subseteq entries' \cup unregistered'
              \/ \E t \in Threads :
                   /\ pc[t] = "save" /\ profile' \subseteq loaded[t] \cup {new[t]}
                   /\ ~lost' => profile = loaded[t]
                   /\ UNCHANGED <<entries, unregistered>>
<1> DEFINE Goal ==
             /\ readable' => readable
             /\ lost => lost'
             /\ \/ profile' = profile /\ unregistered \subseteq unregistered' \cup entries'
                \/ profile' \subseteq entries' \cup unregistered'
                \/ \E t \in Threads :
                     /\ pc[t] = "save" /\ profile' \subseteq loaded[t] \cup {new[t]}
                     /\ ~lost' => profile = loaded[t]
                     /\ UNCHANGED <<entries, unregistered>>
<1>1. CASE Connect \/ DeadlinePasses \/ Crash \/ UNCHANGED vars
  BY <1>1 DEF Connect, DeadlinePasses, Crash, vars, files, history
<1>2. CASE ProfilesUnreadable
  BY <1>2 DEF ProfilesUnreadable, files, history
<1>3. CASE Preparing
  <2>1. CASE Sync
    BY <2>1 DEF Sync
  <2>2. CASE Register \/ Candidates
    BY <2>2 DEF Register, Candidates, Entered
  <2>3. CASE ProbeAnswers \/ Returns
    BY <2>3 DEF ProbeAnswers, Returns, files
  <2>4. ASSUME ~Sync, ~Register, ~Candidates, ~ProbeAnswers, ~Returns
        PROVE  UNCHANGED <<profile, readable, lost, unregistered>>
    BY <1>3, <2>4
       DEF Preparing, ReadCheck, Decide, BeginCheck, ProbeCanceled, CheckFails, ChecksDone, Final, AutoReplace,
          NoMoreReplacements, HandOver, files, history
  <2> QED
    BY <2>1, <2>2, <2>3, <2>4
<1>4. CASE User
  <2>1. CASE EditServer
    BY <2>1 DEF EditServer
  <2>2. ASSUME ~EditServer PROVE UNCHANGED <<profile, readable, lost>>
    BY <1>4, <2>2 DEF User, Disconnect, CancelVKHashChecks, AddVKHash, DeleteVKHash, OtherCheck, ReplaceVKHash, files, history
  <2>3. ASSUME ~EditServer PROVE unregistered \subseteq unregistered' \cup entries'
    BY <1>4, <2>3 DEF User, Disconnect, CancelVKHashChecks, AddVKHash, Entered, DeleteVKHash, OtherCheck, ReplaceVKHash, history
  <2> QED
    BY <2>1, <2>2, <2>3
<1>5. ASSUME NEW t \in Threads, Replacing(t) PROVE Goal
  <2>1. CASE Save(t)
    <3>1. UNCHANGED <<readable, entries, unregistered>> /\ pc[t] = "save"
      BY <2>1 DEF Save, Move
    <3>2. CASE /\ profile' = (loaded[t] \ {old[t]}) \cup {new[t]}
               /\ lost' = (lost \/ profile # loaded[t])
      <4>1. (lost => lost') /\ (~lost' => profile = loaded[t])
        BY <3>2, Zenon
      <4>2. profile' \subseteq loaded[t] \cup {new[t]}
        BY <3>2
      <4> QED
        BY <3>1, <4>1, <4>2
    <3>3. CASE UNCHANGED <<profile, lost>>
      BY <3>1, <3>3
    <3> QED
      BY <2>1, <3>2, <3>3, Zenon DEF Save
  <2>2. CASE Generate(t) \/ Verify(t)
    BY <2>2 DEF Generate, Verify, files
  <2> QED
    BY <1>5, <2>1, <2>2
       DEF Replacing, GenerateFails, Enter, VerifyFails, CleanUp, Load, Commit, CommitFails, Announce, GiveUp, files, history
<1> QED
  BY <1>1, <1>2, <1>3, <1>4, <1>5 DEF Next
-----------------------------------------------------------------------------
(***************************************************************************)
(* What a preflight knows at each of its stages, and what it may hand over.    *)
(***************************************************************************)
PlanInv ==
    LET at == pc[Connector] IN
    /\ at \in {"idle", "sync", "register", "candidates"} =>
         plan.valid = {} /\ plan.fallback = {} /\ plan.stale = {} /\ plan.invalid = {}
    /\ at = "read" =>
         /\ plan.unread \cap (plan.fallback \cup plan.invalid) = {}
         /\ plan.fallback \cap plan.invalid = {}
         /\ plan.valid \subseteq plan.fallback
    /\ at \in {"read", "check", "probe"} => plan.stale \subseteq plan.fallback \ plan.invalid
    /\ at = "probe" => plan.probed \in (plan.fallback \ plan.invalid) \ plan.stale
    /\ at \in {"use", "connected"} => used # {} /\ used \cap plan.invalid = {}
    /\ at \in HasOld \cup {"replace", "replaceFailed"} => policy.replace /\ plan.fallback \subseteq plan.invalid
    /\ at \in HasNew => new[Connector] \notin plan.invalid
    /\ old[Connector] # Nobody => old[Connector] \in plan.invalid /\ at \in HasOld \cup {"replaceFailed"}
    /\ created <= plan.tries /\ plan.tries <= MaxAutoReplacements
    /\ at = "generate" => created < plan.tries

(* A step of the connection that changes neither the plan nor the replacement. *)
LEMMA PlanStays ==
    ASSUME PlanInv, UNCHANGED <<plan, used, policy, created>>,
           pc'[Connector] = pc[Connector], old'[Connector] = old[Connector], new'[Connector] = new[Connector]
    PROVE  PlanInv'
  BY DEF PlanInv

LEMMA PreparingKeepsPlan == ASSUME ShapeInv, PlanInv, Preparing PROVE PlanInv'
<1>0. Connector \in Threads
  BY DEF Threads
<1> USE DEF Fields, HasOld, HasNew
<1>1. CASE Sync \/ Register
  <2>1. UNCHANGED <<plan, used, policy, created, old, new>>
    BY <1>1 DEF Sync, Register, preflight, replacement
  <2>2. \/ pc[Connector] = "sync" /\ pc'[Connector] \in {"register", "failed"}
        \/ pc[Connector] = "register" /\ pc'[Connector] \in {"candidates", "failed"}
    BY <1>0, <1>1, Moves DEF Sync, Register
  <2> QED
    BY <2>1, <2>2 DEF PlanInv
<1>2. CASE Candidates
  <2> DEFINE found == (IF policy.mode = "pool" THEN {} ELSE plan.local) \cup (IF policy.mode = "local" THEN {} ELSE pool)
  <2>1. UNCHANGED <<policy, created, old, new>>
    BY <1>2 DEF Candidates, replacement
  <2>2. \/ Move(Connector, "candidates", "failed") /\ UNCHANGED <<plan, used>>
        \/ Move(Connector, "candidates", "use") /\ UNCHANGED plan /\ used' = found /\ found # {}
        \/ Move(Connector, "candidates", "read") /\ plan' = [plan EXCEPT !.unread = found, !.untried = found]
    BY <1>2 DEF Candidates
  <2> HIDE DEF found
  <2>3. CASE Move(Connector, "candidates", "failed") /\ UNCHANGED <<plan, used>>
    <3>1. pc[Connector] = "candidates" /\ pc'[Connector] = "failed"
      BY <1>0, <2>3, Moves
    <3> QED
      BY <2>1, <2>3, <3>1 DEF PlanInv
  <2>4. CASE Move(Connector, "candidates", "use") /\ UNCHANGED plan /\ used' = found /\ found # {}
    <3>1. pc[Connector] = "candidates" /\ pc'[Connector] = "use"
      BY <1>0, <2>4, Moves
    <3> QED
      BY <2>1, <2>4, <3>1 DEF PlanInv
  <2>5. CASE Move(Connector, "candidates", "read") /\ plan' = [plan EXCEPT !.unread = found, !.untried = found]
    <3>1. pc[Connector] = "candidates" /\ pc'[Connector] = "read"
      BY <1>0, <2>5, Moves
    <3>2. plan'.valid = plan.valid /\ plan'.fallback = plan.fallback /\ plan'.stale = plan.stale /\ plan'.invalid = plan.invalid /\ plan'.tries = plan.tries
      BY <2>5 DEF ShapeInv
    <3> QED
      BY <2>1, <3>1, <3>2 DEF PlanInv
  <2> QED
    BY <2>2, <2>3, <2>4, <2>5
<1>3. ASSUME NEW h \in Hashes, ReadCheck(h) PROVE PlanInv'
  <2>1. UNCHANGED <<pc, used, policy, created, old, new>> /\ pc[Connector] = "read" /\ h \in plan.unread
    BY <1>3 DEF ReadCheck, replacement, history
  <2>2. PICK stale, fallback, valid, invalid :
          /\ plan' = [plan EXCEPT !.unread = plan.unread \ {h}, !.stale = stale, !.fallback = fallback, !.valid = valid, !.invalid = invalid]
          /\ \/ stale = plan.stale \cup {h} /\ fallback = plan.fallback \cup {h} /\ valid = plan.valid /\ invalid = plan.invalid
             \/ stale = plan.stale /\ fallback = plan.fallback \cup {h} /\ valid \in {plan.valid, plan.valid \cup {h}} /\ invalid = plan.invalid
             \/ stale = plan.stale /\ fallback = plan.fallback /\ valid = plan.valid /\ invalid = plan.invalid \cup {h}
    <3> DEFINE known == h \in fresh /\ h \in entries
               stale == IF known THEN plan.stale ELSE plan.stale \cup {h}
               fallback == IF known /\ checks[h] = "invalid" THEN plan.fallback ELSE plan.fallback \cup {h}
               valid == IF known /\ checks[h] = "valid" THEN plan.valid \cup {h} ELSE plan.valid
               invalid == IF known /\ checks[h] = "invalid" THEN plan.invalid \cup {h} ELSE plan.invalid
    <3>1. plan' = [plan EXCEPT !.unread = plan.unread \ {h}, !.stale = stale, !.fallback = fallback, !.valid = valid, !.invalid = invalid]
      BY <1>3 DEF ReadCheck
    <3>2. \/ stale = plan.stale \cup {h} /\ fallback = plan.fallback \cup {h} /\ valid = plan.valid /\ invalid = plan.invalid
          \/ stale = plan.stale /\ fallback = plan.fallback \cup {h} /\ valid \in {plan.valid, plan.valid \cup {h}} /\ invalid = plan.invalid
          \/ stale = plan.stale /\ fallback = plan.fallback /\ valid = plan.valid /\ invalid = plan.invalid \cup {h}
      OBVIOUS
    <3> HIDE DEF stale, fallback, valid, invalid
    <3> QED
      BY <3>1, <3>2
  <2>3. /\ plan'.unread = plan.unread \ {h} /\ plan'.stale = stale /\ plan'.fallback = fallback
        /\ plan'.valid = valid /\ plan'.invalid = invalid /\ plan'.tries = plan.tries
    BY <2>2 DEF ShapeInv
  <2> QED
    BY <2>1, <2>2, <2>3 DEF PlanInv
<1>4. CASE Decide
  <2>1. UNCHANGED <<plan, policy, created, old, new>>
    BY <1>4 DEF Decide, replacement, history
  <2>2. \/ Move(Connector, "read", "check") /\ plan.valid = {} /\ UNCHANGED used
        \/ Move(Connector, "read", "use") /\ plan.valid # {} /\ used' = plan.valid
        \/ Move(Connector, "read", "use") /\ plan.fallback # {} /\ used' = plan.fallback
    BY <1>4 DEF Decide
  <2>3. \/ pc[Connector] = "read" /\ pc'[Connector] = "check"
        \/ pc[Connector] = "read" /\ pc'[Connector] = "use" /\ used' # {} /\ (used' = plan.valid \/ used' = plan.fallback)
    BY <1>0, <2>2, Moves
  <2> QED
    BY <2>1, <2>3 DEF PlanInv
<1>5. ASSUME NEW h \in Hashes, BeginCheck(h) PROVE PlanInv'
  <2>1. UNCHANGED <<used, policy, created, old, new>> /\ pc[Connector] = "check" /\ pc'[Connector] = "probe" /\ h \in plan.stale
    BY <1>0, <1>5, Moves DEF BeginCheck, replacement, history
  <2>2. /\ plan'.stale = plan.stale \ {h} /\ plan'.probed = h /\ plan'.fallback = plan.fallback
        /\ plan'.invalid = plan.invalid /\ plan'.tries = plan.tries
    BY <1>5 DEF BeginCheck, ShapeInv
  <2> QED
    BY <2>1, <2>2 DEF PlanInv
<1>6. CASE ProbeAnswers
  <2>1. UNCHANGED <<policy, created, old, new>>
    BY <1>6 DEF ProbeAnswers, replacement
  <2>2. \/ Move(Connector, "probe", "use") /\ used' = {plan.probed} /\ UNCHANGED plan
        \/ Move(Connector, "probe", "use") /\ used' = plan.fallback \ plan.invalid /\ UNCHANGED plan
        \/ Move(Connector, "probe", "check") /\ UNCHANGED used /\ plan' = [plan EXCEPT !.invalid = plan.invalid \cup {plan.probed}]
    BY <1>6 DEF ProbeAnswers
  <2>3. CASE Move(Connector, "probe", "use") /\ UNCHANGED plan /\ (used' = {plan.probed} \/ used' = plan.fallback \ plan.invalid)
    <3>1. pc[Connector] = "probe" /\ pc'[Connector] = "use"
      BY <1>0, <2>3, Moves
    <3> QED
      BY <2>1, <2>3, <3>1 DEF PlanInv
  <2>4. CASE Move(Connector, "probe", "check") /\ UNCHANGED used /\ plan' = [plan EXCEPT !.invalid = plan.invalid \cup {plan.probed}]
    <3>1. pc[Connector] = "probe" /\ pc'[Connector] = "check"
      BY <1>0, <2>4, Moves
    <3>2. plan'.invalid = plan.invalid \cup {plan.probed} /\ plan'.stale = plan.stale /\ plan'.fallback = plan.fallback /\ plan'.tries = plan.tries
      BY <2>4 DEF ShapeInv
    <3> QED
      BY <2>1, <3>1, <3>2 DEF PlanInv
  <2> QED
    BY <2>2, <2>3, <2>4
<1>7. CASE ProbeCanceled \/ CheckFails \/ ChecksDone
  <2>1. UNCHANGED <<plan, used, policy, created, old, new>>
    BY <1>7 DEF ProbeCanceled, CheckFails, ChecksDone, preflight, replacement, history
  <2>2. pc[Connector] \in {"probe", "check"} /\ (pc'[Connector] \in {"failed", "final"} \/ pc'[Connector] = "check")
    BY <1>0, <1>7, Moves DEF ProbeCanceled, CheckFails, ChecksDone
  <2> QED
    BY <2>1, <2>2 DEF PlanInv
<1>8. CASE Final
  <2>1. UNCHANGED <<plan, policy, created, old, new>>
    BY <1>8 DEF Final, replacement, history
  <2>2. \/ Move(Connector, "final", "failed")
        \/ Move(Connector, "final", "use") /\ used' = plan.fallback \ plan.invalid /\ used' # {}
        \/ Move(Connector, "final", "replace") /\ plan.fallback \ plan.invalid = {} /\ policy.replace
    BY <1>8 DEF Final
  <2>3. /\ pc[Connector] = "final"
        /\ \/ pc'[Connector] = "failed"
           \/ pc'[Connector] = "use" /\ used' = plan.fallback \ plan.invalid /\ used' # {}
           \/ pc'[Connector] = "replace" /\ plan.fallback \ plan.invalid = {} /\ policy.replace
    BY <1>0, <2>2, Moves
  <2> QED
    BY <2>1, <2>3 DEF PlanInv
<1>9. ASSUME NEW h \in Hashes, AutoReplace(h) PROVE PlanInv'
  <2>1. UNCHANGED <<used, policy, created, new>> /\ h \in plan.invalid /\ plan.tries < MaxAutoReplacements
    BY <1>9 DEF AutoReplace, history
  <2>2. pc[Connector] = "replace" /\ pc'[Connector] \in {"generate", "replaceFailed"}
    BY <1>0, <1>9, Moves DEF AutoReplace
  <2>3. plan'.invalid = plan.invalid /\ plan'.fallback = plan.fallback /\ plan'.tries = plan.tries + 1
    BY <1>9 DEF AutoReplace, ShapeInv
  <2>4. old'[Connector] = h
    BY <1>0, <1>9 DEF AutoReplace, ShapeInv
  <2> QED
    BY <2>1, <2>2, <2>3, <2>4, PreflightAssumption DEF PlanInv, ShapeInv
<1>10. CASE NoMoreReplacements \/ HandOver
  <2>1. UNCHANGED <<plan, used, policy, created, old, new>>
    BY <1>10 DEF NoMoreReplacements, HandOver, preflight, replacement, history
  <2>2. \/ pc[Connector] = "replace" /\ pc'[Connector] = "failed"
        \/ pc[Connector] = "use" /\ pc'[Connector] \in {"failed", "connected"}
    BY <1>0, <1>10, Moves DEF NoMoreReplacements, HandOver
  <2> QED
    BY <2>1, <2>2 DEF PlanInv
<1>11. CASE Returns
  <2>1. UNCHANGED old /\ plan' = NoPlan /\ created' = 0 /\ pc[Connector] \in {"failed", "connected"}
    BY <1>11 DEF Returns, replacement
  <2>2. pc'[Connector] = "idle"
    BY <1>0, <1>11 DEF Returns, ShapeInv
  <2>3. plan'.valid = {} /\ plan'.fallback = {} /\ plan'.stale = {} /\ plan'.invalid = {} /\ plan'.tries = 0
    BY <2>1 DEF NoPlan
  <2> QED
    BY <2>1, <2>2, <2>3, PreflightAssumption DEF PlanInv
<1> QED
  BY <1>1, <1>2, <1>3, <1>4, <1>5, <1>6, <1>7, <1>8, <1>9, <1>10, <1>11 DEF Preparing

(* The hash VK has just created is none of those the preflight knows to be invalid. *)
LEMMA ReplacingKeepsPlan == ASSUME ShapeInv, IssuedInv, PlanInv, NEW t \in Threads, Replacing(t) PROVE PlanInv'
<1>0. Connector \in Threads /\ Editor \in Threads /\ Connector # Editor /\ (t = Connector \/ t = Editor)
  BY DEF Threads, Connector, Editor
<1> USE DEF HasOld, HasNew
<1>1. UNCHANGED <<plan, policy>>
  BY DEF Replacing, Generate, GenerateFails, Enter, Verify, VerifyFails, CleanUp, Load, Save, Commit, CommitFails,
        Announce, GiveUp, preflight
<1>2. CASE t = Editor
  <2>1. UNCHANGED <<used, created>>
    BY <1>0, <1>2
       DEF Replacing, Generate, GenerateFails, Enter, Verify, VerifyFails, CleanUp, Load, Save, Commit, CommitFails,
          Announce, GiveUp, preflight, history
  <2>2. \E from, to : Move(t, from, to)
    BY DEF Replacing, Generate, GenerateFails, Enter, Verify, VerifyFails, CleanUp, Load, Save, Commit, CommitFails,
          Announce, GiveUp
  <2>3. pc'[Connector] = pc[Connector]
    BY <1>0, <1>2, <2>2, Moves
  <2>4. old'[Connector] = old[Connector] /\ new'[Connector] = new[Connector]
    BY <1>0, <1>2
       DEF Replacing, Generate, GenerateFails, Enter, Verify, VerifyFails, CleanUp, Load, Save, Commit, CommitFails,
          Announce, GiveUp, replacement, ShapeInv
  <2> QED
    BY <1>1, <2>1, <2>3, <2>4, PlanStays
<1>3. CASE t = Connector
  <2>1. CASE Generate(t)
    <3>1. UNCHANGED <<used, old>> /\ created' = created + 1
      BY <1>3, <2>1 DEF Generate, preflight
    <3>2. pc[Connector] = "generate" /\ pc'[Connector] \in {"enter", "replaceFailed"}
      BY <1>0, <1>3, <2>1, Moves DEF Generate
    <3>3. new'[Connector] \in New \ issued
      BY <1>0, <1>3, <2>1 DEF Generate, ShapeInv
    <3>4. plan.invalid \cap New \subseteq issued
      BY DEF IssuedInv, Seen, Candidate
    <3> QED
      BY <1>1, <3>1, <3>2, <3>3, <3>4, PreflightAssumption DEF PlanInv, ShapeInv
  <2>2. CASE GenerateFails(t) \/ Enter(t) \/ Verify(t) \/ VerifyFails(t) \/ CleanUp(t) \/ Load(t) \/ Save(t) \/ Commit(t) \/ CommitFails(t)
    <3>1. UNCHANGED <<used, old, new, created>>
      BY <2>2
         DEF GenerateFails, Enter, Verify, VerifyFails, CleanUp, Load, Save, Commit, CommitFails, preflight, replacement,
            history
    <3>2. \/ pc[Connector] = "generate" /\ pc'[Connector] = "replaceFailed"
          \/ pc[Connector] \in HasNew /\ pc'[Connector] \in (HasNew \ {"generate"}) \cup {"replaceFailed"}
      <4>1. CASE GenerateFails(t) \/ Enter(t)
        BY <1>0, <1>3, <4>1, Moves DEF GenerateFails, Enter
      <4>2. CASE Verify(t) \/ VerifyFails(t) \/ CleanUp(t)
        BY <1>0, <1>3, <4>2, Moves DEF Verify, VerifyFails, CleanUp
      <4>3. CASE Load(t) \/ Save(t)
        BY <1>0, <1>3, <4>3, Moves DEF Load, Save
      <4>4. CASE Commit(t) \/ CommitFails(t)
        BY <1>0, <1>3, <4>4, Moves DEF Commit, CommitFails
      <4> QED
        BY <2>2, <4>1, <4>2, <4>3, <4>4
    <3> QED
      BY <1>1, <3>1, <3>2 DEF PlanInv
  <2>3. CASE Announce(t)
    <3>1. UNCHANGED created
      BY <2>3 DEF Announce, history
    <3>2. \/ Move(t, "replaced", "use") /\ used' = {new[Connector]}
          \/ Move(t, "replaced", "replace") /\ UNCHANGED used
      BY <1>3, <2>3 DEF Announce
    <3>3. old'[Connector] = Nobody
      BY <1>0, <1>3, <2>3 DEF Announce, ShapeInv
    <3>4. CASE Move(t, "replaced", "use") /\ used' = {new[Connector]}
      <4>1. pc[Connector] = "replaced" /\ pc'[Connector] = "use"
        BY <1>0, <1>3, <3>4, Moves
      <4> QED
        BY <1>1, <3>1, <3>3, <3>4, <4>1 DEF PlanInv
    <3>5. CASE Move(t, "replaced", "replace") /\ UNCHANGED used
      <4>1. pc[Connector] = "replaced" /\ pc'[Connector] = "replace"
        BY <1>0, <1>3, <3>5, Moves
      <4> QED
        BY <1>1, <3>1, <3>3, <3>5, <4>1 DEF PlanInv
    <3> QED
      BY <3>2, <3>4, <3>5
  <2>4. CASE GiveUp(t)
    <3>1. UNCHANGED <<used, created>>
      BY <2>4 DEF GiveUp, preflight, history
    <3>2. pc[Connector] = "replaceFailed" /\ pc'[Connector] = "replace"
      BY <1>0, <1>3, <2>4, Moves DEF GiveUp
    <3>3. old'[Connector] = Nobody
      BY <1>0, <1>3, <2>4 DEF GiveUp, ShapeInv
    <3> QED
      BY <1>1, <3>1, <3>2, <3>3 DEF PlanInv
  <2> QED
    BY <2>1, <2>2, <2>3, <2>4 DEF Replacing
<1> QED
  BY <1>0, <1>2, <1>3

LEMMA PlanKept == ASSUME ShapeInv, IssuedInv, PlanInv, [Next]_vars PROVE PlanInv'
<1>0. Connector \in Threads /\ Editor \in Threads /\ Connector # Editor
  BY DEF Threads, Connector, Editor
<1>1. CASE Connect
  <2>1. UNCHANGED old /\ plan' = [NoPlan EXCEPT !.local = shown] /\ created' = 0
    BY <1>1 DEF Connect, replacement
  <2>2. pc[Connector] = "idle" /\ pc'[Connector] = "sync"
    BY <1>0, <1>1, Moves DEF Connect
  <2>3. plan'.valid = {} /\ plan'.fallback = {} /\ plan'.stale = {} /\ plan'.invalid = {} /\ plan'.tries = 0
    BY <2>1 DEF NoPlan
  <2> QED
    BY <2>1, <2>2, <2>3, PreflightAssumption DEF PlanInv, HasOld, HasNew
<1>2. CASE Preparing
  BY <1>2, PreparingKeepsPlan
<1>3. CASE User
  <2>1. UNCHANGED <<plan, used, policy, created, new>>
    BY <1>3
       DEF User, EditServer, Disconnect, CancelVKHashChecks, AddVKHash, DeleteVKHash, OtherCheck, ReplaceVKHash,
          preflight, replacement, history
  <2>2. pc'[Connector] = pc[Connector] /\ old'[Connector] = old[Connector]
    BY <1>0, <1>3, Moves
       DEF User, EditServer, Disconnect, CancelVKHashChecks, AddVKHash, DeleteVKHash, OtherCheck, ReplaceVKHash,
          replacement, ShapeInv
  <2> QED
    BY <2>1, <2>2, PlanStays
<1>4. ASSUME NEW t \in Threads, Replacing(t) PROVE PlanInv'
  BY <1>4, ReplacingKeepsPlan
<1>5. CASE DeadlinePasses \/ ProfilesUnreadable \/ UNCHANGED vars
  <2>1. UNCHANGED <<plan, used, policy, created, pc, old, new>>
    BY <1>5 DEF DeadlinePasses, ProfilesUnreadable, vars, preflight, replacement, history
  <2> QED
    BY <2>1, PlanStays
<1>6. CASE Crash
  <2>1. plan' = NoPlan /\ created' = 0 /\ pc'[Connector] = "idle" /\ old'[Connector] = Nobody
    BY <1>0, <1>6 DEF Crash
  <2>2. plan'.valid = {} /\ plan'.fallback = {} /\ plan'.stale = {} /\ plan'.invalid = {} /\ plan'.tries = 0
    BY <2>1 DEF NoPlan
  <2> QED
    BY <2>1, <2>2, PreflightAssumption DEF PlanInv, HasOld, HasNew
<1> QED
  BY <1>1, <1>2, <1>3, <1>4, <1>5, <1>6 DEF Next
-----------------------------------------------------------------------------
(***************************************************************************)
(* The theorems.                                                              *)
(***************************************************************************)
PreflightInv == ShapeInv /\ IssuedInv /\ PrivateInv /\ PlanInv

(* The three invariants are inductive together. *)
LEMMA PreflightInvariant == Spec => []PreflightInv
<1>1. Init => PreflightInv
  <2> SUFFICES ASSUME Init PROVE PreflightInv
    OBVIOUS
  <2>1. ShapeInv
    BY DEF Init, ShapeInv, NoPlan, Fields
  <2>2. \A t \in Threads : pc[t] = "idle" /\ loaded[t] = {} /\ old[t] = Nobody
    BY DEF Init
  <2>3. plan.local = {} /\ plan.unread = {} /\ plan.valid = {} /\ plan.fallback = {} /\ plan.stale = {} /\ plan.invalid = {} /\ plan.tries = 0
    BY DEF Init, NoPlan
  <2>4. Seen \subseteq Old
    BY <2>2, <2>3, PreflightAssumption DEF Init, Seen, Candidate, Threads, HasOld, HasNew
  <2>5. IssuedInv /\ PrivateInv
    BY <2>2, <2>4, PreflightAssumption DEF IssuedInv, PrivateInv, HasNew, Private
  <2>6. PlanInv
    BY <2>2, <2>3, PreflightAssumption DEF Init, PlanInv, HasOld, HasNew, Threads
  <2> QED
    BY <2>1, <2>5, <2>6 DEF PreflightInv
<1>2. PreflightInv /\ [Next]_vars => PreflightInv'
  BY ShapeKept, IssuedKept, PlanKept DEF PreflightInv
<1> QED
  BY <1>1, <1>2, PTL DEF Spec

(* Connect hands over something, and nothing that its preflight read or was told to be invalid     *)
(* (prepareVKHashes: the fresh valid ones, the fallback, what a probe left, a replacement).        *)
THEOREM HashesHandedOverAreUsable == Spec => []HandsOverUsable
<1>1. PreflightInv => HandsOverUsable
  BY DEF PreflightInv, PlanInv, HandsOverUsable
<1> QED
  BY <1>1, PreflightInvariant, PTL

(* The automatic replacement is for a policy that asks for it and candidates that are all invalid, *)
(* and asks VK for at most maxAutoReplacements hashes, whatever fails on the way (the loop at the   *)
(* end of prepareVKHashes).                                                                          *)
THEOREM OnlyDeadHashesAreReplaced == Spec => []ReplacesOnlyDead
<1>1. PreflightInv => ReplacesOnlyDead
  BY PreflightAssumption DEF PreflightInv, ShapeInv, PlanInv, ReplacesOnlyDead
<1> QED
  BY <1>1, PreflightInvariant, PTL

(* A hash the profile names has its entry, so that the preflight can check and replace it:         *)
(* replacements, clean-ups and deletions (replaceVKHashWithContext, cleanupOrphanVKHash,            *)
(* DeleteVKHash) remove no entry in use, whichever of them run at the same time.                     *)
THEOREM NamedHashesAreRegistered == Spec => []NamedIsRegistered
<1>1. Init => NamedIsRegistered
  BY PreflightAssumption DEF Init, NamedIsRegistered
<1>2. PreflightInv /\ NamedIsRegistered /\ [Next]_vars => NamedIsRegistered'
  <2> SUFFICES ASSUME ShapeInv, PrivateInv, NamedIsRegistered, [Next]_vars, readable', ~lost', NEW h \in profile'
               PROVE  h \in entries' \cup unregistered'
    BY DEF PreflightInv, NamedIsRegistered
  <2>1. readable /\ ~lost /\ profile \subseteq entries \cup unregistered
    BY ProfileAfter DEF NamedIsRegistered
  <2>2. profile \cap entries \subseteq entries'
    BY <2>1, RemovedAfter DEF InUse
  <2>3. ASSUME NEW t \in Threads, pc[t] = "save", profile' \subseteq loaded[t] \cup {new[t]}, profile = loaded[t], UNCHANGED <<entries, unregistered>>
        PROVE  h \in entries' \cup unregistered'
    <3>1. new[t] \in entries
      BY <2>3 DEF PrivateInv, Private
    <3> QED
      BY <2>1, <2>3, <3>1
  <2> QED
    BY <2>1, <2>2, <2>3, ProfileAfter
<1> QED
  BY <1>1, <1>2, PreflightInvariant, PTL DEF Spec
-----------------------------------------------------------------------------
(***************************************************************************)
(* Types; the pool has entries only.                                          *)
(***************************************************************************)
(* The registry loses an entry only together with its place in the pool, if the new hash that    *)
(* takes the place is another one.                                                                 *)
RegistryInv ==
    /\ entries \subseteq Hashes /\ pool \subseteq entries
    /\ \A t \in Threads : pc[t] = "commit" => new[t] # old[t]

ValueInv ==
    /\ checks \in [Hashes -> Statuses \cup {"none"}]
    /\ policy \in Policies
    /\ used \subseteq Hashes /\ plan.valid \subseteq Hashes /\ plan.fallback \subseteq Hashes
    /\ old \in [Threads -> Hashes \cup {Nobody}] /\ new \in [Threads -> New \cup {Nobody}]
    /\ loaded \in [Threads -> SUBSET Hashes]

TypeInv == Seen \subseteq Hashes /\ RegistryInv /\ ValueInv

(* A step after which the registry and its pool are as before, and no other thread is to commit. *)
LEMMA RegistryStays ==
    ASSUME RegistryInv, entries \subseteq entries', entries' \subseteq Hashes, pool' = pool,
           \A t \in Threads : pc'[t] = "commit" => pc[t] = "commit" /\ new'[t] = new[t] /\ old'[t] = old[t]
    PROVE  RegistryInv'
  BY DEF RegistryInv

(* A step of the preflight registers hashes of the plan at most. *)
LEMMA PreparingKeepsRegistry ==
    ASSUME ShapeInv, Seen \subseteq Hashes, RegistryInv, Preparing
    PROVE  RegistryInv'
<1>0. Connector \in Threads /\ Editor \in Threads
  BY DEF Threads
<1>1. plan.local \subseteq Hashes
  BY DEF Seen, Candidate
<1>2. pool' = pool /\ UNCHANGED new /\ \A t \in Threads \ {Connector} : old'[t] = old[t]
  BY <1>0
     DEF Preparing, Sync, Register, Candidates, ReadCheck, Decide, BeginCheck, ProbeAnswers, ProbeCanceled, CheckFails,
        ChecksDone, Final, AutoReplace, NoMoreReplacements, HandOver, Returns, files, replacement, ShapeInv
<1>3. entries' = entries \/ entries' = entries \cup plan.local
  BY DEF Preparing, Sync, Register, Candidates, Entered, ReadCheck, Decide, BeginCheck, ProbeAnswers, ProbeCanceled,
        CheckFails, ChecksDone, Final, AutoReplace, NoMoreReplacements, HandOver, Returns, files
<1>4. pc'[Connector] # "commit"
  <2>1. CASE Sync \/ Register \/ Candidates
    BY <1>0, <2>1, Moves DEF Sync, Register, Candidates
  <2>2. CASE Decide
    BY <1>0, <2>2, Moves DEF Decide
  <2>3. ASSUME NEW h \in Hashes, ReadCheck(h) PROVE pc'[Connector] # "commit"
    BY <2>3 DEF ReadCheck
  <2>4. ASSUME NEW h \in Hashes, BeginCheck(h) PROVE pc'[Connector] # "commit"
    BY <1>0, <2>4, Moves DEF BeginCheck
  <2>5. CASE ProbeAnswers \/ ProbeCanceled \/ CheckFails \/ ChecksDone
    BY <1>0, <2>5, Moves DEF ProbeAnswers, ProbeCanceled, CheckFails, ChecksDone
  <2>6. CASE Final
    BY <1>0, <2>6, Moves DEF Final
  <2>7. ASSUME NEW h \in Hashes, AutoReplace(h) PROVE pc'[Connector] # "commit"
    BY <1>0, <2>7, Moves DEF AutoReplace
  <2>8. CASE NoMoreReplacements \/ HandOver
    BY <1>0, <2>8, Moves DEF NoMoreReplacements, HandOver
  <2>9. CASE Returns
    BY <1>0, <2>9 DEF Returns, ShapeInv
  <2> QED
    BY <2>1, <2>2, <2>3, <2>4, <2>5, <2>6, <2>7, <2>8, <2>9 DEF Preparing
<1>5. \A t \in Threads \ {Connector} : pc'[t] = pc[t]
  BY <1>0
     DEF Preparing, Sync, Register, Candidates, ReadCheck, Decide, BeginCheck, ProbeAnswers, ProbeCanceled, CheckFails,
        ChecksDone, Final, AutoReplace, NoMoreReplacements, HandOver, Returns, Move, ShapeInv
<1>6. \A t \in Threads : pc'[t] = "commit" => t # Connector
  BY <1>4
<1> QED
  BY <1>1, <1>2, <1>3, <1>5, <1>6, RegistryStays DEF RegistryInv

(* The new entry takes the place of another one; what a clean-up removes is not in the pool. *)
LEMMA ReplacingKeepsRegistry ==
    ASSUME ShapeInv, IssuedInv, PrivateInv, RegistryInv, NEW t \in Threads, Replacing(t)
    PROVE  RegistryInv'
<1>0. Connector \in Threads /\ Editor \in Threads
  BY DEF Threads
<1>1. \A u \in Threads \ {t} : pc'[u] = pc[u] /\ new'[u] = new[u] /\ old'[u] = old[u]
  BY DEF Replacing, Generate, GenerateFails, Enter, Verify, VerifyFails, CleanUp, Load, Save, Commit, CommitFails,
        Announce, GiveUp, Move, replacement, ShapeInv
<1>2. CASE Generate(t) \/ GenerateFails(t) \/ Verify(t) \/ VerifyFails(t)
  <2>1. UNCHANGED <<entries, pool>>
    BY <1>2 DEF Generate, GenerateFails, Verify, VerifyFails, files
  <2>2. pc'[t] # "commit"
    BY <1>2, Moves DEF Generate, GenerateFails, Verify, VerifyFails
  <2> QED
    BY <1>1, <2>1, <2>2, RegistryStays DEF RegistryInv
<1>3. CASE Enter(t)
  <2>1. pc[t] = "enter" /\ pc'[t] # "commit" /\ pool' = pool /\ (entries' = entries \/ entries' = entries \cup {new[t]})
    BY <1>3, Moves DEF Enter
  <2>2. new[t] \in Hashes
    BY <2>1 DEF IssuedInv, HasNew, Hashes
  <2> QED
    BY <1>1, <2>1, <2>2, RegistryStays DEF RegistryInv
<1>4. CASE CleanUp(t)
  <2>1. pool' = pool /\ entries' \subseteq entries /\ pool \subseteq entries'
    BY <1>4 DEF CleanUp, RegistryInv
  <2>2. pc'[t] # "commit"
    BY <1>4, Moves DEF CleanUp
  <2> QED
    BY <1>1, <2>1, <2>2 DEF RegistryInv
<1>5. CASE Load(t) \/ Save(t)
  <2>1. UNCHANGED <<entries, pool, old, new>>
    BY <1>5 DEF Load, Save, files
  <2>2. pc[t] \in {"load", "save"}
    BY <1>5, Moves DEF Load, Save
  <2>3. new[t] # old[t]
    BY <2>2 DEF PrivateInv, Private, Seen, HasOld, HasNew
  <2> QED
    BY <1>1, <2>1, <2>3 DEF RegistryInv
<1>6. CASE Commit(t)
  <2>1. /\ pool' = IF old[t] \in pool THEN (pool \ {old[t]}) \cup {new[t]} ELSE pool
        /\ entries' = entries \/ entries' = entries \ {old[t]}
        /\ new[t] \in entries
    BY <1>6 DEF Commit
  <2>2. pc[t] = "commit" /\ pc'[t] # "commit"
    BY <1>6, Moves DEF Commit
  <2>3. new[t] # old[t]
    BY <2>2 DEF RegistryInv
  <2>4. pool' \subseteq entries'
    BY <2>1, <2>3 DEF RegistryInv
  <2> QED
    BY <1>1, <2>1, <2>2, <2>4 DEF RegistryInv
<1>7. CASE CommitFails(t) \/ Announce(t) \/ GiveUp(t)
  <2>1. UNCHANGED <<entries, pool>>
    BY <1>7 DEF CommitFails, Announce, GiveUp, files
  <2>2. pc'[t] # "commit"
    BY <1>7, Moves DEF CommitFails, Announce, GiveUp
  <2> QED
    BY <1>1, <2>1, <2>2, RegistryStays DEF RegistryInv
<1> QED
  BY <1>2, <1>3, <1>4, <1>5, <1>6, <1>7 DEF Replacing

LEMMA RegistryKept ==
    ASSUME ShapeInv, IssuedInv, PrivateInv, Seen \subseteq Hashes, RegistryInv, [Next]_vars
    PROVE  RegistryInv'
<1>0. Connector \in Threads /\ Editor \in Threads /\ Connector # Editor
  BY DEF Threads, Connector, Editor
<1>1. CASE Connect
  <2>1. UNCHANGED <<entries, pool, old, new>>
    BY <1>1 DEF Connect, files, replacement
  <2>2. \A t \in Threads : pc'[t] = "commit" => pc[t] = "commit"
    BY <1>0, <1>1, Moves DEF Connect
  <2> QED
    BY <2>1, <2>2, RegistryStays DEF RegistryInv
<1>2. CASE Preparing
  BY <1>2, PreparingKeepsRegistry
<1>3. CASE EditServer \/ Disconnect \/ CancelVKHashChecks \/ \E h \in Hashes : OtherCheck(h)
  <2>1. UNCHANGED <<entries, pool, pc, old, new>>
    BY <1>3 DEF EditServer, Disconnect, CancelVKHashChecks, OtherCheck, files, replacement
  <2> QED
    BY <2>1, RegistryStays DEF RegistryInv
<1>4. ASSUME NEW h \in Hashes, AddVKHash(h) PROVE RegistryInv'
  BY <1>4 DEF AddVKHash, Entered, replacement, RegistryInv
<1>5. ASSUME NEW h \in Hashes, DeleteVKHash(h) PROVE RegistryInv'
  <2>1. pool' = pool \ {h} /\ (entries' = entries \/ entries' = entries \ {h}) /\ UNCHANGED <<pc, old, new>>
    BY <1>5 DEF DeleteVKHash, replacement
  <2> QED
    BY <2>1 DEF RegistryInv
<1>6. ASSUME NEW h \in Hashes, ReplaceVKHash(h) PROVE RegistryInv'
  <2>1. UNCHANGED <<entries, pool, new>> /\ \A t \in Threads \ {Editor} : old'[t] = old[t]
    BY <1>6 DEF ReplaceVKHash, files, ShapeInv
  <2>2. pc'[Editor] = "generate" /\ \A t \in Threads \ {Editor} : pc'[t] = pc[t]
    BY <1>0, <1>6, Moves DEF ReplaceVKHash
  <2> QED
    BY <2>1, <2>2, RegistryStays DEF RegistryInv
<1>7. ASSUME NEW t \in Threads, Replacing(t) PROVE RegistryInv'
  BY <1>7, ReplacingKeepsRegistry
<1>8. CASE DeadlinePasses \/ ProfilesUnreadable \/ UNCHANGED vars
  <2>1. UNCHANGED <<entries, pool, pc, old, new>>
    BY <1>8 DEF DeadlinePasses, ProfilesUnreadable, vars, files, replacement
  <2> QED
    BY <2>1, RegistryStays DEF RegistryInv
<1>9. CASE Crash
  <2>1. UNCHANGED <<entries, pool>> /\ \A t \in Threads : pc'[t] = "idle"
    BY <1>9 DEF Crash, files
  <2> QED
    BY <2>1, RegistryStays DEF RegistryInv
<1> QED
  BY <1>1, <1>2, <1>3, <1>4, <1>5, <1>6, <1>7, <1>8, <1>9 DEF Next, User

(* What the preflight decides about was read from the files or the window. *)
LEMMA PreparingKeepsValues ==
    ASSUME ShapeInv, Seen \subseteq Hashes, RegistryInv, ValueInv, Preparing
    PROVE  ValueInv'
<1>0. Connector \in Threads /\ plan.local \subseteq Hashes /\ pool \subseteq Hashes
  BY DEF Threads, Seen, Candidate, RegistryInv
<1> USE DEF ValueInv
<1>1. CASE Sync \/ Register \/ ProbeCanceled \/ CheckFails \/ ChecksDone \/ NoMoreReplacements \/ HandOver
  BY <1>1 DEF Sync, Register, ProbeCanceled, CheckFails, ChecksDone, NoMoreReplacements, HandOver, files, preflight, replacement
<1>2. CASE Candidates
  <2>1. UNCHANGED <<checks, policy, old, new, loaded>>
    BY <1>2 DEF Candidates, replacement
  <2>2. used' = used \/ used' \subseteq plan.local \cup pool
    BY <1>2 DEF Candidates
  <2>3. plan'.valid = plan.valid /\ plan'.fallback = plan.fallback
    BY <1>2 DEF Candidates, ShapeInv, Fields
  <2> QED
    BY <1>0, <2>1, <2>2, <2>3
<1>3. ASSUME NEW h \in Hashes, ReadCheck(h) PROVE ValueInv'
  <2>1. UNCHANGED <<checks, policy, used, old, new, loaded>>
    BY <1>3 DEF ReadCheck, files, replacement
  <2>2. plan'.valid \subseteq plan.valid \cup {h} /\ plan'.fallback \subseteq plan.fallback \cup {h}
    BY <1>3 DEF ReadCheck, ShapeInv, Fields
  <2> QED
    BY <2>1, <2>2
<1>4. CASE Decide
  <2>1. UNCHANGED <<checks, policy, plan, old, new, loaded>>
    BY <1>4 DEF Decide, files, replacement
  <2>2. used' \in {used, plan.valid, plan.fallback}
    BY <1>4 DEF Decide
  <2> QED
    BY <2>1, <2>2
<1>5. ASSUME NEW h \in Hashes, BeginCheck(h) PROVE ValueInv'
  <2>1. UNCHANGED <<checks, policy, used, old, new, loaded>>
    BY <1>5 DEF BeginCheck, files, replacement
  <2>2. plan'.valid = plan.valid /\ plan'.fallback = plan.fallback
    BY <1>5 DEF BeginCheck, ShapeInv, Fields
  <2> QED
    BY <2>1, <2>2
<1>6. CASE ProbeAnswers
  <2>1. UNCHANGED <<policy, old, new, loaded>>
    BY <1>6 DEF ProbeAnswers, replacement
  <2>2. PICK status \in Statuses : Recorded(plan.probed, status)
    BY <1>6 DEF ProbeAnswers
  <2>3. checks' \in [Hashes -> Statuses \cup {"none"}]
    BY <2>2 DEF Recorded
  <2>4. pc[Connector] = "probe" /\ (used' = used \/ used' = {plan.probed} \/ used' = plan.fallback \ plan.invalid)
    BY <1>6 DEF ProbeAnswers, Move
  <2>5. plan.probed \in Hashes
    BY <2>4 DEF Seen, Candidate
  <2>6. plan'.valid = plan.valid /\ plan'.fallback = plan.fallback
    BY <1>6 DEF ProbeAnswers, ShapeInv, Fields
  <2> QED
    BY <2>1, <2>3, <2>4, <2>5, <2>6
<1>7. CASE Final
  <2>1. UNCHANGED <<checks, policy, plan, old, new, loaded>>
    BY <1>7 DEF Final, files, replacement
  <2>2. used' = used \/ used' = plan.fallback \ plan.invalid
    BY <1>7 DEF Final
  <2> QED
    BY <2>1, <2>2
<1>8. ASSUME NEW h \in Hashes, AutoReplace(h) PROVE ValueInv'
  <2>1. UNCHANGED <<checks, policy, used, new, loaded>>
    BY <1>8 DEF AutoReplace, files
  <2>2. plan'.valid = plan.valid /\ plan'.fallback = plan.fallback
    BY <1>8 DEF AutoReplace, ShapeInv, Fields
  <2>3. old' \in [Threads -> Hashes \cup {Nobody}]
    BY <1>0, <1>8 DEF AutoReplace
  <2> QED
    BY <2>1, <2>2, <2>3
<1>9. CASE Returns
  <2>1. UNCHANGED <<checks, old, new, loaded>> /\ policy' = DefaultPolicy /\ used' = {} /\ plan' = NoPlan
    BY <1>9 DEF Returns, files, replacement
  <2>2. plan'.valid = {} /\ plan'.fallback = {}
    BY <2>1 DEF NoPlan
  <2> QED
    BY <2>1, <2>2 DEF DefaultPolicy, Policies
<1> QED
  BY <1>1, <1>2, <1>3, <1>4, <1>5, <1>6, <1>7, <1>8, <1>9 DEF Preparing

LEMMA ReplacingKeepsValues ==
    ASSUME ShapeInv, IssuedInv, Seen \subseteq Hashes, ValueInv, NEW t \in Threads, Replacing(t)
    PROVE  ValueInv'
<1> USE DEF ValueInv
<1>1. UNCHANGED <<policy, plan>>
  BY DEF Replacing, Generate, GenerateFails, Enter, Verify, VerifyFails, CleanUp, Load, Save, Commit, CommitFails,
        Announce, GiveUp, preflight
<1>2. CASE Generate(t)
  <2>1. UNCHANGED <<checks, used, old, loaded>>
    BY <1>2 DEF Generate, files, preflight
  <2>2. new' \in [Threads -> New \cup {Nobody}]
    BY <1>2 DEF Generate
  <2> QED
    BY <1>1, <2>1, <2>2
<1>3. CASE GenerateFails(t) \/ Enter(t) \/ VerifyFails(t) \/ CleanUp(t) \/ Save(t) \/ Commit(t) \/ CommitFails(t)
  BY <1>1, <1>3 DEF GenerateFails, Enter, VerifyFails, CleanUp, Save, Commit, CommitFails, files, preflight, replacement
<1>4. CASE Verify(t)
  <2>1. UNCHANGED <<used, old, new, loaded>>
    BY <1>4 DEF Verify, preflight, replacement
  <2>2. PICK status \in Statuses : Recorded(new[t], status)
    BY <1>4 DEF Verify
  <2>3. checks' \in [Hashes -> Statuses \cup {"none"}]
    BY <2>2 DEF Recorded
  <2> QED
    BY <1>1, <2>1, <2>3
<1>5. CASE Load(t)
  <2>1. UNCHANGED <<checks, used, old, new>>
    BY <1>5 DEF Load, files, preflight
  <2>2. profile \subseteq Hashes
    BY DEF Seen
  <2>3. loaded' \in [Threads -> SUBSET Hashes]
    BY <1>5, <2>2 DEF Load
  <2> QED
    BY <1>1, <2>1, <2>3
<1>6. CASE Announce(t)
  <2>1. UNCHANGED checks /\ pc[t] = "replaced" /\ (used' = used \/ used' = {new[t]})
    BY <1>6 DEF Announce, Move, files
  <2>2. new[t] \in Hashes
    BY <2>1 DEF IssuedInv, HasNew, Hashes
  <2>3. /\ old' \in [Threads -> Hashes \cup {Nobody}] /\ new' \in [Threads -> New \cup {Nobody}]
        /\ loaded' \in [Threads -> SUBSET Hashes]
    BY <1>6 DEF Announce
  <2> QED
    BY <1>1, <2>1, <2>2, <2>3
<1>7. CASE GiveUp(t)
  <2>1. UNCHANGED <<checks, used>>
    BY <1>7 DEF GiveUp, files, preflight
  <2>2. /\ old' \in [Threads -> Hashes \cup {Nobody}] /\ new' \in [Threads -> New \cup {Nobody}]
        /\ loaded' \in [Threads -> SUBSET Hashes]
    BY <1>7 DEF GiveUp
  <2> QED
    BY <1>1, <2>1, <2>2
<1> QED
  BY <1>2, <1>3, <1>4, <1>5, <1>6, <1>7 DEF Replacing

LEMMA ValuesKept ==
    ASSUME ShapeInv, IssuedInv, Seen \subseteq Hashes, RegistryInv, ValueInv, [Next]_vars
    PROVE  ValueInv'
<1> USE DEF ValueInv
<1>1. CASE Connect
  <2>1. UNCHANGED <<checks, old, new, loaded>> /\ policy' \in Policies /\ used' = {} /\ plan' = [NoPlan EXCEPT !.local = shown]
    BY <1>1 DEF Connect, files, replacement
  <2>2. plan'.valid = {} /\ plan'.fallback = {}
    BY <2>1 DEF NoPlan
  <2> QED
    BY <2>1, <2>2
<1>2. CASE Preparing
  BY <1>2, PreparingKeepsValues
<1>3. CASE EditServer \/ Disconnect \/ CancelVKHashChecks
  BY <1>3 DEF EditServer, Disconnect, CancelVKHashChecks, files, preflight, replacement
<1>4. ASSUME NEW h \in Hashes, AddVKHash(h) \/ DeleteVKHash(h) PROVE ValueInv'
  BY <1>4 DEF AddVKHash, DeleteVKHash, preflight, replacement
<1>5. ASSUME NEW h \in Hashes, OtherCheck(h) PROVE ValueInv'
  <2>1. UNCHANGED <<policy, plan, used, old, new, loaded>>
    BY <1>5 DEF OtherCheck, preflight, replacement
  <2>2. PICK status \in Statuses : Recorded(h, status)
    BY <1>5 DEF OtherCheck
  <2>3. checks' \in [Hashes -> Statuses \cup {"none"}]
    BY <2>2 DEF Recorded
  <2> QED
    BY <2>1, <2>3
<1>6. ASSUME NEW h \in Hashes, ReplaceVKHash(h) PROVE ValueInv'
  <2>1. UNCHANGED <<checks, policy, plan, used, new, loaded>>
    BY <1>6 DEF ReplaceVKHash, files, preflight
  <2>2. old' \in [Threads -> Hashes \cup {Nobody}]
    BY <1>6 DEF ReplaceVKHash
  <2> QED
    BY <2>1, <2>2
<1>7. ASSUME NEW t \in Threads, Replacing(t) PROVE ValueInv'
  BY <1>7, ReplacingKeepsValues
<1>8. CASE DeadlinePasses \/ ProfilesUnreadable \/ UNCHANGED vars
  BY <1>8 DEF DeadlinePasses, ProfilesUnreadable, vars, files, preflight, replacement
<1>9. CASE Crash
  <2>1. UNCHANGED checks /\ policy' = DefaultPolicy /\ used' = {} /\ plan' = NoPlan
    BY <1>9 DEF Crash, files
  <2>2. plan'.valid = {} /\ plan'.fallback = {}
    BY <2>1 DEF NoPlan
  <2>3. /\ old' \in [Threads -> Hashes \cup {Nobody}] /\ new' \in [Threads -> New \cup {Nobody}]
        /\ loaded' \in [Threads -> SUBSET Hashes]
    BY <1>9 DEF Crash
  <2> QED
    BY <2>1, <2>2, <2>3 DEF DefaultPolicy, Policies
<1> QED
  BY <1>1, <1>2, <1>3, <1>4, <1>5, <1>6, <1>7, <1>8, <1>9 DEF Next, User

(* Every variable keeps its type, and the pool of the registry has entries only: whatever a       *)
(* replacement, a clean-up and a deletion remove at the same time, no InPool is left behind, and    *)
(* a replacement never replaces a hash by itself (replaceVKHashWithContext, cleanupOrphanVKHash,     *)
(* DeleteVKHash).                                                                                    *)
THEOREM TypeCorrect == Spec => []TypeOK
<1>1. Init => TypeInv
  <2> SUFFICES ASSUME Init PROVE TypeInv
    OBVIOUS
  <2>1. plan.local = {} /\ plan.unread = {} /\ plan.valid = {} /\ plan.fallback = {} /\ plan.stale = {} /\ plan.invalid = {}
    BY DEF Init, NoPlan
  <2>2. \A t \in Threads : pc[t] = "idle" /\ loaded[t] = {}
    BY DEF Init
  <2>3. Seen \subseteq Hashes
    BY <2>1, <2>2, PreflightAssumption DEF Init, Seen, Candidate, Threads, HasOld, HasNew, Hashes
  <2>4. RegistryInv
    BY <2>2, PreflightAssumption DEF Init, RegistryInv, Hashes
  <2>5. ValueInv
    BY <2>1 DEF Init, ValueInv, DefaultPolicy, Policies
  <2> QED
    BY <2>3, <2>4, <2>5 DEF TypeInv
<1>2. PreflightInv /\ TypeInv /\ [Next]_vars => TypeInv'
  <2> SUFFICES ASSUME PreflightInv, TypeInv, [Next]_vars PROVE TypeInv'
    OBVIOUS
  <2>1. \A h \in Seen' : h \in Seen \cup Old \/ Published(h)
    BY SeenAfter DEF PreflightInv
  <2>2. Seen' \subseteq Hashes
    BY <2>1 DEF TypeInv, PreflightInv, IssuedInv, Published, HasNew, Hashes
  <2> QED
    BY <2>2, RegistryKept, ValuesKept DEF TypeInv, PreflightInv
<1>3. TypeInv => TypeOK
  BY DEF TypeInv, TypeOK, RegistryInv, ValueInv, Seen
<1> QED
  BY <1>1, <1>2, <1>3, PreflightInvariant, PTL DEF Spec
=============================================================================
