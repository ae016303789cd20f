------------------------ MODULE HashOperationsProofs ------------------------
(***************************************************************************)
(* Theorems about HashOperations, for any set of hashes and of callers.       *)
(***************************************************************************)
EXTENDS HashOperations, TLAPS

(* A caller that makes no call of the frontend is not inside run either. *)
IdleIsOut == \A c \in Callers : phase[c] = "idle" => at[c] = "out"

HashInv == TypeOK /\ InFlightIsExact /\ IdleIsOut

(* The invariant holds at the start. *)
LEMMA InitHash == ASSUME Init PROVE HashInv
<1>1. TypeOK
  BY HashAssumption DEF Init, TypeOK, Callers, Answers
<1>2. InFlightIsExact
  BY HashAssumption DEF Init, InFlightIsExact, Callers, Probing
<1>3. IdleIsOut
  BY DEF Init, IdleIsOut
<1> QED
  BY <1>1, <1>2, <1>3 DEF HashInv

(* The steps inside run keep the invariant: whoever holds the entry of a hash is the one *)
(* caller that probes it, and Finish tells exactly those that share its probe.            *)
LEMMA RunKeeps ==
    ASSUME HashInv, NEW c \in Callers, RunStep(c)
    PROVE  HashInv'
<1> USE DEF HashInv, TypeOK, InFlightIsExact, IdleIsOut, Answers, Probing, Move, Answer, ErrOf
<1>1. CASE Enter(c)
  BY <1>1, HashAssumption DEF Enter
<1>2. CASE StartProbe(c)
  BY <1>2 DEF StartProbe
<1>3. CASE ProbeEnds(c)
  BY <1>3 DEF ProbeEnds
<1>4. CASE Record(c)
  BY <1>4 DEF Record
<1>5. CASE Finish(c)
  BY <1>5, HashAssumption DEF Finish
<1>6. CASE Told(c)
  BY <1>6 DEF Told
<1>7. CASE WaitEnds(c)
  BY <1>7 DEF WaitEnds
<1> QED
  BY <1>1, <1>2, <1>3, <1>4, <1>5, <1>6, <1>7 DEF RunStep

(* What happens outside of run keeps the invariant. *)
LEMMA CallsKeep ==
    ASSUME HashInv, Next, ~ \E c \in Callers : RunStep(c)
    PROVE  HashInv'
<1> USE HashAssumption DEF HashInv, TypeOK, InFlightIsExact, IdleIsOut, Answers, Probing, Callers,
                           Move, Answer, Ask, Leave, Enters, callVars
<1>1. ASSUME NEW h \in Hashes, DeleteVKHash(h) PROVE HashInv'
  BY <1>1 DEF DeleteVKHash
<1>2. ASSUME NEW h \in Hashes, PreflightAsks(h) PROVE HashInv'
  BY <1>2 DEF PreflightAsks
<1>3. ASSUME NEW m \in Manuals, NEW h \in Hashes, BeginManual(m, h) PROVE HashInv'
  BY <1>3 DEF BeginManual
<1>4. ASSUME NEW m \in Manuals, EndManual(m) PROVE HashInv'
  BY <1>4 DEF EndManual
<1>5. ASSUME NEW b \in Bulks, BeginBulk(b) PROVE HashInv'
  BY <1>5 DEF BeginBulk
<1>6. ASSUME NEW b \in Bulks, NEW h \in Hashes, TakeJob(b, h) PROVE HashInv'
  BY <1>6 DEF TakeJob
<1>7. ASSUME NEW b \in Bulks, JobDone(b) PROVE HashInv'
  BY <1>7 DEF JobDone
<1>8. ASSUME NEW b \in Bulks, EndBulk(b) PROVE HashInv'
  BY <1>8 DEF EndBulk
<1>9. CASE CancelVKHashChecks
  BY <1>9 DEF CancelVKHashChecks
<1>10. CASE DeadlinePasses
  BY <1>10 DEF DeadlinePasses
<1>11. CASE Connect
  BY <1>11 DEF Connect
<1>12. CASE PreflightAnswered
  BY <1>12 DEF PreflightAnswered
<1>13. CASE EndConnect
  BY <1>13 DEF EndConnect
<1>14. CASE Disconnect
  BY <1>14 DEF Disconnect
<1> QED
  BY <1>1, <1>2, <1>3, <1>4, <1>5, <1>6, <1>7, <1>8, <1>9, <1>10, <1>11, <1>12, <1>13, <1>14
     DEF Next, BulkStep

(* Every probe of a hash is known to all, and to nobody else (vk_hash_operations.go:46-67). *)
THEOREM HashInvariant == Spec => []HashInv
<1>1. ASSUME HashInv, [Next]_vars PROVE HashInv'
  <2>1. CASE Next
    BY <1>1, <2>1, RunKeeps, CallsKeep
  <2>2. CASE UNCHANGED vars
    BY <1>1, <2>2 DEF vars, callVars, HashInv, TypeOK, InFlightIsExact, IdleIsOut
  <2> QED
    BY <1>1, <2>1, <2>2
<1> QED
  BY InitHash, <1>1, PTL DEF Spec

(* Types of every reachable state; a cancelled probe is never written down. *)
THEOREM TypeCorrect == Spec => []TypeOK
<1>1. HashInv => TypeOK
  BY DEF HashInv
<1> QED
  BY <1>1, HashInvariant, PTL

(* One probe for each hash, shared by all who ask for it meanwhile. *)
THEOREM SingleFlight == Spec => []InFlightIsExact
<1>1. HashInv => InFlightIsExact
  BY DEF HashInv
<1> QED
  BY <1>1, HashInvariant, PTL

(* No step brings a deleted entry back (vk_hash_manager.go:602-612). *)
THEOREM DeletedStays == Spec => DeletedStaysDeleted
<1>1. ASSUME [Next]_vars PROVE [kept' \subseteq kept]_vars
  <2>1. ASSUME NEW c \in Callers, RunStep(c) PROVE kept' \subseteq kept
    BY <2>1 DEF RunStep, Enter, StartProbe, ProbeEnds, Record, Finish, Told, WaitEnds
  <2>2. ASSUME NEW h \in Hashes, DeleteVKHash(h) PROVE kept' \subseteq kept
    BY <2>2 DEF DeleteVKHash
  <2>3. ASSUME Next, ~ \E c \in Callers : RunStep(c), ~ \E h \in Hashes : DeleteVKHash(h)
        PROVE  kept' = kept
    BY <2>3 DEF Next, BulkStep, PreflightAsks, EndManual, BeginManual, BeginBulk, JobDone, EndBulk,
                TakeJob, CancelVKHashChecks, DeadlinePasses, Connect, PreflightAnswered,
                EndConnect, Disconnect
  <2> QED
    BY <1>1, <2>1, <2>2, <2>3
<1> QED
  BY <1>1, PTL DEF Spec, DeletedStaysDeleted
=============================================================================
