--------------------------- MODULE HashOperations ---------------------------
(***************************************************************************)
(* The checks of VK hashes (backend/vk_hash_operations.go, vk_hash_manager.go, *)
(* app.go): manual checks, the check of all hashes and the preflight of a       *)
(* connection share one probe for each hash, write what it found into the       *)
(* registry, and are cancelled by the user, by Connect, by Disconnect or by a    *)
(* deadline.                                                                   *)
(*                                                                           *)
(* One server profile is selected, so a hash is its own probe key.  The probe   *)
(* itself (ProbeHash) is its result.  Which hashes a preflight asks for, and      *)
(* what it makes of the answers, is left open.                                  *)
(***************************************************************************)
EXTENDS FiniteSets

CONSTANTS
    Hashes,      \* entries of the registry: their ids
    Manuals,     \* goroutines that call CheckVKHash, one call after the other
    Bulks,       \* goroutines that call CheckAllVKHashes
    Connector,   \* the goroutine of App.Connect, in its preflight
    NoCaller     \* nobody

Callers == Manuals \cup Bulks \cup {Connector}

ASSUME HashAssumption ==
    /\ IsFiniteSet(Hashes)
    /\ NoCaller \notin Callers
    /\ Connector \notin Manuals \cup Bulks
    /\ Manuals \cap Bulks = {}

VARIABLES
    kept,        \* the entries in the registry, ids that are never given again
    inFlight,    \* [Hashes -> the caller that runs the probe of the hash, or NoCaller]
    bulkOwner,   \* the CheckAllVKHashes that set bulkCancel, or NoCaller
    at,          \* [Callers -> where the caller is inside run; "out" outside of it]
    key,         \* [Callers -> the hash it asks for]
    sharedWith,  \* [Callers -> whose probe it waits for]
    answer,      \* [Callers -> what run returns, or the probe it shares returned]
    ctx,         \* [Callers -> its context: "live", "canceled", "deadline"]
    left,        \* [Bulks -> hashes still to check]
    phase        \* [Callers -> outside of run: "idle", "busy"]

callVars == <<at, key, sharedWith, answer>>
vars == <<kept, inFlight, bulkOwner, callVars, ctx, left, phase>>

(* What run returns: a check to be written down, the status "canceled" of a probe whose own *)
(* context was cancelled, the error context.Canceled, or anything else.                      *)
Answers == {"checked", "canceled", "errCanceled", "other"}
(* Where a caller has the probe in its hands, and so the entry of inFlight. *)
Probing == {"owner", "probing", "record", "finish"}

Init ==
    /\ kept = Hashes
    /\ inFlight = [h \in Hashes |-> NoCaller]
    /\ bulkOwner = NoCaller
    /\ at = [c \in Callers |-> "out"]
    /\ key \in {[c \in Callers |-> h] : h \in Hashes}
    /\ sharedWith = [c \in Callers |-> NoCaller]
    /\ answer = [c \in Callers |-> "none"]
    /\ ctx = [c \in Callers |-> "live"]
    /\ left = [b \in Bulks |-> {}]
    /\ phase = [c \in Callers |-> "idle"]
-----------------------------------------------------------------------------
(***************************************************************************)
(* vkHashOperationState.run                                                 *)
(***************************************************************************)
Move(c, to) == at' = [at EXCEPT ![c] = to]

Answer(c, a, to) == answer' = [answer EXCEPT ![c] = a] /\ Move(c, to)

ErrOf(c) == IF ctx[c] = "canceled" THEN "errCanceled" ELSE "other"

(* Every caller becomes an owner. *)
EnterAlone(c) ==
    /\ at[c] = "enter"
    /\ inFlight' = [inFlight EXCEPT ![key[c]] = c]
    /\ Move(c, "owner")
    /\ UNCHANGED <<kept, bulkOwner, key, sharedWith, answer, ctx, left, phase>>

(* Under s.mu: join the probe in flight, or become its owner. *)
Enter(c) ==
    /\ at[c] = "enter"
    /\ IF inFlight[key[c]] = NoCaller
         THEN /\ inFlight' = [inFlight EXCEPT ![key[c]] = c]
              /\ Move(c, "owner")
              /\ sharedWith' = sharedWith
         ELSE /\ sharedWith' = [sharedWith EXCEPT ![c] = inFlight[key[c]]]
              /\ Move(c, "wait")
              /\ inFlight' = inFlight
    /\ UNCHANGED <<kept, bulkOwner, key, answer, ctx, left, phase>>

(* The owner looks at its context once before the probe; checkVKHashProbe does not start *)
(* for an entry that is not there, nor while the Bridge runs or without a readable profile. *)
StartProbe(c) ==
    /\ at[c] = "owner"
    /\ \/ ctx[c] # "live" /\ Answer(c, ErrOf(c), "finish")
       \/ ctx[c] = "live" /\ Answer(c, "other", "finish")
       \/ ctx[c] = "live" /\ key[c] \in kept /\ Move(c, "probing") /\ answer' = answer
    /\ UNCHANGED <<kept, inFlight, bulkOwner, key, sharedWith, ctx, left, phase>>

(* ProbeHash returns: a cancelled one usually, but not always, says so, and a dismissed *)
(* CAPTCHA gives it context.Canceled while its context lives.                            *)
ProbeEnds(c) ==
    /\ at[c] = "probing"
    /\ \/ Answer(c, "checked", "record")
       \/ Answer(c, "other", "finish")
       \/ ctx[c] = "canceled" /\ Answer(c, "canceled", "finish")
    /\ UNCHANGED <<kept, inFlight, bulkOwner, key, sharedWith, ctx, left, phase>>

(* The registry is read again, changed and saved under vkHashRegistryMu. *)
Record(c) ==
    /\ at[c] = "record"
    /\ \/ /\ key[c] \in kept
          /\ kept' = kept \cup {key[c]}
          /\ Move(c, "finish") /\ answer' = answer
       \/ key[c] \notin kept /\ Move(c, "finish") /\ UNCHANGED <<kept, answer>>
       \/ Answer(c, "other", "finish") /\ kept' = kept
    /\ UNCHANGED <<inFlight, bulkOwner, key, sharedWith, ctx, left, phase>>

(* The deferred function: the entry is deleted and done is closed under s.mu. *)
Finish(c) ==
    LET told == {w \in Callers : at[w] = "wait" /\ sharedWith[w] = c} IN
    /\ at[c] = "finish"
    /\ inFlight' = [inFlight EXCEPT ![key[c]] = NoCaller]
    /\ at' = [w \in Callers |-> IF w = c THEN "back" ELSE IF w \in told THEN "told" ELSE at[w]]
    /\ answer' = [w \in Callers |-> IF w \in told THEN answer[c] ELSE answer[w]]
    /\ UNCHANGED <<kept, bulkOwner, key, sharedWith, ctx, left, phase>>

(* existing.done is closed: its result, or once more when it was cancelled at its start. *)
Told(w) ==
    /\ at[w] = "told"
    /\ Move(w, IF answer[w] = "errCanceled" /\ ctx[w] = "live" THEN "enter" ELSE "back")
    /\ sharedWith' = [sharedWith EXCEPT ![w] = NoCaller]
    /\ UNCHANGED <<kept, inFlight, bulkOwner, key, answer, ctx, left, phase>>

(* ctx.Done, which the select may also take when both are ready. *)
WaitEnds(w) ==
    /\ at[w] \in {"wait", "told"}
    /\ ctx[w] # "live"
    /\ Answer(w, ErrOf(w), "back")
    /\ sharedWith' = [sharedWith EXCEPT ![w] = NoCaller]
    /\ UNCHANGED <<kept, inFlight, bulkOwner, key, ctx, left, phase>>

RunStep(c) ==
    \/ Enter(c) \/ StartProbe(c) \/ ProbeEnds(c) \/ Record(c) \/ Finish(c)
    \/ Told(c) \/ WaitEnds(c)

(* A caller enters run for hash h. *)
Ask(c, h) ==
    /\ key' = [key EXCEPT ![c] = h]
    /\ Move(c, "enter")
    /\ UNCHANGED <<sharedWith, answer>>

(* Back in its caller, which has read the answer; nobody looks at it again. *)
Leave(c) == Answer(c, "none", "out") /\ UNCHANGED <<key, sharedWith>>
-----------------------------------------------------------------------------
(***************************************************************************)
(* The user: entries of the registry, manual checks, the check of all        *)
(***************************************************************************)

(* DeleteVKHash or cleanupOrphanVKHash of an entry that no profile uses. *)
DeleteVKHash(h) ==
    /\ h \in kept
    /\ kept' = kept \ {h}
    /\ UNCHANGED <<inFlight, bulkOwner, callVars, ctx, left, phase>>

(* c begins or ends one of the calls the frontend makes. *)
Enters(c, to) == phase' = [phase EXCEPT ![c] = to]

BeginManual(m, h) ==
    /\ phase[m] = "idle"
    /\ Enters(m, "busy")
    /\ Ask(m, h)
    /\ UNCHANGED <<kept, inFlight, bulkOwner, ctx, left>>

EndManual(m) ==
    /\ phase[m] = "busy" /\ at[m] = "back"
    /\ Enters(m, "idle")
    /\ ctx' = [ctx EXCEPT ![m] = "live"]
    /\ Leave(m)
    /\ UNCHANGED <<kept, inFlight, bulkOwner, left>>

(* beginBulk; the targets are the entries in the pool or used by the profile. *)
BeginBulk(b) ==
    /\ phase[b] = "idle" /\ bulkOwner = NoCaller
    /\ bulkOwner' = b
    /\ Enters(b, "busy")
    /\ \E targets \in SUBSET kept : left' = [left EXCEPT ![b] = targets]
    /\ UNCHANGED <<kept, inFlight, callVars, ctx>>

(* One worker takes the jobs (vkHashBulkConcurrency). *)
TakeJob(b, h) ==
    /\ phase[b] = "busy" /\ at[b] = "out" /\ ctx[b] = "live" /\ h \in left[b]
    /\ left' = [left EXCEPT ![b] = @ \ {h}]
    /\ Ask(b, h)
    /\ UNCHANGED <<kept, inFlight, bulkOwner, ctx, phase>>

JobDone(b) ==
    /\ phase[b] = "busy" /\ at[b] = "back"
    /\ Leave(b)
    /\ UNCHANGED <<kept, inFlight, bulkOwner, ctx, left, phase>>

(* The feeder does not look at the context. *)
EndBulkWhenEmpty(b) ==
    /\ phase[b] = "busy" /\ at[b] = "out" /\ left[b] = {}
    /\ bulkOwner' = NoCaller
    /\ Enters(b, "idle")
    /\ left' = [left EXCEPT ![b] = {}]
    /\ ctx' = [ctx EXCEPT ![b] = "live"]
    /\ UNCHANGED <<kept, inFlight, callVars>>

(* Feeder, worker and collector end; done takes bulkCancel back. *)
EndBulk(b) ==
    /\ phase[b] = "busy" /\ at[b] = "out"
    /\ left[b] = {} \/ ctx[b] # "live"
    /\ bulkOwner' = NoCaller
    /\ Enters(b, "idle")
    /\ left' = [left EXCEPT ![b] = {}]
    /\ ctx' = [ctx EXCEPT ![b] = "live"]
    /\ UNCHANGED <<kept, inFlight, callVars>>

(* cancelInteractive reaches every manual check and the check of all. *)
Interrupted(c) == c # Connector /\ phase[c] # "idle" /\ ctx[c] = "live"

CancelVKHashChecks ==
    /\ \E c \in Callers : Interrupted(c)
    /\ ctx' = [c \in Callers |-> IF Interrupted(c) THEN "canceled" ELSE ctx[c]]
    /\ UNCHANGED <<kept, inFlight, bulkOwner, callVars, left, phase>>

(* The 15 s of a preflight.  The 30 s of the check that AddVKHash starts are those of the *)
(* probe itself.                                                                           *)
DeadlinePasses ==
    /\ phase[Connector] = "busy" /\ ctx[Connector] = "live"
    /\ ctx' = [ctx EXCEPT ![Connector] = "deadline"]
    /\ UNCHANGED <<kept, inFlight, bulkOwner, callVars, left, phase>>
-----------------------------------------------------------------------------
(***************************************************************************)
(* App.Connect                                                              *)
(***************************************************************************)

(* The interactive checks are cancelled first; connectCancel excludes another Connect. *)
Connect ==
    /\ phase[Connector] = "idle"
    /\ ctx' = [c \in Callers |-> IF Interrupted(c) THEN "canceled" ELSE ctx[c]]
    /\ Enters(Connector, "busy")
    /\ UNCHANGED <<kept, inFlight, bulkOwner, callVars, left>>

(* prepareVKHashes checks a candidate. *)
PreflightAsks(h) ==
    /\ phase[Connector] = "busy" /\ at[Connector] = "out" /\ ctx[Connector] = "live"
    /\ Ask(Connector, h)
    /\ UNCHANGED <<kept, inFlight, bulkOwner, ctx, left, phase>>

PreflightAnswered ==
    /\ at[Connector] = "back"
    /\ Leave(Connector)
    /\ UNCHANGED <<kept, inFlight, bulkOwner, ctx, left, phase>>

(* The preflight is over; Connect fails or hands over to the Bridge. *)
EndConnect ==
    /\ phase[Connector] = "busy" /\ at[Connector] = "out"
    /\ Enters(Connector, "idle")
    /\ ctx' = [ctx EXCEPT ![Connector] = "live"]
    /\ UNCHANGED <<kept, inFlight, bulkOwner, callVars, left>>

(* Disconnect cancels connectCtx; after the deadline it makes no difference to the probes. *)
Disconnect ==
    /\ phase[Connector] = "busy" /\ ctx[Connector] = "live"
    /\ ctx' = [ctx EXCEPT ![Connector] = "canceled"]
    /\ UNCHANGED <<kept, inFlight, bulkOwner, callVars, left, phase>>

BulkStep(b) == JobDone(b) \/ EndBulk(b) \/ \E h \in Hashes : TakeJob(b, h)

Next ==
    \/ \E c \in Callers : RunStep(c)
    \/ \E h \in Hashes : DeleteVKHash(h) \/ PreflightAsks(h)
    \/ \E m \in Manuals : EndManual(m) \/ \E h \in Hashes : BeginManual(m, h)
    \/ \E b \in Bulks : BeginBulk(b) \/ BulkStep(b)
    \/ CancelVKHashChecks \/ DeadlinePasses \/ Connect \/ PreflightAnswered \/ EndConnect \/ Disconnect

Spec == Init /\ [][Next]_vars

(* Goroutines that can run are run; a probe is bounded by its 30 s.  The user is not fair. *)
FairSpec ==
    /\ Spec
    /\ \A m \in Manuals : WF_vars(RunStep(m) \/ EndManual(m))
    /\ \A b \in Bulks : WF_vars(RunStep(b) \/ BulkStep(b))
    /\ WF_vars(RunStep(Connector) \/ PreflightAnswered \/ EndConnect)
-----------------------------------------------------------------------------
(***************************************************************************)
(* Properties                                                               *)
(***************************************************************************)
(* Types; a cancelled probe is never written into the registry (vk_hash_manager.go:583). *)
TypeOK ==
    /\ kept \subseteq Hashes
    /\ inFlight \in [Hashes -> Callers \cup {NoCaller}]
    /\ bulkOwner \in Bulks \cup {NoCaller}
    /\ at \in [Callers -> {"out", "enter", "wait", "told", "back"} \cup Probing]
    /\ key \in [Callers -> Hashes]
    /\ sharedWith \in [Callers -> Callers \cup {NoCaller}]
    /\ answer \in [Callers -> Answers \cup {"none"}]
    /\ ctx \in [Callers -> {"live", "canceled", "deadline"}]
    /\ left \in [Bulks -> SUBSET Hashes]
    /\ phase \in [Callers -> {"idle", "busy"}]
    /\ \A c \in Callers : at[c] = "record" => answer[c] = "checked"

(* Each hash is probed by at most one caller, inFlight names exactly that one, and     *)
(* whoever waits shares its probe of the same hash; bulkCancel is set exactly while a   *)
(* check of all runs (vk_hash_operations.go:46-67, 76-101).                              *)
InFlightIsExact ==
    /\ \A h \in Hashes, c \in Callers : inFlight[h] = c <=> at[c] \in Probing /\ key[c] = h
    /\ \A w \in Callers : at[w] = "wait" => inFlight[key[w]] = sharedWith[w] /\ sharedWith[w] # NoCaller
    /\ \A b \in Bulks : bulkOwner = b <=> phase[b] # "idle"

(* The result of a probe of half a minute does not bring back an entry that was         *)
(* deleted meanwhile (the second look, vk_hash_manager.go:602-612).                      *)
DeletedStaysDeleted == [][kept' \subseteq kept]_vars

(* A caller whose context ended comes to its end, wherever it is and whatever the probe *)
(* it shares does (CancelVKHashChecks, Connect, Disconnect, the 15 s of a preflight).     *)
CancelledEnds == \A c \in Callers : (phase[c] # "idle" /\ ctx[c] # "live") ~> (phase[c] = "idle")

(* A probe shared with a caller that was cancelled is retried by the others:             *)
(* TestVKHashOperationStateRetriesCanceledSharedProbe.  The code does not do this: the   *)
(* retry looks for an error, and a cancelled probe is a status (vk_hash_manager.go:590).  *)
OnlyOwnCancellation == \A c \in Callers : at[c] = "back" /\ ctx[c] = "live" => answer[c] # "canceled"
=============================================================================
