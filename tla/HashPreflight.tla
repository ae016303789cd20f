----------------------------- MODULE HashPreflight -----------------------------
(***************************************************************************)
(* Which VK hashes a connection uses (backend/vk_hash_manager.go,            *)
(* prepareVKHashes; app.go, Connect), and the replacement of a hash by a new  *)
(* one, automatic in the preflight or asked for by the user.  Both work on    *)
(* two files, the profile of the server and the registry of the hashes, which  *)
(* no common lock joins, while the user edits the server and deletes hashes.   *)
(*                                                                           *)
(* One server is looked at.  An entry is identified with its hash.  The         *)
(* probe and the sharing of probes (HashOperations) are what they answer.       *)
(***************************************************************************)
EXTENDS Naturals, FiniteSets

CONSTANTS
    Old,                  \* hashes that exist from the start
    Named, Pooled,        \* those of the server, and those in the pool
    New,                  \* hashes VK can be asked to create
    Elsewhere,            \* the hashes that another server names
    MaxAutoReplacements,  \* maxAutoReplacements, 2 in the code
    MaxConnects,          \* bound: calls of App.Connect
    MaxEdits,             \* bound: changes of the user, of the clock and of other checks
    MaxFaults             \* bound: file operations that fail, crashes

Hashes == Old \cup New
Connector == "Connect"      \* the goroutine of App.Connect
Editor == "ReplaceVKHash"   \* the goroutine of App.ReplaceVKHash
Threads == {Connector, Editor}

ASSUME PreflightAssumption ==
    /\ IsFiniteSet(Old) /\ IsFiniteSet(New) /\ Old \cap New = {}
    /\ Named \subseteq Old /\ Pooled \subseteq Old /\ Elsewhere \subseteq Old
    /\ {MaxAutoReplacements, MaxConnects, MaxEdits, MaxFaults} \subseteq Nat

VARIABLES
    profile,     \* the hashes in the profile of the server
    entries,     \* the hashes in the registry
    pool,        \* those with InPool
    checks,      \* [Hashes -> the stored check for this server]
    fresh,       \* the checks that are inside their TTL for the clock of this preflight
    shown,       \* the hashes of the server in the frontend
    readable,    \* the directory of the profiles can be read
    pc,          \* [Threads -> where the thread is]
    cancelled,   \* [Threads -> its own context was cancelled]
    expired,     \* vkHashPreflightTimeout passed
    policy,      \* mode, AutoCheck and AutoReplace of this connection
    plan,        \* what the preflight made of its candidates
    used,        \* the hashes it hands over
    old, new,    \* [Threads -> the hash it replaces and the one VK created for it]
    loaded,      \* [Threads -> the hashes of the profile it loaded]
    swapped,     \* [Threads -> localReplaced]
    good,        \* history: the created hashes that a probe found valid
    lost,        \* history: a profile was saved over a newer one
    unregistered, \* history: hashes that a save put into the profile before or without their entry
    created,     \* history: how many hashes VK created for this connection
    issued,      \* history: every hash VK created
    connects, edits, faults

files == <<profile, entries, pool, checks>>
replacement == <<old, new, loaded, swapped>>
history == <<good, lost, unregistered, created, issued>>
counters == <<connects, edits, faults>>
preflight == <<expired, policy, plan, used>>
vars == <<files, fresh, shown, readable, pc, cancelled, preflight, replacement, history, counters>>

Statuses == {"valid", "invalid", "error"}
Nobody == "none"

NoPlan == [local |-> {}, unread |-> {}, valid |-> {}, fallback |-> {}, stale |-> {}, invalid |-> {}, probed |-> Nobody, untried |-> {}, tries |-> 0]

(* Nothing is replaced without AutoCheck. *)
DefaultPolicy == [mode |-> "local", check |-> TRUE, replace |-> FALSE]
Policies ==
    {p \in [mode : {"local", "local+pool", "pool"}, check : BOOLEAN, replace : BOOLEAN] : p.replace => p.check}

Init ==
    /\ profile = Named /\ shown = Named /\ entries = Old /\ pool = Pooled
    /\ checks = [h \in Hashes |-> "none"]
    /\ fresh = {} /\ readable = TRUE
    /\ pc = [t \in Threads |-> "idle"]
    /\ cancelled = [t \in Threads |-> FALSE]
    /\ expired = FALSE
    /\ policy = DefaultPolicy
    /\ plan = NoPlan /\ used = {}
    /\ old = [t \in Threads |-> Nobody] /\ new = [t \in Threads |-> Nobody]
    /\ loaded = [t \in Threads |-> {}]
    /\ swapped = [t \in Threads |-> FALSE]
    /\ good = {} /\ lost = FALSE /\ unregistered = {} /\ created = 0 /\ issued = {}
    /\ connects = 0 /\ edits = 0 /\ faults = 0
-----------------------------------------------------------------------------
Move(t, from, to) == pc[t] = from /\ pc' = [pc EXCEPT ![t] = to]

Fault == faults < MaxFaults /\ faults' = faults + 1 /\ UNCHANGED <<connects, edits>>
Edit == edits < MaxEdits /\ edits' = edits + 1 /\ UNCHANGED <<connects, faults>>

(* Mutant: the preflight works under the context of Connect alone. *)
CtxErrOfParent(t) == cancelled[t]

(* ctx.Err(): the deadline of the preflight also ends the replacement it started. *)
CtxErr(t) == cancelled[t] \/ (t = Connector /\ expired)

(* profilesUsingVKHash for an entry that is not in the pool; ListProfiles is empty when the *)
(* directory cannot be read.                                                                *)
InUse(h) == readable /\ h \in profile \cup Elsewhere

(* ListVKHashes. *)
Listed == {h \in entries : h \in pool \/ InUse(h)}
-----------------------------------------------------------------------------
(***************************************************************************)
(* App.Connect and prepareVKHashes up to the candidates.                      *)
(***************************************************************************)
(* A Connect cancels the replacement the user asked for and does not wait for it.  A      *)
(* server without a name, or AutoCheck off, takes every candidate.                        *)
Connect ==
    /\ Move(Connector, "idle", "sync")
    /\ connects < MaxConnects /\ connects' = connects + 1
    /\ policy' \in Policies
    /\ cancelled' = [t \in Threads |-> t = Editor /\ pc[Editor] # "idle"]
    /\ expired' = FALSE /\ used' = {}
    /\ plan' = [NoPlan EXCEPT !.local = shown] /\ created' = 0
    /\ UNCHANGED <<files, fresh, shown, readable, replacement, good, lost, unregistered, issued, edits, faults>>

(* SyncProfileVKSettings saves the profile, then registers its hashes. *)
Sync ==
    /\ \/ /\ readable /\ Move(Connector, "sync", "register")
          /\ profile' = plan.local /\ unregistered' = plan.local \ entries
       \/ ~readable /\ Move(Connector, "sync", "failed") /\ UNCHANGED <<profile, unregistered>>
    /\ UNCHANGED <<entries, pool, checks, fresh, shown, readable, cancelled, preflight, replacement>>
    /\ UNCHANGED <<good, lost, created, issued, counters>>

(* ensureVKHashEntry for each of them. *)
Entered(hashes) ==
    /\ entries' = entries \cup hashes
    /\ unregistered' = unregistered \ hashes

(* registerLocalVKHashes and candidateVKHashes: each local hash gets an entry.  The clock of *)
(* the preflight is read here: some of the stored checks are inside their TTL.               *)
Register ==
    /\ \/ Move(Connector, "register", "candidates") /\ Entered(plan.local) /\ UNCHANGED counters
       \/ Move(Connector, "register", "failed") /\ Fault /\ UNCHANGED <<entries, unregistered>>
    /\ UNCHANGED <<profile, pool, checks, fresh, shown, readable, cancelled, preflight, replacement>>
    /\ UNCHANGED <<good, lost, created, issued>>

Candidates ==
    LET found == (IF policy.mode = "pool" THEN {} ELSE plan.local)
                 \cup (IF policy.mode = "local" THEN {} ELSE pool) IN
    /\ \/ found = {} /\ Move(Connector, "candidates", "failed") /\ UNCHANGED <<plan, used, fresh>>
       \/ /\ found # {} /\ ~policy.check
          /\ Move(Connector, "candidates", "use")
          /\ used' = found /\ UNCHANGED <<plan, fresh>>
       \/ /\ found # {} /\ policy.check
          /\ Move(Connector, "candidates", "read")
          /\ plan' = [plan EXCEPT !.unread = found, !.untried = found]
          /\ fresh' \in SUBSET {h \in found : checks[h] # "none"}
          /\ UNCHANGED used
    /\ Entered(plan.local)
    /\ UNCHANGED <<profile, pool, checks, shown, readable, cancelled, expired, policy, replacement>>
    /\ UNCHANGED <<good, lost, created, issued, counters>>
-----------------------------------------------------------------------------
(***************************************************************************)
(* The stored checks, and what they decide.                                   *)
(***************************************************************************)
(* storedVKHashCheck and isVKHashCheckFresh, one candidate after the other. *)
ReadCheck(h) ==
    LET known == h \in fresh /\ h \in entries IN
    /\ pc[Connector] = "read" /\ h \in plan.unread
    /\ plan' = [plan EXCEPT
         !.unread = @ \ {h},
         !.stale = IF known THEN @ ELSE @ \cup {h},
         !.fallback = IF known /\ checks[h] = "invalid" THEN @ ELSE @ \cup {h},
         !.valid = IF known /\ checks[h] = "valid" THEN @ \cup {h} ELSE @,
         !.invalid = IF known /\ checks[h] = "invalid" THEN @ \cup {h} ELSE @]
    /\ UNCHANGED <<files, fresh, shown, readable, pc, cancelled, expired, policy, used, replacement, history, counters>>

(* Fresh valid ones first; else, after a recent error, all that is not known to be bad; else *)
(* the stale ones are probed within 15 s.                                                    *)
Decide ==
    LET failing == \E h \in plan.fallback \cap fresh \cap entries : checks[h] = "error" IN
    /\ plan.unread = {}
    /\ \/ plan.valid # {} /\ Move(Connector, "read", "use") /\ used' = plan.valid
       \/ plan.valid = {} /\ failing /\ Move(Connector, "read", "use") /\ used' = plan.fallback
       \/ plan.valid = {} /\ ~failing /\ Move(Connector, "read", "check") /\ UNCHANGED used
    /\ UNCHANGED <<files, fresh, shown, readable, cancelled, expired, policy, plan, replacement, history, counters>>

(* What a probe writes down is younger than the clock of the preflight, hence not fresh. *)
Recorded(h, status) ==
    /\ checks' = IF h \in entries THEN [checks EXCEPT ![h] = status] ELSE checks
    /\ fresh' = fresh \ {h}
    /\ good' = IF status = "valid" /\ h \in New THEN good \cup {h} ELSE good

(* checkVKHashCoordinated for a stale candidate, which asks for its entry first. *)
BeginCheck(h) ==
    /\ h \in plan.stale /\ h \in entries /\ ~CtxErr(Connector)
    /\ Move(Connector, "check", "probe")
    /\ plan' = [plan EXCEPT !.stale = @ \ {h}, !.probed = h]
    /\ UNCHANGED <<files, fresh, shown, readable, cancelled, expired, policy, used, replacement, history, counters>>

(* A valid one ends the preflight, an error ends it with what is left, an invalid one is     *)
(* crossed out.                                                                              *)
ProbeAnswers ==
    LET h == plan.probed IN
    /\ \E status \in Statuses :
         /\ Recorded(h, status)
         /\ \/ status = "valid" /\ Move(Connector, "probe", "use") /\ used' = {h} /\ UNCHANGED plan
            \/ /\ status = "error" /\ Move(Connector, "probe", "use")
               /\ used' = plan.fallback \ plan.invalid /\ UNCHANGED plan
            \/ /\ status = "invalid" /\ Move(Connector, "probe", "check")
               /\ plan' = [plan EXCEPT !.invalid = @ \cup {h}] /\ UNCHANGED used
    /\ UNCHANGED <<profile, entries, pool, shown, readable, cancelled, expired, policy, replacement, lost, unregistered, created, issued, counters>>

(* The status "canceled", of the own context or of a caller the probe was shared with: the  *)
(* break leaves the switch, and the loop goes on.                                           *)
ProbeCanceled ==
    /\ Move(Connector, "probe", "check")
    /\ UNCHANGED <<files, fresh, shown, readable, cancelled, preflight, replacement, history, counters>>

(* Any other error of the check ends the Connect: the entry is gone, the Bridge runs, a file *)
(* cannot be read or written.                                                                *)
CheckFails ==
    /\ \/ Move(Connector, "probe", "failed")
       \/ Move(Connector, "check", "failed") /\ ~CtxErr(Connector) /\ plan.stale # {}
    /\ UNCHANGED <<files, fresh, shown, readable, cancelled, preflight, replacement, history, counters>>

(* Nothing is left to check, or the context ended. *)
ChecksDone ==
    /\ plan.stale = {} \/ CtxErr(Connector)
    /\ Move(Connector, "check", "final")
    /\ UNCHANGED <<files, fresh, shown, readable, cancelled, preflight, replacement, history, counters>>

(* Mutant: the fallback is not filtered by what the probes found. *)
FinalUnfiltered ==
    /\ \/ cancelled[Connector] /\ Move(Connector, "final", "failed") /\ UNCHANGED used
       \/ /\ ~cancelled[Connector] /\ plan.fallback # {}
          /\ Move(Connector, "final", "use") /\ used' = plan.fallback
       \/ /\ ~cancelled[Connector] /\ plan.fallback = {} /\ UNCHANGED used
          /\ Move(Connector, "final", IF policy.replace THEN "replace" ELSE "failed")
    /\ UNCHANGED <<files, fresh, shown, readable, cancelled, expired, policy, plan, replacement, history, counters>>

(* What was not found invalid is used although it could not be checked; only when nothing is *)
(* left, and the policy says so, hashes are replaced.                                        *)
Final ==
    LET usable == plan.fallback \ plan.invalid IN
    /\ \/ cancelled[Connector] /\ Move(Connector, "final", "failed") /\ UNCHANGED used
       \/ /\ ~cancelled[Connector] /\ usable # {}
          /\ Move(Connector, "final", "use") /\ used' = usable
       \/ /\ ~cancelled[Connector] /\ usable = {} /\ UNCHANGED used
          /\ Move(Connector, "final", IF policy.replace THEN "replace" ELSE "failed")
    /\ UNCHANGED <<files, fresh, shown, readable, cancelled, expired, policy, plan, replacement, history, counters>>
-----------------------------------------------------------------------------
(***************************************************************************)
(* The automatic replacements, and the end of Connect.                        *)
(***************************************************************************)
(* Mutant: only the attempts that succeed are counted. *)
AutoReplaceUncounted(h) ==
    /\ ~CtxErr(Connector) /\ h \in plan.untried \cap plan.invalid /\ plan.tries < MaxAutoReplacements
    /\ Move(Connector, "replace", IF h \in Listed THEN "generate" ELSE "replaceFailed")
    /\ plan' = [plan EXCEPT !.untried = @ \ {h}]
    /\ old' = [old EXCEPT ![Connector] = h]
    /\ UNCHANGED <<files, fresh, shown, readable, cancelled, expired, policy, used, new, loaded, swapped, history, counters>>

AutoReplace(h) ==
    /\ ~CtxErr(Connector) /\ h \in plan.untried \cap plan.invalid /\ plan.tries < MaxAutoReplacements
    /\ Move(Connector, "replace", IF h \in Listed THEN "generate" ELSE "replaceFailed")
    /\ plan' = [plan EXCEPT !.untried = @ \ {h}, !.tries = @ + 1]
    /\ old' = [old EXCEPT ![Connector] = h]
    /\ UNCHANGED <<files, fresh, shown, readable, cancelled, expired, policy, used, new, loaded, swapped, history, counters>>

NoMoreReplacements ==
    /\ CtxErr(Connector) \/ plan.tries = MaxAutoReplacements \/ plan.untried \cap plan.invalid = {}
    /\ Move(Connector, "replace", "failed")
    /\ UNCHANGED <<files, fresh, shown, readable, cancelled, preflight, replacement, history, counters>>

(* App.Connect looks at its context once more before it hands the hashes to the Bridge. *)
HandOver ==
    /\ Move(Connector, "use", IF cancelled[Connector] THEN "failed" ELSE "connected")
    /\ UNCHANGED <<files, fresh, shown, readable, cancelled, preflight, replacement, history, counters>>

Returns ==
    /\ pc[Connector] \in {"failed", "connected"}
    /\ pc' = [pc EXCEPT ![Connector] = "idle"]
    /\ policy' = DefaultPolicy /\ plan' = NoPlan /\ used' = {} /\ fresh' = {} /\ expired' = FALSE
    /\ created' = 0
    /\ cancelled' = [cancelled EXCEPT ![Connector] = FALSE]
    /\ UNCHANGED <<files, shown, readable, replacement, good, lost, unregistered, issued, counters>>

Preparing ==
    \/ Sync \/ Register \/ Candidates
    \/ \E h \in Hashes : ReadCheck(h)
    \/ Decide
    \/ \E h \in Hashes : BeginCheck(h)
    \/ ProbeAnswers \/ ProbeCanceled \/ CheckFails \/ ChecksDone \/ Final
    \/ \E h \in Hashes : AutoReplace(h)
    \/ NoMoreReplacements \/ HandOver \/ Returns
-----------------------------------------------------------------------------
(***************************************************************************)
(* replaceVKHashWithContext, in either thread.                                *)
(***************************************************************************)
(* ReplaceVKHash of the frontend, for an entry of its list. *)
ReplaceVKHash(h) ==
    /\ Edit /\ h \in Listed
    /\ Move(Editor, "idle", "generate")
    /\ old' = [old EXCEPT ![Editor] = h]
    /\ cancelled' = [cancelled EXCEPT ![Editor] = FALSE]
    /\ UNCHANGED <<files, fresh, shown, readable, preflight, new, loaded, swapped, history>>

(* VK creates a hash; the user may have to sign in first.  A link that is listed already is  *)
(* asked for again, and VK is taken to give no two calls the same link; which of the links     *)
(* not given yet it is makes no difference.                                                    *)
Generate(t) ==
    /\ Move(t, "generate", IF CtxErr(t) THEN "replaceFailed" ELSE "enter")
    /\ New \ issued # {}
    /\ LET h == CHOOSE x \in New \ issued : TRUE IN
         new' = [new EXCEPT ![t] = h] /\ issued' = issued \cup {h}
    /\ created' = IF t = Connector THEN created + 1 ELSE created
    /\ UNCHANGED <<files, fresh, shown, readable, cancelled, preflight, old, loaded, swapped>>
    /\ UNCHANGED <<good, lost, unregistered, counters>>

GenerateFails(t) ==
    /\ Move(t, "generate", "replaceFailed")
    /\ UNCHANGED <<files, fresh, shown, readable, cancelled, preflight, replacement, history, counters>>

(* The new entry is outside of the pool. *)
Enter(t) ==
    /\ \/ Move(t, "enter", "verify") /\ entries' = entries \cup {new[t]} /\ UNCHANGED counters
       \/ Move(t, "enter", "replaceFailed") /\ Fault /\ UNCHANGED entries
    /\ UNCHANGED <<profile, pool, checks, fresh, shown, readable, cancelled, preflight, replacement, history>>

(* Mutant: whatever the probe says, the hash is taken. *)
VerifyNothing(t) ==
    /\ \E status \in Statuses : Recorded(new[t], status) /\ Move(t, "verify", "load")
    /\ UNCHANGED <<profile, entries, pool, shown, readable, cancelled, preflight, replacement, lost, unregistered, created, issued, counters>>

Verify(t) ==
    /\ \E status \in Statuses :
         /\ Recorded(new[t], status)
         /\ Move(t, "verify", IF status = "valid" /\ ~CtxErr(t) THEN "load" ELSE "cleanUp")
    /\ UNCHANGED <<profile, entries, pool, shown, readable, cancelled, preflight, replacement, lost, unregistered, created, issued, counters>>

(* An error of the check, or the status "canceled". *)
VerifyFails(t) ==
    /\ Move(t, "verify", "cleanUp")
    /\ UNCHANGED <<files, fresh, shown, readable, cancelled, preflight, replacement, history, counters>>

(* cleanupOrphanVKHash, whose errors nobody sees. *)
CleanUp(t) ==
    LET h == new[t] IN
    /\ Move(t, "cleanUp", "replaceFailed")
    /\ \/ /\ entries' = IF h \in pool \/ InUse(h) THEN entries ELSE entries \ {h}
          /\ UNCHANGED counters
       \/ Fault /\ UNCHANGED entries
    /\ UNCHANGED <<profile, pool, checks, fresh, shown, readable, cancelled, preflight, replacement, history>>

(* A profile that cannot be loaded is left as it is. *)
Load(t) ==
    /\ \/ Move(t, "load", "save") /\ readable /\ old[t] \in profile /\ loaded' = [loaded EXCEPT ![t] = profile]
       \/ Move(t, "load", "commit") /\ (readable => old[t] \notin profile) /\ UNCHANGED loaded
    /\ swapped' = [swapped EXCEPT ![t] = FALSE]
    /\ UNCHANGED <<files, fresh, shown, readable, cancelled, preflight, old, new, history, counters>>

(* The whole profile is written back as it was loaded, with the new hash for the old one. *)
Save(t) ==
    /\ \/ /\ Move(t, "save", "commit") /\ readable
          /\ profile' = (loaded[t] \ {old[t]}) \cup {new[t]}
          /\ swapped' = [swapped EXCEPT ![t] = TRUE]
          /\ lost' = (lost \/ profile # loaded[t])
          /\ UNCHANGED counters
       \/ /\ Move(t, "save", "replaceFailed")
          /\ IF readable THEN Fault ELSE UNCHANGED counters
          /\ UNCHANGED <<profile, swapped, lost>>
    /\ UNCHANGED <<entries, pool, checks, fresh, shown, readable, cancelled, preflight, old, new, loaded, good, unregistered, created, issued>>

(* Mutant: the old entry is removed although it is in use. *)
CommitForgetful(t) ==
    LET o == old[t] n == new[t] IN
    /\ {o, n} \subseteq entries
    /\ pool' = IF o \in pool THEN (pool \ {o}) \cup {n} ELSE pool
    /\ entries' = entries \ {o}
    /\ Move(t, "commit", IF o \in pool \/ swapped[t] THEN "replaced" ELSE "replaceFailed")
    /\ UNCHANGED <<profile, checks, fresh, shown, readable, cancelled, preflight, replacement, history, counters>>

(* Under vkHashRegistryMu: the new entry takes the place of the old one in the pool, and the  *)
(* old one goes unless another profile names it.  A hash of neither was replaced for nothing. *)
Commit(t) ==
    LET o == old[t] n == new[t] IN
    /\ {o, n} \subseteq entries
    /\ pool' = IF o \in pool THEN (pool \ {o}) \cup {n} ELSE pool
    /\ entries' = IF InUse(o) THEN entries ELSE entries \ {o}
    /\ Move(t, "commit", IF o \in pool \/ swapped[t] THEN "replaced" ELSE "replaceFailed")
    /\ UNCHANGED <<profile, checks, fresh, shown, readable, cancelled, preflight, replacement, history, counters>>

(* An entry was deleted meanwhile, or the registry cannot be read or written: what was saved *)
(* in the profile stays.                                                                      *)
CommitFails(t) ==
    /\ Move(t, "commit", "replaceFailed")
    /\ \/ ~({old[t], new[t]} \subseteq entries) /\ UNCHANGED counters
       \/ Fault
    /\ UNCHANGED <<files, fresh, shown, readable, cancelled, preflight, replacement, history>>

(* The context of a replacement the user asked for ends with it; Connect keeps its own. *)
Done(t) == cancelled' = IF t = Editor THEN [cancelled EXCEPT ![t] = FALSE] ELSE cancelled

(* vk-hash-replaced: the frontend puts the new hash into its server.  The entry is looked up  *)
(* once more (vkHashEntry): one that was deleted, or is named and pooled no longer, makes the  *)
(* replacement that was announced an error, and Connect tries the next one.                    *)
Announce(t) ==
    /\ \/ /\ new[t] \in Listed /\ UNCHANGED counters
          /\ Move(t, "replaced", IF t = Connector THEN "use" ELSE "idle")
          /\ used' = IF t = Connector THEN {new[t]} ELSE used
       \/ /\ IF new[t] \in Listed THEN Fault ELSE UNCHANGED counters
          /\ Move(t, "replaced", IF t = Connector THEN "replace" ELSE "idle")
          /\ UNCHANGED used
    /\ shown' = IF swapped[t] /\ old[t] \in shown THEN (shown \ {old[t]}) \cup {new[t]} ELSE shown
    /\ old' = [old EXCEPT ![t] = Nobody] /\ new' = [new EXCEPT ![t] = Nobody]
    /\ loaded' = [loaded EXCEPT ![t] = {}] /\ swapped' = [swapped EXCEPT ![t] = FALSE]
    /\ Done(t)
    /\ UNCHANGED <<files, fresh, readable, expired, policy, plan, history>>

GiveUp(t) ==
    /\ Move(t, "replaceFailed", IF t = Connector THEN "replace" ELSE "idle")
    /\ old' = [old EXCEPT ![t] = Nobody] /\ new' = [new EXCEPT ![t] = Nobody]
    /\ loaded' = [loaded EXCEPT ![t] = {}] /\ swapped' = [swapped EXCEPT ![t] = FALSE]
    /\ Done(t)
    /\ UNCHANGED <<files, fresh, shown, readable, preflight, history, counters>>

Replacing(t) ==
    \/ Generate(t) \/ GenerateFails(t) \/ Enter(t) \/ Verify(t) \/ VerifyFails(t) \/ CleanUp(t)
    \/ Load(t) \/ Save(t) \/ Commit(t) \/ CommitFails(t) \/ Announce(t) \/ GiveUp(t)
-----------------------------------------------------------------------------
(***************************************************************************)
(* The user, other checks, the clock and crashes.                             *)
(***************************************************************************)
(* The form of the server saves the profile with its hashes as they are; only the next     *)
(* Connect registers them.                                                                 *)
EditServer ==
    /\ Edit /\ readable
    /\ \E hashes \in SUBSET Old \ {{}} :
         /\ profile' = hashes /\ shown' = hashes
         /\ unregistered' = hashes \ entries
    /\ UNCHANGED <<entries, pool, checks, fresh, readable, pc, cancelled, preflight, replacement, good, lost, created, issued>>

AddVKHash(h) ==
    /\ Edit /\ h \in Old
    /\ Entered({h}) /\ pool' = pool \cup {h}
    /\ UNCHANGED <<profile, checks, fresh, shown, readable, pc, cancelled, preflight, replacement, good, lost, created, issued>>

(* It leaves the pool, and the registry too when no profile names it. *)
DeleteVKHash(h) ==
    /\ Edit /\ h \in Listed
    /\ pool' = pool \ {h}
    /\ entries' = IF InUse(h) THEN entries ELSE entries \ {h}
    /\ UNCHANGED <<profile, checks, fresh, shown, readable, pc, cancelled, preflight, replacement, history>>

(* A check that the user asked for writes its result. *)
OtherCheck(h) ==
    /\ Edit /\ h \in Listed
    /\ \E status \in Statuses : Recorded(h, status)
    /\ UNCHANGED <<profile, entries, pool, shown, readable, pc, cancelled, preflight, replacement, lost, unregistered, created, issued>>

(* App.Disconnect.  After the last look at the context (HandOver) it stops nothing here: the  *)
(* Bridge is not connected yet when it is told to disconnect, and Connect goes on.            *)
Disconnect ==
    /\ pc[Connector] # "idle" /\ ~cancelled[Connector]
    /\ cancelled' = [cancelled EXCEPT ![Connector] = TRUE]
    /\ UNCHANGED <<files, fresh, shown, readable, pc, preflight, replacement, history, counters>>

CancelVKHashChecks ==
    /\ pc[Editor] # "idle" /\ ~cancelled[Editor]
    /\ cancelled' = [cancelled EXCEPT ![Editor] = TRUE]
    /\ UNCHANGED <<files, fresh, shown, readable, pc, preflight, replacement, history, counters>>

(* context.WithTimeout, from the decision to check until Connect returns. *)
DeadlinePasses ==
    /\ ~expired
    /\ pc[Connector] \notin {"idle", "sync", "register", "candidates", "read", "use", "failed", "connected"}
    /\ expired' = TRUE
    /\ UNCHANGED <<files, fresh, shown, readable, pc, cancelled, policy, plan, used, replacement, history, counters>>

ProfilesUnreadable ==
    /\ Fault /\ readable
    /\ readable' = FALSE
    /\ UNCHANGED <<files, fresh, shown, pc, cancelled, preflight, replacement, history>>

Crash ==
    /\ Fault
    /\ pc' = [t \in Threads |-> "idle"]
    /\ cancelled' = [t \in Threads |-> FALSE]
    /\ policy' = DefaultPolicy /\ plan' = NoPlan /\ used' = {} /\ fresh' = {} /\ expired' = FALSE
    /\ created' = 0
    /\ old' = [t \in Threads |-> Nobody] /\ new' = [t \in Threads |-> Nobody]
    /\ loaded' = [t \in Threads |-> {}] /\ swapped' = [t \in Threads |-> FALSE]
    /\ UNCHANGED <<files, shown, readable, good, lost, unregistered, issued>>

User ==
    \/ EditServer \/ Disconnect \/ CancelVKHashChecks
    \/ \E h \in Hashes : AddVKHash(h) \/ DeleteVKHash(h) \/ OtherCheck(h) \/ ReplaceVKHash(h)

Next ==
    \/ Connect \/ Preparing \/ User
    \/ \E t \in Threads : Replacing(t)
    \/ DeadlinePasses \/ ProfilesUnreadable \/ Crash

Spec == Init /\ [][Next]_vars

(* Connect's goroutine runs; VK and the user, of whom nothing is asked here, answer or not,  *)
(* but a context that ended ends the wait, and the clock does not stop.                      *)
Waiting == pc[Connector] \in {"generate", "probe", "verify"} /\ ~CtxErr(Connector)

FairSpec ==
    /\ Spec
    /\ WF_vars(~Waiting /\ (Preparing \/ Replacing(Connector)))
    /\ WF_vars(DeadlinePasses)
-----------------------------------------------------------------------------
(***************************************************************************)
(* Properties.                                                              *)
(***************************************************************************)
TypeOK ==
    /\ profile \subseteq Hashes /\ shown \subseteq Hashes
    /\ entries \subseteq Hashes /\ pool \subseteq entries
    /\ checks \in [Hashes -> Statuses \cup {"none"}]
    /\ policy \in Policies /\ used \subseteq Hashes
    /\ old \in [Threads -> Hashes \cup {Nobody}] /\ new \in [Threads -> New \cup {Nobody}]
    /\ loaded \in [Threads -> SUBSET Hashes]

(* Connect hands over something, and nothing that this preflight read or was told to be        *)
(* invalid, whichever of its seven ways of deciding it took.                                    *)
HandsOverUsable ==
    pc[Connector] = "connected" => used # {} /\ used \cap plan.invalid = {}

(* The automatic replacement starts when the policy asks for it and no candidate is usable,   *)
(* replaces one that is invalid, and asks VK for at most maxAutoReplacements hashes.           *)
ReplacesOnlyDead ==
    /\ created <= MaxAutoReplacements
    /\ old[Connector] # Nobody =>
         policy.replace /\ old[Connector] \in plan.invalid /\ plan.fallback \subseteq plan.invalid

(* A created hash comes into the profile, the pool or the frontend only after a probe found    *)
(* it valid, whatever fails or is cancelled on the way.                                          *)
ReplacementIsValid == (profile \cup pool \cup shown) \cap New \subseteq good

(* A hash the profile names has its entry, so that the preflight can check and replace it:     *)
(* replacements, clean-ups and deletions remove no entry in use.  Excepted are a profile saved  *)
(* ahead of its registration, a save over a newer profile, and profiles that cannot be read.    *)
NamedIsRegistered == readable /\ ~lost => profile \subseteq entries \cup unregistered

(* Connect returns, however long VK or the user takes: within its deadline every wait ends.    *)
ConnectEnds == []<>(pc[Connector] = "idle")
=============================================================================
