# PWDTT: a formal model of the client

PWDTT is a desktop VPN client (Go, Wails, React). It obtains TURN credentials from
the VK calls service, carries WireGuard packets through TURN relays inside DTLS, and
brings a WireGuard interface up on the machine. This directory holds TLA+ modules
that model its core logic, TLC configurations that check them on small instances, and
theorems about them that the TLA+ proof system checks for every instance.
`PROJECT.json` relates every definition to the source lines it translates, lists the
runs, and lists the hazards of the code with the properties that cover them.

## 1. Inventory of the system

| Component (source) | State it keeps | Operations | Hard behaviour | Correct when |
|---|---|---|---|---|
| **Bridge** (`backend/bridge.go`) | `running`, `core`, `wgApplied`, `connectedPublished` under one mutex | `Connect`, `Disconnect`, the goroutine `forwardEvents`, CAPTCHA forwards | `Connect` has two critical sections with the start of the Core between; `Disconnect` reads `core` once; announcements are made after unlocking | one Core at a time; `running` exact; no interface outlives its session; statuses in order and earned; Disconnect ends the session |
| **App** (`backend/app.go`) | `connectCancel` | bindings of the frontend, each on its own goroutine; `Shutdown` | cancel of a connection that is being prepared; exit of the process during `Apply` | a cancelled connection does not go on; nothing left on exit |
| **Core** (`core/main.go`, `events.go`) | context, event channel of 1024, counters | `Start`, `Stop`, `emit` | full channel drops its oldest event; the channel is closed when all groups returned | Stop ends everything; no send into a closed `configCh` |
| **Worker groups** (`core/worker_group.go`) | two signals per group, `configRequestInFlight`, `configSent` | chain of groups, loop of each worker | groups block on each other; workers race for the one config request | groups in order; one config; the right to ask never lost; failure stops the Core |
| **Blacklist** (`core/blacklist.go`) | banned TURN addresses with expiry | `Ban`, `IsBanned` | check and delete in two critical sections | a ban lasts |
| **TURN session** (`core/session.go`, `protocol.go`) | eight goroutines, two hooks, a semaphore of three handshakes | `RunSession` | many early returns with deferred calls; deadlines set by hooks and by the reader | tokens and counters exact; ends as a whole; ends after Stop |
| **Dispatcher** (`core/dispatcher.go`) | slots of workers, return channel | register, read loop, write loop | slots vanish while packets are handed out | no packet to a slot that is gone |
| **VK credentials** (`core/vk_auth.go`, `vk_auth_policy.go`, `creds_vkcalls.go`) | `vkRequestGate`, throttle, lockout, cache per group | `GetCreds`, `fetchVkCredsSerialized` | calls queue behind one that waits for a user; deadlines inside deadlines | one request at a time; cancellation reaches every wait; the gate never leaks |
| **CAPTCHA coordinator** (`core/captcha_flow.go`) | the current challenge, its context, its buffer | `begin`, `active`, `launchFailed`, `submit`, `cancel`, `finish` | late browsers, late tokens, cancel racing an answer | one browser; a token only for its own live challenge |
| **Hash probe, operations, registry** (`core/hash_probe.go`, `backend/vk_hash*.go`) | probes in flight, bulk operation, stored hashes | check one, check all, cancel, replace | shared probes; registry read, probed for minutes, written back | single flight; only proven hashes used; no entry in use removed |
| **Store** (`backend/store.go`) | settings, profiles, files | load, save, delete, quarantine | load-modify-save by several bindings | what was saved stays; a bad file is kept aside |
| **Session log** (`backend/session_log.go`) | file and ring of one session | record, close, retention | limit and ring | bounded, last entries kept |
| **WireGuard interface** (`backend/wg*.go`, `ipv6_*.go`) | interface, routes, firewall rule | `Apply`, `Teardown` | partial failure of a long sequence of commands; elevated helper on Windows with timeouts | everything that was set up is taken down |
| **Frontend** (`frontend/src`) | connection, tunnel and CAPTCHA stores | event handlers, buttons | shows idle before the session ended; late events | shows what is |

Interactions. The frontend calls the bindings of `App`, which call the `Bridge`. The
Bridge creates one `Core` and reads its event channel; a config event makes it call
`wg.Apply`. `Core.start` creates the worker groups; each asks VK for credentials (one
request at a time in the whole process) and starts workers that call `RunSession`.
The first group also fetches the WireGuard config. A CAPTCHA goes from the
coordinator through the events to the frontend, and back through `OpenCaptcha`,
a native browser and `SubmitCaptcha`. Hash probes use the same gate.

Not part of the core logic and left aside: HTML parsing and proof of work of the
automatic CAPTCHA solver, the ciphers, text of logs and reports, window set-up,
installers, generated bindings.

## 2. Modules

| Module | Models | Variables and code |
|---|---|---|
| `Lifecycle` | what the lifecycle promises: one holder of the place, the interface belongs to the holder, the place is given back with the interface down | abstract |
| `Bridge` | `App.Connect/Disconnect/Shutdown`, `Bridge`, `Core.start/Stop/emit` as the Bridge sees them, `wg.Apply/Teardown` as an interface that is up or down | one program counter per goroutine (`cpc`, `dpc`, `fpc`, `core`, `pendingStop`, `proc`), the fields of the Bridge, one event channel per session, history variables (`told`, `outcome`) |
| `WorkerGroups` | `WorkerGroup`, its signals and workers, the config request, the blacklist | `gpc`, `credsSignal`, `spawnSignal` per group; `wpc`, `addr`, `attempts`, `asks`, `got` per worker; `inFlight`, `configSent`, `confs`; `bans`, `stale` |
| `TurnSession` | the inside of `RunSession`: the main goroutine, its eight helpers, two `AfterFunc` hooks, the handshake semaphore | `main` and one variable per goroutine, `relayHook`, `dtlsHook`, `deadline`, `slots`, `active`, `registered` |
| `Credentials` | `fetchVkCredsSerialized`, the two ways to ask, the coordinator of each Core, `OpenCaptcha` and `CancelCaptcha` | `gate`, `pc`, `request` per call; `lockout`; `challenge`, `current`, `challengeGate`; `browser` |
| `HashOperations` | `vkHashOperationState.run`, manual checks, the check of all, `DeleteVKHash`, `cancelInteractive`, and a preflight as one more caller | `kept`, `inFlight`, `bulkOwner`; `at`, `key`, `sharedWith`, `answer`, `ctx` per caller; `left`, `phase` |
| `HashPreflight` | `prepareVKHashes` with every policy, the automatic and the manual replacement, `App.Connect` around it, edits of the server, `AddVKHash`, `DeleteVKHash`, the 15 s deadline, failing files, a crash | the two files (`profile`; `entries`, `pool`, `checks`), `shown` in the window, `plan` and `used` of the preflight; `loaded`, `old`, `new` of each replacement; history: `good`, `issued`, `unregistered`, `lost` |
| `Settings` | `config.json`: `readJSON` with quarantine, `LoadSettings`, `SaveSettings`, `atomicWrite`, the setters of `App` and `Startup`, autostart | `file`, `backups`, `holder` (the lock of the Store), `autoStarts`; `pc`, `change`, `loaded` per call; history: `asked` (what was reported as saved) |
| `SessionLog` | `OpenLogFile` with pruning, `Write`, `Close`, `Snapshot`, the log lines after the end of a session | `logs` with their times `stamp`, `active`, `open`, `closed`, `disk`, `ring`, `truncated`, `diskFault` |
| `Tunnel` | the steps of `WG.Apply` and `WG.Teardown` on Linux and on Windows, the IPv6 rule, and the goroutines that call them without a common lock | `link`, `routes` (with the metric), `rule`; one `WG` per process (`wg`); `pc` per goroutine; the GUI's `client`, `core`, `gui` |
| `WindowsHelper` | the elevated helper of Windows: UAC, hello, request, result, deadline, loss of the connection, its clean-up | of `Tunnel`: `conn`, `inbox`, `outbox`, `poisoned` per helper, `client` and `target` of the GUI |
| `MacHelper` | the helper of macOS: one per Apply, hands over the descriptor and waits for "down" | the same variables |
| `TunnelSystem` | sessions, Disconnect, the end of the application, kills and restarts over `WindowsHelper` and `MacHelper` | the whole next-state relation over the variables of `Tunnel` |
| `Frontend` | the button, the dashboard and the presentation queue of the window against the events of the Bridge and the answers of Connect and Disconnect | `view`, `dash`, `waiting`, `timer`, `inbox`; `connectingRef` of the mounted page, `calls` of Connect per click, `stops`; `life`, `sent`, `heard` per session |
| `MC*` | values of the constants for TLC; `MCDesktop` joins `Bridge`, `Settings`, `SessionLog` and `Frontend` | |
| `*Proofs` | the theorems about `Bridge`, `WorkerGroups`, `TurnSession`, `Credentials`, `HashOperations`, `HashPreflight`, the desktop parts `Settings`, `SessionLog` and `Frontend` (`DesktopProofs`), and the tunnel with its helpers (`TunnelProofs`) | |

A step ends where the code releases a mutex, blocks, or calls another component, so
every interleaving the mutexes allow is explored. Notable choices:

- **emit** makes three channel operations that may interleave with other emitters and
  the reader. `Emitted` lists every outcome: appended, lost, or appended after the
  oldest event was thrown away.
- **Apply** in `Bridge` is two steps (before and after the interface exists) and may fail
  in both; a `Teardown` of a Disconnect may run between, as no mutex excludes it.
  `Tunnel` has its commands one by one.
- **Process exit** stops every goroutine where it stands.
- **A session of a worker** is seen from outside in `WorkerGroups` and from inside in
  `TurnSession`; sleeps are a worker that has not yet taken its next step.
- **The reader** of `TurnSession` is followed operation by operation, because it sets
  its own deadline before each read, which may undo what the hook of the cancelled
  context did. Packets that lie in the pipe between relay and DTLS when the relay
  ends are not followed; when the DTLS connection closes, the read at the other end
  of the pipe fails (the behaviour of the pipe library as `session.go` uses it).
- **The credential cache** is not in `Credentials`. Its keys are those of one worker
  group (`groupID * 100`), which asks once per Core, so its locks are never
  contended; what remains is reuse by the next connection (section 6).
- **Contexts** are a flag that is set at any time by Stop, by the cancel of a probe or
  by a deadline. Clocks are such nondeterministic steps everywhere.
- `Bridge.core` and the coordinator are read one after the other in the CAPTCHA
  forwards. `Credentials` takes both in one step: `b.core` changes only when the
  Core has no call of its own left.
- **HashPreflight** looks at one server; "another server uses it" is a constant set. An
  entry of the registry is identified with its hash. Probes and their sharing
  (`HashOperations`) are the answers they give. The two files are each read and written
  in one step, as each access holds a lock of its own; nothing joins the two. VK is taken
  to create no link twice: the code asks again for a link that is listed, and knows
  nothing of one that another thread has got and not entered yet.
- **Settings** keeps one field per kind of change. Two bindings may overlap, also two of
  one kind: the toggle and the mode buttons of `Settings.tsx` do not wait for an answer. Each access to the file holds the lock
  of the Store; the way from load to save does not. The registry entry of autostart is
  one flag. Profiles are not in this module.
- **SessionLog** counts lines, not bytes: every line has one unit of length. Pruning takes
  the files with the oldest times; the clock may have been set back between two of them,
  so that the journal just created may be the oldest.
- **Tunnel**: the exclude routes are one boolean, since one loop adds and one deletes
  them; deletions of routes are taken to succeed; the user has one thread. `Shutdown`
  happens only on Windows, where `main_windows.go` sets the hook.
- **TurnSession**: each goroutine can end by an error of its own, while all others run:
  the two of the relay too, the one from the pipe by a failing `wrap` or `WriteTo`
  (`ToRelayFails`, `session.go:297-306`). What ends with it is left to the deferred
  `sessCancel` and the hooks.
- **Frontend**: `connectingRef` belongs to the Connect page, which the router unmounts
  (`Navigate`). A second `WailsConnect` can then start while the first is pending, so each
  click has a call of its own, and a late failure meets what the window shows by then.
- **Frontend**: the session is what `Bridge` lets it be (a next one may begin before the
  `disconnected` of the last one arrived). The 4 s cool-down and the 260 ms of the queue
  are steps that may come at any time. Errors, warnings and statistics are left out.

## 3. Runs

| Run | Instance | Shows |
|---|---|---|
| `Desktop` | two sessions, one Disconnect, channel of two events; two overlapping calls of the settings, of any kind, one damage, one fault; two journals of five lines, limits of three and two; two sessions and four clicks in the window | Bridge: one Core, no interface without its keeper, order of statuses, an earned `connected`, the refinement of `Lifecycle`. Settings: no damaged byte lost, what was saved is kept. Journals: a report without a gap, pruning within its limit that spares the journal in use. Window: no false connection, and right at rest |
| `BridgeLiveness` | one session, two concurrent Disconnects | a Disconnect that found the Core, and a failed Apply, end the session although events are lost |
| `GroupChain` | three groups of one worker | order of the chain; Stop and a credential error of the first group end the Core |
| `GroupPool` | one group of three workers, two addresses, two attempts | at most one config, and the right to ask for it never lost |
| `Session` | one session in detail, others only through the semaphore of two tokens | exact tokens of the semaphore; the session ends after Stop, ends as a whole whichever goroutine fails first, leaves no goroutine behind |
| `Credentials` | groups of two consecutive Cores and a probe, two browser calls, two challenges | no gate kept by a call that left, token only for its own live challenge, one browser, failed launch repeatable, lockout kept, cancellation reaches every wait |
| `HashChecks` | one hash, a manual check, a check of all, a preflight | one probe for all who ask, exactly known; a cancelled caller ends whatever the shared probe does |
| `HashPreflight` | a hash of the server, one of the pool that another server uses, two that VK can create; one connect, one edit, one fault | what is handed over was not found invalid, only dead hashes are replaced, only proven ones taken, none in use loses its entry, Connect returns |
| `Tunnel` | four platforms, two sessions, two runs of the GUI where there is no helper, else two helpers; one fault | nothing is left on the machine, a tunnel that was reported is complete, no stale helper connection, helpers let go |

`Desktop` is one run of four questions about parts that share neither a variable nor a
lock: the variable `part` is chosen in the initial state, and a behaviour is one of that
part only. Interleaving the parts would multiply the states and show nothing.

Runs that show where the code does not do what its documents, comments or tests say
(each is a finding in `PROJECT.json`):

| Run | Code | Statement that fails |
|---|---|---|
| `BridgeLostDisconnect` | `bridge.go:116` | A Disconnect between the two critical sections of `Bridge.Connect` finds `b.core = nil` and stops nothing; the cancelled connection goes on. |
| `GroupCaptchaCancel` | `worker_group.go:95` | A CAPTCHA the user cancels gives `context.Canceled` while the Core lives; the first group returns without stopping it and the others wait for ever. |
| `SettingsDefaults` | `store.go:53` | A load that cannot read an intact `config.json` answers with the defaults; the save that follows can read it again and writes the defaults over the user's settings. |

Three properties are stated in the modules and are in no run. They do not hold, and they
ask for more than the repository says: `ExitLeavesNoTunnel` (`Bridge`: the process exits
while an Apply runs or comes, `app.go:69`; that line's comment and the check of closing
the application in `docs/windows-ipv6-leak-check.md` speak of a tunnel that is up, and
such a tunnel Shutdown takes down, of one still being set up they do not speak),
`StopIsPrompt` (`TurnSession`: the reader re-arms its 30-minute deadline after the hook
cut it, `session.go:479`) and `OnlyOwnCancellation` (`HashOperations`: who shares the
probe of a cancelled check is told "canceled" too, `vk_hash_manager.go:583`).

### What the properties except, and why

The exceptions are variables of the models, set where the code does what it does:

- `SettingsKept`: `lost`, a save that overlapped another one or quarantined its own file
  (so the lost update of two bindings at once, `app.go:264`, is described, not excluded);
  `defaulted`, a load that could not read. `Startup` repeats a default into the registry
  of the system after a failed read. After a crash the temporary file stays.
- `BytesSurvive`: `unseen`, a damage from outside in the middle of a save.
- `NamedIsRegistered`: `unregistered`, a replacement that failed, was cancelled or crashed
  after it saved the profile and before the registry, or before it was placed
  (`vk_hash_manager.go:750,759,765,782` leave the created hash in the registry); `lost`,
  a save of the whole profile over a newer one; `readable`, a directory of profiles that
  cannot be read, so that removals know of no user.
- `HandsOverUsable` is about what this preflight itself read or was told. Besides: a
  replacement of a hash the server does not use creates one for nothing; Connect does not
  wait for a replacement it cancelled; the `break` at line 1035 leaves only the switch.
- `NothingIsLeft`: what a killed process held itself, a firewall that refused, and the
  elevated GUI when two goroutines were in its unlocked `WG` at once (`mixed`).
  `TunnelIsComplete` is about sessions that had the tunnel to themselves (`alone`): the
  second, deferred Teardown of an old helper may remove the rule of a new one's tunnel.
  On Linux nothing is cleaned after a crash, on Windows only by an elevated process.
- `WindowIsRight`: `unwanted`, a session that met a Disconnect, in its life or already
  pending at its start, whose answer may be late;
  `overtaken`, one whose first events came before the `disconnected` of the one before.
  Both can leave the window idle while a session lives. `handleTunnel` does not clear the
  queue, so that the dashboard may show `connected` until it hears of the end.

### Bounds and why they are enough

`MaxCalls = 2` is the smallest number of sessions in which an old session can disturb
a new one; a third one adds no new pair. `QueueCap` of one or two makes the full
channel a common case; with 1024 it would never fill. Three groups have a first, a
middle and a last one, and only the middle one both waits and signals. Three workers
give the compare-and-swap a winner, a loser and one that comes back later; two
addresses give rotation and a ban. `Credentials` needs two Cores for an answer from
the previous connection, a probe for the calls without a Core, two challenges for a
late token and two browsers for a double click; `Steps` and `LegacyTries` are cut to
two, so that there is a first and a last step. In `HashChecks` hashes share nothing
but the caller that walks through them, so one hash with three callers of different
kinds (and a bulk check that may find its entry deleted) has every meeting of two
callers and a third one that waits. In `HashPreflight` one hash is the server's, one is
in the pool and used elsewhere, two can be created: every line of the decision has its
input, and the automatic and the manual replacement can both be under way with a hash of
their own; `MaxConnects = 1`, as a replacement by the user is the second actor. `Tunnel` has two
sessions and two helpers, so that an old helper meets a new session; `MaxFaults = 1` is
one failing command or one kill at any step. In `Desktop` two calls of the settings are
the smallest overlap, a file limit of three lines and a ring of two give a report from
either, `OldLogs` of three over a `Retention` of two makes pruning remove files, and two
sessions let a `disconnected` be overtaken; four clicks are connect, disconnect and both
again. History variables (`told`, `outcome`, `confs`, `asked`, `good`) guard no step; `issued`
only keeps VK from creating a link twice.

### Fairness and why the code justifies it

Goroutines that can run are run (the Go scheduler): weak fairness of each one's steps.
What a timeout bounds is fair: requests to VK, handshakes, the exchange for the config.
`Bridge` assumes that a cancelled Core unwinds; `WorkerGroups` and `TurnSession` are
where that is looked at. Senders on a channel are queued in order by the Go runtime,
hence strong fairness of taking a token of `handshakeSem`. Nothing is assumed of the
user, of VK, of the network, or that a Core ends that nobody stopped. In `Credentials`
no timer is fair at all: only a call whose context is done is. In `HashChecks` a probe
ends by itself within its 30 s (`vkHashProbeTimeout`); nobody has to delete, cancel or
connect. In `HashPreflight` the thread of Connect and its 15 s deadline are fair, the
answers of VK and of the user are not: a wait ends by its context. In `Tunnel` only the
helper processes are fair, and only for what the helper does by itself.
`Desktop` has no liveness property and no fairness.

## 4. Proofs

All constants are arbitrary within the assumptions of the modules.

`BridgeProofs`, for any number of sessions, any set of Disconnect goroutines and
any channel capacity (`ConstAssumption`: both numbers positive):

- `TypeCorrect`: types, and no channel exceeds its capacity (`EmitType` is the lemma
  about what `emit` may leave).
- `InvariantHolds`: `BridgeInv`, the inductive invariant. `OneCore` is not inductive
  by itself: that a second Core cannot start follows only from *who* keeps `b.running`
  set. `OpeningInv` says what the Connect between its critical sections owns,
  `CoreHasOwner` that a running Core has a Connect or a forwarder that will see its
  end, `ForwarderInv` that the forwarder that holds the Bridge is the one of `b.core`.
- `OnlyOneCore`, `RunningExact`, `TunnelKept`: consequences of it.
- `StatusesInOrder`, `EveryConnectedIsEarned`: from `EventInv`, which joins the event
  channel to the words told. `QueueInv`: a `connecting` in the channel is the only one,
  nothing that counts lies before it and nothing was told yet; a `config` is the only one
  and comes before the Apply; a confirmation is of traffic. `PhaseInv`: which words fit
  to where `forwardEvents` is. `FlagInv`: `b.wgApplied` and `b.connectedPublished` speak of
  the session in `b.core`. `EmittedShape` says how `emit`, which may throw the oldest
  event away, shifts the channel; the order survives because it shifts everything alike.
- `Refinement`: `Bridge` implements `Lifecycle` under the mapping at the end of
  `Bridge.tla` (the holder is the session in `b.core`, or the call that is opening).

Layout: one lemma per group of actions for the types, one for each invariant, one for
the refinement, one step per action, PTL at the end. The other proof modules are laid
out alike.

`WorkerGroupsProofs`, for any number of groups, of workers in a group, of attempts and
any set of TURN addresses (`WorkerAssumption`: the numbers are positive, and VK never
answers with an empty list of URLs, which `vk_auth.go:638,658` turn into an error):

- `GroupInvariant`: two inductive invariants over separate parts of the state.
  `ChainInv` says what a closed signal proves about all earlier groups, and that a
  group that waits or is over owns no running worker; `RequestInv` that at most one
  session holds the request, and that a config was sent exactly if the winner got it.
- `ChainInOrder`, `OneConfig`, `RequestHeld`, `NoWorkerOutlivesCore`: consequences.

`TurnSessionProofs`, for any finite set of sessions and any capacity of the semaphore
(`SessionAssumption`):

- `SessionInvariant`: `CountInv` ties `slots` to the sessions in their handshake,
  `active` to those past it, and `registered` to those that serve. The lemma `Recount`
  says how the number of sessions at given places changes when one of them moves;
  every step of the main goroutine is an instance of it.
- `TokensAccounted`, `CountersSettle`, `TypeCorrect`: consequences; the bounds of the
  two counters follow only from the counting.

`CredentialsProofs`, for any number of Cores, calls, browsers, challenges, requests and
tries (`CredentialsAssumption`):

- `TypeCorrect`, from `TypeInv`.
- `GatesExact`, `OwnToken`: that a gate is free again after a challenge follows only
  when the challenge was the current one of the Core it began in. `GateInv` says so
  and that only the call behind `vkRequestGate` can have a challenge.
- `OneBrowserOnly`, `WorkedOn`: `BrowserInv` adds what a browser, which may outlive its
  challenge and its connection, still knows of it.
- `LockoutKept` (from `LockInv`: past the throttle no call sees a lockout begin but its
  own) and `EndedIsLost`, which are action properties.

`HashOperationsProofs`, for any set of hashes and of callers (`HashAssumption`):

- `SingleFlight`, from `HashInv`, which adds that a caller outside of every binding is
  outside of `run` too (`IdleIsOut`); `DeletedStays`, an action property.

`HashPreflightProofs`, for any hashes, policies, edits, faults and crashes
(`PreflightAssumption`):

- `OnlyProvenHashesAreUsed`: `ReplacementIsValid` from `ProvenInv`, which adds that a
  thread on its way to the files carries a proven hash, and that no profile a thread has
  loaded, and may write back later, has another one.
- `PreflightInvariant`: `PreflightInv`, behind the next three. `ShapeInv` has the fields
  and counters. `IssuedInv`: a hash VK has not created yet is nowhere, neither in a file
  nor in the window, a plan, a loaded profile or another thread. `PrivateInv`: until a
  thread publishes its new hash, only this thread knows it, and it keeps its entry.
  `PlanInv`: at each place of the preflight, what the plan and `used` can be.
- `HashesHandedOverAreUsable`, `OnlyDeadHashesAreReplaced`: consequences of `PlanInv`; a
  replacement is usable because the hash VK just created is not known to be invalid
  (`IssuedInv`).
- `NamedHashesAreRegistered`: `NamedIsRegistered` is inductive beside `PreflightInv`. The
  removals look for a use of the entry (`RemovedAfter`); what a save of a profile adds is
  the thread's own hash, which nobody can have removed (`PrivateInv`).
- `TypeCorrect`: types, and the pool has entries only. `Commit` puts the new hash in the
  place of the old one and may remove the old entry, so the two must differ
  (`RegistryInv`, again from `PrivateInv`).

`DesktopProofs`, for any number of calls, damages, faults, crashes, journals, sessions and
clicks (`LogAssumption`: a limit of at least two files, 10 in the code; `SettingsAssumption`
and `WindowAssumption`: names apart, the bounds numbers):

- `NoByteIsLost`: `BytesSurvive` from `LockInv`: between the look of a save and its rename
  the lock is held, so a damaged file there is one nobody could see.
- `SettingsStaySaved`: `SettingsKept` from `KeptInv`. `LoadedInv` says what a loaded copy is
  worth while nobody else saved, `StartupInv` that the one binding that looks before it
  sets repeats what is already asked for.
- `ReportsAreCurrent`: `ReportIsCurrent` from `ReportInv`: the memory has the last lines
  (`RingInv`), the file all of them unless it is known to be cut or broken (`DiskInv`).
- `LogsStayBounded`: `LogsBounded`, from the counting of what pruning removes: the excess
  over the limit, taken from the others than the journal in use.
- `NoFalseConnectionEver`: `NoFalseConnection` from `WindowInv`. Two orders of the inbox are
  needed (`EndIsLast`, `InOrder`: `disconnected` is the last event of its session), and
  that also a `connected` which only waits in the queue was heard (`ShownIsHeard`).
- `WindowIsRightEver`: `WindowIsRight` from `RightInv`, which adds the order of the
  sessions in the inbox (`OrderInv`), that a session with a Disconnect on its way is not
  wanted (`Requested`), that the success of a wanted one is shown or waits in the queue
  with the timer running (`Presented`), and that what is shown has a cause (`Caused`).

`TunnelProofs`, on all four platforms, for any number of sessions, starts, helpers and
faults (`TunnelAssumption`: at least one start each, names apart). `TunnelInv` is `Shape`,
`Control` (which goroutine of the GUI may be where: only `forwardEvents` sets up, and it
takes down before the session is forgotten) and one invariant per platform that says who
answers for what is on the machine:

- `LinuxInv`: exclude routes are in the list of the `WG` or in the local one of a goroutine
  that is about to delete or record them; the list is full only between an Apply and the
  next Teardown of `forwardEvents`.
- `ElevatedInv`: what the `WG` records is there, and what is there is recorded.
- `HelperInv`: `ClientInv`, whose session the connection is; `HoldsInv`, a helper knows
  what it has set up and ends with nothing; `AnswersInv`, as long as nothing was lost with
  a killed process somebody is left to remove routes and rule; `ServesInv`, in a session
  that is alone there is one helper, and an `ok` is the answer to its own request.
- `DarwinInv`: routes belong to a helper that runs; the interface is open there, or in the
  GUI from the hand-over of the descriptor to the next Teardown.
- `TheMachineIsRestored`, `AppliedTunnelsAreUp`, `SessionsForgetTheirClient`,
  `TypeCorrect`: consequences. The first does not use the exception `mixed` of
  `NothingIsLeft`. It stays in the property, because the unlocked fields of `WG` are read
  and written in smaller pieces by the code than by the steps of `Tunnel`.

Proved and in no run: `TypeOK` of `Bridge`, `Credentials`, `HashOperations`,
`HashPreflight`, `TurnSession` and `TunnelSystem`, `RunningIsExact`, `NothingOutlivesCore`,
`StatsSettle`, `DeletedStaysDeleted`.

Only model-checked: every liveness property (`FoundCoreEnds`, `FailedApplyEnds`,
`StopEndsCore`, `FirstErrorEndsCore`, `StopReturnsSessions`, `EndsTogether`,
`ConnectedLeavesNothing`, `ContextReachesCall`, `CancelledEnds`, `ConnectEnds`,
`HelperLetsGo`), out of the prover's reach as ENABLED is; and the full `TypeOK` of
`WorkerGroups`, whose list of addresses comes from `SelectSeq` and would need induction
over sequences. Every safety property of the passing runs has a theorem.

## 5. Hazards

`PROJECT.json` lists forty, each at its line with the properties about it, or why none is.
Beyond them the code has these, smaller, ones: `IsBanned` deletes an expired entry under a
second lock without a second look, so that a ban set in between is lost (`blacklist.go:39`;
the step is in `WorkerGroups`); `writeLoop` hands packets to slots that may end
(`dispatcher.go:177`; lost as on any network); credentials cached by an earlier connection
are used again (`vk_auth.go:313`); the `break` after a dead address leaves the select and
not the loop (`hash_probe.go:200`); an error passes the presentation queue
(`App.tsx:152`); a Disconnect may fall between the look at the context and
`bridge.Connect` (`app.go:114`; the step is in `Bridge`).

## 6. Not modelled, and what is left

The map covers about a third of the implementation's lines. What is not in it:

- The automatic CAPTCHA solver, the ciphers and the disguise, HTTP, HTML and JSON of VK,
  the Edge browser's protocol: computation on data of others, without a step that
  another component could meet. Together they are more than a third of the lines.
- Updates, reports and their redaction, name lookup, window set-up, entry points: no state.
- `Dispatcher` beyond the registration of slots: its loops move packets that may be lost.
- The credential cache with the clock of its refusals; the failover inside `HashProbe`,
  which is a sequence of calls without another actor.
- Import, renaming and validation of profiles; the pages of the frontend besides the
  connection.

Worth doing next: the credential cache over several connections; a composition of
`Bridge` with `WorkerGroups`, so that the assumption "a cancelled Core unwinds" becomes a
property of the composed system.

## 7. Use

    tlc -config Desktop.cfg MCDesktop.tla
    tlc -config Tunnel.cfg MCTunnel.tla
    tlc -config HashPreflight.cfg MCHashPreflight.tla
    tlapm BridgeProofs.tla

and alike for the other configurations, named after their runs, and the other seven
`*Proofs` modules.
