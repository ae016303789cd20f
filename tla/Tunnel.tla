-------------------------------- MODULE Tunnel --------------------------------
(***************************************************************************)
(* The network state of the machine that carries the tunnel (backend/wg.go, *)
(* backend/ipv6_windows.go) and the goroutines that set it up and take it   *)
(* down without a common mutex: forwardEvents, a Disconnect and the         *)
(* OnShutdown hook of the GUI process.  WindowsHelper.tla and MacHelper.tla *)
(* add the elevated helper processes, TunnelSystem.tla puts them together.  *)
(*                                                                           *)
(* The exclude routes of a session are one boolean: they are added in one    *)
(* loop and deleted in one loop.  The routes into the tunnel disappear with   *)
(* the interface.  Commands that delete routes are taken to succeed.          *)
(***************************************************************************)
EXTENDS Naturals, Sequences

CONSTANTS
    Helpers,       \* helper processes that may be launched
    NoHelper,      \* windowsWGHelperState.client and w.helperConn that are nil
    MaxSessions,   \* bound: sessions over all runs of the GUI
    MaxRuns,       \* [Platforms -> bound: starts of the GUI]
    MaxFaults,     \* bound: firewall commands that fail, deadlines of 90 s that pass, helpers killed
    Platforms      \* the platforms looked at, of the four below

ASSUME TunnelAssumption ==
    /\ NoHelper \notin Helpers
    /\ MaxSessions \in Nat /\ MaxRuns \in [Platforms -> Nat \ {0}] /\ MaxFaults \in Nat
    /\ Platforms \subseteq {"linux", "elevated", "helper", "darwin"}
    /\ Helpers \cap {"App", "forward", "user"} = {}

App == "App"

(* forwardEvents, and the one that runs Disconnect or, when the window is closed, Shutdown: *)
(* a bound, two of these calls do not overlap here.                                         *)
AppThreads == {"forward", "user"}

Threads == AppThreads \cup Helpers
Processes == {App} \cup Helpers
ProcessOf(t) == IF t \in Helpers THEN t ELSE App

VARIABLES
    platform,     \* runtime.GOOS, and on Windows whether the GUI process is elevated
    link,         \* the processes that keep an interface up (on Linux the kernel does, for App)
    routes,       \* exclude routes are in the routing table; on Windows also the raised metric
    rule,         \* the firewall rule of the IPv6 protection exists
    wg,           \* [Processes -> WG: what the process believes to have set up]
    pc,           \* [Threads -> where the thread is in Apply or Teardown]
    next,         \* [Threads -> where it goes on after the Teardown it is in]
    taken,        \* [Threads -> its local list of exclude routes is not empty]
    client,       \* the helper the GUI holds a connection to
    conn,         \* [Helpers -> the GUI's end of its connection: "none", "open", "closed"]
    target,       \* [AppThreads -> the client its request uses]
    inbox,        \* [Helpers -> commands sent to it and not read]
    outbox,       \* [Helpers -> results sent to the GUI and not read]
    poisoned,     \* [Helpers -> the GUI's decoder met its deadline: it returns that error for ever]
    gui,          \* the GUI process runs
    runs,         \* how often it was started
    cleaned,      \* the start-up goroutine of this run is done
    sessions,     \* how many sessions there were
    core,         \* the session: "none", "running", "ended" (its events are closed)
    configured,   \* forwardEvents got the config of this session
    applied,      \* b.wgApplied
    stops,        \* the session Disconnect read from b.core, 0 for none
    alone,        \* history: nobody but forwardEvents touched the tunnel since this session began
    mixed,        \* history: two goroutines of an elevated GUI were in the WG at once
    lost,         \* history: a process died with network state it had set up
    refused,      \* history: the last command to remove the firewall rule failed
    faults        \* faults so far

machineVars == <<link, routes, rule, refused>>
threadVars == <<pc, next, taken, mixed>>
helperVars == <<client, conn, target, inbox, outbox, poisoned>>
sessionVars == <<sessions, core, configured, applied, stops>>
guiVars == <<platform, gui, runs, cleaned, alone, lost>>
vars == <<machineVars, wg, threadVars, helperVars, sessionVars, guiVars, faults>>

NoWG == [dev |-> FALSE, routes |-> FALSE, protected |-> FALSE]

WG == [dev : BOOLEAN,         \* activeDevice and activeTun
       routes : BOOLEAN,      \* physGW and activeExcludeRoutes, on Linux activeRoutes
       protected : BOOLEAN]   \* ipv6LeakProtectionActive

(* CleanupStaleExcludeRoutes does nothing on Linux, and only logs in a GUI that is not elevated. *)
NothingToClean == platform \in {"linux", "helper"}

Init ==
    /\ platform \in Platforms
    /\ link = {} /\ routes = FALSE /\ rule = FALSE /\ refused = FALSE
    /\ wg = [p \in Processes |-> NoWG]
    /\ pc = [t \in Threads |-> IF t \in Helpers THEN "unused" ELSE "idle"]
    /\ next = [t \in Threads |-> "idle"]
    /\ taken = [t \in Threads |-> FALSE]
    /\ client = NoHelper
    /\ conn = [h \in Helpers |-> "none"]
    /\ target = [t \in AppThreads |-> NoHelper]
    /\ inbox = [h \in Helpers |-> <<>>]
    /\ outbox = [h \in Helpers |-> <<>>]
    /\ poisoned = [h \in Helpers |-> FALSE]
    /\ gui = TRUE /\ runs = 1 /\ cleaned = NothingToClean
    /\ sessions = 0 /\ core = "none" /\ configured = FALSE /\ applied = FALSE
    /\ stops = 0
    /\ alone = FALSE /\ mixed = FALSE /\ lost = FALSE /\ faults = 0
-----------------------------------------------------------------------------
(***************************************************************************)
(* Threads.                                                                 *)
(***************************************************************************)
Resting == {"idle", "unused", "ready", "gone", "ok", "failed", "final", "stop", "exit", "leave"}
Operating(t) == pc[t] \notin Resting

Fault == faults < MaxFaults /\ faults' = faults + 1

(* t is at label a and goes to b. *)
Step(t, a, b) ==
    /\ pc[t] = a
    /\ pc' = [pc EXCEPT ![t] = b]
    /\ UNCHANGED <<next, mixed>>

(* t leaves the Teardown at label a. *)
Return(t, a) ==
    /\ pc[t] = a
    /\ pc' = [pc EXCEPT ![t] = next[t]]
    /\ next' = [next EXCEPT ![t] = "idle"]
    /\ UNCHANGED mixed

(* WG.Teardown and the Teardown every Apply begins with, by platform; a helper *)
(* works on its own WG.                                                        *)
TeardownOf(t) ==
    IF t \in Helpers THEN "takeDown"
    ELSE CASE platform = "linux" -> "take"
           [] platform = "elevated" -> "takeDown"
           [] platform = "helper" -> "release"
           [] platform = "darwin" -> "stopDevice"

BeginTeardown(t, then) ==
    /\ pc' = [pc EXCEPT ![t] = TeardownOf(t)]
    /\ next' = [next EXCEPT ![t] = then]
    /\ mixed' = (mixed \/ (platform = "elevated" /\ \E o \in Threads \ {t} : Operating(o)))

(* A process launched now; which of the unused names it gets makes no difference. *)
NextHelper ==
    LET unused == {h \in Helpers : pc[h] = "unused"} IN
    IF unused = {} THEN {} ELSE {CHOOSE h \in unused : TRUE}

Recorded(p, field, value) == wg' = [wg EXCEPT ![p][field] = value]
-----------------------------------------------------------------------------
(***************************************************************************)
(* Linux: applyLinux and teardownLinux.                                      *)
(***************************************************************************)
TakeRoutes(t) ==
    /\ Step(t, "take", "deleteRoutes")
    /\ taken' = [taken EXCEPT ![t] = wg[App].routes]
    /\ Recorded(App, "routes", FALSE)
    /\ UNCHANGED <<machineVars, helperVars, sessionVars, guiVars, faults>>

DeleteRoutes(t) ==
    /\ Step(t, "deleteRoutes", "deleteLink")
    /\ routes' = (routes /\ ~taken[t])
    /\ UNCHANGED <<link, rule, refused, wg, taken, helperVars, sessionVars, guiVars, faults>>

DeleteLink(t) ==
    /\ Return(t, "deleteLink")
    /\ link' = {}
    /\ taken' = [taken EXCEPT ![t] = FALSE]
    /\ UNCHANGED <<routes, rule, refused, wg, helperVars, sessionVars, guiVars, faults>>

(* ip link add fails if the interface is there. *)
AddLink(t) ==
    /\ platform = "linux"
    /\ \/ Step(t, "create", "configure") /\ link = {} /\ link' = {App}
       \/ Step(t, "create", "failed") /\ UNCHANGED link
    /\ UNCHANGED <<routes, rule, refused, wg, taken, helperVars, sessionVars, guiVars, faults>>

(* wg setconf, ip addr add, ip link set up: each needs the interface. *)
SetUpLink(t) ==
    /\ platform = "linux"
    /\ \/ Step(t, "configure", "addRoutes") /\ link # {}
       \/ Step(t, "configure", "failed")
    /\ UNCHANGED <<machineVars, wg, taken, helperVars, sessionVars, guiVars, faults>>

(* Only routes that ip accepted are kept for the Teardown: it refuses one that exists, *)
(* and without a gateway none is added.                                                *)
AddRoutes(t) ==
    /\ Step(t, "addRoutes", "keepRoutes")
    /\ \/ ~routes /\ routes' = TRUE /\ taken' = [taken EXCEPT ![t] = TRUE]
       \/ taken' = [taken EXCEPT ![t] = FALSE] /\ UNCHANGED routes
    /\ UNCHANGED <<link, rule, refused, wg, helperVars, sessionVars, guiVars, faults>>

KeepRoutes(t) ==
    /\ Step(t, "keepRoutes", "ok")
    /\ Recorded(App, "routes", taken[t])
    /\ taken' = [taken EXCEPT ![t] = FALSE]
    /\ UNCHANGED <<machineVars, helperVars, sessionVars, guiVars, faults>>

Linux(t) ==
    \/ TakeRoutes(t) \/ DeleteRoutes(t) \/ DeleteLink(t)
    \/ AddLink(t) \/ SetUpLink(t) \/ AddRoutes(t) \/ KeepRoutes(t)
-----------------------------------------------------------------------------
(***************************************************************************)
(* Windows: applyWindowsLocal and teardownWindowsLocalWithLog, in the GUI if *)
(* it is elevated and in the helper otherwise.  Nothing locks the WG: the    *)
(* steps of two goroutines of an elevated GUI interleave, coarser here than   *)
(* in the code, and mixed records that it happened.                           *)
(***************************************************************************)
(* The metric and the exclude routes, then the device; what cleanupWintunAdapter finds by    *)
(* name afterwards is taken to be gone already.                                              *)
TakeDown(t) ==
    LET p == ProcessOf(t) IN
    /\ Step(t, "takeDown", "unprotect")
    /\ routes' = (routes /\ ~wg[p].routes)
    /\ link' = IF wg[p].dev THEN link \ {p} ELSE link
    /\ wg' = [wg EXCEPT ![p].routes = FALSE, ![p].dev = FALSE]
    /\ UNCHANGED <<rule, refused, taken, helperVars, sessionVars, guiVars, faults>>

(* restoreIPv6LeakProtection; its error is only logged. *)
Unprotect(t) ==
    /\ Return(t, "unprotect")
    /\ \/ rule' = FALSE /\ refused' = FALSE /\ Recorded(ProcessOf(t), "protected", FALSE) /\ UNCHANGED faults
       \/ Fault /\ rule /\ refused' = TRUE /\ UNCHANGED <<rule, wg>>
    /\ UNCHANGED <<link, routes, taken, helperVars, sessionVars, guiVars>>

(* The device stays recorded when its configuration fails. *)
CreateDevice(t) ==
    LET p == ProcessOf(t) IN
    /\ platform \in {"elevated", "helper"}
    /\ \/ /\ Step(t, "create", "routes") \/ Step(t, "create", "failed")
          /\ link' = link \cup {p}
          /\ Recorded(p, "dev", TRUE)
       \/ Step(t, "create", "failed") /\ UNCHANGED <<link, wg>>
    /\ UNCHANGED <<routes, rule, refused, taken, helperVars, sessionVars, guiVars, faults>>

(* Without a gateway neither its metric is raised nor an exclude route added. *)
SetUpRoutes(t) ==
    LET p == ProcessOf(t) IN
    /\ platform \in {"elevated", "helper"}
    /\ Step(t, "routes", "protect")
    /\ \/ routes' = TRUE /\ Recorded(p, "routes", TRUE)
       \/ Recorded(p, "routes", FALSE) /\ UNCHANGED routes
    /\ UNCHANGED <<link, rule, refused, taken, helperVars, sessionVars, guiVars, faults>>

(* enableIPv6LeakProtection, skipped when the config is no full tunnel: the rule of an     *)
(* earlier run is removed first; when the new rule fails, the rule is removed again.        *)
Protect(t) ==
    LET p == ProcessOf(t) IN
    /\ \/ Step(t, "protect", "ok") /\ UNCHANGED <<rule, refused, wg, faults>>
       \/ Step(t, "protect", "ok") /\ UNCHANGED faults /\ rule' = TRUE /\ refused' = FALSE /\ Recorded(p, "protected", TRUE)
       \/ Step(t, "protect", "failed") /\ Fault /\ rule /\ refused' = TRUE /\ UNCHANGED <<rule, wg>>
       \/ Step(t, "protect", "failed") /\ UNCHANGED faults /\ rule' = FALSE /\ refused' = FALSE /\ Recorded(p, "protected", FALSE)
    /\ UNCHANGED <<link, routes, taken, helperVars, sessionVars, guiVars>>

Windows(t) ==
    \/ TakeDown(t) \/ Unprotect(t)
    \/ CreateDevice(t) \/ SetUpRoutes(t) \/ Protect(t)
=============================================================================
