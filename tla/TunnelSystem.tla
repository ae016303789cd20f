----------------------------- MODULE TunnelSystem -----------------------------
(***************************************************************************)
(* The tunnel of the machine: sessions of the GUI process that set it up     *)
(* (bridge.go forwardEvents), a Disconnect and the end of the application     *)
(* that take it down, processes that are killed and started again, and the   *)
(* helpers of Windows and macOS.                                              *)
(***************************************************************************)
EXTENDS WindowsHelper, MacHelper

HelperIsAlive == \E h \in Helpers : Alive(h)
Something == link # {} \/ routes \/ rule
-----------------------------------------------------------------------------
(***************************************************************************)
(* A session, as far as the tunnel sees it.                                   *)
(***************************************************************************)
(* Bridge.Connect installed a Core and started forwardEvents. *)
Connect ==
    /\ gui /\ core = "none" /\ pc["forward"] = "idle" /\ pc["user"] # "exit"
    /\ sessions < MaxSessions
    /\ sessions' = sessions + 1
    /\ core' = "running" /\ configured' = FALSE /\ applied' = FALSE
    /\ alone' = (pc["user"] = "idle" /\ ~HelperIsAlive)
    /\ UNCHANGED <<machineVars, wg, threadVars, helperVars, stops, platform, gui, runs, cleaned, lost, faults>>

(* The Core ends by itself and closes its events; what is in the channel is still read. *)
CoreEnds ==
    /\ core = "running"
    /\ core' = "ended"
    /\ UNCHANGED <<machineVars, wg, threadVars, helperVars, sessions, configured, applied, stops, guiVars, faults>>

(* The event wg_config: WG.Apply. *)
Config ==
    /\ core # "none" /\ ~configured /\ pc["forward"] = "idle"
    /\ configured' = TRUE
    /\ IF platform = "helper"
       THEN pc' = [pc EXCEPT !["forward"] = "lockState"] /\ UNCHANGED <<next, mixed>>
       ELSE BeginTeardown("forward", "create")
    /\ UNCHANGED <<machineVars, wg, taken, helperVars, sessions, core, applied, stops, guiVars, faults>>

ApplyOK ==
    /\ Step("forward", "ok", "idle")
    /\ applied' = TRUE
    /\ UNCHANGED <<machineVars, wg, taken, helperVars, sessions, core, configured, stops, guiVars, faults>>

(* On Windows WG.Apply takes down what it had set up; on Linux and macOS it returns. *)
ApplyFails ==
    /\ pc["forward"] = "failed"
    /\ IF platform \in {"elevated", "helper"}
       THEN BeginTeardown("forward", "error")
       ELSE Step("forward", "failed", "error")
    /\ UNCHANGED <<machineVars, wg, taken, helperVars, sessionVars, guiVars, faults>>

(* go c.Stop(). *)
ApplyError ==
    /\ Step("forward", "error", "idle")
    /\ core' = "ended"
    /\ UNCHANGED <<machineVars, wg, taken, helperVars, sessions, configured, applied, stops, guiVars, faults>>

(* The channel is closed and drained: the last Teardown of the session. *)
Drained ==
    /\ core = "ended" /\ pc["forward"] = "idle"
    /\ BeginTeardown("forward", "final")
    /\ UNCHANGED <<machineVars, wg, taken, helperVars, sessionVars, guiVars, faults>>

Reset ==
    /\ Step("forward", "final", "idle")
    /\ core' = "none" /\ configured' = FALSE /\ applied' = FALSE
    /\ target' = [target EXCEPT !["forward"] = NoHelper]
    /\ UNCHANGED <<machineVars, wg, taken, client, conn, inbox, outbox, poisoned, sessions, stops, guiVars, faults>>

Forwarder == Config \/ ApplyOK \/ ApplyFails \/ ApplyError \/ Drained \/ Reset
-----------------------------------------------------------------------------
(***************************************************************************)
(* Disconnect, the end of the application, kills and starts.                  *)
(***************************************************************************)
(* Bridge.Disconnect reads b.core and tears down before it stops the Core. *)
Disconnect ==
    /\ gui /\ pc["user"] = "idle" /\ core # "none"
    /\ stops' = sessions
    /\ BeginTeardown("user", "stop")
    /\ alone' = FALSE
    /\ UNCHANGED <<machineVars, wg, taken, helperVars, sessions, core, configured, applied>>
    /\ UNCHANGED <<platform, gui, runs, cleaned, lost, faults>>

StopCore ==
    /\ Step("user", "stop", "idle")
    /\ core' = IF core = "running" /\ stops = sessions THEN "ended" ELSE core
    /\ stops' = 0
    /\ UNCHANGED <<machineVars, wg, taken, helperVars, sessions, configured, applied, guiVars, faults>>

(* The hook OnShutdown, which only main_windows.go sets. *)
Shutdown ==
    /\ gui /\ pc["user"] = "idle" /\ platform \in {"elevated", "helper"}
    /\ BeginTeardown("user", "exit")
    /\ alone' = FALSE
    /\ UNCHANGED <<machineVars, wg, taken, helperVars, sessionVars, platform, gui, runs, cleaned, lost, faults>>

(* The GUI process is gone: its goroutines, its handles and its connections with it.  The   *)
(* interface of Linux belongs to the kernel.                                                *)
GuiEnds ==
    /\ gui
    /\ gui' = FALSE /\ alone' = FALSE
    /\ lost' = (lost \/ (platform \in {"linux", "elevated"} /\ Something))
    /\ link' = IF platform = "linux" THEN link ELSE link \ {App}
    /\ wg' = [wg EXCEPT ![App] = NoWG]
    /\ pc' = [t \in Threads |-> IF t \in AppThreads THEN "idle" ELSE pc[t]]
    /\ client' = NoHelper
    /\ conn' = [h \in Helpers |-> IF conn[h] = "open" THEN "closed" ELSE conn[h]]
    /\ target' = [t \in AppThreads |-> NoHelper]
    /\ outbox' = [h \in Helpers |-> <<>>]
    /\ core' = "none" /\ applied' = FALSE /\ stops' = 0
    /\ next' = [t \in Threads |-> IF t \in AppThreads THEN "idle" ELSE next[t]]
    /\ taken' = [t \in Threads |-> t \in Helpers /\ taken[t]]
    /\ configured' = FALSE
    /\ UNCHANGED <<routes, rule, refused, mixed, inbox, poisoned>>
    /\ UNCHANGED <<sessions, platform, runs, cleaned, faults>>

Exit == pc["user"] = "exit" /\ GuiEnds

Kill == pc["user"] # "exit" /\ GuiEnds

KillHelper(h) ==
    /\ Alive(h) /\ Fault
    /\ pc' = [pc EXCEPT ![h] = "gone"]
    /\ lost' = (lost \/ Something)
    /\ link' = link \ {h}
    /\ wg' = [wg EXCEPT ![h] = NoWG]
    /\ inbox' = [inbox EXCEPT ![h] = <<>>]
    /\ next' = [next EXCEPT ![h] = "idle"]
    /\ taken' = [taken EXCEPT ![h] = FALSE]
    /\ alone' = FALSE
    /\ UNCHANGED <<routes, rule, refused, mixed, client, conn, target, outbox, poisoned>>
    /\ UNCHANGED <<sessions, core, configured, applied, stops, platform, gui, runs, cleaned>>

Start ==
    /\ ~gui /\ runs < MaxRuns[platform]
    /\ gui' = TRUE /\ runs' = runs + 1 /\ cleaned' = NothingToClean
    /\ UNCHANGED <<machineVars, wg, threadVars, helperVars, sessionVars, platform, alone, lost, faults>>

(* CleanupStaleExcludeRoutes: an elevated process removes the rule unless it uses it; one   *)
(* that is not elevated leaves it to the next helper; on macOS routes through a gateway      *)
(* that is no longer the default one are deleted, if the user gives the password; Linux has  *)
(* nothing to clean up with.                                                                 *)
CleanStale ==
    /\ gui /\ ~cleaned
    /\ cleaned' = TRUE
    /\ \/ /\ platform = "elevated" => wg[App].protected
          /\ UNCHANGED <<routes, rule, refused, faults>>
       \/ /\ platform = "elevated" /\ ~wg[App].protected
          /\ \/ rule' = FALSE /\ refused' = FALSE /\ UNCHANGED faults
             \/ Fault /\ rule /\ refused' = TRUE /\ UNCHANGED rule
          /\ UNCHANGED routes
       \/ /\ platform = "darwin" /\ \A h \in Helpers : Alive(h) => ~taken[h]
          /\ routes' = FALSE
          /\ UNCHANGED <<rule, refused, faults>>
    /\ UNCHANGED <<link, wg, threadVars, helperVars, sessionVars, platform, gui, runs, alone, lost>>
-----------------------------------------------------------------------------
GuiThread(t) == CASE platform = "linux" -> Linux(t)
                  [] platform = "elevated" -> Windows(t)
                  [] platform = "helper" -> WindowsGUI(t)
                  [] platform = "darwin" -> MacGUI(t)

HelperProcess(h) == IF platform = "darwin" THEN MacHelperProcess(h)
                    ELSE WindowsHelperProcess(h)

Next ==
    \/ Connect \/ CoreEnds \/ Forwarder
    \/ Disconnect \/ StopCore \/ Shutdown \/ Exit
    \/ Kill \/ Start \/ CleanStale
    \/ \E t \in AppThreads : GuiThread(t)
    \/ \E h \in Helpers : HelperProcess(h) \/ KillHelper(h)

Spec == Init /\ [][Next]_vars

(* A helper process runs; its user, the GUI and the kills are not fair. *)
FairSpec == Spec /\ \A h \in Helpers : WF_vars(HelperProcess(h))
-----------------------------------------------------------------------------
(***************************************************************************)
(* Properties.                                                              *)
(***************************************************************************)
TypeOK ==
    /\ platform \in Platforms
    /\ link \subseteq Processes
    /\ routes \in BOOLEAN /\ rule \in BOOLEAN /\ refused \in BOOLEAN
    /\ wg \in [Processes -> WG]
    /\ taken \in [Threads -> BOOLEAN]
    /\ client \in Helpers \cup {NoHelper}
    /\ conn \in [Helpers -> {"none", "open", "closed"}]
    /\ target \in [AppThreads -> Helpers \cup {NoHelper}]
    /\ core \in {"none", "running", "ended"}
    /\ sessions \in 0..MaxSessions /\ runs \in 1..MaxRuns[platform] /\ stops \in 0..MaxSessions

Quiet == core = "none" /\ ~HelperIsAlive /\ \A t \in AppThreads : pc[t] = "idle"

(* When no session is left, nobody sets up or takes down and no helper runs, the machine is   *)
(* as it was: no interface, no exclude routes, the metric of the default route and the IPv6   *)
(* rule restored, also when the GUI was killed and its helper had to notice.  Excepted are    *)
(* what a killed process held itself, a firewall that refused, and the elevated GUI when      *)
(* two of its goroutines were in the unlocked WG at once.                                     *)
NothingIsLeft ==
    Quiet /\ ~lost /\ ~refused /\ (platform = "elevated" => ~mixed) => ~Something

(* WG.Apply returned nil and nobody else touched the tunnel since the session began: the       *)
(* interface is up, and the process that holds it is right about the IPv6 rule.                 *)
TunnelIsComplete ==
    applied /\ alone /\ pc["forward"] = "idle" =>
        \E p \in link : /\ platform = "linux" \/ wg[p].dev
                        /\ wg[p].protected => rule

(* A session never meets the connection of an earlier one: whatever became of its helper, the *)
(* last Teardown took it out of windowsWGHelperState (w.helperConn).                           *)
NoClientLeft ==
    core = "none" /\ (\A t \in AppThreads : pc[t] = "idle") => client = NoHelper

(* A helper whose connection the GUI closed, or that outlived the GUI, takes everything down   *)
(* and ends: there are finitely many, so none is left again and again.                          *)
HelperLetsGo == []<>(\A h \in Helpers : Alive(h) => conn[h] # "closed")
=============================================================================
