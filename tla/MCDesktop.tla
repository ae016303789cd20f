------------------------------ MODULE MCDesktop ------------------------------
(***************************************************************************)
(* The Bridge, Settings, SessionLog and Frontend for TLC.  The modules share no  *)
(* variable and no lock, so that their interleavings show nothing: a behaviour    *)
(* is one of the Bridge, of the settings, of the journal or of the window.  The     *)
(* file of the settings differs at the start only where it matters.                  *)
(***************************************************************************)
EXTENDS Bridge, Settings, SessionLog, Frontend

CONSTANTS d1, c1, c2

VARIABLE part

OneCaller == {d1}
TwoCalls == {c1, c2}
MCStages == {"vpn:running"}

DesktopInit ==
    /\ Init /\ SettingsInit /\ LogInit /\ WindowInit
    /\ part \in {"bridge", "settings", "journal", "window"}
    /\ part # "settings" => file = Absent

DesktopNext ==
    \/ part = "bridge" /\ Next /\ UNCHANGED <<settingsVars, logVars, windowVars, part>>
    \/ part = "settings" /\ SettingsNext /\ UNCHANGED <<vars, logVars, windowVars, part>>
    \/ part = "journal" /\ LogNext /\ UNCHANGED <<vars, settingsVars, windowVars, part>>
    \/ part = "window" /\ WindowNext /\ UNCHANGED <<vars, settingsVars, logVars, part>>

DesktopSpec == DesktopInit /\ [][DesktopNext]_<<vars, settingsVars, logVars, windowVars, part>>
=============================================================================
