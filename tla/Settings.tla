------------------------------- MODULE Settings -------------------------------
(***************************************************************************)
(* config.json (backend/store.go) and the bindings that change it            *)
(* (backend/app.go, diagnostics.go).  A binding loads all the settings,        *)
(* changes one and saves all: the lock of the Store covers the load and the      *)
(* save, not the way from one to the other.  A damaged file is moved aside         *)
(* before anything is written, and a file is replaced by a rename.  Files fail,     *)
(* the process crashes, and something outside damages the file.                      *)
(***************************************************************************)
EXTENDS Naturals, FiniteSets

CONSTANTS
    Calls,       \* the goroutines in which the window calls a binding, one for a call under way
    MaxChanges,  \* bound: calls of the bindings
    MaxDamages,  \* bound: damages from outside
    MaxFaults    \* bound: file operations that fail, crashes

(* One more goroutine runs App.Startup. *)
Startup == "Startup"
Threads == Calls \cup {Startup}
Nobody == "nobody"

ASSUME SettingsAssumption == Calls \cap {Startup, Nobody} = {}

AppSettings == [autoStart : BOOLEAN, mode : {"audio", "video"}, accepted : BOOLEAN, debug : BOOLEAN]
Defaults == [autoStart |-> TRUE, mode |-> "audio", accepted |-> FALSE, debug |-> FALSE]
None == [set |-> "none", to |-> FALSE]

Absent == [is |-> "absent"]
Damaged(n) == [is |-> "damaged", bytes |-> n]
Json(settings) == [is |-> "json", settings |-> settings]

VARIABLES
    file,       \* config.json
    backups,    \* the bytes of the .corrupt-*.bak files
    holder,     \* who holds Store.mu
    pc,         \* [Threads -> where the binding is]
    change,     \* [Threads -> the setting it sets, and the value]
    loaded,     \* [Threads -> the settings it loaded]
    stale,      \* history: [Threads -> the file changed since it loaded]
    unread,     \* history: [Threads -> its load failed to read a file that was there]
    autoStarts, \* the system starts the program
    unseen,     \* history: the bytes of a damage that came between the look of a save and its rename
    asked,      \* history: the value of each setting that the user was last told is saved
    lost,       \* history: a save did not know of another one
    defaulted,  \* history: a save wrote defaults it took for a file it could not read
    damages, changes, settingsFaults

threads == <<pc, change, loaded, stale, unread>>
settingsHistory == <<unseen, asked, lost, defaulted>>
settingsVars == <<file, backups, holder, threads, autoStarts, settingsHistory, damages, changes, settingsFaults>>

SettingsInit ==
    /\ \/ file = Absent /\ asked = Defaults
       \/ \E s \in {Defaults, [Defaults EXCEPT !.autoStart = FALSE, !.accepted = TRUE, !.mode = "video"]} :
            file = Json(s) /\ asked = s
    /\ backups = {} /\ holder = Nobody
    /\ pc = [t \in Threads |-> IF t = Startup THEN "start" ELSE "idle"]
    /\ change = [t \in Threads |-> None]
    /\ loaded = [t \in Threads |-> Defaults] 
    /\ stale = [t \in Threads |-> FALSE]
    /\ unread = [t \in Threads |-> FALSE]
    /\ autoStarts = FALSE /\ unseen = {} /\ lost = FALSE /\ defaulted = FALSE
    /\ damages = 0 /\ changes = 0 /\ settingsFaults = 0
-----------------------------------------------------------------------------
Fails == settingsFaults < MaxFaults /\ settingsFaults' = settingsFaults + 1
Works == UNCHANGED settingsFaults

Goto(t, to) == pc' = [pc EXCEPT ![t] = to]
Return(t) ==
    /\ Goto(t, "idle") /\ change' = [change EXCEPT ![t] = None]
    /\ loaded' = [loaded EXCEPT ![t] = Defaults]
    /\ unread' = [unread EXCEPT ![t] = FALSE]

(* Whoever took a decision from what it loaded has an old one now.  App.Startup takes its one *)
(* when it decides to set AutoStart.                                                           *)
HasLoaded(t) == pc[t] \in {"save", "write", "rename"} \/ (t = Startup /\ pc[t] \in {"started", "load"})
Overtaken(others) == [t \in Threads |-> t \in others /\ (stale[t] \/ HasLoaded(t))]

(* readJSON, under the lock: what is there, or the damaged bytes are moved aside. *)
Reads ==
    /\ file.is # "damaged"
    /\ Works /\ UNCHANGED <<file, backups, stale, asked>>
Quarantines ==
    /\ file.is = "damaged"
    /\ Works /\ file' = Absent /\ backups' = backups \cup {file.bytes}
    /\ asked' = Defaults /\ stale' = Overtaken(Threads)
(* It cannot be read, or cannot be moved: the file stays as it is. *)
ReadFails ==
    /\ file.is # "absent"
    /\ Fails /\ UNCHANGED <<file, backups, stale, asked>>

(* LoadSettings: a mode counts only when the modes were accepted. *)
Accepted(settings) == IF settings.accepted THEN settings ELSE [settings EXCEPT !.mode = "audio"]
Settings(f) == IF f.is = "json" THEN Accepted(f.settings) ELSE Defaults

Load(t, to) ==
    /\ holder = Nobody
    /\ \/ (Reads \/ Quarantines)
          /\ loaded' = [loaded EXCEPT ![t] = Settings(file)] /\ UNCHANGED unread
       \/ /\ ReadFails
          /\ loaded' = [loaded EXCEPT ![t] = Defaults]
          /\ unread' = [unread EXCEPT ![t] = @ \/ file.is = "json"]
    /\ Goto(t, to)
    /\ UNCHANGED <<holder, change, autoStarts, unseen, lost, defaulted, damages, changes>>

(* LoadSettings of those who only read: Bridge.Connect, the probes, the getters. *)
JustRead ==
    /\ holder = Nobody /\ (Reads \/ Quarantines \/ ReadFails)
    /\ UNCHANGED <<holder, pc, change, loaded, unread, autoStarts, unseen, lost, defaulted, damages, changes>>
-----------------------------------------------------------------------------
(***************************************************************************)
(* The bindings.                                                            *)
(***************************************************************************)
(* App.Startup loads, and sets AutoStart again when it is on. *)
StartupLoads == pc[Startup] = "start" /\ Load(Startup, "started")

StartupSets ==
    /\ pc[Startup] = "started"
    /\ IF loaded[Startup].autoStart
       THEN /\ Goto(Startup, "load")
            /\ change' = [change EXCEPT ![Startup] = [set |-> "autoStart", to |-> TRUE]]
            /\ loaded' = [loaded EXCEPT ![Startup] = Defaults]
            /\ UNCHANGED <<stale, unread>>
       ELSE Return(Startup) /\ stale' = [stale EXCEPT ![Startup] = FALSE]
    /\ UNCHANGED <<file, backups, holder, autoStarts, settingsHistory, damages, changes, settingsFaults>>

(* Each click calls its binding in a goroutine of its own, and the window waits for none of   *)
(* them before it calls the next one, of the same kind or of another.  It accepts the modes     *)
(* before it sets one, but may not have heard that the file is gone, and the acceptance with it. *)
Call(t, what, value) ==
    /\ pc[t] = "idle" /\ changes < MaxChanges /\ changes' = changes + 1
    /\ Goto(t, "load")
    /\ change' = [change EXCEPT ![t] = [set |-> what, to |-> value]]
    /\ stale' = [stale EXCEPT ![t] = FALSE]
    /\ UNCHANGED <<file, backups, holder, loaded, unread, autoStarts, settingsHistory, damages, settingsFaults>>

SetAutoStart(t) == \E v \in BOOLEAN : Call(t, "autoStart", v)
SetDebugLogging(t) == \E v \in BOOLEAN : Call(t, "debug", v)
SetObfsAccepted(t) == Call(t, "accepted", TRUE)
SetObfsMode(t) == \E mode \in {"audio", "video"} : Call(t, "mode", mode)

LoadSettings(t) == pc[t] = "load" /\ Load(t, "save")

(* Mutant: SaveSettings writes although the damaged file could not be moved aside. *)
SaveAnyway(t) ==
    /\ pc[t] = "save" /\ holder = Nobody
    /\ Reads \/ Quarantines \/ ReadFails
    /\ holder' = t /\ Goto(t, "write")
    /\ UNCHANGED <<change, loaded, unread, autoStarts, unseen, lost, defaulted, damages, changes>>

(* SaveSettings looks at the file first, and writes nothing over what it cannot read or move. *)
SaveSettings(t) ==
    /\ pc[t] = "save" /\ holder = Nobody
    /\ \/ /\ Reads \/ Quarantines
          /\ holder' = t /\ Goto(t, "write") /\ UNCHANGED <<change, loaded, unread>>
       \/ ReadFails /\ Return(t) /\ UNCHANGED holder
    /\ UNCHANGED <<autoStarts, unseen, lost, defaulted, damages, changes>>

(* Mutant: the file itself is opened for writing. *)
WriteInPlace(t) ==
    /\ pc[t] = "write"
    /\ file' = Damaged(0) /\ Goto(t, "rename") /\ Works /\ UNCHANGED <<holder, change, loaded, unread>>
    /\ UNCHANGED <<backups, stale, autoStarts, settingsHistory, damages, changes>>

(* atomicWrite: the temporary file. *)
WriteTemp(t) ==
    /\ pc[t] = "write"
    /\ \/ Works /\ Goto(t, "rename") /\ UNCHANGED <<holder, change, loaded, unread>>
       \/ Fails /\ Return(t) /\ holder' = Nobody
    /\ UNCHANGED <<file, backups, stale, autoStarts, settingsHistory, damages, changes>>

(* The rename.  App.Startup repeats a setting, the others carry out what the user asks for. *)
Rename(t) ==
    LET c == change[t] IN
    /\ pc[t] = "rename"
    /\ \/ /\ Works
          /\ file' = Json([loaded[t] EXCEPT ![c.set] = c.to])
          /\ asked' = IF t = Startup THEN asked ELSE Accepted([asked EXCEPT ![c.set] = c.to])
          /\ UNCHANGED unseen
          /\ lost' = (lost \/ stale[t])
          /\ stale' = Overtaken(Threads \ {t})
          /\ defaulted' = (defaulted \/ unread[t])
          /\ IF c.set = "autoStart"
             THEN Goto(t, "apply") /\ UNCHANGED <<change, loaded, unread>>
             ELSE Return(t)
       \/ Fails /\ Return(t) /\ UNCHANGED <<file, stale, settingsHistory>>
    /\ holder' = Nobody
    /\ UNCHANGED <<backups, autoStarts, damages, changes>>

(* setAutoStart registers the program with the system, or cannot. *)
Apply(t) ==
    /\ pc[t] = "apply"
    /\ \/ autoStarts' = change[t].to /\ Works
       \/ Fails /\ UNCHANGED autoStarts
    /\ Return(t)
    /\ UNCHANGED <<file, backups, holder, stale, settingsHistory, damages, changes>>
-----------------------------------------------------------------------------
(* Another program, or the disk, damages the file. *)
Damage ==
    /\ damages < MaxDamages /\ damages' = damages + 1
    /\ file.is = "json"
    /\ file' = Damaged(damages + 1)
    /\ unseen' = IF holder = Nobody THEN unseen ELSE unseen \cup {damages + 1}
    /\ UNCHANGED <<backups, holder, threads, autoStarts, asked, lost, defaulted, changes, settingsFaults>>

(* The temporary file of a save stays behind, the lock goes with the process. *)
SettingsCrash ==
    /\ Fails
    /\ holder' = Nobody
    /\ pc' = [t \in Threads |-> IF t = Startup THEN "start" ELSE "idle"]
    /\ change' = [t \in Threads |-> None]
    /\ loaded' = [t \in Threads |-> Defaults] 
    /\ stale' = [t \in Threads |-> FALSE]
    /\ unread' = [t \in Threads |-> FALSE]
    /\ UNCHANGED <<file, backups, autoStarts, settingsHistory, damages, changes>>

SettingsNext ==
    \/ StartupLoads \/ StartupSets \/ JustRead
    \/ \E t \in Calls : SetAutoStart(t) \/ SetDebugLogging(t) \/ SetObfsAccepted(t) \/ SetObfsMode(t)
    \/ \E t \in Threads : LoadSettings(t) \/ SaveSettings(t) \/ WriteTemp(t) \/ Rename(t) \/ Apply(t)
    \/ Damage \/ SettingsCrash

SettingsSpec == SettingsInit /\ [][SettingsNext]_settingsVars
-----------------------------------------------------------------------------
(* No damaged byte is lost: what was in a damaged file is still there or in a backup, also    *)
(* when the quarantine fails or the process crashes around it (readJSON before every write).   *)
(* Only a damage in the middle of a save goes unseen.                                            *)
BytesSurvive ==
    \A n \in 1..damages : file = Damaged(n) \/ n \in backups \cup unseen

(* What the bindings reported as saved is what the file says at every instant, crashes and       *)
(* failing writes or not, and the program damages no file of its own.  Excepted are a save that  *)
(* overlapped another one, which takes it back (there is no lock from the load to the save), and  *)
(* one whose load could not read the file, see ReadErrorsLoseNothing.                              *)
SettingsKept ==
    ~lost /\ ~defaulted =>
        IF file.is = "damaged" THEN file.bytes \in 1..damages ELSE Settings(file) = asked

(* The comment of LoadSettings has it that defaults are used only for a file that is not there   *)
(* or was moved aside, the docs that a file which cannot be read is not overwritten: what was      *)
(* saved stays although a load fails.                                                                *)
ReadErrorsLoseNothing == ~lost /\ file.is # "damaged" => Settings(file) = asked
=============================================================================
