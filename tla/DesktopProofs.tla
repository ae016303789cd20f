----------------------------- MODULE DesktopProofs ---------------------------
(***************************************************************************)
(* Theorems about the settings, the session log and the window of the desktop  *)
(* application, for any number of calls, lines, sessions, clicks and faults.     *)
(***************************************************************************)
EXTENDS Settings, SessionLog, Frontend, TLAPS, SequenceTheorems, FiniteSetTheorems

-----------------------------------------------------------------------------
(***************************************************************************)
(* Settings.                                                                 *)
(***************************************************************************)
Phases == {"start", "started", "idle", "load", "save", "write", "rename", "apply"}
Changing == {"load", "save", "write", "rename", "apply"}
Changes ==
    [set : {"autoStart", "debug"}, to : BOOLEAN]
        \cup [set : {"accepted"}, to : {TRUE}]
        \cup [set : {"mode"}, to : {"audio", "video"}]

(* A file is one of the three kinds, and a damaged one carries a number that was given. *)
FileShape ==
    /\ file.is \in {"absent", "damaged", "json"}
    /\ file.is = "damaged" => file = Damaged(file.bytes) /\ file.bytes \in 1..damages
    /\ file.is = "json" => file = Json(file.settings) /\ file.settings \in AppSettings

SettingsTypes ==
    /\ damages \in Nat
    /\ FileShape
    /\ asked \in AppSettings
    /\ pc \in [Threads -> Phases]
    /\ loaded \in [Threads -> AppSettings]
    /\ stale \in [Threads -> BOOLEAN] /\ unread \in [Threads -> BOOLEAN]
    /\ lost \in BOOLEAN /\ defaulted \in BOOLEAN
    /\ DOMAIN change = Threads
    /\ \A t \in Threads : pc[t] \in Changing => change[t] \in Changes

(* From the look of a save to its rename the lock is held, so that only an unseen damage can  *)
(* come between.                                                                               *)
LockInv ==
    /\ \A t \in Threads : pc[t] \in {"write", "rename"} => holder = t
    /\ holder # Nobody /\ file.is = "damaged" => file.bytes \in unseen

BytesInv == LockInv /\ BytesSurvive

(* What a binding loaded, if nobody saved since and the file could be read, is what the user    *)
(* was told; a file that was damaged before its load is moved aside before it can write.         *)
LoadedInv ==
    \A t \in Threads :
        pc[t] \in {"started", "save", "write", "rename"} /\ ~stale[t] /\ ~unread[t] =>
            loaded[t] = asked \/ (pc[t] \in {"started", "save"} /\ file.is = "damaged")

(* App.Startup alone looks before it sets, and repeats a setting that is on. *)
StartupChange ==
    /\ \A t \in Threads : pc[t] \in {"start", "started"} => t = Startup
    /\ pc[Startup] \in Changing => change[Startup] = [set |-> "autoStart", to |-> TRUE]

StartupInv ==
    pc[Startup] \in Changing \ {"apply"} /\ ~stale[Startup] /\ ~unread[Startup] =>
        asked.autoStart \/ (pc[Startup] \in {"load", "save"} /\ file.is = "damaged")

FileIsAsked == file.is # "damaged" => Settings(file) = asked

KeptInv ==
    /\ Accepted(asked) = asked
    /\ StartupChange
    /\ ~lost /\ ~defaulted => LoadedInv /\ StartupInv /\ FileIsAsked
-----------------------------------------------------------------------------
(* The defaults and what LoadSettings makes of a file are settings. *)
LEMMA SettingsAreTyped ==
    /\ Defaults \in AppSettings
    /\ \A s \in AppSettings : Accepted(s) \in AppSettings
    /\ FileShape => Settings(file) \in AppSettings
<1>1. Defaults \in AppSettings
  BY DEF Defaults, AppSettings
<1>2. ASSUME NEW s \in AppSettings PROVE Accepted(s) \in AppSettings
  BY DEF Accepted, AppSettings
<1> QED
  BY <1>1, <1>2 DEF FileShape, Settings

(* One change keeps the settings typed, and changes no other one. *)
LEMMA ChangeIsTyped ==
    ASSUME NEW s \in AppSettings, NEW c \in Changes
    PROVE  [s EXCEPT ![c.set] = c.to] \in AppSettings
<1>1. CASE c \in [set : {"autoStart"}, to : BOOLEAN]
  BY <1>1 DEF AppSettings
<1>2. CASE c \in [set : {"debug"}, to : BOOLEAN]
  BY <1>2 DEF AppSettings
<1>3. CASE c \in [set : {"accepted"}, to : {TRUE}]
  BY <1>3 DEF AppSettings
<1>4. CASE c \in [set : {"mode"}, to : {"audio", "video"}]
  BY <1>4 DEF AppSettings
<1> QED
  BY <1>1, <1>2, <1>3, <1>4 DEF Changes

(* The three ways a look at the file can end. *)
LEMMA LooksAreTyped ==
    ASSUME SettingsTypes, Reads \/ Quarantines \/ ReadFails, UNCHANGED damages
    PROVE  FileShape' /\ asked' \in AppSettings /\ stale' \in [Threads -> BOOLEAN]
<1> USE DEF SettingsTypes, FileShape, Works, Fails
<1>1. CASE Reads \/ ReadFails
  BY <1>1 DEF Reads, ReadFails
<1>2. CASE Quarantines
  <2>1. file' = Absent
    BY <1>2 DEF Quarantines
  <2>2. stale' \in [Threads -> BOOLEAN]
    BY <1>2 DEF Quarantines, Overtaken, HasLoaded
  <2> QED
    BY <1>2, <2>1, <2>2, SettingsAreTyped DEF Quarantines, Absent
<1> QED
  BY <1>1, <1>2

(* Load ends at a phase where no change is looked at but the one it already has. *)
LEMMA LoadKeepsTypes ==
    ASSUME SettingsTypes, NEW t \in Threads, NEW to \in Phases, Load(t, to),
           pc[t] = "load" \/ to = "started"
    PROVE  SettingsTypes'
<1>1. FileShape' /\ asked' \in AppSettings /\ stale' \in [Threads -> BOOLEAN]
  BY LooksAreTyped DEF Load
<1>2. loaded' \in [Threads -> AppSettings]
  BY SettingsAreTyped DEF Load, SettingsTypes
<1>3. unread' \in [Threads -> BOOLEAN]
  BY DEF Load, SettingsTypes, FileShape
<1>4. pc' = [pc EXCEPT ![t] = to] /\ UNCHANGED <<change, lost, defaulted, damages>>
  BY DEF Load, Goto
<1>5. \A u \in Threads : pc'[u] \in Changing => change'[u] \in Changes
  BY <1>4 DEF SettingsTypes, Changing
<1> QED
  BY <1>1, <1>2, <1>3, <1>4, <1>5 DEF SettingsTypes

(* A binding that returns, or a crash, leaves nothing but typed defaults behind. *)
LEMMA ReturnKeepsTypes ==
    ASSUME SettingsTypes, NEW t \in Threads, Return(t)
    PROVE  /\ pc' \in [Threads -> Phases] /\ loaded' \in [Threads -> AppSettings]
           /\ unread' \in [Threads -> BOOLEAN] /\ DOMAIN change' = Threads
           /\ \A u \in Threads : pc'[u] \in Changing => change'[u] \in Changes
  BY SettingsAreTyped DEF SettingsTypes, Return, Goto, Phases, Changing

(* The calls of the window. *)
LEMMA CallKeepsTypes ==
    ASSUME SettingsTypes, NEW t \in Threads, NEW what, NEW value, Call(t, what, value),
           [set |-> what, to |-> value] \in Changes
    PROVE  SettingsTypes'
<1>1. pc' \in [Threads -> Phases] /\ stale' \in [Threads -> BOOLEAN]
  BY DEF SettingsTypes, Call, Goto, Phases
<1>2. \A u \in Threads : pc'[u] \in Changing => change'[u] \in Changes
  BY DEF SettingsTypes, Call, Goto
<1> QED
  BY <1>1, <1>2 DEF SettingsTypes, FileShape, Call, settingsHistory

(* The rename writes settings, and reports settings. *)
LEMMA RenameKeepsTypes ==
    ASSUME SettingsTypes, NEW t \in Threads, Rename(t)
    PROVE  SettingsTypes'
<1>1. change[t] \in Changes
  BY DEF SettingsTypes, Rename, Changing
<1>2. /\ [loaded[t] EXCEPT ![change[t].set] = change[t].to] \in AppSettings
      /\ Accepted([asked EXCEPT ![change[t].set] = change[t].to]) \in AppSettings
  BY <1>1, ChangeIsTyped, SettingsAreTyped DEF SettingsTypes
<1>3. ASSUME Return(t), UNCHANGED <<file, stale, settingsHistory>>
      PROVE  SettingsTypes'
  <2>1. UNCHANGED <<file, damages, asked, stale, lost, defaulted>>
    BY <1>3 DEF Rename, settingsHistory
  <2> QED
    BY <1>3, <2>1, ReturnKeepsTypes DEF SettingsTypes, FileShape
<1>4. ASSUME file' = Json([loaded[t] EXCEPT ![change[t].set] = change[t].to]),
             asked' = IF t = Startup THEN asked ELSE Accepted([asked EXCEPT ![change[t].set] = change[t].to]),
             lost' = (lost \/ stale[t]), stale' = Overtaken(Threads \ {t}), defaulted' = (defaulted \/ unread[t]),
             \/ Goto(t, "apply") /\ UNCHANGED <<change, loaded, unread>>
             \/ Return(t)
      PROVE  SettingsTypes'
  <2>1. FileShape' /\ damages' \in Nat
    BY <1>2, <1>4 DEF Rename, FileShape, Json, SettingsTypes
  <2>2. asked' \in AppSettings
    BY <1>2, <1>4 DEF SettingsTypes
  <2>3. stale' \in [Threads -> BOOLEAN] /\ lost' \in BOOLEAN /\ defaulted' \in BOOLEAN
    BY <1>4 DEF Overtaken, HasLoaded, SettingsTypes
  <2>4. CASE Return(t)
    BY <2>1, <2>2, <2>3, <2>4, ReturnKeepsTypes DEF SettingsTypes
  <2>5. CASE Goto(t, "apply") /\ UNCHANGED <<change, loaded, unread>>
    <3>1. pc' \in [Threads -> Phases] /\ \A u \in Threads : pc'[u] \in Changing => change'[u] \in Changes
      BY <2>5, <1>1 DEF SettingsTypes, Goto, Phases
    <3> QED
      BY <2>1, <2>2, <2>3, <2>5, <3>1 DEF SettingsTypes
  <2> QED
    BY <1>4, <2>4, <2>5
<1> QED
  BY <1>3, <1>4 DEF Rename

(* SettingsTypes is kept by every step. *)
LEMMA TypesKept == ASSUME SettingsTypes, [SettingsNext]_settingsVars PROVE SettingsTypes'
<1>1. CASE StartupLoads
  BY <1>1, LoadKeepsTypes DEF StartupLoads, Threads, Phases
<1>2. CASE StartupSets
  <2>1. UNCHANGED <<file, damages, asked, lost, defaulted>>
    BY <1>2 DEF StartupSets, settingsHistory
  <2>2. CASE loaded[Startup].autoStart
    <3>1. pc' \in [Threads -> Phases] /\ loaded' \in [Threads -> AppSettings] /\ UNCHANGED <<stale, unread>>
      BY <1>2, <2>2, SettingsAreTyped DEF StartupSets, SettingsTypes, Goto, Phases
    <3>2. \A u \in Threads : pc'[u] \in Changing => change'[u] \in Changes
      <4>1. Startup \in Threads /\ [set |-> "autoStart", to |-> TRUE] \in Changes
        BY DEF Threads, Changes
      <4> QED
        BY <1>2, <2>2, <4>1 DEF StartupSets, SettingsTypes, Goto
    <3> QED
      BY <1>2, <2>1, <2>2, <3>1, <3>2 DEF StartupSets, SettingsTypes, FileShape
  <2>3. CASE ~loaded[Startup].autoStart
    <3>1. Return(Startup) /\ stale' \in [Threads -> BOOLEAN]
      BY <1>2, <2>3 DEF StartupSets, SettingsTypes
    <3> QED
      BY <2>1, <3>1, ReturnKeepsTypes DEF SettingsTypes, FileShape, Threads
  <2> QED
    BY <2>2, <2>3
<1>3. CASE JustRead
  <2>1. FileShape' /\ asked' \in AppSettings /\ stale' \in [Threads -> BOOLEAN]
    BY <1>3, LooksAreTyped DEF JustRead
  <2> QED
    BY <1>3, <2>1 DEF JustRead, SettingsTypes
<1>4. ASSUME NEW t \in Calls, SetAutoStart(t) \/ SetDebugLogging(t) \/ SetObfsAccepted(t) \/ SetObfsMode(t)
      PROVE  SettingsTypes'
  <2>1. t \in Threads
    BY DEF Threads
  <2>2. CASE SetAutoStart(t) \/ SetDebugLogging(t)
    BY <2>1, <2>2, CallKeepsTypes DEF SetAutoStart, SetDebugLogging, Changes
  <2>3. CASE SetObfsAccepted(t) \/ SetObfsMode(t)
    BY <2>1, <2>3, CallKeepsTypes DEF SetObfsAccepted, SetObfsMode, Changes
  <2> QED
    BY <1>4, <2>2, <2>3
<1>5. ASSUME NEW t \in Threads, LoadSettings(t) PROVE SettingsTypes'
  BY <1>5, LoadKeepsTypes DEF LoadSettings, Phases
<1>6. ASSUME NEW t \in Threads, SaveSettings(t) PROVE SettingsTypes'
  <2>1. FileShape' /\ asked' \in AppSettings /\ stale' \in [Threads -> BOOLEAN]
    BY <1>6, LooksAreTyped DEF SaveSettings
  <2>2. UNCHANGED <<lost, defaulted, damages>>
    BY <1>6 DEF SaveSettings
  <2>3. CASE Return(t)
    BY <2>1, <2>2, <2>3, ReturnKeepsTypes DEF SettingsTypes
  <2>4. CASE Goto(t, "write") /\ UNCHANGED <<change, loaded, unread>>
    <3>1. pc' \in [Threads -> Phases] /\ \A u \in Threads : pc'[u] \in Changing => change'[u] \in Changes
      BY <1>6, <2>4 DEF SaveSettings, SettingsTypes, Goto, Phases, Changing
    <3> QED
      BY <2>1, <2>2, <2>4, <3>1 DEF SettingsTypes
  <2> QED
    BY <1>6, <2>3, <2>4 DEF SaveSettings
<1>7. ASSUME NEW t \in Threads, WriteTemp(t) PROVE SettingsTypes'
  <2>1. UNCHANGED <<file, damages, asked, stale, lost, defaulted>>
    BY <1>7 DEF WriteTemp, settingsHistory
  <2>2. CASE Return(t)
    BY <2>1, <2>2, ReturnKeepsTypes DEF SettingsTypes, FileShape
  <2>3. CASE Goto(t, "rename") /\ UNCHANGED <<change, loaded, unread>>
    <3>1. pc' \in [Threads -> Phases] /\ \A u \in Threads : pc'[u] \in Changing => change'[u] \in Changes
      BY <1>7, <2>3 DEF WriteTemp, SettingsTypes, Goto, Phases, Changing
    <3> QED
      BY <2>1, <2>3, <3>1 DEF SettingsTypes, FileShape
  <2> QED
    BY <1>7, <2>2, <2>3 DEF WriteTemp
<1>8. ASSUME NEW t \in Threads, Rename(t) PROVE SettingsTypes'
  BY <1>8, RenameKeepsTypes
<1>9. ASSUME NEW t \in Threads, Apply(t) PROVE SettingsTypes'
  <2>1. Return(t) /\ UNCHANGED <<file, damages, asked, stale, lost, defaulted>>
    BY <1>9 DEF Apply, settingsHistory
  <2> QED
    BY <2>1, ReturnKeepsTypes DEF SettingsTypes, FileShape
<1>10. CASE Damage
  <2>1. file' = Damaged(damages + 1) /\ damages' = damages + 1
    BY <1>10 DEF Damage
  <2>2. FileShape'
    BY <2>1 DEF FileShape, Damaged, SettingsTypes
  <2>3. UNCHANGED <<pc, change, loaded, stale, unread, asked, lost, defaulted>>
    BY <1>10 DEF Damage, threads
  <2> QED
    BY <2>1, <2>2, <2>3 DEF SettingsTypes
<1>11. CASE SettingsCrash
  BY <1>11, SettingsAreTyped DEF SettingsCrash, SettingsTypes, FileShape, settingsHistory, Phases, Changing
<1>12. CASE UNCHANGED settingsVars
  BY <1>12 DEF settingsVars, threads, settingsHistory, SettingsTypes, FileShape
<1> QED
  BY <1>1, <1>2, <1>3, <1>4, <1>5, <1>6, <1>7, <1>8, <1>9, <1>10, <1>11, <1>12 DEF SettingsNext
-----------------------------------------------------------------------------
(* The bytes of a damaged file.                                             *)

(* A look at the file while nobody holds the lock keeps every damaged byte. *)
LEMMA LooksKeepBytes ==
    ASSUME SettingsTypes, BytesSurvive, Reads \/ Quarantines \/ ReadFails, UNCHANGED <<damages, unseen>>
    PROVE  BytesSurvive'
  BY DEF SettingsTypes, BytesSurvive, Reads, Quarantines, ReadFails, FileShape, Damaged, Absent

LEMMA NobodyIsNoThread == Nobody \notin Threads
  BY SettingsAssumption DEF Threads, Startup, Nobody

(* Whoever renames has held the lock since its look: what it writes over, it has seen. *)
LEMMA BytesKept ==
    ASSUME SettingsTypes, BytesInv, [SettingsNext]_settingsVars
    PROVE  BytesInv'
<1> USE DEF BytesInv
<1>1. CASE JustRead \/ StartupLoads \/ \E t \in Threads : LoadSettings(t)
  <2>1. /\ Reads \/ Quarantines \/ ReadFails
        /\ UNCHANGED <<damages, unseen, holder>> /\ holder = Nobody
    BY <1>1 DEF JustRead, StartupLoads, LoadSettings, Load
  <2>2. \A t \in Threads : pc'[t] \in {"write", "rename"} => pc[t] \in {"write", "rename"}
    BY <1>1 DEF JustRead, StartupLoads, LoadSettings, Load, Goto, SettingsTypes, Threads
  <2> QED
    BY <2>1, <2>2, LooksKeepBytes DEF LockInv
<1>2. CASE \/ StartupSets
           \/ \E t \in Calls : SetAutoStart(t) \/ SetDebugLogging(t) \/ SetObfsAccepted(t) \/ SetObfsMode(t)
           \/ \E t \in Threads : Apply(t)
  <2>1. UNCHANGED <<file, backups, holder, unseen, damages>>
    BY <1>2 DEF StartupSets, SetAutoStart, SetDebugLogging, SetObfsAccepted, SetObfsMode, Call, Apply, settingsHistory
  <2>2. \A t \in Threads : pc'[t] \in {"write", "rename"} => pc[t] \in {"write", "rename"}
    BY <1>2 DEF StartupSets, SetAutoStart, SetDebugLogging, SetObfsAccepted, SetObfsMode, Call, Apply,
                Return, Goto, SettingsTypes, Threads
  <2> QED
    BY <2>1, <2>2 DEF LockInv, BytesSurvive
<1>3. ASSUME NEW t \in Threads, SaveSettings(t) PROVE BytesInv'
  <2>1. /\ Reads \/ Quarantines \/ ReadFails
        /\ UNCHANGED <<damages, unseen>> /\ holder = Nobody
    BY <1>3 DEF SaveSettings
  <2>2. CASE ReadFails /\ Return(t) /\ UNCHANGED holder
    BY <2>1, <2>2, LooksKeepBytes DEF LockInv, Return, Goto, SettingsTypes
  <2>3. CASE (Reads \/ Quarantines) /\ holder' = t /\ Goto(t, "write")
    <3>1. file'.is # "damaged"
      BY <2>3 DEF Reads, Quarantines, Absent
    <3>2. \A u \in Threads : pc'[u] \in {"write", "rename"} => u = t
      BY <2>1, <2>3, NobodyIsNoThread DEF Goto, SettingsTypes, LockInv
    <3> QED
      BY <2>1, <2>3, <3>1, <3>2, LooksKeepBytes DEF LockInv
  <2> QED
    BY <1>3, <2>2, <2>3 DEF SaveSettings
<1>4. ASSUME NEW t \in Threads, WriteTemp(t) PROVE BytesInv'
  <2>1. UNCHANGED <<file, backups, unseen, damages>> /\ holder = t
    BY <1>4 DEF WriteTemp, settingsHistory, LockInv
  <2>2. CASE Goto(t, "rename") /\ UNCHANGED holder
    BY <2>1, <2>2 DEF LockInv, BytesSurvive, Goto, SettingsTypes
  <2>3. CASE Return(t) /\ holder' = Nobody
    BY <2>1, <2>3 DEF LockInv, BytesSurvive, Return, Goto, SettingsTypes
  <2> QED
    BY <1>4, <2>2, <2>3 DEF WriteTemp
<1>5. ASSUME NEW t \in Threads, Rename(t) PROVE BytesInv'
  <2>1. holder = t /\ holder # Nobody /\ holder' = Nobody /\ UNCHANGED <<backups, damages>>
    BY <1>5, NobodyIsNoThread DEF Rename, LockInv
  <2>2. /\ UNCHANGED unseen
        /\ \/ UNCHANGED file
           \/ file' = Json([loaded[t] EXCEPT ![change[t].set] = change[t].to])
    BY <1>5 DEF Rename, settingsHistory
  <2>3. \A n \in 1..damages : file = Damaged(n) => n \in unseen
    BY <2>1 DEF LockInv, Damaged
  <2>4. BytesSurvive'
    BY <2>1, <2>2, <2>3 DEF BytesSurvive
  <2>5. \A u \in Threads : pc'[u] \notin {"write", "rename"}
    BY <1>5, <2>1 DEF Rename, Return, Goto, SettingsTypes, LockInv
  <2> QED
    BY <2>1, <2>4, <2>5 DEF LockInv
<1>6. CASE Damage
  <2>1. damages' = damages + 1 /\ file' = Damaged(damages + 1) /\ UNCHANGED <<backups, holder, pc>>
    BY <1>6 DEF Damage, threads
  <2>2. unseen \subseteq unseen' /\ (holder # Nobody => damages + 1 \in unseen')
    BY <1>6 DEF Damage
  <2>3. \A n \in 1..damages : file # Damaged(n)
    BY <1>6 DEF Damage, Damaged
  <2> QED
    BY <2>1, <2>2, <2>3 DEF BytesSurvive, LockInv, Damaged, SettingsTypes
<1>7. CASE SettingsCrash
  BY <1>7 DEF SettingsCrash, LockInv, BytesSurvive, settingsHistory
<1>8. CASE UNCHANGED settingsVars
  BY <1>8 DEF settingsVars, threads, settingsHistory, LockInv, BytesSurvive
<1> QED
  BY <1>1, <1>2, <1>3, <1>4, <1>5, <1>6, <1>7, <1>8 DEF SettingsNext

(* The start. *)
LEMMA SettingsStart == ASSUME SettingsInit PROVE SettingsTypes /\ BytesInv /\ KeptInv
<1> DEFINE Changed == [Defaults EXCEPT !.autoStart = FALSE, !.accepted = TRUE, !.mode = "video"]
<1>1. Defaults \in AppSettings /\ Accepted(Defaults) = Defaults
  BY DEF Defaults, AppSettings, Accepted
<1>2. Changed \in AppSettings /\ Accepted(Changed) = Changed
  BY DEF Defaults, AppSettings, Accepted
<1>3. /\ asked \in AppSettings /\ Accepted(asked) = asked
      /\ (file = Absent /\ asked = Defaults) \/ file = Json(asked)
  BY <1>1, <1>2, Zenon DEF SettingsInit
<1>4. FileShape /\ file.is # "damaged" /\ Settings(file) = asked
  BY <1>3 DEF FileShape, Settings, Absent, Json
<1>5. /\ damages = 0 /\ holder = Nobody /\ lost = FALSE /\ defaulted = FALSE
      /\ pc = [t \in Threads |-> IF t = Startup THEN "start" ELSE "idle"]
      /\ DOMAIN change = Threads
      /\ loaded \in [Threads -> AppSettings]
      /\ stale \in [Threads -> BOOLEAN] /\ unread \in [Threads -> BOOLEAN]
  BY <1>1 DEF SettingsInit
<1>6. \A t \in Threads : pc[t] \in {"start", "idle"}
  BY <1>5
<1>7. SettingsTypes
  BY <1>3, <1>4, <1>5, <1>6 DEF SettingsTypes, Phases, Changing
<1>8. BytesInv
  BY <1>5, <1>6 DEF BytesInv, LockInv, BytesSurvive
<1>9. KeptInv
  <2>1. \A t \in Threads : pc[t] = "start" => t = Startup
    BY <1>5
  <2> QED
    BY <1>3, <1>4, <1>6, <2>1 DEF KeptInv, LoadedInv, StartupInv, StartupChange, FileIsAsked, Changing, Threads
<1> QED
  BY <1>7, <1>8, <1>9

(* No damaged byte is ever lost, for any number of calls, damages, faults and crashes *)
(* (store.go: readJSON before every write, quarantine by rename, atomicWrite).         *)
THEOREM NoByteIsLost == SettingsSpec => []BytesSurvive
<1>1. ASSUME SettingsTypes /\ BytesInv, [SettingsNext]_settingsVars PROVE (SettingsTypes /\ BytesInv)'
  BY <1>1, TypesKept, BytesKept
<1>2. SettingsInit => SettingsTypes /\ BytesInv
  BY SettingsStart
<1>3. BytesInv => BytesSurvive
  BY DEF BytesInv
<1> QED
  BY <1>1, <1>2, <1>3, PTL DEF SettingsSpec
-----------------------------------------------------------------------------
(* What the user was told is saved.                                         *)

(* Setting what is set already changes nothing. *)
LEMMA RepeatIsNothing ==
    ASSUME NEW s \in AppSettings, s.autoStart = TRUE, Accepted(s) = s
    PROVE  Accepted([s EXCEPT !["autoStart"] = TRUE]) = s
  BY DEF AppSettings, Accepted

LEMMA AcceptedTwice == \A s \in AppSettings : Accepted(Accepted(s)) = Accepted(s)
  BY DEF AppSettings, Accepted

(* A look at the file: either it stays, or what was loaded and said before is over. *)
LEMMA LooksKeepAsked ==
    ASSUME SettingsTypes, KeptInv, Reads \/ Quarantines \/ ReadFails
    PROVE  /\ Accepted(asked') = asked'
           /\ ~lost /\ ~defaulted => FileIsAsked'
           /\ \/ UNCHANGED <<file, stale, asked>>
              \/ file'.is = "absent" /\ \A t \in Threads : HasLoaded(t) => stale'[t]
<1>1. CASE Reads \/ ReadFails
  BY <1>1 DEF Reads, ReadFails, KeptInv, FileIsAsked
<1>2. CASE Quarantines
  <2>1. Accepted(Defaults) = Defaults /\ Settings(Absent) = Defaults /\ Absent.is = "absent"
    BY DEF Defaults, Accepted, Settings, Absent
  <2>2. file' = Absent /\ asked' = Defaults /\ stale' = Overtaken(Threads)
    BY <1>2 DEF Quarantines
  <2> QED
    BY <2>1, <2>2 DEF FileIsAsked, Overtaken
<1> QED
  BY <1>1, <1>2

(* Load: what it loaded is what the user was told, or the file is still damaged. *)
LEMMA LoadKeepsAsked ==
    ASSUME SettingsTypes, KeptInv, NEW t \in Threads, NEW to, Load(t, to),
           \/ pc[t] = "load" /\ to = "save"
           \/ t = Startup /\ pc[t] = "start" /\ to = "started"
    PROVE  KeptInv'
<1> USE DEF KeptInv
<1>1. /\ Reads \/ Quarantines \/ ReadFails
      /\ pc' = [pc EXCEPT ![t] = to] /\ UNCHANGED <<change, lost, defaulted>>
      /\ \A u \in Threads \ {t} : loaded'[u] = loaded[u] /\ unread'[u] = unread[u]
      /\ unread[t] => unread'[t]
  BY DEF Load, Goto, SettingsTypes
<1>2. /\ Accepted(asked') = asked'
      /\ ~lost /\ ~defaulted => FileIsAsked'
      /\ \/ UNCHANGED <<file, stale, asked>>
         \/ file'.is = "absent" /\ \A u \in Threads : HasLoaded(u) => stale'[u]
  BY <1>1, LooksKeepAsked
<1>3. StartupChange'
  BY <1>1 DEF StartupChange, SettingsTypes, Changing, Threads
<1>4. ASSUME ~lost, ~defaulted PROVE LoadedInv'
  <2>1. ASSUME NEW u \in Threads \ {t} PROVE
          pc'[u] \in {"started", "save", "write", "rename"} /\ ~stale'[u] /\ ~unread'[u] =>
            loaded'[u] = asked' \/ (pc'[u] \in {"started", "save"} /\ file'.is = "damaged")
    <3>1. pc'[u] = pc[u]
      BY <1>1, <2>1 DEF SettingsTypes
    <3>2. pc[u] = "started" => u = Startup
      BY <2>1 DEF StartupChange
    <3> QED
      BY <1>1, <1>2, <1>4, <2>1, <3>1, <3>2 DEF LoadedInv, HasLoaded
  <2>2. ~unread'[t] => loaded'[t] = asked' \/ file'.is = "damaged"
    <3>1. CASE (Reads \/ Quarantines) /\ loaded' = [loaded EXCEPT ![t] = Settings(file)]
      <4>1. CASE Reads
        BY <1>4, <3>1, <4>1 DEF Reads, FileIsAsked, SettingsTypes
      <4>2. CASE Quarantines
        BY <3>1, <4>2 DEF Quarantines, SettingsTypes, Settings
      <4> QED
        BY <3>1, <4>1, <4>2
    <3>2. CASE ReadFails /\ unread' = [unread EXCEPT ![t] = @ \/ file.is = "json"]
      BY <3>2 DEF ReadFails, SettingsTypes, FileShape
    <3> QED
      BY <3>1, <3>2 DEF Load
  <2> QED
    BY <1>1, <2>1, <2>2 DEF LoadedInv, SettingsTypes
<1>5. ASSUME ~lost, ~defaulted PROVE StartupInv'
  <2>1. CASE UNCHANGED <<file, stale, asked>>
    <3>1. CASE t = Startup
      <4>1. pc'[Startup] \in {"started", "save"}
        BY <1>1, <3>1 DEF SettingsTypes
      <4> QED
        BY <1>1, <1>5, <2>1, <3>1, <4>1 DEF StartupInv, Changing
    <3>2. CASE t # Startup
      BY <1>1, <1>5, <2>1, <3>2 DEF StartupInv, SettingsTypes, Threads
    <3> QED
      BY <3>1, <3>2
  <2>2. CASE \A u \in Threads : HasLoaded(u) => stale'[u]
    <3>1. pc'[Startup] \in Changing \ {"apply"} => HasLoaded(Startup)
      BY <1>1 DEF HasLoaded, Changing, SettingsTypes, Threads
    <3> QED
      BY <2>2, <3>1 DEF StartupInv, Threads
  <2> QED
    BY <1>2, <2>1, <2>2
<1> QED
  BY <1>1, <1>2, <1>3, <1>4, <1>5

(* A step that reports nothing and leaves the file, in which t starts, ends or goes on. *)
LEMMA QuietStepKeepsAsked ==
    ASSUME SettingsTypes, KeptInv, NEW t \in Threads,
           UNCHANGED <<file, asked, lost, defaulted>>,
           \A u \in Threads \ {t} : /\ pc'[u] = pc[u] /\ loaded'[u] = loaded[u] /\ stale'[u] = stale[u]
                                     /\ unread'[u] = unread[u] /\ change'[u] = change[u],
           \/ pc'[t] \in {"idle", "apply"} /\ (pc'[t] = "apply" => pc[t] = "apply" /\ change'[t] = change[t])
           \/ t # Startup /\ pc'[t] = "load"
           \/ /\ pc[t] = "save" /\ pc'[t] = "write" /\ file.is # "damaged"
              /\ loaded'[t] = loaded[t] /\ stale'[t] = stale[t] /\ unread'[t] = unread[t] /\ change'[t] = change[t]
           \/ /\ pc[t] = "write" /\ pc'[t] = "rename"
              /\ loaded'[t] = loaded[t] /\ stale'[t] = stale[t] /\ unread'[t] = unread[t] /\ change'[t] = change[t]
    PROVE  KeptInv'
<1> USE DEF KeptInv
<1>1. StartupChange'
  BY DEF StartupChange, Changing, Threads
<1>2. ASSUME ~lost, ~defaulted PROVE LoadedInv'
  BY <1>2 DEF LoadedInv
<1>3. ASSUME ~lost, ~defaulted PROVE StartupInv'
  BY <1>3 DEF StartupInv, Changing, Threads
<1>4. ASSUME ~lost, ~defaulted PROVE FileIsAsked'
  BY <1>4 DEF FileIsAsked, Settings
<1> QED
  BY <1>1, <1>2, <1>3, <1>4

(* A save that moved a damaged file aside has an old decision itself. *)
LEMMA SaveKeepsAsked ==
    ASSUME SettingsTypes, KeptInv, NEW t \in Threads, SaveSettings(t)
    PROVE  KeptInv'
<1> USE DEF KeptInv
<1>1. pc[t] = "save" /\ UNCHANGED <<lost, defaulted>>
  BY DEF SaveSettings
<1>2. CASE Quarantines /\ Goto(t, "write") /\ UNCHANGED <<change, loaded, unread>>
  <2>1. /\ Accepted(asked') = asked'
        /\ ~lost /\ ~defaulted => FileIsAsked'
        /\ \A u \in Threads : HasLoaded(u) => stale'[u]
    BY <1>2, LooksKeepAsked DEF Quarantines, Overtaken
  <2>2. \A u \in Threads : pc'[u] = IF u = t THEN "write" ELSE pc[u]
    BY <1>2 DEF Goto, SettingsTypes
  <2>3. StartupChange'
    BY <1>1, <1>2, <2>2 DEF StartupChange, Changing, Threads
  <2>4. LoadedInv'
    <3>1. \A u \in Threads : pc'[u] \in {"started", "save", "write", "rename"} => HasLoaded(u)
      BY <1>1, <2>2 DEF HasLoaded, StartupChange
    <3> QED
      BY <2>1, <3>1 DEF LoadedInv
  <2>5. StartupInv'
    <3>1. pc'[Startup] \in Changing \ {"apply"} => HasLoaded(Startup)
      BY <1>1, <2>2 DEF HasLoaded, Changing, Threads
    <3> QED
      BY <2>1, <3>1 DEF StartupInv, Threads
  <2> QED
    BY <1>1, <2>1, <2>3, <2>4, <2>5
<1>3. CASE Reads /\ Goto(t, "write") /\ UNCHANGED <<change, loaded, unread>>
  <2>1. UNCHANGED <<file, stale, asked>> /\ file.is # "damaged"
    BY <1>3 DEF Reads
  <2>2. \A u \in Threads : pc'[u] = IF u = t THEN "write" ELSE pc[u]
    BY <1>3 DEF Goto, SettingsTypes
  <2> QED
    BY <1>1, <1>3, <2>1, <2>2, QuietStepKeepsAsked
<1>4. CASE ReadFails /\ Return(t)
  <2>1. UNCHANGED <<file, stale, asked>>
    BY <1>4 DEF ReadFails
  <2>2. /\ \A u \in Threads \ {t} : pc'[u] = pc[u] /\ loaded'[u] = loaded[u] /\ unread'[u] = unread[u] /\ change'[u] = change[u]
        /\ pc'[t] = "idle"
    BY <1>4 DEF Return, Goto, SettingsTypes
  <2> QED
    BY <1>1, <2>1, <2>2, QuietStepKeepsAsked
<1> QED
  BY <1>2, <1>3, <1>4 DEF SaveSettings

(* What a save wrote, when its decision was not old, is what the user is told. *)
LEMMA RenameKeepsAsked ==
    ASSUME SettingsTypes, KeptInv, NEW t \in Threads, Rename(t)
    PROVE  KeptInv'
<1> USE DEF KeptInv
<1> DEFINE set(s) == [s EXCEPT ![change[t].set] = change[t].to]
<1>1. pc[t] = "rename" /\ change[t] \in Changes
  BY DEF SettingsTypes, Rename, Changing
<1>2. CASE Return(t) /\ UNCHANGED <<file, stale, settingsHistory>>
  <2>1. /\ \A u \in Threads \ {t} : pc'[u] = pc[u] /\ loaded'[u] = loaded[u] /\ unread'[u] = unread[u] /\ change'[u] = change[u]
        /\ pc'[t] = "idle"
    BY <1>2 DEF Return, Goto, SettingsTypes
  <2> QED
    BY <1>2, <2>1, QuietStepKeepsAsked DEF settingsHistory
<1>3. ASSUME file' = Json(set(loaded[t])),
             asked' = IF t = Startup THEN asked ELSE Accepted(set(asked)),
             lost' = (lost \/ stale[t]), stale' = Overtaken(Threads \ {t}), defaulted' = (defaulted \/ unread[t]),
             \/ change[t].set = "autoStart" /\ Goto(t, "apply") /\ UNCHANGED <<change, loaded, unread>>
             \/ change[t].set # "autoStart" /\ Return(t)
      PROVE  KeptInv'
  <2>1. set(asked) \in AppSettings
    BY <1>1, ChangeIsTyped DEF SettingsTypes
  <2>2. Accepted(asked') = asked'
    BY <1>3, <2>1, AcceptedTwice
  <2>3. /\ \A u \in Threads \ {t} : pc'[u] = pc[u] /\ change'[u] = change[u]
        /\ pc'[t] \in {"apply", "idle"} /\ (pc'[t] = "apply" => change' = change)
    BY <1>3 DEF Return, Goto, SettingsTypes
  <2>4. StartupChange'
    BY <1>1, <2>3 DEF StartupChange, Changing, Threads
  <2>5. \A u \in Threads \ {t} : HasLoaded(u) => stale'[u]
    BY <1>3 DEF Overtaken
  <2>6. LoadedInv'
    <3>1. \A u \in Threads \ {t} : pc'[u] \in {"started", "save", "write", "rename"} => HasLoaded(u)
      BY <2>3 DEF HasLoaded, StartupChange
    <3> QED
      BY <2>3, <2>5, <3>1 DEF LoadedInv
  <2>7. StartupInv'
    <3>1. pc'[Startup] \in Changing \ {"apply"} => t # Startup /\ HasLoaded(Startup)
      BY <2>3 DEF HasLoaded, Changing, Threads
    <3> QED
      BY <2>5, <3>1 DEF StartupInv, Threads
  <2>8. ASSUME ~lost', ~defaulted' PROVE FileIsAsked'
    <3>1. ~lost /\ ~defaulted /\ ~stale[t] /\ ~unread[t]
      BY <1>3, <2>8
    <3>2. loaded[t] = asked
      BY <1>1, <3>1 DEF LoadedInv
    <3>3. Settings(file') = Accepted(set(asked))
      BY <1>3, <3>2 DEF Settings, Json
    <3>4. CASE t = Startup
      <4>1. asked.autoStart /\ change[t].set = "autoStart" /\ change[t].to = TRUE
        BY <1>1, <3>1, <3>4 DEF StartupInv, StartupChange, Changing
      <4>2. asked.autoStart = TRUE
        BY <4>1 DEF SettingsTypes, AppSettings
      <4>3. Accepted(set(asked)) = asked
        BY <4>1, <4>2, RepeatIsNothing DEF SettingsTypes
      <4> QED
        BY <1>3, <3>3, <3>4, <4>3 DEF FileIsAsked
    <3> QED
      BY <1>3, <3>3, <3>4 DEF FileIsAsked
  <2> QED
    BY <1>3, <2>2, <2>4, <2>6, <2>7, <2>8
<1> QED
  BY <1>2, <1>3 DEF Rename

(* KeptInv is kept by every step. *)
LEMMA AskedKept ==
    ASSUME SettingsTypes, KeptInv, [SettingsNext]_settingsVars
    PROVE  KeptInv'
<1>1. CASE StartupLoads
  BY <1>1, LoadKeepsAsked DEF StartupLoads, Threads
<1>2. CASE StartupSets
  <2>1. pc[Startup] = "started" /\ Startup \in Threads /\ UNCHANGED <<file, asked, lost, defaulted>>
    BY <1>2 DEF StartupSets, settingsHistory, Threads
  <2>2. CASE loaded[Startup].autoStart
    <3>1. /\ \A u \in Threads : pc'[u] = IF u = Startup THEN "load" ELSE pc[u]
          /\ change'[Startup] = [set |-> "autoStart", to |-> TRUE]
          /\ \A u \in Threads \ {Startup} : loaded'[u] = loaded[u]
          /\ UNCHANGED <<stale, unread>>
      BY <1>2, <2>1, <2>2 DEF StartupSets, Goto, SettingsTypes
    <3>2. StartupChange'
      BY <2>1, <3>1 DEF KeptInv, StartupChange
    <3>3. ASSUME ~lost, ~defaulted PROVE LoadedInv' /\ StartupInv' /\ FileIsAsked'
      <4>1. ~stale[Startup] /\ ~unread[Startup] => asked.autoStart \/ file.is = "damaged"
        BY <2>1, <2>2, <3>3 DEF KeptInv, LoadedInv
      <4> QED
        BY <2>1, <3>1, <3>3, <4>1 DEF KeptInv, LoadedInv, StartupInv, FileIsAsked, Settings
    <3> QED
      BY <2>1, <3>2, <3>3 DEF KeptInv
  <2>3. CASE ~loaded[Startup].autoStart
    <3>1. /\ \A u \in Threads \ {Startup} : /\ pc'[u] = pc[u] /\ loaded'[u] = loaded[u] /\ stale'[u] = stale[u]
                                           /\ unread'[u] = unread[u] /\ change'[u] = change[u]
          /\ pc'[Startup] = "idle"
      BY <1>2, <2>1, <2>3 DEF StartupSets, Return, Goto, SettingsTypes
    <3> QED
      BY <2>1, <3>1, QuietStepKeepsAsked
  <2> QED
    BY <2>2, <2>3
<1>3. CASE JustRead
  <2>1. UNCHANGED <<pc, change, loaded, unread, lost, defaulted>>
    BY <1>3 DEF JustRead
  <2>2. /\ Accepted(asked') = asked'
        /\ ~lost /\ ~defaulted => FileIsAsked'
        /\ \/ UNCHANGED <<file, stale, asked>>
           \/ file'.is = "absent" /\ \A t \in Threads : HasLoaded(t) => stale'[t]
    BY <1>3, LooksKeepAsked DEF JustRead
  <2>3. \A t \in Threads : pc[t] \in {"started", "save", "write", "rename"} => HasLoaded(t)
    BY DEF HasLoaded, KeptInv, StartupChange
  <2>4. pc[Startup] \in Changing \ {"apply"} => HasLoaded(Startup)
    BY DEF HasLoaded, Changing
  <2> QED
    BY <2>1, <2>2, <2>3, <2>4 DEF KeptInv, LoadedInv, StartupInv, StartupChange, Threads
<1>4. ASSUME NEW t \in Threads \ {Startup}, NEW what, NEW value, Call(t, what, value) PROVE KeptInv'
  <2>1. /\ UNCHANGED <<file, asked, lost, defaulted>>
        /\ \A u \in Threads \ {t} : /\ pc'[u] = pc[u] /\ loaded'[u] = loaded[u] /\ stale'[u] = stale[u]
                                  /\ unread'[u] = unread[u] /\ change'[u] = change[u]
        /\ pc'[t] = "load"
    BY <1>4 DEF Call, Goto, SettingsTypes, settingsHistory
  <2> QED
    BY <1>4, <2>1, QuietStepKeepsAsked
<1>5. ASSUME NEW t \in Calls, SetAutoStart(t) \/ SetDebugLogging(t) \/ SetObfsAccepted(t) \/ SetObfsMode(t)
      PROVE  KeptInv'
  <2>1. t \in Threads \ {Startup}
    BY SettingsAssumption DEF Threads
  <2> QED
    BY <1>4, <1>5, <2>1 DEF SetAutoStart, SetDebugLogging, SetObfsAccepted, SetObfsMode
<1>6. ASSUME NEW t \in Threads, LoadSettings(t) PROVE KeptInv'
  BY <1>6, LoadKeepsAsked DEF LoadSettings
<1>7. ASSUME NEW t \in Threads, SaveSettings(t) PROVE KeptInv'
  BY <1>7, SaveKeepsAsked
<1>8. ASSUME NEW t \in Threads, WriteTemp(t) PROVE KeptInv'
  <2>1. /\ UNCHANGED <<file, asked, stale, lost, defaulted>> /\ pc[t] = "write"
        /\ \A u \in Threads \ {t} : pc'[u] = pc[u] /\ loaded'[u] = loaded[u] /\ unread'[u] = unread[u] /\ change'[u] = change[u]
        /\ pc'[t] = "idle" \/ (pc'[t] = "rename" /\ UNCHANGED <<change, loaded, unread>>)
    BY <1>8 DEF WriteTemp, Return, Goto, SettingsTypes, settingsHistory
  <2> QED
    BY <2>1, QuietStepKeepsAsked
<1>9. ASSUME NEW t \in Threads, Rename(t) PROVE KeptInv'
  BY <1>9, RenameKeepsAsked
<1>10. ASSUME NEW t \in Threads, Apply(t) PROVE KeptInv'
  <2>1. /\ UNCHANGED <<file, asked, stale, lost, defaulted>>
        /\ \A u \in Threads \ {t} : pc'[u] = pc[u] /\ loaded'[u] = loaded[u] /\ unread'[u] = unread[u] /\ change'[u] = change[u]
        /\ pc'[t] = "idle"
    BY <1>10 DEF Apply, Return, Goto, SettingsTypes, settingsHistory
  <2> QED
    BY <2>1, QuietStepKeepsAsked
<1>11. CASE Damage
  <2>1. /\ file' = Damaged(damages + 1) /\ file'.is = "damaged" /\ file.is # "damaged"
        /\ UNCHANGED <<pc, change, loaded, stale, unread, asked, lost, defaulted>>
    BY <1>11 DEF Damage, Damaged, threads
  <2> QED
    BY <2>1 DEF KeptInv, LoadedInv, StartupInv, StartupChange, FileIsAsked
<1>12. CASE SettingsCrash
  <2>1. UNCHANGED <<file, asked, lost, defaulted>>
    BY <1>12 DEF SettingsCrash, settingsHistory
  <2>2. \A t \in Threads : pc'[t] = IF t = Startup THEN "start" ELSE "idle"
    BY <1>12 DEF SettingsCrash
  <2> QED
    BY <2>1, <2>2 DEF KeptInv, LoadedInv, StartupInv, StartupChange, FileIsAsked, Settings, Changing, Threads
<1>13. CASE UNCHANGED settingsVars
  BY <1>13 DEF settingsVars, threads, settingsHistory, KeptInv, LoadedInv, StartupInv, StartupChange, FileIsAsked, Settings
<1> QED
  BY <1>1, <1>2, <1>3, <1>5, <1>6, <1>7, <1>8, <1>9, <1>10, <1>11, <1>12, <1>13 DEF SettingsNext

(* What the bindings reported as saved is what the file says, for any number of calls and       *)
(* faults, and the program damages no file of its own, unless a save overlapped another one or    *)
(* followed a load that could not read the file (app.go: LoadSettings, the change, SaveSettings).  *)
THEOREM SettingsStaySaved == SettingsSpec => []SettingsKept
<1>1. ASSUME SettingsTypes /\ KeptInv, [SettingsNext]_settingsVars PROVE (SettingsTypes /\ KeptInv)'
  BY <1>1, TypesKept, AskedKept
<1>2. SettingsInit => SettingsTypes /\ KeptInv
  BY SettingsStart
<1>3. SettingsTypes /\ KeptInv => SettingsKept
  BY DEF SettingsKept, SettingsTypes, KeptInv, FileShape, FileIsAsked
<1> QED
  BY <1>1, <1>2, <1>3, PTL DEF SettingsSpec
-----------------------------------------------------------------------------
(***************************************************************************)
(* SessionLog.                                                               *)
(***************************************************************************)
-----------------------------------------------------------------------------
(***************************************************************************)
(* The journals.                                                             *)
(***************************************************************************)
Lines == Seq(Nat)

(* The lines in memory are the last ones, the lines in a file that can be trusted are all. *)
RingInv ==
    /\ written \in Nat /\ ring \in Lines
    /\ Len(ring) <= MemoryLimit /\ Len(ring) <= written /\ (written > 0 => ring # <<>>)
    /\ \A i \in 1..Len(ring) : ring[i] = written - Len(ring) + i

DiskInv ==
    /\ disk \in Lines
    /\ active # 0 /\ ~truncated /\ ~diskFault =>
         Len(disk) = written /\ \A i \in 1..Len(disk) : disk[i] = i

ReportInv == RingInv /\ DiskInv

(* One more line, in memory: the oldest goes when there is no room. *)
LEMMA RingGrows ==
    ASSUME RingInv, Remembered, written' = written + 1
    PROVE  RingInv'
<1> DEFINE kept == IF Len(ring) = MemoryLimit THEN Tail(ring) ELSE ring
<1>1. MemoryLimit \in Nat \ {0}
  BY LogAssumption
<1>2. written \in Nat /\ ring \in Seq(Nat) /\ Len(ring) \in Nat
  BY LenProperties DEF RingInv, Lines
<1>3. /\ kept \in Seq(Nat) /\ Len(kept) \in Nat /\ Len(kept) + 1 <= MemoryLimit /\ Len(kept) <= written
      /\ \A i \in 1..Len(kept) : kept[i] = written - Len(kept) + i
  <2>1. CASE Len(ring) = MemoryLimit
    <3>1. ring # <<>>
      BY <1>1, <1>2, <2>1
    <3>2. /\ Tail(ring) \in Seq(Nat) /\ Len(Tail(ring)) = Len(ring) - 1
          /\ \A i \in 1..Len(Tail(ring)) : Tail(ring)[i] = ring[i + 1]
      BY <1>2, <3>1, HeadTailProperties
    <3>3. \A i \in 1..Len(Tail(ring)) : i + 1 \in 1..Len(ring)
      BY <1>2, <3>2
    <3>4. QED BY <1>1, <1>2, <2>1, <3>2, <3>3 DEF RingInv
  <2>2. CASE Len(ring) # MemoryLimit
    <3>1. kept = ring
      BY <2>2
    <3>2. Len(ring) + 1 <= MemoryLimit
      BY <1>1, <1>2, <2>2 DEF RingInv
    <3> HIDE DEF kept
    <3>3. QED BY <1>2, <3>1, <3>2 DEF RingInv
  <2>3. QED BY <2>1, <2>2
<1>4. ring' = kept \o <<written + 1>>
  BY DEF Remembered
<1> HIDE DEF kept
<1>5. /\ ring' \in Seq(Nat) /\ Len(ring') = Len(kept) + 1
      /\ \A i \in 1..Len(ring') : ring'[i] = IF i <= Len(kept) THEN kept[i] ELSE written + 1
  BY <1>2, <1>3, <1>4, ConcatProperties
<1>6. \A i \in 1..Len(ring') : ring'[i] = written' - Len(ring') + i
  <2> SUFFICES ASSUME NEW i \in 1..Len(ring') PROVE ring'[i] = written' - Len(ring') + i
    OBVIOUS
  <2>1. i \in Nat /\ 1 <= i /\ i <= Len(kept) + 1
    BY <1>3, <1>5
  <2>2. CASE i <= Len(kept)
    <3>1. i \in 1..Len(kept)
      BY <1>3, <2>1, <2>2
    <3>2. ring'[i] = written - Len(kept) + i
      BY <1>3, <1>5, <2>2, <3>1
    <3>3. QED BY <1>2, <1>3, <1>5, <2>1, <3>2
  <2>3. CASE i = Len(kept) + 1
    <3>1. ring'[i] = written + 1
      BY <1>3, <1>5, <2>3
    <3>2. QED BY <1>2, <1>3, <1>5, <2>3, <3>1
  <2>4. QED BY <1>3, <2>1, <2>2, <2>3
<1>7. ring' # <<>>
  BY <1>3, <1>5
<1>8. QED BY <1>1, <1>2, <1>3, <1>5, <1>6, <1>7 DEF RingInv, Lines

LEMMA LogStep ==
    ASSUME ReportInv, [LogNext]_logVars
    PROVE  ReportInv'
<1>1. RingInv /\ DiskInv
  BY DEF ReportInv
<1>2. CASE OpenLogFile
  <2>1. disk' = <<>> /\ ring' = <<>> /\ written' = 0
    BY <1>2 DEF OpenLogFile
  <2>2. Len(<<>>) = 0 /\ <<>> \in Seq(Nat)
    OBVIOUS
  <2>3. RingInv'
    BY <2>1, <2>2, LogAssumption DEF RingInv, Lines
  <2>4. DiskInv'
    BY <2>1, <2>2 DEF DiskInv, Lines
  <2>5. QED BY <2>3, <2>4 DEF ReportInv
<1>3. CASE Write
  <2>1. RingInv'
    BY <1>1, <1>3, RingGrows DEF Write
  <2>2. DiskInv'
    <3>1. written \in Nat /\ disk \in Seq(Nat) /\ written' = written + 1 /\ active' = active
      BY <1>1, <1>3 DEF Write, RingInv, DiskInv, Lines
    <3>2. CASE (active = 0 \/ truncated) /\ UNCHANGED <<disk, truncated, diskFault>>
      BY <1>1, <3>1, <3>2 DEF DiskInv
    <3>3. CASE truncated' = TRUE /\ UNCHANGED disk
      BY <1>1, <3>1, <3>3 DEF DiskInv
    <3>4. CASE disk' = Append(disk, written') /\ active # 0 /\ ~truncated /\ UNCHANGED <<truncated, diskFault>>
      <4>1. /\ disk' \in Seq(Nat) /\ Len(disk') = Len(disk) + 1 /\ Len(disk) \in Nat
            /\ \A i \in 1..Len(disk') : disk'[i] = IF i <= Len(disk) THEN disk[i] ELSE written'
        BY <3>1, <3>4, AppendProperties, LenProperties
      <4>2. ASSUME ~diskFault, NEW i \in 1..Len(disk') PROVE disk'[i] = i /\ Len(disk') = written'
        <5>1. Len(disk) = written /\ \A k \in 1..Len(disk) : disk[k] = k
          BY <1>1, <3>4, <4>2 DEF DiskInv
        <5>2. QED BY <3>1, <4>1, <4>2, <5>1
      <4>3. Len(disk') \in 1..Len(disk')
        BY <4>1
      <4>4. QED BY <3>1, <3>4, <4>1, <4>2, <4>3 DEF DiskInv, Lines
    <3>5. CASE diskFault' = TRUE /\ disk' = Append(disk, written')
      BY <3>1, <3>5 DEF DiskInv, Lines
    <3>6. CASE diskFault' = TRUE /\ UNCHANGED disk
      BY <3>1, <3>6 DEF DiskInv, Lines
    <3>7. QED BY <1>3, <3>2, <3>3, <3>4, <3>5, <3>6 DEF Write
  <2>3. QED BY <2>1, <2>2 DEF ReportInv
<1>4. CASE WriteClosed
  <2>1. RingInv'
    BY <1>1, <1>4, RingGrows DEF WriteClosed
  <2>2. DiskInv'
    BY <1>1, <1>4 DEF WriteClosed, DiskInv
  <2>3. QED BY <2>1, <2>2 DEF ReportInv
<1>5. CASE Close
  BY <1>1, <1>5 DEF Close, ReportInv, RingInv, DiskInv
<1>6. CASE SyncFails
  BY <1>1, <1>6 DEF SyncFails, ReportInv, RingInv, DiskInv
<1>7. CASE UNCHANGED logVars
  BY <1>1, <1>7 DEF logVars, journal, ReportInv, RingInv, DiskInv
<1>8. QED BY <1>2, <1>3, <1>4, <1>5, <1>6, <1>7 DEF LogNext

(* A report ends with the last line and has no gap, for any limits of the file and of the     *)
(* memory and whatever failed (LogFile.Write, Snapshot).                                        *)
THEOREM ReportsAreCurrent == LogSpec => []ReportIsCurrent
<1>1. LogInit => ReportInv
  <2> SUFFICES ASSUME LogInit PROVE ReportInv
    OBVIOUS
  <2>1. Len(<<>>) = 0 /\ <<>> \in Seq(Nat)
    OBVIOUS
  <2>2. QED BY <2>1, LogAssumption DEF LogInit, ReportInv, RingInv, DiskInv, Lines
<1>2. ReportInv => ReportIsCurrent
  <2> SUFFICES ASSUME ReportInv, written > 0, NEW readable \in BOOLEAN
               PROVE  /\ Report(readable) # <<>>
                      /\ Report(readable) = [i \in 1..Len(Report(readable)) |-> written - Len(Report(readable)) + i]
    BY DEF ReportIsCurrent
  <2>1. written \in Nat
    BY DEF ReportInv, RingInv
  <2>2. ASSUME NEW lines \in Seq(Nat), \A i \in 1..Len(lines) : lines[i] = written - Len(lines) + i
        PROVE  lines = [i \in 1..Len(lines) |-> written - Len(lines) + i]
    <3>1. lines = [i \in 1..Len(lines) |-> lines[i]]
      BY <2>2, LenProperties
    <3>2. QED BY <2>2, <3>1
  <2>3. CASE active # 0 /\ ~truncated /\ ~diskFault /\ readable /\ disk # <<>>
    <3>1. Report(readable) = disk
      BY <2>3 DEF Report
    <3>2. disk \in Seq(Nat) /\ Len(disk) = written /\ \A i \in 1..Len(disk) : disk[i] = i
      BY <2>3 DEF ReportInv, DiskInv, Lines
    <3>3. \A i \in 1..Len(disk) : disk[i] = written - Len(disk) + i
      BY <2>1, <3>2
    <3>4. QED BY <2>2, <2>3, <3>1, <3>2, <3>3
  <2>4. CASE ~(active # 0 /\ ~truncated /\ ~diskFault /\ readable /\ disk # <<>>)
    <3>1. Report(readable) = ring
      BY <2>4 DEF Report
    <3>2. ring # <<>> /\ ring \in Seq(Nat) /\ \A i \in 1..Len(ring) : ring[i] = written - Len(ring) + i
      BY DEF ReportInv, RingInv, Lines
    <3>3. QED BY <2>2, <3>1, <3>2
  <2>5. QED BY <2>3, <2>4
<1>3. QED BY <1>1, <1>2, LogStep, PTL DEF LogSpec

(* pruneSessionLogs keeps the journal in use, and no more than it may. *)
LEMMA PrunedFits ==
    ASSUME NEW files, IsFiniteSet(files), NEW mine \in files, NEW stamps, NEW f,
           NEW stuck \in {{}, {f}}, NEW left \in Pruned(files, stamps, mine, stuck)
    PROVE  left \subseteq files /\ mine \in left /\ Cardinality(left) <= Retention
<1> DEFINE others == files \ (stuck \cup {mine})
           n == Smaller(Excess(files), Cardinality(others))
<1>1. PICK doomed \in SUBSET others : left = files \ doomed /\ Cardinality(doomed) = n
  BY DEF Pruned, Oldest
<1>2. left \subseteq files /\ mine \in left
  BY <1>1
<1>3. IsFiniteSet(others) /\ IsFiniteSet(doomed) /\ Cardinality(doomed) <= Cardinality(others)
  BY <1>1, FS_Subset
<1>4. Cardinality(files) \in Nat /\ Cardinality(others) \in Nat /\ Cardinality(doomed) \in Nat
  BY <1>3, FS_CardinalityType
<1>5. Cardinality(left) = Cardinality(files) - Cardinality(doomed)
  <2>1. files \cap doomed = doomed
    BY <1>1
  <2>2. QED BY <1>1, <2>1, FS_Difference
<1>6. Retention \in Nat /\ Retention >= 2
  BY LogAssumption
<1>7. CASE Excess(files) < Cardinality(others)
  <2>1. Cardinality(doomed) = Excess(files)
    BY <1>1, <1>7 DEF Smaller
  <2>2. Cardinality(files) - Excess(files) <= Retention
    BY <1>4, <1>6 DEF Excess
  <2>3. QED BY <1>2, <1>4, <1>5, <1>6, <2>1, <2>2
<1>8. CASE ~(Excess(files) < Cardinality(others))
  <2>1. Cardinality(doomed) = Cardinality(others)
    BY <1>1, <1>8 DEF Smaller
  <2>2. doomed = others
    BY <1>1, <1>3, <2>1, FS_Subset
  <2>3. left \subseteq {f} \cup {mine}
    BY <1>1, <2>2
  <2>4. IsFiniteSet({f} \cup {mine}) /\ Cardinality({f} \cup {mine}) \in {1, 2}
    <3>1. IsFiniteSet({f}) /\ Cardinality({f}) = 1
      BY FS_Singleton
    <3>2. Cardinality({f} \cup {mine}) = IF mine \in {f} THEN 1 ELSE 1 + 1
      BY <3>1, FS_AddElement
    <3>3. IsFiniteSet({f} \cup {mine})
      BY <3>1, FS_AddElement
    <3> QED
      BY <3>2, <3>3
  <2>5. Cardinality(left) <= Cardinality({f} \cup {mine})
    BY <2>3, <2>4, FS_Subset
  <2>6. Cardinality(left) \in Nat
    BY <2>3, <2>4, FS_Subset, FS_CardinalityType
  <2>7. Cardinality(left) <= 2
    BY <2>4, <2>5, <2>6
  <2>8. QED BY <1>2, <1>6, <2>6, <2>7
<1>9. QED BY <1>7, <1>8

FilesInv == logs \subseteq Files /\ sessions \in 0..MaxSessions /\ LogsBounded

(* The journal in use is never pruned, and the files stay within the limit, for any limit of   *)
(* at least two and any number of files that earlier runs left (pruneSessionLogs).              *)
THEOREM LogsStayBounded == LogSpec => []LogsBounded
<1>1. LogInit => FilesInv
  BY LogAssumption DEF LogInit, FilesInv, LogsBounded, Files
<1>2. FilesInv /\ [LogNext]_logVars => FilesInv'
  <2> SUFFICES ASSUME FilesInv, [LogNext]_logVars PROVE FilesInv'
    OBVIOUS
  <2>1. CASE OpenLogFile
    <3>1. sessions' \in Files /\ sessions' \in 0..MaxSessions /\ sessions' # 0
      BY <2>1, LogAssumption DEF OpenLogFile, FilesInv, Files
    <3> DEFINE files == logs \cup {sessions'}
    <3>2. files \subseteq Files /\ IsFiniteSet(files) /\ sessions' \in files
      <4>1. IsFiniteSet(Files)
        BY LogAssumption, FS_Interval DEF Files
      <4>2. files \subseteq Files
        BY <3>1 DEF FilesInv
      <4>3. QED BY <4>1, <4>2, FS_Subset
    <3>3. CASE \E f \in logs : logs' \in Pruned(files, stamp', sessions', {f}) /\ active' = sessions'
      BY <3>1, <3>2, <3>3, PrunedFits DEF FilesInv, LogsBounded
    <3>4. CASE logs' \in Pruned(files, stamp', sessions', {}) /\ active' = sessions'
      BY <3>1, <3>2, <3>4, PrunedFits DEF FilesInv, LogsBounded
    <3>5. CASE logs' = files /\ unpruned' = TRUE /\ active' = sessions'
      BY <3>1, <3>2, <3>5 DEF FilesInv, LogsBounded
    <3>6. CASE active' = 0 /\ UNCHANGED <<logs, stamp, unpruned>>
      BY <3>1, <3>6 DEF FilesInv, LogsBounded
    <3>7. QED BY <2>1, <3>3, <3>4, <3>5, <3>6 DEF OpenLogFile
  <2>2. CASE Write \/ WriteClosed \/ Close \/ SyncFails
    BY <2>2 DEF FilesInv, LogsBounded, Write, WriteClosed, Close, SyncFails
  <2>3. CASE UNCHANGED logVars
    BY <2>3 DEF FilesInv, LogsBounded, logVars, journal
  <2>4. QED BY <2>1, <2>2, <2>3 DEF LogNext
<1>3. QED BY <1>1, <1>2, PTL DEF FilesInv, LogSpec
-----------------------------------------------------------------------------
(***************************************************************************)
(* Frontend.                                                                 *)
(***************************************************************************)
Events == Stages \cup {"connecting", "connected", "disconnected"}

WindowTypes ==
    /\ runs \in Nat
    /\ inbox \in Seq([event : Events, of : Runs])
    /\ waiting \in Seq(Stages \cup {"connected"})
    /\ DOMAIN life = Runs /\ DOMAIN heard = Runs

(* A session that has not started has sent nothing, one that told its end is over. *)
EndIsLast ==
    /\ \A r \in Runs : r > runs => life[r] = "none"
    /\ \A r \in Runs : "disconnected" \in heard[r] => life[r] = "over"
    /\ \A i \in 1..Len(inbox) : inbox[i].event = "disconnected" => life[inbox[i].of] = "over"

(* 'disconnected' comes after everything else of its session. *)
InOrder ==
    /\ \A i \in 1..Len(inbox) : "disconnected" \notin heard[inbox[i].of]
    /\ \A i \in 1..Len(inbox) : \A j \in 1..Len(inbox) :
         i < j /\ inbox[i].event = "disconnected" => inbox[j].of # inbox[i].of

(* What is shown, or waits to be, is of a session that the window heard of. *)
Heard == \E r \in Runs : "connected" \in heard[r] /\ "disconnected" \notin heard[r]
ShownIsHeard ==
    /\ "connected" \in {view, dash} => Heard
    /\ \A i \in 1..Len(waiting) : waiting[i] = "connected" => Heard

WindowInv == WindowTypes /\ EndIsLast /\ InOrder /\ ShownIsHeard
-----------------------------------------------------------------------------
(* What a step that neither sends nor hears keeps. *)
LEMMA QuietStep ==
    ASSUME WindowInv, UNCHANGED <<inbox, runs, life, heard>>,
           waiting' \in Seq(Stages \cup {"connected"}),
           ShownIsHeard'
    PROVE  WindowInv'
  BY DEF WindowInv, WindowTypes, EndIsLast, InOrder

(* The first of a sequence and the rest of it. *)
LEMMA TheRest ==
    ASSUME NEW S, NEW q \in Seq(S), q # <<>>
    PROVE  /\ Head(q) = q[1] /\ Head(q) \in S /\ 1 \in 1..Len(q)
           /\ Tail(q) \in Seq(S)
           /\ \A i \in 1..Len(Tail(q)) : i + 1 \in 1..Len(q) /\ Tail(q)[i] = q[i + 1]
  BY HeadTailProperties

LEMMA OneMore ==
    ASSUME NEW S, NEW q \in Seq(S), NEW e \in S
    PROVE  /\ Append(q, e) \in Seq(S) /\ Len(q) \in Nat
           /\ \A i \in 1..Len(Append(q, e)) :
                \/ i \in 1..Len(q) /\ Append(q, e)[i] = q[i]
                \/ i = Len(q) + 1 /\ Append(q, e)[i] = e
  BY AppendProperties, LenProperties

LEMMA InboxTyped ==
    ASSUME WindowTypes
    PROVE  \A i \in 1..Len(inbox) : inbox[i] \in [event : Events, of : Runs] /\ inbox[i].of \in Runs
<1>1. ASSUME NEW i \in 1..Len(inbox) PROVE inbox[i] \in [event : Events, of : Runs]
  BY ElementOfSeq DEF WindowTypes
<1>2. \A e \in [event : Events, of : Runs] : e.of \in Runs
  OBVIOUS
<1> QED
  BY <1>1, <1>2

(* An event of the Bridge joins the others at the end. *)
LEMMA SendKeeps ==
    ASSUME WindowInv, NEW r \in Runs, NEW event \in Events, Send(r, event),
           \/ event # "disconnected" /\ life[r] = "live" /\ UNCHANGED life
           \/ event = "disconnected" /\ life[r] = "ended" /\ life' = [life EXCEPT ![r] = "over"]
    PROVE  WindowInv'
<1> USE DEF WindowInv
<1> DEFINE e == [event |-> event, of |-> r]
<1>1. inbox' = Append(inbox, e) /\ e \in [event : Events, of : Runs] /\ UNCHANGED <<shownVars, runs, heard>>
  BY DEF Send
<1>2. /\ inbox' \in Seq([event : Events, of : Runs]) /\ Len(inbox) \in Nat
      /\ \A i \in 1..Len(inbox') : \/ i \in 1..Len(inbox) /\ inbox'[i] = inbox[i]
                                   \/ i = Len(inbox) + 1 /\ inbox'[i] = e
  BY <1>1, OneMore DEF WindowTypes
<1>3. DOMAIN life' = Runs /\ \A s \in Runs \ {r} : life'[s] = life[s]
  BY DEF WindowTypes
<1>4. WindowTypes'
  BY <1>1, <1>2, <1>3 DEF WindowTypes, shownVars
<1>5. /\ \A i \in 1..Len(inbox) : inbox[i].event = "disconnected" => inbox[i].of # r
      /\ "disconnected" \notin heard[r]
  BY DEF EndIsLast
<1>6. \A i \in 1..Len(inbox) : inbox[i] \in [event : Events, of : Runs]
  BY InboxTyped
<1>7. life[r] # "none" /\ (event = "disconnected" => life'[r] = "over") /\ (event # "disconnected" => UNCHANGED life)
  BY DEF WindowTypes
<1>8. EndIsLast'
  <2>1. \A s \in Runs : s > runs => life'[s] = "none"
    BY <1>3, <1>7 DEF EndIsLast
  <2>2. \A s \in Runs : "disconnected" \in heard[s] => life'[s] = "over"
    BY <1>3, <1>5 DEF EndIsLast
  <2>3. ASSUME NEW i \in 1..Len(inbox'), inbox'[i].event = "disconnected" PROVE life'[inbox'[i].of] = "over"
    <3>1. CASE i \in 1..Len(inbox) /\ inbox'[i] = inbox[i]
      BY <1>3, <1>5, <1>6, <2>3, <3>1 DEF EndIsLast
    <3>2. CASE inbox'[i] = e
      BY <1>7, <2>3, <3>2
    <3> QED
      BY <1>2, <3>1, <3>2
  <2> QED
    BY <1>1, <2>1, <2>2, <2>3 DEF EndIsLast
<1>9. InOrder'
  <2>1. \A i \in 1..Len(inbox') : "disconnected" \notin heard[inbox'[i].of]
    BY <1>2, <1>5 DEF InOrder
  <2>2. ASSUME NEW i \in 1..Len(inbox'), NEW j \in 1..Len(inbox'), i < j, inbox'[i].event = "disconnected"
        PROVE  inbox'[j].of # inbox'[i].of
    <3>1. i \in 1..Len(inbox) /\ inbox'[i] = inbox[i]
      BY <1>2, <2>2
    <3>2. CASE j \in 1..Len(inbox) /\ inbox'[j] = inbox[j]
      BY <2>2, <3>1, <3>2 DEF InOrder
    <3>3. CASE inbox'[j] = e
      BY <1>5, <2>2, <3>1, <3>3
    <3> QED
      BY <1>2, <3>2, <3>3
  <2> QED
    BY <1>1, <2>1, <2>2 DEF InOrder
<1>10. ShownIsHeard'
  BY <1>1 DEF ShownIsHeard, Heard, shownVars
<1> QED
  BY <1>4, <1>8, <1>9, <1>10

(* The presentation of an event that is not the end of a session. *)
LEMMA EnqueueShows ==
    ASSUME WindowInv, NEW item \in Stages \cup {"connected"}, Enqueue(item)
    PROVE  /\ waiting' \in Seq(Stages \cup {"connected"})
           /\ \A i \in 1..Len(waiting') : waiting'[i] = "connected" =>
                item = "connected" \/ \E j \in 1..Len(waiting) : waiting[j] = "connected"
           /\ dash' = "connected" => item = "connected" \/ dash = "connected"
<1> USE DEF WindowInv
<1>1. CASE waiting' = Append(waiting, item) /\ UNCHANGED dash
  BY <1>1, OneMore DEF WindowTypes
<1>2. CASE UNCHANGED waiting
  BY <1>2 DEF Enqueue, Shown, WindowTypes
<1> QED
  BY <1>1, <1>2 DEF Enqueue

(* The window hears an event. *)
LEMMA HearKeeps == ASSUME WindowInv, HearNext PROVE WindowInv'
<1> USE DEF WindowInv
<1> DEFINE e == Head(inbox)
<1>1. /\ e = inbox[1] /\ e \in [event : Events, of : Runs] /\ 1 \in 1..Len(inbox)
      /\ inbox' = Tail(inbox) /\ inbox' \in Seq([event : Events, of : Runs])
      /\ \A i \in 1..Len(inbox') : i + 1 \in 1..Len(inbox) /\ inbox'[i] = inbox[i + 1]
  BY TheRest DEF HearNext, WindowTypes
<1>2. UNCHANGED <<runs, life>> /\ Hear(e.event) /\ heard' = [heard EXCEPT ![e.of] = @ \cup {e.event}]
  BY DEF HearNext
<1>3. /\ DOMAIN heard' = Runs /\ heard'[e.of] = heard[e.of] \cup {e.event}
      /\ \A r \in Runs \ {e.of} : heard'[r] = heard[r]
  BY <1>1, <1>2 DEF WindowTypes
<1>4. "disconnected" \notin heard[e.of]
  BY <1>1 DEF InOrder
<1>5. waiting' \in Seq(Stages \cup {"connected"})
  <2>1. CASE e.event \in Stages \cup {"connected"} /\ Enqueue(e.event)
    BY <2>1, EnqueueShows
  <2>2. CASE UNCHANGED waiting \/ waiting' = <<>>
    BY <2>2, EmptySeq DEF WindowTypes
  <2>3. (e.event \in Stages \cup {"connected"} /\ Enqueue(e.event)) \/ UNCHANGED waiting \/ waiting' = <<>>
    BY <1>2 DEF Hear, ClearQueue
  <2> QED
    BY <2>1, <2>2, <2>3
<1>6. WindowTypes'
  BY <1>1, <1>2, <1>3, <1>5 DEF WindowTypes
<1>7. EndIsLast'
  BY <1>1, <1>2, <1>3 DEF EndIsLast
<1>8. InOrder'
  <2>1. ASSUME NEW i \in 1..Len(inbox') PROVE "disconnected" \notin heard'[inbox'[i].of]
    <3>1. inbox'[i] = inbox[i + 1] /\ i + 1 \in 1..Len(inbox) /\ 1 < i + 1 /\ inbox'[i].of \in Runs
      BY <1>1, <2>1, InboxTyped
    <3>2. CASE e.event = "disconnected"
      BY <1>1, <1>3, <3>1, <3>2 DEF InOrder
    <3>3. CASE e.event # "disconnected"
      BY <1>1, <1>3, <3>1, <3>3 DEF InOrder
    <3> QED
      BY <3>2, <3>3
  <2>2. ASSUME NEW i \in 1..Len(inbox'), NEW j \in 1..Len(inbox'), i < j, inbox'[i].event = "disconnected"
        PROVE  inbox'[j].of # inbox'[i].of
    BY <1>1, <2>2 DEF InOrder
  <2> QED
    BY <2>1, <2>2 DEF InOrder
<1>9. ShownIsHeard'
  <2>1. CASE e.event = "disconnected"
    <3>1. view' = "idle" /\ dash' = "idle" /\ waiting' = <<>>
      BY <1>2, <2>1, WindowAssumption DEF Hear, ClearQueue
    <3> QED
      BY <3>1 DEF ShownIsHeard
  <2>2. CASE e.event # "disconnected"
    <3>1. Heard => Heard'
      BY <1>1, <1>3, <2>2 DEF Heard
    <3>2. e.event = "connected" => Heard'
      BY <1>1, <1>3, <1>4 DEF Heard
    <3>3. CASE e.event = "connecting"
      <4>1. view' = "connecting" /\ dash' = "connecting" /\ UNCHANGED waiting
        BY <1>2, <3>3, WindowAssumption DEF Hear
      <4> QED
        BY <3>1, <4>1 DEF ShownIsHeard
    <3>4. CASE e.event \in Stages \cup {"connected"}
      <4>1. Enqueue(e.event) /\ (view' = "connected" => e.event = "connected" \/ view = "connected")
        BY <1>2, <3>4, WindowAssumption DEF Hear
      <4>2. /\ \A i \in 1..Len(waiting') : waiting'[i] = "connected" =>
                 e.event = "connected" \/ \E j \in 1..Len(waiting) : waiting[j] = "connected"
            /\ dash' = "connected" => e.event = "connected" \/ dash = "connected"
        BY <3>4, <4>1, EnqueueShows
      <4> QED
        BY <3>1, <3>2, <4>1, <4>2 DEF ShownIsHeard
    <3> QED
      BY <1>1, <2>2, <3>3, <3>4 DEF Events
  <2> QED
    BY <2>1, <2>2
<1> QED
  BY <1>6, <1>7, <1>8, <1>9

(* WindowInv is kept by every step. *)
LEMMA WindowKept == ASSUME WindowInv, [WindowNext]_windowVars PROVE WindowInv'
<1> USE DEF WindowInv
<1>1. CASE \/ ClickConnect \/ Navigate \/ ClickDisconnect \/ AnswerDisconnect \/ UNCHANGED windowVars
           \/ \E c \in Clicks : AnswerConnect(c) \/ ConnectFails(c)
  <2>1. /\ UNCHANGED <<inbox, runs, life, heard, waiting>>
        /\ view' = "connected" => view = "connected"
        /\ dash' = "connected" => dash = "connected"
    BY <1>1 DEF ClickConnect, Navigate, AnswerConnect, ClickDisconnect, AnswerDisconnect, ConnectFails, windowVars, shownVars
  <2>2. ShownIsHeard'
    BY <2>1 DEF ShownIsHeard, Heard
  <2> QED
    BY <2>1, <2>2, QuietStep DEF WindowTypes
<1>2. CASE TimerFires
  <2>1. UNCHANGED <<inbox, runs, life, heard, view>>
    BY <1>2 DEF TimerFires
  <2>2. CASE waiting = <<>>
    <3>1. UNCHANGED <<waiting, dash>>
      BY <1>2, <2>2 DEF TimerFires
    <3> QED
      BY <2>1, <3>1, QuietStep DEF ShownIsHeard, Heard, WindowTypes
  <2>3. CASE waiting # <<>>
    <3>1. waiting' = Tail(waiting) /\ dash' = Shown(Head(waiting), dash)
      BY <1>2, <2>3 DEF TimerFires
    <3>2. /\ Head(waiting) = waiting[1] /\ 1 \in 1..Len(waiting)
          /\ Tail(waiting) \in Seq(Stages \cup {"connected"})
          /\ \A i \in 1..Len(Tail(waiting)) : i + 1 \in 1..Len(waiting) /\ Tail(waiting)[i] = waiting[i + 1]
      BY <2>3, TheRest DEF WindowTypes
    <3>3. ShownIsHeard'
      BY <2>1, <3>1, <3>2 DEF ShownIsHeard, Heard, Shown
    <3> QED
      BY <2>1, <3>1, <3>2, <3>3, QuietStep
  <2> QED
    BY <2>2, <2>3
<1>3. CASE HearNext
  BY <1>3, HearKeeps
<1>4. ASSUME NEW c \in Clicks, ConnectStarts(c) PROVE WindowInv'
  <2>1. runs' = runs + 1 /\ runs < MaxRuns /\ runs' \in Runs /\ life' = [life EXCEPT ![runs'] = "live"]
        /\ UNCHANGED <<inbox, heard, waiting, view, dash>>
    BY <1>4, WindowAssumption DEF ConnectStarts, shownVars, Runs, WindowTypes
  <2>2. life[runs'] = "none"
    BY <2>1 DEF EndIsLast, WindowTypes
  <2>3. \A r \in Runs \ {runs'} : life'[r] = life[r]
    BY <2>1 DEF WindowTypes
  <2>4. \A i \in 1..Len(inbox) : inbox[i].of \in Runs
    BY InboxTyped
  <2>5. EndIsLast'
    BY <2>1, <2>2, <2>3, <2>4 DEF EndIsLast, WindowTypes, Runs
  <2>6. InOrder' /\ ShownIsHeard'
    BY <2>1 DEF InOrder, ShownIsHeard, Heard
  <2>7. DOMAIN life' = Runs /\ runs' \in Nat
    BY <2>1 DEF WindowTypes
  <2>8. WindowTypes'
    BY <2>1, <2>7 DEF WindowTypes
  <2> QED
    BY <2>5, <2>6, <2>8
<1>5. ASSUME NEW r \in Runs, NEW event \in Stages \cup {"connecting", "connected"}, Publish(r, event) PROVE WindowInv'
  <2>1. event \in Events /\ event # "disconnected" /\ Send(r, event) /\ life[r] = "live" /\ UNCHANGED life
    BY <1>5, WindowAssumption DEF Publish, Events, Live
  <2> QED
    BY <2>1, SendKeeps
<1>6. ASSUME NEW r \in Runs, Ends(r) PROVE WindowInv'
  <2>1. /\ life' = [life EXCEPT ![r] = "ended"] /\ life[r] = "live"
        /\ UNCHANGED <<inbox, runs, heard, waiting, view, dash>>
    BY <1>6 DEF Ends, Live, shownVars
  <2>2. \A s \in Runs \ {r} : life'[s] = life[s]
    BY <2>1 DEF WindowTypes
  <2>3. \A i \in 1..Len(inbox) : inbox[i].of \in Runs
    BY InboxTyped
  <2>4. EndIsLast'
    BY <2>1, <2>2, <2>3 DEF EndIsLast
  <2>5. InOrder' /\ ShownIsHeard' /\ WindowTypes'
    BY <2>1 DEF InOrder, ShownIsHeard, Heard, WindowTypes
  <2> QED
    BY <2>4, <2>5
<1>7. ASSUME NEW r \in Runs, PublishEnd(r) PROVE WindowInv'
  BY <1>7, SendKeeps DEF PublishEnd, Events
<1> QED
  BY <1>1, <1>2, <1>3, <1>4, <1>5, <1>6, <1>7 DEF WindowNext

(* The window never shows a connection of a session whose end it heard, for any number of        *)
(* sessions and clicks (tunnelStore.ts, connectionStore.ts, App.tsx: the presentation queue is     *)
(* cleared with every 'disconnected', which is the last event of its session).                      *)
THEOREM NoFalseConnectionEver == WindowSpec => []NoFalseConnection
<1>1. WindowInit => WindowInv
  BY DEF WindowInit, WindowInv, WindowTypes, EndIsLast, InOrder, ShownIsHeard
<1>2. WindowInv /\ [WindowNext]_windowVars => WindowInv'
  BY WindowKept
<1>3. WindowInv => NoFalseConnection
  BY DEF WindowInv, ShownIsHeard, Heard, NoFalseConnection
<1> QED
  BY <1>1, <1>2, <1>3, PTL DEF WindowSpec
-----------------------------------------------------------------------------
(* The window is right when nothing is on its way. *)
At(q, i, event, r) == q[i].event = event /\ q[i].of = r

(* One session runs at a time, and the end is the last it sends. *)
RunsInTurn ==
    /\ DOMAIN sent = Runs
    /\ \A r \in Runs : r > runs => life[r] = "none" /\ sent[r] = {} /\ r \notin overtaken
    /\ \A r \in Runs : r <= runs => life[r] \in {"ended", "over"} \/ (r = runs /\ life[r] = "live")
    /\ \A r \in Runs : "disconnected" \in sent[r] <=> life[r] = "over"

(* What was sent was heard or is on its way, once. *)
Delivered ==
    /\ \A r \in Runs : heard[r] \subseteq sent[r]
    /\ \A r \in Runs : \A e \in sent[r] : e \in heard[r] \/ \E i \in 1..Len(inbox) : At(inbox, i, e, r)
    /\ \A i \in 1..Len(inbox) : inbox[i].event \in sent[inbox[i].of] /\ inbox[i].event \notin heard[inbox[i].of]
    /\ \A i, j \in 1..Len(inbox) : At(inbox, i, inbox[j].event, inbox[j].of) => i = j

(* 'connecting' comes before everything else of its session. *)
ConnectingFirst ==
    /\ \A r \in Runs : sent[r] # {} \/ life[r] = "ended" => "connecting" \in sent[r]
    /\ \A i \in 1..Len(inbox) : inbox[i].event = "connecting" => heard[inbox[i].of] = {}
    /\ \A i, j \in 1..Len(inbox) : i < j /\ inbox[j].event = "connecting" => inbox[i].of # inbox[j].of

(* A session that was not overtaken comes after the end of those before it. *)
Preceded ==
    /\ \A r, s \in Runs : r < s /\ s \notin overtaken /\ sent[s] # {} => life[r] = "over"
    /\ \A i \in 1..Len(inbox) : \A r \in Runs : inbox[i].of \notin overtaken /\ r < inbox[i].of =>
          "disconnected" \in heard[r] \/ \E j \in 1..Len(inbox) : j < i /\ At(inbox, j, "disconnected", r)
    /\ \A r, s \in Runs : r < s /\ s \notin overtaken /\ heard[s] # {} => "disconnected" \in heard[r]

OrderInv == RunsInTurn /\ Delivered /\ ConnectingFirst /\ Preceded

LEMMA OrderStarts == ASSUME WindowTypes, OrderInv, NEW c \in Clicks, ConnectStarts(c) PROVE OrderInv'
<1>1. /\ runs' = runs + 1 /\ runs < MaxRuns /\ runs' \in Runs /\ life' = [life EXCEPT ![runs'] = "live"]
      /\ \A r \in Runs : life[r] # "live"
      /\ UNCHANGED <<inbox, heard, sent, overtaken>>
  BY WindowAssumption DEF ConnectStarts, Live, Runs, WindowTypes
<1>2. \A r \in Runs : life'[r] = IF r = runs' THEN "live" ELSE life[r]
  BY <1>1 DEF WindowTypes
<1>3. RunsInTurn'
  <2>1. life[runs'] = "none"
    BY <1>1 DEF OrderInv, RunsInTurn, WindowTypes, Runs
  <2>2. \A r \in Runs : (r > runs' => r > runs) /\ (r <= runs' => r = runs' \/ r <= runs)
    BY <1>1 DEF WindowTypes, Runs
  <2>3. \A r \in Runs : r > runs' => r # runs'
    BY <1>1 DEF Runs
  <2> QED
    BY <1>1, <1>2, <2>1, <2>2, <2>3 DEF OrderInv, RunsInTurn
<1>4. Delivered' /\ ConnectingFirst'
  BY <1>1, <1>2 DEF OrderInv, Delivered, ConnectingFirst, At
<1>5. Preceded'
  <2>1. life[runs'] = "none"
    BY <1>1 DEF OrderInv, RunsInTurn, WindowTypes, Runs
  <2>2. \A r, s \in Runs : r < s /\ s \notin overtaken' /\ sent'[s] # {} => life'[r] = "over"
    BY <1>1, <1>2, <2>1 DEF OrderInv, Preceded
  <2>3. /\ \A i \in 1..Len(inbox') : \A r \in Runs : inbox'[i].of \notin overtaken' /\ r < inbox'[i].of =>
             "disconnected" \in heard'[r] \/ \E j \in 1..Len(inbox') : j < i /\ At(inbox', j, "disconnected", r)
        /\ \A r, s \in Runs : r < s /\ s \notin overtaken' /\ heard'[s] # {} => "disconnected" \in heard'[r]
    BY <1>1 DEF OrderInv, Preceded, At
  <2> QED
    BY <2>2, <2>3 DEF Preceded
<1> QED
  BY <1>3, <1>4, <1>5 DEF OrderInv

LEMMA OrderEnds == ASSUME WindowTypes, OrderInv, NEW r \in Runs, Ends(r) PROVE OrderInv'
<1>1. life' = [life EXCEPT ![r] = "ended"] /\ life[r] = "live" /\ "connecting" \in sent[r] /\ UNCHANGED <<inbox, runs, heard, sent, overtaken>>
  BY DEF Ends, Live
<1>2. \A s \in Runs : life'[s] = IF s = r THEN "ended" ELSE life[s]
  BY <1>1 DEF WindowTypes
<1>3. RunsInTurn'
  BY <1>1, <1>2 DEF OrderInv, RunsInTurn
<1>4. Delivered'
  BY <1>1 DEF OrderInv, Delivered, At
<1>5. ConnectingFirst'
  BY <1>1, <1>2 DEF OrderInv, ConnectingFirst
<1>6. Preceded'
  <2>1. \A s \in Runs : life[s] = "over" => life'[s] = "over"
    BY <1>1, <1>2
  <2> QED
    BY <1>1, <2>1 DEF OrderInv, Preceded, At
<1> QED
  BY <1>3, <1>4, <1>5, <1>6 DEF OrderInv

(* The inbox with one more event. *)
LEMMA Joins ==
    ASSUME WindowTypes, NEW r \in Runs, NEW event \in Events, Send(r, event)
    PROVE  /\ Len(inbox) \in Nat /\ Len(inbox') = Len(inbox) + 1
           /\ At(inbox', Len(inbox) + 1, event, r)
           /\ \A i \in 1..Len(inbox) : i \in 1..Len(inbox') /\ inbox'[i] = inbox[i]
           /\ \A i \in 1..Len(inbox') : i \in 1..Len(inbox) \/ i = Len(inbox) + 1
<1> DEFINE e == [event |-> event, of |-> r]
<1>1. inbox' = Append(inbox, e) /\ e \in [event : Events, of : Runs]
  BY DEF Send
<1>2. /\ Len(inbox) \in Nat /\ Len(inbox') = Len(inbox) + 1 /\ inbox'[Len(inbox) + 1] = e
      /\ \A i \in 1..Len(inbox) : inbox'[i] = inbox[i]
  BY <1>1, AppendProperties, LenProperties DEF WindowTypes
<1> QED
  BY <1>2 DEF At

LEMMA OrderSends ==
    ASSUME WindowTypes, OrderInv, NEW r \in Runs, NEW event \in Events, Send(r, event), r <= runs,
           event # "connecting" => "connecting" \in sent[r],
           \/ event # "disconnected" /\ UNCHANGED life
           \/ event = "disconnected" /\ life' = [life EXCEPT ![r] = "over"],
           \/ overtaken' = overtaken \cup {r}
           \/ overtaken' = overtaken /\ r \in overtaken
           \/ overtaken' = overtaken /\ \A before \in Runs : before < r => life[before] = "over"
    PROVE  OrderInv'
<1> DEFINE n == Len(inbox) + 1
<1>1. /\ UNCHANGED <<runs, heard>> /\ event \notin sent[r]
      /\ \A s \in Runs : sent'[s] = IF s = r THEN sent[r] \cup {event} ELSE sent[s]
      /\ DOMAIN sent' = Runs
  BY DEF Send, OrderInv, RunsInTurn
<1>2. \A s \in Runs : life'[s] = IF s = r /\ event = "disconnected" THEN "over" ELSE life[s]
  BY DEF WindowTypes
<1>3. /\ n \in 1..Len(inbox') /\ At(inbox', n, event, r) /\ Len(inbox) \in Nat
      /\ \A i \in 1..Len(inbox) : i \in 1..Len(inbox') /\ inbox'[i] = inbox[i] /\ i < n
      /\ \A i \in 1..Len(inbox') : i \in 1..Len(inbox) \/ i = n
  BY Joins
<1>4. \A i \in 1..Len(inbox) : inbox[i].of \in Runs
  BY InboxTyped
<1> HIDE DEF n
<1>5. RunsInTurn'
  <2>1. ~(r > runs)
    BY DEF WindowTypes, Runs
  <2>2. \A s \in overtaken' : s \in overtaken \/ s = r
    OBVIOUS
  <2> QED
    BY <1>1, <1>2, <2>1, <2>2 DEF OrderInv, RunsInTurn
<1>6. Delivered'
  <2>1. \A s \in Runs : heard'[s] \subseteq sent'[s]
    BY <1>1 DEF OrderInv, Delivered
  <2>2. ASSUME NEW s \in Runs, NEW x \in sent'[s] PROVE x \in heard'[s] \/ \E i \in 1..Len(inbox') : At(inbox', i, x, s)
    <3>1. CASE x \in sent[s]
      BY <1>1, <1>3, <3>1 DEF OrderInv, Delivered, At
    <3>2. CASE x \notin sent[s]
      BY <1>1, <1>3, <2>2, <3>2
    <3> QED
      BY <3>1, <3>2
  <2>3. ASSUME NEW i \in 1..Len(inbox')
        PROVE  inbox'[i].event \in sent'[inbox'[i].of] /\ inbox'[i].event \notin heard'[inbox'[i].of]
    <3>1. CASE i \in 1..Len(inbox)
      BY <1>1, <1>3, <1>4, <3>1 DEF OrderInv, Delivered
    <3>2. CASE i = n
      BY <1>1, <1>3, <3>2 DEF OrderInv, Delivered, At
    <3> QED
      BY <1>3, <3>1, <3>2
  <2>4. ASSUME NEW i \in 1..Len(inbox'), NEW j \in 1..Len(inbox'), inbox'[i].event = inbox'[j].event, inbox'[i].of = inbox'[j].of
        PROVE  i = j
    <3>1. ASSUME NEW k \in 1..Len(inbox) PROVE ~(inbox[k].event = event /\ inbox[k].of = r)
      BY <1>1, <3>1 DEF OrderInv, Delivered
    <3>2. CASE i \in 1..Len(inbox) /\ j \in 1..Len(inbox)
      BY <1>3, <2>4, <3>2 DEF OrderInv, Delivered, At
    <3>3. CASE i = n \/ j = n
      BY <1>3, <2>4, <3>1, <3>3 DEF At
    <3> QED
      BY <1>3, <3>2, <3>3
  <2> QED
    BY <2>1, <2>2, <2>3, <2>4 DEF Delivered, At
<1>7. ConnectingFirst'
  <2>1. \A s \in Runs : sent'[s] # {} \/ life'[s] = "ended" => "connecting" \in sent'[s]
    BY <1>1, <1>2 DEF OrderInv, ConnectingFirst
  <2>2. event = "connecting" => sent[r] = {} /\ heard[r] = {}
    BY <1>1 DEF OrderInv, ConnectingFirst, Delivered
  <2>3. event = "connecting" => \A i \in 1..Len(inbox) : inbox[i].of # r
    BY <2>2 DEF OrderInv, Delivered
  <2>4. ASSUME NEW i \in 1..Len(inbox'), inbox'[i].event = "connecting" PROVE heard'[inbox'[i].of] = {}
    <3>1. CASE i \in 1..Len(inbox)
      BY <1>1, <1>3, <2>4, <3>1 DEF OrderInv, ConnectingFirst
    <3>2. CASE i = n
      BY <1>1, <1>3, <2>2, <2>4, <3>2 DEF At
    <3> QED
      BY <1>3, <3>1, <3>2
  <2>5. ASSUME NEW i \in 1..Len(inbox'), NEW j \in 1..Len(inbox'), i < j, inbox'[j].event = "connecting"
        PROVE  inbox'[i].of # inbox'[j].of
    <3>1. i \in 1..Len(inbox)
      BY <1>3, <2>5
    <3>2. CASE j \in 1..Len(inbox)
      BY <1>3, <2>5, <3>1, <3>2 DEF OrderInv, ConnectingFirst
    <3>3. CASE j = n
      BY <1>3, <2>3, <2>5, <3>1, <3>3 DEF At
    <3> QED
      BY <1>3, <3>2, <3>3
  <2> QED
    BY <2>1, <2>4, <2>5 DEF ConnectingFirst
<1>8. Preceded'
  <2>1. ASSUME NEW i \in 1..Len(inbox'), NEW s \in Runs, inbox'[i].of \notin overtaken', s < inbox'[i].of
        PROVE  "disconnected" \in heard'[s] \/ \E j \in 1..Len(inbox') : j < i /\ At(inbox', j, "disconnected", s)
    <3>1. CASE i \in 1..Len(inbox)
      <4>1. inbox[i].of \notin overtaken /\ s < inbox[i].of
        BY <1>3, <2>1, <3>1
      <4> QED
        BY <1>1, <1>3, <3>1, <4>1 DEF OrderInv, Preceded, At
    <3>2. CASE i = n
      <4>1. s < r /\ r \notin overtaken'
        BY <1>3, <2>1, <3>2 DEF At
      <4>2. "disconnected" \in sent[s]
        BY <4>1 DEF OrderInv, RunsInTurn
      <4> QED
        BY <1>1, <1>3, <3>2, <4>2 DEF OrderInv, Delivered, At
    <3> QED
      BY <1>3, <3>1, <3>2
  <2>2. \A s, u \in Runs : s < u /\ u \notin overtaken' /\ heard'[u] # {} => "disconnected" \in heard'[s]
    BY <1>1 DEF OrderInv, Preceded
  <2>3. ASSUME NEW s \in Runs, NEW u \in Runs, s < u, u \notin overtaken', sent'[u] # {} PROVE life'[s] = "over"
    <3>1. u \notin overtaken
      BY <2>3
    <3>2. CASE sent[u] # {}
      BY <1>2, <2>3, <3>1, <3>2 DEF OrderInv, Preceded
    <3>3. CASE sent[u] = {}
      BY <1>1, <1>2, <2>3, <3>1, <3>3
    <3> QED
      BY <3>2, <3>3
  <2> QED
    BY <2>1, <2>2, <2>3 DEF Preceded
<1> QED
  BY <1>5, <1>6, <1>7, <1>8 DEF OrderInv

(* The inbox without its first event. *)
LEMMA Leaves ==
    ASSUME WindowTypes, HearNext
    PROVE  /\ 1 \in 1..Len(inbox) /\ Head(inbox) = inbox[1] /\ inbox[1] \in [event : Events, of : Runs]
           /\ \A i \in 1..Len(inbox') : i + 1 \in 1..Len(inbox) /\ 1 < i + 1 /\ inbox'[i] = inbox[i + 1]
           /\ \A i \in 1..Len(inbox) : i = 1 \/ (i - 1 \in 1..Len(inbox') /\ inbox'[i - 1] = inbox[i])
<1>1. inbox # <<>> /\ inbox' = Tail(inbox) /\ inbox \in Seq([event : Events, of : Runs])
  BY DEF HearNext, WindowTypes
<1>2. /\ Head(inbox) = inbox[1] /\ Len(inbox) \in Nat /\ Len(inbox) > 0 /\ Len(inbox') = Len(inbox) - 1
      /\ Head(inbox) \in [event : Events, of : Runs]
      /\ \A i \in 1..Len(inbox') : inbox'[i] = inbox[i + 1]
  <2>1. Head(inbox) = inbox[1] /\ Head(inbox) \in [event : Events, of : Runs] /\ 1 \in 1..Len(inbox)
    BY <1>1, TheRest
  <2>2. Len(inbox) \in Nat
    BY <1>1, LenProperties
  <2>3. Len(Tail(inbox)) = Len(inbox) - 1 /\ \A i \in 1..Len(Tail(inbox)) : Tail(inbox)[i] = inbox[i + 1]
    BY <1>1, HeadTailProperties
  <2> QED
    BY <1>1, <2>1, <2>2, <2>3
<1>3. \A i \in 1..Len(inbox) : i = 1 \/ (i - 1 \in 1..Len(inbox') /\ i = (i - 1) + 1)
  BY <1>2
<1>4. \A i \in 1..Len(inbox) : i = 1 \/ inbox'[i - 1] = inbox[i]
  BY <1>2, <1>3
<1>5. \A i \in 1..Len(inbox') : i + 1 \in 1..Len(inbox) /\ 1 < i + 1
  BY <1>2
<1>6. 1 \in 1..Len(inbox)
  BY <1>2
<1>7. Head(inbox) = inbox[1] /\ inbox[1] \in [event : Events, of : Runs]
  BY <1>2, Zenon
<1>8. \A i \in 1..Len(inbox') : i + 1 \in 1..Len(inbox) /\ 1 < i + 1 /\ inbox'[i] = inbox[i + 1]
  BY <1>2, <1>5
<1>9. \A i \in 1..Len(inbox) : i = 1 \/ (i - 1 \in 1..Len(inbox') /\ inbox'[i - 1] = inbox[i])
  BY <1>3, <1>4
<1> QED
  BY <1>6, <1>7, <1>8, <1>9, Zenon

LEMMA OrderHears == ASSUME WindowTypes, OrderInv, HearNext PROVE OrderInv'
<1> DEFINE e == inbox[1].event
           r == inbox[1].of
<1>1. /\ 1 \in 1..Len(inbox) /\ Head(inbox) = inbox[1] /\ r \in Runs
      /\ \A i \in 1..Len(inbox') : i + 1 \in 1..Len(inbox) /\ 1 < i + 1 /\ inbox'[i] = inbox[i + 1]
      /\ \A i \in 1..Len(inbox) : i = 1 \/ (i - 1 \in 1..Len(inbox') /\ inbox'[i - 1] = inbox[i])
  BY Leaves
<1>2. UNCHANGED <<runs, life, sent, overtaken>> /\ heard' = [heard EXCEPT ![r] = heard[r] \cup {e}]
  BY <1>1 DEF HearNext
<1>3. \A s \in Runs : heard'[s] = IF s = r THEN heard[r] \cup {e} ELSE heard[s]
  BY <1>2 DEF WindowTypes
<1>4. \A i \in 1..Len(inbox) : inbox[i].of \in Runs
  BY InboxTyped
<1>0. e \in sent[r] /\ e \notin heard[r]
  BY <1>1 DEF OrderInv, Delivered
<1>5. RunsInTurn'
  BY <1>2 DEF OrderInv, RunsInTurn
<1>6. Delivered'
  <2>1. \A s \in Runs : heard'[s] \subseteq sent'[s]
    BY <1>0, <1>2, <1>3 DEF OrderInv, Delivered
  <2>2. ASSUME NEW s \in Runs, NEW x \in sent'[s] PROVE x \in heard'[s] \/ \E i \in 1..Len(inbox') : At(inbox', i, x, s)
    <3>1. CASE x \in heard[s]
      BY <1>3, <3>1
    <3>2. ASSUME NEW i \in 1..Len(inbox), At(inbox, i, x, s)
          PROVE  x \in heard'[s] \/ \E j \in 1..Len(inbox') : At(inbox', j, x, s)
      <4>1. CASE i = 1
        BY <1>3, <3>2, <4>1 DEF At
      <4>2. CASE i - 1 \in 1..Len(inbox') /\ inbox'[i - 1] = inbox[i]
        BY <3>2, <4>2 DEF At
      <4> QED
        BY <1>1, <4>1, <4>2
    <3> QED
      BY <1>2, <2>2, <3>1, <3>2 DEF OrderInv, Delivered
  <2>3. ASSUME NEW i \in 1..Len(inbox')
        PROVE  inbox'[i].event \in sent'[inbox'[i].of] /\ inbox'[i].event \notin heard'[inbox'[i].of]
    <3>1. PICK k \in 1..Len(inbox) : k # 1 /\ inbox'[i] = inbox[k]
      BY <1>1, <2>3
    <3>2. ~(inbox[k].event = e /\ inbox[k].of = r)
      BY <1>1, <3>1 DEF OrderInv, Delivered, At
    <3> QED
      BY <1>2, <1>3, <1>4, <3>1, <3>2 DEF OrderInv, Delivered
  <2>4. ASSUME NEW i \in 1..Len(inbox'), NEW j \in 1..Len(inbox'), inbox'[i].event = inbox'[j].event, inbox'[i].of = inbox'[j].of
        PROVE  i = j
    <3>1. i + 1 = j + 1
      BY <1>1, <2>4 DEF OrderInv, Delivered, At
    <3> QED
      BY <3>1
  <2> QED
    BY <2>1, <2>2, <2>3, <2>4 DEF Delivered, At
<1>7. ConnectingFirst'
  <2>1. ASSUME NEW i \in 1..Len(inbox'), inbox'[i].event = "connecting" PROVE heard'[inbox'[i].of] = {}
    <3>1. PICK k \in 1..Len(inbox) : 1 < k /\ inbox'[i] = inbox[k]
      BY <1>1, <2>1
    <3>2. r # inbox[k].of /\ heard[inbox[k].of] = {}
      BY <1>1, <2>1, <3>1 DEF OrderInv, ConnectingFirst
    <3> QED
      BY <1>3, <1>4, <3>1, <3>2
  <2>2. ASSUME NEW i \in 1..Len(inbox'), NEW j \in 1..Len(inbox'), i < j, inbox'[j].event = "connecting"
        PROVE  inbox'[i].of # inbox'[j].of
    <3>1. PICK k \in 1..Len(inbox), l \in 1..Len(inbox) : k < l /\ inbox'[i] = inbox[k] /\ inbox'[j] = inbox[l]
      <4>1. i + 1 < j + 1
        BY <2>2
      <4> QED
        BY <1>1, <4>1
    <3> QED
      BY <2>2, <3>1 DEF OrderInv, ConnectingFirst
  <2> QED
    BY <1>2, <2>1, <2>2 DEF OrderInv, ConnectingFirst
<1>8. Preceded'
  <2>1. ASSUME NEW i \in 1..Len(inbox'), NEW s \in Runs, inbox'[i].of \notin overtaken', s < inbox'[i].of
        PROVE  "disconnected" \in heard'[s] \/ \E j \in 1..Len(inbox') : j < i /\ At(inbox', j, "disconnected", s)
    <3>1. "disconnected" \in heard[s] \/ \E k \in 1..Len(inbox) : k < i + 1 /\ At(inbox, k, "disconnected", s)
      BY <1>1, <1>2, <2>1 DEF OrderInv, Preceded
    <3>2. ASSUME NEW k \in 1..Len(inbox), k < i + 1, At(inbox, k, "disconnected", s)
          PROVE  "disconnected" \in heard'[s] \/ \E j \in 1..Len(inbox') : j < i /\ At(inbox', j, "disconnected", s)
      <4>1. CASE k = 1
        BY <1>3, <3>2, <4>1 DEF At
      <4>2. CASE k - 1 \in 1..Len(inbox') /\ inbox'[k - 1] = inbox[k]
        <5>1. k - 1 < i
          BY <3>2
        <5> QED
          BY <3>2, <4>2, <5>1 DEF At
      <4> QED
        BY <1>1, <4>1, <4>2
    <3> QED
      BY <1>3, <3>1, <3>2
  <2>2. ASSUME NEW s \in Runs, NEW u \in Runs, s < u, u \notin overtaken', heard'[u] # {} PROVE "disconnected" \in heard'[s]
    <3>1. CASE heard[u] # {}
      BY <1>2, <1>3, <2>2, <3>1 DEF OrderInv, Preceded
    <3>2. CASE heard[u] = {}
      <4>1. u = r
        BY <1>3, <2>2, <3>2
      <4>2. \A j \in 1..Len(inbox) : ~(j < 1)
        OBVIOUS
      <4> QED
        BY <1>1, <1>2, <1>3, <2>2, <4>1, <4>2 DEF OrderInv, Preceded
    <3> QED
      BY <3>1, <3>2
  <2> QED
    BY <1>2, <2>1, <2>2 DEF OrderInv, Preceded
<1> QED
  BY <1>5, <1>6, <1>7, <1>8 DEF OrderInv

(* The order of the events is kept by every step. *)
LEMMA OrderKept == ASSUME WindowTypes, OrderInv, [WindowNext]_windowVars PROVE OrderInv'
<1>1. CASE \/ ClickConnect \/ Navigate \/ ClickDisconnect \/ AnswerDisconnect \/ TimerFires \/ UNCHANGED windowVars
           \/ \E c \in Clicks : AnswerConnect(c) \/ ConnectFails(c)
  <2>1. UNCHANGED <<inbox, runs, life, sent, heard, overtaken>>
    BY <1>1 DEF ClickConnect, Navigate, AnswerConnect, ClickDisconnect, AnswerDisconnect, TimerFires, ConnectFails, windowVars
  <2> QED
    BY <2>1 DEF OrderInv, RunsInTurn, Delivered, ConnectingFirst, Preceded, At
<1>2. ASSUME NEW c \in Clicks, ConnectStarts(c) PROVE OrderInv'
  BY <1>2, OrderStarts
<1>3. CASE HearNext
  BY <1>3, OrderHears
<1>4. ASSUME NEW r \in Runs, NEW event \in Stages \cup {"connecting", "connected"}, Publish(r, event) PROVE OrderInv'
  <2>1. event \in Events /\ event # "disconnected" /\ Send(r, event) /\ life[r] = "live" /\ UNCHANGED life
    BY <1>4, WindowAssumption DEF Publish, Events, Live
  <2>2. r <= runs /\ (event # "connecting" => "connecting" \in sent[r])
    BY <1>4, <2>1 DEF Publish, OrderInv, RunsInTurn, WindowTypes, Runs
  <2>3. overtaken' = overtaken \cup {r} \/ (overtaken' = overtaken /\ \A before \in Runs : before < r => life[before] = "over")
    <3>1. CASE \E before \in Runs : life[before] = "ended"
      BY <1>4, <3>1 DEF Publish
    <3>2. CASE ~\E before \in Runs : life[before] = "ended"
      <4>1. \A before \in Runs : before < r => before <= runs /\ before # runs
        BY <2>2 DEF WindowTypes, Runs
      <4> QED
        BY <1>4, <3>2, <4>1 DEF Publish, OrderInv, RunsInTurn
    <3> QED
      BY <3>1, <3>2
  <2> QED
    BY <2>1, <2>2, <2>3, OrderSends
<1>5. ASSUME NEW r \in Runs, Ends(r) PROVE OrderInv'
  BY <1>5, OrderEnds
<1>6. ASSUME NEW r \in Runs, PublishEnd(r) PROVE OrderInv'
  <2>1. Send(r, "disconnected") /\ life[r] = "ended" /\ life' = [life EXCEPT ![r] = "over"] /\ UNCHANGED overtaken
    BY <1>6 DEF PublishEnd
  <2>2. r <= runs /\ "connecting" \in sent[r]
    BY <2>1 DEF OrderInv, RunsInTurn, ConnectingFirst, WindowTypes, Runs
  <2>3. r \in overtaken \/ \A before \in Runs : before < r => life[before] = "over"
    BY <2>2 DEF OrderInv, Preceded
  <2> QED
    BY <2>1, <2>2, <2>3, OrderSends DEF Events
<1> QED
  BY <1>1, <1>2, <1>3, <1>4, <1>5, <1>6 DEF WindowNext

(* Who has a Disconnect on its way is not wanted. *)
Requested ==
    /\ stops \in Nat
    /\ view \in {"idle", "connecting", "connected", "disconnecting"}
    /\ clicks \in Nat /\ calls \in [Clicks -> {"none", "working", "ok", "failed"}]
    /\ view = "disconnecting" => stops > 0
    /\ \A r \in Runs \ unwanted : Live(r) => stops = 0

(* The success of a session that is wanted is shown, or waits to be. *)
Presented ==
    /\ waiting # <<>> => timer
    /\ "connected" \in seen => Heard
    /\ \A r \in Runs \ (unwanted \cup overtaken) : Live(r) /\ "connected" \in heard[r] =>
         view = "connected" /\ (dash = "connected" \/ \E i \in 1..Len(waiting) : waiting[i] = "connected")

(* What is not idle has a reason. *)
Asked == \E c \in Clicks : calls[c] \in {"working", "failed"}
Begun == \E r \in Runs : life[r] # "none" /\ "disconnected" \notin heard[r]
Caused ==
    /\ view # "idle" \/ dash # "idle" => Asked \/ stops > 0 \/ Begun
    /\ view = "idle" => dash \in {"idle", "connected"}

RightInv == WindowInv /\ OrderInv /\ Requested /\ Presented /\ Caused

(* What the steps do with what is shown, and with the lives of the sessions. *)
LEMMA HearShows ==
    ASSUME WindowTypes, HearNext
    PROVE  /\ inbox[1].event \in Events /\ inbox[1].of \in Runs /\ 1 \in 1..Len(inbox)
           /\ Hear(inbox[1].event)
           /\ heard' = [heard EXCEPT ![inbox[1].of] = @ \cup {inbox[1].event}]
           /\ UNCHANGED <<calls, stops, runs, life, sent, unwanted, overtaken, clicks>>
<1>1. 1 \in 1..Len(inbox) /\ Head(inbox) = inbox[1] /\ inbox[1] \in [event : Events, of : Runs]
  BY Leaves
<1>2. inbox[1].event \in Events /\ inbox[1].of \in Runs
  BY <1>1
<1> QED
  BY <1>1, <1>2 DEF HearNext

LEMMA LivesGoOn ==
    ASSUME WindowTypes, NEW r \in Runs,
           (\E event \in Stages \cup {"connecting", "connected"} : Publish(r, event)) \/ Ends(r) \/ PublishEnd(r)
    PROVE  /\ UNCHANGED <<view, dash, waiting, seen, timer, calls, stops, runs, heard, unwanted, clicks>>
           /\ overtaken \subseteq overtaken'
           /\ \A s \in Runs : (Live(s)' => Live(s)) /\ (life[s] # "none" => life'[s] # "none")
<1>1. UNCHANGED <<view, dash, waiting, seen, timer, calls, stops, runs, heard, unwanted, clicks>>
  BY DEF Publish, Ends, PublishEnd, Send, shownVars
<1>2. overtaken \subseteq overtaken'
  BY DEF Publish, Ends, PublishEnd
<1>3. UNCHANGED life \/ life' = [life EXCEPT ![r] = "ended"] \/ life' = [life EXCEPT ![r] = "over"]
  BY DEF Publish, Ends, PublishEnd
<1>4. \A s \in Runs : (Live(s)' => Live(s)) /\ (life[s] # "none" => life'[s] # "none")
  BY <1>3 DEF WindowTypes, Live
<1> QED
  BY <1>1, <1>2, <1>4

LEMMA StartOfRun ==
    ASSUME WindowTypes, OrderInv, NEW c \in Clicks, ConnectStarts(c)
    PROVE  /\ runs' \in Runs /\ life' = [life EXCEPT ![runs'] = "live"] /\ heard[runs'] = {} /\ \A r \in Runs : ~Live(r)
           /\ calls' = [calls EXCEPT ![c] = "ok"] /\ (stops > 0 => runs' \in unwanted') /\ unwanted \subseteq unwanted'
           /\ UNCHANGED <<view, dash, waiting, seen, timer, stops, heard, overtaken, clicks>>
           /\ \A r \in Runs : life'[r] = IF r = runs' THEN "live" ELSE life[r]
<1>1. /\ runs' = runs + 1 /\ runs < MaxRuns /\ runs' \in Runs /\ life' = [life EXCEPT ![runs'] = "live"]
  BY WindowAssumption DEF ConnectStarts, Runs, WindowTypes
<1>2. heard[runs'] = {}
  BY <1>1 DEF OrderInv, RunsInTurn, Delivered, WindowTypes, Runs
<1>3. \A r \in Runs : life'[r] = IF r = runs' THEN "live" ELSE life[r]
  BY <1>1 DEF WindowTypes
<1> QED
  BY <1>1, <1>2, <1>3 DEF ConnectStarts, shownVars

LEMMA RequestsKept == ASSUME WindowTypes, OrderInv, Requested, [WindowNext]_windowVars PROVE Requested'
<1>1. CASE ClickConnect \/ Navigate
  BY <1>1 DEF ClickConnect, Click, Navigate, shownVars, Requested, Live
<1>2. ASSUME NEW c \in Clicks, AnswerConnect(c) PROVE Requested'
  BY <1>2 DEF AnswerConnect, Requested, Live
<1>3. CASE ClickDisconnect
  BY <1>3 DEF ClickDisconnect, Click, Requested, Live
<1>4. CASE AnswerDisconnect
  BY <1>4 DEF AnswerDisconnect, Requested, Live
<1>5. CASE TimerFires \/ UNCHANGED windowVars
  <2>1. UNCHANGED <<stops, view, calls, unwanted, life, clicks>>
    BY <1>5 DEF TimerFires, windowVars, shownVars
  <2> QED
    BY <2>1 DEF Requested, Live
<1>6. CASE HearNext
  <2>1. /\ UNCHANGED <<calls, stops, life, unwanted, clicks>>
        /\ view' = view \/ view' \in {"connecting", "connected", "idle"}
    BY <1>6, HearShows DEF Hear
  <2> QED
    BY <2>1 DEF Requested, Live
<1>7. ASSUME NEW c \in Clicks, ConnectFails(c) PROVE Requested'
  BY <1>7 DEF ConnectFails, shownVars, Requested, Live
<1>8. ASSUME NEW c \in Clicks, ConnectStarts(c) PROVE Requested'
  <2>1. calls' = [calls EXCEPT ![c] = "ok"] /\ UNCHANGED <<view, stops, clicks>>
    BY <1>8 DEF ConnectStarts, shownVars
  <2>2. ASSUME NEW r \in Runs, r \notin unwanted', Live(r)' PROVE stops = 0
    BY <1>8, <2>2, StartOfRun DEF Requested, Live
  <2> QED
    BY <2>1, <2>2 DEF Requested
<1>9. ASSUME NEW r \in Runs, (\E event \in Stages \cup {"connecting", "connected"} : Publish(r, event)) \/ Ends(r) \/ PublishEnd(r)
      PROVE  Requested'
  <2>1. /\ UNCHANGED <<view, calls, stops, unwanted, clicks>>
        /\ \A s \in Runs : Live(s)' => Live(s)
    BY <1>9, LivesGoOn
  <2> QED
    BY <2>1 DEF Requested
<1> QED
  BY <1>1, <1>2, <1>3, <1>4, <1>5, <1>6, <1>7, <1>8, <1>9 DEF WindowNext

LEMMA LiveIsLast == ASSUME WindowTypes, OrderInv, NEW r \in Runs, Live(r) PROVE r = runs
<1>1. life[r] = "live" /\ r \in Nat /\ runs \in Nat
  BY DEF Live, WindowTypes, Runs
<1>2. ~(r > runs)
  BY <1>1 DEF OrderInv, RunsInTurn
<1>3. r <= runs
  BY <1>1, <1>2
<1> QED
  BY <1>1, <1>3 DEF OrderInv, RunsInTurn

LEMMA SendersStarted == ASSUME OrderInv, NEW r \in Runs, sent[r] # {} PROVE ~(r > runs)
BY DEF OrderInv, RunsInTurn

(* A session that is wanted is the only one whose events can still come. *)
LEMMA NextIsOfTheLast ==
    ASSUME WindowInv, OrderInv, 1 \in 1..Len(inbox), inbox[1].of \in Runs,
           NEW r \in Runs, r \notin overtaken, Live(r), heard[r] # {}
    PROVE  inbox[1].of = r
<1> DEFINE s == inbox[1].of
<1>1. sent[s] # {} /\ "disconnected" \notin heard[s]
  BY DEF OrderInv, Delivered, WindowInv, InOrder
<1>2. ~(s > runs) /\ r = runs
  BY <1>1, LiveIsLast, SendersStarted DEF WindowInv
<1>3. ~(s < r)
  BY <1>1 DEF OrderInv, Preceded
<1> QED
  BY <1>2, <1>3 DEF WindowInv, WindowTypes, Runs

(* What is presented stays, and what is new is shown or waits. *)
LEMMA EnqueueAdds ==
    ASSUME WindowTypes, NEW item \in Stages \cup {"connected"}, Enqueue(item), waiting # <<>> => timer
    PROVE  /\ waiting' # <<>> => timer'
           /\ seen' \subseteq seen \cup {item}
           /\ dash = "connected" \/ (\E i \in 1..Len(waiting) : waiting[i] = "connected") =>
                dash' = "connected" \/ \E i \in 1..Len(waiting') : waiting'[i] = "connected"
           /\ item = "connected" /\ item \notin seen =>
                dash' = "connected" \/ \E i \in 1..Len(waiting') : waiting'[i] = "connected"
           /\ dash' \in {dash, "connected"}
<1>1. CASE item \in seen
  <2>1. UNCHANGED <<waiting, seen, timer, dash>>
    BY <1>1 DEF Enqueue
  <2> QED
    BY <1>1, <2>1
<1>2. CASE item \notin seen /\ timer
  <2>1. seen' = seen \cup {item} /\ timer' /\ waiting' = Append(waiting, item) /\ UNCHANGED dash
    BY <1>2 DEF Enqueue
  <2>2. /\ Len(waiting) \in Nat /\ Len(waiting') = Len(waiting) + 1 /\ waiting'[Len(waiting) + 1] = item
        /\ \A i \in 1..Len(waiting) : waiting'[i] = waiting[i]
    BY <2>1, AppendProperties, LenProperties DEF WindowTypes
  <2>3. /\ Len(waiting) + 1 \in 1..Len(waiting')
        /\ \A i \in 1..Len(waiting) : i \in 1..Len(waiting') /\ waiting'[i] = waiting[i]
    BY <2>2
  <2> QED
    BY <2>1, <2>2, <2>3
<1>3. CASE item \notin seen /\ ~timer
  <2>1. seen' = seen \cup {item} /\ timer' /\ dash' = Shown(item, dash) /\ UNCHANGED waiting
    BY <1>3 DEF Enqueue
  <2> QED
    BY <1>3, <2>1 DEF Shown
<1> QED
  BY <1>1, <1>2, <1>3

LEMMA PresentedHears == ASSUME WindowInv, OrderInv, Presented, HearNext PROVE Presented'
<1> DEFINE e == inbox[1].event
           s == inbox[1].of
<1>1. /\ e \in Events /\ s \in Runs /\ 1 \in 1..Len(inbox) /\ Hear(e)
      /\ heard' = [heard EXCEPT ![s] = @ \cup {e}]
      /\ UNCHANGED <<life, sent, unwanted, overtaken>>
  BY HearShows DEF WindowInv
<1>2. /\ heard'[s] = heard[s] \cup {e} /\ \A r \in Runs \ {s} : heard'[r] = heard[r]
      /\ e \in sent[s] /\ e \notin heard[s] /\ "disconnected" \notin heard[s]
  BY <1>1 DEF WindowInv, WindowTypes, InOrder, OrderInv, Delivered
<1>3. ASSUME NEW r \in Runs, r \notin overtaken, Live(r), "connected" \in heard[r] PROVE s = r
  BY <1>1, <1>3, NextIsOfTheLast
<1>4. CASE e = "disconnected"
  <2>1. waiting' = <<>> /\ seen' = {}
    BY <1>1, <1>4, WindowAssumption DEF Hear, ClearQueue
  <2>2. life[s] = "over"
    BY <1>1, <1>4 DEF WindowInv, EndIsLast
  <2>3. ASSUME NEW r \in Runs, r \notin overtaken, Live(r), "connected" \in heard'[r] PROVE FALSE
    BY <1>2, <1>3, <1>4, <2>2, <2>3 DEF Live
  <2> QED
    BY <1>1, <2>1, <2>3 DEF Presented, Live
<1>5. CASE e = "connecting"
  <2>1. UNCHANGED <<waiting, seen, timer>>
    BY <1>1, <1>5, WindowAssumption DEF Hear
  <2>2. heard[s] = {}
    BY <1>1, <1>5 DEF OrderInv, ConnectingFirst
  <2>3. ASSUME NEW r \in Runs, r \notin overtaken, Live(r), "connected" \in heard'[r] PROVE FALSE
    BY <1>2, <1>3, <1>5, <2>2, <2>3
  <2>4. Heard => Heard'
    BY <1>2, <1>5 DEF Heard
  <2> QED
    BY <1>1, <2>1, <2>3, <2>4 DEF Presented, Live
<1>6. CASE e \in Stages \cup {"connected"}
  <2>1. Enqueue(e) /\ e # "disconnected" /\ (e = "connected" => view' = "connected") /\ (e # "connected" => UNCHANGED view)
    BY <1>1, <1>6, WindowAssumption DEF Hear
  <2>2. /\ waiting' # <<>> => timer'
        /\ seen' \subseteq seen \cup {e}
        /\ dash = "connected" \/ (\E i \in 1..Len(waiting) : waiting[i] = "connected") =>
             dash' = "connected" \/ \E i \in 1..Len(waiting') : waiting'[i] = "connected"
        /\ e = "connected" /\ e \notin seen =>
             dash' = "connected" \/ \E i \in 1..Len(waiting') : waiting'[i] = "connected"
    BY <1>6, <2>1, EnqueueAdds DEF WindowInv, Presented
  <2>3. "connected" \in seen' => Heard'
    <3>1. Heard => Heard'
      BY <1>2, <2>1 DEF Heard
    <3>2. e = "connected" => Heard'
      BY <1>1, <1>2, <2>1 DEF Heard
    <3> QED
      BY <2>2, <3>1, <3>2 DEF Presented
  <2>4. ASSUME NEW r \in Runs, r \notin unwanted \cup overtaken, Live(r), "connected" \in heard'[r]
        PROVE  view' = "connected" /\ (dash' = "connected" \/ \E i \in 1..Len(waiting') : waiting'[i] = "connected")
    <3>1. CASE "connected" \in heard[r]
      BY <2>1, <2>2, <2>4, <3>1 DEF Presented
    <3>2. CASE "connected" \notin heard[r]
      <4>1. r = s /\ e = "connected"
        BY <1>2, <2>4, <3>2
      <4>2. ASSUME NEW before \in Runs, "connected" \in heard[before], "disconnected" \notin heard[before] PROVE FALSE
        <5>1. before # s
          BY <1>2, <4>1, <4>2
        <5>2. ~(before > runs) /\ s = runs
          <6>1. sent[before] # {}
            BY <4>2 DEF OrderInv, Delivered
          <6>2. s = runs
            BY <2>4, <4>1, LiveIsLast DEF WindowInv
          <6> QED
            BY <6>1, <6>2, SendersStarted
        <5>3. before < s
          BY <5>1, <5>2 DEF WindowInv, WindowTypes, Runs
        <5>4. \A j \in 1..Len(inbox) : ~(j < 1)
          OBVIOUS
        <5> QED
          BY <1>1, <2>4, <4>1, <4>2, <5>3, <5>4 DEF OrderInv, Preceded
      <4>3. "connected" \notin seen
        BY <4>2 DEF Presented, Heard
      <4> QED
        BY <2>1, <2>2, <4>1, <4>3
    <3> QED
      BY <3>1, <3>2
  <2>5. waiting' # <<>> => timer'
    BY <2>2
  <2> QED
    BY <1>1, <2>3, <2>4, <2>5 DEF Presented, Live
<1> QED
  BY <1>1, <1>4, <1>5, <1>6 DEF Events

LEMMA PresentedKept == ASSUME WindowInv, OrderInv, Requested, Presented, [WindowNext]_windowVars PROVE Presented'
<1>1. CASE ClickConnect \/ Navigate
  BY <1>1 DEF ClickConnect, Navigate, shownVars, Presented, Heard, Live
<1>2. ASSUME NEW c \in Clicks, AnswerConnect(c) PROVE Presented'
  BY <1>2 DEF AnswerConnect, Presented, Heard, Live
<1>3. CASE ClickDisconnect
  BY <1>3 DEF ClickDisconnect, Presented, Heard, Live
<1>4. CASE AnswerDisconnect
  BY <1>4 DEF AnswerDisconnect, Presented, Heard, Live, Requested
<1>5. CASE TimerFires
  <2>1. UNCHANGED <<view, seen, life, heard, unwanted, overtaken>> /\ timer
    BY <1>5 DEF TimerFires
  <2>2. CASE waiting = <<>>
    <3>1. UNCHANGED <<waiting, dash>>
      BY <1>5, <2>2 DEF TimerFires
    <3> QED
      BY <2>1, <2>2, <3>1 DEF Presented, Heard, Live
  <2>3. CASE waiting # <<>>
    <3>1. waiting' = Tail(waiting) /\ dash' = Shown(Head(waiting), dash) /\ timer'
      BY <1>5, <2>1, <2>3 DEF TimerFires
    <3>2. /\ Head(waiting) = waiting[1] /\ Len(waiting) \in Nat /\ Len(Tail(waiting)) = Len(waiting) - 1
          /\ \A i \in 1..Len(Tail(waiting)) : Tail(waiting)[i] = waiting[i + 1]
      BY <2>3, HeadTailProperties, LenProperties DEF WindowInv, WindowTypes
    <3>3. \A i \in 1..Len(waiting) : waiting[i] = "connected" =>
             Head(waiting) = "connected" \/ \E j \in 1..Len(Tail(waiting)) : Tail(waiting)[j] = "connected"
      <4>1. ASSUME NEW i \in 1..Len(waiting), waiting[i] = "connected", i # 1
            PROVE  i - 1 \in 1..Len(Tail(waiting)) /\ Tail(waiting)[i - 1] = "connected"
        BY <3>2, <4>1
      <4> QED
        BY <3>2, <4>1
    <3> QED
      BY <2>1, <3>1, <3>3 DEF Presented, Heard, Live, Shown
  <2> QED
    BY <2>2, <2>3
<1>6. CASE HearNext
  BY <1>6, PresentedHears
<1>7. ASSUME NEW c \in Clicks, ConnectFails(c) PROVE Presented'
  BY <1>7 DEF ConnectFails, shownVars, Presented, Heard, Live
<1>8. ASSUME NEW c \in Clicks, ConnectStarts(c) PROVE Presented'
  <2>1. /\ heard[runs'] = {} /\ unwanted \subseteq unwanted'
        /\ UNCHANGED <<view, dash, waiting, seen, timer, heard, overtaken>>
        /\ \A r \in Runs : life'[r] = IF r = runs' THEN "live" ELSE life[r]
    BY <1>8, StartOfRun DEF WindowInv
  <2>2. \A r \in Runs : Live(r)' /\ heard[r] # {} => Live(r)
    BY <2>1 DEF Live
  <2> QED
    BY <2>1, <2>2 DEF Presented, Heard
<1>9. ASSUME NEW r \in Runs, (\E event \in Stages \cup {"connecting", "connected"} : Publish(r, event)) \/ Ends(r) \/ PublishEnd(r)
      PROVE  Presented'
  <2>1. /\ UNCHANGED <<view, dash, waiting, seen, timer, heard, unwanted>>
        /\ overtaken \subseteq overtaken'
        /\ \A s \in Runs : Live(s)' => Live(s)
    BY <1>9, LivesGoOn DEF WindowInv
  <2> QED
    BY <2>1 DEF Presented, Heard
<1>10. CASE UNCHANGED windowVars
  BY <1>10 DEF windowVars, shownVars, Presented, Heard, Live
<1> QED
  BY <1>1, <1>2, <1>3, <1>4, <1>5, <1>6, <1>7, <1>8, <1>9, <1>10 DEF WindowNext

LEMMA HeardHasBegun == ASSUME WindowTypes, OrderInv, Heard PROVE Begun
<1>1. PICK r \in Runs : "connected" \in heard[r] /\ "disconnected" \notin heard[r]
  BY DEF Heard
<1>2. ~(r > runs) /\ life[r] # "none"
  BY <1>1 DEF OrderInv, RunsInTurn, Delivered, WindowTypes, Runs
<1> QED
  BY <1>1, <1>2 DEF Begun

LEMMA CausedKept == ASSUME WindowInv, OrderInv, Requested, Caused, [WindowNext]_windowVars PROVE Caused'
<1>1. CASE ClickConnect
  <2>1. clicks' \in Clicks /\ calls' = [calls EXCEPT ![clicks'] = "working"] /\ view' = "connecting"
    BY <1>1, WindowAssumption DEF ClickConnect, Click, Requested, Clicks
  <2>2. calls'[clicks'] = "working"
    BY <2>1 DEF Requested
  <2> QED
    BY <2>1, <2>2 DEF Caused, Asked
<1>2. ASSUME NEW c \in Clicks, AnswerConnect(c) PROVE Caused'
  <2>1. UNCHANGED <<life, heard, stops>> /\ calls' = [calls EXCEPT ![c] = "none"]
    BY <1>2 DEF AnswerConnect
  <2>2. CASE calls[c] = "failed" /\ view = "connecting"
    BY <1>2, <2>1, <2>2 DEF AnswerConnect, Caused
  <2>3. CASE ~(calls[c] = "failed" /\ view = "connecting")
    <3>1. UNCHANGED <<view, dash>>
      BY <1>2, <2>3 DEF AnswerConnect
    <3>2. view = "connected" \/ dash = "connected" => Begun
      BY HeardHasBegun DEF WindowInv, ShownIsHeard
    <3>3. calls[c] # "failed" /\ Asked => Asked'
      BY <1>2, <2>1 DEF AnswerConnect, Asked, Requested
    <3>4. Begun' = Begun
      BY <2>1 DEF Begun
    <3> QED
      BY <2>1, <2>3, <3>1, <3>2, <3>3, <3>4 DEF Requested, Caused
  <2> QED
    BY <2>2, <2>3
<1>3. CASE ClickDisconnect
  BY <1>3 DEF ClickDisconnect, Caused, Requested
<1>4. CASE AnswerDisconnect
  BY <1>4 DEF AnswerDisconnect, Caused
<1>5. CASE TimerFires
  <2>1. UNCHANGED <<view, life, heard, stops, calls>> /\ dash' \in {dash, "connected"}
    BY <1>5 DEF TimerFires, Shown
  <2>2. dash' = "connected" => Heard
    <3>1. WindowInv'
      BY <1>5, WindowKept
    <3>2. Heard' => Heard
      BY <2>1 DEF Heard
    <3> QED
      BY <3>1, <3>2 DEF WindowInv, ShownIsHeard
  <2>3. dash' = "connected" => Begun
    BY <2>2, HeardHasBegun DEF WindowInv
  <2> QED
    BY <2>1, <2>3 DEF Caused, Asked, Begun
<1>6. CASE HearNext
  <2> DEFINE e == inbox[1].event
             s == inbox[1].of
  <2>1. /\ e \in Events /\ s \in Runs /\ 1 \in 1..Len(inbox) /\ Hear(e)
        /\ heard' = [heard EXCEPT ![s] = @ \cup {e}]
        /\ UNCHANGED <<life, sent, calls, stops>>
    BY <1>6, HearShows DEF WindowInv
  <2>2. heard'[s] = heard[s] \cup {e} /\ "disconnected" \notin heard[s] /\ sent[s] # {}
    BY <2>1 DEF WindowInv, WindowTypes, InOrder, OrderInv, Delivered
  <2>3. CASE e = "disconnected"
    BY <2>1, <2>3, WindowAssumption DEF Hear, Caused
  <2>4. CASE e # "disconnected"
    <3>1. Begun'
      <4>1. life[s] # "none"
        BY <2>1, <2>2 DEF OrderInv, RunsInTurn, WindowInv, WindowTypes, Runs
      <4> QED
        BY <2>1, <2>2, <2>4, <4>1 DEF Begun
    <3>2. CASE e \in {"connecting", "connected"}
      <4>1. view' # "idle"
        BY <2>1, <3>2, WindowAssumption DEF Hear
      <4> QED
        BY <3>1, <4>1 DEF Caused
    <3>3. CASE e \in Stages
      <4>1. Enqueue(e) /\ UNCHANGED view
        BY <2>1, <3>3, WindowAssumption DEF Hear
      <4>2. dash' \in {dash, "connected"}
        BY <4>1 DEF Enqueue, Shown
      <4> QED
        BY <3>1, <4>1, <4>2 DEF Caused
    <3> QED
      BY <2>1, <2>4, <3>2, <3>3 DEF Events
  <2> QED
    BY <2>3, <2>4
<1>7. ASSUME NEW c \in Clicks, ConnectFails(c) PROVE Caused'
  <2>1. UNCHANGED <<view, dash, stops, life, heard>> /\ calls' = [calls EXCEPT ![c] = "failed"]
    BY <1>7 DEF ConnectFails, shownVars
  <2>2. Asked'
    BY <2>1 DEF Asked, Requested
  <2> QED
    BY <2>1, <2>2 DEF Caused
<1>8. ASSUME NEW c \in Clicks, ConnectStarts(c) PROVE Caused'
  <2>1. /\ runs' \in Runs /\ heard[runs'] = {} /\ UNCHANGED <<view, dash, heard>>
        /\ life'[runs'] = "live"
    BY <1>8, StartOfRun DEF WindowInv
  <2> QED
    BY <2>1 DEF Caused, Begun
<1>9. ASSUME NEW r \in Runs, (\E event \in Stages \cup {"connecting", "connected"} : Publish(r, event)) \/ Ends(r) \/ PublishEnd(r)
      PROVE  Caused'
  <2>1. /\ UNCHANGED <<view, dash, calls, stops, heard>>
        /\ \A s \in Runs : life[s] # "none" => life'[s] # "none"
    BY <1>9, LivesGoOn DEF WindowInv
  <2> QED
    BY <2>1 DEF Caused, Asked, Begun
<1>10. CASE Navigate \/ UNCHANGED windowVars
  <2>1. UNCHANGED <<view, dash, calls, stops, life, heard>>
    BY <1>10 DEF Navigate, windowVars, shownVars
  <2> QED
    BY <2>1 DEF Caused, Asked, Begun
<1> QED
  BY <1>1, <1>2, <1>3, <1>4, <1>5, <1>6, <1>7, <1>8, <1>9, <1>10 DEF WindowNext

(* When nothing is on its way the window is idle without a session, and connected with one that  *)
(* published its success, was not told to stop and was not overtaken by the 'disconnected' of the *)
(* one before it, for any number of sessions and clicks (App.tsx, tunnelStore.ts,                *)
(* connectionStore.ts: the keys of the presentation queue are cleared with every end, so that the *)
(* success of the next session is presented again).                                             *)
THEOREM WindowIsRightEver == WindowSpec => []WindowIsRight
<1>1. WindowInit => RightInv
  <2> SUFFICES ASSUME WindowInit PROVE RightInv
    OBVIOUS
  <2>1. WindowInv
    BY DEF WindowInit, WindowInv, WindowTypes, EndIsLast, InOrder, ShownIsHeard
  <2>2. RunsInTurn /\ Preceded
    BY DEF WindowInit, RunsInTurn, Preceded, Runs
  <2>3. Delivered /\ ConnectingFirst
    BY DEF WindowInit, Delivered, ConnectingFirst
  <2>4. Requested /\ Presented /\ Caused
    BY DEF WindowInit, Requested, Presented, Caused, Live
  <2> QED
    BY <2>1, <2>2, <2>3, <2>4 DEF RightInv, OrderInv
<1>2. RightInv /\ [WindowNext]_windowVars => RightInv'
  <2> SUFFICES ASSUME RightInv, [WindowNext]_windowVars PROVE RightInv'
    OBVIOUS
  <2>1. WindowInv'
    BY WindowKept DEF RightInv
  <2>2. OrderInv'
    BY OrderKept DEF RightInv, WindowInv
  <2>3. Requested' /\ Presented' /\ Caused'
    BY RequestsKept, PresentedKept, CausedKept DEF RightInv, WindowInv
  <2> QED
    BY <2>1, <2>2, <2>3 DEF RightInv
<1>3. RightInv => WindowIsRight
  <2> SUFFICES ASSUME RightInv, Quiet PROVE WindowIsRight
    BY DEF WindowIsRight
  <2>1. inbox = <<>> /\ ~timer /\ stops = 0 /\ ~Asked
    BY DEF Quiet, Asked
  <2>2. \A r \in Runs : \A x \in sent[r] : x \in heard[r]
    BY <2>1 DEF RightInv, OrderInv, Delivered
  <2>3. ASSUME \A r \in Runs : life[r] \in {"none", "over"} PROVE view = "idle" /\ dash = "idle"
    <3>1. ~Begun
      BY <2>2, <2>3 DEF Begun, RightInv, OrderInv, RunsInTurn
    <3> QED
      BY <2>1, <3>1 DEF RightInv, Caused
  <2>4. ASSUME NEW r \in Runs \ (unwanted \cup overtaken), Live(r), "connected" \in sent[r]
        PROVE  view = "connected" /\ dash = "connected"
    <3>1. Len(waiting) = 0
      BY <2>1 DEF RightInv, Presented
    <3> QED
      BY <2>2, <2>4, <3>1 DEF RightInv, Presented
  <2> QED
    BY <2>3, <2>4 DEF WindowIsRight
<1> QED
  BY <1>1, <1>2, <1>3, PTL DEF WindowSpec
=============================================================================
