\* The Bridge: two sessions, one Disconnect goroutine, a channel of two events.
\* Settings: two calls of the bindings, of any kind, which may overlap, a damaged file, a fault.  Journals: two, of up to five
\* lines, in a directory of three files.  Window: four clicks and two sessions.
CONSTANTS
    MaxCalls = 2
    QueueCap = 2
    d1 = d1
    Callers <- OneCaller
    c1 = c1
    c2 = c2
    Calls <- TwoCalls
    MaxChanges = 2
    MaxDamages = 1
    MaxFaults = 1
    FileLimit = 3
    MemoryLimit = 2
    Retention = 2
    OldLogs = 3
    MaxSessions = 2
    MaxLines = 5
    MaxLogFaults = 1
    Stages <- MCStages
    MaxRuns = 2
    MaxClicks = 4
SPECIFICATION DesktopSpec
INVARIANTS OneCore TunnelHasKeeper StatusOrder ConnectedIsEarned
INVARIANTS BytesSurvive SettingsKept ReportIsCurrent LogsBounded NoFalseConnection WindowIsRight
PROPERTY ImplementsLifecycle
\* The calls, the lines and the clicks are used up, or the process exits: the system really stops.
CHECK_DEADLOCK FALSE
