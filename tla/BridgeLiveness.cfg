\* One session, two concurrent Disconnect goroutines, a channel of two events.
CONSTANTS
    MaxCalls = 1
    QueueCap = 2
    d1 = d1
    d2 = d2
    Callers <- MCCallers
SPECIFICATION FairSpec
PROPERTIES FoundCoreEnds FailedApplyEnds
\* The process exits: the system really stops.
CHECK_DEADLOCK FALSE
