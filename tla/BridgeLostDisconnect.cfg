\* One session, one Disconnect goroutine, a channel of one event.
CONSTANTS
    MaxCalls = 1
    QueueCap = 1
    d1 = d1
    d2 = d2
    Callers <- OneCaller
SPECIFICATION FairSpec
PROPERTIES CancelledConnectEnds
\* The process exits: the system really stops.
CHECK_DEADLOCK FALSE
