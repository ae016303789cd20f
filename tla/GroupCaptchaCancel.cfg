\* Two groups of one worker, one TURN address.
CONSTANTS
    NumGroups = 2
    PerGroup = 1
    MaxAttempts = 1
    a1 = a1
    a2 = a2
    Addrs <- OneAddr
    URLLists <- OneList
SPECIFICATION FairSpec
PROPERTIES FirstGroupLossEndsCore
\* The Core ends and its goroutines with it.
CHECK_DEADLOCK FALSE
