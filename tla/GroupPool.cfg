\* One group of three workers, two TURN addresses, two attempts on each.
CONSTANTS
    NumGroups = 1
    PerGroup = 3
    MaxAttempts = 2
    a1 = a1
    a2 = a2
    Addrs <- TwoAddrs
    URLLists <- TwoLists
SPECIFICATION Spec
INVARIANTS ConfigOnce RequestIsHeld
\* The Core ends and its goroutines with it.
CHECK_DEADLOCK FALSE
