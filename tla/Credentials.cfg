\* Worker groups of two Cores and a probe, two App.OpenCaptcha goroutines, two challenges.
CONSTANTS
    NumCores = 2
    g1 = g1
    g2 = g2
    p = p
    Calls <- MCCalls
    CoreOf <- MCCoreOf
    NoCall = NoCall
    b1 = b1
    b2 = b2
    Browsers <- MCBrowsers
    Steps = 2
    LegacyTries = 2
    MaxChallenges = 2
SPECIFICATION FairSpec
INVARIANTS GatesAreExact TokenIsOwn OneBrowser LaunchedIsWorkedOn
PROPERTIES EndedChallengeIsLost LockoutHolds ContextReachesCall
\* Every call returns: the system really stops.
CHECK_DEADLOCK FALSE
