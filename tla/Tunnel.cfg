\* The four platforms; two sessions in up to two runs of the GUI, two helpers.
CONSTANTS
    h1 = h1
    h2 = h2
    Helpers <- TwoHelpers
    NoHelper = NoHelper
    MaxSessions = 2
    MaxRuns <- MCRuns
    MaxFaults = 1
    Platforms <- Four
SPECIFICATION FairSpec
INVARIANTS NothingIsLeft TunnelIsComplete NoClientLeft
PROPERTIES HelperLetsGo
\* The sessions are used up and the GUI is closed: the system really stops.
CHECK_DEADLOCK FALSE
