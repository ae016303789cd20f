\* A hash of the server, one of the pool that another server uses too, and two that VK can create.
CONSTANTS
    a = a
    b = b
    c = c
    d = d
    Old <- MCOld
    Named <- MCNamed
    Pooled <- MCPooled
    New <- MCNew
    Elsewhere <- MCElsewhere
    MaxAutoReplacements = 1
    MaxConnects = 1
    MaxEdits = 1
    MaxFaults = 1
SPECIFICATION FairSpec
INVARIANTS HandsOverUsable ReplacesOnlyDead ReplacementIsValid NamedIsRegistered
PROPERTIES ConnectEnds
\* The connects are used up: the system really stops.
CHECK_DEADLOCK FALSE
