CONSTANTS
    h1 = h1
    m1 = m1
    b1 = b1
    Connector = Connector
    NoCaller = NoCaller
    Hashes <- OneHash
    Manuals <- OneManual
    Bulks <- OneBulk
SPECIFICATION FairSpec
INVARIANTS InFlightIsExact
PROPERTIES CancelledEnds
