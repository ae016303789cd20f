\* One session in detail, two tokens of the handshake semaphore.
CONSTANTS
    s1 = s1
    Sessions <- OneSession
    HandshakeCap = 2
SPECIFICATION FairSpec
INVARIANTS HandshakeSlots
PROPERTIES StopReturnsSessions EndsTogether ConnectedLeavesNothing
\* Every session returns and its goroutines end: the system really stops.
CHECK_DEADLOCK FALSE
