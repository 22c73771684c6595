SPECIFICATION SenderFairSpec
CONSTANTS
    Peers = {p1}
    Fingerprints = {none}
    NoPrint = none
    MaxReceivers = 1
    Window = 1
    MaxAttempts = 1
    Lockout = 1
    Uptime = 1
    MaxTime = 2
    ClockSpan = 8
    MaxSessions = 2
    MaxPosted = 1
INVARIANTS
    AcceptedIsServed
PROPERTIES
    AcceptReachesRoom
CHECK_DEADLOCK FALSE
