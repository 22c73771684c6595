SPECIFICATION SenderSpec
CONSTANTS
    Peers = {p1, p2}
    Fingerprints = {none}
    NoPrint = none
    MaxReceivers = 1
    Window = 1
    MaxAttempts = 2
    Lockout = 1
    Uptime = 1
    MaxTime = 1
    ClockSpan = 8
    MaxSessions = 1
    MaxPosted = 1
SYMMETRY PeerSymmetry
INVARIANTS
    NoMediaWhilePending
    OfferAfterAccept
    RowsMatchRoom
PROPERTIES
    AdmissionSpec
CHECK_DEADLOCK FALSE
