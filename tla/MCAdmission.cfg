SPECIFICATION Spec
CONSTANTS
    Peers = {p1, p2, p3}
    Fingerprints = {none, fpA}
    NoPrint = none
    MaxReceivers = 2
    Window = 2
    MaxAttempts = 2
    Lockout = 1
    Uptime = 2
    MaxTime = 6
    ClockSpan = 16
SYMMETRY PeerSymmetry
INVARIANTS
    PinProvenance
    AcceptProvenance
    RateWindow
