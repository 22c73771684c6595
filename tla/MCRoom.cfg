SPECIFICATION Spec
CONSTANTS
    Conns = {w1, w2, w3}
    MaxHellos = 2
    Ttl = 2
    Window = 2
    MaxAttempts = 2
    Lockout = 2
    MaxTime = 4
    MaxRestarts = 1
SYMMETRY ConnSymmetry
CONSTRAINT OneTalker
INVARIANTS ClaimsAreLimited SenderIsCurrent
PROPERTIES IsWaitingRoom EntryIsDue
CHECK_DEADLOCK FALSE
