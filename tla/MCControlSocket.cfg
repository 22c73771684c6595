SPECIFICATION FairSpec
CONSTANTS
    Clients = {c1, c2}
    Peers = {p1, p2}
    Tokens = {t1}
    None = None
    Backlog = 1
    Polls = 2
    MaxSenders = 2
    MaxHeld = 2
INVARIANTS TableIsOfTheSender NothingOutlivesShutdown
PROPERTY ShutdownReturns
CHECK_DEADLOCK FALSE
