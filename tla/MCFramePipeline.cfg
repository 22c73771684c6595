SPECIFICATION FairSpec
CONSTANTS
    N = 2
    Peers = {p1, p2}
    MaxFrames = 3
INVARIANTS NoLostWakeup NothingOutlivesRelease
PROPERTIES FrameIsTaken ReleaseReturns IsLatestFrame
CHECK_DEADLOCK FALSE
