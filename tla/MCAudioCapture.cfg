SPECIFICATION FairSpec
CONSTANTS
    Tracks = {t1, t2}
    Frame = 2
    Capacity = 5
    MaxBlock = 5
    MaxSamples = 7
INVARIANTS
    SamplesInOrder
    LessThanAFrameWaits
    QuietOnceFreed
    LateOnlyByDisconnect
PROPERTIES
    EndingEnds
CHECK_DEADLOCK FALSE
