SPECIFICATION FairSpec
CONSTANTS
    Sources = {s1}
    Sessions = {x1, x2}
    VideoMids = {v1, v2}
    AudioMids = {a1}
    Any = Any
    None = None
    MaxAttaches = 2
INVARIANTS HeldSessionsLive PinnedTracksOnly
PROPERTIES LateByOnePacket DestroyReturns
CHECK_DEADLOCK FALSE
