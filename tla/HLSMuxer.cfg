SPECIFICATION Spec
CONSTANTS
    r1 = r1
    Readers = {r1}
    hlsSegmentCount = 2
    hlsSegmentDuration = 10
    segmentMinAUCount = 2
    ptsOffset = 50
    FrameInterval = 10
    Millisecond = 1
    MaxFrames = 7
    MaxAUs <- MCMaxAUs
    MaxNow = 2
INVARIANTS
    PlaylistIsServed
PROPERTIES
    DecodingTimesGrow
    ReadersReachTheEnd
CHECK_DEADLOCK FALSE
