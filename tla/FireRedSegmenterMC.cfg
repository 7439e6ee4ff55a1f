\* Frames of three samples every two, chunks of one to three frames; an idle
\* buffer as short as the assumption allows, so that trimming bites.
SPECIFICATION SegmenterSpec
CONSTANTS
    ProbOne = 1
    RawProbs = {0, 1}
    Thresholds = {1}
    SmoothWindow = 1
    PadStartFrame = 1
    MinSpeechFrame = 2
    MaxSpeechFrame = 3
    MinSilenceFrame = 2
    MaxFrames = 12
    FrameSize = 3
    FrameShift = 2
    WindowSizes = {3, 5}
    PadPre = 3
    IdleKeep = 9
    Interval = 4
    TwoPass = TRUE
    MaxTotal = 25
CHECK_DEADLOCK FALSE
INVARIANTS
    SpeechNeverTrimmed
    IndexFollowsSegment
    BufferBounded
