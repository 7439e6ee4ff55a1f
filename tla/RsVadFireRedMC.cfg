\* Frames of three samples every two, chunks shorter and longer than a frame, a
\* segment limit of three frames: seven frames hold two segments.
SPECIFICATION VadSpec
CONSTANTS
    ProbOne = 1
    RawProbs = {0, 1}
    Thresholds = {1}
    SmoothWindow = 1
    PadStartFrame = 1
    MinSpeechFrame = 2
    MaxSpeechFrame = 3
    MinSilenceFrame = 2
    MaxFrames = 7
    FrameSize = 3
    FrameShift = 2
    ChunkSizes = {1, 2, 5, 15}
    Capacities = {0, 1, 9}
    MaxSamples = 15
INVARIANTS
    ChunkingInvisible
    SegmentsOrdered
    HandleFollowsDetector
