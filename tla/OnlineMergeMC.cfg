SPECIFICATION PipeSpec
CONSTANTS
    MaxDur = 7
    WarnDur = 6
    ShortSeg = 4
    MergeGap = 1
    Pad = 1
    Interval = 2
    Backoff = 1
    TwoPass = TRUE
    MaxSegment = 3
    MaxClock = 10
INVARIANT
    WorkerSurvives
