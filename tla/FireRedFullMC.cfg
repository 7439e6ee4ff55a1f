\* A window of two frames, so that smoothing delays the decision; limits small
\* enough that forced ends, reopened segments, short pauses and clipped padding
\* all happen within 13 frames.
SPECIFICATION FullSpec
CONSTANTS
    ProbOne = 2
    RawProbs <- MCRawProbs
    Thresholds = {1, 2}
    SmoothWindow = 2
    PadStartFrame = 0
    MinSpeechFrame = 2
    MaxSpeechFrame = 4
    MinSilenceFrame = 3
    MaxFrames = 13
INVARIANTS
    TypeOK
    SegmentsApart
    SegmentsBounded
    OnsetCovered
    SameSegments
PROPERTIES
    ImplementsEvents
