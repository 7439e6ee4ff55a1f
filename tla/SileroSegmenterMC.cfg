\* Probabilities below a dip, below the exit, between exit and entry, and above;
\* a cap of five chunks whose search begins at three.
SPECIFICATION Spec
CONSTANTS
    Probs = {0, 32, 40, 60}
    Threshold = 50
    PrerollMax = 2
    Pad = 1
    SilenceLimits = {1, 3}
    TwoPass = TRUE
    Interval = 2
    MaxSegment = 5
    Search = 2
    MaxChunks = 9
CHECK_DEADLOCK FALSE
INVARIANTS
    SpeechKept
    NoHoles
PROPERTIES
    FinalsApart
    OneFinalEach
