\* Frames of five samples every two, windows of five frames every three: frames
\* reach over both ends, utterances have up to four windows, pieces none or many.
SPECIFICATION Spec
CONSTANTS
    FrameStep = 2
    FrameSize = 5
    T = 5
    Shift = 3
    PlInc = 2
    Pad = 4
    Outputs <- MCOutputs
    Pieces = {0, 1, 2, 13}
    MaxSamples = 28
    Vocabulary = {"word"}
INVARIANTS
    StreamIsOnline
    NothingUnheard
    ClientUpToDate
