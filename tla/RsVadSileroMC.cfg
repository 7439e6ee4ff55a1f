\* Windows of two samples and chunks smaller, larger and much larger than one:
\* six windows hold three segments.  20 lies between the low threshold and the
\* exit of the high one, 40 between the high threshold and its exit.
SPECIFICATION Spec
CONSTANTS
    Window = 2
    Probs = {0, 20, 40, 60}
    Thresholds = {10, 50}
    MinSilence = 2
    ChunkSizes = {1, 3, 13}
    Capacities = {0, 1, 9}
    MaxSamples = 13
INVARIANTS
    WindowsOfStream
    SegmentsOrdered
    HandleWithinModel
