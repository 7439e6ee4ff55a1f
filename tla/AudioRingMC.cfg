\* Blocks smaller than a window, and larger than the whole ring; enough samples
\* for the ring to wrap around three times.
SPECIFICATION Spec
CONSTANTS
    Capacity = 4
    Window = 3
    Blocks = {1, 2, 5}
    MaxWritten = 13
CHECK_DEADLOCK FALSE
INVARIANTS
    LossesCounted
PROPERTY
    StopsOnSignal
