\* Windows of three frames and a hop of one, so that windows overlap by two; five
\* frames make three windows, and the clock can stand still, keep up or be late.
\* Lists that are built only, to check the graph, stop there.
SPECIFICATION Spec
CONSTANTS
    KeywordLists <- MCLists
    ListenedTo <- MCListenedTo
    Frames <- MCFrames
    ContextScore = 1
    AcThreshold = 1
    Blank = 0
    Ignored = {3}
    TrailingBlanks = {0, 1}
    Window = 3
    Hop = 1
    Debounce = 3
    MaxFrames = 5
    MaxClock = 5
PROPERTIES GraphIsAutomaton BoostsAddUp
INVARIANTS ReportsTheSpotted WindowsOfStream SaidOnce
CHECK_DEADLOCK FALSE
