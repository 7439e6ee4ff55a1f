\* Segments of up to three chunks plus one of padding, and room for seven chunks,
\* not quite two segments of that length: ten chunks make three segments, with
\* drops, partials, merges and put-backs.
SPECIFICATION PipeSpec
CONSTANTS
    MaxDur = 7
    WarnDur = 6
    ShortSeg = 4
    MergeGap = 1
    Pad = 1
    Interval = 2
    Backoff = 1
    TwoPass = TRUE
    MaxSegment = 3
    MaxClock = 10
INVARIANTS
    HeardInOrder
    Conserved
    LimitUpToOne
    FinalsHeardAsFinals
PROPERTIES
    OnlyPartialsGoStale
    PartialDropsNothing
    ShutsDown
