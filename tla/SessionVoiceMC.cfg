\* The instance of SessionMC.cfg, for the program that sets a voice.
SPECIFICATION Spec
CONSTANTS
    Chunk = 2
    MinAsr = 3
    Pieces = {1, 3}
    Programs = {"python"}
    MaxBlocks = 5
    MaxPasses = 3
    MaxRequests = 3
INVARIANT ReferenceHeard
CHECK_DEADLOCK FALSE
