\* A chunk of two blocks, and segments padded to three: pieces of one block need the
\* pad or another piece, pieces of three do not.  Five blocks and three texts reach
\* three encodings, and a request after two others.  A program stops when its input ends.
SPECIFICATION Spec
CONSTANTS
    Chunk = 2
    MinAsr = 3
    Pieces = {1, 3}
    Programs = {"any", "worker", "python", "split"}
    MaxBlocks = 5
    MaxPasses = 3
    MaxRequests = 3
INVARIANTS HeardOnce OwnText SoundOnce SoundOfRequest
CHECK_DEADLOCK FALSE
