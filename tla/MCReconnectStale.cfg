SPECIFICATION Spec
CONSTANTS
    Cap = 2
    Byte = {0, 1, 2}
    Garbage = Garbage
    Retry = TRUE
    MaxChunk = 3
    MaxSeq = 3
    MaxEpoch = 2
    MaxBreaks = 3
CHECK_DEADLOCK FALSE
INVARIANT CatchesUp
