SPECIFICATION FairSpec
CONSTANTS
    Cap = 2
    Garbage = Garbage
    Byte = {0, 1, 2, 3}
    Retry = TRUE
    MaxChunk = 3
    MaxSeq = 4
    MaxEpoch = 2
    MaxBreaks = 3
CHECK_DEADLOCK FALSE
INVARIANTS TypeOK ShownOnce
PROPERTIES NoGap EventuallyCurrent
