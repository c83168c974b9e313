SPECIFICATION Spec
CONSTANTS
    Cap = 3
    Garbage = Garbage
    MaxSeq = 8
    Byte <- MCByte
    Chunks <- MCChunks
    Requests <- MCRequests
INVARIANTS
    TypeOK
    WindowContents
    ReplyFaithful
PROPERTY
    ImplementsLog
