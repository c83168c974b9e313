SPECIFICATION Spec
CONSTANTS
    Conn = {c1, c2}
    None = None
    Pty = Pty
    Garbage = Garbage
    Cap = 2
    MaxRead = 3
    MaxData = 3
    MaxSeq = 3
    AllocFails = {"window"}
    Byte = {0, 1, 2}
    Requests = {0, 4}
SYMMETRY Symmetry
INVARIANTS
    TypeOK
    StreamFaithful
    StreamContiguous
    ReplayFirst
    NoLaggard
    RefCounts
    NoUseAfterFree
    NoLeak
PROPERTY
    DeadStaysDead
