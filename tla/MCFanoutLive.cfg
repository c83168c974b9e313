SPECIFICATION FairSpec
CONSTANTS
    Conn = {c1, c2}
    None = None
    Pty = Pty
    Garbage = Garbage
    Cap = 1
    MaxRead = 1
    MaxData = 1
    MaxSeq = 1
    AllocFails = {"snapshot_clients"}
    Byte = {0}
    Requests = {0}
PROPERTIES
    BroadcastEnds
    DroppedIsFreed
    EofEnds
