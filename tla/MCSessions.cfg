SPECIFICATION FairSpec
CONSTANTS
    Cmd = {x, y}
    Name = {a, b}
    MaxPort = 2
    MaxToken = 2
    Slow = TRUE
    None = None
INVARIANTS TypeOK StopsOwn RecordMatches
PROPERTY CommandsEnd
