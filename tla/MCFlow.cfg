SPECIFICATION FairSpec
CONSTANTS
    c1 = c1
    c2 = c2
    List <- MCList
    Users <- MCUsers
    None = None
    C2S = 1
    S2C = 1
    TtyIn = 1
    TtyOut = 1
    MaxTyped = 1
    Program = "reader"
PROPERTIES InputServed OutputServed DetachEnds
