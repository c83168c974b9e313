SPECIFICATION FairSpec
CONSTANTS
    Base = 16
    SeqLen = 2
    SizeLen = 1
    MaxToken = 1
    MaxGraceful = 3
    MaxFrame = 8
    PrefixLen = 2
    Thread = {t1, t2}
    None = None
    Intro <- MCIntro
    ToServer <- MCToServer
    ToClient <- MCToClient
    SockCap = 3
    MaxSends = 3
INVARIANT NeverRefused
PROPERTIES ImplementsChannel Arrives
