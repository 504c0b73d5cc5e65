SPECIFICATION FairSpec
CONSTANTS
    u1 = u1
    h1 = h1
    Udp = {u1}
    Http = {h1}
    Refusing = {u1}
    Attempts = 2
    MaxDelay = 3
    PeersCap = 1
    MaxRounds = 3
    NetCap = 1
    SocketCap = 1
CHECK_DEADLOCK FALSE
INVARIANTS
    TypeOK
    ConnIdIsOwn
    StartedIsHeard
PROPERTIES
    ImplementsAnnounceRounds
    LoopEnds
