SPECIFICATION FairSpec
CONSTANTS
    p1 = p1
    p2 = p2
    c1 = c1
    PieceCount = 2
    Peers <- FaultyPeers
    Holds <- FaultyHolds
    Flaky = {p2}
    Corrupt = {}
    DiskMayFail = FALSE
    MinWorkCap = 1
    ResultsCap = 1
    MaxRestarts = 0
    Clients = {c1}
CHECK_DEADLOCK FALSE
PROPERTIES
    EventuallyComplete
