SPECIFICATION Spec
CONSTANTS
    p1 = p1
    p2 = p2
    c1 = c1
    PieceCount = 2
    Peers <- FaultyPeers
    Holds <- FaultyHolds
    Flaky = {p2}
    Corrupt = {p2}
    DiskMayFail = TRUE
    MinWorkCap = 1
    ResultsCap = 1
    MaxRestarts = 1
    Clients = {c1}
CHECK_DEADLOCK FALSE
INVARIANTS
    NoPieceLost
