SPECIFICATION FairSpec
CONSTANTS
    o1 = o1
    o2 = o2
    i1 = i1
    a = a
    b = b
    None = None
    Outs = {o1}
    Ins = {i1}
    AddrOf <- OnePerAddr
    MaxConns = 1
    MaxUnchoked = 1
    OutboundCap = 1
    WriteMayFail = TRUE
CHECK_DEADLOCK FALSE
PROPERTIES
    BroadcastReturns
