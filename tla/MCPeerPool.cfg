SPECIFICATION Spec
CONSTANTS
    o1 = o1
    o2 = o2
    i1 = i1
    a = a
    b = b
    None = None
    Outs = {o1, o2}
    Ins = {}
    AddrOf <- SameAddr
    MaxConns = 2
    MaxUnchoked = 1
    OutboundCap = 2
    WriteMayFail = TRUE
CHECK_DEADLOCK FALSE
INVARIANTS
    TypeOK
    NoStaleEntry
    RoundsStayRegistered
