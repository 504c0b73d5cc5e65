SPECIFICATION FairSpec
CONSTANTS
    f = f
    m = m
    Files = {f}
    Magnets = {m}
    None = None
    MaxCalls = 2
    MaxGestures = 5
    MaxForeign = 2
CHECK_DEADLOCK FALSE
INVARIANTS
    TypeOK
    AlertNamesItsTorrent
    BusyIsUnderWay
PROPERTIES
    PageSettles
