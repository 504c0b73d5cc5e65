SPECIFICATION FairSpec
CONSTANTS
    MaxMounts = 2
    MaxCalls = 2
    MaxVersion = 2
    MaxOutages = 1
    WireCap = 2
    MaxDelay = 3
INVARIANTS
    TypeOK
    OneConnection
    OnlineIsLive
    PushesInOrder
PROPERTIES
    PageCatchesUp
