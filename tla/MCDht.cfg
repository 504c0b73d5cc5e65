SPECIFICATION FairSpec
CONSTANTS
    Bits = 3
    Self <- Own
    Nodes <- Others
    Routers <- FirstRouter
    K = 2
    Alpha = 2
    TxIds = {1, 2, 3}
    Boot = boot
    Finds = {}
    Announces = {ann}
    MaxNames = 1
    Callers <- RouterOnly
    Named <- NotRouter
    NoTx = NoTx
    NoNode = NoNode
    NoOp = NoOp
CHECK_DEADLOCK FALSE
INVARIANTS
    TypeOK
    OneEntryPerNode
    TokenIsOwn
    EveryResponderTold
PROPERTIES
    OperationsReturn
