SPECIFICATION Spec
CONSTANTS
    Pieces = 2
    PieceLength = 5
    BlockSize = 2
    MaxPipelineDepth = 2
    MaxRounds = 4
CHECK_DEADLOCK FALSE
INVARIANTS
    TypeOK
    WholePiece
    StallMeansDropped
