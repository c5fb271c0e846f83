SPECIFICATION Spec
CONSTANTS
    Pairs <- MCPairs
    Known <- MCKnown
    MaxPieces = 4
    MaxBlocks = 4
INVARIANTS
    WellFormed
    NothingLost
    ReasonTold
    UnaryAgrees
CHECK_DEADLOCK FALSE
