SPECIFICATION ChunkingSpec
CONSTANTS
    MaxLength = 7
    MaxLengthOfTwo = 3
    Documents <- MCDocuments
    Sizes <- MCSizes
INVARIANTS NothingLost ClausesStayWhole
PROPERTIES CuttingEnds
CHECK_DEADLOCK FALSE
