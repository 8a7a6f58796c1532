CONSTANTS
    NWorkers = 2
    Size = 3
    HighWater = 2
    LowWater = 1
SPECIFICATION FairSpec
CHECK_DEADLOCK FALSE
INVARIANTS
    TypeOK
    AtMostOneStaleMessage
    BufferBounded
PROPERTIES
    DeliversFile
    
