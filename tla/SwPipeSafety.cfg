CONSTANTS
    Size = 2
    MaxRequests = 2
    MaxLooks = 2
SPECIFICATION FairSpec
CHECK_DEADLOCK FALSE
INVARIANTS
    TypeOK
    LossExplained
PROPERTIES
    DeliversFile
    PipeEnds
