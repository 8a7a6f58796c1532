CONSTANTS
    Size = 4
    Requests = 2
    HighWater = 1
    LowWater = 0
    QHigh = 2
    QLow = 1
    None = NoChunk
SPECIFICATION FairSpec
CHECK_DEADLOCK FALSE
INVARIANTS
    TypeOK
    PauseTakesHold
    NoLostResume
    NothingAfterEOF
PROPERTIES
    DeliversFile
    
    WorkerEnds
