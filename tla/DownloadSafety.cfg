CONSTANTS
    Size = 3
    SaveEvery = 1
    OldSize = 4
    MaxAttempts = 3
SPECIFICATION Spec
CHECK_DEADLOCK FALSE
INVARIANTS
    TypeOK
    
    RecordBacked
