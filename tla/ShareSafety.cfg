CONSTANTS
    MaxStarts = 2
SPECIFICATION FairSpec
CHECK_DEADLOCK FALSE
INVARIANTS
    TypeOK
    LinkIsServed
    FlagHasLoop
PROPERTIES
    StopEndsLoops
