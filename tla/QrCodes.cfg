CONSTANT
    Texts <- MCTexts
    MaxVersion = 10
SPECIFICATION Spec
CHECK_DEADLOCK FALSE
INVARIANTS
    Readable
    LightestMask
