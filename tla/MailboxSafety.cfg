CONSTANTS
    p1 = p1
    p2 = p2
    r1 = r1
    r2 = r2
    None = None
    Pollers <- MCPollers
    Receivers <- MCReceivers
SPECIFICATION FairSpec
INVARIANTS
    TypeOK
    NoLostWakeup
PROPERTIES
    RequestTaken
    ExpiryEndsPolls
