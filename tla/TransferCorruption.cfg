CONSTANTS
    d1 = d1
    d2 = d2
    s1 = s1
    s2 = s2
    u1 = u1
    None = None
    Receivers <- MCTwo
    Posts <- MCPosts
    Uploads = {}
    Size = 2
    LossySender = FALSE
    SenderSeeks = TRUE
    Requests <- MCRequests
SPECIFICATION Spec
CHECK_DEADLOCK FALSE
INVARIANTS
    NoCorruption
