CONSTANTS
    d1 = d1
    d2 = d2
    s1 = s1
    s2 = s2
    u1 = u1
    None = None
    Receivers <- MCTwo
    Posts <- MCPosts
    Uploads <- MCUploads
    Size = 3
    LossySender = FALSE
    SenderSeeks = TRUE
    Requests <- MCRequests
SPECIFICATION Spec
CHECK_DEADLOCK FALSE
SYMMETRY MCSymmetry
INVARIANTS
    TypeOK
    OpenPipeInSlot
    SlotNotBroken
    CurrentInOrder
