CONSTANTS
    d1 = d1
    s1 = s1
    u1 = u1
    g1 = g1
    None = None
    Receivers <- MCReceivers
    Posts <- MCPosts
    Uploads <- MCUploads
    Pulls <- MCPulls
    Size = 3
    Length = 2
    LossySender = TRUE
    SenderSeeks = FALSE
    Requests <- MCRequests
SPECIFICATION SessionSpec
CHECK_DEADLOCK FALSE
INVARIANTS
    ServedWhole
PROPERTIES
    PathsCompose
