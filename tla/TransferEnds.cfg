CONSTANTS
    d1 = d1
    d2 = d2
    s1 = s1
    s2 = s2
    u1 = u1
    None = None
    Receivers <- MCTwo
    Posts <- MCOnePost
    Uploads = {}
    Size = 2
    LossySender = TRUE
    SenderSeeks = TRUE
    Requests <- MCWhole
SPECIFICATION FairSpec
CHECK_DEADLOCK FALSE
PROPERTIES
    PostEnds
    AbandonedDownloadEnds
