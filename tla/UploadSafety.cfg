CONSTANTS
    d1 = d1
    u1 = u1
    u2 = u2
    g1 = g1
    g2 = g2
    NoPipe = NoPipe
    DataPipes <- MCDownloads
    UploadPipes <- MCUploads
    Pulls <- MCPulls
    Length = 2
    LossySender = TRUE
SPECIFICATION FairSpec
INVARIANTS
    TypeOK
    AckedUploadIsSaved
PROPERTIES
    PullEnds
CHECK_DEADLOCK FALSE
