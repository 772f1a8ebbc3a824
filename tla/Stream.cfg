SPECIFICATION FairSpec
CONSTANTS
    w1 = w1
    Writers = {w1}
    MaxOffset = 4
    MaxChunk = 2
    Window = 3
    MaxGrant = 9
    MaxLosses = 1
    WriteAfterClose = FALSE
    ConnMayClose = TRUE
    MayCancel = TRUE
    Deadlines = TRUE
INVARIANTS
    TypeOK
    NothingDropped
    WindowRespected
PROPERTIES
    ByteStreamSpec
    AllDelivered
    WriterUnblocked
CHECK_DEADLOCK FALSE
