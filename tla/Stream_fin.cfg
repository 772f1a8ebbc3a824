SPECIFICATION FairSpec
CONSTANTS
    w1 = w1
    Writers = {w1}
    MaxOffset = 2
    MaxChunk = 2
    Window = 4
    MaxGrant = 12
    MaxLosses = 0
    WriteAfterClose = FALSE
    ConnMayClose = FALSE
    MayCancel = FALSE
    Deadlines = FALSE
PROPERTIES
    FinReported
CHECK_DEADLOCK FALSE
