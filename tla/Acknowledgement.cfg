SPECIFICATION FairSpec
CONSTANTS
    Windows <- SmallWindows
    Limit = 100000
    MaxPN = 6
    LongHeader = {0, 1, 2}
    MaxStreams = {2}
    HistoryLimit = 3
    HistoryDrop = 2
    MaxRanges = 2
    MayRepeat = TRUE
    AckAfter = 2
    SignalCap = 1
    MaxLate = 1
    MaxAcks = 1
    MaxAckLosses = 1
INVARIANTS
    TypeOK
    AckedWereReceived
    RangesExact
PROPERTIES
    ReceivedIsAcked
CHECK_DEADLOCK FALSE
