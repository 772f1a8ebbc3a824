SPECIFICATION FairSpec
CONSTANTS
    Algorithms = {"NewReno", "CUBIC", "BBR"}
    MSS = 2
    MinCwnd = 4
    InitialCwnd = 10
    Infinite = 1000
    MaxGrowth = 2
    BbrMinCwnd = 10
    FilterLen = 2
    RoundPackets = 2
    Rates = {1, 3}
    MaxRtProp = 2
    Sizes = {2, 3}
    MaxPacketSize = 3
    MaxPN = 8
    MaxTimeouts = 1
INVARIANTS
    TypeOK
    WindowFloor
    InFlightExact
PROPERTIES
    NewRenoLossReduces
    SenderReleased
CHECK_DEADLOCK FALSE
