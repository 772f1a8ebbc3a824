SPECIFICATION FairSpec
CONSTANTS
    s1 = s1
    Senders = {s1}
    MaxPN = 4
    MaxInitial = 1
    MaxOutstanding = 2
    MaxTracked = 3
    MaxPTO = 1
    Cwnd = 1
    MaxLosses = 1
    MaxFailures = 1
    PeerMayDie = TRUE
INVARIANTS
    TypeOK
    NoPayloadForgotten
    OneCarrier
    InFlightMatches
PROPERTIES
    Recovered
    SilentPeerNoticed
CHECK_DEADLOCK FALSE
