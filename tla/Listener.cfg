SPECIFICATION FairSpec
CONSTANTS
    c1 = c1
    c2 = c2
    a1 = a1
    a2 = a2
    a3 = a3
    k1 = k1
    k2 = k2
    k3 = k3
    w1 = w1
    w2 = w2
    Clients = {c1, c2}
    Addrs = {a1, a2, a3}
    Home <- TwoHomes
    Conns = {k1, k2, k3}
    Dispatchers = {w1, w2}
    AcceptCap = 2
    Aware = {c1}
    MayClose = TRUE
INVARIANTS
    TypeOK
    NoSplit
    MapsAgree
PROPERTIES
    Offered
CHECK_DEADLOCK FALSE
