SPECIFICATION FairSpec
CONSTANTS
    u1 = u1
    d1 = d1
    Server = Server
    Uploaders = {u1}
    Downloaders = {d1}
    Sizes = {1, 2}
    FirstSizes = {2}
    MaxFaults = 1
INVARIANTS
    TypeOK
    ConfirmedIsStored
    DownloadWhole
PROPERTIES
    TransferEnds
CHECK_DEADLOCK FALSE
