SPECIFICATION FairSpec
CONSTANTS
    client = client
    server = server
    o1 = o1
    o2 = o2
    Ends = {client, server}
    Openers = {o1, o2}
    EndOf <- AtClient
    Streams = 2
    MaxObjects = 2
    AcceptCap = 2
    MaxStreams = 2
    Foreign <- FromServer
    Closers = {client, server}
INVARIANTS
    TypeOK
    AcceptedOnce
PROPERTIES
    StreamsOffered
    CloseCompletes
    StreamKept
CHECK_DEADLOCK FALSE
