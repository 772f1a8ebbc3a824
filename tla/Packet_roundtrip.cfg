SPECIFICATION PacketSpec
CONSTANTS
    Windows <- MCWindows
    Limit = 2147483647
    Sent <- MCSent
    Queued <- MCQueued
    Initials <- MCInitials
    MaxPending = 2
    FirstPNs = {0, 127, 32767}
    MaxPackets = 2
    DestConnID <- MCConnID
    SrcConnID <- MCPeerID
    MaxPacketSize = 28
    MinInitialPacketSize = 28
CHECK_DEADLOCK FALSE
INVARIANT RoundTrip
INVARIANT FitsPacket
