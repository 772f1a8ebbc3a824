------------------------------- MODULE Packet -------------------------------
(***************************************************************************)
(* One direction of a connection, byte by byte: frames are queued, packed  *)
(* into a datagram under a short header, or sent alone under the long      *)
(* header of an Initial packet, and read again by the other end.  The      *)
(* code is sendFrame, flushPendingFrames, sendInitialPacket and            *)
(* handleReceivedPacket of quic/conn.go and quic/wire/header.go.           *)
(*                                                                         *)
(* A datagram is delivered or lost before the next one is sent: what the   *)
(* order of packets does is the subject of Acknowledgement.                *)
(***************************************************************************)
EXTENDS Frames, PacketNumber

CONSTANTS
    Sent,             \* frames sendFrame is called with
    Queued,           \* frames that are queued in pendingFrames
    Initials,         \* frames of sendConnectionSetup
    MaxPending,       \* bound on the queue
    FirstPNs,         \* packet numbers to start from
    MaxPackets,       \* bound on the packets sent
    DestConnID,       \* connection IDs, as bytes
    SrcConnID,
    MaxPacketSize,
    MinInitialPacketSize

ASSUME PacketAssumption ==
    /\ MaxPending \in Nat /\ MaxPackets \in Nat /\ FirstPNs \subseteq Nat
    /\ DestConnID \in Seq(Byte) /\ SrcConnID \in Seq(Byte)
    /\ MinInitialPacketSize \in Nat /\ MaxPacketSize \in Nat

(* A truncated number fits the bytes it is written in.                     *)
ASSUME NumbersFit ==
    /\ Windows[1] <= 256 /\ Windows[2] <= 65536 /\ Windows[3] <= 16777216
    /\ (Windows[4] - 1) \div 256 < 16777216

VARIABLES
    firstPN, sendPN,
    pendingFrames,
    datagram,         \* the bytes on the network, <<>> if none
    written,          \* what the sender has put in the last datagram
    largestRecvPN,
    handled           \* what the receiver has made of it, or Nothing

packetVars == <<firstPN, sendPN, pendingFrames, datagram, written, largestRecvPN, handled>>

Contents(long, pn, frames) == [long |-> long, pn |-> pn, frames |-> frames]
Nothing == Contents(FALSE, -1, <<>>)
Unreadable == Contents(FALSE, -2, <<>>)

---------------------------------------------------------------------------
(* Headers *)

Initial == 1     \* PacketTypeInitial, .., the numbers the code gives the types
Retry == 2
Handshake == 3
ZeroRTT == 4

(* The two bits of the type in the first byte: Initial, 0-RTT, ...         *)
WireTypes == <<Initial, ZeroRTT, Handshake, Retry>>

AppendShortHeader(pn, pnLen) ==
    <<64 + pnLen - 1>> \o DestConnID \o BigEndian(Truncate(pnLen, pn), pnLen)

(* ExtendedHeader.Append for an Initial packet without a token, of a       *)
(* connection of version 1; the length is filled in later.                 *)
AppendInitialHeader(pn, pnLen) ==
    <<192 + pnLen - 1, 0, 0, 0, 1>>
        \o <<Len(DestConnID)>> \o DestConnID \o <<Len(SrcConnID)>> \o SrcConnID
        \o Varint(0) \o <<64, 0>>
        \o BigEndian(Truncate(pnLen, pn), pnLen)

(* SetLength: over the two bytes that follow the connection IDs, and, in   *)
(* an Initial, the token.                                                  *)
AfterConnIDs(b) == 8 + b[6] + b[7 + b[6]]

LengthAt(b) ==
    LET token == CHOOSE t \in ParseVarint(SubSeq(b, AfterConnIDs(b), Len(b))) : TRUE
    IN  IF (b[1] \div 16) % 8 = Initial
        THEN Len(b) - Len(token.rest) + token.val + 1
        ELSE AfterConnIDs(b)

SetLength(b, length) ==
    [b EXCEPT ![LengthAt(b)] = 64 + (length \div 256), ![LengthAt(b) + 1] = length % 256]

(* ParsePacket of a long header, and ParseExtended of its payload.  It     *)
(* yields the number, truncated, and the bytes of the frames.              *)
ParseToken(b, first) ==
    IF WireTypes[((first \div 16) % 4) + 1] = Initial
    THEN {t.rest : t \in ParseCounted(b)}
    ELSE {b}

Payload(b, length) == SubSeq(b, 1, IF length > Len(b) THEN Len(b) ELSE length)

ParseConnIDs(b) ==
    UNION {{src.rest : src \in ParseBytes(Tail(dest.rest), Head(dest.rest))}
             : dest \in {d \in ParseBytes(Tail(b), Head(b)) : d.rest # <<>>}}

ParseNumberOf(b, pnLen) ==
    {[pnLen |-> pnLen, pn |-> Unsigned(0, n.bytes), frames |-> n.rest] : n \in ParseBytes(b, pnLen)}

ParseLongHeader(b) ==
    IF Len(b) < 6 \/ SubSeq(b, 2, 5) = <<0, 0, 0, 0>> THEN {}
    ELSE UNION {UNION {UNION {ParseNumberOf(Payload(l.rest, l.val), (b[1] % 4) + 1)
                                : l \in ParseVarint(rest)}
                         : rest \in ParseToken(ids, b[1])}
                  : ids \in ParseConnIDs(SubSeq(b, 6, Len(b)))}

(* ParseShortHeader, by the length the receiver knows of its ID.           *)
ParseShortHeader(b) ==
    UNION {ParseNumberOf(id.rest, (b[1] % 4) + 1) : id \in ParseBytes(Tail(b), Len(DestConnID))}

ParsePacket(b) == IF b[1] >= 128 THEN ParseLongHeader(b) ELSE ParseShortHeader(b)

---------------------------------------------------------------------------
(* The sender *)

PacketInit ==
    /\ firstPN \in FirstPNs
    /\ sendPN = firstPN
    /\ pendingFrames = <<>>
    /\ datagram = <<>>
    /\ written = Nothing
    /\ largestRecvPN = Max({firstPN - 1, 0})
    /\ handled = Nothing

(* sendAckIfNeeded and sendMaxStreamData append under sendMu, give it up   *)
(* and only then flush.                                                    *)
Queue ==
    /\ Len(pendingFrames) < MaxPending
    /\ \E f \in Queued : pendingFrames' = Append(pendingFrames, f)
    /\ UNCHANGED <<firstPN, sendPN, datagram, written, largestRecvPN, handled>>

(* The pending frames that follow buf into the packet: as many of the      *)
(* first ones as fit.                                                      *)
Packed_NoRollback(buf, frames) ==
    LET fitting == {k \in 1 .. Len(frames) :
                      Len(buf \o Bytes(SubSeq(frames, 1, k - 1))) <= MaxPacketSize}
    IN  SubSeq(frames, 1, Max(fitting \cup {0}))

Packed(buf, frames) ==
    LET fitting == {k \in 1 .. Len(frames) :
                      Len(buf \o Bytes(SubSeq(frames, 1, k))) <= MaxPacketSize}
    IN  SubSeq(frames, 1, Max(fitting \cup {0}))

(* A STREAM frame is cut to what the packet holds, reckoned with the       *)
(* longest packet number.                                                  *)
Overhead(f) ==
    1 + Len(DestConnID) + 4
      + 1 + VarintLen(f.id) + If(f.off > 0, VarintLen(f.off)) + VarintLen(Len(f.data))

Truncated(f) ==
    LET room == MaxPacketSize - Overhead(f)
    IN  IF f.type # 8 \/ Len(f.data) <= room THEN f
        ELSE StreamFrame(f.id, f.off, SubSeq(f.data, 1, IF room < 0 THEN 0 ELSE room), f.fin, TRUE)

Idle == datagram = <<>> /\ sendPN < firstPN + MaxPackets

Transmit(bytes, contents) ==
    /\ datagram' = bytes
    /\ written' = contents
    /\ handled' = Nothing
    /\ sendPN' = sendPN + 1

(* The header and the first frames, then whatever pending frames fit; the  *)
(* queue is empty afterwards.                                              *)
SendShort(frames) ==
    LET buf    == AppendShortHeader(sendPN, HeaderLength(sendPN, 0)) \o Bytes(frames)
        packed == Packed(buf, pendingFrames)
    IN  /\ Transmit(buf \o Bytes(packed), Contents(FALSE, sendPN, frames \o packed))
        /\ pendingFrames' = <<>>
        /\ UNCHANGED <<firstPN, largestRecvPN>>

(* sendFrame, when the limits on tracked packets and the congestion window *)
(* let it send.                                                            *)
SendFrame ==
    /\ Idle
    /\ \E f \in Sent : SendShort(<<Truncated(f)>>)

FlushPendingFrames ==
    /\ Idle
    /\ pendingFrames # <<>>
    /\ SendShort(<<>>)

(* sendInitialPacket: the length is set before the packet is padded.       *)
Padding(len) == [i \in 1 .. len |-> 0]

SendInitialPacket ==
    /\ Idle
    /\ \E f \in Initials :
         LET header == AppendInitialHeader(sendPN, 4)
             set    == SetLength(header \o AppendFrame(f), 4 + Len(AppendFrame(f)))
             padded == set \o Padding(Max({MinInitialPacketSize - Len(set), 0}))
         IN  Transmit(Payload(padded, MaxPacketSize), Contents(TRUE, sendPN, <<f>>))
    /\ UNCHANGED <<firstPN, pendingFrames, largestRecvPN>>

---------------------------------------------------------------------------
(* The network and the receiver *)

Lose ==
    /\ datagram # <<>>
    /\ datagram' = <<>>
    /\ written' = Nothing
    /\ UNCHANGED <<firstPN, sendPN, pendingFrames, largestRecvPN, handled>>

(* handleReceivedPacket, handleLongHeaderPacket.  A packet that cannot be  *)
(* read is dropped without a trace.                                        *)
HandleReceivedPacket ==
    /\ datagram # <<>>
    /\ datagram' = <<>>
    /\ LET parsed == ParsePacket(datagram)
       IN  IF parsed = {}
           THEN /\ handled' = Unreadable
                /\ UNCHANGED largestRecvPN
           ELSE \E p \in parsed :
                  LET pn == Decode(p.pnLen, largestRecvPN, p.pn)
                  IN  /\ largestRecvPN' = Max({largestRecvPN, pn})
                      /\ handled' = Contents(datagram[1] >= 128, pn, ParseFrames(p.frames))
    /\ UNCHANGED <<firstPN, sendPN, pendingFrames, written>>

PacketNext ==
    \/ Queue
    \/ SendFrame
    \/ FlushPendingFrames
    \/ SendInitialPacket
    \/ Lose
    \/ HandleReceivedPacket

PacketSpec == PacketInit /\ [][PacketNext]_packetVars

---------------------------------------------------------------------------
(* Properties *)

Arrived == handled # Nothing

(* A packet with a short header means the same at both ends: the number    *)
(* the sender gave it, and the frames packed into it, each of them, in     *)
(* order and nothing else, however they are mixed.                         *)
RoundTrip == Arrived /\ ~written.long => handled = written

(* No datagram is longer than the size of a packet, whatever is packed     *)
(* behind the first frame.                                                 *)
FitsPacket == Len(datagram) <= MaxPacketSize

(* An Initial packet, which the other end cannot read as it was written,   *)
(* is dropped or taken for number 0: the number that is read in the wrong  *)
(* place never moves the one that later packets are decoded by.            *)
InitialAsZero == Arrived /\ written.long => handled = Unreadable \/ handled.pn = 0

(* RoundTrip for the Initial packets of the connection setup.              *)
InitialsRead == Arrived /\ written.long => handled = written
=============================================================================
