-------------------------- MODULE Acknowledgement --------------------------
(***************************************************************************)
(* The receiving half of a connection (quic/conn.go): packet numbers are   *)
(* decoded and recorded, and acknowledgements are sent from the record by  *)
(* the 25 ms ticker and by the signal that each packet leaves, then read   *)
(* by the peer's handleAckFrame.                                           *)
(*                                                                         *)
(* A packet that has been sent may arrive at any time, several times or    *)
(* never; ACK frames may be late or lost.  An ACK frame is the set of its  *)
(* ranges (AckFrame.tla models how they are built, written and read).      *)
(*                                                                         *)
(* The first packets are the Initials of sendConnectionSetup.  SetLength   *)
(* spoils all of them (Packet.tla): the number of none can be read.  PING  *)
(* and MAX_DATA are dropped, and MAX_STREAMS, whose number is read from    *)
(* the padding, is recorded as number 0.                                   *)
(*                                                                         *)
(* An operator X_Fault is X with a bug put in (PROJECT.json, "mutants").   *)
(***************************************************************************)
EXTENDS PacketNumber, Sequences, FiniteSets

CONSTANTS
    MaxPN,         \* bound: packet numbers 0 .. MaxPN-1 are sent
    LongHeader,    \* numbers of the Initial packets, the first ones sent
    MaxStreams,    \* those of them that carry a MAX_STREAMS frame
    HistoryLimit,  \* numbers kept by recordReceivedPacket (1000)
    HistoryDrop,   \* numbers dropped beyond that (100)
    MaxRanges,     \* ranges of an ACK frame (5)
    AckAfter,      \* calls of sendAckIfNeeded after which it sends (2)
    SignalCap,     \* capacity of immediateAckCh (100)
    MayRepeat,     \* whether the network delivers duplicates
    MaxLate,       \* bound: how far behind the largest a packet may arrive
    MaxAcks,       \* bound: ACK frames in the network at a time
    MaxAckLosses   \* bound: ACK frames the network may drop

ASSUME ConstantsAssumption ==
    /\ MaxPN \in Nat /\ MaxPN <= Limit
    /\ LongHeader \subseteq Nat /\ MaxStreams \subseteq LongHeader
    /\ HistoryLimit \in Nat \ {0}
    /\ HistoryDrop \in 1 .. HistoryLimit
    /\ MaxRanges \in Nat \ {0}
    /\ AckAfter \in Nat \ {0}
    /\ SignalCap \in Nat
    /\ MayRepeat \in BOOLEAN
    /\ MaxLate \in Nat
    /\ MaxAcks \in Nat \ {0}
    /\ MaxAckLosses \in Nat

VARIABLES
    sendPN,        \* the peer's next packet number
    arrived,       \* numbers of the packets that have arrived
    largestRecvPN,
    history,       \* recvPacketHistory
    signals,       \* signals waiting in immediateAckCh
    ackCount,      \* ackElicitingSinceLastAck
    delayOver,     \* 25 ms have passed since lastAckTime
    acks,          \* ACK frames in the network
    ackLosses,
    acked          \* numbers the peer has seen acknowledged

receiver == <<arrived, largestRecvPN, history>>
timing   == <<ackCount, delayOver>>
vars     == <<sendPN, receiver, signals, timing, acks, ackLosses, acked>>

Init ==
    /\ sendPN = 0
    /\ arrived = {} /\ largestRecvPN = 0 /\ history = <<>>
    /\ signals = 0 /\ ackCount = 0 /\ delayOver = TRUE
    /\ acks = {} /\ ackLosses = 0 /\ acked = {}

Send ==
    /\ sendPN < MaxPN
    /\ sendPN' = sendPN + 1
    /\ UNCHANGED <<receiver, signals, timing, acks, ackLosses, acked>>

(* The number handleReceivedPacket reads in a packet, or none if it drops  *)
(* it.  Short headers have what sendFrame chooses, Initials four bytes,    *)
(* which in the one that is read are zeros of its padding.                 *)
Read(pn) ==
    CASE pn \in MaxStreams -> {Decode(4, largestRecvPN, 0)}
      [] pn \in LongHeader \ MaxStreams -> {}
      [] OTHER -> {Decode(HeaderLength(pn, 0), largestRecvPN, Truncate(HeaderLength(pn, 0), pn))}

(* No packet is later than its number's window allows, and the largest     *)
(* number fits the largest window.                                         *)
WithinHalfWindow ==
    /\ \A len \in Lengths : MaxLate + 2 <= Half(len)
    /\ MaxPN < Half(4)

Recorded_Untrimmed(pn) == Append(history, pn)

Recorded(pn) ==
    LET longer == Append(history, pn)
    IN  IF Len(longer) > HistoryLimit
        THEN SubSeq(longer, HistoryDrop + 1, Len(longer))
        ELSE longer

(* handleReceivedPacket, handleLongHeaderPacket and recordReceivedPacket.  *)
Arrive(pn) ==
    /\ pn \in arrived => MayRepeat
    /\ \A larger \in arrived : larger - pn <= MaxLate
    /\ arrived' = arrived \cup {pn}
    /\ IF Read(pn) = {}
       THEN UNCHANGED <<largestRecvPN, history, signals>>
       ELSE \E decoded \in Read(pn) :
              /\ largestRecvPN' = IF decoded > largestRecvPN THEN decoded ELSE largestRecvPN
              /\ history' = Recorded(decoded)
              /\ signals' = IF signals < SignalCap THEN signals + 1 ELSE signals
    /\ UNCHANGED <<sendPN, ackCount, delayOver, acks, ackLosses, acked>>

-----------------------------------------------------------------------------
(* The ranges buildAckRanges makes: maximal runs, those with the largest   *)
(* numbers if there are too many.                                          *)
Covered(r) == r.smallest .. r.largest

Runs(S) ==
    {r \in [smallest : S, largest : S] :
        /\ r.smallest <= r.largest
        /\ Covered(r) \subseteq S
        /\ r.smallest - 1 \notin S
        /\ r.largest + 1 \notin S}

AckRanges_Bridged(S) ==
    LET bridged == S \cup {n + 1 : n \in {m \in S : m + 2 \in S}}
    IN  {r \in Runs(bridged) : Cardinality({q \in Runs(bridged) : q.largest > r.largest}) < MaxRanges}

AckRanges(S) ==
    {r \in Runs(S) : Cardinality({q \in Runs(S) : q.largest > r.largest}) < MaxRanges}

Recent == {history[i] : i \in 1 .. Len(history)}

(* sendAckIfNeeded, called on a signal or a tick. *)
SendAckIfNeeded ==
    /\ history # <<>>
    /\ Cardinality(acks) < MaxAcks
    /\ IF ackCount + 1 >= AckAfter \/ delayOver
       THEN /\ acks' = acks \cup {AckRanges(Recent)}
            /\ ackCount' = 0 /\ delayOver' = FALSE
       ELSE ackCount' = ackCount + 1 /\ UNCHANGED <<acks, delayOver>>
    /\ UNCHANGED <<sendPN, receiver, ackLosses, acked>>

OnSignal ==
    /\ signals > 0
    /\ signals' = signals - 1
    /\ SendAckIfNeeded

OnTick_Signalled == signals > 0 /\ SendAckIfNeeded /\ UNCHANGED signals
OnTick == SendAckIfNeeded /\ UNCHANGED signals

DelayElapses ==
    /\ ~delayOver
    /\ delayOver' = TRUE
    /\ UNCHANGED <<sendPN, receiver, signals, ackCount, acks, ackLosses, acked>>

-----------------------------------------------------------------------------
(* The peer: handleAckFrame marks the tracked packets of every range. *)
ReceiveAck(a) ==
    /\ a \in acks
    /\ acks' = acks \ {a}
    /\ acked' = acked \cup {pn \in 0 .. sendPN - 1 : \E r \in a : pn \in Covered(r)}
    /\ UNCHANGED <<sendPN, receiver, signals, timing, ackLosses>>

LoseAck(a) ==
    /\ a \in acks
    /\ ackLosses < MaxAckLosses
    /\ ackLosses' = ackLosses + 1
    /\ acks' = acks \ {a}
    /\ UNCHANGED <<sendPN, receiver, signals, timing, acked>>

Next ==
    \/ Send
    \/ \E pn \in 0 .. sendPN - 1 : Arrive(pn)
    \/ OnSignal
    \/ OnTick
    \/ DelayElapses
    \/ \E a \in acks : ReceiveAck(a) \/ LoseAck(a)

Spec == Init /\ [][Next]_vars

-----------------------------------------------------------------------------
TypeOK ==
    /\ sendPN \in 0 .. MaxPN
    /\ arrived \subseteq 0 .. MaxPN - 1
    /\ largestRecvPN \in Nat
    /\ history \in Seq(Nat) /\ Len(history) <= HistoryLimit
    /\ signals \in 0 .. SignalCap
    /\ ackCount \in 0 .. AckAfter - 1
    /\ delayOver \in BOOLEAN
    /\ acks \subseteq SUBSET [smallest : Nat, largest : Nat]
    /\ ackLosses \in 0 .. MaxAckLosses
    /\ acked \subseteq 0 .. MaxPN - 1

(* What the peer takes for acknowledged, and so never sends again, has     *)
(* arrived.  Decoding, the record and its trimming, the ranges and frames  *)
(* that are late all have a part in it.  The Initials, which are not sent  *)
(* again in any case (conn.go:645), are excepted: none is acknowledged as  *)
(* such, and number 0 only says that a MAX_STREAMS Initial has arrived.    *)
Acknowledgeable ==
    (arrived \ LongHeader) \cup (IF arrived \cap MaxStreams = {} THEN {} ELSE {0})

AckedWereReceived == acked \subseteq Acknowledgeable

(* What the proof needs besides: nothing but such numbers is recorded and  *)
(* on its way back, and the largest is one of them.                        *)
Recording ==
    /\ arrived \subseteq 0 .. sendPN - 1
    /\ \A i \in 1 .. Len(history) : history[i] \in Acknowledgeable
    /\ \A a \in acks : \A r \in a : Covered(r) \subseteq Acknowledgeable
    /\ largestRecvPN \in (arrived \ LongHeader) \cup {0}

(* The record is kept after an ACK "because the server needs ACKs to       *)
(* detect loss even when no new packets arrive" (conn.go:1172): although   *)
(* ACKs are lost, whatever is recorded is acknowledged in the end, unless  *)
(* the record is trimmed or has too many ranges for one frame.             *)
Reported(pn) == \E r \in AckRanges(Recent) : pn \in Covered(r)

ReceivedIsAcked ==
    \A pn \in 0 .. MaxPN - 1 : Reported(pn) ~> (pn \in acked \/ ~Reported(pn))

(* Fairness: the ticker of run fires every 25 ms, time passes, and ACKs    *)
(* that are not lost arrive.                                               *)
Fairness ==
    /\ WF_vars(OnTick)
    /\ WF_vars(\E a \in acks : ReceiveAck(a))

FairSpec == Spec /\ Fairness
=============================================================================
