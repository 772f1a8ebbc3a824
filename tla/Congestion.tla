----------------------------- MODULE Congestion -----------------------------
(***************************************************************************)
(* A congestion controller as a connection uses it (quic/conn.go):         *)
(* senders ask CanSend, packets are acknowledged in any order, the oldest  *)
(* ones are declared lost, lost ones are sent again under new numbers, and *)
(* a probe timeout resets the window.  bytesInFlight and the window are    *)
(* atomics: a sender may come between any two steps of handleAckFrame.     *)
(*                                                                         *)
(* The first three packets are the Initials of sendConnectionSetup.  They  *)
(* are counted like any other, but not marked as ack-eliciting, so that no *)
(* loss is declared of them; and the peer can acknowledge number 0 alone   *)
(* (Acknowledgement.tla).  The others leave the flight by a timeout.       *)
(***************************************************************************)
EXTENDS Cubic, Bbr, Sequences, FiniteSets

CONSTANTS
    Algorithms,   \* what Config.CongestionControl may be: "NewReno", "CUBIC", "BBR"
    Sizes,        \* sizes of packets
    MaxPacketSize, \* InitialPacketSize (1280), more than maxDatagramSize
    MaxPN,        \* bound: packets sent
    MaxTimeouts   \* bound: probe timeouts (5)

ASSUME ConstantsAssumption ==
    /\ Algorithms \subseteq {"NewReno", "CUBIC", "BBR"}
    /\ MaxPacketSize \in Nat /\ MSS <= MaxPacketSize /\ Sizes \subseteq 1 .. MaxPacketSize
    /\ MaxPN \in Nat /\ MaxPN >= 3 /\ MaxTimeouts \in Nat

VARIABLES
    algorithm,    \* the controller the connection was given
    cc,           \* its fields
    bbr,          \* and those that only BBR has
    nextPN,
    flight,       \* tracked packets, neither acknowledged nor lost
    queue,        \* retransmitQueue: the sizes of lost packets
    timeouts,
    reducedAt,    \* the next packet number when the window was last reduced
    recovered     \* a packet sent since then has been acknowledged

network == <<nextPN, flight, queue, timeouts>>
vars    == <<algorithm, cc, bbr, network, reducedAt, recovered>>

Initials == 0 .. 2

PacketSizes == Sizes \cup {MSS}
Packets == [pn : Nat, size : PacketSizes, again : BOOLEAN]

(* The Initials are as long as maxDatagramSize.                            *)
SetupPackets == {[pn |-> n, size |-> MSS, again |-> FALSE] : n \in Initials}

Init ==
    /\ algorithm \in Algorithms
    /\ cc = [New EXCEPT !.cwnd = IF algorithm = "BBR" THEN BbrMinCwnd ELSE InitialCwnd,
                        !.bytesInFlight = 3 * MSS]
    /\ bbr = NewBbr
    /\ nextPN = 3 /\ flight = SetupPackets /\ queue = <<>> /\ timeouts = 0
    /\ reducedAt = 0 /\ recovered = FALSE

(* The controller the connection was given (listener.go: newController):   *)
(* what follows an acknowledgement or a loss, and the other methods.       *)
Acked(size, pn) ==
    CASE algorithm = "BBR"   -> BbrAcked(cc, bbr, size, pn)
      [] algorithm = "CUBIC" -> CubicAcked(cc, size) \X {bbr}
      [] OTHER               -> {<<OnPacketAcked(cc, size, pn), bbr>>}

Lost(pn) ==
    CASE algorithm = "BBR"   -> BbrLost(cc, bbr, pn)
      [] algorithm = "CUBIC" -> <<CubicLost(cc, pn), bbr>>
      [] OTHER               -> <<OnPacketLost(cc, pn), bbr>>

TimedOut == IF algorithm = "BBR" THEN BbrNeedsRetransmit(cc) ELSE OnPacketNeedsRetransmit(cc)

MaySend(size) == IF algorithm = "BBR" THEN BbrCanSend(cc, size) ELSE CanSend(cc, size)

Packet(size, again) == [pn |-> nextPN, size |-> size, again |-> again]

(* sendFrame with a STREAM frame. *)
Send(size) ==
    /\ nextPN < MaxPN
    /\ MaySend(size)
    /\ nextPN' = nextPN + 1
    /\ flight' = flight \cup {Packet(size, FALSE)}
    /\ cc' = OnPacketSent(cc, size)
    /\ UNCHANGED <<algorithm, bbr, queue, timeouts, reducedAt, recovered>>

(* handleAckFrame: a packet of one of the ranges. *)
Ack(p) ==
    /\ p.pn \notin Initials \ {0}
    /\ flight' = flight \ {p}
    /\ \E after \in Acked(p.size, p.pn) : cc' = after[1] /\ bbr' = after[2]
    /\ recovered' = (recovered \/ p.pn >= reducedAt)
    /\ UNCHANGED <<algorithm, nextPN, queue, timeouts, reducedAt>>

(* handleAckFrame: the oldest of the ack-eliciting packets is overdue. *)
Eliciting == flight \ SetupPackets

Lose(p) ==
    /\ p \in Eliciting
    /\ \A q \in Eliciting : p.pn <= q.pn
    /\ flight' = flight \ {p}
    /\ queue' = Append(queue, p.size)
    /\ cc' = OnPacketDiscarded(Lost(p.pn)[1], p.size)
    /\ bbr' = Lost(p.pn)[2]
    /\ IF cc'.cwnd < cc.cwnd
       THEN reducedAt' = nextPN /\ recovered' = FALSE
       ELSE UNCHANGED <<reducedAt, recovered>>
    /\ UNCHANGED <<algorithm, nextPN, timeouts>>

(* flushRetransmitQueue, which does not ask CanSend. *)
Retransmit ==
    /\ queue # <<>>
    /\ nextPN < MaxPN
    /\ nextPN' = nextPN + 1
    /\ flight' = flight \cup {Packet(Head(queue), TRUE)}
    /\ queue' = Tail(queue)
    /\ cc' = OnPacketSent(cc, Head(queue))
    /\ UNCHANGED <<algorithm, bbr, timeouts, reducedAt, recovered>>

(* checkPTO: everything outstanding but retransmissions is queued again,   *)
(* where flushRetransmitQueue passes over the Initials.                    *)
Originals == {p \in flight : ~p.again}
Resent == Originals \ SetupPackets

(* Every byte of a packet is the packet and a place in it. *)
Bytes(packets) == Cardinality({byte \in packets \X (1 .. MaxPacketSize) : byte[2] <= byte[1].size})

Timeout ==
    /\ timeouts < MaxTimeouts
    /\ timeouts' = timeouts + 1
    /\ cc' = OnPacketDiscarded(TimedOut, Bytes(Originals))
    /\ flight' = flight \ Originals
    /\ \E order \in [1 .. Cardinality(Resent) -> Resent] :
          /\ \A i, j \in DOMAIN order : i < j => order[i].pn < order[j].pn
          /\ queue' = queue \o [i \in DOMAIN order |-> order[i].size]
    /\ reducedAt' = nextPN /\ recovered' = FALSE
    /\ UNCHANGED <<algorithm, bbr, nextPN>>

Next ==
    \/ \E size \in Sizes : Send(size)
    \/ \E p \in flight : Ack(p) \/ Lose(p)
    \/ Retransmit
    \/ Timeout

Spec == Init /\ [][Next]_vars

-----------------------------------------------------------------------------
TypeOK ==
    /\ algorithm \in Algorithms
    /\ cc \in Controller
    /\ bbr \in BbrState
    /\ nextPN \in 0 .. MaxPN
    /\ flight \subseteq Packets
    /\ queue \in Seq(PacketSizes)
    /\ timeouts \in 0 .. MaxTimeouts
    /\ reducedAt \in 0 .. MaxPN
    /\ recovered \in BOOLEAN

(* However losses, timeouts and acknowledgements follow each other, the    *)
(* window lets two packets out, and with BBR much more (bbr.go:47).        *)
WindowFloor ==
    /\ cc.cwnd >= MinCwnd /\ cc.ssthresh >= MinCwnd
    /\ algorithm = "BBR" => cc.cwnd >= BbrMinCwnd

(* The controller's count is what is in flight: sent, neither acknowledged *)
(* nor discarded (congctl.go:20).                                          *)
InFlightExact == cc.bytesInFlight = Bytes(flight)

(* A loss costs NewReno half of its window (README.md:204): once a packet   *)
(* sent after the last reduction has been acknowledged, which ends the     *)
(* recovery (congestion.go:65), the next loss reduces the window again.    *)
NewRenoLossReduces ==
    [][\A p \in flight :
          algorithm = "NewReno" /\ Lose(p) /\ recovered => cc'.cwnd < cc.cwnd \/ cc.cwnd = MinCwnd]_vars

-----------------------------------------------------------------------------
(* Fairness: the peer, which acknowledges its record every 25 ms, and with *)
(* it the loss timer, deal with all that elicits acknowledgements, and     *)
(* flushRetransmitQueue follows.  Not so the Initials: while ACKs come, no *)
(* timeout fires (conn.go:984).                                            *)
FairSpec ==
    /\ Spec
    /\ WF_vars(\E p \in Eliciting : Ack(p) \/ Lose(p))
    /\ WF_vars(Retransmit)

(* "When the window is full, wait" (stream.go:171): a sender that is held   *)
(* back may go on in the end, unless nothing but Initials is in flight,    *)
(* which leave a small window no room.                                     *)
SetupBlocks == flight # {} /\ flight \subseteq SetupPackets

SenderReleased ==
    ~MaySend(MSS) ~> MaySend(MSS) \/ SetupBlocks
=============================================================================
