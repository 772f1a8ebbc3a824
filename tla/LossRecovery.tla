---------------------------- MODULE LossRecovery ----------------------------
(***************************************************************************)
(* The sending half of a connection (quic/conn.go): the packets it tracks, *)
(* how acknowledgements, the loss-detection timer and the probe timeout    *)
(* (PTO) move them to the retransmit queue, how the queue is flushed under *)
(* new packet numbers, and how application goroutines that send at the     *)
(* same time interleave with all of it through sendMu and historyMu.       *)
(*                                                                         *)
(* Covered: concurrent senders, packet loss, reordering and duplication,   *)
(* late, stale and partial ACKs, write errors, a peer that falls silent,   *)
(* closing while packets are outstanding.                                  *)
(*                                                                         *)
(* Abstracted: a packet is its packet number; a payload is named by the    *)
(* packet number that carried it first; every packet has size 1, and the   *)
(* congestion window is a constant (Congestion.tla models the              *)
(* controllers).  The five flags of a sentPacket are sets of packet        *)
(* numbers, and the queue is a bag, as its order decides nothing but which *)
(* fresh number a payload is given.                                        *)
(*                                                                         *)
(* An operator X_Fault is X with a bug put in: nothing uses it but the     *)
(* tests of the properties (PROJECT.json, "mutants").                      *)
(***************************************************************************)
EXTENDS Integers, FiniteSets

CONSTANTS
    Senders,         \* goroutines that call sendFrame (Stream.Write, Close, ...)
    MaxPN,           \* bound: packet numbers 0 .. MaxPN-1 exist
    MaxInitial,      \* bound: long-header packets sent by sendConnectionSetup
    MaxOutstanding,  \* protocol.MaxOutstandingSentPackets
    MaxTracked,      \* protocol.MaxTrackedSentPackets
    MaxPTO,          \* maxPTOCount of checkPTO
    Cwnd,            \* the congestion window, in packets
    MaxLosses,       \* bound: packets the network may drop
    MaxFailures,     \* bound: writes of flushRetransmitQueue that fail
    PeerMayDie       \* whether the peer may fall silent for good

ASSUME ConstantsAssumption ==
    /\ MaxPN \in Nat
    /\ MaxInitial \in Nat
    /\ MaxOutstanding \in Nat
    /\ MaxTracked \in Nat
    /\ MaxPTO \in Nat
    /\ Cwnd \in Nat
    /\ MaxLosses \in Nat
    /\ MaxFailures \in Nat
    /\ PeerMayDie \in BOOLEAN
    /\ Senders \cap {"run", "nobody"} = {}

VARIABLES
    sendPN,          \* Connection.sendPN
    payload,         \* packet number -> payload it carries on the wire
    initial,         \* packets with a long header (isAckEliciting = false)
    history,         \* keys of sendPacketHistory and sendPacketMap
    acked, lost, retransmitted, isRetransmit,   \* flags of sentPacket
    retransmitQueue, \* Connection.retransmitQueue, copies per packet
    remaining,       \* the local of flushRetransmitQueue
    inFlight,        \* bytesInFlight of the congestion controller
    lastRecvAck,     \* ~lastRecvAckTime.IsZero()
    ptoCount,
    closed,
    sendMu,          \* who holds sendMu
    senderPC,        \* where each sender is inside sendFrame
    runPC,           \* where the run goroutine is
    wire,            \* packets in the network
    received,        \* packets the peer has received
    peerAlive,
    losses,
    failures         \* writes of flushRetransmitQueue that have failed

sent    == <<sendPN, payload, initial>>
flags   == <<acked, lost, retransmitted, isRetransmit>>
queue   == <<retransmitQueue, remaining>>
ackVars == <<lastRecvAck, ptoCount>>
network == <<wire, received, peerAlive, losses, failures>>
vars    == <<sent, history, flags, queue, inFlight, ackVars, closed,
             sendMu, senderPC, runPC, network>>

PN == 0 .. MaxPN - 1
NoPayload == MaxPN
EmptyBag == [pn \in PN |-> 0]

(* The packet the holder of sendMu has numbered and is about to write.     *)
Latest == sendPN - 1

Init ==
    /\ sendPN = 0
    /\ payload = [pn \in PN |-> NoPayload]
    /\ initial = {}
    /\ history = {}
    /\ acked = {} /\ lost = {} /\ retransmitted = {} /\ isRetransmit = {}
    /\ retransmitQueue = EmptyBag /\ remaining = EmptyBag
    /\ inFlight = 0
    /\ lastRecvAck = FALSE /\ ptoCount = 0
    /\ closed = FALSE
    /\ sendMu = "nobody"
    /\ senderPC = [s \in Senders |-> "idle"]
    /\ runPC = "select"
    /\ wire = {} /\ received = {} /\ peerAlive = TRUE /\ losses = 0
    /\ failures = 0

-----------------------------------------------------------------------------
(* sendFrame, up to sendMu.Lock(): the closed flag and the number of       *)
(* tracked packets are read before the lock that appends to the history.   *)
CheckStream(s) ==
    /\ senderPC[s] = "idle"
    /\ ~closed
    /\ Cardinality(history) < MaxOutstanding
    /\ Cardinality(history) < MaxTracked
    /\ senderPC' = [senderPC EXCEPT ![s] = "stream"]
    /\ UNCHANGED <<sent, history, flags, queue, inFlight, ackVars, closed,
                   sendMu, runPC, network>>

(* Any other frame (PATH_CHALLENGE, PATH_RESPONSE) has the second limit.    *)
CheckControl(s) ==
    /\ senderPC[s] = "idle"
    /\ ~closed
    /\ Cardinality(history) < MaxTracked
    /\ senderPC' = [senderPC EXCEPT ![s] = "control"]
    /\ UNCHANGED <<sent, history, flags, queue, inFlight, ackVars, closed,
                   sendMu, runPC, network>>

(* A STREAM frame that the congestion window does not admit is refused.    *)
CanSend == inFlight + 1 <= Cwnd

RefuseStream(s) ==
    /\ senderPC[s] = "stream"
    /\ sendMu = "nobody"
    /\ ~CanSend
    /\ senderPC' = [senderPC EXCEPT ![s] = "idle"]
    /\ UNCHANGED <<sent, history, flags, queue, inFlight, ackVars, closed,
                   sendMu, runPC, network>>

(* sendFrame under sendMu: number the packet and append it to the history. *)
Track(s) ==
    /\ senderPC[s] = "control" \/ (senderPC[s] = "stream" /\ CanSend)
    /\ sendMu = "nobody"
    /\ sendPN < MaxPN
    /\ sendMu' = s
    /\ sendPN' = sendPN + 1
    /\ payload' = [payload EXCEPT ![sendPN] = sendPN]
    /\ history' = history \cup {sendPN}
    /\ senderPC' = [senderPC EXCEPT ![s] = "writing"]
    /\ UNCHANGED <<initial, flags, queue, inFlight, ackVars, closed, runPC,
                   network>>

(* OnPacketSent and WriteTo.  A failed write is a packet the network loses. *)
WritePacket(s) ==
    /\ senderPC[s] = "writing"
    /\ inFlight' = inFlight + 1
    /\ wire' = wire \cup {Latest}
    /\ sendMu' = "nobody"
    /\ senderPC' = [senderPC EXCEPT ![s] = "idle"]
    /\ UNCHANGED <<sent, history, flags, queue, ackVars, closed, runPC,
                   received, peerAlive, losses, failures>>

Payloads == {pn \in PN \ initial : payload[pn] = pn}

(* sendInitialPacket: tracked, counted, but not ack-eliciting, and neither *)
(* the closed flag nor the limits are consulted.  sendConnectionSetup runs *)
(* before the application is given the connection.                         *)
SendInitial ==
    /\ sendMu = "nobody"
    /\ sendPN < MaxPN
    /\ Cardinality(initial) < MaxInitial
    /\ Payloads = {} /\ \A s \in Senders : senderPC[s] = "idle"
    /\ sendPN' = sendPN + 1
    /\ payload' = [payload EXCEPT ![sendPN] = sendPN]
    /\ initial' = initial \cup {sendPN}
    /\ history' = history \cup {sendPN}
    /\ inFlight' = inFlight + 1
    /\ wire' = wire \cup {sendPN}
    /\ UNCHANGED <<flags, queue, ackVars, closed, sendMu, senderPC, runPC,
                   received, peerAlive, losses, failures>>

(* flushPendingFrames: an ACK or MAX_STREAM_DATA packet uses up a packet   *)
(* number but is neither tracked nor counted.                              *)
SendUntracked ==
    /\ sendMu = "nobody"
    /\ ~closed
    /\ sendPN < MaxPN
    /\ sendPN' = sendPN + 1
    /\ wire' = wire \cup {sendPN}
    /\ UNCHANGED <<payload, initial, history, flags, queue, inFlight, ackVars,
                   closed, sendMu, senderPC, runPC, received, peerAlive, losses,
                   failures>>

-----------------------------------------------------------------------------
(* Moving packets to the queue: handleAckFrame and checkPTO share it.      *)
Enqueue_Oldest(pns) ==
    /\ retransmitQueue' = [pn \in PN |-> IF pn \in pns /\ \A q \in pns : pn <= q
                                         THEN retransmitQueue[pn] + 1
                                         ELSE retransmitQueue[pn]]
    /\ runPC' = IF retransmitQueue' = EmptyBag THEN "select" ELSE "lock"

Enqueue_NoFlush(pns) ==
    /\ retransmitQueue' = [pn \in PN |-> IF pn \in pns
                                         THEN retransmitQueue[pn] + 1
                                         ELSE retransmitQueue[pn]]
    /\ UNCHANGED runPC

Enqueue(pns) ==
    /\ retransmitQueue' = [pn \in PN |-> IF pn \in pns
                                         THEN retransmitQueue[pn] + 1
                                         ELSE retransmitQueue[pn]]
    /\ runPC' = IF retransmitQueue' = EmptyBag THEN "select" ELSE "lock"

(* Packets that loss detection finds overdue: everything sent before the   *)
(* time "cutoff" stands for, as numbers and send times grow together.      *)
OverdueAt_Stale(cutoff, ackedNow) ==
    {pn \in PN \ (ackedNow \cup retransmitted \cup initial) : pn < cutoff}

OverdueAt(cutoff, ackedNow) ==
    {pn \in history \ (ackedNow \cup retransmitted \cup initial) : pn < cutoff}

NewlyAcked_Twice(S) == S \cap history
NewlyAcked(S) == (S \cap history) \ acked

(* handleAckFrame, from historyMu.Lock() to Unlock().                      *)
HandleAck(S, cutoff) ==
    LET ackedNow == acked \cup (S \cap history)
        overdue  == OverdueAt(cutoff, ackedNow)
    IN  /\ runPC = "select"
        /\ peerAlive
        /\ lastRecvAck' = TRUE
        /\ ptoCount' = 0
        /\ inFlight' = inFlight - Cardinality(NewlyAcked(S))
                                - Cardinality(overdue \ lost)
        /\ Enqueue(overdue)
        (* compactSentHistory drops what is acknowledged, with its flags *)
        /\ history' = history \ ackedNow
        /\ acked' = {}
        /\ lost' = (lost \cup overdue) \ ackedNow
        /\ retransmitted' = (retransmitted \cup overdue) \ ackedNow
        /\ isRetransmit' = isRetransmit \ ackedNow
        /\ UNCHANGED <<sent, remaining, closed, sendMu, senderPC, network>>

(* An ACK frame reports packets the peer has received: any of them, as     *)
(* ACKs may be late, reordered, duplicated or cut to five ranges.          *)
ReceiveAck ==
    \E S \in SUBSET received \ {{}}, cutoff \in 0 .. sendPN : HandleAck(S, cutoff)

(* checkPTO when the time since the last ACK exceeds the probe timeout.    *)
PTOExpires_Either ==
    /\ runPC = "select"
    /\ ~(history = {} \/ ptoCount = 0)
    /\ lastRecvAck

PTOExpires ==
    /\ runPC = "select"
    /\ ~(history = {} /\ ptoCount = 0)
    /\ lastRecvAck

Probe ==
    LET probed == history \ (acked \cup retransmitted \cup isRetransmit)
    IN  /\ PTOExpires
        /\ ptoCount < MaxPTO
        /\ ptoCount' = ptoCount + 1
        /\ inFlight' = inFlight - Cardinality(probed \ lost)
        /\ lost' = lost \cup probed
        /\ retransmitted' = retransmitted \cup probed
        /\ Enqueue(probed)
        /\ UNCHANGED <<sent, history, acked, isRetransmit, remaining, lastRecvAck,
                       closed, sendMu, senderPC, network>>

GiveUp ==
    /\ PTOExpires
    /\ ptoCount >= MaxPTO
    /\ ~closed
    /\ closed' = TRUE
    /\ UNCHANGED <<sent, history, flags, queue, inFlight, ackVars, sendMu,
                   senderPC, runPC, network>>

-----------------------------------------------------------------------------
(* flushRetransmitQueue holds sendMu throughout; senders may still read    *)
(* the history between two packets.                                        *)
FlushLock ==
    /\ runPC = "lock"
    /\ sendMu = "nobody"
    /\ sendMu' = "run"
    /\ runPC' = "flush"
    /\ UNCHANGED <<sent, history, flags, queue, inFlight, ackVars, closed,
                   senderPC, network>>

Dequeue_Keeps(pn) ==
    /\ runPC = "flush"
    /\ retransmitQueue[pn] > 0
    /\ UNCHANGED retransmitQueue

Dequeue(pn) ==
    /\ runPC = "flush"
    /\ retransmitQueue[pn] > 0
    /\ retransmitQueue' = [retransmitQueue EXCEPT ![pn] = @ - 1]

(* Long-header packets are not sent again but marked as acknowledged.      *)
SkipInitial(pn) ==
    /\ Dequeue(pn)
    /\ pn \in initial
    /\ acked' = acked \cup ({pn} \cap history)
    /\ UNCHANGED <<sent, history, lost, retransmitted, isRetransmit, remaining,
                   inFlight, ackVars, closed, sendMu, senderPC, runPC, network>>

Retransmit(pn) ==
    /\ Dequeue(pn)
    /\ pn \notin initial
    /\ sendPN < MaxPN
    /\ sendPN' = sendPN + 1
    /\ payload' = [payload EXCEPT ![sendPN] = payload[pn]]
    /\ wire' = wire \cup {sendPN}
    /\ inFlight' = inFlight + 1
    /\ isRetransmit' = isRetransmit \cup {sendPN}
    /\ history' = history \cup {sendPN}
    /\ acked' = acked \cup ({pn} \cap history)
    /\ UNCHANGED <<initial, lost, retransmitted, remaining, ackVars, closed,
                   sendMu, senderPC, runPC, received, peerAlive, losses, failures>>

(* WriteTo fails: the packet number is spent, the copy is kept for later.  *)
RetransmitFails(pn) ==
    /\ failures < MaxFailures
    /\ Dequeue(pn)
    /\ pn \notin initial
    /\ sendPN < MaxPN
    /\ sendPN' = sendPN + 1
    /\ remaining' = [remaining EXCEPT ![pn] = @ + 1]
    /\ failures' = failures + 1
    /\ UNCHANGED <<payload, initial, history, flags, inFlight, ackVars, closed,
                   sendMu, senderPC, runPC, wire, received, peerAlive, losses>>

FlushEnd ==
    /\ runPC = "flush"
    /\ retransmitQueue = EmptyBag
    /\ retransmitQueue' = remaining
    /\ remaining' = EmptyBag
    /\ sendMu' = "nobody"
    /\ runPC' = "select"
    /\ UNCHANGED <<sent, history, flags, inFlight, ackVars, closed, senderPC,
                   network>>

-----------------------------------------------------------------------------
(* CloseWithError by the application, or the peer's CONNECTION_CLOSE.      *)
Close ==
    /\ ~closed
    /\ closed' = TRUE
    /\ UNCHANGED <<sent, history, flags, queue, inFlight, ackVars, sendMu,
                   senderPC, runPC, network>>

(* run returns once it selects the closed done channel.                    *)
RunExit ==
    /\ closed
    /\ runPC = "select"
    /\ runPC' = "exited"
    /\ UNCHANGED <<sent, history, flags, queue, inFlight, ackVars, closed,
                   sendMu, senderPC, network>>

(* The network and the peer. *)
Deliver(pn) ==
    /\ peerAlive
    /\ pn \in wire
    /\ wire' = wire \ {pn}
    /\ received' = received \cup {pn}
    /\ UNCHANGED <<sent, history, flags, queue, inFlight, ackVars, closed,
                   sendMu, senderPC, runPC, peerAlive, losses, failures>>

Lose(pn) ==
    /\ losses < MaxLosses
    /\ pn \in wire
    /\ wire' = wire \ {pn}
    /\ losses' = losses + 1
    /\ UNCHANGED <<sent, history, flags, queue, inFlight, ackVars, closed,
                   sendMu, senderPC, runPC, received, peerAlive, failures>>

PeerDies ==
    /\ PeerMayDie
    /\ peerAlive
    /\ peerAlive' = FALSE
    /\ UNCHANGED <<sent, history, flags, queue, inFlight, ackVars, closed,
                   sendMu, senderPC, runPC, wire, received, losses, failures>>

SendFrame(s) ==
    CheckStream(s) \/ CheckControl(s) \/ RefuseStream(s) \/ Track(s) \/ WritePacket(s)

FlushOne(pn) == SkipInitial(pn) \/ Retransmit(pn) \/ RetransmitFails(pn)

Next ==
    \/ \E s \in Senders : SendFrame(s)
    \/ SendInitial
    \/ SendUntracked
    \/ ReceiveAck
    \/ Probe
    \/ GiveUp
    \/ FlushLock
    \/ \E pn \in PN : FlushOne(pn)
    \/ FlushEnd
    \/ Close
    \/ RunExit
    \/ \E pn \in PN : Deliver(pn) \/ Lose(pn)
    \/ PeerDies

Spec == Init /\ [][Next]_vars

-----------------------------------------------------------------------------
TypeOK ==
    /\ sendPN \in 0 .. MaxPN
    /\ payload \in [PN -> PN \cup {NoPayload}]
    /\ initial \subseteq PN
    /\ history \subseteq PN
    /\ acked \subseteq history
    /\ lost \subseteq history
    /\ retransmitted \subseteq history
    /\ isRetransmit \subseteq history
    /\ retransmitQueue \in [PN -> Nat]
    /\ remaining \in [PN -> Nat]
    /\ inFlight \in Int
    /\ lastRecvAck \in BOOLEAN
    /\ ptoCount \in 0 .. MaxPTO
    /\ closed \in BOOLEAN
    /\ sendMu \in Senders \cup {"run", "nobody"}
    /\ senderPC \in [Senders -> {"idle", "stream", "control", "writing"}]
    /\ runPC \in {"select", "lock", "flush", "exited"}
    /\ wire \subseteq PN
    /\ received \subseteq PN
    /\ peerAlive \in BOOLEAN
    /\ losses \in 0 .. MaxLosses
    /\ failures \in 0 .. MaxFailures

(* Packets that still answer for their payload: loss detection, or the     *)
(* flush of the queue, will send it again if it is not acknowledged.       *)
Outstanding == history \ (acked \cup retransmitted)
Copies(pn) == retransmitQueue[pn] + remaining[pn]
Carriers == Outstanding \cup {pn \in PN : Copies(pn) > 0}

PayloadReceived(p) == \E pn \in received : payload[pn] = p

(* What the proofs need besides: numbers from sendPN on are unused, and a  *)
(* packet that is tracked or queued carries an earlier payload, an         *)
(* initial packet its own.                                                 *)
Unused(pn) ==
    /\ payload[pn] = NoPayload
    /\ Copies(pn) = 0
    /\ pn \notin initial \cup history \cup wire \cup received

Numbering ==
    /\ \A pn \in PN : pn >= sendPN => Unused(pn)
    /\ \A pn \in PN : payload[pn] # NoPayload => payload[pn] < sendPN
    /\ \A pn \in history \cup Carriers : payload[pn] # NoPayload
    /\ \A pn \in initial : payload[pn] = pn

(* sendMu is held exactly by whoever is inside its critical section.       *)
Locking ==
    /\ \A s \in Senders : senderPC[s] = "writing" <=> sendMu = s
    /\ runPC = "flush" <=> sendMu = "run"
    /\ sendMu \in Senders => sendPN > 0

(* What a sender has committed to the history is never forgotten: the peer *)
(* has it, or some tracked or queued packet still carries it.  (conn.go,   *)
(* handleAckFrame marks and compacts, flushRetransmitQueue marks the old   *)
(* entry as acked although nobody acknowledged it.)                        *)
NoPayloadForgotten ==
    \A p \in Payloads :
        PayloadReceived(p) \/ \E pn \in Carriers : payload[pn] = p

(* A payload has one carrier at a time: it is not queued twice, nor queued *)
(* while a copy is still outstanding.  (sentPacket.retransmitted:          *)
(* "prevents being queued twice", conn.go:146.)                            *)
OneCarrier ==
    /\ \A pn \in PN : Copies(pn) <= 1
    /\ \A pn \in Outstanding : Copies(pn) = 0
    /\ \A c, d \in Carriers : payload[c] = payload[d] => c = d

(* The controller's bytesInFlight is what is tracked and neither           *)
(* acknowledged nor declared lost; a packet between the append to the      *)
(* history and OnPacketSent is tracked but not yet counted.                *)
CountIsExact ==
    inFlight + Cardinality({s \in Senders : senderPC[s] = "writing"})
        = Cardinality(history \ (acked \cup lost))

(* The count is exact as long as no write of a retransmission fails: a     *)
(* copy kept in the queue is taken off once more when the ACK of its       *)
(* original comes (conn.go:592).                                           *)
InFlightMatches == failures = 0 => CountIsExact

(* What the proof of InFlightMatches needs besides: as long as no write    *)
(* fails, the queue is empty whenever run waits for its next event, and    *)
(* the packets it holds are those declared lost and not yet sent again.    *)
QueueIsLost ==
    /\ remaining = EmptyBag
    /\ runPC \in {"select", "exited"} => retransmitQueue = EmptyBag
    /\ \A pn \in history : Copies(pn) > 0 <=> pn \in lost \ acked

-----------------------------------------------------------------------------
(* Fairness: the run goroutine and senders inside sendFrame are scheduled, *)
(* sync.Mutex hands sendMu to a waiter, the network delivers what it does  *)
(* not lose, the 100 ms PTO ticker fires.  FullAck stands for the ACK the  *)
(* peer's 25 ms ticker repeats for all it received, at a time when all     *)
(* that is older is overdue.                                               *)
FullAck == received # {} /\ HandleAck(received, sendPN)

Fairness ==
    /\ \A s \in Senders : SF_vars(Track(s) \/ RefuseStream(s)) /\ WF_vars(WritePacket(s))
    /\ SF_vars(FlushLock)
    /\ WF_vars(\E pn \in PN : SkipInitial(pn) \/ Retransmit(pn))
    /\ WF_vars(FlushEnd)
    /\ WF_vars(FullAck)
    /\ WF_vars(Probe \/ GiveUp)
    /\ \A pn \in PN : WF_vars(Deliver(pn))

FairSpec == Spec /\ Fairness

PNsExhausted == sendPN = MaxPN

(* Once a first ACK has come, whatever a sender commits reaches the peer,  *)
(* or the connection is closed (or the peer is dead, or the bound on       *)
(* packet numbers cuts the run short).                                     *)
Recovered ==
    \A p \in 0 .. MaxPN - 2 :
        (lastRecvAck /\ p \in Payloads)
            ~> (PayloadReceived(p) \/ closed \/ ~peerAlive \/ PNsExhausted)

(* A peer that dies while packets are tracked is noticed: the connection   *)
(* closes after MaxPTO probes.                                             *)
SilentPeerNoticed ==
    (~peerAlive /\ lastRecvAck /\ history # {}) ~> (closed \/ PNsExhausted)
=============================================================================
