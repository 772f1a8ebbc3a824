------------------------- MODULE LossRecoveryProofs -------------------------
(***************************************************************************)
(* Proofs about LossRecovery, for every number of senders, packets, losses *)
(* and write errors.  IInv is inductive: OneCarrier and NoPayloadForgotten *)
(* need to know that numbers from sendPN on are unused (a retransmission   *)
(* must not collide) and that an initial packet carries only itself (so    *)
(* that dropping it from the queue forgets no stream data).                *)
(***************************************************************************)
EXTENDS LossRecovery, FiniteSetTheorems, TLAPS

IInv == TypeOK /\ Locking /\ Numbering /\ OneCarrier /\ NoPayloadForgotten

LEMMA EmptyQueue == EmptyBag \in [PN -> Nat] /\ \A pn \in PN : EmptyBag[pn] = 0
  BY DEF EmptyBag

(* The initial state satisfies the inductive invariant. *)
LEMMA InitInv == Init => IInv
<1> SUFFICES ASSUME Init PROVE IInv
  OBVIOUS
<1> USE ConstantsAssumption DEF Init
<1>1. TypeOK
  <2>1. payload \in [PN -> PN \cup {NoPayload}]
    OBVIOUS
  <2>2. senderPC \in [Senders -> {"idle", "stream", "control", "writing"}]
    OBVIOUS
  <2>3. /\ sendPN \in 0 .. MaxPN /\ ptoCount \in 0 .. MaxPTO
        /\ losses \in 0 .. MaxLosses /\ failures \in 0 .. MaxFailures
    OBVIOUS
  <2>4. inFlight \in Int /\ retransmitQueue \in [PN -> Nat] /\ remaining \in [PN -> Nat]
    BY EmptyQueue
  <2> QED BY <2>1, <2>2, <2>3, <2>4 DEF TypeOK
<1>2. Outstanding = {} /\ Carriers = {} /\ Payloads = {}
  BY DEF Outstanding, Carriers, Copies, Payloads, EmptyBag, NoPayload, PN
<1>3. \A pn \in PN : payload[pn] = NoPayload /\ Copies(pn) = 0
  BY DEF Copies, EmptyBag
<1>4. Numbering
  BY <1>2, <1>3 DEF Numbering, Unused
<1>5. OneCarrier /\ NoPayloadForgotten
  BY <1>2, <1>3 DEF OneCarrier, NoPayloadForgotten
<1>6. Locking
  BY DEF Locking
<1> QED BY <1>1, <1>4, <1>5, <1>6 DEF IInv

(* Steps that leave alone everything the invariant speaks of, except that  *)
(* the peer may receive packets and payloads stay where they are.          *)
LEMMA FrameStep ==
  ASSUME IInv, TypeOK', Locking',
         UNCHANGED <<sent, history, flags, queue>>,
         received \subseteq received',
         received' \subseteq received \cup wire,
         wire' \subseteq wire
  PROVE  IInv'
<1> USE DEF sent, flags, queue
<1>1. Outstanding' = Outstanding /\ Carriers' = Carriers /\ Payloads' = Payloads
      /\ \A pn \in PN : Copies(pn)' = Copies(pn)
  BY DEF Outstanding, Carriers, Payloads, Copies
<1>2. OneCarrier'
  <2>1. Outstanding \subseteq PN
    BY DEF IInv, TypeOK, Outstanding
  <2> QED BY <1>1, <2>1 DEF IInv, OneCarrier
<1>3. NoPayloadForgotten'
  BY <1>1 DEF IInv, NoPayloadForgotten, PayloadReceived
<1>4. Numbering'
  <2>1. \A pn \in PN : pn >= sendPN' => Unused(pn)'
    BY <1>1 DEF IInv, Numbering, Unused, NoPayload
  <2> QED BY <1>1, <2>1 DEF IInv, Numbering, NoPayload
<1> QED BY <1>2, <1>3, <1>4 DEF IInv

(* A number below sendPN is put on the wire and numbers may be spent.      *)
LEMMA WriteStep ==
  ASSUME IInv, TypeOK', Locking', NEW new,
         sendPN' >= sendPN,
         \A pn \in PN : pn >= sendPN' => pn # new,
         UNCHANGED <<payload, initial, history, flags, queue, received>>,
         wire' = wire \cup {new}
  PROVE  IInv'
<1> USE DEF flags, queue
<1>1. Outstanding' = Outstanding /\ Carriers' = Carriers /\ Payloads' = Payloads
      /\ \A pn \in PN : Copies(pn)' = Copies(pn)
  BY DEF Outstanding, Carriers, Payloads, Copies
<1>2. OneCarrier'
  <2>1. Outstanding \subseteq PN
    BY DEF IInv, TypeOK, Outstanding
  <2> QED BY <1>1, <2>1 DEF IInv, OneCarrier
<1>3. NoPayloadForgotten'
  BY <1>1 DEF IInv, NoPayloadForgotten, PayloadReceived
<1>4. Numbering'
  <2>1. sendPN \in Int /\ sendPN' \in Int /\ PN \subseteq Int
    BY DEF IInv, TypeOK, PN
  <2>2. ASSUME NEW pn \in PN, pn >= sendPN'
        PROVE  Unused(pn)'
    <3>1. pn >= sendPN
      BY <2>1, <2>2
    <3> QED BY <1>1, <2>2, <3>1 DEF IInv, Numbering, Unused, NoPayload
  <2>3. \A pn \in PN : payload[pn] # NoPayload => payload[pn] < sendPN'
    <3> SUFFICES ASSUME NEW pn \in PN, payload[pn] # NoPayload
                 PROVE  payload[pn] < sendPN'
      OBVIOUS
    <3>1. payload[pn] \in Int /\ payload[pn] < sendPN
      BY <2>1 DEF IInv, Numbering, TypeOK
    <3> QED BY <2>1, <3>1
  <2> QED BY <1>1, <2>2, <2>3 DEF IInv, Numbering, NoPayload
<1> QED BY <1>2, <1>3, <1>4 DEF IInv

(* A new packet number is given to a new payload (Track, SendInitial).     *)
LEMMA NewPayloadStep ==
  ASSUME IInv, TypeOK', Locking', sendPN < MaxPN,
         sendPN' = sendPN + 1,
         payload' = [payload EXCEPT ![sendPN] = sendPN],
         initial' \in {initial, initial \cup {sendPN}},
         history' = history \cup {sendPN},
         UNCHANGED <<flags, queue, received>>,
         wire' \subseteq wire \cup {sendPN}
  PROVE  IInv'
<1> USE ConstantsAssumption DEF flags, queue
<1>1. sendPN \in PN /\ Unused(sendPN) /\ sendPN \notin Carriers
  BY DEF IInv, TypeOK, Numbering, Unused, PN, Carriers, Outstanding
<1>2. \A pn \in PN : /\ Copies(pn)' = Copies(pn)
                     /\ payload'[pn] = IF pn = sendPN THEN sendPN ELSE payload[pn]
  BY DEF Copies, IInv, TypeOK
<1>3. Outstanding' = Outstanding \cup {sendPN} /\ Carriers' = Carriers \cup {sendPN}
  <2>1. sendPN \notin acked \cup retransmitted
    BY <1>1 DEF IInv, TypeOK, Unused
  <2>2. Outstanding' = Outstanding \cup {sendPN}
    BY <2>1 DEF Outstanding
  <2> QED BY <2>2, <1>2 DEF Carriers
<1>4. Carriers \subseteq PN /\ Outstanding \subseteq PN
  BY DEF Carriers, Outstanding, IInv, TypeOK
<1>5. \A c \in Carriers : payload[c] < sendPN /\ payload[c] \in Int
  BY <1>4 DEF IInv, Numbering, TypeOK, PN
<1>6. Numbering'
  <2>1. ASSUME NEW pn \in PN, pn >= sendPN' PROVE Unused(pn)'
    <3>1. pn \in Nat /\ sendPN \in Nat /\ sendPN' = sendPN + 1
      BY <1>1 DEF PN
    <3>2. pn # sendPN /\ pn >= sendPN
      BY <2>1, <3>1
    <3>3. Unused(pn)
      BY <3>2 DEF IInv, Numbering
    <3>4. payload'[pn] = payload[pn] /\ Copies(pn)' = Copies(pn)
      BY <1>2, <3>2
    <3> QED BY <3>2, <3>3, <3>4 DEF Unused
  <2>2. \A pn \in PN : payload'[pn] # NoPayload => payload'[pn] < sendPN'
    <3> SUFFICES ASSUME NEW pn \in PN, payload'[pn] # NoPayload
                 PROVE  payload'[pn] < sendPN'
      OBVIOUS
    <3>1. sendPN \in Nat /\ sendPN' = sendPN + 1
      BY <1>1 DEF PN
    <3>2. CASE pn = sendPN
      BY <1>2, <3>1, <3>2
    <3>3. CASE pn # sendPN
      <4>1. payload'[pn] = payload[pn]
        BY <1>2, <3>3
      <4>2. payload[pn] \in Int /\ payload[pn] < sendPN
        BY <4>1 DEF IInv, Numbering, TypeOK, PN, NoPayload
      <4> QED BY <3>1, <4>1, <4>2
    <3> QED BY <3>2, <3>3
  <2>3. \A pn \in history' \cup Carriers' : payload'[pn] # NoPayload
    BY <1>1, <1>2, <1>3, <1>4 DEF IInv, Numbering, TypeOK, PN, NoPayload
  <2>4. \A pn \in initial' : payload'[pn] = pn
    BY <1>1, <1>2 DEF IInv, Numbering, TypeOK, Unused
  <2> QED BY <2>1, <2>2, <2>3, <2>4 DEF Numbering, NoPayload
<1>7. OneCarrier'
  <2>1. \A pn \in Outstanding' : Copies(pn)' = 0
    BY <1>1, <1>2, <1>3, <1>4 DEF IInv, OneCarrier, Unused
  <2>2. \A c, d \in Carriers' : payload'[c] = payload'[d] => c = d
    BY <1>1, <1>2, <1>3, <1>4, <1>5 DEF IInv, OneCarrier
  <2> QED BY <1>2, <2>1, <2>2 DEF IInv, OneCarrier
<1>8. NoPayloadForgotten'
  <2> SUFFICES ASSUME NEW p \in Payloads'
               PROVE  PayloadReceived(p)' \/ \E pn \in Carriers' : payload'[pn] = p
    BY DEF NoPayloadForgotten
  <2>1. CASE p = sendPN
    BY <2>1, <1>1, <1>2, <1>3
  <2>2. CASE p # sendPN
    <3>1. p \in Payloads
      BY <2>2, <1>2 DEF Payloads
    <3>2. \A pn \in received \cup Carriers : payload'[pn] = payload[pn]
      BY <1>1, <1>2, <1>4 DEF IInv, TypeOK, Unused
    <3> QED BY <3>1, <3>2, <1>3 DEF IInv, NoPayloadForgotten, PayloadReceived
  <2> QED BY <2>1, <2>2
<1> QED BY <1>6, <1>7, <1>8 DEF IInv

(* HandleAck and Probe: some outstanding packets move to the queue, and    *)
(* packets the peer has received (or that are marked) leave the history.   *)
LEMMA EnqueueStep ==
  ASSUME IInv, TypeOK', Locking', NEW S \in SUBSET received, NEW pns \in SUBSET Outstanding,
         Enqueue(pns), UNCHANGED <<sent, remaining, wire, received>>,
         history' \subseteq history,
         Outstanding' = Outstanding \ (S \cup pns)
  PROVE  IInv'
<1> USE DEF sent
<1>1. Outstanding \subseteq PN
  BY DEF IInv, TypeOK, Outstanding
<1>2. \A pn \in PN : Copies(pn)' = IF pn \in pns THEN Copies(pn) + 1 ELSE Copies(pn)
  BY DEF Enqueue, Copies, IInv, TypeOK
<1>3. \A pn \in PN : Copies(pn) \in Nat
  BY DEF Copies, IInv, TypeOK
<1>4. \A pn \in Outstanding : Copies(pn) = 0
  BY DEF IInv, OneCarrier
<1>5. Carriers' \subseteq Carriers
  BY <1>1, <1>2 DEF Carriers
<1>6. OneCarrier'
  <2>1. \A pn \in PN : Copies(pn)' <= 1
    BY <1>2, <1>4 DEF IInv, OneCarrier
  <2>2. \A pn \in Outstanding' : Copies(pn)' = 0
    BY <1>1, <1>2, <1>4
  <2> QED BY <1>5, <2>1, <2>2 DEF IInv, OneCarrier
<1>7. Numbering'
  <2>1. ASSUME NEW pn \in PN, pn >= sendPN'
        PROVE  Unused(pn)'
    <3>1. Unused(pn)
      BY <2>1 DEF IInv, Numbering
    <3>2. pn \notin pns
      BY <3>1 DEF Unused, Outstanding
    <3> QED BY <1>2, <3>1, <3>2 DEF Unused, NoPayload
  <2> QED BY <1>5, <2>1 DEF IInv, Numbering, NoPayload
<1>8. NoPayloadForgotten'
  <2> SUFFICES ASSUME NEW p \in Payloads, ~PayloadReceived(p)
               PROVE  \E pn \in Carriers' : payload[pn] = p
    BY DEF NoPayloadForgotten, Payloads, PayloadReceived
  <2>1. PICK c \in Carriers : payload[c] = p
    BY DEF IInv, NoPayloadForgotten
  <2>2. c \notin S
    BY <2>1 DEF PayloadReceived
  <2>3. c \in Carriers'
    <3>1. CASE c \in Outstanding \ pns
      BY <3>1, <2>2 DEF Carriers
    <3>2. CASE c \in pns
      BY <3>2, <1>1, <1>2, <1>3 DEF Carriers
    <3>3. CASE c \in PN /\ Copies(c) > 0
      BY <3>3, <1>2, <1>3 DEF Carriers
    <3> QED BY <3>1, <3>2, <3>3 DEF Carriers
  <2> QED BY <2>1, <2>3
<1> QED BY <1>6, <1>7, <1>8 DEF IInv

(* What taking one copy from the queue does to Copies. *)
LEMMA DequeueCopies ==
  ASSUME IInv, NEW pn \in PN, Dequeue(pn)
  PROVE  /\ Copies(pn) = 1
         /\ pn \notin Outstanding
         /\ \A q \in PN : retransmitQueue'[q] =
                             IF q = pn THEN retransmitQueue[q] - 1 ELSE retransmitQueue[q]
         /\ remaining' = remaining
              => \A q \in PN : Copies(q)' = IF q = pn THEN 0 ELSE Copies(q)
<1>1. /\ retransmitQueue \in [PN -> Nat]
      /\ remaining \in [PN -> Nat]
      /\ retransmitQueue' = [retransmitQueue EXCEPT ![pn] = retransmitQueue[pn] - 1]
      /\ retransmitQueue[pn] > 0
  BY DEF IInv, TypeOK, Dequeue
<1>2. Copies(pn) = 1
  BY <1>1 DEF IInv, OneCarrier, Copies
<1>3. pn \notin Outstanding
  BY <1>2 DEF IInv, OneCarrier
<1>4. \A q \in PN : retransmitQueue'[q] =
                       IF q = pn THEN retransmitQueue[q] - 1 ELSE retransmitQueue[q]
  BY <1>1
<1>5. ASSUME remaining' = remaining
      PROVE  \A q \in PN : Copies(q)' = IF q = pn THEN 0 ELSE Copies(q)
  <2>1. \A q \in PN : retransmitQueue[q] \in Nat /\ remaining[q] \in Nat
    BY <1>1
  <2> QED BY <1>2, <1>4, <1>5, <2>1 DEF Copies
<1> QED BY <1>2, <1>3, <1>4, <1>5

(* A long-header packet leaves the queue: it carries no sender's payload.  *)
LEMMA SkipInitialStep ==
  ASSUME IInv, TypeOK', Locking', NEW pn \in PN, SkipInitial(pn)
  PROVE  IInv'
<1> USE DEF SkipInitial, sent, network
<1>1. Copies(pn) = 1 /\ pn \notin Outstanding
  BY DequeueCopies
<1>2. \A q \in PN : Copies(q)' = IF q = pn THEN 0 ELSE Copies(q)
  BY DequeueCopies
<1>3. Outstanding' = Outstanding
  BY <1>1 DEF Outstanding
<1>4. Carriers' = Carriers \ {pn}
  BY <1>1, <1>2, <1>3 DEF Carriers
<1>5. OneCarrier'
  <2>1. Outstanding \subseteq PN
    BY DEF IInv, TypeOK, Outstanding
  <2> QED BY <1>2, <1>3, <1>4, <2>1 DEF IInv, OneCarrier
<1>6. Numbering'
  <2>1. ASSUME NEW q \in PN, q >= sendPN'
        PROVE  Unused(q)'
    BY <1>1, <1>2, <2>1 DEF IInv, Numbering, Unused, NoPayload, network
  <2> QED BY <1>4, <2>1 DEF IInv, Numbering, NoPayload
<1>7. NoPayloadForgotten'
  <2> SUFFICES ASSUME NEW p \in Payloads, ~PayloadReceived(p)
               PROVE  \E q \in Carriers' : payload[q] = p
    BY DEF NoPayloadForgotten, Payloads, PayloadReceived, network
  <2>1. PICK c \in Carriers : payload[c] = p
    BY DEF IInv, NoPayloadForgotten
  <2>2. c # pn
    BY <2>1 DEF IInv, Numbering, Payloads
  <2> QED BY <1>4, <2>1, <2>2
<1> QED BY <1>5, <1>6, <1>7 DEF IInv

(* A copy is sent again under a new number: the carrier changes.           *)
LEMMA RetransmitStep ==
  ASSUME IInv, TypeOK', Locking', NEW pn \in PN, Retransmit(pn)
  PROVE  IInv'
<1> USE ConstantsAssumption DEF Retransmit
<1>1. Copies(pn) = 1 /\ pn \notin Outstanding
  BY DequeueCopies
<1>2. \A q \in PN : Copies(q)' = IF q = pn THEN 0 ELSE Copies(q)
  BY DequeueCopies
<1>3. sendPN \in PN /\ Unused(sendPN) /\ sendPN # pn /\ sendPN \notin Carriers
  <2>1. sendPN \in PN /\ Unused(sendPN)
    BY DEF IInv, TypeOK, Numbering, PN
  <2> QED BY <2>1, <1>1 DEF Unused, Carriers, Outstanding
<1>4. pn \in Carriers /\ payload[pn] # NoPayload /\ payload[pn] < sendPN /\ payload[pn] \in PN
  <2>1. pn \in Carriers
    BY <1>1 DEF Carriers
  <2> QED BY <2>1 DEF IInv, Numbering, TypeOK
<1>5. \A q \in PN : payload'[q] = IF q = sendPN THEN payload[pn] ELSE payload[q]
  BY <1>3 DEF IInv, TypeOK
<1>6. Outstanding' = Outstanding \cup {sendPN}
  <2>1. sendPN \notin acked \cup retransmitted
    BY <1>3 DEF IInv, TypeOK, Unused
  <2> QED BY <2>1, <1>1, <1>3 DEF Outstanding
<1>7. Carriers' = (Carriers \ {pn}) \cup {sendPN}
  <2>1. \A q \in PN : q = sendPN => Copies(q)' = 0
    BY <1>2, <1>3 DEF Unused
  <2>2. {q \in PN : Copies(q)' > 0} = {q \in PN : Copies(q) > 0} \ {pn}
    <3> HIDE DEF Retransmit
    <3> QED BY <1>2
  <2> QED BY <1>1, <1>6, <2>1, <2>2 DEF Carriers
<1>8. Carriers \subseteq PN /\ Outstanding \subseteq PN
  BY DEF Carriers, Outstanding, IInv, TypeOK
<1>9. OneCarrier'
  <2>1. \A q \in Outstanding' : Copies(q)' = 0
    BY <1>2, <1>3, <1>6, <1>8 DEF IInv, OneCarrier, Unused
  <2>2. \A c, d \in Carriers' : payload'[c] = payload'[d] => c = d
    BY <1>3, <1>4, <1>5, <1>7, <1>8 DEF IInv, OneCarrier
  <2> QED BY <1>2, <2>1, <2>2 DEF IInv, OneCarrier
<1>10. Numbering'
  <2>1. ASSUME NEW q \in PN, q >= sendPN'
        PROVE  Unused(q)'
    <3>1. q >= sendPN /\ q # sendPN
      BY <2>1 DEF IInv, TypeOK, PN
    <3>2. Unused(q)
      BY <3>1 DEF IInv, Numbering
    <3>3. q # pn
      BY <3>2, <1>1 DEF Unused
    <3> QED BY <1>2, <1>5, <3>1, <3>2, <3>3 DEF Unused, NoPayload
  <2>2. \A q \in PN : payload'[q] # NoPayload => payload'[q] < sendPN'
    <3>1. sendPN \in Int /\ sendPN' = sendPN + 1 /\ PN \subseteq Int /\ NoPayload' = NoPayload
      BY DEF IInv, TypeOK, PN, NoPayload
    <3>2. \A q \in PN : payload[q] # NoPayload => payload[q] \in PN /\ payload[q] < sendPN
      BY DEF IInv, Numbering, TypeOK
    <3>3. ASSUME NEW q \in PN, payload'[q] # NoPayload
          PROVE  payload'[q] \in Int /\ payload'[q] < sendPN
      <4>1. CASE q = sendPN
        BY <4>1, <1>4, <1>5, <3>1
      <4>2. CASE q # sendPN
        BY <4>2, <1>5, <3>1, <3>2, <3>3
      <4> QED BY <4>1, <4>2
    <3> QED BY <3>1, <3>3
  <2>3. \A q \in history' \cup Carriers' : payload'[q] # NoPayload
    BY <1>3, <1>4, <1>5, <1>7, <1>8 DEF IInv, Numbering, TypeOK
  <2>4. \A q \in initial' : payload'[q] = q
    BY <1>3, <1>5 DEF IInv, Numbering, TypeOK, Unused
  <2> QED BY <2>1, <2>2, <2>3, <2>4 DEF Numbering, NoPayload
<1>11. NoPayloadForgotten'
  <2> SUFFICES ASSUME NEW p \in Payloads', ~PayloadReceived(p)'
               PROVE  \E q \in Carriers' : payload'[q] = p
    BY DEF NoPayloadForgotten
  <2>1. p \in Payloads
    BY <1>4, <1>5 DEF Payloads, IInv, TypeOK, PN
  <2>2. ~PayloadReceived(p)
    BY <1>3, <1>5 DEF PayloadReceived, IInv, TypeOK, Unused
  <2>3. PICK c \in Carriers : payload[c] = p
    BY <2>1, <2>2 DEF IInv, NoPayloadForgotten
  <2>4. CASE c = pn
    BY <2>3, <2>4, <1>3, <1>5, <1>7
  <2>5. CASE c # pn
    BY <2>3, <2>5, <1>3, <1>5, <1>7, <1>8
  <2> QED BY <2>4, <2>5
<1> QED BY <1>9, <1>10, <1>11 DEF IInv

(* Copies move between the queue and "remaining", nothing else changes     *)
(* (RetransmitFails also spends a number).                                 *)
LEMMA SameCopiesStep ==
  ASSUME IInv, TypeOK', Locking', sendPN' >= sendPN,
         UNCHANGED <<payload, initial, history, flags, wire, received>>,
         \A pn \in PN : Copies(pn)' = Copies(pn)
  PROVE  IInv'
<1> USE DEF flags
<1>1. Outstanding' = Outstanding /\ Carriers' = Carriers /\ Payloads' = Payloads
  BY DEF Outstanding, Carriers, Payloads
<1>2. OneCarrier'
  <2>1. Outstanding \subseteq PN
    BY DEF IInv, TypeOK, Outstanding
  <2> QED BY <1>1, <2>1 DEF IInv, OneCarrier
<1>3. NoPayloadForgotten'
  BY <1>1 DEF IInv, NoPayloadForgotten, PayloadReceived
<1>4. Numbering'
  <2>1. sendPN \in Int /\ sendPN' \in Int /\ PN \subseteq Int
    BY DEF IInv, TypeOK, PN
  <2>2. \A pn \in PN : pn >= sendPN' => Unused(pn)'
    BY <2>1 DEF IInv, Numbering, Unused, NoPayload
  <2>3. ASSUME NEW pn \in PN, payload[pn] # NoPayload
        PROVE  payload[pn] < sendPN'
    <3>1. payload[pn] < sendPN
      BY <2>3 DEF IInv, Numbering
    <3>2. payload[pn] \in Int
      BY <2>1, <2>3 DEF IInv, TypeOK
    <3> QED BY <2>1, <3>1, <3>2
  <2> QED BY <1>1, <2>2, <2>3 DEF IInv, Numbering, NoPayload
<1> QED BY <1>2, <1>3, <1>4 DEF IInv

LEMMA CardinalityOfPNs ==
  ASSUME NEW T \in SUBSET PN
  PROVE  IsFiniteSet(T) /\ Cardinality(T) \in Nat
<1>1. IsFiniteSet(PN)
  BY ConstantsAssumption, FS_Interval DEF PN
<1> QED BY <1>1, FS_Subset, FS_CardinalityType

LEMMA EnqueueType ==
  ASSUME TypeOK, NEW pns, Enqueue(pns)
  PROVE  retransmitQueue' \in [PN -> Nat] /\ runPC' \in {"select", "lock"}
<1>1. \A pn \in PN : (IF pn \in pns THEN retransmitQueue[pn] + 1
                                      ELSE retransmitQueue[pn]) \in Nat
  BY DEF TypeOK
<1> QED BY <1>1 DEF Enqueue

(* Type correctness and locking, for every step. *)
LEMMA TypeStep == TypeOK /\ Locking /\ [Next]_vars => TypeOK' /\ Locking'
<1> SUFFICES ASSUME TypeOK, Locking, [Next]_vars PROVE TypeOK' /\ Locking'
  OBVIOUS
<1> USE ConstantsAssumption
<1>1. /\ NoPayload \notin PN /\ sendPN \in Int
      /\ sendPN < MaxPN => sendPN \in PN /\ sendPN + 1 \in 0 .. MaxPN
      /\ "run" \notin Senders /\ "nobody" \notin Senders
  BY DEF TypeOK, PN, NoPayload
<1>2. ASSUME NEW s \in Senders, SendFrame(s) PROVE TypeOK' /\ Locking'
  <2> USE DEF sent, flags, queue, ackVars, network
  <2>1. CASE CheckStream(s)
    BY <2>1 DEF CheckStream, TypeOK, NoPayload, Locking
  <2>2. CASE CheckControl(s)
    BY <2>2 DEF CheckControl, TypeOK, NoPayload, Locking
  <2>3. CASE RefuseStream(s)
    BY <2>3 DEF RefuseStream, TypeOK, NoPayload, Locking
  <2>4. CASE Track(s)
    BY <2>4, <1>1 DEF Track, TypeOK, NoPayload, Locking
  <2>5. CASE WritePacket(s)
    <3>1. Latest \in PN
      BY <2>5 DEF WritePacket, Locking, TypeOK, Latest, PN
    <3> QED BY <2>5, <3>1, <1>1 DEF WritePacket, TypeOK, NoPayload, Locking
  <2> QED BY <1>2, <2>1, <2>2, <2>3, <2>4, <2>5 DEF SendFrame
<1>3. CASE SendInitial
  BY <1>3, <1>1 DEF SendInitial, TypeOK, NoPayload, Locking, flags, queue, ackVars
<1>4. CASE SendUntracked
  BY <1>4, <1>1 DEF SendUntracked, TypeOK, NoPayload, Locking, flags, queue, ackVars
<1>5. CASE ReceiveAck
  <2>1. PICK S \in SUBSET received \ {{}}, cutoff \in 0 .. sendPN : HandleAck(S, cutoff)
    BY <1>5 DEF ReceiveAck
  <2> DEFINE overdue == OverdueAt(cutoff, acked \cup (S \cap history))
  <2>2. Enqueue(overdue)
    BY <2>1 DEF HandleAck, NewlyAcked
  <2>3. retransmitQueue' \in [PN -> Nat] /\ runPC' \in {"select", "lock"}
    BY <2>2, EnqueueType
  <2>4. overdue \subseteq history \ (acked \cup (S \cap history))
    BY DEF OverdueAt
  <2>5. inFlight' \in Int
    <3>1. (S \cap history) \ acked \in SUBSET PN /\ overdue \ lost \in SUBSET PN
      BY <2>4 DEF TypeOK
    <3>2. Cardinality((S \cap history) \ acked) \in Nat /\ Cardinality(overdue \ lost) \in Nat
      BY <3>1, CardinalityOfPNs
    <3> QED BY <2>1, <3>2 DEF HandleAck, NewlyAcked, TypeOK
  <2> HIDE DEF overdue
  <2>6. /\ history' \subseteq PN /\ acked' \subseteq history' /\ lost' \subseteq history'
        /\ retransmitted' \subseteq history' /\ isRetransmit' \subseteq history'
    BY <2>1, <2>4 DEF HandleAck, NewlyAcked, TypeOK, overdue
  <2>7. /\ lastRecvAck' = TRUE /\ ptoCount' = 0 /\ runPC = "select"
        /\ UNCHANGED <<sent, remaining, closed, sendMu, senderPC, network>>
    BY <2>1 DEF HandleAck, NewlyAcked
  <2> QED BY <2>3, <2>5, <2>6, <2>7, <1>1 DEF TypeOK, NoPayload, Locking, sent, network
<1>6. CASE Probe
  <2> DEFINE probed == history \ (acked \cup retransmitted \cup isRetransmit)
  <2>1. retransmitQueue' \in [PN -> Nat] /\ runPC' \in {"select", "lock"}
    BY <1>6, EnqueueType DEF Probe
  <2>2. inFlight' \in Int
    <3>1. Cardinality(probed \ lost) \in Nat
      BY CardinalityOfPNs DEF TypeOK
    <3> QED BY <1>6, <3>1 DEF Probe, TypeOK
  <2> QED BY <1>6, <1>1, <2>1, <2>2
          DEF Probe, PTOExpires, TypeOK, NoPayload, Locking, sent, network
<1>7. CASE GiveUp
  BY <1>7 DEF GiveUp, TypeOK, NoPayload, Locking, sent, flags, queue, ackVars, network
<1>8. CASE FlushLock
  BY <1>8, <1>1 DEF FlushLock, TypeOK, NoPayload, Locking, sent, flags, queue, ackVars, network
<1>9. ASSUME NEW pn \in PN, FlushOne(pn) PROVE TypeOK' /\ Locking'
  <2>1. Dequeue(pn)
    BY <1>9 DEF FlushOne, SkipInitial, Retransmit, RetransmitFails
  <2>2. retransmitQueue' \in [PN -> Nat]
    <3>1. retransmitQueue[pn] - 1 \in Nat
      BY <2>1 DEF Dequeue, TypeOK
    <3> QED BY <2>1, <3>1 DEF Dequeue, TypeOK
  <2>3. CASE SkipInitial(pn)
    BY <2>2, <2>3 DEF SkipInitial, TypeOK, NoPayload, Locking, sent, ackVars, network
  <2>4. CASE Retransmit(pn)
    BY <2>2, <2>4, <1>1 DEF Retransmit, TypeOK, NoPayload, Locking, ackVars
  <2>5. CASE RetransmitFails(pn)
    BY <2>2, <2>5, <1>1
       DEF RetransmitFails, TypeOK, NoPayload, Locking, flags, ackVars, network
  <2> QED BY <1>9, <2>3, <2>4, <2>5 DEF FlushOne
<1>10. CASE FlushEnd
  BY <1>10, <1>1, EmptyQueue DEF FlushEnd, TypeOK, NoPayload, Locking, sent, flags, ackVars, network
<1>11. CASE Close
  BY <1>11 DEF Close, TypeOK, NoPayload, Locking, sent, flags, queue, ackVars, network
<1>12. CASE RunExit
  BY <1>12 DEF RunExit, TypeOK, NoPayload, Locking, sent, flags, queue, ackVars, network
<1>13. ASSUME NEW pn \in PN, Deliver(pn) \/ Lose(pn) PROVE TypeOK' /\ Locking'
  BY <1>13 DEF Deliver, Lose, TypeOK, NoPayload, Locking, sent, flags, queue, ackVars
<1>14. CASE PeerDies
  BY <1>14 DEF PeerDies, TypeOK, NoPayload, Locking, sent, flags, queue, ackVars
<1>15. CASE UNCHANGED vars
  BY <1>15 DEF vars, TypeOK, NoPayload, Locking, sent, flags, queue, ackVars, network
<1> QED BY <1>2, <1>3, <1>4, <1>5, <1>6, <1>7, <1>8, <1>9, <1>10, <1>11, <1>12,
           <1>13, <1>14, <1>15 DEF Next

(* Every step preserves the inductive invariant. *)
LEMMA StepInv == IInv /\ [Next]_vars => IInv'
<1> SUFFICES ASSUME IInv, [Next]_vars PROVE IInv'
  OBVIOUS
<1> USE ConstantsAssumption
<1>1. TypeOK' /\ Locking' /\ Outstanding \subseteq PN
  BY TypeStep DEF IInv, TypeOK, Outstanding
<1>2. ASSUME NEW s \in Senders, SendFrame(s) PROVE IInv'
  <2>1. CASE CheckStream(s) \/ CheckControl(s) \/ RefuseStream(s)
    BY <2>1, <1>1, FrameStep DEF CheckStream, CheckControl, RefuseStream, network
  <2>2. CASE Track(s)
    BY <2>2, <1>1, NewPayloadStep DEF Track, network
  <2>3. CASE WritePacket(s)
    <3>1. \A pn \in PN : pn >= sendPN => pn # Latest
      BY <2>3 DEF WritePacket, IInv, Locking, TypeOK, Latest, PN
    <3>2. sendPN' = sendPN /\ sendPN \in Int
      BY <2>3 DEF WritePacket, sent, IInv, TypeOK
    <3>3. /\ UNCHANGED <<payload, initial, history, flags, queue, received>>
          /\ wire' = wire \cup {Latest}
      BY <2>3 DEF WritePacket, sent
    <3> QED BY <3>1, <3>2, <3>3, <1>1, WriteStep
  <2> QED BY <1>2, <2>1, <2>2, <2>3 DEF SendFrame
<1>3. CASE SendInitial
  BY <1>3, <1>1, NewPayloadStep DEF SendInitial
<1>4. CASE SendUntracked
  <2>1. \A pn \in PN : pn >= sendPN' => pn # sendPN
    BY <1>4 DEF SendUntracked, IInv, TypeOK, PN
  <2>2. sendPN' >= sendPN
    BY <1>4 DEF SendUntracked, IInv, TypeOK
  <2>3. /\ UNCHANGED <<payload, initial, history, flags, queue, received>>
        /\ wire' = wire \cup {sendPN}
    BY <1>4 DEF SendUntracked
  <2> QED BY <2>1, <2>2, <2>3, <1>1, WriteStep
<1>5. CASE ReceiveAck
  <2>1. PICK S \in SUBSET received \ {{}}, cutoff \in 0 .. sendPN : HandleAck(S, cutoff)
    BY <1>5 DEF ReceiveAck
  <2> DEFINE overdue == OverdueAt(cutoff, acked \cup (S \cap history))
  <2>2. overdue \subseteq Outstanding
    BY DEF OverdueAt, Outstanding
  <2>3. Outstanding' = Outstanding \ (S \cup overdue)
    BY <2>1 DEF HandleAck, NewlyAcked, Outstanding, OverdueAt
  <2>4. Enqueue(overdue) /\ history' \subseteq history
        /\ UNCHANGED <<sent, remaining, wire, received>>
    BY <2>1 DEF HandleAck, NewlyAcked, network
  <2> HIDE DEF overdue
  <2> QED BY <2>2, <2>3, <2>4, <1>1, EnqueueStep
<1>6. CASE Probe
  <2> DEFINE probed == history \ (acked \cup retransmitted \cup isRetransmit)
  <2>1. probed \subseteq Outstanding
    BY DEF Outstanding
  <2>2. Outstanding' = Outstanding \ ({} \cup probed)
    BY <1>6 DEF Probe, Outstanding
  <2>3. Enqueue(probed) /\ history' = history
        /\ UNCHANGED <<sent, remaining, wire, received>>
    BY <1>6 DEF Probe, network
  <2>4. {} \in SUBSET received
    OBVIOUS
  <2> HIDE DEF probed
  <2> QED BY <2>1, <2>2, <2>3, <2>4, <1>1, EnqueueStep
<1>7. CASE GiveUp \/ FlushLock \/ Close \/ RunExit \/ PeerDies
  BY <1>7, <1>1, FrameStep DEF GiveUp, FlushLock, Close, RunExit, PeerDies, network
<1>8. ASSUME NEW pn \in PN, FlushOne(pn) PROVE IInv'
  <2>1. CASE SkipInitial(pn)
    BY <2>1, <1>1, SkipInitialStep
  <2>2. CASE Retransmit(pn)
    BY <2>2, <1>1, RetransmitStep
  <2>3. CASE RetransmitFails(pn)
    <3>1. \A q \in PN : Copies(q)' = Copies(q)
      <4>1. \A q \in PN : retransmitQueue[q] \in Nat /\ remaining[q] \in Nat
        BY DEF IInv, TypeOK
      <4>2. \A q \in PN : remaining'[q] = IF q = pn THEN remaining[q] + 1 ELSE remaining[q]
        BY <2>3 DEF RetransmitFails, IInv, TypeOK
      <4>3. \A q \in PN : retransmitQueue'[q] =
                           IF q = pn THEN retransmitQueue[q] - 1 ELSE retransmitQueue[q]
        BY <2>3, DequeueCopies DEF RetransmitFails
      <4> QED BY <4>1, <4>2, <4>3 DEF Copies
    <3>2. sendPN' >= sendPN
      BY <2>3 DEF RetransmitFails, IInv, TypeOK
    <3> QED BY <2>3, <3>1, <3>2, <1>1, SameCopiesStep DEF RetransmitFails, network
  <2> QED BY <1>8, <2>1, <2>2, <2>3 DEF FlushOne
<1>9. CASE FlushEnd
  <2>1. \A q \in PN : Copies(q)' = Copies(q)
    BY <1>9, EmptyQueue DEF FlushEnd, Copies, IInv, TypeOK
  <2> QED BY <1>9, <2>1, <1>1, SameCopiesStep DEF FlushEnd, sent, network, IInv, TypeOK
<1>10. ASSUME NEW pn \in PN, Deliver(pn) \/ Lose(pn) PROVE IInv'
  BY <1>10, <1>1, FrameStep DEF Deliver, Lose
<1>11. CASE UNCHANGED vars
  BY <1>11, <1>1, FrameStep DEF vars, network
<1> QED BY <1>2, <1>3, <1>4, <1>5, <1>6, <1>7, <1>8, <1>9, <1>10, <1>11 DEF Next

(* The inductive invariant holds in every reachable state. *)
THEOREM Invariance == Spec => []IInv
  BY InitInv, StepInv, PTL DEF Spec

(* Type correctness of the model of conn.go's sent-packet bookkeeping.     *)
THEOREM TypeCorrect == Spec => []TypeOK
<1>1. IInv => TypeOK
  BY DEF IInv
<1> QED BY <1>1, Invariance, PTL

(* Whatever sendFrame has put in the history reaches the peer or is still  *)
(* carried by a tracked or queued packet: handleAckFrame, checkPTO, the    *)
(* compaction and the flush never drop the last copy, even if writes fail. *)
THEOREM NothingForgotten == Spec => []NoPayloadForgotten
<1>1. IInv => NoPayloadForgotten
  BY DEF IInv
<1> QED BY <1>1, Invariance, PTL

(* No payload is ever queued twice or queued while outstanding: the flag   *)
(* "retransmitted" of sentPacket does what its comment says.               *)
THEOREM SingleCarrier == Spec => []OneCarrier
<1>1. IInv => OneCarrier
  BY DEF IInv
<1> QED BY <1>1, Invariance, PTL

-----------------------------------------------------------------------------
(* bytesInFlight.  Live is what it should count.                           *)
Live == history \ (acked \cup lost)
Writers == {s \in Senders : senderPC[s] = "writing"}
Accounted == IInv /\ QueueIsLost /\ CountIsExact

LEMMA WritersCounted ==
  ASSUME Locking
  PROVE  /\ sendMu \notin Senders => Writers = {} /\ Cardinality(Writers) = 0
         /\ sendMu \in Senders => Writers = {sendMu} /\ Cardinality(Writers) = 1
<1>1. sendMu \notin Senders => Writers = {}
  BY DEF Locking, Writers
<1>2. sendMu \in Senders => Writers = {sendMu}
  BY DEF Locking, Writers
<1> QED BY <1>1, <1>2, FS_EmptySet, FS_Singleton

(* The same in the next state. *)
LEMMA WritersCountedNext ==
  ASSUME Locking'
  PROVE  /\ sendMu' \notin Senders => Cardinality(Writers') = 0
         /\ sendMu' \in Senders => Cardinality(Writers') = 1
<1>1. sendMu' \notin Senders => Writers' = {}
  BY DEF Locking, Writers
<1>2. sendMu' \in Senders => Writers' = {sendMu'}
  BY DEF Locking, Writers
<1> QED BY <1>1, <1>2, FS_EmptySet, FS_Singleton

(* A step that changes neither the live packets nor the writers.           *)
LEMMA SameLive ==
  ASSUME Accounted, IInv', QueueIsLost', Live' = Live, Writers' = Writers,
         inFlight' = inFlight
  PROVE  Accounted'
  BY DEF Accounted, CountIsExact, Live, Writers

LEMMA LiveFinite ==
  ASSUME TypeOK
  PROVE  IsFiniteSet(Live) /\ Cardinality(Live) \in Nat /\ Live \subseteq PN
<1>1. Live \in SUBSET PN
  BY DEF TypeOK, Live
<1> QED BY <1>1, CardinalityOfPNs

(* HandleAck and Probe, which run only when every lost packet is marked    *)
(* acknowledged: they take disjoint sets of live packets out of flight.    *)
LEMMA EnqueueAccounted ==
  ASSUME Accounted, IInv', NEW ackedLive \in SUBSET Live, NEW pns \in SUBSET Live,
         ackedLive \cap pns = {}, runPC = "select", Enqueue(pns),
         Live' = Live \ (ackedLive \cup pns),
         history' \subseteq history, lost' \ acked' = pns, pns \subseteq history',
         UNCHANGED <<remaining, senderPC>>,
         inFlight' = inFlight - Cardinality(ackedLive) - Cardinality(pns)
  PROVE  Accounted'
<1>1. /\ IsFiniteSet(Live) /\ Cardinality(Live) \in Nat /\ Live \subseteq PN
      /\ inFlight \in Int
  BY LiveFinite DEF Accounted, IInv, TypeOK
<1>2. /\ IsFiniteSet(ackedLive) /\ Cardinality(ackedLive) \in Nat
      /\ IsFiniteSet(pns) /\ Cardinality(pns) \in Nat
  BY <1>1, CardinalityOfPNs
<1>3. Cardinality(Live') = Cardinality(Live) - Cardinality(ackedLive) - Cardinality(pns)
  <2>1. IsFiniteSet(ackedLive \cup pns)
        /\ Cardinality(ackedLive \cup pns) = Cardinality(ackedLive) + Cardinality(pns)
    <3>1. Cardinality(ackedLive \cap pns) = 0
      BY FS_EmptySet
    <3>2. /\ IsFiniteSet(ackedLive \cup pns)
          /\ Cardinality(ackedLive \cup pns) =
               Cardinality(ackedLive) + Cardinality(pns) - Cardinality(ackedLive \cap pns)
      BY <1>2, FS_Union, Zenon
    <3> QED BY <1>2, <3>1, <3>2
  <2>2. Live \cap (ackedLive \cup pns) = ackedLive \cup pns
    OBVIOUS
  <2>3. Cardinality(Live \ (ackedLive \cup pns)) =
          Cardinality(Live) - Cardinality(Live \cap (ackedLive \cup pns))
    BY <1>1, FS_Difference, Zenon
  <2>4. Cardinality(Live') = Cardinality(Live) - Cardinality(ackedLive \cup pns)
    BY <2>2, <2>3, Zenon
  <2> QED BY <1>1, <1>2, <2>1, <2>4
<1>4. Writers' = Writers
  BY DEF Writers
<1>5. Cardinality(Writers) \in Nat
  BY WritersCounted DEF Accounted, IInv
<1>6. CountIsExact'
  <2>1. inFlight + Cardinality(Writers) = Cardinality(Live)
    BY DEF Accounted, CountIsExact, Live, Writers
  <2>2. inFlight' + Cardinality(Writers') = Cardinality(Live')
    BY <1>1, <1>2, <1>3, <1>4, <1>5, <2>1
  <2> QED BY <2>2 DEF CountIsExact, Live, Writers
<1>7. QueueIsLost'
  <2>1. retransmitQueue = EmptyBag /\ remaining = EmptyBag
    BY DEF Accounted, QueueIsLost
  <2>2. \A pn \in PN : Copies(pn)' = IF pn \in pns THEN 1 ELSE 0
    BY <2>1, EmptyQueue DEF Enqueue, Copies
  <2>3. history' \subseteq PN /\ runPC' \in {"select", "lock"}
    BY DEF Enqueue, IInv, TypeOK
  <2>4. runPC' = "select" => retransmitQueue' = EmptyBag
    BY DEF Enqueue
  <2> QED BY <2>1, <2>2, <2>3, <2>4 DEF QueueIsLost, EmptyBag
<1> QED BY <1>6, <1>7 DEF Accounted

(* The packet just tracked, or sent again, is one more live packet.        *)
LEMMA OneMoreLive ==
  ASSUME TypeOK, sendPN \notin Live, Live' = Live \cup {sendPN}
  PROVE  Cardinality(Live') = Cardinality(Live) + 1
<1>1. IsFiniteSet(Live)
  BY LiveFinite
<1>2. Cardinality(Live \cup {sendPN}) = Cardinality(Live) + 1
  BY <1>1, FS_AddElement
<1> QED BY <1>2

(* Failed writes are counted by the flush alone.                           *)
LEMMA FailuresCounted ==
  ASSUME TypeOK, [Next]_vars, failures' = 0
  PROVE  failures = 0 /\ \A pn \in PN : ~RetransmitFails(pn)
<1>1. failures \in Nat
  BY ConstantsAssumption DEF TypeOK
<1>2. \A pn \in PN : RetransmitFails(pn) => failures' # 0
  BY <1>1 DEF RetransmitFails
<1>3. (\A pn \in PN : ~RetransmitFails(pn)) => failures' = failures
  <2> SUFFICES ASSUME \A pn \in PN : ~RetransmitFails(pn) PROVE failures' = failures
    OBVIOUS
  <2>1. ASSUME NEW s \in Senders, SendFrame(s) PROVE failures' = failures
    BY <2>1 DEF SendFrame, CheckStream, CheckControl, RefuseStream, Track, WritePacket, network
  <2>2. CASE SendInitial \/ SendUntracked \/ ReceiveAck \/ Probe \/ GiveUp
    BY <2>2 DEF SendInitial, SendUntracked, ReceiveAck, HandleAck, Probe, GiveUp, network
  <2>3. ASSUME NEW pn \in PN, FlushOne(pn) PROVE failures' = failures
    BY <2>3 DEF FlushOne, SkipInitial, Retransmit, network
  <2>4. ASSUME NEW pn \in PN, Deliver(pn) \/ Lose(pn) PROVE failures' = failures
    BY <2>4 DEF Deliver, Lose
  <2>5. CASE FlushLock \/ FlushEnd \/ Close \/ RunExit \/ PeerDies \/ UNCHANGED vars
    BY <2>5 DEF FlushLock, FlushEnd, Close, RunExit, PeerDies, network, vars
  <2> QED BY <2>1, <2>2, <2>3, <2>4, <2>5 DEF Next
<1> QED BY <1>2, <1>3

LEMMA AccountingStep == failures' = 0 /\ Accounted /\ [Next]_vars => Accounted'
<1> SUFFICES ASSUME failures' = 0, Accounted, [Next]_vars PROVE Accounted'
  OBVIOUS
<1> USE ConstantsAssumption
<1>1. IInv /\ IInv' /\ TypeOK /\ Locking /\ Locking' /\ QueueIsLost /\ history' \subseteq PN
  BY StepInv DEF Accounted, IInv, TypeOK
<1>2. /\ Cardinality(Live) \in Nat /\ inFlight \in Int /\ Cardinality(Writers) \in Nat
      /\ inFlight + Cardinality(Writers) = Cardinality(Live)
  BY <1>1, LiveFinite, WritersCounted DEF Accounted, CountIsExact, Live, Writers, TypeOK
<1>3. ASSUME Cardinality(Live') = inFlight' + Cardinality(Writers')
      PROVE  CountIsExact'
  BY <1>3, <1>1, <1>2 DEF CountIsExact, Live, Writers, IInv, TypeOK
<1>4. sendPN < MaxPN => sendPN \in PN /\ Unused(sendPN) /\ sendPN \notin Live
  BY <1>1 DEF IInv, TypeOK, Numbering, Unused, PN, Live
<1>5. ASSUME NEW s \in Senders, SendFrame(s) PROVE Accounted'
  <2>1. CASE CheckStream(s) \/ CheckControl(s) \/ RefuseStream(s)
    <3>1. UNCHANGED <<history, flags, queue, inFlight, runPC>> /\ Writers' = Writers
      BY <2>1 DEF CheckStream, CheckControl, RefuseStream, Writers, TypeOK, Accounted, IInv
    <3> QED BY <3>1, <1>1, SameLive DEF Live, QueueIsLost, Copies, flags, queue
  <2>2. CASE Track(s)
    <3>1. Live' = Live \cup {sendPN} /\ inFlight' = inFlight /\ sendPN < MaxPN
      BY <2>2, <1>1, <1>4 DEF Track, Live, flags, TypeOK, Unused
    <3>2. sendMu \notin Senders /\ sendMu' \in Senders
      BY <2>2 DEF Track
    <3>3. Cardinality(Writers) = 0 /\ Cardinality(Writers') = 1
      BY <3>2, <1>1, WritersCounted, WritersCountedNext
    <3>4. QueueIsLost'
      BY <2>2, <1>1, <1>4 DEF Track, QueueIsLost, Copies, flags, queue, Unused, TypeOK
    <3> QED BY <3>1, <3>3, <3>4, <1>1, <1>2, <1>3, <1>4, OneMoreLive DEF Accounted
  <2>3. CASE WritePacket(s)
    <3>1. Live' = Live /\ inFlight' = inFlight + 1 /\ QueueIsLost'
      BY <2>3, <1>1 DEF WritePacket, Live, QueueIsLost, Copies, flags, queue
    <3>2. sendMu \in Senders /\ sendMu' \notin Senders
      BY <2>3, <1>1 DEF WritePacket, Locking
    <3>3. Cardinality(Writers) = 1 /\ Cardinality(Writers') = 0
      BY <3>2, <1>1, WritersCounted, WritersCountedNext
    <3> QED BY <3>1, <3>3, <1>1, <1>2, <1>3 DEF Accounted
  <2> QED BY <1>5, <2>1, <2>2, <2>3 DEF SendFrame
<1>6. CASE SendInitial
  <2>1. Live' = Live \cup {sendPN} /\ inFlight' = inFlight + 1 /\ sendPN < MaxPN
    BY <1>6, <1>1, <1>4 DEF SendInitial, Live, flags, TypeOK, Unused
  <2>2. Writers' = Writers
    BY <1>6 DEF SendInitial, Writers
  <2>3. QueueIsLost'
    BY <1>6, <1>1, <1>4 DEF SendInitial, QueueIsLost, Copies, flags, queue, Unused, TypeOK
  <2> QED BY <2>1, <2>2, <2>3, <1>1, <1>2, <1>3, <1>4, OneMoreLive DEF Accounted
<1>7. CASE ReceiveAck
  <2>1. PICK S \in SUBSET received \ {{}}, cutoff \in 0 .. sendPN : HandleAck(S, cutoff)
    BY <1>7 DEF ReceiveAck
  <2> DEFINE ackedNow == acked \cup (S \cap history)
             overdue  == OverdueAt(cutoff, ackedNow)
             ackedLive == (S \cap history) \ acked
  <2>2. runPC = "select" /\ lost \subseteq acked
    <3>1. runPC = "select"
      BY <2>1 DEF HandleAck, NewlyAcked
    <3>2. \A pn \in history : Copies(pn) = 0
      BY <3>1, <1>1, EmptyQueue DEF QueueIsLost, Copies, TypeOK
    <3> QED BY <3>1, <3>2, <1>1 DEF QueueIsLost, TypeOK
  <2>3. ackedLive \in SUBSET Live /\ overdue \in SUBSET Live /\ ackedLive \cap overdue = {}
    BY <2>2 DEF Live, OverdueAt
  <2>4. Live' = Live \ (ackedLive \cup overdue)
    BY <2>1, <2>2 DEF HandleAck, NewlyAcked, Live, OverdueAt
  <2>5. /\ history' \subseteq history /\ lost' \ acked' = overdue /\ overdue \subseteq history'
        /\ UNCHANGED <<remaining, senderPC>> /\ Enqueue(overdue)
    BY <2>1, <2>2 DEF HandleAck, NewlyAcked, OverdueAt
  <2>6. inFlight' = inFlight - Cardinality(ackedLive) - Cardinality(overdue)
    <3>1. overdue \ lost = overdue
      BY <2>2 DEF OverdueAt
    <3> QED BY <2>1, <3>1 DEF HandleAck, NewlyAcked
  <2> HIDE DEF ackedLive, overdue
  <2> QED BY <2>2, <2>3, <2>4, <2>5, <2>6, <1>1, EnqueueAccounted
<1>8. CASE Probe
  <2> DEFINE probed == history \ (acked \cup retransmitted \cup isRetransmit)
  <2>1. runPC = "select" /\ lost \subseteq acked
    <3>1. runPC = "select"
      BY <1>8 DEF Probe, PTOExpires
    <3>2. \A pn \in history : Copies(pn) = 0
      BY <3>1, <1>1, EmptyQueue DEF QueueIsLost, Copies, TypeOK
    <3> QED BY <3>1, <3>2, <1>1 DEF QueueIsLost, TypeOK
  <2>2. probed \in SUBSET Live /\ probed \ lost = probed
    BY <2>1 DEF Live
  <2>3. Live' = Live \ ({} \cup probed)
    BY <1>8, <2>1 DEF Probe, Live
  <2>4. /\ history' = history /\ lost' \ acked' = probed
        /\ UNCHANGED <<remaining, senderPC>> /\ Enqueue(probed)
    BY <1>8, <2>1 DEF Probe
  <2>5. inFlight' = inFlight - Cardinality({}) - Cardinality(probed)
    <3>1. Cardinality({}) = 0
      BY FS_EmptySet
    <3>2. Cardinality(probed) \in Nat
      BY <1>1, CardinalityOfPNs DEF TypeOK
    <3>3. inFlight' = inFlight - Cardinality(probed)
      BY <1>8, <2>2 DEF Probe
    <3> HIDE DEF probed
    <3> QED BY <3>1, <3>2, <3>3, <1>2
  <2>6. probed \subseteq history /\ {} \in SUBSET Live /\ {} \cap probed = {}
    OBVIOUS
  <2> HIDE DEF probed
  <2> QED BY <2>1, <2>2, <2>3, <2>4, <2>5, <2>6, <1>1, EnqueueAccounted
<1>9. CASE GiveUp \/ Close \/ PeerDies \/ UNCHANGED vars
  <2>1. UNCHANGED <<history, flags, queue, inFlight, senderPC, runPC>>
    BY <1>9 DEF GiveUp, Close, PeerDies, vars
  <2> QED BY <2>1, <1>1, SameLive DEF Live, Writers, QueueIsLost, Copies, flags, queue
<1>10. CASE SendUntracked
  BY <1>10, <1>1, SameLive DEF SendUntracked, Live, Writers, QueueIsLost, Copies, flags, queue
<1>11. CASE FlushLock \/ RunExit
  BY <1>11, <1>1, SameLive DEF FlushLock, RunExit, Live, Writers, QueueIsLost, Copies, flags, queue
<1>12. ASSUME NEW pn \in PN, FlushOne(pn) PROVE Accounted'
  <2>1. SkipInitial(pn) \/ Retransmit(pn)
    BY <1>12, <1>1, FailuresCounted DEF FlushOne
  <2>2. /\ Copies(pn) = 1 /\ remaining' = remaining
        /\ \A q \in PN : Copies(q)' = IF q = pn THEN 0 ELSE Copies(q)
    BY <2>1, <1>1, DequeueCopies DEF SkipInitial, Retransmit
  <2>3. pn \in history => pn \in lost \ acked
    BY <2>2, <1>1 DEF QueueIsLost
  <2>4. Writers' = Writers
    BY <2>1 DEF SkipInitial, Retransmit, Writers
  <2>5. CASE SkipInitial(pn)
    <3>1. Live' = Live /\ inFlight' = inFlight
      BY <2>5, <2>3 DEF SkipInitial, Live
    <3>2. QueueIsLost'
      BY <2>5, <2>2, <1>1 DEF SkipInitial, Dequeue, QueueIsLost, TypeOK
    <3> QED BY <3>1, <3>2, <2>4, <1>1, SameLive
  <2>6. CASE Retransmit(pn)
    <3>1. Live' = Live \cup {sendPN} /\ inFlight' = inFlight + 1 /\ sendPN < MaxPN
      BY <2>6, <2>3, <1>1, <1>4 DEF Retransmit, Live, TypeOK, Unused
    <3>2. QueueIsLost'
      BY <2>6, <2>2, <1>1, <1>4 DEF Retransmit, Dequeue, QueueIsLost, TypeOK, Unused
    <3> QED BY <3>1, <3>2, <2>4, <1>1, <1>2, <1>3, <1>4, OneMoreLive DEF Accounted
  <2> QED BY <2>1, <2>5, <2>6
<1>13. CASE FlushEnd
  <2>1. \A q \in PN : Copies(q)' = Copies(q)
    BY <1>13, <1>1, EmptyQueue DEF FlushEnd, Copies, TypeOK
  <2>2. QueueIsLost'
    BY <1>13, <2>1, <1>1 DEF FlushEnd, QueueIsLost, flags
  <2> QED BY <1>13, <2>2, <1>1, SameLive DEF FlushEnd, Live, Writers, flags
<1>14. ASSUME NEW pn \in PN, Deliver(pn) \/ Lose(pn) PROVE Accounted'
  BY <1>14, <1>1, SameLive DEF Deliver, Lose, Live, Writers, QueueIsLost, Copies, flags, queue
<1> QED BY <1>5, <1>6, <1>7, <1>8, <1>9, <1>10, <1>11, <1>12, <1>13, <1>14 DEF Next

(* As long as no write of a retransmission fails, the controller's         *)
(* bytesInFlight is exactly what is tracked and neither acknowledged nor   *)
(* declared lost: losses, spurious retransmissions and late ACKs leak      *)
(* nothing from the window and count nothing twice.                        *)
THEOREM InFlightExact == Spec => []InFlightMatches
<1> DEFINE Inv == IInv /\ (failures = 0 => Accounted)
<1>1. Init => Inv
  <2> SUFFICES ASSUME Init PROVE Accounted
    BY DEF Accounted
  <2>1. Live = {} /\ Writers = {}
    BY DEF Init, Live, Writers
  <2>2. CountIsExact
    BY <2>1, FS_EmptySet DEF Init, CountIsExact, Live, Writers
  <2>3. QueueIsLost
    BY DEF Init, QueueIsLost
  <2> QED BY <2>2, <2>3, InitInv DEF Accounted
<1>2. Inv /\ [Next]_vars => Inv'
  <2> SUFFICES ASSUME Inv, [Next]_vars PROVE Inv'
    OBVIOUS
  <2>1. IInv' /\ TypeOK
    BY StepInv DEF IInv
  <2>2. failures' = 0 => Accounted'
    BY <2>1, AccountingStep, FailuresCounted
  <2> QED BY <2>1, <2>2
<1>3. Inv => InFlightMatches
  BY DEF Accounted, InFlightMatches
<1> QED BY <1>1, <1>2, <1>3, PTL DEF Spec
=============================================================================
