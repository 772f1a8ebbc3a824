----------------------- MODULE AcknowledgementProofs -----------------------
(***************************************************************************)
(* What the peer takes for acknowledged has arrived (Acknowledgement.tla), *)
(* for every size of the record, the frames and the number windows, as     *)
(* long as no packet arrives later than half a window behind the largest.  *)
(* And the ranges that buildAckRanges makes of the record, by sorting and  *)
(* merging, are the ones the model sends, and the ones the peer reads.     *)
(***************************************************************************)
EXTENDS MCAcknowledgement, WireProofs, FiniteSetTheorems

(* The short header of a packet has room for its number, seen from any     *)
(* number that is not too far ahead.                                       *)
LEMMA LengthIsEnough ==
  ASSUME WithinHalfWindow, NEW pn \in 0 .. MaxPN - 1, NEW largest \in Nat,
         largest - pn <= MaxLate
  PROVE  HeaderLength(pn, 0) \in Lengths /\ Decodable(HeaderLength(pn, 0), largest, pn)
<1> DEFINE len == HeaderLength(pn, 0)
<1>1. \A l \in Lengths : Half(l) \in Nat
  BY WindowsAssumption DEF Half
<1>2. pn \in Nat /\ pn < MaxPN /\ MaxPN \in Nat /\ MaxLate \in Nat
  BY ConstantsAssumption
<1>3. Half(1) \in Nat /\ Half(2) \in Nat /\ Half(3) \in Nat /\ Half(4) \in Nat
  BY <1>1 DEF Lengths
<1>4. len \in Lengths /\ pn < Half(len)
  <2>1. pn < Half(4)
    BY <1>2, <1>3 DEF WithinHalfWindow
  <2> QED BY <1>2, <2>1, HeaderIsEnough
<1> HIDE DEF len
<1>5. MaxLate + 2 <= Half(len) /\ Half(len) \in Nat
  BY <1>1, <1>4 DEF WithinHalfWindow
<1>6. largest + 1 - Half(len) < pn /\ pn <= largest + 1 + Half(len)
  BY <1>2, <1>4, <1>5
<1> QED BY <1>4, <1>6 DEF len, Decodable

IInv == TypeOK /\ Recording

(* A short header is read as its own number, if it is not too late, and    *)
(* the zeros of the padding as 0.                                          *)
LEMMA ArrivalRead ==
  ASSUME WithinHalfWindow, IInv, NEW pn \in 0 .. sendPN - 1, Arrive(pn), NEW decoded \in Read(pn)
  PROVE  /\ decoded \in Nat
         /\ \/ pn \notin LongHeader /\ decoded = pn
            \/ pn \in MaxStreams /\ decoded = 0
<1>1. pn \in 0 .. MaxPN - 1 /\ pn \in Nat /\ pn < Limit
  BY ConstantsAssumption, WindowsAssumption DEF IInv, TypeOK
<1>2. largestRecvPN \in Nat /\ largestRecvPN - pn <= MaxLate
  <2>1. CASE largestRecvPN \in arrived
    BY <2>1 DEF IInv, TypeOK, Arrive
  <2>2. CASE largestRecvPN = 0
    BY <2>2, <1>1, ConstantsAssumption
  <2> QED BY <2>1, <2>2 DEF IInv, Recording, TypeOK
<1>3. CASE pn \notin LongHeader /\ pn \notin MaxStreams
  <2>1. HeaderLength(pn, 0) \in Lengths /\ Decodable(HeaderLength(pn, 0), largestRecvPN, pn)
    BY <1>1, <1>2, LengthIsEnough
  <2> DEFINE len == HeaderLength(pn, 0)
  <2>2. decoded = Decode(len, largestRecvPN, Truncate(len, pn))
    BY <1>3 DEF Read
  <2> HIDE DEF len
  <2>3. Decode(len, largestRecvPN, Truncate(len, pn)) = pn
    BY <1>1, <1>2, <2>1, DecodeExact DEF len
  <2> QED BY <1>1, <1>3, <2>2, <2>3
<1>4. CASE pn \in LongHeader
  <2>1. pn \in MaxStreams /\ decoded = Decode(4, largestRecvPN, 0)
    BY <1>4 DEF Read
  <2>2. Half(4) \in Nat /\ 4 \in Lengths /\ Windows[4] \in Nat /\ Windows[4] > 0
    BY WindowsAssumption DEF Half, Lengths
  <2>3. largestRecvPN < MaxPN /\ MaxPN \in Nat
    <3>1. MaxPN \in Nat /\ 0 < MaxPN
      BY <1>1, ConstantsAssumption
    <3>2. \A n \in arrived : n \in Nat /\ n < MaxPN
      BY ConstantsAssumption DEF IInv, TypeOK
    <3> QED BY <3>1, <3>2 DEF IInv, Recording
  <2>4. Decodable(4, largestRecvPN, 0)
    BY <1>2, <2>2, <2>3 DEF Decodable, WithinHalfWindow
  <2>5. Truncate(4, 0) = 0
    BY <2>2 DEF Truncate
  <2>6. 0 < Limit
    BY <1>1, WindowsAssumption
  <2>7. Decode(4, largestRecvPN, Truncate(4, 0)) = 0
    BY <1>2, <2>2, <2>4, <2>6, DecodeExact
  <2> QED BY <2>1, <2>5, <2>7
<1> QED BY <1>3, <1>4, ConstantsAssumption

(* recordReceivedPacket keeps within its limit and adds one number.        *)
LEMMA RecordedKeeps ==
  ASSUME NEW S \in SUBSET Nat, history \in Seq(Nat), Len(history) <= HistoryLimit,
         \A i \in 1 .. Len(history) : history[i] \in S,
         NEW pn \in S
  PROVE  /\ Recorded(pn) \in Seq(Nat)
         /\ Len(Recorded(pn)) <= HistoryLimit
         /\ \A i \in 1 .. Len(Recorded(pn)) : Recorded(pn)[i] \in S
<1> DEFINE longer == Append(history, pn)
<1>1. longer \in Seq(Nat) /\ Len(longer) = Len(history) + 1
  OBVIOUS
<1>2. \A i \in 1 .. Len(longer) : longer[i] \in S
  BY <1>1
<1>3. HistoryLimit \in Nat /\ HistoryDrop \in 1 .. HistoryLimit
  BY ConstantsAssumption
<1> HIDE DEF longer
<1>4. CASE Len(longer) > HistoryLimit
  <2>1. Recorded(pn) = SubSeq(longer, HistoryDrop + 1, Len(longer))
    BY <1>4 DEF Recorded, longer
  <2>2. Len(SubSeq(longer, HistoryDrop + 1, Len(longer))) = Len(longer) - HistoryDrop
    BY <1>1, <1>3, <1>4
  <2>3. SubSeq(longer, HistoryDrop + 1, Len(longer)) \in Seq(Nat)
    BY <1>1, <1>3, <1>4
  <2>4. \A i \in 1 .. Len(longer) - HistoryDrop :
           SubSeq(longer, HistoryDrop + 1, Len(longer))[i] = longer[HistoryDrop + i]
    BY <1>1, <1>3, <1>4
  <2>5. \A i \in 1 .. Len(longer) - HistoryDrop : HistoryDrop + i \in 1 .. Len(longer)
    BY <1>1, <1>3
  <2>6. Len(longer) - HistoryDrop <= HistoryLimit
    BY <1>1, <1>3
  <2> QED BY <1>2, <2>1, <2>2, <2>3, <2>4, <2>5, <2>6
<1>5. CASE ~(Len(longer) > HistoryLimit)
  <2>1. Recorded(pn) = longer
    BY <1>5 DEF Recorded, longer
  <2> QED BY <1>1, <1>2, <1>3, <1>5, <2>1
<1> QED BY <1>4, <1>5

LEMMA InitInv == Init => IInv
  BY ConstantsAssumption DEF Init, IInv, TypeOK, Recording

LEMMA SendIfNeededInv ==
  ASSUME IInv, SendAckIfNeeded, signals' \in 0 .. SignalCap
  PROVE  IInv'
<1> USE DEF IInv, TypeOK, Recording, SendAckIfNeeded, receiver
<1>1. AckAfter \in Nat /\ AckAfter > 0
  BY ConstantsAssumption
<1>2. Recent \subseteq Acknowledgeable /\ Recent \subseteq Nat
  BY DEF Recent
<1>3. \A r \in AckRanges(Recent) : r \in [smallest : Nat, largest : Nat]
                                   /\ Covered(r) \subseteq Recent
  BY <1>2 DEF AckRanges, Runs
<1>4. CASE ackCount + 1 >= AckAfter \/ delayOver
  <2>1. acks' = acks \cup {AckRanges(Recent)}
    BY <1>4
  <2>2. acks' \subseteq SUBSET [smallest : Nat, largest : Nat]
    <3>1. acks \subseteq SUBSET [smallest : Nat, largest : Nat]
      OBVIOUS
    <3>2. AckRanges(Recent) \subseteq [smallest : Nat, largest : Nat]
      BY <1>3
    <3> HIDE DEF IInv, TypeOK, Recording, SendAckIfNeeded
    <3> QED BY <2>1, <3>1, <3>2
  <2>3. \A a \in acks' : \A r \in a : Covered(r) \subseteq Acknowledgeable'
    <3>1. /\ Acknowledgeable' = Acknowledgeable
          /\ \A a \in acks : \A r \in a : Covered(r) \subseteq Acknowledgeable
      BY DEF Acknowledgeable
    <3> HIDE DEF IInv, TypeOK, Recording, SendAckIfNeeded
    <3> QED BY <2>1, <3>1, <1>2, <1>3
  <2>4. TypeOK'
    <3>1. ackCount' \in 0 .. AckAfter - 1
      <4>1. ackCount' = 0
        BY <1>4
      <4> QED BY <1>1, <4>1
    <3>2. delayOver' = FALSE
      BY <1>4
    <3>3. UNCHANGED <<sendPN, arrived, largestRecvPN, history, ackLosses, acked>>
      OBVIOUS
    <3> QED BY <2>2, <3>1, <3>3, <3>2
  <2>5. Recording'
    BY <2>3 DEF Acknowledgeable
  <2> QED BY <2>4, <2>5
<1>5. CASE ~(ackCount + 1 >= AckAfter \/ delayOver)
  BY <1>1, <1>5 DEF Acknowledgeable
<1> QED BY <1>4, <1>5

LEMMA StepInv ==
  ASSUME WithinHalfWindow, IInv, [Next]_vars
  PROVE  IInv'
<1>1. CASE Send
  BY <1>1, ConstantsAssumption
  DEF Send, IInv, TypeOK, Recording, receiver, timing, Covered, Acknowledgeable
<1>2. ASSUME NEW pn \in 0 .. sendPN - 1, Arrive(pn) PROVE IInv'
  <2>1. /\ arrived' = arrived \cup {pn} /\ pn \in Nat
        /\ arrived' \subseteq 0 .. MaxPN - 1 /\ arrived' \subseteq 0 .. sendPN' - 1
    <3>1. arrived' = arrived \cup {pn} /\ sendPN' = sendPN
      BY <1>2 DEF Arrive
    <3>2. pn \in 0 .. MaxPN - 1 /\ pn \in Nat
      BY ConstantsAssumption DEF IInv, TypeOK
    <3> QED BY <3>1, <3>2 DEF IInv, TypeOK, Recording
  <2>2. Acknowledgeable \subseteq Acknowledgeable' /\ Acknowledgeable' \subseteq Nat
    <3>1. arrived \subseteq arrived' /\ arrived' \subseteq Nat
      BY <2>1
    <3>2. Acknowledgeable \subseteq Acknowledgeable'
      BY <3>1, Zenon DEF Acknowledgeable
    <3>3. Acknowledgeable' \subseteq arrived' \cup {0}
      BY DEF Acknowledgeable
    <3> QED BY <3>1, <3>2, <3>3
  <2>3. PICK n \in {largestRecvPN} \cup {d \in Read(pn) : d > largestRecvPN} : largestRecvPN' = n
    BY <1>2 DEF Arrive
  <2>4. largestRecvPN' \in (arrived' \ LongHeader) \cup {0}
    <3>1. CASE n \in Read(pn)
      BY <1>2, <2>1, <2>3, <3>1, ArrivalRead
    <3>2. CASE n = largestRecvPN
      BY <2>1, <2>3, <3>2 DEF IInv, Recording
    <3> QED BY <2>3, <3>1, <3>2
  <2>5. /\ history' \in Seq(Nat) /\ Len(history') <= HistoryLimit
        /\ \A i \in 1 .. Len(history') : history'[i] \in Acknowledgeable'
    <3>1. /\ history \in Seq(Nat) /\ Len(history) <= HistoryLimit
          /\ \A i \in 1 .. Len(history) : history[i] \in Acknowledgeable'
      BY <2>2 DEF IInv, TypeOK, Recording
    <3>2. CASE Read(pn) = {}
      BY <1>2, <3>1, <3>2 DEF Arrive
    <3>3. CASE Read(pn) # {}
      <4>1. PICK decoded \in Read(pn) : history' = Recorded(decoded)
        BY <1>2, <3>3 DEF Arrive
      <4>2. decoded \in Acknowledgeable'
        <5>1. (pn \notin LongHeader /\ decoded = pn) \/ (pn \in MaxStreams /\ decoded = 0)
          BY <1>2, <4>1, ArrivalRead
        <5> QED BY <2>1, <5>1 DEF Acknowledgeable
      <4>3. Acknowledgeable' \in SUBSET Nat
        BY <2>2
      <4> HIDE DEF IInv
      <4> QED BY <3>1, <4>1, <4>2, <4>3, RecordedKeeps
    <3> QED BY <3>2, <3>3
  <2>6. signals' \in 0 .. SignalCap
    BY <1>2, ConstantsAssumption DEF IInv, TypeOK, Arrive
  <2>7. UNCHANGED <<sendPN, ackCount, delayOver, acks, ackLosses, acked>>
    BY <1>2 DEF Arrive
  <2>8. largestRecvPN' \in Nat
    BY <2>1, <2>4
  <2>9. TypeOK'
    BY <2>1, <2>5, <2>6, <2>7, <2>8 DEF IInv, TypeOK
  <2>10. Recording'
    BY <2>1, <2>2, <2>4, <2>5, <2>7 DEF IInv, Recording, Covered
  <2> QED BY <2>9, <2>10 DEF IInv
<1>3. CASE OnSignal
  BY <1>3, SendIfNeededInv, ConstantsAssumption DEF OnSignal, IInv, TypeOK
<1>4. CASE OnTick
  BY <1>4, SendIfNeededInv DEF OnTick, IInv, TypeOK
<1>5. CASE DelayElapses
  BY <1>5 DEF DelayElapses, IInv, TypeOK, Recording, receiver, Covered, Acknowledgeable
<1>6. ASSUME NEW a \in acks, ReceiveAck(a) PROVE IInv'
  <2>1. acked' \subseteq 0 .. MaxPN - 1
    <3>1. 0 .. sendPN - 1 \subseteq 0 .. MaxPN - 1
      BY ConstantsAssumption DEF IInv, TypeOK
    <3>2. acked' \subseteq acked \cup (0 .. sendPN - 1)
      BY <1>6 DEF ReceiveAck
    <3> QED BY <3>1, <3>2 DEF IInv, TypeOK
  <2> QED BY <1>6, <2>1 DEF ReceiveAck, IInv, TypeOK, Recording, receiver, timing, Covered, Acknowledgeable
<1>7. ASSUME NEW a \in acks, LoseAck(a) PROVE IInv'
  BY <1>7, ConstantsAssumption
  DEF LoseAck, IInv, TypeOK, Recording, receiver, timing, Covered, Acknowledgeable
<1>8. CASE UNCHANGED vars
  BY <1>8 DEF vars, receiver, timing, IInv, TypeOK, Recording, Covered, Acknowledgeable
<1> QED BY <1>1, <1>2, <1>3, <1>4, <1>5, <1>6, <1>7, <1>8 DEF Next

(* Decoding, recording and reporting keep to numbers that arrived.         *)
THEOREM Invariance == ASSUME WithinHalfWindow PROVE Spec => []IInv
<1>1. IInv /\ [Next]_vars => IInv'
  BY StepInv
<1> QED BY InitInv, <1>1, PTL DEF Spec

(* Type correctness. *)
THEOREM TypeCorrect == ASSUME WithinHalfWindow PROVE Spec => []TypeOK
<1>1. IInv => TypeOK
  BY DEF IInv
<1> QED BY <1>1, Invariance, PTL

(* handleAckFrame never takes a packet with a short header for             *)
(* acknowledged that has not arrived, as long as none is later than half a *)
(* window; and of the Initials, none of which is recorded under its own    *)
(* number, only number 0, for a MAX_STREAMS frame that has arrived.        *)
THEOREM NoFalseAck == ASSUME WithinHalfWindow PROVE Spec => []AckedWereReceived
<1>1. Init => AckedWereReceived
  BY DEF Init, AckedWereReceived
<1>2. IInv /\ AckedWereReceived /\ [Next]_vars => AckedWereReceived'
  BY DEF IInv, Recording, AckedWereReceived, Acknowledgeable, Next, Send, Arrive, OnSignal, OnTick,
         SendAckIfNeeded, DelayElapses, ReceiveAck, LoseAck, receiver, timing, vars
<1> QED BY <1>1, <1>2, Invariance, PTL DEF Spec

-----------------------------------------------------------------------------
Numbered(n) == [1 .. n -> Nat]

LEMMA SwapKeeps ==
  ASSUME NEW n \in Nat, NEW s \in Numbered(n), NEW i \in 1 .. n, NEW j \in i .. n
  PROVE  /\ Exchange(s, i, j) \in Numbered(n)
         /\ \A k \in 1 .. n : k # i /\ k # j => Exchange(s, i, j)[k] = s[k]
         /\ \/ Exchange(s, i, j)[i] = s[i] /\ Exchange(s, i, j)[j] = s[j]
            \/ Exchange(s, i, j)[i] = s[j] /\ Exchange(s, i, j)[j] = s[i]
         /\ Exchange(s, i, j)[i] >= s[i] /\ Exchange(s, i, j)[i] >= Exchange(s, i, j)[j]
<1>1. s[i] \in Nat /\ s[j] \in Nat /\ j \in 1 .. n
  BY DEF Numbered
<1>2. CASE s[j] > s[i]
  <2>1. PICK e : e = Swap(s, i, j)
    OBVIOUS
  <2>2. e \in [1 .. n -> Nat] /\ \A k \in 1 .. n : e[k] = IF k = j THEN s[i] ELSE IF k = i THEN s[j] ELSE s[k]
    BY <1>1, <2>1 DEF Swap, Numbered
  <2>3. Exchange(s, i, j) = e
    BY <1>2, <2>1 DEF Exchange
  <2>4. e[i] = s[j] /\ e[j] = s[i]
    BY <1>1, <2>2
  <2> QED BY <1>1, <1>2, <2>2, <2>3, <2>4 DEF Numbered
<1>3. CASE ~(s[j] > s[i])
  BY <1>1, <1>3 DEF Exchange
<1> QED BY <1>2, <1>3

(* The turns of the inner loop, as a function of j. *)
LEMMA PassTurns ==
  ASSUME NEW n \in Nat, NEW s \in Numbered(n), NEW i \in 1 .. n, Len(s) = n
  PROVE  \E u : /\ u[i] = s /\ Pass(s, i) = u[n]
               /\ \A j \in i + 1 .. n : u[j] = Exchange(u[j - 1], i, j)
<1> DEFINE upTo == CHOOSE u : u = [j \in i .. n |-> IF j = i THEN s ELSE Exchange(u[j - 1], i, j)]
<1>1. PICK A : A = Numbered(n)
  OBVIOUS
<1>2. PICK step : step = [j \in i .. n |-> [x \in A |-> Exchange(x, i, j)]]
  OBVIOUS
<1>3. Looping(A, s, i, n, step)
  BY <1>1, <1>2, SwapKeeps DEF Looping
<1>4. PICK f : /\ f \in [i .. n -> A] /\ f[i] = s
               /\ \A j \in i + 1 .. n : f[j] = step[j][f[j - 1]]
  <2>1. i + (n - i) = n
    OBVIOUS
  <2>2. PICK f : Turns(A, s, i, step, n - i, f)
    BY <1>3, Loop
  <2> QED BY <2>1, <2>2 DEF Turns
<1>5. f = [j \in i .. n |-> IF j = i THEN s ELSE Exchange(f[j - 1], i, j)]
  <2>1. ASSUME NEW j \in i + 1 .. n PROVE f[j] = Exchange(f[j - 1], i, j)
    <3>1. j - 1 \in i .. n /\ j \in i .. n
      OBVIOUS
    <3>2. f[j - 1] \in A
      BY <1>4, <3>1
    <3>3. f[j] = step[j][f[j - 1]]
      BY <1>4
    <3>4. step[j] = [x \in A |-> Exchange(x, i, j)]
      BY <1>2, <3>1
    <3> QED BY <3>2, <3>3, <3>4
  <2>2. \A j \in i .. n : j = i \/ j \in i + 1 .. n
    OBVIOUS
  <2> QED BY <1>4, <2>1, <2>2
<1>6. upTo = [j \in i .. n |-> IF j = i THEN s ELSE Exchange(upTo[j - 1], i, j)]
  BY <1>5
<1>7. Pass(s, i) = upTo[n]
  BY DEF Pass
<1>8. PICK u : u = upTo
  OBVIOUS
<1>9. u = [j \in i .. n |-> IF j = i THEN s ELSE Exchange(u[j - 1], i, j)]
  BY <1>6, <1>8
<1>10. Pass(s, i) = u[n]
  BY <1>7, <1>8
<1>11. i \in i .. n /\ \A j \in i + 1 .. n : j \in i .. n /\ j # i
  OBVIOUS
<1>12. u[i] = s
  BY <1>9, <1>11
<1>13. ASSUME NEW j \in i + 1 .. n PROVE u[j] = Exchange(u[j - 1], i, j)
  BY <1>9, <1>11
<1> QED BY <1>10, <1>12, <1>13

(* What a pass from place i on has done when it has come to place j. *)
Passed(n, s, i, r, j) ==
    /\ r \in Numbered(n)
    /\ \A k \in 1 .. i - 1 : r[k] = s[k]
    /\ \A k \in i .. n : \E l \in i .. n : r[k] = s[l]
    /\ \A k \in i .. n : \E l \in i .. n : s[k] = r[l]
    /\ \A k \in i .. j : r[i] >= r[k]

(* A pass moves no number out of the places from i on, and brings the      *)
(* largest of these to place i.                                            *)
LEMMA PassKeeps ==
  ASSUME NEW n \in Nat, NEW s \in Numbered(n), NEW i \in 1 .. n, Len(s) = n
  PROVE  Passed(n, s, i, Pass(s, i), n)
<1>1. PICK u : /\ u[i] = s /\ Pass(s, i) = u[n]
               /\ \A j \in i + 1 .. n : u[j] = Exchange(u[j - 1], i, j)
  BY PassTurns
<1> DEFINE S == {k \in Nat : i + k <= n => Passed(n, s, i, u[i + k], i + k)}
<1>2. 0 \in S
  <2>1. s[i] \in Nat
    BY DEF Numbered
  <2>2. Passed(n, s, i, s, i)
    BY <2>1 DEF Passed
  <2>3. i + 0 = i
    OBVIOUS
  <2> QED BY <1>1, <2>2, <2>3
<1>3. ASSUME NEW k \in Nat, k \in S, i + (k + 1) <= n
      PROVE  Passed(n, s, i, u[i + (k + 1)], i + (k + 1))
  <2>1. PICK r : r = u[i + k]
    OBVIOUS
  <2>2. PICK j \in i + 1 .. n : j = i + (k + 1) /\ j - 1 = i + k
    BY <1>3
  <2>3. Passed(n, s, i, r, j - 1)
    BY <1>3, <2>1, <2>2
  <2>4. PICK e : e = Exchange(r, i, j)
    OBVIOUS
  <2>5. u[j] = e
    BY <1>1, <2>1, <2>2, <2>4
  <2>6. /\ r \in Numbered(n) /\ e \in Numbered(n)
        /\ \A m \in 1 .. n : m # i /\ m # j => e[m] = r[m]
        /\ \/ e[i] = r[i] /\ e[j] = r[j]
           \/ e[i] = r[j] /\ e[j] = r[i]
        /\ e[i] >= r[i] /\ e[i] >= e[j]
    <3>1. r \in Numbered(n) /\ j \in i .. n
      BY <2>3 DEF Passed
    <3> QED BY <2>4, <3>1, SwapKeeps
  <2>7. \A m \in 1 .. i - 1 : e[m] = s[m]
    BY <2>3, <2>6 DEF Passed
  <2>8. \A m \in i .. n : \E l \in i .. n : e[m] = r[l]
    BY <2>6
  <2>9. \A m \in i .. n : \E l \in i .. n : r[m] = e[l]
    BY <2>6
  <2>10. \A m \in i .. n : \E l \in i .. n : e[m] = s[l]
    <3>1. \A l \in i .. n : \E m \in i .. n : r[l] = s[m]
      BY <2>3 DEF Passed
    <3>2. ASSUME NEW m \in i .. n PROVE \E l \in i .. n : e[m] = s[l]
      <4>1. PICK l \in i .. n : e[m] = r[l]
        BY <2>8
      <4>2. PICK q \in i .. n : r[l] = s[q]
        BY <3>1
      <4> QED BY <4>1, <4>2
    <3> QED BY <3>2
  <2>11. \A m \in i .. n : \E l \in i .. n : s[m] = e[l]
    <3>1. \A l \in i .. n : \E m \in i .. n : s[l] = r[m]
      BY <2>3 DEF Passed
    <3>2. ASSUME NEW m \in i .. n PROVE \E l \in i .. n : s[m] = e[l]
      <4>1. PICK l \in i .. n : s[m] = r[l]
        BY <3>1
      <4>2. PICK q \in i .. n : r[l] = e[q]
        BY <2>9
      <4> QED BY <4>1, <4>2
    <3> QED BY <3>2
  <2>12. ASSUME NEW m \in i .. j PROVE e[i] >= e[m]
    <3>1. e[i] \in Nat /\ e[m] \in Nat /\ r[i] \in Nat /\ r[m] \in Nat
      BY <2>6 DEF Numbered
    <3>2. CASE m = i
      BY <3>1, <3>2
    <3>3. CASE m = j
      BY <2>6, <3>3
    <3>4. CASE m # i /\ m # j
      <4>1. m \in i .. j - 1 /\ m \in 1 .. n
        BY <3>4
      <4>2. r[i] >= r[m] /\ e[m] = r[m]
        BY <2>3, <2>6, <3>4, <4>1 DEF Passed
      <4> QED BY <2>6, <3>1, <4>2
    <3> QED BY <3>2, <3>3, <3>4
  <2>13. Passed(n, s, i, e, j)
    BY <2>6, <2>7, <2>10, <2>11, <2>12 DEF Passed
  <2> QED BY <2>2, <2>5, <2>13
<1>4. Nat \subseteq S
  <2>1. \A k \in Nat : k \in S => k + 1 \in S
    BY <1>3
  <2> HIDE DEF S
  <2> QED BY <1>2, <2>1, Induction
<1>5. n - i \in Nat /\ i + (n - i) = n
  OBVIOUS
<1>6. n - i \in S
  BY <1>4, <1>5
<1>7. Passed(n, s, i, u[n], n)
  BY <1>5, <1>6
<1> QED BY <1>1, <1>7

LEMMA NumberedSeq ==
  ASSUME NEW n \in Nat, NEW s \in Numbered(n)
  PROVE  s \in Seq(Nat) /\ Len(s) = n
<1>1. s \in Seq(Nat)
  BY SeqDef DEF Numbered
<1>2. DOMAIN s = 1 .. n
  BY DEF Numbered
<1> QED BY <1>1, <1>2, LenProperties

(* What the sort has done after the passes from 1 to i. *)
Sorted(n, pns, i, r) ==
    /\ r \in Numbered(n)
    /\ \A k \in 1 .. n : \E l \in 1 .. n : r[k] = pns[l]
    /\ \A k \in 1 .. n : \E l \in 1 .. n : pns[k] = r[l]
    /\ \A k \in 1 .. i, l \in 1 .. n : k <= l => r[k] >= r[l]

LEMMA SortTurns ==
  ASSUME NEW n \in Nat, NEW pns \in Numbered(n)
  PROVE  \E u : /\ u[0] = pns /\ SortPacketNumbers(pns) = u[n]
               /\ \A i \in 1 .. n : u[i] = Pass(u[i - 1], i)
<1> DEFINE after == CHOOSE u : u = [i \in 0 .. n |-> IF i = 0 THEN pns ELSE Pass(u[i - 1], i)]
<1>1. PICK A : A = Numbered(n)
  OBVIOUS
<1>2. PICK step : step = [i \in 0 .. n |-> [x \in A |-> IF i = 0 THEN x ELSE Pass(x, i)]]
  OBVIOUS
<1>3. Looping(A, pns, 0, n, step)
  <2>1. ASSUME NEW i \in 1 .. n, NEW x \in A PROVE Pass(x, i) \in A
    <3>1. Len(x) = n
      BY <1>1, NumberedSeq
    <3> QED BY <1>1, <3>1, PassKeeps DEF Passed
  <2>2. \A i \in 0 .. n : i = 0 \/ i \in 1 .. n
    OBVIOUS
  <2> QED BY <1>1, <1>2, <2>1, <2>2 DEF Looping
<1>4. PICK f : /\ f \in [0 .. n -> A] /\ f[0] = pns
               /\ \A i \in 1 .. n : f[i] = step[i][f[i - 1]]
  <2>1. 0 + (n - 0) = n /\ 0 + 1 = 1
    OBVIOUS
  <2>2. PICK f : Turns(A, pns, 0, step, n - 0, f)
    BY <1>3, Loop
  <2> QED BY <2>1, <2>2 DEF Turns
<1>5. f = [i \in 0 .. n |-> IF i = 0 THEN pns ELSE Pass(f[i - 1], i)]
  <2>1. ASSUME NEW i \in 1 .. n PROVE f[i] = Pass(f[i - 1], i)
    <3>1. i - 1 \in 0 .. n /\ i \in 0 .. n /\ i # 0
      OBVIOUS
    <3>2. f[i - 1] \in A
      BY <1>4, <3>1
    <3>3. f[i] = step[i][f[i - 1]]
      BY <1>4
    <3>4. step[i] = [x \in A |-> Pass(x, i)]
      BY <1>2, <3>1
    <3> QED BY <3>2, <3>3, <3>4
  <2>2. \A i \in 0 .. n : i = 0 \/ i \in 1 .. n
    OBVIOUS
  <2> QED BY <1>4, <2>1, <2>2
<1>6. after = [i \in 0 .. n |-> IF i = 0 THEN pns ELSE Pass(after[i - 1], i)]
  BY <1>5
<1>7. SortPacketNumbers(pns) = after[n]
  BY NumberedSeq DEF SortPacketNumbers
<1>8. PICK u : u = after
  OBVIOUS
<1>9. u = [i \in 0 .. n |-> IF i = 0 THEN pns ELSE Pass(u[i - 1], i)]
  BY <1>6, <1>8
<1>10. SortPacketNumbers(pns) = u[n]
  BY <1>7, <1>8
<1>11. u[0] = pns /\ \A i \in 1 .. n : u[i] = Pass(u[i - 1], i)
  <2>1. 0 \in 0 .. n /\ \A i \in 1 .. n : i \in 0 .. n /\ i # 0
    OBVIOUS
  <2> QED BY <1>9, <2>1
<1> QED BY <1>10, <1>11

(* sortPacketNumbers puts the largest first and keeps the set of numbers. *)
LEMMA SortKeeps ==
  ASSUME NEW n \in Nat, NEW pns \in Numbered(n)
  PROVE  Sorted(n, pns, n, SortPacketNumbers(pns))
<1>1. PICK u : /\ u[0] = pns /\ SortPacketNumbers(pns) = u[n]
               /\ \A i \in 1 .. n : u[i] = Pass(u[i - 1], i)
  BY SortTurns
<1> DEFINE S == {i \in Nat : i <= n => Sorted(n, pns, i, u[i])}
<1>2. 0 \in S
  <2>1. Sorted(n, pns, 0, pns)
    BY DEF Sorted
  <2> QED BY <1>1, <2>1
<1>3. ASSUME NEW m \in Nat, m \in S, m + 1 <= n
      PROVE  Sorted(n, pns, m + 1, u[m + 1])
  <2>1. PICK i \in 1 .. n : i = m + 1 /\ i - 1 = m
    BY <1>3
  <2>2. PICK r : r = u[m]
    OBVIOUS
  <2>3. Sorted(n, pns, m, r)
    BY <1>3, <2>2
  <2>4. PICK e : e = Pass(r, i)
    OBVIOUS
  <2>5. u[i] = e
    BY <1>1, <2>1, <2>2, <2>4
  <2>6. Passed(n, r, i, e, n)
    <3>1. r \in Numbered(n)
      BY <2>3 DEF Sorted
    <3>2. Len(r) = n
      BY <3>1, NumberedSeq
    <3> QED BY <2>4, <3>1, <3>2, PassKeeps
  <2>7. \A k \in 1 .. n : k \in 1 .. i - 1 \/ k \in i .. n
    OBVIOUS
  <2>8. \A k \in 1 .. i - 1 : k \in 1 .. n
    OBVIOUS
  <2>9. \A k \in i .. n : k \in 1 .. n
    OBVIOUS
  <2>10. \A k \in 1 .. n : \E l \in 1 .. n : e[k] = r[l] /\ (k \in i .. n => l \in i .. n)
    <3>1. ASSUME NEW k \in 1 .. i - 1 PROVE k \notin i .. n /\ e[k] = r[k]
      BY <2>6 DEF Passed
    <3>2. ASSUME NEW k \in i .. n PROVE \E l \in i .. n : e[k] = r[l]
      BY <2>6 DEF Passed
    <3> QED BY <2>7, <2>8, <2>9, <3>1, <3>2
  <2>11. \A k \in 1 .. n : \E l \in 1 .. n : r[k] = e[l]
    <3>1. ASSUME NEW k \in 1 .. i - 1 PROVE e[k] = r[k]
      BY <2>6 DEF Passed
    <3>2. ASSUME NEW k \in i .. n PROVE \E l \in i .. n : r[k] = e[l]
      BY <2>6 DEF Passed
    <3> QED BY <2>7, <2>8, <2>9, <3>1, <3>2
  <2>12. ASSUME NEW k \in 1 .. n PROVE \E l \in 1 .. n : e[k] = pns[l]
    <3>1. PICK q \in 1 .. n : e[k] = r[q]
      BY <2>10
    <3>2. PICK l \in 1 .. n : r[q] = pns[l]
      BY <2>3 DEF Sorted
    <3> QED BY <3>1, <3>2
  <2>13. ASSUME NEW k \in 1 .. n PROVE \E l \in 1 .. n : pns[k] = e[l]
    <3>1. PICK q \in 1 .. n : pns[k] = r[q]
      BY <2>3 DEF Sorted
    <3>2. PICK l \in 1 .. n : r[q] = e[l]
      BY <2>11
    <3> QED BY <3>1, <3>2
  <2>14. ASSUME NEW k \in 1 .. i, NEW l \in 1 .. n, k <= l PROVE e[k] >= e[l]
    <3>1. CASE k = i
      <4>1. l \in i .. n
        BY <2>14, <3>1
      <4> QED BY <2>6, <3>1, <4>1 DEF Passed
    <3>2. CASE k # i
      <4>1. k \in 1 .. i - 1 /\ k \in 1 .. m
        BY <2>1, <3>2
      <4>2. PICK q \in 1 .. n : e[l] = r[q] /\ (l \in i .. n => q \in i .. n)
        BY <2>10
      <4>3. e[k] = r[k]
        BY <2>6, <4>1 DEF Passed
      <4>4. CASE l \in i .. n
        <5>1. k <= q
          BY <4>1, <4>2, <4>4
        <5> QED BY <2>3, <4>1, <4>2, <4>3, <5>1 DEF Sorted
      <4>5. CASE l \in 1 .. i - 1
        <5>1. e[l] = r[l]
          BY <2>6, <4>5 DEF Passed
        <5> QED BY <2>3, <2>14, <4>1, <4>3, <5>1 DEF Sorted
      <4> QED BY <2>7, <4>4, <4>5
    <3> QED BY <3>1, <3>2
  <2>15. e \in Numbered(n)
    BY <2>6 DEF Passed
  <2>16. Sorted(n, pns, i, e)
    BY <2>12, <2>13, <2>14, <2>15 DEF Sorted
  <2> QED BY <2>1, <2>5, <2>16
<1>4. Nat \subseteq S
  <2>1. \A i \in Nat : i \in S => i + 1 \in S
    BY <1>3
  <2> HIDE DEF S
  <2> QED BY <1>2, <2>1, Induction
<1> QED BY <1>1, <1>4

-----------------------------------------------------------------------------
(* The numbers that a list of ranges tells of. *)
Told(ranges) == UNION {Covered(ranges[i]) : i \in 1 .. Len(ranges)}

(* Adding a range at the end of such a list. *)
LEMMA AppendRange ==
  ASSUME NEW ranges \in Seq(Ranges), Separated(ranges),
         NEW r \in Ranges, r.smallest <= r.largest,
         \A i \in 1 .. Len(ranges) : i = Len(ranges) => ranges[i].smallest > r.largest + 1
  PROVE  /\ Append(ranges, r) \in Seq(Ranges) /\ Separated(Append(ranges, r))
         /\ Told(Append(ranges, r)) = Told(ranges) \cup Covered(r)
         /\ Last(Append(ranges, r)) = r
<1>1. PICK e : e = Append(ranges, r)
  OBVIOUS
<1>2. PICK n \in Nat : n = Len(ranges)
  BY LenProperties
<1>3. /\ e \in Seq(Ranges) /\ Len(e) = n + 1 /\ e[n + 1] = r
      /\ \A i \in 1 .. n : e[i] = ranges[i]
  BY <1>1, <1>2, AppendProperties
<1>4. Separated(e)
  <2>1. \A i \in 1 .. n + 1 : e[i].smallest <= e[i].largest
    BY <1>2, <1>3 DEF Separated
  <2>2. ASSUME NEW i \in 1 .. n, NEW j \in 1 .. n, i < j
        PROVE  e[i].smallest > e[j].largest + 1
    BY <1>2, <1>3, <2>2 DEF Separated
  <2>3. ASSUME NEW i \in 1 .. n PROVE e[i].smallest > r.largest + 1
    <3>1. n \in 1 .. n /\ ranges[n].smallest > r.largest + 1
      BY <1>2
    <3>2. i = n \/ ranges[i].smallest > ranges[n].largest + 1
      BY <1>2, <3>1 DEF Separated
    <3>3. ranges[n].smallest <= ranges[n].largest
      BY <1>2, <3>1 DEF Separated
    <3>4. PICK a \in Ranges, b \in Ranges : a = ranges[i] /\ b = ranges[n]
      BY <1>2, <3>1, ElementOfSeq
    <3>5. a.smallest > r.largest + 1
      <4>1. /\ a.smallest \in Nat /\ b.smallest \in Nat /\ b.largest \in Nat
            /\ r.largest \in Nat
        BY <3>4 DEF Ranges
      <4>2. b.smallest > r.largest + 1 /\ b.smallest <= b.largest
        BY <3>1, <3>3, <3>4
      <4>3. CASE i = n
        BY <3>1, <3>4, <4>3
      <4>4. CASE a.smallest > b.largest + 1
        BY <4>1, <4>2, <4>4
      <4> QED BY <3>2, <3>4, <4>3, <4>4
    <3> QED BY <1>3, <3>4, <3>5
  <2> QED BY <1>3, <2>1, <2>2, <2>3 DEF Separated
<1>5. Told(e) = Told(ranges) \cup Covered(r)
  <2>1. 1 .. n + 1 = (1 .. n) \cup {n + 1}
    OBVIOUS
  <2>2. Told(e) = UNION {Covered(e[i]) : i \in 1 .. n + 1}
    BY <1>3 DEF Told
  <2>3. Told(ranges) = UNION {Covered(ranges[i]) : i \in 1 .. n}
    BY <1>2 DEF Told
  <2> QED BY <1>3, <2>1, <2>2, <2>3
<1> QED BY <1>1, <1>3, <1>4, <1>5 DEF Last

(* Each turn of the loop of buildAckRanges, given the next smaller number  *)
(* (or the same again): the list stays separated and in order, and tells   *)
(* of this number and of what it told before, and of nothing else.  By     *)
(* induction over the sorted numbers, the frame tells of exactly these.    *)
THEOREM ExtendExact ==
  ASSUME NEW ranges \in Seq(Ranges), ranges # <<>>, Separated(ranges),
         NEW pn \in Nat, pn <= Last(ranges).smallest
  PROVE  /\ Extend(ranges, pn) \in Seq(Ranges) /\ Separated(Extend(ranges, pn))
         /\ Extend(ranges, pn) # <<>> /\ Last(Extend(ranges, pn)).smallest = pn
         /\ Told(Extend(ranges, pn)) = Told(ranges) \cup {pn}
<1>1. PICK n \in Nat \ {0} : n = Len(ranges)
  BY FrontKeeps
<1>2. PICK last \in Ranges : last = Last(ranges) /\ last = ranges[n]
  BY <1>1, FrontKeeps DEF Last
<1>3. PICK front \in Seq(Ranges) :
          /\ front = Front(ranges) /\ Len(front) = n - 1
          /\ \A i \in 1 .. n - 1 : front[i] = ranges[i]
  BY <1>1, FrontKeeps
<1>4. last.smallest \in Nat /\ last.largest \in Nat /\ last.smallest <= last.largest
  BY <1>1, <1>2 DEF Separated, Ranges
<1>5. Separated(front) /\ Told(ranges) = Told(front) \cup Covered(last)
  <2>1. Separated(front)
    <3>1. \A i \in 1 .. n - 1 : front[i].smallest <= front[i].largest
      BY <1>1, <1>3 DEF Separated
    <3>2. ASSUME NEW i \in 1 .. n - 1, NEW j \in 1 .. n - 1, i < j
          PROVE  front[i].smallest > front[j].largest + 1
      <4>1. i \in 1 .. n /\ j \in 1 .. n
        BY <1>1
      <4>2. ranges[i].smallest > ranges[j].largest + 1
        BY <1>1, <3>2, <4>1 DEF Separated
      <4> QED BY <1>3, <4>2
    <3> QED BY <1>3, <3>1, <3>2 DEF Separated
  <2>2. 1 .. n = (1 .. n - 1) \cup {n}
    BY <1>1
  <2>3. Told(ranges) = UNION {Covered(ranges[i]) : i \in 1 .. n}
    BY <1>1 DEF Told
  <2>4. Told(front) = UNION {Covered(front[i]) : i \in 1 .. n - 1}
    BY <1>3 DEF Told
  <2> QED BY <1>2, <1>3, <2>1, <2>2, <2>3, <2>4
<1>6. CASE pn = last.smallest - 1
  <2>1. PICK r : r = AckRange(pn, last.largest)
    OBVIOUS
  <2>2. r \in Ranges /\ r.smallest = pn /\ r.largest = last.largest
    BY <1>4, <2>1 DEF AckRange, Ranges
  <2>3. Extend(ranges, pn) = Append(front, r)
    BY <1>2, <1>3, <1>6, <2>1 DEF Extend
  <2>4. \A i \in 1 .. Len(front) : i = Len(front) => front[i].smallest > r.largest + 1
    BY <1>1, <1>2, <1>3, <2>2 DEF Separated
  <2>5. /\ Append(front, r) \in Seq(Ranges) /\ Separated(Append(front, r))
        /\ Told(Append(front, r)) = Told(front) \cup Covered(r)
        /\ Last(Append(front, r)) = r
    BY <1>4, <1>5, <1>6, <2>2, <2>4, AppendRange
  <2>6. Covered(r) = Covered(last) \cup {pn}
    BY <1>4, <1>6, <2>2 DEF Covered
  <2>7. Append(front, r) # <<>>
    BY <2>2, AppendProperties
  <2>8. Told(front) \cup Covered(r) = Told(ranges) \cup {pn}
    BY <1>5, <2>6
  <2> QED BY <2>2, <2>3, <2>5, <2>7, <2>8, Zenon
<1>7. CASE pn < last.smallest - 1
  <2>1. PICK r : r = AckRange(pn, pn)
    OBVIOUS
  <2>2. r \in Ranges /\ r.smallest = pn /\ r.largest = pn
    BY <2>1 DEF AckRange, Ranges
  <2>3. Extend(ranges, pn) = Append(ranges, r)
    BY <1>2, <1>4, <1>7, <2>1 DEF Extend
  <2>4. \A i \in 1 .. Len(ranges) : i = Len(ranges) => ranges[i].smallest > r.largest + 1
    BY <1>1, <1>2, <1>4, <1>7, <2>2
  <2>5. /\ Append(ranges, r) \in Seq(Ranges) /\ Separated(Append(ranges, r))
        /\ Told(Append(ranges, r)) = Told(ranges) \cup Covered(r)
        /\ Last(Append(ranges, r)) = r
    BY <2>2, <2>4, AppendRange
  <2>6. Covered(r) = {pn}
    BY <2>2 DEF Covered
  <2>7. Append(ranges, r) # <<>>
    BY <2>2, AppendProperties
  <2> QED BY <2>2, <2>3, <2>5, <2>6, <2>7, Zenon
<1>8. CASE pn = last.smallest
  <2>1. Extend(ranges, pn) = ranges
    <3>1. pn # last.smallest - 1 /\ ~(pn < last.smallest - 1)
      BY <1>4, <1>8
    <3> QED BY <1>2, <3>1 DEF Extend
  <2>2. pn \in Told(ranges)
    BY <1>4, <1>5, <1>8 DEF Covered
  <2> QED BY <1>2, <1>8, <2>1, <2>2
<1>9. pn <= last.smallest
  BY <1>2
<1> QED BY <1>4, <1>6, <1>7, <1>8, <1>9

(* In such a list stand the maximal runs of the numbers it tells of, and   *)
(* nothing else: the ranges buildAckRanges makes are the ones the model    *)
(* takes.                                                                  *)
THEOREM ListsAreRuns ==
  ASSUME NEW ranges \in Seq(Ranges), Separated(ranges)
  PROVE  {ranges[i] : i \in 1 .. Len(ranges)} = Runs(Told(ranges))
<1>1. PICK n \in Nat : n = Len(ranges)
  BY LenProperties
<1>2. PICK R : R = [i \in 1 .. n |-> ranges[i]]
  OBVIOUS
<1>3. /\ \A i \in 1 .. n : /\ R[i] = ranges[i]
                          /\ R[i] = [smallest |-> R[i].smallest, largest |-> R[i].largest]
                          /\ R[i].smallest \in Nat /\ R[i].largest \in Nat
                          /\ R[i].smallest <= R[i].largest
  <2>1. ASSUME NEW i \in 1 .. n
        PROVE  R[i] = ranges[i] /\ R[i] \in Ranges
    BY <1>1, <1>2, ElementOfSeq
  <2>2. ASSUME NEW i \in 1 .. n
        PROVE  R[i].smallest <= R[i].largest
    BY <1>1, <2>1 DEF Separated
  <2> QED BY <2>1, <2>2 DEF Ranges
<1>4. ASSUME NEW i \in 1 .. n, NEW j \in 1 .. n, i < j
      PROVE  R[i].smallest > R[j].largest + 1
  BY <1>1, <1>3, <1>4 DEF Separated
<1>5. PICK T : T = Told(ranges)
  OBVIOUS
<1>6. \A x : x \in T <=> \E i \in 1 .. n : x \in R[i].smallest .. R[i].largest
  BY <1>1, <1>3, <1>5 DEF Told, Covered
<1>7. ASSUME NEW i \in 1 .. n, NEW j \in 1 .. n, NEW x \in R[j].smallest .. R[j].largest
      PROVE  x # R[i].smallest - 1 /\ x # R[i].largest + 1
  <2>1. /\ R[i].smallest \in Nat /\ R[i].largest \in Nat
        /\ R[j].smallest \in Nat /\ R[j].largest \in Nat
        /\ R[i].smallest <= R[i].largest /\ R[j].smallest <= R[j].largest
    BY <1>3
  <2>2. CASE i = j
    BY <2>1, <2>2
  <2>3. CASE i < j
    <3>1. R[i].smallest > R[j].largest + 1
      BY <1>4, <2>3
    <3>2. ASSUME NEW a \in Nat, NEW b \in Nat, NEW c \in Nat, NEW d \in Nat,
                 a <= b, a > d + 1, NEW y \in c .. d
          PROVE  y # a - 1 /\ y # b + 1
      BY <3>2
    <3> QED BY <2>1, <3>1, <3>2
  <2>4. CASE j < i
    <3>1. R[j].smallest > R[i].largest + 1
      BY <1>4, <2>4
    <3>2. ASSUME NEW a \in Nat, NEW b \in Nat, NEW c \in Nat, NEW d \in Nat,
                 a <= b, c > b + 1, NEW y \in c .. d
          PROVE  y # a - 1 /\ y # b + 1
      BY <3>2
    <3> QED BY <2>1, <3>1, <3>2
  <2> QED BY <2>2, <2>3, <2>4
<1>8. ASSUME NEW i \in 1 .. n PROVE R[i] \in Runs(T)
  <2>1. Covered(R[i]) \subseteq T
    BY <1>6 DEF Covered
  <2>2. /\ R[i].smallest \in R[i].smallest .. R[i].largest
        /\ R[i].largest \in R[i].smallest .. R[i].largest
    <3>1. PICK s \in Nat, l \in Nat : s = R[i].smallest /\ l = R[i].largest /\ s <= l
      BY <1>3
    <3>2. s \in s .. l /\ l \in s .. l
      BY <3>1
    <3> QED BY <3>1, <3>2
  <2>3. R[i].smallest \in T /\ R[i].largest \in T
    BY <1>6, <2>2
  <2>4. R[i].smallest - 1 \notin T /\ R[i].largest + 1 \notin T
    BY <1>6, <1>7
  <2>5. R[i] \in [smallest : T, largest : T]
    <3>1. R[i] = [smallest |-> R[i].smallest, largest |-> R[i].largest]
      BY <1>3
    <3> QED BY <2>3, <3>1
  <2>6. R[i].smallest <= R[i].largest
    BY <1>3
  <2> QED BY <2>1, <2>4, <2>5, <2>6 DEF Runs
<1>9. ASSUME NEW r \in Runs(T) PROVE \E i \in 1 .. n : r = R[i]
  <2>1. /\ r = [smallest |-> r.smallest, largest |-> r.largest]
        /\ r.smallest \in T /\ r.largest \in T /\ r.smallest <= r.largest
        /\ \A x \in r.smallest .. r.largest : x \in T
        /\ r.smallest - 1 \notin T /\ r.largest + 1 \notin T
    BY DEF Runs, Covered
  <2>2. PICK i \in 1 .. n : r.smallest \in R[i].smallest .. R[i].largest
    BY <1>6, <2>1
  <2>3. /\ R[i].smallest \in Nat /\ R[i].largest \in Nat
        /\ r.smallest \in Int /\ r.largest \in Int
    <3>1. PICK j \in 1 .. n : r.largest \in R[j].smallest .. R[j].largest
      BY <1>6, <2>1
    <3>2. /\ R[i].smallest \in Nat /\ R[i].largest \in Nat
          /\ R[j].smallest \in Nat /\ R[j].largest \in Nat
      BY <1>3
    <3> QED BY <2>2, <3>1, <3>2
  <2>4. r.smallest = R[i].smallest
    <3>1. SUFFICES ASSUME r.smallest > R[i].smallest PROVE FALSE
      BY <2>2, <2>3
    <3>2. r.smallest - 1 \in R[i].smallest .. R[i].largest
      BY <2>2, <2>3, <3>1
    <3> QED BY <1>6, <2>1, <3>2
  <2>5. r.largest <= R[i].largest
    <3>1. SUFFICES ASSUME r.largest > R[i].largest PROVE FALSE
      BY <2>3
    <3>2. R[i].largest + 1 \in r.smallest .. r.largest
      BY <2>2, <2>3, <3>1
    <3>3. PICK j \in 1 .. n : R[i].largest + 1 \in R[j].smallest .. R[j].largest
      BY <1>6, <2>1, <3>2
    <3> QED BY <1>7, <3>3
  <2>6. r.largest >= R[i].largest
    <3>1. SUFFICES ASSUME r.largest < R[i].largest PROVE FALSE
      BY <2>3
    <3>2. r.largest + 1 \in R[i].smallest .. R[i].largest
      BY <2>1, <2>3, <2>4, <3>1
    <3> QED BY <1>6, <2>1, <3>2
  <2>7. r.largest = R[i].largest
    BY <2>3, <2>5, <2>6
  <2> QED BY <1>3, <2>1, <2>4, <2>7
<1>10. {ranges[i] : i \in 1 .. n} = {R[i] : i \in 1 .. n}
  BY <1>3
<1>11. {R[i] : i \in 1 .. n} = Runs(T)
  BY <1>8, <1>9
<1> QED BY <1>1, <1>5, <1>10, <1>11

(* Cut after MaxRanges ranges, such a list is the ACK frame the model      *)
(* sends: of the runs, those with the largest numbers.                     *)
THEOREM CutExact ==
  ASSUME NEW ranges \in Seq(Ranges), Separated(ranges)
  PROVE  AckRanges(Told(ranges)) =
           {ranges[i] : i \in {j \in 1 .. Len(ranges) : j <= MaxRanges}}
<1>1. PICK n \in Nat : n = Len(ranges)
  BY LenProperties
<1>2. PICK R : R = [i \in 1 .. n |-> ranges[i]]
  OBVIOUS
<1>3. /\ \A i \in 1 .. n : /\ R[i] = ranges[i]
                          /\ R[i].smallest \in Nat /\ R[i].largest \in Nat
                          /\ R[i].smallest <= R[i].largest
  <2>1. ASSUME NEW i \in 1 .. n
        PROVE  R[i] = ranges[i] /\ R[i] \in Ranges
    BY <1>1, <1>2, ElementOfSeq
  <2>2. ASSUME NEW i \in 1 .. n
        PROVE  R[i].smallest <= R[i].largest
    BY <1>1, <2>1 DEF Separated
  <2> QED BY <2>1, <2>2 DEF Ranges
<1>4. ASSUME NEW i \in 1 .. n, NEW j \in 1 .. n, i < j
      PROVE  R[i].largest > R[j].largest
  <2>1. R[i].smallest > R[j].largest + 1
    BY <1>1, <1>3, <1>4 DEF Separated
  <2>2. /\ R[i].smallest \in Nat /\ R[i].largest \in Nat /\ R[j].largest \in Nat
        /\ R[i].smallest <= R[i].largest
    BY <1>3
  <2> QED BY <2>1, <2>2
<1>5. ASSUME NEW i \in 1 .. n, NEW j \in 1 .. n
      PROVE  R[j].largest > R[i].largest <=> j < i
  <2>1. R[i].largest \in Nat /\ R[j].largest \in Nat
    BY <1>3
  <2>2. CASE i < j
    BY <1>4, <2>1, <2>2
  <2>3. CASE j < i
    BY <1>4, <2>1, <2>3
  <2>4. CASE i = j
    BY <2>1, <2>4
  <2> QED BY <2>2, <2>3, <2>4
<1>6. PICK A : A = Runs(Told(ranges))
  OBVIOUS
<1>7. A = {R[i] : i \in 1 .. n}
  BY <1>1, <1>3, <1>6, ListsAreRuns
<1>8. ASSUME NEW i \in 1 .. n
      PROVE  Cardinality({q \in A : q.largest > R[i].largest}) = i - 1
  <2>1. PICK B : B = {q \in A : q.largest > R[i].largest}
    OBVIOUS
  <2>2. B = {R[j] : j \in 1 .. i - 1}
    BY <1>5, <1>7, <2>1
  <2>3. PICK f : f = [j \in 1 .. i - 1 |-> R[j]]
    OBVIOUS
  <2>4. f \in [1 .. i - 1 -> B]
    BY <2>2, <2>3
  <2>5. \A b \in B : \E j \in 1 .. i - 1 : f[j] = b
    BY <2>2, <2>3
  <2>6. ASSUME NEW j \in 1 .. i - 1, NEW k \in 1 .. i - 1, f[j] = f[k] PROVE j = k
    <3>1. R[j] = R[k] /\ R[j].largest \in Nat
      BY <1>3, <2>3, <2>6
    <3>2. ~(j < k) /\ ~(k < j)
      BY <1>5, <3>1
    <3> QED BY <3>2
  <2>7. f \in Bijection(1 .. i - 1, B)
    BY <2>4, <2>5, <2>6 DEF Bijection, Injection, Surjection, IsInjective
  <2>8. IsFiniteSet(1 .. i - 1) /\ Cardinality(1 .. i - 1) = i - 1
    <3>1. i - 1 \in Int /\ 1 \in Int /\ ~(1 > i - 1 /\ i - 1 # 0)
      OBVIOUS
    <3>2. CASE i = 1
      BY <3>1, <3>2, FS_Interval
    <3>3. CASE i > 1
      BY <3>1, <3>3, FS_Interval
    <3> QED BY <3>2, <3>3
  <2>9. Cardinality(B) = Cardinality(1 .. i - 1)
    BY <2>7, <2>8, FS_Bijection DEF ExistsBijection
  <2> QED BY <2>1, <2>8, <2>9
<1>9. AckRanges(Told(ranges)) =
        {r \in A : Cardinality({q \in A : q.largest > r.largest}) < MaxRanges}
  BY <1>6 DEF AckRanges
<1>10. \A i \in 1 .. n : i - 1 < MaxRanges <=> i <= MaxRanges
  BY ConstantsAssumption
<1>11. {ranges[i] : i \in {j \in 1 .. Len(ranges) : j <= MaxRanges}}
        = {R[i] : i \in {j \in 1 .. n : j <= MaxRanges}}
  BY <1>1, <1>3
<1>12. {r \in A : Cardinality({q \in A : q.largest > r.largest}) < MaxRanges}
        = {R[i] : i \in {j \in 1 .. n : j <= MaxRanges}}
  BY <1>7, <1>8, <1>10
<1> QED BY <1>9, <1>11, <1>12

(* A turn of the loop yields a list, whatever the order of the numbers.    *)
LEMMA ExtendTyped ==
  ASSUME NEW ranges \in Seq(Ranges), ranges # <<>>, NEW pn \in Nat
  PROVE  Extend(ranges, pn) \in Seq(Ranges) /\ Extend(ranges, pn) # <<>>
<1>1. PICK last \in Ranges : last = Last(ranges)
  BY FrontKeeps
<1>2. PICK front \in Seq(Ranges) : front = Front(ranges)
  BY FrontKeeps
<1>3. PICK r : r = AckRange(pn, last.largest)
  OBVIOUS
<1>4. PICK q : q = AckRange(pn, pn)
  OBVIOUS
<1>5. r \in Ranges /\ q \in Ranges
  BY <1>3, <1>4 DEF AckRange, Ranges
<1>6. /\ Append(front, r) \in Seq(Ranges) /\ Append(front, r) # <<>>
      /\ Append(ranges, q) \in Seq(Ranges) /\ Append(ranges, q) # <<>>
  BY <1>5, AppendProperties
<1>7. last.smallest \in Nat
  BY DEF Ranges
<1>8. CASE pn = last.smallest - 1
  BY <1>1, <1>2, <1>3, <1>6, <1>8 DEF Extend
<1>9. CASE pn < last.smallest - 1
  BY <1>1, <1>4, <1>6, <1>7, <1>9 DEF Extend
<1>10. CASE pn > last.smallest - 1
  <2>1. pn # last.smallest - 1 /\ ~(pn < last.smallest - 1)
    BY <1>7, <1>10
  <2> QED BY <1>1, <2>1 DEF Extend
<1> QED BY <1>7, <1>8, <1>9, <1>10

LEMMA RangesTurns ==
  ASSUME NEW n \in Nat \ {0}, NEW sorted \in Numbered(n)
  PROVE  \E u : /\ u[1] = <<AckRange(sorted[1], sorted[1])>> /\ RangesOf(sorted) = u[n]
               /\ \A i \in 2 .. n : u[i] = Extend(u[i - 1], sorted[i])
<1> DEFINE base == <<AckRange(sorted[1], sorted[1])>>
           after == CHOOSE u : u = [i \in 1 .. n |-> IF i = 1 THEN base
                                                     ELSE Extend(u[i - 1], sorted[i])]
<1>1. PICK A : A = {ranges \in Seq(Ranges) : ranges # <<>>}
  OBVIOUS
<1>2. PICK step : step = [i \in 1 .. n |-> [x \in A |-> Extend(x, sorted[i])]]
  OBVIOUS
<1>3. Looping(A, base, 1, n, step)
  <2>1. base \in A
    <3>1. sorted[1] \in Nat
      BY DEF Numbered
    <3>2. AckRange(sorted[1], sorted[1]) \in Ranges
      BY <3>1 DEF AckRange, Ranges
    <3> QED BY <1>1, <3>2
  <2>2. ASSUME NEW i \in 1 .. n, NEW x \in A PROVE Extend(x, sorted[i]) \in A
    <3>1. sorted[i] \in Nat
      BY DEF Numbered
    <3> QED BY <1>1, <3>1, ExtendTyped
  <2> HIDE DEF base
  <2> QED BY <1>2, <2>1, <2>2 DEF Looping
<1>4. PICK f : /\ f \in [1 .. n -> A] /\ f[1] = base
               /\ \A i \in 2 .. n : f[i] = step[i][f[i - 1]]
  <2>1. 1 + (n - 1) = n /\ 1 + 1 = 2
    OBVIOUS
  <2>2. PICK f : Turns(A, base, 1, step, n - 1, f)
    BY <1>3, Loop
  <2> HIDE DEF base
  <2> QED BY <2>1, <2>2 DEF Turns
<1>5. f = [i \in 1 .. n |-> IF i = 1 THEN base ELSE Extend(f[i - 1], sorted[i])]
  <2>1. ASSUME NEW i \in 2 .. n PROVE f[i] = Extend(f[i - 1], sorted[i])
    <3>1. i - 1 \in 1 .. n /\ i \in 1 .. n
      OBVIOUS
    <3>2. f[i - 1] \in A
      BY <1>4, <3>1
    <3>3. f[i] = step[i][f[i - 1]]
      BY <1>4
    <3>4. step[i] = [x \in A |-> Extend(x, sorted[i])]
      BY <1>2, <3>1
    <3> QED BY <3>2, <3>3, <3>4
  <2>2. \A i \in 1 .. n : i = 1 \/ i \in 2 .. n
    OBVIOUS
  <2> HIDE DEF base
  <2> QED BY <1>4, <2>1, <2>2
<1>6. after = [i \in 1 .. n |-> IF i = 1 THEN base ELSE Extend(after[i - 1], sorted[i])]
  BY <1>5
<1>7. RangesOf(sorted) = after[n]
  BY NumberedSeq DEF RangesOf
<1>8. PICK u : u = after
  OBVIOUS
<1>9. u = [i \in 1 .. n |-> IF i = 1 THEN base ELSE Extend(u[i - 1], sorted[i])]
  BY <1>6, <1>8
<1>10. RangesOf(sorted) = u[n]
  BY <1>7, <1>8
<1>11. u[1] = base /\ \A i \in 2 .. n : u[i] = Extend(u[i - 1], sorted[i])
  <2>1. 1 \in 1 .. n /\ \A i \in 2 .. n : i \in 1 .. n /\ i # 1
    OBVIOUS
  <2> HIDE DEF base
  <2> QED BY <1>9, <2>1
<1> QED BY <1>10, <1>11

(* What the loop has made of the first i numbers. *)
Gathered(ranges, sorted, i) ==
    /\ ranges \in Seq(Ranges) /\ ranges # <<>> /\ Separated(ranges)
    /\ Last(ranges).smallest = sorted[i]
    /\ Told(ranges) = {sorted[k] : k \in 1 .. i}

(* From numbers in descending order, the loop of buildAckRanges makes      *)
(* ranges that tell of exactly these numbers.                              *)
THEOREM RangesTold ==
  ASSUME NEW n \in Nat \ {0}, NEW sorted \in Numbered(n),
         \A k, l \in 1 .. n : k <= l => sorted[k] >= sorted[l]
  PROVE  Gathered(RangesOf(sorted), sorted, n)
<1>1. PICK u : /\ u[1] = <<AckRange(sorted[1], sorted[1])>> /\ RangesOf(sorted) = u[n]
               /\ \A i \in 2 .. n : u[i] = Extend(u[i - 1], sorted[i])
  BY RangesTurns
<1>2. \A i \in 1 .. n : sorted[i] \in Nat
  BY DEF Numbered
<1> DEFINE S == {i \in Nat : i + 1 <= n => Gathered(u[i + 1], sorted, i + 1)}
<1>3. 0 \in S
  <2>1. PICK x \in Nat : x = sorted[1]
    BY <1>2
  <2>2. PICK r : r = AckRange(x, x)
    OBVIOUS
  <2>3. r \in Ranges /\ r.smallest = x /\ r.largest = x
    BY <2>2 DEF AckRange, Ranges
  <2>4. PICK l : l = <<r>>
    OBVIOUS
  <2>5. l \in Seq(Ranges) /\ l # <<>> /\ Len(l) = 1 /\ l[1] = r
    BY <2>3, <2>4
  <2>6. Separated(l)
    BY <2>3, <2>5 DEF Separated
  <2>7. Last(l).smallest = x
    BY <2>3, <2>5 DEF Last
  <2>8. Told(l) = {x}
    <3>1. Covered(r) = {x}
      BY <2>3 DEF Covered
    <3>2. 1 .. 1 = {1}
      OBVIOUS
    <3> QED BY <2>5, <3>1, <3>2 DEF Told
  <2>9. {sorted[k] : k \in 1 .. 1} = {x}
    <3>1. 1 .. 1 = {1}
      OBVIOUS
    <3> QED BY <2>1, <3>1
  <2>10. Gathered(l, sorted, 1)
    BY <2>1, <2>5, <2>6, <2>7, <2>8, <2>9 DEF Gathered
  <2>11. u[1] = l
    BY <1>1, <2>1, <2>2, <2>4
  <2> QED BY <2>10, <2>11
<1>4. ASSUME NEW m \in Nat, m \in S, (m + 1) + 1 <= n
      PROVE  Gathered(u[(m + 1) + 1], sorted, (m + 1) + 1)
  <2>1. PICK i \in 2 .. n : i = (m + 1) + 1 /\ i - 1 = m + 1 /\ i - 1 \in 1 .. n /\ i \in 1 .. n
    BY <1>4
  <2>2. PICK r : r = u[m + 1]
    OBVIOUS
  <2>3. Gathered(r, sorted, i - 1)
    BY <1>4, <2>1, <2>2
  <2>4. PICK x \in Nat : x = sorted[i]
    BY <1>2, <2>1
  <2>5. x <= Last(r).smallest
    <3>1. sorted[i - 1] >= sorted[i] /\ Last(r).smallest = sorted[i - 1]
      BY <2>1, <2>3 DEF Gathered
    <3>2. sorted[i - 1] \in Nat
      BY <1>2, <2>1
    <3> QED BY <2>4, <3>1, <3>2
  <2>6. PICK e : e = Extend(r, x)
    OBVIOUS
  <2>7. u[i] = e
    BY <1>1, <2>1, <2>2, <2>4, <2>6
  <2>8. /\ e \in Seq(Ranges) /\ Separated(e) /\ e # <<>>
        /\ Last(e).smallest = x /\ Told(e) = Told(r) \cup {x}
    BY <2>3, <2>5, <2>6, ExtendExact DEF Gathered
  <2>9. Told(e) = {sorted[k] : k \in 1 .. i}
    <3>1. 1 .. i = (1 .. i - 1) \cup {i}
      BY <2>1
    <3>2. Told(r) = {sorted[k] : k \in 1 .. i - 1}
      BY <2>3 DEF Gathered
    <3> QED BY <2>4, <2>8, <3>1, <3>2
  <2>10. Gathered(e, sorted, i)
    BY <2>4, <2>8, <2>9 DEF Gathered
  <2> QED BY <2>1, <2>7, <2>10
<1>5. Nat \subseteq S
  <2>1. \A m \in Nat : m \in S => m + 1 \in S
    BY <1>4
  <2> HIDE DEF S
  <2> QED BY <1>3, <2>1, Induction
<1>6. n - 1 \in S /\ (n - 1) + 1 = n
  BY <1>5
<1>7. Gathered(u[n], sorted, n)
  BY <1>6
<1> QED BY <1>1, <1>7

(* buildAckRanges, by sorting and merging, and cut after MaxRanges, makes  *)
(* the ranges the model takes.                                             *)
LEMMA Built ==
  ASSUME NEW packets \in Seq(Nat), packets # <<>>
  PROVE  /\ BuildAckRanges(packets, MaxRanges) \in Seq(Ranges)
         /\ BuildAckRanges(packets, MaxRanges) # <<>>
         /\ Separated(BuildAckRanges(packets, MaxRanges))
         /\ ToSet(BuildAckRanges(packets, MaxRanges))
               = AckRanges({packets[i] : i \in 1 .. Len(packets)})
<1>1. PICK n \in Nat \ {0} : n = Len(packets)
  BY EmptySeq
<1>2. packets \in Numbered(n)
  BY <1>1, SeqDef, LenProperties DEF Numbered
<1>3. PICK sorted : sorted = SortPacketNumbers(packets)
  OBVIOUS
<1>4. Sorted(n, packets, n, sorted)
  <2>1. n \in Nat
    OBVIOUS
  <2> QED BY <1>2, <1>3, <2>1, SortKeeps
<1>5. {sorted[k] : k \in 1 .. n} = {packets[i] : i \in 1 .. Len(packets)}
  <2>1. \A k \in 1 .. n : \E l \in 1 .. n : sorted[k] = packets[l]
    BY <1>4 DEF Sorted
  <2>2. \A k \in 1 .. n : \E l \in 1 .. n : packets[k] = sorted[l]
    BY <1>4 DEF Sorted
  <2>3. {packets[i] : i \in 1 .. Len(packets)} = {packets[i] : i \in 1 .. n}
    BY <1>1
  <2>4. ASSUME NEW x \in {sorted[k] : k \in 1 .. n} PROVE x \in {packets[i] : i \in 1 .. n}
    <3>1. PICK k \in 1 .. n : x = sorted[k]
      OBVIOUS
    <3> QED BY <2>1, <3>1
  <2>5. ASSUME NEW x \in {packets[i] : i \in 1 .. n} PROVE x \in {sorted[k] : k \in 1 .. n}
    <3>1. PICK i \in 1 .. n : x = packets[i]
      OBVIOUS
    <3> QED BY <2>2, <3>1
  <2> QED BY <2>3, <2>4, <2>5
<1>6. PICK all : all = RangesOf(sorted)
  OBVIOUS
<1>7. Gathered(all, sorted, n)
  BY <1>4, <1>6, RangesTold DEF Sorted
<1>8. PICK m \in Nat \ {0} : m = Len(all)
  BY <1>7, EmptySeq DEF Gathered
<1>9. PICK k \in Nat \ {0} : k = (IF m > MaxRanges THEN MaxRanges ELSE m) /\ k <= m
  BY ConstantsAssumption
<1>10. PICK cut : cut = BuildAckRanges(packets, MaxRanges)
  OBVIOUS
<1>11. cut = SubSeq(all, 1, k)
  BY <1>3, <1>6, <1>8, <1>9, <1>10 DEF BuildAckRanges, Cut
<1>12. cut \in Seq(Ranges) /\ Len(cut) = k /\ \A i \in 1 .. k : cut[i] = all[i]
  <2>1. \A i \in 1 .. k : all[i] \in Ranges
    BY <1>7, <1>8, <1>9, ElementOfSeq DEF Gathered
  <2>2. /\ SubSeq(all, 1, k) \in Seq(Ranges)
        /\ Len(SubSeq(all, 1, k)) = IF 1 <= k THEN k - 1 + 1 ELSE 0
        /\ \A i \in 1 .. k - 1 + 1 : SubSeq(all, 1, k)[i] = all[1 + i - 1]
    BY <2>1, SubSeqProperties
  <2>3. k - 1 + 1 = k /\ 1 <= k /\ \A i \in 1 .. k : 1 + i - 1 = i
    OBVIOUS
  <2> QED BY <1>11, <2>2, <2>3
<1>13. cut # <<>>
  BY <1>12
<1>14. Separated(cut)
  <2>1. \A i \in 1 .. k : i \in 1 .. m
    BY <1>9
  <2>2. \A i \in 1 .. k : cut[i].smallest <= cut[i].largest
    BY <1>7, <1>8, <1>12, <2>1 DEF Gathered, Separated
  <2>3. \A i, j \in 1 .. k : i < j => cut[i].smallest > cut[j].largest + 1
    BY <1>7, <1>8, <1>12, <2>1 DEF Gathered, Separated
  <2> QED BY <1>12, <2>2, <2>3 DEF Separated
<1>15. ToSet(cut) = AckRanges({packets[i] : i \in 1 .. Len(packets)})
  <2>1. AckRanges(Told(all)) = {all[i] : i \in {j \in 1 .. Len(all) : j <= MaxRanges}}
    BY <1>7, CutExact DEF Gathered
  <2>2. Told(all) = {packets[i] : i \in 1 .. Len(packets)}
    BY <1>5, <1>7 DEF Gathered
  <2>3. {j \in 1 .. Len(all) : j <= MaxRanges} = 1 .. k
    BY <1>8, <1>9, ConstantsAssumption
  <2>4. ToSet(cut) = {cut[i] : i \in 1 .. k}
    <3>1. DOMAIN cut = 1 .. k
      BY <1>12, LenProperties
    <3> QED BY <3>1 DEF ToSet
  <2>5. {cut[i] : i \in 1 .. k} = {all[i] : i \in 1 .. k}
    BY <1>12
  <2> QED BY <2>1, <2>2, <2>3, <2>4, <2>5
<1> QED BY <1>10, <1>12, <1>13, <1>14, <1>15

(* What buildAckRanges makes of the record is what the model sends, and    *)
(* what the peer's parseAckFrame reads.                                    *)
THEOREM FramesExact == ASSUME WithinHalfWindow PROVE Spec => []RangesExact
<1>1. TypeOK => RangesExact
  <2>1. SUFFICES ASSUME TypeOK, history # <<>>
                 PROVE  /\ ToSet(BuildAckRanges(history, MaxRanges)) = AckRanges(Recent)
                        /\ \A i \in 1 .. Len(BuildAckRanges(history, MaxRanges)) - 1 :
                              BuildAckRanges(history, MaxRanges)[i].smallest
                                > BuildAckRanges(history, MaxRanges)[i + 1].largest + 1
                        /\ ReadRanges(WriteRanges(BuildAckRanges(history, MaxRanges)))
                             = BuildAckRanges(history, MaxRanges)
    BY DEF RangesExact
  <2>2. PICK ranges : ranges = BuildAckRanges(history, MaxRanges)
    OBVIOUS
  <2>3. history \in Seq(Nat)
    BY <2>1 DEF TypeOK
  <2>4. /\ ranges \in Seq(Ranges) /\ ranges # <<>> /\ Separated(ranges)
        /\ ToSet(ranges) = AckRanges(Recent)
    BY <2>1, <2>2, <2>3, Built DEF Recent
  <2>5. \A i \in 1 .. Len(ranges) - 1 : ranges[i].smallest > ranges[i + 1].largest + 1
    <3>1. Len(ranges) \in Nat
      BY <2>4
    <3>2. \A i \in 1 .. Len(ranges) - 1 :
            i \in 1 .. Len(ranges) /\ i + 1 \in 1 .. Len(ranges) /\ i < i + 1
      BY <3>1
    <3> QED BY <2>4, <3>2 DEF Separated
  <2>6. ReadRanges(WriteRanges(ranges)) = ranges
    BY <2>4, ParseExact
  <2> QED BY <2>2, <2>4, <2>5, <2>6
<1> QED BY <1>1, TypeCorrect, PTL
=============================================================================
