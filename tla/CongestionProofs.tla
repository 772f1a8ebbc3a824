-------------------------- MODULE CongestionProofs --------------------------
(***************************************************************************)
(* What holds of NewReno, CUBIC and BBR (Congestion.tla) for every packet  *)
(* size, initial window, growth and rate: the window keeps its floor, the  *)
(* bytes in flight are counted exactly, and NewReno's recoveries end.      *)
(***************************************************************************)
EXTENDS Congestion, Rtt, FiniteSetTheorems, SequenceTheorems, TLAPS

(* Two numbers of a controller, neither of them below its floor.           *)
Least == IF algorithm = "BBR" THEN BbrMinCwnd ELSE MinCwnd

Floor(r) == r \in Controller /\ r.cwnd >= Least /\ r.ssthresh >= MinCwnd

(* The packets in flight are numbered below the next one. *)
Numbers ==
    /\ reducedAt <= nextPN
    /\ IsFiniteSet(flight)
    /\ \A p \in flight : p.pn < nextPN

(* A recovery of NewReno covers only packets sent before its reduction, so *)
(* none that is sent afterwards and acknowledged leaves it open.           *)
Recovering ==
    algorithm = "NewReno" /\ cc.inRecovery =>
        \/ cc.cwnd = MinCwnd
        \/ cc.recoveryPoint < reducedAt /\ ~recovered

IInv == TypeOK /\ Floor(cc) /\ Numbers /\ InFlightExact /\ Recovering

-----------------------------------------------------------------------------
(* The bytes of a set of packets.                                          *)
Places(packets) == {byte \in packets \X (1 .. MaxPacketSize) : byte[2] <= byte[1].size}

LEMMA PlacesFinite ==
  ASSUME NEW S, IsFiniteSet(S)
  PROVE  IsFiniteSet(Places(S))
<1>1. IsFiniteSet(1 .. MaxPacketSize)
  BY ConstantsAssumption, FS_Interval
<1>2. IsFiniteSet(S \X (1 .. MaxPacketSize))
  BY <1>1, FS_Product
<1>3. Places(S) \in SUBSET (S \X (1 .. MaxPacketSize))
  BY DEF Places
<1> QED BY <1>2, <1>3, FS_Subset

LEMMA BytesNatural ==
  ASSUME NEW S, IsFiniteSet(S)
  PROVE  Bytes(S) \in Nat
BY PlacesFinite, FS_CardinalityType DEF Bytes, Places

LEMMA BytesOfOne ==
  ASSUME NEW p, p.size \in 1 .. MaxPacketSize
  PROVE  Bytes({p}) = p.size
<1>1. MaxPacketSize \in Nat
  BY ConstantsAssumption
<1>2. Places({p}) = {p} \X (1 .. p.size)
  BY <1>1 DEF Places
<1>3. IsFiniteSet(1 .. p.size) /\ Cardinality(1 .. p.size) = p.size
  BY <1>1, FS_Interval
<1>4. IsFiniteSet({p}) /\ Cardinality({p}) = 1
  BY FS_Singleton
<1>5. Cardinality({p} \X (1 .. p.size)) = 1 * p.size
  BY <1>3, <1>4, FS_Product
<1> QED BY <1>1, <1>2, <1>5 DEF Bytes, Places

LEMMA BytesOfBoth ==
  ASSUME NEW S, NEW T, IsFiniteSet(S), IsFiniteSet(T), S \cap T = {}
  PROVE  Bytes(S \cup T) = Bytes(S) + Bytes(T)
<1>1. Places(S \cup T) = Places(S) \cup Places(T) /\ Places(S) \cap Places(T) = {}
  BY DEF Places
<1>2. Cardinality(Places(S) \cup Places(T)) = Cardinality(Places(S)) + Cardinality(Places(T)) - 0
  BY <1>1, PlacesFinite, FS_Union, FS_EmptySet
<1>3. Cardinality(Places(S)) \in Nat /\ Cardinality(Places(T)) \in Nat
  BY PlacesFinite, FS_CardinalityType
<1>4. Cardinality(Places(S \cup T)) = Cardinality(Places(S) \cup Places(T))
  BY <1>1, Zenon
<1> QED BY <1>2, <1>3, <1>4 DEF Bytes, Places

LEMMA BytesWithout ==
  ASSUME NEW S, NEW T, IsFiniteSet(S), T \subseteq S
  PROVE  /\ IsFiniteSet(S \ T)
         /\ Bytes(S \ T) = Bytes(S) - Bytes(T)
         /\ Bytes(S) \in Nat /\ Bytes(T) \in Nat
<1>1. IsFiniteSet(T) /\ IsFiniteSet(S \ T)
  BY FS_Subset
<1>2. S = (S \ T) \cup T /\ (S \ T) \cap T = {}
  OBVIOUS
<1>3. Bytes(S) = Bytes(S \ T) + Bytes(T)
  BY <1>1, <1>2, BytesOfBoth
<1>4. Bytes(S) \in Nat /\ Bytes(T) \in Nat /\ Bytes(S \ T) \in Nat
  BY <1>1, BytesNatural
<1> QED BY <1>1, <1>3, <1>4

LEMMA BytesOfPacket ==
  ASSUME NEW p \in Packets
  PROVE  p.size \in Nat /\ p.pn \in Nat /\ Bytes({p}) = p.size
<1>1. p.size \in 1 .. MaxPacketSize /\ p.pn \in Nat
  <2>1. p.size \in PacketSizes /\ p.pn \in Nat
    BY DEF Packets
  <2>2. MSS \in 1 .. MaxPacketSize
    BY ConstantsAssumption, WindowAssumption
  <2> QED BY <2>1, <2>2, ConstantsAssumption DEF PacketSizes
<1>2. Bytes({p}) = p.size
  BY <1>1, BytesOfOne
<1> QED BY <1>1, <1>2, ConstantsAssumption

(* The Initials that sendConnectionSetup has sent. *)
LEMMA BytesOfSetup ==
  /\ SetupPackets \subseteq Packets /\ IsFiniteSet(SetupPackets)
  /\ \A p \in SetupPackets : p.pn < 3
  /\ Bytes(SetupPackets) = 3 * MSS
<1>1. PICK p \in Packets, q \in Packets, r \in Packets :
        /\ p = [pn |-> 0, size |-> MSS, again |-> FALSE]
        /\ q = [pn |-> 1, size |-> MSS, again |-> FALSE]
        /\ r = [pn |-> 2, size |-> MSS, again |-> FALSE]
  BY DEF Packets, PacketSizes
<1>2. SetupPackets = ({p} \cup {q}) \cup {r}
  <2>1. Initials = {0, 1, 2}
    BY DEF Initials
  <2> QED BY <1>1, <2>1 DEF SetupPackets
<1>3. p.pn = 0 /\ q.pn = 1 /\ r.pn = 2 /\ p.size = MSS /\ q.size = MSS /\ r.size = MSS
  BY <1>1
<1>4. {p} \cap {q} = {} /\ ({p} \cup {q}) \cap {r} = {}
  BY <1>3
<1>5. IsFiniteSet({p}) /\ IsFiniteSet({q}) /\ IsFiniteSet({r})
  BY FS_Singleton
<1>6. IsFiniteSet({p} \cup {q}) /\ IsFiniteSet(({p} \cup {q}) \cup {r})
  BY <1>5, FS_AddElement
<1>7. Bytes({p} \cup {q}) = Bytes({p}) + Bytes({q})
  BY <1>4, <1>5, BytesOfBoth
<1>8. Bytes(({p} \cup {q}) \cup {r}) = Bytes({p} \cup {q}) + Bytes({r})
  BY <1>4, <1>5, <1>6, BytesOfBoth
<1>9. MSS \in Nat /\ Bytes({p}) = MSS /\ Bytes({q}) = MSS /\ Bytes({r}) = MSS
  <2>1. Bytes({p}) = p.size /\ Bytes({q}) = q.size /\ Bytes({r}) = r.size
    BY BytesOfPacket
  <2> QED BY <1>3, <2>1, WindowAssumption
<1>10. Bytes(SetupPackets) = 3 * MSS
  <2>1. Bytes(SetupPackets) = Bytes(({p} \cup {q}) \cup {r})
    BY <1>2, Zenon
  <2>2. 3 * MSS = (MSS + MSS) + MSS
    BY <1>9
  <2> QED BY <1>7, <1>8, <1>9, <2>1, <2>2, Zenon
<1>11. \A s \in SetupPackets : s.pn < 3
  BY <1>2, <1>3
<1> QED BY <1>2, <1>6, <1>10, <1>11

-----------------------------------------------------------------------------
(* The numbers a window is computed from.                                  *)
LEMMA Leasts == Least \in Nat /\ Least >= MinCwnd /\ MinCwnd \in Nat /\ MinCwnd > 0
BY WindowAssumption, BbrAssumption DEF Least

LEMMA DivisionIsNatural ==
  ASSUME NEW a \in Nat, NEW b \in Nat, b > 0
  PROVE  a \div b \in Nat
OBVIOUS

LEMMA AtLeastBounds ==
  ASSUME NEW f \in Nat, NEW n \in Int
  PROVE  AtLeast(f, n) \in Nat /\ AtLeast(f, n) >= f
BY DEF AtLeast

(* Growth never shrinks the window.                                        *)
LEMMA GrownBounds ==
  ASSUME NEW c \in Nat, NEW s \in Nat, NEW acked \in Nat, c > 0
  PROVE  /\ Grown(c, s, acked) \in Nat
         /\ Grown(c, s, acked) >= c
<1>1. CASE c < s
  BY <1>1 DEF Grown
<1>2. CASE ~(c < s)
  <2> DEFINE d == (acked * MSS) \div c
  <2>1. acked * MSS \in Nat
    BY WindowAssumption
  <2>2. d \in Nat
    BY <2>1, DivisionIsNatural
  <2>3. Grown(c, s, acked) = c + AtLeast(1, d)
    BY <1>2 DEF Grown
  <2> HIDE DEF d
  <2>4. AtLeast(1, d) \in Nat
    BY <2>2, AtLeastBounds
  <2> QED BY <2>4, <2>3
<1> QED BY <1>1, <1>2

LEMMA ReductionBounds ==
  ASSUME NEW c \in Nat
  PROVE  /\ Halved(c) \in Nat /\ Halved(c) >= MinCwnd
         /\ Reduced(c) \in Nat /\ Reduced(c) >= MinCwnd
<1>1. c \div 2 \in Int /\ (c * 7) \div 10 \in Int /\ MinCwnd \in Nat
  BY WindowAssumption
<1> QED BY <1>1, AtLeastBounds DEF Halved, Reduced

(* Above the floor, half a window is less than a window.                   *)
LEMMA HalvedReduces ==
  ASSUME NEW c \in Nat, c > MinCwnd
  PROVE  Halved(c) < c
<1>1. MinCwnd \in Nat /\ c \div 2 \in Nat /\ c \div 2 < c
  BY WindowAssumption
<1> QED BY <1>1 DEF Halved, AtLeast

-----------------------------------------------------------------------------
(* A controller's record, when one of its fields changes.                  *)
LEMMA Counted ==
  ASSUME NEW r, NEW n \in Int, Floor(r)
  PROVE  /\ Floor([r EXCEPT !.bytesInFlight = n])
         /\ [r EXCEPT !.bytesInFlight = n].bytesInFlight = n
BY DEF Floor, Controller

LEMMA Resized ==
  ASSUME NEW r, NEW w \in Nat, w >= Least, Floor(r)
  PROVE  /\ Floor([r EXCEPT !.cwnd = w])
         /\ [r EXCEPT !.cwnd = w].bytesInFlight = r.bytesInFlight
BY DEF Floor, Controller

LEMMA Recovered ==
  ASSUME NEW r, NEW b \in BOOLEAN, Floor(r)
  PROVE  /\ Floor([r EXCEPT !.inRecovery = b])
         /\ [r EXCEPT !.inRecovery = b].bytesInFlight = r.bytesInFlight
BY DEF Floor, Controller

-----------------------------------------------------------------------------
(* BBR.                                                                    *)
LEMMA BbrTypes ==
  ASSUME NEW b \in BbrState
  PROVE  /\ b.btlBw \in Nat /\ b.rtProp \in Nat \ {0} /\ b.rtProp \in 1 .. MaxRtProp
         /\ b.btlBwFilter \in [Slots -> Rates \cup {0}] /\ b.bwFilterIdx \in Slots
         /\ b.roundCount \in Nat /\ b.lossInStartup \in 0 .. 2
<1>1. /\ b.rtProp \in 1 .. MaxRtProp
      /\ b.btlBwFilter \in [Slots -> Rates \cup {0}] /\ b.bwFilterIdx \in Slots
      /\ b.roundCount \in Nat /\ b.lossInStartup \in 0 .. 2
  BY DEF BbrState
<1>2. Rates \cup {0} \subseteq Nat /\ 1 .. MaxRtProp \subseteq Nat \ {0}
  BY BbrAssumption
<1>3. b.btlBw \in Rates \cup {0} /\ b.rtProp \in 1 .. MaxRtProp
  BY DEF BbrState
<1>4. b.btlBw \in Nat /\ b.rtProp \in Nat \ {0}
  BY <1>2, <1>3, Zenon
<1> QED BY <1>1, <1>4, Zenon

LEMMA CwndBounds ==
  ASSUME NEW b \in BbrState
  PROVE  Cwnd(b) \in Nat /\ Cwnd(b) >= BbrMinCwnd
<1>1. CwndGain(b) \in Nat /\ BbrMinCwnd \in Nat
  BY BbrAssumption DEF CwndGain
<1>2. Bdp(b) \in Nat
  BY BbrTypes DEF Bdp
<1> DEFINE n == CwndGain(b) * Bdp(b)
<1>3. n \in Int
  BY <1>1, <1>2
<1>4. Cwnd(b) = BbrMinCwnd \/ Cwnd(b) = AtLeast(BbrMinCwnd, n)
  BY DEF Cwnd
<1> HIDE DEF n
<1>5. AtLeast(BbrMinCwnd, n) \in Nat /\ AtLeast(BbrMinCwnd, n) >= BbrMinCwnd
  BY <1>1, <1>3, AtLeastBounds
<1> QED BY <1>1, <1>4, <1>5

LEMMA MeasuredKeeps ==
  ASSUME NEW b \in BbrState, NEW m \in Measured(b)
  PROVE  m \in BbrState
<1>1. \/ m = b
      \/ \E rtt \in 1 .. b.rtProp - 1 : m = [b EXCEPT !.rtProp = rtt, !.rtPropStamp = "recent"]
      \/ m = [b EXCEPT !.rtPropStamp = "old"]
  BY DEF Measured
<1>2. ASSUME NEW rtt \in 1 .. b.rtProp - 1,
             m = [b EXCEPT !.rtProp = rtt, !.rtPropStamp = "recent"]
      PROVE  m \in BbrState
  <2>1. rtt \in 1 .. MaxRtProp
    BY BbrTypes, BbrAssumption
  <2> QED BY <1>2, <2>1 DEF BbrState
<1>3. CASE m = [b EXCEPT !.rtPropStamp = "old"]
  BY <1>3 DEF BbrState
<1> QED BY <1>1, <1>2, <1>3

LEMMA RoundsKeep ==
  ASSUME NEW b \in BbrState, NEW rate \in Rates, NEW s \in Rounds(b, rate)
  PROVE  s \in BbrState
<1> DEFINE filter == [b.btlBwFilter EXCEPT ![b.bwFilterIdx] = rate]
<1>1. filter \in [Slots -> Rates \cup {0}]
  BY BbrTypes
<1>2. PICK i \in Slots :
        s = [b EXCEPT !.roundCount = @ + 1, !.btlBwFilter = filter,
                      !.bwFilterIdx = (@ + 1) % FilterLen, !.btlBw = filter[i]]
  BY DEF Rounds
<1> HIDE DEF filter
<1> DEFINE bw == filter[i]
           n  == b.roundCount + 1
           j  == (b.bwFilterIdx + 1) % FilterLen
<1>3. bw \in Rates \cup {0}
  BY <1>1
<1>4. n \in Nat
  BY BbrTypes
<1>5. j \in Slots
  <2>1. b.bwFilterIdx + 1 \in Nat /\ FilterLen \in Nat \ {0}
    BY BbrTypes, BbrAssumption DEF Slots
  <2> QED BY <2>1 DEF Slots
<1>6. s = [b EXCEPT !.roundCount = n, !.btlBwFilter = filter, !.bwFilterIdx = j, !.btlBw = bw]
  BY <1>2
<1> HIDE DEF bw, n, j
<1> QED BY <1>1, <1>3, <1>4, <1>5, <1>6 DEF BbrState

LEMMA AdvancedKeeps ==
  ASSUME NEW b \in BbrState, NEW rate, NEW inFlight, NEW a \in Advanced(b, rate, inFlight)
  PROVE  a \in BbrState
<1>1. PICK s \in Successors(b, rate, inFlight) :
        a = [b EXCEPT !.state = s,
                      !.lossInStartup = IF b.state = "Startup" /\ s = "Drain" THEN 0 ELSE @]
  BY DEF Advanced
<1>2. s \in {"Startup", "Drain", "ProbeBW", "ProbeRTT"}
  <2>1. b.state \in {"Startup", "Drain", "ProbeBW", "ProbeRTT"}
    BY DEF BbrState
  <2> QED BY <1>1, <2>1 DEF Successors
<1> DEFINE l == IF b.state = "Startup" /\ s = "Drain" THEN 0 ELSE b.lossInStartup
<1>3. l \in 0 .. 2
  BY BbrTypes
<1>4. a = [b EXCEPT !.state = s, !.lossInStartup = l]
  BY <1>1
<1> HIDE DEF l
<1> QED BY <1>2, <1>3, <1>4 DEF BbrState

LEMMA BbrAckedBounds ==
  ASSUME algorithm = "BBR", Floor(cc), bbr \in BbrState, NEW size \in Nat, NEW pn \in Nat,
         NEW o \in BbrAcked(cc, bbr, size, pn)
  PROVE  /\ Floor(o[1]) /\ o[2] \in BbrState
         /\ o[1].bytesInFlight = cc.bytesInFlight - size
<1> DEFINE n == cc.bytesInFlight - size
           counted == [cc EXCEPT !.bytesInFlight = n]
<1>1. n \in Int
  BY DEF Floor, Controller
<1>2. PICK m \in Measured(bbr) :
        o \in {<<[counted EXCEPT !.cwnd = Cwnd(a)], a>> : a \in AfterRound(m, counted.bytesInFlight)}
               \cup (IF pn >= RoundPackets * m.roundCount THEN {} ELSE {<<counted, m>>})
  BY DEF BbrAcked
<1> HIDE DEF n
<1>3. Floor(counted) /\ counted.bytesInFlight = n
  BY <1>1, Counted
<1>4. m \in BbrState
  BY <1>2, MeasuredKeeps
<1> HIDE DEF counted
<1>5. CASE o = <<counted, m>>
  BY <1>3, <1>4, <1>5 DEF n
<1>6. ASSUME NEW a \in AfterRound(m, counted.bytesInFlight),
              o = <<[counted EXCEPT !.cwnd = Cwnd(a)], a>>
      PROVE  /\ Floor(o[1]) /\ o[2] \in BbrState
             /\ o[1].bytesInFlight = cc.bytesInFlight - size
  <2>1. \E rate \in Rates : \E s \in Rounds(m, rate) :
          a \in Advanced(s, rate, counted.bytesInFlight)
    BY <1>6 DEF AfterRound
  <2>2. a \in BbrState
    BY <1>4, <2>1, RoundsKeep, AdvancedKeeps
  <2>3. Cwnd(a) \in Nat /\ Cwnd(a) >= Least
    BY <2>2, CwndBounds DEF Least
  <2>4. /\ Floor([counted EXCEPT !.cwnd = Cwnd(a)])
        /\ [counted EXCEPT !.cwnd = Cwnd(a)].bytesInFlight = n
    BY <1>3, <2>3, Resized
  <2> QED BY <1>6, <2>2, <2>4 DEF n
<1> QED BY <1>2, <1>5, <1>6

-----------------------------------------------------------------------------
(* Whatever the algorithm, an acknowledgement takes its bytes off the      *)
(* count and leaves the window above its floor.                            *)
LEMMA AckedBounds ==
  ASSUME Floor(cc), bbr \in BbrState, NEW size \in Nat, NEW pn \in Nat, NEW o \in Acked(size, pn)
  PROVE  /\ Floor(o[1]) /\ o[2] \in BbrState
         /\ o[1].bytesInFlight = cc.bytesInFlight - size
<1> DEFINE n == cc.bytesInFlight - size
           Goal == Floor(o[1]) /\ o[2] \in BbrState /\ o[1].bytesInFlight = n
<1>1. /\ cc.cwnd \in Nat /\ cc.ssthresh \in Nat /\ cc.cwnd > 0 /\ n \in Int
      /\ cc.inRecovery \in BOOLEAN
  BY Leasts DEF Floor, Controller
<1>2. /\ Grown(cc.cwnd, cc.ssthresh, size) \in Nat
      /\ Grown(cc.cwnd, cc.ssthresh, size) >= cc.cwnd
  BY <1>1, GrownBounds
<1>3. ASSUME NEW w \in Nat, w >= cc.cwnd, NEW b \in BOOLEAN
      PROVE  LET q == [cc EXCEPT !.inRecovery = b, !.bytesInFlight = n, !.cwnd = w]
             IN  Floor(q) /\ q.bytesInFlight = n
  <2>1. w >= Least
    BY <1>1, <1>3, Leasts DEF Floor
  <2> HIDE DEF n
  <2> QED BY <1>1, <2>1 DEF Floor, Controller
<1>4. cc = [cc EXCEPT !.inRecovery = cc.inRecovery]
  BY DEF Floor, Controller
<1>5. CASE algorithm = "BBR"
  BY <1>5, BbrAckedBounds DEF Acked
<1>6. CASE algorithm = "CUBIC"
  <2>1. PICK q \in CubicAcked(cc, size) : o = <<q, bbr>>
    BY <1>6 DEF Acked
  <2>2. PICK w \in Nat : w >= cc.cwnd /\ q = [cc EXCEPT !.bytesInFlight = n, !.cwnd = w]
    <3>1. CASE cc.cwnd < cc.ssthresh
      <4>1. q = [cc EXCEPT !.bytesInFlight = n, !.cwnd = Grown(cc.cwnd, cc.ssthresh, size)]
        BY <2>1, <3>1 DEF CubicAcked
      <4> QED BY <1>2, <4>1
    <3>2. CASE ~(cc.cwnd < cc.ssthresh)
      <4>1. PICK k \in 0 .. MaxGrowth : q = [cc EXCEPT !.bytesInFlight = n, !.cwnd = cc.cwnd + k]
        BY <2>1, <3>2 DEF CubicAcked
      <4>2. cc.cwnd + k \in Nat /\ cc.cwnd + k >= cc.cwnd
        BY <1>1, GrowthAssumption
      <4> QED BY <4>1, <4>2
    <3> QED BY <3>1, <3>2
  <2> HIDE DEF n
  <2>3. q = [cc EXCEPT !.inRecovery = cc.inRecovery, !.bytesInFlight = n, !.cwnd = w]
    BY <2>2 DEF Floor, Controller
  <2>4. Floor(q) /\ q.bytesInFlight = n
    BY <1>1, <1>3, <2>2, <2>3
  <2> QED BY <2>1, <2>4 DEF n
<1>7. CASE algorithm \notin {"BBR", "CUBIC"}
  <2>1. o = <<OnPacketAcked(cc, size, pn), bbr>>
    BY <1>7 DEF Acked
  <2>2. CASE cc.inRecovery /\ pn <= cc.recoveryPoint
    <3>1. o[1] = [cc EXCEPT !.bytesInFlight = n]
      BY <2>1, <2>2 DEF OnPacketAcked
    <3> HIDE DEF n
    <3>2. Floor(o[1]) /\ o[1].bytesInFlight = n
      BY <1>1, <3>1, Counted
    <3> QED BY <2>1, <3>2 DEF n
  <2>3. CASE ~(cc.inRecovery /\ pn <= cc.recoveryPoint)
    <3> DEFINE w == Grown(cc.cwnd, cc.ssthresh, size)
    <3>1. o[1] = [cc EXCEPT !.inRecovery = FALSE, !.bytesInFlight = n, !.cwnd = w]
      BY <2>1, <2>3 DEF OnPacketAcked
    <3> HIDE DEF n, w
    <3>2. w \in Nat /\ w >= cc.cwnd
      BY <1>2 DEF w
    <3>3. Floor(o[1]) /\ o[1].bytesInFlight = n
      BY <1>3, <3>1, <3>2
    <3> QED BY <2>1, <3>3 DEF n
  <2> QED BY <2>2, <2>3
<1> QED BY <1>5, <1>6, <1>7

LEMMA LostBounds ==
  ASSUME Floor(cc), bbr \in BbrState, NEW pn \in Nat
  PROVE  /\ Floor(Lost(pn)[1]) /\ Lost(pn)[2] \in BbrState
         /\ Lost(pn)[1].bytesInFlight = cc.bytesInFlight
<1> DEFINE q == Lost(pn)[1]
           b == Lost(pn)[2]
<1>1. cc.cwnd \in Nat /\ cc.ssthresh \in Nat
  BY DEF Floor, Controller
<1>2. CASE algorithm = "BBR"
  <2>1. Lost(pn) = BbrLost(cc, bbr, pn)
    BY <1>2 DEF Lost
  <2>2. \/ b = bbr
        \/ bbr.lossInStartup < 2 /\ b = [bbr EXCEPT !.lossInStartup = bbr.lossInStartup + 1]
        \/ b = [bbr EXCEPT !.lossInStartup = 0, !.state = "Drain"]
    BY <2>1 DEF BbrLost
  <2>3. q = cc \/ q = [cc EXCEPT !.inRecovery = TRUE, !.recoveryPoint = pn]
    BY <2>1 DEF BbrLost
  <2> HIDE DEF q, b
  <2>4. b \in BbrState
    <3>1. ASSUME NEW l \in 0 .. 2 PROVE [bbr EXCEPT !.lossInStartup = l] \in BbrState
      BY DEF BbrState
    <3>2. [bbr EXCEPT !.lossInStartup = 0, !.state = "Drain"] \in BbrState
      <4>1. \A c \in BbrState : [c EXCEPT !.state = "Drain"] \in BbrState
        BY DEF BbrState
      <4> DEFINE c == [bbr EXCEPT !.lossInStartup = 0]
      <4>2. c \in BbrState /\ [bbr EXCEPT !.lossInStartup = 0, !.state = "Drain"] = [c EXCEPT !.state = "Drain"]
        BY <3>1
      <4> HIDE DEF c
      <4> QED BY <4>1, <4>2
    <3>3. bbr.lossInStartup < 2 => bbr.lossInStartup + 1 \in 0 .. 2
      BY BbrTypes
    <3> QED BY <2>2, <3>1, <3>2, <3>3
  <2>5. Floor(q) /\ q.bytesInFlight = cc.bytesInFlight
    BY <2>3 DEF Floor, Controller
  <2> QED BY <2>4, <2>5 DEF q, b
<1>3. CASE algorithm # "BBR"
  <2>1. Lost(pn) \in {<<CubicLost(cc, pn), bbr>>, <<OnPacketLost(cc, pn), bbr>>}
    BY <1>3 DEF Lost
  <2>2. b = bbr /\ q \in {CubicLost(cc, pn), OnPacketLost(cc, pn)}
    BY <2>1
  <2>3. /\ Halved(cc.cwnd) \in Nat /\ Halved(cc.cwnd) >= MinCwnd
        /\ Reduced(cc.cwnd) \in Nat /\ Reduced(cc.cwnd) >= MinCwnd
    BY <1>1, ReductionBounds
  <2> HIDE DEF q, b
  <2>4. q = cc \/ \E w \in Nat :
            /\ w >= MinCwnd
            /\ q = [cc EXCEPT !.inRecovery = TRUE, !.recoveryPoint = pn, !.ssthresh = w, !.cwnd = w]
    BY <2>2, <2>3 DEF CubicLost, OnPacketLost
  <2>5. Floor(q) /\ q.bytesInFlight = cc.bytesInFlight
    BY <1>3, <2>4 DEF Floor, Controller, Least
  <2> QED BY <2>2, <2>5 DEF q, b
<1> QED BY <1>2, <1>3

LEMMA TimedOutBounds ==
  ASSUME Floor(cc)
  PROVE  Floor(TimedOut) /\ TimedOut.bytesInFlight = cc.bytesInFlight /\ ~TimedOut.inRecovery
<1> DEFINE q == TimedOut
<1>1. CASE algorithm = "BBR"
  <2>1. q = [cc EXCEPT !.cwnd = BbrMinCwnd, !.inRecovery = FALSE]
    BY <1>1 DEF TimedOut, BbrNeedsRetransmit
  <2>2. BbrMinCwnd \in Nat /\ BbrMinCwnd >= Least
    BY <1>1, BbrAssumption DEF Least
  <2> HIDE DEF q
  <2>3. Floor(q) /\ q.bytesInFlight = cc.bytesInFlight /\ ~q.inRecovery
    BY <2>1, <2>2 DEF Floor, Controller
  <2> QED BY <2>3 DEF q
<1>2. CASE algorithm # "BBR"
  <2> DEFINE h == Halved(cc.cwnd)
  <2>1. h \in Nat /\ h >= MinCwnd
    BY ReductionBounds DEF Floor, Controller
  <2>2. q = [cc EXCEPT !.inRecovery = FALSE, !.ssthresh = h, !.cwnd = MinCwnd]
    BY <1>2 DEF TimedOut, OnPacketNeedsRetransmit
  <2>3. MinCwnd \in Nat /\ Least = MinCwnd
    BY <1>2, Leasts DEF Least
  <2> HIDE DEF h, q
  <2>4. q \in Controller /\ q.cwnd = MinCwnd /\ q.ssthresh = h
    BY <2>1, <2>2, <2>3 DEF Floor, Controller
  <2>5. q.bytesInFlight = cc.bytesInFlight /\ q.inRecovery = FALSE
    BY <2>2 DEF Floor, Controller
  <2> QED BY <2>1, <2>3, <2>4, <2>5 DEF q, Floor
<1> QED BY <1>1, <1>2

-----------------------------------------------------------------------------
(* The parts of the invariant that say what a step does to the window and  *)
(* to the count, put together.                                             *)
LEMMA Together ==
  ASSUME TypeOK', algorithm' = algorithm, Floor(cc'), Numbers', InFlightExact', Recovering'
  PROVE  IInv'
<1>1. Floor(cc)'
  BY DEF Floor, Least
<1> QED BY <1>1 DEF IInv

LEMMA InitInv == Init => IInv
<1> SUFFICES ASSUME Init PROVE IInv
  OBVIOUS
<1> USE DEF Init
<1>1. /\ MinCwnd \in Nat /\ InitialCwnd \in Nat /\ Infinite \in Nat /\ BbrMinCwnd \in Nat
      /\ MinCwnd <= InitialCwnd /\ InitialCwnd <= Infinite /\ BbrMinCwnd >= MinCwnd
  BY WindowAssumption, BbrAssumption
<1>2. /\ cc \in Controller /\ cc.bytesInFlight = 3 * MSS /\ cc.inRecovery = FALSE /\ cc.ssthresh = Infinite
      /\ cc.cwnd = IF algorithm = "BBR" THEN BbrMinCwnd ELSE InitialCwnd
  <2> DEFINE w == IF algorithm = "BBR" THEN BbrMinCwnd ELSE InitialCwnd
  <2>1. w \in Nat /\ cc = [New EXCEPT !.cwnd = w, !.bytesInFlight = 3 * MSS]
    BY <1>1
  <2>2. New \in Controller
    BY <1>1 DEF New, Controller
  <2> HIDE DEF w
  <2>3. cc \in Controller /\ cc.cwnd = w
    <3>1. 3 * MSS \in Int
      BY WindowAssumption
    <3> QED BY <2>1, <2>2, <3>1 DEF Controller
  <2>4. cc.bytesInFlight = 3 * MSS /\ cc.inRecovery = FALSE /\ cc.ssthresh = Infinite
    BY <2>1 DEF New
  <2> QED BY <2>3, <2>4 DEF w
<1>3. NewBbr \in BbrState
  <2>1. 0 \in Slots /\ MaxRtProp \in 1 .. MaxRtProp
    BY BbrAssumption DEF Slots
  <2>2. [i \in Slots |-> 0] \in [Slots -> Rates \cup {0}]
    OBVIOUS
  <2>3. PICK filter \in [Slots -> Rates \cup {0}] : filter = [i \in Slots |-> 0]
    BY <2>2
  <2>4. NewBbr = [state |-> "Startup", btlBw |-> 0, btlBwFilter |-> filter, bwFilterIdx |-> 0,
                  rtProp |-> MaxRtProp, rtPropStamp |-> "never", roundCount |-> 0, lossInStartup |-> 0]
    BY <2>3 DEF NewBbr
  <2> QED BY <2>1, <2>3, <2>4 DEF BbrState
<1>4. TypeOK
  <2>1. nextPN \in 0 .. MaxPN /\ reducedAt \in 0 .. MaxPN /\ timeouts \in 0 .. MaxTimeouts
    BY ConstantsAssumption
  <2>2. flight \subseteq Packets /\ queue \in Seq(PacketSizes) /\ recovered \in BOOLEAN
    <3>1. <<>> \in Seq(PacketSizes)
      BY EmptySeq
    <3> QED BY <3>1, BytesOfSetup, Zenon
  <2>3. algorithm \in Algorithms /\ bbr = NewBbr
    OBVIOUS
  <2> HIDE DEF Init
  <2> QED BY <1>2, <1>3, <2>1, <2>2, <2>3 DEF TypeOK
<1>5. Floor(cc)
  BY <1>1, <1>2 DEF Floor, Least
<1>6. Numbers
  BY BytesOfSetup DEF Numbers
<1>7. InFlightExact
  BY <1>2, BytesOfSetup DEF InFlightExact
<1>8. Recovering
  BY <1>2 DEF Recovering
<1> QED BY <1>4, <1>5, <1>6, <1>7, <1>8 DEF IInv

(* Send and Retransmit: a packet goes out. *)
LEMMA SentStep ==
  ASSUME IInv, NEW size \in PacketSizes, NEW again \in BOOLEAN,
         nextPN < MaxPN, nextPN' = nextPN + 1,
         flight' = flight \cup {Packet(size, again)},
         cc' = OnPacketSent(cc, size),
         queue' \in Seq(PacketSizes),
         UNCHANGED <<algorithm, bbr, timeouts, reducedAt, recovered>>
  PROVE  IInv'
<1> DEFINE p == Packet(size, again)
<1>1. nextPN \in Nat /\ MaxPN \in Nat /\ reducedAt \in Nat /\ flight \subseteq Packets
  BY ConstantsAssumption DEF IInv, TypeOK
<1>2. p \in Packets /\ p.pn = nextPN /\ p.size = size
  BY <1>1 DEF Packet, Packets
<1> HIDE DEF p
<1>3. p \notin flight /\ IsFiniteSet(flight)
  BY <1>1, <1>2 DEF IInv, Numbers
<1>4. size \in Nat /\ Bytes({p}) = size
  BY <1>2, BytesOfPacket
<1>5. cc \in Controller /\ cc.bytesInFlight = Bytes(flight) /\ Bytes(flight) \in Nat /\ Floor(cc)
  BY <1>3, BytesNatural DEF IInv, TypeOK, InFlightExact
<1> DEFINE n == cc.bytesInFlight + size
<1>6. n \in Int
  BY <1>4, <1>5
<1>7. cc' = [cc EXCEPT !.bytesInFlight = n]
  BY DEF OnPacketSent
<1> HIDE DEF n
<1>8. Floor(cc') /\ cc'.bytesInFlight = n
  BY <1>5, <1>6, <1>7, Counted
<1>9. flight' = flight \cup {p}
  BY DEF p
<1>10. TypeOK'
  BY <1>1, <1>2, <1>8, <1>9 DEF IInv, TypeOK, Floor
<1>11. Numbers'
  <2>1. IsFiniteSet(flight')
    BY <1>3, <1>9, FS_AddElement
  <2>2. \A q \in flight' : q.pn < nextPN'
    <3> SUFFICES ASSUME NEW q \in flight' PROVE q.pn < nextPN + 1
      OBVIOUS
    <3>1. CASE q \in flight
      <4>1. q.pn \in Nat /\ q.pn < nextPN
        BY <1>1, <3>1, BytesOfPacket DEF IInv, Numbers
      <4> QED BY <1>1, <4>1
    <3>2. CASE q = p
      BY <1>1, <1>2, <3>2
    <3> QED BY <1>9, <3>1, <3>2
  <2> QED BY <1>1, <2>1, <2>2 DEF IInv, Numbers
<1>12. InFlightExact'
  <2>1. Bytes(flight') = Bytes(flight) + Bytes({p})
    <3>1. IsFiniteSet({p}) /\ flight \cap {p} = {}
      BY <1>3, FS_Singleton
    <3> QED BY <1>3, <1>9, <3>1, BytesOfBoth
  <2> QED BY <1>4, <1>5, <1>8, <2>1 DEF InFlightExact, n
<1>13. Recovering'
  BY <1>5, <1>7 DEF IInv, Recovering, Controller
<1> QED BY <1>8, <1>10, <1>11, <1>12, <1>13, Together

(* A packet leaves the flight, acknowledged or lost. *)
LEMMA LeavesFlight ==
  ASSUME IInv, NEW p \in flight, flight' = flight \ {p}
  PROVE  /\ p.size \in PacketSizes /\ p.size \in Nat /\ p.pn \in Nat /\ p.pn < nextPN
         /\ flight' \subseteq Packets /\ IsFiniteSet(flight')
         /\ \A q \in flight' : q.pn < nextPN
         /\ Bytes(flight') = cc.bytesInFlight - p.size
<1>1. flight \subseteq Packets /\ IsFiniteSet(flight)
  BY DEF IInv, TypeOK, Numbers
<1>2. p.size \in PacketSizes /\ p.size \in Nat /\ p.pn \in Nat /\ Bytes({p}) = p.size
  BY <1>1, BytesOfPacket DEF Packets
<1>3. IsFiniteSet(flight') /\ Bytes(flight') = Bytes(flight) - Bytes({p})
  BY <1>1, BytesWithout
<1> QED BY <1>1, <1>2, <1>3 DEF IInv, Numbers, InFlightExact

LEMMA AckStep ==
  ASSUME IInv, NEW p \in flight, Ack(p)
  PROVE  IInv'
<1>1. /\ p.size \in Nat /\ p.pn \in Nat
      /\ flight' \subseteq Packets /\ IsFiniteSet(flight')
      /\ \A q \in flight' : q.pn < nextPN
      /\ Bytes(flight') = cc.bytesInFlight - p.size
  BY LeavesFlight DEF Ack
<1>2. PICK o \in Acked(p.size, p.pn) : cc' = o[1] /\ bbr' = o[2]
  BY DEF Ack
<1>3. Floor(cc') /\ bbr' \in BbrState /\ cc'.bytesInFlight = cc.bytesInFlight - p.size
  BY <1>1, <1>2, AckedBounds DEF IInv, TypeOK
<1>4. /\ UNCHANGED <<algorithm, nextPN, queue, timeouts, reducedAt>>
      /\ recovered' = (recovered \/ p.pn >= reducedAt)
  BY DEF Ack
<1>5. TypeOK'
  <2>1. recovered' \in BOOLEAN /\ cc' \in Controller
    BY <1>3, <1>4 DEF Floor
  <2> QED BY <1>1, <1>3, <1>4, <2>1 DEF IInv, TypeOK
<1>6. Numbers' /\ InFlightExact'
  BY <1>1, <1>3, <1>4 DEF IInv, Numbers, InFlightExact
<1>7. Recovering'
  <2> SUFFICES ASSUME algorithm = "NewReno", cc'.inRecovery
               PROVE  cc'.cwnd = MinCwnd \/ (cc'.recoveryPoint < reducedAt' /\ ~recovered')
    BY <1>4 DEF Recovering
  <2>1. cc' = OnPacketAcked(cc, p.size, p.pn)
    BY <1>2 DEF Acked
  <2>2. cc \in Controller /\ reducedAt \in Nat
    BY ConstantsAssumption DEF IInv, TypeOK
  <2>3. cc.inRecovery /\ p.pn <= cc.recoveryPoint
    BY <2>1, <2>2 DEF OnPacketAcked, Controller
  <2>4. cc'.cwnd = cc.cwnd /\ cc'.recoveryPoint = cc.recoveryPoint
    BY <2>1, <2>2, <2>3 DEF OnPacketAcked, Controller
  <2>5. cc.recoveryPoint \in Nat
    BY <2>2 DEF Controller
  <2>6. cc.recoveryPoint < reducedAt => ~(p.pn >= reducedAt)
    BY <1>1, <2>2, <2>3, <2>5
  <2>7. cc.cwnd = MinCwnd \/ (cc.recoveryPoint < reducedAt /\ ~recovered)
    BY <2>3, Zenon DEF IInv, Recovering
  <2>8. CASE cc.recoveryPoint < reducedAt /\ ~recovered
    <3>1. ~recovered'
      BY <1>4, <2>6, <2>8, Zenon
    <3> QED BY <1>4, <2>4, <2>8, <3>1
  <2> QED BY <2>4, <2>7, <2>8, Zenon
<1> QED BY <1>3, <1>4, <1>5, <1>6, <1>7, Together

(* What a loss does to NewReno. *)
LEMMA NewRenoLoss ==
  ASSUME IInv, NEW p \in flight, Lose(p), algorithm = "NewReno"
  PROVE  /\ cc.cwnd \in Nat /\ cc'.cwnd \in Nat
         /\ \/ /\ cc.inRecovery
               /\ cc'.cwnd = cc.cwnd /\ cc'.recoveryPoint = cc.recoveryPoint
            \/ /\ ~cc.inRecovery
               /\ cc'.recoveryPoint = p.pn
               /\ cc'.cwnd < cc.cwnd \/ (cc.cwnd = MinCwnd /\ cc'.cwnd = MinCwnd)
<1>1. cc \in Controller /\ cc.cwnd \in Nat /\ cc.cwnd >= MinCwnd /\ MinCwnd \in Nat
  BY Leasts DEF IInv, TypeOK, Floor, Least, Controller
<1>2. cc' = [OnPacketLost(cc, p.pn) EXCEPT !.bytesInFlight = @ - p.size]
  BY DEF Lose, Lost, OnPacketDiscarded
<1>3. CASE cc.inRecovery
  <2>1. cc' = [cc EXCEPT !.bytesInFlight = cc.bytesInFlight - p.size]
    BY <1>2, <1>3 DEF OnPacketLost
  <2> QED BY <1>1, <1>3, <2>1 DEF Controller
<1>4. CASE ~cc.inRecovery
  <2> DEFINE h == Halved(cc.cwnd)
  <2>1. h \in Nat /\ h >= MinCwnd
    BY <1>1, ReductionBounds
  <2>2. h < cc.cwnd \/ (cc.cwnd = MinCwnd /\ h = MinCwnd)
    <3>1. CASE cc.cwnd > MinCwnd
      <4>1. h < cc.cwnd
        BY <1>1, <3>1, HalvedReduces, Zenon
      <4> QED BY <4>1, Zenon
    <3>2. CASE cc.cwnd = MinCwnd
      <4>1. MinCwnd \div 2 \in Nat /\ MinCwnd \div 2 <= MinCwnd
        BY <1>1
      <4> QED BY <1>1, <3>2, <4>1 DEF Halved, AtLeast
    <3> QED BY <1>1, <3>1, <3>2
  <2>3. OnPacketLost(cc, p.pn)
          = [cc EXCEPT !.inRecovery = TRUE, !.recoveryPoint = p.pn, !.ssthresh = h, !.cwnd = h]
    BY <1>4 DEF OnPacketLost
  <2> HIDE DEF h
  <2>4. cc'.recoveryPoint = p.pn /\ cc'.cwnd = h
    BY <1>1, <1>2, <2>3 DEF Controller
  <2> QED BY <1>1, <1>4, <2>1, <2>2, <2>4
<1> QED BY <1>3, <1>4

LEMMA LoseStep ==
  ASSUME IInv, NEW p \in flight, Lose(p)
  PROVE  IInv'
<1>1. /\ p.size \in PacketSizes /\ p.size \in Nat /\ p.pn \in Nat /\ p.pn < nextPN
      /\ flight' \subseteq Packets /\ IsFiniteSet(flight')
      /\ \A q \in flight' : q.pn < nextPN
      /\ Bytes(flight') = cc.bytesInFlight - p.size
  BY LeavesFlight DEF Lose
<1>2. /\ cc' = OnPacketDiscarded(Lost(p.pn)[1], p.size) /\ bbr' = Lost(p.pn)[2]
      /\ queue' = Append(queue, p.size)
      /\ UNCHANGED <<algorithm, nextPN, timeouts>>
      /\ \/ cc'.cwnd < cc.cwnd /\ reducedAt' = nextPN /\ recovered' = FALSE
         \/ ~(cc'.cwnd < cc.cwnd) /\ UNCHANGED <<reducedAt, recovered>>
  BY DEF Lose
<1> DEFINE q == Lost(p.pn)[1]
           n == q.bytesInFlight - p.size
<1>3. Floor(q) /\ bbr' \in BbrState /\ q.bytesInFlight = cc.bytesInFlight
  BY <1>1, <1>2, LostBounds DEF IInv, TypeOK
<1>4. cc' = [q EXCEPT !.bytesInFlight = n]
  BY <1>2 DEF OnPacketDiscarded
<1> HIDE DEF q
<1>5. n \in Int
  BY <1>1, <1>3 DEF Floor, Controller
<1>6. n = cc.bytesInFlight - p.size
  BY <1>3
<1> HIDE DEF n
<1>7. Floor(cc') /\ cc'.bytesInFlight = cc.bytesInFlight - p.size
  BY <1>3, <1>4, <1>5, <1>6, Counted
<1>8. nextPN \in 0 .. MaxPN /\ nextPN \in Nat /\ reducedAt \in Nat
  BY ConstantsAssumption DEF IInv, TypeOK
<1>9. TypeOK'
  <2>1. queue' \in Seq(PacketSizes)
    BY <1>1, <1>2 DEF IInv, TypeOK
  <2>2. cc' \in Controller
    BY <1>7 DEF Floor
  <2>3. reducedAt' \in 0 .. MaxPN /\ recovered' \in BOOLEAN
    BY <1>2, <1>8 DEF IInv, TypeOK
  <2> QED BY <1>1, <1>2, <1>3, <2>1, <2>2, <2>3 DEF IInv, TypeOK
<1>10. Numbers'
  <2>1. reducedAt' <= nextPN
    BY <1>2, <1>8 DEF IInv, Numbers
  <2> QED BY <1>1, <1>2, <2>1 DEF Numbers
<1>11. InFlightExact'
  BY <1>1, <1>7 DEF InFlightExact
<1>12. Recovering'
  <2> SUFFICES ASSUME algorithm = "NewReno", cc'.inRecovery
               PROVE  cc'.cwnd = MinCwnd \/ (cc'.recoveryPoint < reducedAt' /\ ~recovered')
    BY <1>2 DEF Recovering
  <2>1. CASE /\ cc.inRecovery
             /\ cc'.cwnd = cc.cwnd /\ cc'.recoveryPoint = cc.recoveryPoint
    <3>1. ~(cc'.cwnd < cc.cwnd)
      BY <2>1, NewRenoLoss
    <3>2. reducedAt' = reducedAt /\ recovered' = recovered
      BY <1>2, <3>1
    <3>3. cc.cwnd = MinCwnd \/ (cc.recoveryPoint < reducedAt /\ ~recovered)
      BY <2>1, Zenon DEF IInv, Recovering
    <3> QED BY <2>1, <3>2, <3>3, Zenon
  <2>2. CASE /\ ~cc.inRecovery
             /\ cc'.recoveryPoint = p.pn
             /\ cc'.cwnd < cc.cwnd \/ (cc.cwnd = MinCwnd /\ cc'.cwnd = MinCwnd)
    <3>1. CASE cc'.cwnd < cc.cwnd
      <4>1. reducedAt' = nextPN /\ ~recovered'
        BY <1>2, <3>1, Zenon
      <4>2. cc'.recoveryPoint < reducedAt'
        BY <1>1, <2>2, <4>1
      <4> QED BY <4>1, <4>2, Zenon
    <3> QED BY <2>2, <3>1, Zenon
  <2> QED BY <2>1, <2>2, NewRenoLoss
<1> QED BY <1>2, <1>7, <1>9, <1>10, <1>11, <1>12, Together

LEMMA TimeoutStep ==
  ASSUME IInv, Timeout
  PROVE  IInv'
<1>1. flight \subseteq Packets /\ IsFiniteSet(flight) /\ Originals \subseteq flight
  BY DEF IInv, TypeOK, Numbers, Originals
<1>2. /\ IsFiniteSet(flight \ Originals)
      /\ Bytes(flight \ Originals) = Bytes(flight) - Bytes(Originals)
      /\ Bytes(flight) \in Nat /\ Bytes(Originals) \in Nat
  BY <1>1, BytesWithout
<1>3. /\ flight' = flight \ Originals
      /\ cc' = OnPacketDiscarded(TimedOut, Bytes(Originals))
      /\ timeouts < MaxTimeouts /\ timeouts' = timeouts + 1
      /\ reducedAt' = nextPN /\ recovered' = FALSE
      /\ UNCHANGED <<algorithm, bbr, nextPN>>
  BY DEF Timeout
<1> DEFINE q == TimedOut
           n == q.bytesInFlight - Bytes(Originals)
<1>4. Floor(q) /\ q.bytesInFlight = cc.bytesInFlight /\ ~q.inRecovery
  BY TimedOutBounds DEF IInv
<1>5. cc' = [q EXCEPT !.bytesInFlight = n]
  BY <1>3 DEF OnPacketDiscarded
<1> HIDE DEF q
<1>6. n = Bytes(flight \ Originals) /\ n \in Int
  BY <1>2, <1>4 DEF IInv, InFlightExact
<1> HIDE DEF n
<1>7. Floor(cc') /\ cc'.bytesInFlight = Bytes(flight \ Originals)
  BY <1>4, <1>5, <1>6, Counted
<1>8. ~cc'.inRecovery
  BY <1>4, <1>5 DEF Floor, Controller
<1>9. queue' \in Seq(PacketSizes)
  <2>1. Cardinality(Resent) \in Nat
    BY <1>1, FS_Subset, FS_CardinalityType DEF Resent
  <2>2. PICK order \in [1 .. Cardinality(Resent) -> Resent] :
            queue' = queue \o [i \in DOMAIN order |-> order[i].size]
    BY DEF Timeout
  <2> DEFINE sizes == [i \in DOMAIN order |-> order[i].size]
  <2>3. \A i \in 1 .. Cardinality(Resent) : order[i].size \in PacketSizes
    <3>1. \A p \in Resent : p.size \in PacketSizes
      BY <1>1 DEF Packets, Resent
    <3> QED BY <2>2, <3>1
  <2>4. sizes \in [1 .. Cardinality(Resent) -> PacketSizes]
    BY <2>2, <2>3
  <2> HIDE DEF sizes
  <2>5. sizes \in Seq(PacketSizes)
    BY <2>1, <2>4
  <2>6. queue' = queue \o sizes
    BY <2>2 DEF sizes
  <2> QED BY <2>5, <2>6 DEF IInv, TypeOK
<1>10. nextPN \in 0 .. MaxPN /\ nextPN \in Nat /\ timeouts' \in 0 .. MaxTimeouts
  BY <1>3, ConstantsAssumption DEF IInv, TypeOK
<1>11. TypeOK'
  <2>1. cc' \in Controller /\ recovered' \in BOOLEAN /\ flight' \subseteq Packets
    BY <1>1, <1>3, <1>7 DEF Floor
  <2> QED BY <1>3, <1>9, <1>10, <2>1 DEF IInv, TypeOK
<1>12. Numbers'
  BY <1>2, <1>3, <1>10 DEF IInv, Numbers
<1>13. InFlightExact'
  BY <1>3, <1>7 DEF InFlightExact
<1>14. Recovering'
  BY <1>8 DEF Recovering
<1> QED BY <1>3, <1>7, <1>11, <1>12, <1>13, <1>14, Together

LEMMA NextInv == ASSUME IInv, Next PROVE IInv'
<1>1. ASSUME NEW size \in Sizes, Send(size)
      PROVE  IInv'
  <2>1. queue' \in Seq(PacketSizes)
    BY <1>1 DEF Send, IInv, TypeOK
  <2>2. size \in PacketSizes
    BY DEF PacketSizes
  <2> QED BY <1>1, <2>1, <2>2, SentStep DEF Send
<1>2. ASSUME NEW p \in flight, Ack(p) \/ Lose(p)
      PROVE  IInv'
  BY <1>2, AckStep, LoseStep
<1>3. CASE Retransmit
  <2>1. Head(queue) \in PacketSizes /\ Tail(queue) \in Seq(PacketSizes)
    BY <1>3 DEF Retransmit, IInv, TypeOK
  <2> QED BY <1>3, <2>1, SentStep DEF Retransmit
<1>4. CASE Timeout
  BY <1>4, TimeoutStep
<1> QED BY <1>1, <1>2, <1>3, <1>4 DEF Next

(* The invariant holds throughout.                                         *)
THEOREM Invariance == Spec => []IInv
<1>1. UNCHANGED vars /\ IInv => IInv'
  BY DEF vars, network, IInv, TypeOK, Floor, Least, Numbers, InFlightExact, Recovering
<1>2. [Next]_vars /\ IInv => IInv'
  BY <1>1, NextInv
<1> QED BY <1>2, InitInv, PTL DEF Spec

(* The fields of each controller stay what the code declares them to be    *)
(* (congestion.go:17, bbr.go:60), and the slot of the bandwidth filter     *)
(* stays inside it.                                                        *)
THEOREM TypesHold == Spec => []TypeOK
<1>1. IInv => TypeOK
  BY DEF IInv
<1> QED BY <1>1, Invariance, PTL

(* For every size of packets, every growth of CUBIC, all rates of BBR and  *)
(* any succession of losses and timeouts, the window keeps its floor       *)
(* (congestion.go:107, cubic.go:180, bbr.go:370).                          *)
THEOREM WindowKeepsFloor == Spec => []WindowFloor
<1>1. IInv => WindowFloor
  BY Leasts DEF IInv, Floor, Least, WindowFloor, Controller
<1> QED BY <1>1, Invariance, PTL

(* However packets are sent, acknowledged, lost, sent again and timed out, *)
(* bytesInFlight is the bytes of those in flight (congctl.go:20): no       *)
(* packet is taken off twice, and none is forgotten.                       *)
THEOREM CountsExact == Spec => []InFlightExact
<1>1. IInv => InFlightExact
  BY DEF IInv
<1> QED BY <1>1, Invariance, PTL

(* A recovery of NewReno ends with the first acknowledgement of a packet   *)
(* sent after the reduction (congestion.go:65), so that the next loss      *)
(* reduces the window again.                                               *)
THEOREM LossReduces == Spec => NewRenoLossReduces
<1>1. ASSUME IInv, NEW p \in flight, algorithm = "NewReno", Lose(p), recovered
      PROVE  cc'.cwnd < cc.cwnd \/ cc.cwnd = MinCwnd
  BY <1>1, NewRenoLoss DEF IInv, Recovering
<1>2. IInv => [\A p \in flight :
                 algorithm = "NewReno" /\ Lose(p) /\ recovered
                   => cc'.cwnd < cc.cwnd \/ cc.cwnd = MinCwnd]_vars
  BY <1>1
<1> QED BY <1>2, Invariance, PTL DEF NewRenoLossReduces

-----------------------------------------------------------------------------
(* The round trip time estimator (Rtt.tla), for every clock and every      *)
(* succession of samples and delays.                                       *)
(* A tick is at most a microsecond. *)
Clock == Microsecond \in Nat \ {0} /\ Millisecond \in Nat \ {0} /\ MaxSample \in Nat

RttTyped ==
    /\ minRTT \in Nat /\ smoothedRTT \in Nat /\ latestRTT \in Nat
    /\ rttvar \in Nat /\ longest \in Nat

(* Until the first sample there is no value, and the next one is taken     *)
(* without smoothing; the initial variation is then forgotten.             *)
NoneYet ==
    latestRTT = 0 => minRTT = 0 /\ smoothedRTT = 0 /\ longest = 0

RttInv == RttTyped /\ NoneYet /\ WithinSamples

(* A weighted mean, rounded down, lies between any bounds of its parts.    *)
LEMMA MeanBetween ==
  ASSUME NEW low \in Nat, NEW high \in Nat,
         NEW a \in Nat, NEW b \in Nat, low <= a, a <= high, low <= b, b <= high
  PROVE  /\ (7 * a + b) \div 8 \in Nat
         /\ low <= (7 * a + b) \div 8 /\ (7 * a + b) \div 8 <= high
OBVIOUS

LEMMA VariationBelow ==
  ASSUME NEW high \in Nat, NEW v \in Nat, NEW d \in Nat, v <= high, d <= high
  PROVE  (3 * v + d) \div 4 \in Nat /\ (3 * v + d) \div 4 <= high
OBVIOUS

LEMMA DistanceBelow ==
  ASSUME NEW high \in Nat, NEW a \in Nat, NEW b \in Nat, a <= high, b <= high
  PROVE  Distance(a, b) \in Nat /\ Distance(a, b) <= high
BY DEF Distance, Greater, Smaller

LEMMA AdjustedPositive ==
  ASSUME Clock, NEW sample \in Nat, NEW ackDelay \in Nat
  PROVE  Adjusted(sample, ackDelay) \in Nat \ {0}
<1>1. Smaller(ackDelay, MaxAckDelay) \in Nat
  BY DEF Smaller, MaxAckDelay, Clock
<1> HIDE DEF Smaller
<1> QED BY <1>1 DEF Adjusted, Clock

LEMMA UpdateKeepsRtt ==
  ASSUME Clock, RttInv, NEW sample \in Nat, NEW ackDelay \in Nat, UpdateRTT(sample, ackDelay)
  PROVE  RttInv'
<1>1. PICK rtt \in Nat \ {0} : rtt = Adjusted(sample, ackDelay)
  BY AdjustedPositive
<1>2. /\ latestRTT' = rtt /\ longest' = Greater(longest, rtt)
      /\ minRTT' = IF minRTT = 0 THEN rtt ELSE Smaller(minRTT, rtt)
      /\ IF smoothedRTT \in {0, InitialRTT}
         THEN smoothedRTT' = rtt /\ rttvar' = rtt \div 2
         ELSE /\ rttvar' = (3 * rttvar + Distance(smoothedRTT, rtt)) \div 4
              /\ smoothedRTT' = (7 * smoothedRTT + rtt) \div 8
  BY <1>1 DEF UpdateRTT
<1>3. RttTyped
  BY DEF RttInv
<1>4. /\ longest' \in Nat /\ longest <= longest' /\ rtt <= longest'
      /\ minRTT' \in Nat \ {0} /\ minRTT' <= rtt
  BY <1>2, <1>3 DEF RttTyped, Greater, Smaller
<1>5. /\ smoothedRTT' \in Nat /\ minRTT' <= smoothedRTT' /\ smoothedRTT' <= longest'
      /\ rttvar' \in Nat /\ rttvar' <= longest'
  <2>1. CASE smoothedRTT \in {0, InitialRTT}
    <3>1. smoothedRTT' = rtt /\ rttvar' = rtt \div 2
      BY <1>2, <2>1
    <3>2. rtt \div 2 \in Nat /\ rtt \div 2 <= rtt
      OBVIOUS
    <3> QED BY <1>4, <3>1, <3>2
  <2>2. CASE smoothedRTT \notin {0, InitialRTT}
    <3>1. /\ smoothedRTT' = (7 * smoothedRTT + rtt) \div 8
          /\ rttvar' = (3 * rttvar + Distance(smoothedRTT, rtt)) \div 4
      BY <1>2, <2>2
    <3>2. latestRTT > 0
      BY <1>3, <2>2 DEF RttInv, NoneYet, RttTyped
    <3>3. /\ minRTT > 0 /\ minRTT <= smoothedRTT /\ smoothedRTT <= longest /\ rttvar <= longest
      BY <3>2 DEF RttInv, WithinSamples
    <3>4. minRTT' <= smoothedRTT /\ smoothedRTT <= longest' /\ rttvar <= longest'
      BY <1>2, <1>3, <1>4, <3>3 DEF RttTyped, Smaller
    <3>5. Distance(smoothedRTT, rtt) \in Nat /\ Distance(smoothedRTT, rtt) <= longest'
      BY <1>3, <1>4, <3>4, DistanceBelow DEF RttTyped
    <3>6. /\ (7 * smoothedRTT + rtt) \div 8 \in Nat
          /\ minRTT' <= (7 * smoothedRTT + rtt) \div 8
          /\ (7 * smoothedRTT + rtt) \div 8 <= longest'
      BY <1>3, <1>4, <3>4, MeanBetween DEF RttTyped
    <3>7. /\ (3 * rttvar + Distance(smoothedRTT, rtt)) \div 4 \in Nat
          /\ (3 * rttvar + Distance(smoothedRTT, rtt)) \div 4 <= longest'
      BY <1>3, <1>4, <3>4, <3>5, VariationBelow DEF RttTyped
    <3> QED BY <3>1, <3>6, <3>7
  <2> QED BY <2>1, <2>2
<1> QED BY <1>2, <1>4, <1>5 DEF RttInv, RttTyped, NoneYet, WithinSamples

LEMMA TimersBounded == ASSUME Clock PROVE RttInv => TimersInProportion
<1> USE DEF Clock
<1> SUFFICES ASSUME RttInv, latestRTT > 0
             PROVE  /\ LossDelay > latestRTT /\ LossDelay > smoothedRTT
                    /\ LossDelay <= 6 * longest + 1
                    /\ PTO >= smoothedRTT /\ PTO <= Greater(5 * longest, 200 * Millisecond)
  BY DEF TimersInProportion
<1>1. /\ smoothedRTT \in Nat \ {0} /\ latestRTT \in Nat \ {0} /\ rttvar \in Nat /\ longest \in Nat
      /\ smoothedRTT <= longest /\ latestRTT <= longest /\ rttvar <= longest
  BY DEF RttInv, RttTyped, WithinSamples
<1>2. PICK m \in Nat \ {0} : m = Greater(smoothedRTT, latestRTT)
  BY <1>1 DEF Greater
<1>3. smoothedRTT <= m /\ latestRTT <= m /\ m <= longest
  BY <1>1, <1>2 DEF Greater
<1>4. PICK t \in Nat : t = (9 * m + 7) \div 8 + 4 * rttvar
  BY <1>1, <1>2
<1>5. t > m /\ t <= 6 * longest + 1
  BY <1>1, <1>3, <1>4
<1>6. LossDelay = Greater(t, 2 * smoothedRTT)
  BY <1>1, <1>2, <1>4 DEF LossDelay
<1>7. LossDelay > latestRTT /\ LossDelay > smoothedRTT /\ LossDelay <= 6 * longest + 1
  BY <1>1, <1>3, <1>5, <1>6 DEF Greater
<1>8. PTO >= smoothedRTT /\ PTO <= Greater(5 * longest, 200 * Millisecond)
  BY <1>1 DEF PTO, Greater
<1> QED BY <1>7, <1>8

(* The estimator stays within the range of its samples.                    *)
THEOREM RttInvariance == ASSUME Clock PROVE RttSpec => []RttInv
<1>1. NewRTTStats => RttInv
  BY DEF Clock, NewRTTStats, RttInv, RttTyped, NoneYet, WithinSamples
<1>2. RttInv /\ [NewSample]_rttStats => RttInv'
  <2>1. ASSUME RttInv, NewSample PROVE RttInv'
    <3>1. PICK sample \in 0 .. MaxSample, ackDelay \in 0 .. MaxSample : UpdateRTT(sample, ackDelay)
      BY <2>1 DEF NewSample
    <3> QED BY <2>1, <3>1, UpdateKeepsRtt DEF Clock
  <2>2. ASSUME RttInv, UNCHANGED rttStats PROVE RttInv'
    BY <2>2 DEF rttStats, RttInv, RttTyped, NoneYet, WithinSamples
  <2> QED BY <2>1, <2>2
<1> QED BY <1>1, <1>2, PTL DEF RttSpec

(* However samples and the delays of the peer (rtt.go:48) follow each      *)
(* other, smoothing and rounding stay within the range of what was         *)
(* measured, although a smoothed value of 333 ms starts afresh             *)
(* (rtt.go:67).                                                            *)
THEOREM StaysWithinSamples == ASSUME Clock PROVE RttSpec => []WithinSamples
<1>1. RttInv => WithinSamples
  BY DEF RttInv
<1> QED BY <1>1, RttInvariance, PTL

(* The time after which a packet is lost (rtt.go:112) and the probe        *)
(* timeout (rtt.go:102) leave room for a round trip such as the latest or  *)
(* the average one, and are bounded by the longest.                        *)
THEOREM TimersStayInProportion == ASSUME Clock PROVE RttSpec => []TimersInProportion
<1> QED BY TimersBounded, RttInvariance, PTL
=============================================================================
