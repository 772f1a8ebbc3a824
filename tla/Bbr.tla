-------------------------------- MODULE Bbr --------------------------------
(***************************************************************************)
(* The BBR controller (quic/utils/bbr.go).  The fields it has in common    *)
(* with NewReno are in the record r, the others in the record b.           *)
(*                                                                         *)
(* Time is abstracted: how long a round has lasted, so what rate it has,   *)
(* how old rtProp is and whether ProbeRTT has lasted long enough may be    *)
(* anything.  Pacing, which holds a packet back for less than a            *)
(* millisecond, and the cycle of its gains are left out.                   *)
(*                                                                         *)
(* An operator X_Fault is X with a bug put in (PROJECT.json, "mutants").   *)
(***************************************************************************)
EXTENDS NewReno

CONSTANTS
    BbrMinCwnd,    \* bbrMinPipeCwnd (2 MB)
    FilterLen,     \* bbrBWFilterLen (10)
    RoundPackets,  \* packet numbers a round has at most (1000)
    Rates,         \* bound: the rates of rounds
    MaxRtProp      \* rtProp at the start (100 ms)

ASSUME BbrAssumption ==
    /\ BbrMinCwnd \in Nat /\ BbrMinCwnd >= MinCwnd
    /\ FilterLen \in Nat \ {0} /\ RoundPackets \in Nat
    /\ Rates \subseteq Nat \ {0}
    /\ MaxRtProp \in Nat \ {0}

Slots == 0 .. FilterLen - 1

BbrState ==
    [state : {"Startup", "Drain", "ProbeBW", "ProbeRTT"},
     btlBw : Rates \cup {0}, btlBwFilter : [Slots -> Rates \cup {0}], bwFilterIdx : Slots,
     rtProp : 1 .. MaxRtProp, rtPropStamp : {"never", "recent", "old"},
     roundCount : Nat, lossInStartup : 0 .. 2]

NewBbr ==
    [state |-> "Startup", btlBw |-> 0, btlBwFilter |-> [i \in Slots |-> 0], bwFilterIdx |-> 0,
     rtProp |-> MaxRtProp, rtPropStamp |-> "never", roundCount |-> 0, lossInStartup |-> 0]

Bdp(b) == b.btlBw * b.rtProp

(* SetRTTStats gives it the smallest RTT; 10 s after that changed last,    *)
(* it is old.                                                              *)
Measured(b) ==
    {[b EXCEPT !.rtProp = rtt, !.rtPropStamp = "recent"] : rtt \in 1 .. b.rtProp - 1}
      \cup {b}
      \cup {[b EXCEPT !.rtPropStamp = "old"] : s \in {b.rtPropStamp} \ {"never"}}

(* startNewRound and updateBtlBw: the best rate of the last FilterLen.     *)
Rounds(b, rate) ==
    LET filter == [b.btlBwFilter EXCEPT ![b.bwFilterIdx] = rate]
    IN  {[b EXCEPT !.roundCount = @ + 1, !.btlBwFilter = filter,
                   !.bwFilterIdx = (@ + 1) % FilterLen, !.btlBw = filter[i]] :
            i \in {j \in Slots : \A k \in Slots : filter[k] <= filter[j]}}

(* prevRoundBw has been overwritten with the rate of this very round.      *)
BwGrew(b, rate) == 4 * b.btlBw >= 5 * rate

(* advanceState: the states that may follow.  ProbeRTT returns to ProbeBW, *)
(* from which alone it is entered.                                         *)
Successors(b, rate, inFlight) ==
    CASE b.state = "Startup"  -> {IF b.roundCount >= 3 /\ ~BwGrew(b, rate) THEN "Drain" ELSE "Startup"}
      [] b.state = "Drain"    -> {IF inFlight <= Bdp(b) THEN "ProbeBW" ELSE "Drain"}
      [] b.state = "ProbeBW"  -> {IF b.rtPropStamp = "old" THEN "ProbeRTT" ELSE "ProbeBW"}
      [] b.state = "ProbeRTT" -> {"ProbeBW"} \cup (IF inFlight <= BbrMinCwnd THEN {} ELSE {"ProbeRTT"})

Advanced(b, rate, inFlight) ==
    {[b EXCEPT !.state = s,
               !.lossInStartup = IF b.state = "Startup" /\ s = "Drain" THEN 0 ELSE @] :
        s \in Successors(b, rate, inFlight)}

CwndGain(b) == IF b.state = "Startup" THEN 8 ELSE 2

(* updatePacingAndCwnd *)
Cwnd_Floorless(b) == IF b.state = "ProbeRTT" THEN BbrMinCwnd ELSE CwndGain(b) * Bdp(b)
Cwnd(b) ==
    IF b.state = "ProbeRTT" THEN BbrMinCwnd ELSE AtLeast(BbrMinCwnd, CwndGain(b) * Bdp(b))

(* A round that ends has a rate, as something has been delivered.          *)
AfterRound(b, inFlight) ==
    UNION {UNION {Advanced(s, rate, inFlight) : s \in Rounds(b, rate)} : rate \in Rates}

(* OnPacketAcked: the results it may have.  A packet number that is high   *)
(* enough ends the round, and so may the time.                             *)
BbrAcked(r, b, acked, pn) ==
    LET counted == [r EXCEPT !.bytesInFlight = @ - acked]
    IN  UNION {{<<[counted EXCEPT !.cwnd = Cwnd(a)], a>> : a \in AfterRound(m, counted.bytesInFlight)}
                 \cup (IF pn >= RoundPackets * m.roundCount THEN {} ELSE {<<counted, m>>}) :
               m \in Measured(b)}

(* OnPacketLost: the third loss ends Startup, later ones are noted.        *)
BbrLost(r, b, pn) ==
    IF b.state # "Startup"
    THEN <<[r EXCEPT !.inRecovery = TRUE, !.recoveryPoint = pn], b>>
    ELSE IF b.lossInStartup < 2
         THEN <<r, [b EXCEPT !.lossInStartup = @ + 1]>>
         ELSE <<r, [b EXCEPT !.lossInStartup = 0, !.state = "Drain"]>>

BbrNeedsRetransmit(r) == [r EXCEPT !.cwnd = BbrMinCwnd, !.inRecovery = FALSE]

(* CanSend knows no recovery. *)
BbrCanSend(r, bytes) == r.bytesInFlight + bytes <= r.cwnd
=============================================================================
