------------------------------- MODULE Cubic -------------------------------
(***************************************************************************)
(* The CUBIC controller (quic/utils/cubic.go), which differs from NewReno  *)
(* in how it grows, how far it falls, and in what ends a recovery.  How    *)
(* much cubicUpdate adds depends on the time since the last loss: here it  *)
(* is any amount up to a bound.                                            *)
(*                                                                         *)
(* An operator X_Fault is X with a bug put in (PROJECT.json, "mutants").   *)
(***************************************************************************)
EXTENDS NewReno

CONSTANT MaxGrowth   \* bound: what cubicUpdate adds at most

ASSUME GrowthAssumption == MaxGrowth \in Nat

(* cwnd * (1 - cubicBeta), cubicBeta = 0.3. *)
Reduced(cwnd) == AtLeast(MinCwnd, (cwnd * 7) \div 10)

(* The results OnPacketAcked may have: growth in any case, whether or not  *)
(* in recovery, and inRecovery is left as it is.                           *)
CubicAcked_Uncounted(r, acked) ==
    LET windows == IF r.cwnd < r.ssthresh THEN {Grown(r.cwnd, r.ssthresh, acked)}
                   ELSE {r.cwnd + n : n \in 0 .. MaxGrowth}
    IN  {[r EXCEPT !.cwnd = w] : w \in windows}

CubicAcked(r, acked) ==
    LET slowStart == r.cwnd < r.ssthresh
        windows   == IF slowStart THEN {Grown(r.cwnd, r.ssthresh, acked)}
                     ELSE {r.cwnd + n : n \in 0 .. MaxGrowth}
    IN  {[r EXCEPT !.bytesInFlight = @ - acked, !.cwnd = w] : w \in windows}

CubicLost(r, pn) ==
    IF r.inRecovery THEN r
    ELSE [r EXCEPT !.inRecovery = TRUE,
                   !.recoveryPoint = pn,
                   !.ssthresh = Reduced(r.cwnd),
                   !.cwnd = Reduced(r.cwnd)]
=============================================================================
