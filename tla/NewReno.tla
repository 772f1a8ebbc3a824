------------------------------ MODULE NewReno ------------------------------
(***************************************************************************)
(* The NewReno controller (quic/utils/congestion.go): its methods as       *)
(* operators on the record of its fields.                                  *)
(*                                                                         *)
(* An operator X_Fault is X with a bug put in (PROJECT.json, "mutants").   *)
(***************************************************************************)
EXTENDS Integers

CONSTANTS
    MSS,          \* maxDatagramSize (1200 bytes)
    MinCwnd,      \* minCwnd (2 * MSS)
    InitialCwnd,  \* 10 * MSS
    Infinite      \* ssthresh before any loss (math.MaxInt32)

ASSUME WindowAssumption ==
    /\ MSS \in Nat \ {0} /\ MinCwnd \in Nat \ {0} /\ InitialCwnd \in Nat /\ Infinite \in Nat
    /\ MinCwnd <= InitialCwnd /\ InitialCwnd <= Infinite

Controller ==
    [cwnd : Nat, ssthresh : Nat, inRecovery : BOOLEAN, recoveryPoint : Nat,
     bytesInFlight : Int]

AtLeast(floor, n) == IF n < floor THEN floor ELSE n

New ==
    [cwnd |-> InitialCwnd, ssthresh |-> Infinite, inRecovery |-> FALSE,
     recoveryPoint |-> 0, bytesInFlight |-> 0]

OnPacketSent(r, bytes) == [r EXCEPT !.bytesInFlight = @ + bytes]

(* Slow start stops at ssthresh; beyond it the window grows by at least 1. *)
Grown(cwnd, ssthresh, acked) ==
    IF cwnd < ssthresh
    THEN IF cwnd + acked > ssthresh THEN ssthresh ELSE cwnd + acked
    ELSE cwnd + AtLeast(1, (acked * MSS) \div cwnd)

OnPacketAcked_Stays(r, acked, pn) ==
    IF r.inRecovery /\ pn <= r.recoveryPoint
    THEN [r EXCEPT !.bytesInFlight = @ - acked]
    ELSE [r EXCEPT !.bytesInFlight = @ - acked, !.cwnd = Grown(@, r.ssthresh, acked)]

OnPacketAcked(r, acked, pn) ==
    IF r.inRecovery /\ pn <= r.recoveryPoint
    THEN [r EXCEPT !.bytesInFlight = @ - acked]
    ELSE [r EXCEPT !.inRecovery = FALSE,
                   !.bytesInFlight = @ - acked,
                   !.cwnd = Grown(@, r.ssthresh, acked)]

Halved_Step(cwnd) == cwnd - 2 * MSS - 1
Halved(cwnd) == AtLeast(MinCwnd, cwnd \div 2)

OnPacketLost(r, pn) ==
    IF r.inRecovery THEN r
    ELSE [r EXCEPT !.inRecovery = TRUE,
                   !.recoveryPoint = pn,
                   !.ssthresh = Halved(r.cwnd),
                   !.cwnd = Halved(r.cwnd)]

OnPacketDiscarded_Kept(r, bytes) == r
OnPacketDiscarded(r, bytes) == [r EXCEPT !.bytesInFlight = @ - bytes]

OnPacketNeedsRetransmit(r) ==
    [r EXCEPT !.inRecovery = FALSE,
              !.ssthresh = Halved(r.cwnd),
              !.cwnd = MinCwnd]

(* In recovery one packet more than the window is let through. *)
CanSend(r, bytes) ==
    r.bytesInFlight + bytes <= r.cwnd + (IF r.inRecovery THEN MSS ELSE 0)
=============================================================================
