--------------------------------- MODULE Rtt ---------------------------------
(***************************************************************************)
(* The round trip time estimator (quic/utils/rtt.go), which the run        *)
(* goroutine asks how long to wait before a packet is lost, and to probe.  *)
(* Durations are natural numbers of a clock, whose tick is a nanosecond in *)
(* the code; the divisions are those of integers, as there.                *)
(***************************************************************************)
EXTENDS Integers

CONSTANTS
    Microsecond, Millisecond,   \* in ticks of the clock (1000 and 1000000)
    MaxSample                   \* bound: the longest time from sending to ACK

InitialRTT  == 333 * Millisecond
MaxAckDelay == 25 * Millisecond

VARIABLES
    minRTT, smoothedRTT, rttvar, latestRTT,
    longest         \* the longest of latestRTT so far

rttStats == <<minRTT, smoothedRTT, rttvar, latestRTT, longest>>

NewRTTStats ==
    /\ minRTT = 0 /\ smoothedRTT = 0 /\ latestRTT = 0 /\ longest = 0
    /\ rttvar = 166 * Millisecond

Smaller(a, b) == IF a < b THEN a ELSE b
Greater(a, b) == IF a < b THEN b ELSE a
Distance(a, b) == Greater(a, b) - Smaller(a, b)

(* The sample without the delay of the peer, unless nothing is left of it. *)
Adjusted(sample, ackDelay) ==
    LET rtt   == IF sample = 0 THEN Microsecond ELSE sample
        delay == Smaller(ackDelay, MaxAckDelay)
    IN  IF rtt <= delay THEN rtt ELSE rtt - delay

(* A smoothed value of exactly InitialRTT counts as none. *)
UpdateRTT(sample, ackDelay) ==
    LET rtt == Adjusted(sample, ackDelay)
    IN  /\ latestRTT' = rtt
        /\ longest' = Greater(longest, rtt)
        /\ minRTT' = IF minRTT = 0 THEN rtt ELSE Smaller(minRTT, rtt)
        /\ IF smoothedRTT \in {0, InitialRTT}
           THEN smoothedRTT' = rtt /\ rttvar' = rtt \div 2
           ELSE /\ rttvar' = (3 * rttvar + Distance(smoothedRTT, rtt)) \div 4
                /\ smoothedRTT' = (7 * smoothedRTT + rtt) \div 8

NewSample ==
    \E sample \in 0 .. MaxSample, ackDelay \in 0 .. MaxSample : UpdateRTT(sample, ackDelay)

RttSpec == NewRTTStats /\ [][NewSample]_rttStats

PTO == Greater(smoothedRTT + 4 * rttvar, 200 * Millisecond)

(* math.Ceil of nine eighths. *)
LossDelay ==
    LET threshold == (9 * Greater(smoothedRTT, latestRTT) + 7) \div 8 + 4 * rttvar
    IN  IF smoothedRTT > 0 THEN Greater(threshold, 2 * smoothedRTT) ELSE threshold

-----------------------------------------------------------------------------
(* Smoothing and rounding never leave the range of what was measured, and  *)
(* the variation never exceeds the longest round trip (rtt.go:66).         *)
WithinSamples ==
    latestRTT > 0 =>
        /\ 0 < minRTT /\ minRTT <= smoothedRTT /\ smoothedRTT <= longest
        /\ minRTT <= latestRTT /\ latestRTT <= longest
        /\ 0 <= rttvar /\ rttvar <= longest

(* Neither timer ends before a round trip such as the latest or the        *)
(* average one could, and neither is out of proportion to the longest      *)
(* (rtt.go:102, rtt.go:112).                                               *)
TimersInProportion ==
    latestRTT > 0 =>
        /\ LossDelay > latestRTT /\ LossDelay > smoothedRTT
        /\ LossDelay <= 6 * longest + 1
        /\ PTO >= smoothedRTT /\ PTO <= Greater(5 * longest, 200 * Millisecond)
=============================================================================
