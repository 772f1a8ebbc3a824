---------------------------- MODULE MCListener -----------------------------
EXTENDS Listener

CONSTANTS c1, c2, a1, a2, a3

TwoHomes == [c \in {c1, c2} |-> IF c = c1 THEN a1 ELSE a2]
=============================================================================
