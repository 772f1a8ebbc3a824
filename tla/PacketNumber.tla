---------------------------- MODULE PacketNumber ----------------------------
(***************************************************************************)
(* Packet numbers on the wire (quic/protocol/types.go): a header carries   *)
(* the low 1 to 4 bytes of the number, and the receiver completes them     *)
(* with the help of the largest number it has seen.                        *)
(***************************************************************************)
EXTENDS Integers

CONSTANTS
    Windows,   \* numbers a header of 1 .. 4 bytes tells apart: 2^8, .., 2^32
    Limit      \* 2^62

Lengths == 1 .. 4

ASSUME WindowsAssumption ==
    /\ Limit \in Nat
    /\ Windows \in [Lengths -> Nat]
    /\ \A len \in Lengths : Windows[len] > 0 /\ Windows[len] % 2 = 0

Half(len) == Windows[len] \div 2

(* PacketNumberLengthForHeader. *)
HeaderLength(pn, largestAcked) ==
    IF pn < Half(1) /\ largestAcked < Half(1) THEN 1
    ELSE IF pn - largestAcked < Half(2) THEN 2
    ELSE IF pn - largestAcked < Half(3) THEN 3
    ELSE 4

(* AppendPacketNumber, EncodePacketNumber. *)
Truncate(len, pn) == pn % Windows[len]

(* DecodePacketNumber. *)
Decode(len, largest, truncated) ==
    LET expected  == largest + 1
        win       == Windows[len]
        candidate == (expected - (expected % win)) + truncated
    IN  CASE candidate <= expected - Half(len) /\ candidate < Limit - win -> candidate + win
          [] candidate > expected + Half(len) /\ candidate >= win -> candidate - win
          [] OTHER -> candidate

(* The numbers a header of this length can stand for: half a window each   *)
(* way around the number that is expected next.                            *)
Decodable(len, largest, pn) ==
    largest + 1 - Half(len) < pn /\ pn <= largest + 1 + Half(len)
=============================================================================
