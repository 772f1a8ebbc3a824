------------------------------- MODULE Varint -------------------------------
(***************************************************************************)
(* Variable-length integers (quic/quicvarint/varint.go): one, two, four or *)
(* eight bytes, big endian, the width in the two highest bits of the first *)
(* byte.  A parser returns the set of its results, which is empty when the *)
(* bytes end too early: Parse there returns an error.                      *)
(***************************************************************************)
EXTENDS Integers, SequencesExt

Byte == 0 .. 255

BigEndian(v, width) ==
    LET left[i \in 0 .. width] == IF i = 0 THEN v ELSE left[i - 1] \div 256
    IN  [i \in 1 .. width |-> left[width - i] % 256]

Unsigned(first, bytes) ==
    LET upTo[i \in 0 .. Len(bytes)] == IF i = 0 THEN first ELSE 256 * upTo[i - 1] + bytes[i]
    IN  upTo[Len(bytes)]

(* Len *)
VarintLen_Boundary(v) ==
    CASE v <= 64                      -> 1
      [] v > 64 /\ v <= 16383         -> 2
      [] v > 16383 /\ v <= 1073741823 -> 4
      [] v > 1073741823               -> 8

VarintLen(v) ==
    CASE v <= 63                      -> 1
      [] v > 63 /\ v <= 16383         -> 2
      [] v > 16383 /\ v <= 1073741823 -> 4
      [] v > 1073741823               -> 8

(* The width, by the two highest bits of the first byte. *)
Widths == <<1, 2, 4, 8>>

(* Append *)
Varint(v) ==
    LET width == VarintLen(v)
        tag   == CHOOSE t \in 0 .. 3 : Widths[t + 1] = width
    IN  [BigEndian(v, width) EXCEPT ![1] = @ + 64 * tag]

(* Parse *)
ParseVarint(b) ==
    IF b = <<>> \/ Len(b) < Widths[(b[1] \div 64) + 1] THEN {}
    ELSE LET width == Widths[(b[1] \div 64) + 1]
         IN  {[val  |-> Unsigned(b[1] % 64, SubSeq(b, 2, width)),
               rest |-> SubSeq(b, width + 1, Len(b))]}

(* k integers one after the other; k of them, given; n bytes; a length and *)
(* that many bytes.                                                        *)
ParseAnother(results) ==
    UNION {{[nums |-> Append(r.nums, n.val), rest |-> n.rest] : n \in ParseVarint(r.rest)}
             : r \in results}

ParseVarints(b, k) ==
    LET after[i \in 0 .. k] == IF i = 0 THEN {[nums |-> <<>>, rest |-> b]}
                               ELSE ParseAnother(after[i - 1])
    IN  after[k]

Varints(nums) == FlattenSeq([i \in DOMAIN nums |-> Varint(nums[i])])

ParseBytes(b, n) ==
    IF n > Len(b) THEN {} ELSE {[bytes |-> SubSeq(b, 1, n), rest |-> SubSeq(b, n + 1, Len(b))]}

ParseCounted(b) == UNION {ParseBytes(n.rest, n.val) : n \in ParseVarint(b)}

Counted(bytes) == Varint(Len(bytes)) \o bytes
=============================================================================
