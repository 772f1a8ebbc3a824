------------------------------ MODULE AckFrame ------------------------------
(***************************************************************************)
(* ACK frames: how the ranges are built from the numbers received          *)
(* (buildAckRanges and sortPacketNumbers in quic/conn.go) and how they are *)
(* written and read (quic/wire/ack_frame.go).                              *)
(***************************************************************************)
EXTENDS Integers, SequencesExt

AckRange(smallest, largest) == [smallest |-> smallest, largest |-> largest]

(* sortPacketNumbers: an exchange sort, largest first.  The inner loop     *)
(* brings the largest of the numbers from i on to place i.                 *)
Swap(s, i, j) == [s EXCEPT ![i] = s[j], ![j] = s[i]]

Exchange(s, i, j) == IF s[j] > s[i] THEN Swap(s, i, j) ELSE s

Pass(s, i) ==
    LET upTo[j \in i .. Len(s)] == IF j = i THEN s ELSE Exchange(upTo[j - 1], i, j)
    IN  upTo[Len(s)]

SortPacketNumbers(pns) ==
    LET after[i \in 0 .. Len(pns)] == IF i = 0 THEN pns ELSE Pass(after[i - 1], i)
    IN  after[Len(pns)]

(* The loop of buildAckRanges over the sorted numbers: the next one        *)
(* extends the current range, repeats it, or starts another.               *)
Extend_Gap(ranges, pn) ==
    IF pn < Last(ranges).smallest
    THEN Append(Front(ranges), AckRange(pn, Last(ranges).largest))
    ELSE ranges

Extend(ranges, pn) ==
    LET current == Last(ranges)
    IN  CASE pn = current.smallest - 1 ->
               Append(Front(ranges), AckRange(pn, current.largest))
          [] pn < current.smallest - 1 -> Append(ranges, AckRange(pn, pn))
          [] OTHER -> ranges

RangesOf(sorted) ==
    LET after[i \in 1 .. Len(sorted)] == IF i = 1 THEN <<AckRange(sorted[1], sorted[1])>>
                                         ELSE Extend(after[i - 1], sorted[i])
    IN  after[Len(sorted)]

Cut(ranges, maxRanges) ==
    SubSeq(ranges, 1, IF Len(ranges) > maxRanges THEN maxRanges ELSE Len(ranges))

BuildAckRanges(packets, maxRanges) == Cut(RangesOf(SortPacketNumbers(packets)), maxRanges)

(* AckFrame.Append: the first range by its end and length, the others by   *)
(* the gap to the range before and their length.                           *)
Block(before, r) ==
    [gap |-> before.smallest - r.largest - 2, len |-> r.largest - r.smallest]

WriteRanges(ranges) ==
    [largest |-> ranges[1].largest,
     first   |-> ranges[1].largest - ranges[1].smallest,
     blocks  |-> [i \in 1 .. Len(ranges) - 1 |-> Block(ranges[i], ranges[i + 1])]]

(* parseAckFrame. *)
ParseBlock(ranges, block) ==
    LET largest == Last(ranges).smallest - block.gap - 2
    IN  Append(ranges, AckRange(largest - block.len, largest))

ReadRanges(frame) ==
    LET after[i \in 0 .. Len(frame.blocks)] ==
            IF i = 0 THEN <<AckRange(frame.largest - frame.first, frame.largest)>>
            ELSE ParseBlock(after[i - 1], frame.blocks[i])
    IN  after[Len(frame.blocks)]
=============================================================================
