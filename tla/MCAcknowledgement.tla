------------------------- MODULE MCAcknowledgement -------------------------
EXTENDS Acknowledgement, AckFrame

(* Windows of 6, 16, 64 and 256 numbers instead of 2^8 .. 2^32.            *)
SmallWindows == <<6, 16, 64, 256>>

(* buildAckRanges, by sorting and merging, makes the ranges of the model,  *)
(* largest first, whatever the order of arrival and the duplicates; and    *)
(* parseAckFrame reads back what AckFrame.Append has written of them.      *)
RangesExact ==
    history # <<>> =>
        LET ranges == BuildAckRanges(history, MaxRanges)
            frame  == WriteRanges(ranges)
        IN  /\ ToSet(ranges) = AckRanges(Recent)
            /\ \A i \in 1 .. Len(ranges) - 1 : ranges[i].smallest > ranges[i + 1].largest + 1
            /\ ReadRanges(frame) = ranges
=============================================================================
