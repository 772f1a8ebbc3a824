------------------------------- MODULE Frames -------------------------------
(***************************************************************************)
(* The frames of quic/wire: how each is written (Append) and how the bytes *)
(* of a packet are read as frames again (FrameParser.ParseNext and the     *)
(* loop of Connection.parseAndHandleFrames).  "type" is the first byte of  *)
(* the frame, for STREAM, ACK and CONNECTION_CLOSE the lowest of theirs.   *)
(***************************************************************************)
EXTENDS Varint, AckFrame

(* Frames whose body is so many integers: PING, RESET_STREAM, STOP_SENDING,*)
(* MAX_DATA, MAX_STREAM_DATA, MAX_STREAMS, DATA_BLOCKED,                   *)
(* STREAM_DATA_BLOCKED, STREAMS_BLOCKED (for both kinds of stream).        *)
NumberCount ==
    [t \in {1, 4, 5} \cup 16 .. 23 |-> CASE t = 1 -> 0
                                         [] t = 4 -> 3
                                         [] t \in {5, 17, 21} -> 2
                                         [] OTHER -> 1]

NumbersFrame(type, nums) == [type |-> type, nums |-> nums]

StreamFrame(id, off, data, fin, lenPresent) ==
    [type |-> 8, id |-> id, off |-> off, data |-> data, fin |-> fin, lenPresent |-> lenPresent]

AckFrameOf(ranges, delay) == [type |-> 2, ranges |-> ranges, delay |-> delay]

CloseFrame(app, code, reason) == [type |-> 28, app |-> app, code |-> code, reason |-> reason]

Bit(b, mask) == (b \div mask) % 2 = 1
If(flag, n) == IF flag THEN n ELSE 0

---------------------------------------------------------------------------
(* Writing *)

AppendStream(f) ==
    <<8 + If(f.off > 0, 4) + If(f.lenPresent, 2) + If(f.fin, 1)>>
        \o Varint(f.id)
        \o (IF f.off > 0 THEN Varint(f.off) ELSE <<>>)
        \o (IF f.lenPresent THEN Counted(f.data) ELSE f.data)

AppendAck(f) ==
    LET wire == WriteRanges(f.ranges)
    IN  <<2>> \o Varints(<<wire.largest, f.delay, Len(wire.blocks), wire.first>>)
              \o FlattenSeq([i \in DOMAIN wire.blocks |->
                               Varints(<<wire.blocks[i].gap, wire.blocks[i].len>>)])

AppendClose(f) ==
    <<28 + If(f.app, 1)>> \o Varint(f.code) \o (IF f.app THEN <<>> ELSE Varint(0))
                          \o Counted(f.reason)

AppendFrame(f) ==
    CASE f.type = 0  -> [i \in 1 .. f.len |-> 0]
      [] f.type = 2  -> AppendAck(f)
      [] f.type = 6  -> <<6>> \o Varint(f.off) \o Counted(f.data)
      [] f.type = 8  -> AppendStream(f)
      [] f.type = 28 -> AppendClose(f)
      [] f.type \in {26, 27} -> <<f.type>> \o f.data
      [] OTHER -> <<f.type>> \o Varints(f.nums)

Bytes(frames) == FlattenSeq([i \in DOMAIN frames |-> AppendFrame(frames[i])])

---------------------------------------------------------------------------
(* Reading: of the bytes b of which the first is the type. *)

Parsed(frame, rest) == [frame |-> frame, rest |-> rest]

ParsePadding(b) ==
    LET other == SelectInSeq(b, LAMBDA byte : byte # 0)
        len   == IF other = 0 THEN Len(b) ELSE other - 1
    IN  {Parsed([type |-> 0, len |-> len], SubSeq(b, len + 1, Len(b)))}

ParseNumbers(b) ==
    {Parsed(NumbersFrame(b[1], r.nums), r.rest) : r \in ParseVarints(Tail(b), NumberCount[b[1]])}

ParseStream(b) ==
    UNION {{Parsed(StreamFrame(r.nums[1], IF Bit(b[1], 4) THEN r.nums[2] ELSE 0, d.bytes,
                               Bit(b[1], 1), Bit(b[1], 2)), d.rest)
              : d \in IF Bit(b[1], 2) THEN ParseCounted(r.rest) ELSE ParseBytes(r.rest, Len(r.rest))}
             : r \in ParseVarints(Tail(b), IF Bit(b[1], 4) THEN 2 ELSE 1)}

ParseAck(b) ==
    UNION {{Parsed(AckFrameOf(
                ReadRanges([largest |-> h.nums[1], first |-> h.nums[4],
                           blocks |-> [i \in 1 .. h.nums[3] |-> [gap |-> r.nums[2 * i - 1],
                                                                 len |-> r.nums[2 * i]]]]),
                h.nums[2]), r.rest)
              : r \in ParseVarints(h.rest, 2 * h.nums[3])}
             : h \in ParseVarints(Tail(b), 4)}

ParseClose(b) ==
    UNION {{Parsed(CloseFrame(b[1] = 29, h.nums[1], d.bytes), d.rest) : d \in ParseCounted(h.rest)}
             : h \in ParseVarints(Tail(b), IF b[1] = 29 THEN 1 ELSE 2)}

ParseCrypto(b) ==
    UNION {{Parsed([type |-> 6, off |-> o.val, data |-> d.bytes], d.rest) : d \in ParseCounted(o.rest)}
             : o \in ParseVarint(Tail(b))}

ParsePath(b) ==
    {Parsed([type |-> b[1], data |-> d.bytes], d.rest) : d \in ParseBytes(Tail(b), 8)}

ParseNext(b) ==
    CASE b[1] = 0           -> ParsePadding(b)
      [] b[1] \in {2, 3}    -> ParseAck(b)
      [] b[1] = 6           -> ParseCrypto(b)
      [] b[1] \in 8 .. 15   -> ParseStream(b)
      [] b[1] \in {26, 27}  -> ParsePath(b)
      [] b[1] \in {28, 29}  -> ParseClose(b)
      [] b[1] \in DOMAIN NumberCount -> ParseNumbers(b)
      [] OTHER -> {}

(* parseAndHandleFrames: frame by frame until the bytes end, or up to the  *)
(* first that cannot be read; padding is not handled.                      *)
HandleNext(acc) ==
    LET next == IF acc.rest = <<>> THEN {} ELSE ParseNext(acc.rest)
    IN  IF next = {} THEN [acc EXCEPT !.rest = <<>>]
        ELSE LET p == CHOOSE p \in next : TRUE
             IN  [frames |-> IF p.frame.type = 0 THEN acc.frames ELSE Append(acc.frames, p.frame),
                  rest   |-> p.rest]

ParseFrames(b) ==
    LET after[i \in 0 .. Len(b)] == IF i = 0 THEN [frames |-> <<>>, rest |-> b]
                                    ELSE HandleNext(after[i - 1])
    IN  after[Len(b)].frames
=============================================================================
