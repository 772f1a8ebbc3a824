------------------------------ MODULE MCPacket ------------------------------
(***************************************************************************)
(* Frames for Packet.  The numbers lie on both sides of the limits between *)
(* varints of one, two and four bytes, and the data are bytes that would   *)
(* be frames themselves if a length were read wrongly.                     *)
(***************************************************************************)
EXTENDS Packet

(* The window of a four-byte number is cut to 2^30, to stay within the     *)
(* integers TLC computes with.                                             *)
MCWindows == <<256, 65536, 16777216, 1073741824>>

Data == <<1, 10, 16, 29, 8, 2, 1, 0, 6, 22, 1, 1, 1, 1>>

MCSent ==
    {StreamFrame(id, off, SubSeq(Data, 1, len), FALSE, TRUE) :
        id \in {0, 64}, off \in {0, 63, 64}, len \in {1, 6, 14}}
      \cup {StreamFrame(0, off, <<>>, TRUE, TRUE) : off \in {0, 64, 16384}}
      \cup {CloseFrame(FALSE, 1, <<29>>), [type |-> 27, data |-> SubSeq(Data, 1, 8)]}

MCQueued ==
    {NumbersFrame(17, <<4, max>>) : max \in {63, 16384}}
      \cup {AckFrameOf(<<AckRange(6, 70)>>, 25),
            AckFrameOf(<<AckRange(70, 70), AckRange(3, 4), AckRange(1, 1)>>, 64)}

MCInitials == {NumbersFrame(1, <<>>), NumbersFrame(16, <<1048576>>), NumbersFrame(18, <<100>>)}

MCConnID == <<200, 1>>
MCPeerID == <<5, 64, 0>>
=============================================================================
