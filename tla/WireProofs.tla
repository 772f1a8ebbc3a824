----------------------------- MODULE WireProofs -----------------------------
(***************************************************************************)
(* What is written is read (AckFrame.tla, Varint.tla, Frames.tla): every   *)
(* variable-length integer, the ranges of an ACK frame, every frame, and   *)
(* the frames packed one behind the other.                                 *)
(*                                                                         *)
(* The loops of the code are recursive functions in the model.  What they  *)
(* compute is proved by induction over their turns, which is the lemma     *)
(* Induction: a set of natural numbers that holds 0 and the successor of   *)
(* each of its members holds all.                                          *)
(***************************************************************************)
EXTENDS Frames, PacketNumber, SequenceTheorems, WellFoundedInduction, TLAPS

(* Induction over the natural numbers, for a set of them. *)
LEMMA Induction ==
  ASSUME NEW S, 0 \in S, \A n \in Nat : n \in S => n + 1 \in S
  PROVE  Nat \subseteq S
<1>1. SUFFICES ASSUME Nat \ S # {} PROVE FALSE
  OBVIOUS
<1>2. PICK R : R = OpToRel(<, Nat)
  OBVIOUS
<1>3. \A m, n \in Nat : m < n => <<m, n>> \in R
  BY <1>2 DEF OpToRel
<1>4. IsWellFoundedOn(R, Nat)
  BY <1>2, NatLessThanWellFounded
<1>5. PICK T : T = Nat \ S
  OBVIOUS
<1>6. PICK x \in T : \A y \in T : ~ (<<y, x>> \in R)
  BY <1>1, <1>4, <1>5, WFMin
<1>7. x - 1 \in Nat /\ x - 1 < x /\ x = (x - 1) + 1
  BY <1>5, <1>6
<1>8. x - 1 \in S
  BY <1>3, <1>5, <1>6, <1>7
<1> QED BY <1>5, <1>6, <1>7, <1>8

(* The first k turns of a loop over a .. b, whose turns are step[a + 1],    *)
(* step[a + 2] ... *)
Turns(A, base, a, step, k, f) ==
    /\ f \in [a .. a + k -> A] /\ f[a] = base
    /\ \A i \in a + 1 .. a + k : f[i] = step[i][f[i - 1]]

Looping(A, base, a, b, step) ==
    base \in A /\ a \in Int /\ b \in Int /\ a <= b /\ step \in [a .. b -> [A -> A]]

(* Such a loop has a function of its turns.                                *)
LEMMA Loop ==
  ASSUME NEW A, NEW base, NEW a, NEW b, NEW step, Looping(A, base, a, b, step)
  PROVE  \E f : Turns(A, base, a, step, b - a, f)
<1> DEFINE S == {k \in Nat : a + k <= b => \E f : Turns(A, base, a, step, k, f)}
<1> USE DEF Looping
<1>1. 0 \in S
  <2>1. Turns(A, base, a, step, 0, [i \in a .. a |-> base])
    BY DEF Turns
  <2> QED BY <2>1
<1>2. ASSUME NEW k \in Nat, k \in S, a + (k + 1) <= b
      PROVE  \E f : Turns(A, base, a, step, k + 1, f)
  <2>1. PICK f : Turns(A, base, a, step, k, f)
    BY <1>2
  <2>2. PICK v \in A : v = step[a + (k + 1)][f[a + k]]
    <3>1. f[a + k] \in A /\ a + (k + 1) \in a .. b
      BY <1>2, <2>1 DEF Turns
    <3> QED BY <3>1
  <2>3. PICK g : g = [i \in a .. a + (k + 1) |-> IF i = a + (k + 1) THEN v ELSE f[i]]
    OBVIOUS
  <2>4. g \in [a .. a + (k + 1) -> A] /\ \A i \in a .. a + k : g[i] = f[i]
    BY <2>1, <2>3 DEF Turns
  <2>5. g[a + (k + 1)] = step[a + (k + 1)][g[a + (k + 1) - 1]]
    <3>1. /\ a + (k + 1) - 1 = a + k /\ a + k \in a .. a + k
          /\ a + (k + 1) \in a .. a + (k + 1)
      OBVIOUS
    <3>2. g[a + (k + 1)] = v
      BY <2>3, <3>1
    <3>3. g[a + (k + 1) - 1] = f[a + k]
      BY <2>4, <3>1
    <3> QED BY <2>2, <3>2, <3>3
  <2>6. ASSUME NEW i \in a + 1 .. a + k PROVE g[i] = step[i][g[i - 1]]
    <3>1. i \in a .. a + k /\ i - 1 \in a .. a + k
      OBVIOUS
    <3> QED BY <2>1, <2>4, <3>1 DEF Turns
  <2>7. \A i \in a + 1 .. a + (k + 1) : i = a + (k + 1) \/ i \in a + 1 .. a + k
    OBVIOUS
  <2>8. g[a] = base
    BY <2>1, <2>4 DEF Turns
  <2>9. \A i \in a + 1 .. a + (k + 1) : g[i] = step[i][g[i - 1]]
    BY <2>5, <2>6, <2>7
  <2>10. Turns(A, base, a, step, k + 1, g)
    BY <2>4, <2>8, <2>9 DEF Turns
  <2> QED BY <2>10
<1>3. Nat \subseteq S
  <2>1. \A k \in Nat : k \in S => k + 1 \in S
    BY <1>2
  <2> HIDE DEF S
  <2> QED BY <1>1, <2>1, Induction
<1>4. b - a \in Nat /\ a + (b - a) = b
  OBVIOUS
<1>5. b - a \in S
  BY <1>3, <1>4
<1>6. \E f : Turns(A, base, a, step, b - a, f)
  BY <1>4, <1>5
<1> QED BY <1>6

-----------------------------------------------------------------------------
(* ACK frames *)

(* A list of ranges, the largest first, of which no two could be one. *)
Ranges == [smallest : Nat, largest : Nat]

Separated(ranges) ==
    /\ \A i \in 1 .. Len(ranges) : ranges[i].smallest <= ranges[i].largest
    /\ \A i, j \in 1 .. Len(ranges) : i < j => ranges[i].smallest > ranges[j].largest + 1

(* All ranges but the last.                                                *)
LEMMA FrontKeeps ==
  ASSUME NEW ranges \in Seq(Ranges), ranges # <<>>
  PROVE  /\ Front(ranges) \in Seq(Ranges) /\ Len(Front(ranges)) = Len(ranges) - 1
         /\ \A i \in 1 .. Len(ranges) - 1 : Front(ranges)[i] = ranges[i]
         /\ Len(ranges) \in Nat \ {0} /\ Last(ranges) \in Ranges
<1>1. Len(ranges) \in Nat \ {0}
  BY EmptySeq
<1>2. PICK n \in Nat : n = Len(ranges) - 1
  BY <1>1
<1>3. \A i \in 1 .. n : ranges[i] \in Ranges
  BY <1>1, <1>2, ElementOfSeq
<1>4. Front(ranges) = SubSeq(ranges, 1, n)
  BY <1>2 DEF Front
<1>5. /\ Front(ranges) \in Seq(Ranges) /\ Len(Front(ranges)) = n
      /\ \A i \in 1 .. n : Front(ranges)[i] = ranges[i]
  <2>1. /\ SubSeq(ranges, 1, n) \in Seq(Ranges)
        /\ Len(SubSeq(ranges, 1, n)) = IF 1 <= n THEN n - 1 + 1 ELSE 0
        /\ \A i \in 1 .. n - 1 + 1 : SubSeq(ranges, 1, n)[i] = ranges[1 + i - 1]
    BY <1>3, SubSeqProperties
  <2>2. PICK f : f = SubSeq(ranges, 1, n)
    OBVIOUS
  <2>3. /\ f \in Seq(Ranges) /\ Len(f) = n /\ \A i \in 1 .. n : f[i] = ranges[i]
    BY <2>1, <2>2
  <2> QED BY <1>4, <2>2, <2>3
<1>6. Last(ranges) \in Ranges
  BY <1>1, ElementOfSeq DEF Last
<1> QED BY <1>1, <1>2, <1>5, <1>6

(* Each block of an ACK frame is read as the range it was written of, and  *)
(* the lengths in it, unsigned in the code, are not negative: there is a   *)
(* gap between any two ranges of a separated list.                         *)
THEOREM BlockExact ==
  ASSUME NEW ranges \in Seq(Ranges), ranges # <<>>,
         NEW r \in Ranges, r.smallest <= r.largest, Last(ranges).smallest > r.largest + 1
  PROVE  /\ Block(Last(ranges), r) \in [gap : Nat, len : Nat]
         /\ ParseBlock(ranges, Block(Last(ranges), r)) = Append(ranges, r)
<1>1. PICK last \in Ranges : last = Last(ranges)
  BY FrontKeeps
<1>2. /\ last.smallest \in Nat /\ r.smallest \in Nat /\ r.largest \in Nat
      /\ last.smallest > r.largest + 1
  BY <1>1 DEF Ranges
<1>3. PICK b : b = Block(last, r)
  OBVIOUS
<1>4. b.gap = last.smallest - r.largest - 2 /\ b.len = r.largest - r.smallest
  BY <1>3 DEF Block
<1>5. b \in [gap : Nat, len : Nat]
  BY <1>2, <1>3 DEF Block
<1>6. last.smallest - b.gap - 2 = r.largest /\ r.largest - b.len = r.smallest
  BY <1>2, <1>4
<1>7. AckRange(r.smallest, r.largest) = r
  BY DEF AckRange, Ranges
<1>8. ParseBlock(ranges, b) = Append(ranges, r)
  BY <1>1, <1>6, <1>7 DEF ParseBlock
<1> QED BY <1>1, <1>3, <1>5, <1>8

(* A frame of n further ranges, whatever its lengths. *)
Framed(frame, n) ==
    /\ frame.largest \in Int /\ frame.first \in Int
    /\ Len(frame.blocks) = n
    /\ \A i \in 1 .. n : frame.blocks[i].gap \in Int /\ frame.blocks[i].len \in Int

Parsing(frame, n, u) ==
    /\ u[0] = <<AckRange(frame.largest - frame.first, frame.largest)>>
    /\ ReadRanges(frame) = u[n]
    /\ \A i \in 1 .. n : u[i] = ParseBlock(u[i - 1], frame.blocks[i])

(* The loop of parseAckFrame, turn by turn.                                *)
LEMMA ParseTurns ==
  ASSUME NEW n \in Nat, NEW frame, Framed(frame, n)
  PROVE  \E u : Parsing(frame, n, u)
<1> DEFINE base == <<AckRange(frame.largest - frame.first, frame.largest)>>
           after == CHOOSE u : u = [i \in 0 .. n |-> IF i = 0 THEN base
                                                     ELSE ParseBlock(u[i - 1], frame.blocks[i])]
<1>1. PICK R : R = [smallest : Int, largest : Int]
  OBVIOUS
<1>2. PICK A : A = {ranges \in Seq(R) : ranges # <<>>}
  OBVIOUS
<1>3. PICK step : step = [i \in 0 .. n |-> [x \in A |->
                            IF i = 0 THEN x ELSE ParseBlock(x, frame.blocks[i])]]
  OBVIOUS
<1>4. Looping(A, base, 0, n, step)
  <2>1. base \in A
    <3>1. AckRange(frame.largest - frame.first, frame.largest) \in R
      BY <1>1 DEF AckRange, Framed
    <3> QED BY <1>2, <3>1
  <2>2. ASSUME NEW i \in 1 .. n, NEW x \in A PROVE ParseBlock(x, frame.blocks[i]) \in A
    <3>1. x \in Seq(R) /\ Len(x) \in Nat \ {0}
      BY <1>2, EmptySeq
    <3>2. PICK last \in R : last = Last(x)
      BY <3>1, ElementOfSeq DEF Last
    <3>3. PICK b : b = frame.blocks[i]
      OBVIOUS
    <3>4. last.smallest \in Int /\ b.gap \in Int /\ b.len \in Int
      BY <1>1, <3>3 DEF Framed
    <3>5. PICK largest \in Int : largest = last.smallest - b.gap - 2
      BY <3>4
    <3>6. PICK r : r = AckRange(largest - b.len, largest)
      OBVIOUS
    <3>7. r \in R
      BY <1>1, <3>4, <3>6 DEF AckRange
    <3>8. ParseBlock(x, b) = Append(x, r)
      BY <3>2, <3>5, <3>6 DEF ParseBlock
    <3>9. Append(x, r) \in Seq(R) /\ Append(x, r) # <<>>
      BY <3>1, <3>7, AppendProperties
    <3> QED BY <1>2, <3>3, <3>8, <3>9
  <2>3. \A i \in 0 .. n : i = 0 \/ i \in 1 .. n
    OBVIOUS
  <2> HIDE DEF base
  <2> QED BY <1>3, <2>1, <2>2, <2>3 DEF Looping
<1>5. PICK f : /\ f \in [0 .. n -> A] /\ f[0] = base
               /\ \A i \in 1 .. n : f[i] = step[i][f[i - 1]]
  <2>1. 0 + (n - 0) = n /\ 0 + 1 = 1
    OBVIOUS
  <2>2. PICK f : Turns(A, base, 0, step, n - 0, f)
    BY <1>4, Loop
  <2> HIDE DEF base
  <2> QED BY <2>1, <2>2 DEF Turns
<1>6. f = [i \in 0 .. n |-> IF i = 0 THEN base ELSE ParseBlock(f[i - 1], frame.blocks[i])]
  <2>1. ASSUME NEW i \in 1 .. n PROVE f[i] = ParseBlock(f[i - 1], frame.blocks[i])
    <3>1. i - 1 \in 0 .. n /\ i \in 0 .. n /\ i # 0
      OBVIOUS
    <3>2. f[i - 1] \in A
      BY <1>5, <3>1
    <3>3. f[i] = step[i][f[i - 1]]
      BY <1>5
    <3>4. step[i] = [x \in A |-> ParseBlock(x, frame.blocks[i])]
      BY <1>3, <3>1
    <3> QED BY <3>2, <3>3, <3>4
  <2>2. \A i \in 0 .. n : i = 0 \/ i \in 1 .. n
    OBVIOUS
  <2> HIDE DEF base
  <2> QED BY <1>5, <2>1, <2>2
<1>7. after = [i \in 0 .. n |-> IF i = 0 THEN base ELSE ParseBlock(after[i - 1], frame.blocks[i])]
  BY <1>6
<1>8. ReadRanges(frame) = after[n]
  BY DEF ReadRanges, Framed
<1>9. PICK u : u = after
  OBVIOUS
<1>10. u = [i \in 0 .. n |-> IF i = 0 THEN base ELSE ParseBlock(u[i - 1], frame.blocks[i])]
  BY <1>7, <1>9
<1>11. ReadRanges(frame) = u[n]
  BY <1>8, <1>9
<1>12. u[0] = base /\ \A i \in 1 .. n : u[i] = ParseBlock(u[i - 1], frame.blocks[i])
  <2>1. 0 \in 0 .. n /\ \A i \in 1 .. n : i \in 0 .. n /\ i # 0
    OBVIOUS
  <2> HIDE DEF base
  <2> QED BY <1>10, <2>1
<1> QED BY <1>11, <1>12 DEF Parsing

(* parseAckFrame reads back the ranges that AckFrame.Append has written.   *)
THEOREM ParseExact ==
  ASSUME NEW ranges \in Seq(Ranges), ranges # <<>>, Separated(ranges)
  PROVE  ReadRanges(WriteRanges(ranges)) = ranges
<1>1. PICK n \in Nat : Len(ranges) = n + 1
  <2>1. Len(ranges) \in Nat \ {0}
    BY EmptySeq
  <2>2. Len(ranges) - 1 \in Nat /\ Len(ranges) = (Len(ranges) - 1) + 1
    BY <2>1
  <2> QED BY <2>2
<1>2. \A i \in 1 .. n + 1 : ranges[i] \in Ranges
  BY <1>1, ElementOfSeq
<1>3. PICK frame : frame = WriteRanges(ranges)
  OBVIOUS
<1>4. PICK blocks : blocks = [i \in 1 .. n |-> Block(ranges[i], ranges[i + 1])]
  OBVIOUS
<1>5. /\ frame.blocks = blocks /\ frame.largest = ranges[1].largest
      /\ frame.first = ranges[1].largest - ranges[1].smallest
  <2>1. Len(ranges) - 1 = n
    BY <1>1
  <2> QED BY <1>3, <1>4, <2>1 DEF WriteRanges
<1>6. ranges[1].largest \in Nat /\ ranges[1].smallest \in Nat
  <2>1. ranges[1] \in Ranges
    BY <1>2
  <2> QED BY <2>1 DEF Ranges
<1>7. ASSUME NEW i \in 1 .. n
      PROVE  /\ ranges[i] \in Ranges /\ ranges[i + 1] \in Ranges
             /\ ranges[i + 1].smallest <= ranges[i + 1].largest
             /\ ranges[i].smallest > ranges[i + 1].largest + 1
  <2>1. i \in 1 .. n + 1 /\ i + 1 \in 1 .. n + 1 /\ i < i + 1
    OBVIOUS
  <2> QED BY <1>1, <1>2, <2>1 DEF Separated
<1>8. ASSUME NEW i \in 1 .. n PROVE blocks[i].gap \in Int /\ blocks[i].len \in Int
  <2>1. PICK a \in Ranges, b \in Ranges : a = ranges[i] /\ b = ranges[i + 1]
    BY <1>7
  <2>2. blocks[i] = Block(a, b)
    BY <1>4, <2>1
  <2>3. /\ a.smallest \in Int /\ a.largest \in Int
        /\ b.smallest \in Int /\ b.largest \in Int
    BY DEF Ranges
  <2> QED BY <2>2, <2>3 DEF Block
<1>9. Len(blocks) = n
  BY <1>4
<1>10. PICK u : /\ u[0] = <<AckRange(frame.largest - frame.first, frame.largest)>>
                /\ ReadRanges(frame) = u[n]
                /\ \A i \in 1 .. n : u[i] = ParseBlock(u[i - 1], frame.blocks[i])
  <2>1. frame.largest \in Int /\ frame.first \in Int
    BY <1>5, <1>6
  <2>2. Len(frame.blocks) = n
    BY <1>5, <1>9
  <2>3. \A i \in 1 .. n : frame.blocks[i].gap \in Int /\ frame.blocks[i].len \in Int
    BY <1>5, <1>8
  <2>4. Framed(frame, n)
    BY <2>1, <2>2, <2>3 DEF Framed
  <2>5. PICK u : Parsing(frame, n, u)
    BY <2>4, ParseTurns
  <2> QED BY <2>5 DEF Parsing
<1>11. ASSUME NEW i \in Nat, i <= n
       PROVE  /\ SubSeq(ranges, 1, i + 1) \in Seq(Ranges)
              /\ Len(SubSeq(ranges, 1, i + 1)) = i + 1
              /\ \A k \in 1 .. i + 1 : SubSeq(ranges, 1, i + 1)[k] = ranges[k]
  <2>1. \A k \in 1 .. i + 1 : ranges[k] \in Ranges
    BY <1>2, <1>11
  <2>2. /\ SubSeq(ranges, 1, i + 1) \in Seq(Ranges)
        /\ Len(SubSeq(ranges, 1, i + 1)) = IF 1 <= i + 1 THEN (i + 1) - 1 + 1 ELSE 0
        /\ \A k \in 1 .. (i + 1) - 1 + 1 : SubSeq(ranges, 1, i + 1)[k] = ranges[1 + k - 1]
    BY <2>1, SubSeqProperties
  <2>3. (i + 1) - 1 + 1 = i + 1 /\ 1 <= i + 1 /\ \A k \in 1 .. i + 1 : 1 + k - 1 = k
    OBVIOUS
  <2> QED BY <2>2, <2>3
<1> DEFINE S == {i \in Nat : i <= n => u[i] = SubSeq(ranges, 1, i + 1)}
<1>12. 0 \in S
  <2>1. PICK r \in Ranges : r = ranges[1]
    BY <1>2
  <2>2. AckRange(frame.largest - frame.first, frame.largest) = r
    <3>1. r.smallest \in Nat /\ r.largest \in Nat
      BY DEF Ranges
    <3>2. r.largest - (r.largest - r.smallest) = r.smallest
      BY <3>1
    <3>3. AckRange(frame.largest - frame.first, frame.largest) = AckRange(r.smallest, r.largest)
      BY <1>5, <2>1, <3>2
    <3>4. AckRange(r.smallest, r.largest) = r
      BY DEF AckRange, Ranges
    <3> QED BY <3>3, <3>4
  <2>3. PICK x : x = SubSeq(ranges, 1, 0 + 1)
    OBVIOUS
  <2>4. x \in Seq(Ranges) /\ Len(x) = 1 /\ x[1] = r
    BY <1>11, <2>1, <2>3
  <2>5. x = <<r>>
    BY <2>4
  <2> QED BY <1>10, <2>2, <2>3, <2>5
<1>13. ASSUME NEW m \in Nat, m \in S, m + 1 <= n
       PROVE  u[m + 1] = SubSeq(ranges, 1, (m + 1) + 1)
  <2>1. PICK i \in 1 .. n : i = m + 1 /\ i - 1 = m /\ i \in Nat
    BY <1>13
  <2>2. PICK x : x = SubSeq(ranges, 1, i)
    OBVIOUS
  <2>3. u[m] = x
    BY <1>13, <2>1, <2>2
  <2>4. x \in Seq(Ranges) /\ Len(x) = i /\ \A k \in 1 .. i : x[k] = ranges[k]
    BY <1>11, <2>1, <2>2
  <2>5. x # <<>> /\ Last(x) = ranges[i]
    BY <2>4 DEF Last
  <2>6. PICK r \in Ranges : r = ranges[i + 1]
    BY <1>7
  <2>7. r.smallest <= r.largest /\ Last(x).smallest > r.largest + 1
    BY <1>7, <2>5, <2>6
  <2>8. frame.blocks[i] = Block(Last(x), r)
    BY <1>4, <1>5, <2>5, <2>6
  <2>9. ParseBlock(x, Block(Last(x), r)) = Append(x, r)
    BY <2>4, <2>5, <2>7, BlockExact
  <2>10. u[i] = Append(x, r)
    BY <1>10, <2>1, <2>3, <2>8, <2>9
  <2>11. PICK y : y = SubSeq(ranges, 1, i + 1)
    OBVIOUS
  <2>12. y \in Seq(Ranges) /\ Len(y) = i + 1 /\ \A k \in 1 .. i + 1 : y[k] = ranges[k]
    BY <1>11, <2>1, <2>11
  <2>13. /\ Append(x, r) \in Seq(Ranges) /\ Len(Append(x, r)) = i + 1
         /\ Append(x, r)[i + 1] = r /\ \A k \in 1 .. i : Append(x, r)[k] = x[k]
    BY <2>4, AppendProperties
  <2>14. Append(x, r) = y
    <3>1. PICK z : z = Append(x, r)
      OBVIOUS
    <3>2. z \in Seq(Ranges) /\ Len(z) = i + 1
      BY <2>13, <3>1
    <3>3. ASSUME NEW k \in 1 .. i + 1 PROVE z[k] = y[k]
      <4>1. CASE k = i + 1
        BY <2>6, <2>12, <2>13, <3>1, <4>1
      <4>2. CASE k # i + 1
        <5>1. k \in 1 .. i
          BY <4>2
        <5> QED BY <2>4, <2>12, <2>13, <3>1, <5>1
      <4> QED BY <4>1, <4>2
    <3>4. z = y
      BY <2>12, <3>2, <3>3, SeqEqual
    <3> QED BY <3>1, <3>4
  <2> QED BY <2>1, <2>10, <2>11, <2>14
<1>14. Nat \subseteq S
  <2>1. \A m \in Nat : m \in S => m + 1 \in S
    BY <1>13
  <2> HIDE DEF S
  <2> QED BY <1>12, <2>1, Induction
<1>15. u[n] = SubSeq(ranges, 1, n + 1)
  BY <1>14
<1>16. SubSeq(ranges, 1, n + 1) = ranges
  <2>1. PICK y : y = SubSeq(ranges, 1, n + 1)
    OBVIOUS
  <2>2. n \in Nat /\ n <= n
    OBVIOUS
  <2>3. /\ SubSeq(ranges, 1, n + 1) \in Seq(Ranges)
        /\ Len(SubSeq(ranges, 1, n + 1)) = n + 1
        /\ \A k \in 1 .. n + 1 : SubSeq(ranges, 1, n + 1)[k] = ranges[k]
    BY <1>11, <2>2
  <2>4. y \in Seq(Ranges) /\ Len(y) = n + 1 /\ \A k \in 1 .. n + 1 : y[k] = ranges[k]
    BY <2>1, <2>3
  <2>5. /\ y \in Seq(Ranges) /\ ranges \in Seq(Ranges)
        /\ Len(y) = Len(ranges) /\ \A k \in 1 .. Len(y) : y[k] = ranges[k]
    BY <1>1, <2>4
  <2>6. y = ranges
    BY <2>5, SeqEqual
  <2> QED BY <2>1, <2>6
<1> QED BY <1>3, <1>10, <1>15, <1>16

-----------------------------------------------------------------------------
(* Variable-length integers *)

(* A number, its last byte and what is left of it.                         *)
LEMMA ByteOf ==
  ASSUME NEW x \in Nat
  PROVE  x = 256 * (x \div 256) + (x % 256) /\ x % 256 \in 0 .. 255 /\ x \div 256 \in Nat
<1>1. \A w \in Nat : w > 0 => x = w * (x \div w) + (x % w)
  OBVIOUS
<1>2. x = 256 * (x \div 256) + (x % 256)
  BY <1>1
<1>3. x % 256 \in 0 .. 255
  OBVIOUS
<1>4. x \div 256 \in Nat
  OBVIOUS
<1> QED BY <1>2, <1>3, <1>4

(* The numbers that BigEndian takes the bytes of: v, shifted again and     *)
(* again.                                                                  *)
Shifted(v, width, left) ==
    /\ left \in [0 .. width -> Nat] /\ left[0] = v
    /\ \A i \in 1 .. width : left[i] = left[i - 1] \div 256

(* BigEndian writes the last bytes of what is left, the last first.        *)
LEMMA Shifting ==
  ASSUME NEW v \in Nat, NEW width \in Nat
  PROVE  \E left : Shifted(v, width, left) /\ BigEndian(v, width) = [i \in 1 .. width |-> left[width - i] % 256]
<1> DEFINE shift == CHOOSE u : u = [i \in 0 .. width |-> IF i = 0 THEN v ELSE u[i - 1] \div 256]
<1>1. PICK step : step = [i \in 0 .. width |-> [x \in Nat |-> x \div 256]]
  OBVIOUS
<1>2. Looping(Nat, v, 0, width, step)
  <2>1. \A x \in Nat : x \div 256 \in Nat
    OBVIOUS
  <2> QED BY <1>1, <2>1 DEF Looping
<1>3. PICK f : /\ f \in [0 .. width -> Nat] /\ f[0] = v
               /\ \A i \in 1 .. width : f[i] = step[i][f[i - 1]]
  <2>1. 0 + (width - 0) = width /\ 0 + 1 = 1
    OBVIOUS
  <2>2. PICK f : Turns(Nat, v, 0, step, width - 0, f)
    BY <1>2, Loop
  <2> QED BY <2>1, <2>2 DEF Turns
<1>4. f = [i \in 0 .. width |-> IF i = 0 THEN v ELSE f[i - 1] \div 256]
  <2>1. ASSUME NEW i \in 1 .. width PROVE f[i] = f[i - 1] \div 256
    <3>1. i - 1 \in 0 .. width /\ i \in 0 .. width
      OBVIOUS
    <3>2. f[i - 1] \in Nat
      BY <1>3, <3>1
    <3>3. f[i] = step[i][f[i - 1]]
      BY <1>3
    <3>4. step[i] = [x \in Nat |-> x \div 256]
      BY <1>1, <3>1
    <3> QED BY <3>2, <3>3, <3>4
  <2>2. \A i \in 0 .. width : i = 0 \/ i \in 1 .. width
    OBVIOUS
  <2> QED BY <1>3, <2>1, <2>2
<1>5. shift = [i \in 0 .. width |-> IF i = 0 THEN v ELSE shift[i - 1] \div 256]
  BY <1>4
<1>6. BigEndian(v, width) = [i \in 1 .. width |-> shift[width - i] % 256]
  BY DEF BigEndian
<1> HIDE DEF shift
<1>7. PICK u : u = [i \in 0 .. width |-> IF i = 0 THEN v ELSE u[i - 1] \div 256] /\ u = shift
  BY <1>5
<1>8. BigEndian(v, width) = [i \in 1 .. width |-> u[width - i] % 256]
  BY <1>6, <1>7
<1>9. u[0] = v /\ \A i \in 1 .. width : u[i] = u[i - 1] \div 256
  <2>1. 0 \in 0 .. width /\ \A i \in 1 .. width : i \in 0 .. width /\ i # 0
    OBVIOUS
  <2> QED BY <1>7, <2>1
<1>10. \A i \in Nat : i <= width => u[i] \in Nat
  <2> DEFINE S == {i \in Nat : i <= width => u[i] \in Nat}
  <2>1. 0 \in S
    BY <1>9
  <2>2. ASSUME NEW i \in Nat, i \in S, i + 1 <= width PROVE u[i + 1] \in Nat
    <3>1. i + 1 \in 1 .. width /\ (i + 1) - 1 = i
      BY <2>2
    <3>2. u[i + 1] = u[i] \div 256 /\ u[i] \in Nat
      BY <1>9, <2>2, <3>1
    <3> QED BY <3>2
  <2>3. Nat \subseteq S
    <3>1. \A i \in Nat : i \in S => i + 1 \in S
      BY <2>2
    <3> HIDE DEF S
    <3> QED BY <2>1, <3>1, Induction
  <2> QED BY <2>3
<1>11. u \in [0 .. width -> Nat]
  <2>1. \A i \in 0 .. width : u[i] \in Nat
    BY <1>10
  <2>2. DOMAIN u = 0 .. width
    BY <1>7
  <2>3. u = [i \in 0 .. width |-> u[i]]
    BY <1>7
  <2> QED BY <2>1, <2>3
<1> QED BY <1>8, <1>9, <1>11 DEF Shifted

(* The sums that Unsigned goes through. *)
Summed(first, bytes, upTo) ==
    /\ upTo[0] = first
    /\ \A i \in 1 .. Len(bytes) : upTo[i] = 256 * upTo[i - 1] + bytes[i]

(* The loop of Unsigned, turn by turn.                                     *)
LEMMA Summing ==
  ASSUME NEW first \in Nat, NEW bytes \in Seq(Nat)
  PROVE  \E upTo : Summed(first, bytes, upTo) /\ Unsigned(first, bytes) = upTo[Len(bytes)]
<1>1. PICK n \in Nat : n = Len(bytes) /\ \A i \in 1 .. n : bytes[i] \in Nat
  BY LenProperties, ElementOfSeq
<1> DEFINE sum == CHOOSE u : u = [i \in 0 .. n |-> IF i = 0 THEN first ELSE 256 * u[i - 1] + bytes[i]]
<1>2. PICK step : step = [i \in 0 .. n |-> [x \in Nat |-> IF i = 0 THEN x ELSE 256 * x + bytes[i]]]
  OBVIOUS
<1>3. Looping(Nat, first, 0, n, step)
  <2>1. ASSUME NEW i \in 1 .. n, NEW x \in Nat PROVE 256 * x + bytes[i] \in Nat
    <3>1. PICK y \in Nat : y = bytes[i]
      BY <1>1
    <3> QED BY <3>1
  <2>2. \A i \in 0 .. n : i = 0 \/ i \in 1 .. n
    OBVIOUS
  <2>3. step \in [0 .. n -> [Nat -> Nat]]
    <3>1. ASSUME NEW i \in 0 .. n
          PROVE  [x \in Nat |-> IF i = 0 THEN x ELSE 256 * x + bytes[i]] \in [Nat -> Nat]
      <4>1. CASE i = 0
        BY <4>1
      <4>2. CASE i \in 1 .. n
        <5>1. i # 0
          BY <4>2
        <5> QED BY <2>1, <4>2, <5>1
      <4> QED BY <2>2, <4>1, <4>2
    <3> QED BY <1>2, <3>1
  <2>4. n \in Int /\ 0 <= n /\ 0 \in Int /\ first \in Nat
    OBVIOUS
  <2> QED BY <2>3, <2>4 DEF Looping
<1>4. PICK f : /\ f \in [0 .. n -> Nat] /\ f[0] = first
               /\ \A i \in 1 .. n : f[i] = step[i][f[i - 1]]
  <2>1. 0 + (n - 0) = n /\ 0 + 1 = 1
    OBVIOUS
  <2>2. PICK f : Turns(Nat, first, 0, step, n - 0, f)
    BY <1>3, Loop
  <2> QED BY <2>1, <2>2 DEF Turns
<1>5. f = [i \in 0 .. n |-> IF i = 0 THEN first ELSE 256 * f[i - 1] + bytes[i]]
  <2>1. ASSUME NEW i \in 1 .. n PROVE f[i] = 256 * f[i - 1] + bytes[i]
    <3>1. i - 1 \in 0 .. n /\ i \in 0 .. n /\ i # 0
      OBVIOUS
    <3>2. f[i - 1] \in Nat
      BY <1>4, <3>1
    <3>3. f[i] = step[i][f[i - 1]]
      BY <1>4
    <3>4. step[i] = [x \in Nat |-> 256 * x + bytes[i]]
      BY <1>2, <3>1
    <3> QED BY <3>2, <3>3, <3>4
  <2>2. \A i \in 0 .. n : i = 0 \/ i \in 1 .. n
    OBVIOUS
  <2> QED BY <1>4, <2>1, <2>2
<1>6. sum = [i \in 0 .. n |-> IF i = 0 THEN first ELSE 256 * sum[i - 1] + bytes[i]]
  BY <1>5
<1>7. Unsigned(first, bytes) = sum[n]
  BY <1>1 DEF Unsigned
<1> HIDE DEF sum
<1>8. PICK u : u = [i \in 0 .. n |-> IF i = 0 THEN first ELSE 256 * u[i - 1] + bytes[i]] /\ u = sum
  BY <1>6
<1>9. Unsigned(first, bytes) = u[n]
  BY <1>7, <1>8
<1>10. u[0] = first /\ \A i \in 1 .. n : u[i] = 256 * u[i - 1] + bytes[i]
  <2>1. 0 \in 0 .. n /\ \A i \in 1 .. n : i \in 0 .. n /\ i # 0
    OBVIOUS
  <2> QED BY <1>8, <2>1
<1> QED BY <1>1, <1>9, <1>10 DEF Summed

(* The bytes of a number are its bytes: read from the left, behind a first *)
(* byte that is what is left when all the others are shifted out.          *)
LEMMA BytesExact ==
  ASSUME NEW v \in Nat, NEW width \in Nat, NEW left, Shifted(v, width, left),
         NEW n \in 0 .. width,
         NEW bytes \in Seq(Nat), Len(bytes) = n,
         \A i \in 1 .. n : bytes[i] = left[n - i] % 256
  PROVE  Unsigned(left[n], bytes) = v
<1>1. \A i \in 0 .. width : left[i] \in Nat
  BY DEF Shifted
<1>2. ASSUME NEW i \in 1 .. n PROVE left[n - i] \in Nat /\ left[n - i] % 256 \in Nat
  <2>1. n - i \in 0 .. width
    OBVIOUS
  <2>2. PICK x \in Nat : x = left[n - i]
    BY <1>1, <2>1
  <2> QED BY <2>2
<1>3. PICK u : Summed(left[n], bytes, u) /\ Unsigned(left[n], bytes) = u[n]
  <2>1. left[n] \in Nat
    BY <1>1
  <2> QED BY <2>1, Summing
<1> DEFINE S == {i \in Nat : i <= n => u[i] = left[n - i]}
<1>4. 0 \in S
  BY <1>3 DEF Summed
<1>5. ASSUME NEW i \in Nat, i \in S, i + 1 <= n PROVE u[i + 1] = left[n - (i + 1)]
  <2>1. PICK k \in 1 .. n : k = i + 1 /\ k - 1 = i /\ n - i = (n - k) + 1
    BY <1>5
  <2>2. u[k] = 256 * u[i] + bytes[k]
    BY <1>3, <2>1 DEF Summed
  <2>3. PICK x \in Nat : x = left[n - k]
    BY <1>2
  <2>4. bytes[k] = x % 256
    BY <2>3
  <2>5. left[n - i] = x \div 256
    <3>1. (n - k) + 1 \in 1 .. width /\ ((n - k) + 1) - 1 = n - k
      OBVIOUS
    <3> QED BY <2>1, <2>3, <3>1 DEF Shifted
  <2>6. u[i] = x \div 256
    BY <1>5, <2>1, <2>5
  <2>7. x = 256 * (x \div 256) + (x % 256)
    BY ByteOf
  <2> QED BY <2>1, <2>2, <2>3, <2>4, <2>6, <2>7
<1>6. Nat \subseteq S
  <2>1. \A i \in Nat : i \in S => i + 1 \in S
    BY <1>5
  <2> HIDE DEF S
  <2> QED BY <1>4, <2>1, Induction
<1>7. u[n] = left[0]
  BY <1>6
<1> QED BY <1>3, <1>7 DEF Shifted

(* As many bytes as the width says.                                        *)
LEMMA BigEndianBytes ==
  ASSUME NEW v \in Nat, NEW width \in Nat
  PROVE  BigEndian(v, width) \in Seq(Byte) /\ Len(BigEndian(v, width)) = width
<1>1. PICK left : /\ Shifted(v, width, left)
                  /\ BigEndian(v, width) = [i \in 1 .. width |-> left[width - i] % 256]
  BY Shifting
<1>2. ASSUME NEW i \in 1 .. width PROVE left[width - i] % 256 \in Byte
  <2>1. width - i \in 0 .. width
    OBVIOUS
  <2>2. PICK x \in Nat : x = left[width - i]
    BY <1>1, <2>1 DEF Shifted
  <2> QED BY <2>2, ByteOf DEF Byte
<1>3. PICK b : b = [i \in 1 .. width |-> left[width - i] % 256]
  OBVIOUS
<1>4. b \in [1 .. width -> Byte]
  BY <1>2, <1>3
<1>5. b \in Seq(Byte) /\ Len(b) = width
  <2>1. b \in Seq(Byte)
    BY <1>4, SeqDef
  <2>2. DOMAIN b = 1 .. width
    BY <1>4
  <2> QED BY <2>1, <2>2, LenProperties
<1> QED BY <1>1, <1>3, <1>5

(* A number with its last byte taken off.                                  *)
LEMMA Shrinks ==
  ASSUME NEW x \in Nat, NEW b \in Nat, x <= 256 * b + 255
  PROVE  x \div 256 <= b
<1>1. PICK q \in Nat, r \in 0 .. 255 : q = x \div 256 /\ x = 256 * q + r
  BY ByteOf
<1> QED BY <1>1

(* The same, by name.                                                      *)
LEMMA Shrunk ==
  ASSUME NEW x \in Nat, NEW y, y = x \div 256, NEW b \in Nat, x <= 256 * b + 255
  PROVE  y \in Nat /\ y <= b
BY ByteOf, Shrinks

MaxVarint == 4611686018427387903

(* The width and the tag of a varint, and what is left of the number       *)
(* for its first byte: six bits.                                           *)
Tagged(v, t, left) ==
    /\ t \in 0 .. 3 /\ Widths[t + 1] = VarintLen(v)
    /\ Shifted(v, VarintLen(v), left)
    /\ left[VarintLen(v) - 1] \in 0 .. 63

(* The widths, by the size of the number.                                  *)
LEMMA VarintLens ==
  ASSUME NEW v \in Nat
  PROVE  /\ v <= 63 => VarintLen(v) = 1
         /\ v > 63 /\ v <= 16383 => VarintLen(v) = 2
         /\ v > 16383 /\ v <= 1073741823 => VarintLen(v) = 4
         /\ v > 1073741823 => VarintLen(v) = 8
BY DEF VarintLen

(* There is a tag, and the number leaves its two bits free.                *)
LEMMA VarintTagged ==
  ASSUME NEW v \in Nat, v <= MaxVarint
  PROVE  \E t, left : Tagged(v, t, left)
<1>1. Widths[1] = 1 /\ Widths[2] = 2 /\ Widths[3] = 4 /\ Widths[4] = 8
  BY DEF Widths
<1>2. PICK w \in Nat : w = VarintLen(v)
  BY VarintLens
<1>3. PICK left : Shifted(v, w, left)
  BY Shifting
<1>4. /\ left[0] = v /\ \A i \in 0 .. w : left[i] \in Nat
      /\ \A i \in 1 .. w : left[i] = left[i - 1] \div 256
  BY <1>3 DEF Shifted
<1>5. CASE v <= 63
  <2>1. w = 1
    BY <1>2, <1>5, VarintLens
  <2>2. Tagged(v, 0, left)
    BY <1>1, <1>2, <1>3, <1>4, <1>5, <2>1 DEF Tagged
  <2> QED BY <2>2
<1>6. CASE v > 63 /\ v <= 16383
  <2>1. w = 2
    BY <1>2, <1>6, VarintLens
  <2>2. left[1] \in Nat /\ left[1] <= 63
    <3>1. left[1] \in Nat /\ left[1] = v \div 256
      BY <1>4, <2>1
    <3> QED BY <1>6, <3>1, Shrinks
  <2>3. Tagged(v, 1, left)
    BY <1>1, <1>2, <1>3, <2>1, <2>2 DEF Tagged
  <2> QED BY <2>3
<1>7. CASE v > 16383 /\ v <= 1073741823
  <2>1. w = 4
    BY <1>2, <1>7, VarintLens
  <2>2. /\ left[1] \in Nat /\ left[2] \in Nat /\ left[3] \in Nat
        /\ left[1] = v \div 256 /\ left[2] = left[1] \div 256 /\ left[3] = left[2] \div 256
    BY <1>4, <2>1
  <2>3. left[1] <= 4194303
    BY <1>7, <2>2, Shrinks
  <2>4. left[2] <= 16383
    BY <2>2, <2>3, Shrinks
  <2>5. left[3] <= 63
    BY <2>2, <2>4, Shrinks
  <2>6. Tagged(v, 2, left)
    BY <1>1, <1>2, <1>3, <2>1, <2>2, <2>5 DEF Tagged
  <2> QED BY <2>6
<1>8. CASE v > 1073741823
  <2>1. w = 8
    BY <1>2, <1>8, VarintLens
  <2>2. left[1] = left[0] \div 256
    BY <1>4, <2>1
  <2>3. left[2] = left[1] \div 256
    BY <1>4, <2>1
  <2>4. left[3] = left[2] \div 256
    BY <1>4, <2>1
  <2>5. left[4] = left[3] \div 256
    BY <1>4, <2>1
  <2>6. left[5] = left[4] \div 256
    BY <1>4, <2>1
  <2>7. left[6] = left[5] \div 256
    BY <1>4, <2>1
  <2>8. left[7] = left[6] \div 256
    BY <1>4, <2>1
  <2>9. left[1] \in Nat /\ left[1] <= 18014398509481983
    <3>1. v <= 256 * 18014398509481983 + 255
      BY DEF MaxVarint
    <3> QED BY <1>4, <2>2, <3>1, Shrunk
  <2>10. left[2] \in Nat /\ left[2] <= 70368744177663
    BY <2>3, <2>9, Shrunk
  <2>11. left[3] \in Nat /\ left[3] <= 274877906943
    BY <2>4, <2>10, Shrunk
  <2>12. left[4] \in Nat /\ left[4] <= 1073741823
    BY <2>5, <2>11, Shrunk
  <2>13. left[5] \in Nat /\ left[5] <= 4194303
    BY <2>6, <2>12, Shrunk
  <2>14. left[6] \in Nat /\ left[6] <= 16383
    BY <2>7, <2>13, Shrunk
  <2>15. left[7] \in Nat /\ left[7] <= 63
    BY <2>8, <2>14, Shrunk
  <2>16. left[7] \in 0 .. 63
    BY <2>15
  <2>17. Tagged(v, 3, left)
    BY <1>1, <1>2, <1>3, <2>1, <2>16 DEF Tagged
  <2> QED BY <2>17
<1> QED BY <1>5, <1>6, <1>7, <1>8

(* The bytes of a varint. *)
LEMMA VarintBytes ==
  ASSUME NEW v \in Nat, NEW t, NEW left, Tagged(v, t, left)
  PROVE  /\ VarintLen(v) \in {1, 2, 4, 8}
         /\ Varint(v) \in Seq(Byte) /\ Len(Varint(v)) = VarintLen(v)
         /\ Varint(v)[1] = left[VarintLen(v) - 1] + 64 * t
         /\ \A i \in 2 .. VarintLen(v) : Varint(v)[i] = left[VarintLen(v) - i] % 256
<1>1. VarintLen(v) \in {1, 2, 4, 8}
  BY VarintLens
<1>2. PICK w \in Nat \ {0} : w = VarintLen(v)
  BY <1>1
<1>3. t \in 0 .. 3 /\ Widths[t + 1] = w /\ Shifted(v, w, left) /\ left[w - 1] \in 0 .. 63
  BY <1>2 DEF Tagged
<1>4. \A s \in 0 .. 3 : Widths[s + 1] = w => s = t
  BY <1>3 DEF Widths
<1>5. (CHOOSE s \in 0 .. 3 : Widths[s + 1] = w) = t
  BY <1>3, <1>4
<1>6. BigEndian(v, w) = [i \in 1 .. w |-> left[w - i] % 256]
  <2>1. PICK u : Shifted(v, w, u) /\ BigEndian(v, w) = [i \in 1 .. w |-> u[w - i] % 256]
    BY Shifting
  <2> DEFINE S == {i \in Nat : i <= w => u[i] = left[i]}
  <2>2. 0 \in S
    BY <1>3, <2>1 DEF Shifted
  <2>3. ASSUME NEW i \in Nat, i \in S, i + 1 <= w PROVE u[i + 1] = left[i + 1]
    <3>1. i + 1 \in 1 .. w /\ (i + 1) - 1 = i /\ u[i] = left[i]
      BY <2>3
    <3> QED BY <1>3, <2>1, <3>1 DEF Shifted
  <2>4. Nat \subseteq S
    <3>1. \A i \in Nat : i \in S => i + 1 \in S
      BY <2>3
    <3> HIDE DEF S
    <3> QED BY <2>2, <3>1, Induction
  <2>5. \A i \in 1 .. w : u[w - i] = left[w - i]
    BY <2>4
  <2> QED BY <2>1, <2>5
<1>7. PICK b : b = BigEndian(v, w)
  OBVIOUS
<1>8. b \in Seq(Byte) /\ Len(b) = w /\ DOMAIN b = 1 .. w
  BY <1>7, BigEndianBytes, LenProperties
<1>9. Varint(v) = [b EXCEPT ![1] = b[1] + 64 * t]
  BY <1>2, <1>5, <1>7 DEF Varint
<1>10. PICK c : c = [b EXCEPT ![1] = b[1] + 64 * t]
  OBVIOUS
<1>11. b[1] = left[w - 1] /\ b[1] + 64 * t \in Byte
  <2>1. 1 \in 1 .. w
    OBVIOUS
  <2>2. b[1] = left[w - 1] % 256
    BY <1>6, <1>7, <2>1
  <2>3. PICK x \in 0 .. 63 : x = left[w - 1]
    BY <1>3
  <2>4. x % 256 = x
    OBVIOUS
  <2> QED BY <1>3, <2>2, <2>3, <2>4 DEF Byte
<1>12. DOMAIN c = 1 .. w /\ \A i \in 1 .. w : c[i] = IF i = 1 THEN b[1] + 64 * t ELSE b[i]
  BY <1>8, <1>10
<1>13. \A i \in 1 .. w : c[i] \in Byte
  BY <1>8, <1>11, <1>12, ElementOfSeq
<1>14. c \in Seq(Byte) /\ Len(c) = w
  <2>1. c = [i \in 1 .. w |-> c[i]]
    BY <1>10, <1>12
  <2>2. c \in [1 .. w -> Byte]
    BY <1>13, <2>1
  <2>3. c \in Seq(Byte)
    BY <2>2, SeqDef
  <2> QED BY <1>12, <2>3, LenProperties
<1>15. c[1] = left[w - 1] + 64 * t
  BY <1>11, <1>12
<1>16. \A i \in 2 .. w : c[i] = left[w - i] % 256
  <2>1. \A i \in 2 .. w : i \in 1 .. w /\ i # 1
    OBVIOUS
  <2> QED BY <1>6, <1>7, <1>12, <2>1
<1> QED BY <1>1, <1>2, <1>9, <1>10, <1>14, <1>15, <1>16

(* Bytes are natural numbers.                                              *)
LEMMA AreNumbers ==
  ASSUME NEW s \in Seq(Byte)
  PROVE  s \in Seq(Nat)
<1>1. PICK n \in Nat : n = Len(s)
  BY LenProperties
<1>2. \A i \in 1 .. n : s[i] \in Nat
  <2>1. \A i \in 1 .. n : s[i] \in Byte
    BY <1>1, ElementOfSeq
  <2>2. \A x \in Byte : x \in Nat
    BY DEF Byte
  <2> QED BY <2>1, <2>2
<1>3. s \in [1 .. n -> Nat]
  <2>1. DOMAIN s = 1 .. n /\ s = [i \in 1 .. n |-> s[i]]
    BY <1>1, LenProperties
  <2> QED BY <1>2, <2>1
<1> QED BY <1>3, SeqDef

(* quicvarint.Parse reads back what quicvarint.Append has written, of each *)
(* number it can write, and leaves what follows it.                        *)
THEOREM VarintRoundTrip ==
  ASSUME NEW v \in Nat, v <= MaxVarint, NEW rest \in Seq(Byte)
  PROVE  ParseVarint(Varint(v) \o rest) = {[val |-> v, rest |-> rest]}
<1>1. PICK t, left : Tagged(v, t, left)
  BY VarintTagged
<1>2. PICK w \in {1, 2, 4, 8} : w = VarintLen(v)
  BY VarintLens
<1>3. t \in 0 .. 3 /\ Widths[t + 1] = w /\ Shifted(v, w, left) /\ left[w - 1] \in 0 .. 63
  BY <1>1, <1>2 DEF Tagged
<1>4. PICK c : c = Varint(v)
  OBVIOUS
<1>5. /\ c \in Seq(Byte) /\ Len(c) = w /\ c[1] = left[w - 1] + 64 * t
      /\ \A i \in 2 .. w : c[i] = left[w - i] % 256
  BY <1>1, <1>2, <1>4, VarintBytes
<1>6. PICK b : b = c \o rest
  OBVIOUS
<1>7. PICK n \in Nat : n = Len(rest)
  BY LenProperties
<1>8. /\ b \in Seq(Byte) /\ Len(b) = w + n
      /\ \A i \in 1 .. w : b[i] = c[i]
      /\ \A i \in 1 .. n : b[w + i] = rest[i]
  <2>1. /\ b \in Seq(Byte) /\ Len(b) = Len(c) + Len(rest)
        /\ \A i \in 1 .. Len(c) + Len(rest) : b[i] = IF i <= Len(c) THEN c[i] ELSE rest[i - Len(c)]
    BY <1>5, <1>6, ConcatProperties
  <2>2. \A i \in 1 .. w : i \in 1 .. w + n /\ i <= w
    OBVIOUS
  <2>3. \A i \in 1 .. n : w + i \in 1 .. w + n /\ ~(w + i <= w) /\ (w + i) - w = i
    OBVIOUS
  <2> QED BY <1>5, <1>7, <2>1, <2>2, <2>3
<1>9. b[1] \div 64 = t /\ b[1] % 64 = left[w - 1]
  <2>1. PICK x \in 0 .. 63 : x = left[w - 1]
    BY <1>3
  <2>2. b[1] = x + 64 * t
    BY <1>5, <1>8, <2>1
  <2>3. (x + 64 * t) \div 64 = t /\ (x + 64 * t) % 64 = x
    BY <1>3
  <2> QED BY <2>1, <2>2, <2>3
<1>10. b # <<>> /\ ~(Len(b) < w)
  BY <1>7, <1>8, EmptySeq
<1>11. SubSeq(b, 2, w) \in Seq(Nat) /\ Len(SubSeq(b, 2, w)) = w - 1
       /\ \A i \in 1 .. w - 1 : SubSeq(b, 2, w)[i] = left[(w - 1) - i] % 256
  <2>1. \A i \in 2 .. w : b[i] \in Byte
    <3>1. \A i \in 2 .. w : i \in 1 .. Len(b)
      BY <1>8
    <3> QED BY <1>8, <3>1, ElementOfSeq
  <2>2. /\ SubSeq(b, 2, w) \in Seq(Byte)
        /\ Len(SubSeq(b, 2, w)) = IF 2 <= w THEN w - 2 + 1 ELSE 0
        /\ \A i \in 1 .. w - 2 + 1 : SubSeq(b, 2, w)[i] = b[2 + i - 1]
    BY <2>1, SubSeqProperties
  <2>3. PICK s : s = SubSeq(b, 2, w)
    OBVIOUS
  <2>4. s \in Seq(Byte) /\ Len(s) = w - 1 /\ \A i \in 1 .. w - 1 : s[i] = b[i + 1]
    <3>1. (IF 2 <= w THEN w - 2 + 1 ELSE 0) = w - 1 /\ w - 2 + 1 = w - 1
      OBVIOUS
    <3>2. \A i \in 1 .. w - 1 : 2 + i - 1 = i + 1
      OBVIOUS
    <3> QED BY <2>2, <2>3, <3>1, <3>2
  <2>5. s \in Seq(Nat)
    BY <2>4, AreNumbers
  <2>6. ASSUME NEW i \in 1 .. w - 1 PROVE s[i] = left[(w - 1) - i] % 256
    <3>1. i + 1 \in 2 .. w /\ i + 1 \in 1 .. w /\ w - (i + 1) = (w - 1) - i
      OBVIOUS
    <3> QED BY <1>5, <1>8, <2>4, <3>1
  <2> QED BY <2>3, <2>4, <2>5, <2>6
<1>12. Unsigned(b[1] % 64, SubSeq(b, 2, w)) = v
  <2>1. PICK s \in Seq(Nat) : s = SubSeq(b, 2, w)
    BY <1>11
  <2>2. PICK m \in 0 .. w : m = w - 1
    OBVIOUS
  <2>3. Len(s) = m /\ \A i \in 1 .. m : s[i] = left[m - i] % 256
    BY <1>11, <2>1, <2>2
  <2>4. Unsigned(left[m], s) = v
    BY <1>3, <2>3, BytesExact
  <2> QED BY <1>9, <2>1, <2>2, <2>4
<1>13. SubSeq(b, w + 1, Len(b)) = rest
  <2>1. \A i \in w + 1 .. w + n : b[i] \in Byte
    <3>1. \A i \in w + 1 .. w + n : i \in 1 .. Len(b)
      BY <1>8
    <3> QED BY <1>8, <3>1, ElementOfSeq
  <2>2. /\ SubSeq(b, w + 1, w + n) \in Seq(Byte)
        /\ Len(SubSeq(b, w + 1, w + n)) = IF w + 1 <= w + n THEN (w + n) - (w + 1) + 1 ELSE 0
        /\ \A i \in 1 .. (w + n) - (w + 1) + 1 : SubSeq(b, w + 1, w + n)[i] = b[(w + 1) + i - 1]
    BY <2>1, SubSeqProperties
  <2>3. PICK s : s = SubSeq(b, w + 1, w + n)
    OBVIOUS
  <2>4. (IF w + 1 <= w + n THEN (w + n) - (w + 1) + 1 ELSE 0) = n /\ (w + n) - (w + 1) + 1 = n
    OBVIOUS
  <2>5. \A i \in 1 .. n : (w + 1) + i - 1 = w + i
    OBVIOUS
  <2>6. s \in Seq(Byte) /\ Len(s) = n /\ \A i \in 1 .. n : s[i] = rest[i]
    BY <1>8, <2>2, <2>3, <2>4, <2>5
  <2>7. s = rest
    BY <1>7, <2>6, SeqEqual
  <2> QED BY <1>8, <2>3, <2>7
<1>14. Widths[(b[1] \div 64) + 1] = w
  BY <1>3, <1>9
<1>15. ParseVarint(b) = {[val |-> Unsigned(b[1] % 64, SubSeq(b, 2, w)), rest |-> SubSeq(b, w + 1, Len(b))]}
  BY <1>10, <1>14 DEF ParseVarint
<1> QED BY <1>4, <1>6, <1>12, <1>13, <1>15

(* What is left of the sequences seqs, written one behind the other, when  *)
(* i of them have been taken off.                                          *)
Left(A, seqs, n, f) ==
    /\ f \in [0 .. n -> Seq(A)]
    /\ f[0] = FlattenSeq(seqs) /\ f[n] = <<>>
    /\ \A i \in 1 .. n : f[i - 1] = seqs[i] \o f[i]

(* The first i of them, for each i. *)
Joined(A, seqs, n, u) ==
    /\ u \in [1 .. n -> Seq(A)]
    /\ u[1] = seqs[1] /\ FlattenSeq(seqs) = u[n]
    /\ \A i \in 2 .. n : u[i] = u[i - 1] \o seqs[i]

(* Sequences are joined from the front, one at a time.                     *)
LEMMA FlattenTurns ==
  ASSUME NEW A, NEW seqs, NEW n \in Nat \ {0}, seqs \in Seq(Seq(A)), Len(seqs) = n
  PROVE  \E u : Joined(A, seqs, n, u)
<1>1. \A i \in 1 .. n : seqs[i] \in Seq(A)
  BY ElementOfSeq
<1> DEFINE flat == CHOOSE u : u = [i \in 1 .. n |-> IF i = 1 THEN seqs[i] ELSE u[i - 1] \o seqs[i]]
<1>2. PICK step : step = [i \in 1 .. n |-> [x \in Seq(A) |-> x \o seqs[i]]]
  OBVIOUS
<1>3. Looping(Seq(A), seqs[1], 1, n, step)
  <2>1. \A i \in 1 .. n, x \in Seq(A) : x \o seqs[i] \in Seq(A)
    BY <1>1, ConcatProperties
  <2>2. step \in [1 .. n -> [Seq(A) -> Seq(A)]]
    BY <1>2, <2>1
  <2>3. seqs[1] \in Seq(A) /\ 1 \in Int /\ n \in Int /\ 1 <= n
    BY <1>1
  <2> QED BY <2>2, <2>3 DEF Looping
<1>4. PICK f : /\ f \in [1 .. n -> Seq(A)] /\ f[1] = seqs[1]
               /\ \A i \in 2 .. n : f[i] = step[i][f[i - 1]]
  <2>1. 1 + (n - 1) = n /\ 1 + 1 = 2
    OBVIOUS
  <2>2. PICK f : Turns(Seq(A), seqs[1], 1, step, n - 1, f)
    BY <1>3, Loop
  <2> QED BY <2>1, <2>2 DEF Turns
<1>5. ASSUME NEW i \in 2 .. n PROVE f[i] = f[i - 1] \o seqs[i]
  <2>1. i - 1 \in 1 .. n /\ i \in 1 .. n
    OBVIOUS
  <2>2. f[i - 1] \in Seq(A)
    BY <1>4, <2>1
  <2>3. f[i] = step[i][f[i - 1]]
    BY <1>4
  <2>4. step[i] = [x \in Seq(A) |-> x \o seqs[i]]
    BY <1>2, <2>1
  <2> QED BY <2>2, <2>3, <2>4
<1>6. f = [i \in 1 .. n |-> IF i = 1 THEN seqs[i] ELSE f[i - 1] \o seqs[i]]
  <2>1. \A i \in 1 .. n : i = 1 \/ i \in 2 .. n
    OBVIOUS
  <2> QED BY <1>4, <1>5, <2>1
<1>7. flat = [i \in 1 .. n |-> IF i = 1 THEN seqs[i] ELSE flat[i - 1] \o seqs[i]]
  BY <1>6
<1>8. FlattenSeq(seqs) = flat[n]
  BY DEF FlattenSeq
<1> HIDE DEF flat
<1>9. PICK u : u = [i \in 1 .. n |-> IF i = 1 THEN seqs[i] ELSE u[i - 1] \o seqs[i]] /\ u = flat
  BY <1>7
<1>10. u[1] = seqs[1] /\ \A i \in 2 .. n : u[i] = u[i - 1] \o seqs[i]
  <2>1. 1 \in 1 .. n /\ \A i \in 2 .. n : i \in 1 .. n /\ i # 1
    OBVIOUS
  <2> QED BY <1>9, <2>1
<1>11. \A i \in Nat : i + 1 <= n => u[i + 1] = f[i + 1]
  <2> DEFINE S == {i \in Nat : i + 1 <= n => u[i + 1] = f[i + 1]}
  <2>1. 0 \in S
    BY <1>4, <1>10
  <2>2. ASSUME NEW i \in Nat, i \in S, (i + 1) + 1 <= n PROVE u[(i + 1) + 1] = f[(i + 1) + 1]
    <3>1. PICK k \in 2 .. n : k = (i + 1) + 1 /\ k - 1 = i + 1
      BY <2>2
    <3>2. u[k - 1] = f[k - 1]
      BY <2>2, <3>1
    <3> QED BY <1>5, <1>10, <3>1, <3>2
  <2>3. Nat \subseteq S
    <3>1. \A i \in Nat : i \in S => i + 1 \in S
      BY <2>2
    <3> HIDE DEF S
    <3> QED BY <2>1, <3>1, Induction
  <2> QED BY <2>3
<1>12. u[n] = f[n]
  <2>1. PICK m \in Nat : m + 1 = n
    <3>1. n - 1 \in Nat /\ (n - 1) + 1 = n
      OBVIOUS
    <3> QED BY <3>1
  <2>2. m + 1 <= n
    BY <2>1
  <2>3. u[m + 1] = f[m + 1]
    BY <1>11, <2>2
  <2> QED BY <2>1, <2>3
<1>13. Joined(A, seqs, n, f)
  BY <1>4, <1>5, <1>8, <1>9, <1>12 DEF Joined
<1> QED BY <1>13

(* What is left of joined sequences when the first ones are taken off.     *)
LEMMA Glued ==
  ASSUME NEW A, NEW seqs, NEW n \in Nat, seqs \in Seq(Seq(A)), Len(seqs) = n
  PROVE  \E f : Left(A, seqs, n, f)
<1>1. \A i \in 1 .. n : seqs[i] \in Seq(A)
  BY ElementOfSeq
<1>2. CASE n = 0
  <2>1. seqs = <<>>
    BY <1>2, EmptySeq
  <2>2. FlattenSeq(seqs) = <<>>
    BY <1>2, <2>1 DEF FlattenSeq
  <2>3. PICK f : f = [i \in 0 .. 0 |-> <<>>]
    OBVIOUS
  <2>4. <<>> \in Seq(A)
    BY EmptySeq
  <2>5. f \in [0 .. 0 -> Seq(A)] /\ f[0] = <<>>
    BY <2>3, <2>4
  <2>6. Left(A, seqs, n, f)
    BY <1>2, <2>2, <2>5 DEF Left
  <2> QED BY <2>6
<1>3. CASE n # 0
  <2>1. n \in Nat \ {0}
    BY <1>3
  <2>2. PICK u : /\ u \in [1 .. n -> Seq(A)]
                 /\ u[1] = seqs[1] /\ FlattenSeq(seqs) = u[n]
                 /\ \A i \in 2 .. n : u[i] = u[i - 1] \o seqs[i]
    <3>1. PICK u : Joined(A, seqs, n, u)
      BY <2>1, FlattenTurns
    <3> QED BY <3>1 DEF Joined
  <2>3. PICK step : step = [i \in 0 .. n |-> [x \in Seq(A) |->
                              IF i = 0 THEN x ELSE seqs[n + 1 - i] \o x]]
    OBVIOUS
  <2>4. Looping(Seq(A), <<>>, 0, n, step)
    <3>1. ASSUME NEW i \in 0 .. n, NEW x \in Seq(A)
          PROVE  (IF i = 0 THEN x ELSE seqs[n + 1 - i] \o x) \in Seq(A)
      <4>1. CASE i = 0
        BY <4>1
      <4>2. CASE i # 0
        <5>1. n + 1 - i \in 1 .. n
          BY <4>2
        <5>2. seqs[n + 1 - i] \o x \in Seq(A)
          BY <1>1, <5>1, ConcatProperties
        <5> QED BY <4>2, <5>2
      <4> QED BY <4>1, <4>2
    <3>2. step \in [0 .. n -> [Seq(A) -> Seq(A)]]
      BY <2>3, <3>1
    <3>3. <<>> \in Seq(A) /\ 0 \in Int /\ n \in Int /\ 0 <= n
      BY EmptySeq
    <3> QED BY <3>2, <3>3 DEF Looping
  <2>5. PICK g : /\ g \in [0 .. n -> Seq(A)] /\ g[0] = <<>>
                 /\ \A i \in 1 .. n : g[i] = step[i][g[i - 1]]
    <3>1. 0 + (n - 0) = n /\ 0 + 1 = 1
      OBVIOUS
    <3>2. PICK g : Turns(Seq(A), <<>>, 0, step, n - 0, g)
      BY <2>4, Loop
    <3> QED BY <3>1, <3>2 DEF Turns
  <2>6. ASSUME NEW i \in 1 .. n PROVE g[i] = seqs[n + 1 - i] \o g[i - 1]
    <3>1. i - 1 \in 0 .. n /\ i \in 0 .. n /\ i # 0
      OBVIOUS
    <3>2. g[i - 1] \in Seq(A)
      BY <2>5, <3>1
    <3>3. step[i] = [x \in Seq(A) |-> seqs[n + 1 - i] \o x]
      BY <2>3, <3>1
    <3> QED BY <2>5, <3>2, <3>3
  <2> DEFINE Whole(k) == u[n - k] \o g[k] = u[n]
             S == {k \in Nat : k < n => Whole(k)}
  <2>7. Whole(0)
    <3>1. n - 0 = n /\ u[n] \in Seq(A)
      BY <2>1, <2>2
    <3>2. u[n] \o <<>> = u[n]
      BY <3>1, ConcatEmptySeq
    <3> QED BY <2>5, <3>1, <3>2
  <2>8. ASSUME NEW k \in Nat, Whole(k), k + 1 < n PROVE Whole(k + 1)
    <3>1. PICK m \in 2 .. n : m = n - k /\ m - 1 = n - (k + 1) /\ n + 1 - (k + 1) = m
      <4>1. n - k \in 2 .. n /\ (n - k) - 1 = n - (k + 1) /\ n + 1 - (k + 1) = n - k
        BY <2>8
      <4> QED BY <4>1
    <3>2. u[m] \o g[k] = u[n]
      BY <2>8, <3>1
    <3>3. u[m] = u[m - 1] \o seqs[m]
      BY <2>2
    <3>4. g[k + 1] = seqs[m] \o g[k]
      <4>1. k + 1 \in 1 .. n /\ (k + 1) - 1 = k
        BY <2>8
      <4> QED BY <2>6, <3>1, <4>1
    <3>5. /\ u[m - 1] \in Seq(A) /\ seqs[m] \in Seq(A) /\ g[k] \in Seq(A)
      <4>1. m - 1 \in 1 .. n /\ m \in 1 .. n /\ k \in 0 .. n
        BY <2>8
      <4> QED BY <1>1, <2>2, <2>5, <4>1
    <3>6. (u[m - 1] \o seqs[m]) \o g[k] = u[m - 1] \o (seqs[m] \o g[k])
      <4>1. PICK x \in Seq(A), y \in Seq(A), z \in Seq(A) :
               x = u[m - 1] /\ y = seqs[m] /\ z = g[k]
        BY <3>5
      <4>2. (x \o y) \o z = x \o (y \o z)
        BY ConcatAssociative
      <4> QED BY <4>1, <4>2
    <3> QED BY <3>1, <3>2, <3>3, <3>4, <3>6
  <2> HIDE DEF Whole
  <2>9. Nat \subseteq S
    <3>1. 0 \in S
      BY <2>7
    <3>2. \A k \in Nat : k \in S => k + 1 \in S
      BY <2>8
    <3> HIDE DEF S
    <3> QED BY <3>1, <3>2, Induction
  <2>10. g[n] = u[n]
    <3>1. n - 1 \in Nat /\ n - 1 < n /\ n - (n - 1) = 1 /\ n + 1 - n = 1 /\ n \in 1 .. n
      BY <1>3
    <3>2. u[1] \o g[n - 1] = u[n]
      BY <2>9, <3>1 DEF Whole
    <3>3. g[n] = seqs[1] \o g[n - 1]
      BY <2>6, <3>1
    <3> QED BY <2>2, <3>2, <3>3
  <2>11. PICK f : f = [i \in 0 .. n |-> g[n - i]]
    OBVIOUS
  <2>12. \A i \in 0 .. n : n - i \in 0 .. n /\ f[i] = g[n - i]
    BY <2>11
  <2>13. f \in [0 .. n -> Seq(A)]
    BY <2>5, <2>11, <2>12
  <2>14. f[0] = FlattenSeq(seqs) /\ f[n] = <<>>
    <3>1. n - 0 = n /\ n - n = 0 /\ 0 \in 0 .. n /\ n \in 0 .. n
      OBVIOUS
    <3>2. f[0] = g[n] /\ f[n] = g[0]
      BY <2>12, <3>1
    <3> QED BY <2>2, <2>5, <2>10, <3>2
  <2>15. ASSUME NEW i \in 1 .. n PROVE f[i - 1] = seqs[i] \o f[i]
    <3>1. PICK j \in 1 .. n : j = n + 1 - i /\ n - (i - 1) = j /\ j - 1 = n - i /\ n + 1 - j = i
      OBVIOUS
    <3>2. i - 1 \in 0 .. n /\ i \in 0 .. n
      OBVIOUS
    <3>3. g[j] = seqs[i] \o g[j - 1]
      BY <2>6, <3>1
    <3> QED BY <2>12, <3>1, <3>2, <3>3
  <2>16. Left(A, seqs, n, f)
    BY <2>13, <2>14, <2>15 DEF Left
  <2> QED BY <2>16
<1> QED BY <1>2, <1>3

(* Numbers written one behind the other, before what is left at the end. *)
Number == 0 .. MaxVarint

(* The numbers that a varint can hold.                                     *)
LEMMA NumberIff ==
  /\ MaxVarint \in Nat
  /\ \A v : v \in Number <=> v \in Nat /\ v <= MaxVarint
<1>1. MaxVarint \in Nat
  BY DEF MaxVarint
<1> QED BY <1>1 DEF Number

Written(nums, n, f) ==
    /\ f \in [0 .. n -> Seq(Byte)]
    /\ \A i \in 1 .. n : f[i - 1] = Varint(nums[i]) \o f[i]

(* The next number is read.                                                *)
LEMMA AnotherParsed ==
  ASSUME NEW nums, NEW v \in Number, NEW rest \in Seq(Byte)
  PROVE  ParseAnother({[nums |-> nums, rest |-> Varint(v) \o rest]}) =
           {[nums |-> Append(nums, v), rest |-> rest]}
<1>1. PICK r : r = [nums |-> nums, rest |-> Varint(v) \o rest]
  OBVIOUS
<1>2. PICK p : p = [val |-> v, rest |-> rest]
  OBVIOUS
<1>3. ParseVarint(r.rest) = {p}
  <2>1. v \in Nat /\ v <= MaxVarint
    BY NumberIff
  <2>2. ParseVarint(Varint(v) \o rest) = {p}
    BY <1>2, <2>1, VarintRoundTrip
  <2> QED BY <1>1, <2>2
<1> DEFINE Next(s) == {[nums |-> Append(s.nums, n.val), rest |-> n.rest] : n \in ParseVarint(s.rest)}
<1>4. Next(r) = {[nums |-> Append(nums, v), rest |-> rest]}
  <2>1. Next(r) = {[nums |-> Append(r.nums, n.val), rest |-> n.rest] : n \in {p}}
    BY <1>3
  <2>2. Next(r) = {[nums |-> Append(r.nums, p.val), rest |-> p.rest]}
    BY <2>1
  <2>3. r.nums = nums /\ p.val = v /\ p.rest = rest
    BY <1>1, <1>2
  <2> HIDE DEF Next
  <2> QED BY <2>2, <2>3
<1>5. ParseAnother({r}) = UNION {Next(s) : s \in {r}}
  BY DEF ParseAnother
<1> HIDE DEF Next
<1>6. UNION {Next(s) : s \in {r}} = Next(r)
  OBVIOUS
<1> QED BY <1>1, <1>4, <1>5, <1>6

(* A beginning of a sequence, and one element more.                        *)
LEMMA Another ==
  ASSUME NEW A, NEW n \in Nat, NEW s \in Seq(A), Len(s) = n, NEW i \in 1 .. n
  PROVE  SubSeq(s, 1, i) = Append(SubSeq(s, 1, i - 1), s[i])
<1>1. SubSeq(s, 1, i) = SubSeq(s, 1, i - 1) \o <<s[i]>>
  <2>1. 1 \in 1 .. Len(s) /\ i \in 1 .. Len(s)
    OBVIOUS
  <2> QED BY <2>1, SubSeqRecursiveSecond
<1>2. \A k \in 1 .. i - 1 : s[k] \in A
  BY ElementOfSeq
<1>3. s[i] \in A /\ SubSeq(s, 1, i - 1) \in Seq(A)
  BY <1>2, ElementOfSeq, SubSeqProperties
<1> QED BY <1>1, <1>3, AppendIsConcat

(* The loop that reads n numbers, turn by turn.                            *)
LEMMA VarintsParsed ==
  ASSUME NEW n \in Nat, NEW nums \in Seq(Number), Len(nums) = n, NEW f, Written(nums, n, f)
  PROVE  ParseVarints(f[0], n) = {[nums |-> nums, rest |-> f[n]]}
<1> DEFINE base == {[nums |-> <<>>, rest |-> f[0]]}
           parsed == CHOOSE u : u = [i \in 0 .. n |-> IF i = 0 THEN base ELSE ParseAnother(u[i - 1])]
<1>1. PICK g : g = [i \in 0 .. n |-> {[nums |-> SubSeq(nums, 1, i), rest |-> f[i]]}]
  OBVIOUS
<1>2. g[0] = base
  <2>1. SubSeq(nums, 1, 0) = <<>>
    BY SubSeqEmpty
  <2>2. g[0] = {[nums |-> SubSeq(nums, 1, 0), rest |-> f[0]]}
    BY <1>1
  <2> QED BY <2>1, <2>2
<1>3. ASSUME NEW i \in 1 .. n PROVE g[i] = ParseAnother(g[i - 1])
  <2>1. i - 1 \in 0 .. n /\ i \in 0 .. n
    OBVIOUS
  <2>2. PICK v \in Number : v = nums[i]
    BY ElementOfSeq
  <2>3. f[i] \in Seq(Byte) /\ f[i - 1] = Varint(v) \o f[i]
    BY <2>1, <2>2 DEF Written
  <2>4. SubSeq(nums, 1, i) = Append(SubSeq(nums, 1, i - 1), v)
    BY <2>2, Another
  <2>5. PICK before : before = SubSeq(nums, 1, i - 1)
    OBVIOUS
  <2>6. PICK rest \in Seq(Byte) : rest = f[i]
    BY <2>3
  <2>7. g[i - 1] = {[nums |-> before, rest |-> Varint(v) \o rest]}
    BY <1>1, <2>1, <2>3, <2>5, <2>6
  <2>8. g[i] = {[nums |-> Append(before, v), rest |-> rest]}
    BY <1>1, <2>1, <2>4, <2>5, <2>6
  <2>9. ParseAnother({[nums |-> before, rest |-> Varint(v) \o rest]}) =
          {[nums |-> Append(before, v), rest |-> rest]}
    BY AnotherParsed
  <2> QED BY <2>7, <2>8, <2>9
<1>4. g = [i \in 0 .. n |-> IF i = 0 THEN base ELSE ParseAnother(g[i - 1])]
  <2>1. \A i \in 0 .. n : i = 0 \/ i \in 1 .. n
    OBVIOUS
  <2> HIDE DEF base
  <2> QED BY <1>1, <1>2, <1>3, <2>1
<1>5. parsed = [i \in 0 .. n |-> IF i = 0 THEN base ELSE ParseAnother(parsed[i - 1])]
  BY <1>4
<1>6. ParseVarints(f[0], n) = parsed[n]
  BY DEF ParseVarints
<1> HIDE DEF parsed, base
<1>7. PICK u : u = [i \in 0 .. n |-> IF i = 0 THEN base ELSE ParseAnother(u[i - 1])] /\ u = parsed
  BY <1>5
<1>8. u[0] = base /\ \A i \in 1 .. n : u[i] = ParseAnother(u[i - 1])
  <2>1. 0 \in 0 .. n /\ \A i \in 1 .. n : i \in 0 .. n /\ i # 0
    OBVIOUS
  <2> QED BY <1>7, <2>1
<1> DEFINE S == {i \in Nat : i <= n => u[i] = g[i]}
<1>9. 0 \in S
  BY <1>2, <1>8
<1>10. ASSUME NEW i \in Nat, i \in S, i + 1 <= n PROVE u[i + 1] = g[i + 1]
  <2>1. PICK k \in 1 .. n : k = i + 1 /\ k - 1 = i
    BY <1>10
  <2>2. u[k - 1] = g[k - 1]
    BY <1>10, <2>1
  <2> QED BY <1>3, <1>8, <2>1, <2>2
<1>11. Nat \subseteq S
  <2>1. \A i \in Nat : i \in S => i + 1 \in S
    BY <1>10
  <2> HIDE DEF S
  <2> QED BY <1>9, <2>1, Induction
<1>12. u[n] = g[n]
  BY <1>11
<1>13. g[n] = {[nums |-> nums, rest |-> f[n]]}
  <2>1. SubSeq(nums, 1, n) = nums
    BY SubSeqFull
  <2> QED BY <1>1, <2>1
<1> QED BY <1>6, <1>7, <1>12, <1>13

(* A varint is one, two, four or eight bytes.                              *)
LEMMA VarintTyped ==
  ASSUME NEW v \in Number
  PROVE  /\ Varint(v) \in Seq(Byte) /\ Len(Varint(v)) = VarintLen(v)
         /\ VarintLen(v) \in {1, 2, 4, 8}
<1>1. v \in Nat /\ v <= MaxVarint
  BY NumberIff
<1>2. PICK t, left : Tagged(v, t, left)
  BY <1>1, VarintTagged
<1> QED BY <1>1, <1>2, VarintBytes

(* Numbers written one behind the other, with what follows.                *)
LEMMA VarintsWritten ==
  ASSUME NEW n \in Nat, NEW nums \in Seq(Number), Len(nums) = n, NEW rest \in Seq(Byte)
  PROVE  /\ Varints(nums) \in Seq(Byte)
         /\ \E f : Written(nums, n, f) /\ f[0] = Varints(nums) \o rest /\ f[n] = rest
<1>1. PICK seqs : seqs = [i \in DOMAIN nums |-> Varint(nums[i])]
  OBVIOUS
<1>2. DOMAIN nums = 1 .. n
  BY LenProperties
<1>3. ASSUME NEW i \in 1 .. n PROVE seqs[i] = Varint(nums[i]) /\ seqs[i] \in Seq(Byte)
  <2>1. PICK v \in Number : v = nums[i]
    BY ElementOfSeq
  <2>2. seqs[i] = Varint(v)
    BY <1>1, <1>2, <2>1
  <2> QED BY <2>1, <2>2, VarintTyped
<1>4. seqs \in Seq(Seq(Byte)) /\ Len(seqs) = n
  <2>1. seqs \in [1 .. n -> Seq(Byte)]
    <3>1. seqs = [i \in 1 .. n |-> seqs[i]]
      BY <1>1, <1>2
    <3> QED BY <1>3, <3>1
  <2>2. seqs \in Seq(Seq(Byte))
    BY <2>1, SeqDef
  <2> QED BY <2>1, <2>2, LenProperties
<1>5. PICK g : Left(Byte, seqs, n, g)
  BY <1>4, Glued
<1>6. /\ g \in [0 .. n -> Seq(Byte)]
      /\ g[0] = FlattenSeq(seqs) /\ g[n] = <<>>
      /\ \A i \in 1 .. n : g[i - 1] = seqs[i] \o g[i]
  BY <1>5 DEF Left
<1>7. Varints(nums) = g[0] /\ g[0] \in Seq(Byte)
  <2>1. 0 \in 0 .. n
    OBVIOUS
  <2>2. Varints(nums) = g[0]
    BY <1>1, <1>6 DEF Varints
  <2> QED BY <1>6, <2>1, <2>2
<1>8. PICK f : f = [i \in 0 .. n |-> g[i] \o rest]
  OBVIOUS
<1>9. \A i \in 0 .. n : g[i] \in Seq(Byte) /\ f[i] = g[i] \o rest /\ f[i] \in Seq(Byte)
  BY <1>6, <1>8, ConcatProperties
<1>10. ASSUME NEW i \in 1 .. n PROVE f[i - 1] = Varint(nums[i]) \o f[i]
  <2>1. i - 1 \in 0 .. n /\ i \in 0 .. n
    OBVIOUS
  <2>2. PICK x \in Seq(Byte), y \in Seq(Byte) : x = seqs[i] /\ y = g[i]
    BY <1>3, <1>9, <2>1
  <2>3. (x \o y) \o rest = x \o (y \o rest)
    BY ConcatAssociative
  <2>4. f[i - 1] = (x \o y) \o rest
    BY <1>6, <1>9, <2>1, <2>2
  <2>5. f[i] = y \o rest
    BY <1>9, <2>1, <2>2
  <2>6. x = Varint(nums[i])
    BY <1>3, <2>2
  <2> QED BY <2>3, <2>4, <2>5, <2>6
<1>11. f \in [0 .. n -> Seq(Byte)]
  BY <1>8, <1>9
<1>12. f[0] = Varints(nums) \o rest /\ f[n] = rest
  <2>1. 0 \in 0 .. n /\ n \in 0 .. n
    OBVIOUS
  <2>2. f[n] = <<>> \o rest
    BY <1>6, <1>9, <2>1
  <2>3. f[n] = rest
    BY <2>2, ConcatEmptySeq
  <2> QED BY <1>7, <1>9, <2>1, <2>3
<1>13. Written(nums, n, f)
  BY <1>10, <1>11 DEF Written
<1> QED BY <1>7, <1>12, <1>13

(* Numbers written one behind the other are read again, all of them, and   *)
(* what follows is left.                                                   *)
THEOREM VarintsRoundTrip ==
  ASSUME NEW nums \in Seq(Number), NEW rest \in Seq(Byte)
  PROVE  ParseVarints(Varints(nums) \o rest, Len(nums)) = {[nums |-> nums, rest |-> rest]}
<1>1. PICK n \in Nat : n = Len(nums)
  BY LenProperties
<1>2. PICK f : Written(nums, n, f) /\ f[0] = Varints(nums) \o rest /\ f[n] = rest
  BY <1>1, VarintsWritten
<1> QED BY <1>1, <1>2, VarintsParsed

(* Bytes that are taken off by their number, and with it in front. *)
LEMMA BytesRoundTrip ==
  ASSUME NEW bytes \in Seq(Byte), NEW rest \in Seq(Byte)
  PROVE  ParseBytes(bytes \o rest, Len(bytes)) = {[bytes |-> bytes, rest |-> rest]}
<1>1. PICK m \in Nat, n \in Nat : m = Len(bytes) /\ n = Len(rest)
  BY LenProperties
<1>2. PICK b : b = bytes \o rest
  OBVIOUS
<1>3. /\ b \in Seq(Byte) /\ Len(b) = m + n
      /\ \A i \in 1 .. m : b[i] = bytes[i]
      /\ \A i \in 1 .. n : b[m + i] = rest[i]
  <2>1. /\ b \in Seq(Byte) /\ Len(b) = Len(bytes) + Len(rest)
        /\ \A i \in 1 .. Len(bytes) + Len(rest) :
             b[i] = IF i <= Len(bytes) THEN bytes[i] ELSE rest[i - Len(bytes)]
    BY <1>2, ConcatProperties
  <2>2. \A i \in 1 .. m : i \in 1 .. m + n /\ i <= m
    OBVIOUS
  <2>3. ASSUME NEW i \in 1 .. n PROVE b[m + i] = rest[i]
    <3>1. PICK k \in 1 .. m + n : k = m + i /\ ~(k <= m) /\ k - m = i
      <4>1. m + i \in 1 .. m + n /\ ~(m + i <= m) /\ (m + i) - m = i
        OBVIOUS
      <4> QED BY <4>1
    <3> QED BY <1>1, <2>1, <3>1
  <2>4. \A i \in 1 .. m : b[i] = bytes[i]
    BY <1>1, <2>1, <2>2
  <2> QED BY <1>1, <2>1, <2>3, <2>4
<1>4. \A i \in 1 .. m + n : b[i] \in Byte
  BY <1>3, ElementOfSeq
<1>5. SubSeq(b, 1, m) = bytes
  <2>1. \A i \in 1 .. m : b[i] \in Byte
    BY <1>4
  <2>2. /\ SubSeq(b, 1, m) \in Seq(Byte)
        /\ Len(SubSeq(b, 1, m)) = IF 1 <= m THEN m - 1 + 1 ELSE 0
        /\ \A i \in 1 .. m - 1 + 1 : SubSeq(b, 1, m)[i] = b[1 + i - 1]
    BY <2>1, SubSeqProperties
  <2>3. PICK s : s = SubSeq(b, 1, m)
    OBVIOUS
  <2>4. (IF 1 <= m THEN m - 1 + 1 ELSE 0) = m /\ m - 1 + 1 = m
    OBVIOUS
  <2>5. \A i \in 1 .. m : 1 + i - 1 = i
    OBVIOUS
  <2>6. s \in Seq(Byte) /\ Len(s) = m /\ \A i \in 1 .. m : s[i] = bytes[i]
    BY <1>3, <2>2, <2>3, <2>4, <2>5
  <2>7. s = bytes
    BY <1>1, <2>6, SeqEqual
  <2> QED BY <2>3, <2>7
<1>6. SubSeq(b, m + 1, m + n) = rest
  <2>1. \A i \in m + 1 .. m + n : b[i] \in Byte
    BY <1>4
  <2>2. /\ SubSeq(b, m + 1, m + n) \in Seq(Byte)
        /\ Len(SubSeq(b, m + 1, m + n)) = IF m + 1 <= m + n THEN (m + n) - (m + 1) + 1 ELSE 0
        /\ \A i \in 1 .. (m + n) - (m + 1) + 1 : SubSeq(b, m + 1, m + n)[i] = b[(m + 1) + i - 1]
    BY <2>1, SubSeqProperties
  <2>3. PICK s : s = SubSeq(b, m + 1, m + n)
    OBVIOUS
  <2>4. (IF m + 1 <= m + n THEN (m + n) - (m + 1) + 1 ELSE 0) = n /\ (m + n) - (m + 1) + 1 = n
    OBVIOUS
  <2>5. \A i \in 1 .. n : (m + 1) + i - 1 = m + i
    OBVIOUS
  <2>6. s \in Seq(Byte) /\ Len(s) = n /\ \A i \in 1 .. n : s[i] = rest[i]
    BY <1>3, <2>2, <2>3, <2>4, <2>5
  <2>7. s = rest
    BY <1>1, <2>6, SeqEqual
  <2> QED BY <2>3, <2>7
<1>7. ~(m > m + n)
  OBVIOUS
<1>8. ParseBytes(b, m) = {[bytes |-> SubSeq(b, 1, m), rest |-> SubSeq(b, m + 1, m + n)]}
  BY <1>3, <1>7 DEF ParseBytes
<1> QED BY <1>1, <1>2, <1>5, <1>6, <1>8

(* Bytes with their length in front.                                       *)
LEMMA CountedTyped ==
  ASSUME NEW bytes \in Seq(Byte), Len(bytes) <= MaxVarint
  PROVE  Len(bytes) \in Number /\ Counted(bytes) \in Seq(Byte)
<1>1. Len(bytes) \in Number
  <2>1. Len(bytes) \in Nat
    BY LenProperties
  <2> QED BY <2>1, NumberIff
<1>2. Varint(Len(bytes)) \in Seq(Byte)
  BY <1>1, VarintTyped
<1> QED BY <1>1, <1>2, ConcatProperties DEF Counted

(* Bytes with their length in front are read again, as by                  *)
(* parseCryptoFrame.                                                       *)
LEMMA CountedRoundTrip ==
  ASSUME NEW bytes \in Seq(Byte), Len(bytes) <= MaxVarint, NEW rest \in Seq(Byte)
  PROVE  ParseCounted(Counted(bytes) \o rest) = {[bytes |-> bytes, rest |-> rest]}
<1>1. PICK n \in Number : n = Len(bytes)
  BY CountedTyped
<1>2. Varint(n) \in Seq(Byte) /\ bytes \o rest \in Seq(Byte)
  BY VarintTyped, ConcatProperties
<1>3. (Varint(n) \o bytes) \o rest = Varint(n) \o (bytes \o rest)
  <2>1. PICK x \in Seq(Byte) : x = Varint(n)
    BY <1>2
  <2>2. (x \o bytes) \o rest = x \o (bytes \o rest)
    BY ConcatAssociative
  <2> QED BY <2>1, <2>2
<1>4. PICK p : p = [val |-> n, rest |-> bytes \o rest]
  OBVIOUS
<1>5. ParseVarint(Varint(n) \o (bytes \o rest)) = {p}
  <2>1. n \in Nat /\ n <= MaxVarint
    BY NumberIff
  <2> QED BY <1>2, <1>4, <2>1, VarintRoundTrip
<1>6. ParseBytes(p.rest, p.val) = {[bytes |-> bytes, rest |-> rest]}
  BY <1>1, <1>4, BytesRoundTrip
<1>7. ParseCounted(Varint(n) \o (bytes \o rest)) = UNION {ParseBytes(k.rest, k.val) : k \in {p}}
  BY <1>5 DEF ParseCounted
<1>8. UNION {ParseBytes(k.rest, k.val) : k \in {p}} = ParseBytes(p.rest, p.val)
  OBVIOUS
<1> QED BY <1>1, <1>3, <1>6, <1>7, <1>8 DEF Counted

-----------------------------------------------------------------------------
(* Frames *)

(* The frames that Append can write and that are written so that others    *)
(* can follow them: numbers that fit a varint, ACK ranges as               *)
(* buildAckRanges makes them, the eight bytes of a path frame, and STREAM  *)
(* frames that say how long they are, as all that the code sends do.       *)
Field == {bytes \in Seq(Byte) : Len(bytes) <= MaxVarint}

NumbersWritable(f) ==
    \E t \in DOMAIN NumberCount, nums \in Seq(Number) :
      Len(nums) = NumberCount[t] /\ f = NumbersFrame(t, nums)

StreamWritable(f) ==
    \E id \in Number, off \in Number, data \in Field, fin \in BOOLEAN :
      f = StreamFrame(id, off, data, fin, TRUE)

AckWritable(f) ==
    \E ranges \in Seq(Ranges), delay \in Number :
      /\ ranges # <<>> /\ Separated(ranges)
      /\ ranges[1].largest \in Number /\ Len(ranges) \in Number
      /\ f = AckFrameOf(ranges, delay)

CloseWritable(f) ==
    \E app \in BOOLEAN, code \in Number, reason \in Field : f = CloseFrame(app, code, reason)

CryptoWritable(f) ==
    \E off \in Number, data \in Field : f = [type |-> 6, off |-> off, data |-> data]

PathWritable(f) ==
    \E t \in {26, 27}, data \in Seq(Byte) : Len(data) = 8 /\ f = [type |-> t, data |-> data]

Writable(f) ==
    \/ NumbersWritable(f) \/ StreamWritable(f) \/ AckWritable(f)
    \/ CloseWritable(f) \/ CryptoWritable(f) \/ PathWritable(f)

(* What it is to be read back, whatever follows. *)
ReadBack(f) ==
    /\ AppendFrame(f) \in Seq(Byte) /\ AppendFrame(f) # <<>>
    /\ \A rest \in Seq(Byte) : ParseNext(AppendFrame(f) \o rest) = {Parsed(f, rest)}

(* A byte in front of others, found and taken off.                         *)
LEMMA Headed ==
  ASSUME NEW x \in Byte, NEW s \in Seq(Byte), NEW rest \in Seq(Byte)
  PROVE  /\ <<x>> \o s \in Seq(Byte) /\ <<x>> \o s # <<>>
         /\ ((<<x>> \o s) \o rest)[1] = x
         /\ Tail((<<x>> \o s) \o rest) = s \o rest
<1>1. <<x>> \in Seq(Byte) /\ Len(<<x>>) = 1 /\ <<x>>[1] = x
  OBVIOUS
<1>2. PICK h \in Seq(Byte) : h = <<x>> /\ Len(h) = 1 /\ h[1] = x
  BY <1>1
<1>3. PICK t \in Seq(Byte) : t = s \o rest
  BY ConcatProperties
<1>4. (h \o s) \o rest = h \o t
  BY <1>3, ConcatAssociative
<1>5. PICK b : b = h \o t
  OBVIOUS
<1>6. PICK n \in Nat : n = Len(t)
  BY LenProperties
<1>7. /\ b \in Seq(Byte) /\ Len(b) = 1 + n
      /\ b[1] = x /\ \A i \in 1 .. n : b[i + 1] = t[i]
  <2>1. /\ b \in Seq(Byte) /\ Len(b) = Len(h) + Len(t)
        /\ \A i \in 1 .. Len(h) + Len(t) : b[i] = IF i <= Len(h) THEN h[i] ELSE t[i - Len(h)]
    BY <1>5, ConcatProperties
  <2>2. 1 \in 1 .. 1 + n
    OBVIOUS
  <2>3. \A i \in 1 .. n : i + 1 \in 1 .. 1 + n /\ ~(i + 1 <= 1) /\ (i + 1) - 1 = i
    OBVIOUS
  <2> QED BY <1>2, <1>6, <2>1, <2>2, <2>3
<1>8. Tail(b) = t
  <2>1. b # <<>>
    BY <1>6, <1>7, EmptySeq
  <2>2. /\ Tail(b) \in Seq(Byte) /\ Len(Tail(b)) = Len(b) - 1
        /\ \A i \in 1 .. Len(Tail(b)) : Tail(b)[i] = b[i + 1]
    BY <1>7, <2>1, HeadTailProperties
  <2>3. PICK u : u = Tail(b)
    OBVIOUS
  <2>4. u \in Seq(Byte) /\ Len(u) = n /\ \A i \in 1 .. n : u[i] = t[i]
    BY <1>6, <1>7, <2>2, <2>3
  <2>5. u = t
    BY <1>6, <2>4, SeqEqual
  <2> QED BY <2>3, <2>5
<1>9. h \o s \in Seq(Byte) /\ h \o s # <<>>
  <2>1. h \o s \in Seq(Byte) /\ Len(h \o s) = Len(h) + Len(s)
    BY ConcatProperties
  <2>2. Len(s) \in Nat
    BY LenProperties
  <2>3. Len(h \o s) # 0
    BY <1>2, <2>1, <2>2
  <2> QED BY <2>1, <2>3, EmptySeq
<1> QED BY <1>2, <1>3, <1>4, <1>5, <1>7, <1>8, <1>9

(* Each kind of frame in turn: the frames that are a type and numbers.     *)
LEMMA NumbersReadBack ==
  ASSUME NEW f, NumbersWritable(f)
  PROVE  ReadBack(f)
<1>1. PICK t \in DOMAIN NumberCount, nums \in Seq(Number) :
         Len(nums) = NumberCount[t] /\ f = NumbersFrame(t, nums)
  BY DEF NumbersWritable
<1>2. t \in {1, 4, 5} \cup 16 .. 23
  BY DEF NumberCount
<1>3. t \in Byte /\ t \notin {0, 2, 3, 6, 26, 27, 28, 29} /\ t \notin 8 .. 15
  <2>1. \A u \in {1, 4, 5} \cup 16 .. 23 :
          u \in 0 .. 255 /\ u \notin {0, 2, 3, 6, 26, 27, 28, 29} /\ u \notin 8 .. 15
    OBVIOUS
  <2> QED BY <1>2, <2>1 DEF Byte
<1>4. f.type = t /\ f.nums = nums
  BY <1>1 DEF NumbersFrame
<1>5. AppendFrame(f) = <<t>> \o Varints(nums)
  BY <1>3, <1>4 DEF AppendFrame
<1>6. PICK s \in Seq(Byte) : s = Varints(nums)
  <2>1. Len(nums) \in Nat /\ <<>> \in Seq(Byte)
    BY LenProperties, EmptySeq
  <2>2. Varints(nums) \in Seq(Byte)
    BY <2>1, VarintsWritten
  <2> QED BY <2>2
<1>7. ASSUME NEW rest \in Seq(Byte) PROVE ParseNext(AppendFrame(f) \o rest) = {Parsed(f, rest)}
  <2>1. PICK b : b = (<<t>> \o s) \o rest
    OBVIOUS
  <2>2. b[1] = t /\ Tail(b) = s \o rest
    BY <1>3, <2>1, Headed
  <2>3. PICK r : r = [nums |-> nums, rest |-> rest]
    OBVIOUS
  <2>4. ParseVarints(Tail(b), NumberCount[t]) = {r}
    BY <1>1, <1>6, <2>2, <2>3, VarintsRoundTrip
  <2>5. ParseNumbers(b) = {Parsed(NumbersFrame(t, q.nums), q.rest) : q \in {r}}
    BY <2>2, <2>4 DEF ParseNumbers
  <2>6. ParseNumbers(b) = {Parsed(f, rest)}
    BY <1>1, <2>3, <2>5
  <2>7. ParseNext(b) = ParseNumbers(b)
    BY <1>3, <2>2 DEF ParseNext
  <2> QED BY <1>5, <1>6, <2>1, <2>6, <2>7
<1>8. AppendFrame(f) \in Seq(Byte) /\ AppendFrame(f) # <<>>
  <2>1. <<>> \in Seq(Byte)
    BY EmptySeq
  <2> QED BY <1>3, <1>5, <1>6, <2>1, Headed
<1> QED BY <1>7, <1>8 DEF ReadBack

(* PATH_CHALLENGE and PATH_RESPONSE.                                       *)
LEMMA PathReadBack ==
  ASSUME NEW f, PathWritable(f)
  PROVE  ReadBack(f)
<1>1. PICK t \in {26, 27}, data \in Seq(Byte) : Len(data) = 8 /\ f = [type |-> t, data |-> data]
  BY DEF PathWritable
<1>2. t \in Byte
  BY DEF Byte
<1>3. f.type = t /\ f.data = data
  BY <1>1
<1>4. AppendFrame(f) = <<t>> \o data
  BY <1>3 DEF AppendFrame
<1>5. ASSUME NEW rest \in Seq(Byte) PROVE ParseNext(AppendFrame(f) \o rest) = {Parsed(f, rest)}
  <2>1. PICK b : b = (<<t>> \o data) \o rest
    OBVIOUS
  <2>2. b[1] = t /\ Tail(b) = data \o rest
    BY <1>2, <2>1, Headed
  <2>3. PICK r : r = [bytes |-> data, rest |-> rest]
    OBVIOUS
  <2>4. ParseBytes(Tail(b), 8) = {r}
    BY <1>1, <2>2, <2>3, BytesRoundTrip
  <2>5. ParsePath(b) = {Parsed([type |-> t, data |-> q.bytes], q.rest) : q \in {r}}
    BY <2>2, <2>4 DEF ParsePath
  <2>6. ParsePath(b) = {Parsed(f, rest)}
    BY <1>1, <2>3, <2>5
  <2>7. ParseNext(b) = ParsePath(b)
    <3>1. t \notin DOMAIN NumberCount
      BY DEF NumberCount
    <3>2. t \notin {0, 2, 3, 6, 28, 29} /\ t \notin 8 .. 15
      OBVIOUS
    <3> QED BY <2>2, <3>1, <3>2 DEF ParseNext
  <2> QED BY <1>4, <2>1, <2>6, <2>7
<1>6. AppendFrame(f) \in Seq(Byte) /\ AppendFrame(f) # <<>>
  <2>1. <<>> \in Seq(Byte)
    BY EmptySeq
  <2> QED BY <1>2, <1>4, <2>1, Headed
<1> QED BY <1>5, <1>6 DEF ReadBack

(* One number, and two, read off what follows the type of a frame. *)
LEMMA OneParsed ==
  ASSUME NEW a \in Number, NEW rest \in Seq(Byte)
  PROVE  ParseVarints(Varint(a) \o rest, 1) = {[nums |-> <<a>>, rest |-> rest]}
<1>1. <<a>> \in Seq(Number) /\ Len(<<a>>) = 1 /\ <<a>>[1] = a
  OBVIOUS
<1>2. PICK nums \in Seq(Number) : nums = <<a>> /\ Len(nums) = 1 /\ nums[1] = a
  BY <1>1
<1>3. PICK y \in Seq(Byte) : y = Varint(a) \o rest
  BY VarintTyped, ConcatProperties
<1>4. PICK f : f = [i \in 0 .. 1 |-> IF i = 0 THEN y ELSE rest]
  OBVIOUS
<1>5. f[0] = y /\ f[1] = rest
  BY <1>4
<1>6. f \in [0 .. 1 -> Seq(Byte)]
  BY <1>4
<1>7. \A i \in 1 .. 1 : f[i - 1] = Varint(nums[i]) \o f[i]
  <2>1. \A i \in 1 .. 1 : i = 1 /\ i - 1 = 0
    OBVIOUS
  <2>2. f[0] = Varint(nums[1]) \o f[1]
    BY <1>2, <1>3, <1>5
  <2> QED BY <2>1, <2>2
<1>8. Written(nums, 1, f)
  BY <1>6, <1>7 DEF Written
<1>9. ParseVarints(f[0], 1) = {[nums |-> nums, rest |-> f[1]]}
  BY <1>2, <1>8, VarintsParsed
<1> QED BY <1>2, <1>3, <1>5, <1>9

(* Two numbers are read.                                                   *)
LEMMA TwoParsed ==
  ASSUME NEW a \in Number, NEW b \in Number, NEW rest \in Seq(Byte)
  PROVE  ParseVarints(Varint(a) \o (Varint(b) \o rest), 2) =
           {[nums |-> <<a, b>>, rest |-> rest]}
<1>1. /\ <<a, b>> \in Seq(Number) /\ Len(<<a, b>>) = 2
      /\ <<a, b>>[1] = a /\ <<a, b>>[2] = b
  OBVIOUS
<1>2. PICK nums \in Seq(Number) : /\ nums = <<a, b>> /\ Len(nums) = 2
                                  /\ nums[1] = a /\ nums[2] = b
  BY <1>1
<1>3. PICK y \in Seq(Byte) : y = Varint(b) \o rest
  BY VarintTyped, ConcatProperties
<1>4. PICK z \in Seq(Byte) : z = Varint(a) \o y
  BY VarintTyped, ConcatProperties
<1>5. PICK f : f = [i \in 0 .. 2 |-> IF i = 0 THEN z ELSE IF i = 1 THEN y ELSE rest]
  OBVIOUS
<1>6. f[0] = z /\ f[1] = y /\ f[2] = rest
  BY <1>5
<1>7. f \in [0 .. 2 -> Seq(Byte)]
  BY <1>5
<1>8. \A i \in 1 .. 2 : f[i - 1] = Varint(nums[i]) \o f[i]
  <2>1. \A i \in 1 .. 2 : (i = 1 /\ i - 1 = 0) \/ (i = 2 /\ i - 1 = 1)
    OBVIOUS
  <2>2. f[0] = Varint(nums[1]) \o f[1]
    BY <1>2, <1>4, <1>6
  <2>3. f[1] = Varint(nums[2]) \o f[2]
    BY <1>2, <1>3, <1>6
  <2> QED BY <2>1, <2>2, <2>3
<1>9. Written(nums, 2, f)
  BY <1>7, <1>8 DEF Written
<1>10. ParseVarints(f[0], 2) = {[nums |-> nums, rest |-> f[2]]}
  BY <1>2, <1>9, VarintsParsed
<1> QED BY <1>2, <1>3, <1>4, <1>6, <1>10

(* The proofs about frames put many pieces one behind the other, and use   *)
(* only these facts about that.                                            *)
x ++ y == x \o y

IsBytes(s) == s \in Seq(Byte)

(* Joined bytes are bytes.                                                 *)
LEMMA Joined2 == \A x, y : IsBytes(x) /\ IsBytes(y) => IsBytes(x ++ y)
BY ConcatProperties DEF IsBytes, ++

(* Bytes may be joined in any order of joins.                              *)
LEMMA Joined3 ==
  \A x, y, z : IsBytes(x) /\ IsBytes(y) /\ IsBytes(z) => (x ++ y) ++ z = x ++ (y ++ z)
BY ConcatAssociative DEF IsBytes, ++

(* No bytes joined to others.                                              *)
LEMMA JoinedNone == IsBytes(<<>>) /\ \A x : IsBytes(x) => <<>> ++ x = x /\ x ++ <<>> = x
BY EmptySeq, ConcatEmptySeq DEF IsBytes, ++

(* One byte.                                                               *)
LEMMA JoinedOne == \A v \in Byte : IsBytes(<<v>>)
BY DEF IsBytes

(* Four joined.                                                            *)
LEMMA JoinedFour ==
  ASSUME NEW h, NEW x, NEW y, NEW z, IsBytes(h), IsBytes(x), IsBytes(y), IsBytes(z)
  PROVE  ((h ++ x) ++ y) ++ z = h ++ (x ++ (y ++ z))
BY Joined2, Joined3

(* What is left of a frame behind its type, and of what follows its        *)
(* numbers.                                                                *)
LEMMA TypeFirst ==
  \A x \in Byte : \A s, rest : IsBytes(s) /\ IsBytes(rest) =>
     /\ IsBytes(<<x>> ++ s) /\ <<x>> ++ s # <<>>
     /\ ((<<x>> ++ s) ++ rest)[1] = x
     /\ Tail((<<x>> ++ s) ++ rest) = s ++ rest
BY Headed DEF IsBytes, ++

(* The fields of frames: numbers, one or two, and bytes with their length. *)
LEMMA FieldsParsed ==
  /\ \A a \in Number : IsBytes(Varint(a))
  /\ \A data \in Field : IsBytes(Counted(data))
  /\ \A a \in Number : \A rest : IsBytes(rest) =>
       ParseVarint(Varint(a) ++ rest) = {[val |-> a, rest |-> rest]}
  /\ \A a \in Number : \A rest : IsBytes(rest) =>
       ParseVarints(Varint(a) ++ rest, 1) = {[nums |-> <<a>>, rest |-> rest]}
  /\ \A a, b \in Number : \A rest : IsBytes(rest) =>
       ParseVarints(Varint(a) ++ (Varint(b) ++ rest), 2) = {[nums |-> <<a, b>>, rest |-> rest]}
  /\ \A data \in Field : \A rest : IsBytes(rest) =>
       ParseCounted(Counted(data) ++ rest) = {[bytes |-> data, rest |-> rest]}
<1>1. \A a \in Number : IsBytes(Varint(a))
  BY VarintTyped DEF IsBytes
<1>2. ASSUME NEW data \in Field
      PROVE  /\ IsBytes(Counted(data))
             /\ \A rest : IsBytes(rest) =>
                  ParseCounted(Counted(data) ++ rest) = {[bytes |-> data, rest |-> rest]}
  <2>1. data \in Seq(Byte) /\ Len(data) <= MaxVarint
    BY DEF Field
  <2> QED BY <2>1, CountedTyped, CountedRoundTrip DEF IsBytes, ++
<1>3. \A a \in Number : \A rest : IsBytes(rest) =>
        ParseVarint(Varint(a) ++ rest) = {[val |-> a, rest |-> rest]}
  BY NumberIff, VarintRoundTrip DEF IsBytes, ++
<1>4. \A a \in Number : \A rest : IsBytes(rest) =>
        ParseVarints(Varint(a) ++ rest, 1) = {[nums |-> <<a>>, rest |-> rest]}
  BY OneParsed DEF IsBytes, ++
<1>5. \A a, b \in Number : \A rest : IsBytes(rest) =>
        ParseVarints(Varint(a) ++ (Varint(b) ++ rest), 2) = {[nums |-> <<a, b>>, rest |-> rest]}
  BY TwoParsed DEF IsBytes, ++
<1> QED BY <1>1, <1>2, <1>3, <1>4, <1>5

(* What must be shown of a frame.                                          *)
LEMMA ToReadBack ==
  ASSUME NEW f, IsBytes(AppendFrame(f)), AppendFrame(f) # <<>>,
         \A rest : IsBytes(rest) => ParseNext(AppendFrame(f) ++ rest) = {Parsed(f, rest)}
  PROVE  ReadBack(f)
BY DEF ReadBack, IsBytes, ++

(* CRYPTO.                                                                 *)
LEMMA CryptoReadBack ==
  ASSUME NEW f, CryptoWritable(f)
  PROVE  ReadBack(f)
<1>1. PICK off \in Number, data \in Field : f = [type |-> 6, off |-> off, data |-> data]
  BY DEF CryptoWritable
<1>2. f.type = 6 /\ f.off = off /\ f.data = data
  BY <1>1
<1>3. 6 \in Byte
  BY DEF Byte
<1>4. PICK o, d, h : /\ o = Varint(off) /\ IsBytes(o)
                     /\ d = Counted(data) /\ IsBytes(d)
                     /\ h = <<6>> /\ IsBytes(h)
  BY <1>3, FieldsParsed, JoinedOne
<1>5. PICK s : s = o ++ d /\ IsBytes(s)
  BY <1>4, Joined2
<1>6. AppendFrame(f) = <<6>> ++ s
  <2>1. (h ++ o) ++ d = h ++ s
    BY <1>4, <1>5, Joined3
  <2> QED BY <1>2, <1>4, <2>1 DEF AppendFrame, ++
<1>7. ASSUME NEW rest, IsBytes(rest) PROVE ParseNext(AppendFrame(f) ++ rest) = {Parsed(f, rest)}
  <2>1. PICK b : b = (<<6>> ++ s) ++ rest
    OBVIOUS
  <2>2. b[1] = 6 /\ Tail(b) = s ++ rest
    BY <1>3, <1>5, <1>7, <2>1, TypeFirst
  <2>3. PICK t : t = d ++ rest /\ IsBytes(t)
    BY <1>4, <1>7, Joined2
  <2>4. Tail(b) = o ++ t
    BY <1>4, <1>5, <1>7, <2>2, <2>3, Joined3
  <2>5. PICK p : p = [val |-> off, rest |-> t]
    OBVIOUS
  <2>6. ParseVarint(Tail(b)) = {p}
    BY <1>4, <2>3, <2>4, <2>5, FieldsParsed
  <2>7. PICK r : r = [bytes |-> data, rest |-> rest]
    OBVIOUS
  <2>8. ParseCounted(p.rest) = {r}
    BY <1>4, <1>7, <2>3, <2>5, <2>7, FieldsParsed
  <2>9. ParseCrypto(b) = UNION {{Parsed([type |-> 6, off |-> x.val, data |-> q.bytes], q.rest)
                                   : q \in ParseCounted(x.rest)} : x \in {p}}
    BY <2>6 DEF ParseCrypto
  <2>10. ParseCrypto(b) = {Parsed([type |-> 6, off |-> p.val, data |-> q.bytes], q.rest) : q \in {r}}
    BY <2>8, <2>9
  <2>11. ParseCrypto(b) = {Parsed(f, rest)}
    BY <1>1, <2>5, <2>7, <2>10
  <2>12. ParseNext(b) = ParseCrypto(b)
    <3>1. 6 \notin DOMAIN NumberCount
      BY DEF NumberCount
    <3> QED BY <2>2, <3>1 DEF ParseNext
  <2> QED BY <1>6, <2>1, <2>11, <2>12
<1>8. IsBytes(AppendFrame(f)) /\ AppendFrame(f) # <<>>
  BY <1>3, <1>5, <1>6, JoinedNone, TypeFirst
<1> QED BY <1>7, <1>8, ToReadBack

(* CONNECTION_CLOSE, of both kinds.                                        *)
LEMMA CloseReadBack ==
  ASSUME NEW f, CloseWritable(f)
  PROVE  ReadBack(f)
<1>1. PICK app \in BOOLEAN, code \in Number, reason \in Field : f = CloseFrame(app, code, reason)
  BY DEF CloseWritable
<1>2. f.type = 28 /\ f.app = app /\ f.code = code /\ f.reason = reason
  BY <1>1 DEF CloseFrame
<1>3. 28 \in Byte /\ 29 \in Byte /\ 0 \in Number
  <2>1. 28 \in Byte /\ 29 \in Byte
    BY DEF Byte
  <2>2. 0 \in Number
    BY NumberIff
  <2> QED BY <2>1, <2>2
<1>4. PICK c, z, d : /\ c = Varint(code) /\ IsBytes(c) /\ z = Varint(0) /\ IsBytes(z)
                     /\ d = Counted(reason) /\ IsBytes(d)
  BY <1>3, FieldsParsed
<1>5. AppendFrame(f) = AppendClose(f)
  BY <1>2 DEF AppendFrame
<1>6. CASE app
  <2>1. PICK h : h = <<29>> /\ IsBytes(h)
    BY <1>3, JoinedOne
  <2>2. AppendFrame(f) = ((h ++ c) ++ <<>>) ++ d
    <3>1. 28 + If(f.app, 1) = 29
      BY <1>2, <1>6 DEF If
    <3> QED BY <1>2, <1>4, <1>5, <1>6, <2>1, <3>1 DEF AppendClose, ++
  <2>3. PICK s : s = c ++ d /\ IsBytes(s)
    BY <1>4, Joined2
  <2>4. AppendFrame(f) = <<29>> ++ s
    <3>1. IsBytes(h ++ c)
      BY <1>4, <2>1, Joined2
    <3>2. (h ++ c) ++ <<>> = h ++ c
      BY <3>1, JoinedNone
    <3>3. (h ++ c) ++ d = h ++ s
      BY <1>4, <2>1, <2>3, Joined3
    <3> QED BY <2>1, <2>2, <3>2, <3>3
  <2>5. ASSUME NEW rest, IsBytes(rest) PROVE ParseNext(AppendFrame(f) ++ rest) = {Parsed(f, rest)}
    <3>1. PICK b : b = (<<29>> ++ s) ++ rest
      OBVIOUS
    <3>2. b[1] = 29 /\ Tail(b) = s ++ rest
      BY <1>3, <2>3, <2>5, <3>1, TypeFirst
    <3>3. PICK t : t = d ++ rest /\ IsBytes(t)
      BY <1>4, <2>5, Joined2
    <3>4. Tail(b) = c ++ t
      BY <1>4, <2>3, <2>5, <3>2, <3>3, Joined3
    <3>5. PICK p : p = [nums |-> <<code>>, rest |-> t]
      OBVIOUS
    <3>6. ParseVarints(Tail(b), 1) = {p}
      BY <1>4, <3>3, <3>4, <3>5, FieldsParsed
    <3>7. PICK r : r = [bytes |-> reason, rest |-> rest]
      OBVIOUS
    <3>8. ParseCounted(p.rest) = {r}
      BY <1>4, <2>5, <3>3, <3>5, <3>7, FieldsParsed
    <3>9. ParseClose(b) = UNION {{Parsed(CloseFrame(b[1] = 29, w.nums[1], q.bytes), q.rest)
                                    : q \in ParseCounted(w.rest)} : w \in {p}}
      <4>1. ParseVarints(Tail(b), IF b[1] = 29 THEN 1 ELSE 2) = {p}
        BY <3>2, <3>6
      <4> QED BY <4>1, Zenon DEF ParseClose
    <3>10. ParseClose(b) = {Parsed(CloseFrame(b[1] = 29, p.nums[1], q.bytes), q.rest) : q \in {r}}
      BY <3>8, <3>9
    <3>11. ParseClose(b) = {Parsed(CloseFrame(b[1] = 29, code, reason), rest)}
      <4>1. p.nums[1] = code /\ r.bytes = reason /\ r.rest = rest
        BY <3>5, <3>7
      <4> QED BY <3>10, <4>1
    <3>12. CloseFrame(b[1] = 29, code, reason) = f
      <4>1. (b[1] = 29) = app
        BY <1>6, <3>2
      <4> QED BY <1>1, <4>1, Zenon
    <3>13. ParseNext(b) = ParseClose(b)
      <4>1. 29 \notin DOMAIN NumberCount
        BY DEF NumberCount
      <4> QED BY <3>2, <4>1 DEF ParseNext
    <3> QED BY <2>4, <3>1, <3>11, <3>12, <3>13
  <2>6. IsBytes(AppendFrame(f)) /\ AppendFrame(f) # <<>>
    BY <1>3, <2>3, <2>4, JoinedNone, TypeFirst
  <2> QED BY <2>5, <2>6, ToReadBack
<1>7. CASE ~app
  <2>1. PICK h : h = <<28>> /\ IsBytes(h)
    BY <1>3, JoinedOne
  <2>2. AppendFrame(f) = ((h ++ c) ++ z) ++ d
    <3>1. 28 + If(f.app, 1) = 28
      BY <1>2, <1>7 DEF If
    <3> QED BY <1>2, <1>4, <1>5, <1>7, <2>1, <3>1 DEF AppendClose, ++
  <2>3. PICK e, s : e = z ++ d /\ IsBytes(e) /\ s = c ++ e /\ IsBytes(s)
    BY <1>4, Joined2
  <2>4. AppendFrame(f) = <<28>> ++ s
    BY <1>4, <2>1, <2>2, <2>3, JoinedFour
  <2>5. ASSUME NEW rest, IsBytes(rest) PROVE ParseNext(AppendFrame(f) ++ rest) = {Parsed(f, rest)}
    <3>1. PICK b : b = (<<28>> ++ s) ++ rest
      OBVIOUS
    <3>2. b[1] = 28 /\ Tail(b) = s ++ rest
      BY <1>3, <2>3, <2>5, <3>1, TypeFirst
    <3>3. PICK t : t = d ++ rest /\ IsBytes(t)
      BY <1>4, <2>5, Joined2
    <3>4. Tail(b) = c ++ (z ++ t)
      <4>1. s ++ rest = c ++ (e ++ rest)
        BY <1>4, <2>3, <2>5, Joined3
      <4>2. e ++ rest = z ++ t
        BY <1>4, <2>3, <2>5, <3>3, Joined3
      <4> QED BY <3>2, <4>1, <4>2
    <3>5. PICK p : p = [nums |-> <<code, 0>>, rest |-> t]
      OBVIOUS
    <3>6. ParseVarints(Tail(b), 2) = {p}
      <4>1. ParseVarints(Varint(code) ++ (Varint(0) ++ t), 2) = {[nums |-> <<code, 0>>, rest |-> t]}
        BY <1>3, <3>3, FieldsParsed
      <4>2. Tail(b) = Varint(code) ++ (Varint(0) ++ t)
        BY <1>4, <3>4
      <4> QED BY <3>5, <4>1, <4>2
    <3>7. PICK r : r = [bytes |-> reason, rest |-> rest]
      OBVIOUS
    <3>8. ParseCounted(p.rest) = {r}
      BY <1>4, <2>5, <3>3, <3>5, <3>7, FieldsParsed
    <3>9. ParseClose(b) = UNION {{Parsed(CloseFrame(b[1] = 29, w.nums[1], q.bytes), q.rest)
                                    : q \in ParseCounted(w.rest)} : w \in {p}}
      <4>1. ParseVarints(Tail(b), IF b[1] = 29 THEN 1 ELSE 2) = {p}
        BY <3>2, <3>6
      <4> QED BY <4>1, Zenon DEF ParseClose
    <3>10. ParseClose(b) = {Parsed(CloseFrame(b[1] = 29, p.nums[1], q.bytes), q.rest) : q \in {r}}
      BY <3>8, <3>9
    <3>11. ParseClose(b) = {Parsed(CloseFrame(b[1] = 29, code, reason), rest)}
      <4>1. p.nums[1] = code /\ r.bytes = reason /\ r.rest = rest
        BY <3>5, <3>7
      <4> QED BY <3>10, <4>1
    <3>12. CloseFrame(b[1] = 29, code, reason) = f
      <4>1. (b[1] = 29) = app
        BY <1>7, <3>2
      <4> QED BY <1>1, <4>1, Zenon
    <3>13. ParseNext(b) = ParseClose(b)
      <4>1. 28 \notin DOMAIN NumberCount
        BY DEF NumberCount
      <4> QED BY <3>2, <4>1 DEF ParseNext
    <3> QED BY <2>4, <3>1, <3>11, <3>12, <3>13
  <2>6. IsBytes(AppendFrame(f)) /\ AppendFrame(f) # <<>>
    BY <1>3, <2>3, <2>4, JoinedNone, TypeFirst
  <2> QED BY <2>5, <2>6, ToReadBack
<1> QED BY <1>6, <1>7

(* The flags of a STREAM frame are read as they are set. *)
LEMMA FlagValues ==
  /\ Bit(15, 4) /\ Bit(15, 2) /\ Bit(15, 1)
  /\ Bit(14, 4) /\ Bit(14, 2) /\ ~Bit(14, 1)
  /\ ~Bit(11, 4) /\ Bit(11, 2) /\ Bit(11, 1)
  /\ ~Bit(10, 4) /\ Bit(10, 2) /\ ~Bit(10, 1)
<1>1. Bit(15, 4) /\ Bit(15, 2) /\ Bit(15, 1)
  <2>1. 15 \div 4 = 3 /\ 15 \div 2 = 7 /\ 15 \div 1 = 15
    OBVIOUS
  <2>2. 3 % 2 = 1 /\ 7 % 2 = 1 /\ 15 % 2 = 1
    OBVIOUS
  <2> QED BY <2>1, <2>2 DEF Bit
<1>2. Bit(14, 4) /\ Bit(14, 2) /\ ~Bit(14, 1)
  <2>1. 14 \div 4 = 3 /\ 14 \div 2 = 7 /\ 14 \div 1 = 14
    OBVIOUS
  <2>2. 3 % 2 = 1 /\ 7 % 2 = 1 /\ 14 % 2 = 0
    OBVIOUS
  <2> QED BY <2>1, <2>2 DEF Bit
<1>3. ~Bit(11, 4) /\ Bit(11, 2) /\ Bit(11, 1)
  <2>1. 11 \div 4 = 2 /\ 11 \div 2 = 5 /\ 11 \div 1 = 11
    OBVIOUS
  <2>2. 2 % 2 = 0 /\ 5 % 2 = 1 /\ 11 % 2 = 1
    OBVIOUS
  <2> QED BY <2>1, <2>2 DEF Bit
<1>4. ~Bit(10, 4) /\ Bit(10, 2) /\ ~Bit(10, 1)
  <2>1. 10 \div 4 = 2 /\ 10 \div 2 = 5 /\ 10 \div 1 = 10
    OBVIOUS
  <2>2. 2 % 2 = 0 /\ 5 % 2 = 1 /\ 10 % 2 = 0
    OBVIOUS
  <2> QED BY <2>1, <2>2 DEF Bit
<1> QED BY <1>1, <1>2, <1>3, <1>4

(* The type of a STREAM frame says which fields it has.                    *)
LEMMA Flags ==
  ASSUME NEW off \in BOOLEAN, NEW fin \in BOOLEAN
  PROVE  \E x \in 8 .. 15 :
           /\ x = 8 + If(off, 4) + 2 + If(fin, 1) /\ x \in Byte
           /\ (Bit(x, 4) <=> off) /\ Bit(x, 2) /\ (Bit(x, 1) <=> fin)
<1>1. \A x \in 8 .. 15 : x \in Byte
  BY DEF Byte
<1>2. CASE off /\ fin
  <2>1. If(off, 4) = 4 /\ If(fin, 1) = 1
    BY <1>2 DEF If
  <2>2. 8 + If(off, 4) + 2 + If(fin, 1) = 15 /\ 15 \in 8 .. 15
    BY <2>1
  <2> QED BY <1>1, <1>2, <2>2, FlagValues, Zenon
<1>3. CASE off /\ ~fin
  <2>1. If(off, 4) = 4 /\ If(fin, 1) = 0
    BY <1>3 DEF If
  <2>2. 8 + If(off, 4) + 2 + If(fin, 1) = 14 /\ 14 \in 8 .. 15
    BY <2>1
  <2> QED BY <1>1, <1>3, <2>2, FlagValues, Zenon
<1>4. CASE ~off /\ fin
  <2>1. If(off, 4) = 0 /\ If(fin, 1) = 1
    BY <1>4 DEF If
  <2>2. 8 + If(off, 4) + 2 + If(fin, 1) = 11 /\ 11 \in 8 .. 15
    BY <2>1
  <2> QED BY <1>1, <1>4, <2>2, FlagValues, Zenon
<1>5. CASE ~off /\ ~fin
  <2>1. If(off, 4) = 0 /\ If(fin, 1) = 0
    BY <1>5 DEF If
  <2>2. 8 + If(off, 4) + 2 + If(fin, 1) = 10 /\ 10 \in 8 .. 15
    BY <2>1
  <2> QED BY <1>1, <1>5, <2>2, FlagValues, Zenon
<1> QED BY <1>2, <1>3, <1>4, <1>5

(* The first byte of a STREAM frame leads to its parser. *)
LEMMA StreamType ==
  ASSUME NEW x \in 8 .. 15, NEW b, b[1] = x
  PROVE  ParseNext(b) = ParseStream(b)
<1>1. x \notin DOMAIN NumberCount
  <2>1. \A u \in 8 .. 15 : u \notin {1, 4, 5} \cup 16 .. 23
    OBVIOUS
  <2> QED BY <2>1 DEF NumberCount
<1>2. x \notin {0, 2, 3, 6, 26, 27, 28, 29}
  OBVIOUS
<1> QED BY <1>1, <1>2 DEF ParseNext

(* A byte in front of others, joined.                                      *)
LEMMA HeadFirst ==
  ASSUME NEW x \in Byte, NEW h, h = <<x>>, NEW s, IsBytes(s), NEW rest, IsBytes(rest)
  PROVE  /\ IsBytes(h ++ s) /\ h ++ s # <<>>
         /\ ((h ++ s) ++ rest)[1] = x /\ Tail((h ++ s) ++ rest) = s ++ rest
BY Headed DEF IsBytes, ++

(* STREAM, with and without an offset.                                     *)
LEMMA StreamReadBack ==
  ASSUME NEW f, StreamWritable(f)
  PROVE  ReadBack(f)
<1>1. PICK id \in Number, off \in Number, data \in Field, fin \in BOOLEAN :
         f = StreamFrame(id, off, data, fin, TRUE)
  BY DEF StreamWritable
<1>2. /\ f.type = 8 /\ f.id = id /\ f.off = off /\ f.data = data /\ f.fin = fin
      /\ f.lenPresent = TRUE
  BY <1>1 DEF StreamFrame
<1>3. off \in Nat
  BY NumberIff
<1>4. PICK c, z, d : /\ c = Varint(id) /\ IsBytes(c) /\ z = Varint(off) /\ IsBytes(z)
                     /\ d = Counted(data) /\ IsBytes(d)
  BY FieldsParsed
<1>5. PICK far \in BOOLEAN : far <=> off > 0
  OBVIOUS
<1>6. PICK x :
         /\ x \in 8 .. 15 /\ x = 8 + If(far, 4) + 2 + If(fin, 1) /\ x \in Byte
         /\ (Bit(x, 4) <=> far) /\ Bit(x, 2) /\ (Bit(x, 1) <=> fin)
  BY Flags
<1>7. PICK h : h = <<x>> /\ IsBytes(h)
  BY <1>6, JoinedOne
<1>8. AppendFrame(f) = ((h ++ c) ++ (IF far THEN z ELSE <<>>)) ++ d
  <2>1. 8 + If(f.off > 0, 4) + If(f.lenPresent, 2) + If(f.fin, 1) = x
    <3>1. If(TRUE, 2) = 2
      BY DEF If
    <3>2. If(f.off > 0, 4) = If(far, 4) /\ If(f.fin, 1) = If(fin, 1) /\ If(f.lenPresent, 2) = 2
      BY <1>2, <1>5, <3>1 DEF If
    <3> QED BY <1>6, <3>2
  <2>2. AppendFrame(f) = AppendStream(f)
    BY <1>2 DEF AppendFrame
  <2>3. (IF f.off > 0 THEN Varint(f.off) ELSE <<>>) = (IF far THEN z ELSE <<>>)
    BY <1>2, <1>4, <1>5
  <2>4. (IF f.lenPresent THEN Counted(f.data) ELSE f.data) = d
    BY <1>2, <1>4
  <2>5. h ++ c = <<x>> \o Varint(f.id)
    BY <1>2, <1>4, <1>7 DEF ++
  <2>6. PICK g : g = (IF far THEN z ELSE <<>>)
    OBVIOUS
  <2>7. AppendStream(f) = ((<<x>> \o Varint(f.id)) \o g) \o d
    BY <2>1, <2>3, <2>4, <2>6 DEF AppendStream
  <2> QED BY <2>2, <2>5, <2>6, <2>7 DEF ++
<1>9. ASSUME NEW rest, IsBytes(rest), NEW s, IsBytes(s), NEW t, t = d ++ rest, IsBytes(t),
             s ++ rest = IF far THEN c ++ (z ++ t) ELSE c ++ t
      PROVE  ParseNext((h ++ s) ++ rest) = {Parsed(f, rest)}
  <2>1. PICK b : b = (h ++ s) ++ rest
    OBVIOUS
  <2>2. b[1] = x /\ Tail(b) = s ++ rest
    BY <1>6, <1>7, <1>9, <2>1, HeadFirst
  <2>3. PICK p : p = [nums |-> IF far THEN <<id, off>> ELSE <<id>>, rest |-> t]
    OBVIOUS
  <2>4. ParseVarints(Tail(b), IF far THEN 2 ELSE 1) = {p}
    <3>1. CASE far
      <4>1. ParseVarints(Varint(id) ++ (Varint(off) ++ t), 2) = {[nums |-> <<id, off>>, rest |-> t]}
        BY <1>9, FieldsParsed
      <4>2. Tail(b) = Varint(id) ++ (Varint(off) ++ t)
        BY <1>4, <1>9, <2>2, <3>1
      <4> QED BY <2>3, <3>1, <4>1, <4>2
    <3>2. CASE ~far
      <4>1. ParseVarints(Varint(id) ++ t, 1) = {[nums |-> <<id>>, rest |-> t]}
        BY <1>9, FieldsParsed
      <4>2. Tail(b) = Varint(id) ++ t
        BY <1>4, <1>9, <2>2, <3>2
      <4> QED BY <2>3, <3>2, <4>1, <4>2
    <3> QED BY <3>1, <3>2
  <2>5. PICK r : r = [bytes |-> data, rest |-> rest]
    OBVIOUS
  <2>6. ParseCounted(p.rest) = {r}
    BY <1>4, <1>9, <2>3, <2>5, FieldsParsed
  <2>7. p.nums[1] = id /\ (IF far THEN p.nums[2] ELSE 0) = off
    <3>1. CASE far
      BY <2>3, <3>1
    <3>2. CASE ~far
      <4>1. off = 0
        BY <1>3, <1>5, <3>2
      <4> QED BY <2>3, <3>2, <4>1
    <3> QED BY <3>1, <3>2
  <2>8. ParseVarints(Tail(b), IF Bit(b[1], 4) THEN 2 ELSE 1) = {p}
    BY <1>6, <2>2, <2>4, Zenon
  <2>9. ParseStream(b) =
          UNION {{Parsed(StreamFrame(w.nums[1], IF Bit(b[1], 4) THEN w.nums[2] ELSE 0, q.bytes,
                                     Bit(b[1], 1), Bit(b[1], 2)), q.rest)
                    : q \in IF Bit(b[1], 2) THEN ParseCounted(w.rest)
                                            ELSE ParseBytes(w.rest, Len(w.rest))} : w \in {p}}
    BY <2>8, Zenon DEF ParseStream
  <2>10. PICK all : all = IF Bit(b[1], 2) THEN ParseCounted(p.rest)
                                          ELSE ParseBytes(p.rest, Len(p.rest))
    OBVIOUS
  <2>11. all = {r}
    BY <1>6, <2>2, <2>6, <2>10, Zenon
  <2> DEFINE Result(w, q) ==
        Parsed(StreamFrame(w.nums[1], IF Bit(b[1], 4) THEN w.nums[2] ELSE 0, q.bytes,
                           Bit(b[1], 1), Bit(b[1], 2)), q.rest)
             Results(w) == {Result(w, q) : q \in IF Bit(b[1], 2) THEN ParseCounted(w.rest)
                                                   ELSE ParseBytes(w.rest, Len(w.rest))}
  <2>12. ParseStream(b) = UNION {Results(w) : w \in {p}}
    BY <2>9, Zenon
  <2>13. Results(p) = {Result(p, q) : q \in all}
    BY <2>10, Zenon
  <2>14. Result(p, r) = Parsed(f, rest)
    <3>1. (Bit(b[1], 1) <=> fin) /\ (Bit(b[1], 2) <=> TRUE) /\ (Bit(b[1], 4) <=> far)
      BY <1>6, <2>2
    <3>2. r.bytes = data /\ r.rest = rest
      BY <2>5
    <3>3. PICK v : v = IF Bit(b[1], 4) THEN p.nums[2] ELSE 0
      OBVIOUS
    <3>4. v = off
      BY <2>7, <3>1, <3>3
    <3>5. Bit(b[1], 1) \in BOOLEAN /\ Bit(b[1], 2) \in BOOLEAN
      BY DEF Bit
    <3>6. Bit(b[1], 1) = fin /\ Bit(b[1], 2) = TRUE
      BY <3>1, <3>5, Zenon
    <3>7. StreamFrame(p.nums[1], v, r.bytes, Bit(b[1], 1), Bit(b[1], 2)) = f
      BY <1>1, <2>7, <3>2, <3>4, <3>6, Zenon
    <3> QED BY <3>2, <3>3, <3>7, Zenon
  <2> HIDE DEF Result
  <2>15. Results(p) = {Result(p, r)}
    <3> HIDE DEF Results
    <3> QED BY <2>11, <2>13
  <2> HIDE DEF Results
  <2>16. UNION {Results(w) : w \in {p}} = Results(p)
    OBVIOUS
  <2>17. ParseNext(b) = ParseStream(b)
    BY <1>6, <2>2, StreamType
  <2> QED BY <2>1, <2>12, <2>14, <2>15, <2>16, <2>17
<1>10. CASE far
  <2>1. PICK e, s : e = z ++ d /\ IsBytes(e) /\ s = c ++ e /\ IsBytes(s)
    BY <1>4, Joined2
  <2>2. AppendFrame(f) = h ++ s
    <3>1. AppendFrame(f) = ((h ++ c) ++ z) ++ d
      BY <1>8, <1>10
    <3> QED BY <1>4, <1>7, <2>1, <3>1, JoinedFour
  <2>3. ASSUME NEW rest, IsBytes(rest) PROVE ParseNext(AppendFrame(f) ++ rest) = {Parsed(f, rest)}
    <3>1. PICK t : t = d ++ rest /\ IsBytes(t)
      BY <1>4, <2>3, Joined2
    <3>2. s ++ rest = c ++ (e ++ rest)
      BY <1>4, <2>1, <2>3, Joined3
    <3>3. e ++ rest = z ++ t
      BY <1>4, <2>1, <2>3, <3>1, Joined3
    <3>4. s ++ rest = IF far THEN c ++ (z ++ t) ELSE c ++ t
      BY <1>10, <3>2, <3>3
    <3> QED BY <1>9, <2>1, <2>2, <2>3, <3>1, <3>4
  <2>4. IsBytes(AppendFrame(f)) /\ AppendFrame(f) # <<>>
    BY <1>6, <1>7, <2>1, <2>2, JoinedNone, HeadFirst
  <2> QED BY <2>3, <2>4, ToReadBack
<1>11. CASE ~far
  <2>1. PICK s : s = c ++ d /\ IsBytes(s)
    BY <1>4, Joined2
  <2>2. AppendFrame(f) = h ++ s
    <3>1. IsBytes(h ++ c)
      BY <1>4, <1>7, Joined2
    <3>2. (h ++ c) ++ <<>> = h ++ c
      BY <3>1, JoinedNone
    <3>3. (h ++ c) ++ d = h ++ s
      BY <1>4, <1>7, <2>1, Joined3
    <3> QED BY <1>7, <1>8, <1>11, <3>2, <3>3
  <2>3. ASSUME NEW rest, IsBytes(rest) PROVE ParseNext(AppendFrame(f) ++ rest) = {Parsed(f, rest)}
    <3>1. PICK t : t = d ++ rest /\ IsBytes(t)
      BY <1>4, <2>3, Joined2
    <3>2. s ++ rest = c ++ t
      BY <1>4, <2>1, <2>3, <3>1, Joined3
    <3>3. s ++ rest = IF far THEN c ++ (z ++ t) ELSE c ++ t
      BY <1>11, <3>2
    <3> QED BY <1>9, <2>1, <2>2, <2>3, <3>1, <3>3
  <2>4. IsBytes(AppendFrame(f)) /\ AppendFrame(f) # <<>>
    BY <1>6, <1>7, <2>1, <2>2, JoinedNone, HeadFirst
  <2> QED BY <2>3, <2>4, ToReadBack
<1> QED BY <1>10, <1>11

(* Two numbers are written one behind the other. *)
LEMMA TwoWritten ==
  ASSUME NEW a \in Number, NEW b \in Number
  PROVE  Varints(<<a, b>>) = Varint(a) \o Varint(b)
<1>1. /\ <<a, b>> \in Seq(Number) /\ Len(<<a, b>>) = 2
      /\ <<a, b>>[1] = a /\ <<a, b>>[2] = b
  OBVIOUS
<1>2. PICK nums \in Seq(Number) : /\ nums = <<a, b>> /\ Len(nums) = 2
                                  /\ nums[1] = a /\ nums[2] = b
  BY <1>1
<1>3. <<>> \in Seq(Byte)
  BY EmptySeq
<1>4. PICK f : Written(nums, 2, f) /\ f[0] = Varints(nums) \o <<>> /\ f[2] = <<>>
  BY <1>2, <1>3, VarintsWritten
<1>5. PICK x \in Seq(Byte) : x = Varints(nums)
  BY <1>2, <1>3, VarintsWritten
<1>6. PICK y \in Seq(Byte) : y = Varint(b)
  BY VarintTyped
<1>7. f[0] = x
  BY <1>4, <1>5, ConcatEmptySeq
<1>8. f[0] = Varint(a) \o f[1] /\ f[1] = y \o f[2]
  <2>1. 1 \in 1 .. 2 /\ 2 \in 1 .. 2 /\ 1 - 1 = 0 /\ 2 - 1 = 1
    OBVIOUS
  <2>2. \A i \in 1 .. 2 : f[i - 1] = Varint(nums[i]) \o f[i]
    BY <1>4 DEF Written
  <2>3. f[1 - 1] = Varint(nums[1]) \o f[1] /\ f[2 - 1] = Varint(nums[2]) \o f[2]
    BY <2>1, <2>2
  <2> QED BY <1>2, <1>6, <2>1, <2>3
<1>9. f[1] = y
  BY <1>4, <1>8, ConcatEmptySeq
<1> QED BY <1>2, <1>5, <1>6, <1>7, <1>8, <1>9

(* The blocks of an ACK frame, written pair by pair, are read as that many *)
(* numbers again.                                                          *)
Blocks == [gap : Number, len : Number]

Pair(block) == Varints(<<block.gap, block.len>>)

Pairs(blocks) == FlattenSeq([i \in DOMAIN blocks |-> Pair(blocks[i])])

(* A block of an ACK frame is two numbers.                                 *)
LEMMA PairWritten ==
  ASSUME NEW block \in Blocks
  PROVE  /\ block.gap \in Number /\ block.len \in Number
         /\ Pair(block) = Varint(block.gap) ++ Varint(block.len)
         /\ IsBytes(Pair(block))
<1>1. block.gap \in Number /\ block.len \in Number
  BY DEF Blocks
<1>2. Pair(block) = Varint(block.gap) ++ Varint(block.len)
  BY <1>1, TwoWritten DEF Pair, ++
<1>3. IsBytes(Varint(block.gap)) /\ IsBytes(Varint(block.len))
  BY <1>1, FieldsParsed
<1> QED BY <1>1, <1>2, <1>3, Joined2

(* What is left of the blocks when the first ones are taken off.           *)
LEMMA PairsLeft ==
  ASSUME NEW n \in Nat, NEW blocks \in Seq(Blocks), Len(blocks) = n
  PROVE  \E g : /\ g[0] = Pairs(blocks) /\ g[n] = <<>>
                /\ \A i \in 0 .. n : IsBytes(g[i])
                /\ \A i \in 1 .. n : g[i - 1] = Pair(blocks[i]) ++ g[i]
<1>1. DOMAIN blocks = 1 .. n
  BY LenProperties
<1>2. PICK seqs : seqs = [i \in 1 .. n |-> Pair(blocks[i])]
  OBVIOUS
<1>3. ASSUME NEW i \in 1 .. n PROVE Pair(blocks[i]) \in Seq(Byte)
  <2>1. PICK block \in Blocks : block = blocks[i]
    BY ElementOfSeq
  <2> QED BY <2>1, PairWritten DEF IsBytes
<1>4. seqs \in Seq(Seq(Byte)) /\ Len(seqs) = n
  <2>1. seqs \in [1 .. n -> Seq(Byte)]
    BY <1>2, <1>3
  <2>2. seqs \in Seq(Seq(Byte))
    BY <2>1, SeqDef
  <2> QED BY <2>1, <2>2, LenProperties
<1>5. PICK g : Left(Byte, seqs, n, g)
  BY <1>4, Glued
<1>6. /\ g \in [0 .. n -> Seq(Byte)]
      /\ g[0] = FlattenSeq(seqs) /\ g[n] = <<>>
      /\ \A i \in 1 .. n : g[i - 1] = seqs[i] \o g[i]
  BY <1>5 DEF Left
<1>7. g[0] = Pairs(blocks)
  BY <1>1, <1>2, <1>6 DEF Pairs
<1>8. \A i \in 1 .. n : g[i - 1] = Pair(blocks[i]) ++ g[i]
  BY <1>2, <1>6 DEF ++
<1>9. \A i \in 0 .. n : IsBytes(g[i])
  BY <1>6 DEF IsBytes
<1> QED BY <1>6, <1>7, <1>8, <1>9

(* A place among pairs is the first or the second of one.                  *)
LEMMA Halves ==
  ASSUME NEW n \in Nat, NEW j \in 1 .. 2 * n
  PROVE  \E i \in 1 .. n : j = 2 * i \/ j = 2 * i - 1
<1>1. CASE j % 2 = 0
  <2>1. j \div 2 \in 1 .. n /\ j = 2 * (j \div 2)
    BY <1>1
  <2> QED BY <2>1
<1>2. CASE j % 2 # 0
  <2>1. (j + 1) \div 2 \in 1 .. n /\ j = 2 * ((j + 1) \div 2) - 1
    BY <1>2
  <2> QED BY <2>1
<1> QED BY <1>1, <1>2

Interleaved(blocks, n, nums) ==
    \A i \in 1 .. n : nums[2 * i - 1] = blocks[i].gap /\ nums[2 * i] = blocks[i].len

(* The numbers of all blocks, in one sequence.                             *)
LEMMA PairsNumbers ==
  ASSUME NEW n \in Nat, NEW blocks \in Seq(Blocks), Len(blocks) = n
  PROVE  \E nums \in Seq(Number) : Len(nums) = 2 * n /\ Interleaved(blocks, n, nums)
<1>1. PICK nums : nums = [j \in 1 .. 2 * n |-> IF j % 2 = 1 THEN blocks[(j + 1) \div 2].gap
                                                            ELSE blocks[j \div 2].len]
  OBVIOUS
<1>2. ASSUME NEW i \in 1 .. n
      PROVE  /\ nums[2 * i - 1] = blocks[i].gap /\ nums[2 * i] = blocks[i].len
             /\ nums[2 * i - 1] \in Number /\ nums[2 * i] \in Number
  <2>1. PICK o \in Int, e \in Int : o = 2 * i - 1 /\ e = 2 * i
    OBVIOUS
  <2>2. o \in 1 .. 2 * n /\ e \in 1 .. 2 * n
    BY <2>1
  <2>3. o % 2 = 1 /\ (o + 1) \div 2 = i
    BY <2>1
  <2>4. e % 2 = 0 /\ e \div 2 = i
    BY <2>1
  <2>5. nums[o] = blocks[i].gap
    BY <1>1, <2>2, <2>3
  <2>6. nums[e] = blocks[i].len
    <3>1. e % 2 # 1
      BY <2>4
    <3> QED BY <1>1, <2>2, <2>4, <3>1
  <2>7. PICK block \in Blocks : block = blocks[i]
    BY ElementOfSeq
  <2> QED BY <2>1, <2>5, <2>6, <2>7, PairWritten
<1>3. ASSUME NEW j \in 1 .. 2 * n PROVE nums[j] \in Number
  <2>1. PICK i \in 1 .. n : j = 2 * i \/ j = 2 * i - 1
    BY Halves
  <2> QED BY <1>2, <2>1
<1>4. nums \in [1 .. 2 * n -> Number] /\ 2 * n \in Nat
  <2>1. nums = [j \in 1 .. 2 * n |-> nums[j]]
    BY <1>1
  <2> QED BY <1>3, <2>1
<1>5. nums \in Seq(Number)
  BY <1>4, SeqDef
<1>6. Len(nums) = 2 * n
  BY <1>4, <1>5, LenProperties
<1>7. Interleaved(blocks, n, nums)
  BY <1>2 DEF Interleaved
<1> QED BY <1>5, <1>6, <1>7

(* They are read.                                                          *)
LEMMA PairsParsed ==
  ASSUME NEW n \in Nat, NEW blocks \in Seq(Blocks), Len(blocks) = n,
         NEW nums \in Seq(Number), Len(nums) = 2 * n, Interleaved(blocks, n, nums),
         NEW rest, IsBytes(rest)
  PROVE  /\ IsBytes(Pairs(blocks))
         /\ ParseVarints(Pairs(blocks) ++ rest, 2 * n) = {[nums |-> nums, rest |-> rest]}
<1>1. PICK g : /\ g[0] = Pairs(blocks) /\ g[n] = <<>>
               /\ \A i \in 0 .. n : IsBytes(g[i])
               /\ \A i \in 1 .. n : g[i - 1] = Pair(blocks[i]) ++ g[i]
  BY PairsLeft
<1>2. PICK m \in Nat : m = 2 * n
  OBVIOUS
<1> DEFINE Odd(i) == Varint(blocks[i].len) ++ (g[i] ++ rest)
<1>3. PICK f : f = [j \in 0 .. m |-> IF j % 2 = 0 THEN g[j \div 2] ++ rest ELSE Odd((j + 1) \div 2)]
  OBVIOUS
<1>4. ASSUME NEW i \in 0 .. n PROVE f[2 * i] = g[i] ++ rest /\ IsBytes(f[2 * i])
  <2>1. PICK e \in 0 .. m : e = 2 * i /\ e % 2 = 0 /\ e \div 2 = i
    <3>1. 2 * i \in 0 .. m /\ (2 * i) % 2 = 0 /\ (2 * i) \div 2 = i
      BY <1>2
    <3> QED BY <3>1
  <2> HIDE DEF Odd
  <2>2. f[e] = g[i] ++ rest
    BY <1>3, <2>1
  <2>3. IsBytes(g[i] ++ rest)
    BY <1>1, Joined2
  <2> QED BY <2>1, <2>2, <2>3
<1>5. ASSUME NEW i \in 1 .. n
      PROVE  /\ f[2 * i - 1] = Varint(blocks[i].len) ++ f[2 * i]
             /\ f[2 * i - 2] = Varint(blocks[i].gap) ++ f[2 * i - 1]
             /\ IsBytes(f[2 * i - 1])
  <2>1. PICK o \in 0 .. m : o = 2 * i - 1 /\ o % 2 # 0 /\ (o + 1) \div 2 = i
    <3>1. 2 * i - 1 \in 0 .. m /\ (2 * i - 1) % 2 # 0 /\ ((2 * i - 1) + 1) \div 2 = i
      BY <1>2
    <3> QED BY <3>1
  <2>2. f[o] = Odd(i)
    <3> HIDE DEF Odd
    <3> QED BY <1>3, <2>1
  <2>3. PICK block \in Blocks : block = blocks[i]
    BY ElementOfSeq
  <2>4. PICK x, y : /\ x = Varint(block.gap) /\ IsBytes(x) /\ y = Varint(block.len) /\ IsBytes(y)
                    /\ Pair(block) = x ++ y
    BY PairWritten, FieldsParsed
  <2>5. PICK w, v : w = g[i] /\ IsBytes(w) /\ v = w ++ rest /\ IsBytes(v)
    <3>1. IsBytes(g[i])
      BY <1>1
    <3> QED BY <3>1, Joined2
  <2>6. f[2 * i] = v
    <3>1. i \in 0 .. n
      OBVIOUS
    <3> QED BY <1>4, <2>5, <3>1
  <2>7. f[o] = y ++ v /\ IsBytes(f[o])
    BY <2>2, <2>3, <2>4, <2>5, Joined2
  <2>8. f[2 * i - 2] = g[i - 1] ++ rest
    <3>1. i - 1 \in 0 .. n /\ 2 * (i - 1) = 2 * i - 2
      OBVIOUS
    <3>2. f[2 * (i - 1)] = g[i - 1] ++ rest
      BY <1>4, <3>1
    <3> QED BY <3>1, <3>2
  <2>9. g[i - 1] = (x ++ y) ++ w
    BY <1>1, <2>3, <2>4, <2>5
  <2>10. ((x ++ y) ++ w) ++ rest = x ++ (y ++ v)
    BY <2>4, <2>5, JoinedFour
  <2> QED BY <2>1, <2>3, <2>4, <2>6, <2>7, <2>8, <2>9, <2>10
<1> HIDE DEF Odd
<1>6. ASSUME NEW j \in 1 .. m PROVE f[j - 1] = Varint(nums[j]) ++ f[j]
  <2>1. PICK i \in 1 .. n : j = 2 * i \/ j = 2 * i - 1
    BY <1>2, Halves
  <2>2. nums[2 * i - 1] = blocks[i].gap /\ nums[2 * i] = blocks[i].len
    BY DEF Interleaved
  <2>3. (2 * i - 1) - 1 = 2 * i - 2
    OBVIOUS
  <2> QED BY <1>5, <2>1, <2>2, <2>3
<1>7. ASSUME NEW j \in 0 .. m PROVE IsBytes(f[j])
  <2>1. CASE j = 0
    <3>1. 0 \in 0 .. n /\ 2 * 0 = 0
      OBVIOUS
    <3> QED BY <1>4, <2>1, <3>1
  <2>2. CASE j # 0
    <3>1. PICK i \in 1 .. n : j = 2 * i \/ j = 2 * i - 1
      <4>1. j \in 1 .. 2 * n
        BY <1>2, <2>2
      <4> QED BY <4>1, Halves
    <3>2. i \in 0 .. n
      OBVIOUS
    <3> QED BY <1>4, <1>5, <3>1, <3>2
  <2> QED BY <2>1, <2>2
<1>8. Written(nums, m, f)
  <2>1. f \in [0 .. m -> Seq(Byte)]
    <3>1. f = [j \in 0 .. m |-> f[j]]
      BY <1>3
    <3>2. \A j \in 0 .. m : f[j] \in Seq(Byte)
      BY <1>7 DEF IsBytes
    <3> QED BY <3>1, <3>2
  <2> QED BY <1>6, <2>1 DEF Written, ++
<1>9. ParseVarints(f[0], m) = {[nums |-> nums, rest |-> f[m]]}
  BY <1>2, <1>8, VarintsParsed
<1>10. f[0] = Pairs(blocks) ++ rest /\ f[m] = rest
  <2>1. 0 \in 0 .. n /\ n \in 0 .. n /\ 2 * 0 = 0
    OBVIOUS
  <2>2. f[0] = g[0] ++ rest /\ f[m] = g[n] ++ rest
    BY <1>2, <1>4, <2>1
  <2> QED BY <1>1, <2>2, JoinedNone
<1>11. IsBytes(Pairs(blocks))
  <2>1. 0 \in 0 .. n
    OBVIOUS
  <2> QED BY <1>1, <2>1
<1> QED BY <1>2, <1>9, <1>10, <1>11

(* The numbers an ACK frame is written as. *)
LEMMA BlocksOf ==
  ASSUME NEW n \in Nat, NEW ranges \in Seq(Ranges), Len(ranges) = n + 1, Separated(ranges),
         ranges[1].largest \in Number
  PROVE  /\ WriteRanges(ranges).largest \in Number /\ WriteRanges(ranges).first \in Number
         /\ WriteRanges(ranges).blocks \in Seq(Blocks) /\ Len(WriteRanges(ranges).blocks) = n
<1>1. \A i \in 1 .. n + 1 : ranges[i] \in Ranges
  BY ElementOfSeq
<1>2. PICK top \in Number : top = ranges[1].largest
  OBVIOUS
<1>3. ASSUME NEW i \in 1 .. n + 1
      PROVE  ranges[i].smallest \in Nat /\ ranges[i].largest \in Nat
             /\ ranges[i].smallest <= ranges[i].largest /\ ranges[i].largest <= top
  <2>1. ranges[i].smallest \in Nat /\ ranges[i].largest \in Nat
    BY <1>1 DEF Ranges
  <2>2. ranges[i].smallest <= ranges[i].largest
    BY DEF Separated
  <2>3. CASE i = 1
    BY <1>2, <2>1, <2>2, <2>3
  <2>4. CASE i # 1
    <3>1. 1 \in 1 .. n + 1 /\ 1 < i
      BY <2>4
    <3>2. ranges[1].smallest > ranges[i].largest + 1 /\ ranges[1].smallest <= ranges[1].largest
      BY <3>1 DEF Separated
    <3>3. ranges[1].smallest \in Nat /\ ranges[1].largest \in Nat
      BY <1>1, <3>1 DEF Ranges
    <3> QED BY <1>2, <2>1, <2>2, <3>2, <3>3
  <2> QED BY <2>3, <2>4
<1>4. \A v \in Nat : v <= top => v \in Number
  BY NumberIff
<1>5. PICK blocks : blocks = [i \in 1 .. n |-> Block(ranges[i], ranges[i + 1])]
  OBVIOUS
<1>6. ASSUME NEW i \in 1 .. n PROVE blocks[i] \in Blocks
  <2>1. i \in 1 .. n + 1 /\ i + 1 \in 1 .. n + 1 /\ i < i + 1
    OBVIOUS
  <2>2. PICK a \in Ranges, b \in Ranges : a = ranges[i] /\ b = ranges[i + 1]
    BY <1>1, <2>1
  <2>3. /\ a.smallest \in Nat /\ a.largest \in Nat /\ b.smallest \in Nat /\ b.largest \in Nat
        /\ a.smallest <= a.largest /\ a.largest <= top /\ b.smallest <= b.largest
    BY <1>3, <2>1, <2>2
  <2>4. a.smallest > b.largest + 1
    BY <2>1, <2>2 DEF Separated
  <2>5. PICK gap \in Nat, len \in Nat :
           /\ gap = a.smallest - b.largest - 2 /\ len = b.largest - b.smallest
           /\ gap <= top /\ len <= top
    <3>1. top \in Nat
      BY NumberIff
    <3>2. /\ a.smallest - b.largest - 2 \in Nat /\ b.largest - b.smallest \in Nat
          /\ a.smallest - b.largest - 2 <= top /\ b.largest - b.smallest <= top
      BY <2>3, <2>4, <3>1
    <3> QED BY <3>2
  <2>6. blocks[i] = [gap |-> gap, len |-> len]
    BY <1>5, <2>2, <2>5 DEF Block
  <2> QED BY <1>4, <2>5, <2>6 DEF Blocks
<1>7. blocks \in Seq(Blocks) /\ Len(blocks) = n
  <2>1. blocks = [i \in 1 .. n |-> blocks[i]]
    BY <1>5
  <2>2. blocks \in [1 .. n -> Blocks]
    BY <1>6, <2>1
  <2>3. blocks \in Seq(Blocks)
    BY <2>2, SeqDef
  <2> QED BY <2>2, <2>3, LenProperties
<1>8. PICK first \in Nat : first = ranges[1].largest - ranges[1].smallest /\ first <= top
  <2>1. 1 \in 1 .. n + 1
    OBVIOUS
  <2>2. top \in Nat
    BY NumberIff
  <2>3. /\ ranges[1].smallest \in Nat /\ ranges[1].largest \in Nat
        /\ ranges[1].smallest <= ranges[1].largest /\ ranges[1].largest = top
    BY <1>2, <1>3, <2>1
  <2>4. /\ ranges[1].largest - ranges[1].smallest \in Nat
        /\ ranges[1].largest - ranges[1].smallest <= top
    BY <2>3
  <2> QED BY <2>4
<1>9. WriteRanges(ranges) = [largest |-> top, first |-> first, blocks |-> blocks]
  <2>1. Len(ranges) - 1 = n
    OBVIOUS
  <2> QED BY <1>2, <1>5, <1>8, <2>1 DEF WriteRanges
<1>10. first \in Number
  BY <1>4, <1>8
<1> QED BY <1>7, <1>9, <1>10

(* The four numbers in front of the blocks. *)
Four(a, b, c, d) == Varints(<<a, b, c, d>>)

(* They are bytes.                                                         *)
LEMMA FourTyped ==
  ASSUME NEW a \in Number, NEW b \in Number, NEW c \in Number, NEW d \in Number
  PROVE  IsBytes(Four(a, b, c, d))
<1>1. <<a, b, c, d>> \in Seq(Number) /\ Len(<<a, b, c, d>>) = 4 /\ <<>> \in Seq(Byte)
  BY EmptySeq
<1>2. Varints(<<a, b, c, d>>) \in Seq(Byte)
  BY <1>1, VarintsWritten
<1> QED BY <1>2 DEF Four, IsBytes

FourRead(a, b, c, d, rest, p) ==
    /\ ParseVarints(Four(a, b, c, d) ++ rest, 4) = {p} /\ p.rest = rest
    /\ p.nums[1] = a /\ p.nums[2] = b /\ p.nums[3] = c /\ p.nums[4] = d

(* They are read.                                                          *)
LEMMA FourParsed ==
  ASSUME NEW a \in Number, NEW b \in Number, NEW c \in Number, NEW d \in Number,
         NEW rest, IsBytes(rest)
  PROVE  \E p : FourRead(a, b, c, d, rest, p)
<1>1. /\ <<a, b, c, d>> \in Seq(Number) /\ Len(<<a, b, c, d>>) = 4
      /\ <<a, b, c, d>>[1] = a /\ <<a, b, c, d>>[2] = b
      /\ <<a, b, c, d>>[3] = c /\ <<a, b, c, d>>[4] = d
  OBVIOUS
<1>2. PICK nums \in Seq(Number) : /\ nums = <<a, b, c, d>> /\ Len(nums) = 4
                                  /\ nums[1] = a /\ nums[2] = b /\ nums[3] = c /\ nums[4] = d
  BY <1>1
<1>3. rest \in Seq(Byte)
  BY DEF IsBytes
<1>4. PICK p : p = [nums |-> nums, rest |-> rest]
  OBVIOUS
<1>5. ParseVarints(Varints(nums) \o rest, 4) = {p}
  BY <1>2, <1>3, <1>4, VarintsRoundTrip
<1>6. p.nums = nums /\ p.rest = rest
  BY <1>4
<1> HIDE <1>4
<1>7. ParseVarints(Four(a, b, c, d) ++ rest, 4) = {p}
  BY <1>2, <1>5 DEF Four, ++
<1>8. FourRead(a, b, c, d, rest, p)
  BY <1>2, <1>6, <1>7 DEF FourRead
<1> QED BY <1>8

(* ACK, with any number of ranges.                                         *)
LEMMA AckReadBack ==
  ASSUME NEW f, AckWritable(f)
  PROVE  ReadBack(f)
<1>1. PICK ranges \in Seq(Ranges), delay \in Number :
         /\ ranges # <<>> /\ Separated(ranges)
         /\ ranges[1].largest \in Number /\ Len(ranges) \in Number
         /\ f = AckFrameOf(ranges, delay)
  BY DEF AckWritable
<1>2. f.type = 2 /\ f.ranges = ranges /\ f.delay = delay
  BY <1>1 DEF AckFrameOf
<1>3. PICK n \in Nat : Len(ranges) = n + 1 /\ n \in Number
  <2>1. Len(ranges) \in Nat \ {0} /\ Len(ranges) <= MaxVarint /\ MaxVarint \in Nat
    BY <1>1, EmptySeq, NumberIff
  <2>2. Len(ranges) - 1 \in Nat /\ Len(ranges) = (Len(ranges) - 1) + 1 /\ Len(ranges) - 1 <= MaxVarint
    BY <2>1
  <2> QED BY <2>2, NumberIff
<1>4. PICK wire : wire = WriteRanges(ranges)
  OBVIOUS
<1>5. /\ wire.largest \in Number /\ wire.first \in Number
      /\ wire.blocks \in Seq(Blocks) /\ Len(wire.blocks) = n
  BY <1>1, <1>3, <1>4, BlocksOf
<1>6. PICK blocks \in Seq(Blocks) : blocks = wire.blocks /\ Len(blocks) = n
  BY <1>5
<1>7. PICK nums \in Seq(Number) : Len(nums) = 2 * n /\ Interleaved(blocks, n, nums)
  BY <1>6, PairsNumbers
<1>8. 2 \in Byte
  BY DEF Byte
<1>9. IsBytes(<<>>)
  BY JoinedNone
<1>10. PICK h : h = <<2>> /\ IsBytes(h)
  BY <1>8, JoinedOne
<1>11. PICK front : front = Four(wire.largest, delay, n, wire.first) /\ IsBytes(front)
  BY <1>3, <1>5, FourTyped
<1>12. PICK pairs : pairs = Pairs(blocks) /\ IsBytes(pairs)
  BY <1>6, <1>7, <1>9, PairsParsed
<1>13. IsBytes(front) /\ IsBytes(pairs)
  BY <1>11, <1>12
<1>14. PICK s : s = front ++ pairs /\ IsBytes(s)
  BY <1>13, Joined2
<1>15. AppendFrame(f) = h ++ s
  <2>1. AppendFrame(f) = AppendAck(f)
    BY <1>2 DEF AppendFrame
  <2>2. AppendAck(f) = (<<2>> \o Varints(<<wire.largest, delay, Len(blocks), wire.first>>))
                          \o FlattenSeq([i \in DOMAIN blocks |->
                                           Varints(<<blocks[i].gap, blocks[i].len>>)])
    BY <1>2, <1>4, <1>6 DEF AppendAck
  <2>3. AppendAck(f) = (h ++ front) ++ pairs
    BY <1>6, <1>10, <1>11, <1>12, <2>2 DEF Pairs, Pair, Four, ++
  <2>4. (h ++ front) ++ pairs = h ++ s
    BY <1>10, <1>13, <1>14, Joined3
  <2> QED BY <2>1, <2>3, <2>4
<1>16. ASSUME NEW rest, IsBytes(rest) PROVE ParseNext(AppendFrame(f) ++ rest) = {Parsed(f, rest)}
  <2>1. PICK b : b = (h ++ s) ++ rest
    OBVIOUS
  <2>2. b[1] = 2 /\ Tail(b) = s ++ rest
    BY <1>8, <1>10, <1>16, <1>14, <2>1, HeadFirst
  <2>3. PICK t : t = pairs ++ rest /\ IsBytes(t)
    BY <1>16, <1>13, Joined2
  <2>4. Tail(b) = front ++ t
    BY <1>16, <1>13, <1>14, <2>2, <2>3, Joined3
  <2>5. ParseVarints(Tail(b), 4) = ParseVarints(Four(wire.largest, delay, n, wire.first) ++ t, 4)
    BY <1>11, <2>4
  <2>6. PICK p : /\ ParseVarints(Tail(b), 4) = {p} /\ p.rest = t
                 /\ p.nums[1] = wire.largest /\ p.nums[2] = delay
                 /\ p.nums[3] = n /\ p.nums[4] = wire.first
    <3>1. PICK p : FourRead(wire.largest, delay, n, wire.first, t, p)
      BY <1>3, <1>5, <2>3, FourParsed
    <3> QED BY <2>5, <3>1 DEF FourRead
  <2>7. PICK r : r = [nums |-> nums, rest |-> rest]
    OBVIOUS
  <2>8. ParseVarints(p.rest, 2 * p.nums[3]) = {r}
    BY <1>6, <1>7, <1>16, <1>12, <2>3, <2>6, <2>7, PairsParsed
  <2> DEFINE Blk(x, y) == [i \in 1 .. x.nums[3] |-> [gap |-> y.nums[2 * i - 1], len |-> y.nums[2 * i]]]
             Result(x, y) == Parsed(AckFrameOf(ReadRanges([largest |-> x.nums[1], first |-> x.nums[4],
                                                           blocks |-> Blk(x, y)]), x.nums[2]), y.rest)
             Results(x) == {Result(x, y) : y \in ParseVarints(x.rest, 2 * x.nums[3])}
  <2>9. ParseAck(b) = UNION {Results(x) : x \in {p}}
    <3>1. ParseAck(b) = UNION {Results(x) : x \in ParseVarints(Tail(b), 4)}
      BY DEF ParseAck
    <3> HIDE DEF Results
    <3> QED BY <2>6, <3>1
  <2>10. Result(p, r) = Parsed(f, rest)
    <3>1. r.nums = nums /\ r.rest = rest
      BY <2>7
    <3>2. Blk(p, r) = blocks
      <4>1. Blk(p, r) = [i \in 1 .. n |-> [gap |-> nums[2 * i - 1], len |-> nums[2 * i]]]
        BY <2>6, <3>1
      <4>2. ASSUME NEW i \in 1 .. n
            PROVE  [gap |-> nums[2 * i - 1], len |-> nums[2 * i]] = blocks[i]
        <5>1. PICK block \in Blocks : block = blocks[i]
          BY <1>6, ElementOfSeq
        <5>2. nums[2 * i - 1] = block.gap /\ nums[2 * i] = block.len
          BY <1>7, <5>1 DEF Interleaved
        <5>3. block = [gap |-> block.gap, len |-> block.len]
          BY DEF Blocks
        <5> QED BY <5>1, <5>2, <5>3
      <4>3. Blk(p, r) = [i \in 1 .. n |-> blocks[i]]
        BY <4>1, <4>2
      <4>4. blocks = [i \in 1 .. n |-> blocks[i]]
        BY <1>6, LenProperties
      <4> QED BY <4>3, <4>4, Zenon
    <3>3. wire = [largest |-> wire.largest, first |-> wire.first, blocks |-> blocks]
      BY <1>4, <1>6 DEF WriteRanges
    <3>4. ReadRanges(wire) = ranges
      BY <1>1, <1>4, ParseExact
    <3> HIDE DEF Blk
    <3>5. PICK v : v = [largest |-> p.nums[1], first |-> p.nums[4], blocks |-> Blk(p, r)]
      OBVIOUS
    <3>6. v = wire
      BY <2>6, <3>2, <3>3, <3>5
    <3>7. Result(p, r) = Parsed(AckFrameOf(ReadRanges(v), p.nums[2]), r.rest)
      BY <3>5
    <3> HIDE DEF Result
    <3> QED BY <1>1, <2>6, <3>1, <3>4, <3>6, <3>7
  <2>11. Results(p) = {Result(p, r)}
    <3> HIDE DEF Result
    <3> QED BY <2>8
  <2> HIDE DEF Results
  <2>12. UNION {Results(x) : x \in {p}} = Results(p)
    OBVIOUS
  <2> HIDE DEF Result
  <2>13. ParseNext(b) = ParseAck(b)
    <3>1. 2 \notin DOMAIN NumberCount
      BY DEF NumberCount
    <3> QED BY <2>2, <3>1 DEF ParseNext
  <2> QED BY <1>15, <2>1, <2>9, <2>10, <2>11, <2>12, <2>13
<1>17. IsBytes(AppendFrame(f)) /\ AppendFrame(f) # <<>>
  BY <1>8, <1>9, <1>10, <1>15, <1>14, HeadFirst
<1> QED BY <1>16, <1>17, ToReadBack

(* Every frame the code writes is read as itself again, whatever follows   *)
(* it, and what follows is left.                                           *)
THEOREM FrameRoundTrip ==
  ASSUME NEW f, Writable(f)
  PROVE  ReadBack(f)
BY NumbersReadBack, StreamReadBack, AckReadBack, CloseReadBack, CryptoReadBack, PathReadBack
   DEF Writable

(* One turn of the loop over the frames of a packet. *)
LEMMA NotPadding ==
  ASSUME NEW f, Writable(f)
  PROVE  f.type # 0
<1>1. CASE NumbersWritable(f)
  <2>1. PICK t \in DOMAIN NumberCount : \E nums : f = NumbersFrame(t, nums)
    BY <1>1 DEF NumbersWritable
  <2>2. PICK nums : f = NumbersFrame(t, nums)
    BY <2>1
  <2>3. f.type = t
    BY <2>2 DEF NumbersFrame
  <2> QED BY <2>3 DEF NumberCount
<1>2. CASE StreamWritable(f)
  BY <1>2 DEF StreamWritable, StreamFrame
<1>3. CASE AckWritable(f)
  BY <1>3 DEF AckWritable, AckFrameOf
<1>4. CASE CloseWritable(f)
  BY <1>4 DEF CloseWritable, CloseFrame
<1>5. CASE CryptoWritable(f)
  BY <1>5 DEF CryptoWritable
<1>6. CASE PathWritable(f)
  <2>1. PICK t \in {26, 27} : \E data : f = [type |-> t, data |-> data]
    BY <1>6 DEF PathWritable
  <2> QED BY <2>1
<1> QED BY <1>1, <1>2, <1>3, <1>4, <1>5, <1>6 DEF Writable

Acc(frames, rest) == [frames |-> frames, rest |-> rest]

(* The next frame is read, and the rest is left.                           *)
LEMMA Handled ==
  ASSUME NEW f, Writable(f), NEW rest, IsBytes(rest), NEW frames
  PROVE  /\ IsBytes(AppendFrame(f)) /\ AppendFrame(f) # <<>>
         /\ HandleNext(Acc(frames, AppendFrame(f) ++ rest)) = Acc(Append(frames, f), rest)
<1>1. ReadBack(f)
  BY FrameRoundTrip
<1>2. PICK h : h = AppendFrame(f) /\ IsBytes(h) /\ h # <<>>
  BY <1>1 DEF ReadBack, IsBytes
<1>3. PICK b : b = h ++ rest
  OBVIOUS
<1>4. b # <<>>
  <2>1. PICK m \in Nat, n \in Nat : m = Len(h) /\ n = Len(rest)
    BY <1>2, LenProperties DEF IsBytes
  <2>2. Len(b) = m + n
    BY <1>2, <1>3, <2>1, ConcatProperties DEF IsBytes, ++
  <2>3. m # 0
    BY <1>2, <2>1, EmptySeq DEF IsBytes
  <2>4. Len(b) # 0
    BY <2>1, <2>2, <2>3
  <2> QED BY <2>4, EmptySeq
<1>5. PICK p : p = Parsed(f, rest)
  OBVIOUS
<1>6. ParseNext(b) = {p}
  BY <1>1, <1>2, <1>3, <1>5 DEF ReadBack, IsBytes, ++
<1>7. p.frame = f /\ p.rest = rest
  BY <1>5 DEF Parsed
<1>8. f.type # 0
  BY NotPadding
<1>9. Acc(frames, b).frames = frames /\ Acc(frames, b).rest = b
  BY DEF Acc
<1>10. PICK acc : acc = Acc(frames, b) /\ acc.frames = frames /\ acc.rest = b
  BY <1>9
<1>11. (CHOOSE q \in {p} : TRUE) = p
  OBVIOUS
<1>12. (IF acc.rest = <<>> THEN {} ELSE ParseNext(acc.rest)) = {p}
  BY <1>4, <1>6, <1>10
<1>13. {p} # {}
  OBVIOUS
<1>14. HandleNext(acc) = [frames |-> IF p.frame.type = 0 THEN acc.frames ELSE Append(acc.frames, p.frame),
                          rest   |-> p.rest]
  BY <1>11, <1>12, <1>13, Zenon DEF HandleNext
<1>15. HandleNext(acc) = Acc(Append(frames, f), rest)
  BY <1>7, <1>8, <1>10, <1>14 DEF Acc
<1> QED BY <1>2, <1>3, <1>10, <1>15

(* Without bytes the loop is at its end.                                   *)
LEMMA NothingLeft ==
  ASSUME NEW frames
  PROVE  HandleNext(Acc(frames, <<>>)) = Acc(frames, <<>>)
<1>1. Acc(frames, <<>>).rest = <<>>
  BY DEF Acc
<1>2. PICK acc : acc = Acc(frames, <<>>) /\ acc.rest = <<>>
  BY <1>1
<1>3. HandleNext(acc) = [acc EXCEPT !.rest = <<>>]
  <2>1. (IF acc.rest = <<>> THEN {} ELSE ParseNext(acc.rest)) = {}
    BY <1>2
  <2> QED BY <2>1, Zenon DEF HandleNext
<1>4. [acc EXCEPT !.rest = <<>>] = acc
  BY <1>2 DEF Acc
<1> QED BY <1>2, <1>3, <1>4

(* What is left of a packet when the first i of its n frames are read. *)
FramesLeft(frames, n, g) ==
    /\ g[0] = Bytes(frames) /\ g[n] = <<>>
    /\ \A i \in 0 .. n : IsBytes(g[i])
    /\ \A i \in 1 .. n : g[i - 1] = AppendFrame(frames[i]) ++ g[i]

(* What is left of a packet when its first frames are taken off.           *)
LEMMA FramesGlued ==
  ASSUME NEW W, \A f \in W : Writable(f), NEW n \in Nat, NEW frames \in Seq(W), Len(frames) = n
  PROVE  \E g : FramesLeft(frames, n, g)
<1>1. DOMAIN frames = 1 .. n
  BY LenProperties
<1>2. PICK seqs : seqs = [i \in 1 .. n |-> AppendFrame(frames[i])]
  OBVIOUS
<1>3. ASSUME NEW i \in 1 .. n PROVE AppendFrame(frames[i]) \in Seq(Byte)
  <2>1. frames[i] \in W
    BY ElementOfSeq
  <2>2. Writable(frames[i])
    BY <2>1
  <2> QED BY <2>2, FrameRoundTrip DEF ReadBack
<1>4. seqs \in Seq(Seq(Byte)) /\ Len(seqs) = n
  <2>1. seqs \in [1 .. n -> Seq(Byte)]
    BY <1>2, <1>3
  <2>2. seqs \in Seq(Seq(Byte))
    BY <2>1, SeqDef
  <2> QED BY <2>1, <2>2, LenProperties
<1>5. PICK g : Left(Byte, seqs, n, g)
  BY <1>4, Glued
<1>6. /\ g \in [0 .. n -> Seq(Byte)]
      /\ g[0] = FlattenSeq(seqs) /\ g[n] = <<>>
      /\ \A i \in 1 .. n : g[i - 1] = seqs[i] \o g[i]
  BY <1>5 DEF Left
<1>7. g[0] = Bytes(frames)
  BY <1>1, <1>2, <1>6 DEF Bytes
<1>8. \A i \in 1 .. n : g[i - 1] = AppendFrame(frames[i]) ++ g[i]
  BY <1>2, <1>6 DEF ++
<1>9. \A i \in 0 .. n : IsBytes(g[i])
  BY <1>6 DEF IsBytes
<1>10. FramesLeft(frames, n, g)
  BY <1>6, <1>7, <1>8, <1>9 DEF FramesLeft
<1> QED BY <1>10

(* A frame takes a byte at least: there are no more frames than bytes. *)
LEMMA LongEnough ==
  ASSUME NEW W, \A f \in W : Writable(f), NEW n \in Nat, NEW frames \in Seq(W), Len(frames) = n,
         NEW g, FramesLeft(frames, n, g)
  PROVE  Len(g[0]) \in Nat /\ Len(g[0]) >= n
<1> DEFINE S == {k \in Nat : k <= n => Len(g[n - k]) >= k}
<1>1. 0 \in S
  <2>1. n - 0 = n /\ n \in 0 .. n
    OBVIOUS
  <2>2. g[n] \in Seq(Byte)
    BY <2>1 DEF FramesLeft, IsBytes
  <2> QED BY <2>1, <2>2, LenProperties
<1>2. ASSUME NEW k \in Nat, k \in S, k + 1 <= n PROVE Len(g[n - (k + 1)]) >= k + 1
  <2>1. PICK i \in 1 .. n : i = n - k /\ i - 1 = n - (k + 1)
    <3>1. n - k \in 1 .. n /\ (n - k) - 1 = n - (k + 1)
      BY <1>2
    <3> QED BY <3>1
  <2>2. frames[i] \in W
    BY ElementOfSeq
  <2>3. PICK h : h = AppendFrame(frames[i]) /\ IsBytes(h) /\ h # <<>>
    <3>1. Writable(frames[i])
      BY <2>2
    <3> QED BY <3>1, FrameRoundTrip DEF ReadBack, IsBytes
  <2>4. PICK x : x = g[i] /\ IsBytes(x)
    <3>1. i \in 0 .. n
      OBVIOUS
    <3> QED BY <3>1 DEF FramesLeft
  <2>5. g[i - 1] = h ++ x
    BY <2>3, <2>4 DEF FramesLeft
  <2>6. PICK a \in Nat, b \in Nat : a = Len(h) /\ b = Len(x)
    BY <2>3, <2>4, LenProperties DEF IsBytes
  <2>7. Len(h ++ x) = a + b
    BY <2>3, <2>4, <2>6, ConcatProperties DEF IsBytes, ++
  <2>8. a # 0
    BY <2>3, <2>6, EmptySeq DEF IsBytes
  <2>9. b >= k
    BY <1>2, <2>1, <2>4, <2>6
  <2> QED BY <2>1, <2>5, <2>6, <2>7, <2>8, <2>9
<1>3. Nat \subseteq S
  <2>1. \A k \in Nat : k \in S => k + 1 \in S
    BY <1>2
  <2> HIDE DEF S
  <2> QED BY <1>1, <2>1, Induction
<1>4. Len(g[0]) >= n
  <2>1. n \in S /\ n - n = 0
    BY <1>3
  <2> QED BY <2>1
<1>5. Len(g[0]) \in Nat
  <2>1. 0 \in 0 .. n
    OBVIOUS
  <2>2. g[0] \in Seq(Byte)
    BY <2>1 DEF FramesLeft, IsBytes
  <2> QED BY <2>2, LenProperties
<1> QED BY <1>4, <1>5

(* The frames of a packet, packed one behind the other, are read again:    *)
(* each of them, in order, and nothing else.                               *)
THEOREM FramesRoundTrip ==
  ASSUME NEW W, \A f \in W : Writable(f), NEW frames \in Seq(W)
  PROVE  Bytes(frames) \in Seq(Byte) /\ ParseFrames(Bytes(frames)) = frames
<1>1. PICK n \in Nat : n = Len(frames)
  BY LenProperties
<1>2. PICK g : FramesLeft(frames, n, g)
  BY <1>1, FramesGlued
<1>3. PICK b : b = Bytes(frames) /\ b = g[0] /\ IsBytes(b)
  <2>1. 0 \in 0 .. n
    OBVIOUS
  <2> QED BY <1>2, <2>1 DEF FramesLeft
<1>4. PICK m \in Nat : m = Len(b) /\ m >= n
  BY <1>1, <1>2, <1>3, LongEnough
<1> DEFINE base == [frames |-> <<>>, rest |-> b]
           after == CHOOSE u : u = [i \in 0 .. m |-> IF i = 0 THEN base ELSE HandleNext(u[i - 1])]
<1>5. PICK v : v = [i \in 0 .. m |-> IF i <= n THEN Acc(SubSeq(frames, 1, i), g[i])
                                              ELSE Acc(frames, <<>>)]
  OBVIOUS
<1>6. v[0] = base
  <2>1. SubSeq(frames, 1, 0) = <<>>
    BY SubSeqEmpty
  <2>2. v[0] = Acc(SubSeq(frames, 1, 0), g[0])
    BY <1>5
  <2> QED BY <1>3, <2>1, <2>2 DEF Acc
<1>7. v[n] = Acc(frames, <<>>)
  <2>1. SubSeq(frames, 1, n) = frames
    BY <1>1, SubSeqFull
  <2>2. g[n] = <<>>
    BY <1>2 DEF FramesLeft
  <2>3. n \in 0 .. m /\ n <= n
    BY <1>4
  <2> QED BY <1>5, <2>1, <2>2, <2>3
<1>8. ASSUME NEW i \in 1 .. m PROVE v[i] = HandleNext(v[i - 1])
  <2>1. i - 1 \in 0 .. m /\ i \in 0 .. m
    OBVIOUS
  <2>2. CASE i <= n
    <3>1. i \in 1 .. n /\ i - 1 <= n /\ i \in 0 .. n
      BY <2>2
    <3>2. PICK f \in W : f = frames[i]
      BY <1>1, <3>1, ElementOfSeq
    <3>3. PICK x : x = g[i] /\ IsBytes(x)
      BY <1>2, <3>1 DEF FramesLeft
    <3>4. g[i - 1] = AppendFrame(f) ++ x
      BY <1>2, <3>1, <3>2, <3>3 DEF FramesLeft
    <3>5. PICK before : before = SubSeq(frames, 1, i - 1)
      OBVIOUS
    <3>6. SubSeq(frames, 1, i) = Append(before, f)
      BY <1>1, <3>1, <3>2, <3>5, Another
    <3>7. v[i - 1] = Acc(before, AppendFrame(f) ++ x)
      BY <1>5, <2>1, <3>1, <3>4, <3>5
    <3>8. v[i] = Acc(Append(before, f), x)
      BY <1>5, <2>1, <2>2, <3>3, <3>6
    <3>9. Writable(f)
      OBVIOUS
    <3>10. HandleNext(Acc(before, AppendFrame(f) ++ x)) = Acc(Append(before, f), x)
      BY <3>3, <3>9, Handled
    <3> QED BY <3>7, <3>8, <3>10
  <2>3. CASE i > n
    <3>1. v[i] = Acc(frames, <<>>)
      <4>1. ~(i <= n)
        BY <2>3
      <4> QED BY <1>5, <2>1, <4>1
    <3>2. v[i - 1] = Acc(frames, <<>>)
      <4>1. CASE i - 1 = n
        BY <1>7, <4>1
      <4>2. CASE i - 1 # n
        <5>1. ~(i - 1 <= n)
          BY <2>3, <4>2
        <5> QED BY <1>5, <2>1, <5>1
      <4> QED BY <4>1, <4>2
    <3> QED BY <3>1, <3>2, NothingLeft
  <2> QED BY <2>2, <2>3
<1>9. v = [i \in 0 .. m |-> IF i = 0 THEN base ELSE HandleNext(v[i - 1])]
  <2>1. \A i \in 0 .. m : i = 0 \/ i \in 1 .. m
    OBVIOUS
  <2>2. v = [i \in 0 .. m |-> v[i]]
    BY <1>5
  <2>3. \A i \in 0 .. m : v[i] = IF i = 0 THEN base ELSE HandleNext(v[i - 1])
    <3> HIDE DEF base
    <3> QED BY <1>6, <1>8, <2>1
  <2> HIDE DEF base
  <2> QED BY <2>2, <2>3, Zenon
<1>10. after = [i \in 0 .. m |-> IF i = 0 THEN base ELSE HandleNext(after[i - 1])]
  BY <1>9
<1>11. ParseFrames(b) = after[m].frames
  BY <1>4 DEF ParseFrames
<1> HIDE DEF after, base
<1>12. PICK u : u = [i \in 0 .. m |-> IF i = 0 THEN base ELSE HandleNext(u[i - 1])] /\ u = after
  BY <1>10
<1>13. u[0] = base /\ \A i \in 1 .. m : u[i] = HandleNext(u[i - 1])
  <2>1. 0 \in 0 .. m /\ \A i \in 1 .. m : i \in 0 .. m /\ i # 0
    OBVIOUS
  <2> QED BY <1>12, <2>1
<1> DEFINE S == {i \in Nat : i <= m => u[i] = v[i]}
<1>14. 0 \in S
  BY <1>6, <1>13
<1>15. ASSUME NEW i \in Nat, i \in S, i + 1 <= m PROVE u[i + 1] = v[i + 1]
  <2>1. PICK k \in 1 .. m : k = i + 1 /\ k - 1 = i
    BY <1>15
  <2>2. u[k - 1] = v[k - 1]
    BY <1>15, <2>1
  <2> QED BY <1>8, <1>13, <2>1, <2>2
<1>16. Nat \subseteq S
  <2>1. \A i \in Nat : i \in S => i + 1 \in S
    BY <1>15
  <2> HIDE DEF S
  <2> QED BY <1>14, <2>1, Induction
<1>17. u[m] = v[m]
  BY <1>16
<1>18. v[m] = Acc(frames, <<>>)
  <2>1. CASE m = n
    BY <1>7, <2>1
  <2>2. CASE m # n
    <3>1. ~(m <= n) /\ m \in 0 .. m
      BY <1>4, <2>2
    <3> QED BY <1>5, <3>1
  <2> QED BY <2>1, <2>2
<1>19. v[m].frames = frames
  BY <1>18 DEF Acc
<1> QED BY <1>3, <1>11, <1>12, <1>17, <1>19 DEF IsBytes

-----------------------------------------------------------------------------
(* Packet numbers *)

(* Quotient and remainder. *)
LEMMA Division ==
  ASSUME NEW w \in Nat, w > 0, NEW a \in Nat
  PROVE  a % w \in 0 .. w - 1 /\ \E q \in Int : a = w * q + (a % w)
<1>1. a % w \in 0 .. w - 1
  OBVIOUS
<1>2. a = w * (a \div w) + (a % w)
  OBVIOUS
<1> QED BY <1>1, <1>2

(* The length of the header leaves a number unambiguous.                   *)
LEMMA HeaderIsEnough ==
  ASSUME NEW pn \in Nat, pn < Half(4)
  PROVE  HeaderLength(pn, 0) \in Lengths /\ pn < Half(HeaderLength(pn, 0))
<1>1. Half(1) \in Nat /\ Half(2) \in Nat /\ Half(3) \in Nat /\ Half(4) \in Nat
  <2>1. \A l \in Lengths : Half(l) \in Nat
    BY WindowsAssumption DEF Half
  <2> QED BY <2>1 DEF Lengths
<1>2. CASE pn < Half(1)
  <2>1. HeaderLength(pn, 0) = 1
    BY <1>1, <1>2 DEF HeaderLength
  <2> QED BY <1>2, <2>1 DEF Lengths
<1>3. CASE pn >= Half(1) /\ pn < Half(2)
  <2>1. HeaderLength(pn, 0) = 2
    BY <1>1, <1>3 DEF HeaderLength
  <2> QED BY <1>3, <2>1 DEF Lengths
<1>4. CASE pn >= Half(1) /\ pn >= Half(2) /\ pn < Half(3)
  <2>1. HeaderLength(pn, 0) = 3
    BY <1>1, <1>4 DEF HeaderLength
  <2> QED BY <1>4, <2>1 DEF Lengths
<1>5. CASE pn >= Half(1) /\ pn >= Half(2) /\ pn >= Half(3)
  <2>1. HeaderLength(pn, 0) = 4
    BY <1>1, <1>5 DEF HeaderLength
  <2> QED BY <2>1 DEF Lengths
<1> QED BY <1>1, <1>2, <1>3, <1>4, <1>5

(* DecodePacketNumber restores every number within half a window of the    *)
(* one that is expected next.                                              *)
THEOREM DecodeExact ==
  ASSUME NEW len \in Lengths, NEW largest \in Nat, NEW pn \in Nat,
         pn < Limit, Decodable(len, largest, pn)
  PROVE  Decode(len, largest, Truncate(len, pn)) = pn
<1> DEFINE w == Windows[len]
           h == Half(len)
           e == largest + 1
           r == e % w
           t == pn % w
           candidate == (e - r) + t
<1>1. w \in Nat /\ w > 0 /\ h \in Nat /\ w = 2 * h /\ Limit \in Nat
  <2>1. w \in Nat /\ w > 0 /\ w % 2 = 0 /\ Limit \in Nat
    BY WindowsAssumption
  <2>2. h = w \div 2
    BY DEF Half
  <2> HIDE DEF w, h
  <2> QED BY <2>1, <2>2
<1>2. e \in Nat
  OBVIOUS
<1>3. e - h < pn /\ pn <= e + h
  <2>1. largest + 1 - Half(len) < pn /\ pn <= largest + 1 + Half(len)
    BY DEF Decodable
  <2> QED BY <2>1, <1>1
<1>4. PICK q \in Int : e = w * q + r
  BY <1>1, <1>2, Division
<1>5. PICK p \in Int : pn = w * p + t
  BY <1>1, Division
<1>6. r \in 0 .. w - 1 /\ t \in 0 .. w - 1
  BY <1>1, <1>2, Division
<1>7. Decode(len, largest, Truncate(len, pn)) =
        CASE candidate <= e - h /\ candidate < Limit - w -> candidate + w
          [] candidate > e + h /\ candidate >= w -> candidate - w
          [] OTHER -> candidate
  BY DEF Decode, Truncate
<1> HIDE DEF w, h, e, r, t
<1>8. candidate = w * q + t
  BY <1>1, <1>2, <1>4, <1>6
<1>9. p - q \in {-1, 0, 1}
  <2>1. ASSUME p - q >= 2 PROVE FALSE
    BY <2>1, <1>1, <1>2, <1>3, <1>4, <1>5, <1>6
  <2>2. ASSUME q - p >= 2 PROVE FALSE
    BY <2>2, <1>1, <1>2, <1>3, <1>4, <1>5, <1>6
  <2> QED BY <2>1, <2>2
<1>10. CASE p = q
  <2>1. candidate = pn
    BY <1>5, <1>8, <1>10
  <2> QED BY <2>1, <1>1, <1>2, <1>3, <1>7
<1>11. CASE p = q + 1
  <2>1. candidate = pn - w
    BY <1>1, <1>5, <1>6, <1>8, <1>11
  <2> QED BY <2>1, <1>1, <1>2, <1>3, <1>7
<1>12. CASE p = q - 1
  <2>1. candidate = pn + w
    BY <1>1, <1>5, <1>6, <1>8, <1>12
  <2> QED BY <2>1, <1>1, <1>2, <1>3, <1>7
<1> QED BY <1>9, <1>10, <1>11, <1>12
=============================================================================
