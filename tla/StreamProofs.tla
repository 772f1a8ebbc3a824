---------------------------- MODULE StreamProofs ----------------------------
(***************************************************************************)
(* One direction of a stream (Stream.tla) for every length, chunk size and *)
(* window, and any number of writers: as long as nobody writes after Close *)
(* it implements the abstract byte stream (ByteStream.tla) and drops no    *)
(* frame it has taken; with one writer at a time, the sender respects the  *)
(* window.                                                                 *)
(***************************************************************************)
EXTENDS Stream, SequenceTheorems, TLAPS

(* Every frame but FIN has data, no two lie at one offset, and FIN is the  *)
(* end of what has been written.                                           *)
Sent ==
    /\ \A f \in frames : End(f) <= writeOffset
    /\ \A f \in frames : IF f.fin THEN f.len = 0 /\ finSent /\ f.off = writeOffset
                                  ELSE f.len > 0
    /\ \A f, g \in frames : f.off = g.off => f = g

(* Chunks that wait are parts of the stream; a FIN that waits does so      *)
(* behind all of the data.                                                 *)
Assembled ==
    /\ \A o \in DOMAIN pending : /\ pending[o] = Units(o, Len(pending[o]))
                                 /\ o + Len(pending[o]) <= writeOffset
    /\ reassemblyOffset <= writeOffset
    /\ pendingFn => finSent /\ (writeOffset \in DOMAIN pending \/ reassemblyOffset = writeOffset)
    /\ finRead => finSent /\ reassemblyOffset = writeOffset
    /\ mu # "free" => ~reset

(* Nobody is in Write any more once the stream is closed. *)
Quiet == finSent => \A w \in Writers : writerPC[w] = "out"

DataInv == Sent /\ Assembled /\ readOffset <= reassemblyOffset /\ InOrder /\ NothingDropped

(* What the window of the sender never exceeds. *)
WindowInv ==
    /\ writeOffset <= maxData
    /\ maxData <= readMaxData
    /\ \A v \in grants : v <= readMaxData
    /\ \A w \in Writers : writerPC[w] = "checked" => writeOffset + chunk[w] <= maxData

-----------------------------------------------------------------------------
(* Pieces of the stream. *)
LEMMA UnitsSeq ==
  ASSUME NEW a \in Nat, NEW n \in Nat
  PROVE  /\ Units(a, n) \in Seq(Nat)
         /\ Len(Units(a, n)) = n
         /\ \A i \in 1 .. n : Units(a, n)[i] = a + i - 1
<1>1. \A i \in 1 .. n : a + i - 1 \in Nat
  OBVIOUS
<1>2. Units(a, n) \in [1 .. n -> Nat]
  BY <1>1 DEF Units
<1>3. Units(a, n) \in Seq(Nat)
  BY <1>2, IsASeq
<1>4. Len(Units(a, n)) = n
  <2>1. DOMAIN Units(a, n) = 1 .. Len(Units(a, n)) /\ Len(Units(a, n)) \in Nat
    BY <1>3, LenProperties
  <2>2. DOMAIN Units(a, n) = 1 .. n
    BY DEF Units
  <2> DEFINE l == Len(Units(a, n))
  <2>3. l \in Nat /\ 1 .. l = 1 .. n
    BY <2>1, <2>2
  <2> HIDE DEF l
  <2>4. ~(l < n)
    <3>1. l < n => n \in 1 .. n /\ n \notin 1 .. l
      BY <2>3
    <3> QED BY <2>3, <3>1
  <2>5. ~(n < l)
    <3>1. n < l => l \in 1 .. l /\ l \notin 1 .. n
      BY <2>3
    <3> QED BY <2>3, <3>1
  <2>6. l = n
    BY <2>3, <2>4, <2>5
  <2> QED BY <2>6 DEF l
<1> QED BY <1>3, <1>4 DEF Units

LEMMA IsUnits ==
  ASSUME NEW a \in Nat, NEW n \in Nat, NEW s \in Seq(Nat), Len(s) = n,
         \A i \in 1 .. n : s[i] = a + i - 1
  PROVE  s = Units(a, n)
<1> DEFINE t == Units(a, n)
<1>1. t \in Seq(Nat) /\ Len(t) = n /\ \A i \in 1 .. n : t[i] = a + i - 1
  BY UnitsSeq
<1> HIDE DEF t
<1>2. s = t
  BY <1>1, SeqEqual
<1> QED BY <1>2 DEF t

LEMMA UnitsConcat ==
  ASSUME NEW a \in Nat, NEW n \in Nat, NEW m \in Nat
  PROVE  Units(a, n) \o Units(a + n, m) = Units(a, n + m)
<1> DEFINE u == Units(a, n)
           v == Units(a + n, m)
           s == u \o v
<1>1. a + n \in Nat /\ n + m \in Nat
  OBVIOUS
<1>2. u \in Seq(Nat) /\ Len(u) = n /\ \A i \in 1 .. n : u[i] = a + i - 1
  BY UnitsSeq
<1>3. v \in Seq(Nat) /\ Len(v) = m /\ \A i \in 1 .. m : v[i] = (a + n) + i - 1
  BY <1>1, UnitsSeq
<1> HIDE DEF u, v
<1>4. /\ s \in Seq(Nat) /\ Len(s) = n + m
      /\ \A i \in 1 .. n + m : s[i] = IF i <= n THEN u[i] ELSE v[i - n]
  BY <1>2, <1>3, ConcatProperties
<1> HIDE DEF s
<1>5. ASSUME NEW i \in 1 .. n + m PROVE s[i] = a + i - 1
  <2>1. CASE i <= n
    BY <1>2, <1>4, <2>1
  <2>2. CASE i > n
    <3>1. i - n \in 1 .. m
      BY <2>2
    <3>2. v[i - n] = (a + n) + (i - n) - 1
      BY <1>3, <3>1
    <3>3. s[i] = v[i - n]
      BY <1>4, <2>2
    <3>4. (a + n) + (i - n) - 1 = a + i - 1
      OBVIOUS
    <3> QED BY <3>2, <3>3, <3>4
  <2> QED BY <2>1, <2>2
<1>6. s = Units(a, n + m)
  BY <1>1, <1>4, <1>5, IsUnits
<1> QED BY <1>6 DEF s, u, v

LEMMA UnitsSplit ==
  ASSUME NEW a \in Nat, NEW k \in Nat, NEW n \in 1 .. k
  PROVE  /\ SubSeq(Units(a, k), 1, n) = Units(a, n)
         /\ SubSeq(Units(a, k), n + 1, k) = Units(a + n, k - n)
<1> DEFINE u == Units(a, k)
           s == SubSeq(u, 1, n)
           t == SubSeq(u, n + 1, k)
<1>1. n \in Nat /\ n <= k /\ a + n \in Nat /\ k - n \in Nat
  OBVIOUS
<1>2. u \in Seq(Nat) /\ Len(u) = k /\ \A i \in 1 .. k : u[i] = a + i - 1
  BY UnitsSeq
<1> HIDE DEF u
<1>3. /\ \A i \in 1 .. n : i \in 1 .. k
      /\ \A i \in n + 1 .. k : i \in 1 .. k
      /\ \A i \in 1 .. k - n : n + i \in 1 .. k
  BY <1>1
<1>4. \A i \in 1 .. k : u[i] \in Nat
  BY <1>2
<1>5. s = Units(a, n)
  <2>1. s \in Seq(Nat) /\ Len(s) = n /\ \A i \in 1 .. n : s[i] = u[i]
    BY <1>1, <1>3, <1>4, SubSeqProperties
  <2> HIDE DEF s
  <2> QED BY <1>1, <1>2, <1>3, <2>1, IsUnits
<1>6. t = Units(a + n, k - n)
  <2>1. /\ t \in Seq(Nat)
        /\ Len(t) = IF n + 1 <= k THEN k - (n + 1) + 1 ELSE 0
        /\ \A i \in 1 .. k - (n + 1) + 1 : t[i] = u[(n + 1) + i - 1]
    <3>1. n + 1 \in Int /\ k \in Int /\ \A i \in n + 1 .. k : u[i] \in Nat
      BY <1>1, <1>3, <1>4
    <3> HIDE DEF t
    <3>2. SubSeq(u, n + 1, k) \in Seq(Nat)
      BY <3>1, SubSeqProperties
    <3>3. Len(SubSeq(u, n + 1, k)) = IF n + 1 <= k THEN k - (n + 1) + 1 ELSE 0
      BY <3>1, SubSeqProperties
    <3>4. \A i \in 1 .. k - (n + 1) + 1 : SubSeq(u, n + 1, k)[i] = u[(n + 1) + i - 1]
      BY <3>1, SubSeqProperties
    <3> QED BY <3>2, <3>3, <3>4 DEF t
  <2> HIDE DEF t
  <2>2. Len(t) = k - n
    BY <1>1, <2>1
  <2>3. ASSUME NEW i \in 1 .. k - n PROVE t[i] = (a + n) + i - 1
    <3>1. i \in 1 .. k - (n + 1) + 1 /\ (n + 1) + i - 1 = n + i
      BY <1>1
    <3>2. t[i] = u[n + i]
      BY <2>1, <3>1
    <3>3. u[n + i] = a + (n + i) - 1
      BY <1>2, <1>3
    <3> QED BY <3>2, <3>3, <1>1
  <2> QED BY <1>1, <2>1, <2>2, <2>3, IsUnits
<1> QED BY <1>5, <1>6 DEF s, t, u

-----------------------------------------------------------------------------
LEMMA HalfType == Half \in Nat /\ Half <= Window
BY ConstantsAssumption DEF Half

LEMMA SlideWindowType ==
  ASSUME readMaxData \in Nat, readMaxData >= Window, reassemblyOffset \in Nat,
         grants \subseteq Nat, SlideWindow
  PROVE  /\ readMaxData' \in Nat /\ readMaxData' >= readMaxData
         /\ grants' \subseteq grants \cup {readMaxData'}
<1>1. Window \in Nat
  BY ConstantsAssumption
<1>2. CASE readMaxData - reassemblyOffset < Half
  <2>1. readMaxData' = reassemblyOffset + Window /\ grants' = grants \cup {readMaxData'}
    BY <1>2 DEF SlideWindow
  <2> QED BY <1>1, <1>2, <2>1, HalfType
<1>3. CASE ~(readMaxData - reassemblyOffset < Half)
  <2>1. UNCHANGED <<readMaxData, grants>>
    BY <1>3 DEF SlideWindow
  <2> QED BY <2>1
<1> QED BY <1>2, <1>3

(* What the writer does without sending. *)
WriterMoves ==
    \/ \E w \in Writers : StartWrite(w) \/ ChunkRefused(w) \/ WriteDeadline(w)
    \/ \E w \in Writers, n \in 1 .. MaxChunk : CheckWindow(w, n)
    \/ CancelWrite
    \/ SetWriteDeadline

(* What the reader does without data. *)
ReaderMoves ==
    ReadEOF \/ ReadTimer \/ SetReadDeadline \/ CancelRead \/ ResetStream \/ ConnClose

LEMMA TypeInit == Init => TypeOK
<1> SUFFICES ASSUME Init PROVE TypeOK
  OBVIOUS
<1>1. Window \in Nat /\ MaxChunk \in Nat /\ MaxOffset \in Nat
  BY ConstantsAssumption
<1>2. writerPC \in [Writers -> {"out", "in", "waiting", "checked"}]
  BY DEF Init
<1>3. chunk \in [Writers -> 0 .. MaxChunk]
  BY <1>1 DEF Init
<1>4. <<>> \in Seq(Nat)
  BY EmptySeq
<1>5. pending = NoPending /\ DOMAIN pending = {}
  BY DEF Init, NoPending
<1>6. writeOffset \in Offsets /\ maxData >= Window /\ readMaxData >= Window
  BY <1>1 DEF Init, Offsets
<1>7. /\ frames \subseteq Frame /\ got \subseteq frames /\ grants \subseteq Nat
      /\ DOMAIN pending \subseteq Offsets /\ \A o \in DOMAIN pending : pending[o] \in Seq(Nat)
  BY <1>5 DEF Init
<1>8. maxData \in Nat /\ readMaxData \in Nat
  BY <1>1 DEF Init
<1> QED BY <1>2, <1>3, <1>4, <1>6, <1>7, <1>8 DEF Init, TypeOK

Places == {"out", "in", "waiting", "checked"}

LEMMA GotoType ==
  ASSUME writerPC \in [Writers -> Places], chunk \in [Writers -> 0 .. MaxChunk],
         NEW w \in Writers, NEW pc \in Places, NEW n \in 0 .. MaxChunk, Goto(w, pc, n)
  PROVE  writerPC' \in [Writers -> Places] /\ chunk' \in [Writers -> 0 .. MaxChunk]
<1> HIDE DEF Places
<1>1. writerPC' = [writerPC EXCEPT ![w] = pc] /\ chunk' = [chunk EXCEPT ![w] = n]
  BY DEF Goto
<1> QED BY <1>1

LEMMA WriterMovesType ==
  ASSUME TypeOK, WriterMoves
  PROVE  TypeOK'
<1>1. UNCHANGED <<writeOffset, maxData, finSent, network, receiver>> /\ writeErr' \in BOOLEAN
  BY DEF WriterMoves, StartWrite, ChunkRefused, WriteDeadline, CheckWindow, CancelWrite,
         SetWriteDeadline, TypeOK
<1>2. writerPC \in [Writers -> Places] /\ chunk \in [Writers -> 0 .. MaxChunk]
  BY DEF TypeOK, Places
<1>3. writerPC' \in [Writers -> Places] /\ chunk' \in [Writers -> 0 .. MaxChunk]
  <2>1. MaxChunk \in Nat /\ 0 \in 0 .. MaxChunk /\ \A n \in 1 .. MaxChunk : n \in 0 .. MaxChunk
    BY ConstantsAssumption
  <2>2. {"out", "in", "waiting", "checked"} \subseteq Places
    BY DEF Places
  <2>3. CASE \E w \in Writers : StartWrite(w) \/ ChunkRefused(w) \/ WriteDeadline(w)
    <3>1. PICK w \in Writers : Goto(w, "in", 0) \/ Goto(w, "in", chunk[w]) \/ Goto(w, "out", 0)
      BY <2>3 DEF StartWrite, ChunkRefused, WriteDeadline
    <3>2. chunk[w] \in 0 .. MaxChunk
      BY <1>2
    <3> QED BY <1>2, <2>1, <2>2, <3>1, <3>2, GotoType
  <2>4. CASE \E w \in Writers, n \in 1 .. MaxChunk : CheckWindow(w, n)
    <3>1. PICK w \in Writers, n \in 1 .. MaxChunk :
             Goto(w, "checked", n) \/ Goto(w, "waiting", n) \/ Goto(w, "out", 0)
      BY <2>4 DEF CheckWindow
    <3> QED BY <1>2, <2>1, <2>2, <3>1, GotoType
  <2>5. CASE CancelWrite \/ SetWriteDeadline
    <3>1. WakeWriters
      BY <2>5 DEF CancelWrite, SetWriteDeadline
    <3> QED BY <1>2, <3>1 DEF WakeWriters, Places
  <2> QED BY <2>3, <2>4, <2>5 DEF WriterMoves
<1> QED BY <1>1, <1>3 DEF TypeOK, Places, network, receiver, assembly, reader, flags

LEMMA SendChunkType ==
  ASSUME TypeOK, NEW w \in Writers, NEW n \in 1 .. MaxChunk, SendChunk(w, n)
  PROVE  TypeOK'
<1>1. MaxOffset \in Nat /\ MaxChunk \in Nat /\ chunk[w] \in 0 .. MaxChunk /\ writeOffset \in Offsets
  BY ConstantsAssumption DEF TypeOK
<1>2. writeOffset' \in Offsets
  BY <1>1 DEF SendChunk, Offsets
<1>3. frames' \subseteq Frame
  <2>1. [off |-> writeOffset, len |-> n, fin |-> FALSE] \in Frame
    BY <1>1 DEF Frame
  <2> QED BY <2>1 DEF SendChunk, TypeOK
<1>4. writerPC \in [Writers -> Places] /\ chunk \in [Writers -> 0 .. MaxChunk]
  BY DEF TypeOK, Places
<1>5. writerPC' \in [Writers -> Places] /\ chunk' \in [Writers -> 0 .. MaxChunk]
  <2>1. Goto(w, "in", 0) \/ Goto(w, "out", 0)
    BY DEF SendChunk
  <2>2. 0 \in 0 .. MaxChunk /\ "in" \in Places /\ "out" \in Places
    BY <1>1 DEF Places
  <2> QED BY <1>4, <2>1, <2>2, GotoType
<1>6. got' \subseteq frames'
  BY DEF SendChunk, TypeOK, receiver
<1>7. UNCHANGED <<maxData, finSent, writeErr, grants, losses, receiver>>
  BY DEF SendChunk
<1> QED BY <1>2, <1>3, <1>5, <1>6, <1>7 DEF TypeOK, Places, receiver, assembly, reader, flags

LEMMA CloseWriteType ==
  ASSUME TypeOK, NEW sent \in BOOLEAN, CloseWrite(sent)
  PROVE  TypeOK'
<1>1. [off |-> writeOffset, len |-> 0, fin |-> TRUE] \in Frame
  BY ConstantsAssumption DEF TypeOK, Frame
<1>2. frames' \subseteq Frame /\ got' \subseteq frames'
  BY <1>1 DEF CloseWrite, TypeOK, receiver
<1>3. finSent' = TRUE /\ UNCHANGED <<writeOffset, maxData, writeErr, writer, grants, losses, receiver>>
  BY DEF CloseWrite
<1> QED BY <1>2, <1>3 DEF TypeOK, writer, receiver, assembly, reader, flags

LEMMA GrantType ==
  ASSUME TypeOK, NEW v \in grants, ReceiveGrant(v) \/ LoseGrant(v)
  PROVE  TypeOK'
<1>1. v \in Nat /\ Window \in Nat
  BY ConstantsAssumption DEF TypeOK
<1>2. CASE ReceiveGrant(v)
  <2>1. maxData' \in Nat /\ maxData' >= Window
    BY <1>1, <1>2 DEF ReceiveGrant, UpdateMaxData, TypeOK
  <2>2. /\ writerPC' \in [Writers -> {"out", "in", "waiting", "checked"}]
        /\ chunk' = chunk
    BY <1>2 DEF ReceiveGrant, UpdateMaxData, WakeWriters, TypeOK, writer
  <2>3. grants' \subseteq grants /\ UNCHANGED <<writeOffset, finSent, writeErr, frames, losses, receiver>>
    BY <1>2 DEF ReceiveGrant
  <2> QED BY <2>1, <2>2, <2>3 DEF TypeOK, receiver, assembly, reader, flags
<1>3. CASE LoseGrant(v)
  BY <1>3 DEF LoseGrant, TypeOK, sender, writer, receiver, assembly, reader, flags
<1> QED BY <1>2, <1>3

LEMMA HandleType ==
  ASSUME TypeOK, NEW f \in frames, HandleStreamData(f)
  PROVE  TypeOK'
<1>1. /\ f \in Frame /\ f.off \in Nat /\ f.len \in Nat /\ f.fin \in BOOLEAN
      /\ f.off \in Offsets /\ Window \in Nat
  BY ConstantsAssumption DEF TypeOK, Frame, Offsets
<1>2. Units(f.off, f.len) \in Seq(Nat)
  BY <1>1, UnitsSeq
<1>3. got' \subseteq frames
  BY DEF HandleStreamData, Ignored, DuplicateFin, InSequence, OutOfOrder, Receive, TypeOK
<1>4. CASE Ignored(f) \/ DuplicateFin(f)
  <2>1. /\ UNCHANGED <<sender, network, assembly, reader, readerPC, flags, readMaxData>>
        /\ mu' \in {"free", "inSequence", "duplicate"}
    BY <1>4 DEF Ignored, DuplicateFin, TypeOK
  <2> QED BY <1>3, <2>1 DEF TypeOK, sender, writer, network, assembly, reader, flags
<1>5. CASE InSequence(f)
  <2>1. /\ readBuf' \in Seq(Nat) /\ reassemblyOffset' \in Nat /\ finRead' \in BOOLEAN
        /\ mu' \in {"free", "inSequence", "duplicate"}
    BY <1>1, <1>2, <1>5, ConcatProperties DEF InSequence, TypeOK, End
  <2>2. UNCHANGED <<sender, network, pending, pendingFn, reader, readerPC, flags, readMaxData>>
    BY <1>5 DEF InSequence
  <2> QED BY <1>3, <2>1, <2>2 DEF TypeOK, sender, writer, network, reader, flags
<1>6. CASE OutOfOrder(f)
  <2>1. DOMAIN pending' \subseteq Offsets /\ \A o \in DOMAIN pending' : pending'[o] \in Seq(Nat)
    BY <1>1, <1>2, <1>6 DEF OutOfOrder, TypeOK
  <2>2. readMaxData' \in Nat /\ readMaxData' >= Window /\ grants' \subseteq Nat
    <3>1. readMaxData' \in Nat /\ readMaxData' >= readMaxData
          /\ grants' \subseteq grants \cup {readMaxData'}
      BY <1>6, SlideWindowType DEF OutOfOrder, TypeOK
    <3> QED BY <1>1, <3>1 DEF TypeOK
  <2>3. /\ UNCHANGED <<sender, frames, losses, mu, readBuf, reassemblyOffset, finRead,
                       reader, readerPC, flags>>
        /\ pendingFn' \in BOOLEAN
    BY <1>1, <1>6 DEF OutOfOrder, TypeOK
  <2> QED BY <1>3, <2>1, <2>2, <2>3 DEF TypeOK, sender, writer, reader, flags
<1> QED BY <1>4, <1>5, <1>6 DEF HandleStreamData

LEMMA FlushType ==
  ASSUME TypeOK, FlushChunk \/ FlushEnd
  PROVE  TypeOK'
<1>1. CASE FlushChunk
  <2> DEFINE p == pending[reassemblyOffset]
  <2>1. p \in Seq(Nat) /\ Len(p) \in Nat
    BY <1>1, LenProperties DEF FlushChunk, TypeOK
  <2>2. readBuf' \in Seq(Nat) /\ reassemblyOffset' \in Nat
    BY <1>1, <2>1, ConcatProperties DEF FlushChunk, TypeOK
  <2>3. DOMAIN pending' \subseteq Offsets /\ \A o \in DOMAIN pending' : pending'[o] \in Seq(Nat)
    BY <1>1 DEF FlushChunk, TypeOK
  <2>4. UNCHANGED <<sender, network, mu, pendingFn, finRead, reader, readerPC, flags,
                    readMaxData, got>>
    BY <1>1 DEF FlushChunk
  <2> HIDE DEF p
  <2> QED BY <2>2, <2>3, <2>4 DEF TypeOK, sender, writer, network, reader, flags
<1>2. CASE FlushEnd
  <2>1. readMaxData' \in Nat /\ readMaxData' >= Window /\ grants' \subseteq Nat
    <3>1. CASE mu = "inSequence"
      <4>1. readMaxData' \in Nat /\ readMaxData' >= readMaxData
            /\ grants' \subseteq grants \cup {readMaxData'}
        BY <1>2, <3>1, SlideWindowType DEF FlushEnd, TypeOK
      <4>2. Window \in Nat
        BY ConstantsAssumption
      <4> QED BY <4>1, <4>2 DEF TypeOK
    <3>2. CASE mu # "inSequence"
      BY <1>2, <3>2 DEF FlushEnd, TypeOK
    <3> QED BY <3>1, <3>2
  <2>2. finRead' \in BOOLEAN /\ pendingFn' \in BOOLEAN
    BY <1>2 DEF FlushEnd, TypeOK, FinNow
  <2>3. /\ readerPC' \in {"running", "waiting", "asleep"} /\ mu' = "free"
        /\ UNCHANGED <<sender, frames, losses, readBuf, reassemblyOffset, pending,
                       reader, flags, got>>
    BY <1>2 DEF FlushEnd, TypeOK
  <2> QED BY <2>1, <2>2, <2>3 DEF TypeOK, sender, writer, reader, flags
<1> QED BY <1>1, <1>2

LEMMA ReadType ==
  ASSUME TypeOK, ReaderMoves \/ ReadBlocked \/ \E n \in 1 .. Len(readBuf) : ReadData(n)
  PROVE  TypeOK'
<1>1. CASE ReaderMoves
  <2>1. /\ UNCHANGED <<sender, network, mu, reassemblyOffset, pending, pendingFn, finRead,
                       readOffset, delivered, readMaxData, got>>
        /\ reset' \in BOOLEAN /\ closed' \in BOOLEAN /\ eof' \in BOOLEAN
        /\ readerPC' \in {"running", "waiting", "asleep"}
    <3>1. CASE ReadEOF \/ ReadTimer \/ SetReadDeadline
      BY <3>1 DEF ReadEOF, ReadTimer, SetReadDeadline, TypeOK, assembly, reader, flags
    <3>2. CASE CancelRead \/ ResetStream \/ ConnClose
      BY <3>2 DEF CancelRead, ResetStream, ConnClose, TypeOK, assembly, reader
    <3> QED BY <1>1, <3>1, <3>2 DEF ReaderMoves
  <2>2. readBuf' \in Seq(Nat)
    BY <1>1, EmptySeq DEF ReaderMoves, ReadEOF, ReadTimer, SetReadDeadline, CancelRead,
                ResetStream, ConnClose, TypeOK, assembly
  <2> QED BY <2>1, <2>2 DEF TypeOK, sender, writer, network
<1>2. CASE ReadBlocked
  <2>1. readMaxData' \in Nat /\ readMaxData' >= Window /\ grants' \subseteq Nat
    <3>1. readMaxData \in Nat /\ readMaxData >= Window /\ grants \subseteq Nat /\ Window \in Nat
      BY ConstantsAssumption DEF TypeOK
    <3>2. \/ readMaxData' = readMaxData + Window /\ grants' = grants \cup {readMaxData'}
          \/ UNCHANGED <<readMaxData, grants>>
      BY <1>2 DEF ReadBlocked
    <3>3. readMaxData' \in Nat /\ readMaxData' >= Window
      BY <3>1, <3>2
    <3> QED BY <3>1, <3>2, <3>3
  <2>2. /\ UNCHANGED <<sender, frames, losses, mu, assembly, reader, flags, got>>
        /\ readerPC' \in {"running", "waiting", "asleep"}
    BY <1>2 DEF ReadBlocked
  <2> QED BY <2>1, <2>2 DEF TypeOK, sender, writer, assembly, reader, flags
<1>3. ASSUME NEW n \in 1 .. Len(readBuf), ReadData(n) PROVE TypeOK'
  <2>1. readBuf \in Seq(Nat) /\ Len(readBuf) \in Nat
        /\ \A i \in 1 .. Len(readBuf) : readBuf[i] \in Nat
    BY LenProperties DEF TypeOK
  <2>2. SubSeq(readBuf, 1, n) \in Seq(Nat)
    <3>1. \A i \in 1 .. n : readBuf[i] \in Nat
      BY <2>1
    <3> QED BY <2>1, <3>1, SubSeqProperties
  <2>3. SubSeq(readBuf, n + 1, Len(readBuf)) \in Seq(Nat)
    <3>1. \A i \in n + 1 .. Len(readBuf) : readBuf[i] \in Nat
      BY <2>1
    <3> QED BY <2>1, <3>1, SubSeqProperties
  <2>4. readBuf' \in Seq(Nat) /\ delivered' \in Seq(Nat) /\ readOffset' \in Nat
    BY <1>3, <2>1, <2>2, <2>3, ConcatProperties DEF ReadData, TypeOK
  <2>5. UNCHANGED <<sender, network, mu, reassemblyOffset, pending, pendingFn,
                    finRead, eof, readerPC, flags, readMaxData, got>>
    BY <1>3 DEF ReadData
  <2> QED BY <2>4, <2>5 DEF TypeOK, sender, writer, network, flags
<1> QED BY <1>1, <1>2, <1>3

LEMMA NextSplit ==
  ASSUME Next
  PROVE  \/ WriterMoves
         \/ \E w \in Writers, n \in 1 .. MaxChunk : SendChunk(w, n)
         \/ \E sent \in BOOLEAN : CloseWrite(sent)
         \/ \E v \in grants : ReceiveGrant(v) \/ LoseGrant(v)
         \/ \E f \in frames : HandleStreamData(f)
         \/ FlushChunk \/ FlushEnd
         \/ ReaderMoves \/ ReadBlocked \/ \E n \in 1 .. Len(readBuf) : ReadData(n)
BY DEF Next, WriterStep, WriterMoves, ReaderMoves

(* Every variable keeps its type, whatever the constants (stream.go). *)
THEOREM TypesHold == Spec => []TypeOK
<1>1. TypeOK /\ [Next]_vars => TypeOK'
  <2> SUFFICES ASSUME TypeOK, [Next]_vars PROVE TypeOK'
    OBVIOUS
  <2>1. CASE Next
    BY <2>1, NextSplit, WriterMovesType, SendChunkType, CloseWriteType, GrantType,
       HandleType, FlushType, ReadType
  <2>2. CASE UNCHANGED vars
    BY <2>2 DEF vars, TypeOK, sender, writer, network, receiver, assembly, reader, flags
  <2> QED BY <2>1, <2>2
<1> QED BY <1>1, TypeInit, PTL DEF Spec

-----------------------------------------------------------------------------
(* Nobody writes after Close: who is in Write keeps the stream open, and   *)
(* Close keeps it from beginning.                                          *)
LEMMA QuietKept ==
  ASSUME TypeOK, Quiet, ~WriteAfterClose, [Next]_vars
  PROVE  Quiet'
<1> DEFINE AllOut == \A w \in Writers : writerPC[w] = "out"
<1>1. CASE WriterMoves
  <2>1. finSent' = finSent
    BY <1>1 DEF WriterMoves, StartWrite, ChunkRefused, WriteDeadline, CheckWindow,
                CancelWrite, SetWriteDeadline
  <2>2. ASSUME finSent PROVE UNCHANGED writerPC
    <3>1. \A w \in Writers : writerPC[w] = "out"
      BY <2>2 DEF Quiet
    <3>2. CancelWrite \/ SetWriteDeadline
      BY <1>1, <2>2, <3>1 DEF WriterMoves, StartWrite, ChunkRefused, WriteDeadline, CheckWindow
    <3> QED BY <3>1, <3>2 DEF CancelWrite, SetWriteDeadline, WakeWriters, TypeOK
  <2> QED BY <2>1, <2>2 DEF Quiet
<1>2. ASSUME NEW w \in Writers, NEW n \in 1 .. MaxChunk, SendChunk(w, n) PROVE Quiet'
  BY <1>2 DEF SendChunk, Quiet
<1>3. ASSUME NEW sent \in BOOLEAN, CloseWrite(sent) PROVE Quiet'
  BY <1>3 DEF CloseWrite, Quiet, writer
<1>4. ASSUME NEW v \in grants, ReceiveGrant(v) \/ LoseGrant(v) PROVE Quiet'
  BY <1>4 DEF ReceiveGrant, LoseGrant, UpdateMaxData, WakeWriters, Quiet, sender, writer
<1>5. CASE \/ \E f \in frames : HandleStreamData(f)
           \/ FlushChunk \/ FlushEnd \/ ReaderMoves \/ ReadBlocked
           \/ \E n \in 1 .. Len(readBuf) : ReadData(n)
  <2>1. UNCHANGED sender
    BY <1>5 DEF HandleStreamData, Ignored, DuplicateFin, InSequence, OutOfOrder, FlushChunk,
                FlushEnd, ReaderMoves, ReadEOF, ReadTimer, SetReadDeadline, CancelRead,
                ResetStream, ConnClose, ReadBlocked, ReadData
  <2> QED BY <2>1 DEF Quiet, sender, writer
<1>6. CASE UNCHANGED vars
  BY <1>6 DEF Quiet, vars, sender, writer
<1> QED BY <1>1, <1>2, <1>3, <1>4, <1>5, <1>6, NextSplit

-----------------------------------------------------------------------------
LEMMA DataInit == Init => DataInv /\ Quiet
<1> SUFFICES ASSUME Init PROVE DataInv /\ Quiet
  OBVIOUS
<1>1. Sent /\ Quiet
  BY DEF Init, Sent, Quiet
<1>2. Assembled /\ readOffset <= reassemblyOffset /\ NothingDropped
  BY DEF Init, Assembled, NoPending, NothingDropped
<1>3. InOrder
  <2>1. Units(0, 0) \in Seq(Nat) /\ Len(Units(0, 0)) = 0
    BY UnitsSeq
  <2>2. Units(0, 0) = <<>>
    BY <2>1, EmptySeq
  <2>3. readOffset = 0 /\ reassemblyOffset = 0 /\ delivered = <<>> /\ readBuf = <<>>
    BY DEF Init
  <2>4. 0 - 0 = 0
    OBVIOUS
  <2> QED BY <2>2, <2>3, <2>4 DEF InOrder
<1> QED BY <1>1, <1>2, <1>3 DEF DataInv

LEMMA DataUnchanged ==
  ASSUME DataInv,
         UNCHANGED <<writeOffset, finSent, frames, got, mu, assembly, readOffset, delivered, reset>>
  PROVE  DataInv'
BY DEF DataInv, Sent, Assembled, InOrder, NothingDropped, assembly

(* A chunk is sent at the end of what has been written. *)
LEMMA SendKeepsData ==
  ASSUME TypeOK, DataInv, Quiet, NEW w \in Writers, NEW n \in 1 .. MaxChunk, SendChunk(w, n)
  PROVE  DataInv'
<1> DEFINE new == [off |-> writeOffset, len |-> n, fin |-> FALSE]
<1>1. /\ n \in Nat /\ n > 0 /\ writeOffset \in Nat /\ reassemblyOffset \in Nat
      /\ frames \subseteq Frame
  BY ConstantsAssumption DEF TypeOK, Offsets
<1>2. /\ frames' = frames \cup {new} /\ writeOffset' = writeOffset + n
      /\ UNCHANGED <<finSent, got, mu, readBuf, readOffset, reassemblyOffset, pending, pendingFn,
                     finRead, reset, delivered>>
  BY DEF SendChunk, receiver, assembly, reader, flags
<1>3. ~finSent
  BY DEF SendChunk, Quiet
<1>4. \A f \in frames : ~f.fin /\ f.len > 0 /\ End(f) <= writeOffset
  BY <1>3 DEF DataInv, Sent
<1>5. \A f \in frames : f.off \in Nat /\ f.len \in Nat /\ f.off < writeOffset
  BY <1>1, <1>4 DEF Frame, Offsets, End
<1>6. Sent'
  <2>1. new.off = writeOffset /\ new.len = n /\ new.fin = FALSE
    OBVIOUS
  <2> HIDE DEF new
  <2>2. \A f \in frames' : End(f) <= writeOffset'
    BY <1>1, <1>2, <1>4, <1>5, <2>1 DEF End
  <2>3. \A f \in frames' : ~f.fin /\ f.len > 0
    BY <1>1, <1>2, <1>4, <2>1
  <2>4. \A f, g \in frames' : f.off = g.off => f = g
    BY <1>1, <1>2, <1>5, <2>1 DEF DataInv, Sent
  <2> QED BY <2>2, <2>3, <2>4 DEF Sent
<1>7. Assembled'
  <2>1. \A o \in DOMAIN pending : o \in Nat /\ Len(pending[o]) \in Nat
    BY LenProperties DEF TypeOK, Offsets
  <2>2. \A o \in DOMAIN pending : o + Len(pending[o]) <= writeOffset + n
    BY <1>1, <2>1 DEF DataInv, Assembled
  <2>3. ~pendingFn /\ ~finRead
    BY <1>3 DEF DataInv, Assembled
  <2>4. reassemblyOffset <= writeOffset + n
    BY <1>1 DEF DataInv, Assembled
  <2> QED BY <1>2, <2>2, <2>3, <2>4 DEF DataInv, Assembled
<1>8. InOrder' /\ NothingDropped' /\ readOffset' <= reassemblyOffset'
  BY <1>2 DEF DataInv, InOrder, NothingDropped
<1> QED BY <1>6, <1>7, <1>8 DEF DataInv

(* FIN lies at the end of what has been written, where no frame begins. *)
LEMMA CloseKeepsData ==
  ASSUME TypeOK, DataInv, NEW sent \in BOOLEAN, CloseWrite(sent)
  PROVE  DataInv'
<1> DEFINE new == [off |-> writeOffset, len |-> 0, fin |-> TRUE]
<1>1. writeOffset \in Nat /\ frames \subseteq Frame
  BY DEF TypeOK, Offsets
<1>2. /\ frames' = IF sent THEN frames \cup {new} ELSE frames
      /\ ~finSent /\ finSent' = TRUE
      /\ UNCHANGED <<writeOffset, got, mu, readBuf, readOffset, reassemblyOffset, pending, pendingFn,
                     finRead, reset, delivered>>
  BY DEF CloseWrite, receiver, assembly, reader, flags
<1>3. \A f \in frames : ~f.fin /\ f.len > 0 /\ End(f) <= writeOffset
  BY <1>2 DEF DataInv, Sent
<1>4. \A f \in frames : f.off \in Nat /\ f.len \in Nat /\ f.off < writeOffset
  BY <1>1, <1>3 DEF Frame, Offsets, End
<1>5. Sent'
  <2>1. new.off = writeOffset /\ new.len = 0 /\ new.fin = TRUE
    OBVIOUS
  <2> HIDE DEF new
  <2>2. \A f \in frames' : f \in frames \/ f = new
    BY <1>2
  <2>3. \A f \in frames' : End(f) <= writeOffset
    BY <1>1, <1>3, <2>1, <2>2 DEF End
  <2>4. \A f \in frames' : IF f.fin THEN f.len = 0 /\ finSent' /\ f.off = writeOffset ELSE f.len > 0
    BY <1>2, <1>3, <2>1, <2>2
  <2>5. \A f, g \in frames' : f.off = g.off => f = g
    BY <1>1, <1>4, <2>1, <2>2 DEF DataInv, Sent
  <2> QED BY <1>2, <2>3, <2>4, <2>5 DEF Sent
<1>6. Assembled' /\ InOrder' /\ NothingDropped' /\ readOffset' <= reassemblyOffset'
  BY <1>2 DEF DataInv, Assembled, InOrder, NothingDropped
<1> QED BY <1>5, <1>6 DEF DataInv

(* A frame that is ignored has been assembled, or comes after the end. *)
LEMMA IgnoredKeepsData ==
  ASSUME TypeOK, DataInv, NEW f \in frames, Ignored(f) \/ DuplicateFin(f)
  PROVE  DataInv'
<1>1. /\ got' = got \cup {f}
      /\ UNCHANGED <<writeOffset, finSent, frames, readBuf, readOffset, reassemblyOffset, pending,
                     pendingFn, finRead, reset, delivered>>
  BY DEF Ignored, DuplicateFin, Receive, sender, network, assembly, reader, flags
<1>2. reset \/ End(f) <= reassemblyOffset
  <2>1. finRead => End(f) <= reassemblyOffset
    BY DEF DataInv, Sent, Assembled
  <2> QED BY <2>1 DEF Ignored, DuplicateFin, AlreadyAssembled
<1>3. mu' # "free" => ~reset
  BY DEF Ignored, DuplicateFin, DataInv, Assembled
<1>4. NothingDropped'
  BY <1>1, <1>2 DEF DataInv, NothingDropped
<1> QED BY <1>1, <1>3, <1>4 DEF DataInv, Sent, Assembled, InOrder

(* A frame in sequence has new data, and is not FIN. *)
LEMMA InSequenceKeepsData ==
  ASSUME TypeOK, DataInv, NEW f \in frames, InSequence(f)
  PROVE  DataInv'
<1>1. /\ f \in Frame /\ f.off \in Nat /\ f.len \in Nat
      /\ readOffset \in Nat /\ reassemblyOffset \in Nat /\ writeOffset \in Nat
  BY DEF TypeOK, Frame, Offsets
<1>2. /\ f.off = reassemblyOffset /\ End(f) > reassemblyOffset /\ End(f) = f.off + f.len
      /\ ~finRead /\ ~reset
  BY <1>1 DEF InSequence, AlreadyAssembled, End
<1>3. /\ got' = got \cup {f}
      /\ readBuf' = readBuf \o Units(reassemblyOffset, f.len)
      /\ reassemblyOffset' = reassemblyOffset + f.len
      /\ UNCHANGED <<writeOffset, finSent, frames, readOffset, pending, pendingFn, reset, delivered>>
  BY <1>2 DEF InSequence, Receive, sender, network, reader, flags
<1>4. ~f.fin /\ End(f) <= writeOffset /\ f.len > 0
  BY <1>1, <1>2 DEF DataInv, Sent
<1>5. ~finRead'
  BY <1>4 DEF InSequence
<1>6. readOffset <= reassemblyOffset /\ readOffset <= reassemblyOffset'
  BY <1>1, <1>3 DEF DataInv
<1>7. Sent'
  BY <1>3 DEF DataInv, Sent
<1>8. Assembled'
  <2>1. reassemblyOffset' <= writeOffset /\ reassemblyOffset # writeOffset
    <3>1. f.off = reassemblyOffset /\ writeOffset' = writeOffset
      BY <1>2, <1>3 DEF InSequence
    <3>2. f.off + f.len <= writeOffset
      BY <1>4 DEF End
    <3> QED BY <1>1, <1>3, <1>4, <3>1, <3>2
  <2> QED BY <1>2, <1>3, <1>5, <2>1 DEF DataInv, Assembled
<1>9. InOrder'
  <2> DEFINE k == reassemblyOffset - readOffset
  <2>1. k \in Nat /\ readOffset + k = reassemblyOffset /\ reassemblyOffset' - readOffset = k + f.len
    BY <1>1, <1>3, <1>6
  <2>2. readBuf = Units(readOffset, k)
    BY <1>2 DEF DataInv, InOrder
  <2> HIDE DEF k
  <2>3. Units(readOffset, k) \o Units(readOffset + k, f.len) = Units(readOffset, k + f.len)
    <3>1. readOffset \in Nat /\ k \in Nat /\ f.len \in Nat
      BY <1>1, <2>1
    <3> QED BY <3>1, UnitsConcat, Zenon
  <2>4. readBuf' = Units(readOffset, k + f.len)
    BY <1>3, <2>1, <2>2, <2>3
  <2> QED BY <1>3, <2>1, <2>4 DEF DataInv, InOrder
<1>10. NothingDropped'
  <2>1. \A g \in got : End(g) <= reassemblyOffset => End(g) <= reassemblyOffset'
    <3>1. \A g \in got : g.off \in Nat /\ g.len \in Nat
      BY DEF TypeOK, Frame, Offsets
    <3> QED BY <1>1, <1>3, <3>1 DEF End
  <2>2. End(f) <= reassemblyOffset'
    BY <1>1, <1>2, <1>3
  <2> QED BY <1>2, <1>3, <2>1, <2>2 DEF DataInv, NothingDropped
<1> QED BY <1>3, <1>6, <1>7, <1>8, <1>9, <1>10 DEF DataInv

(* A frame that waits takes the place of none but itself. *)
LEMMA OutOfOrderKeepsData ==
  ASSUME TypeOK, DataInv, NEW f \in frames, OutOfOrder(f)
  PROVE  DataInv'
<1>1. /\ f \in Frame /\ f.off \in Nat /\ f.len \in Nat /\ f.fin \in BOOLEAN
      /\ reassemblyOffset \in Nat /\ writeOffset \in Nat
  BY DEF TypeOK, Frame, Offsets
<1>2. /\ got' = got \cup {f} /\ ~reset /\ ~finRead
      /\ pending' = [o \in DOMAIN pending \cup {f.off} |->
                        IF o = f.off THEN Units(f.off, f.len) ELSE pending[o]]
      /\ pendingFn' = (pendingFn \/ f.fin)
      /\ UNCHANGED <<writeOffset, finSent, frames, mu, readBuf, readOffset, reassemblyOffset, finRead,
                     reset, delivered>>
  BY DEF OutOfOrder, Receive, sender, reader, flags
<1>3. Len(Units(f.off, f.len)) = f.len
  BY <1>1, UnitsSeq
<1>4. f.off + f.len <= writeOffset /\ (f.fin => finSent /\ f.off = writeOffset)
  BY DEF DataInv, Sent, End
<1>5. Sent'
  BY <1>2 DEF DataInv, Sent
<1>6. Assembled'
  <2>1. \A o \in DOMAIN pending' : /\ pending'[o] = Units(o, Len(pending'[o]))
                                   /\ o + Len(pending'[o]) <= writeOffset
    BY <1>2, <1>3, <1>4 DEF DataInv, Assembled
  <2>2. pendingFn' => finSent /\ (writeOffset \in DOMAIN pending' \/ reassemblyOffset = writeOffset)
    BY <1>2, <1>4 DEF DataInv, Assembled
  <2> QED BY <1>2, <2>1, <2>2 DEF DataInv, Assembled
<1>7. NothingDropped'
  <2> SUFFICES ASSUME NEW g \in got', ~(End(g) <= reassemblyOffset)
               PROVE  g.off \in DOMAIN pending' /\ pending'[g.off] = Units(g.off, g.len)
    BY <1>2 DEF NothingDropped
  <2>1. g = f \/ (g \in got /\ g \in frames)
    BY <1>2 DEF TypeOK
  <2>2. CASE g.off = f.off
    <3>1. g = f
      BY <2>1, <2>2 DEF DataInv, Sent
    <3> QED BY <1>2, <3>1
  <2>3. CASE g.off # f.off
    <3>1. g.off \in DOMAIN pending /\ pending[g.off] = Units(g.off, g.len)
      BY <1>2, <2>1, <2>3 DEF DataInv, NothingDropped
    <3> QED BY <1>2, <2>3, <3>1
  <2> QED BY <2>2, <2>3
<1> QED BY <1>2, <1>5, <1>6, <1>7 DEF DataInv, InOrder

LEMMA FlushChunkKeepsData ==
  ASSUME TypeOK, DataInv, FlushChunk
  PROVE  DataInv'
<1> DEFINE n == Len(pending[reassemblyOffset])
<1>1. /\ readOffset \in Nat /\ reassemblyOffset \in Nat /\ writeOffset \in Nat /\ n \in Nat
      /\ reassemblyOffset \in DOMAIN pending
  BY LenProperties DEF TypeOK, Offsets, FlushChunk
<1>2. pending[reassemblyOffset] = Units(reassemblyOffset, n) /\ reassemblyOffset + n <= writeOffset
  BY <1>1 DEF DataInv, Assembled
<1>3. /\ readBuf' = readBuf \o Units(reassemblyOffset, n)
      /\ reassemblyOffset' = reassemblyOffset + n
      /\ pending' = [o \in DOMAIN pending \ {reassemblyOffset} |-> pending[o]]
      /\ UNCHANGED <<writeOffset, finSent, frames, got, mu, readOffset, pendingFn, finRead, reset,
                     delivered>>
      /\ ~reset
  BY <1>2 DEF FlushChunk, sender, network, reader, flags, DataInv, Assembled
<1> HIDE DEF n
<1>4. readOffset <= reassemblyOffset /\ readOffset <= reassemblyOffset'
  BY <1>1, <1>3 DEF DataInv
<1>5. Sent'
  BY <1>3 DEF DataInv, Sent
<1>6. Assembled'
  <2>1. \A o \in DOMAIN pending' : o \in DOMAIN pending /\ pending'[o] = pending[o]
    BY <1>3
  <2>2. reassemblyOffset' <= writeOffset /\ (reassemblyOffset = writeOffset => reassemblyOffset' = writeOffset)
    BY <1>1, <1>2, <1>3
  <2>3. writeOffset \in DOMAIN pending => writeOffset \in DOMAIN pending' \/ reassemblyOffset = writeOffset
    BY <1>3
  <2>4. \A o \in DOMAIN pending' : /\ pending'[o] = Units(o, Len(pending'[o]))
                                   /\ o + Len(pending'[o]) <= writeOffset
    BY <2>1 DEF DataInv, Assembled
  <2>5. /\ pendingFn => finSent /\ (writeOffset \in DOMAIN pending' \/ reassemblyOffset' = writeOffset)
        /\ finRead => finSent /\ reassemblyOffset' = writeOffset
    BY <2>2, <2>3 DEF DataInv, Assembled
  <2> QED BY <1>3, <2>2, <2>4, <2>5 DEF Assembled
<1>7. InOrder'
  <2> DEFINE k == reassemblyOffset - readOffset
  <2>1. k \in Nat /\ readOffset + k = reassemblyOffset /\ reassemblyOffset' - readOffset = k + n
    BY <1>1, <1>3, <1>4
  <2>2. readBuf = Units(readOffset, k)
    BY <1>3 DEF DataInv, InOrder
  <2> HIDE DEF k
  <2>3. Units(readOffset, k) \o Units(readOffset + k, n) = Units(readOffset, k + n)
    <3>1. readOffset \in Nat /\ k \in Nat /\ n \in Nat
      BY <1>1, <2>1
    <3> QED BY <3>1, UnitsConcat, Zenon
  <2>4. readBuf' = Units(readOffset, k + n)
    BY <1>3, <2>1, <2>2, <2>3
  <2> QED BY <1>3, <2>1, <2>4 DEF DataInv, InOrder
<1>8. NothingDropped'
  <2> SUFFICES ASSUME NEW g \in got, ~(End(g) <= reassemblyOffset')
               PROVE  g.off \in DOMAIN pending' /\ pending'[g.off] = Units(g.off, g.len)
    BY <1>3 DEF NothingDropped
  <2>1. g.off \in Nat /\ g.len \in Nat
    BY DEF TypeOK, Frame, Offsets
  <2>2. ~(End(g) <= reassemblyOffset)
    BY <1>1, <1>3, <2>1 DEF End
  <2>3. g.off \in DOMAIN pending /\ pending[g.off] = Units(g.off, g.len)
    BY <1>3, <2>2 DEF DataInv, NothingDropped
  <2>4. g.off # reassemblyOffset
    <3>1. ASSUME g.off = reassemblyOffset PROVE FALSE
      <4>1. pending[reassemblyOffset] = Units(g.off, g.len)
        BY <2>3, <3>1
      <4>2. Len(Units(g.off, g.len)) = g.len
        BY <2>1, UnitsSeq
      <4>3. n = g.len
        BY <4>1, <4>2 DEF n
      <4> QED BY <1>1, <1>3, <2>1, <3>1, <4>3 DEF End
    <3> QED BY <3>1
  <2> QED BY <1>3, <2>3, <2>4
<1> QED BY <1>3, <1>4, <1>5, <1>6, <1>7, <1>8 DEF DataInv

LEMMA FlushEndKeepsData ==
  ASSUME TypeOK, DataInv, FlushEnd
  PROVE  DataInv'
<1>1. /\ finRead' = (finRead \/ FinNow) /\ pendingFn' = (pendingFn /\ ~FinNow) /\ mu' = "free"
      /\ UNCHANGED <<writeOffset, finSent, frames, got, readBuf, readOffset, reassemblyOffset, pending,
                     reset, delivered>>
  BY DEF FlushEnd, sender, reader, flags
<1>2. FinNow => finSent /\ reassemblyOffset = writeOffset
  BY DEF FinNow, DataInv, Assembled
<1>3. Assembled'
  BY <1>1, <1>2 DEF DataInv, Assembled
<1> QED BY <1>1, <1>3 DEF DataInv, Sent, InOrder, NothingDropped

LEMMA ReadDataKeepsData ==
  ASSUME TypeOK, DataInv, NEW n \in 1 .. Len(readBuf), ReadData(n)
  PROVE  /\ DataInv'
         /\ delivered' = delivered \o Units(readOffset, n)
         /\ Len(delivered) = readOffset /\ n \in Nat /\ readOffset + n <= reassemblyOffset
<1> DEFINE k == reassemblyOffset - readOffset
<1>1. /\ readOffset \in Nat /\ reassemblyOffset \in Nat
      /\ k \in Nat /\ readOffset + k = reassemblyOffset
  BY DEF TypeOK, DataInv
<1>2. /\ delivered' = delivered \o SubSeq(readBuf, 1, n)
      /\ readBuf' = SubSeq(readBuf, n + 1, Len(readBuf))
      /\ readOffset' = readOffset + n
      /\ ~reset
      /\ UNCHANGED <<writeOffset, finSent, frames, got, mu, reassemblyOffset, pending, pendingFn,
                     finRead, reset>>
  BY DEF ReadData, sender, network, flags
<1>3. readBuf = Units(readOffset, k) /\ delivered = Units(0, readOffset)
  BY <1>2 DEF DataInv, InOrder
<1> HIDE DEF k
<1>4. Len(readBuf) = k /\ Len(delivered) = readOffset
  BY <1>1, <1>3, UnitsSeq
<1>5. n \in 1 .. k /\ n \in Nat /\ n <= k
  BY <1>1, <1>4
<1>6. /\ SubSeq(readBuf, 1, n) = Units(readOffset, n)
      /\ SubSeq(readBuf, n + 1, Len(readBuf)) = Units(readOffset + n, k - n)
  <2>1. /\ SubSeq(Units(readOffset, k), 1, n) = Units(readOffset, n)
        /\ SubSeq(Units(readOffset, k), n + 1, k) = Units(readOffset + n, k - n)
    BY <1>1, <1>5, UnitsSplit
  <2> QED BY <1>3, <1>4, <2>1
<1>7. reassemblyOffset - (readOffset + n) = k - n /\ readOffset + n <= reassemblyOffset
  BY <1>1, <1>5
<1>8. delivered' = Units(0, readOffset + n)
  <2>1. 0 + readOffset = readOffset
    BY <1>1
  <2>2. Units(0, readOffset) \o Units(0 + readOffset, n) = Units(0, readOffset + n)
    BY <1>1, <1>5, UnitsConcat
  <2> QED BY <1>2, <1>3, <1>6, <2>1, <2>2
<1>9. InOrder'
  BY <1>2, <1>6, <1>7, <1>8 DEF InOrder
<1>10. Sent' /\ Assembled' /\ NothingDropped'
  BY <1>2 DEF DataInv, Sent, Assembled, NothingDropped
<1> QED BY <1>2, <1>4, <1>5, <1>6, <1>7, <1>9, <1>10 DEF DataInv

(* CancelRead and RESET_STREAM come between two calls of handleStreamData. *)
LEMMA ResetKeepsData ==
  ASSUME TypeOK, DataInv, CancelRead \/ ResetStream
  PROVE  DataInv'
<1>1. /\ mu' = "free" /\ reset' = TRUE
      /\ UNCHANGED <<writeOffset, finSent, frames, got, readOffset, reassemblyOffset, pending,
                     pendingFn, finRead, delivered>>
  BY DEF CancelRead, ResetStream, sender, network, assembly, reader
<1> QED BY <1>1 DEF DataInv, Sent, Assembled, InOrder, NothingDropped

LEMMA DataKept ==
  ASSUME TypeOK, DataInv, Quiet, [Next]_vars
  PROVE  DataInv'
<1>1. CASE WriterMoves
  <2>1. UNCHANGED <<writeOffset, finSent, network, receiver>>
    BY <1>1 DEF WriterMoves, StartWrite, ChunkRefused, WriteDeadline, CheckWindow,
                CancelWrite, SetWriteDeadline
  <2> QED BY <2>1, DataUnchanged DEF network, receiver, reader, flags
<1>2. ASSUME NEW v \in grants, ReceiveGrant(v) \/ LoseGrant(v) PROVE DataInv'
  BY <1>2, DataUnchanged DEF ReceiveGrant, LoseGrant, sender, receiver, reader, flags
<1>3. ASSUME NEW f \in frames, HandleStreamData(f) PROVE DataInv'
  BY <1>3, IgnoredKeepsData, InSequenceKeepsData, OutOfOrderKeepsData DEF HandleStreamData
<1>4. CASE ReaderMoves
  <2>1. CASE CancelRead \/ ResetStream
    BY <2>1, ResetKeepsData
  <2>2. CASE ReadEOF \/ ReadTimer \/ SetReadDeadline \/ ConnClose
    BY <2>2, DataUnchanged DEF ReadEOF, ReadTimer, SetReadDeadline, ConnClose, sender, network,
                               reader, flags
  <2> QED BY <1>4, <2>1, <2>2 DEF ReaderMoves
<1>5. CASE ReadBlocked
  BY <1>5, DataUnchanged DEF ReadBlocked, sender, reader, flags
<1>6. CASE UNCHANGED vars
  BY <1>6, DataUnchanged DEF vars, sender, network, receiver, reader, flags
<1> QED BY <1>1, <1>2, <1>3, <1>4, <1>5, <1>6, NextSplit, SendKeepsData, CloseKeepsData,
           FlushChunkKeepsData, FlushEndKeepsData, ReadDataKeepsData

LEMMA DataAlways ==
  ASSUME ~WriteAfterClose
  PROVE  Spec => [](TypeOK /\ Quiet /\ DataInv)
<1>1. TypeOK /\ Quiet /\ DataInv /\ [Next]_vars => (Quiet /\ DataInv)'
  BY QuietKept, DataKept
<1>2. Init => Quiet /\ DataInv
  BY DataInit
<1> QED BY <1>1, <1>2, TypesHold, PTL DEF Spec

(* Data that has been acknowledged is assembled or waits as it came, if    *)
(* nobody writes after Close (stream.go, handleStreamData).                *)
THEOREM DropsNothing ==
  ASSUME ~WriteAfterClose
  PROVE  Spec => []NothingDropped
<1>1. DataInv => NothingDropped
  BY DEF DataInv
<1> QED BY <1>1, DataAlways, PTL

(* What Read has returned is the beginning of the stream, and readBuf what *)
(* follows it (stream.go, Read, handleStreamData and tryFlushPending).     *)
THEOREM ReadsInOrder ==
  ASSUME ~WriteAfterClose
  PROVE  Spec => []InOrder
<1>1. DataInv => InOrder
  BY DEF DataInv
<1> QED BY <1>1, DataAlways, PTL

-----------------------------------------------------------------------------
(* A window only grows, and what is granted is what the receiver has set.  *)
LEMMA WindowKept ==
  ASSUME TypeOK, WindowInv, \A v, w \in Writers : v = w, [Next]_vars
  PROVE  WindowInv'
<1> DEFINE Checked == \A w \in Writers : writerPC[w] = "checked" => writeOffset + chunk[w] <= maxData
<1>1. /\ writeOffset \in Nat /\ maxData \in Nat /\ readMaxData \in Nat /\ grants \subseteq Nat
      /\ reassemblyOffset \in Nat /\ Window \in Nat
      /\ \A w \in Writers : chunk[w] \in Nat
  BY ConstantsAssumption DEF TypeOK, Offsets
<1>2. CASE WriterMoves
  <2>1. UNCHANGED <<writeOffset, maxData, grants, readMaxData>>
    BY <1>2 DEF WriterMoves, StartWrite, ChunkRefused, WriteDeadline, CheckWindow,
                CancelWrite, SetWriteDeadline, network, receiver
  <2>2. Checked'
    <3>1. ASSUME NEW v \in Writers, StartWrite(v) \/ ChunkRefused(v) \/ WriteDeadline(v)
          PROVE  Checked'
      <4>1. \A w \in Writers : writerPC'[w] # "checked"
        BY <3>1 DEF StartWrite, ChunkRefused, WriteDeadline, Goto, TypeOK
      <4> QED BY <4>1
    <3>2. ASSUME NEW v \in Writers, NEW n \in 1 .. MaxChunk, CheckWindow(v, n)
          PROVE  Checked'
      <4>1. CASE Admitted(n) /\ Goto(v, "checked", n)
        <5>1. \A w \in Writers : chunk'[w] = n
          BY <4>1 DEF Goto, TypeOK
        <5> QED BY <2>1, <4>1, <5>1 DEF Admitted
      <4>2. CASE Goto(v, "waiting", n) \/ Goto(v, "out", 0)
        <5>1. \A w \in Writers : writerPC'[w] # "checked"
          BY <4>2 DEF Goto, TypeOK
        <5> QED BY <5>1
      <4> QED BY <3>2, <4>1, <4>2 DEF CheckWindow
    <3>3. CASE CancelWrite \/ SetWriteDeadline
      <4>1. /\ \A w \in Writers : writerPC'[w] = "checked" => writerPC[w] = "checked"
            /\ chunk' = chunk
        BY <3>3 DEF CancelWrite, SetWriteDeadline, WakeWriters
      <4> QED BY <2>1, <4>1 DEF WindowInv
    <3> QED BY <1>2, <3>1, <3>2, <3>3 DEF WriterMoves
  <2> QED BY <2>1, <2>2 DEF WindowInv
<1>3. ASSUME NEW v \in Writers, NEW n \in 1 .. MaxChunk, SendChunk(v, n) PROVE WindowInv'
  <2>1. /\ writeOffset' = writeOffset + n /\ n \in Nat /\ n <= chunk[v]
        /\ UNCHANGED <<maxData, grants, readMaxData>>
    BY <1>1, <1>3 DEF SendChunk, receiver
  <2>2. writeOffset' <= maxData
    BY <1>1, <1>3, <2>1 DEF SendChunk, WindowInv
  <2>3. \A w \in Writers : writerPC'[w] # "checked"
    BY <1>3 DEF SendChunk, Goto, TypeOK
  <2> QED BY <2>1, <2>2, <2>3 DEF WindowInv
<1>4. ASSUME NEW sent \in BOOLEAN, CloseWrite(sent) PROVE WindowInv'
  BY <1>4 DEF CloseWrite, WindowInv, writer, receiver
<1>5. ASSUME NEW v \in grants, ReceiveGrant(v) \/ LoseGrant(v) PROVE WindowInv'
  <2>1. /\ grants' \subseteq grants /\ UNCHANGED <<writeOffset, readMaxData, chunk>>
        /\ \A w \in Writers : writerPC'[w] = "checked" => writerPC[w] = "checked"
    BY <1>5 DEF ReceiveGrant, LoseGrant, UpdateMaxData, WakeWriters, sender, writer, receiver
  <2>2. maxData' = maxData \/ (maxData' = v /\ v > maxData)
    BY <1>5 DEF ReceiveGrant, LoseGrant, UpdateMaxData, sender
  <2>3. maxData' <= readMaxData /\ maxData <= maxData' /\ maxData' \in Nat
    BY <1>1, <2>2 DEF WindowInv
  <2>4. \A w \in Writers : writerPC'[w] = "checked" => writeOffset + chunk[w] <= maxData'
    BY <1>1, <2>1, <2>3 DEF WindowInv
  <2>5. writeOffset <= maxData'
    BY <1>1, <2>3 DEF WindowInv
  <2> QED BY <2>1, <2>3, <2>4, <2>5 DEF WindowInv
<1>6. ASSUME UNCHANGED sender, readMaxData' \in Nat, readMaxData' >= readMaxData,
             grants' \subseteq grants \cup {readMaxData'}
      PROVE  WindowInv'
  <2>1. \A v \in grants' : v <= readMaxData'
    BY <1>1, <1>6 DEF WindowInv
  <2>2. maxData <= readMaxData'
    BY <1>1, <1>6 DEF WindowInv
  <2> QED BY <1>6, <2>1, <2>2 DEF WindowInv, sender, writer
<1>7. ASSUME NEW f \in frames, HandleStreamData(f) PROVE WindowInv'
  <2>1. CASE OutOfOrder(f)
    <3>1. UNCHANGED sender /\ SlideWindow
      BY <2>1 DEF OutOfOrder
    <3> QED BY <1>1, <1>6, <3>1, SlideWindowType DEF TypeOK
  <2>2. CASE Ignored(f) \/ DuplicateFin(f) \/ InSequence(f)
    <3>1. UNCHANGED <<sender, grants, readMaxData>>
      BY <2>2 DEF Ignored, DuplicateFin, InSequence, network
    <3> QED BY <1>1, <1>6, <3>1
  <2> QED BY <1>7, <2>1, <2>2 DEF HandleStreamData
<1>8. CASE FlushEnd
  <2>1. UNCHANGED sender /\ (SlideWindow \/ UNCHANGED <<readMaxData, grants>>)
    BY <1>8 DEF FlushEnd
  <2>2. CASE SlideWindow
    BY <1>1, <1>6, <2>1, <2>2, SlideWindowType DEF TypeOK
  <2>3. CASE UNCHANGED <<readMaxData, grants>>
    BY <1>1, <1>6, <2>1, <2>3
  <2> QED BY <2>1, <2>2, <2>3
<1>9. CASE ReadBlocked
  <2>1. /\ UNCHANGED sender
        /\ \/ readMaxData' = readMaxData + Window /\ grants' = grants \cup {readMaxData'}
           \/ UNCHANGED <<readMaxData, grants>>
    BY <1>9 DEF ReadBlocked
  <2>2. readMaxData' \in Nat /\ readMaxData' >= readMaxData /\ grants' \subseteq grants \cup {readMaxData'}
    BY <1>1, <2>1
  <2> QED BY <1>6, <2>1, <2>2
<1>10. CASE FlushChunk \/ ReaderMoves \/ \E n \in 1 .. Len(readBuf) : ReadData(n)
  <2>1. UNCHANGED <<sender, grants, readMaxData>>
    BY <1>10 DEF FlushChunk, ReaderMoves, ReadEOF, ReadTimer, SetReadDeadline, CancelRead,
                 ResetStream, ConnClose, ReadData, network
  <2> QED BY <1>1, <1>6, <2>1
<1>11. CASE UNCHANGED vars
  <2>1. UNCHANGED <<sender, grants, readMaxData>>
    BY <1>11 DEF vars, network, receiver
  <2> QED BY <1>1, <1>6, <2>1
<1> QED BY <1>2, <1>3, <1>4, <1>5, <1>7, <1>8, <1>9, <1>10, <1>11, NextSplit

(* With one writer at a time, a sender never has more out than the         *)
(* receiver has granted (stream.go, Write and updateMaxData).              *)
THEOREM RespectsWindow ==
  ASSUME \A v, w \in Writers : v = w
  PROVE  Spec => []WindowRespected
<1>1. Init => WindowInv
  BY ConstantsAssumption DEF Init, WindowInv
<1>2. TypeOK /\ WindowInv /\ [Next]_vars => WindowInv'
  BY WindowKept
<1>3. TypeOK /\ WindowInv => WindowRespected
  <2>1. TypeOK => writeOffset \in Nat /\ maxData \in Nat /\ readMaxData \in Nat
    BY DEF TypeOK, Offsets
  <2> QED BY <2>1 DEF WindowInv, WindowRespected
<1> QED BY <1>1, <1>2, <1>3, TypesHold, PTL DEF Spec

-----------------------------------------------------------------------------
LEMMA AbstractInit == Init => Abstract!Init
BY DEF Init, Abstract!Init

(* Every step of the stream is a step of the abstract one, or none. *)
LEMMA AbstractStep ==
  ASSUME TypeOK, Quiet, DataInv, [Next]_vars
  PROVE  [Abstract!Next]_Abstract!vars
<1>1. ASSUME UNCHANGED <<writeOffset, finSent, delivered, eof, flags>>
      PROVE  UNCHANGED Abstract!vars
  BY <1>1 DEF flags, Abstract!vars
<1>2. CASE WriterMoves
  <2>1. UNCHANGED <<writeOffset, finSent, receiver>>
    BY <1>2 DEF WriterMoves, StartWrite, ChunkRefused, WriteDeadline, CheckWindow,
                CancelWrite, SetWriteDeadline
  <2> QED BY <1>1, <2>1 DEF receiver, reader
<1>3. ASSUME NEW w \in Writers, NEW n \in 1 .. MaxChunk, SendChunk(w, n)
      PROVE  Abstract!Write
  <2>1. ~finSent
    BY <1>3 DEF SendChunk, Quiet
  <2>2. writeOffset \in Nat /\ n \in Nat \ {0} /\ MaxOffset \in Nat
    BY ConstantsAssumption DEF TypeOK, Offsets
  <2>3. writeOffset' = writeOffset + n /\ n \in 1 .. MaxOffset - writeOffset
    BY <1>3, <2>2 DEF SendChunk
  <2>4. UNCHANGED <<finSent, delivered, eof, reset \/ closed>>
    BY <1>3 DEF SendChunk, receiver, reader, flags
  <2> QED BY <2>1, <2>3, <2>4 DEF Abstract!Write
<1>4. ASSUME NEW sent \in BOOLEAN, CloseWrite(sent)
      PROVE  Abstract!Close
  BY <1>4 DEF CloseWrite, Abstract!Close, receiver, reader, flags
<1>5. ASSUME NEW v \in grants, ReceiveGrant(v) \/ LoseGrant(v)
      PROVE  UNCHANGED Abstract!vars
  BY <1>1, <1>5 DEF ReceiveGrant, LoseGrant, sender, receiver, reader
<1>6. CASE \/ \E f \in frames : HandleStreamData(f)
           \/ FlushChunk \/ FlushEnd \/ ReadBlocked \/ ReadTimer \/ SetReadDeadline
  <2>1. UNCHANGED <<sender, reader, flags>>
    BY <1>6 DEF HandleStreamData, Ignored, DuplicateFin, InSequence, OutOfOrder, FlushChunk,
                FlushEnd, ReadBlocked, ReadTimer, SetReadDeadline
  <2> QED BY <1>1, <2>1 DEF sender, reader
<1>7. ASSUME NEW n \in 1 .. Len(readBuf), ReadData(n)
      PROVE  Abstract!Read
  <2>1. /\ delivered' = delivered \o Units(Len(delivered), n)
        /\ n \in Nat \ {0} /\ Len(delivered) \in Nat
        /\ Len(delivered) + n <= reassemblyOffset
    <3>1. /\ delivered' = delivered \o Units(readOffset, n)
          /\ Len(delivered) = readOffset /\ n \in Nat /\ readOffset + n <= reassemblyOffset
      BY <1>7, ReadDataKeepsData
    <3>2. readOffset \in Nat /\ n # 0
      BY DEF TypeOK
    <3> QED BY <3>1, <3>2
  <2>2. reassemblyOffset <= writeOffset /\ writeOffset \in Nat /\ reassemblyOffset \in Nat
    BY DEF DataInv, Assembled, TypeOK, Offsets
  <2>3. n \in 1 .. writeOffset - Len(delivered)
    BY <2>1, <2>2
  <2>4. UNCHANGED <<writeOffset, finSent, eof, reset \/ closed>>
    BY <1>7 DEF ReadData, sender, flags
  <2>5. Units(Len(delivered), n) = Abstract!Units(Len(delivered), n)
    BY DEF Units, Abstract!Units
  <2> QED BY <2>1, <2>3, <2>4, <2>5 DEF Abstract!Read
<1>8. CASE ReadEOF
  <2>1. /\ eof' = TRUE /\ AtEOF
        /\ UNCHANGED <<writeOffset, finSent, delivered, reset \/ closed>>
    BY <1>8 DEF ReadEOF, sender, flags
  <2>2. (reset \/ closed) \/ (finSent /\ Len(delivered) = writeOffset)
    <3> SUFFICES ASSUME ~reset, ~closed PROVE finSent /\ Len(delivered) = writeOffset
      OBVIOUS
    <3>1. finRead /\ readBuf = <<>>
      BY <2>1 DEF AtEOF
    <3>2. finSent /\ reassemblyOffset = writeOffset
      BY <3>1 DEF DataInv, Assembled
    <3>3. /\ readOffset \in Nat /\ reassemblyOffset \in Nat
          /\ reassemblyOffset - readOffset \in Nat
      BY DEF DataInv, TypeOK
    <3>4. readBuf = Units(readOffset, reassemblyOffset - readOffset) /\ delivered = Units(0, readOffset)
      BY DEF DataInv, InOrder
    <3>5. Len(Units(readOffset, reassemblyOffset - readOffset)) = reassemblyOffset - readOffset
          /\ Len(Units(0, readOffset)) = readOffset
      BY <3>3, UnitsSeq
    <3>6. Len(readBuf) = 0
      BY <3>1, EmptySeq
    <3>7. reassemblyOffset - readOffset = 0 /\ Len(delivered) = readOffset
      BY <3>4, <3>5, <3>6
    <3> QED BY <3>2, <3>3, <3>7
  <2> QED BY <2>1, <2>2 DEF Abstract!ReadEOF, Abstract!Next
<1>9. CASE CancelRead \/ ResetStream \/ ConnClose
  <2>1. (reset' \/ closed') = TRUE /\ UNCHANGED <<writeOffset, finSent, delivered, eof>>
    BY <1>9 DEF CancelRead, ResetStream, ConnClose, sender, reader
  <2> QED BY <2>1 DEF Abstract!Abort, Abstract!Next
<1>10. CASE UNCHANGED vars
  BY <1>1, <1>10 DEF vars, sender, receiver, reader
<1> QED BY <1>2, <1>3, <1>4, <1>5, <1>6, <1>7, <1>8, <1>9, <1>10, NextSplit
        DEF Abstract!Next, ReaderMoves

(* A stream implements the abstract byte stream as long as nobody writes   *)
(* after Close: the reader gets what was written, in order and once, and   *)
(* the end only after all of it (stream.go).                               *)
THEOREM Refines ==
  ASSUME ~WriteAfterClose
  PROVE  Spec => ByteStreamSpec
<1>1. TypeOK /\ Quiet /\ DataInv /\ [Next]_vars => [Abstract!Next]_Abstract!vars
  BY AbstractStep
<1> QED BY <1>1, AbstractInit, DataAlways, PTL DEF Spec, ByteStreamSpec, Abstract!Spec
=============================================================================
