------------------------------- MODULE Stream -------------------------------
(***************************************************************************)
(* One direction of a stream (quic/stream.go): Write, CancelWrite and      *)
(* Close at the sending endpoint, handleStreamData with its out-of-order   *)
(* reassembly, Read and its window updates at the receiving one, the       *)
(* frames between them, and the waits on readCond and writeCond with what  *)
(* ends them: broadcasts, timers and deadlines.  The connection of the     *)
(* sending endpoint stays open.                                            *)
(*                                                                         *)
(* A STREAM frame, once sent, can be delivered at any time, in any order   *)
(* and any number of times: it is tracked until acknowledged               *)
(* (LossRecovery.tla) and retransmitted as it is.  MAX_STREAM_DATA frames  *)
(* travel in untracked packets and may be lost.                            *)
(*                                                                         *)
(* The unit of data at offset i is the number i, so that order, loss and   *)
(* duplication show in the data.  handleStreamData and the loop of         *)
(* tryFlushPending hold the stream's mutex; the loop is modelled one       *)
(* iteration a step, with nothing else enabled at that endpoint.           *)
(*                                                                         *)
(* An operator X_Fault is X with a bug put in: nothing uses it but the     *)
(* tests of the properties (PROJECT.json, "mutants").                      *)
(***************************************************************************)
EXTENDS Integers, Sequences, FiniteSets

CONSTANTS
    Writers,         \* goroutines that call Write on this stream
    MaxOffset,       \* bound: units of data written
    MaxChunk,        \* the largest chunk of Write (MinInitialPacketSize)
    Window,          \* the receive window (1048576 in the code)
    MaxGrant,        \* bound: largest window Read's updates grow to
    MaxLosses,       \* bound: MAX_STREAM_DATA frames lost
    WriteAfterClose, \* whether Write may be called, or be under way, after Close
    ConnMayClose,    \* whether the receiving connection may be closed
    MayCancel,       \* whether either end may cancel, or its peer reset the stream
    Deadlines        \* whether deadlines may be set

ASSUME ConstantsAssumption ==
    /\ MaxOffset \in Nat
    /\ MaxChunk \in Nat \ {0}
    /\ Window \in Nat \ {0}
    /\ MaxGrant \in Nat
    /\ MaxLosses \in Nat
    /\ WriteAfterClose \in BOOLEAN
    /\ ConnMayClose \in BOOLEAN
    /\ MayCancel \in BOOLEAN
    /\ Deadlines \in BOOLEAN

VARIABLES
    \* the sending endpoint
    writeOffset, maxData, finSent, writeErr,
    writerPC,        \* "out" of Write, "in" it, "waiting" on writeCond, or its chunk is "checked"
    chunk,           \* the chunk a writer has cut, or 0
    \* the network
    frames,          \* STREAM frames sent
    grants,          \* MAX_STREAM_DATA values on their way back
    losses,
    \* the receiving endpoint
    mu,              \* "free", or why tryFlushPending is running
    readBuf, readOffset, reassemblyOffset,
    pending,         \* offset -> chunk of data
    pendingFn, finRead, reset, closed, readMaxData,
    \* the reader's view
    readerPC,        \* "running", "waiting" on readCond, or "asleep": its timer has gone off before
    delivered,       \* what Read has returned
    eof,             \* Read has returned io.EOF
    got              \* frames handed to handleStreamData

writer   == <<writerPC, chunk>>
sender   == <<writeOffset, maxData, finSent, writeErr, writer>>
network  == <<frames, grants, losses>>
assembly == <<readBuf, reassemblyOffset, pending, pendingFn, finRead>>
reader   == <<readOffset, delivered, eof>>
flags    == <<reset, closed>>
receiver == <<mu, assembly, reader, readerPC, flags, readMaxData, got>>
vars     == <<sender, network, receiver>>

Offsets == 0 .. MaxOffset
Frame == [off : Offsets, len : 0 .. MaxChunk, fin : BOOLEAN]
End(f) == f.off + f.len

(* The n units of data from offset a on. *)
Units(a, n) == [i \in 1 .. n |-> a + i - 1]

Half == Window \div 2
NoPending == [o \in {} |-> <<>>]

Init ==
    /\ writeOffset = 0 /\ maxData = Window /\ finSent = FALSE /\ writeErr = FALSE
    /\ writerPC = [w \in Writers |-> "out"] /\ chunk = [w \in Writers |-> 0]
    /\ frames = {} /\ grants = {} /\ losses = 0
    /\ mu = "free"
    /\ readBuf = <<>> /\ readOffset = 0 /\ reassemblyOffset = 0
    /\ pending = NoPending
    /\ pendingFn = FALSE /\ finRead = FALSE /\ reset = FALSE /\ closed = FALSE
    /\ readMaxData = Window
    /\ readerPC = "running" /\ delivered = <<>> /\ eof = FALSE /\ got = {}

-----------------------------------------------------------------------------
Goto(w, pc, n) == writerPC' = [writerPC EXCEPT ![w] = pc] /\ chunk' = [chunk EXCEPT ![w] = n]

(* writeCond.Broadcast() *)
WakeWriters ==
    /\ writerPC' = [w \in Writers |-> IF writerPC[w] = "waiting" THEN "in" ELSE writerPC[w]]
    /\ UNCHANGED chunk

StartWrite(w) ==
    /\ writerPC[w] = "out"
    /\ ~writeErr
    /\ finSent => WriteAfterClose
    /\ Goto(w, "in", 0)
    /\ UNCHANGED <<writeOffset, maxData, finSent, writeErr, network, receiver>>

(* Write is about to send a chunk: one of any size, or the one it waits with. *)
Chunk(w) == IF chunk[w] = 0 THEN 1 .. MaxChunk ELSE {chunk[w]}

Admitted_Started(n) == writeOffset < maxData
Admitted(n) == writeOffset + n <= maxData

(* Write, up to the Unlock after the flow-control wait: a chunk fits the   *)
(* window granted so far, or the writer waits, unless it is cancelled.     *)
CheckWindow(w, n) ==
    /\ writerPC[w] = "in"
    /\ n \in Chunk(w)
    /\ \/ Admitted(n) /\ Goto(w, "checked", n)
       \/ ~Admitted(n) /\ ~writeErr /\ Goto(w, "waiting", n)
       \/ ~Admitted(n) /\ writeErr /\ Goto(w, "out", 0)
    /\ UNCHANGED <<writeOffset, maxData, finSent, writeErr, network, receiver>>

(* The deadline of a writer that waits passes. *)
WriteDeadline(w) ==
    /\ Deadlines
    /\ writerPC[w] = "waiting"
    /\ Goto(w, "out", 0)
    /\ UNCHANGED <<writeOffset, maxData, finSent, writeErr, network, receiver>>

(* Write, after taking the mutex again: sendStreamData sends the chunk or, *)
(* cut to the packet size, the first part of it.  It may be the last.      *)
SendChunk(w, n) ==
    /\ writerPC[w] = "checked"
    /\ n \in 1 .. chunk[w]
    /\ writeOffset + n <= MaxOffset
    /\ frames' = frames \cup {[off |-> writeOffset, len |-> n, fin |-> FALSE]}
    /\ writeOffset' = writeOffset + n
    /\ Goto(w, "in", 0) \/ (n = chunk[w] /\ Goto(w, "out", 0))
    /\ UNCHANGED <<maxData, finSent, writeErr, grants, losses, receiver>>

(* sendStreamData refuses (congestion, too many tracked packets).          *)
ChunkRefused(w) ==
    /\ writerPC[w] = "checked"
    /\ Goto(w, "in", chunk[w])
    /\ UNCHANGED <<writeOffset, maxData, finSent, writeErr, network, receiver>>

(* Close: finSent is set whether or not the empty FIN frame could be sent. *)
CloseWrite(sent) ==
    /\ ~finSent
    /\ WriteAfterClose \/ \A w \in Writers : writerPC[w] = "out"
    /\ finSent' = TRUE
    /\ frames' = IF sent
                 THEN frames \cup {[off |-> writeOffset, len |-> 0, fin |-> TRUE]}
                 ELSE frames
    /\ UNCHANGED <<writeOffset, maxData, writeErr, writer, grants, losses, receiver>>

(* CancelWrite; handleStopSendingFrame is nothing else. *)
CancelWrite ==
    /\ MayCancel
    /\ writeErr' = TRUE
    /\ WakeWriters
    /\ UNCHANGED <<writeOffset, maxData, finSent, network, receiver>>

(* updateMaxData: only a larger limit counts. *)
UpdateMaxData(v) ==
    IF v > maxData
    THEN maxData' = v /\ WakeWriters
    ELSE UNCHANGED <<maxData, writer>>

ReceiveGrant(v) ==
    /\ v \in grants
    /\ grants' = grants \ {v}
    /\ UpdateMaxData(v)
    /\ UNCHANGED <<writeOffset, finSent, writeErr, frames, losses, receiver>>

LoseGrant(v) ==
    /\ v \in grants
    /\ losses < MaxLosses
    /\ losses' = losses + 1
    /\ grants' = grants \ {v}
    /\ UNCHANGED <<sender, frames, receiver>>

-----------------------------------------------------------------------------
(* handleStreamData: four cases, by where the frame lies.                  *)
Receive(f) ==
    /\ mu = "free"
    /\ f \in frames
    /\ got' = got \cup {f}

AlreadyAssembled_Offset(f) == f.off <= reassemblyOffset
AlreadyAssembled(f) == End(f) <= reassemblyOffset

Ignored_OutOfOrder(f) ==
    /\ Receive(f)
    /\ f.off > reassemblyOffset
    /\ UNCHANGED <<sender, network, mu, assembly, reader, readerPC, flags, readMaxData>>

Ignored(f) ==
    /\ Receive(f)
    /\ finRead \/ reset \/ (AlreadyAssembled(f) /\ ~f.fin)
    /\ UNCHANGED <<sender, network, mu, assembly, reader, readerPC, flags, readMaxData>>

(* Nothing new, but the frame carries FIN: only tryFlushPending runs.      *)
DuplicateFin(f) ==
    /\ Receive(f)
    /\ ~finRead /\ ~reset
    /\ AlreadyAssembled(f)
    /\ f.fin
    /\ mu' = "duplicate"
    /\ UNCHANGED <<sender, network, assembly, reader, readerPC, flags, readMaxData>>

InSequence(f) ==
    /\ Receive(f)
    /\ ~finRead /\ ~reset
    /\ ~AlreadyAssembled(f)
    /\ f.off = reassemblyOffset
    /\ readBuf' = readBuf \o Units(f.off, f.len)
    /\ reassemblyOffset' = End(f)
    /\ finRead' = f.fin
    /\ mu' = "inSequence"
    /\ UNCHANGED <<sender, network, pending, pendingFn, reader, readerPC, flags, readMaxData>>

SlideWindow_Sign ==
    IF readMaxData - reassemblyOffset < Half
    THEN /\ readMaxData' = reassemblyOffset - Window
         /\ grants' = grants \cup {readMaxData'}
    ELSE UNCHANGED <<readMaxData, grants>>

(* The window check at the end of handleStreamData. *)
SlideWindow ==
    IF readMaxData - reassemblyOffset < Half
    THEN /\ readMaxData' = reassemblyOffset + Window
         /\ grants' = grants \cup {readMaxData'}
    ELSE UNCHANGED <<readMaxData, grants>>

OutOfOrder(f) ==
    /\ Receive(f)
    /\ ~finRead /\ ~reset
    /\ ~AlreadyAssembled(f)
    /\ f.off # reassemblyOffset
    /\ pending' = [o \in DOMAIN pending \cup {f.off} |->
                      IF o = f.off THEN Units(f.off, f.len) ELSE pending[o]]
    /\ pendingFn' = (pendingFn \/ f.fin)
    /\ SlideWindow
    /\ UNCHANGED <<sender, frames, losses, mu, readBuf, reassemblyOffset, finRead,
                   reader, readerPC, flags>>

HandleStreamData(f) == Ignored(f) \/ DuplicateFin(f) \/ InSequence(f) \/ OutOfOrder(f)

(* tryFlushPending: one iteration of its loop, then its end.               *)
FlushChunk ==
    /\ mu # "free"
    /\ reassemblyOffset \in DOMAIN pending
    /\ readBuf' = readBuf \o pending[reassemblyOffset]
    /\ reassemblyOffset' = reassemblyOffset + Len(pending[reassemblyOffset])
    /\ pending' = [o \in DOMAIN pending \ {reassemblyOffset} |-> pending[o]]
    /\ UNCHANGED <<sender, network, mu, pendingFn, finRead, reader, readerPC, flags,
                   readMaxData, got>>

FinNow_Any == pendingFn
FinNow == DOMAIN pending = {} /\ pendingFn

(* The end of a frame in sequence wakes the reader, that of a duplicate    *)
(* does not.                                                               *)
FlushEnd ==
    /\ mu # "free"
    /\ reassemblyOffset \notin DOMAIN pending
    /\ finRead' = (finRead \/ FinNow)
    /\ pendingFn' = (pendingFn /\ ~FinNow)
    /\ IF mu = "inSequence"
       THEN SlideWindow /\ readerPC' = "running"
       ELSE UNCHANGED <<readMaxData, grants, readerPC>>
    /\ mu' = "free"
    /\ UNCHANGED <<sender, frames, losses, readBuf, reassemblyOffset, pending,
                   reader, flags, got>>

-----------------------------------------------------------------------------
(* Read: its checks in their order.  When nothing is there it grants a     *)
(* larger window, starts a timer and waits on readCond; what ends the wait *)
(* makes it begin again, at once or with the next call.                    *)
AtEOF == (finRead /\ readBuf = <<>>) \/ (~reset /\ closed /\ readBuf = <<>>)

ReadEOF ==
    /\ mu = "free" /\ readerPC = "running"
    /\ AtEOF
    /\ eof' = TRUE
    /\ UNCHANGED <<sender, network, mu, assembly, readOffset, delivered, readerPC, flags,
                   readMaxData, got>>

ReadData(n) ==
    /\ mu = "free" /\ readerPC = "running"
    /\ ~AtEOF /\ ~reset
    /\ n \in 1 .. Len(readBuf)
    /\ delivered' = delivered \o SubSeq(readBuf, 1, n)
    /\ readBuf' = SubSeq(readBuf, n + 1, Len(readBuf))
    /\ readOffset' = readOffset + n
    /\ UNCHANGED <<sender, network, mu, reassemblyOffset, pending, pendingFn,
                   finRead, eof, readerPC, flags, readMaxData, got>>

UpdateDue_Once == reassemblyOffset > 0 /\ readMaxData - reassemblyOffset < Half
UpdateDue == reassemblyOffset > 0

(* A timer for a deadline that has passed broadcasts at once, perhaps      *)
(* before the reader waits; nothing then wakes it but data or the end.     *)
ReadBlocked ==
    /\ mu = "free" /\ readerPC = "running"
    /\ ~AtEOF /\ ~reset
    /\ readBuf = <<>>
    /\ IF UpdateDue
       THEN /\ readMaxData + Window <= MaxGrant
            /\ readMaxData' = readMaxData + Window
            /\ grants' = grants \cup {readMaxData'}
       ELSE UNCHANGED <<readMaxData, grants>>
    /\ readerPC' = "waiting" \/ (Deadlines /\ readerPC' = "asleep")
    /\ UNCHANGED <<sender, frames, losses, mu, assembly, reader, flags, got>>

(* The timer, of 100 ms or up to the deadline: it takes no mutex. *)
ReadTimer ==
    /\ readerPC = "waiting"
    /\ readerPC' = "running"
    /\ UNCHANGED <<sender, network, mu, assembly, reader, flags, readMaxData, got>>

SetReadDeadline ==
    /\ Deadlines
    /\ mu = "free"
    /\ readerPC' = "running"
    /\ UNCHANGED <<sender, network, mu, assembly, reader, flags, readMaxData, got>>

SetWriteDeadline ==
    /\ Deadlines
    /\ WakeWriters
    /\ UNCHANGED <<writeOffset, maxData, finSent, writeErr, network, receiver>>

CancelRead ==
    /\ MayCancel
    /\ mu = "free"
    /\ reset' = TRUE
    /\ readBuf' = <<>>
    /\ readerPC' = "running"
    /\ UNCHANGED <<sender, network, mu, reassemblyOffset, pending, pendingFn,
                   finRead, reader, closed, readMaxData, got>>

(* handleResetStreamFrame: the data that has come is left in readBuf. *)
ResetStream ==
    /\ MayCancel
    /\ mu = "free"
    /\ reset' = TRUE
    /\ readerPC' = "running"
    /\ UNCHANGED <<sender, network, mu, assembly, reader, closed, readMaxData, got>>

(* CloseWithError, or a CONNECTION_CLOSE frame, at the receiving endpoint. *)
ConnClose ==
    /\ ConnMayClose
    /\ mu = "free"
    /\ closed' = TRUE
    /\ readerPC' = "running"
    /\ UNCHANGED <<sender, network, mu, assembly, reader, reset, readMaxData, got>>

WriterStep ==
    \/ \E w \in Writers, n \in 1 .. MaxChunk : CheckWindow(w, n) \/ SendChunk(w, n)
    \/ \E w \in Writers : StartWrite(w) \/ ChunkRefused(w) \/ WriteDeadline(w)
    \/ \E sent \in BOOLEAN : CloseWrite(sent)
    \/ CancelWrite
    \/ SetWriteDeadline

Next ==
    \/ WriterStep
    \/ \E v \in grants : ReceiveGrant(v) \/ LoseGrant(v)
    \/ \E f \in frames : HandleStreamData(f)
    \/ FlushChunk
    \/ FlushEnd
    \/ ReadEOF
    \/ \E n \in 1 .. Len(readBuf) : ReadData(n)
    \/ ReadBlocked
    \/ ReadTimer
    \/ SetReadDeadline
    \/ CancelRead
    \/ ResetStream
    \/ ConnClose

Spec == Init /\ [][Next]_vars

-----------------------------------------------------------------------------
TypeOK ==
    /\ writeOffset \in Offsets
    /\ maxData \in Nat /\ maxData >= Window
    /\ readMaxData \in Nat /\ readMaxData >= Window
    /\ finSent \in BOOLEAN
    /\ writeErr \in BOOLEAN
    /\ writerPC \in [Writers -> {"out", "in", "waiting", "checked"}]
    /\ chunk \in [Writers -> 0 .. MaxChunk]
    /\ readerPC \in {"running", "waiting", "asleep"}
    /\ frames \subseteq Frame /\ got \subseteq frames
    /\ grants \subseteq Nat
    /\ losses \in Nat
    /\ mu \in {"free", "inSequence", "duplicate"}
    /\ readBuf \in Seq(Nat) /\ delivered \in Seq(Nat)
    /\ readOffset \in Nat /\ reassemblyOffset \in Nat
    /\ DOMAIN pending \subseteq Offsets
    /\ \A o \in DOMAIN pending : pending[o] \in Seq(Nat)
    /\ pendingFn \in BOOLEAN /\ finRead \in BOOLEAN
    /\ reset \in BOOLEAN /\ closed \in BOOLEAN /\ eof \in BOOLEAN

(* The reader gets the bytes of the stream in order, each once, whatever   *)
(* the order and the number of times the frames arrive (stream.go,         *)
(* handleStreamData and tryFlushPending).                                  *)
InOrder ==
    /\ delivered = Units(0, readOffset)
    /\ ~reset => readBuf = Units(readOffset, reassemblyOffset - readOffset)

(* Data the endpoint has taken from a packet, and so acknowledged, is not  *)
(* dropped: it has been assembled or waits in "pending" as it came.        *)
NothingDropped ==
    \A f \in got : reset \/ End(f) <= reassemblyOffset
                    \/ (f.off \in DOMAIN pending /\ pending[f.off] = Units(f.off, f.len))

(* The sender never runs ahead of the window the receiver has granted,     *)
(* although Write gives up the mutex between the check and the send.       *)
WindowRespected == writeOffset <= readMaxData /\ maxData <= readMaxData

(* A stream implements what ByteStream promises, as long as nobody writes  *)
(* after Close (stream.go: Write, Close, handleStreamData and Read).       *)
Abstract == INSTANCE ByteStream WITH
    written <- writeOffset, closed <- finSent, aborted <- reset \/ closed
ByteStreamSpec == Abstract!Spec

-----------------------------------------------------------------------------
(* Fairness: retransmission makes every frame arrive, a lock holder goes   *)
(* on, the reader keeps calling Read and its timer of 100 ms goes off;     *)
(* grants that are not lost arrive, and a writer inside Write goes on.     *)
(* Strong where the mutex is taken: sync.Mutex does not starve a waiter,   *)
(* however many duplicates keep arriving.                                  *)
Fairness ==
    /\ SF_vars(\E f \in frames \ got : HandleStreamData(f))
    /\ WF_vars(FlushChunk \/ FlushEnd)
    /\ SF_vars(ReadEOF \/ \E n \in 1 .. Len(readBuf) : ReadData(n))
    /\ SF_vars(ReadBlocked)
    /\ WF_vars(ReadTimer)
    /\ \A w \in Writers : WF_vars(\E n \in 1 .. MaxChunk : CheckWindow(w, n))
    /\ WF_vars(\E v \in grants : ReceiveGrant(v))

FairSpec == Spec /\ Fairness

(* All that is written reaches the reader, unless it cancels or its        *)
(* connection is closed (stream.go: what handleStreamData assembles).      *)
AllDelivered ==
    \A i \in 1 .. MaxOffset :
        (writeOffset >= i) ~> (Len(delivered) >= i \/ reset \/ closed)

(* A writer that waits for flow control goes on or is told to stop, even   *)
(* if window updates are lost: the waiting reader repeats them, unless its *)
(* deadline has been missed.                                               *)
WriterUnblocked ==
    \A w \in Writers :
        writerPC[w] = "waiting" ~> (writerPC[w] \in {"out", "checked"} \/ closed \/ reset
                                    \/ readerPC = "asleep")

(* The upload and download protocols end "+ FIN" (cmd/fileserver/main.go,  *)
(* lines 94 and 184): a reader that has got every frame, FIN included, is  *)
(* told of the end.                                                        *)
FinReported ==
    (finSent /\ got = frames /\ \E f \in got : f.fin) ~> eof
=============================================================================
