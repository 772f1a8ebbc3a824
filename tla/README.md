# A formal model of quic-test

`quic-test` is a QUIC transport in Go without encryption: connections over UDP, streams, loss recovery,
flow control, congestion control, a listener with connection migration, and a few programs on top. This
directory models the transport and the file transfer programs in TLA+, checks it with TLC and proves the
most important results with TLAPS. Every definition is a translation of Go code; `PROJECT.json` ("map")
gives the file and the lines.

Contents: 1 the system, 2 the modules, 3 runs and bounds, 4 fairness, 5 what TLC found in the code, 6
proofs, 7 what is not modelled, 8 what comes next, 9 how to run it.

## 1. The system

### Components and their state

| Component | Source | State | Operations |
|---|---|---|---|
| Loss recovery | `quic/conn.go` | `sendPacketHistory`, `sendPacketMap`, five flags per packet, `retransmitQueue`, `lastRecvAckTime`, `ptoCount` | `sendFrame`, `sendInitialPacket`, `flushPendingFrames`, `handleAckFrame`, `checkPTO`, `flushRetransmitQueue` |
| Acknowledgement of what arrives | `quic/conn.go`, `protocol/types.go`, `wire/ack_frame.go` | `recvPacketHistory`, `largestRecvPN`, counter and time of the last ACK | `handleReceivedPacket`, `recordReceivedPacket`, `sendAckIfNeeded`, `buildAckRanges`, packet number codec |
| Stream | `quic/stream.go` | write side: `writeOffset`, `maxData`, `finSent`; read side: `readBuf`, `pending`, `reassemblyOffset`, `pendingFn`, `finRead`, `readMaxData`; `readCond`, `writeCond`, the deadlines | `Write`, `Close`, `CancelWrite`, `Read`, `CancelRead`, `SetReadDeadline`, `SetWriteDeadline`, `handleStreamData`, `tryFlushPending`, `updateMaxData`, the handlers of RESET_STREAM and STOP_SENDING |
| Connection | `quic/conn.go` | `streams`, `nextBidi`, `acceptCh`, `closed`, `done`, close error | `openStream`, `AcceptStream`, `CloseWithError`, the frame handlers, `run` |
| Listener | `quic/listener.go` | `connMap` by address, `connIDMap` by connection ID, `acceptCh` | `dispatchPacket`, `Accept`, `Close` |
| Congestion control | `quic/utils/*.go` | `cwnd`, `ssthresh`, `bytesInFlight`, recovery; in BBR its state, rounds and filter | the methods of the `CongestionControl` interface |
| Wire format | `quic/wire/*.go`, `quic/quicvarint` | none, but `pendingFrames` and the send buffer of the connection | `Append` and `Parse` of varints, frames and headers; packing |
| RTT estimator | `quic/utils/rtt.go` | smoothed RTT, variance | `UpdateRTT`, `PTO`, `LossDelay` |
| Dialing | `quic/listener.go` | goroutines, result channel, contexts | `Dial`, `DialHappy`, `WaitReady` |
| Programs | `cmd/*` | files, sizes and byte counts | echo; upload and download |

### How they interact

* One **run goroutine** for each connection takes packets, ACK signals and two tickers from channels.
  It decodes and records packets and calls the frame handlers, so that acknowledgement, loss
  detection, the probe timeout and the flush of the retransmit queue never run at the same time as
  each other in one connection.
* **Application goroutines** call `Write`, `Read`, `Close`, `OpenStream`, `CloseWithError` at any
  time. `Write` goes through `sendFrame`, which reads the history under `historyMu`, gives it up,
  takes `sendMu`, and appends to the history. All the interesting interleavings between the two
  kinds of goroutine go through these mutexes, `streamsMu` and the mutex of a stream.
* The **listener** starts a goroutine for each UDP packet. They race for `connsMu`.
* A reader grants window with `MAX_STREAM_DATA` frames, an ACK frame goes through `pendingFrames`; both
  travel either behind a STREAM frame or in packets that are not tracked, so that a lost one is not
  sent again.
* A reader and a writer wait on the condition variables of the stream. Whoever changes what they wait
  for broadcasts; a timer of the reader and the goroutines that deadlines start broadcast as well.
* `DialHappy` starts a goroutine for each address, which post their results in a channel and see its
  return as the end of their context.
* An upload or a download is one stream; the handlers of all streams share the files on the disk.
* The congestion controller is asked before a STREAM frame is sent and told of everything sent,
  acknowledged, lost and timed out.

### What is hard

Concurrency: the check-then-lock sequences (`closed` before `streamsMu`, the limit of tracked packets
before `sendMu`, the flow-control window before the send), the two critical sections of `dispatchPacket`.
Failure: lost, repeated and late packets, ACK frames that nobody repeats on their own account, writes
that fail half-way through a flush, a peer that falls silent. Ordering: packets of a stream in any order
with the FIN among them, packet numbers decoded relative to the largest so far, losses and
acknowledgements of one flight in turns. Endings: a stream ends by FIN, cancellation, reset, deadline or
the close of its connection, and programs take one for the other. Bounds: history limits, five ACK
ranges, accept channels, a packet that is full. `PROJECT.json` ("hazards") lists all of them at their
lines, with the properties that would catch them.

### What makes each component correct

* Loss recovery: nothing committed is forgotten; nothing is sent again twice at a time;
  `bytesInFlight` is what is really outstanding; a lost payload arrives in the end; a dead peer is noticed.
* Acknowledgement: a number is never reported that did not arrive; each that arrived is reported in the end.
* Stream: the reader gets the bytes of the writer, in order and once, and EOF after the last; the
  window is respected; nobody waits for ever.
* Dialing: the first connection that responds is returned, no other is lost from sight, all goroutines end.
* File transfer: what is confirmed is stored, what is complete is whole, both sides end.
* Connection: one object for each stream at each end, accepted once; closed once, completely, and known to the peer.
* Listener: one connection for each client; the tables agree; each connection is returned by `Accept` once.
* Congestion control: the window never closes; its accounts balance; one reduction for each episode of loss.
* RTT estimation: the estimates stay within what was measured, the timers in proportion to it.
* Wire format: what is written is what is read; a packet fits; queued frames are not lost on the way.

## 2. The modules

| Module | Role |
|---|---|
| `LossRecovery` | sending half of a connection: sender goroutines, run goroutine, network, peer |
| `Stream` | one direction of a stream with its network, waits and endings |
| `ByteStream` | abstract: what a stream promises. `Stream` implements it |
| `PacketNumber`, `AckFrame` | operators: packet number codec; building, writing and reading ACK ranges |
| `Acknowledgement` | receiving half of a connection, over `PacketNumber` |
| `Listener` | dispatcher goroutines, clients that move, accept queue |
| `Dial` | `DialHappy`: the race of several addresses |
| `Connection` | two ends: streams opened, accepted, swept; the close |
| `NewReno`, `Cubic`, `Bbr` | operators: the three controllers as records |
| `Congestion` | a controller as the connection uses it |
| `Rtt` | the round trip time estimator |
| `Varint`, `Frames` | operators: varints, every frame, as bytes; loops are recursive functions |
| `Packet` | headers, packing of pending frames, one datagram at a time |
| `Transfer` | clients and handlers of file transfers, over streams as `ByteStream` has them |
| `MC*` | constants (and definitions only TLC needs) for the runs |
| `WireProofs` | theorems about the operators: varints, frames, ACK ranges, packet numbers |
| `ConnectionProofs` | theorems about `Connection` and `Packet` |
| `ListenerProofs` | theorems about `Listener` and `Dial` |
| `CongestionProofs` | theorems about `Congestion` and `Rtt` |
| other `*Proofs` | theorems about the module of that name |

An operator named `X_Fault` is `X` with a plausible bug put in. Nothing uses it but the tests of the
properties ("mutants"): with `X_Fault` in place of `X`, TLC must find the property violated.

### How state and actions correspond to the code

**LossRecovery.** A packet is its number, a payload is named by the number that carried it first. The
flags `acked`, `lost`, `retransmitted`, `isRetransmit` of `sentPacket` are sets of numbers; the queue is
a function from numbers to copies, since its order only decides which new number a payload gets.
`sendFrame` is three steps: the checks before `sendMu` (`CheckStream`, `CheckControl`), the section up to
the append to the history (`Track`, or `RefuseStream`), and `OnPacketSent` with `WriteTo`
(`WritePacket`). A packet is therefore tracked before it is counted, as in the code, and the run
goroutine can act in between. `HandleAck` is the part of `handleAckFrame` under `historyMu`, including
loss detection and `compactSentHistory`; the time since a packet was sent is a cut-off in the numbers,
since numbers and send times grow together. A flush holds `sendMu` (`FlushLock` .. `FlushEnd`) and
handles one copy at each step, because senders may read the history meanwhile. The ACK and
`MAX_STREAM_DATA` packets of `flushPendingFrames` use up numbers and are not tracked (`SendUntracked`).

**Stream.** The byte at offset *i* is the number *i*, so that loss, order and repetition show in the
data. `Write` is two steps, since it gives up the mutex between the flow-control check and the send
(`CheckWindow`, `SendChunk`/`ChunkRefused`). `handleStreamData` is one action with the cases of the code,
and the loop of `tryFlushPending` takes one iteration at each step with everything else at this end
disabled by `mu`. A writer or a reader that finds nothing waits; what wakes it (a broadcast, the timer of
the reader, a deadline) is an action of its own, so that a wake-up may also come between the test and the
wait, where it is lost: then the reader is `asleep`. `WriteAfterClose`, `ConnMayClose`, `MayCancel` and
`Deadlines` switch user actions on and off for a run. Only the connection of the receiving end may close;
the sending one stays open.

**Acknowledgement.** The receiver decodes and records numbers; the record loses `HistoryDrop` of the
oldest beyond `HistoryLimit`. `Read` is the number that it finds in a packet. The Initials of the setup
are packets 0 to 2, and `SetLength` spoils all three (`Packet_initials`, section 5): PING and MAX_DATA are
dropped, MAX_STREAMS is recorded as number 0. For `Packet`, byte by byte, that is the theorem
`InitialsAsZero`.
Number 0 may therefore be acknowledged although packet 0 was lost, with nothing late; `Acknowledgeable`
says so, and no stream data depends on it, since an Initial is never sent again.
`OnSignal` and `OnTick` both call `SendAckIfNeeded`, as `run` does. The ACK
frame is the set of its ranges; the run `Acknowledgement` shows for every record reached that `AckFrame`
(sorting, merging, gaps, parsing) computes exactly these. `PacketNumber` is parameterised by the windows
of the four number lengths, so that TLC can take small ones.

**Listener.** Each goroutine of `dispatchPacket` is in one of its critical sections: `ByAddress` and
`ByConnID` deliver to what is registered, `NewConnection` has found nothing, `Register` takes `connsMu`
again and looks once more, `Setup` and `Offer` follow outside. `Move` is a client whose address changes.

**Dial.** Each attempt is a goroutine (delay, check of the context, connect, wait for readiness, post);
the caller takes results from the channel. `select` may choose any ready case, so that an attempt whose
connection is ready may post it after the caller has gone. A server may answer late, never, or close the
connection.

**Connection.** Steps are the critical sections on `streamsMu`, with `openStream`'s test of `closed` a
step before, and the sections of `CloseWithError` (`phase`). Object `<<id, n>>` is the *n*-th object made
for stream `id`: a second one would split the data of the stream. Frames that this implementation handles
but never sends come from the set `Foreign`.

**Congestion.** A controller is a record; its methods are operators from records to records, or to a set
of them where the code reads the clock: the cubic function may grow the window by any amount, and in BBR
a round may have any rate, and its round trip time and ProbeRTT be as old as they like. `Congestion` has
the calls of `conn.go` in the order in which it makes them, `OnPacketLost` with the number of the *lost*
packet among them. Sizes and windows are in units of half a packet. Both ends begin with the three
Initials of `sendConnectionSetup` in flight: they are counted, no loss is declared of them (`Eliciting`,
`conn.go:603`), none but number 0 is ever acknowledged, and a probe timeout takes them out of the flight
without sending them again (`Resent`, `conn.go:645`). In `LossRecovery` an Initial
may be acknowledged under its own number, or never: this adds behaviours to those of the code.

**Rtt.** `UpdateRTT` with the integer divisions of the code. `LossRecovery` does not use it: there the
timers may fire at any time.

**Transfer.** A direction of a stream is what has been written to it, how much of that has arrived and
whether FIN or the end of the connection has; reads are the loops of the programs. That the FIN may never
be reported and that the other end of a closed connection is never told are taken over from the runs
`Stream_fin` and `Connection_close`. The file on the disk is a sequence of units, each with the client it
came from, so that the mixture of two uploads shows.

**Packet.** Real bytes. `SendShort` is the common part of `sendFrame` and `flushPendingFrames`: header,
first frame, then as many pending frames as fit. `Queue` is separate from the flush because
`sendMaxStreamData` and `sendAckIfNeeded` give up `sendMu` in between. `HandleReceivedPacket` parses the
bytes with the header and frame parsers. `written` and `handled` record what the sender meant and what
the receiver made of it. The loops of the code (`buildAckRanges`, the sort, `parseAckFrame`,
`parseAndHandleFrames`, the bytes of a varint) are recursive functions that take a turn of the loop at
each step.

## 3. Runs and their bounds

Passing runs:

| Run | Question | Bounds, and why they are enough |
|---|---|---|
| `LossRecovery` | nothing forgotten, nothing queued twice, `bytesInFlight` exact; what is sent arrives, a silent peer is noticed | 1 sender beside the run goroutine, 4 packet numbers, 1 Initial, 2 outstanding and 3 tracked, 1 probe, 1 loss, 1 failing write, a peer that may die: one payload can be lost, fail to be sent again, be retransmitted and be acknowledged late |
| `Stream` | nothing dropped, window respected; `ByteStream` implemented; everything is delivered, and a blocked writer goes on | 4 units in chunks of 1 or 2: every partition, reordering and repetition, with FIN in any position, cancellation and reset at either end, close and deadlines; a window of 3, so that the writer blocks; 1 grant lost |
| `Acknowledgement` | no false ACK; ranges and frames exact; each arrival acknowledged | 6 packets, of which the first three are the Initials, duplicates, windows 6 .. 256, so that both one and two bytes are used, lateness up to 1, the most that `WithinHalfWindow` allows for a window of six; a record of 3, so that it is trimmed; 2 ranges, so that the third is cut; 1 ACK lost |
| `Listener` | one open connection for each client that stays, the tables agree, each connection is offered to `Accept` | 2 clients, of which one addresses the ID of the server, 2 goroutines, 3 addresses, 3 connections and an accept channel of 2, so that it fills up |
| `Dial` | the first that responds is returned, none is lost from sight, all goroutines end | 3 addresses: a winner, a loser that is ready and one that fails |
| `Connection` | one object for each stream, accepted once, offered; a close completes | 2 openers at the client, 2 streams, both ends close, accept channel of 2, frames of a foreign server |
| `Congestion` | floor, exact accounts, a loss reduces the window of NewReno, a sender held back is released unless the Initials alone hold it | the three controllers, packets of full size and larger, 5 of them after the three Initials, 1 timeout; a first window of five packets, so that two beside the Initials fill it, and one loss brings it to where the Initials leave no room; for BBR a filter of 2 and rounds of at most 2 packets, so that it turns over, two rates |
| `Packet_roundtrip` | number and frames survive, packets fit | 20 first frames and 4 kinds of pending frame, up to 2 of them, packet numbers around 127 and 32767, values around 63 and 16383, packets of 28 bytes so that all three cases of packing occur; the data bytes are themselves types of frames |
| `Transfer` | confirmed is stored, complete is whole, both sides end | an upload of 1 or 2 units and a download, a first file of 2 units or none, 1 end that times out or disk that fails |

The bounds are small, but each hazard needs only a few actors: a sender and the run goroutine (or two
goroutines of the listener), one other event in the middle. The theorems in section 6 remove the bounds
for the most important properties. `CHECK_DEADLOCK FALSE` is set everywhere, as every model stops when
its bounds are used up or when the connection is closed. No run uses symmetry, as nearly all state
liveness. In `Packet`, the window of a four-byte packet number is 2^30 instead of 2^32 and eight-byte
varints are not reached, because TLC computes with 32-bit integers. An Initial is padded to the 28 bytes
of a packet, enough for the number of MAX_STREAMS to be read from the padding, as with the 1200 bytes of
the code.

Some behaviours of users are left out of the passing runs, because the code goes wrong under them
(section 5): two concurrent writers of one stream, `Write` after `Close`, streams opened by both ends,
two uploads of one name, empty files, packets later than half a number window. Each is a constant of its
module, so that a run with it is a change of one line.

## 4. Fairness

* Goroutines inside a function are scheduled (weak fairness). Where they wait for a mutex that others
  take again and again, fairness is strong: `sync.Mutex` hands over to a waiter after one millisecond.
* The 25 ms and 100 ms tickers of `run` fire, and `select` does not starve a ready case.
* The network delivers what it does not lose; the number of losses is bounded. Duplicates are allowed
  and never required.
* Users: a reader keeps calling `Read`, a server keeps calling `Accept` and `AcceptStream`. Nothing
  is assumed of writers, openers and closers.
* In `LossRecovery`, `FullAck` stands for the ACK that the ticker of the peer repeats for what it has
  received; that the peer does repeat it is shown by `Acknowledgement`. In `Stream`, each STREAM
  frame arrives in the end; that is `Recovered` of `LossRecovery`.
* In `Stream`, the 100 ms timer of a waiting reader (`stream.go:95`) fires, and a writer that is woken
  tests its window again. Deadlines may fire and need not.
* In `Dial`, delays and the timeout of an attempt end, so that each goroutine goes on; that servers
  answer is not assumed.
* In `Transfer`, what was written arrives as long as neither end has given up, and a client or a
  handler goes on whenever it can; a client whose connection is closed at its own end notices. A FIN
  need not be reported.
* In `Congestion`, as long as packets that elicit acknowledgements are in flight, one of them is
  acknowledged or the oldest is declared lost in the end: the peer acknowledges its record every 25 ms,
  and each ACK runs loss detection. Of the Initials nothing is assumed, and no timeout: `checkPTO` returns
  while ACKs come (`conn.go:984`). `SenderReleased` excepts a window that the Initials alone fill.
* Nothing is assumed about timers in relation to each other: the probe timeout and loss detection may
  come at any time.

## 5. What TLC found in the code

Each of these runs checks one property, stated after a comment, a name or the README of the repository,
and ends in a counterexample. `PROJECT.json` ("findings") quotes the text.

| Run | What happens |
|---|---|
| `Stream_fin` | The empty FIN frame of `Close` that arrives in order is dropped as a duplicate: the reader never sees EOF |
| `Connection_close` | `closed` is set before the CONNECTION_CLOSE frame is sent, and `sendFrame` refuses to send once it is set: the peer is never told |
| `Packet_initials` | `SetLength` does not recognise an Initial and overwrites the token length: the receiver takes the packet number for a token. It drops PING and MAX_DATA and records MAX_STREAMS as number 0; the flow control information of the setup never arrives |

Modelling met other disagreements. They have no run of their own; where a passing property needs a
hypothesis because of one of them, the hypothesis says so.

* Before a first ACK, neither loss detection nor the probe timeout runs (`conn.go:977`): a lost first
  packet is never sent again. `Recovered` starts from the first ACK.
* A packet whose retransmission could not be written is subtracted from `bytesInFlight` a second time
  when its ACK comes (`conn.go:592`). `InFlightMatches` holds without failing writes.
* The three Initials of the setup are counted in `bytesInFlight` (`conn.go:1118`), never declared lost
  (`conn.go:603`), and two of them never acknowledged; no probe timeout discards them while ACKs keep coming
  (`conn.go:984`). Two packets are all of NewReno's smallest window, so that near it a sender never gets a
  packet of full size out and `Write` tries for ever. The comment at `conn.go:948` names the hazard for
  control frames. `SenderReleased` excepts such a window (`SetupBlocks`); with `SetupBlocks` dropped and no
  timeout, TLC finds the sender stuck.
* Retransmissions are tracked without a limit (`conn.go:697`), against `types.go:52`.
* Two writers may each check the window and then both send (`stream.go:161`); a `Write` after `Close` is
  not refused, and its data and the FIN replace each other in `pending` (`stream.go:280`).
* A packet later than half its number window is recorded, and acknowledged, under another number
  (`conn.go:454`). `sendAckIfNeeded` counts its calls instead of packets (`conn.go:1151`).
* The client goes on using the connection ID it made up, which the listener does not register: after
  a move its packets are dropped (`listener.go:274`).
* A stream opened during a close enters the map after the sweep and is never marked (`conn.go:317`). A
  server that opens a stream uses the number of the client's and replaces it (`conn.go:333`). Nothing
  reads the limit on streams (`conn.go:316`).
* A goroutine that a deadline starts broadcasts without the mutex (`stream.go:147`): its wake-up may fall
  between the test of the deadline and the wait. The reader then sleeps until data comes, and repeats
  no window update, so that a blocked writer may wait for ever. `CancelWrite` does not stop a `Write`
  that never blocks.
* A connection that closes ends `Read` with `io.EOF` (`stream.go:77`): a download that was cut is
  reported as complete (`fileclient/main.go:294`), and a client whose upload the server does not confirm
  reports it as complete as well. The receiver of an empty file waits for the FIN for ever
  (`fileserver/main.go:166`). Two uploads of one name mix in the file (`fileserver/main.go:128`).
* `DialHappy` leaves ready connections in the channel and open, when they were posted after its
  return; a caller that cancels its own context waits for ever, as attempts then leave without a
  result (`listener.go:358`).
* CUBIC never leaves recovery on an ACK, so that only the first loss reduces its window until a timeout
  (`cubic.go:168`).
* BBR leaves startup although the rate doubles from round to round (`bbr.go:328`), since the rate is
  compared with one it has just overwritten; its ProbeRTT keeps a window of 2 MB.
* NewReno is given the number of the lost packet for the largest sent, so that one flight reduces the
  window several times (`conn.go:609`).
* A pending frame that does not fit is dropped with those behind it, where the comment says they are
  kept (`conn.go:877`, `conn.go:883`).

## 6. Proofs

All proofs are checked by TLAPS with SMT (Z3), Zenon and LS4, from the assumptions on the constants in
the modules. They hold for all values of the constants: any number of goroutines, packets and addresses,
any limits, windows and losses. Hypotheses beyond that are named below.

**Loss recovery** (`LossRecoveryProofs`). `TypeCorrect`, `NothingForgotten`, `SingleCarrier`,
`InFlightExact`. The inductive invariant is `TypeOK /\ Locking /\ Numbering /\ OneCarrier /\
NoPayloadForgotten`. The last two are not inductive alone. A retransmission gets the number `sendPN`;
that this number carries nothing yet, is in no queue and in no network is `Numbering`, and that no sender
is in the middle of using it is `Locking`. That an Initial packet carries only its own payload (again
`Numbering`) is why dropping it from the queue forgets no stream data. `InFlightExact` needs
`QueueIsLost` as well: between two flushes the queue is empty, and during a flush it holds exactly what
is lost and not yet sent again. Its property is about runs in which no write has failed (see section 5).

**Stream** (`StreamProofs`). `TypesHold`, `DropsNothing`, `ReadsInOrder`, `RespectsWindow`, and
`Refines`: every step is a step of `ByteStream` or a stutter. The invariant is `Sent` (no two frames lie
at one offset, and FIN is the end of what was written) with `Assembled` (what is pending is a part of the
stream, and a FIN that waits does so behind all of the data): they make `handleStreamData` put the right
units at the right place whichever frames overlap. `DropsNothing` and `Refines` assume that nobody writes
after `Close`, which `Quiet` turns into a fact about writers that are still inside. `RespectsWindow`
assumes one writer: between its check and its send only the window can have grown (`WindowInv`).

**Acknowledgement** (`AcknowledgementProofs`). `TypeCorrect`, `NoFalseAck`, `FramesExact`. The first two
follow from `DecodeExact` under the hypothesis `WithinHalfWindow`: no packet is later than half the
window of any number length that is in use, and all numbers lie below half the largest. Nothing in the
code enforces it (section 5). The invariant (`Recording`) says that every number recorded is
`Acknowledgeable`: of a packet with a short header that has arrived, or 0 if a MAX_STREAMS Initial has;
and that the largest is of such a packet, or 0. `ArrivalRead` is the step: a short header decodes to its own
number, a spoiled Initial to 0 or to nothing, whatever the largest number is by then. `NoFalseAck` then
says that the peer takes nothing for acknowledged, and so drops no data, that has not arrived; it claims
nothing of the Initials.

Of the ranges: a list is `Separated` when each range ends at least two below every one before it.
`ExtendExact`: a turn of the loop of `buildAckRanges`, given a number not above the last range, keeps the
list separated and adds this number to what it tells, and no other. `RangesTold`: so the whole loop tells
of the sorted numbers and no other. `ListsAreRuns`: a separated list holds the maximal runs of the
numbers it tells of; each range is a run, since the numbers next to its ends lie in no other range, and a
run starts and ends where the range does that holds its first number. `CutExact`: cut after `MaxRanges`,
it is the ACK frame of the model, because the *i*-th range has *i* - 1 runs above it. That the exchange
sort sorts is `SortKeeps`: a pass brings the largest of the rest to its place, and keeps every number.
Together, `FramesExact`: for a record of any length, in any order and with repeats, what `buildAckRanges`
makes is what the model sends and what the peer reads; it needs nothing of the record but its type.

**Wire format** (`WireProofs`). What is written is read, for every value. `VarintRoundTrip` and
`VarintsRoundTrip`: numbers up to 2^62 - 1, in one, two, four or eight bytes; the two bits of the tag are
free because what is left of the number in front of its last bytes is below 64 (`VarintTagged`).
`BlockExact`, `ParseExact`: the gaps and lengths of an ACK frame give back its ranges, and neither, which
are unsigned in Go, can wrap. `FrameRoundTrip`: each frame that is `Writable` (its numbers are below
2^62, its data at most as long, ACK ranges separated, STREAM frames with a length) is read as itself,
whatever follows, and exactly its bytes are taken. `FramesRoundTrip`: so are any number of them in one
packet. `DecodeExact` is arithmetic: a number truncated to 1 .. 4 bytes decodes to itself if it lies
within half a window of the number expected next.

**Datagrams** (`ConnectionProofs`, second half). The theorems are about `Packet` for all sets of frames,
numbers, connection IDs and packet sizes with these hypotheses: `Sendable` (the frames are `Writable`,
connection IDs have at most 255 bytes, an Initial packet has a length of 14 bits), `Roomy` (a packet
holds the header and one frame; of a STREAM frame, all but its data), `Numbered` (packet numbers stay
below half the window of four bytes) and `InitialsFit` (a setup packet is not cut off). The constants of
the run satisfy all four, and so do those of the code, for fewer than 2^31 packets. `DatagramsFit`
(`Sendable`, `Roomy`): packing stops before the limit, and `Truncated` leaves of the data what its
reckoning with the longest number and a length of the uncut data allows (`TruncatedFits`; a shorter
length never takes more bytes). `RoundTrips` (`Sendable`, `Numbered`, `InitialsFit`): the invariant
`TripInv` says that what is on its way is what was written, byte by byte (`InFlight`), and that its
number is ahead of every number read so far, so that `DecodeExact` applies. The hard part is an Initial
packet between: `SetLength` writes over its token length, so that the reader takes all but the last byte
of the frame for a token (section 5). The length then begins with that byte, and the number is read from
the padding: it is zero, or missing, and neither moves `largestRecvPN` (`InitialUnread`, `ZeroDecoded`).
Without this, a packet after an Initial could be read under another number. `InitialsAsZero` states it
as a theorem, for every frame an Initial may carry; it is what `Acknowledgement` takes over.

**Listener** (`ListenerProofs`). `TypesHold`, `PacketsNotSplit`, `TablesAgree`. A packet is dispatched in
two critical sections with anything in between, so the invariant says what a goroutine still knows in the
second one: the connection it made is its alone and unregistered (`Workers`); one that is registered
belongs to one client and lies in the paths of no other (`Owners`, `Paths`); and an open one has the
entry of its address and no other (`Located`).

**Connection** (`ConnectionProofs`, first half). `TypesHold`, `AcceptsOnce`, `KeepsStreams`, when the
streams are opened at one end and no frame comes for a stream nobody opened (`OneOpens`, as with the
programs of `cmd`; with openers at both ends the properties fail, section 5). `Known`: whatever exists or
is in a frame has been opened, and the end that opens has all of it, so that a frame there never makes an
object. `Accepting`: what waits or was accepted is the one object of a stream of the other end.

**Dialing** (`ListenerProofs`, at its end). `DialTypesHold`, `NoConnectionLost`, `ReturnedHasResponded`.
`Channel` (each result is posted once, and not after it was taken) bounds the length of the channel by
the number of addresses, so that no attempt blocks when it posts; an error is returned when as many
failures have been taken as there are addresses, and then `Taken` says that all have failed.

**Congestion control** (`CongestionProofs`). `TypesHold`, `WindowKeepsFloor`, `CountsExact`,
`LossReduces`, for NewReno, CUBIC and BBR, every amount by which the cubic function may grow the window
and all rates and round trip times. The inductive invariant is `TypeOK /\ Floor(cc) /\ Numbers /\
InFlightExact /\ Recovering`. The bytes in flight are counted as the places of bytes of the packets in
flight, a finite set, so that sending, acknowledging and losing a packet adds or removes exactly its own
(`InFlightExact`); the subtraction in the controllers then never goes below zero, which `TypeOK` needs in
its turn. For `LossReduces`, `Recovering` says that while NewReno is in recovery, either the window is at
its floor, or the recovery point lies below the number at which the window was last reduced and no packet
from that number on has been acknowledged: an ACK of such a packet ends the recovery, so that the next
loss finds it ended.

**File transfer** (`TransferProofs`). `TypesHold`, `ConfirmedStays`, `DownloadsWhole`, for any number of
clients, sizes and faults. The invariant is a statement of each client. For an uploader: what it has
written is its request and its file in order (`Asks`), what its handler has read of it is on the disk
(`Stores`), and the handler writes its confirmation last (`Confirms`). For a downloader: it is sent the
size and the units of one file, all before the FIN, or a refusal (`Sends`: `Announces`, `Refuses`), and
what it has is a beginning of that (`Gets`). The clients meet only in the file: a handler that changes it
marks the others that are at work on it as `spoiled`, of which nothing is claimed; so a step of one
client keeps the statement of every other. `FinLast` is why a handler that saw the FIN has seen
everything.

**Round trip times** (`CongestionProofs`, at its end). `StaysWithinSamples`, `TimersStayInProportion`: a
weighted mean, rounded down, lies between any bounds of its parts, so that the smoothed value and the
variation never leave the range of the samples (`UpdateKeepsInv`). TLC agrees on all samples and delays
up to 14 ticks of a clock with a tick of a millisecond; the theorems cover every clock, and with it the
fresh start at 333 ms.

**Induction.** What a loop computes for data of any length is proved by induction over its turns. The
induction theorems of the library take an operator as a parameter, which the provers here cannot
instantiate; `Induction` states the same of a *set* of natural numbers that holds 0 and the successor of
each member, from the well-founded order of the natural numbers. `Loop` builds on it: a function defined
by recursion on its argument exists and takes the value of its body at each, which gives each loop a
lemma of its turns (`ParseTurns`, `RangesTurns`, `SortTurns`, `FlattenTurns` ...).

Every safety property of the passing runs is stated by a theorem, `NewRenoLossReduces`, `StreamKept`,
`NothingDropped` and the refinement of `ByteStream` among them. Left to TLC are the liveness properties,
since the proof system has no fairness or ENABLED: `Recovered`, `SilentPeerNoticed`, `AllDelivered`,
`WriterUnblocked`, `ReceivedIsAcked`, `Offered`, `DialEnds`, `StreamsOffered`, `CloseCompletes`,
`SenderReleased` and `TransferEnds`. The refinement of `ByteStream` after a `Write` that follows `Close`
is not claimed.

## 7. What is not modelled

* The values of timers in the modules other than `Rtt`: timers may fire at any time.
* Pacing in BBR, and the cycle of its gains.
* Unidirectional streams: nothing opens one.
* Path validation: the answer to a PATH_CHALLENGE is ignored by the code, so there is no state.
* Buffer pools, `packetCh`, logging, sockets: a full channel is a lost packet in the models.
* The `Length` methods of frames, `MaybeSplitOffFrame`, `AppendWithLen` and `quicvarint.Read` are not
  called.
* The echo programs have no state. The contents of a transfer's request and its progress output are
  abstracted.
* Lock order: read in the source, the mutexes nest in one order (`connsMu`, `streamsMu` or a stream,
  then `sendMu`, then `historyMu`); a module would only restate it.

## 8. What comes next

1. A composition of `LossRecovery` and `Acknowledgement`: both ends, with the ACK frames between them,
   in place of the assumption `FullAck`.
2. `Congestion` with `Rtt` in place of rates and round trip times that may be anything.
3. `Connection` with unidirectional streams and both directions of `Stream`, so that a close and a
   deadline meet data on the way.
4. A proof that `Transfer` may use a stream as `ByteStream` has it.

## 9. Running it

    tlc -workers 2 -config LossRecovery.cfg LossRecovery
    tlapm LossRecoveryProofs.tla

`PROJECT.json` ("runs") gives the module of each configuration. Each run takes between a second and a few
minutes. `Rtt` has no run of its own: its theorems need no bound.
