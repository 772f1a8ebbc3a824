----------------------------- MODULE Connection -----------------------------
(***************************************************************************)
(* The life of a connection and its streams (quic/conn.go): at each of two *)
(* ends, goroutines of the application open, use, accept and close, while  *)
(* the run goroutine handles the frames that arrive.                       *)
(*                                                                         *)
(* The critical sections on streamsMu are steps, and so are the parts of   *)
(* CloseWithError and openStream between them.  Frames arrive in any       *)
(* order, any number of times or never.  A stream object is <<id, n>>, the *)
(* n-th made for its identifier.  Data, acknowledgements and flow control  *)
(* are in the other modules, and RESET_STREAM and STOP_SENDING in Stream.  *)
(*                                                                         *)
(* An operator X_Fault is X with a bug put in (PROJECT.json, "mutants").   *)
(***************************************************************************)
EXTENDS Naturals, Sequences

CONSTANTS
    Ends,          \* the two ends of the connection
    Openers,       \* goroutines that call OpenStream
    EndOf,         \* EndOf[o]: the end at which opener o runs
    Streams,       \* bound: streams 0 .. Streams-1 are opened at an end
    MaxObjects,    \* bound: objects made for one identifier
    AcceptCap,     \* capacity of acceptCh (100)
    MaxStreams,    \* maxStreamsBidi before any MAX_STREAMS frame (100)
    Foreign,       \* frames of peers that send what this code only handles
    Closers        \* ends whose application calls CloseWithError

IDs     == 0 .. Streams - 1
Objects == IDs \X (1 .. MaxObjects)
Frames  == [to : Ends, type : {"stream"}, id : IDs]
             \cup [to : Ends, type : {"close"}]
             \cup [to : Ends, type : {"max_streams"}, limit : Nat]

ASSUME ConstantsAssumption ==
    /\ EndOf \in [Openers -> Ends]
    /\ Streams \in Nat /\ MaxObjects \in Nat \ {0}
    /\ AcceptCap \in Nat /\ MaxStreams \in Nat
    /\ Foreign \subseteq Frames
    /\ Closers \subseteq Ends

VARIABLES
    streams,       \* end -> id -> current object, 0 if there is none
    nextBidi,
    opening,       \* openers between the test of closed and streamsMu
    acceptCh, accepted,
    dead,          \* stream objects that a close has marked closed
    maxStreamsBidi,
    phase,         \* of the close: open, notify, sweep, finish, done
    closeErr,      \* none, local, remote
    running,       \* the run goroutine has not returned
    net            \* frames that have been sent

opens   == <<streams, nextBidi, opening>>
accepts == <<acceptCh, accepted>>
closing == <<phase, closeErr>>
vars    == <<opens, accepts, dead, maxStreamsBidi, closing, running, net>>

Init ==
    /\ streams = [e \in Ends |-> [id \in IDs |-> 0]]
    /\ nextBidi = [e \in Ends |-> 0]
    /\ opening = {}
    /\ acceptCh = [e \in Ends |-> <<>>]
    /\ accepted = [e \in Ends |-> {}]
    /\ dead = [e \in Ends |-> {}]
    /\ maxStreamsBidi = [e \in Ends |-> MaxStreams]
    /\ phase = [e \in Ends |-> "open"]
    /\ closeErr = [e \in Ends |-> "none"]
    /\ running = [e \in Ends |-> TRUE]
    /\ net = Foreign

Closed(e)   == phase[e] # "open"          \* c.closed
Done(e)     == phase[e] = "done"          \* c.done is closed
Exists(e, id) == streams[e][id] > 0
Current(e, id) == <<id, streams[e][id]>>
Present(e)  == {Current(e, id) : id \in {i \in IDs : Exists(e, i)}}

NewStream(e, id) ==
    /\ streams[e][id] < MaxObjects
    /\ streams' = [streams EXCEPT ![e][id] = @ + 1]

-----------------------------------------------------------------------------
(* openStream.  Both ends number their streams as the client does, and     *)
(* maxStreamsBidi is not looked at.                                        *)
TestOpen(o) ==
    /\ o \notin opening
    /\ ~Closed(EndOf[o])
    /\ opening' = opening \cup {o}
    /\ UNCHANGED <<streams, nextBidi, accepts, dead, maxStreamsBidi,
                   closing, running, net>>

OpenStream_SameNumber(o) ==
    LET e == EndOf[o]
    IN  /\ o \in opening
        /\ opening' = opening \ {o}
        /\ NewStream(e, nextBidi[e])
        /\ UNCHANGED <<nextBidi, accepts, dead, maxStreamsBidi, closing, running, net>>

OpenStream(o) ==
    LET e == EndOf[o]
    IN  /\ o \in opening
        /\ nextBidi[e] < Streams
        /\ opening' = opening \ {o}
        /\ nextBidi' = [nextBidi EXCEPT ![e] = @ + 1]
        /\ NewStream(e, nextBidi[e])
        /\ UNCHANGED <<accepts, dead, maxStreamsBidi, closing, running, net>>

(* Write or Close on a stream sends a frame. *)
Use(e, id) ==
    /\ Exists(e, id)
    /\ id < nextBidi[e] \/ Current(e, id) \in accepted[e]
    /\ ~Closed(e)                        \* sendFrame
    /\ \E f \in Ends \ {e} : net' = net \cup {[to |-> f, type |-> "stream", id |-> id]}
    /\ UNCHANGED <<opens, accepts, dead, maxStreamsBidi, closing, running>>

AcceptStream(e) ==
    /\ acceptCh[e] # <<>>
    /\ acceptCh' = [acceptCh EXCEPT ![e] = Tail(@)]
    /\ accepted' = [accepted EXCEPT ![e] = @ \cup {Head(acceptCh[e])}]
    /\ UNCHANGED <<opens, dead, maxStreamsBidi, closing, running, net>>

-----------------------------------------------------------------------------
(* The run goroutine.  It may take packets after done is closed, until its *)
(* select happens to choose done.                                          *)
Take(e, f) ==
    /\ running[e]
    /\ closeErr[e] = "remote" => Done(e)   \* it closes the connection itself
    /\ f \in net /\ f.to = e
    /\ UNCHANGED <<running, net, nextBidi, opening, accepted>>

Offer_Waiting(e, object) ==
    acceptCh' = IF acceptCh[e] = <<>>
                THEN [acceptCh EXCEPT ![e] = Append(@, object)]
                ELSE acceptCh

Offer(e, object) ==
    acceptCh' = IF Len(acceptCh[e]) < AcceptCap
                THEN [acceptCh EXCEPT ![e] = Append(@, object)]
                ELSE acceptCh

IsNew_Always(e, id) == TRUE
IsNew(e, id) == ~Exists(e, id)

HandleStreamFrame_Shadowed(e, f) ==
    /\ Take(e, f) /\ f.type = "stream"
    /\ IF IsNew(e, f.id)
       THEN NewStream(e, f.id) /\ Offer(e, Current(e, f.id))
       ELSE UNCHANGED <<streams, acceptCh>>
    /\ UNCHANGED <<dead, maxStreamsBidi, closing>>

HandleStreamFrame(e, f) ==
    /\ Take(e, f) /\ f.type = "stream"
    /\ IF IsNew(e, f.id)
       THEN /\ NewStream(e, f.id)
            /\ Offer(e, <<f.id, streams[e][f.id] + 1>>)
       ELSE UNCHANGED <<streams, acceptCh>>
    /\ UNCHANGED <<dead, maxStreamsBidi, closing>>

HandleMaxStreams(e, f) ==
    /\ Take(e, f) /\ f.type = "max_streams"
    /\ maxStreamsBidi' = [maxStreamsBidi EXCEPT ![e] = f.limit]
    /\ UNCHANGED <<streams, acceptCh, dead, closing>>

HandleConnectionClose(e, f) ==
    /\ Take(e, f) /\ f.type = "close"
    /\ ~Closed(e)
    /\ phase' = [phase EXCEPT ![e] = "sweep"]
    /\ closeErr' = [closeErr EXCEPT ![e] = "remote"]
    /\ UNCHANGED <<streams, acceptCh, dead, maxStreamsBidi>>

RunExit(e) ==
    /\ running[e] /\ Done(e)
    /\ running' = [running EXCEPT ![e] = FALSE]
    /\ UNCHANGED <<opens, accepts, dead, maxStreamsBidi, closing, net>>

-----------------------------------------------------------------------------
(* CloseWithError: closed and closeErr, the CONNECTION_CLOSE frame (which  *)
(* sendFrame refuses once closed is set), the streams, then done.          *)
MayClose(e) == e \in Closers /\ ~Closed(e)

CloseWithError(e) ==
    /\ MayClose(e)
    /\ phase' = [phase EXCEPT ![e] = "notify"]
    /\ closeErr' = [closeErr EXCEPT ![e] = "local"]
    /\ UNCHANGED <<opens, accepts, dead, maxStreamsBidi, running, net>>

SendClose(e) ==
    /\ phase[e] = "notify"
    /\ phase' = [phase EXCEPT ![e] = "sweep"]
    /\ net' = IF Closed(e) THEN net
              ELSE net \cup {[to |-> f, type |-> "close"] : f \in Ends \ {e}}
    /\ UNCHANGED <<opens, accepts, dead, maxStreamsBidi, closeErr, running>>

SweepStreams(e) ==
    /\ phase[e] = "sweep"
    /\ dead' = [dead EXCEPT ![e] = @ \cup Present(e)]
    /\ phase' = [phase EXCEPT ![e] = "finish"]
    /\ UNCHANGED <<opens, accepts, maxStreamsBidi, closeErr,
                   running, net>>

CloseDone(e) ==
    /\ phase[e] = "finish"
    /\ phase' = [phase EXCEPT ![e] = "done"]
    /\ UNCHANGED <<opens, accepts, dead, maxStreamsBidi, closeErr, running, net>>

HandleFrame(e, f) ==
    \/ HandleStreamFrame(e, f)
    \/ HandleMaxStreams(e, f)
    \/ HandleConnectionClose(e, f)

Closing_Unfinished(e) == SendClose(e) \/ SweepStreams(e)
Closing(e) == SendClose(e) \/ SweepStreams(e) \/ CloseDone(e)

Next ==
    \/ \E o \in Openers : TestOpen(o) \/ OpenStream(o)
    \/ \E e \in Ends, id \in IDs : Use(e, id)
    \/ \E e \in Ends, f \in net : HandleFrame(e, f)
    \/ \E e \in Ends : AcceptStream(e) \/ RunExit(e) \/ CloseWithError(e) \/ Closing(e)

Spec == Init /\ [][Next]_vars

-----------------------------------------------------------------------------
TypeOK ==
    /\ streams \in [Ends -> [IDs -> 0 .. MaxObjects]]
    /\ nextBidi \in [Ends -> 0 .. Streams]
    /\ opening \subseteq Openers
    /\ acceptCh \in [Ends -> Seq(Objects)]
    /\ accepted \in [Ends -> SUBSET Objects]
    /\ dead \in [Ends -> SUBSET Objects]
    /\ maxStreamsBidi \in [Ends -> Nat]
    /\ phase \in [Ends -> {"open", "notify", "sweep", "finish", "done"}]
    /\ closeErr \in [Ends -> {"none", "local", "remote"}]
    /\ running \in [Ends -> BOOLEAN]
    /\ net \subseteq Frames

Waiting(e) == {acceptCh[e][i] : i \in 1 .. Len(acceptCh[e])}

(* AcceptStream returns a stream once, never one opened at this end, and   *)
(* never an object that later frames do not reach, although frames are     *)
(* repeated and goroutines open and accept all the while (conn.go:541).    *)
AcceptedOnce ==
    \A e \in Ends :
        /\ \A i, j \in 1 .. Len(acceptCh[e]) : acceptCh[e][i] = acceptCh[e][j] => i = j
        /\ Waiting(e) \cap accepted[e] = {}
        /\ \A object \in Waiting(e) \cup accepted[e] :
              /\ object[1] >= nextBidi[e]
              /\ object = Current(e, object[1])

(* OpenStream opens a new stream (conn.go:306): the object of a stream in  *)
(* use is never replaced.                                                  *)
StreamKept ==
    [][\A e \in Ends, id \in IDs : Exists(e, id) => streams'[e][id] = streams[e][id]]_vars

-----------------------------------------------------------------------------
(* Fairness: the goroutines that close and the run goroutine go on, frames *)
(* that are sent arrive, and the application keeps accepting.              *)
Fairness ==
    \A e \in Ends :
        /\ WF_vars(Closing(e))
        /\ WF_vars(RunExit(e))
        /\ WF_vars(AcceptStream(e))
        /\ \A id \in IDs :
              WF_vars(\E f \in net : HandleStreamFrame(e, f) /\ f.id = id)
        /\ WF_vars(\E f \in net : HandleConnectionClose(e, f))

FairSpec == Spec /\ Fairness

(* A stream the peer has used is accepted, as long as acceptCh has room    *)
(* and neither end closes.                                                 *)
StreamsOffered ==
    \A f \in [to : Ends, type : {"stream"}, id : IDs] :
        (f \in net /\ f.id >= nextBidi[f.to])
            ~> (<<f.id, 1>> \in accepted[f.to] \/ Closed(f.to))

(* However a connection is closed, the goroutine of run returns.           *)
CloseCompletes == \A e \in Ends : Closed(e) ~> ~running[e]

(* "Send CONNECTION_CLOSE frame" (conn.go:347): when an end closes, so     *)
(* does the other.                                                         *)
PeerToldOfClose == \A e, f \in Ends : Closed(e) ~> Closed(f)
=============================================================================
