-------------------------- MODULE ConnectionProofs --------------------------
(***************************************************************************)
(* The streams of a connection (Connection.tla), with any number of        *)
(* goroutines that open streams at one end: no stream object is replaced,  *)
(* and AcceptStream returns each stream of the peer once.                  *)
(*                                                                         *)
(* And its datagrams (Packet.tla), for every set of frames that can be     *)
(* written: none is longer than a packet may be, and one with a short      *)
(* header is read as it was written, its number and its frames.            *)
(***************************************************************************)
EXTENDS Connection, Packet, WireProofs

(* Streams are opened at one end, as by the programs of cmd, and no frame  *)
(* comes for a stream that nobody has opened.                              *)
OneOpens ==
    /\ \A o, p \in Openers : EndOf[o] = EndOf[p]
    /\ \A f \in Foreign : f.type # "stream"

(* The identifiers given out so far. *)
Opened(id) == \E o \in Openers : id < nextBidi[EndOf[o]]

Opens(e) == \E o \in Openers : EndOf[o] = e

(* Only streams that have been opened exist or are in a frame, and the end *)
(* that opens has all of them.                                             *)
Known ==
    /\ \A e \in Ends : nextBidi[e] # 0 => Opens(e)
    /\ \A e \in Ends, id \in IDs : Exists(e, id) => Opened(id)
    /\ \A e \in Ends, id \in IDs : id < nextBidi[e] => Exists(e, id)
    /\ \A f \in net : f.type = "stream" => Opened(f.id)
    /\ \A e \in Ends, id \in IDs : streams[e][id] \in {0, 1}

(* What waits for AcceptStream, or has been returned by it, is the only    *)
(* object of a stream opened at the other end.                             *)
Offered(e, object) ==
    /\ object \in Objects
    /\ object[1] >= nextBidi[e] /\ Exists(e, object[1]) /\ object[2] = 1

Accepting ==
    \A e \in Ends :
        /\ \A i \in 1 .. Len(acceptCh[e]) :
              Offered(e, acceptCh[e][i]) /\ acceptCh[e][i] \notin accepted[e]
        /\ \A i, j \in 1 .. Len(acceptCh[e]) : acceptCh[e][i] = acceptCh[e][j] => i = j
        /\ \A object \in accepted[e] : Offered(e, object)

Inv == TypeOK /\ Known /\ Accepting

-----------------------------------------------------------------------------
LEMMA InvAccepted == Inv => AcceptedOnce
<1> SUFFICES ASSUME Inv, NEW e \in Ends
             PROVE  /\ \A i, j \in 1 .. Len(acceptCh[e]) : acceptCh[e][i] = acceptCh[e][j] => i = j
                    /\ Waiting(e) \cap accepted[e] = {}
                    /\ \A object \in Waiting(e) \cup accepted[e] :
                          object[1] >= nextBidi[e] /\ object = Current(e, object[1])
  BY DEF AcceptedOnce
<1>1. \A object \in Waiting(e) : Offered(e, object) /\ object \notin accepted[e]
  BY DEF Waiting, Inv, Accepting
<1>2. \A object \in accepted[e] : Offered(e, object)
  BY DEF Inv, Accepting
<1>3. ASSUME NEW object, Offered(e, object)
      PROVE  object[1] >= nextBidi[e] /\ object = Current(e, object[1])
  <2>1. object[1] \in IDs /\ object = <<object[1], object[2]>>
    BY <1>3 DEF Offered, Objects
  <2>2. streams[e][object[1]] = 1
    BY <1>3, <2>1 DEF Offered, Exists, Inv, Known
  <2> QED BY <1>3, <2>1, <2>2 DEF Offered, Current
<1> QED BY <1>1, <1>2, <1>3 DEF Inv, Accepting

LEMMA InvInit == ASSUME OneOpens PROVE Init => Inv
<1> SUFFICES ASSUME Init PROVE Inv
  OBVIOUS
<1> USE ConstantsAssumption
<1>1. TypeOK
  <2>1. \A e \in Ends : acceptCh[e] \in Seq(Objects)
    BY EmptySeq DEF Init
  <2>2. streams \in [Ends -> [IDs -> 0 .. MaxObjects]]
    <3>1. 0 \in 0 .. MaxObjects
      OBVIOUS
    <3>2. [id \in IDs |-> 0] \in [IDs -> 0 .. MaxObjects]
      BY <3>1
    <3> QED BY <3>2 DEF Init
  <2>3. /\ nextBidi \in [Ends -> 0 .. Streams]
        /\ accepted \in [Ends -> SUBSET Objects] /\ dead \in [Ends -> SUBSET Objects]
        /\ maxStreamsBidi \in [Ends -> Nat]
        /\ phase \in [Ends -> {"open", "notify", "sweep", "finish", "done"}]
        /\ closeErr \in [Ends -> {"none", "local", "remote"}]
        /\ running \in [Ends -> BOOLEAN]
    BY DEF Init
  <2>4. acceptCh \in [Ends -> Seq(Objects)]
    BY <2>1 DEF Init
  <2> QED BY <2>2, <2>3, <2>4 DEF Init, TypeOK
<1>2. Known
  BY DEF Init, Known, OneOpens, Exists, IDs
<1>3. Accepting
  <2>1. \A e \in Ends : acceptCh[e] = <<>> /\ accepted[e] = {}
    BY DEF Init
  <2>2. Len(<<>>) = 0
    BY EmptySeq
  <2>3. \A e \in Ends : Len(acceptCh[e]) = 0
    BY <2>1, <2>2, Zenon
  <2>4. \A e \in Ends : 1 .. Len(acceptCh[e]) = {}
    <3>1. 1 .. 0 = {}
      OBVIOUS
    <3> QED BY <2>3, <3>1, Zenon
  <2> SUFFICES ASSUME NEW e \in Ends
               PROVE  /\ \A i \in 1 .. Len(acceptCh[e]) :
                            Offered(e, acceptCh[e][i]) /\ acceptCh[e][i] \notin accepted[e]
                      /\ \A i, j \in 1 .. Len(acceptCh[e]) :
                            acceptCh[e][i] = acceptCh[e][j] => i = j
                      /\ \A object \in accepted[e] : Offered(e, object)
    BY DEF Accepting
  <2> QED BY <2>1, <2>4
<1> QED BY <1>1, <1>2, <1>3 DEF Inv

-----------------------------------------------------------------------------
(* The first object of a stream.                                           *)
LEMMA FirstObject ==
  ASSUME TypeOK, NEW e \in Ends, NEW id \in IDs, ~Exists(e, id), NewStream(e, id)
  PROVE  /\ streams' \in [Ends -> [IDs -> 0 .. MaxObjects]]
         /\ streams'[e][id] = 1 /\ streams[e][id] = 0
         /\ \A d \in Ends, i \in IDs : d # e \/ i # id => streams'[d][i] = streams[d][i]
<1>1. streams \in [Ends -> [IDs -> 0 .. MaxObjects]] /\ MaxObjects \in Nat \ {0}
  BY ConstantsAssumption DEF TypeOK
<1>2. streams[e][id] = 0
  BY <1>1 DEF Exists
<1>3. streams' = [streams EXCEPT ![e] = [streams[e] EXCEPT ![id] = 1]]
  BY <1>1, <1>2 DEF NewStream
<1>4. [streams[e] EXCEPT ![id] = 1] \in [IDs -> 0 .. MaxObjects]
  <2>1. streams[e] \in [IDs -> 0 .. MaxObjects] /\ 1 \in 0 .. MaxObjects
    BY <1>1
  <2> QED BY <2>1
<1> QED BY <1>1, <1>2, <1>3, <1>4

(* Steps that open no stream and accept none. *)
LEMMA OtherKeepsInv ==
  ASSUME Inv, UNCHANGED <<streams, nextBidi, accepts>>, TypeOK',
         \A f \in net' \ net : f.type = "stream" => Opened(f.id)
  PROVE  Inv'
<1>1. Known'
  BY DEF Inv, Known, Opened, Opens, Exists
<1>2. Accepting'
  BY DEF Inv, Accepting, Offered, Exists, accepts
<1> QED BY <1>1, <1>2 DEF Inv

(* The steps, one by one.                                                  *)
LEMMA UseKeepsInv ==
  ASSUME Inv, NEW e \in Ends, NEW id \in IDs, Use(e, id)
  PROVE  Inv'
<1>1. PICK d \in Ends : net' = net \cup {[to |-> d, type |-> "stream", id |-> id]}
  BY DEF Use
<1>2. UNCHANGED <<opens, accepts, dead, maxStreamsBidi, closing, running>>
  BY DEF Use
<1>3. [to |-> d, type |-> "stream", id |-> id] \in Frames
  BY DEF Frames
<1>4. TypeOK'
  BY <1>1, <1>2, <1>3 DEF Inv, TypeOK, opens, accepts, closing
<1>5. Opened(id)
  BY DEF Use, Inv, Known
<1> QED BY <1>1, <1>2, <1>4, <1>5, OtherKeepsInv DEF opens

LEMMA CloseKeepsInv ==
  ASSUME Inv, NEW e \in Ends, CloseWithError(e) \/ Closing(e) \/ RunExit(e)
  PROVE  Inv'
<1>1. /\ UNCHANGED <<opens, accepts, maxStreamsBidi>>
      /\ net' \subseteq net \cup {[to |-> f, type |-> "close"] : f \in Ends}
  BY DEF CloseWithError, Closing, SendClose, SweepStreams, CloseDone, RunExit
<1>2. \A f \in Ends : [to |-> f, type |-> "close"] \in Frames
  BY DEF Frames
<1>3. TypeOK'
  <2>1. net' \subseteq Frames
    BY <1>1, <1>2 DEF Inv, TypeOK
  <2>2. /\ phase' \in [Ends -> {"open", "notify", "sweep", "finish", "done"}]
        /\ closeErr' \in [Ends -> {"none", "local", "remote"}]
        /\ running' \in [Ends -> BOOLEAN]
    BY DEF CloseWithError, Closing, SendClose, SweepStreams, CloseDone, RunExit, closing, Inv, TypeOK
  <2>3. dead' \in [Ends -> SUBSET Objects]
    <3>1. dead \in [Ends -> SUBSET Objects]
      BY DEF Inv, TypeOK
    <3>2. Present(e) \subseteq Objects
      <4>1. \A i \in IDs : Exists(e, i) => streams[e][i] \in 1 .. MaxObjects
        BY ConstantsAssumption DEF Exists, Inv, TypeOK
      <4> QED BY <4>1 DEF Present, Current, Objects
    <3>3. dead' = dead \/ dead' = [dead EXCEPT ![e] = @ \cup Present(e)]
      BY DEF CloseWithError, Closing, SendClose, SweepStreams, CloseDone, RunExit
    <3> HIDE DEF Present
    <3> QED BY <3>1, <3>2, <3>3
  <2> QED BY <1>1, <2>1, <2>2, <2>3 DEF Inv, TypeOK, opens, accepts
<1>4. \A f \in net' \ net : f.type # "stream"
  BY <1>1
<1> QED BY <1>1, <1>3, <1>4, OtherKeepsInv DEF opens

LEMMA TestOpenKeepsInv ==
  ASSUME Inv, NEW o \in Openers, TestOpen(o)
  PROVE  Inv'
<1>1. TypeOK'
  BY DEF TestOpen, Inv, TypeOK, accepts, closing
<1> QED BY <1>1, OtherKeepsInv DEF TestOpen

(* The number of a stream that is opened is new, and at the end that opens *)
(* nothing waits to be accepted.                                           *)
LEMMA OpenStreamKeepsInv ==
  ASSUME OneOpens, Inv, NEW o \in Openers, OpenStream(o),
         NEW e, e = EndOf[o], NEW id, id = nextBidi[e]
  PROVE  Inv' /\ ~Exists(e, id)
<1>1. /\ e \in Ends /\ Streams \in Nat /\ nextBidi \in [Ends -> 0 .. Streams]
      /\ \A p \in Openers : EndOf[p] = e
  BY ConstantsAssumption DEF OneOpens, Inv, TypeOK
<1>2. /\ NewStream(e, id) /\ id < Streams
      /\ nextBidi' = [nextBidi EXCEPT ![e] = @ + 1]
      /\ opening' = opening \ {o}
      /\ UNCHANGED <<accepts, dead, maxStreamsBidi, closing, running, net>>
  BY DEF OpenStream
<1>3. id \in IDs /\ id \in Nat
  BY <1>1, <1>2 DEF IDs
<1>4. \A i \in IDs : Opened(i) => i < id
  BY <1>1 DEF Opened
<1>5. ~Exists(e, id)
  BY <1>1, <1>3, <1>4 DEF Inv, Known
<1>6. /\ nextBidi'[e] = id + 1
      /\ \A d \in Ends : d # e => nextBidi'[d] = nextBidi[d]
      /\ nextBidi' \in [Ends -> 0 .. Streams]
  BY <1>1, <1>2, <1>3
<1>7. /\ streams' \in [Ends -> [IDs -> 0 .. MaxObjects]]
      /\ streams'[e][id] = 1
      /\ \A d \in Ends, i \in IDs : d # e \/ i # id => streams'[d][i] = streams[d][i]
  BY <1>1, <1>2, <1>3, <1>5, FirstObject DEF Inv
<1>8. TypeOK'
  BY <1>2, <1>6, <1>7 DEF Inv, TypeOK, accepts, closing
<1>9. \A i \in IDs : i < id => Opened(i)'
  <2>1. \A i \in IDs : i < id => i < id + 1
    BY <1>3 DEF IDs
  <2> QED BY <1>6, <2>1 DEF Opened
<1>10. Opened(id)'
  <2>1. id < nextBidi'[EndOf[o]]
    BY <1>3, <1>6
  <2> QED BY <2>1 DEF Opened
<1>11. \A d \in Ends, i \in IDs : Exists(d, i) => Exists(d, i)'
  BY <1>7 DEF Exists
<1>12. Known'
  <2>1. \A d \in Ends : nextBidi'[d] # 0 => Opens(d)
    BY <1>6 DEF Inv, Known, Opens
  <2>2. ASSUME NEW d \in Ends, NEW i \in IDs, Exists(d, i)' PROVE Opened(i)'
    <3>1. CASE d = e /\ i = id
      BY <1>10, <3>1
    <3>2. CASE ~(d = e /\ i = id)
      <4>1. Exists(d, i)
        BY <1>7, <2>2, <3>2 DEF Exists
      <4>2. Opened(i)
        BY <4>1 DEF Inv, Known
      <4> QED BY <1>4, <1>9, <4>2
    <3> QED BY <3>1, <3>2
  <2>3. ASSUME NEW d \in Ends, NEW i \in IDs, i < nextBidi'[d] PROVE Exists(d, i)'
    <3>1. CASE d = e /\ i = id
      BY <1>7, <3>1 DEF Exists
    <3>2. CASE ~(d = e /\ i = id)
      <4>1. i < nextBidi[d]
        BY <1>3, <1>6, <2>3, <3>2 DEF IDs
      <4> QED BY <1>11, <4>1 DEF Inv, Known
    <3> QED BY <3>1, <3>2
  <2>4. ASSUME NEW f \in net', f.type = "stream" PROVE Opened(f.id)'
    <3>1. f \in net /\ f \in Frames
      BY <1>2 DEF Inv, TypeOK
    <3>2. f.id \in IDs
      BY <2>4, <3>1 DEF Frames
    <3> QED BY <1>4, <1>9, <2>4, <3>1, <3>2 DEF Inv, Known
  <2>5. \A d \in Ends, i \in IDs : streams'[d][i] \in {0, 1}
    BY <1>7 DEF Inv, Known
  <2> QED BY <2>1, <2>2, <2>3, <2>4, <2>5 DEF Known, Opens
<1>13. Accepting'
  <2>1. ASSUME NEW d \in Ends, NEW object, Offered(d, object) PROVE Offered(d, object)'
    <3>1. object[1] \in IDs
      BY <2>1 DEF Offered, Objects
    <3>2. d # e
      <4>1. ASSUME d = e PROVE FALSE
        <5>1. object[1] < nextBidi[e]
          BY <1>4, <2>1, <3>1 DEF Offered, Inv, Known
        <5>2. object[1] >= nextBidi[e]
          BY <2>1, <4>1 DEF Offered
        <5> QED BY <1>1, <3>1, <5>1, <5>2 DEF IDs
      <4> QED BY <4>1
    <3> QED BY <1>6, <1>11, <2>1, <3>1, <3>2 DEF Offered
  <2> QED BY <1>2, <2>1 DEF Inv, Accepting, accepts
<1> QED BY <1>5, <1>8, <1>12, <1>13 DEF Inv

LEMMA AcceptStreamKeepsInv ==
  ASSUME Inv, NEW e \in Ends, AcceptStream(e)
  PROVE  Inv'
<1> DEFINE q == acceptCh[e]
<1>1. /\ acceptCh' = [acceptCh EXCEPT ![e] = Tail(q)]
      /\ accepted' = [accepted EXCEPT ![e] = @ \cup {Head(q)}]
      /\ UNCHANGED <<opens, dead, maxStreamsBidi, closing, running, net>>
      /\ acceptCh \in [Ends -> Seq(Objects)] /\ accepted \in [Ends -> SUBSET Objects]
      /\ q \in Seq(Objects) /\ q # <<>>
  BY DEF AcceptStream, Inv, TypeOK
<1>2. /\ Head(q) \in Objects /\ Tail(q) \in Seq(Objects) /\ Len(q) \in Nat \ {0}
      /\ Len(Tail(q)) = Len(q) - 1
      /\ \A i \in 1 .. Len(Tail(q)) : Tail(q)[i] = q[i + 1]
      /\ Head(q) = q[1]
  BY <1>1, HeadTailProperties, EmptySeq
<1> HIDE DEF q
<1>3. /\ acceptCh'[e] = Tail(q) /\ accepted'[e] = accepted[e] \cup {q[1]}
      /\ \A d \in Ends : d # e => acceptCh'[d] = acceptCh[d] /\ accepted'[d] = accepted[d]
  BY <1>1, <1>2
<1>4. TypeOK'
  <2>1. acceptCh' \in [Ends -> Seq(Objects)] /\ accepted' \in [Ends -> SUBSET Objects]
    BY <1>1, <1>2
  <2> QED BY <1>1, <2>1 DEF Inv, TypeOK, opens, closing
<1>5. Known'
  BY <1>1 DEF Inv, Known, Opened, Opens, Exists, opens
<1>6. /\ \A i \in 1 .. Len(q) : Offered(e, q[i]) /\ q[i] \notin accepted[e]
      /\ \A i, j \in 1 .. Len(q) : q[i] = q[j] => i = j
      /\ \A object \in accepted[e] : Offered(e, object)
  BY DEF Inv, Accepting, q
<1>7. /\ \A i \in 1 .. Len(Tail(q)) : Offered(e, Tail(q)[i]) /\ Tail(q)[i] \notin accepted'[e]
      /\ \A i, j \in 1 .. Len(Tail(q)) : Tail(q)[i] = Tail(q)[j] => i = j
      /\ \A object \in accepted'[e] : Offered(e, object)
  <2>1. \A i \in 1 .. Len(Tail(q)) : i + 1 \in 1 .. Len(q) /\ i + 1 # 1 /\ Tail(q)[i] = q[i + 1]
    BY <1>2
  <2>2. 1 \in 1 .. Len(q)
    BY <1>2
  <2>3. ASSUME NEW i \in 1 .. Len(Tail(q)), NEW j \in 1 .. Len(Tail(q)), Tail(q)[i] = Tail(q)[j]
        PROVE  i = j
    <3>1. i + 1 = j + 1
      BY <1>6, <2>1, <2>3
    <3> QED BY <3>1
  <2>4. ASSUME NEW i \in 1 .. Len(Tail(q))
        PROVE  Offered(e, Tail(q)[i]) /\ Tail(q)[i] \notin accepted'[e]
    <3>1. Tail(q)[i] # q[1]
      BY <1>6, <2>1, <2>2
    <3> QED BY <1>3, <1>6, <2>1, <3>1
  <2> QED BY <1>3, <1>6, <2>2, <2>3, <2>4
<1>8. Accepting'
  <2> DEFINE P(d) ==
         /\ \A i \in 1 .. Len(acceptCh'[d]) :
               Offered(d, acceptCh'[d][i]) /\ acceptCh'[d][i] \notin accepted'[d]
         /\ \A i, j \in 1 .. Len(acceptCh'[d]) : acceptCh'[d][i] = acceptCh'[d][j] => i = j
         /\ \A object \in accepted'[d] : Offered(d, object)
  <2>1. (\A d \in Ends : P(d)) => Accepting'
    BY <1>1 DEF Accepting, Offered, Exists, opens
  <2>2. P(e)
    BY <1>3, <1>7
  <2>3. \A d \in Ends : d # e => P(d)
    BY <1>3 DEF Inv, Accepting
  <2> HIDE DEF P
  <2> QED BY <2>1, <2>2, <2>3
<1> QED BY <1>4, <1>5, <1>8 DEF Inv

-----------------------------------------------------------------------------
(* A frame that opens a stream offers its first object, which neither      *)
(* waits nor was accepted, because what does exists.                       *)
LEMMA HandleStreamFrameKeepsInv ==
  ASSUME OneOpens, Inv, NEW e \in Ends, NEW f \in net, HandleStreamFrame(e, f),
         NEW id, id = f.id
  PROVE  /\ Inv'
         /\ id \in IDs
         /\ streams' = streams \/ (NewStream(e, id) /\ ~Exists(e, id))
<1> USE ConstantsAssumption
<1>1. f \in Frames /\ f.type = "stream"
  BY DEF HandleStreamFrame, Inv, TypeOK
<1>2. id \in IDs /\ Opened(id)
  <2>1. f.id \in IDs
    BY <1>1 DEF Frames
  <2> QED BY <1>1, <2>1 DEF Inv, Known
<1>3. UNCHANGED <<nextBidi, opening, accepted, dead, maxStreamsBidi, closing, running, net>>
  BY DEF HandleStreamFrame, Take
<1>4. CASE Exists(e, id)
  <2>1. UNCHANGED <<streams, acceptCh>>
    BY <1>4 DEF HandleStreamFrame, IsNew
  <2>2. TypeOK'
    BY <1>3, <2>1 DEF Inv, TypeOK, closing
  <2> QED BY <1>2, <1>3, <2>1, <2>2, OtherKeepsInv DEF accepts
<1>5. CASE ~Exists(e, id)
  <2>1. NewStream(e, id) /\ Offer(e, <<id, streams[e][id] + 1>>)
    BY <1>5 DEF HandleStreamFrame, IsNew
  <2>2. /\ streams' \in [Ends -> [IDs -> 0 .. MaxObjects]]
        /\ streams'[e][id] = 1 /\ streams[e][id] = 0
        /\ \A d \in Ends, i \in IDs : d # e \/ i # id => streams'[d][i] = streams[d][i]
    BY <1>2, <1>5, <2>1, FirstObject DEF Inv
  <2>3. Offer(e, <<id, 1>>)
    BY <2>1, <2>2
  <2>4. <<id, 1>> \in Objects
    BY <1>2 DEF Objects
  <2>5. \A d \in Ends, i \in IDs : Exists(d, i) => Exists(d, i)'
    BY <1>5, <2>2 DEF Exists
  <2>6. id >= nextBidi[e]
    <3>1. id \in Nat /\ nextBidi[e] \in Nat /\ ~(id < nextBidi[e])
      BY <1>2, <1>5 DEF IDs, Inv, Known, TypeOK
    <3> QED BY <3>1
  <2>7. Known'
    <3>1. \A d \in Ends, i \in IDs : Exists(d, i)' => Opened(i)
      BY <1>2, <2>2 DEF Exists, Inv, Known
    <3>2. \A i : Opened(i)' <=> Opened(i)
      BY <1>3 DEF Opened
    <3>3. \A d \in Ends, i \in IDs : streams'[d][i] \in {0, 1}
      BY <2>2 DEF Inv, Known
    <3>4. /\ \A d \in Ends : nextBidi'[d] # 0 => Opens(d)
          /\ \A d \in Ends, i \in IDs : i < nextBidi'[d] => Exists(d, i)'
          /\ \A g \in net' : g.type = "stream" => Opened(g.id)
      BY <1>3, <2>5 DEF Inv, Known
    <3> QED BY <3>1, <3>2, <3>3, <3>4 DEF Known, Opens
  <2> DEFINE StillOffered(d, x) ==
         /\ x \in Objects /\ x[1] >= nextBidi'[d]
         /\ streams'[d][x[1]] > 0 /\ x[2] = 1
  <2>8. \A d \in Ends : \A x : Offered(d, x) => StillOffered(d, x)
    <3> SUFFICES ASSUME NEW d \in Ends, NEW x, Offered(d, x)
                 PROVE  StillOffered(d, x)
      OBVIOUS
    <3>1. x[1] \in IDs
      BY DEF Offered, Objects
    <3> QED BY <1>3, <2>5, <3>1 DEF Offered, Exists
  <2>9. PICK new : new = <<id, 1>>
    OBVIOUS
  <2>10. new \in Objects /\ StillOffered(e, new) /\ ~Offered(e, new)
    BY <1>3, <1>5, <2>2, <2>4, <2>6, <2>9 DEF Offered, Exists
  <2>11. /\ acceptCh' \in [Ends -> Seq(Objects)] /\ acceptCh \in [Ends -> Seq(Objects)]
         /\ acceptCh' = acceptCh \/ acceptCh' = [acceptCh EXCEPT ![e] = Append(@, new)]
    <3>1. acceptCh \in [Ends -> Seq(Objects)]
      BY DEF Inv, TypeOK
    <3>2. Append(acceptCh[e], new) \in Seq(Objects)
      BY <2>10, <3>1, AppendProperties
    <3>3. acceptCh' = acceptCh \/ acceptCh' = [acceptCh EXCEPT ![e] = Append(@, new)]
      BY <2>3, <2>9 DEF Offer
    <3>4. CASE acceptCh' = acceptCh
      BY <3>1, <3>4
    <3>5. CASE acceptCh' = [acceptCh EXCEPT ![e] = Append(@, new)]
      <4>1. PICK q : q = Append(acceptCh[e], new)
        OBVIOUS
      <4>2. acceptCh' = [acceptCh EXCEPT ![e] = q] /\ q \in Seq(Objects)
        BY <3>2, <3>5, <4>1
      <4> QED BY <3>1, <3>5, <4>2
    <3> QED BY <3>3, <3>4, <3>5
  <2>12. TypeOK'
    BY <1>3, <2>2, <2>11 DEF Inv, TypeOK, closing
  <2>13. Accepting'
    <3> DEFINE P(d) ==
           /\ \A i \in 1 .. Len(acceptCh'[d]) :
                 StillOffered(d, acceptCh'[d][i]) /\ acceptCh'[d][i] \notin accepted[d]
           /\ \A i, j \in 1 .. Len(acceptCh'[d]) : acceptCh'[d][i] = acceptCh'[d][j] => i = j
           /\ \A object \in accepted[d] : StillOffered(d, object)
    <3>1. (\A d \in Ends : P(d)) => Accepting'
      BY <1>3 DEF Accepting, Offered, Exists
    <3>2. ASSUME NEW d \in Ends PROVE P(d)
      <4> DEFINE q == acceptCh[d]
      <4> HIDE DEF StillOffered
      <4>1. /\ \A i \in 1 .. Len(q) : Offered(d, q[i]) /\ q[i] \notin accepted[d]
            /\ \A i, j \in 1 .. Len(q) : q[i] = q[j] => i = j
            /\ \A object \in accepted[d] : Offered(d, object)
        BY DEF Inv, Accepting
      <4>2. CASE acceptCh'[d] = q
        BY <2>8, <4>1, <4>2
      <4>3. CASE acceptCh'[d] # q
        <5>1. d = e /\ acceptCh'[d] = Append(q, new) /\ q \in Seq(Objects)
          BY <2>11, <4>3
        <5> HIDE DEF q
        <5>2. /\ Len(acceptCh'[d]) = Len(q) + 1 /\ Len(q) \in Nat
              /\ \A i \in 1 .. Len(q) : acceptCh'[d][i] = q[i]
              /\ acceptCh'[d][Len(q) + 1] = new
          BY <2>10, <5>1, AppendProperties
        <5>3. \A i \in 1 .. Len(acceptCh'[d]) : i \in 1 .. Len(q) \/ i = Len(q) + 1
          BY <5>2
        <5>4. StillOffered(d, new) /\ ~Offered(d, new)
          BY <2>10, <5>1
        <5>5. \A i \in 1 .. Len(q) : acceptCh'[d][i] # new
          BY <4>1, <5>2, <5>4
        <5>6. new \notin accepted[d]
          BY <4>1, <5>4
        <5>7. \A i, j \in 1 .. Len(acceptCh'[d]) : acceptCh'[d][i] = acceptCh'[d][j] => i = j
          BY <4>1, <5>2, <5>3, <5>5
        <5>8. \A i \in 1 .. Len(acceptCh'[d]) :
                 StillOffered(d, acceptCh'[d][i]) /\ acceptCh'[d][i] \notin accepted[d]
          BY <2>8, <4>1, <5>2, <5>3, <5>4, <5>6
        <5> QED BY <2>8, <4>1, <5>7, <5>8
      <4> QED BY <4>2, <4>3
    <3> QED BY <3>1, <3>2
  <2> QED BY <1>2, <1>5, <2>1, <2>7, <2>12, <2>13 DEF Inv
<1> QED BY <1>4, <1>5

LEMMA OtherFramesKeepInv ==
  ASSUME Inv, NEW e \in Ends, NEW f \in net,
         HandleMaxStreams(e, f) \/ HandleConnectionClose(e, f)
  PROVE  Inv' /\ UNCHANGED streams
<1>1. UNCHANGED <<streams, nextBidi, opening, acceptCh, accepted, dead, running, net>>
  BY DEF HandleMaxStreams, HandleConnectionClose, Take
<1>2. maxStreamsBidi' \in [Ends -> Nat]
  <2>1. f \in Frames /\ maxStreamsBidi \in [Ends -> Nat]
    BY DEF Inv, TypeOK
  <2>2. f.type = "max_streams" => f.limit \in Nat
    BY <2>1 DEF Frames
  <2> QED BY <2>1, <2>2 DEF HandleMaxStreams, HandleConnectionClose
<1>3. /\ phase' \in [Ends -> {"open", "notify", "sweep", "finish", "done"}]
      /\ closeErr' \in [Ends -> {"none", "local", "remote"}]
  BY DEF HandleMaxStreams, HandleConnectionClose, closing, Inv, TypeOK
<1>4. TypeOK'
  BY <1>1, <1>2, <1>3 DEF Inv, TypeOK
<1> QED BY <1>1, <1>4, OtherKeepsInv DEF accepts

-----------------------------------------------------------------------------
LEMMA NextKeepsInv ==
  ASSUME OneOpens, Inv, [Next]_vars
  PROVE  /\ Inv'
         /\ \A e \in Ends, id \in IDs : Exists(e, id) => streams'[e][id] = streams[e][id]
<1>1. CASE UNCHANGED vars
  <2>1. TypeOK'
    BY <1>1 DEF vars, opens, accepts, closing, Inv, TypeOK
  <2>2. UNCHANGED <<streams, nextBidi, accepts, net>>
    BY <1>1 DEF vars, opens, accepts
  <2> QED BY <2>1, <2>2, OtherKeepsInv
<1>2. ASSUME NEW o \in Openers, TestOpen(o)
      PROVE  Inv' /\ UNCHANGED streams
  BY <1>2, TestOpenKeepsInv DEF TestOpen
<1>3. ASSUME NEW o \in Openers, OpenStream(o)
      PROVE  Inv' /\ \E e \in Ends, id \in IDs : NewStream(e, id) /\ ~Exists(e, id)
  <2>1. PICK e, id : e = EndOf[o] /\ id = nextBidi[e]
    OBVIOUS
  <2>2. Inv' /\ ~Exists(e, id)
    BY <1>3, <2>1, OpenStreamKeepsInv
  <2>3. NewStream(e, id) /\ id < Streams
    BY <1>3, <2>1 DEF OpenStream
  <2>4. e \in Ends /\ id \in IDs
    BY <2>1, <2>3, ConstantsAssumption DEF IDs, Inv, TypeOK
  <2> QED BY <2>2, <2>3, <2>4
<1>4. ASSUME NEW e \in Ends, NEW id \in IDs, Use(e, id)
      PROVE  Inv' /\ UNCHANGED streams
  BY <1>4, UseKeepsInv DEF Use, opens
<1>5. ASSUME NEW e \in Ends, NEW f \in net, HandleStreamFrame(e, f)
      PROVE  /\ Inv'
             /\ streams' = streams \/ \E d \in Ends, id \in IDs : NewStream(d, id) /\ ~Exists(d, id)
  <2>1. PICK id : id = f.id
    OBVIOUS
  <2> QED BY <1>5, <2>1, HandleStreamFrameKeepsInv
<1>6. ASSUME NEW e \in Ends, NEW f \in net, HandleMaxStreams(e, f) \/ HandleConnectionClose(e, f)
      PROVE  Inv' /\ UNCHANGED streams
  BY <1>6, OtherFramesKeepInv
<1>7. ASSUME NEW e \in Ends, AcceptStream(e)
      PROVE  Inv' /\ UNCHANGED streams
  BY <1>7, AcceptStreamKeepsInv DEF AcceptStream, opens
<1>8. ASSUME NEW e \in Ends, CloseWithError(e) \/ Closing(e) \/ RunExit(e)
      PROVE  Inv' /\ UNCHANGED streams
  <2>1. UNCHANGED streams
    BY <1>8 DEF CloseWithError, Closing, SendClose, SweepStreams, CloseDone, RunExit, opens
  <2> QED BY <1>8, <2>1, CloseKeepsInv
<1>9. ASSUME NEW d \in Ends, NEW i \in IDs, NewStream(d, i), ~Exists(d, i)
      PROVE  \A e \in Ends, id \in IDs : Exists(e, id) => streams'[e][id] = streams[e][id]
  BY <1>9, FirstObject DEF Inv
<1>10. Inv' /\ (streams' = streams
                  \/ \E d \in Ends, i \in IDs : NewStream(d, i) /\ ~Exists(d, i))
  <2>1. CASE UNCHANGED vars
    BY <1>1, <2>1 DEF vars, opens
  <2>2. CASE Next
    BY <1>2, <1>3, <1>4, <1>5, <1>6, <1>7, <1>8, <2>2 DEF Next, HandleFrame
  <2> QED BY <2>1, <2>2
<1> QED BY <1>9, <1>10

(* The invariant of the streams holds throughout.                          *)
THEOREM InvInductive == ASSUME OneOpens PROVE Spec => []Inv
<1>1. Init => Inv
  BY InvInit
<1>2. Inv /\ [Next]_vars => Inv'
  BY NextKeepsInv
<1> QED BY <1>1, <1>2, PTL DEF Spec

(* The type invariant of the connection, when the streams are opened at    *)
(* one end and every frame is for a stream that was opened.                *)
THEOREM TypesHold == ASSUME OneOpens PROVE Spec => []TypeOK
<1>1. Inv => TypeOK
  BY DEF Inv
<1> QED BY <1>1, InvInductive, PTL

(* AcceptStream (conn.go:541) returns each stream of the peer once, and    *)
(* the object that later frames reach, however many are opened at once and *)
(* however their frames are repeated and reordered.                        *)
THEOREM AcceptsOnce == ASSUME OneOpens PROVE Spec => []AcceptedOnce
<1> QED BY InvAccepted, InvInductive, PTL

(* Opening a stream (conn.go:306), here or by a frame of the peer, never   *)
(* replaces the object of a stream in use.                                 *)
THEOREM KeepsStreams == ASSUME OneOpens PROVE Spec => StreamKept
<1>1. Inv /\ [Next]_vars
        => [\A e \in Ends, id \in IDs : Exists(e, id) => streams'[e][id] = streams[e][id]]_vars
  BY NextKeepsInv
<1> QED BY <1>1, InvInductive, PTL DEF Spec, StreamKept

-----------------------------------------------------------------------------
(* The short header *)

(* A number that fits its bytes is read back from them.                    *)
LEMMA NumberRead ==
  ASSUME NEW len \in Lengths, NEW v \in Nat, v < Windows[len]
  PROVE  /\ IsBytes(BigEndian(v, len)) /\ Len(BigEndian(v, len)) = len
         /\ Unsigned(0, BigEndian(v, len)) = v
<1>1. len \in Nat /\ (len = 1 \/ len = 2 \/ len = 3 \/ len = 4)
  BY DEF Lengths
<1>2. PICK left : /\ Shifted(v, len, left)
                  /\ BigEndian(v, len) = [i \in 1 .. len |-> left[len - i] % 256]
  BY <1>1, Shifting
<1>3. left[0] = v /\ \A i \in 1 .. len : left[i] = left[i - 1] \div 256
  BY <1>2 DEF Shifted
<1>4. PICK bytes : bytes = BigEndian(v, len) /\ bytes \in Seq(Byte) /\ Len(bytes) = len
  BY <1>1, BigEndianBytes
<1>5. bytes \in Seq(Nat)
  <2>1. \A i \in 1 .. len : bytes[i] \in Byte
    BY <1>4, ElementOfSeq
  <2>2. \A i \in 1 .. len : bytes[i] \in Nat
    BY <2>1 DEF Byte
  <2>3. bytes = [i \in 1 .. len |-> bytes[i]]
    BY <1>4, LenProperties
  <2>4. bytes \in [1 .. len -> Nat]
    BY <2>2, <2>3
  <2> QED BY <1>1, <2>4, SeqDef
<1>6. \A i \in 1 .. len : bytes[i] = left[len - i] % 256
  BY <1>2, <1>4
<1>7. Windows[len] \in Nat
  BY WindowsAssumption
<1>8. left[len] = 0
  <2>1. CASE len = 1
    <3>1. v <= 256 * 0 + 255 /\ left[1] = v \div 256
      <4>1. 1 \in 1 .. len /\ 1 - 1 = 0
        BY <2>1
      <4> QED BY <1>3, <1>7, <2>1, <4>1, NumbersFit
    <3>2. left[1] \in Nat /\ left[1] <= 0
      BY <3>1, Shrunk
    <3> QED BY <2>1, <3>2
  <2>2. CASE len = 2
    <3>1. /\ v <= 256 * 255 + 255
          /\ left[1] = v \div 256 /\ left[2] = left[1] \div 256
      <4>1. 1 \in 1 .. len /\ 1 - 1 = 0 /\ 2 \in 1 .. len /\ 2 - 1 = 1
        BY <2>2
      <4> QED BY <1>3, <1>7, <2>2, <4>1, NumbersFit
    <3>2. left[1] \in Nat /\ left[1] <= 255
      BY <3>1, Shrunk
    <3>3. left[1] <= 256 * 0 + 255
      BY <3>2
    <3>4. left[2] \in Nat /\ left[2] <= 0
      BY <3>1, <3>2, <3>3, Shrunk
    <3> QED BY <2>2, <3>4
  <2>3. CASE len = 3
    <3>1. /\ v <= 256 * 65535 + 255
          /\ left[1] = v \div 256 /\ left[2] = left[1] \div 256 /\ left[3] = left[2] \div 256
      <4>1. /\ 1 \in 1 .. len /\ 1 - 1 = 0 /\ 2 \in 1 .. len /\ 2 - 1 = 1
            /\ 3 \in 1 .. len /\ 3 - 1 = 2
        BY <2>3
      <4> QED BY <1>3, <1>7, <2>3, <4>1, NumbersFit
    <3>2. left[1] \in Nat /\ left[1] <= 65535
      BY <3>1, Shrunk
    <3>3. left[1] <= 256 * 255 + 255
      BY <3>2
    <3>4. left[2] \in Nat /\ left[2] <= 255
      BY <3>1, <3>2, <3>3, Shrunk
    <3>5. left[2] <= 256 * 0 + 255
      BY <3>4
    <3>6. left[3] \in Nat /\ left[3] <= 0
      BY <3>1, <3>4, <3>5, Shrunk
    <3> QED BY <2>3, <3>6
  <2>4. CASE len = 4
    <3>1. /\ left[1] = v \div 256 /\ left[2] = left[1] \div 256
          /\ left[3] = left[2] \div 256 /\ left[4] = left[3] \div 256
      <4>1. /\ 1 \in 1 .. len /\ 1 - 1 = 0 /\ 2 \in 1 .. len /\ 2 - 1 = 1
            /\ 3 \in 1 .. len /\ 3 - 1 = 2 /\ 4 \in 1 .. len /\ 4 - 1 = 3
        BY <2>4
      <4> QED BY <1>3, <2>4, <4>1
    <3>2. left[1] \in Nat /\ left[1] <= 16777215
      <4>1. PICK w \in Nat : w = Windows[len] - 1 /\ v <= w
        <5>1. Windows[len] - 1 \in Nat /\ v <= Windows[len] - 1
          BY <1>7
        <5> QED BY <5>1
      <4>2. w \div 256 < 16777216
        BY <2>4, <4>1, NumbersFit
      <4>3. PICK q \in Nat, r \in 0 .. 255 : w = 256 * q + r /\ q < 16777216
        BY <4>2, ByteOf
      <4>4. PICK q2 \in Nat, r2 \in 0 .. 255 : v = 256 * q2 + r2 /\ q2 = v \div 256
        BY ByteOf
      <4>5. q2 <= q
        BY <4>1, <4>3, <4>4
      <4> QED BY <3>1, <4>3, <4>4, <4>5
    <3>3. left[1] <= 256 * 65535 + 255
      BY <3>2
    <3>4. left[2] \in Nat /\ left[2] <= 65535
      BY <3>1, <3>2, <3>3, Shrunk
    <3>5. left[2] <= 256 * 255 + 255
      BY <3>4
    <3>6. left[3] \in Nat /\ left[3] <= 255
      BY <3>1, <3>4, <3>5, Shrunk
    <3>7. left[3] <= 256 * 0 + 255
      BY <3>6
    <3>8. left[4] \in Nat /\ left[4] <= 0
      BY <3>1, <3>6, <3>7, Shrunk
    <3> QED BY <2>4, <3>8
  <2> QED BY <1>1, <2>1, <2>2, <2>3, <2>4
<1>9. Unsigned(0, bytes) = v
  <2>1. PICK n \in 0 .. len : n = len
    BY <1>1
  <2>2. Len(bytes) = n /\ \A i \in 1 .. n : bytes[i] = left[n - i] % 256
    BY <1>4, <1>6, <2>1
  <2>3. Shifted(v, len, left) /\ len \in Nat
    BY <1>1, <1>2
  <2>4. Unsigned(left[n], bytes) = v
    BY <1>5, <2>2, <2>3, BytesExact
  <2> QED BY <1>8, <2>1, <2>4
<1> QED BY <1>4, <1>9 DEF IsBytes

(* A short header is read: the length of its number, the number as it was  *)
(* cut, and all that follows as frames.                                    *)
LEMMA ShortRead ==
  ASSUME NEW len \in Lengths, NEW v \in Nat, v < Windows[len], NEW s, IsBytes(s), NEW b,
         b = (<<64 + len - 1>> \o DestConnID \o BigEndian(v, len)) \o s
  PROVE  /\ IsBytes(b) /\ b # <<>> /\ b[1] < 128
         /\ ParsePacket(b) = {[pnLen |-> len, pn |-> v, frames |-> s]}
<1>1. PICK x : x = 64 + len - 1 /\ x \in Byte /\ x < 128 /\ (x % 4) + 1 = len
  <2>1. len = 1 \/ len = 2 \/ len = 3 \/ len = 4
    BY DEF Lengths
  <2>2. 64 + len - 1 \in Byte /\ 64 + len - 1 < 128 /\ ((64 + len - 1) % 4) + 1 = len
    BY <2>1 DEF Byte
  <2> QED BY <2>2
<1>2. PICK h : h = <<x>> /\ IsBytes(h)
  BY <1>1, JoinedOne
<1>3. PICK d : d = DestConnID /\ IsBytes(d)
  BY PacketAssumption DEF IsBytes
<1>4. PICK n : n = BigEndian(v, len) /\ IsBytes(n) /\ Len(n) = len /\ Unsigned(0, n) = v
  BY NumberRead
<1>5. PICK t : t = d ++ n /\ IsBytes(t)
  BY <1>3, <1>4, Joined2
<1>6. b = (h ++ t) ++ s
  <2>1. (h ++ d) ++ n = h ++ t
    BY <1>2, <1>3, <1>4, <1>5, Joined3
  <2>2. b = ((h ++ d) ++ n) ++ s
    BY <1>1, <1>2, <1>3, <1>4 DEF ++
  <2> QED BY <2>1, <2>2
<1>7. PICK u : u = n ++ s /\ IsBytes(u)
  BY <1>4, Joined2
<1>8. b[1] = x /\ Tail(b) = d ++ u
  <2>1. b[1] = x /\ Tail(b) = t ++ s
    <3>1. x \in Byte /\ IsBytes(t)
      BY <1>1, <1>5
    <3>2. h = <<x>>
      BY <1>2
    <3>3. ((h ++ t) ++ s)[1] = x /\ Tail((h ++ t) ++ s) = t ++ s
      BY <3>1, <3>2, HeadFirst
    <3> QED BY <1>6, <3>3
  <2>2. t ++ s = d ++ u
    BY <1>3, <1>4, <1>5, <1>7, Joined3
  <2> QED BY <2>1, <2>2
<1>9. PICK p : p = [bytes |-> d, rest |-> u]
  OBVIOUS
<1>10. ParseBytes(Tail(b), Len(DestConnID)) = {p}
  BY <1>3, <1>7, <1>8, <1>9, BytesRoundTrip DEF IsBytes, ++
<1>11. PICK q : q = [bytes |-> n, rest |-> s]
  OBVIOUS
<1>12. ParseBytes(u, len) = {q}
  BY <1>4, <1>7, <1>11, BytesRoundTrip DEF IsBytes, ++
<1>13. ParseNumberOf(u, len) = {[pnLen |-> len, pn |-> v, frames |-> s]}
  <2>1. ParseNumberOf(u, len) = {[pnLen |-> len, pn |-> Unsigned(0, m.bytes), frames |-> m.rest] : m \in {q}}
    BY <1>12 DEF ParseNumberOf
  <2>2. q.bytes = n /\ q.rest = s
    BY <1>11
  <2>3. ParseNumberOf(u, len) = {[pnLen |-> len, pn |-> Unsigned(0, q.bytes), frames |-> q.rest]}
    BY <2>1
  <2> QED BY <1>4, <2>2, <2>3
<1>14. ParseShortHeader(b) = ParseNumberOf(u, len)
  <2>1. ParseShortHeader(b) = UNION {ParseNumberOf(id.rest, len) : id \in {p}}
    BY <1>1, <1>8, <1>10 DEF ParseShortHeader
  <2>2. UNION {ParseNumberOf(id.rest, len) : id \in {p}} = ParseNumberOf(p.rest, len)
    OBVIOUS
  <2> QED BY <1>9, <2>1, <2>2
<1>15. ParsePacket(b) = ParseShortHeader(b)
  <2>1. ~(b[1] >= 128)
    <3>1. x \in Int
      BY <1>1 DEF Byte
    <3> QED BY <1>1, <1>8, <3>1
  <2> QED BY <2>1 DEF ParsePacket
<1>16. IsBytes(b) /\ b # <<>>
  <2>1. IsBytes(t ++ s)
    BY <1>5, Joined2
  <2>2. IsBytes(h ++ (t ++ s)) /\ h ++ (t ++ s) # <<>>
    BY <1>1, <1>2, <2>1, JoinedNone, HeadFirst
  <2>3. b = h ++ (t ++ s)
    BY <1>2, <1>5, <1>6, Joined3
  <2> QED BY <2>2, <2>3
<1> QED BY <1>1, <1>8, <1>13, <1>14, <1>15, <1>16

-----------------------------------------------------------------------------
(* The packing of frames, and the size of a STREAM frame *)

(* A set of numbers up to n has a largest. *)
LEMMA Largest ==
  ASSUME NEW n \in Nat, NEW S, S \subseteq 0 .. n, S # {}
  PROVE  Max(S) \in S /\ \A y \in S : Max(S) >= y
<1>1. PICK R : R = OpToRel(<, Nat)
  OBVIOUS
<1>2. \A k, m \in Nat : k < m => <<k, m>> \in R
  BY <1>1 DEF OpToRel
<1>3. IsWellFoundedOn(R, Nat)
  BY <1>1, NatLessThanWellFounded
<1>4. PICK T : T = {n - x : x \in S}
  OBVIOUS
<1>5. T \subseteq Nat /\ T # {}
  <2>1. \A x \in S : n - x \in Nat
    OBVIOUS
  <2>2. \E x \in S : n - x \in T
    BY <1>4
  <2> QED BY <1>4, <2>1, <2>2
<1>6. PICK t \in T : \A u \in T : ~ (<<u, t>> \in R)
  BY <1>3, <1>5, WFMin
<1>7. PICK x \in S : t = n - x
  BY <1>4
<1>8. \A y \in S : x >= y
  <2>1. ASSUME NEW y \in S, ~(x >= y) PROVE FALSE
    <3>1. n - y \in T /\ n - y \in Nat /\ t \in Nat
      BY <1>4, <1>5
    <3>2. n - y < t
      BY <1>7, <2>1
    <3> QED BY <1>2, <1>6, <3>1, <3>2
  <2> QED BY <2>1
<1> QED BY <1>8 DEF Max

(* flushPendingFrames takes the first of the pending frames, as many as    *)
(* fit, and none if none does.                                             *)
LEMMA PackedFits ==
  ASSUME NEW W, NEW frames \in Seq(W), NEW buf
  PROVE  /\ Packed(buf, frames) \in Seq(W)
         /\ \/ Packed(buf, frames) = <<>>
            \/ Len(buf \o Bytes(Packed(buf, frames))) <= MaxPacketSize
<1>1. PICK n \in Nat : n = Len(frames)
  BY LenProperties
<1>2. PICK fitting : fitting = {k \in 1 .. n : Len(buf \o Bytes(SubSeq(frames, 1, k))) <= MaxPacketSize}
  OBVIOUS
<1>3. PICK S : S = fitting \cup {0}
  OBVIOUS
<1>4. S \subseteq 0 .. n /\ S # {}
  BY <1>2, <1>3
<1>5. PICK m \in S : m = Max(S)
  BY <1>4, Largest
<1>6. Packed(buf, frames) = SubSeq(frames, 1, m)
  BY <1>1, <1>2, <1>3, <1>5 DEF Packed
<1>7. m \in 0 .. n
  BY <1>4
<1>8. SubSeq(frames, 1, m) \in Seq(W)
  <2>1. \A i \in 1 .. m : frames[i] \in W
    BY <1>1, <1>7, ElementOfSeq
  <2> QED BY <1>7, <2>1, SubSeqProperties
<1>9. CASE m = 0
  <2>1. SubSeq(frames, 1, 0) = <<>>
    BY SubSeqEmpty
  <2> QED BY <1>6, <1>8, <1>9, <2>1
<1>10. CASE m # 0
  <2>1. m \in fitting
    BY <1>3, <1>10
  <2> QED BY <1>2, <1>6, <1>8, <2>1
<1> QED BY <1>9, <1>10

(* No frames are no bytes.                                                 *)
LEMMA BytesOfNone == Bytes(<<>>) = <<>>
<1>1. \A f \in {} : Writable(f)
  OBVIOUS
<1>2. <<>> \in Seq({}) /\ Len(<<>>) = 0
  BY EmptySeq
<1>3. PICK g : FramesLeft(<<>>, 0, g)
  BY <1>1, <1>2, FramesGlued
<1> QED BY <1>3 DEF FramesLeft

(* A frame, then the others.                                               *)
LEMMA BytesOfFirst ==
  ASSUME NEW W, \A f \in W : Writable(f), NEW first \in W, NEW frames \in Seq(W)
  PROVE  /\ <<first>> \o frames \in Seq(W)
         /\ IsBytes(Bytes(frames)) /\ IsBytes(AppendFrame(first))
         /\ Bytes(<<first>> \o frames) = AppendFrame(first) ++ Bytes(frames)
<1>1. PICK n \in Nat : n = Len(frames)
  BY LenProperties
<1>2. PICK all : all = <<first>> \o frames
  OBVIOUS
<1>3. /\ all \in Seq(W) /\ Len(all) = 1 + n
      /\ all[1] = first /\ \A i \in 1 .. n : all[i + 1] = frames[i]
  <2>1. PICK h \in Seq(W) : h = <<first>> /\ Len(h) = 1 /\ h[1] = first
    <3>1. <<first>> \in Seq(W) /\ Len(<<first>>) = 1 /\ <<first>>[1] = first
      OBVIOUS
    <3> QED BY <3>1
  <2>2. /\ all \in Seq(W) /\ Len(all) = Len(h) + Len(frames)
        /\ \A i \in 1 .. Len(h) + Len(frames) :
             all[i] = IF i <= Len(h) THEN h[i] ELSE frames[i - Len(h)]
    BY <1>2, <2>1, ConcatProperties
  <2>3. 1 \in 1 .. 1 + n
    OBVIOUS
  <2>4. \A i \in 1 .. n : i + 1 \in 1 .. 1 + n /\ ~(i + 1 <= 1) /\ (i + 1) - 1 = i
    OBVIOUS
  <2> QED BY <1>1, <2>1, <2>2, <2>3, <2>4
<1>4. PICK m \in Nat : m = 1 + n
  OBVIOUS
<1>5. PICK g : FramesLeft(frames, n, g)
  BY <1>1, FramesGlued
<1>6. PICK e : FramesLeft(all, m, e)
  BY <1>3, <1>4, FramesGlued
<1> DEFINE S == {k \in Nat : k <= n => e[m - k] = g[n - k]}
<1>7. 0 \in S
  <2>1. m - 0 = m /\ n - 0 = n
    OBVIOUS
  <2> QED BY <1>5, <1>6, <2>1 DEF FramesLeft
<1>8. ASSUME NEW k \in Nat, k \in S, k + 1 <= n PROVE e[m - (k + 1)] = g[n - (k + 1)]
  <2>1. PICK i \in 1 .. n : i = n - k /\ i - 1 = n - (k + 1)
    <3>1. n - k \in 1 .. n /\ (n - k) - 1 = n - (k + 1)
      BY <1>8
    <3> QED BY <3>1
  <2>2. PICK j \in 1 .. m : j = i + 1 /\ j - 1 = m - (k + 1) /\ j = m - k
    <3>1. i + 1 \in 1 .. m /\ (i + 1) - 1 = m - (k + 1) /\ i + 1 = m - k
      BY <1>4, <1>8, <2>1
    <3> QED BY <3>1
  <2>3. e[j - 1] = AppendFrame(all[j]) ++ e[j]
    BY <1>6 DEF FramesLeft
  <2>4. g[i - 1] = AppendFrame(frames[i]) ++ g[i]
    BY <1>5 DEF FramesLeft
  <2>5. e[j] = g[i]
    BY <1>8, <2>1, <2>2
  <2>6. all[j] = frames[i]
    BY <1>3, <2>2
  <2> QED BY <2>1, <2>2, <2>3, <2>4, <2>5, <2>6
<1>9. Nat \subseteq S
  <2>1. \A k \in Nat : k \in S => k + 1 \in S
    BY <1>8
  <2> HIDE DEF S
  <2> QED BY <1>7, <2>1, Induction
<1>10. e[1] = g[0]
  <2>1. n \in S /\ m - n = 1 /\ n - n = 0
    BY <1>4, <1>9
  <2> QED BY <2>1
<1>11. e[0] = AppendFrame(first) ++ e[1]
  <2>1. 1 \in 1 .. m /\ 1 - 1 = 0
    BY <1>4
  <2> QED BY <1>3, <1>6, <2>1 DEF FramesLeft
<1>12. IsBytes(g[0]) /\ g[0] = Bytes(frames) /\ e[0] = Bytes(all)
  <2>1. 0 \in 0 .. n
    OBVIOUS
  <2> QED BY <1>5, <1>6, <2>1 DEF FramesLeft
<1>13. IsBytes(AppendFrame(first))
  <2>1. Writable(first)
    OBVIOUS
  <2> QED BY <2>1, FrameRoundTrip DEF ReadBack, IsBytes
<1> QED BY <1>2, <1>3, <1>10, <1>11, <1>12, <1>13

(* A larger number is not written shorter.                                 *)
LEMMA VarintLenGrows ==
  ASSUME NEW a \in Nat, NEW b \in Nat, a <= b
  PROVE  VarintLen(a) \in Nat /\ VarintLen(b) \in Nat /\ VarintLen(a) <= VarintLen(b)
BY DEF VarintLen

(* The length of bytes, and of bytes joined.                               *)
LEMMA JoinedLen ==
  \A x, y : IsBytes(x) /\ IsBytes(y) => Len(x) \in Nat /\ Len(y) \in Nat /\ Len(x ++ y) = Len(x) + Len(y)
BY ConcatProperties, LenProperties DEF IsBytes, ++

(* The bytes of a STREAM frame, besides its data. *)
LEMMA StreamLen ==
  ASSUME NEW id \in Number, NEW off \in Number, NEW data \in Field, NEW fin \in BOOLEAN
  PROVE  Len(AppendFrame(StreamFrame(id, off, data, fin, TRUE))) =
           1 + VarintLen(id) + If(off > 0, VarintLen(off)) + VarintLen(Len(data)) + Len(data)
<1>1. PICK f : f = StreamFrame(id, off, data, fin, TRUE)
  OBVIOUS
<1>2. /\ f.type = 8 /\ f.id = id /\ f.off = off /\ f.data = data /\ f.fin = fin
      /\ f.lenPresent = TRUE
  BY <1>1 DEF StreamFrame
<1>3. PICK x : x = 8 + If(f.off > 0, 4) + If(f.lenPresent, 2) + If(f.fin, 1)
  OBVIOUS
<1>4. x \in Byte
  <2>1. PICK far \in BOOLEAN : far <=> off > 0
    OBVIOUS
  <2>2. PICK y : y = 8 + If(far, 4) + 2 + If(fin, 1) /\ y \in Byte
    BY Flags
  <2>3. If(f.off > 0, 4) = If(far, 4) /\ If(f.fin, 1) = If(fin, 1) /\ If(f.lenPresent, 2) = 2
    BY <1>2, <2>1 DEF If
  <2> QED BY <1>3, <2>2, <2>3
<1>5. PICK h : h = <<x>> /\ IsBytes(h) /\ Len(h) = 1
  <2>1. IsBytes(<<x>>) /\ Len(<<x>>) = 1
    BY <1>4, JoinedOne
  <2> QED BY <2>1
<1>6. PICK c : c = Varint(id) /\ IsBytes(c) /\ Len(c) = VarintLen(id)
  BY VarintTyped DEF IsBytes
<1>7. PICK z : /\ z = IF off > 0 THEN Varint(off) ELSE <<>>
               /\ IsBytes(z) /\ Len(z) = If(off > 0, VarintLen(off))
  <2>1. CASE off > 0
    BY <2>1, VarintTyped DEF IsBytes, If
  <2>2. CASE ~(off > 0)
    <3>1. IsBytes(<<>>) /\ Len(<<>>) = 0
      BY JoinedNone
    <3> QED BY <2>2, <3>1 DEF If
  <2> QED BY <2>1, <2>2
<1>8. data \in Seq(Byte) /\ Len(data) \in Number
  <2>1. data \in Seq(Byte) /\ Len(data) <= MaxVarint
    BY DEF Field
  <2> QED BY <2>1, CountedTyped
<1>9. PICK k : k = Varint(Len(data)) /\ IsBytes(k) /\ Len(k) = VarintLen(Len(data))
  BY <1>8, VarintTyped DEF IsBytes
<1>10. PICK d : d = k ++ data /\ IsBytes(d) /\ Len(d) = Len(k) + Len(data)
  BY <1>8, <1>9, Joined2, JoinedLen DEF IsBytes
<1>11. AppendFrame(f) = ((h ++ c) ++ z) ++ d
  <2>1. AppendFrame(f) = AppendStream(f)
    BY <1>2 DEF AppendFrame
  <2>2. d = (IF f.lenPresent THEN Counted(f.data) ELSE f.data)
    BY <1>2, <1>9, <1>10 DEF Counted, ++
  <2>3. z = (IF f.off > 0 THEN Varint(f.off) ELSE <<>>)
    BY <1>2, <1>7
  <2>4. AppendStream(f) = ((<<x>> \o Varint(f.id)) \o z) \o d
    BY <1>3, <2>2, <2>3 DEF AppendStream
  <2> QED BY <1>2, <1>5, <1>6, <2>1, <2>4 DEF ++
<1>12. PICK hc : hc = h ++ c /\ IsBytes(hc) /\ Len(hc) = Len(h) + Len(c)
  BY <1>5, <1>6, Joined2, JoinedLen
<1>13. PICK hcz : hcz = hc ++ z /\ IsBytes(hcz) /\ Len(hcz) = Len(hc) + Len(z)
  BY <1>7, <1>12, Joined2, JoinedLen
<1>14. Len(hcz ++ d) = Len(hcz) + Len(d)
  BY <1>10, <1>13, JoinedLen
<1>15. PICK n \in Nat, v \in Nat, w \in Nat, o \in Nat :
          n = Len(data) /\ v = VarintLen(id) /\ w = VarintLen(Len(data)) /\ o = If(off > 0, VarintLen(off))
  <2>1. Len(c) \in Nat /\ Len(z) \in Nat /\ Len(k) \in Nat
    BY <1>6, <1>7, <1>9, LenProperties DEF IsBytes
  <2>2. Len(data) \in Nat
    BY <1>8, LenProperties
  <2> QED BY <1>6, <1>7, <1>9, <2>1, <2>2
<1>16. Len(d) = w + n
  BY <1>9, <1>10, <1>15
<1>17. Len(hc) = 1 + v
  BY <1>5, <1>6, <1>12, <1>15
<1>18. Len(hcz) = 1 + v + o
  BY <1>7, <1>13, <1>15, <1>17
<1>19. Len(((h ++ c) ++ z) ++ d) = 1 + v + o + w + n
  <2>1. ((h ++ c) ++ z) ++ d = hcz ++ d
    BY <1>12, <1>13
  <2>2. Len(hcz ++ d) = 1 + v + o + (w + n)
    BY <1>14, <1>16, <1>18
  <2> QED BY <1>15, <2>1, <2>2
<1>20. Len(AppendFrame(f)) = 1 + v + o + w + n
  BY <1>11, <1>19
<1> QED BY <1>1, <1>15, <1>20

OverheadParts(f, id, off, data, c, v, o, w, n) ==
  /\ c = Len(DestConnID) /\ v = VarintLen(id) /\ o = If(off > 0, VarintLen(off))
  /\ w = VarintLen(Len(data)) /\ n = Len(data)
  /\ Overhead(f) = 1 + c + 4 + 1 + v + o + w

(* The bytes of the packet of a STREAM frame, besides its data. *)
LEMMA StreamOverhead ==
  ASSUME NEW id \in Number, NEW off \in Number, NEW data \in Field, NEW fin \in BOOLEAN,
         NEW f, f = StreamFrame(id, off, data, fin, TRUE)
  PROVE  \E c \in Nat, v \in Nat, o \in Nat, w \in Nat, n \in Nat :
           OverheadParts(f, id, off, data, c, v, o, w, n)
<1>1. f.id = id /\ f.off = off /\ f.data = data
  BY DEF StreamFrame
<1>2. PICK n \in Nat : n = Len(data)
  <2>1. data \in Seq(Byte)
    BY DEF Field
  <2> QED BY <2>1, LenProperties
<1>3. PICK c \in Nat : c = Len(DestConnID)
  BY PacketAssumption, LenProperties
<1>4. id \in Nat /\ off \in Nat
  BY NumberIff
<1>5. VarintLen(id) \in Nat /\ VarintLen(off) \in Nat /\ VarintLen(n) \in Nat
  BY <1>2, <1>4, VarintLenGrows
<1>6. PICK v \in Nat, w \in Nat : v = VarintLen(id) /\ w = VarintLen(Len(data))
  BY <1>2, <1>5
<1>7. PICK o \in Nat : o = If(off > 0, VarintLen(off))
  BY <1>5 DEF If
<1>8. Overhead(f) = 1 + Len(DestConnID) + 4 + 1 + VarintLen(id) + If(off > 0, VarintLen(off)) + VarintLen(Len(data))
  BY <1>1, Zenon DEF Overhead
<1>9. Overhead(f) = 1 + c + 4 + 1 + v + o + w
  BY <1>3, <1>6, <1>7, <1>8
<1>10. OverheadParts(f, id, off, data, c, v, o, w, n)
  BY <1>2, <1>3, <1>6, <1>7, <1>9 DEF OverheadParts
<1> QED BY <1>10, Zenon

CutStream(f, id, off, data, fin, rest) ==
  /\ rest \in Field /\ Truncated(f) = StreamFrame(id, off, rest, fin, TRUE) /\ Len(rest) <= Len(data)
  /\ Overhead(f) <= MaxPacketSize => Len(rest) <= MaxPacketSize - Overhead(f)

(* What sendFrame cuts off a STREAM frame leaves one. *)
LEMMA TruncatedStream ==
  ASSUME NEW id \in Number, NEW off \in Number, NEW data \in Field, NEW fin \in BOOLEAN,
         NEW f, f = StreamFrame(id, off, data, fin, TRUE)
  PROVE  \E rest : CutStream(f, id, off, data, fin, rest)
<1>1. /\ f.type = 8 /\ f.data = data
  BY DEF StreamFrame
<1>2. data \in Seq(Byte) /\ Len(data) \in Nat /\ Len(data) <= MaxVarint /\ MaxVarint \in Nat
  <2>1. data \in Seq(Byte) /\ Len(data) <= MaxVarint
    BY DEF Field
  <2> QED BY <2>1, NumberIff, LenProperties
<1>3. PICK c \in Int : c = Overhead(f)
  <2>1. PICK x \in Nat, v \in Nat, o \in Nat, w \in Nat, n \in Nat :
           OverheadParts(f, id, off, data, x, v, o, w, n)
    BY StreamOverhead
  <2>2. Overhead(f) = 1 + x + 4 + 1 + v + o + w
    BY <2>1, Zenon DEF OverheadParts
  <2>3. 1 + x + 4 + 1 + v + o + w \in Int
    BY <2>1
  <2> QED BY <2>2, <2>3
<1>4. PICK max \in Nat, room \in Int : max = MaxPacketSize /\ room = max - c
  <2>1. PICK max \in Nat : max = MaxPacketSize
    BY PacketAssumption
  <2>2. max - c \in Int
    <3>1. \A x \in Nat, y \in Int : x - y \in Int
      OBVIOUS
    <3> QED BY <3>1, Zenon
  <2> QED BY <2>1, <2>2
<1>5. room = MaxPacketSize - Overhead(f)
  BY <1>3, <1>4
<1>6. CASE Len(data) <= room
  <2>1. Truncated(f) = f
    BY <1>1, <1>5, <1>6 DEF Truncated
  <2>2. Truncated(f) = StreamFrame(id, off, data, fin, TRUE)
    BY <2>1
  <2>3. Len(data) <= Len(data)
    BY <1>2
  <2>4. Overhead(f) <= MaxPacketSize => Len(data) <= MaxPacketSize - Overhead(f)
    BY <1>5, <1>6
  <2>5. CutStream(f, id, off, data, fin, data)
    BY <2>2, <2>3, <2>4, Zenon DEF CutStream
  <2> QED BY <2>5, Zenon
<1>7. CASE ~(Len(data) <= room)
  <2>1. PICK m \in Nat : m = (IF room < 0 THEN 0 ELSE room) /\ m <= Len(data)
    BY <1>2, <1>7
  <2>2. PICK rest : rest = SubSeq(data, 1, m)
    OBVIOUS
  <2>3. rest \in Seq(Byte) /\ Len(rest) = m
    <3>1. \A i \in 1 .. m : data[i] \in Byte
      BY <1>2, <2>1, ElementOfSeq
    <3>2. /\ SubSeq(data, 1, m) \in Seq(Byte)
          /\ Len(SubSeq(data, 1, m)) = IF 1 <= m THEN m - 1 + 1 ELSE 0
      BY <3>1, SubSeqProperties
    <3> QED BY <2>2, <3>2
  <2>4. rest \in Field
    BY <1>2, <2>1, <2>3 DEF Field
  <2>5. Truncated(f) = StreamFrame(f.id, f.off, rest, f.fin, TRUE)
    <3>1. ~(f.type # 8 \/ Len(f.data) <= MaxPacketSize - Overhead(f))
      BY <1>1, <1>7, <1>5
    <3>2. rest = SubSeq(f.data, 1, IF MaxPacketSize - Overhead(f) < 0 THEN 0 ELSE MaxPacketSize - Overhead(f))
      BY <1>1, <1>5, <2>1, <2>2
    <3> QED BY <3>1, <3>2, Zenon DEF Truncated
  <2>6. f.id = id /\ f.off = off /\ f.fin = fin
    BY DEF StreamFrame
  <2>7. Overhead(f) <= MaxPacketSize => Len(rest) <= MaxPacketSize - Overhead(f)
    <3>1. Overhead(f) <= MaxPacketSize => room >= 0
      <4>1. \A x \in Nat, y \in Int : y <= x => x - y >= 0
        OBVIOUS
      <4> QED BY <1>3, <1>4, <4>1, Zenon
    <3>2. room >= 0 => m <= room
      BY <2>1
    <3> QED BY <1>5, <2>3, <3>1, <3>2
  <2>8. Truncated(f) = StreamFrame(id, off, rest, fin, TRUE)
    BY <2>5, <2>6
  <2>9. Len(rest) <= Len(data)
    BY <2>1, <2>3
  <2>10. CutStream(f, id, off, data, fin, rest)
    BY <2>4, <2>7, <2>8, <2>9, Zenon DEF CutStream
  <2> QED BY <2>10, Zenon
<1> QED BY <1>6, <1>7

(* What is cut can be written, and what is no STREAM frame is not cut.     *)
LEMMA TruncatedWritable ==
  ASSUME NEW f, Writable(f)
  PROVE  Writable(Truncated(f)) /\ (~StreamWritable(f) => Truncated(f) = f)
<1>1. f.type # 8 => Truncated(f) = f
  BY DEF Truncated
<1>2. CASE StreamWritable(f)
  <2>1. PICK id \in Number, off \in Number, data \in Field, fin \in BOOLEAN :
           f = StreamFrame(id, off, data, fin, TRUE)
    BY <1>2 DEF StreamWritable
  <2>2. PICK rest : CutStream(f, id, off, data, fin, rest)
    BY <2>1, TruncatedStream
  <2>3. rest \in Field /\ Truncated(f) = StreamFrame(id, off, rest, fin, TRUE)
    BY <2>2, Zenon DEF CutStream
  <2>4. StreamWritable(Truncated(f))
    BY <2>3 DEF StreamWritable
  <2> QED BY <1>2, <2>4 DEF Writable
<1>3. CASE ~StreamWritable(f)
  <2>1. f.type # 8
    <3>1. CASE NumbersWritable(f)
      <4>1. PICK t \in DOMAIN NumberCount : \E nums : f = NumbersFrame(t, nums)
        BY <3>1 DEF NumbersWritable
      <4>2. PICK nums : f = NumbersFrame(t, nums)
        BY <4>1
      <4>3. f.type = t
        BY <4>2 DEF NumbersFrame
      <4> QED BY <4>3 DEF NumberCount
    <3>2. CASE AckWritable(f)
      BY <3>2 DEF AckWritable, AckFrameOf
    <3>3. CASE CloseWritable(f)
      BY <3>3 DEF CloseWritable, CloseFrame
    <3>4. CASE CryptoWritable(f)
      BY <3>4 DEF CryptoWritable
    <3>5. CASE PathWritable(f)
      <4>1. PICK t \in {26, 27} : \E data : f = [type |-> t, data |-> data]
        BY <3>5 DEF PathWritable
      <4> QED BY <4>1
    <3> QED BY <1>3, <3>1, <3>2, <3>3, <3>4, <3>5 DEF Writable
  <2> QED BY <1>1, <1>3, <2>1
<1> QED BY <1>2, <1>3

(* A STREAM frame fits a packet of its own when its header does. *)
LEMMA TruncatedFits ==
  ASSUME NEW f, StreamWritable(f), Overhead(f) <= MaxPacketSize
  PROVE  1 + Len(DestConnID) + 4 + Len(AppendFrame(Truncated(f))) <= MaxPacketSize
<1>1. PICK id \in Number, off \in Number, data \in Field, fin \in BOOLEAN :
         f = StreamFrame(id, off, data, fin, TRUE)
  BY DEF StreamWritable
<1>2. PICK rest : CutStream(f, id, off, data, fin, rest)
  BY <1>1, TruncatedStream
<1>3. /\ rest \in Field /\ Truncated(f) = StreamFrame(id, off, rest, fin, TRUE) /\ Len(rest) <= Len(data)
      /\ Len(rest) <= MaxPacketSize - Overhead(f)
  BY <1>2, Zenon DEF CutStream
<1>4. PICK c \in Nat, v \in Nat, o \in Nat, w \in Nat, n \in Nat :
         OverheadParts(f, id, off, data, c, v, o, w, n)
  BY <1>1, StreamOverhead
<1>5. /\ c = Len(DestConnID) /\ v = VarintLen(id) /\ o = If(off > 0, VarintLen(off))
       /\ w = VarintLen(Len(data)) /\ n = Len(data)
       /\ Overhead(f) = 1 + c + 4 + 1 + v + o + w
  BY <1>4, Zenon DEF OverheadParts
<1>6. PICK l \in Nat : l = Len(rest)
  <2>1. rest \in Seq(Byte)
    BY <1>3 DEF Field
  <2> QED BY <2>1, LenProperties
<1>7. PICK u \in Nat : u = VarintLen(Len(rest)) /\ u <= w
  BY <1>3, <1>5, <1>6, VarintLenGrows
<1>8. Len(AppendFrame(Truncated(f))) = 1 + v + o + u + l
  <2>1. Len(AppendFrame(StreamFrame(id, off, rest, fin, TRUE))) =
          1 + VarintLen(id) + If(off > 0, VarintLen(off)) + VarintLen(Len(rest)) + Len(rest)
    BY <1>3, StreamLen
  <2>2. AppendFrame(Truncated(f)) = AppendFrame(StreamFrame(id, off, rest, fin, TRUE))
    BY <1>3
  <2> QED BY <1>5, <1>6, <1>7, <2>1, <2>2
<1>9. PICK max \in Nat : max = MaxPacketSize
  BY PacketAssumption
<1>10. l <= max - (1 + c + 4 + 1 + v + o + w)
  BY <1>3, <1>5, <1>6, <1>9
<1>11. 1 + c + 4 + (1 + v + o + u + l) <= max
  BY <1>7, <1>10
<1> QED BY <1>5, <1>8, <1>9, <1>11

-----------------------------------------------------------------------------
(* Bytes put in place, and the header of an Initial packet *)

(* The bytes of x, then those of y.                                        *)
Concatenated(x, y, b) ==
  /\ Len(x) \in Nat /\ Len(y) \in Nat /\ Len(b) = Len(x) + Len(y)
  /\ \A i \in 1 .. Len(x) : b[i] = x[i]
  /\ \A i \in 1 .. Len(y) : b[Len(x) + i] = y[i]

(* Joined bytes are these.                                                 *)
LEMMA JoinedAt ==
  ASSUME NEW x, NEW y, IsBytes(x), IsBytes(y), NEW b, b = x ++ y
  PROVE  IsBytes(b) /\ Concatenated(x, y, b)
<1>1. x \in Seq(Byte) /\ y \in Seq(Byte)
  BY DEF IsBytes
<1>2. PICK m \in Nat, n \in Nat : m = Len(x) /\ n = Len(y)
  BY <1>1, LenProperties
<1>3. /\ b \in Seq(Byte) /\ Len(b) = m + n
      /\ \A i \in 1 .. m + n : b[i] = IF i <= m THEN x[i] ELSE y[i - m]
  <2>1. /\ x \o y \in Seq(Byte) /\ Len(x \o y) = Len(x) + Len(y)
        /\ \A i \in 1 .. Len(x) + Len(y) : (x \o y)[i] = IF i <= Len(x) THEN x[i] ELSE y[i - Len(x)]
    BY <1>1, ConcatProperties
  <2>2. b = x \o y
    BY DEF ++
  <2> QED BY <1>2, <2>1, <2>2
<1>4. \A i \in 1 .. m : b[i] = x[i]
  <2>1. \A i \in 1 .. m : i \in 1 .. m + n /\ i <= m
    OBVIOUS
  <2> QED BY <1>3, <2>1
<1>5. ASSUME NEW i \in 1 .. n PROVE b[m + i] = y[i]
  <2>1. PICK k \in 1 .. m + n : k = m + i /\ ~(k <= m) /\ k - m = i
    <3>1. m + i \in 1 .. m + n /\ ~(m + i <= m) /\ (m + i) - m = i
      OBVIOUS
    <3> QED BY <3>1
  <2> QED BY <1>3, <2>1
<1> QED BY <1>2, <1>3, <1>4, <1>5 DEF IsBytes, Concatenated

(* Two bytes.                                                              *)
LEMMA TwoBytes ==
  ASSUME NEW u \in Byte, NEW v \in Byte, NEW q, q = <<u, v>>
  PROVE  IsBytes(q) /\ Len(q) = 2 /\ q[1] = u /\ q[2] = v
BY DEF IsBytes

(* Two bytes written over.                                                 *)
LEMMA Overwritten ==
  ASSUME NEW p, NEW t, IsBytes(p), IsBytes(t),
         NEW m \in Byte, NEW n \in Byte, NEW u \in Byte, NEW v \in Byte,
         NEW q, q = <<m, n>>, NEW s, s = <<u, v>>,
         NEW b, b = p ++ (q ++ t), NEW k, k = Len(p) + 1
  PROVE  [b EXCEPT ![k] = u, ![k + 1] = v] = p ++ (s ++ t)
<1>1. /\ IsBytes(q) /\ Len(q) = 2 /\ q[1] = m /\ q[2] = n
      /\ IsBytes(s) /\ Len(s) = 2 /\ s[1] = u /\ s[2] = v
  BY TwoBytes
<1>2. PICK qt : qt = q ++ t /\ IsBytes(qt) /\ Concatenated(q, t, qt)
  BY <1>1, JoinedAt
<1>3. PICK st : st = s ++ t /\ IsBytes(st) /\ Concatenated(s, t, st)
  BY <1>1, JoinedAt
<1>4. IsBytes(b) /\ Concatenated(p, qt, b)
  BY <1>2, JoinedAt
<1>5. PICK c : c = p ++ st /\ IsBytes(c) /\ Concatenated(p, st, c)
  BY <1>3, JoinedAt
<1>6. PICK x \in Nat, y \in Nat : x = Len(p) /\ y = Len(t)
  BY LenProperties DEF IsBytes
<1>7. k \in Nat /\ k = x + 1
  BY <1>6
<1>8. /\ Len(b) = x + (2 + y) /\ Len(c) = x + (2 + y)
      /\ \A i \in 1 .. x : b[i] = p[i] /\ c[i] = p[i]
      /\ \A i \in 1 .. 2 + y : b[x + i] = qt[i] /\ c[x + i] = st[i]
      /\ st[1] = u /\ st[2] = v
      /\ \A i \in 1 .. y : qt[2 + i] = t[i] /\ st[2 + i] = t[i]
  <2>1. /\ Len(qt) = 2 + y /\ Len(st) = 2 + y
        /\ \A i \in 1 .. 2 : st[i] = s[i]
        /\ \A i \in 1 .. y : qt[2 + i] = t[i] /\ st[2 + i] = t[i]
    BY <1>1, <1>2, <1>3, <1>6 DEF Concatenated
  <2>2. st[1] = u /\ st[2] = v
    BY <1>1, <2>1
  <2>3. /\ Len(b) = x + Len(qt) /\ Len(c) = x + Len(st)
        /\ \A i \in 1 .. x : b[i] = p[i] /\ c[i] = p[i]
        /\ \A i \in 1 .. Len(qt) : b[x + i] = qt[i]
        /\ \A i \in 1 .. Len(st) : c[x + i] = st[i]
    BY <1>4, <1>5, <1>6 DEF Concatenated
  <2> QED BY <2>1, <2>2, <2>3
<1>9. PICK d : d = [b EXCEPT ![k] = u]
  OBVIOUS
<1>10. b \in Seq(Byte) /\ c \in Seq(Byte)
  BY <1>4, <1>5 DEF IsBytes
<1>11. /\ d \in Seq(Byte) /\ Len(d) = Len(b)
       /\ \A i \in 1 .. Len(b) : d[i] = IF i = k THEN u ELSE b[i]
  <2>1. k \in 1 .. Len(b)
    BY <1>6, <1>7, <1>8
  <2> QED BY <1>9, <1>10, <2>1, ExceptSeq
<1>12. PICK e : e = [d EXCEPT ![k + 1] = v]
  OBVIOUS
<1>13. /\ e \in Seq(Byte) /\ Len(e) = Len(b)
       /\ \A i \in 1 .. Len(b) : e[i] = IF i = k + 1 THEN v ELSE d[i]
  <2>1. k + 1 \in 1 .. Len(d)
    BY <1>6, <1>7, <1>8, <1>11
  <2> QED BY <1>11, <1>12, <2>1, ExceptSeq
<1>14. e = [b EXCEPT ![k] = u, ![k + 1] = v]
  BY <1>9, <1>12
<1>15. ASSUME NEW i \in 1 .. x + (2 + y) PROVE e[i] = c[i]
  <2>1. /\ e[i] = IF i = k + 1 THEN v ELSE d[i]
        /\ d[i] = IF i = k THEN u ELSE b[i]
    <3>1. i \in 1 .. Len(b)
      BY <1>8
    <3>2. e[i] = IF i = k + 1 THEN v ELSE d[i]
      BY <1>13, <3>1
    <3>3. d[i] = IF i = k THEN u ELSE b[i]
      BY <1>11, <3>1
    <3> QED BY <3>2, <3>3
  <2>2. CASE i <= x
    <3>1. i \in 1 .. x /\ i # k /\ i # k + 1
      BY <1>7, <2>2
    <3>2. b[i] = p[i] /\ c[i] = p[i]
      BY <1>8, <3>1
    <3> QED BY <2>1, <3>1, <3>2
  <2>3. CASE i = x + 1
    BY <1>7, <1>8, <2>1, <2>3
  <2>4. CASE i = x + 2
    BY <1>7, <1>8, <2>1, <2>4
  <2>5. CASE i > x + 2
    <3>1. PICK j \in 1 .. y : i = x + (2 + j)
      <4>1. i - x - 2 \in 1 .. y /\ i = x + (2 + (i - x - 2))
        BY <2>5
      <4> QED BY <4>1
    <3>2. PICK l \in 1 .. 2 + y : l = 2 + j
      OBVIOUS
    <3>3. b[i] = qt[l] /\ c[i] = st[l]
      BY <1>8, <3>1, <3>2
    <3>4. qt[l] = st[l]
      BY <1>8, <3>2
    <3>5. e[i] = b[i]
      BY <1>7, <2>1, <2>5
    <3> QED BY <3>3, <3>4, <3>5
  <2> QED BY <2>2, <2>3, <2>4, <2>5
<1>16. e = c
  BY <1>8, <1>10, <1>13, <1>15, SeqEqual
<1> QED BY <1>3, <1>5, <1>14, <1>16

(* What stands before the length of an Initial packet, and behind it.      *)
InitialStart == <<195, 0, 0, 0, 1>>
InitialIDs == <<Len(DestConnID)>> ++ (DestConnID ++ (<<Len(SrcConnID)>> ++ SrcConnID))
InitialHead == InitialStart ++ InitialIDs
InitialTail(pn, s) == <<0>> ++ (BigEndian(Truncate(4, pn), 4) ++ s)

(* A connection ID has a length of one byte.                               *)
ShortIDs == Len(DestConnID) <= 255 /\ Len(SrcConnID) <= 255

(* The parts of the header, and where its lengths stand.                   *)
LEMMA StartBytes ==
  /\ IsBytes(InitialStart) /\ Len(InitialStart) = 5
  /\ InitialStart[1] = 195 /\ InitialStart[2] = 0 /\ InitialStart[3] = 0
  /\ InitialStart[4] = 0 /\ InitialStart[5] = 1
<1>1. 195 \in Byte /\ 0 \in Byte /\ 1 \in Byte
  BY DEF Byte
<1> QED BY <1>1 DEF InitialStart, IsBytes

(* The connection IDs are bytes, and so are their lengths.                 *)
LEMMA IDsBytes ==
  ASSUME ShortIDs
  PROVE  /\ Len(DestConnID) \in Byte /\ Len(SrcConnID) \in Byte
         /\ IsBytes(DestConnID) /\ IsBytes(SrcConnID)
<1>1. DestConnID \in Seq(Byte) /\ SrcConnID \in Seq(Byte)
  BY PacketAssumption
<1>2. Len(DestConnID) \in Nat /\ Len(SrcConnID) \in Nat
  BY <1>1, LenProperties
<1>3. Len(DestConnID) \in Byte /\ Len(SrcConnID) \in Byte
  <2>1. \A n \in Nat : n <= 255 => n \in Byte
    BY DEF Byte
  <2>2. Len(DestConnID) <= 255 /\ Len(SrcConnID) <= 255
    BY DEF ShortIDs
  <2> QED BY <1>2, <2>1, <2>2
<1> QED BY <1>1, <1>3 DEF IsBytes

(* One byte.                                                               *)
LEMMA OneByte == \A x \in Byte : IsBytes(<<x>>) /\ Len(<<x>>) = 1 /\ <<x>>[1] = x
BY DEF IsBytes

(* Where the lengths of the connection IDs stand in the header.            *)
LEMMA HeadBytes ==
  ASSUME ShortIDs, NEW r, IsBytes(r), NEW b, b = InitialHead ++ r
  PROVE  /\ IsBytes(InitialHead) /\ IsBytes(InitialIDs)
         /\ Len(InitialHead) = 7 + Len(DestConnID) + Len(SrcConnID)
         /\ b[1] = 195 /\ b[6] = Len(DestConnID) /\ b[7 + Len(DestConnID)] = Len(SrcConnID)
<1>1. PICK h : h = InitialStart /\ IsBytes(h) /\ Len(h) = 5 /\ h[1] = 195
  BY StartBytes
<1>2. PICK m \in Byte, n \in Byte : m = Len(DestConnID) /\ n = Len(SrcConnID)
  BY IDsBytes
<1>3. PICK d, s : /\ m = Len(DestConnID) /\ n = Len(SrcConnID) /\ d = DestConnID
                  /\ s = SrcConnID /\ IsBytes(d) /\ IsBytes(s)
  BY <1>2, IDsBytes
<1>4. PICK x, y : /\ x = <<m>> /\ IsBytes(x) /\ Len(x) = 1 /\ x[1] = m
                  /\ y = <<n>> /\ IsBytes(y) /\ Len(y) = 1 /\ y[1] = n
  BY OneByte
<1>5. PICK ys : ys = y ++ s /\ IsBytes(ys) /\ Concatenated(y, s, ys)
  BY <1>3, <1>4, JoinedAt
<1>6. PICK dys : dys = d ++ ys /\ IsBytes(dys) /\ Concatenated(d, ys, dys)
  BY <1>3, <1>5, JoinedAt
<1>7. PICK ids : ids = x ++ dys /\ IsBytes(ids) /\ Concatenated(x, dys, ids)
  BY <1>4, <1>6, JoinedAt
<1>8. PICK p : p = h ++ ids /\ IsBytes(p) /\ Concatenated(h, ids, p)
  BY <1>1, <1>7, JoinedAt
<1>9. ids = InitialIDs /\ p = InitialHead
  BY <1>1, <1>3, <1>4, <1>5, <1>6, <1>7, <1>8 DEF InitialIDs, InitialHead
<1>10. Concatenated(p, r, b)
  BY <1>8, <1>9, JoinedAt
<1>11. m \in Nat /\ n \in Nat
  BY DEF Byte
<1>12. Len(ys) = 1 + n /\ ys[1] = n
  <2>1. 1 \in 1 .. Len(y)
    BY <1>4
  <2> QED BY <1>3, <1>4, <1>5, <2>1 DEF Concatenated
<1>13. Len(dys) = m + (1 + n) /\ dys[m + 1] = n
  <2>1. 1 \in 1 .. Len(ys)
    BY <1>11, <1>12
  <2> QED BY <1>3, <1>6, <1>12, <2>1 DEF Concatenated
<1>14. Len(ids) = 1 + (m + (1 + n)) /\ ids[1] = m /\ ids[1 + (m + 1)] = n
  <2>1. 1 \in 1 .. Len(x) /\ m + 1 \in 1 .. Len(dys)
    BY <1>4, <1>11, <1>13
  <2> QED BY <1>4, <1>7, <1>13, <2>1 DEF Concatenated
<1>15. Len(p) = 5 + (1 + (m + (1 + n))) /\ p[1] = 195 /\ p[5 + 1] = m /\ p[5 + (1 + (m + 1))] = n
  <2>1. 1 \in 1 .. Len(h) /\ 1 \in 1 .. Len(ids) /\ 1 + (m + 1) \in 1 .. Len(ids)
    BY <1>1, <1>11, <1>14
  <2> QED BY <1>1, <1>8, <1>14, <2>1 DEF Concatenated
<1>16. 5 + 1 = 6 /\ 5 + (1 + (m + 1)) = 7 + m /\ 5 + (1 + (m + (1 + n))) = 7 + m + n
  BY <1>11
<1>17. Len(p) = 7 + m + n /\ p[1] = 195 /\ p[6] = m /\ p[7 + m] = n
  BY <1>15, <1>16
<1>18. b[1] = 195 /\ b[6] = m /\ b[7 + m] = n
  <2>1. 1 \in 1 .. Len(p) /\ 6 \in 1 .. Len(p) /\ 7 + m \in 1 .. Len(p)
    BY <1>11, <1>17
  <2> QED BY <1>10, <1>17, <2>1 DEF Concatenated
<1> QED BY <1>3, <1>7, <1>8, <1>9, <1>17, <1>18

(* No token: its length is zero.                                           *)
LEMMA VarintNone == Varint(0) = <<0>>
<1>1. PICK t, left : Tagged(0, t, left)
  <2>1. 0 \in Nat /\ 0 <= MaxVarint
    BY NumberIff
  <2> QED BY <2>1, VarintTagged
<1>2. VarintLen(0) = 1
  BY VarintLens
<1>3. PICK c : c = Varint(0)
  OBVIOUS
<1>4. c \in Seq(Byte) /\ Len(c) = 1 /\ c[1] = left[0] + 64 * t
  <2>1. c \in Seq(Byte) /\ Len(c) = VarintLen(0) /\ c[1] = left[VarintLen(0) - 1] + 64 * t
    <3>1. 0 \in Nat
      OBVIOUS
    <3> QED BY <1>1, <1>3, <3>1, VarintBytes
  <2>2. VarintLen(0) - 1 = 0
    BY <1>2
  <2> QED BY <1>2, <2>1, <2>2
<1>5. left[0] = 0 /\ t \in 0 .. 3 /\ Widths[t + 1] = 1
  BY <1>1, <1>2 DEF Tagged, Shifted
<1>6. t = 0
  BY <1>5 DEF Widths
<1>7. c[1] = 0
  BY <1>4, <1>5, <1>6
<1>8. c = <<0>>
  BY <1>4, <1>7
<1> QED BY <1>3, <1>8

(* One byte, two bytes, and two bytes written into others.                 *)
Two(u, v) == <<u, v>>
Only(u) == <<u>>
Put(b, k, u, v) == [b EXCEPT ![k] = u, ![k + 1] = v]

(* They are bytes.                                                         *)
LEMMA TwoTyped ==
  ASSUME NEW u \in Byte, NEW v \in Byte
  PROVE  IsBytes(Two(u, v)) /\ Len(Two(u, v)) = 2 /\ Two(u, v)[1] = u /\ Two(u, v)[2] = v
BY TwoBytes DEF Two

(* Two bytes of many are replaced.                                         *)
LEMMA PutOver ==
  ASSUME NEW p, NEW t, IsBytes(p), IsBytes(t),
         NEW m \in Byte, NEW n \in Byte, NEW u \in Byte, NEW v \in Byte
  PROVE  Put(p ++ (Two(m, n) ++ t), Len(p) + 1, u, v) = p ++ (Two(u, v) ++ t)
BY Overwritten DEF Put, Two

(* An Initial packet before its length is set.                             *)
InitialBytes(pn, s) == AppendInitialHeader(pn, 4) \o s

(* What stands behind the length: the token length, the number, the        *)
(* frames.                                                                 *)
LEMMA TailBytes ==
  ASSUME NEW pn \in Nat, NEW s, IsBytes(s)
  PROVE  /\ IsBytes(BigEndian(Truncate(4, pn), 4)) /\ Len(BigEndian(Truncate(4, pn), 4)) = 4
         /\ IsBytes(InitialTail(pn, s)) /\ Len(InitialTail(pn, s)) = 5 + Len(s)
<1>1. PICK v \in Nat : v = Truncate(4, pn)
  <2>1. 4 \in Lengths
    BY DEF Lengths
  <2>2. PICK w \in Nat : w = Windows[4] /\ w > 0
    BY <2>1, WindowsAssumption
  <2>3. pn % w \in Nat
    BY <2>2
  <2> QED BY <2>2, <2>3 DEF Truncate
<1>2. PICK n : n = BigEndian(Truncate(4, pn), 4) /\ IsBytes(n) /\ Len(n) = 4
  BY <1>1, BigEndianBytes DEF IsBytes
<1>3. PICK z : z = <<0>> /\ IsBytes(z) /\ Len(z) = 1
  <2>1. 0 \in Byte
    BY DEF Byte
  <2> QED BY <2>1, OneByte
<1>4. PICK ns : ns = n ++ s /\ IsBytes(ns) /\ Concatenated(n, s, ns)
  BY <1>2, JoinedAt
<1>5. PICK t : t = z ++ ns /\ IsBytes(t) /\ Concatenated(z, ns, t)
  BY <1>3, <1>4, JoinedAt
<1>6. t = InitialTail(pn, s)
  BY <1>2, <1>3, <1>4, <1>5 DEF InitialTail
<1>7. PICK k \in Nat : k = Len(s)
  BY LenProperties DEF IsBytes
<1>8. Len(t) = 1 + (4 + k)
  BY <1>2, <1>3, <1>4, <1>5, <1>7 DEF Concatenated
<1> QED BY <1>2, <1>5, <1>6, <1>7, <1>8

(* The bytes of an empty token and of a length of zero: 0, 64, 0.          *)
LEMMA ZeroFirst ==
  ASSUME NEW y, IsBytes(y), NEW e, e = Only(0), NEW f, f = Two(64, 0), NEW q, q = Two(0, 64)
  PROVE  e ++ (f ++ y) = q ++ (e ++ y)
<1>1. 0 \in Byte /\ 64 \in Byte
  BY DEF Byte
<1>2. IsBytes(e)
  BY <1>1, OneByte DEF Only
<1>3. PICK k : k = <<64>> /\ IsBytes(k)
  BY <1>1, OneByte
<1>4. f = k ++ e /\ q = e ++ k
  BY <1>1, <1>3 DEF ++, Only, Two
<1>5. PICK r : r = e ++ y /\ IsBytes(r)
  BY <1>2, Joined2
<1>6. f ++ y = k ++ r
  BY <1>2, <1>3, <1>4, <1>5, Joined3
<1>7. q ++ r = e ++ (k ++ r)
  BY <1>2, <1>3, <1>4, <1>5, Joined3
<1> QED BY <1>5, <1>6, <1>7

(* The header as it is written, with the two bytes that SetLength replaces *)
(* apart.                                                                  *)
LEMMA HeaderWritten ==
  ASSUME ShortIDs, NEW pn \in Nat, NEW s, IsBytes(s)
  PROVE  InitialBytes(pn, s) = InitialHead ++ (Two(0, 64) ++ InitialTail(pn, s))
<1>1. PICK h : h = InitialStart /\ IsBytes(h)
  BY StartBytes
<1>2. PICK m \in Byte, n \in Byte : m = Len(DestConnID) /\ n = Len(SrcConnID)
  BY IDsBytes
<1>3. PICK d, c : /\ m = Len(DestConnID) /\ n = Len(SrcConnID) /\ d = DestConnID
                  /\ c = SrcConnID /\ IsBytes(d) /\ IsBytes(c)
  BY <1>2, IDsBytes
<1>4. PICK x, y : x = <<m>> /\ IsBytes(x) /\ y = <<n>> /\ IsBytes(y)
  BY OneByte
<1>5. PICK e, f, q : e = <<0>> /\ f = <<64, 0>> /\ q = <<0, 64>>
  OBVIOUS
<1>6. IsBytes(e) /\ IsBytes(f) /\ IsBytes(q)
  <2>1. 0 \in Byte /\ 64 \in Byte
    BY DEF Byte
  <2> QED BY <1>5, <2>1, OneByte, TwoBytes
<1>7. PICK nb : nb = BigEndian(Truncate(4, pn), 4) /\ IsBytes(nb)
  BY TailBytes
<1>8. AppendInitialHeader(pn, 4) \o s = ((((((((h ++ x) ++ d) ++ y) ++ c) ++ e) ++ f) ++ nb) ++ s)
  <2>1. <<192 + 4 - 1, 0, 0, 0, 1>> = h
    <3>1. 192 + 4 - 1 = 195
      OBVIOUS
    <3> QED BY <1>1, <3>1 DEF InitialStart
  <2> QED BY <1>3, <1>4, <1>5, <1>7, <2>1, VarintNone, Zenon DEF AppendInitialHeader, ++
<1>9. PICK hx : hx = h ++ x /\ IsBytes(hx)
  BY <1>1, <1>4, Joined2
<1>10. PICK ys : ys = y ++ c /\ IsBytes(ys)
  BY <1>3, <1>4, Joined2
<1>11. PICK dys : dys = d ++ ys /\ IsBytes(dys)
  BY <1>3, <1>10, Joined2
<1>12. ((hx ++ d) ++ y) ++ c = hx ++ dys
  BY <1>3, <1>4, <1>9, <1>10, <1>11, JoinedFour
<1>13. PICK g : g = h ++ (x ++ dys) /\ IsBytes(g)
  BY <1>1, <1>4, <1>11, Joined2
<1>14. hx ++ dys = g
  BY <1>1, <1>4, <1>9, <1>11, <1>13, Joined3
<1>15. g = InitialHead
  BY <1>1, <1>3, <1>4, <1>10, <1>11, <1>13 DEF InitialHead, InitialIDs
<1>16. PICK ge : ge = g ++ e /\ IsBytes(ge)
  BY <1>6, <1>13, Joined2
<1>17. PICK ns : ns = nb ++ s /\ IsBytes(ns)
  BY <1>7, Joined2
<1>18. ((ge ++ f) ++ nb) ++ s = ge ++ (f ++ ns)
  BY <1>6, <1>7, <1>16, <1>17, JoinedFour
<1>19. PICK fns : fns = f ++ ns /\ IsBytes(fns)
  BY <1>6, <1>17, Joined2
<1>20. ge ++ fns = g ++ (e ++ fns)
  BY <1>6, <1>13, <1>16, <1>19, Joined3
<1>21. e ++ fns = q ++ (e ++ ns)
  <2>1. e = Only(0) /\ f = Two(64, 0) /\ q = Two(0, 64)
    BY <1>5 DEF Only, Two
  <2> QED BY <2>1, <1>17, <1>19, ZeroFirst
<1>22. InitialTail(pn, s) = e ++ ns
  BY <1>5, <1>7, <1>17 DEF InitialTail
<1>23. AppendInitialHeader(pn, 4) \o s = ((ge ++ f) ++ nb) ++ s
  BY <1>8, <1>9, <1>12, <1>14, <1>16
<1>24. AppendInitialHeader(pn, 4) \o s = InitialHead ++ (q ++ InitialTail(pn, s))
  BY <1>15, <1>18, <1>19, <1>20, <1>21, <1>22, <1>23
<1>25. q = Two(0, 64)
  BY <1>5 DEF Two
<1> QED BY <1>24, <1>25 DEF InitialBytes

(* The first byte says 4 where Initial is 1: SetLength takes the packet    *)
(* for one without a token.                                                *)
LEMMA InitialSet ==
  ASSUME ShortIDs, NEW pn \in Nat, NEW s, IsBytes(s), NEW l \in Nat, l < 16384
  PROVE  /\ 64 + (l \div 256) \in Byte /\ l % 256 \in Byte
         /\ SetLength(InitialBytes(pn, s), l) =
              InitialHead ++ (Two(64 + (l \div 256), l % 256) ++ InitialTail(pn, s))
<1>1. PICK u \in Byte, v \in Byte : u = 64 + (l \div 256) /\ v = l % 256
  <2>1. PICK x \in Nat, y \in 0 .. 255 : x = l \div 256 /\ y = l % 256 /\ l = 256 * x + y
    BY ByteOf
  <2>2. x < 64
    BY <2>1
  <2>3. 64 + x \in Byte /\ y \in Byte
    BY <2>2 DEF Byte
  <2> QED BY <2>1, <2>3
<1>2. PICK t : t = InitialTail(pn, s) /\ IsBytes(t)
  BY TailBytes
<1>3. PICK q : q = Two(0, 64) /\ IsBytes(q) /\ 0 \in Byte /\ 64 \in Byte
  <2>1. 0 \in Byte /\ 64 \in Byte
    BY DEF Byte
  <2> QED BY <2>1, TwoTyped
<1>4. PICK qt : qt = q ++ t /\ IsBytes(qt)
  BY <1>2, <1>3, Joined2
<1>5. PICK p : p = InitialHead
  OBVIOUS
<1>6. PICK b : b = InitialBytes(pn, s) /\ b = p ++ qt
  <2>1. InitialBytes(pn, s) = InitialHead ++ (Two(0, 64) ++ InitialTail(pn, s))
    BY HeaderWritten
  <2> QED BY <1>2, <1>3, <1>4, <1>5, <2>1
<1>7. /\ IsBytes(p) /\ Len(p) = 7 + Len(DestConnID) + Len(SrcConnID)
      /\ b[1] = 195 /\ b[6] = Len(DestConnID) /\ b[7 + Len(DestConnID)] = Len(SrcConnID)
  BY <1>4, <1>5, <1>6, HeadBytes
<1>8. PICK m \in Nat, n \in Nat : m = Len(DestConnID) /\ n = Len(SrcConnID)
  BY IDsBytes, LenProperties DEF IsBytes
<1>9. AfterConnIDs(b) = 8 + m + n
  <2>1. b[6] = m /\ b[7 + b[6]] = n
    BY <1>7, <1>8
  <2> QED BY <2>1 DEF AfterConnIDs
<1>10. LengthAt(b) = AfterConnIDs(b)
  <2>1. 195 \div 16 = 12
    OBVIOUS
  <2>2. 12 % 8 = 4 /\ Initial # 4
    BY DEF Initial
  <2> QED BY <1>7, <2>1, <2>2 DEF LengthAt
<1>11. LengthAt(b) = Len(p) + 1
  <2>1. Len(p) + 1 = AfterConnIDs(b)
    BY <1>7, <1>8, <1>9
  <2> QED BY <1>10, <2>1
<1>12. SetLength(b, l) = Put(b, LengthAt(b), 64 + (l \div 256), l % 256)
  <2>1. \A c, len : SetLength(c, len) = Put(c, LengthAt(c), 64 + (len \div 256), len % 256)
    BY DEF SetLength, Put
  <2> QED BY <2>1
<1>13. Put(b, Len(p) + 1, u, v) = p ++ (Two(u, v) ++ t)
  <2>1. Put(p ++ (Two(0, 64) ++ t), Len(p) + 1, u, v) = p ++ (Two(u, v) ++ t)
    BY <1>2, <1>3, <1>7, PutOver
  <2> QED BY <1>3, <1>4, <1>6, <2>1
<1> QED BY <1>1, <1>2, <1>5, <1>6, <1>11, <1>12, <1>13

-----------------------------------------------------------------------------
(* Reading an Initial packet *)

(* The zeros of the padding: they are bytes, they are worth nothing.       *)
IsZeros(z) == z \in Seq({0})

(* The padding is zeros.                                                   *)
LEMMA PaddingZeros ==
  ASSUME NEW n \in Nat
  PROVE  IsZeros(Padding(n)) /\ Len(Padding(n)) = n
<1>1. PICK z : z = Padding(n)
  OBVIOUS
<1>2. z = [i \in 1 .. n |-> 0]
  BY <1>1 DEF Padding
<1>3. z \in [1 .. n -> {0}]
  BY <1>2
<1>4. z \in Seq({0})
  BY <1>3, SeqDef
<1>5. DOMAIN z = 1 .. n
  BY <1>2
<1>6. Len(z) = n
  BY <1>4, <1>5, LenProperties
<1> QED BY <1>1, <1>4, <1>6 DEF IsZeros

(* Zeros are bytes.                                                        *)
LEMMA ZeroBytes ==
  ASSUME NEW z, IsZeros(z)
  PROVE  IsBytes(z) /\ Len(z) \in Nat /\ z \in Seq(Nat) /\ \A i \in 1 .. Len(z) : z[i] = 0
<1>1. z \in Seq({0})
  BY DEF IsZeros
<1>2. PICK n \in Nat : n = Len(z) /\ z \in [1 .. n -> {0}]
  BY <1>1, LenProperties
<1>3. \A i \in 1 .. n : z[i] = 0
  BY <1>2
<1>4. z \in [1 .. n -> Byte] /\ z \in [1 .. n -> Nat]
  <2>1. 0 \in Byte
    BY DEF Byte
  <2> QED BY <1>2, <2>1
<1>5. z \in Seq(Byte) /\ z \in Seq(Nat)
  BY <1>4, SeqDef
<1> QED BY <1>2, <1>3, <1>5 DEF IsBytes

(* They are worth nothing.                                                 *)
LEMMA ZeroSum ==
  ASSUME NEW z, IsZeros(z)
  PROVE  Unsigned(0, z) = 0
<1>1. z \in Seq(Nat) /\ \A i \in 1 .. Len(z) : z[i] = 0
  BY ZeroBytes
<1>2. PICK n \in Nat : n = Len(z)
  BY ZeroBytes
<1>3. PICK u : Summed(0, z, u) /\ Unsigned(0, z) = u[Len(z)]
  <2>1. 0 \in Nat
    OBVIOUS
  <2> QED BY <1>1, <2>1, Summing
<1>4. u[0] = 0 /\ \A i \in 1 .. n : u[i] = 256 * u[i - 1] + z[i]
  BY <1>2, <1>3 DEF Summed
<1> DEFINE S == {k \in Nat : k <= n => u[k] = 0}
<1>5. 0 \in S
  BY <1>4
<1>6. ASSUME NEW k \in Nat, k \in S, k + 1 <= n PROVE u[k + 1] = 0
  <2>1. PICK i \in 1 .. n : i = k + 1 /\ i - 1 = k
    <3>1. k + 1 \in 1 .. n /\ (k + 1) - 1 = k
      BY <1>6
    <3> QED BY <3>1
  <2>2. u[i] = 256 * u[i - 1] + z[i]
    BY <1>4
  <2>3. u[i - 1] = 0 /\ z[i] = 0
    BY <1>1, <1>2, <1>6, <2>1
  <2> QED BY <2>1, <2>2, <2>3
<1>7. Nat \subseteq S
  <2>1. \A k \in Nat : k \in S => k + 1 \in S
    BY <1>6
  <2> HIDE DEF S
  <2> QED BY <1>5, <2>1, Induction
<1> QED BY <1>2, <1>3, <1>7

(* A big-endian number is a natural number.                                *)
LEMMA SumTyped ==
  ASSUME NEW first \in Nat, NEW bytes \in Seq(Nat)
  PROVE  Unsigned(first, bytes) \in Nat
<1>1. PICK n \in Nat : n = Len(bytes) /\ \A i \in 1 .. n : bytes[i] \in Nat
  BY LenProperties, ElementOfSeq
<1>2. PICK u : Summed(first, bytes, u) /\ Unsigned(first, bytes) = u[Len(bytes)]
  BY Summing
<1>3. u[0] = first /\ \A i \in 1 .. n : u[i] = 256 * u[i - 1] + bytes[i]
  BY <1>1, <1>2 DEF Summed
<1> DEFINE S == {k \in Nat : k <= n => u[k] \in Nat}
<1>4. 0 \in S
  BY <1>3
<1>5. ASSUME NEW k \in Nat, k \in S, k + 1 <= n PROVE u[k + 1] \in Nat
  <2>1. PICK i \in 1 .. n : i = k + 1 /\ i - 1 = k
    <3>1. k + 1 \in 1 .. n /\ (k + 1) - 1 = k
      BY <1>5
    <3> QED BY <3>1
  <2>2. u[i] = 256 * u[i - 1] + bytes[i]
    BY <1>3
  <2>3. PICK x \in Nat, y \in Nat : x = u[i - 1] /\ y = bytes[i]
    BY <1>1, <1>5, <2>1
  <2> QED BY <2>1, <2>2, <2>3
<1>6. Nat \subseteq S
  <2>1. \A k \in Nat : k \in S => k + 1 \in S
    BY <1>5
  <2> HIDE DEF S
  <2> QED BY <1>4, <2>1, Induction
<1> QED BY <1>1, <1>2, <1>6

(* A varint before zeros leaves zeros.                                     *)
LEMMA AfterByte ==
  ASSUME NEW x \in Byte, NEW z, IsZeros(z), NEW h, h = <<x>>, NEW b, b = h ++ z, NEW r \in ParseVarint(b)
  PROVE  r.val \in Nat /\ IsZeros(r.rest)
<1>1. PICK n \in Nat : n = Len(z)
  BY ZeroBytes
<1>2. /\ IsBytes(h) /\ Len(h) = 1 /\ h[1] = x
  BY OneByte
<1>3. IsBytes(b) /\ Concatenated(h, z, b)
  BY <1>2, ZeroBytes, JoinedAt
<1>4. Len(b) = 1 + n /\ b[1] = x /\ \A i \in 2 .. 1 + n : b[i] = 0
  <2>1. /\ Len(b) = 1 + n /\ b[1] = x
    <3>1. 1 \in 1 .. Len(h)
      BY <1>2
    <3> QED BY <1>1, <1>2, <1>3, <3>1 DEF Concatenated
  <2>2. \A i \in 1 .. n : b[1 + i] = 0
    <3>1. \A i \in 1 .. n : b[1 + i] = z[i]
      BY <1>1, <1>2, <1>3 DEF Concatenated
    <3> QED BY <1>1, <3>1, ZeroBytes
  <2>3. \A i \in 2 .. 1 + n : i - 1 \in 1 .. n /\ i = 1 + (i - 1)
    OBVIOUS
  <2> QED BY <2>1, <2>2, <2>3
<1>5. PICK w \in {1, 2, 4, 8} : w = Widths[(b[1] \div 64) + 1]
  <2>1. x \in Nat /\ x <= 255
    BY DEF Byte
  <2>2. x \div 64 \in 0 .. 3
    BY <2>1
  <2>3. PICK k \in 0 .. 3 : k = x \div 64
    BY <2>2
  <2>4. Widths[k + 1] \in {1, 2, 4, 8}
    BY DEF Widths
  <2> QED BY <1>4, <2>3, <2>4
<1>6. r = [val |-> Unsigned(b[1] % 64, SubSeq(b, 2, w)), rest |-> SubSeq(b, w + 1, Len(b))] /\ ~(Len(b) < w)
  BY <1>5 DEF ParseVarint
<1>7. r.val = Unsigned(x % 64, SubSeq(b, 2, w)) /\ r.rest = SubSeq(b, w + 1, 1 + n)
  BY <1>4, <1>6
<1>8. w <= 1 + n
  BY <1>4, <1>6
<1>9. SubSeq(b, 2, w) \in Seq(Nat)
  <2>1. \A i \in 2 .. w : b[i] \in Nat
    BY <1>4, <1>8
  <2> QED BY <2>1, SubSeqProperties
<1>10. SubSeq(b, w + 1, 1 + n) \in Seq({0})
  <2>1. \A i \in w + 1 .. 1 + n : i \in 2 .. 1 + n
    BY <1>8
  <2>2. \A i \in w + 1 .. 1 + n : b[i] \in {0}
    BY <1>4, <2>1
  <2>3. w + 1 \in Int /\ 1 + n \in Int
    OBVIOUS
  <2> QED BY <2>2, <2>3, SubSeqProperties
<1>11. x % 64 \in Nat
  BY DEF Byte
<1> QED BY <1>7, <1>9, <1>10, <1>11, SumTyped DEF IsZeros

Length14(l, u, v) == l < 16384 /\ u = 64 + (l \div 256) /\ v = l % 256

(* One more byte of a big-endian number.                                   *)
LEMMA OneSum ==
  ASSUME NEW x \in Nat, NEW s \in Seq(Nat), Len(s) = 1
  PROVE  Unsigned(x, s) = 256 * x + s[1]
<1>1. PICK t : Summed(x, s, t) /\ Unsigned(x, s) = t[Len(s)]
  BY Summing
<1>2. t[0] = x /\ \A i \in 1 .. 1 : t[i] = 256 * t[i - 1] + s[i]
  BY <1>1 DEF Summed
<1>3. 1 \in 1 .. 1 /\ 1 - 1 = 0
  OBVIOUS
<1>4. t[1] = 256 * t[0] + s[1]
  BY <1>2, <1>3
<1> QED BY <1>1, <1>2, <1>4

(* A number of 14 bits in two bytes, whether it needs them or not.         *)
LEMMA TwoByteLength ==
  ASSUME NEW l \in Nat, NEW u \in Byte, NEW v \in Byte, Length14(l, u, v), NEW rest, IsBytes(rest)
  PROVE  ParseVarint(Two(u, v) ++ rest) = {[val |-> l, rest |-> rest]}
<1>1. PICK q : q = Two(u, v) /\ IsBytes(q) /\ Len(q) = 2 /\ q[1] = u /\ q[2] = v
  BY TwoTyped
<1>2. PICK b : b = q ++ rest /\ IsBytes(b) /\ Concatenated(q, rest, b)
  BY <1>1, JoinedAt
<1>3. PICK n \in Nat : n = Len(rest)
  BY LenProperties DEF IsBytes
<1>4. /\ Len(b) = 2 + n /\ b[1] = u /\ b[2] = v
      /\ \A i \in 1 .. n : b[2 + i] = rest[i]
  <2>1. 1 \in 1 .. Len(q) /\ 2 \in 1 .. Len(q)
    BY <1>1
  <2> QED BY <1>1, <1>2, <1>3, <2>1 DEF Concatenated
<1>5. PICK x \in Nat, y \in 0 .. 255 : x = l \div 256 /\ y = l % 256 /\ l = 256 * x + y
  BY ByteOf
<1>6. x < 64 /\ u = 64 + x /\ v = y
  BY <1>5 DEF Length14
<1>7. u \div 64 = 1 /\ u % 64 = x
  BY <1>6
<1>8. Widths[(b[1] \div 64) + 1] = 2
  BY <1>4, <1>7 DEF Widths
<1>9. ParseVarint(b) = {[val |-> Unsigned(x, SubSeq(b, 2, 2)), rest |-> SubSeq(b, 3, 2 + n)]}
  <2>1. b # <<>>
    BY <1>4, EmptySeq
  <2>2. ~(Len(b) < 2)
    BY <1>4
  <2>3. ParseVarint(b) = {[val |-> Unsigned(b[1] % 64, SubSeq(b, 2, 2)), rest |-> SubSeq(b, 2 + 1, Len(b))]}
    BY <1>8, <2>1, <2>2 DEF ParseVarint
  <2>4. 2 + 1 = 3
    OBVIOUS
  <2> QED BY <1>4, <1>7, <2>3, <2>4
<1>10. PICK s : s = SubSeq(b, 2, 2)
  OBVIOUS
<1>11. s \in Seq(Nat) /\ Len(s) = 1 /\ s[1] = v
  <2>1. v \in Nat
    BY DEF Byte
  <2>2. \A i \in 2 .. 2 : b[i] \in Nat
    BY <1>4, <2>1
  <2>3. /\ SubSeq(b, 2, 2) \in Seq(Nat)
        /\ Len(SubSeq(b, 2, 2)) = IF 2 <= 2 THEN 2 - 2 + 1 ELSE 0
        /\ \A i \in 1 .. 2 - 2 + 1 : SubSeq(b, 2, 2)[i] = b[2 + i - 1]
    BY <2>2, SubSeqProperties
  <2>4. s[1] = b[2]
    <3>1. 1 \in 1 .. 2 - 2 + 1 /\ 2 + 1 - 1 = 2
      OBVIOUS
    <3> QED BY <1>10, <2>3, <3>1
  <2>5. (IF 2 <= 2 THEN 2 - 2 + 1 ELSE 0) = 1
    OBVIOUS
  <2> QED BY <1>4, <1>10, <2>3, <2>4, <2>5
<1>12. Unsigned(x, s) = l
  <2>1. Unsigned(x, s) = 256 * x + s[1]
    BY <1>11, OneSum
  <2> QED BY <1>5, <1>6, <1>11, <2>1
<1>13. SubSeq(b, 3, 2 + n) = rest
  <2>1. b \in Seq(Byte) /\ rest \in Seq(Byte)
    BY <1>2 DEF IsBytes
  <2>2. \A i \in 3 .. 2 + n : b[i] \in Byte
    <3>1. \A i \in 3 .. 2 + n : i \in 1 .. Len(b)
      BY <1>4
    <3> QED BY <2>1, <3>1, ElementOfSeq
  <2>3. /\ SubSeq(b, 3, 2 + n) \in Seq(Byte)
        /\ Len(SubSeq(b, 3, 2 + n)) = IF 3 <= 2 + n THEN (2 + n) - 3 + 1 ELSE 0
        /\ \A i \in 1 .. (2 + n) - 3 + 1 : SubSeq(b, 3, 2 + n)[i] = b[3 + i - 1]
    BY <2>2, SubSeqProperties
  <2>4. PICK e : e = SubSeq(b, 3, 2 + n)
    OBVIOUS
  <2>5. (IF 3 <= 2 + n THEN (2 + n) - 3 + 1 ELSE 0) = n /\ (2 + n) - 3 + 1 = n
    OBVIOUS
  <2>6. \A i \in 1 .. n : 3 + i - 1 = 2 + i
    OBVIOUS
  <2>7. e \in Seq(Byte) /\ Len(e) = n /\ \A i \in 1 .. n : e[i] = rest[i]
    BY <1>4, <2>3, <2>4, <2>5, <2>6
  <2>8. e = rest
    BY <1>3, <2>1, <2>7, SeqEqual
  <2> QED BY <2>4, <2>8
<1> QED BY <1>1, <1>2, <1>9, <1>10, <1>12, <1>13

(* Bytes without the last of them.                                         *)
SplitOff(t, a, x) == IsBytes(a) /\ x \in Byte /\ Len(a) + 1 = Len(t) /\ t = a ++ <<x>>

(* Every sequence of bytes but the empty one has a last.                   *)
LEMMA LastByte ==
  ASSUME NEW t, IsBytes(t), t # <<>>
  PROVE  \E a, x : SplitOff(t, a, x)
<1>1. PICK a \in Seq(Byte), x \in Byte : t = Append(a, x)
  BY SequenceEmptyOrAppend DEF IsBytes
<1>2. t = a \o <<x>> /\ Len(t) = Len(a) + 1
  BY <1>1, AppendIsConcat, AppendProperties
<1>3. SplitOff(t, a, x)
  BY <1>2 DEF SplitOff, IsBytes, ++
<1> QED BY <1>3

(* The number of a packet, read from zeros.                                *)
LEMMA NumberOfZeros ==
  ASSUME NEW z, IsZeros(z), NEW n \in Nat, NEW p \in ParseNumberOf(Payload(z, n), 4)
  PROVE  p.pnLen = 4 /\ p.pn = 0
<1>1. PICK k \in Nat : k = Len(z) /\ \A i \in 1 .. k : z[i] = 0
  BY ZeroBytes
<1>2. PICK m \in Nat : m = (IF n > k THEN k ELSE n) /\ m <= k
  OBVIOUS
<1>3. PICK y : y = Payload(z, n)
  OBVIOUS
<1>4. y = SubSeq(z, 1, m)
  BY <1>1, <1>2, <1>3 DEF Payload
<1>5. y \in Seq({0})
  <2>1. \A i \in 1 .. m : z[i] \in {0}
    BY <1>1, <1>2
  <2> QED BY <1>4, <2>1, SubSeqProperties
<1>6. PICK j \in Nat : j = Len(y) /\ \A i \in 1 .. j : y[i] = 0
  BY <1>5, ZeroBytes DEF IsZeros
<1>7. PICK r \in ParseBytes(y, 4) : p = [pnLen |-> 4, pn |-> Unsigned(0, r.bytes), frames |-> r.rest]
  BY <1>3 DEF ParseNumberOf
<1>8. ~(4 > j) /\ r.bytes = SubSeq(y, 1, 4)
  BY <1>6, <1>7 DEF ParseBytes
<1>9. IsZeros(SubSeq(y, 1, 4))
  <2>1. \A i \in 1 .. 4 : y[i] \in {0}
    BY <1>6, <1>8
  <2> QED BY <2>1, SubSeqProperties DEF IsZeros
<1> QED BY <1>7, <1>8, <1>9, ZeroSum

(* What is taken off the front of bytes is what was put there.             *)
LEMMA TakenOff ==
  ASSUME NEW h, NEW r, IsBytes(h), IsBytes(r), NEW b, b = h ++ r, NEW n, n = Len(h), NEW p \in ParseBytes(b, n)
  PROVE  p.bytes = h /\ p.rest = r
<1>1. ParseBytes(b, n) = {[bytes |-> h, rest |-> r]}
  BY BytesRoundTrip DEF IsBytes, ++
<1>2. p = [bytes |-> h, rest |-> r]
  BY <1>1
<1> QED BY <1>2

(* The first byte.                                                         *)
LEMMA FirstTaken ==
  ASSUME NEW x \in Byte, NEW h, h = <<x>>, NEW r, IsBytes(r), NEW b, b = h ++ r
  PROVE  IsBytes(b) /\ b # <<>> /\ Head(b) = x /\ Tail(b) = r
<1>1. PICK e : e = <<>> /\ IsBytes(e)
  BY JoinedNone
<1>2. IsBytes(h)
  BY OneByte
<1>3. /\ IsBytes(h ++ r) /\ h ++ r # <<>>
      /\ ((h ++ r) ++ e)[1] = x /\ Tail((h ++ r) ++ e) = r ++ e
  BY <1>1, HeadFirst
<1>4. b ++ e = b /\ r ++ e = r
  <2>1. IsBytes(b)
    BY <1>3
  <2> QED BY <1>1, <2>1, JoinedNone
<1>5. b[1] = x /\ Tail(b) = r /\ IsBytes(b) /\ b # <<>>
  BY <1>3, <1>4
<1>6. Head(b) = b[1]
  OBVIOUS
<1> QED BY <1>5, <1>6

(* What stands behind the first five bytes.                                *)
LEMMA BehindStart ==
  ASSUME NEW h, NEW r, IsBytes(h), IsBytes(r), Len(h) = 5, NEW b, b = h ++ r
  PROVE  SubSeq(b, 6, Len(b)) = r
<1>1. h \in Seq(Byte) /\ r \in Seq(Byte) /\ b = h \o r
  BY DEF IsBytes, ++
<1>2. PICK n \in Nat : n = Len(r)
  BY <1>1, LenProperties
<1>3. Len(b) = 5 + n
  <2>1. Len(h \o r) = Len(h) + Len(r)
    BY <1>1, ConcatProperties
  <2> QED BY <1>1, <1>2, <2>1
<1>4. ParseBytes(b, 5) = {[bytes |-> h, rest |-> r]}
  BY <1>1, BytesRoundTrip
<1>5. ParseBytes(b, 5) = {[bytes |-> SubSeq(b, 1, 5), rest |-> SubSeq(b, 5 + 1, Len(b))]}
  <2>1. ~(5 > Len(b))
    BY <1>2, <1>3
  <2> QED BY <2>1 DEF ParseBytes
<1>6. [bytes |-> h, rest |-> r].rest = [bytes |-> SubSeq(b, 1, 5), rest |-> SubSeq(b, 5 + 1, Len(b))].rest
  BY <1>4, <1>5, Zenon
<1>7. 5 + 1 = 6
  OBVIOUS
<1> QED BY <1>6, <1>7

(* The connection IDs are read.                                            *)
LEMMA IDsParsed ==
  ASSUME ShortIDs, NEW r, IsBytes(r), NEW c, c = InitialIDs ++ r, NEW ids \in ParseConnIDs(c)
  PROVE  ids = r
<1>1. PICK m \in Byte, n \in Byte : m = Len(DestConnID) /\ n = Len(SrcConnID)
  BY IDsBytes
<1>2. PICK d, s : /\ m = Len(DestConnID) /\ n = Len(SrcConnID) /\ d = DestConnID
                  /\ s = SrcConnID /\ IsBytes(d) /\ IsBytes(s)
  BY <1>1, IDsBytes
<1>3. PICK x, y : x = <<m>> /\ IsBytes(x) /\ y = <<n>> /\ IsBytes(y)
  BY OneByte
<1>4. PICK sr : sr = s ++ r /\ IsBytes(sr)
  BY <1>2, Joined2
<1>5. PICK ysr : ysr = y ++ sr /\ IsBytes(ysr) /\ ysr # <<>> /\ Head(ysr) = n /\ Tail(ysr) = sr
  BY <1>3, <1>4, FirstTaken
<1>6. PICK e : e = d ++ ysr /\ IsBytes(e)
  BY <1>2, <1>5, Joined2
<1>7. c = x ++ e
  <2>1. PICK ys : ys = y ++ s /\ IsBytes(ys)
    BY <1>2, <1>3, Joined2
  <2>2. PICK dys : dys = d ++ ys /\ IsBytes(dys)
    BY <1>2, <2>1, Joined2
  <2>3. c = (x ++ dys) ++ r
    BY <1>2, <1>3, <2>1, <2>2 DEF InitialIDs
  <2>4. (x ++ dys) ++ r = x ++ (dys ++ r)
    BY <1>3, <2>2, Joined3
  <2>5. dys ++ r = d ++ (ys ++ r)
    BY <1>2, <2>1, <2>2, Joined3
  <2>6. ys ++ r = ysr
    BY <1>2, <1>3, <1>4, <1>5, <2>1, Joined3
  <2> QED BY <1>6, <2>3, <2>4, <2>5, <2>6
<1>8. Head(c) = m /\ Tail(c) = e
  BY <1>3, <1>6, <1>7, FirstTaken
<1>9. PICK dest, src : /\ dest \in ParseBytes(e, m)
                       /\ src \in ParseBytes(Tail(dest.rest), Head(dest.rest)) /\ ids = src.rest
  <2>1. PICK dest, src : /\ dest \in ParseBytes(Tail(c), Head(c))
                         /\ src \in ParseBytes(Tail(dest.rest), Head(dest.rest)) /\ ids = src.rest
    <3>1. PICK X : X \in {{src.rest : src \in ParseBytes(Tail(dest.rest), Head(dest.rest))}
                           : dest \in {d_ \in ParseBytes(Tail(c), Head(c)) : d_.rest # <<>>}}
                   /\ ids \in X
      BY DEF ParseConnIDs
    <3>2. PICK dest \in {d_ \in ParseBytes(Tail(c), Head(c)) : d_.rest # <<>>} :
            X = {src.rest : src \in ParseBytes(Tail(dest.rest), Head(dest.rest))}
      BY <3>1
    <3>3. dest \in ParseBytes(Tail(c), Head(c))
      OBVIOUS
    <3> QED BY <3>1, <3>2, <3>3
  <2> QED BY <1>8, <2>1
<1>10. dest.rest = ysr
  BY <1>2, <1>5, <1>6, <1>9, TakenOff
<1>11. src \in ParseBytes(sr, n)
  BY <1>5, <1>9, <1>10
<1>12. src.rest = r
  BY <1>2, <1>4, <1>11, TakenOff
<1> QED BY <1>9, <1>12

(* SetLength writes over the length of the token, where the reader expects *)
(* it: it takes all but the padding for a token. Whatever it then reads    *)
(* has the number zero.                                                    *)
LEMMA InitialUnread ==
  ASSUME ShortIDs, NEW t, IsBytes(t), NEW z, IsZeros(z), NEW l \in Nat, Len(t) = l + 1,
         NEW u \in Byte, NEW v \in Byte, Length14(l, u, v),
         NEW b, b = InitialHead ++ (Two(u, v) ++ (t ++ z))
  PROVE  /\ IsBytes(b) /\ b # <<>> /\ b[1] = 195
         /\ \A p \in ParsePacket(b) : p.pnLen = 4 /\ p.pn = 0
<1>1. PICK a, x : SplitOff(t, a, x)
  <2>1. t # <<>>
    BY EmptySeq DEF IsBytes
  <2> QED BY <2>1, LastByte
<1>2. PICK k : k = <<x>> /\ IsBytes(k) /\ IsBytes(a) /\ x \in Byte /\ Len(a) = l /\ t = a ++ k
  <2>1. IsBytes(a) /\ x \in Byte /\ Len(a) + 1 = Len(t) /\ t = a ++ <<x>>
    BY <1>1 DEF SplitOff
  <2>2. Len(a) \in Nat
    BY <2>1, LenProperties DEF IsBytes
  <2>3. Len(a) = l
    BY <2>1, <2>2
  <2>4. IsBytes(<<x>>)
    BY <2>1, OneByte
  <2> QED BY <2>1, <2>3, <2>4
<1>3. IsBytes(z)
  BY ZeroBytes
<1>4. PICK kz : kz = k ++ z /\ IsBytes(kz)
  BY <1>2, <1>3, Joined2
<1>5. PICK tz : tz = t ++ z /\ IsBytes(tz) /\ tz = a ++ kz
  <2>1. t ++ z = a ++ kz
    BY <1>2, <1>3, <1>4, Joined3
  <2>2. IsBytes(t ++ z)
    BY <1>3, Joined2
  <2> QED BY <2>1, <2>2
<1>6. PICK body : body = Two(u, v) ++ tz /\ IsBytes(body)
  BY <1>5, TwoTyped, Joined2
<1>7. PICK h : h = InitialStart /\ IsBytes(h) /\ Len(h) = 5
  BY StartBytes
<1>8. IsBytes(InitialIDs) /\ IsBytes(InitialHead) /\ b[1] = 195
  BY <1>5, <1>6, HeadBytes
<1>9. PICK c : c = InitialIDs ++ body /\ IsBytes(c) /\ b = h ++ c
  <2>1. b = (h ++ InitialIDs) ++ body
    BY <1>5, <1>6, <1>7 DEF InitialHead
  <2>2. (h ++ InitialIDs) ++ body = h ++ (InitialIDs ++ body)
    BY <1>6, <1>7, <1>8, Joined3
  <2> QED BY <1>6, <1>8, <2>1, <2>2, Joined2
<1>10. IsBytes(b) /\ b # <<>>
  <2>1. IsBytes(b)
    BY <1>7, <1>9, Joined2
  <2>2. Concatenated(h, c, b)
    BY <1>7, <1>9, JoinedAt
  <2>3. Len(b) # 0
    BY <1>7, <2>2 DEF Concatenated
  <2> QED BY <2>1, <2>3, EmptySeq
<1>11. ASSUME NEW p \in ParsePacket(b) PROVE p.pnLen = 4 /\ p.pn = 0
  <2>1. p \in ParseLongHeader(b)
    BY <1>8 DEF ParsePacket
  <2>2. PICK ids, rest, q : /\ ids \in ParseConnIDs(SubSeq(b, 6, Len(b))) /\ rest \in ParseToken(ids, b[1])
                           /\ q \in ParseVarint(rest)
                           /\ p \in ParseNumberOf(Payload(q.rest, q.val), (b[1] % 4) + 1)
    BY <2>1 DEF ParseLongHeader
  <2>3. SubSeq(b, 6, Len(b)) = c
    BY <1>7, <1>9, BehindStart
  <2>4. ids = body
    BY <1>6, <1>9, <2>2, <2>3, IDsParsed
  <2>5. PICK w \in ParseCounted(body) : rest = w.rest
    <3>1. 195 \div 16 = 12
      OBVIOUS
    <3>2. 12 % 4 = 0
      OBVIOUS
    <3>3. WireTypes[((b[1] \div 16) % 4) + 1] = Initial
      BY <1>8, <3>1, <3>2 DEF WireTypes
    <3>4. rest \in {w.rest : w \in ParseCounted(body)}
      BY <2>2, <2>4, <3>3 DEF ParseToken
    <3> QED BY <3>4
  <2>6. PICK n \in ParseVarint(body) : w \in ParseBytes(n.rest, n.val)
    BY <2>5 DEF ParseCounted
  <2>7. n.val = l /\ n.rest = tz
    <3>1. ParseVarint(body) = {[val |-> l, rest |-> tz]}
      BY <1>5, <1>6, TwoByteLength
    <3>2. n = [val |-> l, rest |-> tz]
      BY <3>1
    <3> QED BY <3>2
  <2>8. w.rest = kz
    BY <1>2, <1>4, <1>5, <2>6, <2>7, TakenOff
  <2>9. q.val \in Nat /\ IsZeros(q.rest)
    BY <1>2, <1>4, <2>2, <2>5, <2>8, AfterByte
  <2>10. (b[1] % 4) + 1 = 4
    <3>1. 195 % 4 = 3
      OBVIOUS
    <3> QED BY <1>8, <3>1
  <2>11. p \in ParseNumberOf(Payload(q.rest, q.val), 4)
    BY <2>2, <2>10
  <2> QED BY <2>9, <2>11, NumberOfZeros
<1> QED BY <1>8, <1>10, <1>11

-----------------------------------------------------------------------------
(* The datagrams that are sent *)

(* What is assumed of the frames and the connection IDs: the frames are    *)
(* ones that can be written, an ID is at most 255 bytes, and the length of *)
(* an Initial packet fits its two bytes.                                   *)
Sendable ==
  /\ \A f \in Sent \cup Queued \cup Initials : Writable(f)
  /\ ShortIDs
  /\ \A f \in Initials : 4 + Len(AppendFrame(f)) < 16384

(* A packet holds the header, and the header and a frame that sendFrame is *)
(* called with: of a STREAM frame, all but its data.                       *)
Roomy ==
  /\ 1 + Len(DestConnID) + 4 <= MaxPacketSize
  /\ \A f \in Sent : IF StreamWritable(f)
                     THEN Overhead(f) <= MaxPacketSize
                     ELSE 1 + Len(DestConnID) + 4 + Len(AppendFrame(f)) <= MaxPacketSize

(* A short header: one byte, the connection ID and at most four bytes.     *)
Short(pn) == AppendShortHeader(pn, HeaderLength(pn, 0))

(* It is bytes, five and those of the connection ID at most.               *)
LEMMA ShortBytes ==
  ASSUME NEW pn \in Nat
  PROVE  IsBytes(Short(pn)) /\ Len(Short(pn)) \in Nat /\ Len(Short(pn)) <= 1 + Len(DestConnID) + 4
<1>1. PICK len \in Lengths : len = HeaderLength(pn, 0)
  BY DEF HeaderLength, Lengths
<1>2. len \in Nat /\ len <= 4
  BY DEF Lengths
<1>3. PICK v \in Nat : v = Truncate(len, pn)
  <2>1. PICK w \in Nat : w = Windows[len] /\ w > 0
    BY WindowsAssumption
  <2>2. pn % w \in Nat
    BY <2>1
  <2> QED BY <2>1, <2>2 DEF Truncate
<1>4. PICK nb : nb = BigEndian(v, len) /\ IsBytes(nb) /\ Len(nb) = len
  BY <1>2, BigEndianBytes DEF IsBytes
<1>5. PICK x \in Byte : x = 64 + len - 1
  <2>1. 64 + len - 1 \in Byte
    BY DEF Byte, Lengths
  <2> QED BY <2>1
<1>6. PICK h : h = <<x>> /\ IsBytes(h) /\ Len(h) = 1
  BY OneByte
<1>7. PICK d : d = DestConnID /\ IsBytes(d)
  BY PacketAssumption DEF IsBytes
<1>8. PICK m \in Nat : m = Len(d)
  BY <1>7, LenProperties DEF IsBytes
<1>9. PICK hd : hd = h ++ d /\ IsBytes(hd) /\ Len(hd) = 1 + m
  BY <1>6, <1>7, <1>8, Joined2, JoinedLen
<1>10. IsBytes(hd ++ nb) /\ Len(hd ++ nb) = 1 + m + len
  BY <1>2, <1>4, <1>8, <1>9, Joined2, JoinedLen
<1>11. Short(pn) = hd ++ nb
  BY <1>1, <1>3, <1>4, <1>5, <1>6, <1>7, <1>9 DEF Short, AppendShortHeader, ++
<1> QED BY <1>2, <1>7, <1>8, <1>10, <1>11

(* A frame alone.                                                          *)
LEMMA BytesOfOne ==
  ASSUME NEW first, Writable(first)
  PROVE  IsBytes(AppendFrame(first)) /\ Bytes(<<first>>) = AppendFrame(first)
<1>1. PICK W : W = {first}
  OBVIOUS
<1>2. PICK none \in Seq(W) : none = <<>>
  BY EmptySeq
<1>3. /\ IsBytes(AppendFrame(first))
      /\ Bytes(<<first>> \o none) = AppendFrame(first) ++ Bytes(none)
  <2>1. first \in W /\ \A f \in W : Writable(f)
    BY <1>1
  <2> QED BY <2>1, BytesOfFirst
<1>4. <<first>> \o none = <<first>>
  <2>1. <<first>> \in Seq(W)
    BY <1>1
  <2> QED BY <1>2, <2>1, ConcatEmptySeq
<1>5. AppendFrame(first) ++ <<>> = AppendFrame(first)
  BY <1>3, JoinedNone
<1> QED BY <1>2, <1>3, <1>4, <1>5, BytesOfNone

(* The frame that sendFrame begins a packet with, none in a flush.         *)
AtMostOne(W, frames) == frames = <<>> \/ \E first \in W : frames = <<first>>

AllWritable(W) == \A f \in W : Writable(f)

PacketOf(W, pn, frames, buf, packed) ==
  /\ frames \o packed \in Seq(W)
  /\ IsBytes(Bytes(frames)) /\ IsBytes(Bytes(packed))
  /\ buf \o Bytes(packed) = Short(pn) ++ Bytes(frames \o packed)
  /\ Len(buf) <= MaxPacketSize => Len(buf \o Bytes(packed)) <= MaxPacketSize

(* The packet that leaves: the header, and the bytes of all its frames.    *)
LEMMA PacketSent ==
  ASSUME NEW W, AllWritable(W), NEW frames \in Seq(W),
         AtMostOne(W, frames),
         NEW pending \in Seq(W), NEW pn \in Nat,
         NEW buf, buf = Short(pn) \o Bytes(frames), NEW packed, packed = Packed(buf, pending)
  PROVE  PacketOf(W, pn, frames, buf, packed)
<1>1. \A f \in W : Writable(f)
  BY DEF AllWritable
<1>2. packed \in Seq(W) /\ (packed = <<>> \/ Len(buf \o Bytes(packed)) <= MaxPacketSize)
  BY PackedFits
<1>3. PICK h : h = Short(pn) /\ IsBytes(h)
  BY ShortBytes
<1>4. IsBytes(Bytes(packed)) /\ IsBytes(Bytes(frames))
  BY <1>1, <1>2, FramesRoundTrip DEF IsBytes
<1>5. frames \o packed \in Seq(W)
  BY <1>2, ConcatProperties
<1>6. PICK s : s = Bytes(packed) /\ IsBytes(s)
  BY <1>4
<1>7. buf ++ s = h ++ Bytes(frames \o packed)
  <2>1. CASE frames = <<>>
    <3>1. Bytes(frames) = <<>> /\ frames \o packed = packed
      BY <1>2, <2>1, BytesOfNone, ConcatEmptySeq
    <3>2. buf = h ++ <<>>
      BY <1>3, <3>1 DEF ++
    <3>3. buf = h
      BY <1>3, <3>2, JoinedNone
    <3> QED BY <1>6, <3>1, <3>3
  <2>2. ASSUME NEW first \in W, frames = <<first>> PROVE buf ++ s = h ++ Bytes(frames \o packed)
    <3>1. Bytes(<<first>> \o packed) = AppendFrame(first) ++ s
      BY <1>1, <1>2, <1>6, BytesOfFirst
    <3>2. PICK a : a = AppendFrame(first) /\ IsBytes(a) /\ Bytes(frames) = a
      <4>1. Writable(first)
        BY <1>1
      <4> QED BY <2>2, <4>1, BytesOfOne
    <3>3. buf = h ++ a
      BY <1>3, <3>2 DEF ++
    <3>4. (h ++ a) ++ s = h ++ (a ++ s)
      BY <1>3, <1>6, <3>2, Joined3
    <3> QED BY <2>2, <3>1, <3>2, <3>3, <3>4
  <2> QED BY <2>1, <2>2 DEF AtMostOne
<1>8. IsBytes(buf)
  BY <1>3, <1>4, Joined2 DEF ++
<1>9. packed = <<>> => buf ++ s = buf
  BY <1>6, <1>8, BytesOfNone, JoinedNone
<1>10. buf \o Bytes(packed) = buf ++ s
  BY <1>6 DEF ++
<1>11. Len(buf) <= MaxPacketSize => Len(buf \o Bytes(packed)) <= MaxPacketSize
  BY <1>2, <1>9, <1>10
<1>12. buf \o Bytes(packed) = Short(pn) ++ Bytes(frames \o packed)
  BY <1>3, <1>7, <1>10
<1> QED BY <1>4, <1>5, <1>11, <1>12, Zenon DEF PacketOf

(* Bytes cut to a size, if they are longer.                                *)
LEMMA PayloadFits ==
  ASSUME NEW b, IsBytes(b), NEW n \in Nat
  PROVE  /\ IsBytes(Payload(b, n)) /\ Len(Payload(b, n)) <= n
         /\ Len(b) <= n => Payload(b, n) = b
<1>1. PICK k \in Nat : k = Len(b)
  BY LenProperties DEF IsBytes
<1>2. PICK m \in Nat : m = (IF n > k THEN k ELSE n) /\ m <= k /\ m <= n
  OBVIOUS
<1>3. PICK y : y = Payload(b, n)
  OBVIOUS
<1>4. y = SubSeq(b, 1, m)
  BY <1>1, <1>2, <1>3 DEF Payload
<1>5. \A i \in 1 .. m : b[i] \in Byte
  <2>1. \A i \in 1 .. k : b[i] \in Byte
    BY <1>1, ElementOfSeq DEF IsBytes
  <2> QED BY <1>2, <2>1
<1>6. y \in Seq(Byte) /\ Len(y) = m
  <2>1. y \in Seq(Byte) /\ Len(y) = IF 1 <= m THEN m - 1 + 1 ELSE 0
    BY <1>4, <1>5, SubSeqProperties
  <2> QED BY <2>1
<1>7. Len(b) <= n => y = b
  <2>1. Len(b) <= n => m = k
    BY <1>1, <1>2
  <2>2. SubSeq(b, 1, k) = b
    BY <1>1, SubSeqFull DEF IsBytes
  <2> QED BY <1>4, <2>1, <2>2
<1> QED BY <1>2, <1>3, <1>6, <1>7 DEF IsBytes

(* The bytes of an Initial packet, before they are cut to the size of a    *)
(* packet.                                                                 *)
Pad(set) == set \o Padding(Max({MinInitialPacketSize - Len(set), 0}))
Padded(pn, s) == Pad(SetLength(InitialBytes(pn, s), 4 + Len(s)))

(* The frames of an Initial packet, by the two bytes of their length.      *)
ShortLength(s) == 4 + Len(s) < 16384

(* The size of an Initial packet that is not padded.                       *)
InitialSize(s) == 14 + Len(DestConnID) + Len(SrcConnID) + Len(s)

PaddedAs(pn, s, u, v, z) ==
  /\ u \in Byte /\ v \in Byte /\ Length14(4 + Len(s), u, v) /\ IsZeros(z)
  /\ Padded(pn, s) = InitialHead ++ (Two(u, v) ++ (InitialTail(pn, s) ++ z))

(* An Initial packet is its header with the length in place, the frames    *)
(* and zeros.                                                              *)
LEMMA PaddedBytes ==
  ASSUME ShortIDs, NEW pn \in Nat, NEW s, IsBytes(s), ShortLength(s)
  PROVE  /\ IsBytes(Padded(pn, s))
         /\ \E u, v, z : PaddedAs(pn, s, u, v, z)
         /\ InitialSize(s) <= MaxPacketSize /\ MinInitialPacketSize <= MaxPacketSize
              => Len(Padded(pn, s)) <= MaxPacketSize
<1>1. PICK k \in Nat, l \in Nat : k = Len(s) /\ l = 4 + Len(s) /\ l < 16384
  <2>1. Len(s) \in Nat
    BY LenProperties DEF IsBytes
  <2>2. 4 + Len(s) \in Nat
    BY <2>1
  <2>3. 4 + Len(s) < 16384
    BY DEF ShortLength
  <2> QED BY <2>1, <2>2, <2>3
<1>2. PICK u, v : u = 64 + (l \div 256) /\ v = l % 256
  OBVIOUS
<1>3. u \in Byte /\ v \in Byte /\ SetLength(InitialBytes(pn, s), l) = InitialHead ++ (Two(u, v) ++ InitialTail(pn, s))
  <2>1. /\ 64 + (l \div 256) \in Byte /\ l % 256 \in Byte
        /\ SetLength(InitialBytes(pn, s), l) =
             InitialHead ++ (Two(64 + (l \div 256), l % 256) ++ InitialTail(pn, s))
    BY <1>1, InitialSet
  <2> QED BY <1>2, <2>1
<1>4. Length14(4 + Len(s), u, v)
  BY <1>1, <1>2 DEF Length14
<1>5. PICK q : q = Two(u, v) /\ IsBytes(q) /\ Len(q) = 2
  BY <1>3, TwoTyped
<1>6. PICK t : t = InitialTail(pn, s) /\ IsBytes(t) /\ Len(t) = 5 + k
  <2>1. IsBytes(InitialTail(pn, s)) /\ Len(InitialTail(pn, s)) = 5 + Len(s)
    BY TailBytes
  <2>2. 5 + Len(s) = 5 + k
    BY <1>1
  <2> QED BY <2>1, <2>2
<1>7. PICK m \in Nat, n \in Nat : m = Len(DestConnID) /\ n = Len(SrcConnID)
  BY IDsBytes, LenProperties DEF IsBytes
<1>8. PICK h : h = InitialHead /\ IsBytes(h) /\ Len(h) = 7 + m + n
  BY <1>6, <1>7, HeadBytes
<1>9. PICK qt : qt = q ++ t /\ IsBytes(qt) /\ Len(qt) = 2 + (5 + k)
  <2>1. IsBytes(q ++ t) /\ Len(q ++ t) = Len(q) + Len(t)
    BY <1>5, <1>6, Joined2, JoinedLen
  <2> QED BY <1>5, <1>6, <2>1
<1>10. PICK set : set = h ++ qt /\ IsBytes(set) /\ Len(set) = 7 + m + n + (2 + (5 + k))
  <2>1. IsBytes(h ++ qt) /\ Len(h ++ qt) = Len(h) + Len(qt)
    BY <1>8, <1>9, Joined2, JoinedLen
  <2> QED BY <1>8, <1>9, <2>1
<1>11. set = SetLength(InitialBytes(pn, s), 4 + Len(s))
  BY <1>1, <1>3, <1>5, <1>6, <1>8, <1>9, <1>10
<1>12. PICK size \in Nat : size = Len(set) /\ size = 14 + m + n + k
  BY <1>10
<1>13. PICK min \in Nat, max \in Nat : min = MinInitialPacketSize /\ max = MaxPacketSize
  BY PacketAssumption
<1>14. PICK p \in Nat : p = Max({min - size, 0}) /\ (p = 0 \/ p = min - size)
  <2>1. PICK d \in Int : d = min - size
    OBVIOUS
  <2>2. CASE d >= 0
    <3>1. Max({d, 0}) = d
      BY <2>2 DEF Max
    <3> QED BY <2>1, <2>2, <3>1
  <2>3. CASE d < 0
    <3>1. Max({d, 0}) = 0
      BY <2>3 DEF Max
    <3> QED BY <2>1, <3>1
  <2> QED BY <2>2, <2>3
<1>15. PICK z : z = Padding(p) /\ IsZeros(z) /\ Len(z) = p
  BY PaddingZeros
<1>16. Padded(pn, s) = set ++ z
  <2>1. Padded(pn, s) = set \o Padding(Max({MinInitialPacketSize - Len(set), 0}))
    BY <1>11 DEF Padded, Pad
  <2>2. Padding(Max({MinInitialPacketSize - Len(set), 0})) = z
    BY <1>12, <1>13, <1>14, <1>15
  <2> QED BY <2>1, <2>2 DEF ++
<1>17. IsBytes(z)
  BY <1>15, ZeroBytes
<1>18. IsBytes(set ++ z) /\ Len(set ++ z) = size + p
  BY <1>10, <1>12, <1>15, <1>17, Joined2, JoinedLen
<1>19. set ++ z = h ++ (q ++ (t ++ z))
  <2>1. (h ++ qt) ++ z = h ++ (qt ++ z)
    BY <1>8, <1>9, <1>17, Joined3
  <2>2. (q ++ t) ++ z = q ++ (t ++ z)
    BY <1>5, <1>6, <1>17, Joined3
  <2> QED BY <1>9, <1>10, <2>1, <2>2
<1>20. PaddedAs(pn, s, u, v, z)
  BY <1>3, <1>4, <1>5, <1>6, <1>8, <1>15, <1>16, <1>19 DEF PaddedAs
<1>21. InitialSize(s) = size
  BY <1>1, <1>7, <1>12 DEF InitialSize
<1>22. size <= max /\ min <= max => size + p <= max
  BY <1>14
<1> QED BY <1>13, <1>16, <1>18, <1>20, <1>21, <1>22

PacketTypes == sendPN \in Nat /\ pendingFrames \in Seq(Queued)

(* The frames that are packed.                                             *)
Packable == Queued \cup {Truncated(f) : f \in Sent}

(* Every frame that is packed can be written.                              *)
LEMMA PackableWritable ==
  ASSUME Sendable, NEW w \in Packable
  PROVE  Writable(w)
<1>1. CASE w \in Queued
  BY <1>1 DEF Sendable
<1>2. CASE w \in {Truncated(f) : f \in Sent}
  <2>1. PICK f \in Sent : w = Truncated(f)
    BY <1>2
  <2>2. Writable(f)
    BY DEF Sendable
  <2> QED BY <2>1, <2>2, TruncatedWritable
<1> QED BY <1>1, <1>2 DEF Packable

(* Numbers and queued frames stay what they are.                           *)
LEMMA TypesKept ==
  ASSUME PacketTypes, [PacketNext]_packetVars
  PROVE  PacketTypes'
<1> USE DEF PacketTypes
<1>1. CASE Queue
  <2>1. PICK f \in Queued : pendingFrames' = Append(pendingFrames, f)
    BY <1>1 DEF Queue
  <2>2. sendPN' = sendPN
    BY <1>1 DEF Queue
  <2> QED BY <2>1, <2>2, AppendProperties
<1>2. CASE SendFrame
  <2>1. sendPN' = sendPN + 1 /\ pendingFrames' = <<>>
    BY <1>2 DEF SendFrame, SendShort, Transmit
  <2> QED BY <2>1, EmptySeq
<1>3. CASE FlushPendingFrames
  <2>1. sendPN' = sendPN + 1 /\ pendingFrames' = <<>>
    BY <1>3 DEF FlushPendingFrames, SendShort, Transmit
  <2> QED BY <2>1, EmptySeq
<1>4. CASE SendInitialPacket
  <2>1. sendPN' = sendPN + 1 /\ pendingFrames' = pendingFrames
    BY <1>4 DEF SendInitialPacket, Transmit
  <2> QED BY <2>1
<1>5. CASE Lose
  BY <1>5 DEF Lose
<1>6. CASE HandleReceivedPacket
  BY <1>6 DEF HandleReceivedPacket
<1>7. CASE UNCHANGED packetVars
  BY <1>7 DEF packetVars
<1> QED BY <1>1, <1>2, <1>3, <1>4, <1>5, <1>6, <1>7 DEF PacketNext

(* What SendShort puts on the network.                                     *)
Leaves(frames, packed) ==
  /\ frames \o packed \in Seq(Packable)
  /\ datagram' = Short(sendPN) ++ Bytes(frames \o packed)
  /\ written' = Contents(FALSE, sendPN, frames \o packed)
  /\ handled' = Nothing /\ sendPN' = sendPN + 1
  /\ Len(Short(sendPN) \o Bytes(frames)) <= MaxPacketSize => Len(datagram') <= MaxPacketSize

(* There is such a packet.                                                 *)
LEMMA ShortLeaves ==
  ASSUME Sendable, PacketTypes, NEW frames \in Seq(Packable),
         AtMostOne(Packable, frames), SendShort(frames)
  PROVE  \E packed : Leaves(frames, packed)
<1>1. PICK buf, packed : buf = Short(sendPN) \o Bytes(frames) /\ packed = Packed(buf, pendingFrames)
  OBVIOUS
<1>2. /\ datagram' = buf \o Bytes(packed)
      /\ written' = Contents(FALSE, sendPN, frames \o packed)
      /\ handled' = Nothing /\ sendPN' = sendPN + 1
  BY <1>1, Zenon DEF SendShort, Transmit, Short
<1>3. PICK W : W = Packable
  OBVIOUS
<1>4. AllWritable(W)
  BY <1>3, PackableWritable DEF AllWritable
<1>5. pendingFrames \in Seq(W) /\ sendPN \in Nat
  <2>1. pendingFrames \in Seq(Queued) /\ Queued \subseteq W
    BY <1>3 DEF PacketTypes, Packable
  <2> QED BY <2>1, SeqMonotonic DEF PacketTypes
<1>6. /\ frames \o packed \in Seq(W)
      /\ buf \o Bytes(packed) = Short(sendPN) ++ Bytes(frames \o packed)
      /\ Len(buf) <= MaxPacketSize => Len(buf \o Bytes(packed)) <= MaxPacketSize
  <2>1. PICK pending \in Seq(W), pn \in Nat : pending = pendingFrames /\ pn = sendPN
    BY <1>5
  <2>2. frames \in Seq(W) /\ AtMostOne(W, frames)
    BY <1>3
  <2>3. buf = Short(pn) \o Bytes(frames) /\ packed = Packed(buf, pending)
    BY <1>1, <2>1
  <2>4. PacketOf(W, pn, frames, buf, packed)
    BY <1>4, <2>2, <2>3, PacketSent
  <2> QED BY <2>1, <2>4, Zenon DEF PacketOf
<1>7. Leaves(frames, packed)
  BY <1>1, <1>2, <1>3, <1>6, Zenon DEF Leaves
<1> QED BY <1>7

(* What leaves in sendFrame.                                               *)
LEMMA FrameLeaves ==
  ASSUME Sendable, PacketTypes, SendFrame
  PROVE  \E f \in Sent : \E packed : Leaves(<<Truncated(f)>>, packed)
<1>1. PICK f \in Sent : SendShort(<<Truncated(f)>>)
  BY DEF SendFrame
<1>2. PICK first \in Packable : first = Truncated(f)
  BY DEF Packable
<1>3. <<first>> \in Seq(Packable)
  OBVIOUS
<1>4. PICK frames : frames = <<first>>
  OBVIOUS
<1>5. AtMostOne(Packable, frames)
  BY <1>4 DEF AtMostOne
<1>6. \E packed : Leaves(frames, packed)
  BY <1>1, <1>2, <1>3, <1>4, <1>5, ShortLeaves
<1> QED BY <1>2, <1>4, <1>6

(* The same of flushPendingFrames.                                         *)
LEMMA FlushLeaves ==
  ASSUME Sendable, PacketTypes, FlushPendingFrames
  PROVE  \E packed : Leaves(<<>>, packed)
<1>1. SendShort(<<>>)
  BY DEF FlushPendingFrames
<1>2. PICK frames \in Seq(Packable) : frames = <<>>
  BY EmptySeq
<1>3. AtMostOne(Packable, frames)
  BY <1>2 DEF AtMostOne
<1> QED BY <1>1, <1>2, <1>3, ShortLeaves

(* The same of sendInitialPacket.                                          *)
LEMMA InitialLeaves ==
  ASSUME PacketTypes, SendInitialPacket
  PROVE  \E f \in Initials :
           /\ datagram' = Payload(Padded(sendPN, AppendFrame(f)), MaxPacketSize)
           /\ written' = Contents(TRUE, sendPN, <<f>>)
           /\ handled' = Nothing /\ sendPN' = sendPN + 1
           /\ UNCHANGED <<firstPN, largestRecvPN>>
BY DEF SendInitialPacket, Transmit, Padded, Pad, InitialBytes

-----------------------------------------------------------------------------
(* No datagram is too long *)

(* The invariant: no datagram is too long.                                 *)
FitsInv == PacketTypes /\ FitsPacket

(* It holds at first.                                                      *)
LEMMA FitsInit == PacketInit => FitsInv
<1> SUFFICES ASSUME PacketInit PROVE FitsInv
  OBVIOUS
<1>1. sendPN \in Nat
  BY PacketAssumption DEF PacketInit
<1>2. pendingFrames \in Seq(Queued)
  BY EmptySeq DEF PacketInit
<1>3. Len(datagram) = 0
  BY EmptySeq DEF PacketInit
<1>4. Len(datagram) <= MaxPacketSize
  BY <1>3, PacketAssumption
<1> QED BY <1>1, <1>2, <1>4 DEF FitsInv, PacketTypes, FitsPacket

(* Every step keeps it.                                                    *)
LEMMA FitsNext == Sendable /\ Roomy /\ FitsInv /\ [PacketNext]_packetVars => FitsInv'
<1> SUFFICES ASSUME Sendable, Roomy, FitsInv, [PacketNext]_packetVars PROVE FitsInv'
  OBVIOUS
<1>1. PacketTypes /\ PacketTypes' /\ Len(datagram) <= MaxPacketSize /\ MaxPacketSize \in Nat
  BY TypesKept, PacketAssumption DEF FitsInv, FitsPacket
<1>2. SUFFICES Len(datagram') <= MaxPacketSize
  BY <1>1 DEF FitsInv, FitsPacket
<1>3. CASE UNCHANGED datagram
  BY <1>1, <1>3
<1>4. CASE SendFrame
  <2>1. PICK f \in Sent : \E packed : Leaves(<<Truncated(f)>>, packed)
    BY <1>1, <1>4, FrameLeaves
  <2>2. PICK packed : Leaves(<<Truncated(f)>>, packed)
    BY <2>1
  <2>3. PICK first : first = Truncated(f)
    OBVIOUS
  <2>4. Writable(f) /\ Writable(first)
    <3>1. Writable(f)
      BY DEF Sendable
    <3> QED BY <2>3, <3>1, TruncatedWritable
  <2>5. PICK a, h : /\ a = AppendFrame(first) /\ IsBytes(a) /\ Bytes(<<first>>) = a
                    /\ h = Short(sendPN) /\ IsBytes(h) /\ Len(h) <= 1 + Len(DestConnID) + 4
    <3>1. sendPN \in Nat
      BY <1>1 DEF PacketTypes
    <3> QED BY <2>4, <3>1, BytesOfOne, ShortBytes
  <2>6. 1 + Len(DestConnID) + 4 + Len(a) <= MaxPacketSize
    <3>1. CASE StreamWritable(f)
      <4>1. Overhead(f) <= MaxPacketSize
        BY <3>1 DEF Roomy
      <4> QED BY <2>3, <2>5, <3>1, <4>1, TruncatedFits
    <3>2. CASE ~StreamWritable(f)
      <4>1. 1 + Len(DestConnID) + 4 + Len(AppendFrame(f)) <= MaxPacketSize
        BY <3>2 DEF Roomy
      <4>2. first = f
        BY <2>3, <2>4, <3>2, TruncatedWritable
      <4> QED BY <2>5, <4>1, <4>2
    <3> QED BY <3>1, <3>2
  <2>7. PICK m \in Nat, x \in Nat, y \in Nat : m = Len(DestConnID) /\ x = Len(a) /\ y = Len(h)
    <3>1. DestConnID \in Seq(Byte) /\ a \in Seq(Byte) /\ h \in Seq(Byte)
      BY <2>5, PacketAssumption DEF IsBytes
    <3> QED BY <3>1, LenProperties
  <2>8. Len(h ++ a) = y + x
    BY <2>5, <2>7, JoinedLen
  <2>9. y + x <= MaxPacketSize
    BY <1>1, <2>5, <2>6, <2>7
  <2>10. Len(Short(sendPN) \o Bytes(<<first>>)) <= MaxPacketSize
    BY <2>5, <2>8, <2>9 DEF ++
  <2> QED BY <2>2, <2>3, <2>10 DEF Leaves
<1>5. CASE FlushPendingFrames
  <2>1. PICK packed : Leaves(<<>>, packed)
    BY <1>1, <1>5, FlushLeaves
  <2>2. PICK h : h = Short(sendPN) /\ IsBytes(h) /\ Len(h) \in Nat /\ Len(h) <= 1 + Len(DestConnID) + 4
    <3>1. sendPN \in Nat
      BY <1>1 DEF PacketTypes
    <3> QED BY <3>1, ShortBytes
  <2>3. Short(sendPN) \o Bytes(<<>>) = h
    BY <2>2, BytesOfNone, JoinedNone DEF ++
  <2>4. Len(h) <= MaxPacketSize
    <3>1. Len(DestConnID) \in Nat
      BY PacketAssumption, LenProperties
    <3>2. 1 + Len(DestConnID) + 4 <= MaxPacketSize
      BY DEF Roomy
    <3> QED BY <1>1, <2>2, <3>1, <3>2
  <2> QED BY <2>1, <2>3, <2>4 DEF Leaves
<1>6. CASE SendInitialPacket
  <2>1. PICK f \in Initials : datagram' = Payload(Padded(sendPN, AppendFrame(f)), MaxPacketSize)
    BY <1>1, <1>6, InitialLeaves
  <2>2. Writable(f) /\ ShortIDs /\ ShortLength(AppendFrame(f))
    BY DEF Sendable, ShortLength
  <2>3. IsBytes(Padded(sendPN, AppendFrame(f)))
    <3>1. IsBytes(AppendFrame(f)) /\ sendPN \in Nat
      BY <1>1, <2>2, BytesOfOne DEF PacketTypes
    <3> QED BY <2>2, <3>1, PaddedBytes
  <2> QED BY <1>1, <2>1, <2>3, PayloadFits
<1>7. CASE datagram' = <<>>
  BY <1>1, <1>7, EmptySeq
<1>8. PacketNext => \/ SendFrame \/ FlushPendingFrames \/ SendInitialPacket
                    \/ UNCHANGED datagram \/ datagram' = <<>>
  BY DEF PacketNext, Queue, Lose, HandleReceivedPacket
<1>9. UNCHANGED packetVars => UNCHANGED datagram
  BY DEF packetVars
<1> QED BY <1>3, <1>4, <1>5, <1>6, <1>7, <1>8, <1>9

(* No datagram is longer than a packet may be.                             *)
THEOREM DatagramsFit ==
  ASSUME Sendable, Roomy
  PROVE  PacketSpec => []FitsPacket
<1>1. PacketInit => FitsInv
  BY FitsInit
<1>2. FitsInv /\ [PacketNext]_packetVars => FitsInv'
  BY FitsNext
<1>3. FitsInv => FitsPacket
  BY DEF FitsInv
<1> QED BY <1>1, <1>2, <1>3, PTL DEF PacketSpec

-----------------------------------------------------------------------------
(* What was sent is what is read *)

(* What is assumed of the numbers: they stay below half the window of the  *)
(* longest header and below 2^62; and of the Initial packets: they are not *)
(* cut to the size of a packet.                                            *)
Numbered ==
  /\ \A len \in Lengths : 1 < Half(len)
  /\ \A pn \in FirstPNs : pn + MaxPackets <= Half(4) /\ pn + MaxPackets <= Limit

InitialsFit ==
  /\ MinInitialPacketSize <= MaxPacketSize
  /\ \A f \in Initials : InitialSize(AppendFrame(f)) <= MaxPacketSize

(* What is on its way, and has the number before sendPN.                   *)
ShortInFlight(n, frames) ==
  /\ frames \in Seq(Packable)
  /\ written = Contents(FALSE, n, frames) /\ datagram = Short(n) ++ Bytes(frames)

InFlight ==
  /\ sendPN > 0 /\ (largestRecvPN < sendPN - 1 \/ largestRecvPN = 0)
  /\ handled = Nothing
  /\ \/ \E frames : ShortInFlight(sendPN - 1, frames)
     \/ written.long /\ \E f \in Initials : datagram = Padded(sendPN - 1, AppendFrame(f))

(* The numbers: what the receiver has seen is behind what is sent.         *)
NumberTypes ==
  /\ firstPN \in FirstPNs /\ sendPN <= firstPN + MaxPackets
  /\ largestRecvPN \in Nat /\ (largestRecvPN < sendPN \/ largestRecvPN = 0)

(* The invariant: what is on its way is what was written, whole, and its   *)
(* number is ahead of all that were read.                                  *)
TripInv ==
  /\ PacketTypes /\ NumberTypes
  /\ datagram # <<>> => InFlight
  /\ RoundTrip /\ InitialAsZero

(* The larger of two.                                                      *)
LEMMA LargerOf == \A a, b \in Nat : Max({a, b}) = IF a >= b THEN a ELSE b
BY DEF Max

(* It holds at first.                                                      *)
LEMMA TripInit == PacketInit => TripInv
<1> SUFFICES ASSUME PacketInit PROVE TripInv
  OBVIOUS
<1>1. PICK n \in Nat : n = firstPN /\ firstPN \in FirstPNs /\ sendPN = n /\ MaxPackets \in Nat
  BY PacketAssumption DEF PacketInit
<1>2. pendingFrames \in Seq(Queued)
  BY EmptySeq DEF PacketInit
<1>3. largestRecvPN \in Nat /\ (largestRecvPN < n \/ largestRecvPN = 0)
  <2>1. largestRecvPN = Max({n - 1, 0})
    BY <1>1 DEF PacketInit
  <2>2. CASE n = 0
    <3>1. \A x \in {n - 1, 0} : 0 >= x
      BY <2>2
    <3>2. Max({n - 1, 0}) = 0
      BY <2>2, <3>1 DEF Max
    <3> QED BY <2>1, <3>2
  <2>3. CASE n > 0
    <3>1. n - 1 \in Nat /\ 0 \in Nat
      BY <2>3
    <3>2. Max({n - 1, 0}) = n - 1
      BY <3>1, LargerOf
    <3> QED BY <2>1, <3>1, <3>2
  <2> QED BY <2>2, <2>3
<1>4. datagram = <<>> /\ handled = Nothing
  BY DEF PacketInit
<1> QED BY <1>1, <1>2, <1>3, <1>4
           DEF TripInv, PacketTypes, NumberTypes, RoundTrip, InitialAsZero, Arrived

(* The number of a packet with a short header is read back.                *)
LEMMA NumberDecoded ==
  ASSUME Numbered, PacketTypes, NumberTypes, InFlight, NEW n, n = sendPN - 1
  PROVE  /\ n \in Nat /\ n < Half(4) /\ HeaderLength(n, 0) \in Lengths
         /\ Decode(HeaderLength(n, 0), largestRecvPN, Truncate(HeaderLength(n, 0), n)) = n
         /\ Max({largestRecvPN, n}) = n
<1>1. PICK next \in Nat, first \in FirstPNs, largest \in Nat :
         next = sendPN /\ first = firstPN /\ largest = largestRecvPN
  BY DEF PacketTypes, NumberTypes
<1>2. first \in Nat /\ MaxPackets \in Nat /\ Limit \in Nat
  BY PacketAssumption, WindowsAssumption
<1>3. next > 0 /\ n = next - 1 /\ n \in Nat /\ (largest < n \/ largest = 0)
  BY <1>1 DEF InFlight
<1>4. next <= first + MaxPackets
  BY <1>1 DEF NumberTypes
<1>5. first + MaxPackets <= Half(4) /\ first + MaxPackets <= Limit
  BY DEF Numbered
<1>6. \A len \in Lengths : Half(len) \in Nat
  BY WindowsAssumption DEF Half
<1>7. PICK half \in Nat : half = Half(4)
  BY <1>6 DEF Lengths
<1>8. n < Half(4) /\ n < Limit
  BY <1>2, <1>3, <1>4, <1>5, <1>7
<1>9. PICK len : len = HeaderLength(n, 0) /\ len \in Lengths /\ n < Half(len)
  BY <1>3, <1>8, HeaderIsEnough
<1>10. PICK h \in Nat : h = Half(len) /\ 1 < h
  BY <1>6, <1>9 DEF Numbered
<1>11. Decodable(len, largest, n)
  BY <1>3, <1>9, <1>10 DEF Decodable
<1>12. Decode(len, largest, Truncate(len, n)) = n
  BY <1>3, <1>8, <1>9, <1>11, DecodeExact
<1>13. Max({largest, n}) = n
  BY <1>3, LargerOf
<1> QED BY <1>1, <1>3, <1>8, <1>9, <1>12, <1>13

(* A number of zero is decoded as zero and does not move the largest.      *)
LEMMA ZeroDecoded ==
  ASSUME Numbered, PacketTypes, NumberTypes, InFlight
  PROVE  /\ Decode(4, largestRecvPN, 0) = 0
         /\ Max({largestRecvPN, Decode(4, largestRecvPN, 0)}) = largestRecvPN
<1>1. PICK next \in Nat, first \in FirstPNs, largest \in Nat :
         next = sendPN /\ first = firstPN /\ largest = largestRecvPN
  BY DEF PacketTypes, NumberTypes
<1>2. first \in Nat /\ MaxPackets \in Nat /\ Limit \in Nat /\ 4 \in Lengths
  BY PacketAssumption, WindowsAssumption DEF Lengths
<1>3. next > 0 /\ (largest < next - 1 \/ largest = 0)
  BY <1>1 DEF InFlight
<1>4. next <= first + MaxPackets
  BY <1>1 DEF NumberTypes
<1>5. first + MaxPackets <= Half(4)
  BY DEF Numbered
<1>6. PICK win \in Nat, h \in Nat : win = Windows[4] /\ h = Half(4) /\ win = 2 * h /\ 1 < h
  <2>1. Windows[4] \in Nat /\ Windows[4] % 2 = 0
    BY <1>2, WindowsAssumption
  <2>2. PICK w \in Nat : w = Windows[4] /\ w % 2 = 0
    BY <2>1
  <2>3. w \div 2 \in Nat /\ w = 2 * (w \div 2)
    BY <2>2
  <2>4. 1 < Half(4)
    BY <1>2 DEF Numbered
  <2> QED BY <2>2, <2>3, <2>4 DEF Half
<1>7. PICK e \in Nat : e = largest + 1 /\ e < h
  <2>1. largest + 1 \in Nat /\ largest + 1 < h
    BY <1>2, <1>3, <1>4, <1>5, <1>6
  <2> QED BY <2>1
<1>8. e % win = e
  BY <1>6, <1>7
<1>9. Decode(4, largest, 0) = 0
  <2>1. (e - (e % win)) + 0 = 0
    BY <1>8
  <2>2. ~(0 <= e - h) /\ ~(0 > e + h)
    BY <1>6, <1>7
  <2> QED BY <1>6, <1>7, <2>1, <2>2 DEF Decode
<1>10. Max({largest, 0}) = largest
  <2>1. 0 \in Nat /\ largest >= 0
    OBVIOUS
  <2> QED BY <2>1, LargerOf
<1> QED BY <1>1, <1>9, <1>10

(* A packet with a short header is read as it was written.                 *)
LEMMA ShortHandled ==
  ASSUME Sendable, Numbered, PacketTypes, NumberTypes, InFlight,
         NEW n, n = sendPN - 1, NEW frames, ShortInFlight(n, frames), HandleReceivedPacket
  PROVE  largestRecvPN' = n /\ handled' = written
<1>1. PICK len \in Lengths : len = HeaderLength(n, 0)
  BY NumberDecoded
<1>2. /\ n \in Nat /\ Decode(len, largestRecvPN, Truncate(len, n)) = n
      /\ Max({largestRecvPN, n}) = n
  BY <1>1, NumberDecoded
<1>3. PICK v \in Nat : v = Truncate(len, n) /\ v < Windows[len]
  <2>1. PICK w \in Nat : w = Windows[len] /\ w > 0
    BY WindowsAssumption
  <2>2. n % w \in Nat /\ n % w < w
    BY <1>2, <2>1
  <2> QED BY <2>1, <2>2 DEF Truncate
<1>4. PICK s : s = Bytes(frames) /\ IsBytes(s) /\ ParseFrames(s) = frames
  <2>1. frames \in Seq(Packable) /\ \A f \in Packable : Writable(f)
    BY PackableWritable DEF ShortInFlight
  <2> QED BY <2>1, FramesRoundTrip DEF IsBytes
<1>5. PICK b : b = datagram
  OBVIOUS
<1>6. b = (<<64 + len - 1>> \o DestConnID \o BigEndian(v, len)) \o s
  <2>1. b = Short(n) ++ s
    BY <1>4, <1>5 DEF ShortInFlight
  <2> QED BY <1>1, <1>3, <2>1 DEF Short, AppendShortHeader, ++
<1>7. /\ IsBytes(b) /\ b # <<>> /\ b[1] < 128
      /\ ParsePacket(b) = {[pnLen |-> len, pn |-> v, frames |-> s]}
  BY <1>3, <1>4, <1>6, ShortRead
<1>8. PICK p : p = [pnLen |-> len, pn |-> v, frames |-> s]
  OBVIOUS
<1>9. /\ largestRecvPN' = Max({largestRecvPN, Decode(p.pnLen, largestRecvPN, p.pn)})
      /\ handled' = Contents(b[1] >= 128, Decode(p.pnLen, largestRecvPN, p.pn), ParseFrames(p.frames))
  <2>1. ParsePacket(datagram) = {p} /\ ParsePacket(datagram) # {}
    BY <1>5, <1>7, <1>8
  <2> QED BY <1>5, <2>1 DEF HandleReceivedPacket
<1>10. p.pnLen = len /\ p.pn = v /\ p.frames = s
  BY <1>8
<1>11. Decode(p.pnLen, largestRecvPN, p.pn) = n
  BY <1>2, <1>3, <1>10
<1>12. (b[1] >= 128) = FALSE
  <2>1. PICK x \in Nat : x = b[1] /\ x < 128
    <3>1. Len(b) \in Nat /\ Len(b) # 0
      BY <1>7, LenProperties, EmptySeq DEF IsBytes
    <3>2. 1 \in 1 .. Len(b)
      BY <3>1
    <3>3. b[1] \in Byte
      BY <1>7, <3>2, ElementOfSeq DEF IsBytes
    <3>4. b[1] \in Nat
      BY <3>3 DEF Byte
    <3> QED BY <1>7, <3>4
  <2>2. (x >= 128) = FALSE
    BY <2>1
  <2> QED BY <2>1, <2>2
<1>13. handled' = Contents(FALSE, n, frames)
  BY <1>4, <1>9, <1>10, <1>11, <1>12
<1> QED BY <1>2, <1>9, <1>11, <1>13 DEF ShortInFlight

(* An Initial packet is dropped or read as number 0, and does not move the *)
(* largest number.                                                         *)
LEMMA LongHandled ==
  ASSUME Sendable, Numbered, PacketTypes, NumberTypes, InFlight,
         NEW f \in Initials, datagram = Padded(sendPN - 1, AppendFrame(f)),
         HandleReceivedPacket
  PROVE  UNCHANGED largestRecvPN /\ (handled' = Unreadable \/ handled'.pn = 0)
<1>1. PICK s : s = AppendFrame(f) /\ IsBytes(s) /\ ShortLength(s) /\ ShortIDs
  <2>1. Writable(f) /\ ShortIDs /\ ShortLength(AppendFrame(f))
    BY DEF Sendable, ShortLength
  <2> QED BY <2>1, BytesOfOne
<1>2. PICK n \in Nat : n = sendPN - 1
  BY NumberDecoded
<1>3. PICK u, v, z : PaddedAs(n, s, u, v, z)
  BY <1>1, PaddedBytes
<1>4. PICK t : t = InitialTail(n, s)
  OBVIOUS
<1>5. PICK l \in Nat : l = 4 + Len(s) /\ Len(t) = l + 1 /\ IsBytes(t)
  <2>1. IsBytes(t) /\ Len(t) = 5 + Len(s) /\ Len(s) \in Nat
    BY <1>1, <1>4, TailBytes, LenProperties DEF IsBytes
  <2> QED BY <2>1
<1>6. PICK b : b = datagram
  OBVIOUS
<1>7. /\ u \in Byte /\ v \in Byte /\ Length14(l, u, v) /\ IsZeros(z)
      /\ b = InitialHead ++ (Two(u, v) ++ (t ++ z))
  BY <1>1, <1>2, <1>3, <1>4, <1>5, <1>6 DEF PaddedAs
<1>8. \A p \in ParsePacket(b) : p.pnLen = 4 /\ p.pn = 0
  BY <1>1, <1>5, <1>7, InitialUnread
<1>9. CASE ParsePacket(b) = {}
  BY <1>6, <1>9 DEF HandleReceivedPacket
<1>10. CASE ParsePacket(b) # {}
  <2>1. PICK p \in ParsePacket(b) :
           /\ largestRecvPN' = Max({largestRecvPN, Decode(p.pnLen, largestRecvPN, p.pn)})
           /\ handled' = Contents(datagram[1] >= 128, Decode(p.pnLen, largestRecvPN, p.pn),
                                   ParseFrames(p.frames))
    BY <1>6, <1>10 DEF HandleReceivedPacket
  <2>2. p.pnLen = 4 /\ p.pn = 0
    BY <1>8
  <2>3. handled'.pn = 0
    BY <2>1, <2>2, ZeroDecoded DEF Contents
  <2> QED BY <2>1, <2>2, <2>3, ZeroDecoded
<1> QED BY <1>9, <1>10

(* Whatever is sent has the number before the next one.                    *)
LEMMA SentInFlight ==
  ASSUME PacketTypes, NumberTypes, Idle, NEW n, n = sendPN, sendPN' = sendPN + 1, handled' = Nothing,
         UNCHANGED <<firstPN, largestRecvPN>>,
         \/ \E frames : ShortInFlight(n, frames)'
         \/ written'.long /\ \E f \in Initials : datagram' = Padded(n, AppendFrame(f))
  PROVE  NumberTypes' /\ InFlight'
<1>1. PICK next \in Nat, largest \in Nat, first \in Nat, max \in Nat :
         next = sendPN /\ largest = largestRecvPN /\ first = firstPN /\ max = MaxPackets
  BY PacketAssumption DEF PacketTypes, NumberTypes
<1>2. /\ sendPN' = next + 1 /\ largestRecvPN' = largest /\ firstPN' = first
      /\ next < first + max /\ (largest < next \/ largest = 0)
  BY <1>1 DEF Idle, NumberTypes
<1>3. NumberTypes'
  BY <1>1, <1>2 DEF NumberTypes
<1>4. sendPN' - 1 = n
  BY <1>1, <1>2
<1>5. sendPN' > 0 /\ (largestRecvPN' < sendPN' - 1 \/ largestRecvPN' = 0)
  BY <1>1, <1>2
<1> QED BY <1>1, <1>3, <1>4, <1>5 DEF InFlight

(* What SendShort sends is in flight.                                      *)
LEMMA LeavesInFlight ==
  ASSUME NEW n, n = sendPN, NEW frames, NEW packed, Leaves(frames, packed)
  PROVE  \E all : ShortInFlight(n, all)'
BY DEF Leaves, ShortInFlight

(* Every step keeps it.                                                    *)
LEMMA TripNext ==
  Sendable /\ Numbered /\ InitialsFit /\ TripInv /\ [PacketNext]_packetVars => TripInv'
<1> SUFFICES ASSUME Sendable, Numbered, InitialsFit, TripInv, [PacketNext]_packetVars
             PROVE  TripInv'
  OBVIOUS
<1>1. PacketTypes /\ NumberTypes /\ RoundTrip /\ InitialAsZero /\ PacketTypes'
  BY TypesKept DEF TripInv
<1>2. ASSUME NumberTypes', InFlight' PROVE TripInv'
  <2>1. handled' = Nothing
    BY <1>2 DEF InFlight
  <2> QED BY <1>1, <1>2, <2>1 DEF TripInv, RoundTrip, InitialAsZero, Arrived
<1>3. CASE SendFrame
  <2>1. PICK f \in Sent : \E packed : Leaves(<<Truncated(f)>>, packed)
    BY <1>1, <1>3, FrameLeaves
  <2>2. PICK packed : Leaves(<<Truncated(f)>>, packed)
    BY <2>1
  <2>3. Idle /\ UNCHANGED <<firstPN, largestRecvPN>>
    BY <1>3 DEF SendFrame, SendShort
  <2>4. PICK n : n = sendPN
    OBVIOUS
  <2>5. PICK frames : frames = <<Truncated(f)>>
    OBVIOUS
  <2>6. \E all : ShortInFlight(n, all)'
    BY <2>2, <2>4, <2>5, LeavesInFlight
  <2>7. sendPN' = sendPN + 1 /\ handled' = Nothing
    BY <2>2 DEF Leaves
  <2>8. NumberTypes' /\ InFlight'
    BY <1>1, <2>3, <2>4, <2>6, <2>7, SentInFlight
  <2> QED BY <1>2, <2>8
<1>4. CASE FlushPendingFrames
  <2>1. PICK packed : Leaves(<<>>, packed)
    BY <1>1, <1>4, FlushLeaves
  <2>2. Idle /\ UNCHANGED <<firstPN, largestRecvPN>>
    BY <1>4 DEF FlushPendingFrames, SendShort
  <2>3. PICK n : n = sendPN
    OBVIOUS
  <2>4. PICK frames : frames = <<>>
    OBVIOUS
  <2>5. \E all : ShortInFlight(n, all)'
    BY <2>1, <2>3, <2>4, LeavesInFlight
  <2>6. sendPN' = sendPN + 1 /\ handled' = Nothing
    BY <2>1 DEF Leaves
  <2>7. NumberTypes' /\ InFlight'
    BY <1>1, <2>2, <2>3, <2>5, <2>6, SentInFlight
  <2> QED BY <1>2, <2>7
<1>5. CASE SendInitialPacket
  <2>1. PICK f \in Initials :
          /\ datagram' = Payload(Padded(sendPN, AppendFrame(f)), MaxPacketSize)
          /\ written' = Contents(TRUE, sendPN, <<f>>)
          /\ handled' = Nothing /\ sendPN' = sendPN + 1
          /\ UNCHANGED <<firstPN, largestRecvPN>>
    BY <1>1, <1>5, InitialLeaves
  <2>2. Idle
    BY <1>5 DEF SendInitialPacket
  <2>3. PICK n \in Nat : n = sendPN
    BY <1>1 DEF PacketTypes
  <2>4. PICK s : s = AppendFrame(f) /\ IsBytes(s) /\ ShortLength(s) /\ ShortIDs
    <3>1. Writable(f) /\ ShortIDs /\ ShortLength(AppendFrame(f))
      BY DEF Sendable, ShortLength
    <3> QED BY <3>1, BytesOfOne
  <2>5. InitialSize(s) <= MaxPacketSize /\ MinInitialPacketSize <= MaxPacketSize
    BY <2>4 DEF InitialsFit
  <2>6. IsBytes(Padded(n, s)) /\ Len(Padded(n, s)) <= MaxPacketSize
    BY <2>4, <2>5, PaddedBytes
  <2>7. Payload(Padded(n, s), MaxPacketSize) = Padded(n, s)
    BY <2>6, PayloadFits, PacketAssumption
  <2>8. datagram' = Padded(n, AppendFrame(f)) /\ written'.long
    BY <2>1, <2>3, <2>4, <2>7 DEF Contents
  <2>9. NumberTypes' /\ InFlight'
    BY <1>1, <2>1, <2>2, <2>3, <2>8, SentInFlight
  <2> QED BY <1>2, <2>9
<1>6. CASE HandleReceivedPacket
  <2>1. InFlight /\ datagram' = <<>> /\ UNCHANGED <<firstPN, sendPN, written>>
    BY <1>6 DEF HandleReceivedPacket, TripInv
  <2>2. PICK n : n = sendPN - 1
    OBVIOUS
  <2>3. ASSUME NEW frames, ShortInFlight(n, frames) PROVE TripInv'
    <3>1. largestRecvPN' = n /\ handled' = written
      BY <1>1, <1>6, <2>1, <2>2, <2>3, ShortHandled
    <3>2. NumberTypes'
      <4>1. n \in Nat
        BY <1>1, <2>1, <2>2, NumberDecoded
      <4>2. n < sendPN
        BY <1>1, <2>2, <4>1 DEF PacketTypes
      <4> QED BY <1>1, <2>1, <3>1, <4>1, <4>2 DEF NumberTypes
    <3>3. ~written.long
      BY <2>3 DEF ShortInFlight, Contents
    <3> QED BY <1>1, <2>1, <3>1, <3>2, <3>3 DEF TripInv, RoundTrip, InitialAsZero
  <2>4. ASSUME NEW f \in Initials, written.long, datagram = Padded(n, AppendFrame(f))
        PROVE  TripInv'
    <3>1. UNCHANGED largestRecvPN /\ (handled' = Unreadable \/ handled'.pn = 0)
      BY <1>1, <1>6, <2>1, <2>2, <2>4, LongHandled
    <3>2. NumberTypes'
      BY <1>1, <2>1, <3>1 DEF NumberTypes
    <3> QED BY <1>1, <2>1, <2>4, <3>1, <3>2 DEF TripInv, RoundTrip, InitialAsZero
  <2> QED BY <2>1, <2>2, <2>3, <2>4 DEF InFlight
<1>7. CASE Lose
  <2>1. InFlight /\ datagram' = <<>> /\ UNCHANGED <<firstPN, sendPN, largestRecvPN, handled>>
    BY <1>7 DEF Lose, TripInv
  <2>2. handled' = Nothing /\ NumberTypes'
    BY <1>1, <2>1 DEF InFlight, NumberTypes
  <2> QED BY <1>1, <2>1, <2>2 DEF TripInv, RoundTrip, InitialAsZero, Arrived
<1>8. CASE UNCHANGED <<firstPN, sendPN, datagram, written, largestRecvPN, handled>>
  <2>1. NumberTypes' /\ RoundTrip' /\ InitialAsZero'
    BY <1>1, <1>8 DEF NumberTypes, RoundTrip, InitialAsZero, Arrived
  <2>2. datagram' # <<>> => InFlight'
    BY <1>8 DEF TripInv, InFlight, ShortInFlight
  <2> QED BY <1>1, <2>1, <2>2 DEF TripInv
<1>9. Queue \/ UNCHANGED packetVars
        => UNCHANGED <<firstPN, sendPN, datagram, written, largestRecvPN, handled>>
  BY DEF Queue, packetVars
<1> QED BY <1>3, <1>4, <1>5, <1>6, <1>7, <1>8, <1>9 DEF PacketNext

(* A packet with a short header means the same at both ends.               *)
THEOREM RoundTrips ==
  ASSUME Sendable, Numbered, InitialsFit
  PROVE  PacketSpec => []RoundTrip
<1>1. PacketInit => TripInv
  BY TripInit
<1>2. TripInv /\ [PacketNext]_packetVars => TripInv'
  BY TripNext
<1>3. TripInv => RoundTrip
  BY DEF TripInv
<1> QED BY <1>1, <1>2, <1>3, PTL DEF PacketSpec

(* Whatever frame an Initial packet carries, the other end drops it or     *)
(* takes it for number 0.                                                  *)
THEOREM InitialsAsZero ==
  ASSUME Sendable, Numbered, InitialsFit
  PROVE  PacketSpec => []InitialAsZero
<1>1. PacketInit => TripInv
  BY TripInit
<1>2. TripInv /\ [PacketNext]_packetVars => TripInv'
  BY TripNext
<1>3. TripInv => InitialAsZero
  BY DEF TripInv
<1> QED BY <1>1, <1>2, <1>3, PTL DEF PacketSpec
=============================================================================
