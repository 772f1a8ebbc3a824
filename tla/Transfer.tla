------------------------------ MODULE Transfer ------------------------------
(***************************************************************************)
(* Upload and download of one file (cmd/fileclient, cmd/fileserver): each  *)
(* client has a connection and one stream of its own, the server a handler *)
(* goroutine for each stream, and all handlers share the file of that name *)
(* on the server's disk.                                                   *)
(*                                                                         *)
(* A direction of a stream delivers in order (ByteStream).  Its FIN may    *)
(* never be reported (the run Stream_fin), and either end of a connection  *)
(* may give up without the other being told (the run Connection_close).    *)
(*                                                                         *)
(* Abstracted: a request, a size and a message are single items; a unit of *)
(* data, the file buffer of a loop, names who had it first and its place;  *)
(* Write does not block: it ends when the peer answers, or with the        *)
(* connection, whose probes notice a peer that does not.                   *)
(*                                                                         *)
(* An operator X_Fault is X with a bug put in: nothing uses it but the     *)
(* tests of the properties (PROJECT.json, "mutants").                      *)
(***************************************************************************)
EXTENDS Integers, Sequences

CONSTANTS
    Uploaders, Downloaders,   \* clients, by what they do
    Server,                   \* who has the data of the first file
    Sizes,                    \* sizes of the files that are uploaded
    FirstSizes,               \* and of the first file on the server, if there is one
    MaxFaults                 \* bound: ends that time out, and disks that fail

Clients == Uploaders \cup Downloaders
Ends == {"client", "server"}

ASSUME ConstantsAssumption ==
    /\ Uploaders \cap Downloaders = {} /\ Server \notin Clients
    /\ Sizes \subseteq Nat /\ FirstSizes \subseteq Nat
    /\ MaxFaults \in Nat

VARIABLES
    size,         \* of the file of an uploader
    exists, file, \* the file on the server's disk
    up, down,     \* the directions of each stream
    gaveUp,       \* the ends of a connection that have timed out
    faults,
    clientPC,     \* where each client is; "complete" and "failed" are ends
    want,         \* the size a downloader was told
    local,        \* its file
    confirmed,    \* uploaders that have read the confirmation
    handlerPC,    \* where each handler is
    announced,    \* fileSize of a handler
    taken,        \* its totalRecv or totalSent
    \* history
    spoiled,      \* handlers whose file changed under them, or whose disk failed
    seen          \* the file when a handler confirmed or announced it

wire    == <<up, down, gaveUp>>
client  == <<clientPC, want, local, confirmed>>
handler == <<handlerPC, announced, taken>>
disk    == <<exists, file>>
history == <<spoiled, seen>>
vars    == <<size, faults, disk, wire, client, handler, history>>

Item(kind, owner, n) == [kind |-> kind, owner |-> owner, n |-> n]
Units(owner, n) == [i \in 1 .. n |-> Item("data", owner, i)]
Content(c) == Units(c, size[c])
Hole == Item("data", Server, 0)

(* A direction of a stream: what was written, how much of it has arrived   *)
(* and been read, and whether the FIN was sent or is known to the reader.  *)
Idle == [wrote |-> <<>>, arrived |-> 0, read |-> 0, fin |-> "open"]
Arrived(d) == d.arrived - d.read
Next1(d) == d.wrote[d.read + 1]
Write(d, items) == [d EXCEPT !.wrote = @ \o items]
Read_Twice(d) == [d EXCEPT !.read = @ + 2]
Read(d) == [d EXCEPT !.read = @ + 1]

Init ==
    /\ size \in [Uploaders -> Sizes]
    /\ \/ exists = FALSE /\ file = <<>>
       \/ exists = TRUE /\ \E n \in FirstSizes : file = Units(Server, n)
    /\ up = [c \in Clients |-> Idle] /\ down = [c \in Clients |-> Idle]
    /\ gaveUp = [c \in Clients |-> {}] /\ faults = 0
    /\ clientPC = [c \in Clients |-> "start"]
    /\ want = [c \in Clients |-> 0] /\ local = [c \in Clients |-> <<>>]
    /\ confirmed = {}
    /\ handlerPC = [c \in Clients |-> "accept"]
    /\ announced = [c \in Clients |-> 0] /\ taken = [c \in Clients |-> 0]
    /\ spoiled = {} /\ seen = [c \in Clients |-> <<>>]

Done(c) == clientPC[c] \in {"complete", "failed"}

(* A client closes its connection when it returns. *)
Closed(c, e) == e \in gaveUp[c] \/ (e = "client" /\ Done(c))

(* Close sends FIN if the connection still sends. *)
Fin(d, c, e) ==
    IF d.fin = "open" /\ ~Closed(c, e) THEN [d EXCEPT !.fin = "sent"] ELSE d

AtEOF(d, c, reader) ==
    /\ Arrived(d) = 0
    /\ d.fin = "known" \/ Closed(c, reader)

-----------------------------------------------------------------------------
(* The streams and the connections.  What arrives for nobody, or closes   *)
(* behind a handler that has returned, is left out.                        *)
Receives(c, e) == ~Closed(c, e) /\ (e = "server" => handlerPC[c] # "done")

Advance(d) ==
    IF d.arrived < Len(d.wrote) THEN {[d EXCEPT !.arrived = @ + 1]} ELSE {}
KnowFin(d) ==
    IF d.fin = "sent" /\ d.arrived = Len(d.wrote) THEN {[d EXCEPT !.fin = "known"]} ELSE {}

Arrive(c) ==
    /\ \/ /\ Receives(c, "server")
          /\ \E d \in Advance(up[c]) : up' = [up EXCEPT ![c] = d]
          /\ UNCHANGED down
       \/ /\ Receives(c, "client")
          /\ \E d \in Advance(down[c]) : down' = [down EXCEPT ![c] = d]
          /\ UNCHANGED up
    /\ UNCHANGED <<size, faults, disk, gaveUp, client, handler, history>>

(* The FIN frame that came before data is reported after the data. *)
FinArrives(c) ==
    /\ \/ /\ Receives(c, "server")
          /\ \E d \in KnowFin(up[c]) : up' = [up EXCEPT ![c] = d]
          /\ UNCHANGED down
       \/ /\ Receives(c, "client")
          /\ \E d \in KnowFin(down[c]) : down' = [down EXCEPT ![c] = d]
          /\ UNCHANGED up
    /\ UNCHANGED <<size, faults, disk, gaveUp, client, handler, history>>

Fault == faults < MaxFaults /\ faults' = faults + 1

GiveUp(c, e) ==
    /\ Fault
    /\ Receives(c, e)
    /\ gaveUp' = [gaveUp EXCEPT ![c] = @ \cup {e}]
    /\ UNCHANGED <<size, disk, up, down, client, handler, history>>

-----------------------------------------------------------------------------
(* uploadFile *)
Goto(c, pc) == clientPC' = [clientPC EXCEPT ![c] = pc]

UploadRequest(c) ==
    /\ c \in Uploaders
    /\ clientPC[c] = "start"
    /\ ~Closed(c, "client")
    /\ up' = [up EXCEPT ![c] = Write(@, <<Item("request", c, size[c])>>)]
    /\ Goto(c, "sending")
    /\ UNCHANGED <<size, faults, disk, down, gaveUp, want, local, confirmed, handler, history>>

SendUnit(c) ==
    /\ clientPC[c] = "sending"
    /\ ~Closed(c, "client")
    /\ Len(up[c].wrote) <= size[c]
    /\ up' = [up EXCEPT ![c] = Write(@, <<Content(c)[Len(@.wrote)]>>)]
    /\ UNCHANGED <<size, faults, disk, down, gaveUp, client, handler, history>>

CloseWrite(c) ==
    /\ clientPC[c] = "sending"
    /\ Len(up[c].wrote) > size[c]
    /\ up' = [up EXCEPT ![c] = Fin(@, c, "client")]
    /\ Goto(c, "waitAck")
    /\ UNCHANGED <<size, faults, disk, down, gaveUp, want, local, confirmed, handler, history>>

(* A Write on a connection that has given up, or a disk that fails.        *)
ClientFails(c) ==
    /\ \/ clientPC[c] \in {"start", "sending"} /\ Closed(c, "client") /\ UNCHANGED faults
       \/ clientPC[c] \in {"sending", "receiving"} /\ Fault
    /\ up' = [up EXCEPT ![c] = Fin(@, c, "client")]
    /\ Goto(c, "failed")
    /\ UNCHANGED <<size, disk, down, gaveUp, want, local, confirmed, handler, history>>

(* "complete" is reported whether the confirmation, io.EOF or the read     *)
(* deadline ends the wait.                                                 *)
ReadAck(c) ==
    /\ clientPC[c] = "waitAck"
    /\ Arrived(down[c]) > 0
    /\ confirmed' = confirmed \cup {c}
    /\ Goto(c, "complete")
    /\ UNCHANGED <<size, faults, disk, wire, want, local, handler, history>>

NoAck(c) ==
    /\ clientPC[c] = "waitAck"
    /\ Arrived(down[c]) = 0
    /\ Goto(c, "complete")
    /\ UNCHANGED <<size, faults, disk, wire, want, local, confirmed, handler, history>>

Upload(c) ==
    UploadRequest(c) \/ SendUnit(c) \/ CloseWrite(c) \/ ReadAck(c) \/ NoAck(c)

-----------------------------------------------------------------------------
(* downloadFile *)
DownloadRequest(c) ==
    /\ c \in Downloaders
    /\ clientPC[c] = "start"
    /\ ~Closed(c, "client")
    /\ up' = [up EXCEPT ![c] = Fin(Write(@, <<Item("request", c, 0)>>), c, "client")]
    /\ Goto(c, "waitSize")
    /\ UNCHANGED <<size, faults, disk, down, gaveUp, want, local, confirmed, handler, history>>

ReadSize(c) ==
    /\ clientPC[c] = "waitSize"
    /\ Arrived(down[c]) > 0
    /\ want' = [want EXCEPT ![c] = Next1(down[c]).n]
    /\ down' = [down EXCEPT ![c] = Read(@)]
    /\ Goto(c, IF want'[c] = 0 THEN "waitError" ELSE "receiving")
    /\ UNCHANGED <<size, faults, disk, up, gaveUp, local, confirmed, handler, history>>

(* A size of 0 announces an error message, or an empty file.               *)
ReadError(c) ==
    /\ \/ clientPC[c] = "waitError" /\ Arrived(down[c]) > 0
       \/ clientPC[c] = "waitSize" /\ AtEOF(down[c], c, "client")
    /\ Goto(c, "failed")
    /\ UNCHANGED <<size, faults, disk, wire, want, local, confirmed, handler, history>>

NoError(c) ==
    /\ clientPC[c] = "waitError"
    /\ AtEOF(down[c], c, "client")
    /\ Goto(c, "receiving")
    /\ UNCHANGED <<size, faults, disk, wire, want, local, confirmed, handler, history>>

Whole_Early(c, n) == n + 1 >= want[c]
Whole(c, n) == n >= want[c]

ReceiveFile(c) ==
    /\ clientPC[c] = "receiving"
    /\ Arrived(down[c]) > 0
    /\ local' = [local EXCEPT ![c] = Append(@, Next1(down[c]))]
    /\ down' = [down EXCEPT ![c] = Read(@)]
    /\ Goto(c, IF Whole(c, Len(local'[c])) THEN "complete" ELSE "receiving")
    /\ UNCHANGED <<size, faults, disk, up, gaveUp, want, confirmed, handler, history>>

(* io.EOF ends the loop, however much has come. *)
ReceiveEOF(c) ==
    /\ clientPC[c] = "receiving"
    /\ AtEOF(down[c], c, "client")
    /\ Goto(c, "complete")
    /\ UNCHANGED <<size, faults, disk, wire, want, local, confirmed, handler, history>>

Download(c) ==
    \/ DownloadRequest(c) \/ ReadSize(c) \/ ReadError(c) \/ NoError(c)
    \/ ReceiveFile(c) \/ ReceiveEOF(c)

-----------------------------------------------------------------------------
(* handleFileConn and handleStream: the goroutine of a new stream reads    *)
(* the request.                                                            *)
HandleStream(c) ==
    /\ handlerPC[c] = "accept"
    /\ ~Closed(c, "server")
    /\ Arrived(up[c]) > 0
    /\ up' = [up EXCEPT ![c] = Read(@)]
    /\ announced' = [announced EXCEPT ![c] = Next1(up[c]).n]
    /\ handlerPC' = [handlerPC EXCEPT ![c] = IF c \in Uploaders THEN "create" ELSE "open"]
    /\ UNCHANGED <<size, faults, disk, down, gaveUp, client, taken, history>>

(* Whoever changes the file disturbs the other handlers that have it open. *)
Holders == {c \in Clients : handlerPC[c] \in {"receive", "confirm", "send"}}
Disturb(c) == spoiled' = spoiled \cup (Holders \ {c})

(* os.Create truncates the file. *)
Created_Keeps(f) == f
Created(f) == <<>>

Create(c) ==
    /\ handlerPC[c] = "create"
    /\ exists' = TRUE
    /\ file' = Created(file)
    /\ Disturb(c)
    /\ handlerPC' = [handlerPC EXCEPT ![c] = "receive"]
    /\ UNCHANGED <<size, faults, wire, client, announced, taken, seen>>

(* Each handler has its own offset in the file. *)
WrittenAt(f, offset, unit) ==
    [i \in 1 .. (IF Len(f) > offset THEN Len(f) ELSE offset + 1) |->
        IF i = offset + 1 THEN unit ELSE IF i <= Len(f) THEN f[i] ELSE Hole]

Enough_AtFin(c, n) == n > announced[c]
Enough(c, n) == n >= announced[c]

Receive(c) ==
    /\ handlerPC[c] = "receive"
    /\ Arrived(up[c]) > 0
    /\ file' = WrittenAt(file, taken[c], Next1(up[c]))
    /\ up' = [up EXCEPT ![c] = Read(@)]
    /\ taken' = [taken EXCEPT ![c] = @ + 1]
    /\ handlerPC' = [handlerPC EXCEPT ![c] = IF Enough(c, taken'[c]) THEN "confirm" ELSE @]
    /\ Disturb(c)
    /\ UNCHANGED <<size, faults, exists, down, gaveUp, client, announced, seen>>

EndOfData(c) ==
    /\ handlerPC[c] = "receive"
    /\ AtEOF(up[c], c, "server")
    /\ handlerPC' = [handlerPC EXCEPT ![c] = "confirm"]
    /\ UNCHANGED <<size, faults, disk, wire, client, announced, taken, history>>

(* What a handler writes is lost if its end of the connection is closed.   *)
Reply(c, items) ==
    down' = [down EXCEPT ![c] =
                IF Closed(c, "server") THEN @ ELSE Fin(Write(@, items), c, "server")]

Confirm(c) ==
    /\ handlerPC[c] = "confirm"
    /\ Reply(c, <<Item("ok", Server, taken[c])>>)
    /\ seen' = [seen EXCEPT ![c] = file]
    /\ handlerPC' = [handlerPC EXCEPT ![c] = "done"]
    /\ UNCHANGED <<size, faults, disk, up, gaveUp, client, announced, taken, spoiled>>

(* handleDownload: the size is what Stat says when the file is opened.     *)
Open(c) ==
    /\ handlerPC[c] = "open"
    /\ exists
    /\ announced' = [announced EXCEPT ![c] = Len(file)]
    /\ seen' = [seen EXCEPT ![c] = file]
    /\ IF Closed(c, "server")
       THEN /\ handlerPC' = [handlerPC EXCEPT ![c] = "done"]
            /\ UNCHANGED down
       ELSE /\ handlerPC' = [handlerPC EXCEPT ![c] = "send"]
            /\ down' = [down EXCEPT ![c] = Write(@, <<Item("size", Server, Len(file))>>)]
    /\ UNCHANGED <<size, faults, disk, up, gaveUp, client, taken, spoiled>>

NotFound(c) ==
    /\ handlerPC[c] = "open"
    /\ ~exists
    /\ Reply(c, <<Item("size", Server, 0), Item("error", Server, 0)>>)
    /\ handlerPC' = [handlerPC EXCEPT ![c] = "done"]
    /\ UNCHANGED <<size, faults, disk, up, gaveUp, client, announced, taken, history>>

SendFile(c) ==
    /\ handlerPC[c] = "send"
    /\ ~Closed(c, "server")
    /\ taken[c] < Len(file)
    /\ down' = [down EXCEPT ![c] = Write(@, <<file[taken[c] + 1]>>)]
    /\ taken' = [taken EXCEPT ![c] = @ + 1]
    /\ UNCHANGED <<size, faults, disk, up, gaveUp, client, handlerPC, announced, history>>

(* The end of the file, or a Write that fails. *)
SendEnds(c) ==
    /\ handlerPC[c] = "send"
    /\ taken[c] >= Len(file) \/ Closed(c, "server")
    /\ down' = [down EXCEPT ![c] = Fin(@, c, "server")]
    /\ handlerPC' = [handlerPC EXCEPT ![c] = "done"]
    /\ UNCHANGED <<size, faults, disk, up, gaveUp, client, announced, taken, history>>

(* A disk that fails ends the handler, with FIN. *)
HandlerFails(c) ==
    /\ Fault
    /\ handlerPC[c] \in {"create", "receive", "send"}
    /\ spoiled' = spoiled \cup {c}
    /\ down' = [down EXCEPT ![c] = Fin(@, c, "server")]
    /\ handlerPC' = [handlerPC EXCEPT ![c] = "done"]
    /\ UNCHANGED <<size, disk, up, gaveUp, client, announced, taken, seen>>

HandleUpload(c) ==
    Create(c) \/ Receive(c) \/ EndOfData(c) \/ Confirm(c)

HandleDownload(c) ==
    Open(c) \/ NotFound(c) \/ SendFile(c) \/ SendEnds(c)

Next ==
    \E c \in Clients :
        \/ Arrive(c) \/ FinArrives(c) \/ (\E e \in Ends : GiveUp(c, e))
        \/ Upload(c) \/ Download(c) \/ ClientFails(c)
        \/ HandleStream(c) \/ HandleUpload(c) \/ HandleDownload(c) \/ HandlerFails(c)

Spec == Init /\ [][Next]_vars

-----------------------------------------------------------------------------
Items == [kind : {"request", "data", "size", "ok", "error"},
          owner : Clients \cup {Server}, n : Nat]
Data == [kind : {"data"}, owner : Clients \cup {Server}, n : Nat]

Direction ==
    {d \in [wrote : Seq(Items), arrived : Nat, read : Nat, fin : {"open", "sent", "known"}] :
        d.read <= d.arrived /\ d.arrived <= Len(d.wrote)}

TypeOK ==
    /\ size \in [Uploaders -> Sizes]
    /\ exists \in BOOLEAN /\ file \in Seq(Data)
    /\ up \in [Clients -> Direction] /\ down \in [Clients -> Direction]
    /\ gaveUp \in [Clients -> SUBSET Ends] /\ faults \in 0 .. MaxFaults
    /\ clientPC \in [Clients -> {"start", "sending", "waitAck", "waitSize", "waitError",
                                 "receiving", "complete", "failed"}]
    /\ want \in [Clients -> Nat] /\ local \in [Clients -> Seq(Items)]
    /\ confirmed \subseteq Uploaders
    /\ handlerPC \in [Clients -> {"accept", "create", "receive", "confirm", "open", "send",
                                  "done"}]
    /\ announced \in [Clients -> Nat] /\ taken \in [Clients -> Nat]
    /\ spoiled \subseteq Clients /\ seen \in [Clients -> Seq(Data)]

(* An uploader that is shown the server's confirmation has its whole file  *)
(* on the server, as it was when the server confirmed it, unless another   *)
(* handler changed the file meanwhile (fileserver/main.go, handleUpload).  *)
ConfirmedIsStored ==
    \A c \in confirmed : c \in spoiled \/ seen[c] = Content(c)

(* "数据收齐即退出，不等 FIN" (fileclient/main.go:306): a download reported   *)
(* complete is the whole file that was announced, unless the client's own  *)
(* connection was closed, or the file changed or failed under the server.  *)
DownloadWhole ==
    \A c \in Downloaders :
        clientPC[c] = "complete" => local[c] = seen[c] \/ c \in spoiled \/ "client" \in gaveUp[c]

-----------------------------------------------------------------------------
(* Fairness: each goroutine runs, the read deadline of 10 s passes, and    *)
(* what is written on a connection open at both ends arrives.  Nothing is  *)
(* assumed of FIN.                                                         *)
Fairness ==
    \A c \in Clients :
        /\ WF_vars(gaveUp[c] = {} /\ Arrive(c))
        /\ WF_vars(Upload(c)) /\ WF_vars(Download(c))
        /\ WF_vars(ClientFails(c) /\ Closed(c, "client"))
        /\ WF_vars(HandleStream(c) \/ HandleUpload(c) \/ HandleDownload(c))

FairSpec == Spec /\ Fairness

(* "数据收齐，即使 FIN 丢包也退出" (fileserver/main.go:167, and               *)
(* fileclient/main.go:306): once all the data announced has arrived, the   *)
(* receiving loops end, whether or not a FIN is ever reported.  An empty   *)
(* file is left out: no data comes that would wake the loop.               *)
HasAll(d, n) == n > 0 /\ d.arrived > n

LoopsEnd ==
    \A c \in Clients :
        /\ (handlerPC[c] = "receive" /\ HasAll(up[c], announced[c]))
               ~> handlerPC[c] # "receive"
        /\ (clientPC[c] \in {"waitError", "receiving"} /\ HasAll(down[c], want[c]))
               ~> Done(c)

(* And a client that has started comes to an end: an uploader always,      *)
(* within its read deadline (fileclient/main.go:193), a downloader unless  *)
(* the server's end has given up on it, or the file has become shorter or  *)
(* was empty: then nothing is outstanding that could time out.             *)
ClientsEnd ==
    \A c \in Clients :
        (clientPC[c] # "start")
            ~> \/ Done(c)
               \/ /\ c \in Downloaders
                  /\ c \in spoiled \/ "server" \in gaveUp[c] \/ clientPC[c] = "waitError"

TransferEnds == LoopsEnd /\ ClientsEnd
=============================================================================
