--------------------------- MODULE TransferProofs ---------------------------
(***************************************************************************)
(* What holds of file transfers (Transfer.tla) for all numbers of clients, *)
(* all sizes of files and any number of faults: what is confirmed to an    *)
(* uploader is on the server's disk, and what a download reports complete  *)
(* is the file it was told of.                                             *)
(***************************************************************************)
EXTENDS Transfer, SequenceTheorems, TLAPS

(* Who may be where. *)
Role(c) ==
    /\ clientPC[c] \in {"sending", "waitAck"} => c \in Uploaders
    /\ clientPC[c] \in {"waitSize", "waitError", "receiving"} => c \in Downloaders
    /\ handlerPC[c] \in {"create", "receive", "confirm"} => c \in Uploaders
    /\ handlerPC[c] \in {"open", "send"} => c \in Downloaders

(* Nothing is written after a FIN, which is known when all has arrived.    *)
FinLast(c) ==
    /\ clientPC[c] \in {"start", "sending"} => up[c].fin = "open"
    /\ handlerPC[c] # "done" => down[c].fin = "open"
    /\ up[c].fin = "known" => up[c].arrived = Len(up[c].wrote)
    /\ down[c].fin = "known" => down[c].arrived = Len(down[c].wrote)

(* What an uploader writes: its request, then its file from the start, and *)
(* all of it unless it fails.                                              *)
Expected(c, i) == IF i = 1 THEN Item("request", c, size[c]) ELSE Item("data", c, i - 1)

Asks(c) ==
    /\ Len(up[c].wrote) <= size[c] + 1
    /\ \A i \in 1 .. Len(up[c].wrote) : up[c].wrote[i] = Expected(c, i)
    /\ clientPC[c] = "start" => Len(up[c].wrote) = 0
    /\ clientPC[c] = "sending" => Len(up[c].wrote) > 0
    /\ clientPC[c] \in {"waitAck", "complete"} => Len(up[c].wrote) = size[c] + 1

(* What its handler has read of that is what the file has, unless somebody *)
(* else changed the file; and the handler stops reading at the end only.   *)
Stores(c) ==
    /\ handlerPC[c] = "accept" => up[c].read = 0
    /\ handlerPC[c] \in {"accept", "create"} => taken[c] = 0
    /\ handlerPC[c] \in {"create", "receive", "confirm"} =>
          announced[c] = size[c] /\ up[c].read = taken[c] + 1
    /\ handlerPC[c] \in {"receive", "confirm"} => c \in spoiled \/ file = Units(c, taken[c])
    /\ handlerPC[c] = "confirm" =>
          \/ taken[c] = size[c]
          \/ "server" \in gaveUp[c]
          \/ clientPC[c] = "failed"

(* The confirmation is the last thing a handler writes.                    *)
Confirms(c) ==
    /\ handlerPC[c] # "done" => Len(down[c].wrote) = 0
    /\ Len(down[c].wrote) > 0 => \/ c \in spoiled
                                 \/ seen[c] = Content(c)
                                 \/ clientPC[c] = "failed"
    /\ c \in confirmed => clientPC[c] = "complete" /\ Len(down[c].wrote) > 0

(* What a downloader is sent: the size of the file, then the file from the *)
(* start, and all of it before the FIN; or a refusal.                      *)
Announces(c) ==
    /\ Len(down[c].wrote) \in 1 .. Len(seen[c]) + 1
    /\ down[c].wrote[1].n = Len(seen[c])
    /\ \A i \in 1 .. Len(down[c].wrote) - 1 : down[c].wrote[i + 1] = seen[c][i]
    /\ down[c].fin # "open" => Len(down[c].wrote) = Len(seen[c]) + 1

Refuses(c) ==
    /\ Len(down[c].wrote) = 2 /\ down[c].wrote[1].n = 0
    /\ handlerPC[c] = "done"

Sends(c) ==
    /\ handlerPC[c] \in {"accept", "open"} => Len(down[c].wrote) = 0 /\ taken[c] = 0
    /\ handlerPC[c] = "send" => file = seen[c] /\ Len(down[c].wrote) = taken[c] + 1
    /\ Len(down[c].wrote) = 0 \/ Announces(c) \/ Refuses(c)

(* What a downloader has of it, while its own connection is open.          *)
Gets(c) ==
    /\ clientPC[c] \in {"start", "waitSize"} => local[c] = <<>> /\ down[c].read = 0
    /\ clientPC[c] = "waitError" => /\ local[c] = <<>> /\ down[c].read = 1
                                    /\ want[c] = 0 /\ down[c].wrote[1].n = 0
    /\ clientPC[c] = "receiving" =>
          /\ Announces(c) /\ want[c] = Len(seen[c])
          /\ down[c].read = Len(local[c]) + 1
          /\ \A i \in 1 .. Len(local[c]) : local[c][i] = seen[c][i]
    /\ clientPC[c] = "complete" => local[c] = seen[c] /\ Len(down[c].wrote) > 0

UploadInv(c) == Asks(c) /\ Stores(c) /\ Confirms(c)

DownloadInv(c) ==
    c \notin spoiled => Sends(c) /\ ("client" \notin gaveUp[c] => Gets(c))

ClientInv(c) ==
    /\ Role(c) /\ FinLast(c)
    /\ c \in Uploaders => UploadInv(c)
    /\ c \in Downloaders => DownloadInv(c)

IInv == TypeOK /\ \A c \in Clients : ClientInv(c)

-----------------------------------------------------------------------------
(* What the operations on a direction do to its fields.                    *)
LEMMA DirectionFields ==
  ASSUME NEW d \in Direction
  PROVE  /\ d.wrote \in Seq(Items) /\ Len(d.wrote) \in Nat
         /\ d.arrived \in Nat /\ d.read \in Nat /\ d.fin \in {"open", "sent", "known"}
         /\ d.read <= d.arrived /\ d.arrived <= Len(d.wrote)
BY LenProperties DEF Direction

LEMMA WriteOne ==
  ASSUME NEW d \in Direction, NEW x \in Items
  PROVE  \E e \in Direction :
             /\ e = Write(d, <<x>>)
             /\ e.arrived = d.arrived /\ e.read = d.read /\ e.fin = d.fin
             /\ Len(e.wrote) = Len(d.wrote) + 1
             /\ \A i \in 1 .. Len(d.wrote) : e.wrote[i] = d.wrote[i]
             /\ e.wrote[Len(d.wrote) + 1] = x
<1>1. PICK w : w = d.wrote \o <<x>>
  OBVIOUS
<1>2. PICK s \in Seq(Items) : s = d.wrote
  BY DirectionFields
<1>3. w = s \o <<x>> /\ <<x>> \in Seq(Items) /\ Len(<<x>>) = 1 /\ <<x>>[1] = x
  BY <1>1, <1>2
<1>4. /\ w \in Seq(Items) /\ Len(w) = Len(s) + 1 /\ Len(s) \in Nat
      /\ \A i \in 1 .. Len(s) : w[i] = s[i]
      /\ w[Len(s) + 1] = x
  BY <1>3, ConcatProperties, LenProperties
<1>5. Write(d, <<x>>) = [d EXCEPT !.wrote = w]
  BY <1>1 DEF Write
<1>6. d.arrived \in Nat /\ d.read \in Nat /\ d.read <= d.arrived /\ d.arrived <= Len(s)
  BY <1>2, DirectionFields
<1>7. PICK e : e = [d EXCEPT !.wrote = w]
  OBVIOUS
<1>8. /\ e.wrote = w /\ e.arrived = d.arrived /\ e.read = d.read /\ e.fin = d.fin
      /\ e \in [wrote : Seq(Items), arrived : Nat, read : Nat, fin : {"open", "sent", "known"}]
  BY <1>4, <1>7 DEF Direction
<1>9. e \in Direction
  BY <1>4, <1>6, <1>8 DEF Direction
<1> QED BY <1>2, <1>4, <1>5, <1>7, <1>8, <1>9

LEMMA ReadOne ==
  ASSUME NEW d \in Direction, Arrived(d) > 0
  PROVE  \E e \in Direction :
             /\ e = Read(d)
             /\ e.wrote = d.wrote /\ e.arrived = d.arrived /\ e.fin = d.fin
             /\ e.read = d.read + 1
             /\ d.read + 1 \in 1 .. Len(d.wrote)
             /\ Next1(d) \in Items
<1>1. /\ d.wrote \in Seq(Items) /\ Len(d.wrote) \in Nat
      /\ d.arrived \in Nat /\ d.read \in Nat /\ d.arrived <= Len(d.wrote) /\ d.read < d.arrived
  BY DirectionFields DEF Arrived
<1>2. PICK n \in Nat : n = d.read + 1
  BY <1>1
<1>3. PICK e : e = [d EXCEPT !.read = n]
  OBVIOUS
<1>4. /\ e.wrote = d.wrote /\ e.arrived = d.arrived /\ e.read = n /\ e.fin = d.fin
      /\ e \in [wrote : Seq(Items), arrived : Nat, read : Nat, fin : {"open", "sent", "known"}]
  BY <1>3 DEF Direction
<1>5. e \in Direction
  BY <1>1, <1>2, <1>4 DEF Direction
<1>6. n \in 1 .. Len(d.wrote) /\ d.wrote[n] \in Items
  BY <1>1, <1>2
<1>7. e = Read(d)
  BY <1>2, <1>3 DEF Read
<1> QED BY <1>2, <1>4, <1>5, <1>6, <1>7 DEF Next1

LEMMA FinOnce ==
  ASSUME NEW d \in Direction, NEW c, NEW side
  PROVE  \E e \in Direction :
             /\ e = Fin(d, c, side)
             /\ e.wrote = d.wrote /\ e.arrived = d.arrived /\ e.read = d.read
             /\ e.fin = d.fin \/ (e.fin = "sent" /\ d.fin = "open" /\ ~Closed(c, side))
<1>1. PICK e : e = [d EXCEPT !.fin = "sent"]
  OBVIOUS
<1>2. e \in Direction /\ e.wrote = d.wrote /\ e.arrived = d.arrived /\ e.read = d.read /\ e.fin = "sent"
  BY <1>1 DEF Direction
<1> QED BY <1>1, <1>2 DEF Fin

LEMMA AdvanceOne ==
  ASSUME NEW d \in Direction, NEW e \in Advance(d)
  PROVE  /\ e \in Direction
         /\ e.wrote = d.wrote /\ e.read = d.read /\ e.fin = d.fin
         /\ e.arrived = d.arrived + 1 /\ d.arrived < Len(d.wrote)
<1>1. /\ Len(d.wrote) \in Nat /\ d.arrived \in Nat /\ d.read \in Nat /\ d.read <= d.arrived
  BY DirectionFields
<1>2. d.arrived < Len(d.wrote) /\ e = [d EXCEPT !.arrived = d.arrived + 1]
  BY DEF Advance
<1>3. PICK n \in Nat : n = d.arrived + 1
  BY <1>1
<1>4. /\ e.wrote = d.wrote /\ e.arrived = n /\ e.read = d.read /\ e.fin = d.fin
      /\ e \in [wrote : Seq(Items), arrived : Nat, read : Nat, fin : {"open", "sent", "known"}]
  BY <1>2, <1>3 DEF Direction
<1> QED BY <1>1, <1>2, <1>3, <1>4 DEF Direction

LEMMA FinKnown ==
  ASSUME NEW d \in Direction, NEW e \in KnowFin(d)
  PROVE  /\ e \in Direction
         /\ e.wrote = d.wrote /\ e.read = d.read /\ e.arrived = d.arrived
         /\ d.fin = "sent" /\ e.fin = "known" /\ e.arrived = Len(e.wrote)
<1>1. d.fin = "sent" /\ d.arrived = Len(d.wrote) /\ e = [d EXCEPT !.fin = "known"]
  BY DEF KnowFin
<1>2. e \in Direction /\ e.wrote = d.wrote /\ e.read = d.read /\ e.arrived = d.arrived /\ e.fin = "known"
  BY <1>1 DEF Direction
<1> QED BY <1>1, <1>2

-----------------------------------------------------------------------------
(* Every part of the invariant is about one client: steps that leave alone *)
(* what it depends on keep it.                                             *)
LEMMA AsksKept ==
  ASSUME NEW c, Asks(c), size' = size, up'[c].wrote = up[c].wrote,
         clientPC'[c] = clientPC[c]
  PROVE  Asks(c)'
BY DEF Asks, Expected

LEMMA StoresKept ==
  ASSUME NEW c, Stores(c), size' = size, up'[c].read = up[c].read,
         handlerPC'[c] = handlerPC[c], taken'[c] = taken[c], announced'[c] = announced[c],
         clientPC[c] = "failed" => clientPC'[c] = "failed",
         gaveUp[c] \subseteq gaveUp'[c], spoiled \subseteq spoiled',
         file' = file \/ (handlerPC[c] \in {"receive", "confirm"} => c \in spoiled')
  PROVE  Stores(c)'
BY DEF Stores

LEMMA ConfirmsKept ==
  ASSUME NEW c, Confirms(c), size' = size, down'[c].wrote = down[c].wrote, seen'[c] = seen[c],
         handlerPC[c] = "done" => handlerPC'[c] = "done",
         clientPC[c] = "failed" => clientPC'[c] = "failed",
         c \in confirmed' => c \in confirmed /\ clientPC'[c] = clientPC[c],
         spoiled \subseteq spoiled'
  PROVE  Confirms(c)'
BY DEF Confirms, Content

LEMMA AnnouncesKept ==
  ASSUME NEW c, Announces(c), down'[c].wrote = down[c].wrote, down'[c].fin = down[c].fin,
         seen'[c] = seen[c]
  PROVE  Announces(c)'
BY DEF Announces

LEMMA SendsKept ==
  ASSUME NEW c, Sends(c), down'[c].wrote = down[c].wrote, down'[c].fin = down[c].fin,
         seen'[c] = seen[c], taken'[c] = taken[c], handlerPC'[c] = handlerPC[c],
         file' = file \/ handlerPC[c] # "send"
  PROVE  Sends(c)'
BY AnnouncesKept DEF Sends, Refuses

LEMMA GetsKept ==
  ASSUME NEW c, Gets(c), down'[c].wrote = down[c].wrote, down'[c].fin = down[c].fin,
         down'[c].read = down[c].read,
         seen'[c] = seen[c], local'[c] = local[c], want'[c] = want[c],
         clientPC'[c] = clientPC[c]
  PROVE  Gets(c)'
BY AnnouncesKept DEF Gets

LEMMA RoleKept ==
  ASSUME NEW c, Role(c), clientPC'[c] = clientPC[c], handlerPC'[c] = handlerPC[c]
  PROVE  Role(c)'
BY DEF Role

LEMMA FinLastKept ==
  ASSUME NEW c, FinLast(c), up'[c] = up[c], down'[c] = down[c],
         clientPC'[c] \in {"start", "sending"} => clientPC[c] \in {"start", "sending"},
         handlerPC[c] = "done" => handlerPC'[c] = "done"
  PROVE  FinLast(c)'
BY DEF FinLast

(* What a step of another client leaves alone. *)
Same(c) ==
    /\ up'[c] = up[c] /\ down'[c] = down[c] /\ gaveUp'[c] = gaveUp[c]
    /\ clientPC'[c] = clientPC[c] /\ want'[c] = want[c] /\ local'[c] = local[c]
    /\ handlerPC'[c] = handlerPC[c] /\ announced'[c] = announced[c] /\ taken'[c] = taken[c]
    /\ seen'[c] = seen[c]
    /\ c \in confirmed' => c \in confirmed

(* So a step of a client has to be looked at for that client only, as long *)
(* as it spoils the handlers under which it changes the file.              *)
LEMMA OneClient ==
  ASSUME IInv, TypeOK', NEW c \in Clients, size' = size, spoiled \subseteq spoiled',
         \A d \in Clients \ {c} : Same(d),
         file' = file \/ Holders \ {c} \subseteq spoiled',
         ClientInv(c)'
  PROVE  IInv'
<1> SUFFICES ASSUME NEW d \in Clients, d # c
             PROVE  ClientInv(d)'
  BY DEF IInv
<1>1. ClientInv(d) /\ Same(d)
  BY DEF IInv
<1>2. file' = file \/ (handlerPC[d] \in {"receive", "confirm", "send"} => d \in spoiled')
  BY DEF Holders
<1>3. Role(d)'
  BY <1>1, RoleKept DEF ClientInv, Same
<1>4. FinLast(d)'
  BY <1>1, FinLastKept DEF ClientInv, Same
<1>5. ASSUME d \in Uploaders PROVE UploadInv(d)'
  <2>1. Asks(d)'
    BY <1>1, <1>5, AsksKept DEF ClientInv, UploadInv, Same
  <2>2. Stores(d)'
    BY <1>1, <1>2, <1>5, StoresKept DEF ClientInv, UploadInv, Same
  <2>3. Confirms(d)'
    BY <1>1, <1>5, ConfirmsKept DEF ClientInv, UploadInv, Same
  <2> QED BY <2>1, <2>2, <2>3 DEF UploadInv
<1>6. ASSUME d \in Downloaders PROVE DownloadInv(d)'
  <2> SUFFICES ASSUME d \notin spoiled' PROVE Sends(d)' /\ ("client" \notin gaveUp'[d] => Gets(d)')
    BY DEF DownloadInv
  <2>1. d \notin spoiled /\ Sends(d) /\ ("client" \notin gaveUp[d] => Gets(d))
    BY <1>1, <1>6 DEF ClientInv, DownloadInv
  <2>2. Sends(d)'
    BY <1>1, <1>2, <2>1, SendsKept DEF Same
  <2>3. "client" \notin gaveUp'[d] => Gets(d)'
    BY <1>1, <2>1, GetsKept DEF Same
  <2> QED BY <2>2, <2>3
<1> QED BY <1>3, <1>5, <1>6, <1>4 DEF ClientInv

(* The types of what belongs to one client. *)
LEMMA Types ==
  ASSUME TypeOK, NEW c \in Clients
  PROVE  /\ up[c] \in Direction /\ down[c] \in Direction
         /\ want[c] \in Nat /\ announced[c] \in Nat /\ taken[c] \in Nat
         /\ local[c] \in Seq(Items) /\ seen[c] \in Seq(Data) /\ gaveUp[c] \subseteq Ends
         /\ c \in Uploaders => size[c] \in Nat /\ c \notin Downloaders
         /\ c \in Downloaders => c \notin Uploaders
BY ConstantsAssumption DEF TypeOK

(* Arrive and FinArrives: data, or a FIN behind all the data, is known.    *)
LEMMA DirectionsStep ==
  ASSUME IInv, NEW c \in Clients, NEW u \in Direction, NEW d \in Direction,
         up' = [up EXCEPT ![c] = u], down' = [down EXCEPT ![c] = d],
         u.wrote = up[c].wrote, u.read = up[c].read,
         d.wrote = down[c].wrote, d.read = down[c].read,
         u.fin = up[c].fin \/ (u.fin = "known" /\ up[c].fin = "sent"),
         d.fin = down[c].fin \/ (d.fin = "known" /\ down[c].fin = "sent"),
         u.fin = "known" => u.arrived = Len(u.wrote) \/ u = up[c],
         d.fin = "known" => d.arrived = Len(d.wrote) \/ d = down[c],
         UNCHANGED <<size, faults, disk, gaveUp, client, handler, history>>
  PROVE  IInv'
<1> USE DEF disk, client, handler, history
<1>1. TypeOK /\ ClientInv(c)
  BY DEF IInv
<1>2. TypeOK'
  BY <1>1 DEF TypeOK
<1>3. up'[c] = u /\ down'[c] = d
  BY <1>1 DEF TypeOK
<1>4. \A e \in Clients \ {c} : Same(e)
  BY <1>1 DEF TypeOK, Same
<1>5. Role(c)' /\ FinLast(c)'
  <2>1. FinLast(c)'
    BY <1>1, <1>3 DEF ClientInv, FinLast
  <2> QED BY <1>1, <2>1, RoleKept DEF ClientInv
<1>6. ASSUME c \in Uploaders PROVE UploadInv(c)'
  <2>1. Asks(c)'
    BY <1>1, <1>3, <1>6 DEF ClientInv, UploadInv, Asks, Expected
  <2>2. Stores(c)'
    BY <1>1, <1>3, <1>6, StoresKept DEF ClientInv, UploadInv
  <2>3. Confirms(c)'
    BY <1>1, <1>3, <1>6, ConfirmsKept DEF ClientInv, UploadInv
  <2> QED BY <2>1, <2>2, <2>3 DEF UploadInv
<1>7. ASSUME c \in Downloaders PROVE DownloadInv(c)'
  <2>1. Announces(c) => Announces(c)'
    BY <1>3 DEF Announces
  <2>2. Refuses(c) => Refuses(c)'
    BY <1>3 DEF Refuses
  <2>3. Sends(c) => Sends(c)'
    BY <1>3, <2>1, <2>2 DEF Sends
  <2>4. Gets(c) => Gets(c)'
    BY <1>3, <2>1 DEF Gets
  <2> QED BY <1>1, <1>7, <2>3, <2>4 DEF ClientInv, DownloadInv
<1>8. ClientInv(c)'
  BY <1>5, <1>6, <1>7 DEF ClientInv
<1> QED BY <1>2, <1>4, <1>8, OneClient

LEMMA ArriveStep ==
  ASSUME IInv, NEW c \in Clients, Arrive(c) \/ FinArrives(c)
  PROVE  IInv'
<1>1. TypeOK /\ up[c] \in Direction /\ down[c] \in Direction
  BY Types DEF IInv
<1>2. up = [up EXCEPT ![c] = up[c]] /\ down = [down EXCEPT ![c] = down[c]]
  BY <1>1 DEF TypeOK
<1>3. UNCHANGED <<size, faults, disk, gaveUp, client, handler, history>>
  BY DEF Arrive, FinArrives
<1>4. ASSUME NEW e, e \in Advance(up[c]) \cup KnowFin(up[c]), up' = [up EXCEPT ![c] = e], down' = down
      PROVE  IInv'
  <2>1. /\ e \in Direction /\ e.wrote = up[c].wrote /\ e.read = up[c].read
        /\ e.fin = up[c].fin \/ (e.fin = "known" /\ up[c].fin = "sent")
    BY <1>1, <1>4, AdvanceOne, FinKnown
  <2>2. e.fin = "known" => e.arrived = Len(e.wrote)
    <3>1. CASE e \in KnowFin(up[c])
      BY <1>1, <3>1, FinKnown
    <3>2. CASE e \in Advance(up[c])
      <4>1. e.fin = up[c].fin /\ up[c].arrived < Len(up[c].wrote)
        BY <1>1, <3>2, AdvanceOne
      <4>2. up[c].fin = "known" => up[c].arrived = Len(up[c].wrote)
        BY DEF IInv, ClientInv, FinLast
      <4> QED BY <1>1, <4>1, <4>2, DirectionFields
    <3> QED BY <1>4, <3>1, <3>2
  <2> QED BY <1>1, <1>2, <1>3, <1>4, <2>1, <2>2, DirectionsStep
<1>5. ASSUME NEW e, e \in Advance(down[c]) \cup KnowFin(down[c]), down' = [down EXCEPT ![c] = e], up' = up
      PROVE  IInv'
  <2>1. /\ e \in Direction /\ e.wrote = down[c].wrote /\ e.read = down[c].read
        /\ e.fin = down[c].fin \/ (e.fin = "known" /\ down[c].fin = "sent")
    BY <1>1, <1>5, AdvanceOne, FinKnown
  <2>2. e.fin = "known" => e.arrived = Len(e.wrote)
    <3>1. CASE e \in KnowFin(down[c])
      BY <1>1, <3>1, FinKnown
    <3>2. CASE e \in Advance(down[c])
      <4>1. e.fin = down[c].fin /\ down[c].arrived < Len(down[c].wrote)
        BY <1>1, <3>2, AdvanceOne
      <4>2. down[c].fin = "known" => down[c].arrived = Len(down[c].wrote)
        BY DEF IInv, ClientInv, FinLast
      <4> QED BY <1>1, <4>1, <4>2, DirectionFields
    <3> QED BY <1>5, <3>1, <3>2
  <2> QED BY <1>1, <1>2, <1>3, <1>5, <2>1, <2>2, DirectionsStep
<1> QED BY <1>3, <1>4, <1>5 DEF Arrive, FinArrives

LEMMA GiveUpStep ==
  ASSUME IInv, NEW c \in Clients, NEW e \in Ends, GiveUp(c, e)
  PROVE  IInv'
<1> USE DEF disk, client, handler, history
<1>1. TypeOK /\ ClientInv(c)
  BY DEF IInv
<1>2. /\ gaveUp' = [gaveUp EXCEPT ![c] = @ \cup {e}]
      /\ faults < MaxFaults /\ faults' = faults + 1
      /\ UNCHANGED <<size, disk, up, down, client, handler, history>>
  BY DEF GiveUp, Fault
<1>3. gaveUp'[c] = gaveUp[c] \cup {e} /\ gaveUp' \in [Clients -> SUBSET Ends]
  BY <1>1, <1>2 DEF TypeOK
<1>4. TypeOK'
  BY <1>1, <1>2, <1>3, ConstantsAssumption DEF TypeOK
<1>5. \A d \in Clients \ {c} : Same(d)
  BY <1>1, <1>2 DEF TypeOK, Same
<1>6. Role(c)' /\ FinLast(c)'
  BY <1>1, <1>2, RoleKept, FinLastKept DEF ClientInv
<1>7. ASSUME c \in Uploaders PROVE UploadInv(c)'
  BY <1>1, <1>2, <1>3, <1>7, AsksKept, StoresKept, ConfirmsKept DEF ClientInv, UploadInv
<1>8. ASSUME c \in Downloaders PROVE DownloadInv(c)'
  BY <1>1, <1>2, <1>3, <1>8, SendsKept, GetsKept DEF ClientInv, DownloadInv
<1>9. ClientInv(c)'
  BY <1>6, <1>7, <1>8 DEF ClientInv
<1> QED BY <1>2, <1>4, <1>5, <1>9, OneClient

-----------------------------------------------------------------------------
(* The steps of an uploader.                                               *)
LEMMA UploadRequestStep ==
  ASSUME IInv, NEW c \in Clients, UploadRequest(c)
  PROVE  IInv'
<1> USE DEF disk, client, handler, history
<1>1. TypeOK /\ ClientInv(c) /\ up[c] \in Direction
  BY Types DEF IInv
<1>2. /\ c \in Uploaders /\ c \notin Downloaders /\ clientPC[c] = "start"
      /\ clientPC' = [clientPC EXCEPT ![c] = "sending"]
      /\ UNCHANGED <<size, faults, disk, down, gaveUp, want, local, confirmed, handler, history>>
  BY ConstantsAssumption DEF UploadRequest, Goto
<1>3. size[c] \in Nat /\ Item("request", c, size[c]) \in Items
  BY <1>1, <1>2, Types DEF Items, Item
<1>4. PICK u \in Direction :
          /\ u = Write(up[c], <<Item("request", c, size[c])>>)
          /\ u.arrived = up[c].arrived /\ u.read = up[c].read /\ u.fin = up[c].fin
          /\ Len(u.wrote) = Len(up[c].wrote) + 1
          /\ u.wrote[Len(up[c].wrote) + 1] = Item("request", c, size[c])
  BY <1>1, <1>3, WriteOne
<1>5. up' = [up EXCEPT ![c] = u]
  BY <1>4 DEF UploadRequest
<1>6. up'[c] = u /\ clientPC'[c] = "sending"
  BY <1>1, <1>2, <1>4, <1>5 DEF TypeOK
<1>7. TypeOK'
  BY <1>1, <1>2, <1>4, <1>5 DEF TypeOK
<1>8. \A d \in Clients \ {c} : Same(d)
  BY <1>1, <1>2, <1>4, <1>5 DEF TypeOK, Same
<1>9. Len(up[c].wrote) = 0 /\ up[c].fin = "open" /\ c \notin confirmed
  BY <1>1, <1>2 DEF ClientInv, UploadInv, Asks, FinLast, Confirms
<1>10. Role(c)'
  BY <1>1, <1>2, <1>6 DEF ClientInv, Role
<1>11. FinLast(c)'
  BY <1>1, <1>2, <1>4, <1>5, <1>6, <1>9 DEF ClientInv, FinLast
<1>12. Asks(c)'
  <2>1. Len(u.wrote) = 1 /\ u.wrote[1] = Expected(c, 1)
    BY <1>4, <1>5, <1>9 DEF Expected
  <2> QED BY <1>2, <1>3, <1>6, <2>1 DEF Asks, Expected
<1>13. Stores(c)'
  BY <1>1, <1>2, <1>4, <1>5, <1>6, StoresKept DEF ClientInv, UploadInv
<1>14. Confirms(c)'
  BY <1>1, <1>2, <1>6, <1>9, ConfirmsKept DEF ClientInv, UploadInv
<1>15. ClientInv(c)'
  BY <1>2, <1>10, <1>11, <1>12, <1>13, <1>14 DEF ClientInv, UploadInv
<1> QED BY <1>2, <1>7, <1>8, <1>15, OneClient

LEMMA SendUnitStep ==
  ASSUME IInv, NEW c \in Clients, SendUnit(c)
  PROVE  IInv'
<1> USE DEF disk, client, handler, history
<1>1. TypeOK /\ ClientInv(c) /\ up[c] \in Direction
  BY Types DEF IInv
<1>2. /\ clientPC[c] = "sending" /\ Len(up[c].wrote) <= size[c]
      /\ UNCHANGED <<size, faults, disk, down, gaveUp, client, handler, history>>
  BY DEF SendUnit
<1>3. c \in Uploaders /\ c \notin Downloaders /\ size[c] \in Nat
  BY <1>1, <1>2, Types DEF ClientInv, Role
<1>4. PICK n \in Nat : n = Len(up[c].wrote)
  BY <1>1, DirectionFields
<1>5. /\ Asks(c) /\ n > 0 /\ up[c].fin = "open"
      /\ \A i \in 1 .. n : up[c].wrote[i] = Expected(c, i)
  BY <1>1, <1>2, <1>3, <1>4 DEF ClientInv, UploadInv, Asks, FinLast
<1>6. Content(c)[n] = Item("data", c, n) /\ Item("data", c, n) \in Items
  BY <1>2, <1>3, <1>4, <1>5 DEF Content, Units, Items, Item
<1>7. PICK u \in Direction :
          /\ u = Write(up[c], <<Item("data", c, n)>>)
          /\ u.arrived = up[c].arrived /\ u.read = up[c].read /\ u.fin = up[c].fin
          /\ Len(u.wrote) = n + 1
          /\ \A i \in 1 .. n : u.wrote[i] = up[c].wrote[i]
          /\ u.wrote[n + 1] = Item("data", c, n)
  BY <1>1, <1>4, <1>6, WriteOne
<1>8. up' = [up EXCEPT ![c] = u]
  BY <1>4, <1>6, <1>7 DEF SendUnit
<1>9. up'[c] = u
  BY <1>1, <1>7, <1>8 DEF TypeOK
<1>10. TypeOK'
  BY <1>1, <1>2, <1>7, <1>8 DEF TypeOK
<1>11. \A d \in Clients \ {c} : Same(d)
  BY <1>1, <1>2, <1>7, <1>8 DEF TypeOK, Same
<1>12. Role(c)'
  BY <1>1, <1>2, RoleKept DEF ClientInv
<1>13. FinLast(c)'
  BY <1>1, <1>2, <1>5, <1>7, <1>8, <1>9 DEF ClientInv, FinLast
<1>14. Asks(c)'
  <2>1. \A i \in 1 .. n + 1 : u.wrote[i] = Expected(c, i)
    BY <1>5, <1>7, <1>8 DEF Expected
  <2>2. /\ up'[c].wrote = u.wrote /\ size' = size /\ clientPC'[c] = "sending"
        /\ Len(u.wrote) = n + 1 /\ n + 1 <= size[c] + 1 /\ n + 1 > 0
    BY <1>2, <1>3, <1>4, <1>7, <1>9
  <2>3. \A i \in 1 .. n + 1 : u.wrote[i] = Expected(c, i)'
    BY <2>1, <2>2 DEF Expected
  <2> QED BY <2>2, <2>3 DEF Asks
<1>15. Stores(c)'
  BY <1>1, <1>2, <1>3, <1>7, <1>8, <1>9, StoresKept DEF ClientInv, UploadInv
<1>16. Confirms(c)'
  BY <1>1, <1>2, <1>3, ConfirmsKept DEF ClientInv, UploadInv
<1>17. ClientInv(c)'
  BY <1>3, <1>12, <1>13, <1>14, <1>15, <1>16 DEF ClientInv, UploadInv
<1> QED BY <1>2, <1>10, <1>11, <1>17, OneClient

LEMMA CloseWriteStep ==
  ASSUME IInv, NEW c \in Clients, CloseWrite(c)
  PROVE  IInv'
<1> USE DEF disk, client, handler, history
<1>1. TypeOK /\ ClientInv(c) /\ up[c] \in Direction
  BY Types DEF IInv
<1>2. /\ clientPC[c] = "sending" /\ Len(up[c].wrote) > size[c]
      /\ clientPC' = [clientPC EXCEPT ![c] = "waitAck"]
      /\ UNCHANGED <<size, faults, disk, down, gaveUp, want, local, confirmed, handler, history>>
  BY DEF CloseWrite, Goto
<1>3. c \in Uploaders /\ c \notin Downloaders /\ size[c] \in Nat
  BY <1>1, <1>2, Types DEF ClientInv, Role
<1>4. PICK u \in Direction :
          /\ u = Fin(up[c], c, "client")
          /\ u.wrote = up[c].wrote /\ u.arrived = up[c].arrived /\ u.read = up[c].read
          /\ u.fin = up[c].fin \/ u.fin = "sent"
  BY <1>1, FinOnce
<1>5. up' = [up EXCEPT ![c] = u]
  BY <1>4 DEF CloseWrite
<1>6. up'[c] = u /\ clientPC'[c] = "waitAck"
  BY <1>1, <1>2, <1>4, <1>5 DEF TypeOK
<1>7. TypeOK'
  BY <1>1, <1>2, <1>4, <1>5 DEF TypeOK
<1>8. \A d \in Clients \ {c} : Same(d)
  BY <1>1, <1>2, <1>4, <1>5 DEF TypeOK, Same
<1>9. Asks(c) /\ c \notin confirmed
  BY <1>1, <1>2, <1>3 DEF ClientInv, UploadInv, Confirms
<1>10. Role(c)'
  BY <1>1, <1>2, <1>3, <1>6 DEF ClientInv, Role
<1>11. FinLast(c)'
  BY <1>1, <1>2, <1>4, <1>5, <1>6 DEF ClientInv, FinLast
<1>12. Asks(c)'
  <2>1. Len(up[c].wrote) = size[c] + 1
    BY <1>1, <1>2, <1>3, <1>9, DirectionFields DEF Asks
  <2> QED BY <1>2, <1>4, <1>5, <1>6, <1>9, <2>1 DEF Asks, Expected
<1>13. Stores(c)'
  BY <1>1, <1>2, <1>3, <1>4, <1>5, <1>6, StoresKept DEF ClientInv, UploadInv
<1>14. Confirms(c)'
  BY <1>1, <1>2, <1>3, <1>6, <1>9, ConfirmsKept DEF ClientInv, UploadInv
<1>15. ClientInv(c)'
  BY <1>3, <1>10, <1>11, <1>12, <1>13, <1>14 DEF ClientInv, UploadInv
<1> QED BY <1>2, <1>7, <1>8, <1>15, OneClient

(* Of an uploader or a downloader. *)
LEMMA ClientFailsStep ==
  ASSUME IInv, NEW c \in Clients, ClientFails(c)
  PROVE  IInv'
<1> USE DEF disk, client, handler, history
<1>1. TypeOK /\ ClientInv(c) /\ up[c] \in Direction
  BY Types DEF IInv
<1>2. /\ clientPC[c] \in {"start", "sending", "receiving"}
      /\ clientPC' = [clientPC EXCEPT ![c] = "failed"]
      /\ UNCHANGED <<size, disk, down, gaveUp, want, local, confirmed, handler, history>>
      /\ faults' \in 0 .. MaxFaults
  BY <1>1, ConstantsAssumption DEF ClientFails, Goto, Fault, TypeOK
<1>3. PICK u \in Direction :
          /\ u = Fin(up[c], c, "client")
          /\ u.wrote = up[c].wrote /\ u.arrived = up[c].arrived /\ u.read = up[c].read
          /\ u.fin = up[c].fin \/ u.fin = "sent"
  BY <1>1, FinOnce
<1>4. up' = [up EXCEPT ![c] = u]
  BY <1>3 DEF ClientFails
<1>5. up'[c] = u /\ clientPC'[c] = "failed"
  BY <1>1, <1>2, <1>3, <1>4 DEF TypeOK
<1>6. TypeOK'
  BY <1>1, <1>2, <1>3, <1>4 DEF TypeOK
<1>7. \A d \in Clients \ {c} : Same(d)
  BY <1>1, <1>2, <1>3, <1>4 DEF TypeOK, Same
<1>8. Role(c)'
  BY <1>1, <1>2, <1>5 DEF ClientInv, Role
<1>9. FinLast(c)'
  BY <1>1, <1>2, <1>3, <1>4, <1>5 DEF ClientInv, FinLast
<1>10. ASSUME c \in Uploaders PROVE UploadInv(c)'
  <2>1. Asks(c) /\ Stores(c) /\ Confirms(c) /\ c \notin confirmed
    BY <1>1, <1>2, <1>10 DEF ClientInv, UploadInv, Confirms
  <2>2. Asks(c)'
    BY <1>2, <1>3, <1>4, <1>5, <2>1 DEF Asks, Expected
  <2>3. Stores(c)'
    BY <1>2, <1>3, <1>4, <1>5, <2>1, StoresKept
  <2>4. Confirms(c)'
    BY <1>2, <1>5, <2>1, ConfirmsKept
  <2> QED BY <2>2, <2>3, <2>4 DEF UploadInv
<1>11. ASSUME c \in Downloaders PROVE DownloadInv(c)'
  <2>1. Gets(c)'
    BY <1>5 DEF Gets
  <2> QED BY <1>1, <1>2, <1>11, <2>1, SendsKept DEF ClientInv, DownloadInv
<1>12. ClientInv(c)'
  BY <1>8, <1>9, <1>10, <1>11 DEF ClientInv
<1> QED BY <1>2, <1>6, <1>7, <1>12, OneClient

(* The end of an upload, with the confirmation or without. *)
LEMMA AckStep ==
  ASSUME IInv, NEW c \in Clients, ReadAck(c) \/ NoAck(c)
  PROVE  IInv'
<1> USE DEF disk, client, handler, history, wire
<1>1. TypeOK /\ ClientInv(c) /\ down[c] \in Direction
  BY Types DEF IInv
<1>2. /\ clientPC[c] = "waitAck" /\ clientPC' = [clientPC EXCEPT ![c] = "complete"]
      /\ confirmed' = confirmed \/ (confirmed' = confirmed \cup {c} /\ Arrived(down[c]) > 0)
      /\ UNCHANGED <<size, faults, disk, wire, want, local, handler, history>>
  BY DEF ReadAck, NoAck, Goto
<1>3. c \in Uploaders /\ c \notin Downloaders /\ clientPC'[c] = "complete"
  BY <1>1, <1>2, Types DEF ClientInv, Role, TypeOK
<1>4. TypeOK'
  BY <1>1, <1>2, <1>3 DEF TypeOK
<1>5. \A d \in Clients \ {c} : Same(d)
  BY <1>1, <1>2 DEF TypeOK, Same
<1>6. Role(c)'
  BY <1>1, <1>2, <1>3 DEF ClientInv, Role
<1>7. FinLast(c)'
  BY <1>1, <1>2, <1>3, FinLastKept DEF ClientInv
<1>8. Asks(c)'
  BY <1>1, <1>2, <1>3 DEF ClientInv, UploadInv, Asks, Expected
<1>9. Stores(c)'
  BY <1>1, <1>2, <1>3, StoresKept DEF ClientInv, UploadInv
<1>10. Confirms(c)'
  <2>1. Confirms(c) /\ c \notin confirmed
    BY <1>1, <1>2, <1>3 DEF ClientInv, UploadInv, Confirms
  <2>2. c \in confirmed' => Len(down[c].wrote) > 0
    BY <1>1, <1>2, <2>1, DirectionFields DEF Arrived
  <2> QED BY <1>2, <1>3, <2>1, <2>2 DEF Confirms, Content
<1>11. ClientInv(c)'
  BY <1>3, <1>6, <1>7, <1>8, <1>9, <1>10 DEF ClientInv, UploadInv
<1> QED BY <1>2, <1>4, <1>5, <1>11, OneClient

-----------------------------------------------------------------------------
(* The steps of a downloader.                                              *)
LEMMA DownloadRequestStep ==
  ASSUME IInv, NEW c \in Clients, DownloadRequest(c)
  PROVE  IInv'
<1> USE DEF disk, client, handler, history
<1>1. TypeOK /\ ClientInv(c) /\ up[c] \in Direction
  BY Types DEF IInv
<1>2. /\ c \in Downloaders /\ c \notin Uploaders /\ clientPC[c] = "start"
      /\ clientPC' = [clientPC EXCEPT ![c] = "waitSize"]
      /\ UNCHANGED <<size, faults, disk, down, gaveUp, want, local, confirmed, handler, history>>
  BY ConstantsAssumption DEF DownloadRequest, Goto
<1>3. Item("request", c, 0) \in Items
  BY DEF Items, Item
<1>4. PICK w \in Direction :
          w = Write(up[c], <<Item("request", c, 0)>>) /\ w.fin = up[c].fin
  BY <1>1, <1>3, WriteOne
<1>5. PICK u \in Direction : u = Fin(w, c, "client") /\ (u.fin = w.fin \/ u.fin = "sent")
  BY FinOnce
<1>6. up' = [up EXCEPT ![c] = u]
  BY <1>4, <1>5 DEF DownloadRequest
<1>7. up'[c] = u /\ clientPC'[c] = "waitSize" /\ u.fin # "known"
  BY <1>1, <1>2, <1>4, <1>5, <1>6 DEF TypeOK, ClientInv, FinLast
<1>8. TypeOK'
  BY <1>1, <1>2, <1>6 DEF TypeOK
<1>9. \A d \in Clients \ {c} : Same(d)
  BY <1>1, <1>2, <1>6 DEF TypeOK, Same
<1>10. Role(c)' /\ FinLast(c)'
  BY <1>1, <1>2, <1>7 DEF ClientInv, Role, FinLast
<1>11. DownloadInv(c)'
  <2>1. Gets(c) => Gets(c)'
    BY <1>2, <1>7 DEF Gets
  <2> QED BY <1>1, <1>2, <2>1, SendsKept DEF ClientInv, DownloadInv
<1>12. ClientInv(c)'
  BY <1>2, <1>10, <1>11 DEF ClientInv
<1> QED BY <1>2, <1>8, <1>9, <1>12, OneClient

LEMMA ReadSizeStep ==
  ASSUME IInv, NEW c \in Clients, ReadSize(c)
  PROVE  IInv'
<1> USE DEF disk, client, handler, history
<1>1. TypeOK /\ ClientInv(c) /\ down[c] \in Direction
  BY Types DEF IInv
<1>2. /\ clientPC[c] = "waitSize" /\ Arrived(down[c]) > 0
      /\ want' = [want EXCEPT ![c] = Next1(down[c]).n]
      /\ clientPC' = [clientPC EXCEPT ![c] = IF want'[c] = 0 THEN "waitError" ELSE "receiving"]
      /\ UNCHANGED <<size, faults, disk, up, gaveUp, local, confirmed, handler, history>>
  BY DEF ReadSize, Goto
<1>3. c \in Downloaders /\ c \notin Uploaders
  BY <1>1, <1>2, Types DEF ClientInv, Role
<1>4. PICK d \in Direction :
          /\ d = Read(down[c])
          /\ d.wrote = down[c].wrote /\ d.arrived = down[c].arrived /\ d.fin = down[c].fin
          /\ d.read = down[c].read + 1
          /\ down[c].read + 1 \in 1 .. Len(down[c].wrote)
          /\ Next1(down[c]) \in Items
  BY <1>1, <1>2, ReadOne
<1>5. PICK n \in Nat : n = Next1(down[c]).n
  BY <1>4 DEF Items
<1>6. down' = [down EXCEPT ![c] = d]
  BY <1>4 DEF ReadSize
<1>7. /\ down'[c] = d /\ want'[c] = n
      /\ clientPC'[c] = IF n = 0 THEN "waitError" ELSE "receiving"
  BY <1>1, <1>2, <1>5, <1>6 DEF TypeOK
<1>8. TypeOK'
  BY <1>1, <1>2, <1>5, <1>6, <1>7 DEF TypeOK
<1>9. \A e \in Clients \ {c} : Same(e)
  BY <1>1, <1>2, <1>6 DEF TypeOK, Same
<1>10. Role(c)' /\ FinLast(c)'
  BY <1>1, <1>2, <1>3, <1>4, <1>7 DEF ClientInv, Role, FinLast
<1>11. DownloadInv(c)'
  <2> SUFFICES ASSUME c \notin spoiled
               PROVE  Sends(c)' /\ ("client" \notin gaveUp[c] => Gets(c)')
    BY <1>2 DEF DownloadInv
  <2>1. Sends(c) /\ ("client" \notin gaveUp[c] => Gets(c))
    BY <1>1, <1>3 DEF ClientInv, DownloadInv
  <2>2. Sends(c)'
    BY <1>2, <1>4, <1>7, <2>1, SendsKept
  <2>3. ASSUME "client" \notin gaveUp[c] PROVE Gets(c)'
    <3>1. local[c] = <<>> /\ down[c].read = 0 /\ d.read = 1
      BY <1>2, <1>4, <2>1, <2>3 DEF Gets
    <3>2. n = down[c].wrote[1].n /\ Len(down[c].wrote) # 0
      BY <1>4, <1>5, <3>1, DirectionFields, <1>1 DEF Next1
    <3>3. CASE n = 0
      <4>1. /\ clientPC'[c] = "waitError" /\ want'[c] = 0 /\ local'[c] = <<>>
            /\ down'[c].read = 1 /\ down'[c].wrote[1].n = 0
        BY <1>2, <1>4, <1>7, <3>1, <3>2, <3>3
      <4> QED BY <4>1 DEF Gets
    <3>4. CASE n # 0
      <4>1. Announces(c)
        BY <2>1, <3>2, <3>4 DEF Sends, Refuses
      <4>2. Announces(c)' /\ n = Len(seen[c])
        BY <1>2, <1>4, <1>7, <3>2, <4>1, AnnouncesKept DEF Announces
      <4> QED BY <1>2, <1>7, <3>1, <3>4, <4>2 DEF Gets
    <3> QED BY <3>3, <3>4
  <2> QED BY <2>2, <2>3
<1>12. ClientInv(c)'
  BY <1>3, <1>10, <1>11 DEF ClientInv
<1> QED BY <1>2, <1>8, <1>9, <1>12, OneClient

(* An empty file is told from a refusal when the FIN is known and nothing  *)
(* came after the size.                                                    *)
LEMMA ErrorStep ==
  ASSUME IInv, NEW c \in Clients, ReadError(c) \/ NoError(c)
  PROVE  IInv'
<1> USE DEF disk, client, handler, history, wire
<1>1. TypeOK /\ ClientInv(c) /\ down[c] \in Direction
  BY Types DEF IInv
<1>2. /\ clientPC[c] \in {"waitSize", "waitError"}
      /\ \/ clientPC' = [clientPC EXCEPT ![c] = "failed"]
         \/ /\ clientPC' = [clientPC EXCEPT ![c] = "receiving"]
            /\ NoError(c)
      /\ UNCHANGED <<size, faults, disk, wire, want, local, confirmed, handler, history>>
  BY DEF ReadError, NoError, Goto
<1>3. c \in Downloaders /\ c \notin Uploaders
  BY <1>1, <1>2, Types DEF ClientInv, Role
<1>4. clientPC'[c] = "failed" \/ (clientPC'[c] = "receiving" /\ NoError(c))
  BY <1>1, <1>2 DEF TypeOK
<1>5. TypeOK'
  BY <1>1, <1>2 DEF TypeOK
<1>6. \A d \in Clients \ {c} : Same(d)
  BY <1>1, <1>2 DEF TypeOK, Same
<1>7. Role(c)' /\ FinLast(c)'
  BY <1>1, <1>2, <1>3, <1>4 DEF ClientInv, Role, FinLast
<1>8. DownloadInv(c)'
  <2> SUFFICES ASSUME c \notin spoiled
               PROVE  Sends(c)' /\ ("client" \notin gaveUp[c] => Gets(c)')
    BY <1>2 DEF DownloadInv
  <2>1. Sends(c) /\ ("client" \notin gaveUp[c] => Gets(c))
    BY <1>1, <1>3 DEF ClientInv, DownloadInv
  <2>2. Sends(c)'
    BY <1>2, <2>1, SendsKept
  <2>3. ASSUME "client" \notin gaveUp[c], clientPC'[c] = "receiving", NoError(c) PROVE Gets(c)'
    <3>1. /\ clientPC[c] = "waitError" /\ down[c].fin = "known" /\ Arrived(down[c]) = 0
      BY <2>3 DEF NoError, AtEOF, Closed, Done
    <3>2. local[c] = <<>> /\ down[c].read = 1 /\ want[c] = 0 /\ down[c].wrote[1].n = 0
      BY <2>1, <2>3, <3>1 DEF Gets
    <3>3. Len(down[c].wrote) = 1
      <4>1. down[c].arrived = Len(down[c].wrote)
        BY <1>1, <3>1 DEF ClientInv, FinLast
      <4>2. down[c].arrived \in Nat /\ down[c].arrived - 1 = 0
        BY <1>1, <3>1, <3>2, DirectionFields DEF Arrived
      <4> QED BY <4>1, <4>2
    <3>4. Announces(c) /\ Len(seen[c]) = 0
      BY <2>1, <3>2, <3>3 DEF Sends, Refuses, Announces
    <3>5. Announces(c)'
      BY <1>2, <3>4, AnnouncesKept
    <3> QED BY <1>2, <2>3, <3>2, <3>4, <3>5 DEF Gets
  <2>4. ASSUME clientPC'[c] = "failed" PROVE Gets(c)'
    BY <2>4 DEF Gets
  <2> QED BY <1>4, <2>2, <2>3, <2>4
<1>9. ClientInv(c)'
  BY <1>3, <1>7, <1>8 DEF ClientInv
<1> QED BY <1>2, <1>5, <1>6, <1>9, OneClient

(* A copy of a sequence that is as long as it is the sequence.             *)
LEMMA SameData ==
  ASSUME NEW s \in Seq(Items), NEW t \in Seq(Data), Len(s) = Len(t),
         \A i \in 1 .. Len(s) : s[i] = t[i]
  PROVE  s = t
<1>1. t \in Seq(Items)
  <2>1. \A i \in 1 .. Len(t) : t[i] \in Items
    BY ElementOfSeq DEF Items, Data
  <2> QED BY <2>1
<1> QED BY <1>1, SeqEqual

LEMMA ReceiveFileStep ==
  ASSUME IInv, NEW c \in Clients, ReceiveFile(c)
  PROVE  IInv'
<1> USE DEF disk, client, handler, history
<1>1. TypeOK /\ ClientInv(c) /\ down[c] \in Direction
  BY Types DEF IInv
<1>2. /\ clientPC[c] = "receiving" /\ Arrived(down[c]) > 0
      /\ local' = [local EXCEPT ![c] = Append(local[c], Next1(down[c]))]
      /\ clientPC' = [clientPC EXCEPT ![c] = IF Whole(c, Len(local'[c])) THEN "complete" ELSE "receiving"]
      /\ UNCHANGED <<size, faults, disk, up, gaveUp, want, confirmed, handler, history>>
  BY DEF ReceiveFile, Goto
<1>3. c \in Downloaders /\ c \notin Uploaders
  BY <1>1, <1>2, Types DEF ClientInv, Role
<1>4. PICK d \in Direction :
          /\ d = Read(down[c])
          /\ d.wrote = down[c].wrote /\ d.arrived = down[c].arrived /\ d.fin = down[c].fin
          /\ d.read = down[c].read + 1
          /\ down[c].read + 1 \in 1 .. Len(down[c].wrote)
          /\ Next1(down[c]) \in Items
  BY <1>1, <1>2, ReadOne
<1>5. PICK l \in Seq(Items) :
          /\ l = Append(local[c], Next1(down[c]))
          /\ Len(l) = Len(local[c]) + 1 /\ Len(local[c]) \in Nat
          /\ \A i \in 1 .. Len(local[c]) : l[i] = local[c][i]
          /\ l[Len(local[c]) + 1] = Next1(down[c])
  <2>1. PICK s \in Seq(Items), x \in Items : s = local[c] /\ x = Next1(down[c])
    BY <1>1, <1>4, Types
  <2>2. PICK l : l = Append(s, x)
    OBVIOUS
  <2>3. /\ l \in Seq(Items) /\ Len(l) = Len(s) + 1 /\ l[Len(s) + 1] = x
        /\ \A i \in 1 .. Len(s) : l[i] = s[i]
    BY <2>2, AppendProperties
  <2>4. Len(s) \in Nat
    BY LenProperties
  <2>5. l = Append(local[c], Next1(down[c]))
    BY <2>1, <2>2
  <2> HIDE <2>2
  <2> QED BY <2>1, <2>3, <2>4, <2>5
<1>6. down' = [down EXCEPT ![c] = d] /\ local' = [local EXCEPT ![c] = l]
  BY <1>2, <1>4, <1>5 DEF ReceiveFile
<1>7. /\ down'[c] = d /\ local'[c] = l
      /\ clientPC'[c] = IF Whole(c, Len(l)) THEN "complete" ELSE "receiving"
  BY <1>1, <1>2, <1>6 DEF TypeOK
<1>8. TypeOK'
  BY <1>1, <1>2, <1>6 DEF TypeOK
<1>9. \A e \in Clients \ {c} : Same(e)
  BY <1>1, <1>2, <1>6 DEF TypeOK, Same
<1>10. Role(c)' /\ FinLast(c)'
  BY <1>1, <1>2, <1>3, <1>4, <1>7 DEF ClientInv, Role, FinLast
<1>11. DownloadInv(c)'
  <2> SUFFICES ASSUME c \notin spoiled
               PROVE  Sends(c)' /\ ("client" \notin gaveUp[c] => Gets(c)')
    BY <1>2 DEF DownloadInv
  <2>1. Sends(c) /\ ("client" \notin gaveUp[c] => Gets(c))
    BY <1>1, <1>3 DEF ClientInv, DownloadInv
  <2>2. Sends(c)'
    BY <1>2, <1>4, <1>7, <2>1, SendsKept
  <2>3. ASSUME "client" \notin gaveUp[c] PROVE Gets(c)'
    <3>1. /\ Announces(c) /\ want[c] = Len(seen[c])
          /\ down[c].read = Len(local[c]) + 1
          /\ \A i \in 1 .. Len(local[c]) : local[c][i] = seen[c][i]
      BY <1>2, <2>1, <2>3 DEF Gets
    <3>2. Announces(c)'
      BY <1>2, <1>4, <1>7, <3>1, AnnouncesKept
    <3>3. PICK m \in Nat : m = Len(local[c])
      BY <1>5
    <3>4. seen[c] \in Seq(Data) /\ Len(seen[c]) \in Nat /\ Len(down[c].wrote) \in Nat
      BY <1>1, Types, LenProperties, DirectionFields
    <3>5. m + 2 <= Len(down[c].wrote) /\ Len(down[c].wrote) <= Len(seen[c]) + 1
      BY <1>4, <3>1, <3>3, <3>4 DEF Announces
    <3>6. Next1(down[c]) = seen[c][m + 1]
      <4>1. m + 1 \in 1 .. Len(down[c].wrote) - 1
        BY <3>4, <3>5
      <4>2. down[c].wrote[(m + 1) + 1] = seen[c][m + 1]
        BY <3>1, <4>1 DEF Announces
      <4> QED BY <3>1, <3>3, <4>2 DEF Next1
    <3>7. /\ Len(l) = m + 1 /\ d.read = Len(l) + 1 /\ Len(l) <= Len(seen[c])
          /\ \A i \in 1 .. Len(l) : l[i] = seen[c][i]
      BY <1>4, <1>5, <3>1, <3>3, <3>4, <3>5, <3>6
    <3>8. CASE Whole(c, Len(l))
      <4>1. Len(l) = Len(seen[c])
        BY <3>1, <3>4, <3>7, <3>8 DEF Whole
      <4>2. l = seen[c]
        BY <3>4, <3>7, <4>1, SameData
      <4> QED BY <1>2, <1>4, <1>7, <3>4, <3>5, <3>8, <4>2 DEF Gets
    <3>9. CASE ~Whole(c, Len(l))
      BY <1>2, <1>7, <3>1, <3>2, <3>7, <3>9 DEF Gets
    <3> QED BY <3>8, <3>9
  <2> QED BY <2>2, <2>3
<1>12. ClientInv(c)'
  BY <1>3, <1>10, <1>11 DEF ClientInv
<1> QED BY <1>2, <1>8, <1>9, <1>12, OneClient

LEMMA ReceiveEOFStep ==
  ASSUME IInv, NEW c \in Clients, ReceiveEOF(c)
  PROVE  IInv'
<1> USE DEF disk, client, handler, history, wire
<1>1. TypeOK /\ ClientInv(c) /\ down[c] \in Direction
  BY Types DEF IInv
<1>2. /\ clientPC[c] = "receiving" /\ clientPC' = [clientPC EXCEPT ![c] = "complete"]
      /\ UNCHANGED <<size, faults, disk, wire, want, local, confirmed, handler, history>>
  BY DEF ReceiveEOF, Goto
<1>3. c \in Downloaders /\ c \notin Uploaders /\ clientPC'[c] = "complete"
  BY <1>1, <1>2, Types DEF ClientInv, Role, TypeOK
<1>4. TypeOK'
  BY <1>1, <1>2 DEF TypeOK
<1>5. \A d \in Clients \ {c} : Same(d)
  BY <1>1, <1>2 DEF TypeOK, Same
<1>6. Role(c)' /\ FinLast(c)'
  BY <1>1, <1>2, <1>3 DEF ClientInv, Role, FinLast
<1>7. DownloadInv(c)'
  <2> SUFFICES ASSUME c \notin spoiled
               PROVE  Sends(c)' /\ ("client" \notin gaveUp[c] => Gets(c)')
    BY <1>2 DEF DownloadInv
  <2>1. Sends(c) /\ ("client" \notin gaveUp[c] => Gets(c))
    BY <1>1, <1>3 DEF ClientInv, DownloadInv
  <2>2. Sends(c)'
    BY <1>2, <2>1, SendsKept
  <2>3. ASSUME "client" \notin gaveUp[c] PROVE Gets(c)'
    <3>1. down[c].fin = "known" /\ Arrived(down[c]) = 0
      BY <1>2, <2>3 DEF ReceiveEOF, AtEOF, Closed, Done
    <3>2. /\ Announces(c) /\ down[c].read = Len(local[c]) + 1
          /\ \A i \in 1 .. Len(local[c]) : local[c][i] = seen[c][i]
      BY <1>2, <2>1, <2>3 DEF Gets
    <3>3. /\ Len(down[c].wrote) = Len(seen[c]) + 1
          /\ down[c].read = Len(down[c].wrote)
      BY <1>1, <3>1, <3>2, DirectionFields DEF Arrived, ClientInv, FinLast, Announces
    <3>4. /\ seen[c] \in Seq(Data) /\ local[c] \in Seq(Items)
          /\ Len(seen[c]) \in Nat /\ Len(local[c]) \in Nat
      BY <1>1, Types, LenProperties
    <3>5. local[c] = seen[c]
      BY <3>2, <3>3, <3>4, SameData
    <3> QED BY <1>2, <1>3, <3>3, <3>4, <3>5 DEF Gets
  <2> QED BY <2>2, <2>3
<1>8. ClientInv(c)'
  BY <1>3, <1>6, <1>7 DEF ClientInv
<1> QED BY <1>2, <1>4, <1>5, <1>8, OneClient

-----------------------------------------------------------------------------
(* What the handlers make of the file. *)
LEMMA NothingYet ==
  ASSUME NEW c
  PROVE  Units(c, 0) = <<>>
<1>1. 1 .. 0 = {}
  OBVIOUS
<1> QED BY <1>1 DEF Units

LEMMA UnitsData ==
  ASSUME NEW c \in Clients \cup {Server}, NEW n \in Nat
  PROVE  /\ Units(c, n) \in Seq(Data) /\ Len(Units(c, n)) = n
         /\ \A i \in 1 .. n : Units(c, n)[i] = Item("data", c, i)
<1>1. \A i \in 1 .. n : Item("data", c, i) \in Data
  BY DEF Data, Item
<1>2. Units(c, n) \in [1 .. n -> Data]
  BY <1>1 DEF Units
<1>3. Units(c, n) \in Seq(Data)
  BY <1>2, SeqDef
<1>4. DOMAIN Units(c, n) = 1 .. n
  BY DEF Units
<1> QED BY <1>3, <1>4, LenProperties DEF Units

LEMMA WrittenIsData ==
  ASSUME NEW f \in Seq(Data), NEW n \in Nat, NEW x \in Data
  PROVE  WrittenAt(f, n, x) \in Seq(Data)
<1>1. PICK l \in Nat : l = Len(f)
  BY LenProperties
<1>2. PICK m \in Nat : m = IF l > n THEN l ELSE n + 1
  OBVIOUS
<1>3. Hole \in Data /\ \A i \in 1 .. l : f[i] \in Data
  BY <1>1, ElementOfSeq DEF Hole, Item, Data
<1>4. WrittenAt(f, n, x) = [i \in 1 .. m |-> IF i = n + 1 THEN x ELSE IF i <= l THEN f[i] ELSE Hole]
  BY <1>1, <1>2 DEF WrittenAt
<1>5. WrittenAt(f, n, x) \in [1 .. m -> Data]
  BY <1>3, <1>4
<1> QED BY <1>5, SeqDef

LEMMA NextUnit ==
  ASSUME NEW c \in Clients, NEW n \in Nat
  PROVE  WrittenAt(Units(c, n), n, Item("data", c, n + 1)) = Units(c, n + 1)
<1>1. PICK f : f = Units(c, n) /\ Len(f) = n /\ \A i \in 1 .. n : f[i] = Item("data", c, i)
  BY UnitsData
<1>2. PICK x : x = Item("data", c, n + 1)
  OBVIOUS
<1>3. WrittenAt(f, n, x) = [i \in 1 .. n + 1 |-> IF i = n + 1 THEN x ELSE IF i <= n THEN f[i] ELSE Hole]
  BY <1>1 DEF WrittenAt
<1>4. \A i \in 1 .. n + 1 :
          (IF i = n + 1 THEN x ELSE IF i <= n THEN f[i] ELSE Hole) = Item("data", c, i)
  BY <1>1, <1>2
<1>5. WrittenAt(f, n, x) = [i \in 1 .. n + 1 |-> Item("data", c, i)]
  BY <1>3, <1>4
<1> QED BY <1>1, <1>2, <1>5 DEF Units

LEMMA ItemsData ==
  ASSUME NEW f \in Seq(Data), NEW i \in 1 .. Len(f)
  PROVE  f[i] \in Items
<1>1. f[i] \in Data
  BY ElementOfSeq
<1> QED BY <1>1 DEF Items, Data

-----------------------------------------------------------------------------
(* The steps of a handler of an upload. *)
LEMMA HandleStreamStep ==
  ASSUME IInv, NEW c \in Clients, HandleStream(c)
  PROVE  IInv'
<1> USE DEF disk, client, history
<1>1. TypeOK /\ ClientInv(c) /\ up[c] \in Direction
  BY Types DEF IInv
<1>2. /\ handlerPC[c] = "accept" /\ Arrived(up[c]) > 0
      /\ announced' = [announced EXCEPT ![c] = Next1(up[c]).n]
      /\ handlerPC' = [handlerPC EXCEPT ![c] = IF c \in Uploaders THEN "create" ELSE "open"]
      /\ UNCHANGED <<size, faults, disk, down, gaveUp, client, taken, history>>
  BY DEF HandleStream
<1>3. PICK u \in Direction :
          /\ u = Read(up[c])
          /\ u.wrote = up[c].wrote /\ u.arrived = up[c].arrived /\ u.fin = up[c].fin
          /\ u.read = up[c].read + 1
          /\ up[c].read + 1 \in 1 .. Len(up[c].wrote)
          /\ Next1(up[c]) \in Items
  BY <1>1, <1>2, ReadOne
<1>4. PICK n \in Nat : n = Next1(up[c]).n
  BY <1>3 DEF Items
<1>5. up' = [up EXCEPT ![c] = u]
  BY <1>3 DEF HandleStream
<1>6. /\ up'[c] = u /\ announced'[c] = n
      /\ handlerPC'[c] = IF c \in Uploaders THEN "create" ELSE "open"
  BY <1>1, <1>2, <1>4, <1>5 DEF TypeOK
<1>7. TypeOK'
  BY <1>1, <1>2, <1>4, <1>5, <1>6 DEF TypeOK
<1>8. \A d \in Clients \ {c} : Same(d)
  BY <1>1, <1>2, <1>5 DEF TypeOK, Same
<1>9. Role(c)' /\ FinLast(c)'
  BY <1>1, <1>2, <1>3, <1>6 DEF ClientInv, Role, FinLast, Clients
<1>10. ASSUME c \in Uploaders PROVE UploadInv(c)'
  <2>1. Asks(c) /\ Stores(c) /\ Confirms(c)
    BY <1>1, <1>10 DEF ClientInv, UploadInv
  <2>2. Asks(c)'
    BY <1>2, <1>3, <1>6, <2>1, AsksKept
  <2>3. /\ up[c].read = 0 /\ taken[c] = 0 /\ u.read = 1
    BY <1>2, <1>3, <2>1 DEF Stores
  <2>4. n = size[c]
    <3>1. Next1(up[c]) = up[c].wrote[1] /\ 1 \in 1 .. Len(up[c].wrote)
      BY <1>3, <2>3 DEF Next1
    <3>2. up[c].wrote[1] = Expected(c, 1)
      BY <2>1, <3>1 DEF Asks
    <3> QED BY <1>4, <3>1, <3>2 DEF Expected, Item
  <2>5. Stores(c)'
    BY <1>2, <1>6, <1>10, <2>3, <2>4 DEF Stores
  <2>6. Confirms(c)'
    BY <1>2, <1>6, <2>1, ConfirmsKept
  <2> QED BY <2>2, <2>5, <2>6 DEF UploadInv
<1>11. ASSUME c \in Downloaders PROVE DownloadInv(c)'
  <2>1. handlerPC'[c] = "open"
    BY <1>1, <1>6, <1>11, Types
  <2>2. Sends(c) => Sends(c)'
    BY <1>2, <2>1 DEF Sends
  <2> QED BY <1>1, <1>2, <1>11, <2>2, GetsKept DEF ClientInv, DownloadInv
<1>12. ClientInv(c)'
  BY <1>9, <1>10, <1>11 DEF ClientInv
<1> QED BY <1>2, <1>7, <1>8, <1>12, OneClient

LEMMA CreateStep ==
  ASSUME IInv, NEW c \in Clients, Create(c)
  PROVE  IInv'
<1> USE DEF disk, client, wire
<1>1. TypeOK /\ ClientInv(c)
  BY DEF IInv
<1>2. /\ handlerPC[c] = "create" /\ exists' = TRUE /\ file' = <<>>
      /\ spoiled' = spoiled \cup (Holders \ {c})
      /\ handlerPC' = [handlerPC EXCEPT ![c] = "receive"]
      /\ UNCHANGED <<size, faults, wire, client, announced, taken, seen>>
  BY DEF Create, Created, Disturb
<1>3. c \in Uploaders /\ c \notin Downloaders /\ handlerPC'[c] = "receive"
  BY <1>1, <1>2, Types DEF ClientInv, Role, TypeOK
<1>4. TypeOK'
  <2>1. file' \in Seq(Data) /\ Holders \subseteq Clients
    BY <1>2, EmptySeq DEF Holders
  <2> QED BY <1>1, <1>2, <2>1 DEF TypeOK
<1>5. \A d \in Clients \ {c} : Same(d)
  BY <1>1, <1>2 DEF TypeOK, Same
<1>6. Role(c)' /\ FinLast(c)'
  BY <1>1, <1>2, <1>3 DEF ClientInv, Role, FinLast
<1>7. Asks(c) /\ Stores(c) /\ Confirms(c)
  BY <1>1, <1>3 DEF ClientInv, UploadInv
<1>8. Asks(c)'
  BY <1>2, <1>7, AsksKept
<1>9. Stores(c)'
  <2>1. taken[c] = 0 /\ announced[c] = size[c] /\ up[c].read = taken[c] + 1
    BY <1>2, <1>7 DEF Stores
  <2>2. file' = Units(c, taken[c])
    BY <1>2, <2>1, NothingYet
  <2> QED BY <1>2, <1>3, <2>1, <2>2 DEF Stores
<1>10. Confirms(c)'
  BY <1>2, <1>3, <1>7, ConfirmsKept
<1>11. ClientInv(c)'
  BY <1>3, <1>6, <1>8, <1>9, <1>10 DEF ClientInv, UploadInv
<1> QED BY <1>2, <1>4, <1>5, <1>11, OneClient

LEMMA ReceiveStep ==
  ASSUME IInv, NEW c \in Clients, Receive(c)
  PROVE  IInv'
<1> USE DEF disk, client
<1>1. TypeOK /\ ClientInv(c) /\ up[c] \in Direction /\ taken[c] \in Nat
  BY Types DEF IInv
<1>2. /\ handlerPC[c] = "receive" /\ Arrived(up[c]) > 0
      /\ file' = WrittenAt(file, taken[c], Next1(up[c]))
      /\ taken' = [taken EXCEPT ![c] = taken[c] + 1]
      /\ handlerPC' = [handlerPC EXCEPT ![c] = IF Enough(c, taken'[c]) THEN "confirm" ELSE handlerPC[c]]
      /\ spoiled' = spoiled \cup (Holders \ {c})
      /\ UNCHANGED <<size, faults, exists, down, gaveUp, client, announced, seen>>
  BY DEF Receive, Disturb
<1>3. c \in Uploaders /\ c \notin Downloaders /\ size[c] \in Nat
  BY <1>1, <1>2, Types DEF ClientInv, Role
<1>4. PICK u \in Direction :
          /\ u = Read(up[c])
          /\ u.wrote = up[c].wrote /\ u.arrived = up[c].arrived /\ u.fin = up[c].fin
          /\ u.read = up[c].read + 1
          /\ up[c].read + 1 \in 1 .. Len(up[c].wrote)
  BY <1>1, <1>2, ReadOne
<1>5. up' = [up EXCEPT ![c] = u]
  BY <1>4 DEF Receive
<1>6. PICK n \in Nat : n = taken[c]
  BY <1>1
<1>7. /\ up'[c] = u /\ taken'[c] = n + 1
      /\ handlerPC'[c] = IF Enough(c, n + 1) THEN "confirm" ELSE "receive"
  BY <1>1, <1>2, <1>5, <1>6 DEF TypeOK
<1>8. Asks(c) /\ Stores(c) /\ Confirms(c)
  BY <1>1, <1>3 DEF ClientInv, UploadInv
<1>9. /\ announced[c] = size[c] /\ up[c].read = n + 1
      /\ c \in spoiled \/ file = Units(c, n)
  BY <1>2, <1>6, <1>8 DEF Stores
<1>10. n + 1 <= size[c] /\ Next1(up[c]) = Item("data", c, n + 1)
  <2>1. n + 2 \in 1 .. Len(up[c].wrote) /\ Len(up[c].wrote) \in Nat
    BY <1>1, <1>4, <1>9, DirectionFields
  <2>2. Next1(up[c]) = Expected(c, n + 2)
    BY <1>8, <1>9, <2>1 DEF Next1, Asks
  <2> QED BY <1>3, <1>8, <2>1, <2>2 DEF Asks, Expected
<1>11. TypeOK'
  <2>1. Item("data", c, n + 1) \in Data
    BY DEF Data, Item
  <2>2. file' \in Seq(Data)
    BY <1>1, <1>2, <1>10, <2>1, WrittenIsData DEF TypeOK
  <2>3. spoiled' \subseteq Clients
    BY <1>1, <1>2 DEF TypeOK, Holders
  <2>4. /\ up' \in [Clients -> Direction] /\ taken' \in [Clients -> Nat]
        /\ handlerPC' \in [Clients -> {"accept", "create", "receive", "confirm", "open", "send",
                                       "done"}]
    BY <1>1, <1>2, <1>5 DEF TypeOK
  <2> QED BY <1>1, <1>2, <2>2, <2>3, <2>4 DEF TypeOK
<1>12. \A d \in Clients \ {c} : Same(d)
  BY <1>1, <1>2, <1>5 DEF TypeOK, Same
<1>13. Role(c)' /\ FinLast(c)'
  BY <1>1, <1>2, <1>3, <1>4, <1>7 DEF ClientInv, Role, FinLast
<1>14. Asks(c)'
  BY <1>2, <1>4, <1>7, <1>8, AsksKept
<1>15. Stores(c)'
  <2>1. c \in spoiled' \/ file' = Units(c, n + 1)
    BY <1>2, <1>6, <1>9, <1>10, NextUnit
  <2>2. u.read = n + 2
    BY <1>4, <1>9
  <2>3. handlerPC'[c] = "confirm" => n + 1 = size[c]
    BY <1>3, <1>7, <1>9, <1>10 DEF Enough
  <2> QED BY <1>2, <1>7, <1>9, <2>1, <2>2, <2>3 DEF Stores
<1>16. Confirms(c)'
  BY <1>2, <1>7, <1>8, ConfirmsKept
<1>17. ClientInv(c)'
  BY <1>3, <1>13, <1>14, <1>15, <1>16 DEF ClientInv, UploadInv
<1> QED BY <1>2, <1>11, <1>12, <1>17, OneClient

LEMMA EndOfDataStep ==
  ASSUME IInv, NEW c \in Clients, EndOfData(c)
  PROVE  IInv'
<1> USE DEF disk, client, history, wire
<1>1. TypeOK /\ ClientInv(c) /\ up[c] \in Direction /\ taken[c] \in Nat
  BY Types DEF IInv
<1>2. /\ handlerPC[c] = "receive" /\ AtEOF(up[c], c, "server")
      /\ handlerPC' = [handlerPC EXCEPT ![c] = "confirm"]
      /\ UNCHANGED <<size, faults, disk, wire, client, announced, taken, history>>
  BY DEF EndOfData
<1>3. c \in Uploaders /\ c \notin Downloaders /\ size[c] \in Nat /\ handlerPC'[c] = "confirm"
  BY <1>1, <1>2, Types DEF ClientInv, Role, TypeOK
<1>4. TypeOK'
  BY <1>1, <1>2 DEF TypeOK
<1>5. \A d \in Clients \ {c} : Same(d)
  BY <1>1, <1>2 DEF TypeOK, Same
<1>6. Role(c)' /\ FinLast(c)'
  BY <1>1, <1>2, <1>3 DEF ClientInv, Role, FinLast
<1>7. Asks(c) /\ Stores(c) /\ Confirms(c)
  BY <1>1, <1>3 DEF ClientInv, UploadInv
<1>8. Asks(c)'
  BY <1>2, <1>7, AsksKept
<1>9. Stores(c)'
  <2>1. /\ announced[c] = size[c] /\ up[c].read = taken[c] + 1
        /\ c \in spoiled \/ file = Units(c, taken[c])
    BY <1>2, <1>7 DEF Stores
  <2>2. taken[c] = size[c] \/ "server" \in gaveUp[c] \/ clientPC[c] = "failed"
    <3>1. CASE Closed(c, "server")
      BY <3>1 DEF Closed
    <3>2. CASE up[c].fin = "known"
      <4>1. clientPC[c] \notin {"start", "sending", "waitSize", "waitError", "receiving"}
        BY <1>1, <1>3, <3>2 DEF ClientInv, FinLast, Role
      <4>2. clientPC[c] \in {"waitAck", "complete", "failed"}
        BY <1>1, <4>1 DEF TypeOK
      <4>3. clientPC[c] # "failed" => Len(up[c].wrote) = size[c] + 1
        BY <1>7, <4>2 DEF Asks
      <4>4. up[c].arrived = Len(up[c].wrote) /\ up[c].arrived = up[c].read
        <5>1. up[c].arrived = Len(up[c].wrote)
          BY <1>1, <3>2 DEF ClientInv, FinLast
        <5>2. up[c].arrived - up[c].read = 0 /\ up[c].arrived \in Nat /\ up[c].read \in Nat
          BY <1>1, <1>2, DirectionFields DEF AtEOF, Arrived
        <5> QED BY <5>1, <5>2
      <4> QED BY <1>1, <1>3, <2>1, <4>3, <4>4
    <3> QED BY <1>2, <3>1, <3>2 DEF AtEOF
  <2> QED BY <1>2, <1>3, <2>1, <2>2 DEF Stores
<1>10. Confirms(c)'
  BY <1>2, <1>3, <1>7, ConfirmsKept
<1>11. ClientInv(c)'
  BY <1>3, <1>6, <1>8, <1>9, <1>10 DEF ClientInv, UploadInv
<1> QED BY <1>2, <1>4, <1>5, <1>11, OneClient

LEMMA ConfirmStep ==
  ASSUME IInv, NEW c \in Clients, Confirm(c)
  PROVE  IInv'
<1> USE DEF disk, client
<1>1. TypeOK /\ ClientInv(c) /\ down[c] \in Direction /\ taken[c] \in Nat
  BY Types DEF IInv
<1>2. /\ handlerPC[c] = "confirm"
      /\ seen' = [seen EXCEPT ![c] = file]
      /\ handlerPC' = [handlerPC EXCEPT ![c] = "done"]
      /\ UNCHANGED <<size, faults, disk, up, gaveUp, client, announced, taken, spoiled>>
  BY DEF Confirm
<1>3. /\ c \in Uploaders /\ c \notin Downloaders
      /\ handlerPC'[c] = "done" /\ seen'[c] = file
  BY <1>1, <1>2, Types DEF ClientInv, Role, TypeOK
<1>4. PICK x \in Items : x = Item("ok", Server, taken[c])
  BY <1>1 DEF Items, Item
<1>5. PICK w \in Direction : w = Write(down[c], <<x>>) /\ w.fin = down[c].fin
  BY <1>1, <1>4, WriteOne
<1>6. PICK f \in Direction : f = Fin(w, c, "server") /\ (f.fin = w.fin \/ f.fin = "sent")
  BY <1>5, FinOnce
<1>7. PICK d \in Direction : d = IF Closed(c, "server") THEN down[c] ELSE f
  BY <1>1, <1>6
<1>8. down' = [down EXCEPT ![c] = d]
  BY <1>4, <1>5, <1>6, <1>7 DEF Confirm, Reply
<1>9. down[c].fin = "open" /\ Len(down[c].wrote) = 0 /\ c \notin confirmed
  BY <1>1, <1>2, <1>3 DEF ClientInv, FinLast, UploadInv, Confirms
<1>10. down'[c] = d /\ d.fin # "known"
  BY <1>1, <1>5, <1>6, <1>7, <1>8, <1>9 DEF TypeOK
<1>11. TypeOK'
  BY <1>1, <1>2, <1>8 DEF TypeOK
<1>12. \A e \in Clients \ {c} : Same(e)
  BY <1>1, <1>2, <1>8 DEF TypeOK, Same
<1>13. Role(c)' /\ FinLast(c)'
  BY <1>1, <1>2, <1>3, <1>10 DEF ClientInv, Role, FinLast
<1>14. Asks(c) /\ Stores(c)
  BY <1>1, <1>3 DEF ClientInv, UploadInv
<1>15. Asks(c)'
  BY <1>2, <1>14, AsksKept
<1>16. Stores(c)'
  BY <1>3 DEF Stores
<1>17. Confirms(c)'
  <2>1. ASSUME ~Closed(c, "server")
        PROVE  c \in spoiled \/ file = Content(c) \/ clientPC[c] = "failed"
    <3>1. "server" \notin gaveUp[c]
      BY <2>1 DEF Closed
    <3> QED BY <1>2, <1>14, <3>1 DEF Stores, Content
  <2>2. CASE Closed(c, "server")
    BY <1>2, <1>3, <1>7, <1>9, <1>10, <2>2 DEF Confirms
  <2>3. CASE ~Closed(c, "server")
    BY <1>2, <1>3, <1>9, <2>1, <2>3 DEF Confirms, Content
  <2> QED BY <2>2, <2>3
<1>18. ClientInv(c)'
  BY <1>3, <1>13, <1>15, <1>16, <1>17 DEF ClientInv, UploadInv
<1> QED BY <1>2, <1>11, <1>12, <1>18, OneClient

(* Of an upload or a download. *)
LEMMA HandlerFailsStep ==
  ASSUME IInv, NEW c \in Clients, HandlerFails(c)
  PROVE  IInv'
<1> USE DEF disk, client
<1>1. TypeOK /\ ClientInv(c) /\ down[c] \in Direction
  BY Types DEF IInv
<1>2. /\ handlerPC[c] \in {"create", "receive", "send"}
      /\ spoiled' = spoiled \cup {c}
      /\ handlerPC' = [handlerPC EXCEPT ![c] = "done"]
      /\ faults' \in 0 .. MaxFaults
      /\ UNCHANGED <<size, disk, up, gaveUp, client, announced, taken, seen>>
  BY <1>1, ConstantsAssumption DEF HandlerFails, Fault, TypeOK
<1>3. handlerPC'[c] = "done"
  BY <1>1, <1>2 DEF TypeOK
<1>4. PICK d \in Direction :
          /\ d = Fin(down[c], c, "server")
          /\ d.wrote = down[c].wrote /\ (d.fin = down[c].fin \/ d.fin = "sent")
  BY <1>1, FinOnce
<1>5. down' = [down EXCEPT ![c] = d]
  BY <1>4 DEF HandlerFails
<1>6. down'[c] = d /\ d.fin # "known"
  BY <1>1, <1>2, <1>4, <1>5 DEF TypeOK, ClientInv, FinLast
<1>7. TypeOK'
  BY <1>1, <1>2, <1>5 DEF TypeOK
<1>8. \A e \in Clients \ {c} : Same(e)
  BY <1>1, <1>2, <1>5 DEF TypeOK, Same
<1>9. Role(c)' /\ FinLast(c)'
  BY <1>1, <1>2, <1>3, <1>6 DEF ClientInv, Role, FinLast
<1>10. ASSUME c \in Uploaders PROVE UploadInv(c)'
  <2>1. Asks(c) /\ Confirms(c)
    BY <1>1, <1>10 DEF ClientInv, UploadInv
  <2>2. Asks(c)'
    BY <1>2, <2>1, AsksKept
  <2>3. Stores(c)'
    BY <1>3 DEF Stores
  <2>4. Confirms(c)'
    BY <1>2, <1>3, <1>4, <1>6, <2>1, ConfirmsKept
  <2> QED BY <2>2, <2>3, <2>4 DEF UploadInv
<1>11. DownloadInv(c)'
  BY <1>2 DEF DownloadInv
<1>12. ClientInv(c)'
  BY <1>9, <1>10, <1>11 DEF ClientInv
<1> QED BY <1>2, <1>7, <1>8, <1>12, OneClient

-----------------------------------------------------------------------------
(* The steps of a handler of a download.                                   *)
LEMMA WriteTwo ==
  ASSUME NEW d \in Direction, NEW x \in Items, NEW y \in Items
  PROVE  \E e \in Direction :
             /\ e = Write(d, <<x, y>>)
             /\ e.read = d.read /\ e.fin = d.fin
             /\ Len(e.wrote) = Len(d.wrote) + 2
             /\ Len(d.wrote) = 0 => e.wrote[1] = x
<1>1. PICK t : t = <<x, y>>
  OBVIOUS
<1>2. PICK s \in Seq(Items) : s = d.wrote
  BY DirectionFields
<1>3. t \in Seq(Items) /\ Len(t) = 2 /\ t[1] = x
  BY <1>1
<1>4. PICK w : w = s \o t
  OBVIOUS
<1>5. /\ w \in Seq(Items) /\ Len(w) = Len(s) + 2 /\ Len(s) \in Nat
      /\ Len(s) = 0 => w[1] = x
  <2>1. /\ w \in Seq(Items) /\ Len(w) = Len(s) + Len(t)
        /\ \A i \in 1 .. Len(s) + Len(t) : w[i] = IF i <= Len(s) THEN s[i] ELSE t[i - Len(s)]
    BY <1>3, <1>4, ConcatProperties
  <2>2. Len(s) \in Nat
    BY LenProperties
  <2> HIDE <1>4
  <2> QED BY <1>3, <2>1, <2>2
<1>6. d.arrived \in Nat /\ d.read \in Nat /\ d.read <= d.arrived /\ d.arrived <= Len(s)
  BY <1>2, DirectionFields
<1>7. PICK e : e = [d EXCEPT !.wrote = w]
  OBVIOUS
<1>8. /\ e.wrote = w /\ e.arrived = d.arrived /\ e.read = d.read /\ e.fin = d.fin
      /\ e \in [wrote : Seq(Items), arrived : Nat, read : Nat, fin : {"open", "sent", "known"}]
  BY <1>5, <1>7 DEF Direction
<1>9. e \in Direction
  BY <1>5, <1>6, <1>8 DEF Direction
<1>10. e = Write(d, <<x, y>>)
  BY <1>1, <1>2, <1>7, <1>4 DEF Write
<1>11. /\ e.read = d.read /\ e.fin = d.fin /\ Len(e.wrote) = Len(d.wrote) + 2
       /\ Len(d.wrote) = 0 => e.wrote[1] = x
  BY <1>2, <1>5, <1>8
<1> QED BY <1>9, <1>10, <1>11, Zenon

(* A downloader whose handler has written nothing has read nothing.        *)
LEMMA Unanswered ==
  ASSUME TypeOK, NEW c \in Clients, Gets(c), Len(down[c].wrote) = 0
  PROVE  clientPC[c] \notin {"waitError", "receiving", "complete"}
<1>1. down[c].read = 0
  <2>1. down[c] \in Direction
    BY Types
  <2> QED BY <2>1, DirectionFields
<1> QED BY <1>1 DEF Gets, Announces

LEMMA OpenStep ==
  ASSUME IInv, NEW c \in Clients, Open(c)
  PROVE  IInv'
<1> USE DEF disk, client
<1>1. TypeOK /\ ClientInv(c) /\ down[c] \in Direction
  BY Types DEF IInv
<1>2. /\ handlerPC[c] = "open"
      /\ announced' = [announced EXCEPT ![c] = Len(file)]
      /\ seen' = [seen EXCEPT ![c] = file]
      /\ UNCHANGED <<size, faults, disk, up, gaveUp, client, taken, spoiled>>
  BY DEF Open
<1>3. /\ c \in Downloaders /\ c \notin Uploaders /\ seen'[c] = file
      /\ file \in Seq(Data) /\ Len(file) \in Nat
  <2>1. file \in Seq(Data) /\ Len(file) \in Nat
    BY <1>1, LenProperties DEF TypeOK
  <2>2. seen'[c] = file
    BY <1>1, <1>2 DEF TypeOK
  <2>3. c \in Downloaders /\ c \notin Uploaders
    BY <1>1, <1>2, Types DEF ClientInv, Role
  <2> QED BY <2>1, <2>2, <2>3
<1>4. PICK x \in Items : x = Item("size", Server, Len(file))
  BY <1>3 DEF Items, Item
<1>5. x.n = Len(file)
  BY <1>4 DEF Item
<1>6. PICK w \in Direction :
          /\ w = Write(down[c], <<x>>) /\ w.fin = down[c].fin /\ w.read = down[c].read
          /\ Len(w.wrote) = Len(down[c].wrote) + 1
          /\ w.wrote[Len(down[c].wrote) + 1] = x
  BY <1>1, <1>4, WriteOne
<1>7. PICK d \in Direction : d = IF Closed(c, "server") THEN down[c] ELSE w
  BY <1>1, <1>6
<1>8. /\ down' = [down EXCEPT ![c] = d]
      /\ handlerPC' = [handlerPC EXCEPT ![c] = IF Closed(c, "server") THEN "done" ELSE "send"]
  BY <1>1, <1>4, <1>6, <1>7 DEF Open, TypeOK
<1>9. down'[c] = d /\ handlerPC'[c] = IF Closed(c, "server") THEN "done" ELSE "send"
  BY <1>1, <1>8 DEF TypeOK
<1>10. down[c].fin = "open" /\ d.fin = "open" /\ d.read = down[c].read
  BY <1>1, <1>2, <1>6, <1>7 DEF ClientInv, FinLast
<1>11. TypeOK'
  BY <1>1, <1>2, <1>3, <1>8 DEF TypeOK
<1>12. \A e \in Clients \ {c} : Same(e)
  BY <1>1, <1>2, <1>8 DEF TypeOK, Same
<1>13. Role(c)' /\ FinLast(c)'
  BY <1>1, <1>2, <1>3, <1>9, <1>10 DEF ClientInv, Role, FinLast
<1>14. DownloadInv(c)'
  <2> SUFFICES ASSUME c \notin spoiled
               PROVE  Sends(c)' /\ ("client" \notin gaveUp[c] => Gets(c)')
    BY <1>2 DEF DownloadInv
  <2>1. Sends(c) /\ ("client" \notin gaveUp[c] => Gets(c))
    BY <1>1, <1>3 DEF ClientInv, DownloadInv
  <2>2. Len(down[c].wrote) = 0 /\ taken[c] = 0
    BY <1>2, <2>1 DEF Sends
  <2>3. Sends(c)'
    <3>1. CASE Closed(c, "server")
      BY <1>7, <1>9, <2>2, <3>1 DEF Sends
    <3>2. CASE ~Closed(c, "server")
      <4>1. /\ down'[c] = w /\ handlerPC'[c] = "send"
            /\ Len(w.wrote) = 1 /\ w.wrote[1].n = Len(file)
        BY <1>6, <1>7, <1>9, <1>5, <2>2, <3>2
      <4>2. Announces(c)'
        BY <1>3, <1>7, <1>10, <3>2, <4>1 DEF Announces
      <4> QED BY <1>2, <1>3, <2>2, <4>1, <4>2 DEF Sends
    <3> QED BY <3>1, <3>2
  <2>4. ASSUME "client" \notin gaveUp[c] PROVE Gets(c)'
    <3>1. Gets(c) /\ clientPC[c] \notin {"waitError", "receiving", "complete"}
      BY <1>1, <2>1, <2>2, <2>4, Unanswered
    <3> QED BY <1>2, <1>9, <1>10, <3>1 DEF Gets
  <2> QED BY <2>3, <2>4
<1>15. ClientInv(c)'
  BY <1>3, <1>13, <1>14 DEF ClientInv
<1> QED BY <1>2, <1>11, <1>12, <1>15, OneClient

LEMMA NotFoundStep ==
  ASSUME IInv, NEW c \in Clients, NotFound(c)
  PROVE  IInv'
<1> USE DEF disk, client, history
<1>1. TypeOK /\ ClientInv(c) /\ down[c] \in Direction
  BY Types DEF IInv
<1>2. /\ handlerPC[c] = "open"
      /\ handlerPC' = [handlerPC EXCEPT ![c] = "done"]
      /\ UNCHANGED <<size, faults, disk, up, gaveUp, client, announced, taken, history>>
  BY DEF NotFound
<1>3. c \in Downloaders /\ c \notin Uploaders /\ handlerPC'[c] = "done"
  BY <1>1, <1>2, Types DEF ClientInv, Role, TypeOK
<1>4. PICK x \in Items : x = Item("size", Server, 0)
  BY DEF Items, Item
<1>5. x.n = 0
  BY <1>4 DEF Item
<1>6. PICK y \in Items : y = Item("error", Server, 0)
  BY DEF Items, Item
<1>7. PICK w \in Direction :
          /\ w = Write(down[c], <<x, y>>) /\ w.fin = down[c].fin /\ w.read = down[c].read
          /\ Len(w.wrote) = Len(down[c].wrote) + 2
          /\ Len(down[c].wrote) = 0 => w.wrote[1] = x
  BY <1>1, WriteTwo
<1>8. PICK f \in Direction :
          /\ f = Fin(w, c, "server") /\ f.wrote = w.wrote /\ f.read = w.read
          /\ f.fin = w.fin \/ f.fin = "sent"
  BY FinOnce
<1>9. PICK d \in Direction : d = IF Closed(c, "server") THEN down[c] ELSE f
  BY <1>1
<1>10. down' = [down EXCEPT ![c] = d]
  BY <1>4, <1>7, <1>8, <1>9, <1>6 DEF NotFound, Reply
<1>11. down[c].fin = "open"
  BY <1>1, <1>2 DEF ClientInv, FinLast
<1>12. down'[c] = d /\ d.fin # "known" /\ d.read = down[c].read
  BY <1>1, <1>7, <1>8, <1>9, <1>10, <1>11 DEF TypeOK
<1>13. TypeOK'
  BY <1>1, <1>2, <1>10 DEF TypeOK
<1>14. \A e \in Clients \ {c} : Same(e)
  BY <1>1, <1>2, <1>10 DEF TypeOK, Same
<1>15. Role(c)' /\ FinLast(c)'
  BY <1>1, <1>2, <1>3, <1>12 DEF ClientInv, Role, FinLast
<1>16. DownloadInv(c)'
  <2> SUFFICES ASSUME c \notin spoiled
               PROVE  Sends(c)' /\ ("client" \notin gaveUp[c] => Gets(c)')
    BY <1>2 DEF DownloadInv
  <2>1. Sends(c) /\ ("client" \notin gaveUp[c] => Gets(c))
    BY <1>1, <1>3 DEF ClientInv, DownloadInv
  <2>2. Len(down[c].wrote) = 0
    BY <1>2, <2>1 DEF Sends
  <2>3. Sends(c)'
    <3>1. CASE Closed(c, "server")
      BY <1>3, <1>9, <1>12, <2>2, <3>1 DEF Sends
    <3>2. CASE ~Closed(c, "server")
      <4>1. Len(d.wrote) = 2 /\ d.wrote[1].n = 0
        BY <1>7, <1>8, <1>9, <1>5, <2>2, <3>2
      <4> QED BY <1>3, <1>12, <4>1 DEF Sends, Refuses
    <3> QED BY <3>1, <3>2
  <2>4. ASSUME "client" \notin gaveUp[c] PROVE Gets(c)'
    <3>1. Gets(c) /\ clientPC[c] \notin {"waitError", "receiving", "complete"}
      BY <1>1, <2>1, <2>2, <2>4, Unanswered
    <3> QED BY <1>2, <1>12, <3>1 DEF Gets
  <2> QED BY <2>3, <2>4
<1>17. ClientInv(c)'
  BY <1>3, <1>15, <1>16 DEF ClientInv
<1> QED BY <1>2, <1>13, <1>14, <1>17, OneClient

LEMMA SendFileStep ==
  ASSUME IInv, NEW c \in Clients, SendFile(c)
  PROVE  IInv'
<1> USE DEF disk, client, history
<1>1. TypeOK /\ ClientInv(c) /\ down[c] \in Direction /\ taken[c] \in Nat
  BY Types DEF IInv
<1>2. /\ handlerPC[c] = "send" /\ taken[c] < Len(file)
      /\ taken' = [taken EXCEPT ![c] = taken[c] + 1]
      /\ UNCHANGED <<size, faults, disk, up, gaveUp, client, handlerPC, announced, history>>
  BY DEF SendFile
<1>3. c \in Downloaders /\ c \notin Uploaders
  BY <1>1, <1>2, Types DEF ClientInv, Role
<1>4. PICK n \in Nat : n = taken[c]
  BY <1>1
<1>5. PICK x \in Items : x = file[n + 1]
  <2>1. file \in Seq(Data) /\ Len(file) \in Nat
    BY <1>1, LenProperties DEF TypeOK
  <2>2. n + 1 \in 1 .. Len(file)
    BY <1>2, <1>4, <2>1
  <2> QED BY <2>1, <2>2, ItemsData
<1>6. PICK d \in Direction :
          /\ d = Write(down[c], <<x>>)
          /\ d.arrived = down[c].arrived /\ d.read = down[c].read /\ d.fin = down[c].fin
          /\ Len(d.wrote) = Len(down[c].wrote) + 1
          /\ \A i \in 1 .. Len(down[c].wrote) : d.wrote[i] = down[c].wrote[i]
          /\ d.wrote[Len(down[c].wrote) + 1] = x
  BY <1>1, WriteOne
<1>7. down' = [down EXCEPT ![c] = d]
  BY <1>4, <1>5, <1>6 DEF SendFile
<1>8. down'[c] = d /\ taken'[c] = n + 1
  BY <1>1, <1>2, <1>4, <1>7 DEF TypeOK
<1>9. d.fin = "open"
  BY <1>1, <1>2, <1>6 DEF ClientInv, FinLast
<1>10. TypeOK'
  BY <1>1, <1>2, <1>7 DEF TypeOK
<1>11. \A e \in Clients \ {c} : Same(e)
  BY <1>1, <1>2, <1>7 DEF TypeOK, Same
<1>12. Role(c)' /\ FinLast(c)'
  BY <1>1, <1>2, <1>3, <1>8, <1>9 DEF ClientInv, Role, FinLast
<1>13. DownloadInv(c)'
  <2> SUFFICES ASSUME c \notin spoiled
               PROVE  Sends(c)' /\ ("client" \notin gaveUp[c] => Gets(c)')
    BY <1>2 DEF DownloadInv
  <2>1. Sends(c) /\ ("client" \notin gaveUp[c] => Gets(c))
    BY <1>1, <1>3 DEF ClientInv, DownloadInv
  <2>2. file = seen[c] /\ Len(down[c].wrote) = n + 1
    BY <1>2, <1>4, <2>1 DEF Sends
  <2>3. Announces(c)
    BY <1>2, <2>1, <2>2 DEF Sends, Refuses
  <2>4. /\ Len(d.wrote) = n + 2 /\ d.wrote[n + 2] = seen[c][n + 1]
        /\ \A i \in 1 .. n + 1 : d.wrote[i] = down[c].wrote[i]
    <3>1. Len(d.wrote) = (n + 1) + 1 /\ d.wrote[(n + 1) + 1] = x
      BY <1>6, <2>2
    <3>2. \A i \in 1 .. n + 1 : d.wrote[i] = down[c].wrote[i]
      BY <1>6, <2>2
    <3> QED BY <1>5, <2>2, <3>1, <3>2
  <2>5. Announces(c)'
    <3>1. d.wrote[1].n = Len(seen[c])
      BY <2>3, <2>4 DEF Announces
    <3>2. \A i \in 1 .. n + 1 : d.wrote[i + 1] = seen[c][i]
      <4>1. \A i \in 1 .. n : down[c].wrote[i + 1] = seen[c][i]
        BY <2>2, <2>3 DEF Announces
      <4>2. \A i \in 1 .. n : i + 1 \in 1 .. n + 1 /\ d.wrote[i + 1] = seen[c][i]
        BY <2>4, <4>1
      <4>3. \A i \in 1 .. n + 1 : i \in 1 .. n \/ i = n + 1
        OBVIOUS
      <4> QED BY <2>4, <4>2, <4>3
    <3>3. Len(seen[c]) \in Nat /\ n + 2 <= Len(seen[c]) + 1
      <4>1. Len(seen[c]) \in Nat
        BY <1>1, Types, LenProperties
      <4> QED BY <1>2, <1>4, <2>2, <4>1
    <3> QED BY <1>2, <1>8, <1>9, <2>4, <3>1, <3>2, <3>3 DEF Announces
  <2>6. Sends(c)'
    BY <1>2, <1>8, <2>2, <2>4, <2>5 DEF Sends
  <2>7. ASSUME "client" \notin gaveUp[c] PROVE Gets(c)'
    <3>1. Gets(c)
      BY <2>1, <2>7
    <3>2. d.wrote[1] = down[c].wrote[1] /\ Len(d.wrote) > 0 /\ d.read = down[c].read
      BY <1>6, <2>4
    <3> QED BY <1>2, <1>8, <2>5, <3>1, <3>2 DEF Gets
  <2> QED BY <2>6, <2>7
<1>14. ClientInv(c)'
  BY <1>3, <1>12, <1>13 DEF ClientInv
<1> QED BY <1>2, <1>10, <1>11, <1>14, OneClient

(* The FIN comes after the whole file: if the connection still sends, the  *)
(* loop has ended because the file has.                                    *)
LEMMA SendEndsStep ==
  ASSUME IInv, NEW c \in Clients, SendEnds(c)
  PROVE  IInv'
<1> USE DEF disk, client, history
<1>1. TypeOK /\ ClientInv(c) /\ down[c] \in Direction /\ taken[c] \in Nat
  BY Types DEF IInv
<1>2. /\ handlerPC[c] = "send" /\ (taken[c] >= Len(file) \/ Closed(c, "server"))
      /\ handlerPC' = [handlerPC EXCEPT ![c] = "done"]
      /\ UNCHANGED <<size, faults, disk, up, gaveUp, client, announced, taken, history>>
  BY DEF SendEnds
<1>3. c \in Downloaders /\ c \notin Uploaders /\ handlerPC'[c] = "done"
  BY <1>1, <1>2, Types DEF ClientInv, Role, TypeOK
<1>4. PICK d \in Direction :
          /\ d = Fin(down[c], c, "server")
          /\ d.wrote = down[c].wrote /\ d.arrived = down[c].arrived /\ d.read = down[c].read
          /\ d.fin = down[c].fin \/ (d.fin = "sent" /\ ~Closed(c, "server"))
  BY <1>1, FinOnce
<1>5. down' = [down EXCEPT ![c] = d]
  BY <1>4 DEF SendEnds
<1>6. down'[c] = d /\ down[c].fin = "open" /\ d.fin # "known"
  BY <1>1, <1>2, <1>4, <1>5 DEF TypeOK, ClientInv, FinLast
<1>7. TypeOK'
  BY <1>1, <1>2, <1>5 DEF TypeOK
<1>8. \A e \in Clients \ {c} : Same(e)
  BY <1>1, <1>2, <1>5 DEF TypeOK, Same
<1>9. Role(c)' /\ FinLast(c)'
  BY <1>1, <1>2, <1>3, <1>6 DEF ClientInv, Role, FinLast
<1>10. DownloadInv(c)'
  <2> SUFFICES ASSUME c \notin spoiled
               PROVE  Sends(c)' /\ ("client" \notin gaveUp[c] => Gets(c)')
    BY <1>2 DEF DownloadInv
  <2>1. Sends(c) /\ ("client" \notin gaveUp[c] => Gets(c))
    BY <1>1, <1>3 DEF ClientInv, DownloadInv
  <2>2. file = seen[c] /\ Len(down[c].wrote) = taken[c] + 1
    BY <1>2, <2>1 DEF Sends
  <2>3. Announces(c)
    BY <1>1, <1>2, <2>1, <2>2 DEF Sends, Refuses
  <2>4. d.fin # "open" => Len(d.wrote) = Len(seen[c]) + 1
    <3>1. d.fin # "open" => taken[c] >= Len(seen[c])
      BY <1>2, <1>4, <1>6, <2>2
    <3>2. Len(seen[c]) \in Nat /\ Len(down[c].wrote) <= Len(seen[c]) + 1
      <4>1. Len(seen[c]) \in Nat
        BY <1>1, Types, LenProperties
      <4> QED BY <2>3, <4>1 DEF Announces
    <3> QED BY <1>1, <1>4, <2>2, <3>1, <3>2
  <2>5. Announces(c)'
    BY <1>2, <1>4, <1>6, <2>3, <2>4 DEF Announces
  <2>6. Sends(c)'
    BY <1>3, <2>5 DEF Sends
  <2>7. ASSUME "client" \notin gaveUp[c] PROVE Gets(c)'
    BY <1>2, <1>4, <1>6, <2>1, <2>5, <2>7 DEF Gets
  <2> QED BY <2>6, <2>7
<1>11. ClientInv(c)'
  BY <1>3, <1>9, <1>10 DEF ClientInv
<1> QED BY <1>2, <1>7, <1>8, <1>11, OneClient

-----------------------------------------------------------------------------
(* Nobody has begun. *)
LEMMA InitInv ==
  ASSUME Init
  PROVE  IInv
<1>1. Idle \in Direction /\ Idle.wrote = <<>> /\ Idle.read = 0 /\ Idle.fin = "open"
  BY EmptySeq DEF Idle, Direction
<1>2. file \in Seq(Data)
  <2>1. ASSUME NEW n \in FirstSizes, file = Units(Server, n) PROVE file \in Seq(Data)
    BY <2>1, UnitsData, ConstantsAssumption
  <2>2. <<>> \in Seq(Data)
    BY EmptySeq
  <2> QED BY <2>1, <2>2 DEF Init
<1>3. TypeOK
  <2>1. <<>> \in Seq(Data) /\ <<>> \in Seq(Items)
    BY EmptySeq
  <2>2. exists \in BOOLEAN
    BY Zenon DEF Init
  <2>3. /\ size \in [Uploaders -> Sizes] /\ faults \in 0 .. MaxFaults
        /\ confirmed \subseteq Uploaders /\ spoiled \subseteq Clients
    BY ConstantsAssumption DEF Init
  <2>4. /\ up \in [Clients -> Direction] /\ down \in [Clients -> Direction]
        /\ gaveUp \in [Clients -> SUBSET Ends]
        /\ local \in [Clients -> Seq(Items)] /\ seen \in [Clients -> Seq(Data)]
    BY <1>1, <2>1 DEF Init
  <2>5. /\ clientPC \in [Clients -> {"start", "sending", "waitAck", "waitSize", "waitError",
                                      "receiving", "complete", "failed"}]
        /\ handlerPC \in [Clients -> {"accept", "create", "receive", "confirm", "open", "send",
                                       "done"}]
        /\ want \in [Clients -> Nat]
        /\ announced \in [Clients -> Nat] /\ taken \in [Clients -> Nat]
    BY DEF Init
  <2> QED BY <1>2, <2>3, <2>4, <2>5, <2>2 DEF TypeOK
<1>4. ASSUME NEW c \in Clients PROVE ClientInv(c)
  <2>1. /\ up[c] = Idle /\ down[c] = Idle /\ clientPC[c] = "start" /\ handlerPC[c] = "accept"
        /\ local[c] = <<>> /\ taken[c] = 0 /\ confirmed = {} /\ Len(Idle.wrote) = 0
    BY <1>1 DEF Init
  <2>2. Role(c) /\ FinLast(c)
    BY <1>1, <2>1 DEF Role, FinLast
  <2>3. ASSUME c \in Uploaders PROVE UploadInv(c)
    <3>1. size[c] \in Nat
      BY <1>3, <2>3, Types
    <3>2. Asks(c)
      BY <2>1, <3>1 DEF Asks
    <3>3. Stores(c) /\ Confirms(c)
      BY <1>1, <2>1 DEF Stores, Confirms
    <3> QED BY <3>2, <3>3 DEF UploadInv
  <2>4. DownloadInv(c)
    BY <1>1, <2>1 DEF DownloadInv, Sends, Gets
  <2> QED BY <2>2, <2>3, <2>4 DEF ClientInv
<1> QED BY <1>3, <1>4 DEF IInv

LEMMA NextInv ==
  ASSUME IInv, [Next]_vars
  PROVE  IInv'
<1>1. ASSUME Next PROVE IInv'
  <2> SUFFICES ASSUME NEW c \in Clients,
                      \/ Arrive(c) \/ FinArrives(c) \/ (\E e \in Ends : GiveUp(c, e))
                      \/ Upload(c) \/ Download(c) \/ ClientFails(c)
                      \/ HandleStream(c) \/ HandleUpload(c) \/ HandleDownload(c) \/ HandlerFails(c)
               PROVE  IInv'
    BY <1>1 DEF Next
  <2>1. CASE Arrive(c) \/ FinArrives(c)
    BY <2>1, ArriveStep
  <2>2. CASE \E e \in Ends : GiveUp(c, e)
    BY <2>2, GiveUpStep
  <2>3. CASE Upload(c)
    BY <2>3, UploadRequestStep, SendUnitStep, CloseWriteStep, AckStep DEF Upload
  <2>4. CASE Download(c)
    BY <2>4, DownloadRequestStep, ReadSizeStep, ErrorStep, ReceiveFileStep, ReceiveEOFStep DEF Download
  <2>5. CASE ClientFails(c)
    BY <2>5, ClientFailsStep
  <2>6. CASE HandleStream(c)
    BY <2>6, HandleStreamStep
  <2>7. CASE HandleUpload(c)
    BY <2>7, CreateStep, ReceiveStep, EndOfDataStep, ConfirmStep DEF HandleUpload
  <2>8. CASE HandleDownload(c)
    BY <2>8, OpenStep, NotFoundStep, SendFileStep, SendEndsStep DEF HandleDownload
  <2>9. CASE HandlerFails(c)
    BY <2>9, HandlerFailsStep
  <2> QED BY <2>1, <2>2, <2>3, <2>4, <2>5, <2>6, <2>7, <2>8, <2>9
<1>2. ASSUME UNCHANGED vars PROVE IInv'
  <2> USE <1>2 DEF vars, wire, client, handler, disk, history
  <2>1. TypeOK'
    BY DEF IInv, TypeOK
  <2>2. ASSUME NEW c \in Clients PROVE ClientInv(c)'
    <3>1. ClientInv(c)
      BY DEF IInv
    <3>2. Role(c)' /\ FinLast(c)'
      BY <3>1 DEF ClientInv, Role, FinLast
    <3>3. c \in Uploaders => UploadInv(c)'
      BY <3>1, AsksKept, StoresKept, ConfirmsKept DEF ClientInv, UploadInv
    <3>4. c \in Downloaders => DownloadInv(c)'
      BY <3>1, SendsKept, GetsKept DEF ClientInv, DownloadInv
    <3> QED BY <3>2, <3>3, <3>4 DEF ClientInv
  <2> QED BY <2>1, <2>2 DEF IInv
<1> QED BY <1>1, <1>2

(* The inductive invariant: what each client and its handler have written  *)
(* and read accounts for what the other has.                               *)
THEOREM Invariance == Spec => []IInv
<1>1. Init => IInv
  BY InitInv
<1>2. IInv /\ [Next]_vars => IInv'
  BY NextInv
<1> QED BY <1>1, <1>2, PTL DEF Spec

(* Directions, places and counters have their types. *)
THEOREM TypesHold == Spec => []TypeOK
<1>1. IInv => TypeOK
  BY DEF IInv
<1> QED BY <1>1, Invariance, PTL

(* An uploader that has read the confirmation of handleUpload has its      *)
(* whole file on the server, as it was when it was confirmed, unless       *)
(* another handler changed the file or the disk failed: the announced size *)
(* makes the handler stop reading after the last unit, and it is told of   *)
(* the end of the data only behind all of it.                              *)
THEOREM ConfirmedStays == Spec => []ConfirmedIsStored
<1>1. IInv => ConfirmedIsStored
  <2> SUFFICES ASSUME IInv, NEW c \in confirmed
               PROVE  c \in spoiled \/ seen[c] = Content(c)
    BY DEF ConfirmedIsStored
  <2>1. c \in Uploaders /\ c \in Clients
    BY DEF IInv, TypeOK, Clients
  <2>2. Confirms(c)
    BY <2>1 DEF IInv, ClientInv, UploadInv
  <2> QED BY <2>2 DEF Confirms
<1> QED BY <1>1, Invariance, PTL

(* A download reported complete is the file as it was announced, unless    *)
(* the client's own connection had been given up, or the file changed or   *)
(* the disk failed under the handler: enough data has come, or the FIN     *)
(* that says that it was all (downloadFile and handleDownload).            *)
THEOREM DownloadsWhole == Spec => []DownloadWhole
<1>1. IInv => DownloadWhole
  <2> SUFFICES ASSUME IInv, NEW c \in Downloaders, clientPC[c] = "complete"
               PROVE  local[c] = seen[c] \/ c \in spoiled \/ "client" \in gaveUp[c]
    BY DEF DownloadWhole
  <2>1. DownloadInv(c)
    BY DEF IInv, ClientInv, Clients
  <2> QED BY <2>1 DEF DownloadInv, Gets
<1> QED BY <1>1, Invariance, PTL
=============================================================================
