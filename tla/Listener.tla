------------------------------ MODULE Listener ------------------------------
(***************************************************************************)
(* The listener (quic/listener.go): every UDP packet is dispatched by a    *)
(* goroutine of its own, which looks the connection up by address, then by *)
(* connection ID, or makes a new one, registers it and offers it to        *)
(* Accept.  Clients may move to another address (connection migration).    *)
(*                                                                         *)
(* A goroutine's critical sections on connsMu are its steps.  Packets are  *)
(* dispatched in any order, any number of times or never; a packet that    *)
(* dispatchPacket discards is one that is never dispatched.  A connection  *)
(* ID of the server is named by its connection.                            *)
(*                                                                         *)
(* An operator X_Fault is X with a bug put in (PROJECT.json, "mutants").   *)
(***************************************************************************)
EXTENDS Naturals, Sequences, FiniteSets

CONSTANTS
    Clients,
    Addrs,           \* addresses of the clients
    Home,            \* Home[c]: the address client c starts from
    Conns,           \* bound: connections the server makes
    Dispatchers,     \* bound: dispatchPacket goroutines at a time
    AcceptCap,       \* capacity of acceptCh (100)
    Aware,           \* clients that address the connection ID of the server
    MayClose         \* whether connections and the listener may be closed

NoConn == "none"

ASSUME ConstantsAssumption ==
    /\ Home \in [Clients -> Addrs]
    /\ \A c, d \in Clients : Home[c] = Home[d] => c = d
    /\ NoConn \notin Conns
    /\ AcceptCap \in Nat
    /\ Aware \subseteq Clients
    /\ MayClose \in BOOLEAN

VARIABLES
    connMap,      \* address -> connection, or NoConn
    connIDMap,    \* connections registered under their connection ID
    created,      \* connections made by newServerConnection
    owner,        \* the client whose Initial packet made a connection
    closed,       \* connections closed
    remoteAddr,   \* where a connection sends to
    inbox,        \* <<connection, client>>: has been handed packets of the client
    acceptCh,
    accepted,     \* connections Accept has returned
    refused,      \* connections that found acceptCh full
    pc, mine, job, \* dispatchers: step, new connection, <<client, address>>
    path,         \* addresses a client has sent from
    dest,         \* the connection ID in a client's short headers
    listening

tables  == <<connMap, connIDMap>>
conns   == <<created, owner, closed, remoteAddr, inbox>>
accepts == <<acceptCh, accepted, refused>>
workers == <<pc, mine, job>>
clients == <<path, dest>>
vars    == <<tables, conns, accepts, workers, clients, listening>>

Open(k) == k \in created \ closed

Init ==
    /\ connMap = [a \in Addrs |-> NoConn] /\ connIDMap = {}
    /\ created = {} /\ closed = {} /\ inbox = {}
    /\ owner = [k \in Conns |-> NoConn]
    /\ remoteAddr = [k \in Conns |-> NoConn]
    /\ acceptCh = <<>> /\ accepted = {} /\ refused = {}
    /\ pc = [w \in Dispatchers |-> "idle"]
    /\ mine = [w \in Dispatchers |-> NoConn]
    /\ job = [w \in Dispatchers |-> <<>>]
    /\ path = [c \in Clients |-> {Home[c]}]
    /\ dest = [c \in Clients |-> NoConn]
    /\ listening = TRUE

-----------------------------------------------------------------------------
(* dispatchPacket.  The fast path: a connection is known at this address.  *)
Known(a) == connMap[a] # NoConn /\ Open(connMap[a])

Deliver(k, c) == inbox' = inbox \cup {<<k, c>>}

ByAddress(c, a) ==
    /\ listening
    /\ a \in path[c]
    /\ Known(a)
    /\ Deliver(connMap[a], c)
    /\ UNCHANGED <<tables, created, owner, closed, remoteAddr, accepts, workers,
                   clients, listening>>

(* A short header from an unknown address: by connection ID (migration).   *)
Rebind_KeepsOld(k, a) ==
    connMap' = [connMap EXCEPT ![a] = IF remoteAddr[k] # a THEN k ELSE @]

Rebind(k, a) ==
    connMap' = IF remoteAddr[k] # a
               THEN [connMap EXCEPT ![remoteAddr[k]] = NoConn, ![a] = k]
               ELSE connMap

ByConnID(c, a) ==
    /\ listening
    /\ a \in path[c]
    /\ ~Known(a)
    /\ dest[c] \in connIDMap /\ Open(dest[c])
    /\ Rebind(dest[c], a)
    /\ remoteAddr' = [remoteAddr EXCEPT ![dest[c]] = a]
    /\ Deliver(dest[c], c)
    /\ UNCHANGED <<connIDMap, created, owner, closed, accepts, workers, clients,
                   listening>>

(* An Initial packet, which a client sends from its first address only.    *)
NewConnection(w, c, k) ==
    /\ listening
    /\ pc[w] = "idle"
    /\ ~Known(Home[c])
    /\ k \in Conns \ created
    /\ created' = created \cup {k}
    /\ owner' = [owner EXCEPT ![k] = c]
    /\ remoteAddr' = [remoteAddr EXCEPT ![k] = Home[c]]
    /\ pc' = [pc EXCEPT ![w] = "register"]
    /\ mine' = [mine EXCEPT ![w] = k]
    /\ job' = [job EXCEPT ![w] = <<c, Home[c]>>]
    /\ UNCHANGED <<tables, closed, inbox, accepts, clients, listening>>

(* The second critical section: another goroutine may have been faster.    *)
Register_ByAddress(w) ==
    /\ pc[w] = "register"
    /\ ~Known(job[w][2])
    /\ connMap' = [connMap EXCEPT ![job[w][2]] = mine[w]]
    /\ pc' = [pc EXCEPT ![w] = "setup"]
    /\ UNCHANGED <<connIDMap, conns, accepts, mine, job, clients, listening>>

Register_Unchecked(w) ==
    /\ pc[w] = "register"
    /\ connMap' = [connMap EXCEPT ![job[w][2]] = mine[w]]
    /\ connIDMap' = connIDMap \cup {mine[w]}
    /\ pc' = [pc EXCEPT ![w] = "setup"]
    /\ UNCHANGED <<conns, accepts, mine, job, clients, listening>>

Register(w) ==
    /\ pc[w] = "register"
    /\ LET c == job[w][1]
           a == job[w][2]
       IN  IF Known(a)
           THEN /\ Deliver(connMap[a], c)
                /\ pc' = [pc EXCEPT ![w] = "idle"]
                /\ UNCHANGED tables
           ELSE /\ connMap' = [connMap EXCEPT ![a] = mine[w]]
                /\ connIDMap' = connIDMap \cup {mine[w]}
                /\ pc' = [pc EXCEPT ![w] = "setup"]
                /\ UNCHANGED inbox
    /\ UNCHANGED <<created, owner, closed, remoteAddr, accepts, mine, job, clients,
                   listening>>

(* sendConnectionSetup, then handlePacket on the new connection.           *)
Setup(w) ==
    /\ pc[w] = "setup"
    /\ Deliver(mine[w], job[w][1])
    /\ dest' = [c \in Clients |-> IF c \in Aware /\ c = job[w][1] THEN mine[w] ELSE dest[c]]
    /\ pc' = [pc EXCEPT ![w] = "offer"]
    /\ UNCHANGED <<tables, created, owner, closed, remoteAddr, accepts, mine, job,
                   path, listening>>

HasRoom_Waiting == acceptCh = <<>>
HasRoom == Len(acceptCh) < AcceptCap

Offer(w) ==
    /\ pc[w] = "offer"
    /\ IF HasRoom
       THEN acceptCh' = Append(acceptCh, mine[w]) /\ UNCHANGED refused
       ELSE refused' = refused \cup {mine[w]} /\ UNCHANGED acceptCh
    /\ pc' = [pc EXCEPT ![w] = "idle"]
    /\ UNCHANGED <<tables, conns, accepted, mine, job, clients, listening>>

-----------------------------------------------------------------------------
(* Accept; once the listener is closed it may still return a connection.   *)
Accept ==
    /\ acceptCh # <<>>
    /\ acceptCh' = Tail(acceptCh)
    /\ accepted' = accepted \cup {Head(acceptCh)}
    /\ UNCHANGED <<tables, conns, refused, workers, clients, listening>>

(* A connection closes; its entries stay.  One that lost the race above    *)
(* sends nothing and hears nothing, and so never closes.                   *)
CloseConn(k) ==
    /\ MayClose
    /\ k \in connIDMap \ closed
    /\ closed' = closed \cup {k}
    /\ UNCHANGED <<tables, created, owner, remoteAddr, inbox, accepts, workers,
                   clients, listening>>

CloseListener ==
    /\ MayClose
    /\ listening
    /\ listening' = FALSE
    /\ UNCHANGED <<tables, conns, accepts, workers, clients>>

(* A client moves to an address nobody has used. *)
Move(c, a) ==
    /\ \A d \in Clients : a \notin path[d]
    /\ path' = [path EXCEPT ![c] = @ \cup {a}]
    /\ UNCHANGED <<tables, conns, accepts, workers, dest, listening>>

Dispatch(w) ==
    \/ \E c \in Clients, k \in Conns : NewConnection(w, c, k)
    \/ Register(w)
    \/ Setup(w)
    \/ Offer(w)

Next ==
    \/ \E c \in Clients, a \in Addrs : ByAddress(c, a) \/ ByConnID(c, a) \/ Move(c, a)
    \/ \E w \in Dispatchers : Dispatch(w)
    \/ Accept
    \/ \E k \in Conns : CloseConn(k)
    \/ CloseListener

Spec == Init /\ [][Next]_vars

-----------------------------------------------------------------------------
TypeOK ==
    /\ connMap \in [Addrs -> Conns \cup {NoConn}]
    /\ connIDMap \subseteq created /\ created \subseteq Conns /\ closed \subseteq connIDMap
    /\ owner \in [Conns -> Clients \cup {NoConn}]
    /\ remoteAddr \in [Conns -> Addrs \cup {NoConn}]
    /\ inbox \subseteq connIDMap \X Clients
    /\ acceptCh \in Seq(connIDMap)
    /\ accepted \subseteq connIDMap /\ refused \subseteq connIDMap
    /\ pc \in [Dispatchers -> {"idle", "register", "setup", "offer"}]
    /\ mine \in [Dispatchers -> Conns \cup {NoConn}]
    /\ path \in [Clients -> SUBSET Addrs]
    /\ dest \in [Clients -> Conns \cup {NoConn}]
    /\ listening \in BOOLEAN

(* Packets of a client are never split between two connections that are    *)
(* both open, although the several Initial packets of a handshake are      *)
(* dispatched at the same time (listener.go:267).  Not so once it has      *)
(* moved: an Initial packet that comes late from its first address is a    *)
(* new handshake.                                                          *)
NoSplit ==
    \A k, l \in created \ closed, c \in Clients :
        path[c] = {Home[c]} /\ <<k, c>> \in inbox /\ <<l, c>> \in inbox => k = l

(* The address table and the connections agree on where a connection is.   *)
MapsAgree ==
    \A a \in Addrs : Known(a) => remoteAddr[connMap[a]] = a

-----------------------------------------------------------------------------
(* Fairness: a goroutine that has made a connection goes on, the server    *)
(* keeps calling Accept until the listener closes (from then on its select *)
(* may prefer "done").                                                   *)
Fairness ==
    /\ \A w \in Dispatchers : WF_vars(Register(w) \/ Setup(w) \/ Offer(w))
    /\ WF_vars(listening /\ Accept)

FairSpec == Spec /\ Fairness

(* Whatever the goroutines do at the same time, each connection that is    *)
(* registered is handed out by Accept, as long as no more have been        *)
(* registered than acceptCh holds (listener.go:281).                       *)
Offered ==
    \A k \in Conns :
        (k \in connIDMap)
            ~> (k \in accepted \/ ~listening \/ Cardinality(connIDMap) > AcceptCap)
=============================================================================
