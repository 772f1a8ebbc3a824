--------------------------- MODULE ListenerProofs ---------------------------
(***************************************************************************)
(* Both ends of quic/listener.go.  The listener (Listener.tla), with any   *)
(* number of clients, addresses, connections and dispatching goroutines:   *)
(* packets of a client that stays where it is are not split between two    *)
(* open connections, and the address table agrees with the connections.    *)
(*                                                                         *)
(* DialHappy (Dial.tla), for any number of addresses: its channel has room *)
(* for every result, no connection is lost from sight, and what it returns *)
(* is a connection that has responded, or an error after all have failed.  *)
(***************************************************************************)
EXTENDS Listener, Dial, FiniteSetTheorems, SequenceTheorems, TLAPS

Jobs == Clients \X Addrs

Types ==
    /\ TypeOK
    /\ job \in [Dispatchers -> Jobs \cup {<<>>}]
    /\ \A w \in Dispatchers : pc[w] # "idle" => job[w] \in Jobs

(* Clients share no address. *)
Paths ==
    /\ \A c \in Clients : Home[c] \in path[c]
    /\ \A c, d \in Clients : \A a \in path[c] : a \in path[d] => c = d

(* A connection is found at, hears and is addressed by its own client.     *)
Owners ==
    /\ \A k \in created : owner[k] \in Clients /\ remoteAddr[k] \in path[owner[k]]
    /\ \A k \in connIDMap, c \in Clients : <<k, c>> \in inbox => owner[k] = c
    /\ \A c \in Clients : dest[c] # NoConn => dest[c] \in connIDMap /\ owner[dest[c]] = c

(* A connection between the two critical sections is its goroutine's alone *)
(* and nobody can have moved it.                                           *)
Workers ==
    /\ \A w \in Dispatchers :
          pc[w] = "register" => /\ mine[w] \in created \ connIDMap
                                /\ owner[mine[w]] = job[w][1]
                                /\ job[w][2] = Home[job[w][1]]
                                /\ remoteAddr[mine[w]] = job[w][2]
    /\ \A w \in Dispatchers :
          pc[w] \in {"setup", "offer"} => mine[w] \in connIDMap /\ owner[mine[w]] = job[w][1]
    /\ \A v, w \in Dispatchers :
          pc[v] = "register" /\ pc[w] = "register" /\ mine[v] = mine[w] => v = w

(* An open connection that is registered has the entry of its address, and *)
(* no other.                                                               *)
Located ==
    /\ \A a \in Addrs : connMap[a] # NoConn => connMap[a] \in connIDMap
    /\ \A k \in connIDMap \ closed : connMap[remoteAddr[k]] = k
    /\ \A a \in Addrs : connMap[a] # NoConn /\ connMap[a] \notin closed => remoteAddr[connMap[a]] = a

Inv == Types /\ Paths /\ Owners /\ Workers /\ Located

-----------------------------------------------------------------------------
(* What the properties need of the invariant.                              *)
LEMMA InvAgree == Inv => MapsAgree
BY DEF Inv, Located, MapsAgree, Known, Open

LEMMA InvNoSplit == Inv => NoSplit
<1> SUFFICES ASSUME Inv, NEW k \in created \ closed, NEW l \in created \ closed, NEW c \in Clients,
                    path[c] = {Home[c]}, <<k, c>> \in inbox, <<l, c>> \in inbox
             PROVE  k = l
  BY DEF NoSplit
<1>1. k \in connIDMap /\ l \in connIDMap
  BY DEF Inv, Types, TypeOK
<1>2. owner[k] = c /\ owner[l] = c
  BY <1>1 DEF Inv, Owners
<1>3. remoteAddr[k] = Home[c] /\ remoteAddr[l] = Home[c]
  BY <1>2 DEF Inv, Owners
<1> QED BY <1>1, <1>3 DEF Inv, Located

LEMMA InvInit == Init => Inv
<1> SUFFICES ASSUME Init PROVE Inv
  OBVIOUS
<1> USE ConstantsAssumption
<1>1. Types
  <2>1. acceptCh \in Seq(connIDMap)
    BY EmptySeq DEF Init
  <2>2. /\ owner \in [Conns -> Clients \cup {NoConn}]
        /\ remoteAddr \in [Conns -> Addrs \cup {NoConn}]
        /\ connMap \in [Addrs -> Conns \cup {NoConn}]
        /\ pc \in [Dispatchers -> {"idle", "register", "setup", "offer"}]
        /\ mine \in [Dispatchers -> Conns \cup {NoConn}]
        /\ path \in [Clients -> SUBSET Addrs]
        /\ dest \in [Clients -> Conns \cup {NoConn}]
        /\ job \in [Dispatchers -> Jobs \cup {<<>>}]
    BY DEF Init
  <2> QED BY <2>1, <2>2 DEF Init, Types, TypeOK
<1>2. Paths
  BY DEF Init, Paths
<1>3. Owners /\ Workers /\ Located
  BY DEF Init, Owners, Workers, Located
<1> QED BY <1>1, <1>2, <1>3 DEF Inv

-----------------------------------------------------------------------------
LEMMA DeliverType ==
  ASSUME TypeOK, NEW k \in connIDMap, NEW c \in Clients, Deliver(k, c)
  PROVE  inbox' \subseteq connIDMap \X Clients
BY DEF TypeOK, Deliver

(* A packet handed to a connection at a known address is its client's.     *)
LEMMA DeliverKeepsOwners ==
  ASSUME Inv, NEW k \in connIDMap, NEW c \in Clients, Deliver(k, c), owner[k] = c
  PROVE  \A l \in connIDMap, d \in Clients : <<l, d>> \in inbox' => owner[l] = d
BY DEF Inv, Owners, Deliver

LEMMA ByAddressKeepsInv ==
  ASSUME Inv, NEW c \in Clients, NEW a \in Addrs, ByAddress(c, a)
  PROVE  Inv'
<1> DEFINE k == connMap[a]
<1>1. k \in connIDMap /\ k \in created /\ remoteAddr[k] = a
  BY DEF ByAddress, Known, Open, Inv, Located
<1>2. owner[k] = c
  <2>1. owner[k] \in Clients /\ a \in path[owner[k]] /\ a \in path[c]
    BY <1>1 DEF Inv, Owners, ByAddress
  <2> QED BY <2>1 DEF Inv, Paths
<1>3. Deliver(k, c)
  BY DEF ByAddress
<1> HIDE DEF k
<1>4. inbox' \subseteq connIDMap \X Clients
  BY <1>1, <1>3, DeliverType DEF Inv, Types
<1>5. \A l \in connIDMap, d \in Clients : <<l, d>> \in inbox' => owner[l] = d
  BY <1>1, <1>2, <1>3, DeliverKeepsOwners
<1>6. UNCHANGED <<tables, created, owner, closed, remoteAddr, accepts, workers, clients, listening>>
  BY DEF ByAddress
<1>7. Types'
  BY <1>4, <1>6 DEF Inv, Types, TypeOK, tables, accepts, workers, clients
<1>8. Owners'
  BY <1>5, <1>6 DEF Inv, Owners, tables, clients
<1>9. Paths' /\ Workers' /\ Located'
  BY <1>6 DEF Inv, Paths, Workers, Located, tables, workers, clients
<1> QED BY <1>7, <1>8, <1>9 DEF Inv

(* A connection that is moved leaves the entry of its old address and      *)
(* takes that of the new one, where no open connection is.                 *)
LEMMA ByConnIDKeepsInv ==
  ASSUME Inv, NEW c \in Clients, NEW a \in Addrs, ByConnID(c, a)
  PROVE  Inv'
<1> DEFINE k == dest[c]
           b == remoteAddr[k]
<1>1. NoConn \notin Conns /\ connIDMap \subseteq created /\ created \subseteq Conns
  BY ConstantsAssumption DEF Inv, Types, TypeOK
<1>2. k \in connIDMap /\ k \in created /\ k \notin closed /\ k \in Conns /\ k # NoConn
  BY <1>1 DEF ByConnID, Open
<1>3. owner[k] = c
  BY <1>2 DEF Inv, Owners
<1>4. /\ Deliver(k, c) /\ a \in path[c] /\ ~Known(a)
      /\ connMap' = IF b # a THEN [connMap EXCEPT ![b] = NoConn, ![a] = k] ELSE connMap
      /\ remoteAddr' = [remoteAddr EXCEPT ![k] = a]
      /\ UNCHANGED <<connIDMap, created, owner, closed, accepts, workers, clients, listening>>
  BY DEF ByConnID, Rebind
<1>5. connMap \in [Addrs -> Conns \cup {NoConn}] /\ remoteAddr \in [Conns -> Addrs \cup {NoConn}]
  BY DEF Inv, Types, TypeOK
<1>6. b \in Addrs /\ connMap[b] = k
  <2>1. b \in path[owner[k]] /\ owner[k] \in Clients
    BY <1>2 DEF Inv, Owners
  <2>2. path[owner[k]] \subseteq Addrs
    BY <2>1 DEF Inv, Types, TypeOK
  <2> QED BY <1>2, <2>1, <2>2 DEF Inv, Located
<1>7. b # a
  BY <1>2, <1>4, <1>6 DEF Known, Open
<1> HIDE DEF k, b
<1>8. connMap' = [connMap EXCEPT ![b] = NoConn, ![a] = k]
  BY <1>4, <1>7
<1>9. /\ connMap'[a] = k /\ connMap'[b] = NoConn
      /\ \A x \in Addrs : x # a /\ x # b => connMap'[x] = connMap[x]
  BY <1>5, <1>6, <1>7, <1>8
<1>10. remoteAddr'[k] = a /\ \A l \in Conns : l # k => remoteAddr'[l] = remoteAddr[l]
  BY <1>2, <1>4, <1>5
<1>11. connMap[a] = NoConn \/ connMap[a] \in closed
  BY <1>1, <1>4 DEF Known, Open, Inv, Located
<1>12. Types'
  <2>1. connMap' \in [Addrs -> Conns \cup {NoConn}]
    BY <1>2, <1>5, <1>8
  <2>2. remoteAddr' \in [Conns -> Addrs \cup {NoConn}]
    BY <1>4, <1>5
  <2>3. inbox' \subseteq connIDMap \X Clients
    BY <1>2, <1>4, DeliverType DEF Inv, Types
  <2> QED BY <1>4, <2>1, <2>2, <2>3 DEF Inv, Types, TypeOK, accepts, workers, clients
<1>13. Paths'
  BY <1>4 DEF Inv, Paths, clients
<1>14. Owners'
  <2>1. \A l \in connIDMap, d \in Clients : <<l, d>> \in inbox' => owner[l] = d
    BY <1>2, <1>3, <1>4, DeliverKeepsOwners
  <2>2. ASSUME NEW l \in created PROVE owner[l] \in Clients /\ remoteAddr'[l] \in path[owner[l]]
    <3>1. CASE l = k
      BY <1>3, <1>4, <1>10, <3>1
    <3>2. CASE l # k
      BY <1>1, <1>10, <3>2 DEF Inv, Owners
    <3> QED BY <3>1, <3>2
  <2> QED BY <1>4, <2>1, <2>2 DEF Inv, Owners, clients
<1>15. Workers'
  <2>1. ASSUME NEW w \in Dispatchers, pc[w] = "register" PROVE remoteAddr'[mine[w]] = remoteAddr[mine[w]]
    <3>1. mine[w] \in created \ connIDMap
      BY <2>1 DEF Inv, Workers
    <3> QED BY <1>1, <1>2, <1>10, <3>1
  <2> QED BY <1>4, <2>1 DEF Inv, Workers, workers
<1>16. Located'
  <2>1. \A x \in Addrs : connMap'[x] # NoConn => connMap'[x] \in connIDMap
    BY <1>2, <1>9 DEF Inv, Located
  <2>2. ASSUME NEW l \in connIDMap \ closed PROVE connMap'[remoteAddr'[l]] = l
    <3>1. CASE l = k
      BY <1>9, <1>10, <3>1
    <3>2. CASE l # k
      <4>1. l \in Conns /\ remoteAddr'[l] = remoteAddr[l] /\ connMap[remoteAddr[l]] = l /\ l # NoConn
        BY <1>1, <1>10, <3>2 DEF Inv, Located
      <4>2. remoteAddr[l] # a /\ remoteAddr[l] # b
        BY <1>6, <1>11, <3>2, <4>1
      <4>3. remoteAddr[l] \in Addrs
        <5>1. remoteAddr[l] \in path[owner[l]] /\ owner[l] \in Clients
          BY <1>1 DEF Inv, Owners
        <5> QED BY <5>1 DEF Inv, Types, TypeOK
      <4> QED BY <1>9, <4>1, <4>2, <4>3
    <3> QED BY <3>1, <3>2
  <2>3. ASSUME NEW x \in Addrs, connMap'[x] # NoConn, connMap'[x] \notin closed
        PROVE  remoteAddr'[connMap'[x]] = x
    <3>1. CASE x = a
      BY <1>9, <1>10, <3>1
    <3>2. CASE x # a
      <4>1. x # b /\ connMap'[x] = connMap[x]
        BY <1>9, <2>3, <3>2
      <4>2. remoteAddr[connMap[x]] = x /\ connMap[x] \in Conns
        BY <1>1, <2>3, <4>1 DEF Inv, Located
      <4>3. connMap[x] # k
        BY <4>1, <4>2 DEF b
      <4> QED BY <1>10, <4>1, <4>2, <4>3
    <3> QED BY <3>1, <3>2
  <2> QED BY <1>4, <2>1, <2>2, <2>3 DEF Located
<1> QED BY <1>12, <1>13, <1>14, <1>15, <1>16 DEF Inv

(* A new connection is in no table and no inbox. *)
LEMMA NewConnectionKeepsInv ==
  ASSUME Inv, NEW w \in Dispatchers, NEW c \in Clients, NEW k \in Conns, NewConnection(w, c, k)
  PROVE  Inv'
<1>1. /\ NoConn \notin Conns /\ connIDMap \subseteq created /\ created \subseteq Conns
      /\ Home[c] \in Addrs /\ k # NoConn
  BY ConstantsAssumption DEF Inv, Types, TypeOK
<1>2. /\ k \notin created /\ created' = created \cup {k}
      /\ owner' = [owner EXCEPT ![k] = c]
      /\ remoteAddr' = [remoteAddr EXCEPT ![k] = Home[c]]
      /\ pc[w] = "idle" /\ pc' = [pc EXCEPT ![w] = "register"]
      /\ mine' = [mine EXCEPT ![w] = k]
      /\ job' = [job EXCEPT ![w] = <<c, Home[c]>>]
      /\ UNCHANGED <<tables, closed, inbox, accepts, clients, listening>>
  BY DEF NewConnection
<1>3. /\ owner \in [Conns -> Clients \cup {NoConn}] /\ remoteAddr \in [Conns -> Addrs \cup {NoConn}]
      /\ pc \in [Dispatchers -> {"idle", "register", "setup", "offer"}]
      /\ mine \in [Dispatchers -> Conns \cup {NoConn}]
      /\ job \in [Dispatchers -> Jobs \cup {<<>>}]
  BY DEF Inv, Types, TypeOK
<1>4. /\ owner'[k] = c /\ remoteAddr'[k] = Home[c]
      /\ \A l \in Conns : l # k => owner'[l] = owner[l] /\ remoteAddr'[l] = remoteAddr[l]
  BY <1>2, <1>3
<1>5. /\ pc'[w] = "register" /\ mine'[w] = k
      /\ \A v \in Dispatchers : v # w => pc'[v] = pc[v] /\ mine'[v] = mine[v]
  BY <1>2, <1>3
<1>6. \A v \in Dispatchers : v # w /\ pc[v] # "idle" => job'[v] = job[v]
  BY <1>2, <1>3
<1>7. job'[w] = <<c, Home[c]>>
  BY <1>2, <1>3
<1>8. Types'
  <2>1. <<c, Home[c]>> \in Jobs
    BY <1>1 DEF Jobs
  <2>2. /\ owner' \in [Conns -> Clients \cup {NoConn}] /\ remoteAddr' \in [Conns -> Addrs \cup {NoConn}]
        /\ pc' \in [Dispatchers -> {"idle", "register", "setup", "offer"}]
        /\ mine' \in [Dispatchers -> Conns \cup {NoConn}]
    BY <1>1, <1>2, <1>3
  <2>3. TypeOK'
    BY <1>1, <1>2, <2>2 DEF Inv, Types, TypeOK, tables, accepts, clients
  <2>4. \A v \in Dispatchers : pc'[v] # "idle" => job'[v] \in Jobs
    <3>1. ASSUME NEW v \in Dispatchers, v # w, pc'[v] # "idle" PROVE job'[v] \in Jobs
      BY <1>5, <1>6, <3>1 DEF Inv, Types
    <3> QED BY <1>7, <2>1, <3>1
  <2>5. job' \in [Dispatchers -> Jobs \cup {<<>>}]
    BY <1>2, <1>3, <2>1
  <2> QED BY <2>3, <2>4, <2>5 DEF Types
<1>9. Paths'
  BY <1>2 DEF Inv, Paths, clients
<1>10. Owners'
  <2>1. \A l \in created' : owner'[l] \in Clients /\ remoteAddr'[l] \in path[owner'[l]]
    BY <1>1, <1>2, <1>4 DEF Inv, Owners, Paths
  <2>2. \A l \in connIDMap : l \in Conns /\ l # k
    BY <1>1, <1>2
  <2>3. \A l \in connIDMap : owner'[l] = owner[l]
    BY <1>4, <2>2
  <2> QED BY <1>2, <2>1, <2>3 DEF Inv, Owners, tables, clients
<1>11. Workers'
  <2>1. ASSUME NEW v \in Dispatchers, v # w, pc[v] = "register"
        PROVE  /\ mine[v] \in created \ connIDMap /\ mine[v] # k /\ mine[v] \in Conns
               /\ owner'[mine[v]] = owner[mine[v]] /\ remoteAddr'[mine[v]] = remoteAddr[mine[v]]
    BY <1>1, <1>2, <1>4, <2>1 DEF Inv, Workers
  <2>2. ASSUME NEW v \in Dispatchers, v # w, pc[v] \in {"setup", "offer"}
        PROVE  mine[v] \in connIDMap /\ owner'[mine[v]] = job[v][1]
    BY <1>1, <1>2, <1>4, <2>2 DEF Inv, Workers
  <2>3. \A v \in Dispatchers :
          pc'[v] = "register" => /\ mine'[v] \in created' \ connIDMap
                                 /\ owner'[mine'[v]] = job'[v][1]
                                 /\ job'[v][2] = Home[job'[v][1]]
                                 /\ remoteAddr'[mine'[v]] = job'[v][2]
    <3> TAKE v \in Dispatchers
    <3>1. CASE v = w
      BY <1>1, <1>2, <1>4, <1>5, <1>7, <3>1
    <3>2. CASE v # w
      BY <1>2, <1>5, <1>6, <2>1, <3>2 DEF Inv, Workers
    <3> QED BY <3>1, <3>2
  <2>4. \A v \in Dispatchers :
          pc'[v] \in {"setup", "offer"} => mine'[v] \in connIDMap /\ owner'[mine'[v]] = job'[v][1]
    BY <1>5, <1>6, <2>2
  <2>5. \A u, v \in Dispatchers :
          pc'[u] = "register" /\ pc'[v] = "register" /\ mine'[u] = mine'[v] => u = v
    BY <1>5, <2>1 DEF Inv, Workers
  <2> QED BY <1>2, <2>3, <2>4, <2>5 DEF Workers, tables
<1>12. Located'
  <2>1. \A l \in connIDMap : l \in Conns /\ l # k
    BY <1>1, <1>2
  <2>2. \A l \in connIDMap : remoteAddr'[l] = remoteAddr[l]
    BY <1>4, <2>1
  <2> QED BY <1>2, <2>2 DEF Inv, Located, tables
<1> QED BY <1>8, <1>9, <1>10, <1>11, <1>12 DEF Inv

(* The steps of a goroutine that leave the tables alone. *)
LEMMA WorkerDone ==
  ASSUME Inv, NEW w \in Dispatchers, NEW to \in {"idle", "offer"},
         to = "offer" => pc[w] = "setup",
         pc' = [pc EXCEPT ![w] = to],
         UNCHANGED <<tables, created, owner, remoteAddr, mine, job>>
  PROVE  Workers'
<1>1. pc \in [Dispatchers -> {"idle", "register", "setup", "offer"}]
  BY DEF Inv, Types, TypeOK
<1>2. pc'[w] = to /\ \A v \in Dispatchers : v # w => pc'[v] = pc[v]
  BY <1>1
<1> QED BY <1>2 DEF Inv, Workers, tables

(* Registering: at an address where no open connection is.                 *)
LEMMA RegisterKeepsInv ==
  ASSUME Inv, NEW w \in Dispatchers, Register(w)
  PROVE  Inv'
<1> DEFINE c == job[w][1]
           a == job[w][2]
           k == mine[w]
<1>1. NoConn \notin Conns /\ connIDMap \subseteq created /\ created \subseteq Conns
  BY ConstantsAssumption DEF Inv, Types, TypeOK
<1>2. /\ pc[w] = "register" /\ c \in Clients /\ a \in Addrs
      /\ k \in created \ connIDMap /\ owner[k] = c /\ a = Home[c] /\ remoteAddr[k] = a
      /\ k \in Conns /\ k # NoConn
  <2>1. pc[w] = "register" /\ job[w] \in Jobs
    BY DEF Register, Inv, Types
  <2> QED BY <1>1, <2>1 DEF Jobs, Inv, Workers
<1>3. /\ IF Known(a)
         THEN Deliver(connMap[a], c) /\ pc' = [pc EXCEPT ![w] = "idle"] /\ UNCHANGED tables
         ELSE /\ connMap' = [connMap EXCEPT ![a] = k]
              /\ connIDMap' = connIDMap \cup {k}
              /\ pc' = [pc EXCEPT ![w] = "setup"] /\ UNCHANGED inbox
      /\ UNCHANGED <<created, owner, closed, remoteAddr, accepts, mine, job, clients, listening>>
  BY DEF Register
<1>4. /\ connMap \in [Addrs -> Conns \cup {NoConn}]
      /\ pc \in [Dispatchers -> {"idle", "register", "setup", "offer"}]
  BY DEF Inv, Types, TypeOK
<1> HIDE DEF c, a, k
<1>5. Paths'
  BY <1>3 DEF Inv, Paths, clients
<1>6. CASE Known(a)
  <2> DEFINE l == connMap[a]
  <2>1. /\ Deliver(l, c) /\ pc' = [pc EXCEPT ![w] = "idle"]
        /\ UNCHANGED <<tables, created, owner, closed, remoteAddr, accepts, mine, job, clients, listening>>
    BY <1>3, <1>6
  <2>2. l \in connIDMap /\ l \in created /\ remoteAddr[l] = a
    BY <1>2, <1>6 DEF Known, Open, Inv, Located
  <2>3. owner[l] = c
    <3>1. owner[l] \in Clients /\ a \in path[owner[l]] /\ a \in path[c]
      BY <1>2, <2>2 DEF Inv, Owners, Paths
    <3> QED BY <1>2, <3>1 DEF Inv, Paths
  <2> HIDE DEF l
  <2>4. Types'
    <3>1. inbox' \subseteq connIDMap \X Clients
      BY <1>2, <2>1, <2>2, DeliverType DEF Inv, Types
    <3>2. pc' \in [Dispatchers -> {"idle", "register", "setup", "offer"}]
      BY <1>4, <2>1
    <3>3. \A v \in Dispatchers : pc'[v] # "idle" => pc[v] # "idle"
      BY <1>4, <2>1
    <3> QED BY <2>1, <3>1, <3>2, <3>3 DEF Inv, Types, TypeOK, tables, accepts, clients
  <2>5. Owners'
    <3>1. \A m \in connIDMap, d \in Clients : <<m, d>> \in inbox' => owner[m] = d
      BY <1>2, <2>1, <2>2, <2>3, DeliverKeepsOwners
    <3> QED BY <2>1, <3>1 DEF Inv, Owners, tables, clients
  <2>6. Workers'
    BY <2>1, WorkerDone
  <2>7. Located'
    BY <2>1 DEF Inv, Located, tables
  <2> QED BY <1>5, <2>4, <2>5, <2>6, <2>7 DEF Inv
<1>7. CASE ~Known(a)
  <2>1. /\ connMap' = [connMap EXCEPT ![a] = k] /\ connIDMap' = connIDMap \cup {k}
        /\ pc' = [pc EXCEPT ![w] = "setup"]
        /\ UNCHANGED <<conns, accepts, mine, job, clients, listening>>
    BY <1>3, <1>7 DEF conns
  <2>2. connMap'[a] = k /\ \A x \in Addrs : x # a => connMap'[x] = connMap[x]
    BY <1>2, <1>4, <2>1
  <2>3. pc'[w] = "setup" /\ \A v \in Dispatchers : v # w => pc'[v] = pc[v]
    BY <1>4, <2>1
  <2>4. connMap[a] = NoConn \/ connMap[a] \in closed
    BY <1>1, <1>2, <1>7 DEF Known, Open, Inv, Located
  <2>5. Types'
    <3>1. connMap' \in [Addrs -> Conns \cup {NoConn}] /\ pc' \in [Dispatchers -> {"idle", "register", "setup", "offer"}]
      BY <1>2, <1>4, <2>1
    <3>2. /\ connIDMap' \subseteq created /\ closed \subseteq connIDMap'
          /\ inbox \subseteq connIDMap' \X Clients
          /\ accepted \subseteq connIDMap' /\ refused \subseteq connIDMap'
      BY <1>2, <2>1 DEF Inv, Types, TypeOK
    <3>3. acceptCh \in Seq(connIDMap')
      <4>1. acceptCh \in Seq(connIDMap)
        BY DEF Inv, Types, TypeOK
      <4>2. acceptCh \in [1 .. Len(acceptCh) -> connIDMap] /\ Len(acceptCh) \in Nat
        BY <4>1, LenProperties
      <4>3. acceptCh \in [1 .. Len(acceptCh) -> connIDMap']
        BY <2>1, <4>2
      <4> QED BY <4>2, <4>3, IsASeq
    <3>4. \A v \in Dispatchers : pc'[v] # "idle" => job[v] \in Jobs
      BY <1>2, <2>3 DEF Inv, Types
    <3> QED BY <2>1, <3>1, <3>2, <3>3, <3>4 DEF Inv, Types, TypeOK, conns, accepts, clients
  <2>6. Owners'
    <3>1. \A d \in Clients : <<k, d>> \notin inbox
      BY <1>2 DEF Inv, Types, TypeOK
    <3> QED BY <2>1, <3>1 DEF Inv, Owners, conns, clients
  <2>7. Workers'
    <3>1. \A v \in Dispatchers : pc'[v] = "register" => v # w /\ pc[v] = "register"
      BY <2>3
    <3>2. \A v \in Dispatchers : pc'[v] = "register" => mine[v] # k
      BY <1>2, <3>1 DEF Inv, Workers, k
    <3>3. \A v \in Dispatchers :
            pc'[v] \in {"setup", "offer"} => mine[v] \in connIDMap' /\ owner[mine[v]] = job[v][1]
      <4> TAKE v \in Dispatchers
      <4>1. CASE v = w
        BY <1>2, <2>1, <4>1 DEF k, c
      <4>2. CASE v # w
        BY <2>1, <2>3, <4>2 DEF Inv, Workers
      <4> QED BY <4>1, <4>2
    <3> QED BY <2>1, <3>1, <3>2, <3>3 DEF Inv, Workers, conns
  <2>8. Located'
    <3>1. \A x \in Addrs : connMap'[x] # NoConn => connMap'[x] \in connIDMap'
      BY <2>1, <2>2 DEF Inv, Located
    <3>2. ASSUME NEW l \in connIDMap' \ closed PROVE connMap'[remoteAddr[l]] = l
      <4>1. CASE l = k
        BY <1>2, <2>2, <4>1
      <4>2. CASE l # k
        <5>1. l \in connIDMap \ closed
          BY <2>1, <3>2, <4>2
        <5>2. l \in Conns /\ connMap[remoteAddr[l]] = l /\ l # NoConn
          BY <1>1, <5>1 DEF Inv, Located
        <5>3. remoteAddr[l] # a
          BY <2>4, <5>1, <5>2
        <5>4. remoteAddr[l] \in Addrs
          <6>1. remoteAddr[l] \in path[owner[l]] /\ owner[l] \in Clients
            BY <1>1, <5>1 DEF Inv, Owners
          <6> QED BY <6>1 DEF Inv, Types, TypeOK
        <5> QED BY <2>2, <5>2, <5>3, <5>4
      <4> QED BY <4>1, <4>2
    <3>3. \A x \in Addrs : connMap'[x] # NoConn /\ connMap'[x] \notin closed => remoteAddr[connMap'[x]] = x
      BY <1>2, <2>2 DEF Inv, Located
    <3> QED BY <2>1, <3>1, <3>2, <3>3 DEF Located, conns
  <2> QED BY <1>5, <2>5, <2>6, <2>7, <2>8 DEF Inv
<1> QED BY <1>6, <1>7

LEMMA SetupKeepsInv ==
  ASSUME Inv, NEW w \in Dispatchers, Setup(w)
  PROVE  Inv'
<1> DEFINE k == mine[w]
           c == job[w][1]
<1>1. NoConn \notin Conns /\ connIDMap \subseteq created /\ created \subseteq Conns
  BY ConstantsAssumption DEF Inv, Types, TypeOK
<1>2. pc[w] = "setup" /\ k \in connIDMap /\ owner[k] = c /\ c \in Clients /\ k \in Conns
  <2>1. pc[w] = "setup" /\ job[w] \in Jobs
    BY DEF Setup, Inv, Types
  <2> QED BY <1>1, <2>1 DEF Jobs, Inv, Workers
<1>3. /\ Deliver(k, c)
      /\ dest' = [d \in Clients |-> IF d \in Aware /\ d = c THEN k ELSE dest[d]]
      /\ pc' = [pc EXCEPT ![w] = "offer"]
      /\ UNCHANGED <<tables, created, owner, closed, remoteAddr, accepts, mine, job, path, listening>>
  BY DEF Setup
<1> HIDE DEF k, c
<1>4. Types'
  <2>1. inbox' \subseteq connIDMap \X Clients
    BY <1>2, <1>3, DeliverType DEF Inv, Types
  <2>2. pc \in [Dispatchers -> {"idle", "register", "setup", "offer"}]
    BY DEF Inv, Types, TypeOK
  <2>3. /\ pc' \in [Dispatchers -> {"idle", "register", "setup", "offer"}]
        /\ \A v \in Dispatchers : pc'[v] # "idle" => pc[v] # "idle"
    BY <1>2, <1>3, <2>2
  <2>4. dest' \in [Clients -> Conns \cup {NoConn}]
    BY <1>2, <1>3 DEF Inv, Types, TypeOK
  <2> QED BY <1>3, <2>1, <2>3, <2>4 DEF Inv, Types, TypeOK, tables, accepts
<1>5. Owners'
  <2>1. \A m \in connIDMap, d \in Clients : <<m, d>> \in inbox' => owner[m] = d
    BY <1>2, <1>3, DeliverKeepsOwners
  <2>2. \A d \in Clients : dest'[d] # NoConn => dest'[d] \in connIDMap /\ owner[dest'[d]] = d
    BY <1>2, <1>3 DEF Inv, Owners
  <2> QED BY <1>3, <2>1, <2>2 DEF Inv, Owners, tables
<1>6. Workers'
  BY <1>2, <1>3, WorkerDone
<1>7. Paths' /\ Located'
  BY <1>3 DEF Inv, Paths, Located, tables
<1> QED BY <1>4, <1>5, <1>6, <1>7 DEF Inv

LEMMA OfferKeepsInv ==
  ASSUME Inv, NEW w \in Dispatchers, Offer(w)
  PROVE  Inv'
<1> DEFINE k == mine[w]
<1>1. /\ pc[w] = "offer" /\ pc' = [pc EXCEPT ![w] = "idle"]
      /\ \/ acceptCh' = Append(acceptCh, k) /\ UNCHANGED refused
         \/ refused' = refused \cup {k} /\ UNCHANGED acceptCh
      /\ UNCHANGED <<tables, conns, accepted, mine, job, clients, listening>>
  BY DEF Offer
<1>2. k \in connIDMap
  BY <1>1 DEF Inv, Workers
<1> HIDE DEF k
<1>3. acceptCh' \in Seq(connIDMap) /\ refused' \subseteq connIDMap
  <2>1. acceptCh \in Seq(connIDMap) /\ refused \subseteq connIDMap
    BY DEF Inv, Types, TypeOK
  <2>2. Append(acceptCh, k) \in Seq(connIDMap)
    BY <1>2, <2>1, AppendProperties
  <2> QED BY <1>1, <1>2, <2>1, <2>2
<1>4. pc \in [Dispatchers -> {"idle", "register", "setup", "offer"}]
  BY DEF Inv, Types, TypeOK
<1>5. /\ pc' \in [Dispatchers -> {"idle", "register", "setup", "offer"}]
      /\ \A v \in Dispatchers : pc'[v] # "idle" => pc[v] # "idle"
  BY <1>1, <1>4
<1>6. Types'
  BY <1>1, <1>3, <1>5 DEF Inv, Types, TypeOK, tables, conns, clients
<1>7. Workers'
  BY <1>1, WorkerDone DEF conns
<1>8. Paths' /\ Owners' /\ Located'
  BY <1>1 DEF Inv, Paths, Owners, Located, tables, conns, clients
<1> QED BY <1>6, <1>7, <1>8 DEF Inv

(* The server, and a client that moves to an address nobody has used.      *)
LEMMA ServerKeepsInv ==
  ASSUME Inv, Accept \/ CloseListener \/ \E k \in Conns : CloseConn(k)
  PROVE  Inv'
<1>1. CASE Accept
  <2>1. acceptCh \in Seq(connIDMap) /\ acceptCh # <<>>
    BY <1>1 DEF Accept, Inv, Types, TypeOK
  <2>2. Head(acceptCh) \in connIDMap /\ Tail(acceptCh) \in Seq(connIDMap)
    BY <2>1, HeadTailProperties
  <2>3. acceptCh' \in Seq(connIDMap) /\ accepted' \subseteq connIDMap
    BY <1>1, <2>2 DEF Accept, Inv, Types, TypeOK
  <2>4. UNCHANGED <<tables, conns, refused, workers, clients, listening>>
    BY <1>1 DEF Accept
  <2>5. Types'
    BY <2>3, <2>4 DEF Inv, Types, TypeOK, tables, conns, workers, clients
  <2> QED BY <2>4, <2>5 DEF Inv, Paths, Owners, Workers, Located, tables, conns, workers, clients
<1>2. CASE CloseListener
  <2>1. UNCHANGED <<tables, conns, accepts, workers, clients>> /\ listening' = FALSE
    BY <1>2 DEF CloseListener
  <2>2. Types'
    BY <2>1 DEF Inv, Types, TypeOK, tables, conns, accepts, workers, clients
  <2> QED BY <2>1, <2>2 DEF Inv, Paths, Owners, Workers, Located, tables, conns, workers, clients
<1>3. ASSUME NEW k \in Conns, CloseConn(k) PROVE Inv'
  <2>1. /\ closed' = closed \cup {k} /\ k \in connIDMap
        /\ UNCHANGED <<tables, created, owner, remoteAddr, inbox, accepts, workers, clients, listening>>
    BY <1>3 DEF CloseConn
  <2>2. Types'
    BY <2>1 DEF Inv, Types, TypeOK, tables, accepts, workers, clients
  <2> QED BY <2>1, <2>2 DEF Inv, Paths, Owners, Workers, Located, tables, workers, clients
<1> QED BY <1>1, <1>2, <1>3

LEMMA MoveKeepsInv ==
  ASSUME Inv, NEW c \in Clients, NEW a \in Addrs, Move(c, a)
  PROVE  Inv'
<1>1. /\ \A d \in Clients : a \notin path[d]
      /\ path' = [path EXCEPT ![c] = @ \cup {a}]
      /\ UNCHANGED <<tables, conns, accepts, workers, dest, listening>>
  BY DEF Move
<1>2. path \in [Clients -> SUBSET Addrs]
  BY DEF Inv, Types, TypeOK
<1>3. /\ path'[c] = path[c] \cup {a}
      /\ \A d \in Clients : d # c => path'[d] = path[d]
  BY <1>1, <1>2
<1>4. Types'
  <2>1. path' \in [Clients -> SUBSET Addrs]
    BY <1>1, <1>2
  <2> QED BY <1>1, <2>1 DEF Inv, Types, TypeOK, tables, conns, accepts, workers
<1>5. Paths'
  <2>1. \A d, e \in Clients : \A x \in path'[d] : x \in path'[e] => d = e
    BY <1>1, <1>3 DEF Inv, Paths
  <2> QED BY <1>3, <2>1 DEF Inv, Paths
<1>6. Owners'
  <2>1. \A k \in created : remoteAddr[k] \in path'[owner[k]]
    BY <1>3 DEF Inv, Owners
  <2> QED BY <1>1, <2>1 DEF Inv, Owners, tables, conns
<1>7. Workers' /\ Located'
  BY <1>1 DEF Inv, Workers, Located, tables, conns, workers
<1> QED BY <1>4, <1>5, <1>6, <1>7 DEF Inv

(* Every step keeps the invariant.                                         *)
THEOREM InvInductive == Inv /\ [Next]_vars => Inv'
<1> SUFFICES ASSUME Inv, [Next]_vars PROVE Inv'
  OBVIOUS
<1>1. ASSUME NEW c \in Clients, NEW a \in Addrs, ByAddress(c, a) \/ ByConnID(c, a) \/ Move(c, a)
      PROVE  Inv'
  BY <1>1, ByAddressKeepsInv, ByConnIDKeepsInv, MoveKeepsInv
<1>2. ASSUME NEW w \in Dispatchers, Dispatch(w)
      PROVE  Inv'
  BY <1>2, NewConnectionKeepsInv, RegisterKeepsInv, SetupKeepsInv, OfferKeepsInv DEF Dispatch
<1>3. CASE Accept \/ CloseListener \/ \E k \in Conns : CloseConn(k)
  BY <1>3, ServerKeepsInv
<1>4. CASE UNCHANGED vars
  <2>1. Types'
    BY <1>4 DEF vars, Inv, Types, TypeOK, tables, conns, accepts, workers, clients
  <2> QED BY <1>4, <2>1 DEF vars, Inv, Paths, Owners, Workers, Located, tables, conns, workers, clients
<1> QED BY <1>1, <1>2, <1>3, <1>4 DEF Next

LEMMA InvAlways == Spec => []Inv
BY InvInit, InvInductive, PTL DEF Spec

-----------------------------------------------------------------------------
(* Every variable keeps its type; in particular whatever Accept returns    *)
(* has been registered, and only what is registered hears anything.        *)
THEOREM TypesHold == Spec => []TypeOK
<1>1. Inv => TypeOK
  BY DEF Inv, Types
<1> QED BY <1>1, InvAlways, PTL

(* Packets of a client that has not moved are never split between two      *)
(* open connections, however many goroutines dispatch (listener.go:267).   *)
THEOREM PacketsNotSplit == Spec => []NoSplit
BY InvAlways, InvNoSplit, PTL

(* The address table and the connections agree on where a connection is,   *)
(* however clients move (listener.go, dispatchPacket).                     *)
THEOREM TablesAgree == Spec => []MapsAgree
BY InvAlways, InvAgree, PTL

-----------------------------------------------------------------------------
(* DialHappy *)
DialTypes ==
    /\ caller \in {"dialing", "connected", "failed"}
    /\ winner \in 0 .. N
    /\ cancelled \in BOOLEAN
    /\ results \in Seq(Attempts)
    /\ received \subseteq Attempts
    /\ at \in [Attempts -> {"delay", "check", "connect", "wait", "post", "done"}]
    /\ outcome \in [Attempts -> {"none", "ok", "error"}]
    /\ conn \in [Attempts -> {"none", "open", "closed"}]
    /\ socket \in [Attempts -> BOOLEAN] /\ ready \in [Attempts -> BOOLEAN]

(* What an attempt has, by how far it has come. *)
Progress(i) ==
    /\ at[i] \in {"delay", "check", "connect"} => conn[i] = "none" /\ ~socket[i]
    /\ at[i] \in {"delay", "check", "connect", "wait"} => outcome[i] = "none"
    /\ at[i] = "post" => outcome[i] # "none"
    /\ outcome[i] = "error" => conn[i] # "open" /\ ~socket[i]
    /\ outcome[i] = "ok" => ready[i]

(* The channel holds results of attempts that have ended, each once, and   *)
(* none that the caller has taken.                                         *)
Channel ==
    /\ \A k \in 1 .. Len(results) :
          /\ at[results[k]] = "done" /\ outcome[results[k]] # "none"
          /\ results[k] \notin received
    /\ \A j, k \in 1 .. Len(results) : results[j] = results[k] => j = k

(* The caller has taken failures, until it takes a connection. *)
Taken ==
    /\ \A i \in received : at[i] = "done" /\ (outcome[i] = "error" \/ i = winner)
    /\ caller # "connected" => winner = 0

DialInv == DialTypes /\ (\A i \in Attempts : Progress(i)) /\ Channel /\ Taken
       /\ NoneLost /\ FirstThatResponds

-----------------------------------------------------------------------------
LEMMA AttemptsFinite == IsFiniteSet(Attempts) /\ Cardinality(Attempts) = N
BY NAssumption, FS_Interval DEF Attempts

(* A sequence of attempts without repetitions is no longer than N. *)
LEMMA Room ==
  ASSUME NEW s \in Seq(Attempts), \A j, k \in 1 .. Len(s) : s[j] = s[k] => j = k
  PROVE  Len(s) <= N
<1>1. Len(s) \in Nat /\ s \in [1 .. Len(s) -> Attempts]
  BY LenProperties
<1>2. IsFiniteSet(1 .. Len(s)) /\ Cardinality(1 .. Len(s)) = Len(s)
  <2>1. PICK n \in Nat : n = Len(s)
    BY <1>1
  <2>2. IsFiniteSet(1 .. n) /\ Cardinality(1 .. n) = IF 1 > n THEN 0 ELSE n - 1 + 1
    BY FS_Interval
  <2> QED BY <2>1, <2>2
<1>3. SUFFICES ASSUME Len(s) > N PROVE FALSE
  BY <1>1, NAssumption
<1>4. PICK D : D = 1 .. Len(s)
  OBVIOUS
<1>5. PICK f \in [D -> Attempts] : f = s
  BY <1>1, <1>4
<1>6. IsFiniteSet(D) /\ Cardinality(D) > Cardinality(Attempts)
  BY <1>2, <1>3, <1>4, AttemptsFinite
<1>7. \E x, y \in D : x # y /\ f[x] = f[y]
  BY <1>6, AttemptsFinite, FS_PigeonHole
<1> QED BY <1>4, <1>5, <1>7

LEMMA DialInvInit == DialInit => DialInv
<1> SUFFICES ASSUME DialInit PROVE DialInv
  OBVIOUS
<1>1. DialTypes
  <2>1. results \in Seq(Attempts)
    BY EmptySeq DEF DialInit
  <2>2. winner \in 0 .. N
    BY NAssumption DEF DialInit
  <2>3. at \in [Attempts -> {"delay", "check", "connect", "wait", "post", "done"}]
    BY DEF DialInit
  <2> QED BY <2>1, <2>2, <2>3 DEF DialInit, DialTypes
<1>2. ASSUME NEW i \in Attempts PROVE Progress(i)
  BY DEF DialInit, Progress
<1>3. Channel /\ Taken
  BY EmptySeq DEF DialInit, Channel, Taken
<1>4. NoneLost /\ FirstThatResponds
  BY DEF DialInit, NoneLost, FirstThatResponds
<1> QED BY <1>1, <1>2, <1>3, <1>4 DEF DialInv

(* Steps of an attempt that do not touch the channel. *)
LEMMA AttemptKeepsInv ==
  ASSUME DialInv, NEW i \in Attempts,
         Delay(i) \/ Check(i) \/ Unresolved(i) \/ Connect(i)
           \/ WaitReady(i) \/ HandshakeFails(i) \/ Abandon(i) \/ Answer(i) \/ Die(i)
  PROVE  DialInv'
<1> USE DEF DialInv
<1> DEFINE Step == Delay(i) \/ Check(i) \/ Unresolved(i) \/ Connect(i)
           \/ WaitReady(i) \/ HandshakeFails(i) \/ Abandon(i) \/ Answer(i) \/ Die(i)
<1>1. /\ UNCHANGED <<callerVars, cancelled, results>>
      /\ DialTypes'
  BY DEF DialTypes, Delay, Check, Unresolved, Connect, WaitReady, HandshakeFails, Abandon,
         Answer, Die, Goto, peerVars, callerVars
<1>2. \A j \in Attempts :
        /\ at[j] = "done" => at'[j] = "done" /\ outcome'[j] = outcome[j]
        /\ at[j] # "done" /\ at'[j] = "done" => conn'[j] # "open"
        /\ outcome[j] # "none" => outcome'[j] = outcome[j]
        /\ ready[j] => ready'[j]
        /\ conn'[j] = "open" => conn[j] = "open" \/ at'[j] = "wait"
  BY DEF DialTypes, Progress, Delay, Check, Unresolved, Connect, WaitReady, HandshakeFails,
         Abandon, Answer, Die, Goto, peerVars, callerVars
<1>3. ASSUME NEW j \in Attempts PROVE Progress(j)'
  <2>1. CASE Delay(i) \/ Check(i)
    BY <2>1 DEF DialTypes, Progress, Delay, Check, Goto, peerVars
  <2>2. CASE Unresolved(i) \/ Connect(i)
    BY <2>2 DEF DialTypes, Progress, Unresolved, Connect, Goto, peerVars
  <2>3. CASE WaitReady(i) \/ HandshakeFails(i)
    BY <2>3 DEF DialTypes, Progress, WaitReady, HandshakeFails, Goto, peerVars
  <2>4. CASE Abandon(i)
    BY <2>4 DEF DialTypes, Progress, Abandon, Goto
  <2>5. CASE Answer(i) \/ Die(i)
    BY <2>5 DEF DialTypes, Progress, Answer, Die
  <2> QED BY <2>1, <2>2, <2>3, <2>4, <2>5
<1>4. Channel'
  <2>1. \A k \in 1 .. Len(results) : results[k] \in Attempts
    BY DEF DialTypes
  <2> QED BY <1>1, <1>2, <2>1 DEF Channel, callerVars
<1>5. Taken'
  BY <1>1, <1>2 DEF Taken, DialTypes, callerVars
<1>6. NoneLost'
  <2> SUFFICES ASSUME NEW j \in Attempts, at'[j] = "done"
               PROVE  /\ conn'[j] = "open" => j = winner' \/ InChannel(j)'
                      /\ outcome'[j] = "error" => ~socket'[j]
    BY DEF NoneLost
  <2>1. outcome'[j] = "error" => ~socket'[j]
    BY <1>3 DEF Progress
  <2>2. conn'[j] = "open" => at[j] = "done" /\ conn[j] = "open"
    BY <1>2
  <2>3. InChannel(j) => InChannel(j)'
    BY <1>1 DEF InChannel
  <2> QED BY <1>1, <2>1, <2>2, <2>3 DEF NoneLost, callerVars
<1>7. FirstThatResponds'
  BY <1>1, <1>2 DEF FirstThatResponds, callerVars
<1> QED BY <1>1, <1>3, <1>4, <1>5, <1>6, <1>7

LEMMA PostKeepsInv ==
  ASSUME DialInv, NEW i \in Attempts, Post(i)
  PROVE  DialInv'
<1> USE DEF DialInv, Post, Goto, callerVars, peerVars
<1>1. /\ results' \in Seq(Attempts)
      /\ Len(results') = Len(results) + 1
      /\ \A k \in 1 .. Len(results) : results'[k] = results[k]
      /\ results'[Len(results) + 1] = i
  BY AppendProperties DEF DialTypes
<1>2. Len(results) \in Nat /\ \A k \in 1 .. Len(results) : results[k] \in Attempts
  BY DEF DialTypes
<1>3. DialTypes'
  BY <1>1 DEF DialTypes
<1>4. \A j \in Attempts : Progress(j)'
  BY DEF DialTypes, Progress
<1>5. \A k \in 1 .. Len(results) : results[k] # i
  BY DEF Channel
<1>6. i \notin received
  BY DEF Taken
<1>7. Channel'
  <2>1. ASSUME NEW k \in 1 .. Len(results')
        PROVE  k \in 1 .. Len(results) \/ k = Len(results) + 1
    BY <1>1, <1>2
  <2>2. at'[i] = "done" /\ outcome[i] # "none"
    BY DEF DialTypes, Progress
  <2>3. \A j \in Attempts : at[j] = "done" => at'[j] = "done"
    BY DEF DialTypes
  <2>4. \A k \in 1 .. Len(results') :
          /\ at'[results'[k]] = "done" /\ outcome'[results'[k]] # "none"
          /\ results'[k] \notin received'
    BY <1>1, <1>2, <1>6, <2>1, <2>2, <2>3 DEF Channel
  <2>5. \A j, k \in 1 .. Len(results') : results'[j] = results'[k] => j = k
    BY <1>1, <1>2, <1>5, <2>1 DEF Channel
  <2> QED BY <2>4, <2>5 DEF Channel
<1>8. Taken'
  BY <1>6 DEF Taken, DialTypes
<1>9. NoneLost'
  <2>1. InChannel(i)'
    <3>1. Len(results) + 1 \in 1 .. Len(results')
      BY <1>1, <1>2
    <3> QED BY <1>1, <3>1 DEF InChannel
  <2>2. ASSUME NEW j \in Attempts, InChannel(j) PROVE InChannel(j)'
    <3>1. PICK k \in 1 .. Len(results) : results[k] = j
      BY <2>2 DEF InChannel
    <3>2. k \in 1 .. Len(results')
      BY <1>1, <1>2
    <3> QED BY <1>1, <3>1, <3>2 DEF InChannel
  <2>3. ASSUME NEW j \in Attempts, j # i PROVE at'[j] = at[j]
    BY <2>3 DEF DialTypes
  <2>4. \A j \in Attempts : outcome'[j] = "error" => ~socket'[j]
    BY <1>4 DEF Progress
  <2> QED BY <2>1, <2>2, <2>3, <2>4 DEF NoneLost
<1>10. FirstThatResponds'
  BY DEF FirstThatResponds
<1> QED BY <1>3, <1>4, <1>7, <1>8, <1>9, <1>10

LEMMA TakeKeepsInv ==
  ASSUME DialInv, NEW i \in Attempts, Connected(i) \/ Failed(i)
  PROVE  DialInv'
<1> USE DEF DialInv
<1> DEFINE n == Len(results)
<1>1. /\ caller = "dialing" /\ winner = 0
      /\ received' = received \cup {i}
      /\ UNCHANGED <<cancelled, at, outcome, conn, ready, socket>>
  BY DEF Connected, Failed, Take, Taken, peerVars
<1>2. results # <<>> /\ i = Head(results) /\ results' = Tail(results)
  BY DEF Connected, Failed, Take
<1>3. /\ n \in Nat \ {0} /\ results[1] = i
      /\ results' \in Seq(Attempts) /\ Len(results') = n - 1
      /\ \A k \in 1 .. n - 1 : results'[k] = results[k + 1]
  <2>1. results \in Seq(Attempts)
    BY DEF DialTypes
  <2> QED BY <1>2, <2>1, HeadTailProperties, LenProperties, EmptySeq
<1> HIDE DEF n
<1>4. DialTypes'
  BY <1>1, <1>3 DEF DialTypes, Connected, Failed, Attempts
<1>5. \A j \in Attempts : Progress(j)'
  BY <1>1 DEF Progress
<1>6. /\ at[i] = "done" /\ outcome[i] # "none" /\ i \notin received
      /\ \A k \in 1 .. n - 1 : results[k + 1] # i
  <2>1. 1 \in 1 .. n
    BY <1>3
  <2>2. \A k \in 1 .. n - 1 : k + 1 \in 1 .. n /\ k + 1 # 1
    BY <1>3
  <2> QED BY <1>3, <2>1, <2>2 DEF Channel, n
<1>7. Channel'
  <2>1. \A k \in 1 .. n - 1 : k + 1 \in 1 .. n
    BY <1>3
  <2>2. \A j, k \in 1 .. n - 1 : j + 1 = k + 1 => j = k
    BY <1>3
  <2>3. \A k \in 1 .. n - 1 :
          /\ at'[results'[k]] = "done" /\ outcome'[results'[k]] # "none"
          /\ results'[k] \notin received'
    BY <1>1, <1>3, <1>6, <2>1 DEF Channel, n
  <2>4. \A j, k \in 1 .. n - 1 : results'[j] = results'[k] => j = k
    BY <1>3, <2>1, <2>2 DEF Channel, n
  <2> QED BY <1>3, <2>3, <2>4 DEF Channel
<1>8. Taken'
  <2>1. ASSUME NEW j \in received' PROVE at[j] = "done" /\ (outcome[j] = "error" \/ j = winner')
    <3>1. CASE j = i
      BY <1>6, <3>1 DEF Connected, Failed
    <3>2. CASE j # i
      <4>1. j \in received /\ j # 0
        BY <1>1, <2>1, <3>2, NAssumption DEF DialTypes, Attempts
      <4> QED BY <1>1, <4>1 DEF Taken
    <3> QED BY <3>1, <3>2
  <2>2. caller' # "connected" => winner' = 0
    BY <1>1 DEF Connected, Failed
  <2> QED BY <1>1, <2>1, <2>2 DEF Taken
<1>9. NoneLost'
  <2> SUFFICES ASSUME NEW j \in Attempts, at[j] = "done"
               PROVE  /\ conn[j] = "open" => j = winner' \/ InChannel(j)'
                      /\ outcome[j] = "error" => ~socket[j]
    BY <1>1 DEF NoneLost
  <2>1. outcome[j] = "error" => ~socket[j]
    BY DEF Progress
  <2>2. ASSUME conn[j] = "open", j # i PROVE InChannel(j)'
    <3>1. j # winner
      BY <1>1, NAssumption DEF Attempts
    <3>2. PICK k \in 1 .. n : results[k] = j
      BY <2>2, <3>1 DEF NoneLost, InChannel, n
    <3>3. k - 1 \in 1 .. n - 1 /\ (k - 1) + 1 = k
      BY <1>3, <2>2, <3>2
    <3> QED BY <1>3, <3>2, <3>3 DEF InChannel
  <2>3. ASSUME conn[i] = "open" PROVE i = winner'
    BY <1>6, <2>3 DEF Progress, Connected, Failed, DialTypes
  <2> QED BY <2>1, <2>2, <2>3
<1>10. FirstThatResponds'
  <2>1. CASE Connected(i)
    BY <1>1, <2>1 DEF Connected, FirstThatResponds, Progress
  <2>2. CASE Failed(i)
    <3>1. ASSUME caller' = "failed" PROVE \A j \in Attempts : outcome[j] = "error"
      <4>1. Cardinality(received') = N
        BY <2>2, <3>1 DEF Failed, AllFailed
      <4>2. received' \in SUBSET Attempts
        BY <1>4 DEF DialTypes
      <4>3. received' = Attempts
        BY <4>1, <4>2, AttemptsFinite, FS_Subset
      <4>4. \A j \in received' : outcome[j] = "error"
        BY <1>1, <2>2, NAssumption DEF Failed, Taken, Attempts, DialTypes
      <4> QED BY <4>3, <4>4
    <3> QED BY <1>1, <2>2, <3>1 DEF Failed, FirstThatResponds
  <2> QED BY <2>1, <2>2
<1> QED BY <1>4, <1>5, <1>7, <1>8, <1>9, <1>10

(* Every step of a dial keeps its invariant.                               *)
THEOREM DialInductive == DialInv /\ [DialNext]_dialVars => DialInv'
<1> SUFFICES ASSUME DialInv, [DialNext]_dialVars PROVE DialInv'
  OBVIOUS
<1>1. ASSUME NEW i \in Attempts, Attempt(i) \/ Answer(i) \/ Die(i) PROVE DialInv'
  BY <1>1, AttemptKeepsInv, PostKeepsInv DEF Attempt
<1>2. ASSUME NEW i \in Attempts, Connected(i) \/ Failed(i) PROVE DialInv'
  BY <1>2, TakeKeepsInv
<1>3. CASE Cancel
  BY <1>3 DEF Cancel, DialInv, DialTypes, Progress, Channel, Taken, NoneLost, InChannel,
             FirstThatResponds, callerVars, peerVars
<1>4. CASE UNCHANGED dialVars
  BY <1>4 DEF dialVars, DialInv, DialTypes, Progress, Channel, Taken, NoneLost, InChannel,
             FirstThatResponds, callerVars, peerVars
<1> QED BY <1>1, <1>2, <1>3, <1>4 DEF DialNext

LEMMA DialAlways == DialSpec => []DialInv
BY DialInvInit, DialInductive, PTL DEF DialSpec

-----------------------------------------------------------------------------
(* The send of a result never waits: the channel has room for all          *)
(* (listener.go, DialHappy).                                               *)
THEOREM DialTypesHold == DialSpec => []DialTypeOK
<1>1. DialInv => DialTypeOK
  BY Room DEF DialInv, DialTypes, Channel, DialTypeOK
<1> QED BY <1>1, DialAlways, PTL

(* Of every attempt that has ended, the connection is closed, or returned, *)
(* or in the channel, and one that failed has closed its socket.           *)
THEOREM NoConnectionLost == DialSpec => []NoneLost
<1>1. DialInv => NoneLost
  BY DEF DialInv
<1> QED BY <1>1, DialAlways, PTL

(* The connection returned has responded, and an error is returned only    *)
(* when every attempt has failed (listener.go:301).                        *)
THEOREM ReturnedHasResponded == DialSpec => []FirstThatResponds
<1>1. DialInv => FirstThatResponds
  BY DEF DialInv
<1> QED BY <1>1, DialAlways, PTL
=============================================================================
