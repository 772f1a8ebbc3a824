-------------------------------- MODULE Dial --------------------------------
(***************************************************************************)
(* DialHappy (quic/listener.go): a goroutine for each address dials after  *)
(* a delay, the caller takes the first connection that comes through a     *)
(* buffered channel, and its return cancels the context of the others.     *)
(*                                                                         *)
(* Time is abstracted: a delay, or the timeout of dialOne, may end at any  *)
(* moment.                                                                 *)
(*                                                                         *)
(* An operator X_Fault is X with a bug put in: nothing uses it but the     *)
(* tests of the properties (PROJECT.json, "mutants").                      *)
(***************************************************************************)
EXTENDS Integers, Sequences, FiniteSets

CONSTANT N   \* len(addrs); a single address is dialled without goroutines

ASSUME NAssumption == N \in Nat \ {0, 1}

Attempts == 1 .. N

VARIABLES
    caller,     \* "dialing", or what DialHappy has returned: "connected", "failed"
    winner,     \* the attempt whose connection was returned, or 0
    cancelled,  \* the caller's own context is done
    results,    \* the channel
    received,   \* attempts whose results the caller has taken
    at,         \* where the goroutine of each attempt is
    outcome,    \* what its dialOne has returned
    conn,       \* its connection
    socket,     \* its UDP socket is open
    ready       \* readyCh is closed: the server has answered

callerVars == <<caller, winner, received>>
peerVars   == <<conn, ready>>
dialVars   == <<callerVars, cancelled, results, at, outcome, peerVars, socket>>

DialInit ==
    /\ caller = "dialing" /\ winner = 0 /\ cancelled = FALSE
    /\ results = <<>> /\ received = {}
    /\ at = [i \in Attempts |-> IF i = 1 THEN "check" ELSE "delay"]
    /\ outcome = [i \in Attempts |-> "none"]
    /\ conn = [i \in Attempts |-> "none"]
    /\ socket = [i \in Attempts |-> FALSE]
    /\ ready = [i \in Attempts |-> FALSE]

(* The context of the attempts ends with the caller's, or when DialHappy   *)
(* returns (defer cancel).                                                 *)
CtxDone == cancelled \/ caller # "dialing"

Goto(i, to) == at' = [at EXCEPT ![i] = to]

-----------------------------------------------------------------------------
(* The goroutine of an attempt, up to dialOne. *)
Delay(i) ==
    /\ at[i] = "delay"
    /\ Goto(i, "check") \/ (CtxDone /\ Goto(i, "done"))
    /\ UNCHANGED <<callerVars, cancelled, results, outcome, peerVars, socket>>

(* Another attempt may already have succeeded. *)
Check(i) ==
    /\ at[i] = "check"
    /\ Goto(i, IF CtxDone THEN "done" ELSE "connect")
    /\ UNCHANGED <<callerVars, cancelled, results, outcome, peerVars, socket>>

(* dialOne *)
Unresolved(i) ==
    /\ at[i] = "connect"
    /\ outcome' = [outcome EXCEPT ![i] = "error"]
    /\ Goto(i, "post")
    /\ UNCHANGED <<callerVars, cancelled, results, peerVars, socket>>

Connect(i) ==
    /\ at[i] = "connect"
    /\ conn' = [conn EXCEPT ![i] = "open"]
    /\ socket' = [socket EXCEPT ![i] = TRUE]
    /\ Goto(i, "wait")
    /\ UNCHANGED <<callerVars, cancelled, results, outcome, ready>>

WaitReady(i) ==
    /\ at[i] = "wait"
    /\ ready[i]
    /\ outcome' = [outcome EXCEPT ![i] = "ok"]
    /\ Goto(i, "post")
    /\ UNCHANGED <<callerVars, cancelled, results, peerVars, socket>>

(* The timeout, the context or the end of the connection: select takes any *)
(* that is ready, even if readyCh is closed too.                           *)
HandshakeFails(i) ==
    /\ at[i] = "wait"
    /\ conn' = [conn EXCEPT ![i] = "closed"]
    /\ socket' = [socket EXCEPT ![i] = FALSE]
    /\ outcome' = [outcome EXCEPT ![i] = "error"]
    /\ Goto(i, "post")
    /\ UNCHANGED <<callerVars, cancelled, results, ready>>

(* The channel has room for all: the send is always ready, and select may  *)
(* take it although the context is done.                                   *)
Post_Success(i) ==
    /\ at[i] = "post"
    /\ results' = IF outcome[i] = "ok" THEN Append(results, i) ELSE results
    /\ Goto(i, "done")
    /\ UNCHANGED <<callerVars, cancelled, outcome, peerVars, socket>>

Post_Again(i) ==
    /\ at[i] = "post"
    /\ results' = Append(results, i)
    /\ UNCHANGED <<callerVars, cancelled, at, outcome, peerVars, socket>>

Post(i) ==
    /\ at[i] = "post"
    /\ results' = Append(results, i)
    /\ Goto(i, "done")
    /\ UNCHANGED <<callerVars, cancelled, outcome, peerVars, socket>>

Abandon_Open(i) ==
    /\ at[i] = "post"
    /\ CtxDone
    /\ Goto(i, "done")
    /\ UNCHANGED <<callerVars, cancelled, results, outcome, peerVars, socket>>

(* "happy cancelled": the connection is closed, its socket is not. *)
Abandon(i) ==
    /\ at[i] = "post"
    /\ CtxDone
    /\ conn' = IF outcome[i] = "ok" THEN [conn EXCEPT ![i] = "closed"] ELSE conn
    /\ Goto(i, "done")
    /\ UNCHANGED <<callerVars, cancelled, results, outcome, ready, socket>>

Attempt(i) ==
    \/ Delay(i) \/ Check(i) \/ Unresolved(i) \/ Connect(i)
    \/ WaitReady(i) \/ HandshakeFails(i) \/ Post(i) \/ Abandon(i)

-----------------------------------------------------------------------------
(* The server's first packet, and the end of a connection on its own: the  *)
(* server closes it or falls silent, after that first packet.              *)
Answer(i) ==
    /\ conn[i] = "open" /\ ~ready[i]
    /\ ready' = [ready EXCEPT ![i] = TRUE]
    /\ UNCHANGED <<callerVars, cancelled, results, at, outcome, conn, socket>>

Die(i) ==
    /\ conn[i] = "open" /\ ready[i]
    /\ conn' = [conn EXCEPT ![i] = "closed"]
    /\ UNCHANGED <<callerVars, cancelled, results, at, outcome, ready, socket>>

(* The caller: the first connection, or all failures. *)
Take(i) ==
    /\ caller = "dialing"
    /\ results # <<>> /\ i = Head(results)
    /\ results' = Tail(results)
    /\ received' = received \cup {i}

Connected(i) ==
    /\ Take(i)
    /\ outcome[i] = "ok"
    /\ caller' = "connected" /\ winner' = i
    /\ UNCHANGED <<cancelled, at, outcome, peerVars, socket>>

AllFailed_First(n) == TRUE
AllFailed(n) == n = N

Failed(i) ==
    /\ Take(i)
    /\ outcome[i] = "error"
    /\ caller' = IF AllFailed(Cardinality(received')) THEN "failed" ELSE "dialing"
    /\ UNCHANGED <<winner, cancelled, at, outcome, peerVars, socket>>

Cancel ==
    /\ ~cancelled
    /\ cancelled' = TRUE
    /\ UNCHANGED <<callerVars, results, at, outcome, peerVars, socket>>

DialNext ==
    \/ \E i \in Attempts : Attempt(i) \/ Answer(i) \/ Die(i) \/ Connected(i) \/ Failed(i)
    \/ Cancel

DialSpec == DialInit /\ [][DialNext]_dialVars

-----------------------------------------------------------------------------
(* The channel, of room for N, is never full. *)
DialTypeOK ==
    /\ caller \in {"dialing", "connected", "failed"}
    /\ winner \in 0 .. N
    /\ cancelled \in BOOLEAN
    /\ results \in Seq(Attempts) /\ Len(results) <= N
    /\ received \subseteq Attempts
    /\ at \in [Attempts -> {"delay", "check", "connect", "wait", "post", "done"}]
    /\ outcome \in [Attempts -> {"none", "ok", "error"}]
    /\ conn \in [Attempts -> {"none", "open", "closed"}]
    /\ socket \in [Attempts -> BOOLEAN] /\ ready \in [Attempts -> BOOLEAN]

InChannel(i) == \E k \in 1 .. Len(results) : results[k] = i

(* No connection is lost from sight (listener.go, DialHappy): one whose    *)
(* attempt has ended is closed, or the caller has it, or it is in the      *)
(* channel; and an attempt that failed leaves no socket.                   *)
NoneLost ==
    \A i \in Attempts : at[i] = "done" =>
        /\ conn[i] = "open" => i = winner \/ InChannel(i)
        /\ outcome[i] = "error" => ~socket[i]

(* "returns the first connection that responds" (listener.go:301): the one *)
(* returned has had an answer, and an error is returned only when every    *)
(* attempt has failed, not when the first has.                             *)
FirstThatResponds ==
    /\ caller = "connected" => winner \in Attempts /\ ready[winner] /\ outcome[winner] = "ok"
    /\ caller = "failed" => \A i \in Attempts : outcome[i] = "error"

-----------------------------------------------------------------------------
(* Fairness: every goroutine runs; delays and timeouts end. *)
DialFairSpec ==
    /\ DialSpec
    /\ \A i \in Attempts : WF_dialVars(Attempt(i))
    /\ WF_dialVars(\E i \in Attempts : Connected(i) \/ Failed(i))

(* DialHappy returns, unless its caller cancels, and then every goroutine  *)
(* it has started ends: none blocks on a channel that nobody reads.        *)
DialEnds ==
    /\ caller = "dialing" ~> (caller # "dialing" \/ cancelled)
    /\ CtxDone ~> \A i \in Attempts : at[i] = "done"
=============================================================================
