---------------------------- MODULE MCConnection ----------------------------
EXTENDS Connection

CONSTANTS client, server, o1, o2

AtClient == [o \in {o1, o2} |-> client]

(* A server of another implementation, which does send these frames.       *)
FromServer == {[to |-> client, type |-> "close"],
               [to |-> client, type |-> "max_streams", limit |-> 1]}
=============================================================================
