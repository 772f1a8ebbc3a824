----------------------------- MODULE ByteStream -----------------------------
(***************************************************************************)
(* What one direction of a stream promises its users: the reader obtains   *)
(* what the writer wrote, in order and once, and is told of the end of the *)
(* stream only after all of it, once the writer has closed, unless the     *)
(* reader has cancelled or its connection is closed.  The unit of data at  *)
(* offset i is the number i.                                               *)
(***************************************************************************)
EXTENDS Naturals, Sequences

CONSTANT MaxOffset   \* bound: units a writer may write

VARIABLES
    written,     \* how much the writer has written
    closed,      \* the writer has closed the stream
    delivered,   \* what Read has returned so far
    eof,         \* Read has returned io.EOF
    aborted      \* the reader has cancelled, or its connection is closed

vars == <<written, closed, delivered, eof, aborted>>

(* The units from offset a on, n of them. *)
Units(a, n) == [i \in 1 .. n |-> a + i - 1]

Init ==
    /\ written = 0 /\ closed = FALSE /\ delivered = <<>>
    /\ eof = FALSE /\ aborted = FALSE

Write ==
    /\ ~closed
    /\ \E n \in 1 .. MaxOffset - written : written' = written + n
    /\ UNCHANGED <<closed, delivered, eof, aborted>>

Close ==
    /\ closed' = TRUE
    /\ UNCHANGED <<written, delivered, eof, aborted>>

Read ==
    /\ \E n \in 1 .. written - Len(delivered) :
          delivered' = delivered \o Units(Len(delivered), n)
    /\ UNCHANGED <<written, closed, eof, aborted>>

ReadEOF ==
    /\ aborted \/ (closed /\ Len(delivered) = written)
    /\ eof' = TRUE
    /\ UNCHANGED <<written, closed, delivered, aborted>>

Abort ==
    /\ aborted' = TRUE
    /\ UNCHANGED <<written, closed, delivered, eof>>

Next == Write \/ Close \/ Read \/ ReadEOF \/ Abort

Spec == Init /\ [][Next]_vars
=============================================================================
