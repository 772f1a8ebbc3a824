---------------------------- MODULE MCTransfer ----------------------------
(* Model-checking instance of Transfer: an upload and a download. *)
EXTENDS Transfer

CONSTANTS u1, d1
=============================================================================
