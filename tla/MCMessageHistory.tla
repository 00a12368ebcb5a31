-------------------------- MODULE MCMessageHistory --------------------------
(* Two walks up and one down in a chat of up to six messages. *)
EXTENDS MessageHistory

CONSTANTS u1, u2, d1
=============================================================================
