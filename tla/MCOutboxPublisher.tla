-------------------------- MODULE MCOutboxPublisher --------------------------
(* Three outbox rows, one of which the contract refuses, and workers. *)
EXTENDS OutboxPublisher

CONSTANTS w1, w2

MCEvent == 1 .. 3
MCMalformed == {3}
MCFirstMalformed == {1}
=============================================================================
