--------------------------- MODULE MCOutboxEnqueue ---------------------------
(* Instances of OutboxEnqueue for TLC. *)
EXTENDS OutboxEnqueue

CONSTANTS t1, t2, k1, k2
=============================================================================
