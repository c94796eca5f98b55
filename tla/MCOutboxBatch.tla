---------------------------- MODULE MCOutboxBatch ----------------------------
(* Instances of OutboxBatch for TLC: one message due at once, one later. *)
EXTENDS OutboxBatch, TLC

CONSTANTS o1, o2

DueInTurn == [m \in Messages |-> m - 1]

Symmetry == Permutations(Owners)
=============================================================================
