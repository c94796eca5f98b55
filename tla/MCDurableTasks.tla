---------------------------- MODULE MCDurableTasks ----------------------------
(* Instances of DurableTasks for TLC. *)
EXTENDS DurableTasks

CONSTANTS w1, p1, r1

SameAggregate == [m \in Messages |-> r1]
=============================================================================
