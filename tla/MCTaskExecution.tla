--------------------------- MODULE MCTaskExecution ---------------------------
(* Instances of TaskExecution for TLC: messages of one aggregate. *)
EXTENDS TaskExecution, TLC

CONSTANTS m1, m2, w1, w2, r1

SameAggregate == [m \in Messages |-> r1]

Symmetry == Permutations(Workers)
=============================================================================
