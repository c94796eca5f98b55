-------------------------- MODULE MCDurableDelivery --------------------------
(* Instances of DurableDelivery for TLC. *)
EXTENDS DurableDelivery, TLC

CONSTANTS p1, p2

Symmetry == Permutations(Pumps)
=============================================================================
