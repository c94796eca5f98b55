--------------------------- MODULE MCHealthChecks ---------------------------
(* Instances of HealthChecks for TLC. *)
EXTENDS HealthChecks

CONSTANTS w1, w2, p1
=============================================================================
