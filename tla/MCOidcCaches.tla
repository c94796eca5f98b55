----------------------------- MODULE MCOidcCaches -----------------------------
(* Instances of OidcCaches for TLC. *)
EXTENDS OidcCaches, TLC

CONSTANTS c1, c2, k1

Symmetry == Permutations(Callers)
=============================================================================
