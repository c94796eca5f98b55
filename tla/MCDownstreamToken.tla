-------------------------- MODULE MCDownstreamToken --------------------------
(* Instances of DownstreamToken for TLC. *)
EXTENDS DownstreamToken

CONSTANTS c1, c2, c3
=============================================================================
