---------------------------- MODULE MCAuthSessions ----------------------------
(* Instances of AuthSessions for TLC. *)
EXTENDS AuthSessions, TLC

CONSTANTS t1, t2, b1, b2, r1, r2, operator, admin

Symmetry == Permutations(Logins) \union Permutations(Browsers)
                \union Permutations(Requests) \union Permutations(Roles)
=============================================================================
