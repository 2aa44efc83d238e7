---------------------------- MODULE MCTokenService ----------------------------
(* Instances of TokenService for TLC.                                      *)
EXTENDS TokenService, TLC

CONSTANTS root, octocat, u1, u2, u3, t1, t2, t3, r1, r2

(* Ids, tokens and requests are interchangeable; accounts are not, since   *)
(* one may be seeded as the admin.                                         *)
Symmetry ==
    Permutations(UserIds) \cup Permutations(Tokens) \cup Permutations(Requests)

NoSettings == {}
SomeSettings == {[role |-> "admin", active |-> TRUE], [role |-> "analyst", active |-> FALSE]}
=============================================================================
