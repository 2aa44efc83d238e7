------------------------------ MODULE MCLoginFlow ------------------------------
(* Instances of LoginFlow for TLC.                                         *)
EXTENDS LoginFlow, TLC

CONSTANTS b1, b2, c1, a1, a2, a3, k1, k2, k3, h1, h2, t1, t2, t3

Symmetry ==
    Permutations(Browsers) \cup Permutations(Attempts) \cup Permutations(Codes)
        \cup Permutations(Handlers) \cup Permutations(Tokens)
=============================================================================
