---------------------------- MODULE MCProfileCache ----------------------------
(* Instances of ProfileCache for TLC.                                      *)
EXTENDS ProfileCache, TLC

CONSTANTS ada, bob, i1, i2, s1, s2, qAll, qAda, qBob, lower, upper

Symmetry == Permutations(Ids) \cup Permutations(Spellings) \cup Permutations(Slots)

(* A list of every profile; a list of one name, and one of another, which  *)
(* nobody has.                                                             *)
AllNames == [q \in {qAll} |-> {ada, bob}]
AdaOrNobody == [q \in {qAda, qBob} |-> IF q = qAda THEN {ada} ELSE {}]
=============================================================================
