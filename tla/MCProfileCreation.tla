--------------------------- MODULE MCProfileCreation ---------------------------
(* Instances of ProfileCreation for TLC.                                   *)
EXTENDS ProfileCreation, TLC

CONSTANTS ada, bob, r1, r2
=============================================================================
