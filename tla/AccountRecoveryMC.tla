-------------------------- MODULE AccountRecoveryMC --------------------------
(* Instances of AccountRecovery for TLC.                                   *)
EXTENDS AccountRecovery

CONSTANTS d1, d2, b1, b2

OldAndNew == [d \in Browsers |-> IF d = d1 THEN {0, 1} ELSE {2}]
=============================================================================
