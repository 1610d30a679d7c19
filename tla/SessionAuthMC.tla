---------------------------- MODULE SessionAuthMC ----------------------------
(* Instances of SessionAuth for TLC.                                       *)
EXTENDS SessionAuth, TLC

CONSTANTS k1, k2, s1, s2, r1, r2
=============================================================================
