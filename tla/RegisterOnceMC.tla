---------------------------- MODULE RegisterOnceMC ----------------------------
(***************************************************************************)
(* Instances of RegisterOnce for TLC.                                      *)
(***************************************************************************)
EXTENDS RegisterOnce, TLC

AttemptSymmetry == Permutations(Attempts)
==============================================================================
