---------------------------- MODULE SponsorNonceMC ----------------------------
(***************************************************************************)
(* Instances of SponsorNonce for TLC.                                      *)
(***************************************************************************)
EXTENDS SponsorNonce, TLC

SendSymmetry == Permutations(Sends)
==============================================================================
