----------------------------- MODULE SeatHoldsMC -----------------------------
(***************************************************************************)
(* Instances of SeatHolds for TLC: alice has two tabs, one of them on      *)
(* another network; bob shares the address of the first.                   *)
(***************************************************************************)
EXTENDS SeatHolds, TLC

CONSTANTS t1, t2, t3, alice, bob, ip1, ip2

ThreeTabs == {t1, t2, t3}
Owners == t1 :> alice @@ t2 :> alice @@ t3 :> bob
TwoIps == t1 :> ip1 @@ t2 :> ip2 @@ t3 :> ip1
HoldSymmetry == Permutations(Holds)
==============================================================================
