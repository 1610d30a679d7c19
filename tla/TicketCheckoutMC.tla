-------------------------- MODULE TicketCheckoutMC --------------------------
(***************************************************************************)
(* Instances of TicketCheckout for TLC: a tab, or one of each of two buyers.*)
(***************************************************************************)
EXTENDS TicketCheckout, TLC

CONSTANTS t1, t2, alice, bob, ip1, ip2

TwoTabs == {t1, t2}
Owners == t1 :> alice @@ t2 :> bob
TwoIps == t1 :> ip1 @@ t2 :> ip2
OneTab == {t1}
OneOwner == t1 :> alice
OneIp == t1 :> ip1
IdSymmetry == Permutations(Holds) \cup Permutations(Sessions)
==============================================================================
