---------------------------- MODULE DoorCheckinMC ----------------------------
(* Instances of DoorCheckin for TLC.                                       *)
EXTENDS DoorCheckin, TLC

CONSTANTS d1, d2, t1, t2, e1, e2

OneEvent == [t \in Tickets |-> e1]
TwoEvents == [t \in Tickets |-> IF t = t1 THEN e1 ELSE e2]
DoorSymmetry == Permutations(Devices) \union Permutations(Tickets)
=============================================================================
