-------------------------- MODULE BroadcastQueueMC --------------------------
(* The broadcast queue on small instances. *)
EXTENDS BroadcastQueue, TLC

Symmetry == Permutations(Jobs) \cup Permutations(Addrs)

=============================================================================
