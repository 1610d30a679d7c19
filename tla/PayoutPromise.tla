---------------------------- MODULE PayoutPromise ----------------------------
(***************************************************************************)
(* What the payout release engine promises an organiser and the platform:  *)
(* money is paid out for whole sets of sales, only for sales whose payment *)
(* was recorded, and no sale ever funds two payouts.                       *)
(*                                                                         *)
(* apps/server/src/lib/stripe/payout-intents.ts opens with this promise:   *)
(* "the write-ahead record that makes a payout exactly-once".  The         *)
(* detailed engine is module PayoutRelease.                                *)
(***************************************************************************)
EXTENDS Naturals

CONSTANT Sales        \* Stripe Checkout Sessions that were paid

VARIABLES sold,       \* sales whose payment the server has recorded
          paid        \* how often each sale's net left for the bank

vars == <<sold, paid>>

Init == /\ sold = {}
        /\ paid = [s \in Sales |-> 0]

(* The webhook records the sale as money held for the organiser.           *)
Sell(s) == /\ s \notin sold
           /\ sold' = sold \cup {s}
           /\ UNCHANGED paid

(* One payout covers a set of recorded sales, none of which was paid yet.  *)
PayOut(S) == /\ S # {}
             /\ S \subseteq {s \in sold : paid[s] = 0}
             /\ paid' = [s \in Sales |-> IF s \in S THEN paid[s] + 1 ELSE paid[s]]
             /\ UNCHANGED sold

Next == \/ \E s \in Sales : Sell(s)
        \/ \E S \in SUBSET Sales : PayOut(S)

Spec == Init /\ [][Next]_vars
==============================================================================
