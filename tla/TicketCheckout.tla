--------------------------- MODULE TicketCheckout ---------------------------
(***************************************************************************)
(* The card rail of one ticket series: create-checkout, the Stripe webhook *)
(* and handleSuccessfulPayment (apps/server/src/routes/stripe.ts), over    *)
(* the seat holds of module SeatHolds, the ticket contract, and the payout *)
(* ledger entry of each sale.                                              *)
(*                                                                         *)
(* Every await of the handler ends an action: the feed and manifest reads, *)
(* the broadcast of batchClaimFor, its receipt, the refund.  The registry  *)
(* of consumed sessions and the ledger are written through to disk before  *)
(* the next await, so they survive a crash; the handler does not.          *)
(***************************************************************************)
EXTENDS SeatHolds

CONSTANTS
  Sessions,       \* Stripe Checkout Sessions
  WalkIns,        \* TRUE: a session may be opened without a hold
  Reopening,      \* TRUE: one hold may back several sessions
  FeedMayFail,    \* TRUE: the event feed may fail to load
  ReceiptMayFail, \* TRUE: waiting for the receipt may throw
  MaxCrashes      \* bound on the crashes

ASSUME SessionsAssumption == IsFiniteSet(Sessions)
ASSUME SwitchAssumption ==
  /\ {WalkIns, Reopening, FeedMayFail, ReceiptMayFail} \subseteq BOOLEAN
  /\ MaxCrashes \in Nat

VARIABLES
  checkout,   \* each session: its stage at Stripe, its hold and quantity
  consumed,   \* the session registry
  handler,    \* where the background handler of a session is
  tx,         \* the batchClaimFor transaction of a session
  refunded,   \* units Stripe refunded
  entry,      \* status of the sale in the payout ledger
  ended,      \* the event, and with it the contract's sales window, is over
  hiccup,     \* sessions whose feed read, or wait for the receipt, threw
  crashes     \* crashes so far

payVars == <<checkout, consumed, handler, tx, refunded, entry, ended, hiccup, crashes>>
vars == <<seatVars, payVars>>

Stages == {"none", "open", "paid", "expired"}
Places == {"none", "received", "minting", "waiting", "settling", "refunding",
           "finished", "unrefunded", "lost"}
Running == {"received", "minting", "waiting", "settling", "refunding"}

(* The type of the checkout variables, over well-typed seat holds.         *)
TypeOK ==
  /\ SeatTypeOK
  /\ checkout \in [Sessions -> [stage : Stages, hold : Holds \cup {NoHold}, qty : Nat]]
  /\ consumed \subseteq Sessions
  /\ handler \in [Sessions -> Places]
  /\ tx \in [Sessions -> {"none", "pending", "mined", "reverted"}]
  /\ refunded \in [Sessions -> Nat]
  /\ entry \in [Sessions -> {"none", "held", "void"}]
  /\ ended \in BOOLEAN
  /\ hiccup \subseteq Sessions \X {"feed", "receipt"}
  /\ crashes \in Nat

Init ==
  /\ SeatInit
  /\ checkout = [s \in Sessions |-> [stage |-> "none", hold |-> NoHold, qty |-> 0]]
  /\ consumed = {}
  /\ handler = [s \in Sessions |-> "none"]
  /\ tx = [s \in Sessions |-> "none"]
  /\ refunded = [s \in Sessions |-> 0]
  /\ entry = [s \in Sessions |-> "none"]
  /\ ended = FALSE
  /\ hiccup = {}
  /\ crashes = 0

GoTo(s, place) == handler' = [handler EXCEPT ![s] = place]
Tickets(s) == checkout[s].qty
HoldOf(s) == checkout[s].hold

-----------------------------------------------------------------------------
(* create-checkout and the buyer at Stripe.                                *)

Open(s, h, q) ==
  /\ checkout[s].stage = "none" /\ ~ended
  /\ checkout' = [checkout EXCEPT ![s] = [stage |-> "open", hold |-> h, qty |-> q]]
  /\ UNCHANGED <<seatVars, consumed, handler, tx, refunded, entry, ended, hiccup, crashes>>

(* With a live hold of this size the availability check is skipped.        *)
OpenWithHold(s, h) ==
  /\ Active(h)
  /\ Reopening \/ \A r \in Sessions : HoldOf(r) # h
  /\ Open(s, h, holds[h].qty)

(* Without one, only the contract's supply is looked at, not the holds.    *)
OpenWalkIn(s, q) ==
  /\ WalkIns
  /\ minted + q <= Supply
  /\ Open(s, NoHold, q)

(* The buyer pays, or lets the session expire.                             *)
LeaveStripe(s, stage) ==
  /\ checkout[s].stage = "open"
  /\ checkout' = [checkout EXCEPT ![s].stage = stage]
  /\ UNCHANGED <<seatVars, consumed, handler, tx, refunded, entry, ended, hiccup, crashes>>
Pay(s) == LeaveStripe(s, "paid")
Expire(s) == LeaveStripe(s, "expired")

EventEnds ==
  /\ ~ended
  /\ ended' = TRUE
  /\ UNCHANGED <<seatVars, checkout, consumed, handler, tx, refunded, entry, hiccup, crashes>>

-----------------------------------------------------------------------------
(* The webhook.                                                            *)

\* Mutant of Deliver: the hold is spent at webhook entry.
DeliverSpends(s) ==
  /\ checkout[s].stage = "paid" /\ s \notin consumed
  /\ consumed' = consumed \cup {s}
  /\ GoTo(s, "received")
  /\ Consume(HoldOf(s))
  /\ UNCHANGED <<lapsed, minted, queue, ask, checkout, tx, refunded, entry, ended,
                 hiccup, crashes>>

\* Mutant of Deliver: every delivery is handled.
DeliverEach(s) ==
  /\ checkout[s].stage = "paid" /\ handler[s] \notin Running
  /\ GoTo(s, "received")
  /\ UNCHANGED <<seatVars, checkout, consumed, tx, refunded, entry, ended, hiccup, crashes>>

(* A delivery of checkout.session.completed, by either endpoint, the first *)
(* or a repeat: the session is consumed before any work and 200 answered.  *)
Deliver(s) ==
  /\ checkout[s].stage = "paid" /\ s \notin consumed
  /\ consumed' = consumed \cup {s}
  /\ GoTo(s, "received")
  /\ UNCHANGED <<seatVars, checkout, tx, refunded, entry, ended, hiccup, crashes>>

\* Mutant of Recorded: the sale is booked only when it is settled.
RecordedNot(s) == entry

(* recordHeldPayout, before claiming; a session already there is kept.     *)
Recorded(s) == [entry EXCEPT ![s] = IF @ = "none" THEN "held" ELSE @]

(* The feed is read, the sale booked, and the sales window checked again.  *)
ReadFeed(s) ==
  /\ handler[s] = "received"
  /\ entry' = Recorded(s)
  /\ GoTo(s, IF ended THEN "settling" ELSE "minting")
  /\ UNCHANGED <<seatVars, checkout, consumed, tx, refunded, ended, hiccup, crashes>>

\* Mutant of FeedFails: without an event the handler returns.
FeedFailsReturns(s) ==
  /\ handler[s] = "received" /\ FeedMayFail
  /\ GoTo(s, "lost")
  /\ UNCHANGED <<seatVars, checkout, consumed, tx, refunded, entry, ended, hiccup,
                 crashes>>

(* The feed does not load: the series counts as unregistered, and nothing  *)
(* is minted.  The sale is booked all the same.                            *)
FeedFails(s) ==
  /\ handler[s] = "received" /\ FeedMayFail
  /\ hiccup' = hiccup \cup {<<s, "feed">>}
  /\ entry' = Recorded(s)
  /\ GoTo(s, "settling")
  /\ UNCHANGED <<seatVars, checkout, consumed, tx, refunded, ended, crashes>>

(* batchClaimFor is broadcast for all tickets at once ...                  *)
Broadcast(s) ==
  /\ handler[s] = "minting"
  /\ tx' = [tx EXCEPT ![s] = "pending"]
  /\ GoTo(s, "waiting")
  /\ UNCHANGED <<seatVars, checkout, consumed, refunded, entry, ended, hiccup, crashes>>

(* ... or the manifest or order blob is missing, or the node refuses the   *)
(* transaction.                                                            *)
BroadcastFails(s) ==
  /\ handler[s] = "minting"
  /\ GoTo(s, "settling")
  /\ UNCHANGED <<seatVars, checkout, consumed, tx, refunded, entry, ended, hiccup, crashes>>

(* The contract allocates all tickets or reverts: sold out, sales closed.  *)
Mine(s) ==
  /\ tx[s] = "pending"
  /\ IF minted + Tickets(s) <= Supply /\ ~ended
     THEN /\ minted' = minted + Tickets(s)
          /\ tx' = [tx EXCEPT ![s] = "mined"]
     ELSE /\ tx' = [tx EXCEPT ![s] = "reverted"]
          /\ UNCHANGED minted
  /\ UNCHANGED <<holds, dholds, lapsed, queue, ask, checkout, consumed, handler,
                 refunded, entry, ended, hiccup, crashes>>

\* Mutant of Settle: the hold is spent in memory only.
SettleUnsaved(s, unfilled) ==
  /\ GoTo(s, IF unfilled = 0 THEN "finished" ELSE "refunding")
  /\ IF HoldOf(s) # NoHold /\ holds[HoldOf(s)].state \in {"open", "released"}
     THEN holds' = [holds EXCEPT ![HoldOf(s)].state = "consumed"]
     ELSE UNCHANGED holds
  /\ UNCHANGED dholds

(* The hold is spent once the mint is decided, and what is missing will be *)
(* refunded.                                                               *)
Settle(s, unfilled) ==
  /\ Consume(HoldOf(s))
  /\ GoTo(s, IF unfilled = 0 THEN "finished" ELSE "refunding")

\* Mutant of Receipt: the slots in the receipt are not recognised.
ReceiptUnparsed(s) ==
  /\ handler[s] = "waiting" /\ tx[s] \in {"mined", "reverted"}
  /\ Settle(s, Tickets(s))
  /\ UNCHANGED <<lapsed, minted, queue, ask, checkout, consumed, tx, refunded, entry,
                 ended, hiccup, crashes>>

(* The receipt: all tickets, or none after a revert.                       *)
Receipt(s) ==
  /\ handler[s] = "waiting" /\ tx[s] \in {"mined", "reverted"}
  /\ Settle(s, IF tx[s] = "mined" THEN 0 ELSE Tickets(s))
  /\ UNCHANGED <<lapsed, minted, queue, ask, checkout, consumed, tx, refunded, entry,
                 ended, hiccup, crashes>>

\* Mutant of ReceiptFails: what was not heard of is sent again.
ReceiptFailsRetries(s) ==
  /\ handler[s] = "waiting" /\ ReceiptMayFail
  /\ hiccup' = hiccup \cup {<<s, "receipt">>}
  /\ GoTo(s, "minting")
  /\ UNCHANGED <<seatVars, checkout, consumed, tx, refunded, entry, ended, crashes>>

(* tx.wait throws for another reason: taken for a revert all the same.     *)
ReceiptFails(s) ==
  /\ handler[s] = "waiting" /\ ReceiptMayFail
  /\ hiccup' = hiccup \cup {<<s, "receipt">>}
  /\ Settle(s, Tickets(s))
  /\ UNCHANGED <<lapsed, minted, queue, ask, checkout, consumed, tx, refunded, entry,
                 ended, crashes>>

(* Nothing was broadcast: spend the hold and refund everything.            *)
SettleUnminted(s) ==
  /\ handler[s] = "settling"
  /\ Settle(s, Tickets(s))
  /\ UNCHANGED <<lapsed, minted, queue, ask, checkout, consumed, tx, refunded, entry,
                 ended, hiccup, crashes>>

(* Stripe executes the refund, whether or not its answer will arrive.      *)
RefundExecutes(s) ==
  /\ handler[s] = "refunding" /\ refunded[s] = 0
  /\ refunded' = [refunded EXCEPT ![s] = Tickets(s)]
  /\ UNCHANGED <<seatVars, checkout, consumed, handler, tx, entry, ended, hiccup, crashes>>

(* The refund is confirmed: the sale leaves the payout schedule.           *)
RefundReturns(s) ==
  /\ handler[s] = "refunding" /\ refunded[s] > 0
  /\ entry' = [entry EXCEPT ![s] = "void"]
  /\ GoTo(s, "finished")
  /\ UNCHANGED <<seatVars, checkout, consumed, tx, refunded, ended, hiccup, crashes>>

(* The refund throws: logged for manual intervention.                      *)
RefundFails(s) ==
  /\ handler[s] = "refunding"
  /\ GoTo(s, "unrefunded")
  /\ UNCHANGED <<seatVars, checkout, consumed, tx, refunded, entry, ended, hiccup, crashes>>

(* The process dies: running handlers are gone and nothing restarts them.  *)
Crash ==
  /\ crashes < MaxCrashes
  /\ crashes' = crashes + 1
  /\ SeatCrash
  /\ handler' = [s \in Sessions |-> IF handler[s] \in Running THEN "lost" ELSE handler[s]]
  /\ UNCHANGED <<checkout, consumed, tx, refunded, entry, ended, hiccup>>

-----------------------------------------------------------------------------
Handle(s) ==
  \/ ReadFeed(s) \/ FeedFails(s)
  \/ Broadcast(s) \/ BroadcastFails(s)
  \/ Receipt(s) \/ ReceiptFails(s) \/ SettleUnminted(s)
  \/ RefundReturns(s) \/ RefundFails(s)

Next ==
  \/ ~ended /\ ReserveCalls /\ UNCHANGED payVars
  \/ StoreSteps /\ UNCHANGED payVars
  \/ \E s \in Sessions :
       \/ \E h \in Holds : OpenWithHold(s, h)
       \/ \E q \in Quantities : OpenWalkIn(s, q)
       \/ Pay(s) \/ Expire(s)
       \/ Deliver(s) \/ Handle(s)
       \/ Mine(s) \/ RefundExecutes(s)
  \/ EventEnds
  \/ Crash

Spec == Init /\ [][Next]_vars

(* Stripe redelivers until it is answered, awaited calls come back, and a  *)
(* broadcast transaction is mined.                                         *)
FairSpec ==
  /\ Spec
  /\ \A s \in Sessions : WF_vars(Deliver(s)) /\ WF_vars(Handle(s)) /\ WF_vars(Mine(s))

-----------------------------------------------------------------------------
(* Properties.                                                             *)

Minted(s) == tx[s] = "mined"
Unheard(s) == <<s, "receipt">> \in hiccup

(* A buyer gets the tickets or the money back, never both (stripe.ts: "We  *)
(* keep whatever slotsForBurners has ... and refund the rest").            *)
NeverBoth == \A s \in Sessions : ~(Minted(s) /\ refunded[s] > 0)

(* Only an order whose receipt was never heard of is both minted and       *)
(* refunded: not a repeated delivery, a crash, a failed read or refund.    *)
BothOnlyUnheard == \A s \in Sessions : Minted(s) /\ refunded[s] > 0 => Unheard(s)

(* The contract's seats are those of the sessions that were minted, each   *)
(* once: repeated deliveries and restarts mint nothing twice.              *)
SeatsAddUp ==
  minted = SumFunctionOnSet([s \in Sessions |-> Tickets(s)], {s \in Sessions : Minted(s)})

(* A sale on its way to the chain is in the payout ledger, and stays there *)
(* when it is minted and heard of; a void one was refunded in full.        *)
LedgerFollowsSale ==
  \A s \in Sessions :
    /\ tx[s] \in {"pending", "mined"} => entry[s] = "held" \/ Unheard(s)
    /\ entry[s] = "void" => refunded[s] = Tickets(s)

(* No other browser is granted seats on the strength of a hold that was    *)
(* given up while its order was still being minted: the hold is spent only *)
(* after the mint is decided or not heard of (stripe.ts:1144-1150).        *)
HoldOutlivesMint ==
  [][\A h \in Holds :
       holds[h].state = "open" /\ holds'[h].state = "consumed"
         => \E s \in Sessions : /\ HoldOf(s) = h
                                /\ handler[s] \in {"waiting", "settling"}
                                /\ tx[s] # "pending" \/ Unheard(s)']_vars

(* A hold keeps its seats off the market: no order fails for lack of seats *)
(* while its own hold is alive (reservation-store.ts:4-6).                 *)
HolderIsServed ==
  \A s \in Sessions :
    handler[s] = "waiting" /\ tx[s] = "reverted" /\ ~ended
      => HoldOf(s) = NoHold \/ ~Active(HoldOf(s))

(* While every order rides on a live hold, a grant leaves room for what is *)
(* minted and held (reservation-store.ts:12-15, "reserve, consume, release *)
(* are serialised per-series").                                            *)
Punctual ==
  /\ lapsed = {}
  /\ \A h \in Holds : holds[h].state \in {"unused", "open", "consumed"}
GrantFits ==
  [][Punctual /\ (\E h \in Holds : holds[h].state = "unused" /\ holds'[h].state = "open")
       => (HeldFor + minted)' <= Supply]_vars

(* A feed that cannot be read never turns a paid order into a refund       *)
(* (stripe.ts: "a feed hiccup or odd dates must never turn a paid mint     *)
(* into a refund").                                                        *)
HiccupNeverRefunds == \A s \in Sessions : <<s, "feed">> \in hiccup => refunded[s] = 0

(* A consumed payment is not dropped: a handler works on it, or it ended   *)
(* in tickets, a refund or a refund logged as failed (stripe.ts: "Errors   *)
(* are logged; unrecoverable failures auto-refund inside the handler").    *)
NoPaymentDropped ==
  \A s \in consumed :
    handler[s] \in Running \cup {"finished", "unrefunded"} \/ refunded[s] > 0

(* Seen from the seat holds, checkouts and mints only spend holds and take *)
(* free seats: the composition implements the store of module SeatHolds.   *)
KeepsSeatSpec == SeatSpec

(* Every payment is eventually settled: tickets, a refund, or a failed     *)
(* refund on the log; only a crash in the middle of it leaves one lost.    *)
PaidIsSettled ==
  \A s \in Sessions :
    checkout[s].stage = "paid"
      ~> \/ handler[s] \in {"finished", "unrefunded"}
         \/ handler[s] = "lost" /\ crashes > 0

-----------------------------------------------------------------------------
(* The inductive invariants.  SaleIInv: what the place of a handler says   *)
(* about its session, its transaction and its ledger entry, over the       *)
(* invariant of the seat holds.  PayIInv adds the refund: it is sent only  *)
(* when no transaction can mint any more, or its receipt was not heard of. *)
PlaceInv ==
  \A s \in Sessions :
    /\ s \in consumed <=> handler[s] # "none"
    /\ s \in consumed => checkout[s].stage = "paid"
    /\ checkout[s].stage # "none" => Tickets(s) \in Quantities
    /\ handler[s] \in {"none", "received"} => entry[s] = "none"
    /\ handler[s] \in {"none", "received", "minting", "settling"} => tx[s] = "none"
    /\ handler[s] \in {"minting", "waiting", "settling"} => entry[s] = "held"
SaleIInv == SeatIInv /\ TypeOK /\ PlaceInv

Decided(s) == tx[s] \in {"none", "reverted"}
RefundInv ==
  \A s \in Sessions :
    /\ Unheard(s) => ReceiptMayFail
    /\ handler[s] = "refunding" => Decided(s) \/ Unheard(s)
    /\ refunded[s] # 0 => /\ handler[s] \in {"refunding", "finished", "unrefunded", "lost"}
                          /\ Decided(s) \/ Unheard(s)
                          /\ refunded[s] = Tickets(s)
PayIInv == SaleIInv /\ RefundInv /\ LedgerFollowsSale
==============================================================================
