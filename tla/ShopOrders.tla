----------------------------- MODULE ShopOrders -----------------------------
(***************************************************************************)
(* The orders of one shop and the three ways to pay for one: by card, by a *)
(* USDC transfer the buyer sends, by a draw on a spend permission.         *)
(*                                                                         *)
(*   lib/shop/service.ts           the order log, paged, under a lock      *)
(*   routes/shops.ts               place, pay-crypto, pay-spend-permission *)
(*   lib/shop/spend-permission.ts  drawSpendPermission                     *)
(*   lib/payment/tx-registry.ts    checkAndConsumeTxHash                   *)
(*   routes/stripe.ts              handleShopOrderPaid                     *)
(*                                                                         *)
(* Every order costs one unit. A settlement reads the order, moves or      *)
(* checks the money, and patches the order: three awaits apart.            *)
(***************************************************************************)
EXTENDS Integers, SequencesExt, FiniteSetsExt

CONSTANTS
  Orders, Txs,
  PageSize,    \* orders that fit one page of the feed
  Cap,         \* what the attendee granted
  MaxFaults,   \* bound: restarts, failed reads and writes of the log
  MaxMarks,    \* bound: changes of status by the owner
  MaxRequests, \* bound: requests to pay, card charges included
  NoTx, NoJob, NoOrder

Statuses == {"pending", "paid", "fulfilled", "cancelled"}
Card(o) == [rail |-> "card", order |-> o, tx |-> NoTx]
Draw(o) == [rail |-> "draw", order |-> o, tx |-> NoTx]
Transfer(o, t) == [rail |-> "tx", order |-> o, tx |-> t]
Pays == {Card(o) : o \in Orders} \union {Draw(o) : o \in Orders}
        \union {Transfer(o, t) : o \in Orders, t \in Txs}
Unpaid == [rail |-> "none", order |-> NoOrder, tx |-> NoTx]
Item == [id: Orders, status: Statuses, by: Pays \union {Unpaid}]
Op == [order: Orders, status: Statuses, by: Pays \union {Unpaid}]
\* A write whose first page is out: the next page, counted from nought.
Job == [op: Op, next: Nat \ {0}, pages: Seq(Seq(Item))]

ASSUME ShopAssumption ==
  /\ IsFiniteSet(Orders)
  /\ PageSize \in Nat \ {0} /\ Cap \in Nat
  /\ MaxFaults \in Nat /\ MaxMarks \in Nat /\ MaxRequests \in Nat
  /\ NoTx \notin Txs /\ NoOrder \notin Orders
  /\ NoJob \notin Job

VARIABLES
  feed, last,   \* the pages written; the overflow pages that page 0 counts
  writes, job,  \* writes that wait for the shop's lock; the one that has it
  acked,        \* orders whose placing was acknowledged (history)
  torn,         \* a write ended between two pages (history)
  step,         \* where each settlement is
  onChain,      \* the buyers' transfers to the merchant
  usedTxs,      \* consumed-tx-hashes.json
  settled,      \* shop-settled-orders.json
  spent, revoked,   \* the permission, in shop-spend-permissions.json
  drawing,      \* the order whose draw holds the permission's lock
  drawn,        \* draws executed on chain, per order
  floating,     \* draws sent that the server no longer waits for, per order
  lost,         \* draws whose outcome the server did not learn (history)
  faults, marks, requests

bounds == <<faults, marks, requests>>
log == <<feed, last, writes, job, acked, torn>>
permission == <<settled, spent, revoked, drawing>>
chain == <<onChain, drawn, floating, lost>>
shopVars == <<log, step, usedTxs, permission, chain, bounds>>

Steps == {"idle", "charged", "read", "wait", "checked", "sent", "mined",
          "flip", "done"}

ShopTypeOK ==
  /\ DOMAIN feed \in SUBSET Nat /\ feed \in [DOMAIN feed -> Seq(Item)] /\ last \in Nat
  /\ writes \in Seq(Op)
  /\ job # NoJob => job \in Job /\ job.next < Len(job.pages)
  /\ acked \subseteq Orders /\ torn \in BOOLEAN
  /\ step \in [Pays -> Steps]
  /\ usedTxs \subseteq onChain /\ onChain \subseteq Txs
  /\ settled \subseteq Orders /\ spent \in 0..Cap /\ revoked \in BOOLEAN
  /\ drawing \in Orders \union {NoOrder}
  /\ drawn \in [Orders -> Nat] /\ floating \in [Orders -> Nat] /\ lost \in [Orders -> Nat]

ShopInit ==
  /\ feed = [p \in {0} |-> <<>>] /\ last = 0
  /\ writes = <<>> /\ job = NoJob /\ acked = {} /\ torn = FALSE
  /\ step = [p \in Pays |-> "idle"]
  /\ onChain = {} /\ usedTxs = {}
  /\ settled = {} /\ spent = 0 /\ revoked = FALSE /\ drawing = NoOrder
  /\ drawn = [o \in Orders |-> 0] /\ floating = drawn /\ lost = drawn
  /\ faults = 0 /\ marks = 0 /\ requests = 0

-----------------------------------------------------------------------------
(* The order log, newest first. *)

Page(p) == IF p \in DOMAIN feed THEN feed[p] ELSE <<>>
Log == FlattenSeq([p \in 1..last + 1 |-> Page(p - 1)])
Ids(orders) == {orders[i].id : i \in DOMAIN orders}
Status(o) == IF o \in Ids(Log) THEN Log[CHOOSE i \in DOMAIN Log : Log[i].id = o].status
             ELSE "absent"

Placed(o) == [id |-> o, status |-> "pending", by |-> Unpaid]

Split(orders) ==
  [p \in 1..Max({1, (Len(orders) + PageSize - 1) \div PageSize}) |->
     SubSeq(orders, (p - 1) * PageSize + 1, Min({p * PageSize, Len(orders)}))]

\* updateOrder looks at nothing but the id: the status it finds is overwritten.
FoundAt(orders, i, o) == orders[i].id = o /\ \A j \in 1..(i - 1) : orders[j].id # o
Patched(orders, op) ==
  [i \in DOMAIN orders |->
     IF ~FoundAt(orders, i, op.order) THEN orders[i]
     ELSE [orders[i] EXCEPT !.status = op.status,
                            !.by = IF op.by = Unpaid THEN @ ELSE op.by]]

Enqueue(op) == writes' = Append(writes, op)
Flip(p) == Enqueue([order |-> p.order, status |-> "paid", by |-> p])

\* What the settlement's request answers, once its write ended well or badly.
Answered(op) ==
  step' = IF op.by = Unpaid THEN step
          ELSE [step EXCEPT ![op.by] = IF op.by.rail = "card" THEN "done" ELSE "idle"]

Ends(op) ==
  /\ Answered(op)
  /\ acked' = IF op.status = "pending" THEN acked \union {op.order} ELSE acked

Settling == <<usedTxs, permission, chain>>

LenientReads == {Log, <<>>}
\* What readPagedFeedStrict may return under the lock: the whole log. An error
\* is WriteFails.
StrictReads == {Log}

\* What the log becomes; nothing, when updateOrder does not find the order.
NewLog(orders, op) ==
  IF op.status = "pending" THEN <<Placed(op.order)>> \o orders ELSE Patched(orders, op)
Applies(orders, op) == op.status = "pending" \/ op.order \in Ids(orders)

WritePage(p, items) ==
  feed' = [q \in DOMAIN feed \union {p} |-> IF q = p THEN items ELSE feed[q]]

\* The read and the first page: readers see nothing between the two.
FirstPage ==
  /\ job = NoJob /\ writes # <<>> /\ writes' = Tail(writes)
  /\ \E orders \in StrictReads :
       LET op == Head(writes)
           pages == Split(NewLog(orders, op))
       IN  \/ /\ Applies(orders, op)
              /\ WritePage(0, pages[1]) /\ last' = Len(pages) - 1
              /\ IF Len(pages) = 1 THEN job' = NoJob /\ Ends(op)
                 ELSE /\ job' = [op |-> op, next |-> 1, pages |-> pages]
                      /\ UNCHANGED <<acked, step>>
           \/ /\ ~Applies(orders, op) /\ Answered(op)
              /\ UNCHANGED <<feed, last, job, acked>>
  /\ UNCHANGED <<torn, Settling, bounds>>

NextPage ==
  /\ job # NoJob
  /\ WritePage(job.next, job.pages[job.next + 1])
  /\ IF job.next + 1 < Len(job.pages)
     THEN job' = [job EXCEPT !.next = @ + 1] /\ UNCHANGED <<acked, step>>
     ELSE job' = NoJob /\ Ends(job.op)
  /\ UNCHANGED <<last, writes, torn, Settling, bounds>>

\* The read before a write, or the write of a page, throws.
WriteFails ==
  /\ faults < MaxFaults /\ faults' = faults + 1
  /\ \/ /\ job # NoJob /\ job' = NoJob /\ torn' = TRUE
        /\ Answered(job.op) /\ UNCHANGED writes
     \/ /\ job = NoJob /\ writes # <<>> /\ writes' = Tail(writes)
        /\ Answered(Head(writes)) /\ UNCHANGED <<job, torn>>
  /\ UNCHANGED <<feed, last, acked, Settling, marks, requests>>

Place(o) ==
  /\ o \notin Ids(Log) \union acked
  /\ \A i \in DOMAIN writes : writes[i].order # o
  /\ job # NoJob => job.op.order # o
  /\ Enqueue([order |-> o, status |-> "pending", by |-> Unpaid])
  /\ UNCHANGED <<feed, last, job, acked, torn, step, Settling, bounds>>

\* Fulfilled or cancelled, from any status.
MarkOrder(o, status) ==
  /\ marks < MaxMarks /\ marks' = marks + 1
  /\ o \in acked
  /\ Enqueue([order |-> o, status |-> status, by |-> Unpaid])
  /\ UNCHANGED <<feed, last, job, acked, torn, step, Settling, faults, requests>>

-----------------------------------------------------------------------------
(* By card. *)

\* A session is opened while the order is pending, and paid at any time later.
Charge(o) ==
  /\ requests < MaxRequests /\ requests' = requests + 1
  /\ step[Card(o)] = "idle" /\ o \in acked
  /\ step' = [step EXCEPT ![Card(o)] = "charged"]
  /\ UNCHANGED <<log, Settling, faults, marks>>

\* The session is consumed before the order is read; a read that fails or
\* finds nothing leaves the charge without its order.
WebhookReads(o) ==
  /\ step[Card(o)] = "charged"
  /\ step' = [step EXCEPT ![Card(o)] = IF Status(o) = "pending" THEN "flip" ELSE "done"]
  /\ IF Status(o) = "pending" THEN Flip(Card(o)) ELSE UNCHANGED writes
  /\ UNCHANGED <<feed, last, job, acked, torn, Settling, bounds>>

WebhookMisses(o) ==
  /\ step[Card(o)] = "charged" /\ faults < MaxFaults /\ faults' = faults + 1
  /\ step' = [step EXCEPT ![Card(o)] = "done"]
  /\ UNCHANGED <<log, Settling, marks, requests>>

-----------------------------------------------------------------------------
(* By a transfer. The quote names the order; the transfer names nothing. *)

SendTransfer(t) ==
  /\ t \notin onChain
  /\ onChain' = onChain \union {t}
  /\ UNCHANGED <<log, step, usedTxs, permission, drawn, floating, lost, bounds>>

PayCrypto(o, t) ==
  /\ requests < MaxRequests /\ requests' = requests + 1
  /\ step[Transfer(o, t)] = "idle" /\ Status(o) = "pending" /\ t \in onChain
  /\ step' = [step EXCEPT ![Transfer(o, t)] = "read"]
  /\ UNCHANGED <<log, Settling, faults, marks>>

TakenByOrder(t) == \E i \in DOMAIN Log : Log[i].by.tx = t
\* checkAndConsumeTxHash, in one go, after the transfer was verified.
Taken(t) == t \in usedTxs
TakeTransfer(o, t) ==
  LET p == Transfer(o, t)
  IN  /\ step[p] = "read"
      /\ IF Taken(t)
         THEN step' = [step EXCEPT ![p] = "idle"] /\ UNCHANGED <<writes, usedTxs>>
         ELSE /\ step' = [step EXCEPT ![p] = "flip"]
              /\ usedTxs' = usedTxs \union {t} /\ Flip(p)
      /\ UNCHANGED <<feed, last, job, acked, torn, permission, chain, bounds>>

-----------------------------------------------------------------------------
(* By a draw. *)

\* settlingOrders keeps a second settlement of the order out.
PaySpend(o) ==
  /\ requests < MaxRequests /\ requests' = requests + 1
  /\ step[Draw(o)] = "idle" /\ Status(o) = "pending"
  /\ step' = [step EXCEPT ![Draw(o)] = "wait"]
  /\ UNCHANGED <<log, Settling, faults, marks>>

PermissionUnlocked == TRUE
PermissionFree == drawing = NoOrder
Allowed == ~revoked /\ spent + 1 <= Cap

DrawCheck(o) ==
  /\ step[Draw(o)] = "wait" /\ PermissionFree
  /\ \/ /\ o \in settled
        /\ step' = [step EXCEPT ![Draw(o)] = "flip"] /\ Flip(Draw(o))
        /\ UNCHANGED drawing
     \/ /\ o \notin settled /\ ~Allowed
        /\ step' = [step EXCEPT ![Draw(o)] = "idle"] /\ UNCHANGED <<writes, drawing>>
     \/ /\ o \notin settled /\ Allowed
        /\ step' = [step EXCEPT ![Draw(o)] = "checked"] /\ drawing' = o
        /\ UNCHANGED writes
  /\ UNCHANGED <<feed, last, job, acked, torn, usedTxs, settled, spent, revoked, chain,
                 bounds>>

DrawSend(o) ==
  /\ step[Draw(o)] = "checked"
  /\ step' = [step EXCEPT ![Draw(o)] = "sent"]
  /\ UNCHANGED <<log, Settling, bounds>>

DrawExecutes(o) ==
  /\ \/ /\ step[Draw(o)] = "sent"
        /\ step' = [step EXCEPT ![Draw(o)] = "mined"] /\ UNCHANGED floating
     \/ /\ floating[o] > 0
        /\ floating' = [floating EXCEPT ![o] = @ - 1] /\ UNCHANGED step
  /\ drawn' = [drawn EXCEPT ![o] = @ + 1]
  /\ UNCHANGED <<log, usedTxs, permission, onChain, lost, bounds>>

DrawRecord(o) ==
  /\ step[Draw(o)] = "mined"
  /\ settled' = settled \union {o} /\ spent' = spent + 1 /\ drawing' = NoOrder
  /\ step' = [step EXCEPT ![Draw(o)] = "flip"] /\ Flip(Draw(o))
  /\ UNCHANGED <<feed, last, job, acked, torn, usedTxs, revoked, chain, bounds>>

\* No account, no answer, or no confirmation in time: nothing is recorded.
DrawGivesUp(o) ==
  /\ step[Draw(o)] \in {"checked", "sent", "mined"}
  /\ step' = [step EXCEPT ![Draw(o)] = "idle"] /\ drawing' = NoOrder
  /\ floating' = [floating EXCEPT ![o] = @ + (IF step[Draw(o)] = "sent" THEN 1 ELSE 0)]
  /\ lost' = [lost EXCEPT ![o] = @ + (IF step[Draw(o)] = "checked" THEN 0 ELSE 1)]
  /\ UNCHANGED <<log, usedTxs, settled, spent, revoked, onChain, drawn, bounds>>

Revoke ==
  /\ ~revoked /\ revoked' = TRUE
  /\ UNCHANGED <<log, step, usedTxs, settled, spent, drawing, chain, bounds>>

-----------------------------------------------------------------------------
(* A restart forgets every request; the files stay, and Stripe's sessions. *)

Restart ==
  /\ faults < MaxFaults /\ faults' = faults + 1
  /\ writes' = <<>> /\ job' = NoJob
  /\ torn' = (torn \/ job # NoJob)
  /\ step' = [p \in Pays |->
                IF p.rail # "card" THEN "idle"
                ELSE IF step[p] = "flip" THEN "done" ELSE step[p]]
  /\ drawing' = NoOrder
  /\ floating' = [o \in Orders |-> floating[o] + (IF step[Draw(o)] = "sent" THEN 1 ELSE 0)]
  /\ lost' = [o \in Orders |->
                lost[o] + (IF step[Draw(o)] \in {"sent", "mined"} THEN 1 ELSE 0)]
  /\ UNCHANGED <<feed, last, acked, usedTxs, settled, spent, revoked, onChain, drawn, marks, requests>>

ShopNext ==
  \/ FirstPage \/ NextPage \/ WriteFails \/ Revoke \/ Restart
  \/ \E o \in Orders :
       \/ Place(o) \/ \E status \in {"fulfilled", "cancelled"} : MarkOrder(o, status)
       \/ Charge(o) \/ WebhookReads(o) \/ WebhookMisses(o)
       \/ PaySpend(o) \/ DrawCheck(o) \/ DrawSend(o) \/ DrawExecutes(o)
       \/ DrawRecord(o) \/ DrawGivesUp(o)
       \/ \E t \in Txs : PayCrypto(o, t) \/ TakeTransfer(o, t)
  \/ \E t \in Txs : SendTransfer(t)

ShopSpec == ShopInit /\ [][ShopNext]_shopVars
-----------------------------------------------------------------------------
Moved(p) ==
  \/ p.rail = "card" /\ step[p] \in {"charged", "flip", "done"}
  \/ p.rail = "tx" /\ p.tx \in onChain
  \/ p.rail = "draw" /\ drawn[p.order] > 0

\* An order that names its payment was paid by it, and no transfer counts for
\* two orders, however the requests for them overlap, fail and are retried.
PaidByItsOwn ==
  /\ \A i \in DOMAIN Log : Log[i].by # Unpaid => Log[i].by.order = Log[i].id /\ Moved(Log[i].by)
  /\ \A i, j \in DOMAIN Log : Log[i].by.tx = Log[j].by.tx /\ Log[i].id # Log[j].id
                              => Log[i].by.tx = NoTx

\* A draw that the server saw through is the only one of its order, and the
\* attendee pays no more than the cap, beyond the draws whose outcome the
\* server never learnt; retries, other orders and restarts add none.
DrawsAccounted ==
  /\ \A o \in Orders : drawn[o] + floating[o] <= lost[o] + 1
  /\ SumFunction([o \in Orders |-> drawn[o] + floating[o] - lost[o]]) <= Cap

\* No acknowledged order leaves the log, unless a write ended between pages.
OrdersKept == job = NoJob /\ ~torn => acked \subseteq Ids(Log)

\* stripe.ts: the check of the status keeps a cancelled order from being revived.
StaysCancelled ==
  [][\A o \in Orders : Status(o) = "cancelled" => Status(o)' # "paid"]_shopVars

\* spend-permission.ts: a revoked permission is never drawn against again.
RevokedIsFinal == [][\A o \in Orders : revoked /\ step[Draw(o)] # "sent" => step'[Draw(o)] # "sent"]_shopVars

\* spend-permission.ts: a draw is one-shot per order.
DrawnOnce == \A o \in Orders : drawn[o] <= 1
=============================================================================
