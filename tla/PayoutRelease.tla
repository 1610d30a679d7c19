---------------------------- MODULE PayoutRelease ----------------------------
(***************************************************************************)
(* The post-event payout release engine of one organiser's connected       *)
(* Stripe account: the ledger of held sales (payout-ledger.ts), the        *)
(* write-ahead journal of payout intents (payout-intents.ts) and the       *)
(* hourly sweep that ties them to Stripe (payout-release.ts), all under    *)
(* apps/server/src/lib/stripe.                                             *)
(*                                                                         *)
(* The server is one Node process.  Code between two awaits is one action; *)
(* every await (a call to Stripe) is a point where other work, a refund, a *)
(* crash or the clock may intervene.  Both stores live in memory and are   *)
(* mirrored to disk after each change; a crash keeps only the disk.        *)
(*                                                                         *)
(* Sales are numbered by recordedAt, the order byAge sorts by, and time    *)
(* counts the hours between sweeps.                                        *)
(***************************************************************************)
EXTENDS Integers, FiniteSets
LOCAL INSTANCE FiniteSetsExt

CONSTANTS
  Sales,          \* paid Checkout Sessions, numbered by age
  Currencies,     \* the currencies the account has a balance in
  Charged,        \* [Sales -> Currencies]: the presentment currency
  SettlesIn,      \* [Sales -> Currencies]: the currency Stripe settles in
  Net,            \* [Sales -> Nat]: what lands in the account for the sale
  EventDue,       \* [Sales -> Nat]: releaseAfter, event end plus grace
  CeilingDue,     \* [Sales -> Nat]: Stripe's country hold ceiling
  ReplayWindow,   \* REPLAY_WINDOW_MS, in hours
  KeyLife,        \* hours Stripe remembers an idempotency key
  Sweeps,         \* sweep activations that may be alive at once
  Overlap,        \* TRUE: a sweep may outlive the hour until the next one
  DiskMayFail,    \* TRUE: writeJsonAtomic may return false
  NoIntent,       \* no journal entry for a currency
  MaxRefunds,     \* bound on the refunds, for model checking
  MaxTime         \* bound on the clock, for model checking

ASSUME SalesAssumption == Sales \subseteq Nat
ASSUME CurrencyAssumption ==
  /\ Charged \in [Sales -> Currencies]
  /\ SettlesIn \in [Sales -> Currencies]
ASSUME AmountAssumption == Net \in [Sales -> Int]
ASSUME TimeAssumption ==
  /\ EventDue \in [Sales -> Nat]
  /\ CeilingDue \in [Sales -> Nat]
  /\ ReplayWindow \in Nat
  /\ KeyLife \in Nat
  /\ MaxTime \in Nat
  /\ MaxRefunds \in Nat
ASSUME SwitchAssumption == Overlap \in BOOLEAN /\ DiskMayFail \in BOOLEAN

VARIABLES
  now,        \* the current hour
  sold,       \* sales whose webhook was consumed (session-registry)
  net,        \* Stripe's truth: net of each sale, refunds deducted
  opening,    \* net as it stood when the current hour began
  funded,     \* sales whose funds left Stripe's pending balance
  payouts,    \* payouts Stripe has executed
  wire,       \* createPayout requests Stripe has not executed yet
  led,        \* payout-ledger.ts: store, in memory
  dled,       \* its file
  intent,     \* payout-intents.ts: store, in memory
  dintent,    \* its file
  pc,         \* where each sweep awaits
  at,         \* the `now` a sweep was started with
  groups,     \* the held sales a sweep snapshotted, by currency
  work,       \* currencies the sweep has not visited yet
  cur,        \* the currency being released
  todo,       \* due sales whose net is not resolved yet
  nets,       \* resolved nets of the payable sales
  pend        \* the intent being settled or paid

stripe == <<net, funded, payouts, wire>>
stores == <<led, dled, intent, dintent>>
locals == <<groups, work, cur, todo, nets, pend>>
vars == <<now, sold, opening, stripe, stores, pc, at, locals>>

Statuses == {"none", "held", "released", "void"}
Entry == [status : Statuses, currency : Currencies, forced : BOOLEAN]
Amounts == [Sales -> Int]
Intent == [nets : Amounts, forced : SUBSET Sales, createdAt : Nat]
ASSUME NoIntentAssumption == NoIntent \notin Intent
Payout == [currency : Currencies, nets : Amounts, at : Nat]
Request == [currency : Currencies, nets : Amounts]
Steps == {"idle", "groups", "lookup", "replaying", "resolve", "balance", "paying"}

WorldType ==
  /\ now \in Nat
  /\ sold \subseteq Sales
  /\ net \in [Sales -> Int] /\ opening \in [Sales -> Int]
  /\ funded \subseteq Sales
  /\ payouts \subseteq Payout
  /\ wire \subseteq Request
StoreType ==
  /\ led \in [Sales -> Entry] /\ dled \in [Sales -> Entry]
  /\ intent \in [Currencies -> Intent \cup {NoIntent}]
  /\ dintent \in [Currencies -> Intent \cup {NoIntent}]
SweepType ==
  /\ pc \in [Sweeps -> Steps]
  /\ at \in [Sweeps -> Nat]
  /\ groups \in [Sweeps -> [Currencies -> SUBSET Sales]]
  /\ work \in [Sweeps -> SUBSET Currencies]
  /\ cur \in [Sweeps -> Currencies]
  /\ todo \in [Sweeps -> SUBSET Sales]
  /\ nets \in [Sweeps -> Amounts]
  /\ pend \in [Sweeps -> Intent \cup {NoIntent}]
  /\ \A w \in Sweeps : pc[w] \in {"lookup", "replaying", "paying"}
                         => pend[w] # NoIntent

(* The type of every variable of the stores, the sweeps and their world.   *)
TypeOK == WorldType /\ StoreType /\ SweepType

Init ==
  /\ now = 0
  /\ sold = {} /\ funded = {}
  /\ net = Net /\ opening = Net
  /\ payouts = {} /\ wire = {}
  /\ led = [s \in Sales |->
              [status |-> "none", currency |-> Charged[s], forced |-> FALSE]]
  /\ dled = led
  /\ intent = [c \in Currencies |-> NoIntent]
  /\ dintent = intent
  /\ pc = [w \in Sweeps |-> "idle"]
  /\ at = [w \in Sweeps |-> 0]
  /\ groups = [w \in Sweeps |-> [c \in Currencies |-> {}]]
  /\ work = [w \in Sweeps |-> {}]
  /\ cur \in [Sweeps -> Currencies]
  /\ todo = [w \in Sweeps |-> {}]
  /\ nets = [w \in Sweeps |-> [s \in Sales |-> 0]]
  /\ pend = [w \in Sweeps |-> NoIntent]

-----------------------------------------------------------------------------
(* Helpers.                                                                *)

(* Only a positive net is payable, so a payout is the function from its    *)
(* sales to their nets, 0 elsewhere; Stripe sees its total.                *)
NoNets == [s \in Sales |-> 0]
Total(f) == MapThenSumSet(LAMBDA s : f[s], Sales)

(* The idempotency key is a digest of the sorted session ids: the set.     *)
KeyOf(f) == {s \in Sales : f[s] > 0}

(* A store is in memory first; its file follows unless the write fails.    *)
Persist(disk, memory) == {memory} \cup (IF DiskMayFail THEN {disk} ELSE {})

(* The account's available balance: what settled, less what was paid out.  *)
Available(c) ==
  MapThenSumSet(LAMBDA s : net[s], {s \in funded : SettlesIn[s] = c})
    - MapThenSumSet(LAMBDA p : Total(p.nets), {p \in payouts : p.currency = c})

EventOver(s, t) == t >= EventDue[s]
IsDue(s, t) == EventOver(s, t) \/ t >= CeilingDue[s]

(* One write for the whole set of a payout (markManyReleased).             *)
MarkManyReleased(i) ==
  [s \in Sales |->
     IF s \in KeyOf(i.nets)
     THEN [led[s] EXCEPT !.status = "released", !.forced = @ \/ s \in i.forced]
     ELSE led[s]]
MarkVoid(s) == [led EXCEPT ![s].status = "void"]

(* The oldest-first prefix of the resolved sales that fits the balance.    *)
FittingPrefix(f, available) ==
  {s \in KeyOf(f) :
     MapThenSumSet(LAMBDA r : f[r], {r \in Sales : r <= s}) <= available}

IsOldest(s, S) == \A r \in S : s <= r

(* The body of one group is over: the sweep goes on to the next, or ends.  *)
EndGroup(w) ==
  /\ work' = [work EXCEPT ![w] = @ \ {cur[w]}]
  /\ pc' = [pc EXCEPT ![w] = IF work[w] \subseteq {cur[w]} THEN "idle" ELSE "groups"]
  /\ todo' = [todo EXCEPT ![w] = {}]
  /\ nets' = [nets EXCEPT ![w] = NoNets]
  /\ pend' = [pend EXCEPT ![w] = NoIntent]
  /\ UNCHANGED <<groups, cur>>

\* Mutant of BeginSelection: every held sale of the group enters selection, due or not.
BeginSelectionUndue(w, c, l) ==
  /\ pc' = [pc EXCEPT ![w] = "resolve"]
  /\ todo' = [todo EXCEPT ![w] = {s \in groups[w][c] : l[s].status = "held"}]
  /\ todo'[w] # {}
  /\ UNCHANGED work

(* The entries still held in ledger l that are due enter selection.  Both  *)
(* the filter and the due test follow one another without an await that    *)
(* reads state (accountCountry only picks the ceiling).                    *)
BeginSelection(w, c, l) ==
  LET due == {s \in groups[w][c] : l[s].status = "held" /\ IsDue(s, at[w])}
  IN IF due = {}
     THEN /\ work' = [work EXCEPT ![w] = @ \ {c}]
          /\ pc' = [pc EXCEPT ![w] = IF work[w] \subseteq {c} THEN "idle" ELSE "groups"]
          /\ todo' = [todo EXCEPT ![w] = {}]
     ELSE /\ pc' = [pc EXCEPT ![w] = "resolve"]
          /\ todo' = [todo EXCEPT ![w] = due]
          /\ UNCHANGED work

-----------------------------------------------------------------------------
(* The world around the engine: the clock, checkouts, refunds and Stripe.  *)

(* An hour passes.  A request still unexecuted by then has been lost, and  *)
(* unless sweeps may overlap the running sweep ends within its hour.       *)
Tick ==
  /\ now < MaxTime
  /\ Overlap \/ \A w \in Sweeps : pc[w] = "idle"
  /\ now' = now + 1
  /\ opening' = net
  /\ wire' = {}
  /\ UNCHANGED <<sold, net, funded, payouts, stores, pc, at, locals>>

(* recordHeld: the webhook books the sale.  The session registry lets one  *)
(* delivery through, and recordHeld ignores a session it already has.      *)
RecordHeld(s) ==
  /\ s \notin sold
  /\ \A r \in Sales : r < s => r \in sold
  /\ sold' = sold \cup {s}
  /\ led' = [led EXCEPT ![s].status = "held"]
  /\ dled' \in Persist(dled, led')
  /\ UNCHANGED <<now, opening, stripe, intent, dintent, pc, at, locals>>

(* The buyer is refunded one unit of the sale, at any time.                *)
Refund(s) ==
  /\ s \in sold /\ net[s] > 0
  /\ Total(Net) - Total(net) < MaxRefunds
  /\ net' = [net EXCEPT ![s] = @ - 1]
  /\ UNCHANGED <<now, sold, opening, funded, payouts, wire, stores, pc, at, locals>>

(* A checkout that claimed no ticket voids its refunded sale.  markVoid    *)
(* does not look at the status it overwrites.                              *)
VoidSale(s) ==
  /\ led[s].status # "none" /\ net[s] <= 0
  /\ led' = MarkVoid(s)
  /\ dled' \in Persist(dled, led')
  /\ UNCHANGED <<now, sold, opening, stripe, intent, dintent, pc, at, locals>>

(* Stripe moves the sale's funds from pending to available.                *)
Fund(s) ==
  /\ s \in sold \ funded
  /\ funded' = funded \cup {s}
  /\ UNCHANGED <<now, sold, opening, net, payouts, wire, stores, pc, at, locals>>

(* Stripe executes a request.  A key it remembers creates nothing new; a   *)
(* payout beyond the available balance is rejected.                        *)
Deliver(r) ==
  /\ wire' = wire \ {r}
  /\ payouts' =
       IF \/ \E p \in payouts : KeyOf(p.nets) = KeyOf(r.nets) /\ now < p.at + KeyLife
          \/ Total(r.nets) > Available(r.currency)
       THEN payouts
       ELSE payouts \cup {[currency |-> r.currency, nets |-> r.nets, at |-> now]}
  /\ UNCHANGED <<now, sold, opening, net, funded, stores, pc, at, locals>>

(* The process dies and restarts: memory is reloaded from the files l and  *)
(* i, and the next sweep is an hour after boot.  Requests stay on the wire. *)
Restart(l, i) ==
  /\ dled' = l /\ led' = l
  /\ dintent' = i /\ intent' = i
  /\ pc' = [w \in Sweeps |-> "idle"]
  /\ at' = [w \in Sweeps |-> now]
  /\ work' = [w \in Sweeps |-> {}]
  /\ todo' = [w \in Sweeps |-> {}]
  /\ nets' = [w \in Sweeps |-> NoNets]
  /\ pend' = [w \in Sweeps |-> NoIntent]
  /\ UNCHANGED <<now, sold, opening, stripe, groups, cur>>

Crash == Restart(dled, dintent)

-----------------------------------------------------------------------------
(* The sweep.                                                              *)

(* The hourly timer fires: group every held entry by payout currency, and  *)
(* add the groups that only have a pending intent.                         *)
StartSweep(w) ==
  /\ pc[w] = "idle"
  /\ Overlap \/ \A v \in Sweeps : pc[v] = "idle"
  /\ \A v \in Sweeps : at[v] < now
  /\ at' = [at EXCEPT ![w] = now]
  /\ LET held(c) == {s \in Sales : led[s].status = "held" /\ led[s].currency = c}
         visit == {c \in Currencies : held(c) # {} \/ intent[c] # NoIntent}
     IN /\ groups' = [groups EXCEPT ![w] = [c \in Currencies |-> held(c)]]
        /\ work' = [work EXCEPT ![w] = visit]
        /\ pc' = [pc EXCEPT ![w] = IF visit = {} THEN "idle" ELSE "groups"]
  /\ UNCHANGED <<now, sold, opening, stripe, stores, cur, todo, nets, pend>>

\* Mutant of BeginGroup: a pending intent does not hold up new selection.
BeginGroupIgnoresIntent(w, c) ==
  /\ pc[w] = "groups" /\ c \in work[w]
  /\ cur' = [cur EXCEPT ![w] = c]
  /\ BeginSelection(w, c, led)
  /\ UNCHANGED <<now, sold, opening, stripe, stores, at, groups, nets, pend>>

(* releaseForAccount: a pending intent must settle before any selection.   *)
BeginGroup(w, c) ==
  /\ pc[w] = "groups" /\ c \in work[w]
  /\ cur' = [cur EXCEPT ![w] = c]
  /\ IF intent[c] # NoIntent
     THEN /\ pc' = [pc EXCEPT ![w] = "lookup"]
          /\ pend' = [pend EXCEPT ![w] = intent[c]]
          /\ UNCHANGED <<work, todo>>
     ELSE /\ BeginSelection(w, c, led)
          /\ UNCHANGED pend
  /\ UNCHANGED <<now, sold, opening, stripe, stores, at, groups, nets>>

(* Stripe could not say whether the payout exists: freeze the group.       *)
LookupFails(w) ==
  /\ pc[w] = "lookup"
  /\ EndGroup(w)
  /\ UNCHANGED <<now, sold, opening, stripe, stores, at>>

OnStripe(i) == \E p \in payouts : KeyOf(p.nets) = KeyOf(i.nets) /\ p.at >= i.createdAt

\* Mutant of Settle: the released entries are not written to disk.
SettleUnsaved(w) ==
  /\ led' = MarkManyReleased(pend[w])
  /\ dled' = dled
  /\ intent' = [intent EXCEPT ![cur[w]] = NoIntent]
  /\ dintent' \in Persist(dintent, intent')

(* Mark the journalled set released in the ledger, then drop the intent.   *)
Settle(w) ==
  /\ led' = MarkManyReleased(pend[w])
  /\ dled' \in Persist(dled, led')
  /\ intent' = [intent EXCEPT ![cur[w]] = NoIntent]
  /\ dintent' \in Persist(dintent, intent')

(* The payout happened: settle the original set, then select as usual.     *)
LookupFound(w) ==
  /\ pc[w] = "lookup" /\ OnStripe(pend[w])
  /\ Settle(w)
  /\ BeginSelection(w, cur[w], led')
  /\ pend' = [pend EXCEPT ![w] = NoIntent]
  /\ UNCHANGED <<now, sold, opening, stripe, at, groups, cur, nets>>

InWindow(w) == at[w] - pend[w].createdAt < ReplayWindow

(* Absent and the key still live: replay the journalled request verbatim.  *)
Replay(w) ==
  /\ pc[w] = "lookup" /\ ~OnStripe(pend[w]) /\ InWindow(w)
  /\ wire' = wire \cup {[currency |-> cur[w], nets |-> pend[w].nets]}
  /\ pc' = [pc EXCEPT ![w] = "replaying"]
  /\ UNCHANGED <<now, sold, opening, net, funded, payouts, stores, at, locals>>

(* Absent and past the window: abandon, and select with fresh nets.        *)
Abandon(w) ==
  /\ pc[w] = "lookup" /\ ~OnStripe(pend[w]) /\ ~InWindow(w)
  /\ intent' = [intent EXCEPT ![cur[w]] = NoIntent]
  /\ dintent' \in Persist(dintent, intent')
  /\ BeginSelection(w, cur[w], led)
  /\ pend' = [pend EXCEPT ![w] = NoIntent]
  /\ UNCHANGED <<now, sold, opening, stripe, led, dled, at, groups, cur, nets>>

(* Every due sale has been looked at: go on with the payable ones, if any. *)
EndResolve(w) ==
  IF KeyOf(nets'[w]) = {}
  THEN /\ work' = [work EXCEPT ![w] = @ \ {cur[w]}]
       /\ pc' = [pc EXCEPT ![w] = IF work[w] \subseteq {cur[w]} THEN "idle" ELSE "groups"]
  ELSE /\ pc' = [pc EXCEPT ![w] = "balance"]
       /\ UNCHANGED work

(* resolveNet answers null: the sale stays held.                           *)
ResolveFails(w) ==
  /\ pc[w] = "resolve"
  /\ \E s \in todo[w] : /\ IsOldest(s, todo[w])
                        /\ todo' = [todo EXCEPT ![w] = @ \ {s}]
  /\ UNCHANGED nets
  /\ IF todo'[w] = {} THEN EndResolve(w) ELSE UNCHANGED <<pc, work>>
  /\ UNCHANGED <<now, sold, opening, stripe, stores, at, groups, cur, pend>>

\* Mutant of ResolvedNet: the net of the charge, its refunds overlooked.
ResolvedNetOfCharge(s) == Net[s]

(* resolveNetFromStripe: the charge's net with its refunds deducted.       *)
ResolvedNet(s) == net[s]

\* Mutant of Resolve: the settlement currency of the charge is not compared.
ResolveAnyPot(w) ==
  /\ pc[w] = "resolve"
  /\ \E s \in todo[w] :
       /\ IsOldest(s, todo[w])
       /\ todo' = [todo EXCEPT ![w] = @ \ {s}]
       /\ led' = IF ResolvedNet(s) <= 0 THEN MarkVoid(s) ELSE led
       /\ nets' = IF ResolvedNet(s) > 0
                  THEN [nets EXCEPT ![w][s] = ResolvedNet(s)] ELSE nets
  /\ dled' = led'
  /\ IF todo'[w] = {} THEN EndResolve(w) ELSE UNCHANGED <<pc, work>>
  /\ UNCHANGED <<now, sold, opening, stripe, intent, dintent, at, groups, cur, pend>>

(* resolveNet answers: note the settlement currency, and keep the sale as  *)
(* payable unless it settles elsewhere or a refund emptied it.             *)
Resolve(w) ==
  /\ pc[w] = "resolve"
  /\ \E s \in todo[w] :
       LET inPot == SettlesIn[s] = cur[w]
       IN /\ IsOldest(s, todo[w])
          /\ todo' = [todo EXCEPT ![w] = @ \ {s}]
          /\ led' = IF inPot /\ ResolvedNet(s) <= 0 THEN MarkVoid(s)
                    ELSE [led EXCEPT ![s].currency = SettlesIn[s]]
          /\ dled' \in IF led' = led THEN {dled} ELSE Persist(dled, led')
          /\ nets' = IF inPot /\ ResolvedNet(s) > 0
                     THEN [nets EXCEPT ![w][s] = ResolvedNet(s)]
                     ELSE nets
  /\ IF todo'[w] = {} THEN EndResolve(w) ELSE UNCHANGED <<pc, work>>
  /\ UNCHANGED <<now, sold, opening, stripe, intent, dintent, at, groups, cur, pend>>

(* The balance read failed, nothing fits, or the journal did not persist.  *)
Defer(w) ==
  /\ pc[w] = "balance"
  /\ EndGroup(w)
  /\ UNCHANGED <<now, sold, opening, stripe, stores, at>>

(* Select what fits, journal the intent, and only then call Stripe.        *)
JournalAndPay(w) ==
  /\ pc[w] = "balance"
  /\ LET selected == FittingPrefix(nets[w], Available(cur[w]))
         i == [nets |-> [s \in Sales |-> IF s \in selected THEN nets[w][s] ELSE 0],
               forced |-> {s \in selected : ~EventOver(s, at[w])},
               createdAt |-> at[w]]
     IN /\ selected # {}
        /\ intent' = [intent EXCEPT ![cur[w]] = i]
        /\ dintent' = intent'
        /\ pend' = [pend EXCEPT ![w] = i]
        /\ wire' = wire \cup {[currency |-> cur[w], nets |-> i.nets]}
  /\ pc' = [pc EXCEPT ![w] = "paying"]
  /\ UNCHANGED <<now, sold, opening, net, funded, payouts, led, dled, at,
                 groups, work, cur, todo, nets>>

(* Stripe has executed the awaited request, or remembers its key with the  *)
(* same parameters.                                                        *)
Accepted(w) ==
  /\ [currency |-> cur[w], nets |-> pend[w].nets] \notin wire
  /\ \E p \in payouts : /\ KeyOf(p.nets) = KeyOf(pend[w].nets)
                        /\ Total(p.nets) = Total(pend[w].nets)
                        /\ now < p.at + KeyLife

(* createPayout of a new intent returns.                                   *)
PayReturns(w) ==
  /\ pc[w] = "paying" /\ Accepted(w)
  /\ Settle(w)
  /\ EndGroup(w)
  /\ UNCHANGED <<now, sold, opening, stripe, at>>

(* createPayout of a replayed intent returns: select as usual.             *)
ReplayReturns(w) ==
  /\ pc[w] = "replaying" /\ Accepted(w)
  /\ Settle(w)
  /\ BeginSelection(w, cur[w], led')
  /\ pend' = [pend EXCEPT ![w] = NoIntent]
  /\ UNCHANGED <<now, sold, opening, stripe, at, groups, cur, nets>>

\* Mutant of PayThrows: an ambiguous failure is taken for success.
PayThrowsSettles(w) ==
  /\ pc[w] \in {"paying", "replaying"}
  /\ Settle(w) /\ EndGroup(w)
  /\ UNCHANGED <<now, sold, opening, stripe, at>>

\* Mutant of PayThrows: an ambiguous failure drops the intent.
PayThrowsForgets(w) ==
  /\ pc[w] \in {"paying", "replaying"}
  /\ intent' = [intent EXCEPT ![cur[w]] = NoIntent] /\ dintent' = intent'
  /\ EndGroup(w)
  /\ UNCHANGED <<now, sold, opening, stripe, led, dled, at>>

(* createPayout throws: a timeout, a 5xx or a refusal, executed or not.    *)
(* The intent stays journalled.                                            *)
PayThrows(w) ==
  /\ pc[w] \in {"paying", "replaying"}
  /\ EndGroup(w)
  /\ UNCHANGED <<now, sold, opening, stripe, stores, at>>

(* The process dies between the ledger write and the journal write of a    *)
(* settlement.                                                             *)
CrashWhileSettling(w) ==
  /\ \/ pc[w] = "lookup" /\ OnStripe(pend[w])
     \/ pc[w] \in {"paying", "replaying"} /\ Accepted(w)
  /\ \E l \in Persist(dled, MarkManyReleased(pend[w])) : Restart(l, dintent)

-----------------------------------------------------------------------------
Environment ==
  \/ Tick
  \/ \E s \in Sales : RecordHeld(s) \/ Refund(s) \/ VoidSale(s) \/ Fund(s)
  \/ \E r \in wire : Deliver(r)
  \/ Crash

Step(w) ==
  \/ StartSweep(w)
  \/ \E c \in Currencies : BeginGroup(w, c)
  \/ LookupFails(w) \/ LookupFound(w) \/ Replay(w) \/ Abandon(w)
  \/ ResolveFails(w) \/ Resolve(w) \/ Defer(w) \/ JournalAndPay(w)
  \/ PayReturns(w) \/ ReplayReturns(w) \/ PayThrows(w) \/ CrashWhileSettling(w)

Next == Environment \/ \E w \in Sweeps : Step(w)

Spec == Init /\ [][Next]_vars

-----------------------------------------------------------------------------
(* Properties.                                                             *)

PaidSales == {s \in Sales : \E p \in payouts : s \in KeyOf(p.nets)}

(* No sale funds two payouts, whatever the order of crashes, lost answers, *)
(* late executions and replays (payout-intents.ts: "makes a payout         *)
(* exactly-once").                                                         *)
NoDoublePay ==
  \A p, q \in payouts : KeyOf(p.nets) \cap KeyOf(q.nets) # {} => p = q

(* A sale the ledger calls released really left in a payout: no settlement *)
(* is recorded for money that is still in the balance (markManyReleased    *)
(* only after createPayout or findPayoutByIntent confirmed it).            *)
ReleasedWasPaid ==
  \A s \in Sales : led[s].status = "released" => s \in PaidSales

(* A paid sale cannot be selected again after a crash: the disk says it    *)
(* left "held", or the journal on disk still covers the payout.            *)
PaidIsOnDisk ==
  \A p \in payouts : \A s \in KeyOf(p.nets) :
    \/ dled[s].status \in {"released", "void"}
    \/ /\ dintent[p.currency] # NoIntent
       /\ KeyOf(dintent[p.currency].nets) = KeyOf(p.nets)

(* Money leaves only for sales that were due: an unrelated event's advance *)
(* takings in the same pooled balance stay (payout-release.ts:8-12).       *)
OnlyDueIsPaid ==
  \A p \in payouts : \A s \in KeyOf(p.nets) : IsDue(s, p.at)

(* A payout draws on the pot its sales settled in, also for a sale that    *)
(* was charged in another currency and regrouped.                          *)
RightPot ==
  \A p \in payouts : \A s \in KeyOf(p.nets) : SettlesIn[s] = p.currency

(* A refund that landed in an earlier hour is honoured by every newly      *)
(* journalled payout: nets are read afresh in the sweep that pays.         *)
FreshNets ==
  [][\A c \in Currencies :
       intent'[c] # intent[c] /\ intent'[c] # NoIntent
         => \A s \in KeyOf(intent'[c].nets) : intent'[c].nets[s] <= opening[s]]_vars

(* The same for every request sent, replays included: payout-ledger.ts     *)
(* says "a refund landing between sweeps is never missed".                 *)
RefundsNeverMissed ==
  [][\A r \in wire' \ wire : \A s \in KeyOf(r.nets) : r.nets[s] <= opening[s]]_vars

(* The engine implements the abstract promise: each executed payout is one *)
(* PayOut of sales never paid before.                                      *)
TimesPaid ==
  [s \in Sales |-> Cardinality({p \in payouts : s \in KeyOf(p.nets)})]
Promise == INSTANCE PayoutPromise WITH paid <- TimesPaid
KeepsPromise == Promise!Spec

-----------------------------------------------------------------------------
(* The inductive invariant behind NoDoublePay and KeepsPromise, for a      *)
(* server whose sweeps do not overlap and whose disk works.                *)

InGroup(w) == pc[w] \notin {"idle", "groups"}
Pays(w) == pc[w] \in {"replaying", "paying"}
Journalled(c) == intent[c] # NoIntent

(* One sweep runs at a time, and it holds the intent it is settling.       *)
SweepInv ==
  /\ led = dled /\ intent = dintent
  /\ \A v, w \in Sweeps : pc[v] # "idle" /\ pc[w] # "idle" => v = w
  /\ \A w \in Sweeps : at[w] <= now /\ (pc[w] # "idle" => at[w] = now)
  /\ \A w \in Sweeps : InGroup(w) => cur[w] \in work[w]
  /\ \A w \in Sweeps : pc[w] = "lookup" \/ Pays(w)
                          => Journalled(cur[w]) /\ pend[w] = intent[cur[w]]
  /\ \A w \in Sweeps : pc[w] \in {"resolve", "balance"} => ~Journalled(cur[w])

(* What a sweep may select has not been paid: it settles in this currency, *)
(* and every earlier payout of this currency is settled in the ledger.     *)
SelectionInv ==
  /\ \A w \in Sweeps : pc[w] \in {"resolve", "balance"} =>
       /\ \A s \in todo[w] : s \in sold /\ (SettlesIn[s] = cur[w] => s \notin PaidSales)
       /\ \A s \in KeyOf(nets[w]) :
            s \in sold /\ SettlesIn[s] = cur[w] /\ s \notin PaidSales
  /\ \A w \in Sweeps : pc[w] \notin {"resolve", "balance", "paying"}
                         => KeyOf(nets[w]) = {}

(* A journalled set is non-empty, in its own currency, and either unpaid   *)
(* or paid exactly as journalled, no earlier than the journal entry.       *)
IntentInv ==
  \A c \in Currencies : Journalled(c) =>
    LET i == intent[c] IN
    /\ KeyOf(i.nets) # {} /\ KeyOf(i.nets) \subseteq sold
    /\ \A s \in KeyOf(i.nets) : SettlesIn[s] = c
    /\ i.createdAt <= now
    /\ \A p \in payouts : KeyOf(p.nets) \cap KeyOf(i.nets) # {}
         => KeyOf(p.nets) = KeyOf(i.nets) /\ p.at >= i.createdAt

(* A request in flight is journalled, unpaid and of this hour, and no      *)
(* sweep will visit its currency again before it is gone.                  *)
WireInv ==
  /\ wire # {} => \E v \in Sweeps : at[v] = now
  /\ \A r \in wire :
       /\ Journalled(r.currency) /\ intent[r.currency].nets = r.nets
       /\ KeyOf(r.nets) \cap PaidSales = {}
       /\ \A w \in Sweeps : pc[w] # "idle" =>
            r.currency \notin work[w] \/ (Pays(w) /\ cur[w] = r.currency)

(* The ledger never holds a sale whose payment happened, unless the        *)
(* journal covers that payment.                                            *)
LedgerInv ==
  /\ \A s \in Sales : led[s].status # "none" => s \in sold
  /\ \A p \in payouts : \A s \in KeyOf(p.nets) :
       \/ led[s].status \in {"released", "void"}
       \/ Journalled(p.currency) /\ KeyOf(intent[p.currency].nets) = KeyOf(p.nets)

IInv ==
  /\ TypeOK /\ SweepInv /\ SelectionInv /\ IntentInv /\ WireInv /\ LedgerInv
  /\ RightPot /\ NoDoublePay /\ ReleasedWasPaid
==============================================================================
