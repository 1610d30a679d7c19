# TLA+ models of the WoCo event platform

WoCo is a decentralised ticketing and commerce platform: a Hono server in
TypeScript (`src/apps/server`), a Svelte web application (`src/apps/web`), an
embeddable widget, shared helpers and a Stylus contract. Events live on Swarm
feeds, ticket sales on a contract the server drives with one *sponsor* wallet,
card payments and payouts on Stripe, mail on SES or Resend, user accounts are
smart accounts owned by a passkey. The server is one Node process. Its own state
is a set of in-memory Maps, each written to a JSON file under `.data/` after every
change (`lib/marketing/persist.ts`, `writeJsonAtomic`), and read again at boot.

The hard part of this program is therefore not any single function. It is what
happens *between two awaits*: another request, a webhook, a timer, a restart, an
answer that never comes, a closed tab, a write that fails in one file of two. The
modules here model exactly that, for the places where an error costs somebody
money, seats, an on-chain duplicate, an unwanted mail, an entry at the door or an
account.

| Module | Models | Abstract specification | Proofs |
|---|---|---|---|
| `PayoutRelease` | hourly release of held card takings | `PayoutPromise` | `PayoutReleaseProofs` |
| `SeatHolds` | reservation store of one ticket series | - | `CheckoutProofs` |
| `TicketCheckout` | card checkout, Stripe webhook, mint, refund; composes `SeatHolds` | `SeatHolds` (`KeepsSeatSpec`) | `CheckoutProofs` |
| `SponsorNonce` | the sponsor wallet's nonce counter and promise chain | - | `RegisterProofs` |
| `RegisterOnce` | exactly-once registration of a series; composes `SponsorNonce` | `SponsorNonce` (`KeepsNonceSpec`) | `RegisterProofs` |
| `BroadcastQueue` | durable broadcast jobs and the daily send cap | - | `BroadcastProofs` |
| `MailLedger` | undelivered mail: ledger, retries, bounces, the operator | - | `MailRightsProofs` |
| `MailRights` | consent, objections, lists and erasure | - | `MailRightsProofs` |
| `ShopOrders` | the paged order log and three ways to pay | - | `CheckoutProofs` |
| `DoorCheckin` | offline scanners and the server that merges them | - | `DeviceProofs` |
| `SessionAuth` | sessions of a smart account over lagging replicas | - | `SessionAuthProofs` |
| `AccountRecovery` | passkey sign-in, back-ups, recovery, over several browsers | - | `DeviceProofs` |

`XMC.tla` holds the instances of module X for TLC. Definitions under a line
"Mutant", called `...Undue`, `...Unsaved`, `...Always` and the like, are the bugs
against which the properties are tried: with the definition after it replaced by
its mutant, the property fails in the same instance. In a model they are used
nowhere. `SumFacts` has the lemmas about sums, least numbers and counting up that
three of the proof modules share.

Contents: 1 inventory, 2 plan, 3 the modules, 4 the runs, 5 the proofs,
6 divergences between the code and what it says of itself, 7 limits.


## 1. Inventory

Paths are under `src/apps/server/src` unless they start with `src/` or with
`web/`, which stands for `src/apps/web/src/lib`.

### Modelled, wholly or in part

**Payout release engine** (`lib/stripe/payout-release.ts`, `payout-ledger.ts`,
`payout-intents.ts`, `payout-policy.ts`). *State*: a ledger entry per sale
(held, released, void; charged and settled currency), an intent per account and
currency in the journal, both on disk; Stripe's balance, charges and payouts,
keyed by idempotency key for a day. *Operations*: record a sale, void it, the
hourly sweep (settle or replay a pending intent, select due sales that fit,
resolve each net from Stripe, journal, pay, mark released, clear). *Interacts*
with the webhook (which records and voids) and with Stripe. *Hard*: a crash or a
lost answer anywhere between the payment and the two writes; a key that
expires; refunds; two currencies in one account. *Correct* when no sale funds
two payouts, what is released was paid, from the right balance, and when due.

**Seat holds** (`lib/event/reservation-store.ts`, `routes/reservations.ts`).
*State*: Map of holds (buyer, ip, series, quantity, expiry), its file, a promise
per series as a lock. *Operations*: `reserve` (replacing the buyer's earlier
holds, awaiting the chain's remaining supply), `release`, `consume`, expiry
sweep, boot. *Hard*: `reserve` awaits in the middle while `consume`, `release`
and the sweep do not take the lock. *Correct* when a buyer never keeps two
holds, and the per-ip cap binds.

**Ticket checkout and webhook** (`routes/stripe.ts`, `lib/stripe/session-registry.ts`,
`lib/event/checkout-expiry.ts`, `lib/event/sales-window.ts`). *State*: open
Stripe sessions, the registry of consumed sessions, background handlers, the
sponsor's transactions, refunds, ledger entries. *Operations*: create checkout
with or without a hold, pay, webhook delivery (repeated, from two endpoints),
the background handler step by step, restart. *Hard*: the handler runs after
the webhook was answered and nobody resumes it; each of its awaits may fail.
*Correct* when a paid session ends in tickets or money, and in both only where
the code cannot know better.

**Sponsor wallet nonces** (`lib/chain/sponsor-nonce.ts`). *State*: the next nonce,
a promise chain. *Operations*: take a turn, ask the RPC or count, send, retry
once after a nonce error, give up, restart. *Hard*: the RPC's pending count
lags; a send may throw although the node took it; other code uses the key.
*Correct* when no call spends two nonces and no gap is left.

**On-chain registration** (`lib/event/register-once.ts`, `registration-intent.ts`,
`onchain-registry.ts`, `lib/chain/sponsor-wallet.ts`). *State*: the attempt in
flight per series, a two-phase pending marker and the recorded event id, each in
memory and in a file of its own. *Operations*: the ladder (recorded id, marker,
chain walk, counts, journal, broadcast, hash upgrade, receipt, record, clear),
reconciliation, restart. *Hard*: the contract's `registerEvent` is not
idempotent, so each retry has to find out what the earlier one did from a
chain that moves. *Correct* when a series never has two events.

**Broadcast queue and send cap** (`lib/email/broadcast-jobs.ts`, `drain-worker.ts`,
`marketing-send.ts`, `lib/marketing/send-cap.ts`, `routes/broadcast-jobs.ts`).
*State*: a job record (state, counts, hashes mailed), chunk files, the dedupe
set, a reservation in the cap's log, one worker. *Operations*: create or resume,
upload chunks, start, drain a chunk, cancel, deadline, shutdown, boot. *Hard*:
a chunk takes minutes, and a cancel, an opt-out or the end of the process lands
inside it. *Correct* when a job mails nobody twice, a resume repeats at most the
chunk that was cut, nobody is silently left out, stopped jobs stay stopped and
the cap's books balance.

**Email delivery and failure ledger** (`lib/email/send.ts`, `failure-ledger.ts`,
`retry-queue.ts`, `drain-worker.ts`, `routes/ses-webhook.ts`, `routes/ops.ts`).
*State*: the ledger of undelivered mail with a cap on its entries, in memory and
on disk; the retry queue, in memory; consumed webhook ids. *Operations*: give a
message up, retry it on a schedule, hear of a bounce over three topics, resolve by
hand, erase an address, restart. *Hard*: a failing broadcast fills the ledger
while a ticket's entry must stay; a retry, the operator, an erasure and a bounce
meet at one entry. *Correct* when a lost ticket keeps the alarm on, an incident is
one row, no ticket is delivered twice, and retries end.

**Marketing lists, consent, suppression** (`lib/marketing/*`, `routes/unsubscribe.ts`,
`routes/marketing.ts`, the mail webhooks, `scripts/data-subject-request.ts`).
*State*: marks by address hash (of one organiser, of all), consents, the uploaded
list, each a file. *Operations*: an answer at the checkout, taken when its webhook
comes; unsubscribe, bounce or complaint, mark by hand; replace the list; the
erasure script, a process of its own over the same files. *Hard*: webhooks out of
order, an erasure that dies half-way or runs beside the server. *Correct* when an
objection outlives everything, the last answer decides, and nobody is forgotten
before he is barred.

**Shop orders** (`lib/shop/service.ts`, `lib/shop/spend-permission.ts`,
`routes/shops.ts`, `lib/payment/tx-registry.ts`, the shop's branch of
`routes/stripe.ts`). *State*: the order log, newest first, in pages of a Swarm
feed, under a promise lock; consumed transactions; settled orders and the counter
of a spend permission. *Operations*: place, pay by card, by transfer, by draw,
fulfil or cancel, revoke. *Hard*: a settlement reads the order, moves money and
patches the order, three awaits apart; a log page may fail to load or to be
written. *Correct* when each payment pays one order, what the permission records
accounts for what was drawn, and no order disappears. The registry of consumed
transactions, which the crypto payment of tickets shares, is modelled here.

**Check-in** (`web/scanner/store.svelte.ts`, `web/scanner/db.ts`,
`lib/checkin/store.ts`, `routes/checkin.ts`). *State*: a device's database (pass,
admitted tickets, records to send), the server's merged set per event, the pass it
accepts. *Operations*: provision, scan offline, sync, refresh, wipe, rotate the
pass. *Hard*: doors work offline for hours, a scan lands while a sync is in
flight, syncs are lost, repeated, reordered. *Correct* when no admission is lost,
no guest is turned away over an entry nobody can account for, and all doors learn.

**Sessions, delegation and revocation** (`lib/auth/*`, `middleware/auth.ts`).
*State*: owner reads in flight and cached, the durable record of the highest block
at which an owner changed, a budget of reads, revocations. *Operations*: verify a
delegation, revoke one or all, prune, restart. *Hard*: replicas that lag answer an
owner read with what used to be true. *Correct* when a retired key stays out, a
revoked session stays out, and an owner gets in.

**Passkey accounts: sign-in, back-ups, recovery** (`web/auth/auth-store.svelte.ts`,
`envelope-reprobe.ts`, `recovery-portability.ts`, `recovery-finalize.ts`,
`guardian-hook.ts`, `kernel-account.ts`). *State*: on chain an account's owner and
guardians; the sealed copies of its two root secrets, with the guardians
(*escrow*) and for the passkey (*envelope*); in each browser which account a
passkey opens, what was checked, and the roots. *Operations*: four login paths,
the ceremony, setting up and removing a back-up, back-fill, sign-out, background
checks. *Hard*: the chain, the feeds and the browser are written one after another
and any of them may be the last; a browser with half of the facts must not derive
roots of its own. *Correct* when whoever may recover can restore, no sealed copy
goes wrong, and a browser never falls back to another account.

### Not modelled, or not yet

| Component | State and operations | What is hard / what makes it correct | Why not here |
|---|---|---|---|
| Events: listing, directory snapshot, deletion (`lib/event/service.ts`, `listing-state.ts`, `directory-snapshot.ts`) | feeds read, changed and written; memo of the creator index; guarded delete | lost updates, stale memos, a delete racing an order | planned (step 9) |
| Ticket claims and collections (`lib/event/claim-service.ts`, `routes/claims.ts`) | claim a seat, append to the buyer's collection feed | read-modify-write of a feed by two claims of one buyer | planned (step 9); walk-in claims appear in `TicketCheckout` as the guard they share |
| Stripe accounts and onboarding (`lib/stripe/accounts.ts`, ...) | account records, onboarding links | state is Stripe's; learning a settlement currency is in `PayoutRelease` | request and response only |
| Swarm storage and feeds (`lib/swarm/*`) | versioned feeds, upload queue | two writers of one feed index | planned (step 9); users of a feed model it as one that may fail |
| Etherna (`lib/etherna/*`) | choice of a postage batch | network calls with hardly any state | no interleaving of its own |
| Social graph, indexer (`lib/social/*`) | publisher's queue, participants, walk of their feeds | a statement published twice or skipped by the walk | planned (step 9) |
| Likes and attestations (`lib/likes/*`, `src/contracts-stylus`) | index, attestations, aggregator contract | index and contract disagree | after the social modules |
| Campaigns, referrals, badges (`lib/campaign/*`) | counters by address | one synchronous step per call | no interleaving of its own |
| POD certificates and gates (`lib/pod/*`, `lib/gate/*`) | signed issuance, holdings | cryptography and single feed writes | out of reach of a state model |
| Sites, domains, sub-ENS (`lib/site/*`, `lib/domains/*`) | deployment records, DNS polling | sub-ENS registration uses the sponsor wallet, covered by `SponsorNonce` | little state of their own |
| Agents (`lib/agent/*`) | verification of signed intents | what they change belongs to checkout and shop | stateless |
| Profiles and recovery, server side (`lib/profile/*`, `lib/recovery/*`) | single feed documents, tombstones, hints | what a browser does with them is in `AccountRecovery` | single reads and writes |
| HTTP shell (`index.ts`, `lib/http/*`) | routing, timers, shutdown | what a restart does to a component is in its module | wiring |
| Shared package (`src/packages/shared`) | pure helpers | modelled where a module depends on one | no state |
| Web application (`src/apps/web`) beyond scanner and sign-in, embed and registry (`src/packages/embed`, `src/apps/registry`) | user interfaces | their calls are the modules' inputs; the broadcast client's count and resume offer are in `BroadcastQueue` | user interface |

### How the modelled parts meet

The webhook handler spends a hold (`SeatHolds.consume`), mints through the
sponsor wallet (`SponsorNonce`) and records the sale in the payout ledger, which
the hourly sweep reads. Registration is another user of the same wallet. The
composition webhook-holds is `TicketCheckout`, wallet-registration is
`RegisterOnce`; the sale ledger appears in `TicketCheckout` as the entries it
books and voids, and in `PayoutRelease` as the environment's `RecordSale` and
`VoidSale`, unordered with respect to the sweep.

The same webhook takes the consent answered at the checkout (`MailRights`) and the
card payment of a shop order (`ShopOrders`). A broadcast is sent to those
`MailRights` lets through; in `BroadcastQueue` an opt-out is the environment's.
Its failures, and every ticket that could not be mailed, are the entries of
`MailLedger`, whose retries the broadcast's worker makes. The erasure script
changes the files of `MailRights` and of `MailLedger`. The sessions of
`SessionAuth` are the delegations that the accounts of `AccountRecovery` sign; a
recovery is what the former sees as a change of owner.


## 2. Plan

1. `PayoutRelease` - money leaves; the abstract specification is "each sale is in
   one payout at most". **Done.**
2. `SeatHolds`, then `TicketCheckout` on top of it. **Done.**
3. `SponsorNonce`. **Done.**
4. `RegisterOnce` on top of it. **Done.**
5. `BroadcastQueue`. **Done.**
6. `MailLedger`, `MailRights`. **Done.**
7. `ShopOrders`, with the shop's branch of the webhook. **Done.**
8. `DoorCheckin`, `SessionAuth`, `AccountRecovery`. **Done.**
9. Smaller stores: claim collections, guarded delete and creator memo, versioned
   feed writes, the social publisher and indexer.
10. Proofs of every invariant and every action property that the runs check.
    **Done**; the liveness properties stay with TLC. With step 9 come the invariants
    of its modules.


## 3. The modules

In all of them an action is the code between two awaits: Node runs it without
interruption. A restart empties what is in memory and reloads what is on disk.
`.data` files are written synchronously with the change they record, so a
variable and its file differ only where a write may fail, or where the code
changes the Map without writing.

### PayoutPromise, PayoutRelease

`led` and `intent` are the two stores, `dled` and `dintent` their files. Stripe is
`net` (each sale's net, refunds deducted), `funded`, `payouts` (executed) and
`wire` (requests it has not executed). A sweep has a place `pc` for each await of
`releaseForAccount`: `BeginGroup` asks whether an intent is pending; if so
`LookupFails`/`LookupFound`, then settlement, `Replay` or `Abandon`; otherwise
`BeginSelection`, `Resolve` for each due sale (the await on its charge),
`JournalAndPay` with the oldest-first prefix that fits, and `PayReturns`,
`ReplayReturns` or `PayThrows`, each with the two writes of settlement.
`CrashWhileSettling` is the crash between the two. Nets are functions from sales to
amounts, positive when the sale is in the payout. `Tick` is an hour; a request
Stripe has not executed is lost by then, a key lives `KeyLife` hours, an intent is
replayed within `ReplayWindow`. `VoidSale` asks nothing of the status, as
`markVoid` does not. `setNetAmount`'s amount is for reports and left out; that it
also learns the settlement currency is modelled. An account's country only picks
the hold ceiling, hence the constant `CeilingDue`. Looking up a payout answers
truthfully or fails.

`Overlap` lets a sweep outlive its hour, `DiskMayFail` lets a write return false.
`Sound` (in the proofs) says neither happens. Then the journal alone prevents a
second payout, and the idempotency key is a second line of defence.

`PayoutPromise` has two variables, the sales recorded and how often each was paid;
`KeepsPromise` maps `TimesPaid`, counted from `payouts`, to the latter.

### SeatHolds

One series. `holds` is the Map, `dholds` its file; a hold has a buyer, an ip, a
quantity and a state. A tab (`ask`) is a caller of `reserve`: queued for the
series' lock, asking the chain (its buyer's earlier holds given up by `Enter`),
answered; then `Refuse` or `Grant`. `queue` is the lock. Time is the set `lapsed`,
from which every reader and the sweep may drop holds. The file differs from the
Map exactly in holds given up and not written yet. `Spend` and `Mint` belong to
whoever composes the module. Released ids also stand for unknown ones; a replaced
id is always one of this browser's; the client key and the ip are always present.

### TicketCheckout

EXTENDS `SeatHolds`. A session has a stage at Stripe, a hold or none, a quantity;
`consumed` is the session registry, `handler` the place of a session's background
handler, `tx` its mint, `refunded` and `entry` the refund and the ledger entry.
`Deliver` is the webhook, `ReadFeed`, `Broadcast`, `Receipt`, `Settle`,
`RefundReturns` the steps of the handler, each with its failing alternative.
A batch is all or nothing, as a quantity (at most 10) fits one chunk of the mint
(100). The check of a checkout without a hold fails open on an RPC error, as in
the code. The registry and the ledger are written through, and a refund executes
while its handler waits for it; `hiccup` (history) says whose feed read, or wait
for the receipt, threw. Switches: `WalkIns` (checkouts without a
hold), `Reopening` (one hold backs two sessions), `FeedMayFail`, `ReceiptMayFail`
(also a broadcast that throws though the node took the transaction); `MaxCrashes`.

### SponsorNonce, RegisterOnce

`SponsorNonce`: `queue` is the promise chain, whose head runs; `tracked` is the
counter in memory; `slot` and `latest` are the account at the node. `Reserve` and
`Resync` read a pending count up to `MaxLag` low. `LoseAnswer` throws although the
node took the transaction, `Reject` is a nonce error, `Refuse` any other failure
before the node. `SendOutside` uses the same key. Fees are flat, so our own
transactions never outbid each other; accepted transactions are not evicted;
reorganisations are left out. One process, as the counter is per process.
`resetSponsorNonce` is called by tests only.

`RegisterOnce` EXTENDS it: attempts are calls of the shared wallet with a ladder in
front and the wait for the receipt behind; other sends stand for the wallet's
other users. `Begin` joins an attempt in progress or climbs: recorded id,
`ReadReceipt`, `ReadCount`, `ReadAgain` for a marker with a hash, `Walk` and
`ReadCounts` for one without. `SendReserves` journals the intent, `SendReturns`
adds the hash, `Wait` and `Confirm` record the id and clear the marker.
`JournalMayFail`, `IdWriteMayFail` and `MinesBetweenReads` are the switches. A
receipt may lag the head on the first read and is truthful at the re-check after
two seconds. The feed may be stale or missing, never wrong. `Reconcile` is
throttled and swallows failures in the code, so it may happen or not. The
`confirm-chain` route, where the organiser's own wallet registers, is left out.

### BroadcastQueue

`job` and `disk` are the records, `chunks` the chunk files, `seen` a draft's dedupe
set, `log` and `logDisk` the reservations, `skip` the record a resume started from.
`worker` is idle or holds one chunk: `left` to send, `flying` with the provider,
the outcomes so far. `Drain` is the worker: `Sweep`, `OpenChunk` (or `CannotSend`),
`HandOver` of a group, `Deliver` or `GiveUp` for each message, and `Record`, which
is `drainOneChunk` after its await, with the record kept (`RecordKept`) or not
(`RecordLost`). `client` is what the uploading page has posted and counts; an
upload or its answer may be lost. A job's abort signal is raised exactly when it
becomes terminal, so it is no variable. One organiser, one window of 24 hours. Left
out: the hourly rate limit, verification and membership checks (they only
refuse), the retention of old records, the provider's own retries (a failure is a
message not delivered), and the retries of the failure ledger. `MayCut` says
whether a cancel, a shutdown or a crash may land inside a chunk, `DiskMayFail`
whether a write may fail, `FreeResume` whether a client may resume a job that the
page does not offer.

### MailLedger

`phase` is where the request that sends a message is; the attempts within it touch
nothing shared, so their outcome is one step (`SendOk`, `Abandon`). `ledger` and
`onDisk` are the entries, `queue` the retries that wait, `due` those the worker's
pass still has to make, `inFlight` the one it awaits. `TakeDue` reads the ledger
once, when the pass begins, as `runDueRetries` does. Which items are due is the
clock's choice. `Webhook` consumes the envelope, then the ledger key of the
incident (tagged and untagged copies have different keys), then records;
`WebhookCut` is the crash in between. `Erase` works on the file, as the script
does. The provider's errors are taken as true, the disk works, entries are not
dropped for age.

### MailRights

`mem` and `disk` are the three stores, written one by one: `Persist` writes the
file of each store that changed. `said` are the answers given at checkouts, in
time order, `captured` those whose webhook was taken, in any order. `script` is the
erasure script: it loads (`ScriptLoad`), bars, forgets the consent, takes the
address off the list, and may die at each line. `LiveScript` lets it run beside the
server, which then overwrites its work. `ordered`, `objected` and `swallowed` are
history: a mark by hand or an unsubscribe that finds the mark of a refusal changes
nothing, and the refusal's mark can be lifted later.

### ShopOrders

`feed` and `last` are the pages of the log; page 0 says how many there are. `writes`
are the writes that wait for the shop's promise lock, `job` the one under way:
`FirstPage` is the strict read with the write of page 0, `NextPage` each further
page, `WriteFails` an error at any of them. `step` is the place of each settlement.
By card: `Charge`, `WebhookReads`, `WebhookMisses`; by transfer: `PayCrypto`,
`TakeTransfer`; by draw: `PaySpend`, `DrawCheck` under the permission's lock,
`DrawSend`, `DrawExecutes` (also after the server gave up), `DrawRecord`,
`DrawGivesUp`. Each order costs one unit. Left out: products, stock and fees,
loyalty.

### DoorCheckin

`pass`, `checkins` and `pending` are a device's database, `dead` a flag of the
page, `records` the server's file per event, `active` the pass it accepts. A sync
is a request: `SyncAsk`, `SyncServer`, `SyncAnswer` or `SyncRefused`, lost at any
point by `SyncLost`. `Admit` is `checkAndMark`, one IndexedDB transaction.
`Merge` and `Absorbed` are the two merges, the server's and the device's. A
device's clock does not go back, two devices' clocks disagree. A refresh of the
pack is one step.

### SessionAuth

One account; `chain` is its owner at each block. `Answer(b)` is a replica at block
b. `cache` is the last read while it is fresh, `asking` a read in flight that
requests join, `record` the durable record: whether an owner was seen, the last
change and its block. `Stale`, `Recorded` and `Owns` are the three pure decisions
of `kernel-owner-ordering.ts` and `verify-delegation.ts`; a request passes through
`Confirmed` (by the cache), `Asks` and `Answer`, or `OverBudget`. A version-1 file,
which knows only that an owner was seen, is an initial state. `MaxAhead` is how far
a device's clock may be ahead. Left out: signatures, spent request nonces, accounts
that are plain keys or other wallets, failing writes.

### AccountRecovery

Every passkey has an account of its own with the same number; the account that is
recovered is that of passkey 0. `owner` and `guardians` are on chain, `escrow` and
`envelope` the sealed copies, the other variables a browser's storage: `bound`
(recovery bindings), `cached` (addresses taken from an absent envelope), `marked`
(bindings somebody checked), `tomb` (proof of orphaning), `seed` and `signer`. A
root secret is written as the passkey that derives it, so a wrong copy is a copy
with another number. `task` is the login, back-up or ceremony under way: a list of
writes still to make, in the order of the code (`LoginWrites`, `PortalWrites`,
`SetupWrites`), of which `TabDies` may cut any rest. `LoginCached`,
`LoginVerified` and `LoginGuard` are the three ways into `loginPasskeyResult`,
`LoginEnvelope` the read of the envelope: found, unreadable, or absent, which may be
a gateway's mistake. `probe` is the one background check: `ReprobeStarts` after
five seconds if the session is still there, `ReprobeRetires`, `ReprobeHeals`, or the
owner check of a verified binding, `BindingRetires`. The ladder of the re-probe is
the choice whether a login begins one. Switches: `MaySwitch` (another passkey signs
in before the last has signed out), `Evictable` (browsers that may lose all they
stored), `Active` (accounts ever used on chain), `Portals`, `Synced`. Left out: email
and wallet sign-ins with the owner-collision guard, the legacy guardian hook, hints
and manifest, the reload of a page, two tabs of one browser. The pre-check of the
guardian may be unanswered, so that it refuses nothing that the rotation accepts.


## 4. The runs

Each is a `.cfg` beside the module it instantiates; with two workers each takes
from ten seconds to a minute and a half.

| Run | Instance | Asks |
|---|---|---|
| `payout` | `PayoutRelease.cfg`: 3 sales, 2 currencies, 4 hours, replay window 2, key life 3, one refund (265 000 states) | Exactly-once payouts and fresh amounts, through crashes, late executions, refunds and key expiry; implements `PayoutPromise` |
| `seats` | `SeatHolds.cfg`: 3 tabs of 2 buyers on 2 addresses, 3 holds, supply 3 (369 000 states) | One hold per buyer, cap per ip, through interleaved releases, spends and restarts |
| `checkout` | `TicketCheckout.cfg`: 2 sessions for one seat, one hold that may back both, walk-ins, failing feed and receipts, one crash (189 000 states) | Tickets and money together only when the receipt was not heard of; the contract's seats add up; every paid session is settled; holds are used only as `SeatHolds` allows |
| `register` | `RegisterOnce.cfg`: 2 attempts and another user of the wallet, 2 nonces, failing journal, key used elsewhere, one restart (177 000 states) | One event per series, no nonce skipped, attempts end |
| `broadcast` | `BroadcastQueue.cfg`: 2 jobs (the second may resume the first), 2 addresses in chunks of 1, one restart, one opt-out, chunks are cut (520 000 states) | What a resume may repeat, nobody silently missed, the reservation's books, the cap but for cut chunks, stopped stays stopped |
| `broadcast_disk` | `BroadcastQueue_disk.cfg`: 1 job, 3 addresses in chunks of 2, any write may fail, chunks are cut (118 000 states) | Still nobody mailed twice by the job, and it ends |
| `mail` | `MailLedger.cfg`: 2 tickets (one to two addressees), a broadcast, ledger of 1, queue of 1, 3 envelopes, one erasure, one restart (361 000 states) | The alarm for a lost ticket survives, an incident is one row, no ticket delivered twice, retries end |
| `rights` | `MailRights.cfg`: 2 buyers, 2 answers, one erasure, one restart (434 000 states) | Objections hold, the latest answer wins, barred before forgotten |
| `shop` | `ShopOrders.cfg`: 2 orders on pages of 1, one transfer, cap for one draw, 3 requests, one fault (689 000 states) | Each payment pays one order, draws are accounted for, orders are kept |
| `door` | `DoorCheckin.cfg`: 2 devices, 1 ticket, 2 clock times, 2 passes, one wipe (89 000 states) | No admission lost, what a door shows is vouched for, every door hears |
| `auth` | `SessionAuth.cfg`: 2 keys, 2 sessions, 2 requests, 2 blocks, 2 hours (79 000 states) | A grant is for an owner the record allows, revoked stays out, an owner gets in |
| `recovery` | `AccountRecovery.cfg`: 2 browsers, 3 passkeys (two of them recovered), one back-up (1.6 million states) | Guardians can restore, envelopes hold the true roots, no browser falls back to another account |

**Why the bounds suffice.** The hazards need two actors at one resource and one
event between two of their steps: two sessions for one hold, two attempts at one
series, a job and its resume, a sweep and its successor, two doors and one guest,
an old key and a new one, a portal and another browser, a restart in between.
Each instance has those, a third party where one is involved (a second buyer, a
foreign transaction, a sale that is not due, a passkey of a second recovery), and
quantities that can be both exactly and not quite available. Limits are set at
their smallest, so that they bind: a ledger and a queue of one entry, pages of one
order, a cap of one draw. Clocks run past each deadline in the model: 4 hours pass
both the replay window (2) and the key's life (3), 2 hours a session's life (1).
What the proofs cover holds for every size; there the instance only guards against
a model in which nothing happens, which the mutants exclude. Symmetry is used in
`seats`, `broadcast`, `rights` and `shop` only, none of which checks liveness.

Types are part of each inductive invariant (`IInv`, `SeatIInv`, `SaleIInv`,
`NonceIInv`, `RInv`, `AInv`, `MailIInv`, `ShopIInv`, `DoorIInv`, `RecoveryIInv`) and
proved with it, so that no run spends time on them.

**Deadlock** is allowed where the system really stops: the event is over and the
ids are used up, the calls have returned, the jobs are over, the chain is at its
last block. In `PayoutRelease` and `SeatHolds` something can always happen, and
deadlock is checked.

**Fairness.** *Checkout:* weak fairness on `Deliver` (Stripe repeats a webhook for
days), on the steps of a handler (an awaited call returns or throws), and on
mining. *Register:* on the ladder and the wait of an attempt, on the calls of the
other users, on blocks; not on `Throws`. *Broadcast:* on the worker (a timer every
two seconds), on the passing of each deadline, on the restart of a process told to
close. *Mail:* on the boot, on the worker's pass, on the answer to an awaited send,
whichever it is. *Door:* weak on the timer that asks every 30 seconds, strong on the
server's step and on taking its answer: a network that is up again and again
carries one round trip at last. *Auth:* strong on a session's request, which its
client repeats, and on the answer of a replica that has caught up while it waits;
weak on the end of a request. Wherever a step can fail, fairness is on the
disjunction of its outcomes, so that no success is promised; in *door* and *auth*
success is promised again and again only, which is what the properties need and
say. Nothing is assumed of buyers, organisers or crashes, and nothing at all in the
other runs.


## 5. What is proved

All theorems hold for every value of the constants that the named assumptions allow.
Each module's ASSUMEs type its parameters, say that a set that is summed over or
searched is finite (`Holds`, `Sessions`, `Addrs`, `Orders`), and that a value that
stands for "nothing" is none of the things it may be compared with. Where a theorem
has a further hypothesis it is one of the model's switches, and it is named below.

**PayoutReleaseProofs.** `TypeCorrect`; under `Sound`: `Invariance`,
`NoDoublePayHolds`, `PaidIsOnDiskHolds`, `ReleasedWasPaidHolds` (with `RightPot`),
`FreshNetsHolds`, `Refinement` (the engine implements `PayoutPromise`). `NoDoublePay`
is not inductive: a sweep about to pay breaks it if an earlier payout of one of its
sales is in no record. `IInv` closes that: an executed payout is settled in the
ledger or covered by the journalled intent of its currency (`LedgerInv`); an intent
is unpaid or was paid exactly as journalled (`IntentInv`); a request in flight is
journalled, unpaid and of this hour, and no sweep returns to its currency before it
is gone (`WireInv`); what a sweep may select has not been paid (`SelectionInv`).
`FreshNets` needs besides that the nets a sweep has resolved, and the intent it made
of them, are bounded by what the sales were worth when it began.

**CheckoutProofs**, of `SeatHolds`: `SeatTypeCorrect`, `SeatInvariance`,
`OneHoldPerBuyerHolds`, `CapInvariance`, `IpWithinCapHolds`, `HoldsFitHolds`. The
invariant: the caller past `Enter` is the head of the lock and its buyer has no
live hold; neither the Map nor the file has two live holds of one buyer; the file
differs from the Map only in holds given up, so that a restart cannot bring a
second one back. For the two caps the same shape is repeated with sums: what the
caller has counted is no less than what is held when it writes, because nobody else
adds a hold while it awaits the chain, and the file, with all that may come back,
stays within the cap as well. Of `TicketCheckout`: `Composition` (`Spec =>
KeepsSeatSpec`: what is proved of `SeatHolds` holds of the composition,
`CheckoutKeepsCaps` for one), `TypeCorrect`, `PayInvariance`, `BothOnlyUnheardHolds`,
`LedgerFollowsSaleHolds`, `HoldOutlivesMintHolds` and `SeatsAddUpHolds` without
conditions, `NeverBothHolds` when receipts arrive (`~ReceiptMayFail`). The invariant
ties the place of each handler to what its transaction, refund and ledger entry can
be: money is on its way back only when the transaction was never sent or has
reverted, or its receipt was not heard of. Of `ShopOrders`, without conditions:
`ShopInvariance`, `ShopTypeHolds`, `DrawsAccountedHolds`, `PaidByItsOwnHolds`,
`OrdersKeptHolds`. The three properties read the log, but a settlement is three awaits
long and its patch may wait for the lock while another write goes page by page, so
`ShopIInv` speaks of the log, of the write under way and of those that wait
together. Whatever payment one of them names was made, and for that order, and no
transfer is named for two (`NamesFit`). A patch for a draw is of a settled order; the
draws of an order whose outcome is known are none, or one when it is settled or the
draw is mined; only the holder of the permission's lock can have one under way, and
`spent` counts the settled orders (`DrawsFit`). The log has every acknowledged order,
or, while a write is under way, its pages have them and those written are in place
(`LogFits`). Joining the pages to a log, which is a recursive function, and splitting
a log into pages neither lose an order nor make one up: `JoinHasAll` shows the one by
counting up (`CountUp`), `SplitIs` the other by arithmetic.

**RegisterProofs**, of `SponsorNonce`: `NonceInvariance`, `AtMostOnceHolds`,
`NoGapHolds`, for every lag and every use of the key elsewhere. The invariant: only
the head of the queue is inside, a call that may still send fills no nonce yet, and
every nonce below the mined count, the tracked nonce or a nonce being tried is
filled. Of `RegisterOnce`: `KeepsNonceSpec` and `TypeCorrect` without conditions;
under `Sound` (`MaxLag = 0`, no block between the reads, ids reach the disk):
`Invariance`, `RegisteredOnceHolds`, `JournalCoversHolds`. The invariant: at most
one transaction is live, that is, registered the series or still can; the recorded
id or the marker leads to it, in memory and on disk; no attempt sends while
another's is live; and the place of an attempt says what it has read. Failing
journal writes, lost answers, crashes and outbid transactions are all allowed.

**BroadcastProofs.** Whatever fails: `TypeCorrect`, `Invariance`,
`OncePerJobHolds`, `SkipsRecordedHolds`, `AccountsHold`, `CompletedCoversAllHolds`,
`LossBoundedHolds`; without cuts and failing writes `ResumeMailsNobodyTwiceHolds`;
without failing writes `StaysStoppedHolds`, `ResumeRepeatsAChunkHolds`,
`ReservationReturnedHolds` and `CapHoldsButForCutsHolds`. Two invariants. `IInv` is
about whom a job mails: chunk files of a job are disjoint, hold nobody to be skipped
and nobody mailed unless the worker has the chunk; whoever is left with the worker
is not mailed and in no other chunk; and, when nothing fails, files and records are
the truth. The invariant of `AccountsHold` is about what the books say of it: what a
job mailed is in its record or in the one chunk under way, at most a chunk of it is
lost with that chunk, what the client posted is in a chunk still to come or recorded,
and a reservation covers what is recorded. The cap then follows by comparing two
sums over the jobs, term by term (`SumFacts`).

**MailRightsProofs.** When the script runs with the server down (`~LiveScript`):
`RightsTypes`, `ObjectionsHold`, `BarsComeFirst`, and `LastAnswerDecides` (of buyers
whose webhooks came in the order of their payments). `ObjectionHolds` speaks of the
server's memory only; `RInv` adds that memory and disk agree while the server is up,
and the script's copy and the disk while the script runs (`OneWriter`); that whoever
objected is barred on the disk by a mark that no answer can lift
(`ObjectedIsBarred`); and that a consent missing there has its bar
(`ErasedIsBarred`). For the last answer, the time of the mark and of the consent on
file are tied to the answers that were taken. Of `MailLedger`, without conditions:
`MailInvariance`, `DeliveredOnceHolds`, `OneRowPerIncidentHolds`,
`LostTicketAlarmsHolds`. `MailIInv` adds where a message can be: at most one retry
of it waits, is due or is in flight, and then the message was given up and never
taken (`RetriesFit`); a row has an id below the next one, shares it with the retry
of its own message alone, and is of a message given up or of a bounce whose key was
consumed (`RowFits`), in memory as on disk; and the alarm is on in the file at all
times and in memory while the process runs (`Alarm`), which a restart needs. What a
full ledger drops, and what a filter leaves of the retries, is reasoned about by the
positions that are picked (`PickIs`, `Ranks`).

**SessionAuthProofs.** `AuthTypes`, `RecordsAreTrue`, `GrantsAreCurrent`,
`RevokedStaysOutHolds`, for every number of keys, replicas that lag and blocks.
`AInv` adds that the cached read was so on the chain and does not contradict the
record (`CacheIsTrue`), and that the record has not moved back since a request came
(`RequestsFollow`). That the block comes from the same call as the owner
(`Recorded`, and its mutant `RecordedAtTip`) is what makes the record true. What was
revoked is on the list or past its end (`Outlaws`), and a request that waited for
the chain is judged by the list it finds afterwards.

**DeviceProofs**, of `AccountRecovery`, when a passkey signs out before another
signs in (`MaySwitch = FALSE`; D30 is what happens otherwise): `RecoveryInvariance`,
`GuardiansCanRestoreHolds`, `EnvelopesHoldRootsHolds`, `NoForkHolds`. None of the
three is inductive, because a login or a ceremony may be cut short after each of its
writes and the next login goes on from what it finds. `RecoveryIInv` says what each
browser can have stored (a seed is the first passkey's, or that of the passkey that
is signed in and not bound, `SeedFits`), that a session has the account its passkey
opens there (`SessionFits`), and, for every list of steps that a task may have left,
that it carries the first passkey's roots (`TaskFits`). Of `DoorCheckin`, while a
device keeps to one event until it is handed back (`SwitchEvents = FALSE`; D26
otherwise): `DoorInvariance`, `NoCheckinLostHolds`, `ShownIsVouchedHolds`. A request
in flight holds a copy of the queue, its answer what the server had merged by then,
and while both travel the queue may grow, be sent again or be wiped; `DoorIInv` says
that what was sent was admitted there no later than what is queued of the same
guest, and that by the time of the answer the server has all of it, or an earlier
record of the same entry. Earliest times are least numbers (`SomeLeast`).

**Model-checked only.** The liveness properties: `PaidIsSettled`, `AttemptsEnd`,
`StartedEnds`, `RetriesEnd`, `EveryDoorHears` and `OwnerGetsIn` rest on fairness, which
is about ENABLED, and neither is in the prover's reach. The claims of section 6
(`HandledNotResent` and others), which the code does not keep. Every other property
that a run checks has a theorem above.


## 6. Divergences

Where a comment, a doc or a test of the repository says one thing and the code
does another. Each is an instance that TLC refutes; none is among the runs of
section 4, whose properties are those the code has. A name ending in `.cfg` is a
configuration of this directory. Otherwise the instance is the base configuration
of the module (the one of section 4) with the constants given, the specification
without fairness, and the property named.

| | Code | What it says | What happens | Instance |
|---|---|---|---|---|
| D1 | `payout-release.ts:654` | "A pending intent MUST settle before any new selection" (371) | The timer starts a sweep while another runs; both select the same sales under different keys, and they are paid twice | `PayoutRelease_overlap.cfg` |
| D2 | `routes/stripe.ts:1386` | "Any tx-level revert means this chunk's state changes were rolled back" (1390) | An exception of the receipt wait counts as a revert; the buyer gets tickets and a refund | `TicketCheckout_receipt.cfg` |
| D3 | `registration-intent.ts:89` | "a consumed slot plus step 1's "absent" proves the slot went to some OTHER sponsor tx" (18-20) | The walk precedes the counts; a block in between makes the retry register again | `RegisterOnce_race.cfg` |
| D4 | `payout-ledger.ts:104` | "the write-ahead record that makes a payout exactly-once" (payout-intents.ts:2) | A ledger write that fails is ignored and the intent cleared; after a restart the sale is paid again | `PayoutRelease_disk.cfg` |
| D5 | `payout-release.ts:320` | "precisely so a refund landing between sweeps is never missed" (payout-ledger.ts:150) | A replay pays the amount of the first attempt | `RefundsNeverMissed`, one currency (`OneCharged`, `LaterEventDue`, `FarCeilingDue`), `MaxTime = 3` |
| D6 | `reservation-store.ts:340` | "the public mutators (`reserve`, `consume`, `release`) are serialised per-series" (12) | `consume` does not take the lock; seats being minted are granted again | `TicketCheckout_race.cfg` |
| D7 | `routes/stripe.ts:637` | a reservation "holds N seats off the market" (reservation-store.ts:4) | A checkout without a hold ignores held seats | `HolderIsServed`: two tabs (`TwoTabs`, `Owners`, `TwoIps`), `Holds = {h1, h2}`, nothing fails, no crash |
| D8 | `routes/stripe.ts:1241` | "a feed hiccup or odd dates must never turn a paid mint into a refund" (1293) | A feed that does not load makes the series look unregistered, and the payment is refunded | `HiccupNeverRefunds`: two tabs as in D7, `ReceiptMayFail = FALSE`, `MaxCrashes = 0` |
| D9 | `routes/stripe.ts:896` | "unrecoverable failures auto-refund inside the handler" (916) | A restart during a handler leaves a consumed session with neither tickets nor refund | `TicketCheckout_crash.cfg` |
| D10 | `sponsor-nonce.ts:162` | a mutex alone "still reissues a spent nonce" (22) | After the second failure the rejected nonce stays tracked and is handed out again | `SpentNotReissued`: `SponsorNonce.cfg` with `MaxLag = 0`, `MaxNonce = 3`, `MaxRestarts = 0` |
| D11 | `registration-intent.ts:95` | the residual "needs a crash ... AND a partitioned mempool view" (30-35) | A count that lags by one suffices | `RegisteredOnce`: `Sends = {a1, a2}`, `MaxLag = 1`, nothing else fails, no restart |
| D12 | `onchain-registry.ts:76` | the recorded id "survives a restart" (register-once.ts:16) | A failed write of the id is ignored, the marker cleared, and the series registered again after a restart | `RegisterOnce_disk.cfg` |
| D13 | `drain-worker.ts:206` | "be resumed without mailing anyone twice" (broadcast-jobs.ts:31) | A chunk cut short is not on the record, and its messages go out again (at most that chunk: `ResumeRepeatsAChunk`) | `ResumeMailsNobodyTwice`, `MaxOptOuts = 0` |
| D14 | `broadcast-jobs.ts:511` | "NOBODY IS MAILED TWICE" (test/broadcast-queue.test.ts:6) | The resume of a resume skips only what the second job sent | `BroadcastQueue_chain.cfg` |
| D15 | `routes/broadcast-jobs.ts:526` | "Correct a reservation down to what the job really sent" (send-cap.ts:112) | A cancel settles before the chunk in flight is recorded; the cap can be exceeded by it | `BroadcastQueue_cap.cfg` |
| D16 | `marketing-send.ts:148` | "a live job stops mailing them immediately" (broadcast-jobs.ts:434) | The suppressions are read once for a chunk | `OptOutHeeded`: `Jobs = {j1}`, `ChunkSize = 2`, `MaxPosts = 1` |
| D17 | `drain-worker.ts:217` | falling through "would overwrite "cancelled"" (224) | A record that cannot be saved turns a cancelled job into a died one | `StaysStopped`: `Jobs = {j1}`, `DiskMayFail = TRUE`, `MaxPosts = 1`, `MaxOptOuts = 0` |
| D18 | `drain-worker.ts:262` | an entry resolved by hand is dropped "rather than re-sent on top of a manual resend" (254-258) | The open entries are read once per pass; one resolved while an earlier retry is awaited is sent all the same | `HandledNotResent`: `MaxQueued = 2`, `MaxErased = 0` |
| D19 | `suppression-store.ts:135` | an unsubscribe outranks a later checkbox | An unsubscribe that finds a refusal's mark leaves it as it is, and a later consent lifts it | `UnsubscribeHolds`: `MaxErasures = 0` |
| D20 | `suppression-store.ts:135` | an older consent cannot undo a newer refusal | The mark keeps the time of the first refusal; a consent between the two lifts it if its webhook comes last | `MailRights_order.cfg` |
| D21 | `scripts/data-subject-request.ts` | an erased address is barred for good | Run beside the server, its writes are overwritten by the next write of the server's copy | `ObjectionHolds`: `Decisions = 1`, `LiveScript = TRUE` |
| D22 | `routes/stripe.ts:1014`, `service.ts:275` | a cancelled order is not revived by a late payment | The status is read before the lock, and the patch looks at the id only | `StaysCancelled`: `Orders = {o1}`, `MaxFaults = 0` |
| D23 | `spend-permission.ts:470` | a revoked permission is not drawn against (573-574) | It is checked some awaits before the draw is sent | `RevokedIsFinal`: as D22, `MaxMarks = 0` |
| D24 | `spend-permission.ts:483` | a draw is one-shot per order (76-79) | A draw that was sent and whose confirmation did not come in time is recorded nowhere, and the retry draws again | `ShopOrders_once.cfg` |
| D25 | `web/scanner/store.svelte.ts:164` | `passDead` is set when the server said the pass was revoked (45) | A late refusal of the old pass marks the new one dead | `DeadIsRevoked` |
| D26 | `web/scanner/db.ts:138` | one database serves a device for all its events (5-6) | Records of an event that the device still has to send are sent under the pass of the next one | `NoCheckinLost`: `Devices = {d1}`, two tickets of two events (`TwoEvents`), `SwitchEvents = TRUE` |
| D27 | `kernel-owner-ordering.ts:88` | an answer of an earlier block does not replace a later one (kernel-owner.ts:264-267) | An older read that names the recorded owner again is taken, whatever came in between | `SessionAuth_rollback.cfg` |
| D28 | `revocation.ts:136` | "revoke all" bars what was signed before now (158) | The date compared is the device's; a clock that is ahead escapes it | `AllAreRevoked`: `MaxAhead = 2`, `MaxBlock = 1`, `MaxClock = 3` |
| D29 | `revocation.ts:147` | a pruned entry's delegation "is rejected for being stale anyway" (61-63) | Pruned at its expiry, accepted until after it | `RevokedToTheEnd`: `MaxBlock = 1`, `MaxClock = 3` |
| D30 | `web/auth/envelope-reprobe.ts:351` | after a switch "the binding is already the whole repair" (355-357); every path clears the seed alongside the binding (auth-store 563-568) | The heal binds a passkey whose own seed is still stored when another passkey signed in meanwhile; the next login sees a seed and a signer, does not ask the envelope, and the back-fill and new back-ups carry the wrong seed on | `GuardiansCanRestore`, `EnvelopesHoldRoots`: `MaySwitch = TRUE` |
| D31 | `web/auth/auth-store.svelte.ts:1833` | "THE BINDING GOES FIRST" (2725) | That is the ceremony; a login that restores from the envelope writes it last. Cut short after the seed, and the envelope unreadable at the next login, the passkey opens its own account with the other account's seed | `SeedFitsAccount` |
| D32 | `web/auth/guardian-hook.ts:206` | an install must not "silently drop" other backups (185-187) | Two browsers that both read that there is no route both install; the second replaces the first one's guardian | `NoneDropped`: `Backups = {b1, b2}`, `LastCred = 0`, `Synced` both `{0}` |

With chunks that are not cut (`ChunkSize = 2`, both kinds, `MayCut = FALSE`),
`ResumeMailsNobodyTwice` and `WithinCap` hold of `BroadcastQueue`; with
`BroadcastQueue_disk.cfg`, `LossBounded` does; `OnlyDueIsPaid` and `RightPot` hold
of `PayoutRelease.cfg`, `HoldsFit` (proved) of `SeatHolds.cfg`.

Read in the code while modelling, in no instance: a crash between two pages of the
order log loses the order that was to move (service.ts:70-79; `OrdersKept` excepts
it); a transfer that was consumed and whose order could not be written is refused
at the retry (shops.ts:768-811); several card sessions of one order can be paid, and
only the first counts; an unreadable pack gives a ticket the owner "" (checkin.ts
195-203); a sync longer than the server's limit is refused each time (checkin.ts
229); an erasure closes an entry that has another addressee; the email sign-in that a
recovery promises to re-open "always" is refused by the owner-collision guard on a
browser where it has already opened its own account (auth-store 2751-2754).


## 7. Limits

- A file write is atomic (`writeJsonAtomic` renames); it happens or does not.
- Cryptography, HTTP, the contract's code and Stripe's internals are taken at
  their interfaces. The contract is not in this repository; its behaviour is
  modelled from how the server uses it.
- One process, one series, one connected account, one organiser, one shop, one
  smart account: the stores are keyed by these and the keys do not meet, except in
  the sponsor wallet, where `SponsorNonce` has all users, and on a scanner, which
  keeps one database (`Events` of `DoorCheckin`).
- The liveness of a broadcast is checked for one job. With more, the worker takes
  the started jobs in turn.
- In `broadcast-jobs.ts`, two small races are not in the model: a start retried
  after a lost answer can be refused by its own reservation (line 453 of the
  route: answers are not part of the state), and two uploads at once can pass
  the ceiling on recipients together (line 327 of the route: one step here).
- In `session-registry.ts:36` a failed write is ignored like elsewhere; the
  model writes the registry through. So do `MailLedger`, `MailRights`,
  `ShopOrders` and `SessionAuth` with their files.
- `AccountRecovery` has no liveness: whether a browser that could not read an
  envelope ever heals depends on the user's logins.
- The modules cover the stores named in section 1, a few per cent of the lines of
  the repository. The bulk of it is user interface (`src/apps/web`), which keeps
  no state that outlives a page beyond what is modelled, and helpers without state.
