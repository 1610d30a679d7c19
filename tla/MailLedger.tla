----------------------------- MODULE MailLedger -----------------------------
(***************************************************************************)
(* What becomes of a message the provider would not take: the ledger of    *)
(* undelivered mail, the queue of automatic retries, the operator's desk   *)
(* and the bounces that arrive after a message was accepted.               *)
(*                                                                         *)
(*   lib/email/send.ts             sendVia, resendAbandoned                *)
(*   lib/email/failure-ledger.ts   recordFailure, prune, bumpRetry, ...    *)
(*   lib/email/retry-queue.ts      enqueueRetry, takeDue, requeue, forget  *)
(*   lib/email/drain-worker.ts     runDueRetries                           *)
(*   routes/ses-webhook.ts         permanent bounces and rejects           *)
(*   routes/ops.ts                 resolving entries by hand               *)
(*                                                                         *)
(* The server is one process; its ledger is loaded once and rewritten      *)
(* whole. The retry queue lives in memory only.                            *)
(***************************************************************************)
EXTENDS Naturals, SequencesExt

CONSTANTS
  Tickets,      \* transactional messages
  Bulk,         \* marketing messages
  Addressees,   \* whom messages go to
  To,           \* To[m]: the addressees of message m
  Envelopes,    \* SNS envelopes a topic may deliver, each any number of times
  About,        \* About[e]: the message whose failure e reports
  Tagged,       \* the envelopes that carry our message tags
  MaxEntries,   \* MAX_ENTRIES
  Steps,        \* the length of RETRY_SCHEDULE_MS
  MaxQueued,    \* MAX_QUEUE_BYTES, counted in messages
  MaxCrashes,   \* bound: crashes of the server
  MaxErased,    \* bound: Art. 17 requests
  NoItem

Msgs == Tickets \union Bulk

ASSUME MailAssumption ==
  /\ Tickets \intersect Bulk = {}
  /\ To \in [Msgs -> SUBSET Addressees]
  /\ About \in [Envelopes -> Msgs]
  /\ Tagged \subseteq Envelopes /\ Envelopes \intersect (Msgs \X BOOLEAN) = {}
  /\ MaxEntries \in Nat /\ Steps \in Nat \ {0} /\ MaxQueued \in Nat
  /\ NoItem \notin [id: Nat, msg: Tickets, attempt: 0..(Steps - 1)]
  /\ MaxCrashes \in Nat /\ MaxErased \in Nat

VARIABLES
  phase,       \* phase[m]: where the request that sends m is
  accepted,    \* accepted[m]: how often the provider took m (history)
  ledger,      \* entries, newest first
  onDisk,      \* email-failures.json
  queue,       \* the retries that wait
  due,         \* the retries this pass of the worker still has to make
  inFlight,    \* the retry the worker awaits, or NoItem
  consumed,    \* envelope ids and ledger keys taken, in memory and on disk
  handled,     \* <<message, origin>> pairs a human or an erasure closed (history)
  nextId, running, crashes, erased

ledgerVars == <<ledger, onDisk, nextId>>
workerVars == <<queue, due, inFlight>>
bounds == <<running, crashes, erased>>
mailVars == <<phase, accepted, ledger, onDisk, queue, due, inFlight,
          consumed, handled, nextId, running, crashes, erased>>

Entry == [id: Nat, msg: Msgs, kind: {"transactional", "marketing"},
          origin: {"send", "bounce"}, untagged: BOOLEAN, plain: SUBSET Addressees,
          resolved: {"no", "worker", "operator", "erasure"}]
Item == [id: Nat, msg: Tickets, attempt: 0..(Steps - 1)]

IsOpen(e) == e.resolved = "no"
OpenIds(l) == {e.id : e \in {x \in ToSet(l) : IsOpen(x)}}

MailTypeOK ==
  /\ phase \in [Msgs -> {"new", "sending", "sent", "abandoned", "cut"}]
  /\ accepted \in [Msgs -> Nat]
  /\ ledger \in Seq(Entry) /\ onDisk \in Seq(Entry)
  /\ queue \in Seq(Item) /\ due \in Seq(Item)
  /\ inFlight \in Item \union {NoItem}
  /\ consumed \subseteq Envelopes \union (Msgs \X BOOLEAN)
  /\ handled \subseteq Msgs \X {"send", "bounce"}
  /\ nextId \in Nat
  /\ running \in BOOLEAN /\ crashes \in 0..MaxCrashes /\ erased \in 0..MaxErased

MailInit ==
  /\ phase = [m \in Msgs |-> "new"]
  /\ accepted = [m \in Msgs |-> 0]
  /\ ledger = <<>> /\ onDisk = <<>>
  /\ queue = <<>> /\ due = <<>> /\ inFlight = NoItem
  /\ consumed = {} /\ handled = {}
  /\ nextId = 1 /\ running = TRUE /\ crashes = 0 /\ erased = 0

-----------------------------------------------------------------------------
(* The ledger. *)

\* The elements of l at the positions in S, in their order: SelectSeq, stated
\* without recursion.
Rank(S, i) == Cardinality({j \in S : j <= i})
Pick(l, S) == [k \in 1..Cardinality(S) |-> l[CHOOSE i \in S : Rank(S, i) = k]]

\* Over the cap the newest evictable entries that fit stay, and every open
\* transactional one.
Protected(e) == e.kind = "transactional" /\ IsOpen(e)
PruneOldest(l) ==  \* Mutant: the newest stay, whatever they are.
  SubSeq(l, 1, MaxEntries)

Prune(l) ==
  LET protected == {i \in DOMAIN l : Protected(l[i])}
      spare == DOMAIN l \ protected
      newest == {i \in spare : Cardinality(protected) + Rank(spare, i) <= MaxEntries}
  IN  IF Len(l) <= MaxEntries THEN l ELSE Pick(l, protected \union newest)

RecordFailure(m, kind, origin, untagged) ==
  LET entry == [id |-> nextId, msg |-> m, kind |-> kind, origin |-> origin,
                untagged |-> untagged,
                plain |-> IF kind = "transactional" THEN To[m] ELSE {},
                resolved |-> "no"]
  IN  /\ ledger' = Prune(<<entry>> \o ledger)
      /\ onDisk' = ledger'
      /\ nextId' = nextId + 1

\* markResolved for every id of S; what it returns is the ids that were open.
Mark(l, S, by) ==
  [i \in DOMAIN l |-> IF l[i].id \in S /\ IsOpen(l[i])
                      THEN [l[i] EXCEPT !.resolved = by] ELSE l[i]]

\* eraseRecipient: the address goes and the entry closes, co-addressees or not.
Redact(l, a) ==
  [i \in DOMAIN l |-> IF a \in l[i].plain
                      THEN [l[i] EXCEPT !.plain = @ \ {a},
                                        !.resolved = IF @ = "no" THEN "erasure" ELSE @]
                      ELSE l[i]]

Closes(l, S) == {<<e.msg, e.origin>> : e \in {x \in ToSet(l) : x.id \in S /\ IsOpen(x)}}

-----------------------------------------------------------------------------
(* The request path: sendVia. The loop of attemptWithRetries touches nothing
   shared, so its outcome is one step. *)

Kind(m) == IF m \in Tickets THEN "transactional" ELSE "marketing"

StartSend(m) ==
  /\ running /\ phase[m] = "new"
  /\ phase' = [phase EXCEPT ![m] = "sending"]
  /\ UNCHANGED <<accepted, ledgerVars, workerVars, consumed, handled, bounds>>

SendOk(m) ==
  /\ running /\ phase[m] = "sending"
  /\ phase' = [phase EXCEPT ![m] = "sent"]
  /\ accepted' = [accepted EXCEPT ![m] = @ + 1]
  /\ UNCHANGED <<ledgerVars, workerVars, consumed, handled, bounds>>

\* Mutant: the entry is queued again for each addressee.
EnqueueForEach(m) ==
  queue' = IF Len(queue) < MaxQueued
           THEN queue \o [i \in 1..Cardinality(To[m]) |-> [id |-> nextId, msg |-> m, attempt |-> 0]]
           ELSE queue

\* Only a transient failure of transactional mail is queued, and only when the
\* queue has room.
EnqueueRetry(m) ==
  queue' = IF Len(queue) < MaxQueued
           THEN Append(queue, [id |-> nextId, msg |-> m, attempt |-> 0]) ELSE queue

Abandon(m, retryable) ==
  /\ running /\ phase[m] = "sending"
  /\ phase' = [phase EXCEPT ![m] = "abandoned"]
  /\ RecordFailure(m, Kind(m), "send", FALSE)
  /\ IF retryable /\ m \in Tickets THEN EnqueueRetry(m) ELSE UNCHANGED queue
  /\ UNCHANGED <<accepted, due, inFlight, consumed, handled, bounds>>

-----------------------------------------------------------------------------
(* The drain worker: runDueRetries. Which items are due is the clock's choice. *)

ForgetRetries(q, S) == Pick(q, {i \in DOMAIN q : q[i].id \notin S})

\* The ledger is read once, when the pass begins; an entry closed by then is
\* dropped, and the first send starts before anything else runs.
Begin(items) ==
  /\ inFlight' = IF items = <<>> THEN NoItem ELSE Head(items)
  /\ due' = IF items = <<>> THEN <<>> ELSE Tail(items)

TakeDue ==
  /\ running /\ inFlight = NoItem
  /\ \E S \in SUBSET DOMAIN queue \ {{}} :
       /\ Begin(Pick(queue, {i \in S : queue[i].id \in OpenIds(ledger)}))
       /\ queue' = Pick(queue, DOMAIN queue \ S)
  /\ UNCHANGED <<phase, accepted, ledgerVars, consumed, handled, bounds>>

RetryOk ==
  /\ running /\ inFlight # NoItem
  /\ accepted' = [accepted EXCEPT ![inFlight.msg] = @ + 1]
  /\ ledger' = Mark(ledger, {inFlight.id}, "worker")
  /\ onDisk' = IF inFlight.id \in OpenIds(ledger) THEN ledger' ELSE onDisk
  /\ queue' = ForgetRetries(queue, {inFlight.id})
  /\ Begin(due)
  /\ UNCHANGED <<phase, consumed, handled, nextId, bounds>>

\* Mutant: requeued with the attempt it had.
RetryFailsAnew(retryable) ==
  /\ running /\ inFlight # NoItem
  /\ onDisk' = IF inFlight.id \in OpenIds(ledger) THEN ledger ELSE onDisk
  /\ queue' = IF retryable THEN Append(queue, inFlight) ELSE queue
  /\ Begin(due)
  /\ UNCHANGED <<phase, accepted, ledger, consumed, handled, nextId, bounds>>

\* bumpRetry rewrites the file when the entry is still open; requeue asks only
\* whether the schedule has a step left.
RetryFails(retryable) ==
  /\ running /\ inFlight # NoItem
  /\ onDisk' = IF inFlight.id \in OpenIds(ledger) THEN ledger ELSE onDisk
  /\ queue' = IF retryable /\ inFlight.attempt + 1 < Steps
              THEN Append(queue, [inFlight EXCEPT !.attempt = @ + 1]) ELSE queue
  /\ Begin(due)
  /\ UNCHANGED <<phase, accepted, ledger, consumed, handled, nextId, bounds>>

-----------------------------------------------------------------------------
(* The operator, the provider's webhook, erasure and restarts. *)

Resolve(S) ==
  /\ running /\ S \subseteq OpenIds(ledger)
  /\ ledger' = Mark(ledger, S, "operator")
  /\ onDisk' = ledger'
  /\ handled' = handled \union Closes(ledger, S)
  /\ queue' = ForgetRetries(queue, S)
  /\ UNCHANGED <<phase, accepted, due, inFlight, consumed, nextId, bounds>>

\* Mutant: one row per envelope.
LedgerKeyOfEnvelope(e) == e

\* The envelope is consumed before the event is looked at; one failure heard
\* over two topics is one row, tagged and untagged copies keyed apart.
LedgerKey(e) == <<About[e], e \in Tagged>>

Webhook(e) ==
  /\ running /\ accepted[About[e]] > 0 /\ e \notin consumed
  /\ consumed' = consumed \union {e, LedgerKey(e)}
  /\ IF LedgerKey(e) \in consumed THEN UNCHANGED <<ledgerVars, handled>>
     ELSE /\ RecordFailure(About[e], IF e \in Tagged THEN Kind(About[e]) ELSE "marketing",
                           "bounce", e \notin Tagged)
          /\ UNCHANGED handled
  /\ UNCHANGED <<phase, accepted, workerVars, bounds>>

\* The process dies after consuming the envelope and before the ledger write.
WebhookCut(e) ==
  /\ running /\ crashes < MaxCrashes
  /\ accepted[About[e]] > 0 /\ e \notin consumed
  /\ consumed' = consumed \union {e}
  /\ running' = FALSE /\ crashes' = crashes + 1
  /\ phase' = [m \in Msgs |-> IF phase[m] = "sending" THEN "cut" ELSE phase[m]]
  /\ ledger' = <<>> /\ queue' = <<>> /\ due' = <<>> /\ inFlight' = NoItem
  /\ UNCHANGED <<accepted, onDisk, handled, nextId, erased>>

Crash ==
  /\ running /\ crashes < MaxCrashes
  /\ running' = FALSE /\ crashes' = crashes + 1
  /\ phase' = [m \in Msgs |-> IF phase[m] = "sending" THEN "cut" ELSE phase[m]]
  /\ ledger' = <<>> /\ queue' = <<>> /\ due' = <<>> /\ inFlight' = NoItem
  /\ UNCHANGED <<accepted, onDisk, consumed, handled, nextId, erased>>

Start ==
  /\ ~running /\ running' = TRUE
  /\ ledger' = onDisk
  /\ UNCHANGED <<phase, accepted, onDisk, nextId, workerVars, consumed, handled, crashes, erased>>

\* scripts/data-subject-request.ts is a process of its own: it works on the file.
Erase(a) ==
  /\ erased < MaxErased /\ erased' = erased + 1
  /\ onDisk' = Redact(onDisk, a)
  /\ handled' = handled \union
       {<<e.msg, e.origin>> : e \in {x \in ToSet(onDisk) : a \in x.plain /\ IsOpen(x)}}
  /\ UNCHANGED <<phase, accepted, ledger, nextId, workerVars, consumed, running, crashes>>

WorkerStep == TakeDue \/ RetryOk \/ RetryFails(TRUE) \/ RetryFails(FALSE)

MailNext ==
  \/ \E m \in Msgs : \/ StartSend(m) \/ SendOk(m)
                     \/ Abandon(m, TRUE) \/ Abandon(m, FALSE)
  \/ WorkerStep
  \/ \E S \in SUBSET OpenIds(ledger) \ {{}} : Resolve(S)
  \/ \E e \in Envelopes : Webhook(e) \/ WebhookCut(e)
  \/ Crash \/ Start
  \/ \E a \in Addressees : Erase(a)

MailSpec == MailInit /\ [][MailNext]_mailVars
\* The worker's timer ticks while the server runs, and an awaited send answers.
MailFairSpec == MailSpec /\ WF_mailVars(Start)
                         /\ WF_mailVars(TakeDue)
                         /\ WF_mailVars(RetryOk \/ RetryFails(TRUE) \/ RetryFails(FALSE))
-----------------------------------------------------------------------------
\* A ticket nobody received keeps /api/health red: a message given up, or one
\* whose tagged bounce was acknowledged, has an open transactional entry until
\* a human, an erasure or a delivery closes it, whatever bulk failures fill the
\* ledger and across restarts.
LostTicketAlarms ==
  running => \A m \in Tickets :
    LET open(o) == \E e \in ToSet(ledger) :
                      e.msg = m /\ e.origin = o /\ e.kind = "transactional" /\ IsOpen(e)
    IN  /\ phase[m] = "abandoned" /\ accepted[m] = 0 /\ <<m, "send">> \notin handled => open("send")
        /\ <<m, TRUE>> \in consumed /\ <<m, "bounce">> \notin handled => open("bounce")

\* One incident stays one row: retries, redeliveries, a second topic and
\* restarts never add an entry to the one a failure already has; only the copy
\* of a bounce that comes without our tags is kept apart.
OneRowPerIncident ==
  \A i, j \in DOMAIN ledger : i # j =>
    <<ledger[i].msg, ledger[i].origin, ledger[i].untagged>>
      # <<ledger[j].msg, ledger[j].origin, ledger[j].untagged>>

\* With a provider whose errors are true, the buyer gets the message once: an
\* automatic retry is never made of a message already taken.
DeliveredOnce == \A m \in Msgs : accepted[m] <= 1

\* No retry waits for ever: every queued message is delivered, given up, closed
\* by hand or lost with the process.
RetriesEnd == []<>(queue = <<>> /\ due = <<>> /\ inFlight = NoItem)

\* runDueRetries' comment: an entry resolved by hand is dropped rather than
\* re-sent on top of a manual resend.
HandledNotResent ==
  [][inFlight' \notin {NoItem, inFlight} => inFlight'.id \in OpenIds(ledger)]_mailVars
=============================================================================
