----------------------------- MODULE RegisterOnce -----------------------------
(***************************************************************************)
(* Registering a ticket series on chain exactly once                       *)
(* (apps/server/src/lib/event/register-once.ts, registration-intent.ts,    *)
(* onchain-registry.ts), over the nonces of the sponsor wallet.            *)
(*                                                                         *)
(* registerEvent is not idempotent: every transaction that succeeds mints  *)
(* an event of its own.  An attempt therefore climbs a ladder before it    *)
(* sends: the feed, the persisted id, the pending marker.  The marker is   *)
(* journalled with the reserved nonce before the node sees a transaction,  *)
(* and given the hash when it is out.                                      *)
(*                                                                         *)
(* One series is modelled; the other users of the wallet are the sends     *)
(* that are not attempts.  Every await of an attempt ends an action.       *)
(***************************************************************************)
EXTENDS SponsorNonce

CONSTANTS
  Attempts,           \* the calls of registerSeriesExactlyOnce
  MinesBetweenReads,  \* TRUE: a block may come between the chain walk and the counts
  IdWriteMayFail,     \* TRUE: writing onchain-events.json may fail
  JournalMayFail,     \* TRUE: writing pending-registrations.json may fail
  NoTx,               \* the hash of a marker that is an intent
  NoMarker,           \* no marker
  NoId                \* no event id

ASSUME RegisterAssumption ==
  /\ Attempts \subseteq Sends
  /\ {MinesBetweenReads, IdWriteMayFail, JournalMayFail} \subseteq BOOLEAN
  /\ NoTx \notin Attempts /\ NoId \notin Attempts

Intents == [nonce : Counts, tx : {NoTx}]
Hashed == [nonce : Slots, tx : Attempts]
Markers == Intents \cup Hashed
ASSUME MarkerAssumption == NoMarker \notin Markers

VARIABLES
  at,         \* where each attempt is
  marker,     \* pending: the marker of the series
  dmarker,    \* and on disk
  id,         \* byEventSeries: the id of the series, named by its transaction
  did,        \* and on disk
  feed,       \* the id the event feed carries
  regd        \* transactions that registered an event for the series

regVars == <<at, marker, dmarker, id, did, feed, regd>>
vars == <<nonceVars, regVars>>

Reading == {"receipt", "count", "recheck", "walk", "counts"}
Ends == {"done", "refused", "failed", "lost"}
Places == {"idle", "sending", "unjournalled", "waiting", "confirming"} \cup Reading \cup Ends

(* The type of an attempt, the marker, the ids and the registrations.      *)
TypeOK ==
  /\ at \in [Attempts -> Places]
  /\ {marker, dmarker} \subseteq Markers \cup {NoMarker}
  /\ {id, did, feed} \subseteq Attempts \cup {NoId}
  /\ regd \subseteq Attempts

Init ==
  /\ NonceInit
  /\ at = [a \in Attempts |-> "idle"]
  /\ marker = NoMarker /\ dmarker = NoMarker
  /\ id = NoId /\ did = NoId /\ feed = NoId
  /\ regd = {}

-----------------------------------------------------------------------------
(* The two files.  Both writers keep the memory's copy when a write fails. *)

SaveMarker(m) ==
  /\ marker' = m
  /\ dmarker' = m \/ (JournalMayFail /\ dmarker' = dmarker)

(* Nothing is written when there is no marker in memory.                   *)
ClearMarker ==
  IF marker = NoMarker THEN UNCHANGED <<marker, dmarker>> ELSE SaveMarker(NoMarker)

(* Nothing is written when the id is known, even if it never reached disk. *)
RecordId(i) ==
  IF id = i THEN UNCHANGED <<id, did>>
  ELSE /\ id' = i
       /\ did' = i \/ (IdWriteMayFail /\ did' = did)

(* A record or a marker of another series writes the whole map.            *)
PersistElsewhere ==
  /\ \/ did' = id /\ UNCHANGED dmarker
     \/ dmarker' = marker /\ UNCHANGED did
  /\ UNCHANGED <<nonceVars, at, marker, id, feed, regd>>

-----------------------------------------------------------------------------
(* An attempt.                                                             *)

Active(a) == at[a] \notin {"idle"} \cup Ends
Go(a, place) == at' = [at EXCEPT ![a] = place]

(* The transaction t is in a block; whether it registered is in regd.      *)
Mined(t) == \E n \in Slots : slot[n] = t /\ n < latest

Send(a) ==
  /\ Call(a)
  /\ Go(a, "sending")

Unsent == UNCHANGED nonceVars

(* Sending again once the marker's transaction can do nothing more.        *)
Resend(a) ==
  /\ ClearMarker
  /\ Send(a)
  /\ UNCHANGED <<id, did, feed, regd>>

(* The id found is recorded first; then the feed is read and rewritten.    *)
Adopt(a, i) ==
  /\ RecordId(i)
  /\ Go(a, "confirming")
  /\ Unsent /\ UNCHANGED <<marker, dmarker, feed, regd>>

Move(a, place) ==
  /\ Go(a, place)
  /\ Unsent /\ UNCHANGED <<marker, dmarker, id, did, feed, regd>>

\* Mutant of Joins: two calls for one series run side by side.
JoinsNever(a) == FALSE

(* A call while another runs joins it.                                     *)
Joins(a) == \E b \in Attempts : Active(b)

(* The route reads the feed, filled from the id cache; either may be stale *)
(* or missing, so the first rungs of the ladder ask again.                 *)
Begin(a) ==
  /\ at[a] = "idle" /\ ~Joins(a)
  /\ \/ (feed # NoId \/ id # NoId) /\ Move(a, "done")
     \/ id # NoId /\ Move(a, "confirming")
     \/ id = NoId /\ marker # NoMarker /\ marker.tx # NoTx /\ Move(a, "receipt")
     \/ id = NoId /\ marker # NoMarker /\ marker.tx = NoTx /\ Move(a, "walk")
     \/ /\ id = NoId /\ marker = NoMarker
        /\ Send(a)
        /\ UNCHANGED <<marker, dmarker, id, did, feed, regd>>

(* resolveRegisterTx: the receipt, which may be behind the chain's head;   *)
(* then the mined count; then, past the nonce, the receipt again.          *)
ReadReceipt(a) ==
  /\ at[a] = "receipt"
  /\ \/ marker.tx \in regd /\ Adopt(a, marker.tx)
     \/ Mined(marker.tx) /\ marker.tx \notin regd /\ Resend(a)
     \/ Move(a, "count")

\* Mutant of ReadCount: a spent nonce is taken for a replaced transaction.
ReadCountOnly(a) ==
  /\ at[a] = "count"
  /\ \/ latest > marker.nonce /\ Resend(a)
     \/ latest <= marker.nonce /\ Move(a, "refused")

ReadCount(a) ==
  /\ at[a] = "count"
  /\ \/ latest > marker.nonce /\ Move(a, "recheck")
     \/ latest <= marker.nonce /\ Move(a, "refused")

ReadAgain(a) ==
  /\ at[a] = "recheck"
  /\ \/ marker.tx \in regd /\ Adopt(a, marker.tx)
     \/ marker.tx \notin regd /\ Resend(a)

(* resolveRegistrationIntent: the walk over every registration, then the   *)
(* mined and the pending count.                                            *)
Walk(a) ==
  /\ at[a] = "walk"
  /\ \/ \E i \in regd : Adopt(a, i)
     \/ regd = {} /\ Move(a, "counts")

\* Mutant of ReadCounts: the pending count is not asked.
ReadLatestOnly(a) ==
  /\ at[a] = "counts"
  /\ Resend(a)

ReadCounts(a) ==
  /\ at[a] = "counts"
  /\ \E pendingCount \in PendingViews :
       IF latest <= marker.nonce /\ pendingCount > marker.nonce
       THEN Move(a, "refused")
       ELSE Resend(a)

-----------------------------------------------------------------------------
(* The send: the steps of sendSponsorTx, with the journal written inside.  *)

Intent(n) == [nonce |-> n, tx |-> NoTx]

\* Mutant of JournalIntent: an unwritable journal does not stop the send.
JournalOrGoOn(a) ==
  \/ SaveMarker(Intent(call'[a].nonce)) /\ UNCHANGED at
  \/ JournalMayFail /\ marker' = NoMarker /\ UNCHANGED <<dmarker, at>>

(* The intent is written with the reserved nonce.  When it cannot be, the  *)
(* marker is dropped and the send given up.                                *)
JournalIntent(a) ==
  \/ /\ marker' = Intent(call'[a].nonce) /\ dmarker' = marker'
     /\ UNCHANGED at
  \/ /\ JournalMayFail
     /\ marker' = NoMarker /\ UNCHANGED dmarker
     /\ Go(a, "unjournalled")

SendReserves(a) ==
  /\ Reserve(a) \/ Resync(a)
  /\ JournalIntent(a)
  /\ UNCHANGED <<id, did, feed, regd>>

SendBroadcasts(a) ==
  /\ at[a] = "sending"
  /\ Accept(a) \/ Reject(a)
  /\ UNCHANGED regVars

(* The hash is out: it is kept in memory even if it is not written.        *)
Upgrade(a) == SaveMarker([nonce |-> call[a].nonce, tx |-> a])

SendReturns(a) ==
  /\ Return(a)
  /\ Upgrade(a)
  /\ Go(a, "waiting")
  /\ UNCHANGED <<id, did, feed, regd>>

(* Whether or not the node took the transaction, the marker stays.         *)
SendThrows(a) ==
  /\ Refuse(a) \/ LoseAnswer(a)
  /\ Go(a, "failed")
  /\ UNCHANGED <<marker, dmarker, id, did, feed, regd>>

\* Mutant of Wait: a reverted transaction is taken for a registration.
WaitMined(a) ==
  /\ at[a] = "waiting"
  /\ \/ Mined(a) /\ Adopt(a, a)
     \/ (\A n \in Slots : slot[n] # a) /\ Move(a, "failed")

(* tx.wait: a receipt with the event, one that reverted, or the news that  *)
(* another transaction took the nonce.                                     *)
Wait(a) ==
  /\ at[a] = "waiting"
  /\ \/ a \in regd /\ Adopt(a, a)
     \/ Mined(a) /\ a \notin regd /\ Move(a, "failed")
     \/ (\A n \in Slots : slot[n] # a) /\ Move(a, "failed")

(* confirmSeriesOnChain returns.  A feed the organiser signs carries the   *)
(* id only once the browser has signed it again.                           *)
Confirm(a) ==
  /\ at[a] = "confirming"
  /\ ClearMarker
  /\ feed' \in {feed, id}
  /\ Go(a, "done")
  /\ Unsent /\ UNCHANGED <<id, did, regd>>

(* A chain read or the wait fails, or the event cannot be read.            *)
Throws(a) ==
  /\ at[a] \in Reading \cup {"waiting", "confirming"}
  /\ Move(a, "failed")

-----------------------------------------------------------------------------
(* The rest of the system.                                                 *)

(* Reading a feed without ids walks the chain, at best once in 15 seconds. *)
Reconcile ==
  /\ id = NoId
  /\ \E i \in regd : RecordId(i)
  /\ Unsent /\ UNCHANGED <<at, marker, dmarker, feed, regd>>

(* A mined registration succeeds or reverts.                               *)
MineBlock ==
  /\ Mine
  /\ MinesBetweenReads \/ \A a \in Attempts : at[a] # "counts"
  /\ regd' \in {regd, regd \cup ({slot[latest]} \cap Attempts)}
  /\ UNCHANGED <<at, marker, dmarker, id, did, feed>>

OthersSend ==
  /\ \/ \E s \in Sends \ Attempts : Call(s) \/ Handle(s)
     \/ \E n \in Slots : SendOutside(n)
  /\ UNCHANGED regVars

Restart ==
  /\ NonceRestart
  /\ at' = [a \in Attempts |-> IF Active(a) THEN "lost" ELSE at[a]]
  /\ marker' = dmarker /\ id' = did
  /\ UNCHANGED <<dmarker, did, feed, regd>>

Climb(a) ==
  ReadReceipt(a) \/ ReadCount(a) \/ ReadAgain(a) \/ Walk(a) \/ ReadCounts(a)
Carry(a) ==
  \/ SendReserves(a) \/ SendBroadcasts(a) \/ SendReturns(a) \/ SendThrows(a)
  \/ Wait(a) \/ Confirm(a)

Next ==
  \/ \E a \in Attempts : Begin(a) \/ Climb(a) \/ Carry(a) \/ Throws(a)
  \/ PersistElsewhere \/ Reconcile \/ MineBlock \/ OthersSend \/ Restart

Spec == Init /\ [][Next]_vars

(* Awaited reads and sends come back, and the chain mines.                 *)
FairSpec ==
  /\ Spec
  /\ \A a \in Attempts : WF_vars(Climb(a)) /\ WF_vars(Carry(a))
  /\ \A s \in Sends \ Attempts : WF_vars(OthersSend /\ Handle(s))
  /\ WF_vars(MineBlock)

-----------------------------------------------------------------------------
(* Properties.                                                             *)

(* One series has one event on chain, however often registering it is      *)
(* tried (register-once.ts:1-29).                                          *)
RegisteredOnce == \A a, b \in regd : a = b

(* The ids the server and the feed hold are of events that exist, and they *)
(* agree with what is on disk and with each other.                         *)
OneIdentity ==
  /\ {id, did, feed} \subseteq regd \cup {NoId}
  /\ did # NoId => id = did
  /\ id # NoId /\ feed # NoId => feed = id

(* An attempt ends: the promise that later calls join does not hang        *)
(* (register-once.ts:109).                                                 *)
AttemptsEnd == \A a \in Attempts : at[a] = "sending" ~> ~Active(a)

(* A transaction that registered the series is found again: it is known,   *)
(* or its marker leads to it, in memory and on disk.                       *)
(* (onchain-registry.ts:120-137)                                           *)
Live(a) == \E n \in Slots : slot[n] = a /\ (n < latest => a \in regd)
LeadsTo(m, a) ==
  /\ m # NoMarker /\ m.nonce \in Slots
  /\ slot[m.nonce] = a /\ m.tx \in {NoTx, a}
JournalCovers ==
  \A a \in Attempts : Live(a) =>
    /\ id # NoId \/ LeadsTo(marker, a)
    /\ did # NoId \/ LeadsTo(dmarker, a)

(* The inductive invariant.  At most one transaction can still register    *)
(* the series or has done so; none but its own when a send is on its way;  *)
(* while an attempt reads the chain the marker leads to it; and the marker *)
(* on disk is that of the transaction about to go out.                     *)
OneLive == \A a, b \in Attempts : Live(a) /\ Live(b) => a = b
SendsAlone ==
  \A a, b \in Attempts : at[a] \in {"sending", "unjournalled"} /\ Live(b) => a = b
OneRuns == \A a, b \in Attempts : Active(a) /\ Active(b) => a = b
InStep(a) ==
  /\ call[a].step \in InLock \cup {"queued"} => at[a] \in {"sending", "unjournalled"}
  /\ at[a] = "unjournalled" => call[a].step = "sending"
  /\ at[a] \in Reading \cup {"idle"} => call[a].step = "idle"
Ladder(a) ==
  /\ at[a] \in Reading => \A b \in Attempts : Live(b) => LeadsTo(marker, b)
  /\ at[a] \in {"receipt", "count", "recheck"} => marker \in Hashed
  /\ at[a] \in {"walk", "counts"} => marker \in Intents
  /\ at[a] = "recheck" => latest > marker.nonce
  /\ at[a] = "counts" => regd = {}
  /\ at[a] = "confirming" => id # NoId
  /\ at[a] = "sending" /\ call[a].step \in {"sending", "accepted"} =>
       /\ marker = [nonce |-> call[a].nonce, tx |-> NoTx]
       /\ dmarker = marker
IInv ==
  /\ NonceIInv /\ TypeOK
  /\ OneLive /\ JournalCovers /\ SendsAlone /\ OneRuns
  /\ \A a \in regd : Mined(a)
  /\ did = id /\ {id, feed} \subseteq regd \cup {NoId}
  /\ \A a \in Attempts : InStep(a) /\ Ladder(a)

(* What the invariant needs: counts that are of one moment and a disk that *)
(* keeps the ids.                                                          *)
Sound == MaxLag = 0 /\ ~MinesBetweenReads /\ ~IdWriteMayFail
=============================================================================
