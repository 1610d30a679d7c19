----------------------------- MODULE SponsorNonce -----------------------------
(***************************************************************************)
(* The sponsor wallet's account nonces                                     *)
(* (apps/server/src/lib/chain/sponsor-nonce.ts).                           *)
(*                                                                         *)
(* Every module that spends from the platform's one key sends through      *)
(* sendSponsorTx: a promise chain orders the calls, and a nonce counted    *)
(* locally, read from the chain once, is handed to each.  A call that the  *)
(* node rejects over its nonce reads the chain again and is sent once more. *)
(*                                                                         *)
(* The chain is external: a slot for each nonce, filled by a transaction   *)
(* that is accepted and mined in order.  Its pending count, read over RPC, *)
(* may lag.  Other holders of the key may send or outbid transactions.     *)
(***************************************************************************)
EXTENDS Integers, Sequences, FiniteSets

CONSTANTS
  Sends,      \* calls of sendSponsorTx; each is made at most once
  MaxNonce,   \* bound on the nonces used
  MaxLag,     \* how far the pending count an RPC returns may be behind
  Outside,    \* TRUE: the key is also used outside this process
  MaxRestarts,\* bound on the restarts
  Free,       \* a slot without a transaction
  Foreign,    \* a transaction from outside
  Absent      \* no tracked nonce

ASSUME NonceAssumption ==
  /\ MaxNonce \in Nat /\ MaxLag \in Nat /\ MaxRestarts \in Nat
  /\ Outside \in BOOLEAN
  /\ Free \notin Sends \cup {Foreign} /\ Foreign \notin Sends
  /\ Absent \notin 0..MaxNonce

VARIABLES
  slot,       \* the transaction holding each nonce
  latest,     \* the account's mined transactions: nonces below it are spent
  tracked,    \* _nonces: the next nonce, counted locally
  queue,      \* _queues: the calls in order, the running one first
  call,       \* where each call is, and with which nonces
  restarts

nonceVars == <<slot, latest, tracked, queue, call, restarts>>

Slots == 0..(MaxNonce - 1)
Counts == 0..MaxNonce
InLock == {"sending", "accepted", "resyncing"}
Steps == {"idle", "queued", "done", "failed", "lost"} \cup InLock
Called == [step : Steps, nonce : Counts, bad : Counts \cup {Absent}]

(* The type of the chain, the counter, the promise chain and the calls.    *)
NonceTypeOK ==
  /\ slot \in [Slots -> Sends \cup {Foreign, Free}]
  /\ latest \in Counts
  /\ tracked \in Counts \cup {Absent}
  /\ queue \in Seq(Sends)
  /\ call \in [Sends -> Called]
  /\ restarts \in Nat

NonceInit ==
  /\ slot = [n \in Slots |-> Free]
  /\ latest = 0
  /\ tracked = Absent
  /\ queue = <<>>
  /\ call = [s \in Sends |-> [step |-> "idle", nonce |-> 0, bad |-> Absent]]
  /\ restarts = 0

-----------------------------------------------------------------------------
(* The chain.                                                              *)

Full(n) == \A m \in Slots : m < n => slot[m] # Free
FirstFree(n) == Full(n) /\ (n < MaxNonce => slot[n] = Free)

(* What getTransactionCount(address, "pending") may return.                *)
PendingViews == {v \in Counts : \E f \in Counts : FirstFree(f) /\ v <= f /\ f <= v + MaxLag}

Mine ==
  /\ latest < MaxNonce /\ slot[latest] # Free
  /\ latest' = latest + 1
  /\ UNCHANGED <<slot, tracked, queue, call, restarts>>

(* The key is used elsewhere: for the next nonce, or to outbid a pending   *)
(* transaction.                                                            *)
SendOutside(n) ==
  /\ Outside
  /\ latest <= n /\ slot[n] # Foreign
  /\ slot[n] = Free => FirstFree(n)
  /\ slot' = [slot EXCEPT ![n] = Foreign]
  /\ UNCHANGED <<latest, tracked, queue, call, restarts>>

-----------------------------------------------------------------------------
(* sendSponsorTx.                                                          *)

Running(s) == queue # <<>> /\ Head(queue) = s
Retrying(s) == call[s].bad # Absent

Call(s) ==
  /\ call[s].step = "idle"
  /\ queue' = Append(queue, s)
  /\ call' = [call EXCEPT ![s].step = "queued"]
  /\ UNCHANGED <<slot, latest, tracked, restarts>>

(* The call's turn: the tracked nonce is used, or read from the chain.     *)
Reserve(s) ==
  /\ Running(s) /\ call[s].step = "queued"
  /\ \E n \in IF tracked # Absent THEN {tracked} ELSE PendingViews :
       /\ tracked' = n
       /\ call' = [call EXCEPT ![s].step = "sending", ![s].nonce = n]
  /\ UNCHANGED <<slot, latest, queue, restarts>>

(* The node takes the transaction: its slot is free.                       *)
Accept(s) ==
  /\ call[s].step = "sending"
  /\ call[s].nonce < MaxNonce /\ slot[call[s].nonce] = Free
  /\ slot' = [slot EXCEPT ![call[s].nonce] = s]
  /\ call' = [call EXCEPT ![s].step = "accepted"]
  /\ UNCHANGED <<latest, tracked, queue, restarts>>

\* Mutant of Leave: a call that failed keeps its place in the promise chain.
LeaveResolved(s, step) ==
  /\ queue' = IF step = "done" THEN Tail(queue) ELSE queue
  /\ call' = [call EXCEPT ![s].step = step]

(* The next call in the chain runs, whatever became of this one.           *)
Leave(s, step) ==
  /\ queue' = Tail(queue)
  /\ call' = [call EXCEPT ![s].step = step]

\* Mutant of Return: both the queue and the caller advance the counter.
ReturnTwice(s) ==
  /\ call[s].step = "accepted"
  /\ tracked' = call[s].nonce + 2
  /\ Leave(s, "done")
  /\ UNCHANGED <<slot, latest, restarts>>

(* The answer arrives: count on.                                           *)
Return(s) ==
  /\ call[s].step = "accepted"
  /\ tracked' = call[s].nonce + 1
  /\ Leave(s, "done")
  /\ UNCHANGED <<slot, latest, restarts>>

(* The node rejects the nonce: it is spent, or another transaction holds   *)
(* it.  The chain is asked again, once.                                    *)
Reject(s) ==
  /\ call[s].step = "sending" /\ ~Retrying(s)
  /\ call[s].nonce < MaxNonce /\ slot[call[s].nonce] # Free
  /\ call' = [call EXCEPT ![s].step = "resyncing"]
  /\ UNCHANGED <<slot, latest, tracked, queue, restarts>>

Resync(s) ==
  /\ call[s].step = "resyncing"
  /\ \E n \in PendingViews :
       call' = [call EXCEPT ![s].step = "sending", ![s].nonce = n, ![s].bad = call[s].nonce]
  /\ UNCHANGED <<slot, latest, tracked, queue, restarts>>

\* Mutant of Throw: the nonce is advanced although it was not used.
ThrowAdvances(s) ==
  /\ tracked' = IF Retrying(s) \/ call[s].nonce = MaxNonce THEN tracked ELSE call[s].nonce + 1
  /\ Leave(s, "failed")
  /\ UNCHANGED <<slot, latest, restarts>>

(* The error reaches the caller.  On the first attempt the tracked nonce   *)
(* is dropped; on the second it stays as it was.                           *)
Throw(s) ==
  /\ tracked' = IF Retrying(s) THEN tracked ELSE Absent
  /\ Leave(s, "failed")
  /\ UNCHANGED <<slot, latest, restarts>>

(* Nothing was sent: a revert in gas estimation, the RPC is down; or the   *)
(* second nonce is rejected too.                                           *)
Refuse(s) ==
  /\ call[s].step = "sending"
  /\ Throw(s)

\* Mutant of LoseAnswer: "already known" is taken for a nonce error.
LoseAnswerRetries(s) ==
  /\ call[s].step = "accepted"
  /\ IF Retrying(s) THEN Throw(s)
     ELSE /\ call' = [call EXCEPT ![s].step = "resyncing"]
          /\ UNCHANGED <<slot, latest, tracked, queue, restarts>>

(* The transaction was taken and the call fails: a timeout, or "already    *)
(* known".                                                                 *)
LoseAnswer(s) ==
  /\ call[s].step = "accepted"
  /\ Throw(s)

(* The process dies; what was accepted stays with the node.                *)
NonceRestart ==
  /\ restarts < MaxRestarts
  /\ restarts' = restarts + 1
  /\ tracked' = Absent
  /\ queue' = <<>>
  /\ call' = [s \in Sends |-> IF call[s].step \in InLock \cup {"queued"}
                              THEN [call[s] EXCEPT !.step = "lost"] ELSE call[s]]
  /\ UNCHANGED <<slot, latest>>

-----------------------------------------------------------------------------
Handle(s) ==
  \/ Reserve(s) \/ Accept(s) \/ Return(s)
  \/ Reject(s) \/ Resync(s) \/ Refuse(s) \/ LoseAnswer(s)

NonceNext ==
  \/ \E s \in Sends : Call(s) \/ Handle(s)
  \/ Mine
  \/ \E n \in Slots : SendOutside(n)
  \/ NonceRestart

NonceSpec == NonceInit /\ [][NonceNext]_nonceVars

(* Awaited calls come back, and a pending transaction with nothing missing *)
(* below it is mined.                                                      *)
NonceFairSpec ==
  /\ NonceSpec
  /\ \A s \in Sends : WF_nonceVars(Handle(s))
  /\ WF_nonceVars(Mine)

-----------------------------------------------------------------------------
(* Properties.                                                             *)

(* A call fills at most one slot: no send executes twice, although one     *)
(* call may be sent twice (the double-mint hazard of                       *)
(* sponsor-nonce.ts:64-67).                                                *)
AtMostOnce ==
  \A s \in Sends, m, n \in Slots : slot[m] = s /\ slot[n] = s => m = n

(* No transaction waits behind a nonce nobody has used                     *)
(* (sponsor-nonce.ts:147-149).                                             *)
NoGap == \A n \in Slots : slot[n] # Free => Full(n)

(* One module's failure does not stop the others: every call returns or is *)
(* lost in a restart (sponsor-nonce.ts:101-102).                           *)
CallsReturn ==
  \A s \in Sends : call[s].step = "queued" ~> call[s].step \in {"done", "failed", "lost"}

(* What was accepted, or outbid, is mined.                                 *)
AcceptedIsMined == \A n \in Slots : slot[n] # Free ~> n < latest

(* A nonce that was rejected is not handed out again                       *)
(* (sponsor-nonce.ts:21-23).                                               *)
SpentNotReissued ==
  [][\A s, t \in Sends :
       call[s].step = "queued" /\ call'[s].step = "sending" /\ call[t].bad # Absent
         => call'[s].nonce # call[t].bad]_nonceVars

(* The inductive invariant: everything below the tracked nonce and below   *)
(* the nonce of a call in progress is taken, and only a call that was      *)
(* accepted, while it runs or after it failed, has a slot.                 *)
Clean(s) == \A n \in Slots : slot[n] # s
NonceIInv ==
  /\ NonceTypeOK
  /\ AtMostOnce /\ NoGap
  /\ Full(latest)
  /\ tracked # Absent => Full(tracked)
  /\ \A s \in Sends :
       /\ call[s].step \in {"idle", "queued", "sending", "resyncing"} => Clean(s)
       /\ call[s].step \in {"sending", "accepted"} => Full(call[s].nonce)
       /\ call[s].step = "accepted" => /\ call[s].nonce < MaxNonce
                                       /\ slot[call[s].nonce] # Free
       /\ call[s].step \in InLock => Running(s)
==============================================================================
