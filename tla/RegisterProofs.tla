---------------------------- MODULE RegisterProofs ----------------------------
(***************************************************************************)
(* Theorems about SponsorNonce, for every set of calls, every lag of the   *)
(* RPC and a key that may be used elsewhere, and about RegisterOnce, for   *)
(* every set of attempts and of other sends, with a journal that may fail, *)
(* answers that may be lost and any number of restarts.                    *)
(***************************************************************************)
EXTENDS RegisterOnce, TLAPS

USE NonceAssumption

-----------------------------------------------------------------------------
(* The sponsor wallet on its own.                                          *)

(* The numbers of the slots are those below the counts.                    *)
LEMMA SlotIsCount == \A n \in Slots : n \in Counts /\ n < MaxNonce /\ n + 1 \in Counts
  BY DEF Slots, Counts

(* What the RPC returns is not past the first free slot.                   *)
LEMMA ViewIsFull ==
  ASSUME NonceTypeOK, NEW v \in PendingViews
  PROVE  v \in Counts /\ Full(v)
<1>1. PICK f \in Counts : FirstFree(f) /\ v <= f
  BY DEF PendingViews
<1>2. v \in Counts
  BY DEF PendingViews
<1> QED BY <1>1, <1>2 DEF FirstFree, Full, Counts, Slots

(* Filling slots keeps what was full so.                                   *)
LEMMA FullGrows ==
  ASSUME \A n \in Slots : slot[n] # Free => slot'[n] # Free, NEW n, Full(n)
  PROVE  Full(n)'
  BY DEF Full

(* A call that moves to another step is a call.                            *)
LEMMA StepUpdate ==
  ASSUME NonceTypeOK, NEW s \in Sends,
         NEW p \in {"queued", "done", "failed", "accepted", "resyncing"}
  PROVE  [call EXCEPT ![s].step = p] \in [Sends -> Called]
<1>1. p \in Steps
  BY DEF Steps, InLock
<1>2. call \in [Sends -> Called] /\ call[s] \in Called
  BY DEF NonceTypeOK
<1>3. [call[s] EXCEPT !.step = p] \in Called
  BY <1>1, <1>2 DEF Called
<1>4. [call EXCEPT ![s] = [call[s] EXCEPT !.step = p]] \in [Sends -> Called]
  BY <1>2, <1>3
<1> QED BY <1>2, <1>4

(* So is one that moves with another nonce.                                *)
LEMMA CallUpdate ==
  ASSUME NonceTypeOK, NEW s \in Sends, NEW p \in Steps, NEW n \in Counts,
         NEW b \in Counts \cup {Absent}
  PROVE  /\ [call EXCEPT ![s].step = p, ![s].nonce = n] \in [Sends -> Called]
         /\ [call EXCEPT ![s].step = p, ![s].nonce = n, ![s].bad = b] \in [Sends -> Called]
<1>0. call \in [Sends -> Called] /\ call[s] \in Called
  BY DEF NonceTypeOK
<1>2. [call[s] EXCEPT !.step = p, !.nonce = n] \in Called
  BY <1>0 DEF Called
<1>3. [call[s] EXCEPT !.step = p, !.nonce = n, !.bad = b] \in Called
  BY <1>0 DEF Called
<1>5. [call EXCEPT ![s] = [call[s] EXCEPT !.step = p, !.nonce = n]] \in [Sends -> Called]
  BY <1>0, <1>2
<1>6. [call EXCEPT ![s] = [call[s] EXCEPT !.step = p, !.nonce = n, !.bad = b]]
        \in [Sends -> Called]
  BY <1>0, <1>3
<1> QED BY <1>0, <1>5, <1>6

-----------------------------------------------------------------------------
(* What the steps of one call leave alone.                                 *)

(* The invariant of one call.                                              *)
CallInv(s) ==
  /\ call[s].step \in {"idle", "queued", "sending", "resyncing"} => Clean(s)
  /\ call[s].step \in {"sending", "accepted"} => Full(call[s].nonce)
  /\ call[s].step = "accepted" => /\ call[s].nonce < MaxNonce
                                  /\ slot[call[s].nonce] # Free
  /\ call[s].step \in InLock => Running(s)
ChainInv ==
  /\ AtMostOnce /\ NoGap
  /\ Full(latest)
  /\ tracked # Absent => Full(tracked)

(* A step of the call in the lock that keeps the chain and the place in    *)
(* the lock keeps the invariant of the other calls.                        *)
LEMMA OthersKept ==
  ASSUME NEW s \in Sends, UNCHANGED <<slot, queue>>,
         \A t \in Sends \ {s} : CallInv(t) /\ call'[t] = call[t]
  PROVE  \A t \in Sends \ {s} : CallInv(t)'
  BY DEF CallInv, Clean, Full, Running

(* When the running call leaves, no call is in the lock.                   *)
LEMMA LeaveKeeps ==
  ASSUME NonceIInv, NEW s \in Sends, Running(s), NEW p \in {"done", "failed"},
         Leave(s, p), UNCHANGED <<slot, latest, restarts>>,
         tracked' \in Counts \cup {Absent}, tracked' # Absent => Full(tracked')
  PROVE  NonceIInv'
<1>1. queue' \in Seq(Sends)
  BY DEF Leave, Running, NonceIInv, NonceTypeOK
<1>2. call' \in [Sends -> Called]
  BY StepUpdate DEF Leave, NonceIInv
<1>3. /\ call'[s].step = p
      /\ \A t \in Sends \ {s} : call'[t] = call[t] /\ call[t].step \notin InLock
  BY DEF Leave, NonceIInv, NonceTypeOK, Running
<1>4. \A t \in Sends : CallInv(t)'
  BY <1>3 DEF NonceIInv, CallInv, InLock, Clean, Full
<1> QED BY <1>1, <1>2, <1>4
        DEF NonceIInv, NonceTypeOK, CallInv, AtMostOnce, NoGap, Full

(* The initial state.                                                      *)
LEMMA InitNonce == NonceInit => NonceIInv
<1> SUFFICES ASSUME NonceInit PROVE NonceIInv
  OBVIOUS
<1>1. [step |-> "idle", nonce |-> 0, bad |-> Absent] \in Called
  BY DEF Called, Steps, Counts
<1>2. NonceTypeOK
  BY <1>1 DEF NonceInit, NonceTypeOK, Counts
<1>3. \A s \in Sends : call[s].step = "idle" /\ Clean(s)
  BY DEF NonceInit, Clean
<1> QED BY <1>2, <1>3
        DEF NonceIInv, NonceInit, AtMostOnce, NoGap, Full, InLock, Slots

(* A call queues.                                                          *)
LEMMA CallKeeps ==
  ASSUME NonceIInv, NEW s \in Sends, Call(s)
  PROVE  NonceIInv'
<1>0. call' \in [Sends -> Called]
  BY StepUpdate DEF Call, NonceIInv
<1>1. queue' \in Seq(Sends)
  BY DEF Call, NonceIInv, NonceTypeOK
<1>2. call'[s].step = "queued" /\ \A t \in Sends \ {s} : call'[t] = call[t]
  BY DEF Call, NonceIInv, NonceTypeOK
<1>3. \A t \in Sends : Running(t) => Running(t)'
  BY DEF Call, Running, NonceIInv, NonceTypeOK
<1>4. \A t \in Sends : CallInv(t)'
  BY <1>2, <1>3 DEF NonceIInv, CallInv, InLock, Clean, Full, Call
<1> QED BY <1>0, <1>1, <1>4
        DEF NonceIInv, NonceTypeOK, CallInv, AtMostOnce, NoGap, Full, Call

(* The running call takes the tracked nonce, or one the chain returns.     *)
LEMMA ReserveKeeps ==
  ASSUME NonceIInv, NEW s \in Sends, Reserve(s)
  PROVE  NonceIInv'
<1>1. PICK n : /\ n \in IF tracked # Absent THEN {tracked} ELSE PendingViews
               /\ tracked' = n
               /\ call' = [call EXCEPT ![s].step = "sending", ![s].nonce = n]
  BY DEF Reserve
<1>2. n \in Counts /\ Full(n)
  BY <1>1, ViewIsFull DEF NonceIInv, NonceTypeOK
<1>3. call' \in [Sends -> Called]
  BY <1>1, <1>2, CallUpdate DEF NonceIInv, Steps, InLock
<1>4. /\ call'[s].step = "sending" /\ call'[s].nonce = n
      /\ \A t \in Sends \ {s} : call'[t] = call[t]
  BY <1>1 DEF NonceIInv, NonceTypeOK
<1>5. UNCHANGED <<slot, latest, queue, restarts>> /\ Running(s) /\ Clean(s)
  BY DEF Reserve, NonceIInv
<1>6. \A t \in Sends : CallInv(t)'
  BY <1>2, <1>4, <1>5, OthersKept DEF NonceIInv, CallInv, InLock, Clean, Full, Running
<1> QED BY <1>1, <1>2, <1>3, <1>5, <1>6
        DEF NonceIInv, NonceTypeOK, CallInv, AtMostOnce, NoGap, Full

(* The node takes a transaction: the slot was free and those below full.   *)
LEMMA AcceptKeeps ==
  ASSUME NonceIInv, NEW s \in Sends, Accept(s)
  PROVE  NonceIInv'
<1> DEFINE n == call[s].nonce
<1>1. n \in Slots /\ slot[n] = Free /\ Full(n) /\ Clean(s) /\ Running(s)
  BY DEF Accept, NonceIInv, NonceTypeOK, Called, Counts, Slots, InLock
<1>2. /\ slot' \in [Slots -> Sends \cup {Foreign, Free}]
      /\ slot'[n] = s /\ s # Free
      /\ \A m \in Slots \ {n} : slot'[m] = slot[m]
  BY <1>1 DEF Accept, NonceIInv, NonceTypeOK
<1>3. call' \in [Sends -> Called]
  BY StepUpdate DEF Accept, NonceIInv
<1>4. /\ call'[s].step = "accepted" /\ call'[s].nonce = n
      /\ \A t \in Sends \ {s} : call'[t] = call[t]
  BY DEF Accept, NonceIInv, NonceTypeOK
<1>5. UNCHANGED <<latest, tracked, queue, restarts>>
  BY DEF Accept
<1> HIDE DEF n
<1>6. \A m : Full(m) => Full(m)'
  BY <1>2, FullGrows
<1>7. AtMostOnce' /\ NoGap'
  BY <1>1, <1>2, <1>6 DEF NonceIInv, AtMostOnce, NoGap, Clean
<1>8. \A t \in Sends \ {s} : CallInv(t)'
  BY <1>1, <1>2, <1>4, <1>5, <1>6
  DEF NonceIInv, NonceTypeOK, Called, CallInv, Clean, Running, InLock
<1>9. CallInv(s)'
  BY <1>1, <1>2, <1>4, <1>5, <1>6, SlotIsCount DEF CallInv, Running
<1> QED BY <1>2, <1>3, <1>5, <1>6, <1>7, <1>8, <1>9 DEF NonceIInv, NonceTypeOK, CallInv

(* The answer arrives: the next nonce is the one above a taken slot.       *)
LEMMA ReturnKeeps ==
  ASSUME NonceIInv, NEW s \in Sends, Return(s)
  PROVE  NonceIInv'
<1> DEFINE n == call[s].nonce
<1>1. /\ n \in Counts /\ n < MaxNonce /\ slot[n] # Free /\ Full(n) /\ Running(s)
  BY DEF Return, NonceIInv, NonceTypeOK, Called, InLock
<1>2. tracked' = n + 1
  BY DEF Return
<1> HIDE DEF n
<1>3. n + 1 \in Counts /\ Full(n + 1)
  BY <1>1 DEF Counts, Full, Slots
<1> QED BY <1>1, <1>2, <1>3, LeaveKeeps DEF Return

(* The error reaches the caller.                                           *)
LEMMA ThrowKeeps ==
  ASSUME NonceIInv, NEW s \in Sends, call[s].step \in {"sending", "accepted"}, Throw(s)
  PROVE  NonceIInv'
<1>1. Running(s)
  BY DEF NonceIInv, InLock
<1>2. tracked' \in Counts \cup {Absent} /\ (tracked' # Absent => Full(tracked'))
  BY DEF Throw, NonceIInv, NonceTypeOK
<1> QED BY <1>1, <1>2, LeaveKeeps DEF Throw

(* The nonce is rejected, and the chain asked again.                       *)
LEMMA RetryKeeps ==
  ASSUME NonceIInv, NEW s \in Sends, Reject(s) \/ Resync(s)
  PROVE  NonceIInv'
<1>1. CASE Reject(s)
  <2>1. call' \in [Sends -> Called]
    BY <1>1, StepUpdate DEF Reject, NonceIInv
  <2>2. call'[s].step = "resyncing" /\ \A t \in Sends \ {s} : call'[t] = call[t]
    BY <1>1 DEF Reject, NonceIInv, NonceTypeOK
  <2>3. UNCHANGED <<slot, latest, tracked, queue, restarts>> /\ Running(s) /\ Clean(s)
    BY <1>1 DEF Reject, NonceIInv, InLock
  <2>4. \A t \in Sends : CallInv(t)'
    BY <2>2, <2>3, OthersKept DEF NonceIInv, CallInv, InLock, Clean, Running
  <2> QED BY <2>1, <2>3, <2>4
          DEF NonceIInv, NonceTypeOK, CallInv, AtMostOnce, NoGap, Full
<1>2. CASE Resync(s)
  <2>1. PICK n \in PendingViews :
          call' = [call EXCEPT ![s].step = "sending", ![s].nonce = n,
                               ![s].bad = call[s].nonce]
    BY <1>2 DEF Resync
  <2>2. n \in Counts /\ Full(n) /\ call[s].nonce \in Counts
    BY ViewIsFull DEF NonceIInv, NonceTypeOK, Called
  <2>3. call' \in [Sends -> Called]
    BY <2>1, <2>2, CallUpdate DEF NonceIInv, Steps, InLock
  <2>4. /\ call'[s].step = "sending" /\ call'[s].nonce = n
        /\ \A t \in Sends \ {s} : call'[t] = call[t]
    BY <2>1 DEF NonceIInv, NonceTypeOK
  <2>5. UNCHANGED <<slot, latest, tracked, queue, restarts>> /\ Running(s) /\ Clean(s)
    BY <1>2 DEF Resync, NonceIInv, InLock
  <2>6. \A t \in Sends : CallInv(t)'
    BY <2>2, <2>4, <2>5, OthersKept DEF NonceIInv, CallInv, InLock, Clean, Full, Running
  <2> QED BY <2>3, <2>5, <2>6
          DEF NonceIInv, NonceTypeOK, CallInv, AtMostOnce, NoGap, Full
<1> QED BY <1>1, <1>2

(* The chain and the outside world.                                        *)
LEMMA ChainKeeps ==
  ASSUME NonceIInv, Mine \/ (\E n \in Slots : SendOutside(n)) \/ NonceRestart
  PROVE  NonceIInv'
<1>1. CASE Mine
  <2>1. latest \in Slots
    BY <1>1 DEF Mine, NonceIInv, NonceTypeOK, Counts, Slots
  <2>2. latest' \in Counts /\ Full(latest')
    BY <1>1, <2>1 DEF Mine, NonceIInv, NonceTypeOK, Counts, Slots, Full
  <2> QED BY <1>1, <2>2
          DEF Mine, NonceIInv, NonceTypeOK, AtMostOnce, NoGap, Full, Clean, Running
<1>2. ASSUME NEW n \in Slots, SendOutside(n)
      PROVE  NonceIInv'
  <2>1. /\ slot' \in [Slots -> Sends \cup {Foreign, Free}]
        /\ slot'[n] = Foreign /\ Foreign # Free /\ Foreign \notin Sends
        /\ \A m \in Slots \ {n} : slot'[m] = slot[m]
    BY <1>2 DEF SendOutside, NonceIInv, NonceTypeOK
  <2>2. UNCHANGED <<latest, tracked, queue, call, restarts>> /\ Full(n)
    BY <1>2 DEF SendOutside, FirstFree, NonceIInv, NoGap
  <2>3. \A m : Full(m) => Full(m)'
    BY <2>1, FullGrows
  <2>4. AtMostOnce' /\ NoGap'
    BY <2>1, <2>2, <2>3 DEF NonceIInv, AtMostOnce, NoGap
  <2>5. \A t \in Sends : CallInv(t)'
    BY <2>1, <2>2, <2>3, SlotIsCount
    DEF NonceIInv, NonceTypeOK, Called, CallInv, Clean, Running, InLock, Counts, Slots
  <2> QED BY <2>1, <2>2, <2>3, <2>4, <2>5 DEF NonceIInv, NonceTypeOK, CallInv
<1>3. CASE NonceRestart
  <2>1. \A t \in Sends : /\ call'[t] = call[t] \/ call'[t] = [call[t] EXCEPT !.step = "lost"]
                         /\ call'[t].step \notin InLock \cup {"queued"}
                         /\ call'[t] \in Called
                         /\ call'[t].step = "idle" => call'[t] = call[t]
    BY <1>3 DEF NonceRestart, NonceIInv, NonceTypeOK, Called, Steps, InLock
  <2>2. call' \in [Sends -> Called]
    BY <1>3, <2>1 DEF NonceRestart
  <2>3. \A t \in Sends : CallInv(t)'
    BY <1>3, <2>1 DEF NonceRestart, NonceIInv, CallInv, Clean, InLock
  <2> QED BY <1>3, <2>2, <2>3
          DEF NonceRestart, NonceIInv, NonceTypeOK, CallInv, AtMostOnce, NoGap, Full
<1> QED BY <1>1, <1>2, <1>3

(* Every step keeps the invariant.                                         *)
LEMMA NextNonce == NonceIInv /\ [NonceNext]_nonceVars => NonceIInv'
<1> SUFFICES ASSUME NonceIInv, [NonceNext]_nonceVars PROVE NonceIInv'
  OBVIOUS
<1>1. ASSUME NEW s \in Sends, Refuse(s) \/ LoseAnswer(s)
      PROVE  NonceIInv'
  BY <1>1, ThrowKeeps DEF Refuse, LoseAnswer
<1>2. CASE UNCHANGED nonceVars
  BY <1>2 DEF nonceVars, NonceIInv, NonceTypeOK, AtMostOnce, NoGap, Full, Clean, Running
<1> QED
  BY <1>1, <1>2, CallKeeps, ReserveKeeps, AcceptKeeps, ReturnKeeps, RetryKeeps, ChainKeeps
  DEF NonceNext, Handle

-----------------------------------------------------------------------------
(* The counter, the calls in progress and the chain stay in step           *)
(* (sendSponsorTx, sponsor-nonce.ts:127-166).                              *)
THEOREM NonceInvariance == NonceSpec => []NonceIInv
  BY InitNonce, NextNonce, PTL DEF NonceSpec

(* No call executes twice, whatever the RPC's lag, lost answers, restarts  *)
(* and other users of the key (sponsor-nonce.ts:64-67).                    *)
THEOREM AtMostOnceHolds == NonceSpec => []AtMostOnce
<1>1. NonceIInv => AtMostOnce
  BY DEF NonceIInv
<1> QED BY <1>1, NonceInvariance, PTL

(* No transaction is ever left waiting behind an unused nonce              *)
(* (sponsor-nonce.ts:147-149).                                             *)
THEOREM NoGapHolds == NonceSpec => []NoGap
<1>1. NonceIInv => NoGap
  BY DEF NonceIInv
<1> QED BY <1>1, NonceInvariance, PTL

-----------------------------------------------------------------------------
(* The registration over it.                                               *)

USE RegisterAssumption, MarkerAssumption

-----------------------------------------------------------------------------
(* The steps as the sponsor wallet sees them.                              *)

(* Every step is one of the wallet's, or leaves it alone.                  *)
LEMMA NextIsNonceNext == [Next]_vars => [NonceNext]_nonceVars
<1> SUFFICES ASSUME [Next]_vars PROVE [NonceNext]_nonceVars
  OBVIOUS
<1>1. ASSUME NEW a \in Attempts, NEW p, Move(a, p) PROVE UNCHANGED nonceVars
  BY <1>1 DEF Move, Unsent
<1>2. ASSUME NEW a \in Attempts, NEW i, Adopt(a, i) PROVE UNCHANGED nonceVars
  BY <1>2 DEF Adopt, Unsent
<1>3. ASSUME NEW a \in Attempts, Send(a) PROVE NonceNext
  BY <1>3 DEF Send, NonceNext
<1>4. ASSUME NEW a \in Attempts, Begin(a) PROVE [NonceNext]_nonceVars
  BY <1>1, <1>3, <1>4 DEF Begin
<1>5. ASSUME NEW a \in Attempts, Climb(a) PROVE [NonceNext]_nonceVars
  BY <1>1, <1>2, <1>3, <1>5
  DEF Climb, ReadReceipt, ReadCount, ReadAgain, Walk, ReadCounts, Resend
<1>6. ASSUME NEW a \in Attempts, Carry(a) PROVE [NonceNext]_nonceVars
  <2>1. CASE Wait(a)
    BY <1>1, <1>2, <2>1 DEF Wait
  <2>2. CASE Confirm(a)
    BY <2>2 DEF Confirm, Unsent
  <2>3. CASE SendReserves(a) \/ SendBroadcasts(a) \/ SendReturns(a) \/ SendThrows(a)
    BY <2>3 DEF SendReserves, SendBroadcasts, SendReturns, SendThrows, Handle, NonceNext
  <2> QED BY <1>6, <2>1, <2>2, <2>3 DEF Carry
<1>7. CASE PersistElsewhere \/ Reconcile \/ UNCHANGED vars
  BY <1>7 DEF PersistElsewhere, Reconcile, Unsent, vars, nonceVars
<1>8. CASE MineBlock \/ OthersSend \/ Restart
  BY <1>8 DEF MineBlock, OthersSend, Restart, NonceNext
<1> QED BY <1>1, <1>4, <1>5, <1>6, <1>7, <1>8 DEF Next, Throws

-----------------------------------------------------------------------------
(* Types.                                                                  *)

(* An attempt goes somewhere and the others stay.                          *)
LEMMA GoType ==
  ASSUME TypeOK, NEW a \in Attempts, NEW p \in Places, Go(a, p)
  PROVE  /\ at' \in [Attempts -> Places]
         /\ at'[a] = p
         /\ \A b \in Attempts \ {a} : at'[b] = at[b]
  BY DEF TypeOK, Go

(* The places, one by one.                                                 *)
LEMMA AllPlaces ==
  /\ "idle" \in Places /\ "sending" \in Places /\ "unjournalled" \in Places
  /\ "waiting" \in Places /\ "confirming" \in Places /\ "count" \in Places
  /\ "recheck" \in Places /\ "counts" \in Places /\ "receipt" \in Places
  /\ "walk" \in Places /\ "done" \in Places /\ "refused" \in Places
  /\ "failed" \in Places /\ "lost" \in Places
  BY DEF Places, Reading, Ends

(* What an intent, and a marker with its hash, is.                         *)
LEMMA MarkerType ==
  ASSUME NEW m \in Markers
  PROVE  /\ m # NoMarker
         /\ m.nonce \in Counts
         /\ m.tx = NoTx => m \in Intents
         /\ m.tx # NoTx => m \in Hashed /\ m.tx \in Attempts /\ m.nonce \in Slots
  BY SlotIsCount DEF Markers, Intents, Hashed

LEMMA IntentType ==
  ASSUME NEW n \in Counts
  PROVE  /\ Intent(n) \in Intents /\ Intent(n) \in Markers
         /\ Intent(n).nonce = n /\ Intent(n).tx = NoTx
  BY DEF Intent, Intents, Markers

(* Clearing the marker leaves none in memory, and on disk what was there.  *)
LEMMA ClearType ==
  ASSUME TypeOK, ClearMarker
  PROVE  marker' = NoMarker /\ dmarker' \in {NoMarker, dmarker}
  BY DEF ClearMarker, SaveMarker

(* Recording an id.                                                        *)
LEMMA RecordType ==
  ASSUME TypeOK, NEW i \in Attempts, RecordId(i)
  PROVE  /\ id' = i /\ did' \in {did, i}
         /\ ~IdWriteMayFail /\ did = id => did' = id'
  BY DEF RecordId

(* Every step keeps the types.                                             *)
LEMMA MoveType ==
  ASSUME TypeOK, NEW a \in Attempts, NEW p \in Places, Move(a, p)
  PROVE  TypeOK'
  BY GoType DEF Move, TypeOK

LEMMA AdoptType ==
  ASSUME TypeOK, NEW a \in Attempts, NEW i \in regd, Adopt(a, i)
  PROVE  TypeOK'
<1>1. i \in Attempts
  BY DEF TypeOK
<1>2. at' \in [Attempts -> Places]
  BY GoType, AllPlaces DEF Adopt
<1> QED BY <1>1, <1>2, RecordType DEF Adopt, TypeOK

LEMMA SendType ==
  ASSUME TypeOK, NEW a \in Attempts, Send(a), UNCHANGED <<id, did, feed, regd>>,
         marker' = NoMarker, dmarker' \in {NoMarker, dmarker}
  PROVE  TypeOK'
<1>1. at' \in [Attempts -> Places]
  BY GoType, AllPlaces DEF Send
<1> QED BY <1>1 DEF TypeOK

LEMMA NextType == TypeOK /\ NonceIInv /\ [Next]_vars => TypeOK'
<1> SUFFICES ASSUME TypeOK, NonceIInv, [Next]_vars PROVE TypeOK'
  OBVIOUS
<1>0. NonceIInv' /\ \A s \in Sends : call[s].nonce \in Counts /\ call'[s].nonce \in Counts
  BY NextIsNonceNext, NextNonce DEF NonceIInv, NonceTypeOK, Called
<1>1. ASSUME NEW a \in Attempts, Resend(a) PROVE TypeOK'
  BY <1>1, SendType, ClearType DEF Resend
<1>2. ASSUME NEW a \in Attempts, Begin(a) PROVE TypeOK'
  <2>1. CASE Send(a) /\ marker = NoMarker /\ UNCHANGED <<marker, dmarker, id, did, feed, regd>>
    BY <2>1, SendType
  <2> QED BY <1>2, <2>1, MoveType, AllPlaces DEF Begin
<1>3. ASSUME NEW a \in Attempts, Climb(a) PROVE TypeOK'
  BY <1>1, <1>3, MoveType, AdoptType, AllPlaces
  DEF Climb, ReadReceipt, ReadCount, ReadAgain, Walk, ReadCounts
<1>4. ASSUME NEW a \in Attempts, SendReserves(a) PROVE TypeOK'
  <2>1. a \in Sends /\ Intent(call'[a].nonce) \in Markers
    BY <1>0, IntentType
  <2>2. at' \in [Attempts -> Places]
    BY <1>4, GoType, AllPlaces DEF SendReserves, JournalIntent, TypeOK
  <2> QED BY <1>4, <2>1, <2>2 DEF SendReserves, JournalIntent, TypeOK
<1>5. ASSUME NEW a \in Attempts, SendReturns(a) PROVE TypeOK'
  <2>1. call[a].nonce \in Slots
    BY <1>0, <1>5 DEF SendReturns, Return, NonceIInv, Slots, Counts
  <2>2. [nonce |-> call[a].nonce, tx |-> a] \in Markers
    BY <2>1 DEF Markers, Hashed
  <2>3. at' \in [Attempts -> Places]
    BY <1>5, GoType, AllPlaces DEF SendReturns
  <2> QED BY <1>5, <2>2, <2>3 DEF SendReturns, Upgrade, SaveMarker, TypeOK
<1>6. ASSUME NEW a \in Attempts, SendBroadcasts(a) \/ SendThrows(a) PROVE TypeOK'
  BY <1>6, GoType, AllPlaces DEF SendBroadcasts, SendThrows, regVars, TypeOK
<1>7. ASSUME NEW a \in Attempts, Wait(a) PROVE TypeOK'
  BY <1>7, MoveType, AdoptType, AllPlaces DEF Wait
<1>8. ASSUME NEW a \in Attempts, Confirm(a) PROVE TypeOK'
  <2>1. at' \in [Attempts -> Places]
    BY <1>8, GoType, AllPlaces DEF Confirm
  <2> QED BY <1>8, <2>1, ClearType DEF Confirm, TypeOK
<1>9. ASSUME NEW a \in Attempts, Throws(a) PROVE TypeOK'
  BY <1>9, MoveType, AllPlaces DEF Throws
<1>10. CASE PersistElsewhere \/ MineBlock \/ OthersSend \/ UNCHANGED vars
  BY <1>10 DEF PersistElsewhere, MineBlock, OthersSend, regVars, vars, TypeOK
<1>11. CASE Reconcile
  BY <1>11, RecordType DEF Reconcile, TypeOK
<1>12. CASE Restart
  BY <1>12, AllPlaces DEF Restart, TypeOK
<1> QED BY <1>2, <1>3, <1>4, <1>5, <1>6, <1>7, <1>8, <1>9, <1>10, <1>11, <1>12
        DEF Next, Carry

-----------------------------------------------------------------------------
(* What the other conjuncts of the invariant are about.                    *)

Ladders == \A a \in Attempts : InStep(a) /\ Ladder(a)
Ids == did = id /\ {id, feed} \subseteq regd \cup {NoId}
MinedOnes == \A a \in regd : Mined(a)

(* Steps that leave the chain alone leave alone what is live there.        *)
LEMMA SameChain ==
  ASSUME UNCHANGED <<slot, latest, regd>>
  PROVE  /\ \A a : Live(a)' <=> Live(a)
         /\ \A m, a : LeadsTo(m, a) <=> (/\ m # NoMarker /\ m.nonce \in Slots
                                         /\ slot'[m.nonce] = a /\ m.tx \in {NoTx, a})
         /\ OneLive => OneLive'
         /\ MinedOnes => MinedOnes'
  BY DEF Live, LeadsTo, OneLive, MinedOnes, Mined

(* A registered transaction is live.                                       *)
LEMMA RegisteredIsLive ==
  ASSUME MinedOnes, NEW a \in regd
  PROVE  Live(a)
  BY DEF MinedOnes, Mined, Live

(* A live transaction has one slot; once mined it has registered.          *)
LEMMA LiveSlot ==
  ASSUME NonceIInv, NEW a \in Attempts, Live(a), NEW n \in Slots, slot[n] = a, n < latest
  PROVE  a \in regd
  BY DEF Live, NonceIInv, AtMostOnce

(* An attempt that has not sent is not live.                               *)
LEMMA UnsentIsDead ==
  ASSUME NonceIInv, NEW a \in Attempts,
         call[a].step \in {"idle", "queued", "sending", "resyncing"}
  PROVE  ~Live(a)
  BY DEF NonceIInv, Clean, Live

(* An attempt that moves, without sending.                                 *)
LEMMA MoveKeeps ==
  ASSUME IInv, TypeOK', NonceIInv', NEW a \in Attempts, NEW p \in Places, Move(a, p),
         Active(a) \/ ~Joins(a), at[a] \notin {"sending", "unjournalled"},
         p \in Ends \cup Reading \cup {"confirming"},
         p \in Reading => at[a] \in Reading \cup {"idle"},
         Ladder(a)'
  PROVE  IInv'
<1>1. UNCHANGED <<slot, latest, regd, call, marker, dmarker, id, did, feed>>
  BY DEF Move, Unsent, nonceVars
<1>2. at'[a] = p /\ \A b \in Attempts \ {a} : at'[b] = at[b]
  BY GoType DEF Move, IInv
<1>3. OneLive' /\ MinedOnes' /\ JournalCovers' /\ Ids'
  BY <1>1, SameChain DEF IInv, MinedOnes, JournalCovers, LeadsTo, Ids
<1>4. p \notin {"sending", "unjournalled", "idle"}
  BY DEF Ends, Reading
<1>5. SendsAlone'
  BY <1>1, <1>2, <1>4, SameChain DEF IInv, SendsAlone
<1>6. OneRuns'
  BY <1>2 DEF IInv, OneRuns, Active, Joins
<1>7. InStep(a)'
  BY <1>1, <1>2, <1>4 DEF IInv, InStep, Reading
<1>8. \A b \in Attempts \ {a} : InStep(b)' /\ Ladder(b)'
  BY <1>1, <1>2, SameChain DEF IInv, InStep, Ladder, LeadsTo
<1> QED BY <1>3, <1>5, <1>6, <1>7, <1>8 DEF IInv, MinedOnes, Ids

(* An attempt that adopts an id.                                           *)
LEMMA AdoptKeeps ==
  ASSUME Sound, IInv, TypeOK', NonceIInv', NEW a \in Attempts, NEW i \in regd, Adopt(a, i),
         at[a] \in Reading \cup {"waiting"}
  PROVE  IInv'
<1>1. UNCHANGED <<slot, latest, regd, call, marker, dmarker, feed>>
  BY DEF Adopt, Unsent, nonceVars
<1>2. at'[a] = "confirming" /\ \A b \in Attempts \ {a} : at'[b] = at[b]
  BY GoType, AllPlaces DEF Adopt, IInv
<1>3. i \in Attempts /\ id' = i /\ did' = id'
  BY RecordType DEF Adopt, IInv, TypeOK, Sound
<1>4. i # NoId
  BY <1>3
<1>5. OneLive' /\ MinedOnes' /\ JournalCovers' /\ Ids'
  BY <1>1, <1>3, <1>4, SameChain DEF IInv, MinedOnes, JournalCovers, Ids
<1>6. SendsAlone'
  BY <1>1, <1>2, SameChain DEF IInv, SendsAlone
<1>7. Active(a)
  BY DEF Active, Reading, Ends
<1>8. OneRuns'
  BY <1>2, <1>7 DEF IInv, OneRuns, Active
<1>9. InStep(a)' /\ Ladder(a)'
  BY <1>1, <1>2, <1>3, <1>4 DEF IInv, InStep, Ladder, Reading
<1>10. \A b \in Attempts \ {a} : InStep(b)' /\ Ladder(b)'
  BY <1>1, <1>2, <1>3, <1>4, SameChain DEF IInv, InStep, Ladder, LeadsTo
<1> QED BY <1>5, <1>6, <1>8, <1>9, <1>10 DEF IInv, MinedOnes, Ids

(* An attempt that sends, when nothing of the series is live.              *)
LEMMA SendKeeps ==
  ASSUME IInv, TypeOK', NonceIInv', NEW a \in Attempts, Send(a),
         UNCHANGED <<id, did, feed, regd>>, marker' = NoMarker, dmarker' \in {NoMarker, dmarker},
         Active(a) \/ ~Joins(a), at[a] \in Reading \cup {"idle"},
         \A b \in Attempts : ~Live(b)
  PROVE  IInv'
<1>1. UNCHANGED <<slot, latest, regd>>
  BY DEF Send, Call
<1>2. at'[a] = "sending" /\ \A b \in Attempts \ {a} : at'[b] = at[b]
  BY GoType, AllPlaces DEF Send, IInv
<1>3. call'[a].step = "queued" /\ \A b \in Attempts \ {a} : call'[b] = call[b]
  BY DEF Send, Call, IInv, NonceIInv, NonceTypeOK
<1>4. OneLive' /\ MinedOnes' /\ JournalCovers' /\ Ids' /\ SendsAlone'
  BY <1>1, SameChain DEF IInv, MinedOnes, OneLive, JournalCovers, SendsAlone, Ids
<1>5. OneRuns'
  BY <1>2 DEF IInv, OneRuns, Active, Joins
<1>6. \A b \in Attempts \ {a} : ~Active(b)
  BY DEF IInv, OneRuns, Joins
<1>7. InStep(a)' /\ Ladder(a)'
  BY <1>2, <1>3 DEF InStep, Ladder, Reading
<1>8. \A b \in Attempts \ {a} : InStep(b)' /\ Ladder(b)'
  BY <1>2, <1>3, <1>6 DEF IInv, InStep, Ladder, Active, Reading, Ends
<1> QED BY <1>4, <1>5, <1>7, <1>8 DEF IInv, MinedOnes, Ids

-----------------------------------------------------------------------------
(* The ladder.                                                             *)

(* Begin.                                                                  *)
LEMMA BeginKeeps ==
  ASSUME Sound, IInv, TypeOK', NonceIInv', NEW a \in Attempts, Begin(a)
  PROVE  IInv'
<1>1. at[a] = "idle" /\ ~Joins(a)
  BY DEF Begin
<1>2. ASSUME Move(a, "done") PROVE IInv'
  <2>1. at'[a] = "done"
    BY <1>2, GoType, AllPlaces DEF Move, IInv
  <2>2. Ladder(a)'
    BY <2>1 DEF Ladder, Reading
  <2> QED BY <1>1, <1>2, <2>2, MoveKeeps, AllPlaces DEF Ends, Reading
<1>3. ASSUME id # NoId, Move(a, "confirming") PROVE IInv'
  <2>1. at'[a] = "confirming" /\ id' = id
    BY <1>3, GoType, AllPlaces DEF Move, IInv
  <2>2. Ladder(a)'
    BY <1>3, <2>1 DEF Ladder, Reading
  <2> QED BY <1>1, <1>3, <2>2, MoveKeeps, AllPlaces DEF Ends, Reading
<1>4. ASSUME id = NoId, marker # NoMarker, NEW p \in {"receipt", "walk"}, Move(a, p),
             p = "receipt" => marker.tx # NoTx, p = "walk" => marker.tx = NoTx
      PROVE  IInv'
  <2>1. at'[a] = p /\ UNCHANGED <<slot, latest, regd, marker>>
    BY <1>4, GoType, AllPlaces DEF Move, IInv, Unsent, nonceVars
  <2>2. \A b \in Attempts : Live(b) => LeadsTo(marker, b)
    BY <1>4 DEF IInv, JournalCovers
  <2>3. \A b \in Attempts : Live(b)' => LeadsTo(marker, b)'
    BY <2>1, <2>2, SameChain DEF LeadsTo
  <2>4. marker \in Markers
    BY <1>4 DEF IInv, TypeOK
  <2>5. Ladder(a)'
    BY <1>4, <2>1, <2>3, <2>4, MarkerType DEF Ladder, Reading
  <2> QED BY <1>1, <1>4, <2>5, MoveKeeps, AllPlaces DEF Ends, Reading
<1>5. ASSUME id = NoId, marker = NoMarker, Send(a),
             UNCHANGED <<marker, dmarker, id, did, feed, regd>>
      PROVE  IInv'
  <2>1. \A b \in Attempts : ~Live(b)
    BY <1>5 DEF IInv, JournalCovers, LeadsTo
  <2> QED BY <1>1, <1>5, <2>1, SendKeeps
<1> QED BY <1>2, <1>3, <1>4, <1>5 DEF Begin

(* Sending again from the ladder.                                          *)
LEMMA ResendKeeps ==
  ASSUME IInv, TypeOK', NonceIInv', NEW a \in Attempts, Resend(a), at[a] \in Reading,
         \A b \in Attempts : ~Live(b)
  PROVE  IInv'
<1>1. Active(a)
  BY DEF Active, Reading, Ends
<1>2. marker' = NoMarker /\ dmarker' \in {NoMarker, dmarker}
  BY ClearType DEF Resend, IInv
<1> QED BY <1>1, <1>2, SendKeeps DEF Resend

(* A failing read, and every step of the ladder.                           *)
LEMMA LeaveLadder ==
  ASSUME IInv, TypeOK', NonceIInv', NEW a \in Attempts, NEW p \in Ends, Move(a, p),
         at[a] \in Reading \cup {"waiting", "confirming"}
  PROVE  IInv'
<1>1. p \in Places
  BY DEF Places
<1>2. at'[a] = p
  BY <1>1, GoType DEF Move, IInv
<1>3. Ladder(a)'
  BY <1>2 DEF Ladder, Reading, Ends
<1>4. Active(a) /\ p \notin Reading /\ at[a] \notin {"sending", "unjournalled"}
  BY DEF Active, Reading, Ends
<1> QED BY <1>1, <1>3, <1>4, MoveKeeps

(* Moving up the ladder, where the marker stays what it is.                *)
LEMMA NextRung ==
  ASSUME IInv, TypeOK', NonceIInv', NEW a \in Attempts, NEW p \in {"count", "recheck", "counts"},
         at[a] \in Reading, Move(a, p),
         p \in {"count", "recheck"} => marker \in Hashed,
         p = "recheck" => latest > marker.nonce,
         p = "counts" => marker \in Intents /\ regd = {}
  PROVE  IInv'
<1>1. p \in Places /\ p \in Reading
  BY DEF Places, Reading
<1>2. at'[a] = p /\ UNCHANGED <<slot, latest, regd, marker>>
  BY <1>1, GoType DEF Move, IInv, Unsent, nonceVars
<1>3. \A b \in Attempts : Live(b)' => LeadsTo(marker, b)'
  BY <1>2, SameChain DEF IInv, Ladder, LeadsTo
<1>4. Ladder(a)'
  BY <1>2, <1>3 DEF Ladder
<1>5. Active(a) /\ at[a] \notin {"sending", "unjournalled"}
  BY DEF Active, Reading, Ends
<1> QED BY <1>1, <1>4, <1>5, MoveKeeps

(* resolveRegisterTx.                                                      *)
LEMMA ReceiptKeeps ==
  ASSUME Sound, IInv, TypeOK', NonceIInv', NEW a \in Attempts,
         ReadReceipt(a) \/ ReadCount(a) \/ ReadAgain(a)
  PROVE  IInv'
<1>1. /\ at[a] \in Reading /\ marker \in Hashed /\ marker.tx \in Attempts
      /\ \A b \in Attempts : Live(b) => LeadsTo(marker, b) /\ b = marker.tx
  <2>1. at[a] \in {"receipt", "count", "recheck"}
    BY DEF ReadReceipt, ReadCount, ReadAgain
  <2>2. at[a] \in Reading /\ marker \in Hashed
    BY <2>1 DEF IInv, Ladder, Reading
  <2>3. marker.tx \in Attempts
    BY <2>2 DEF Hashed
  <2> QED BY <2>2, <2>3 DEF IInv, Ladder, LeadsTo
<1>2. ASSUME Mined(marker.tx), marker.tx \notin regd, Resend(a) PROVE IInv'
  <2>1. \A b \in Attempts : ~Live(b)
    BY <1>1, <1>2, LiveSlot DEF IInv, Mined
  <2> QED BY <1>1, <1>2, <2>1, ResendKeeps
<1>3. ASSUME marker.tx \in regd, Adopt(a, marker.tx) PROVE IInv'
  BY <1>1, <1>3, AdoptKeeps
<1>4. ASSUME at[a] = "recheck", marker.tx \notin regd, Resend(a) PROVE IInv'
  <2>1. latest > marker.nonce
    BY <1>4 DEF IInv, Ladder
  <2>2. \A b \in Attempts : ~Live(b)
    <3> SUFFICES ASSUME NEW b \in Attempts, Live(b) PROVE FALSE
      OBVIOUS
    <3>1. marker.nonce \in Slots /\ slot[marker.nonce] = b /\ b = marker.tx
      BY <1>1 DEF LeadsTo
    <3>2. marker.nonce < latest
      BY <2>1, <3>1 DEF Slots, IInv, NonceIInv, NonceTypeOK, Counts
    <3> QED BY <1>4, <3>1, <3>2, LiveSlot DEF IInv
  <2> QED BY <1>1, <1>4, <2>2, ResendKeeps
<1>5. ASSUME Move(a, "count") PROVE IInv'
  BY <1>1, <1>5, NextRung
<1>6. ASSUME latest > marker.nonce, Move(a, "recheck") PROVE IInv'
  BY <1>1, <1>6, NextRung
<1>7. ASSUME Move(a, "refused") PROVE IInv'
  BY <1>1, <1>7, LeaveLadder DEF Ends
<1> QED BY <1>2, <1>3, <1>4, <1>5, <1>6, <1>7 DEF ReadReceipt, ReadCount, ReadAgain

(* The pending count of one moment with the mined count is the first free  *)
(* nonce.                                                                  *)
LEMMA TruePending ==
  ASSUME Sound, NonceIInv, NEW v \in PendingViews, NEW n \in Slots, v <= n
  PROVE  slot[n] = Free
<1>1. PICK f \in Counts : FirstFree(f) /\ v <= f /\ f <= v + MaxLag
  BY DEF PendingViews
<1>2. f = v /\ v \in Counts
  BY <1>1 DEF PendingViews, Sound, Counts
<1>3. v \in Slots /\ slot[v] = Free
  BY <1>1, <1>2 DEF FirstFree, Counts, Slots
<1>4. CASE slot[n] # Free
  <2>1. Full(n)
    BY <1>4 DEF NonceIInv, NoGap
  <2>2. v = n \/ v < n
    BY <1>2 DEF Counts, Slots
  <2> QED BY <1>3, <1>4, <2>1, <2>2 DEF Full
<1> QED BY <1>4

(* resolveRegistrationIntent.                                              *)
LEMMA IntentKeeps ==
  ASSUME Sound, IInv, TypeOK', NonceIInv', NEW a \in Attempts, Walk(a) \/ ReadCounts(a)
  PROVE  IInv'
<1>1. /\ at[a] \in Reading /\ marker \in Intents
      /\ \A b \in Attempts : Live(b) => LeadsTo(marker, b)
  BY DEF Walk, ReadCounts, IInv, Ladder, Reading
<1>2. ASSUME NEW i \in regd, Adopt(a, i) PROVE IInv'
  BY <1>1, <1>2, AdoptKeeps
<1>3. ASSUME regd = {}, Move(a, "counts") PROVE IInv'
  BY <1>1, <1>3, NextRung
<1>4. ASSUME Move(a, "refused") PROVE IInv'
  BY <1>1, <1>4, LeaveLadder DEF Ends
<1>5. ASSUME at[a] = "counts", NEW v \in PendingViews,
             ~(latest <= marker.nonce /\ v > marker.nonce), Resend(a)
      PROVE  IInv'
  <2>1. regd = {}
    BY <1>5 DEF IInv, Ladder
  <2>2. \A b \in Attempts : ~Live(b)
    <3> SUFFICES ASSUME NEW b \in Attempts, Live(b) PROVE FALSE
      OBVIOUS
    <3>1. marker.nonce \in Slots /\ slot[marker.nonce] = b
      BY <1>1 DEF LeadsTo
    <3>2. v \in Counts /\ latest \in Counts
      BY DEF PendingViews, IInv, NonceIInv, NonceTypeOK
    <3>3. CASE marker.nonce < latest
      BY <2>1, <3>1, <3>3, LiveSlot DEF IInv
    <3>4. CASE v <= marker.nonce
      <4>1. slot[marker.nonce] = Free
        BY <3>1, <3>4, TruePending DEF IInv
      <4> QED BY <3>1, <4>1
    <3> QED BY <1>5, <3>1, <3>2, <3>3, <3>4 DEF Counts, Slots
  <2> QED BY <1>1, <1>5, <2>2, ResendKeeps
<1> QED BY <1>2, <1>3, <1>4, <1>5 DEF Walk, ReadCounts

(* The wait, the confirmation and a failing read.                          *)
LEMMA EndKeeps ==
  ASSUME Sound, IInv, TypeOK', NonceIInv', NEW a \in Attempts,
         Wait(a) \/ Confirm(a) \/ Throws(a)
  PROVE  IInv'
<1>1. CASE Wait(a)
  BY <1>1, AdoptKeeps, LeaveLadder DEF Wait, Ends
<1>2. CASE Throws(a)
  BY <1>2, LeaveLadder DEF Throws, Ends
<1>3. CASE Confirm(a)
  <2>1. UNCHANGED <<slot, latest, regd, call, id, did>> /\ at[a] = "confirming"
    BY <1>3 DEF Confirm, Unsent, nonceVars
  <2>2. at'[a] = "done" /\ \A b \in Attempts \ {a} : at'[b] = at[b]
    BY <1>3, GoType, AllPlaces DEF Confirm, IInv
  <2>3. id # NoId /\ did # NoId
    BY <2>1 DEF IInv, Ladder
  <2>4. OneLive' /\ MinedOnes' /\ JournalCovers'
    BY <2>1, <2>3, SameChain DEF IInv, MinedOnes, JournalCovers
  <2>5. Ids'
    BY <1>3, <2>1 DEF IInv, Ids, Confirm
  <2>6. SendsAlone' /\ OneRuns'
    BY <2>1, <2>2, SameChain DEF IInv, SendsAlone, OneRuns, Active, Ends
  <2>7. InStep(a)' /\ Ladder(a)'
    BY <2>1, <2>2 DEF IInv, InStep, Ladder, Reading
  <2>8. \A b \in Attempts \ {a} : ~Active(b)
    BY <2>1 DEF IInv, OneRuns, Active, Ends
  <2>9. \A b \in Attempts \ {a} : InStep(b)' /\ Ladder(b)'
    BY <2>1, <2>2, <2>8 DEF IInv, InStep, Ladder, Active, Reading, Ends
  <2> QED BY <2>4, <2>5, <2>6, <2>7, <2>9 DEF IInv, MinedOnes, Ids
<1> QED BY <1>1, <1>2, <1>3

-----------------------------------------------------------------------------
(* The send.                                                               *)

(* An attempt in the wallet's queue is the one that runs.                  *)
LEMMA SenderAlone ==
  ASSUME IInv, NEW a \in Attempts, call[a].step \in InLock \cup {"queued"}
  PROVE  /\ Active(a) /\ at[a] \in {"sending", "unjournalled"}
         /\ call[a].step # "sending" => at[a] = "sending"
         /\ \A b \in Attempts \ {a} : ~Active(b) /\ ~Live(b)
<1>1. at[a] \in {"sending", "unjournalled"} /\ (call[a].step # "sending" => at[a] = "sending")
  BY DEF IInv, InStep
<1>2. Active(a)
  BY <1>1 DEF Active, Ends
<1> QED BY <1>1, <1>2 DEF IInv, OneRuns, SendsAlone

(* What a step of the wallet does to its calls.                            *)
LEMMA CallSteps ==
  ASSUME NonceIInv, NEW s \in Sends
  PROVE  /\ Call(s) \/ Handle(s) => \A t \in Sends \ {s} : call'[t] = call[t]
         /\ Reserve(s) \/ Resync(s) => call'[s].step = "sending"
         /\ Accept(s) => call'[s].step = "accepted" /\ call'[s].nonce = call[s].nonce
         /\ Reject(s) => call'[s].step = "resyncing" /\ call'[s].nonce = call[s].nonce
         /\ Return(s) \/ Refuse(s) \/ LoseAnswer(s) => call'[s].step \in {"done", "failed"}
<1>0. call \in [Sends -> Called] /\ call[s] \in Called
  BY DEF NonceIInv, NonceTypeOK
<1>1. Call(s) => \A t \in Sends \ {s} : call'[t] = call[t]
  BY <1>0 DEF Call
<1>2. Reserve(s) => call'[s].step = "sending" /\ \A t \in Sends \ {s} : call'[t] = call[t]
  BY <1>0 DEF Reserve, Called
<1>3. Resync(s) => call'[s].step = "sending" /\ \A t \in Sends \ {s} : call'[t] = call[t]
  BY <1>0 DEF Resync, Called
<1>4. Accept(s) => /\ call'[s].step = "accepted" /\ call'[s].nonce = call[s].nonce
                   /\ \A t \in Sends \ {s} : call'[t] = call[t]
  BY <1>0 DEF Accept, Called
<1>5. Reject(s) => /\ call'[s].step = "resyncing" /\ call'[s].nonce = call[s].nonce
                   /\ \A t \in Sends \ {s} : call'[t] = call[t]
  BY <1>0 DEF Reject, Called
<1>6. ASSUME NEW p \in {"done", "failed"}, Leave(s, p)
      PROVE  call'[s].step \in {"done", "failed"} /\ \A t \in Sends \ {s} : call'[t] = call[t]
  BY <1>0, <1>6 DEF Leave, Called
<1>7. Return(s) \/ Refuse(s) \/ LoseAnswer(s)
        => call'[s].step \in {"done", "failed"} /\ \A t \in Sends \ {s} : call'[t] = call[t]
  BY <1>6 DEF Return, Refuse, LoseAnswer, Throw
<1> QED BY <1>1, <1>2, <1>3, <1>4, <1>5, <1>7 DEF Handle

(* The attempts that are not running keep their part of the invariant.     *)
LEMMA IdleKeeps ==
  ASSUME IInv, NEW b \in Attempts, ~Active(b), at'[b] = at[b], call'[b] = call[b]
  PROVE  InStep(b)' /\ Ladder(b)'
  BY DEF IInv, InStep, Ladder, Active, Reading, Ends

(* The nonce is reserved, and the intent journalled or the send given up.  *)
LEMMA ReserveJournals ==
  ASSUME IInv, TypeOK', NonceIInv', NEW a \in Attempts, SendReserves(a)
  PROVE  IInv'
<1>1. call[a].step \in {"queued", "resyncing"} /\ UNCHANGED <<slot, latest, regd, id, did, feed>>
  BY DEF SendReserves, Reserve, Resync
<1>2. at[a] = "sending" /\ \A b \in Attempts \ {a} : ~Active(b) /\ ~Live(b)
  BY <1>1, SenderAlone DEF InLock
<1>3. \A b \in Attempts : ~Live(b)'
  BY <1>1, <1>2, UnsentIsDead, SameChain DEF IInv
<1>4. call'[a].step = "sending" /\ \A b \in Attempts \ {a} : call'[b] = call[b]
  BY CallSteps DEF SendReserves, Handle, IInv
<1>5. \A b \in Attempts \ {a} : at'[b] = at[b]
  BY GoType, AllPlaces DEF SendReserves, JournalIntent, IInv
<1>6. \/ at'[a] = "sending" /\ marker' = Intent(call'[a].nonce) /\ dmarker' = marker'
      \/ at'[a] = "unjournalled"
  BY <1>2, GoType, AllPlaces DEF SendReserves, JournalIntent, IInv
<1>7. OneLive' /\ JournalCovers' /\ SendsAlone'
  BY <1>3 DEF OneLive, JournalCovers, SendsAlone
<1>8. MinedOnes' /\ Ids'
  BY <1>1, SameChain DEF IInv, MinedOnes, Ids
<1>9. OneRuns'
  BY <1>2, <1>5 DEF OneRuns, Active
<1>10. InStep(a)' /\ Ladder(a)'
  BY <1>4, <1>6 DEF InStep, Ladder, Reading, Intent
<1>11. \A b \in Attempts \ {a} : InStep(b)' /\ Ladder(b)'
  BY <1>2, <1>4, <1>5, IdleKeeps
<1> QED BY <1>7, <1>8, <1>9, <1>10, <1>11 DEF IInv, MinedOnes, Ids

(* The node takes the transaction or rejects its nonce.                    *)
LEMMA BroadcastKeeps ==
  ASSUME IInv, TypeOK', NonceIInv', NEW a \in Attempts, SendBroadcasts(a)
  PROVE  IInv'
<1>1. /\ call[a].step = "sending" /\ at[a] = "sending"
      /\ UNCHANGED <<latest, regd, id, did, feed, marker, dmarker, at>>
  BY DEF SendBroadcasts, Accept, Reject, regVars
<1>2. \A b \in Attempts \ {a} : ~Active(b) /\ ~Live(b)
  BY <1>1, SenderAlone DEF InLock
<1>3. \A b \in Attempts \ {a} : call'[b] = call[b]
  BY CallSteps DEF SendBroadcasts, Handle, IInv
<1>4. \A b \in Attempts \ {a} : InStep(b)' /\ Ladder(b)'
  BY <1>1, <1>2, <1>3, IdleKeeps
<1>5. call'[a].step \in {"accepted", "resyncing"} /\ call'[a].nonce = call[a].nonce
  BY CallSteps DEF SendBroadcasts, IInv
<1>6. marker = [nonce |-> call[a].nonce, tx |-> NoTx] /\ dmarker = marker
  BY <1>1 DEF IInv, Ladder
<1>7. InStep(a)' /\ Ladder(a)'
  BY <1>1, <1>5, <1>6 DEF InStep, Ladder, InLock, Reading
<1>8. OneRuns' /\ Ids'
  BY <1>1 DEF IInv, OneRuns, Active, Ids
<1>9. CASE Reject(a)
  <2>1. UNCHANGED slot
    BY <1>9 DEF Reject
  <2>2. OneLive' /\ MinedOnes' /\ JournalCovers' /\ SendsAlone'
    BY <1>1, <2>1, SameChain DEF IInv, MinedOnes, JournalCovers, SendsAlone, LeadsTo
  <2> QED BY <1>4, <1>7, <1>8, <2>2 DEF IInv, MinedOnes, Ids
<1>10. CASE Accept(a)
  <2>1. PICK n \in Slots : /\ n = call[a].nonce /\ slot[n] = Free /\ slot'[n] = a
                           /\ \A m \in Slots \ {n} : slot'[m] = slot[m]
    BY <1>10 DEF Accept, IInv, NonceIInv, NonceTypeOK, Called, Slots, Counts
  <2>2. \A b \in Attempts \ {a} : ~Live(b)'
    BY <1>1, <1>2, <2>1 DEF Live
  <2>3. OneLive' /\ SendsAlone'
    BY <1>1, <1>2, <2>2 DEF OneLive, SendsAlone, Active, Ends
  <2>4. LeadsTo(marker, a)' /\ LeadsTo(dmarker, a)'
    <3>1. marker.nonce = n /\ marker.tx = NoTx
      BY <1>6, <2>1
    <3>2. marker # NoMarker
      BY <1>6, <2>1, SlotIsCount, IntentType, MarkerType DEF Intent
    <3> QED BY <1>1, <1>6, <2>1, <3>1, <3>2 DEF LeadsTo
  <2>5. JournalCovers'
    BY <2>2, <2>4 DEF JournalCovers
  <2>6. MinedOnes'
    <3>1. \A b \in regd : b # Free
      BY DEF IInv, TypeOK
    <3> QED BY <1>1, <2>1, <3>1 DEF IInv, MinedOnes, Mined
  <2> QED BY <1>4, <1>7, <1>8, <2>3, <2>5, <2>6 DEF IInv, MinedOnes, Ids
<1> QED BY <1>9, <1>10 DEF SendBroadcasts

(* The send returns, or throws.                                            *)
LEMMA SendEnds ==
  ASSUME IInv, TypeOK', NonceIInv', NEW a \in Attempts, SendReturns(a) \/ SendThrows(a)
  PROVE  IInv'
<1>1. call[a].step \in {"sending", "accepted"} /\ UNCHANGED <<slot, latest, regd, id, did, feed>>
  BY DEF SendReturns, SendThrows, Return, Refuse, LoseAnswer, Throw
<1>2. \A b \in Attempts \ {a} : ~Active(b) /\ ~Live(b)
  BY <1>1, SenderAlone DEF InLock
<1>3. at'[a] \in {"waiting", "failed"} /\ \A b \in Attempts \ {a} : at'[b] = at[b]
  BY GoType, AllPlaces DEF SendReturns, SendThrows, IInv
<1>4. call'[a].step \in {"done", "failed"} /\ \A b \in Attempts \ {a} : call'[b] = call[b]
  BY CallSteps DEF SendReturns, SendThrows, Handle, IInv
<1>5. OneLive' /\ MinedOnes' /\ Ids'
  BY <1>1, SameChain DEF IInv, MinedOnes, Ids
<1>6. SendsAlone' /\ OneRuns'
  BY <1>1, <1>2, <1>3, SameChain DEF SendsAlone, OneRuns, Active, Ends
<1>7. InStep(a)' /\ Ladder(a)'
  BY <1>3, <1>4 DEF InStep, Ladder, InLock, Reading
<1>8. \A b \in Attempts \ {a} : InStep(b)' /\ Ladder(b)'
  BY <1>2, <1>3, <1>4, IdleKeeps
<1>9. JournalCovers'
  <2>1. CASE SendThrows(a)
    BY <1>1, <2>1, SameChain DEF SendThrows, IInv, JournalCovers, LeadsTo
  <2>2. CASE SendReturns(a)
    <3>1. call[a].step = "accepted" /\ at[a] = "sending"
      BY <2>2, SenderAlone DEF SendReturns, Return, InLock
    <3>2. marker = [nonce |-> call[a].nonce, tx |-> NoTx] /\ dmarker = marker
      BY <3>1 DEF IInv, Ladder
    <3>3. marker' = [nonce |-> call[a].nonce, tx |-> a] /\ dmarker' \in {marker', dmarker}
      BY <2>2 DEF SendReturns, Upgrade, SaveMarker
    <3>4. call[a].nonce \in Slots
      BY <3>1 DEF IInv, NonceIInv, NonceTypeOK, Called, Counts, Slots
    <3>5. [nonce |-> call[a].nonce, tx |-> a] # NoMarker
      BY <3>4, MarkerType DEF Markers, Hashed
    <3>6. LeadsTo(marker, a) => LeadsTo(marker, a)' /\ LeadsTo(dmarker, a)'
      BY <1>1, <3>2, <3>3, <3>5 DEF LeadsTo
    <3>7. Live(a)' => (id # NoId \/ LeadsTo(marker, a)) /\ (did # NoId \/ LeadsTo(dmarker, a))
      BY <1>1, SameChain DEF IInv, JournalCovers
    <3>8. \A b \in Attempts \ {a} : ~Live(b)'
      BY <1>1, <1>2, SameChain
    <3> QED BY <1>1, <3>2, <3>6, <3>7, <3>8 DEF JournalCovers
  <2> QED BY <2>1, <2>2
<1> QED BY <1>5, <1>6, <1>7, <1>8, <1>9 DEF IInv, MinedOnes, Ids

-----------------------------------------------------------------------------
(* The rest of the system.                                                 *)

(* A chain that moves on without adding a live transaction of the series.  *)
LEMMA ChainMoves ==
  ASSUME IInv, TypeOK', NonceIInv', MinedOnes', UNCHANGED <<at, marker, dmarker, id, did, feed>>,
         latest <= latest', regd \subseteq regd',
         \A a \in Attempts : at[a] = "counts" => regd' = {},
         \A a \in Attempts :
           call'[a] = call[a] /\ (Live(a)' => Live(a) /\ \A n \in Slots : slot[n] = a => slot'[n] = a)
  PROVE  IInv'
<1>1. OneLive' /\ SendsAlone' /\ OneRuns' /\ Ids'
  BY DEF IInv, OneLive, SendsAlone, OneRuns, Active, Ids
<1>2. \A m, a : a \in Attempts /\ Live(a)' /\ LeadsTo(m, a)
                  => /\ m # NoMarker /\ m.nonce \in Slots
                     /\ slot'[m.nonce] = a /\ m.tx \in {NoTx, a}
  BY DEF LeadsTo
<1>3. JournalCovers'
  BY <1>2 DEF IInv, JournalCovers, LeadsTo
<1>4. ASSUME NEW a \in Attempts PROVE InStep(a)' /\ Ladder(a)'
  <2>1. at[a] \in Reading => \A b \in Attempts : Live(b)' => LeadsTo(marker, b)'
    BY <1>2 DEF IInv, Ladder, LeadsTo
  <2>2. at[a] = "recheck" => latest' > marker.nonce
    <3> SUFFICES ASSUME at[a] = "recheck" PROVE latest' > marker.nonce
      OBVIOUS
    <3>1. marker \in Hashed /\ latest > marker.nonce
      BY DEF IInv, Ladder
    <3>2. marker.nonce \in Slots /\ latest \in Counts /\ latest' \in Counts
      BY <3>1 DEF Hashed, IInv, NonceIInv, NonceTypeOK
    <3> QED BY <3>1, <3>2 DEF Slots, Counts
  <2> QED BY <2>1, <2>2 DEF IInv, InStep, Ladder
<1> QED BY <1>1, <1>3, <1>4 DEF IInv, MinedOnes, Ids

(* A block.                                                                *)
LEMMA BlockKeeps ==
  ASSUME Sound, IInv, TypeOK', NonceIInv', MineBlock
  PROVE  IInv'
<1>1. /\ latest' = latest + 1 /\ latest \in Slots
      /\ UNCHANGED <<slot, call, at, marker, dmarker, id, did, feed>>
      /\ regd' \in {regd, regd \cup ({slot[latest]} \cap Attempts)}
  BY DEF MineBlock, Mine, IInv, NonceIInv, NonceTypeOK, Slots, Counts
<1>2. \A a \in Attempts : at[a] # "counts"
  BY DEF MineBlock, Sound
<1>3. MinedOnes'
  BY <1>1 DEF IInv, MinedOnes, Mined, Slots
<1>4. ASSUME NEW a \in Attempts, Live(a)' PROVE Live(a)
  <2>1. PICK n \in Slots : slot[n] = a /\ (n < latest' => a \in regd')
    BY <1>1, <1>4 DEF Live
  <2>2. CASE n < latest
    <3>1. a \in regd'
      BY <1>1, <2>1, <2>2 DEF Slots
    <3>2. a \in regd
      BY <1>1, <2>1, <2>2, <3>1 DEF IInv, NonceIInv, AtMostOnce, Slots
    <3> QED BY <2>1, <3>2 DEF Live
  <2>3. CASE ~(n < latest)
    BY <2>1, <2>3 DEF Live
  <2> QED BY <2>2, <2>3
<1>5. latest <= latest' /\ regd \subseteq regd'
  BY <1>1 DEF Slots
<1> QED BY <1>1, <1>2, <1>3, <1>4, <1>5, ChainMoves

(* Other modules, and other users of the key.                              *)
LEMMA OthersKeep ==
  ASSUME IInv, TypeOK', NonceIInv', OthersSend
  PROVE  IInv'
<1>1. UNCHANGED <<latest, at, marker, dmarker, id, did, feed, regd>>
  BY DEF OthersSend, regVars, SendOutside, Call, Handle, Reserve, Accept, Return, Leave,
         Reject, Resync, Refuse, LoseAnswer, Throw
<1>2. \A a \in Attempts : call'[a] = call[a]
  <2>1. ASSUME NEW s \in Sends \ Attempts, Call(s) \/ Handle(s)
        PROVE  \A a \in Attempts : call'[a] = call[a]
    BY <2>1, CallSteps DEF IInv
  <2> QED BY <2>1 DEF OthersSend, SendOutside
<1>3. \A n \in Slots : \/ slot'[n] = slot[n]
                       \/ slot'[n] \notin Attempts /\ (slot[n] = Free \/ n >= latest)
  <2>1. ASSUME NEW s \in Sends \ Attempts, Accept(s)
        PROVE  \A n \in Slots : slot'[n] = slot[n] \/ (slot'[n] \notin Attempts /\ slot[n] = Free)
    BY <2>1 DEF Accept, IInv, NonceIInv, NonceTypeOK
  <2>2. ASSUME NEW s \in Sends \ Attempts, Call(s) \/ Handle(s), ~Accept(s)
        PROVE  slot' = slot
    BY <2>2 DEF Call, Handle, Reserve, Return, Leave, Reject, Resync, Refuse, LoseAnswer, Throw
  <2>3. ASSUME NEW n \in Slots, SendOutside(n)
        PROVE  \A m \in Slots : slot'[m] = slot[m] \/ (slot'[m] \notin Attempts /\ m >= latest)
    BY <2>3 DEF SendOutside, IInv, NonceIInv, NonceTypeOK, Slots, Counts
  <2> QED BY <2>1, <2>2, <2>3 DEF OthersSend
<1>4. \A a \in Attempts : a # Free
  OBVIOUS
<1>5. MinedOnes'
  BY <1>1, <1>3, <1>4 DEF IInv, TypeOK, NonceIInv, NonceTypeOK, Slots, Counts, MinedOnes, Mined
<1>6. ASSUME NEW a \in Attempts, Live(a)'
      PROVE  Live(a) /\ \A n \in Slots : slot[n] = a => slot'[n] = a
  BY <1>1, <1>3, <1>6 DEF Live, IInv, NonceIInv, AtMostOnce
<1>7. latest <= latest' /\ \A a \in Attempts : at[a] = "counts" => regd' = {}
  BY <1>1 DEF IInv, Ladder, NonceIInv, NonceTypeOK, Counts
<1> QED BY <1>1, <1>2, <1>5, <1>6, <1>7, ChainMoves

(* The files, the reconciliation and a restart.                            *)
LEMMA FilesKeep ==
  ASSUME Sound, IInv, TypeOK', NonceIInv', PersistElsewhere \/ Reconcile \/ Restart \/ UNCHANGED vars
  PROVE  IInv'
<1>1. UNCHANGED <<slot, latest, regd, feed>>
  BY DEF PersistElsewhere, Reconcile, Restart, NonceRestart, Unsent, vars, regVars, nonceVars
<1>2. OneLive' /\ MinedOnes'
  BY <1>1, SameChain DEF IInv, MinedOnes
<1>3. CASE PersistElsewhere \/ UNCHANGED vars
  <2>1. UNCHANGED <<at, call, marker, id, did>> /\ dmarker' \in {dmarker, marker}
    BY <1>3 DEF PersistElsewhere, vars, regVars, nonceVars, IInv
  <2>2. JournalCovers' /\ SendsAlone' /\ OneRuns' /\ Ids'
    BY <1>1, <2>1, SameChain
    DEF IInv, JournalCovers, SendsAlone, OneRuns, Active, Ids, LeadsTo
  <2>3. \A a \in Attempts : InStep(a)' /\ Ladder(a)'
    BY <1>1, <2>1, SameChain DEF IInv, InStep, Ladder, LeadsTo
  <2> QED BY <1>2, <2>2, <2>3 DEF IInv, MinedOnes, Ids
<1>4. CASE Reconcile
  <2>1. UNCHANGED <<at, call, marker, dmarker>>
    BY <1>4 DEF Reconcile, Unsent, nonceVars
  <2>2. PICK i \in regd : RecordId(i)
    BY <1>4 DEF Reconcile
  <2>3. i \in Attempts /\ i # NoId
    BY DEF IInv, TypeOK
  <2>4. id' = i /\ did' = i
    BY <2>2, <2>3, RecordType DEF IInv, Sound
  <2>5. JournalCovers' /\ SendsAlone' /\ OneRuns' /\ Ids'
    BY <1>1, <2>1, <2>3, <2>4, SameChain
    DEF IInv, JournalCovers, SendsAlone, OneRuns, Active, Ids, LeadsTo
  <2>6. \A a \in Attempts : InStep(a)' /\ Ladder(a)'
    BY <1>1, <2>1, <2>3, <2>4, SameChain DEF IInv, InStep, Ladder, LeadsTo
  <2> QED BY <1>2, <2>5, <2>6 DEF IInv, MinedOnes, Ids
<1>5. CASE Restart
  <2>1. marker' = dmarker /\ dmarker' = dmarker /\ id' = id /\ did' = did
    BY <1>5 DEF Restart, IInv
  <2>2. \A a \in Attempts : at'[a] \in Ends \cup {"idle"} /\ (at'[a] = "idle" => at[a] = "idle")
    BY <1>5 DEF Restart, Active, Ends, IInv, TypeOK, Places
  <2>3. \A a \in Attempts : /\ call'[a].step \notin InLock \cup {"queued"}
                            /\ call[a].step = "idle" => call'[a].step = "idle"
    BY <1>5 DEF Restart, NonceRestart, IInv, NonceIInv, NonceTypeOK, Called, InLock
  <2>4. JournalCovers' /\ Ids'
    BY <1>1, <2>1, SameChain DEF IInv, JournalCovers, Ids, LeadsTo
  <2>5. SendsAlone' /\ OneRuns'
    BY <2>2 DEF SendsAlone, OneRuns, Active, Ends
  <2>6. \A a \in Attempts : InStep(a)' /\ Ladder(a)'
    BY <2>2, <2>3 DEF IInv, InStep, Ladder, Reading, Ends
  <2> QED BY <1>2, <2>4, <2>5, <2>6 DEF IInv, MinedOnes, Ids
<1> QED BY <1>3, <1>4, <1>5

-----------------------------------------------------------------------------
(* Every step, and the theorems.                                           *)

LEMMA NextRegister == Sound /\ IInv /\ [Next]_vars => IInv'
<1> SUFFICES ASSUME Sound, IInv, [Next]_vars PROVE IInv'
  OBVIOUS
<1>1. NonceIInv'
  BY NextIsNonceNext, NextNonce DEF IInv
<1>2. TypeOK'
  BY NextType DEF IInv
<1>3. ASSUME NEW a \in Attempts, Climb(a) PROVE IInv'
  BY <1>1, <1>2, <1>3, ReceiptKeeps, IntentKeeps DEF Climb
<1>4. ASSUME NEW a \in Attempts, Carry(a) PROVE IInv'
  BY <1>1, <1>2, <1>4, ReserveJournals, BroadcastKeeps, SendEnds, EndKeeps DEF Carry
<1> QED BY <1>1, <1>2, <1>3, <1>4, BeginKeeps, EndKeeps, BlockKeeps, OthersKeep, FilesKeep
        DEF Next

LEMMA InitRegister == Init => IInv
<1> SUFFICES ASSUME Init PROVE IInv
  OBVIOUS
<1>1. NonceIInv /\ TypeOK
  BY InitNonce, AllPlaces DEF Init, TypeOK
<1>2. \A a \in Attempts : at[a] = "idle" /\ call[a].step = "idle" /\ ~Live(a) /\ ~Active(a)
  BY <1>1, UnsentIsDead DEF Init, NonceInit, Active
<1> QED BY <1>1, <1>2
        DEF IInv, Init, OneLive, JournalCovers, SendsAlone, OneRuns, InStep, Ladder,
            InLock, Reading

(* Registering uses the wallet as SponsorNonce allows, so what is proved   *)
(* of NonceSpec holds of it: no attempt fills two nonces                   *)
(* (registerEventOnChain through sendSponsorTx, sponsor-wallet.ts:400-407). *)
THEOREM KeepsNonceSpec == Spec => NonceSpec /\ []AtMostOnce
<1>1. Init => NonceInit
  BY DEF Init
<1>2. Spec => NonceSpec
  BY <1>1, NextIsNonceNext, PTL DEF Spec, NonceSpec
<1> QED BY <1>2, AtMostOnceHolds, PTL

(* The types, whatever fails.                                              *)
THEOREM TypeCorrect == Spec => []TypeOK
<1>1. Init => TypeOK
  BY AllPlaces DEF Init, TypeOK
<1>2. Init => NonceInit
  BY DEF Init
<1>3. Spec => []NonceIInv
  BY <1>2, NextIsNonceNext, NonceInvariance, PTL DEF Spec, NonceSpec
<1> QED BY <1>1, <1>3, NextType, PTL DEF Spec

(* The journal, the chain and the attempts stay in step                    *)
(* (register-once.ts:114-180, registration-intent.ts:80-100).              *)
THEOREM Invariance == Sound => (Spec => []IInv)
<1> SUFFICES ASSUME Sound PROVE Spec => []IInv
  OBVIOUS
<1> QED BY InitRegister, NextRegister, PTL DEF Spec

(* One series, one event: for any number of retries and restarts, with a   *)
(* journal that may fail and answers that may be lost, if the counts are   *)
(* of one moment and ids reach the disk (register-once.ts:1-29).           *)
THEOREM RegisteredOnceHolds == Sound => (Spec => []RegisteredOnce /\ []OneIdentity)
<1> SUFFICES ASSUME Sound PROVE Spec => []RegisteredOnce /\ []OneIdentity
  OBVIOUS
<1>1. IInv => RegisteredOnce /\ OneIdentity
  <2> SUFFICES ASSUME IInv PROVE RegisteredOnce /\ OneIdentity
    OBVIOUS
  <2>1. RegisteredOnce
    BY RegisteredIsLive DEF IInv, MinedOnes, OneLive, RegisteredOnce, TypeOK
  <2> QED BY <2>1 DEF IInv, OneIdentity, RegisteredOnce
<1> QED BY <1>1, Invariance, PTL

(* A registration, or a transaction that can still become one, is never    *)
(* out of the journal's reach, on disk included                            *)
(* (onchain-registry.ts:120-137).                                          *)
THEOREM JournalCoversHolds == Sound => (Spec => []JournalCovers)
<1> SUFFICES ASSUME Sound PROVE Spec => []JournalCovers
  OBVIOUS
<1>1. IInv => JournalCovers
  BY DEF IInv
<1> QED BY <1>1, Invariance, PTL
===============================================================================
