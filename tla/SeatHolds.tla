------------------------------ MODULE SeatHolds ------------------------------
(***************************************************************************)
(* The seat holds of one ticket series                                     *)
(* (apps/server/src/lib/event/reservation-store.ts and the /reserve route  *)
(* of routes/reservations.ts).                                             *)
(*                                                                         *)
(* A hold takes seats off the market for ten minutes.  reserve() runs in a *)
(* per-series promise chain, the lock, and awaits the contract's remaining *)
(* supply in the middle; consume() and release() are plain functions that  *)
(* do not enter the chain.  The store is a Map mirrored to a file by the   *)
(* mutators that succeed.                                                  *)
(*                                                                         *)
(* Time appears only as the set of holds whose ten minutes have passed.    *)
(***************************************************************************)
EXTENDS Integers, Sequences, FiniteSets, Functions

CONSTANTS
  Holds,        \* reservation ids
  Tabs,         \* browser tabs that call /reserve
  Buyers,       \* clientKeys: one per browser
  BuyerOf,      \* [Tabs -> Buyers]
  Ips,          \* client addresses
  IpOf,         \* [Tabs -> Ips]
  Supply,       \* totalSupply of the series, fixed at registration
  Quantities,   \* the quantities asked for
  SeatsPerIp,   \* RESERVATION_MAX_SEATS_PER_IP
  NoHold        \* no replaceReservationId

ASSUME TabsAssumption ==
  /\ Buyers # {} /\ BuyerOf \in [Tabs -> Buyers]
  /\ Ips # {} /\ IpOf \in [Tabs -> Ips]
ASSUME SeatsAssumption ==
  Supply \in Nat /\ SeatsPerIp \in Nat /\ Quantities \subseteq Nat \ {0}
ASSUME NoHoldAssumption == NoHold \notin Holds
ASSUME HoldsAssumption == IsFiniteSet(Holds)

VARIABLES
  holds,        \* the Map, in memory
  dholds,       \* its file
  lapsed,       \* holds whose expiresAt, as granted, has passed
  minted,       \* the contract's nextSlot
  queue,        \* the series lock: callers in order, the holder first
  ask           \* what each tab asked and how far reserve() got

seatVars == <<holds, dholds, lapsed, minted, queue, ask>>

States == {"unused", "open", "released", "consumed", "swept"}
Hold == [state : States, buyer : Buyers, ip : Ips, qty : Nat]
Ask == [step : {"idle", "queued", "asking", "answered"},
        qty : Nat, replace : Holds \cup {NoHold}, avail : Nat]

(* The type of the store, its file, the lock and the calls in progress.    *)
SeatTypeOK ==
  /\ holds \in [Holds -> Hold] /\ dholds \in [Holds -> Hold]
  /\ lapsed \subseteq Holds
  /\ minted \in 0..Supply
  /\ queue \in Seq(Tabs)
  /\ ask \in [Tabs -> Ask]

Blank(s) == [state |-> s, buyer |-> CHOOSE b \in Buyers : TRUE,
             ip |-> CHOOSE i \in Ips : TRUE, qty |-> 0]
NoAsk == [step |-> "idle", qty |-> 0, replace |-> NoHold, avail |-> 0]

SeatInit ==
  /\ holds = [h \in Holds |-> Blank("unused")]
  /\ dholds = holds
  /\ lapsed = {}
  /\ minted = 0
  /\ queue = <<>>
  /\ ask = [t \in Tabs |-> NoAsk]

-----------------------------------------------------------------------------
(* Active = not consumed and not expired.                                  *)
Active(h) == holds[h].state = "open" /\ h \notin lapsed

SeatsOf(S) == SumFunctionOnSet([h \in Holds |-> holds[h].qty], S)
HeldFor == SeatsOf({h \in Holds : Active(h)})
HeldByIp(i) == SeatsOf({h \in Holds : Active(h) /\ holds[h].ip = i})
OwnActive(t) == {h \in Holds : Active(h) /\ holds[h].buyer = BuyerOf[t]}

\* Mutant of MyTurn: reserve() is not serialised per series.
MyTurnAlways(t) == \E n \in DOMAIN queue : queue[n] = t

(* The promise chain: a call runs when all earlier ones have settled.      *)
MyTurn(t) == queue # <<>> /\ Head(queue) = t

Leave(t) ==
  /\ queue' = Tail(queue)
  /\ ask' = [ask EXCEPT ![t] = NoAsk]

(* The hold's expiresAt becomes now, in memory.                            *)
Expired(S) ==
  [h \in Holds |-> IF h \in S THEN [holds[h] EXCEPT !.state = "released"]
                   ELSE holds[h]]

-----------------------------------------------------------------------------
(* /reserve is called; replaceReservationId, if any, is a hold this        *)
(* browser was given (an unknown or consumed one is ignored).  The last    *)
(* but two conjunct bounds the ids a run can use up.                       *)
Call(t, q, r) ==
  /\ ask[t].step = "idle"
  /\ r # NoHold => holds[r].state \in {"open", "released"} /\ holds[r].buyer = BuyerOf[t]
  /\ Cardinality({h \in Holds : holds[h].state = "unused"}) > Len(queue)
  /\ queue' = Append(queue, t)
  /\ ask' = [ask EXCEPT ![t] = [step |-> "queued", qty |-> q, replace |-> r, avail |-> 0]]
  /\ UNCHANGED <<holds, dholds, lapsed, minted>>

(* The tab's turn: a hold of the same size is returned as it is, its time  *)
(* still running.                                                          *)
Reuse(t) ==
  /\ MyTurn(t) /\ ask[t].step = "queued"
  /\ ask[t].replace = NoHold
  /\ \E h \in OwnActive(t) : holds[h].qty = ask[t].qty
  /\ Leave(t)
  /\ UNCHANGED <<holds, dholds, lapsed, minted>>

\* Mutant of Enter: only the replaced hold is given up.
EnterReplacing(t) ==
  /\ MyTurn(t) /\ ask[t].step = "queued"
  /\ holds' = Expired({h \in Holds : h = ask[t].replace /\ holds[h].state = "open"})
  /\ ask' = [ask EXCEPT ![t].step = "asking"]
  /\ UNCHANGED <<dholds, lapsed, minted, queue>>

(* Otherwise the replaced hold and every other active one of this browser  *)
(* are given up, in memory only, and the contract is asked for its supply. *)
Enter(t) ==
  /\ MyTurn(t) /\ ask[t].step = "queued"
  /\ \/ ask[t].replace # NoHold
     \/ \A h \in OwnActive(t) : holds[h].qty # ask[t].qty
  /\ holds' = Expired({h \in Holds : \/ h = ask[t].replace /\ holds[h].state = "open"
                                     \/ h \in OwnActive(t)})
  /\ ask' = [ask EXCEPT ![t].step = "asking"]
  /\ UNCHANGED <<dholds, lapsed, minted, queue>>

(* The contract answers, or the read fails and counts as no seats.  The    *)
(* answer reaches reserve() later.                                         *)
Answer(t) ==
  /\ ask[t].step = "asking"
  /\ \E n \in {0, Supply - minted} :
       ask' = [ask EXCEPT ![t].avail = n, ![t].step = "answered"]
  /\ UNCHANGED <<holds, dholds, lapsed, minted, queue>>

\* Mutant of Remaining: the holds of other buyers are not subtracted.
RemainingPhysical(t) == ask[t].avail

(* What is left after the answer, less what is held by now.                *)
Remaining(t) == ask[t].avail - HeldFor

\* Mutant of WithinIpCap: the seats asked for are not counted.
WithinIpCapBefore(t) == HeldByIp(IpOf[t]) <= SeatsPerIp

WithinIpCap(t) == HeldByIp(IpOf[t]) + ask[t].qty <= SeatsPerIp

(* Too few seats, or too many for one address: the holds given up in       *)
(* Enter stay given up.                                                    *)
Refuse(t) ==
  /\ ask[t].step = "answered"
  /\ ask[t].qty > Remaining(t) \/ ~WithinIpCap(t)
  /\ Leave(t)
  /\ UNCHANGED <<holds, dholds, lapsed, minted>>

Grant(t, h) ==
  /\ ask[t].step = "answered"
  /\ ask[t].qty <= Remaining(t) /\ WithinIpCap(t)
  /\ holds[h].state = "unused"
  /\ holds' = [holds EXCEPT ![h] =
                 [state |-> "open", buyer |-> BuyerOf[t], ip |-> IpOf[t], qty |-> ask[t].qty]]
  /\ dholds' = holds'
  /\ Leave(t)
  /\ UNCHANGED <<lapsed, minted>>

(* release(): the buyer gives a hold back, or a stale page does so again;  *)
(* outside the lock.                                                       *)
Release(h) ==
  /\ holds[h].state \in {"open", "released"}
  /\ holds' = Expired({h}) /\ dholds' = holds'
  /\ UNCHANGED <<lapsed, minted, queue, ask>>

(* consume(): the webhook spends a hold, expired or not; outside the lock. *)
Consume(h) ==
  IF h # NoHold /\ holds[h].state \in {"open", "released"}
  THEN holds' = [holds EXCEPT ![h].state = "consumed"] /\ dholds' = holds'
  ELSE UNCHANGED <<holds, dholds>>

(* Ten minutes after the grant.                                            *)
Lapse(h) ==
  /\ holds[h].state = "open" /\ h \notin lapsed
  /\ lapsed' = lapsed \cup {h}
  /\ UNCHANGED <<holds, dholds, minted, queue, ask>>

(* An hour later the sweep deletes the entry and writes the file.          *)
Sweep(h) ==
  /\ holds[h].state \in {"open", "released", "consumed"} /\ ~Active(h)
  /\ holds' = [holds EXCEPT ![h] = Blank("swept")] /\ dholds' = holds'
  /\ UNCHANGED <<lapsed, minted, queue, ask>>

(* The process dies: calls in progress are gone, the Map is the file.      *)
SeatCrash ==
  /\ holds' = dholds
  /\ queue' = <<>>
  /\ ask' = [t \in Tabs |-> NoAsk]
  /\ UNCHANGED <<dholds, lapsed, minted>>

ReserveCalls ==
  \E t \in Tabs, q \in Quantities, r \in Holds \cup {NoHold} : Call(t, q, r)

StoreSteps ==
  \/ \E t \in Tabs : \/ Reuse(t) \/ Enter(t) \/ Answer(t) \/ Refuse(t)
                     \/ \E h \in Holds : Grant(t, h)
  \/ \E h \in Holds : Release(h) \/ Lapse(h) \/ Sweep(h)

-----------------------------------------------------------------------------
(* The store on its own: any hold may be spent and any free seat minted.   *)
Spend(h) ==
  /\ holds[h].state \in {"open", "released"}
  /\ Consume(h)
  /\ UNCHANGED <<lapsed, minted, queue, ask>>

Mint(n) ==
  /\ minted + n <= Supply
  /\ minted' = minted + n
  /\ UNCHANGED <<holds, dholds, lapsed, queue, ask>>

SeatNext ==
  \/ ReserveCalls \/ StoreSteps
  \/ \E h \in Holds : Spend(h)
  \/ \E n \in Quantities : Mint(n)
  \/ SeatCrash

SeatSpec == SeatInit /\ [][SeatNext]_seatVars

-----------------------------------------------------------------------------
(* Properties.                                                             *)

(* One browser never keeps two holds of the series alive, whatever its     *)
(* tabs do at once and whenever the process restarts (the per-buyer cap of *)
(* reservation-store.ts:17-23).                                            *)
OneHoldPerBuyer ==
  \A g, h \in Holds :
    Active(g) /\ Active(h) /\ holds[g].buyer = holds[h].buyer => g = h

(* The seats held never exceed the series, also when a crash brings back   *)
(* holds that were given up in memory only.                                *)
HoldsFit == HeldFor <= Supply

(* One address never holds more than its share, although the cap is        *)
(* checked after an await.                                                 *)
IpWithinCap == \A i \in Ips : HeldByIp(i) <= SeatsPerIp

-----------------------------------------------------------------------------
(* The inductive invariant behind OneHoldPerBuyer: the caller that has     *)
(* entered owns the lock and no active hold, and the file, which a restart *)
(* brings back, satisfies the cap as the Map does; the file is behind the  *)
(* Map only in holds given up in Enter; a hold has a size that was asked   *)
(* for.                                                                    *)
OneEach(f) ==
  \A g, h \in Holds :
    /\ f[g].state = "open" /\ g \notin lapsed
    /\ f[h].state = "open" /\ h \notin lapsed
    /\ f[g].buyer = f[h].buyer
    => g = h
Sized(f) == \A h \in Holds : f[h].state = "open" => f[h].qty \in Quantities
InStep == \A h \in Holds : dholds[h] = holds[h] \/ holds[h].state = "released"
SeatIInv ==
  /\ SeatTypeOK
  /\ OneEach(holds) /\ OneEach(dholds)
  /\ Sized(holds) /\ Sized(dholds) /\ InStep
  /\ \A t \in Tabs : ask[t].step # "idle" => ask[t].qty \in Quantities
  /\ \A t \in Tabs : ask[t].step \in {"asking", "answered"}
                       => MyTurn(t) /\ OwnActive(t) = {}
==============================================================================
