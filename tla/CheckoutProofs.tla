---------------------------- MODULE CheckoutProofs ----------------------------
(***************************************************************************)
(* Theorems about SeatHolds and about TicketCheckout, for every set of     *)
(* tabs, buyers, addresses and sessions, every finite set of holds, every  *)
(* supply and cap and every bound on crashes: the seat holds on their own  *)
(* first, then the card rail over them. And about ShopOrders, for every    *)
(* finite set of orders, every set of transfers, every page size, cap and  *)
(* bound: the log, what names a payment, the draws.                        *)
(***************************************************************************)
EXTENDS TicketCheckout, ShopOrders, SumFacts, SequenceTheorems, TLAPS

USE TabsAssumption, SeatsAssumption, NoHoldAssumption

-----------------------------------------------------------------------------
(* The seat holds on their own.                                            *)

(* The three things an entered caller knows.                               *)
OwnsLock ==
  \A t \in Tabs : ask[t].step \in {"asking", "answered"}
                    => MyTurn(t) /\ OwnActive(t) = {}

(* An entry whose state is overwritten is an entry.                        *)
LEMMA HoldUpdate ==
  ASSUME NEW x \in Hold, NEW s \in States
  PROVE  /\ [x EXCEPT !.state = s] \in Hold
         /\ [x EXCEPT !.state = s].state = s
         /\ [x EXCEPT !.state = s].buyer = x.buyer
  BY DEF Hold

(* A blank entry is an entry.                                              *)
LEMMA BlankIsHold ==
  ASSUME NEW s \in States
  PROVE  Blank(s) \in Hold /\ Blank(s).state = s
  BY DEF Blank, Hold

(* Giving holds up keeps the Map well typed; a hold that was given up is   *)
(* released and the others are as they were.                               *)
LEMMA ExpiredType ==
  ASSUME SeatTypeOK, NEW S
  PROVE  /\ Expired(S) \in [Holds -> Hold]
         /\ \A h \in Holds : /\ h \in S => Expired(S)[h].state = "released"
                             /\ h \notin S => Expired(S)[h] = holds[h]
<1>1. ASSUME NEW h \in Holds
      PROVE  /\ holds[h] \in Hold
             /\ [holds[h] EXCEPT !.state = "released"] \in Hold
             /\ [holds[h] EXCEPT !.state = "released"].state = "released"
  BY HoldUpdate DEF SeatTypeOK, States
<1> QED BY <1>1 DEF Expired

(* Fewer open holds, or more lapsed ones, keep one hold for each buyer.    *)
LEMMA FewerOpen ==
  ASSUME NEW f, NEW g, OneEach(f), lapsed \subseteq lapsed',
         \A h \in Holds : g[h].state = "open" => f[h] = g[h]
  PROVE  \A h, k \in Holds :
           /\ g[h].state = "open" /\ h \notin lapsed'
           /\ g[k].state = "open" /\ k \notin lapsed'
           /\ g[h].buyer = g[k].buyer
           => h = k
  BY DEF OneEach

(* Every call in progress asks for a legal quantity.                       *)
AskedSizes == \A t \in Tabs : ask[t].step # "idle" => ask[t].qty \in Quantities

(* A step that leaves the calls alone, opens no hold and unlapses none     *)
(* keeps what the caller in the lock knows.                                *)
LEMMA LockKept ==
  ASSUME OwnsLock, queue' = queue, ask' = ask, lapsed \subseteq lapsed',
         \A h \in Holds : holds'[h].state = "open" => holds'[h] = holds[h]
  PROVE  OwnsLock'
  BY DEF OwnsLock, MyTurn, OwnActive, Active

(* When the caller in the lock leaves it, nobody is inside.                *)
LEMMA LeaveLock ==
  ASSUME SeatTypeOK, OwnsLock, AskedSizes, NEW t \in Tabs, MyTurn(t), Leave(t)
  PROVE  /\ queue' \in Seq(Tabs)
         /\ ask' \in [Tabs -> Ask]
         /\ OwnsLock'
         /\ AskedSizes'
<1>1. queue' \in Seq(Tabs)
  BY DEF Leave, MyTurn, SeatTypeOK
<1>2. ask' \in [Tabs -> Ask]
  BY DEF Leave, NoAsk, Ask, SeatTypeOK
<1>3. \A u \in Tabs : ask'[u].step \notin {"asking", "answered"}
  BY DEF Leave, NoAsk, SeatTypeOK, OwnsLock, MyTurn
<1>4. AskedSizes'
  BY DEF Leave, NoAsk, SeatTypeOK, AskedSizes
<1> QED BY <1>1, <1>2, <1>3, <1>4 DEF OwnsLock

-----------------------------------------------------------------------------
(* The initial state satisfies the invariant.                              *)
LEMMA SeatInitIInv == SeatInit => SeatIInv
<1> SUFFICES ASSUME SeatInit PROVE SeatIInv
  OBVIOUS
<1>1. Blank("unused") \in Hold /\ Blank("unused").state = "unused"
  BY BlankIsHold DEF States
<1>2. NoAsk \in Ask /\ NoAsk.step = "idle"
  BY DEF NoAsk, Ask
<1> HIDE DEF Blank, NoAsk
<1>3. SeatTypeOK
  BY <1>1, <1>2 DEF SeatInit, SeatTypeOK
<1> QED BY <1>1, <1>2, <1>3 DEF SeatInit, SeatIInv, OneEach, Sized, InStep

(* A call queues behind the others.                                        *)
LEMMA CallIInv ==
  ASSUME SeatIInv, NEW t \in Tabs, NEW q \in Quantities,
         NEW r \in Holds \cup {NoHold}, Call(t, q, r)
  PROVE  SeatIInv'
<1>1. SeatTypeOK'
  BY DEF SeatIInv, SeatTypeOK, Call, Ask
<1>2. ASSUME NEW u \in Tabs, ask'[u].step \in {"asking", "answered"}
      PROVE  MyTurn(u)' /\ OwnActive(u)' = {}
  <2>1. u # t /\ ask'[u] = ask[u]
    BY <1>2 DEF SeatIInv, SeatTypeOK, Call
  <2>2. MyTurn(u) /\ OwnActive(u) = {}
    BY <1>2, <2>1 DEF SeatIInv
  <2> QED BY <2>2 DEF SeatIInv, SeatTypeOK, Call, MyTurn, OwnActive, Active
<1> QED BY <1>1, <1>2 DEF SeatIInv, SeatTypeOK, OneEach, Sized, InStep, Call

(* A hold returned as it is, and a refusal, only leave the lock.           *)
LEMMA LeaveIInv ==
  ASSUME SeatIInv, NEW t \in Tabs, MyTurn(t), Leave(t),
         UNCHANGED <<holds, dholds, lapsed, minted>>
  PROVE  SeatIInv'
<1>1. /\ queue' \in Seq(Tabs) /\ ask' \in [Tabs -> Ask] /\ OwnsLock' /\ AskedSizes'
  BY LeaveLock DEF SeatIInv, OwnsLock, AskedSizes
<1> QED BY <1>1 DEF SeatIInv, SeatTypeOK, OneEach, Sized, InStep, OwnsLock, AskedSizes

(* Entering gives up every active hold of the caller's buyer.              *)
LEMMA EnterIInv ==
  ASSUME SeatIInv, NEW t \in Tabs, Enter(t)
  PROVE  SeatIInv'
<1> DEFINE S == {h \in Holds : \/ h = ask[t].replace /\ holds[h].state = "open"
                               \/ h \in OwnActive(t)}
<1>1. holds' = Expired(S)
  BY DEF Enter
<1>2. /\ holds' \in [Holds -> Hold]
      /\ \A h \in Holds : /\ h \in S => holds'[h].state = "released"
                          /\ h \notin S => holds'[h] = holds[h]
  BY <1>1, ExpiredType DEF SeatIInv
<1>3. SeatTypeOK'
  <2>1. ask \in [Tabs -> Ask]
    BY DEF SeatIInv, SeatTypeOK
  <2>2. ask' \in [Tabs -> Ask]
    <3>1. ASSUME NEW a \in Ask PROVE [a EXCEPT !.step = "asking"] \in Ask
      BY DEF Ask
    <3> QED
      BY <2>1, <3>1 DEF Enter
  <2> QED
    BY <1>2, <2>2 DEF SeatIInv, SeatTypeOK, Enter
<1>4. OneEach(holds)' /\ OneEach(dholds)'
  BY <1>2 DEF SeatIInv, OneEach, Enter
<1>5. ASSUME NEW u \in Tabs, ask'[u].step \in {"asking", "answered"}
      PROVE  MyTurn(u)' /\ OwnActive(u)' = {}
  <2>1. u = t
    BY <1>5 DEF SeatIInv, SeatTypeOK, Enter, MyTurn
  <2>2. MyTurn(u)'
    BY <2>1 DEF Enter, MyTurn
  <2>3. ASSUME NEW h \in OwnActive(u)'
        PROVE  FALSE
    <3>1. h \in Holds /\ holds'[h].state = "open" /\ h \notin lapsed
          /\ holds'[h].buyer = BuyerOf[t]
      BY <2>1, <2>3 DEF OwnActive, Active, Enter
    <3>2. h \notin S /\ holds[h] = holds'[h]
      BY <1>2, <3>1
    <3>3. h \in OwnActive(t)
      BY <3>1, <3>2 DEF OwnActive, Active
    <3> QED BY <3>1, <3>2, <3>3
  <2> QED BY <2>2, <2>3
<1>6. Sized(holds)' /\ Sized(dholds)' /\ InStep'
  BY <1>2 DEF SeatIInv, Sized, InStep, Enter
<1>7. AskedSizes'
  BY DEF SeatIInv, SeatTypeOK, AskedSizes, Enter
<1> QED BY <1>3, <1>4, <1>5, <1>6, <1>7 DEF SeatIInv, AskedSizes

(* The contract's answer is a number of seats.                             *)
LEMMA AnswerIInv ==
  ASSUME SeatIInv, NEW t \in Tabs, Answer(t)
  PROVE  SeatIInv'
<1>1. PICK n \in {0, Supply - minted} :
        ask' = [ask EXCEPT ![t].avail = n, ![t].step = "answered"]
  BY DEF Answer
<1>2. n \in Nat
  BY DEF SeatIInv, SeatTypeOK
<1>3. SeatTypeOK'
  <2>1. \A u \in Tabs : ask[u] \in Ask
    BY DEF SeatIInv, SeatTypeOK
  <2>2. [ask[t] EXCEPT !.avail = n, !.step = "answered"] \in Ask
    BY <1>2, <2>1 DEF Ask
  <2>3. ask' = [ask EXCEPT ![t] = [ask[t] EXCEPT !.avail = n, !.step = "answered"]]
    BY <1>1 DEF SeatIInv, SeatTypeOK
  <2>4. ask' \in [Tabs -> Ask]
    BY <2>2, <2>3 DEF SeatIInv, SeatTypeOK
  <2> QED BY <2>4 DEF SeatIInv, SeatTypeOK, Answer
<1>4. \A u \in Tabs : ask'[u].step \in {"asking", "answered"}
                        => ask[u].step \in {"asking", "answered"}
  BY <1>1 DEF SeatIInv, SeatTypeOK, Answer
<1>5. \A u \in Tabs : ask'[u].qty = ask[u].qty /\ (ask[u].step = "idle" => u # t)
  BY <1>1 DEF SeatIInv, SeatTypeOK, Answer
<1>6. AskedSizes'
  BY <1>1, <1>5 DEF SeatIInv, SeatTypeOK, AskedSizes
<1> QED
  BY <1>3, <1>4, <1>6
  DEF SeatIInv, OneEach, Sized, InStep, AskedSizes, Answer, MyTurn, OwnActive, Active

(* The new hold is its buyer's only active one.                            *)
LEMMA GrantIInv ==
  ASSUME SeatIInv, NEW t \in Tabs, NEW h \in Holds, Grant(t, h)
  PROVE  SeatIInv'
<1> DEFINE new == [state |-> "open", buyer |-> BuyerOf[t], ip |-> IpOf[t],
                   qty |-> ask[t].qty]
<1>1. MyTurn(t) /\ OwnActive(t) = {}
  BY DEF SeatIInv, Grant
<1>2. queue' \in Seq(Tabs) /\ ask' \in [Tabs -> Ask] /\ OwnsLock' /\ AskedSizes'
  BY <1>1, LeaveLock DEF SeatIInv, OwnsLock, AskedSizes, Grant
<1>3. new \in Hold
  BY DEF Hold, States, SeatIInv, SeatTypeOK, Ask
<1>4. holds' = [holds EXCEPT ![h] = new] /\ dholds' = holds'
  BY DEF Grant
<1> HIDE DEF new
<1>5. SeatTypeOK'
  BY <1>2, <1>3, <1>4 DEF SeatIInv, SeatTypeOK, Grant
<1>6. \A k \in Holds \ {h} : holds'[k] = holds[k]
  BY <1>4 DEF SeatIInv, SeatTypeOK
<1>7. holds'[h] = new /\ new.buyer = BuyerOf[t]
  BY <1>4 DEF SeatIInv, SeatTypeOK, new
<1>8. \A k \in Holds \ {h} :
        holds'[k].state = "open" /\ k \notin lapsed => holds'[k].buyer # BuyerOf[t]
  BY <1>1, <1>6 DEF OwnActive, Active
<1>9. OneEach(holds)' /\ OneEach(dholds)'
  BY <1>4, <1>6, <1>7, <1>8 DEF SeatIInv, OneEach, Grant
<1>10. new.qty \in Quantities
  BY DEF SeatIInv, Grant, new
<1>11. Sized(holds)' /\ Sized(dholds)' /\ InStep'
  BY <1>4, <1>6, <1>7, <1>10 DEF SeatIInv, Sized, InStep
<1> QED BY <1>2, <1>5, <1>9, <1>11 DEF SeatIInv, OwnsLock, AskedSizes

(* A step outside the lock that writes both the Map and its file, and      *)
(* opens nothing.                                                          *)
LEMMA OutsideIInv ==
  ASSUME SeatIInv, NEW g \in [Holds -> Hold], holds' = g, dholds' = g,
         lapsed' = lapsed, minted' \in 0..Supply, queue' = queue, ask' = ask,
         \A h \in Holds : g[h].state = "open" => g[h] = holds[h]
  PROVE  SeatIInv'
<1>1. OwnsLock'
  BY LockKept DEF SeatIInv, OwnsLock
<1> QED BY <1>1 DEF SeatIInv, SeatTypeOK, OneEach, Sized, InStep, OwnsLock

(* Giving back, spending and sweeping a hold.                              *)
LEMMA ReleaseIInv ==
  ASSUME SeatIInv, NEW h \in Holds, Release(h) \/ Spend(h) \/ Sweep(h)
  PROVE  SeatIInv'
<1> USE DEF SeatIInv, SeatTypeOK
<1>0. \A k \in Holds : holds[k] \in Hold
  OBVIOUS
<1>1. CASE Release(h)
  <2>1. /\ Expired({h}) \in [Holds -> Hold]
        /\ \A k \in Holds : Expired({h})[k].state = "open"
                              => Expired({h})[k] = holds[k]
    BY ExpiredType
  <2> QED BY <1>1, <2>1, OutsideIInv DEF Release
<1>2. CASE Spend(h)
  <2> DEFINE g == [holds EXCEPT ![h].state = "consumed"]
  <2>1. [holds[h] EXCEPT !.state = "consumed"] \in Hold
        /\ [holds[h] EXCEPT !.state = "consumed"].state = "consumed"
    BY <1>0, HoldUpdate DEF States
  <2>2. g \in [Holds -> Hold] /\ \A k \in Holds : g[k].state = "open" => g[k] = holds[k]
    BY <2>1
  <2>3. holds' = g /\ dholds' = g
    BY <1>2, h # NoHold DEF Spend, Consume
  <2> HIDE DEF g
  <2> QED BY <1>2, <2>2, <2>3, OutsideIInv DEF Spend
<1>3. CASE Sweep(h)
  <2> DEFINE g == [holds EXCEPT ![h] = Blank("swept")]
  <2>1. Blank("swept") \in Hold /\ Blank("swept").state = "swept"
    BY BlankIsHold DEF States
  <2> HIDE DEF Blank
  <2>2. g \in [Holds -> Hold] /\ \A k \in Holds : g[k].state = "open" => g[k] = holds[k]
    BY <2>1
  <2>3. holds' = g /\ dholds' = g
    BY <1>3 DEF Sweep
  <2> HIDE DEF g
  <2> QED BY <1>3, <2>2, <2>3, OutsideIInv DEF Sweep
<1> QED BY <1>1, <1>2, <1>3

(* Time, the contract and a crash.                                         *)
LEMMA WorldIInv ==
  ASSUME SeatIInv,
         (\E h \in Holds : Lapse(h)) \/ (\E n \in Quantities : Mint(n)) \/ SeatCrash
  PROVE  SeatIInv'
<1>1. ASSUME NEW h \in Holds, Lapse(h)
      PROVE  SeatIInv'
  <2>1. OwnsLock'
    BY <1>1, LockKept DEF SeatIInv, OwnsLock, Lapse
  <2> QED BY <1>1, <2>1 DEF SeatIInv, SeatTypeOK, OneEach, Sized, InStep, OwnsLock, Lapse
<1>2. ASSUME NEW n \in Quantities, Mint(n)
      PROVE  SeatIInv'
  <2>1. OwnsLock'
    BY <1>2, LockKept DEF SeatIInv, OwnsLock, Mint
  <2>2. minted' \in 0..Supply
    BY <1>2 DEF Mint, SeatIInv, SeatTypeOK
  <2> QED BY <1>2, <2>1, <2>2 DEF SeatIInv, SeatTypeOK, OneEach, Sized, InStep, OwnsLock, Mint
<1>3. CASE SeatCrash
  <2>1. NoAsk \in Ask /\ NoAsk.step = "idle"
    BY DEF NoAsk, Ask
  <2> HIDE DEF NoAsk
  <2> QED BY <1>3, <2>1 DEF SeatIInv, SeatTypeOK, OneEach, Sized, InStep, SeatCrash
<1> QED BY <1>1, <1>2, <1>3

(* Every step of the store keeps the invariant.                            *)
LEMMA SeatNextIInv == SeatIInv /\ [SeatNext]_seatVars => SeatIInv'
<1> SUFFICES ASSUME SeatIInv, [SeatNext]_seatVars PROVE SeatIInv'
  OBVIOUS
<1>1. CASE ReserveCalls
  BY <1>1, CallIInv DEF ReserveCalls
<1>2. CASE StoreSteps
  <2>1. ASSUME NEW t \in Tabs, Reuse(t)
        PROVE  SeatIInv'
    BY <2>1, LeaveIInv DEF Reuse
  <2>2. ASSUME NEW t \in Tabs, Enter(t)
        PROVE  SeatIInv'
    BY <2>2, EnterIInv
  <2>3. ASSUME NEW t \in Tabs, Answer(t)
        PROVE  SeatIInv'
    BY <2>3, AnswerIInv
  <2>4. ASSUME NEW t \in Tabs, Refuse(t)
        PROVE  SeatIInv'
    BY <2>4, LeaveIInv DEF Refuse, SeatIInv
  <2>5. ASSUME NEW t \in Tabs, NEW h \in Holds, Grant(t, h)
        PROVE  SeatIInv'
    BY <2>5, GrantIInv
  <2>6. ASSUME NEW h \in Holds, Release(h) \/ Lapse(h) \/ Sweep(h)
        PROVE  SeatIInv'
    BY <2>6, ReleaseIInv, WorldIInv
  <2> QED BY <1>2, <2>1, <2>2, <2>3, <2>4, <2>5, <2>6 DEF StoreSteps
<1>3. CASE \E h \in Holds : Spend(h)
  BY <1>3, ReleaseIInv
<1>4. CASE (\E n \in Quantities : Mint(n)) \/ SeatCrash
  BY <1>4, WorldIInv
<1>5. CASE UNCHANGED seatVars
  BY <1>5 DEF seatVars, SeatIInv, SeatTypeOK, OneEach, Sized, InStep, MyTurn, OwnActive, Active
<1> QED BY <1>1, <1>2, <1>3, <1>4, <1>5 DEF SeatNext

-----------------------------------------------------------------------------
(* The store is always well typed, the caller in the lock holds nothing,   *)
(* and neither the Map nor its file has two active holds of one buyer      *)
(* (reservation-store.ts:213-314).                                         *)
THEOREM SeatInvariance == SeatSpec => []SeatIInv
  BY SeatInitIInv, SeatNextIInv, PTL DEF SeatSpec

(* Type correctness of the store.                                          *)
THEOREM SeatTypeCorrect == SeatSpec => []SeatTypeOK
<1>1. SeatIInv => SeatTypeOK
  BY DEF SeatIInv
<1> QED BY <1>1, SeatInvariance, PTL

(* One browser never keeps two live holds of a series, whatever its tabs   *)
(* do at once and whenever the process restarts                            *)
(* (reservation-store.ts:17-23, 267-279).                                  *)
THEOREM OneHoldPerBuyerHolds == SeatSpec => []OneHoldPerBuyer
<1>1. SeatIInv => OneHoldPerBuyer
  BY DEF SeatIInv, OneEach, OneHoldPerBuyer, Active
<1> QED BY <1>1, SeatInvariance, PTL

-----------------------------------------------------------------------------
(* The caps.  L lapsed holds apart, what the entries of f hold for the     *)
(* addresses I; the Map and its file both keep to the caps, and an answer  *)
(* of the contract is never more than the series.                          *)
Sizes(f) == [h \in Holds |-> f[h].qty]
LiveAt(f, L, I) == {h \in Holds : f[h].state = "open" /\ h \notin L /\ f[h].ip \in I}
LoadOf(f, L, I) == SumFunctionOnSet(Sizes(f), LiveAt(f, L, I))
Capped(f, L) ==
  /\ LoadOf(f, L, Ips) <= Supply
  /\ \A i \in Ips : LoadOf(f, L, {i}) <= SeatsPerIp
CapIInv ==
  /\ SeatIInv
  /\ Capped(holds, lapsed) /\ Capped(dholds, lapsed)
  /\ \A t \in Tabs : ask[t].avail <= Supply

(* The sizes are counts and a load is one.                                 *)
LEMMA LoadIsCount ==
  ASSUME NEW f \in [Holds -> Hold], NEW L, NEW I
  PROVE  /\ \A h \in Holds : Sizes(f)[h] = f[h].qty /\ f[h].qty \in Nat
         /\ LiveAt(f, L, I) \in SUBSET Holds
         /\ LoadOf(f, L, I) \in Nat
<1>1. \A h \in Holds : Sizes(f)[h] = f[h].qty /\ f[h].qty \in Nat
  BY DEF Sizes, Hold
<1>2. LiveAt(f, L, I) \in SUBSET Holds
  BY DEF LiveAt
<1>3. SumFunctionOnSet(Sizes(f), LiveAt(f, L, I)) \in Nat
  BY <1>1, <1>2, SumOfMore, HoldsAssumption
<1> QED BY <1>1, <1>2, <1>3 DEF LoadOf

(* Where no hold is opened and none unlapsed, no load grows.               *)
LEMMA FewerSeats ==
  ASSUME NEW f \in [Holds -> Hold], NEW g \in [Holds -> Hold], NEW L, NEW M, NEW I,
         L \subseteq M, \A h \in Holds : g[h].state = "open" => g[h] = f[h]
  PROVE  LoadOf(g, M, I) <= LoadOf(f, L, I)
<1> DEFINE A == LiveAt(f, L, I)
           B == LiveAt(g, M, I)
<1>1. B \in SUBSET A /\ A \in SUBSET Holds /\ \A h \in B : g[h] = f[h]
  BY DEF LiveAt
<1>2. IsFiniteSet(A) /\ IsFiniteSet(B)
  BY <1>1, FS_Subset, HoldsAssumption
<1>3. /\ \A h \in Holds : Sizes(f)[h] = f[h].qty /\ f[h].qty \in Nat
      /\ \A h \in Holds : Sizes(g)[h] = g[h].qty /\ g[h].qty \in Nat
  BY LoadIsCount
<1> HIDE DEF A, B
<1>4. SumFunctionOnSet(Sizes(g), B) = SumFunctionOnSet(Sizes(f), B)
  <2>1. \A h \in B : Sizes(g)[h] \in Int /\ Sizes(g)[h] = Sizes(f)[h]
    BY <1>1, <1>3
  <2> QED BY <1>2, <2>1, SumOfSame
<1>5. SumFunctionOnSet(Sizes(f), B) <= SumFunctionOnSet(Sizes(f), A)
  <2>1. \A h \in A : Sizes(f)[h] \in Nat
    BY <1>1, <1>3
  <2> QED BY <1>1, <1>2, <2>1, SumOfMore
<1> QED BY <1>4, <1>5 DEF LoadOf, A, B

(* So the caps are kept.                                                   *)
LEMMA CappedKept ==
  ASSUME NEW f \in [Holds -> Hold], NEW g \in [Holds -> Hold], NEW L, NEW M,
         L \subseteq M, \A h \in Holds : g[h].state = "open" => g[h] = f[h],
         Capped(f, L)
  PROVE  Capped(g, M)
<1>1. ASSUME NEW I
      PROVE  /\ LoadOf(g, M, I) <= LoadOf(f, L, I)
             /\ LoadOf(g, M, I) \in Nat /\ LoadOf(f, L, I) \in Nat
  BY FewerSeats, LoadIsCount
<1>2. LoadOf(g, M, Ips) <= Supply
  BY <1>1, SeatsAssumption DEF Capped
<1>3. ASSUME NEW i \in Ips
      PROVE  LoadOf(g, M, {i}) <= SeatsPerIp
  BY <1>1, SeatsAssumption DEF Capped
<1> QED BY <1>2, <1>3 DEF Capped

(* A new entry adds its seats to the load of its own address, and to no    *)
(* other.                                                                  *)
LEMMA OneMoreHold ==
  ASSUME NEW f \in [Holds -> Hold], NEW h \in Holds, f[h].state # "open",
         NEW new \in Hold, NEW L, NEW I
  PROVE  LET g == [f EXCEPT ![h] = new]
         IN  /\ new.ip \in I => LoadOf(g, L, I) <= LoadOf(f, L, I) + new.qty
             /\ new.ip \notin I => LoadOf(g, L, I) <= LoadOf(f, L, I)
<1> DEFINE g == [f EXCEPT ![h] = new]
           A == LiveAt(f, L, I)
           B == LiveAt(g, L, I)
<1>1. /\ g \in [Holds -> Hold] /\ g[h] = new
      /\ \A k \in Holds \ {h} : g[k] = f[k]
  OBVIOUS
<1>2. /\ A \in SUBSET Holds /\ h \notin A
      /\ B = A \/ (B = A \cup {h} /\ new.ip \in I)
  BY <1>1 DEF LiveAt
<1>3. /\ \A k \in Holds : Sizes(f)[k] = f[k].qty /\ f[k].qty \in Nat
      /\ \A k \in Holds : Sizes(g)[k] = g[k].qty /\ g[k].qty \in Nat
      /\ LoadOf(f, L, I) \in Nat /\ new.qty \in Nat
  BY <1>1, LoadIsCount
<1> HIDE DEF g
<1>4. SumFunctionOnSet(Sizes(g), A) = LoadOf(f, L, I)
  <2>1. \A k \in A : Sizes(f)[k] \in Int /\ Sizes(f)[k] = Sizes(g)[k]
    BY <1>1, <1>2, <1>3
  <2>2. IsFiniteSet(A)
    BY <1>2, FS_Subset, HoldsAssumption
  <2> HIDE DEF A
  <2>3. SumFunctionOnSet(Sizes(f), A) = SumFunctionOnSet(Sizes(g), A)
    BY <2>1, <2>2, SumOfSame
  <2> QED BY <2>3 DEF LoadOf, A
<1>5. SumFunctionOnSet(Sizes(g), A \cup {h}) = new.qty + SumFunctionOnSet(Sizes(g), A)
  <2>1. \A k \in Holds : Sizes(g)[k] \in Int
    BY <1>3
  <2>2. h \in Holds \ A /\ Sizes(g)[h] = new.qty
    BY <1>1, <1>2, <1>3
  <2> HIDE DEF A
  <2> QED BY <1>2, <2>1, <2>2, SumGrows, HoldsAssumption
<1>6. LoadOf(g, L, I) = SumFunctionOnSet(Sizes(g), B)
  BY DEF LoadOf
<1> HIDE DEF A, B
<1>7. \/ LoadOf(g, L, I) = LoadOf(f, L, I)
      \/ LoadOf(g, L, I) = new.qty + LoadOf(f, L, I) /\ new.ip \in I
  BY <1>2, <1>4, <1>5, <1>6
<1>8. /\ new.ip \in I => LoadOf(g, L, I) <= LoadOf(f, L, I) + new.qty
      /\ new.ip \notin I => LoadOf(g, L, I) <= LoadOf(f, L, I)
  BY <1>3, <1>7
<1> QED BY <1>8 DEF g

(* What the code adds up is a load.                                        *)
LEMMA HeldIsLoad ==
  ASSUME SeatTypeOK
  PROVE  /\ HeldFor = LoadOf(holds, lapsed, Ips)
         /\ \A i \in Ips : HeldByIp(i) = LoadOf(holds, lapsed, {i})
<1>1. {h \in Holds : Active(h)} = LiveAt(holds, lapsed, Ips)
  <2>1. \A h \in Holds : holds[h].ip \in Ips
    BY DEF SeatTypeOK, Hold
  <2> QED BY <2>1 DEF Active, LiveAt
<1>2. \A i \in Ips :
        {h \in Holds : Active(h) /\ holds[h].ip = i} = LiveAt(holds, lapsed, {i})
  BY DEF Active, LiveAt
<1>3. HeldFor = LoadOf(holds, lapsed, Ips)
  BY <1>1 DEF HeldFor, SeatsOf, LoadOf, Sizes
<1>4. ASSUME NEW i \in Ips
      PROVE  HeldByIp(i) = LoadOf(holds, lapsed, {i})
  BY <1>2 DEF HeldByIp, SeatsOf, LoadOf, Sizes
<1> QED BY <1>3, <1>4

(* The initial state: nothing is held.                                     *)
LEMMA CapInit == SeatInit => CapIInv
<1> SUFFICES ASSUME SeatInit PROVE CapIInv
  OBVIOUS
<1>1. ASSUME NEW I
      PROVE  LoadOf(holds, lapsed, I) = 0
  <2>1. LiveAt(holds, lapsed, I) = {}
    BY DEF SeatInit, Blank, LiveAt
  <2> QED BY <2>1, SumOfNone DEF LoadOf
<1>2. Capped(holds, lapsed) /\ Capped(dholds, lapsed)
  BY <1>1, SeatsAssumption DEF Capped, SeatInit
<1>3. \A t \in Tabs : ask[t].avail <= Supply
  BY SeatsAssumption DEF SeatInit, NoAsk
<1> QED BY <1>2, <1>3, SeatInitIInv DEF CapIInv

(* A grant was checked against both caps, and the answer of the contract   *)
(* was at most the series.                                                 *)
LEMMA GrantCapped ==
  ASSUME CapIInv, NEW t \in Tabs, NEW h \in Holds, Grant(t, h)
  PROVE  Capped(holds, lapsed)' /\ Capped(dholds, lapsed)'
<1> DEFINE new == [state |-> "open", buyer |-> BuyerOf[t], ip |-> IpOf[t],
                   qty |-> ask[t].qty]
<1>1. SeatTypeOK /\ holds \in [Holds -> Hold] /\ holds[h].state # "open"
  BY DEF CapIInv, SeatIInv, SeatTypeOK, Grant
<1>2. new \in Hold /\ new.qty = ask[t].qty /\ new.ip = IpOf[t] /\ IpOf[t] \in Ips
  BY TabsAssumption DEF Hold, States, CapIInv, SeatIInv, SeatTypeOK, Ask
<1>3. holds' = [holds EXCEPT ![h] = new] /\ dholds' = holds' /\ lapsed' = lapsed
  BY DEF Grant
<1>4. /\ ask[t].qty \in Nat /\ ask[t].avail \in Nat /\ ask[t].avail <= Supply
      /\ ask[t].qty <= ask[t].avail - HeldFor
      /\ HeldByIp(IpOf[t]) + ask[t].qty <= SeatsPerIp
  BY DEF CapIInv, SeatIInv, SeatTypeOK, Ask, Grant, Remaining, WithinIpCap
<1> HIDE DEF new
<1>5. ASSUME NEW I
      PROVE  /\ new.ip \in I => LoadOf(holds', lapsed, I)
                                  <= LoadOf(holds, lapsed, I) + ask[t].qty
             /\ new.ip \notin I => LoadOf(holds', lapsed, I) <= LoadOf(holds, lapsed, I)
  BY <1>1, <1>2, <1>3, OneMoreHold
<1>6. ASSUME NEW I
      PROVE  LoadOf(holds, lapsed, I) \in Nat /\ LoadOf(holds', lapsed, I) \in Nat
  <2>1. holds' \in [Holds -> Hold]
    BY <1>1, <1>2, <1>3
  <2> QED BY <1>1, <2>1, LoadIsCount
<1>7. LoadOf(holds', lapsed, Ips) <= Supply
  <2>1. LoadOf(holds', lapsed, Ips) <= HeldFor + ask[t].qty
    BY <1>1, <1>2, <1>5, HeldIsLoad
  <2>2. HeldFor \in Nat
    BY <1>1, <1>6, HeldIsLoad
  <2> QED BY <1>4, <1>6, <2>1, <2>2, SeatsAssumption
<1>8. ASSUME NEW i \in Ips
      PROVE  LoadOf(holds', lapsed, {i}) <= SeatsPerIp
  <2>1. CASE i = IpOf[t]
    <3>1. LoadOf(holds', lapsed, {i}) <= HeldByIp(i) + ask[t].qty
      BY <1>1, <1>2, <1>5, <2>1, HeldIsLoad
    <3>2. HeldByIp(i) \in Nat
      BY <1>1, <1>6, HeldIsLoad
    <3> QED BY <1>4, <1>6, <2>1, <3>1, <3>2, SeatsAssumption
  <2>2. CASE i # IpOf[t]
    <3>1. LoadOf(holds', lapsed, {i}) <= LoadOf(holds, lapsed, {i})
      BY <1>2, <1>5, <2>2
    <3> QED BY <1>6, <3>1, SeatsAssumption DEF CapIInv, Capped
  <2> QED BY <2>1, <2>2
<1> QED BY <1>3, <1>7, <1>8 DEF Capped

(* Every other step opens no hold: the Map only loses open entries, and    *)
(* its file is what it was or is the Map; a restart brings the file back.  *)
LEMMA OthersOpenNothing ==
  ASSUME SeatIInv, [SeatNext]_seatVars,
         ~ \E t \in Tabs, h \in Holds : Grant(t, h)
  PROVE  /\ \/ holds' = dholds /\ dholds' = dholds
            \/ /\ \A h \in Holds : holds'[h].state = "open" => holds'[h] = holds[h]
               /\ dholds' \in {dholds, holds'}
         /\ lapsed \subseteq lapsed'
<1> DEFINE Fewer == /\ \A h \in Holds : holds'[h].state = "open" => holds'[h] = holds[h]
                    /\ dholds' \in {dholds, holds'}
                    /\ lapsed \subseteq lapsed'
<1>1. CASE ReserveCalls
  BY <1>1 DEF ReserveCalls, Call
<1>2. CASE StoreSteps
  <2>1. ASSUME NEW t \in Tabs, Reuse(t) \/ Answer(t) \/ Refuse(t)
        PROVE  Fewer
    BY <2>1 DEF Reuse, Answer, Refuse
  <2>2. ASSUME NEW t \in Tabs, Enter(t)
        PROVE  Fewer
    <3>1. PICK S : holds' = Expired(S) /\ dholds' = dholds /\ lapsed' = lapsed
      BY <2>2 DEF Enter
    <3> QED BY <3>1, ExpiredType DEF SeatIInv
  <2>3. ASSUME NEW h \in Holds, Release(h)
        PROVE  Fewer
    <3>1. holds' = Expired({h}) /\ dholds' = holds' /\ lapsed' = lapsed
      BY <2>3 DEF Release
    <3> QED BY <3>1, ExpiredType DEF SeatIInv
  <2>4. ASSUME NEW h \in Holds, Lapse(h)
        PROVE  Fewer
    BY <2>4 DEF Lapse
  <2>5. ASSUME NEW h \in Holds, Sweep(h)
        PROVE  Fewer
    <3>1. Blank("swept").state = "swept"
      BY DEF Blank
    <3> HIDE DEF Blank
    <3> QED BY <2>5, <3>1 DEF Sweep, SeatIInv, SeatTypeOK
  <2> QED BY <1>2, <2>1, <2>2, <2>3, <2>4, <2>5 DEF StoreSteps
<1>3. ASSUME NEW h \in Holds, Spend(h)
      PROVE  Fewer
  <2>1. holds' = [holds EXCEPT ![h].state = "consumed"] /\ dholds' = holds'
        /\ lapsed' = lapsed
    BY <1>3, NoHoldAssumption DEF Spend, Consume
  <2>2. [holds[h] EXCEPT !.state = "consumed"].state = "consumed"
    BY HoldUpdate DEF SeatIInv, SeatTypeOK, States
  <2> QED BY <2>1, <2>2 DEF SeatIInv, SeatTypeOK
<1>4. ASSUME NEW n \in Quantities, Mint(n)
      PROVE  Fewer
  BY <1>4 DEF Mint
<1>5. CASE SeatCrash
  BY <1>5 DEF SeatCrash
<1>6. CASE UNCHANGED seatVars
  BY <1>6 DEF seatVars
<1> QED BY <1>1, <1>2, <1>3, <1>4, <1>5, <1>6 DEF SeatNext

(* Only an answer of the contract changes how many seats a caller was told *)
(* are left, and no answer is more than the series.                        *)
LEMMA AnswersFit ==
  ASSUME SeatIInv, [SeatNext]_seatVars, \A t \in Tabs : ask[t].avail <= Supply
  PROVE  \A t \in Tabs : ask'[t].avail <= Supply
<1>0. /\ ask \in [Tabs -> Ask] /\ NoAsk.avail = 0 /\ 0 <= Supply
      /\ \A u \in Tabs : ask[u].avail <= Supply
  BY SeatsAssumption DEF SeatIInv, SeatTypeOK, NoAsk
<1> HIDE DEF NoAsk
<1>1. ASSUME NEW t \in Tabs, Leave(t)
      PROVE  \A u \in Tabs : ask'[u].avail <= Supply
  BY <1>0, <1>1 DEF Leave
<1>2. CASE ReserveCalls
  BY <1>0, <1>2 DEF ReserveCalls, Call, Ask
<1>3. ASSUME NEW t \in Tabs, Enter(t)
      PROVE  \A u \in Tabs : ask'[u].avail <= Supply
  BY <1>0, <1>3 DEF Enter, Ask
<1>4. ASSUME NEW t \in Tabs, Answer(t)
      PROVE  \A u \in Tabs : ask'[u].avail <= Supply
  <2>1. PICK n \in {0, Supply - minted} :
          ask' = [ask EXCEPT ![t].avail = n, ![t].step = "answered"]
    BY <1>4 DEF Answer
  <2>2. n <= Supply
    BY SeatsAssumption DEF SeatIInv, SeatTypeOK
  <2>3. ask' = [ask EXCEPT ![t] = [ask[t] EXCEPT !.avail = n, !.step = "answered"]]
    BY <1>0, <2>1
  <2>4. [ask[t] EXCEPT !.avail = n, !.step = "answered"].avail = n
    BY <1>0 DEF Ask
  <2> QED BY <1>0, <2>2, <2>3, <2>4
<1>5. CASE SeatCrash
  BY <1>0, <1>5 DEF SeatCrash
<1>6. CASE StoreSteps
  <2>1. ASSUME NEW t \in Tabs, Reuse(t) \/ Refuse(t) \/ \E h \in Holds : Grant(t, h)
        PROVE  Leave(t)
    BY <2>1 DEF Reuse, Refuse, Grant
  <2>2. ASSUME NEW h \in Holds, Release(h) \/ Lapse(h) \/ Sweep(h)
        PROVE  ask' = ask
    BY <2>2 DEF Release, Lapse, Sweep
  <2> QED BY <1>0, <1>1, <1>3, <1>4, <1>6, <2>1, <2>2 DEF StoreSteps
<1>7. ASSUME NEW h \in Holds, Spend(h)
      PROVE  ask' = ask
  BY <1>7 DEF Spend
<1>8. ASSUME NEW n \in Quantities, Mint(n)
      PROVE  ask' = ask
  BY <1>8 DEF Mint
<1>9. CASE UNCHANGED seatVars
  BY <1>0, <1>9 DEF seatVars
<1> QED BY <1>0, <1>2, <1>5, <1>6, <1>7, <1>8, <1>9 DEF SeatNext

(* Every step keeps to the caps.                                           *)
LEMMA CapNext == CapIInv /\ [SeatNext]_seatVars => CapIInv'
<1> SUFFICES ASSUME CapIInv, [SeatNext]_seatVars PROVE CapIInv'
  OBVIOUS
<1>1. SeatIInv' /\ \A t \in Tabs : ask'[t].avail <= Supply
  BY SeatNextIInv, AnswersFit DEF CapIInv
<1>2. Capped(holds, lapsed)' /\ Capped(dholds, lapsed)'
  <2>1. CASE \E t \in Tabs, h \in Holds : Grant(t, h)
    BY <2>1, GrantCapped
  <2>2. CASE ~ \E t \in Tabs, h \in Holds : Grant(t, h)
    <3>1. /\ \/ holds' = dholds /\ dholds' = dholds
             \/ /\ \A h \in Holds : holds'[h].state = "open" => holds'[h] = holds[h]
                /\ dholds' \in {dholds, holds'}
          /\ lapsed \subseteq lapsed'
      BY <2>2, OthersOpenNothing DEF CapIInv
    <3>2. /\ holds \in [Holds -> Hold] /\ holds' \in [Holds -> Hold]
          /\ dholds \in [Holds -> Hold]
          /\ Capped(holds, lapsed) /\ Capped(dholds, lapsed)
      BY <1>1 DEF CapIInv, SeatIInv, SeatTypeOK
    <3>3. Capped(dholds, lapsed')
      BY <3>1, <3>2, CappedKept
    <3>4. (\A h \in Holds : holds'[h].state = "open" => holds'[h] = holds[h])
            => Capped(holds', lapsed')
      BY <3>1, <3>2, CappedKept
    <3> QED BY <3>1, <3>3, <3>4
  <2> QED BY <2>1, <2>2
<1> QED BY <1>1, <1>2 DEF CapIInv

(* Map and file always keep to the caps.                                   *)
THEOREM CapInvariance == SeatSpec => []CapIInv
  BY CapInit, CapNext, PTL DEF SeatSpec

(* One address never holds more than its share of the series, although     *)
(* the cap is checked after an await and a restart brings the file back    *)
(* (reservation-store.ts:290-303).                                         *)
THEOREM IpWithinCapHolds == SeatSpec => []IpWithinCap
<1>1. CapIInv => IpWithinCap
  BY HeldIsLoad DEF CapIInv, SeatIInv, Capped, IpWithinCap
<1> QED BY <1>1, CapInvariance, PTL

(* What is held is never more than the series (reservation-store.ts:282).  *)
THEOREM HoldsFitHolds == SeatSpec => []HoldsFit
<1>1. CapIInv => HoldsFit
  BY HeldIsLoad DEF CapIInv, SeatIInv, Capped, HoldsFit
<1> QED BY <1>1, CapInvariance, PTL

-----------------------------------------------------------------------------
(* The card rail over them.                                                *)

USE SwitchAssumption

(* What TypeOK says of the variables of this module.                       *)
PayTypeOK ==
  /\ checkout \in [Sessions -> [stage : Stages, hold : Holds \cup {NoHold}, qty : Nat]]
  /\ consumed \subseteq Sessions
  /\ handler \in [Sessions -> Places]
  /\ tx \in [Sessions -> {"none", "pending", "mined", "reverted"}]
  /\ refunded \in [Sessions -> Nat]
  /\ entry \in [Sessions -> {"none", "held", "void"}]
  /\ ended \in BOOLEAN
  /\ hiccup \subseteq Sessions \X {"feed", "receipt"}
  /\ crashes \in Nat

(* Sending a handler somewhere is well typed and touches no other handler. *)
LEMMA GoToType ==
  ASSUME PayTypeOK, NEW s \in Sessions, NEW p \in Places, GoTo(s, p)
  PROVE  /\ handler' \in [Sessions -> Places]
         /\ handler'[s] = p
         /\ \A r \in Sessions \ {s} : handler'[r] = handler[r]
  BY DEF PayTypeOK, GoTo

(* Booking a sale gives an unbooked session an entry and keeps the others. *)
LEMMA RecordedType ==
  ASSUME PayTypeOK, NEW s \in Sessions, entry[s] = "none"
  PROVE  /\ Recorded(s) \in [Sessions -> {"none", "held", "void"}]
         /\ Recorded(s)[s] = "held"
         /\ \A r \in Sessions \ {s} : Recorded(s)[r] = entry[r]
  BY DEF PayTypeOK, Recorded

-----------------------------------------------------------------------------
(* The steps as the seat holds see them.                                   *)

(* Spending a hold is a step of the store, or none when there is nothing   *)
(* to spend.                                                               *)
LEMMA SettleIsSpend ==
  ASSUME NEW s \in Sessions, NEW n, PayTypeOK, Settle(s, n),
         UNCHANGED <<lapsed, minted, queue, ask>>
  PROVE  [SeatNext]_seatVars
<1>1. HoldOf(s) \in Holds \cup {NoHold}
  BY DEF PayTypeOK, HoldOf
<1>2. CASE HoldOf(s) # NoHold /\ holds[HoldOf(s)].state \in {"open", "released"}
  BY <1>1, <1>2 DEF Settle, Spend, SeatNext
<1>3. CASE ~(HoldOf(s) # NoHold /\ holds[HoldOf(s)].state \in {"open", "released"})
  BY <1>3 DEF Settle, Consume, seatVars
<1> QED BY <1>2, <1>3

(* A transaction that is mined takes seats of the contract, as Mint does.  *)
LEMMA MineIsMint ==
  ASSUME SaleIInv, NEW s \in Sessions, Mine(s)
  PROVE  [SeatNext]_seatVars
<1>1. Tickets(s) \in Quantities
  BY DEF SaleIInv, PlaceInv, TypeOK, Places, Mine
<1>2. CASE minted + Tickets(s) <= Supply /\ ~ended
  BY <1>1, <1>2 DEF Mine, Mint, SeatNext
<1>3. CASE ~(minted + Tickets(s) <= Supply /\ ~ended)
  BY <1>3 DEF Mine, seatVars
<1> QED BY <1>2, <1>3

(* Every step of the composition is a step of the store or leaves it be.   *)
LEMMA NextIsSeatNext == SaleIInv /\ [Next]_vars => [SeatNext]_seatVars
<1> SUFFICES ASSUME SaleIInv, [Next]_vars PROVE [SeatNext]_seatVars
  OBVIOUS
<1>0. PayTypeOK
  BY DEF SaleIInv, TypeOK, PayTypeOK
<1>1. CASE ReserveCalls \/ StoreSteps
  BY <1>1 DEF SeatNext
<1>2. ASSUME NEW s \in Sessions,
             \/ \E h \in Holds : OpenWithHold(s, h)
             \/ \E q \in Quantities : OpenWalkIn(s, q)
             \/ Pay(s) \/ Expire(s) \/ Deliver(s) \/ RefundExecutes(s)
      PROVE  UNCHANGED seatVars
  BY <1>2 DEF OpenWithHold, OpenWalkIn, Open, Pay, Expire, LeaveStripe, Deliver,
              RefundExecutes
<1>3. ASSUME NEW s \in Sessions,
             \/ ReadFeed(s) \/ FeedFails(s) \/ Broadcast(s) \/ BroadcastFails(s)
             \/ RefundReturns(s) \/ RefundFails(s)
      PROVE  UNCHANGED seatVars
  BY <1>3 DEF ReadFeed, FeedFails, Broadcast, BroadcastFails, RefundReturns, RefundFails
<1>4. ASSUME NEW s \in Sessions, Receipt(s) \/ ReceiptFails(s) \/ SettleUnminted(s)
      PROVE  [SeatNext]_seatVars
  BY <1>0, <1>4, SettleIsSpend DEF Receipt, ReceiptFails, SettleUnminted
<1>5. CASE EventEnds
  BY <1>5 DEF EventEnds
<1>6. CASE Crash
  BY <1>6 DEF Crash, SeatNext
<1>7. CASE UNCHANGED vars
  BY <1>7 DEF vars
<1> QED
  BY <1>1, <1>2, <1>3, <1>4, <1>5, <1>6, <1>7, MineIsMint DEF Next, Handle

-----------------------------------------------------------------------------
(* The invariant that holds whatever becomes of the receipts.              *)

(* The initial state satisfies it.                                         *)
LEMMA InitSale == Init => SaleIInv
<1>1. Init => SeatIInv
  BY SeatInitIInv DEF Init
<1>2. SeatIInv => SeatTypeOK
  BY DEF SeatIInv
<1>3. Init => PayTypeOK
  <2>1. [stage |-> "none", hold |-> NoHold, qty |-> 0]
          \in [stage : Stages, hold : Holds \cup {NoHold}, qty : Nat]
    BY DEF Stages
  <2>2. Init => checkout \in [Sessions -> [stage : Stages, hold : Holds \cup {NoHold},
                                            qty : Nat]]
    BY <2>1 DEF Init
  <2>3. "none" \in Places /\ 0 \in Nat
    BY DEF Places
  <2> QED BY <2>2, <2>3 DEF Init, PayTypeOK
<1>4. Init => PlaceInv
  BY DEF Init, PlaceInv
<1> QED
  BY <1>1, <1>2, <1>3, <1>4 DEF SaleIInv, TypeOK, PayTypeOK

(* The buyer's steps: a session is opened, paid or left, and delivered.    *)
LEMMA BuyerSale ==
  ASSUME SaleIInv, NEW s \in Sessions,
         \/ \E h \in Holds : OpenWithHold(s, h)
         \/ \E q \in Quantities : OpenWalkIn(s, q)
         \/ Pay(s) \/ Expire(s) \/ Deliver(s)
  PROVE  PayTypeOK' /\ PlaceInv'
<1>0. PayTypeOK
  BY DEF SaleIInv, TypeOK, PayTypeOK
<1>1. ASSUME NEW h \in Holds \cup {NoHold}, NEW q \in Quantities, Open(s, h, q)
      PROVE  PayTypeOK' /\ PlaceInv'
  <2>1. PayTypeOK'
    <3>1. [stage |-> "open", hold |-> h, qty |-> q]
            \in [stage : Stages, hold : Holds \cup {NoHold}, qty : Nat]
      BY DEF Stages
    <3>2. checkout' = [checkout EXCEPT ![s] = [stage |-> "open", hold |-> h, qty |-> q]]
      BY <1>1 DEF Open
    <3>3. checkout' \in [Sessions -> [stage : Stages, hold : Holds \cup {NoHold},
                                     qty : Nat]]
      BY <1>0, <3>1, <3>2 DEF PayTypeOK
    <3> QED BY <1>0, <1>1, <3>3 DEF PayTypeOK, Open
  <2> QED BY <1>0, <1>1, <2>1 DEF SaleIInv, PayTypeOK, PlaceInv, Open, Tickets
<1>2. ASSUME NEW h \in Holds, OpenWithHold(s, h)
      PROVE  PayTypeOK' /\ PlaceInv'
  <2>1. holds[h].qty \in Quantities
    BY <1>2 DEF OpenWithHold, Active, SaleIInv, SeatIInv, Sized
  <2> QED BY <1>1, <1>2, <2>1 DEF OpenWithHold
<1>3. ASSUME NEW q \in Quantities, OpenWalkIn(s, q)
      PROVE  PayTypeOK' /\ PlaceInv'
  BY <1>1, <1>3 DEF OpenWalkIn
<1>4. CASE Pay(s) \/ Expire(s)
  <2>1. PICK stage \in {"paid", "expired"} : LeaveStripe(s, stage)
    BY <1>4 DEF Pay, Expire
  <2>2. PayTypeOK'
    BY <1>0, <2>1 DEF PayTypeOK, LeaveStripe, Stages
  <2> QED BY <1>0, <2>1, <2>2 DEF SaleIInv, PayTypeOK, PlaceInv, LeaveStripe, Tickets
<1>5. CASE Deliver(s)
  <2>1. /\ handler' \in [Sessions -> Places] /\ handler'[s] = "received"
        /\ \A r \in Sessions \ {s} : handler'[r] = handler[r]
    BY <1>0, <1>5, GoToType DEF Deliver, Places
  <2>2. PayTypeOK'
    BY <1>0, <1>5, <2>1 DEF PayTypeOK, Deliver
  <2> QED BY <1>0, <1>5, <2>1, <2>2 DEF SaleIInv, PayTypeOK, PlaceInv, Deliver, Tickets
<1> QED BY <1>2, <1>3, <1>4, <1>5

(* A handler step that reads and books the sale.                           *)
LEMMA BookSale ==
  ASSUME SaleIInv, NEW s \in Sessions, ReadFeed(s) \/ FeedFails(s)
  PROVE  PayTypeOK' /\ PlaceInv'
<1>0. PayTypeOK
  BY DEF SaleIInv, TypeOK, PayTypeOK
<1>1. PICK p \in {"settling", "minting"} : GoTo(s, p)
  BY DEF ReadFeed, FeedFails
<1>2. /\ handler' \in [Sessions -> Places] /\ handler'[s] = p
      /\ \A r \in Sessions \ {s} : handler'[r] = handler[r]
  BY <1>0, <1>1, GoToType DEF Places
<1>3. handler[s] = "received" /\ entry[s] = "none" /\ entry' = Recorded(s)
  BY DEF ReadFeed, FeedFails, SaleIInv, PlaceInv
<1>4. /\ entry' \in [Sessions -> {"none", "held", "void"}] /\ entry'[s] = "held"
      /\ \A r \in Sessions \ {s} : entry'[r] = entry[r]
  BY <1>0, <1>3, RecordedType
<1>5. UNCHANGED <<checkout, consumed, tx, refunded, ended, crashes>>
      /\ hiccup' \subseteq Sessions \X {"feed", "receipt"}
  BY <1>0 DEF ReadFeed, FeedFails, PayTypeOK
<1>6. PayTypeOK'
  BY <1>0, <1>2, <1>4, <1>5 DEF PayTypeOK
<1> QED
  BY <1>1, <1>2, <1>3, <1>4, <1>5, <1>6 DEF SaleIInv, PlaceInv, Tickets

(* A step to a later place that leaves the session and its entry alone.    *)
LEMMA MoveOn ==
  ASSUME SaleIInv, NEW s \in Sessions,
         NEW p \in {"waiting", "settling", "refunding", "finished", "unrefunded"},
         GoTo(s, p), handler[s] # "none",
         p = "waiting" => entry[s] = "held",
         p = "settling" => handler[s] = "minting" /\ tx' = tx,
         tx' \in [Sessions -> {"none", "pending", "mined", "reverted"}],
         \A r \in Sessions \ {s} : tx'[r] = tx[r] /\ entry'[r] = entry[r],
         entry' \in [Sessions -> {"none", "held", "void"}],
         entry'[s] = entry[s] \/ p = "finished",
         hiccup' \subseteq Sessions \X {"feed", "receipt"},
         UNCHANGED <<checkout, consumed, refunded, ended, crashes>>
  PROVE  PayTypeOK' /\ PlaceInv'
<1>0. PayTypeOK
  BY DEF SaleIInv, TypeOK, PayTypeOK
<1>1. /\ handler' \in [Sessions -> Places] /\ handler'[s] = p
      /\ \A r \in Sessions \ {s} : handler'[r] = handler[r]
  BY <1>0, GoToType DEF Places
<1>2. PayTypeOK'
  BY <1>0, <1>1 DEF PayTypeOK
<1> QED BY <1>1, <1>2 DEF SaleIInv, PlaceInv, Tickets

(* The later steps of a handler.                                           *)
LEMMA HandleSale ==
  ASSUME SaleIInv, NEW s \in Sessions, Handle(s)
  PROVE  PayTypeOK' /\ PlaceInv'
<1>0. PayTypeOK
  BY DEF SaleIInv, TypeOK, PayTypeOK
<1>1. CASE ReadFeed(s) \/ FeedFails(s)
  BY <1>1, BookSale
<1>2. CASE Broadcast(s)
  <2>1. /\ tx' \in [Sessions -> {"none", "pending", "mined", "reverted"}]
        /\ \A r \in Sessions \ {s} : tx'[r] = tx[r]
    BY <1>0, <1>2 DEF PayTypeOK, Broadcast
  <2>2. handler[s] = "minting" /\ entry[s] = "held"
    BY <1>2 DEF Broadcast, SaleIInv, PlaceInv
  <2> QED BY <1>0, <1>2, <2>1, <2>2, MoveOn DEF Broadcast, PayTypeOK
<1>3. CASE BroadcastFails(s)
  BY <1>0, <1>3, MoveOn DEF BroadcastFails, PayTypeOK
<1>4. CASE Receipt(s) \/ ReceiptFails(s) \/ SettleUnminted(s)
  <2>1. PICK p \in {"finished", "refunding"} : GoTo(s, p)
    BY <1>4 DEF Receipt, ReceiptFails, SettleUnminted, Settle
  <2>2. handler[s] # "none"
        /\ UNCHANGED <<checkout, consumed, tx, refunded, entry, ended, crashes>>
        /\ hiccup' \subseteq Sessions \X {"feed", "receipt"}
    BY <1>0, <1>4 DEF Receipt, ReceiptFails, SettleUnminted, PayTypeOK
  <2> QED BY <1>0, <2>1, <2>2, MoveOn DEF PayTypeOK
<1>5. CASE RefundReturns(s)
  <2>1. /\ entry' \in [Sessions -> {"none", "held", "void"}]
        /\ \A r \in Sessions \ {s} : entry'[r] = entry[r]
    BY <1>0, <1>5 DEF PayTypeOK, RefundReturns
  <2> QED BY <1>0, <1>5, <2>1, MoveOn DEF RefundReturns, PayTypeOK
<1>6. CASE RefundFails(s)
  BY <1>0, <1>6, MoveOn DEF RefundFails, PayTypeOK
<1> QED BY <1>1, <1>2, <1>3, <1>4, <1>5, <1>6 DEF Handle

(* The chain, Stripe's refund, the end of the event, a crash.              *)
LEMMA WorldSale ==
  ASSUME SaleIInv,
         \/ \E s \in Sessions : Mine(s) \/ RefundExecutes(s)
         \/ EventEnds \/ Crash \/ UNCHANGED payVars
  PROVE  PayTypeOK' /\ PlaceInv'
<1>0. PayTypeOK
  BY DEF SaleIInv, TypeOK, PayTypeOK
<1>1. ASSUME NEW s \in Sessions, Mine(s)
      PROVE  PayTypeOK' /\ PlaceInv'
  <2>1. /\ tx' \in [Sessions -> {"none", "pending", "mined", "reverted"}]
        /\ \A r \in Sessions : tx[r] = "none" => tx'[r] = "none"
    BY <1>0, <1>1 DEF PayTypeOK, Mine
  <2>2. UNCHANGED <<checkout, consumed, handler, refunded, entry, ended, hiccup, crashes>>
    BY <1>1 DEF Mine
  <2> QED BY <1>0, <2>1, <2>2 DEF PayTypeOK, SaleIInv, PlaceInv, Tickets
<1>2. ASSUME NEW s \in Sessions, RefundExecutes(s)
      PROVE  PayTypeOK' /\ PlaceInv'
  BY <1>0, <1>2 DEF PayTypeOK, RefundExecutes, SaleIInv, PlaceInv, Tickets
<1>3. CASE EventEnds
  BY <1>0, <1>3 DEF PayTypeOK, EventEnds, SaleIInv, PlaceInv, Tickets
<1>4. CASE Crash
  <2>1. /\ handler' \in [Sessions -> Places]
        /\ \A s \in Sessions :
             handler'[s] = IF handler[s] \in Running THEN "lost" ELSE handler[s]
    <3>1. /\ handler \in [Sessions -> Places] /\ "lost" \in Places
          /\ handler' = [s \in Sessions |->
                           IF handler[s] \in Running THEN "lost" ELSE handler[s]]
      BY <1>0, <1>4 DEF PayTypeOK, Crash, Places
    <3> QED BY <3>1
  <2>2. UNCHANGED <<checkout, consumed, tx, refunded, entry, ended, hiccup>>
        /\ crashes' \in Nat
    BY <1>0, <1>4 DEF Crash, PayTypeOK
  <2> QED BY <1>0, <2>1, <2>2 DEF PayTypeOK, SaleIInv, PlaceInv, Tickets, Running
<1>5. CASE UNCHANGED payVars
  BY <1>0, <1>5 DEF payVars, PayTypeOK, SaleIInv, PlaceInv, Tickets
<1> QED BY <1>1, <1>2, <1>3, <1>4, <1>5

(* Every step keeps the invariant.                                         *)
LEMMA NextSale == SaleIInv /\ [Next]_vars => SaleIInv'
<1> SUFFICES ASSUME SaleIInv, [Next]_vars PROVE SaleIInv'
  OBVIOUS
<1>1. SeatIInv'
  BY NextIsSeatNext, SeatNextIInv DEF SaleIInv
<1>2. PayTypeOK' /\ PlaceInv'
  BY BuyerSale, HandleSale, WorldSale DEF Next, vars
<1> QED BY <1>1, <1>2 DEF SaleIInv, SeatIInv, TypeOK, PayTypeOK

-----------------------------------------------------------------------------
(* The refund.                                                             *)

RefundIInv == RefundInv /\ LedgerFollowsSale

USE DEF Unheard

(* The initial state: nothing broadcast, refunded or booked.               *)
LEMMA InitRefund == Init => RefundIInv
  BY DEF Init, RefundIInv, RefundInv, LedgerFollowsSale

(* The steps that touch neither transaction, refund nor entry.             *)
LEMMA QuietRefund ==
  ASSUME SaleIInv, RefundIInv, UNCHANGED <<tx, refunded, entry>>,
         \A s \in Sessions : /\ Unheard(s) => Unheard(s)'
                             /\ Unheard(s)' => Unheard(s) \/ ReceiptMayFail,
         \A s \in Sessions : \/ handler'[s] = handler[s]
                             \/ /\ handler'[s] \in {"finished", "unrefunded", "lost"}
                                /\ handler[s] # "none"
                             \/ refunded[s] = 0 /\ handler'[s] # "refunding"
                             \/ refunded[s] = 0 /\ (Decided(s) \/ Unheard(s)'),
         \A s \in Sessions : Tickets(s)' = Tickets(s) \/ handler[s] = "none"
  PROVE  RefundIInv'
  BY DEF SaleIInv, PlaceInv, RefundIInv, RefundInv, LedgerFollowsSale, Decided

(* The buyer's steps and the webhook.                                      *)
LEMMA BuyerRefund ==
  ASSUME SaleIInv, RefundIInv, NEW s \in Sessions,
         \/ \E h \in Holds : OpenWithHold(s, h)
         \/ \E q \in Quantities : OpenWalkIn(s, q)
         \/ Pay(s) \/ Expire(s) \/ Deliver(s)
  PROVE  RefundIInv'
<1>0. PayTypeOK
  BY DEF SaleIInv, TypeOK, PayTypeOK
<1>1. ASSUME NEW h, NEW q, Open(s, h, q)
      PROVE  RefundIInv'
  <2>1. \A r \in Sessions \ {s} : Tickets(r)' = Tickets(r)
    BY <1>0, <1>1 DEF Open, Tickets, PayTypeOK
  <2>2. handler[s] = "none"
    BY <1>1 DEF Open, SaleIInv, PlaceInv
  <2> QED BY <1>1, <2>1, <2>2, QuietRefund DEF Open
<1>2. ASSUME NEW stage, LeaveStripe(s, stage)
      PROVE  RefundIInv'
  <2>1. \A r \in Sessions : Tickets(r)' = Tickets(r)
    BY <1>0, <1>2 DEF LeaveStripe, Tickets, PayTypeOK
  <2> QED BY <1>2, <2>1, QuietRefund DEF LeaveStripe
<1>3. CASE Deliver(s)
  <2>1. handler'[s] = "received" /\ \A r \in Sessions \ {s} : handler'[r] = handler[r]
    BY <1>0, <1>3, GoToType DEF Deliver, Places
  <2>2. handler[s] = "none"
    BY <1>3 DEF Deliver, SaleIInv, PlaceInv
  <2>3. refunded[s] = 0
    BY <2>2 DEF RefundIInv, RefundInv
  <2> QED BY <1>3, <2>1, <2>3, QuietRefund DEF Deliver, Tickets
<1> QED BY <1>1, <1>2, <1>3 DEF OpenWithHold, OpenWalkIn, Pay, Expire

(* The handler's steps.                                                    *)
LEMMA HandleRefund ==
  ASSUME SaleIInv, RefundIInv, NEW s \in Sessions, Handle(s)
  PROVE  RefundIInv'
<1>0. PayTypeOK
  BY DEF SaleIInv, TypeOK, PayTypeOK
<1> USE DEF RefundIInv
<1>1. CASE ReadFeed(s) \/ FeedFails(s)
  <2>1. PICK p \in {"settling", "minting"} : GoTo(s, p)
    BY <1>1 DEF ReadFeed, FeedFails
  <2>2. handler'[s] = p /\ \A r \in Sessions \ {s} : handler'[r] = handler[r]
    BY <1>0, <2>1, GoToType DEF Places
  <2>3. /\ handler[s] = "received" /\ entry[s] = "none" /\ tx[s] = "none"
        /\ entry' = Recorded(s)
    BY <1>1 DEF ReadFeed, FeedFails, SaleIInv, PlaceInv
  <2>4. entry'[s] = "held" /\ \A r \in Sessions \ {s} : entry'[r] = entry[r]
    BY <1>0, <2>3, RecordedType
  <2>5. /\ UNCHANGED <<tx, refunded, checkout>>
        /\ \A r \in Sessions : Unheard(r)' = Unheard(r)
    BY <1>1 DEF ReadFeed, FeedFails
  <2> QED BY <2>1, <2>2, <2>3, <2>4, <2>5
          DEF RefundInv, LedgerFollowsSale, Decided, Tickets
<1>2. CASE Broadcast(s)
  <2>1. handler'[s] = "waiting" /\ \A r \in Sessions \ {s} : handler'[r] = handler[r]
    BY <1>0, <1>2, GoToType DEF Broadcast, Places
  <2>2. handler[s] = "minting" /\ entry[s] = "held" /\ refunded[s] = 0
    BY <1>2 DEF Broadcast, SaleIInv, PlaceInv, RefundInv
  <2>3. /\ tx'[s] = "pending" /\ \A r \in Sessions \ {s} : tx'[r] = tx[r]
        /\ UNCHANGED <<refunded, entry, checkout, hiccup>>
    BY <1>0, <1>2 DEF Broadcast, PayTypeOK
  <2> QED BY <2>1, <2>2, <2>3 DEF RefundInv, LedgerFollowsSale, Decided, Tickets
<1>3. CASE BroadcastFails(s)
  <2>1. handler'[s] = "settling" /\ \A r \in Sessions \ {s} : handler'[r] = handler[r]
    BY <1>0, <1>3, GoToType DEF BroadcastFails, Places
  <2>2. refunded[s] = 0
    BY <1>3 DEF BroadcastFails, RefundInv
  <2> QED BY <1>3, <2>1, <2>2, QuietRefund DEF BroadcastFails, Tickets
<1>4. CASE Receipt(s) \/ ReceiptFails(s) \/ SettleUnminted(s)
  <2>1. PICK p \in {"finished", "refunding"} :
          GoTo(s, p) /\ (p = "refunding" => Decided(s) \/ Unheard(s)')
    <3>1. CASE Receipt(s) /\ tx[s] = "mined"
      BY <3>1 DEF Receipt, Settle
    <3>2. CASE Receipt(s) /\ tx[s] # "mined"
      BY <3>2 DEF Receipt, Settle, Decided
    <3>3. CASE SettleUnminted(s)
      BY <3>3 DEF SettleUnminted, Settle, Decided, SaleIInv, PlaceInv
    <3>4. CASE ReceiptFails(s)
      BY <3>4 DEF ReceiptFails, Settle
    <3> QED BY <1>4, <3>1, <3>2, <3>3, <3>4
  <2>2. handler'[s] = p /\ \A r \in Sessions \ {s} : handler'[r] = handler[r]
    BY <1>0, <2>1, GoToType DEF Places
  <2>3. handler[s] \in {"waiting", "settling"} /\ UNCHANGED <<tx, refunded, entry, checkout>>
    BY <1>4 DEF Receipt, ReceiptFails, SettleUnminted
  <2>4. refunded[s] = 0
    BY <2>3 DEF RefundInv
  <2>5. \A r \in Sessions : /\ Unheard(r) => Unheard(r)'
                            /\ Unheard(r)' => Unheard(r) \/ ReceiptMayFail
    BY <1>4 DEF Receipt, ReceiptFails, SettleUnminted
  <2> QED BY <2>1, <2>2, <2>3, <2>4, <2>5, QuietRefund DEF Tickets
<1>5. CASE RefundReturns(s)
  <2>1. handler'[s] = "finished" /\ \A r \in Sessions \ {s} : handler'[r] = handler[r]
    BY <1>0, <1>5, GoToType DEF RefundReturns, Places
  <2>2. /\ entry'[s] = "void" /\ \A r \in Sessions \ {s} : entry'[r] = entry[r]
        /\ UNCHANGED <<tx, refunded, checkout, hiccup>>
    BY <1>0, <1>5 DEF RefundReturns, PayTypeOK
  <2>3. refunded[s] = Tickets(s) /\ (Decided(s) \/ Unheard(s))
    BY <1>0, <1>5 DEF RefundReturns, RefundInv, PayTypeOK
  <2> QED BY <2>1, <2>2, <2>3 DEF RefundInv, LedgerFollowsSale, Decided, Tickets
<1>6. CASE RefundFails(s)
  <2>1. handler'[s] = "unrefunded" /\ \A r \in Sessions \ {s} : handler'[r] = handler[r]
    BY <1>0, <1>6, GoToType DEF RefundFails, Places
  <2> QED BY <1>6, <2>1, QuietRefund DEF RefundFails, Tickets
<1> QED BY <1>1, <1>2, <1>3, <1>4, <1>5, <1>6 DEF Handle

(* The chain, Stripe's refund, the end of the event, a crash.              *)
LEMMA WorldRefund ==
  ASSUME SaleIInv, RefundIInv,
         \/ \E s \in Sessions : Mine(s) \/ RefundExecutes(s)
         \/ EventEnds \/ Crash \/ UNCHANGED payVars
  PROVE  RefundIInv'
<1>0. PayTypeOK
  BY DEF SaleIInv, TypeOK, PayTypeOK
<1>1. ASSUME NEW s \in Sessions, Mine(s)
      PROVE  RefundIInv'
  <2>1. /\ tx[s] = "pending" /\ \A r \in Sessions \ {s} : tx'[r] = tx[r]
        /\ UNCHANGED <<refunded, entry, checkout, handler, hiccup>>
    BY <1>0, <1>1 DEF Mine, PayTypeOK
  <2>2. \/ Unheard(s)
        \/ handler[s] # "refunding" /\ refunded[s] = 0 /\ entry[s] = "held"
    BY <2>1 DEF RefundIInv, RefundInv, LedgerFollowsSale, Decided
  <2> QED BY <2>1, <2>2 DEF RefundIInv, RefundInv, LedgerFollowsSale, Decided, Tickets
<1>2. ASSUME NEW s \in Sessions, RefundExecutes(s)
      PROVE  RefundIInv'
  <2>1. /\ handler[s] = "refunding" /\ refunded'[s] = Tickets(s)
        /\ \A r \in Sessions \ {s} : refunded'[r] = refunded[r]
        /\ UNCHANGED <<tx, entry, checkout, handler, hiccup>>
    BY <1>0, <1>2 DEF RefundExecutes, PayTypeOK
  <2> QED BY <2>1 DEF RefundIInv, RefundInv, LedgerFollowsSale, Decided, Tickets
<1>3. CASE EventEnds \/ UNCHANGED payVars
  BY <1>3, QuietRefund DEF EventEnds, payVars, Tickets
<1>4. CASE Crash
  <2>1. \A s \in Sessions :
          handler'[s] = IF handler[s] \in Running THEN "lost" ELSE handler[s]
    BY <1>4 DEF Crash
  <2> QED BY <1>4, <2>1, QuietRefund DEF Crash, Running, Tickets
<1> QED BY <1>1, <1>2, <1>3, <1>4

(* Every step keeps the invariant.                                         *)
LEMMA NextRefund == SaleIInv /\ RefundIInv /\ [Next]_vars => RefundIInv'
  BY BuyerRefund, HandleRefund, WorldRefund DEF Next, vars

-----------------------------------------------------------------------------
(* A session's handler, its transaction and its ledger entry stay in step, *)
(* through repeated deliveries, crashes and failed reads                   *)
(* (handleSuccessfulPayment, stripe.ts:1124-1610).                         *)
THEOREM SaleInvariance == Spec => []SaleIInv
  BY InitSale, NextSale, PTL DEF Spec

(* Type correctness of the checkout.                                       *)
THEOREM TypeCorrect == Spec => []TypeOK
<1>1. SaleIInv => TypeOK
  BY DEF SaleIInv
<1> QED BY <1>1, SaleInvariance, PTL

(* The checkout, the webhook and the chain use the seat holds as module    *)
(* SeatHolds allows: whatever is proved of SeatSpec holds of the           *)
(* composition.                                                            *)
THEOREM Composition == Spec => KeepsSeatSpec
<1>1. Init => SeatInit
  BY DEF Init
<1> QED BY <1>1, NextIsSeatNext, SaleInvariance, PTL DEF Spec, KeepsSeatSpec, SeatSpec

(* In particular one browser never keeps two live holds, although the      *)
(* webhook spends holds outside the lock.                                  *)
THEOREM CheckoutKeepsOneHold == Spec => []OneHoldPerBuyer
  BY Composition, OneHoldPerBuyerHolds, PTL DEF KeepsSeatSpec

(* Nor does any browser's address hold more than its share, or the holds   *)
(* more than the series.                                                   *)
THEOREM CheckoutKeepsCaps == Spec => [](IpWithinCap /\ HoldsFit)
  BY Composition, IpWithinCapHolds, HoldsFitHolds, PTL DEF KeepsSeatSpec

-----------------------------------------------------------------------------
(* The seats of the contract and the sessions they were minted for.        *)

(* Only a transaction that is mined moves the contract's count; no step    *)
(* changes the quantity of a session that was minted.                      *)
LEMMA OnlyMineMints ==
  ASSUME SaleIInv, [Next]_vars, ~ \E s \in Sessions : Mine(s)
  PROVE  /\ minted' = minted
         /\ \A s \in Sessions : /\ Minted(s)' <=> Minted(s)
                                /\ Minted(s) => Tickets(s)' = Tickets(s)
<1> DEFINE Still == /\ minted' = minted
                    /\ \A s \in Sessions : /\ Minted(s)' <=> Minted(s)
                                           /\ Minted(s) => Tickets(s)' = Tickets(s)
<1>0. PayTypeOK
  BY DEF SaleIInv, TypeOK, PayTypeOK
<1>1. ASSUME UNCHANGED <<minted, tx, checkout>>
      PROVE  Still
  BY <1>1 DEF Minted, Tickets
<1>2. CASE ReserveCalls /\ UNCHANGED payVars
  BY <1>1, <1>2 DEF ReserveCalls, Call, payVars
<1>3. CASE StoreSteps /\ UNCHANGED payVars
  BY <1>1, <1>3 DEF StoreSteps, Reuse, Enter, Answer, Refuse, Grant, Release, Lapse,
                    Sweep, payVars
<1>4. ASSUME NEW s \in Sessions, NEW h, NEW q, Open(s, h, q)
      PROVE  Still
  <2>1. tx[s] = "none"
    BY <1>0, <1>4 DEF Open, SaleIInv, PlaceInv, PayTypeOK
  <2>2. \A r \in Sessions \ {s} : checkout'[r] = checkout[r]
    BY <1>0, <1>4 DEF Open, PayTypeOK
  <2>3. minted' = minted /\ tx' = tx
    BY <1>4 DEF Open, seatVars
  <2> QED BY <2>1, <2>2, <2>3 DEF Minted, Tickets
<1>5. ASSUME NEW s \in Sessions, NEW stage, LeaveStripe(s, stage)
      PROVE  Still
  <2>1. \A r \in Sessions : checkout'[r].qty = checkout[r].qty
    BY <1>0, <1>5 DEF LeaveStripe, PayTypeOK
  <2>2. minted' = minted /\ tx' = tx
    BY <1>5 DEF LeaveStripe, seatVars
  <2> QED BY <2>1, <2>2 DEF Minted, Tickets
<1>6. ASSUME NEW s \in Sessions, Broadcast(s)
      PROVE  Still
  <2>1. tx[s] = "none" /\ tx'[s] = "pending"
    BY <1>0, <1>6 DEF Broadcast, SaleIInv, PlaceInv, PayTypeOK
  <2>2. \A r \in Sessions \ {s} : tx'[r] = tx[r]
    BY <1>0, <1>6 DEF Broadcast, PayTypeOK
  <2>3. minted' = minted /\ checkout' = checkout
    BY <1>6 DEF Broadcast, seatVars
  <2> QED BY <2>1, <2>2, <2>3 DEF Minted, Tickets
<1>7. ASSUME NEW s \in Sessions,
             \/ Deliver(s) \/ RefundExecutes(s)
             \/ ReadFeed(s) \/ FeedFails(s) \/ BroadcastFails(s)
             \/ Receipt(s) \/ ReceiptFails(s) \/ SettleUnminted(s)
             \/ RefundReturns(s) \/ RefundFails(s)
      PROVE  Still
  BY <1>1, <1>7
  DEF Deliver, RefundExecutes, ReadFeed, FeedFails, BroadcastFails, Receipt, ReceiptFails,
      SettleUnminted, RefundReturns, RefundFails, seatVars
<1>8. CASE EventEnds
  BY <1>1, <1>8 DEF EventEnds, seatVars
<1>9. CASE Crash
  BY <1>1, <1>9 DEF Crash, SeatCrash
<1>10. CASE UNCHANGED vars
  BY <1>1, <1>10 DEF vars, seatVars, payVars
<1>11. ASSUME NEW s \in Sessions,
              \/ \E h \in Holds : OpenWithHold(s, h)
              \/ \E q \in Quantities : OpenWalkIn(s, q)
              \/ Pay(s) \/ Expire(s)
       PROVE  Still
  BY <1>4, <1>5, <1>11 DEF OpenWithHold, OpenWalkIn, Pay, Expire
<1>12. ASSUME NEW s \in Sessions, Handle(s)
       PROVE  Still
  BY <1>6, <1>7, <1>12 DEF Handle
<1>13. CASE Next
  BY <1>2, <1>3, <1>7, <1>8, <1>9, <1>11, <1>12, <1>13 DEF Next
<1> QED BY <1>10, <1>13

(* The seats of a set of sessions.                                         *)
Wanted == [s \in Sessions |-> Tickets(s)]
MintedSessions == {s \in Sessions : Minted(s)}

(* They are counted, and a sum of what was minted looks at nothing else.   *)
LEMMA SeatsKept ==
  ASSUME SaleIInv, SaleIInv', SeatsAddUp, minted' = minted,
         MintedSessions' = MintedSessions,
         \A s \in MintedSessions : Tickets(s)' = Tickets(s)
  PROVE  SeatsAddUp'
<1>1. \A s \in Sessions : Wanted[s] = Tickets(s) /\ Wanted'[s] = Tickets(s)'
                          /\ Tickets(s) \in Nat /\ Tickets(s)' \in Nat
  BY DEF Wanted, Tickets, SaleIInv, TypeOK
<1>2. IsFiniteSet(MintedSessions) /\ MintedSessions \subseteq Sessions
  BY FS_Subset, SessionsAssumption DEF MintedSessions
<1>3. \A s \in MintedSessions : Wanted[s] \in Int /\ Wanted[s] = Wanted'[s]
  BY <1>1, <1>2
<1>4. SumFunctionOnSet(Wanted, MintedSessions) = SumFunctionOnSet(Wanted', MintedSessions)
  BY <1>2, <1>3, SumOfSame
<1>5. SeatsAddUp <=> minted = SumFunctionOnSet(Wanted, MintedSessions)
  BY DEF SeatsAddUp, Wanted, MintedSessions
<1>6. SeatsAddUp' <=> minted' = SumFunctionOnSet(Wanted', MintedSessions')
  BY DEF SeatsAddUp, Wanted, MintedSessions
<1> QED BY <1>4, <1>5, <1>6

(* A transaction is mined once, and adds its session's tickets.            *)
LEMMA MineAddsUp ==
  ASSUME SaleIInv, SaleIInv', SeatsAddUp, NEW s \in Sessions, Mine(s)
  PROVE  SeatsAddUp'
<1>0. PayTypeOK /\ checkout' = checkout /\ tx[s] = "pending"
  BY DEF SaleIInv, TypeOK, PayTypeOK, Mine
<1>1. \A r \in Sessions : Tickets(r)' = Tickets(r)
  BY <1>0 DEF Tickets
<1>2. CASE minted + Tickets(s) <= Supply /\ ~ended
  <2>1. minted' = minted + Tickets(s) /\ tx' = [tx EXCEPT ![s] = "mined"]
    BY <1>2 DEF Mine
  <2>2. MintedSessions' = MintedSessions \cup {s} /\ s \in Sessions \ MintedSessions
        /\ MintedSessions \in SUBSET Sessions
    BY <1>0, <2>1 DEF MintedSessions, Minted, PayTypeOK
  <2>3. \A r \in Sessions : Wanted[r] \in Int /\ Wanted[r] = Tickets(r)
    BY DEF Wanted, Tickets, SaleIInv, TypeOK
  <2>4. Wanted' = Wanted
    BY <1>1 DEF Wanted
  <2>5. /\ SumFunctionOnSet(Wanted, MintedSessions) \in Int
        /\ SumFunctionOnSet(Wanted, MintedSessions \cup {s})
             = Wanted[s] + SumFunctionOnSet(Wanted, MintedSessions)
    BY <2>2, <2>3, SumGrows, SessionsAssumption
  <2>6. minted = SumFunctionOnSet(Wanted, MintedSessions)
    BY DEF SeatsAddUp, Wanted, MintedSessions
  <2>7. minted' = SumFunctionOnSet(Wanted', MintedSessions')
    <3>1. Wanted[s] = Tickets(s)
      BY <2>3
    <3> QED BY <2>1, <2>2, <2>3, <2>4, <2>5, <2>6, <3>1
  <2> QED BY <2>7 DEF SeatsAddUp, Wanted, MintedSessions
<1>3. CASE ~(minted + Tickets(s) <= Supply /\ ~ended)
  <2>1. minted' = minted /\ tx' = [tx EXCEPT ![s] = "reverted"]
    BY <1>3 DEF Mine
  <2>2. MintedSessions' = MintedSessions
    BY <1>0, <2>1 DEF MintedSessions, Minted, PayTypeOK
  <2>3. MintedSessions \subseteq Sessions
    BY DEF MintedSessions
  <2> QED BY <1>1, <2>1, <2>2, <2>3, SeatsKept
<1> QED BY <1>2, <1>3

(* The contract's seats are always those of the sessions that were minted, *)
(* each once, whatever was delivered again, thrown or restarted            *)
(* (stripe.ts:912-919, 1376-1380).                                         *)
THEOREM SeatsAddUpHolds == Spec => []SeatsAddUp
<1>1. Init => SeatsAddUp
  <2>1. Init => {s \in Sessions : Minted(s)} = {} /\ minted = 0
    BY DEF Init, SeatInit, Minted
  <2> QED BY <2>1, SumOfNone DEF SeatsAddUp
<1>2. SaleIInv /\ SaleIInv' /\ SeatsAddUp /\ [Next]_vars => SeatsAddUp'
  <2> SUFFICES ASSUME SaleIInv, SaleIInv', SeatsAddUp, [Next]_vars PROVE SeatsAddUp'
    OBVIOUS
  <2>1. CASE \E s \in Sessions : Mine(s)
    BY <2>1, MineAddsUp
  <2>2. CASE ~ \E s \in Sessions : Mine(s)
    <3>1. /\ minted' = minted
          /\ \A s \in Sessions : /\ Minted(s)' <=> Minted(s)
                                 /\ Minted(s) => Tickets(s)' = Tickets(s)
      BY <2>2, OnlyMineMints
    <3>2. MintedSessions' = MintedSessions
      BY <3>1 DEF MintedSessions
    <3>3. \A s \in MintedSessions : Tickets(s)' = Tickets(s)
      BY <3>1 DEF MintedSessions
    <3> QED BY <3>1, <3>2, <3>3, SeatsKept
  <2> QED BY <2>1, <2>2
<1> QED BY <1>1, <1>2, SaleInvariance, PTL DEF Spec

(* The whole invariant holds, whatever becomes of the receipts.            *)
THEOREM PayInvariance == Spec => []PayIInv
<1>1. SaleIInv /\ RefundIInv => PayIInv
  BY DEF RefundIInv, PayIInv
<1> QED BY <1>1, InitRefund, NextRefund, SaleInvariance, PTL DEF Spec

(* No buyer gets both the tickets and the money but one whose receipt was  *)
(* not heard of (stripe.ts:1235-1277, 1468-1537).                          *)
THEOREM BothOnlyUnheardHolds == Spec => []BothOnlyUnheard
<1>1. PayIInv => BothOnlyUnheard
  <2> SUFFICES ASSUME PayIInv, NEW s \in Sessions, Minted(s), refunded[s] > 0
               PROVE  Unheard(s)
    BY DEF BothOnlyUnheard
  <2>1. Decided(s) \/ Unheard(s)
    BY DEF PayIInv, RefundInv
  <2> QED BY <2>1 DEF Minted, Decided
<1> QED BY <1>1, PayInvariance, PTL

(* The payout ledger holds the sales on their way to the chain and those   *)
(* minted and heard of; what is void was refunded in full.                 *)
THEOREM LedgerFollowsSaleHolds == Spec => []LedgerFollowsSale
<1>1. PayIInv => LedgerFollowsSale
  BY DEF PayIInv
<1> QED BY <1>1, PayInvariance, PTL

(* When receipts arrive, no buyer gets both.                               *)
THEOREM NeverBothHolds == ~ReceiptMayFail => (Spec => []NeverBoth)
<1> SUFFICES ASSUME ~ReceiptMayFail PROVE Spec => []NeverBoth
  OBVIOUS
<1>1. PayIInv /\ BothOnlyUnheard => NeverBoth
  <2> SUFFICES ASSUME PayIInv, BothOnlyUnheard, NEW s \in Sessions, Minted(s), refunded[s] > 0
               PROVE  FALSE
    BY DEF NeverBoth
  <2>1. Unheard(s)
    BY DEF BothOnlyUnheard
  <2> QED BY <2>1 DEF PayIInv, RefundInv
<1> QED BY <1>1, PayInvariance, BothOnlyUnheardHolds, PTL

-----------------------------------------------------------------------------
(* Only the end of a mint spends a hold.                                   *)

(* No call of the store, and no crash, turns an open hold into a spent one. *)
LEMMA StoreSpendsNothing ==
  ASSUME SeatIInv, ReserveCalls \/ StoreSteps \/ SeatCrash,
         NEW h \in Holds, holds[h].state = "open"
  PROVE  holds'[h].state # "consumed"
<1> USE DEF SeatIInv
<1>1. ASSUME NEW S, holds' = Expired(S)
      PROVE  holds'[h].state # "consumed"
  <2>1. CASE h \in S
    BY <1>1, <2>1, ExpiredType
  <2>2. CASE h \notin S
    BY <1>1, <2>2, ExpiredType
  <2> QED BY <2>1, <2>2
<1>2. CASE ReserveCalls
  BY <1>2 DEF ReserveCalls, Call
<1>3. ASSUME NEW t \in Tabs, Reuse(t) \/ Enter(t) \/ Answer(t) \/ Refuse(t)
      PROVE  holds'[h].state # "consumed"
  BY <1>1, <1>3 DEF Reuse, Enter, Answer, Refuse
<1>4. ASSUME NEW t \in Tabs, NEW g \in Holds, Grant(t, g)
      PROVE  holds'[h].state # "consumed"
  BY <1>4 DEF Grant, SeatTypeOK
<1>5. ASSUME NEW g \in Holds, Release(g) \/ Lapse(g)
      PROVE  holds'[h].state # "consumed"
  BY <1>1, <1>5 DEF Release, Lapse
<1>6. ASSUME NEW g \in Holds, Sweep(g)
      PROVE  holds'[h].state # "consumed"
  <2>1. Blank("swept").state = "swept"
    BY BlankIsHold DEF States
  <2> HIDE DEF Blank
  <2> QED BY <1>6, <2>1 DEF Sweep, SeatTypeOK
<1>7. CASE SeatCrash
  BY <1>7 DEF SeatCrash, InStep
<1> QED BY <1>2, <1>3, <1>4, <1>5, <1>6, <1>7 DEF StoreSteps

(* A mint that is decided spends at most the hold of its own session.      *)
LEMMA SettleSpendsOwn ==
  ASSUME SeatTypeOK, NEW s \in Sessions, NEW n, Settle(s, n),
         NEW h \in Holds, holds[h].state = "open", holds'[h].state = "consumed"
  PROVE  HoldOf(s) = h
  BY DEF Settle, Consume, SeatTypeOK

(* An open hold is spent only by the handler of its own session, and never *)
(* while the transaction may still mint, unless its receipt was not heard  *)
(* of (stripe.ts:1144-1150, 1455-1466).                                    *)
THEOREM HoldOutlivesMintHolds == Spec => HoldOutlivesMint
<1> DEFINE Own(h) == \E s \in Sessions : /\ HoldOf(s) = h
                                         /\ handler[s] \in {"waiting", "settling"}
                                         /\ tx[s] # "pending" \/ Unheard(s)'
           Spent == \A h \in Holds :
                      holds[h].state = "open" /\ holds'[h].state = "consumed" => Own(h)
<1>1. SaleIInv /\ [Next]_vars => [Spent]_vars
  <2> SUFFICES ASSUME SaleIInv, [Next]_vars, NEW h \in Holds,
                      holds[h].state = "open", holds'[h].state = "consumed"
               PROVE  Own(h)
    OBVIOUS
  <2>1. ASSUME NEW s \in Sessions, Receipt(s) \/ ReceiptFails(s) \/ SettleUnminted(s)
        PROVE  Own(h)
    <3>1. \E n : Settle(s, n)
      BY <2>1 DEF Receipt, ReceiptFails, SettleUnminted
    <3>2. HoldOf(s) = h
      BY <3>1, SettleSpendsOwn DEF SaleIInv, SeatIInv
    <3>3. handler[s] \in {"waiting", "settling"} /\ (tx[s] # "pending" \/ Unheard(s)')
      BY <2>1 DEF Receipt, ReceiptFails, SettleUnminted, SaleIInv, PlaceInv
    <3> QED BY <3>2, <3>3
  <2>2. ~(ReserveCalls \/ StoreSteps \/ SeatCrash)
    BY StoreSpendsNothing DEF SaleIInv
  <2>3. holds' # holds
    OBVIOUS
  <2> QED
    BY <2>1, <2>2, <2>3
    DEF Next, Handle, vars, seatVars, OpenWithHold, OpenWalkIn, Open, Pay, Expire,
        LeaveStripe, Deliver, ReadFeed, FeedFails, Broadcast, BroadcastFails, Mine,
        RefundExecutes, RefundReturns, RefundFails, EventEnds, Crash
<1> QED BY <1>1, SaleInvariance, PTL DEF Spec, HoldOutlivesMint

-----------------------------------------------------------------------------
(* The orders of a shop (ShopOrders): sequences first, then the log's      *)
(* pages, the invariant, and one lemma for each step.                      *)

(* Sequences of sequences.                                                 *)

LEMMA RowsOfSeq ==
  ASSUME NEW E, NEW s \in Seq(E)
  PROVE  /\ DOMAIN s = 1..Len(s) /\ Len(s) \in Nat
         /\ ToSet(s) \in SUBSET E
         /\ ToSet(s) = {s[i] : i \in 1..Len(s)}
         /\ ToSet(s) = Range(s)
  BY DEF ToSet, Range

LEMMA RowsOfBoth ==
  ASSUME NEW E, NEW s \in Seq(E), NEW t \in Seq(E)
  PROVE  s \o t \in Seq(E) /\ ToSet(s \o t) = ToSet(s) \union ToSet(t)
<1>1. s \o t \in Seq(E)
  BY ConcatProperties
<1>2. Range(s \o t) = Range(s) \union Range(t)
  BY RangeConcatenation
<1>3. ToSet(s \o t) = Range(s \o t) /\ ToSet(s) = Range(s) /\ ToSet(t) = Range(t)
  BY <1>1, RowsOfSeq
<1> QED
  BY <1>1, <1>2, <1>3

LEMMA RowsOfOne ==
  ASSUME NEW E, NEW e \in E
  PROVE  <<e>> \in Seq(E) /\ ToSet(<<e>>) = {e}
<1>1. <<e>> \in Seq(E) /\ Len(<<e>>) = 1 /\ <<e>>[1] = e
  OBVIOUS
<1> DEFINE s == <<e>>
<1>2. ToSet(s) = {s[i] : i \in 1..1}
  <2> HIDE DEF s
  <2> QED
    BY <1>1, RowsOfSeq DEF s
<1> QED
  BY <1>1, <1>2

(* The recursive function by which the library joins the pages of ss.      *)
Joins(f, ss, n) ==
  f = [i \in 1..n |-> IF i = 1 THEN ss[i] ELSE f[i - 1] \o ss[i]]

LEMMA JoinExists ==
  ASSUME NEW ss, NEW n \in Nat \ {0}
  PROVE  \E f : Joins(f, ss, n)
<1> DEFINE Good == {k \in 1..n : \E f : Joins(f, ss, k)}
<1>1. 1 \in Good
  <2>1. Joins([i \in 1..1 |-> ss[1]], ss, 1)
    BY DEF Joins
  <2>2. 1 \in 1..n
    OBVIOUS
  <2> QED
    BY <2>1, <2>2
<1>2. ASSUME NEW k \in Good, k < n PROVE k + 1 \in Good
  <2>1. PICK f : Joins(f, ss, k)
    OBVIOUS
  <2> DEFINE g == [i \in 1..(k + 1) |-> IF i = k + 1 THEN f[k] \o ss[k + 1] ELSE f[i]]
  <2>2. k \in Nat \ {0} /\ k + 1 \in 1..n
    BY <1>2
  <2>3. ASSUME NEW i \in 1..(k + 1)
        PROVE  g[i] = IF i = 1 THEN ss[i] ELSE g[i - 1] \o ss[i]
    <3>1. CASE i = k + 1
      <4>1. i # 1 /\ i - 1 = k /\ k \in 1..(k + 1) /\ k # k + 1
        BY <2>2, <3>1
      <4>2. g[i] = f[k] \o ss[k + 1] /\ g[i - 1] = f[k]
        BY <3>1, <4>1
      <4> QED
        BY <3>1, <4>1, <4>2
    <3>2. CASE i # k + 1
      <4>1. i \in 1..k /\ (i # 1 => i - 1 \in 1..(k + 1) /\ i - 1 # k + 1)
        BY <2>2, <3>2
      <4>2. g[i] = f[i] /\ (i # 1 => g[i - 1] = f[i - 1])
        BY <3>2, <4>1
      <4>3. f[i] = IF i = 1 THEN ss[i] ELSE f[i - 1] \o ss[i]
        BY <2>1, <4>1 DEF Joins
      <4> QED
        BY <4>1, <4>2, <4>3
    <3> QED
      BY <3>1, <3>2
  <2>4. DOMAIN g = 1..(k + 1) /\ g = [i \in 1..(k + 1) |-> g[i]]
    OBVIOUS
  <2>5. Joins(g, ss, k + 1)
    <3> HIDE DEF g
    <3> QED
      BY <2>3, <2>4 DEF Joins
  <2> QED
    BY <2>2, <2>5
<1>3. Good = 1..n
  <2>1. Good \in SUBSET (1..n)
    OBVIOUS
  <2> HIDE DEF Good
  <2> QED
    BY <1>1, <1>2, <2>1, CountUp
<1>4. n \in 1..n
  OBVIOUS
<1>5. n \in Good
  <2> HIDE DEF Good
  <2> QED
    BY <1>3, <1>4
<1> QED
  BY <1>5

LEMMA JoinHasAll ==
  ASSUME NEW E, NEW n \in Nat \ {0}, NEW ss, \A p \in 1..n : ss[p] \in Seq(E),
         NEW f, Joins(f, ss, n)
  PROVE  f[n] \in Seq(E) /\ ToSet(f[n]) = UNION {ToSet(ss[p]) : p \in 1..n}
<1> DEFINE All(k) == UNION {ToSet(ss[p]) : p \in 1..k}
           Good == {k \in 1..n : f[k] \in Seq(E) /\ ToSet(f[k]) = All(k)}
<1>1. 1 \in Good
  <2>1. 1 \in 1..n
    OBVIOUS
  <2>2. f[1] = ss[1] /\ ss[1] \in Seq(E)
    BY <2>1 DEF Joins
  <2>3. All(1) = ToSet(ss[1])
    OBVIOUS
  <2> QED
    BY <2>1, <2>2, <2>3
<1>2. ASSUME NEW k \in Good, k < n PROVE k + 1 \in Good
  <2>1. k + 1 \in 1..n /\ k + 1 # 1 /\ (k + 1) - 1 = k /\ 1..(k + 1) = (1..k) \union {k + 1}
    BY <1>2
  <2>2. f[k + 1] = f[k] \o ss[k + 1]
    BY <2>1 DEF Joins
  <2>3. ss[k + 1] \in Seq(E) /\ f[k] \in Seq(E) /\ ToSet(f[k]) = All(k)
    BY <2>1
  <2>4. f[k + 1] \in Seq(E) /\ ToSet(f[k + 1]) = All(k) \union ToSet(ss[k + 1])
    BY <2>2, <2>3, RowsOfBoth
  <2>5. All(k + 1) = All(k) \union ToSet(ss[k + 1])
    BY <2>1
  <2> HIDE DEF All
  <2> QED
    BY <2>1, <2>4, <2>5
<1>3. Good = 1..n
  <2>1. Good \in SUBSET (1..n)
    OBVIOUS
  <2> HIDE DEF Good
  <2> QED
    BY <1>1, <1>2, <2>1, CountUp
<1>4. n \in 1..n
  OBVIOUS
<1>5. n \in Good
  <2> HIDE DEF Good
  <2> QED
    BY <1>3, <1>4
<1> QED
  BY <1>5

(* A sequence of pages, one after the other, has the rows of all of them.  *)
LEMMA FlattenHasAll ==
  ASSUME NEW E, NEW n \in Nat \ {0}, NEW ss \in [1..n -> Seq(E)]
  PROVE  /\ FlattenSeq(ss) \in Seq(E)
         /\ ToSet(FlattenSeq(ss)) = UNION {ToSet(ss[p]) : p \in 1..n}
<1> DEFINE f == CHOOSE f : Joins(f, ss, n)
<1>1. Joins(f, ss, n)
  BY JoinExists
<1>2. Len(ss) = n /\ ss \in Seq(Seq(E))
  OBVIOUS
<1>3. FlattenSeq(ss) = f[n]
  BY <1>2 DEF FlattenSeq, Joins
<1>4. \A p \in 1..n : ss[p] \in Seq(E)
  OBVIOUS
<1>5. \A g : Joins(g, ss, n) =>
               g[n] \in Seq(E) /\ ToSet(g[n]) = UNION {ToSet(ss[p]) : p \in 1..n}
  BY <1>4, JoinHasAll
<1> HIDE DEF f
<1> QED
  BY <1>1, <1>3, <1>5

-----------------------------------------------------------------------------
(* The pages of a log of n orders.                                         *)

LEMMA PagesEnough ==
  ASSUME NEW n \in Nat, NEW S \in Nat \ {0}
  PROVE  /\ (n + S - 1) \div S \in Nat
         /\ n <= ((n + S - 1) \div S) * S
         /\ \A i \in 1..n : LET k == (i - 1) \div S
                            IN  k \in Nat /\ k * S + 1 <= i /\ i <= (k + 1) * S
<1>1. ASSUME NEW a \in Nat
      PROVE  a \div S \in Nat /\ (a \div S) * S <= a /\ a < (a \div S) * S + S
  OBVIOUS
<1>2. n + S - 1 \in Nat
  OBVIOUS
<1>3. \A k \in Nat : (k + 1) * S = k * S + S /\ k * S \in Nat
  OBVIOUS
<1> DEFINE q == (n + S - 1) \div S
<1>4. q \in Nat /\ n + S - 1 < q * S + S
  BY <1>1, <1>2
<1>5. ASSUME NEW i \in 1..n
      PROVE  LET k == (i - 1) \div S
             IN  k \in Nat /\ k * S + 1 <= i /\ i <= (k + 1) * S
  <2> DEFINE k == (i - 1) \div S
  <2>1. i - 1 \in Nat
    OBVIOUS
  <2>2. k \in Nat /\ k * S <= i - 1 /\ i - 1 < k * S + S
    BY <1>1, <2>1
  <2>3. (k + 1) * S = k * S + S /\ k * S \in Nat
    BY <1>3, <2>2
  <2> HIDE DEF k
  <2>4. k * S + 1 <= i /\ i <= (k + 1) * S
    <3> DEFINE kS == k * S
    <3>1. kS <= i - 1 /\ i - 1 < kS + S /\ kS \in Nat /\ (k + 1) * S = kS + S
      BY <2>2, <2>3
    <3> HIDE DEF kS
    <3>2. kS + 1 <= i /\ i <= kS + S
      BY <3>1
    <3> QED
      BY <3>1, <3>2 DEF kS
  <2> QED
    BY <2>2, <2>4 DEF k
<1>6. n <= q * S
  <2> DEFINE qS == q * S
  <2>1. qS \in Nat /\ n + S - 1 < qS + S
    BY <1>3, <1>4
  <2> HIDE DEF qS
  <2>2. n <= qS
    BY <2>1
  <2> QED
    BY <2>2 DEF qS
<1> QED
  BY <1>4, <1>5, <1>6

LEMMA FewerPages ==
  ASSUME NEW a \in Nat, NEW b \in Nat, NEW S \in Nat \ {0}, a * S < b * S
  PROVE  a < b
<1>1. SUFFICES ASSUME ~(a < b) PROVE FALSE
  OBVIOUS
<1>2. a - b \in Nat /\ a = b + (a - b)
  BY <1>1
<1>3. \A d \in Nat : (b + d) * S = b * S + d * S /\ d * S \in Nat /\ b * S \in Nat
  OBVIOUS
<1> DEFINE d == a - b
<1>4. a * S = b * S + d * S /\ d * S \in Nat /\ b * S \in Nat
  BY <1>2, <1>3
<1> QED
  BY <1>4

LEMMA LargerOfTwo ==
  ASSUME NEW m \in Nat
  PROVE  LET x == Max({1, m}) IN x \in Nat /\ x >= 1 /\ x >= m
<1>1. \E x \in {1, m} : \A y \in {1, m} : x >= y
  <2>1. CASE m >= 1
    BY <2>1
  <2>2. CASE ~(m >= 1)
    BY <2>2
  <2> QED
    BY <2>1, <2>2
<1>2. Max({1, m}) \in {1, m} /\ \A y \in {1, m} : Max({1, m}) >= y
  BY <1>1 DEF Max
<1> QED
  BY <1>2

LEMMA SmallerOfTwo ==
  ASSUME NEW a \in Nat, NEW b \in Nat
  PROVE  LET x == Min({a, b}) IN x \in Nat /\ x \in {a, b} /\ x <= a /\ x <= b
<1>1. \E x \in {a, b} : \A y \in {a, b} : x =< y
  <2>1. CASE a <= b
    BY <2>1
  <2>2. CASE ~(a <= b)
    BY <2>2
  <2> QED
    BY <2>1, <2>2
<1>2. Min({a, b}) \in {a, b} /\ \A y \in {a, b} : Min({a, b}) =< y
  BY <1>1 DEF Min
<1> QED
  BY <1>2

(* What the pages hold together.                                           *)
Paged(pages) == UNION {ToSet(pages[k]) : k \in DOMAIN pages}

(* Splitting the log into pages loses no order and adds none.              *)
LEMMA SplitIs ==
  ASSUME NEW orders \in Seq(Item)
  PROVE  /\ Split(orders) \in Seq(Seq(Item)) /\ Len(Split(orders)) >= 1
         /\ Paged(Split(orders)) = ToSet(orders)
<1> DEFINE n == Len(orders)
           S == PageSize
           m == Max({1, (n + S - 1) \div S})
           from(p) == (p - 1) * S + 1
           to(p) == Min({p * S, n})
           page(p) == SubSeq(orders, from(p), to(p))
<1>1. n \in Nat /\ S \in Nat \ {0}
  BY ShopAssumption
<1>2. /\ (n + S - 1) \div S \in Nat /\ n <= ((n + S - 1) \div S) * S
      /\ \A i \in 1..n : LET k == (i - 1) \div S
                         IN  k \in Nat /\ k * S + 1 <= i /\ i <= (k + 1) * S
  <2> HIDE DEF n, S
  <2> QED
    BY <1>1, PagesEnough
<1>3. m \in Nat /\ m >= 1 /\ m >= (n + S - 1) \div S
  <2> HIDE DEF n, S
  <2> QED
    BY <1>2, LargerOfTwo
<1>4. n <= m * S
  <2> DEFINE q == (n + S - 1) \div S
  <2>1. q \in Nat /\ q <= m /\ m \in Nat /\ n <= q * S /\ n \in Nat /\ S \in Nat \ {0}
    BY <1>1, <1>2, <1>3
  <2> HIDE DEF q, n, S, m
  <2>2. q * S <= m * S /\ q * S \in Nat /\ m * S \in Nat
    <3>1. m - q \in Nat /\ m = q + (m - q)
      BY <2>1
    <3>2. \A d \in Nat : (q + d) * S = q * S + d * S /\ d * S \in Nat /\ q * S \in Nat
      BY <2>1
    <3> DEFINE d == m - q
    <3>3. m * S = q * S + d * S /\ d * S \in Nat /\ q * S \in Nat
      BY <3>1, <3>2
    <3> QED
      BY <3>3
  <2> QED
    BY <2>1, <2>2
<1>5. ASSUME NEW p \in 1..m
      PROVE  /\ from(p) \in Nat /\ from(p) >= 1 /\ to(p) \in Nat
             /\ to(p) <= n /\ to(p) <= p * S /\ to(p) \in {p * S, n}
  <2>1. p - 1 \in Nat /\ p \in Nat
    BY <1>3
  <2>2. (p - 1) * S \in Nat /\ p * S \in Nat
    BY <1>1, <2>1
  <2>3. to(p) \in Nat /\ to(p) <= n /\ to(p) <= p * S /\ to(p) \in {p * S, n}
    <3> HIDE DEF n, S
    <3> QED
      BY <1>1, <2>2, SmallerOfTwo
  <2>4. from(p) \in Nat /\ from(p) >= 1
    <3> HIDE DEF S
    <3> QED
      BY <2>2
  <2> QED
    BY <2>3, <2>4
<1>6. ASSUME NEW p \in 1..m
      PROVE  /\ page(p) \in Seq(Item) /\ ToSet(page(p)) \subseteq ToSet(orders)
             /\ \A i \in from(p)..to(p) : orders[i] \in ToSet(page(p))
  <2>1. from(p) \in Nat /\ from(p) >= 1 /\ to(p) \in Nat /\ to(p) <= n
    BY <1>5
  <2>2. \A i \in 1..n : orders[i] \in Item /\ orders[i] \in ToSet(orders)
    BY RowsOfSeq
  <2> DEFINE a == from(p)
             b == to(p)
  <2> HIDE DEF from, to, n
  <2>3. a \in Nat /\ a >= 1 /\ b \in Nat /\ b <= n /\ n \in Nat
    BY <1>1, <2>1
  <2> HIDE DEF a, b
  <2>4. \A i \in a..b : i \in 1..n
    BY <2>3
  <2>5. \A i \in a..b : orders[i] \in ToSet(orders) /\ orders[i] \in Item
    BY <2>2, <2>4
  <2> DEFINE s == SubSeq(orders, a, b)
  <2>6. /\ s \in Seq(Item) /\ Len(s) = IF a <= b THEN b - a + 1 ELSE 0
        /\ \A i \in 1..(b - a + 1) : s[i] = orders[a + i - 1]
    BY <2>3, <2>5, SubSeqProperties
  <2> HIDE DEF s
  <2>7. ToSet(s) = {s[i] : i \in 1..Len(s)}
    BY <2>6, RowsOfSeq
  <2>8. ASSUME NEW i \in 1..Len(s) PROVE s[i] \in ToSet(orders)
    <3>1. i \in 1..(b - a + 1) /\ a + i - 1 \in a..b
      BY <2>3, <2>6
    <3> QED
      BY <2>5, <2>6, <3>1
  <2>9. ASSUME NEW i \in a..b PROVE orders[i] \in ToSet(s)
    <3> DEFINE j == i - a + 1
    <3>1. j \in 1..(b - a + 1) /\ j \in 1..Len(s) /\ a + j - 1 = i
      BY <2>3, <2>6
    <3>2. s[j] = orders[a + j - 1]
      <4> HIDE DEF j
      <4> QED
        BY <2>6, <3>1
    <3> QED
      BY <2>7, <3>1, <3>2
  <2> QED
    BY <2>6, <2>7, <2>8, <2>9 DEF s, a, b
<1>7. ASSUME NEW i \in 1..n
      PROVE  \E p \in 1..m : i \in from(p)..to(p)
  <2> DEFINE k == (i - 1) \div S
  <2>1. k \in Nat /\ k * S + 1 <= i /\ i <= (k + 1) * S
    BY <1>2
  <2> HIDE DEF k
  <2>2. k < m
    <3>1. k * S < m * S
      <4> DEFINE kS == k * S
                 mS == m * S
      <4>1. kS \in Nat /\ mS \in Nat /\ kS + 1 <= i /\ n <= mS /\ i \in Nat /\ i <= n /\ n \in Nat
        BY <1>1, <1>3, <1>4, <2>1
      <4> HIDE DEF kS, mS, n
      <4>2. kS < mS
        BY <4>1
      <4> QED
        BY <4>2 DEF kS, mS
    <3> HIDE DEF m, S
    <3> QED
      BY <1>1, <1>3, <2>1, <3>1, FewerPages
  <2>3. k + 1 \in 1..m /\ (k + 1) - 1 = k
    <3> HIDE DEF m
    <3> QED
      BY <1>3, <2>1, <2>2
  <2>4. from(k + 1) <= i
    <3> HIDE DEF S
    <3> QED
      BY <2>1, <2>3
  <2>5. i <= to(k + 1)
    <3>1. to(k + 1) \in {(k + 1) * S, n}
      <4> HIDE DEF to, from, m
      <4> QED
        BY <1>5, <2>3
    <3>2. i <= n
      BY <1>1
    <3> HIDE DEF to, n, S
    <3> QED
      BY <2>1, <3>1, <3>2
  <2>6. from(k + 1) \in Nat /\ to(k + 1) \in Nat /\ i \in Nat
    <3> HIDE DEF to, from, m
    <3> QED
      BY <1>5, <2>3
  <2> HIDE DEF from, to, m
  <2> QED
    BY <2>3, <2>4, <2>5, <2>6
<1>8. Split(orders) = [p \in 1..m |-> page(p)]
  BY DEF Split
<1> DEFINE pages == Split(orders)
<1> HIDE DEF page, from, to, m
<1>9. /\ DOMAIN pages = 1..m /\ Len(pages) = m /\ pages \in Seq(Seq(Item))
      /\ \A p \in 1..m : pages[p] = page(p)
  BY <1>3, <1>6, <1>8
<1> HIDE DEF pages
<1>10. Paged(pages) \subseteq ToSet(orders)
  BY <1>6, <1>9 DEF Paged
<1>11. ToSet(orders) \subseteq Paged(pages)
  <2> SUFFICES ASSUME NEW r \in ToSet(orders) PROVE r \in Paged(pages)
    OBVIOUS
  <2>1. PICK i \in 1..n : r = orders[i]
    BY RowsOfSeq
  <2>2. PICK p \in 1..m : i \in from(p)..to(p)
    BY <1>7
  <2>3. r \in ToSet(page(p))
    BY <1>6, <2>1, <2>2
  <2> QED
    BY <1>9, <2>3 DEF Paged
<1> QED
  BY <1>3, <1>9, <1>10, <1>11 DEF pages

-----------------------------------------------------------------------------
(* What a write makes of the log.                                          *)

HasAll(rows, S) == \A o \in S : \E r \in rows : r.id = o
Acking(op) == IF op.status = "pending" THEN {op.order} ELSE {}

LEMMA PatchedIs ==
  ASSUME NEW orders \in Seq(Item), NEW op \in Op
  PROVE  /\ Patched(orders, op) \in Seq(Item)
         /\ \A o : HasAll(ToSet(orders), {o}) => HasAll(ToSet(Patched(orders, op)), {o})
         /\ \A r \in ToSet(Patched(orders, op)) :
              \/ \E q \in ToSet(orders) : r.by = q.by /\ r.id = q.id
              \/ r.by = op.by /\ r.id = op.order
<1> DEFINE n == Len(orders)
           new == Patched(orders, op)
           row(i) == [orders[i] EXCEPT !.status = op.status,
                                       !.by = IF op.by = Unpaid THEN @ ELSE op.by]
<1>1. n \in Nat /\ DOMAIN orders = 1..n /\ \A i \in 1..n : orders[i] \in Item
  OBVIOUS
<1>2. ASSUME NEW i \in 1..n
      PROVE  /\ row(i) \in Item /\ row(i).id = orders[i].id
             /\ row(i).by = orders[i].by \/ row(i).by = op.by
  <2>1. PICK r \in Item : r = orders[i]
    BY <1>1
  <2>2. r \in [id: Orders, status: Statuses, by: Pays \union {Unpaid}]
    BY DEF Item
  <2>3. op.status \in Statuses /\ op.by \in Pays \union {Unpaid}
    BY DEF Op
  <2> DEFINE q == [r EXCEPT !.status = op.status, !.by = IF op.by = Unpaid THEN @ ELSE op.by]
  <2>4. q = [id |-> r.id, status |-> op.status, by |-> IF op.by = Unpaid THEN r.by ELSE op.by]
    <3>1. PICK b : b = IF op.by = Unpaid THEN r.by ELSE op.by
      OBVIOUS
    <3>2. PICK s : s = op.status
      OBVIOUS
    <3>3. [r EXCEPT !.status = s, !.by = b] = [id |-> r.id, status |-> s, by |-> b]
      <4>1. r = [id |-> r.id, status |-> r.status, by |-> r.by]
        BY <2>2
      <4>2. PICK u : u = [r EXCEPT !.status = s]
        OBVIOUS
      <4>3. u = [id |-> r.id, status |-> s, by |-> r.by]
        BY <4>1, <4>2
      <4>4. [u EXCEPT !.by = b] = [id |-> r.id, status |-> s, by |-> b]
        BY <4>3
      <4>5. [r EXCEPT !.status = s, !.by = b] = [u EXCEPT !.by = b]
        BY <4>2
      <4> QED
        BY <4>4, <4>5
    <3>4. q = [r EXCEPT !.status = s, !.by = b]
      BY <3>1, <3>2
    <3> QED
      BY <3>1, <3>2, <3>3, <3>4
  <2>5. q \in Item /\ q.id = r.id /\ (q.by = r.by \/ q.by = op.by)
    BY <2>2, <2>3, <2>4 DEF Item
  <2> QED
    BY <2>1, <2>5
<1>3. /\ new = [i \in 1..n |-> IF ~FoundAt(orders, i, op.order) THEN orders[i] ELSE row(i)]
  BY <1>1 DEF Patched
<1> HIDE DEF new, row
<1>4. /\ new \in [1..n -> Item]
      /\ \A i \in 1..n : new[i] = IF ~FoundAt(orders, i, op.order) THEN orders[i] ELSE row(i)
  BY <1>1, <1>2, <1>3
<1>5. new \in Seq(Item) /\ Len(new) = n
  BY <1>1, <1>4
<1>6. \A i \in 1..n : new[i].id = orders[i].id
  BY <1>2, <1>4
<1>7. ASSUME NEW o, NEW i \in 1..n, orders[i].id = o PROVE HasAll(ToSet(new), {o})
  <2>1. new[i] \in ToSet(new) /\ new[i].id = o
    BY <1>5, <1>6, <1>7, RowsOfSeq
  <2> QED
    BY <2>1 DEF HasAll
<1>8. ASSUME NEW o, HasAll(ToSet(orders), {o}) PROVE HasAll(ToSet(new), {o})
  <2>1. PICK r \in ToSet(orders) : r.id = o
    BY <1>8 DEF HasAll
  <2>2. PICK i \in 1..n : r = orders[i]
    BY RowsOfSeq
  <2> QED
    BY <1>7, <2>1, <2>2
<1>9. ASSUME NEW r \in ToSet(new)
      PROVE  \/ \E q \in ToSet(orders) : r.by = q.by /\ r.id = q.id
             \/ r.by = op.by /\ r.id = op.order
  <2>1. PICK i \in 1..n : r = new[i]
    BY <1>5, RowsOfSeq
  <2>2. orders[i] \in ToSet(orders)
    BY RowsOfSeq
  <2>3. CASE ~FoundAt(orders, i, op.order)
    BY <1>4, <2>1, <2>2, <2>3
  <2>4. CASE FoundAt(orders, i, op.order)
    <3>1. orders[i].id = op.order
      BY <2>4 DEF FoundAt
    <3>2. r = row(i)
      BY <1>4, <2>1, <2>4
    <3> QED
      BY <1>2, <2>2, <3>1, <3>2
  <2> QED
    BY <2>3, <2>4
<1> QED
  BY <1>5, <1>8, <1>9 DEF new

LEMMA NewLogIs ==
  ASSUME NEW orders \in Seq(Item), NEW op \in Op, Applies(orders, op)
  PROVE  /\ NewLog(orders, op) \in Seq(Item)
         /\ \A o : HasAll(ToSet(orders), {o}) => HasAll(ToSet(NewLog(orders, op)), {o})
         /\ HasAll(ToSet(NewLog(orders, op)), Acking(op))
         /\ \A r \in ToSet(NewLog(orders, op)) :
              \/ \E q \in ToSet(orders) : r.by = q.by /\ r.id = q.id
              \/ r.by = op.by /\ r.id = op.order
              \/ r.by = Unpaid
<1>1. CASE op.status = "pending"
  <2> DEFINE r == Placed(op.order)
  <2>1. r \in Item /\ r.id = op.order /\ r.by = Unpaid
    BY DEF Placed, Item, Op, Statuses
  <2> DEFINE s == <<r>>
  <2>2. NewLog(orders, op) = s \o orders
    BY <1>1 DEF NewLog
  <2> HIDE DEF r
  <2>3. s \in Seq(Item) /\ ToSet(s) = {r}
    BY <2>1, RowsOfOne
  <2> HIDE DEF s
  <2>4. s \o orders \in Seq(Item) /\ ToSet(s \o orders) = {r} \union ToSet(orders)
    BY <2>3, RowsOfBoth
  <2>5. \A o : HasAll(ToSet(orders), {o}) => HasAll({r} \union ToSet(orders), {o})
    BY DEF HasAll
  <2>6. HasAll({r} \union ToSet(orders), Acking(op))
    BY <1>1, <2>1 DEF HasAll, Acking
  <2> QED
    BY <2>1, <2>2, <2>4, <2>5, <2>6
<1>2. CASE op.status # "pending"
  <2>1. NewLog(orders, op) = Patched(orders, op) /\ Acking(op) = {}
    BY <1>2 DEF NewLog, Acking
  <2>2. HasAll(ToSet(Patched(orders, op)), {})
    BY DEF HasAll
  <2> QED
    BY <2>1, <2>2, PatchedIs
<1> QED
  BY <1>1, <1>2

-----------------------------------------------------------------------------
(* The rows of the log and the writes on their way.                        *)

Names == Pays \union {Unpaid}

LEMMA PayKinds ==
  /\ \A o \in Orders : Card(o) \in Pays /\ Draw(o) \in Pays /\ Card(o) # Draw(o)
  /\ \A o \in Orders, t \in Txs : Transfer(o, t) \in Pays
  /\ \A p \in Pays :
       /\ p.order \in Orders /\ p # Unpaid
       /\ \/ p.rail = "card" /\ p = Card(p.order) /\ p.tx = NoTx
          \/ p.rail = "draw" /\ p = Draw(p.order) /\ p.tx = NoTx
          \/ p.rail = "tx" /\ p.tx \in Txs /\ p = Transfer(p.order, p.tx)
  /\ Unpaid.tx = NoTx
<1>1. ASSUME NEW o \in Orders
      PROVE  /\ Card(o) \in Pays /\ Draw(o) \in Pays /\ Card(o) # Draw(o)
             /\ \A t \in Txs : Transfer(o, t) \in Pays
  BY DEF Pays, Card, Draw
<1>2. ASSUME NEW o \in Orders
      PROVE  /\ Card(o).order = o /\ Card(o).rail = "card" /\ Card(o).tx = NoTx
             /\ Draw(o).order = o /\ Draw(o).rail = "draw" /\ Draw(o).tx = NoTx
             /\ \A t \in Txs : /\ Transfer(o, t).order = o /\ Transfer(o, t).rail = "tx"
                               /\ Transfer(o, t).tx = t
  BY DEF Card, Draw, Transfer
<1>3. Unpaid.rail = "none" /\ Unpaid.tx = NoTx
  BY DEF Unpaid
<1>4. ASSUME NEW p \in Pays
      PROVE  \/ \E o \in Orders : p = Card(o)
             \/ \E o \in Orders : p = Draw(o)
             \/ \E o \in Orders, t \in Txs : p = Transfer(o, t)
  BY DEF Pays
<1>5. ASSUME NEW p \in Pays
      PROVE  /\ p.order \in Orders /\ p # Unpaid
             /\ \/ p.rail = "card" /\ p = Card(p.order) /\ p.tx = NoTx
                \/ p.rail = "draw" /\ p = Draw(p.order) /\ p.tx = NoTx
                \/ p.rail = "tx" /\ p.tx \in Txs /\ p = Transfer(p.order, p.tx)
  <2>1. CASE \E o \in Orders : p = Card(o)
    <3>1. PICK o \in Orders : p = Card(o)
      BY <2>1
    <3>2. p.order = o /\ p.rail = "card" /\ p.tx = NoTx
      BY <1>2, <3>1
    <3> QED
      BY <1>3, <3>1, <3>2
  <2>2. CASE \E o \in Orders : p = Draw(o)
    <3>1. PICK o \in Orders : p = Draw(o)
      BY <2>2
    <3>2. p.order = o /\ p.rail = "draw" /\ p.tx = NoTx
      BY <1>2, <3>1
    <3> QED
      BY <1>3, <3>1, <3>2
  <2>3. CASE \E o \in Orders, t \in Txs : p = Transfer(o, t)
    BY <1>2, <1>3, <2>3
  <2> QED
    BY <1>4, <2>1, <2>2, <2>3
<1> QED
  BY <1>1, <1>3, <1>5

(* What ShopTypeOK says of the log, and of the rest.                       *)
JobType ==
  job # NoJob => job \in Job /\ job.next < Len(job.pages)
LogType ==
  /\ DOMAIN feed \in SUBSET Nat /\ feed \in [DOMAIN feed -> Seq(Item)] /\ last \in Nat
  /\ writes \in Seq(Op) /\ JobType
  /\ acked \subseteq Orders /\ torn \in BOOLEAN
PayType ==
  /\ step \in [Pays -> Steps]
  /\ usedTxs \subseteq onChain /\ onChain \subseteq Txs
  /\ settled \subseteq Orders /\ spent \in 0..Cap /\ revoked \in BOOLEAN
  /\ drawing \in Orders \union {NoOrder}
  /\ drawn \in [Orders -> Nat] /\ floating \in [Orders -> Nat] /\ lost \in [Orders -> Nat]

LEMMA TypeParts ==
  ShopTypeOK <=> LogType /\ PayType
BY DEF ShopTypeOK, LogType, PayType, JobType

(* Every row of the feed or of the write under way, every write asked for. *)
Rows == (UNION {ToSet(feed[p]) : p \in DOMAIN feed})
        \union (IF job = NoJob THEN {} ELSE Paged(job.pages))
Asked == ToSet(writes) \union (IF job = NoJob THEN {} ELSE {job.op})

LEMMA PagedRows ==
  ASSUME NEW pages \in Seq(Seq(Item))
  PROVE  /\ Paged(pages) \subseteq Item
         /\ \A k \in 1..Len(pages) : pages[k] \in Seq(Item) /\ ToSet(pages[k]) \subseteq Paged(pages)
<1>1. DOMAIN pages = 1..Len(pages) /\ \A k \in 1..Len(pages) : pages[k] \in Seq(Item)
  OBVIOUS
<1>2. \A k \in 1..Len(pages) : ToSet(pages[k]) \subseteq Item
  BY <1>1, RowsOfSeq
<1> QED
  BY <1>1, <1>2 DEF Paged

LEMMA PageIsSeq ==
  ASSUME LogType, NEW p
  PROVE  Page(p) \in Seq(Item) /\ ToSet(Page(p)) \subseteq Rows
<1>1. <<>> \in Seq(Item) /\ ToSet(<<>>) = {}
  <2>1. <<>> \in Seq(Item) /\ Len(<<>>) = 0 /\ DOMAIN <<>> = {}
    OBVIOUS
  <2> QED
    BY <2>1 DEF ToSet
<1>2. CASE p \in DOMAIN feed
  BY <1>2 DEF LogType, Page, Rows
<1>3. CASE p \notin DOMAIN feed
  BY <1>1, <1>3 DEF Page
<1> QED
  BY <1>2, <1>3

LEMMA RowTypes ==
  ASSUME LogType
  PROVE  Rows \subseteq Item /\ Asked \subseteq Op
<1>1. ASSUME NEW p \in DOMAIN feed PROVE ToSet(feed[p]) \subseteq Item
  BY RowsOfSeq DEF LogType
<1>2. job # NoJob => Paged(job.pages) \subseteq Item
  BY PagedRows DEF LogType, JobType, Job
<1>3. ToSet(writes) \subseteq Op
  BY RowsOfSeq DEF LogType
<1>4. job # NoJob => job.op \in Op
  BY DEF LogType, JobType, Job
<1>5. UNION {ToSet(feed[p]) : p \in DOMAIN feed} \subseteq Item
  BY <1>1
<1>6. Rows \subseteq Item
  <2>1. PICK A : A = UNION {ToSet(feed[p]) : p \in DOMAIN feed}
    OBVIOUS
  <2>2. PICK B : B = IF job = NoJob THEN {} ELSE Paged(job.pages)
    OBVIOUS
  <2>3. A \subseteq Item
    BY <1>5, <2>1
  <2>4. B \subseteq Item
    BY <1>2, <2>2
  <2>5. Rows = A \union B
    BY <2>1, <2>2 DEF Rows
  <2> QED
    BY <2>3, <2>4, <2>5
<1>7. Asked \subseteq Op
  BY <1>3, <1>4 DEF Asked
<1> QED
  BY <1>6, <1>7

(* The log that a reader joins from pages 0 to n.                          *)
LEMMA JoinedLog ==
  ASSUME NEW n \in Nat, NEW f, \A p \in 0..n : f[p] \in Seq(Item)
  PROVE  LET log0 == FlattenSeq([p \in 1..n + 1 |-> f[p - 1]])
         IN  log0 \in Seq(Item) /\ ToSet(log0) = UNION {ToSet(f[p]) : p \in 0..n}
<1> DEFINE ss == [p \in 1..n + 1 |-> f[p - 1]]
<1>1. ASSUME NEW p \in 1..n + 1 PROVE p - 1 \in 0..n
  OBVIOUS
<1>2. ss \in [1..n + 1 -> Seq(Item)] /\ n + 1 \in Nat \ {0}
  BY <1>1
<1>3. \A p \in 1..n + 1 : ss[p] = f[p - 1]
  OBVIOUS
<1> HIDE DEF ss
<1>4. FlattenSeq(ss) \in Seq(Item) /\ ToSet(FlattenSeq(ss)) = UNION {ToSet(ss[p]) : p \in 1..n + 1}
  <2>1. \A m \in Nat \ {0} : ss \in [1..m -> Seq(Item)] =>
            /\ FlattenSeq(ss) \in Seq(Item)
            /\ ToSet(FlattenSeq(ss)) = UNION {ToSet(ss[p]) : p \in 1..m}
    BY FlattenHasAll
  <2> QED
    BY <1>2, <2>1
<1>5. UNION {ToSet(ss[p]) : p \in 1..n + 1} = UNION {ToSet(f[p]) : p \in 0..n}
  <2>1. ASSUME NEW p \in 0..n PROVE p + 1 \in 1..n + 1 /\ ss[p + 1] = f[p]
    <3>1. p + 1 \in 1..n + 1 /\ (p + 1) - 1 = p
      OBVIOUS
    <3> QED
      BY <1>3, <3>1
  <2> QED
    BY <1>1, <1>3, <2>1
<1> QED
  BY <1>4, <1>5 DEF ss

LEMMA LogIs ==
  ASSUME LogType
  PROVE  /\ Log \in Seq(Item) /\ ToSet(Log) \subseteq Rows
         /\ ToSet(Log) = UNION {ToSet(Page(p)) : p \in 0..last}
<1> DEFINE f == [p \in 0..last |-> Page(p)]
<1>1. last \in Nat /\ \A p \in 0..last : f[p] \in Seq(Item) /\ f[p] = Page(p)
  BY PageIsSeq DEF LogType
<1>2. [p \in 1..last + 1 |-> f[p - 1]] = [p \in 1..last + 1 |-> Page(p - 1)]
  <2>1. \A p \in 1..last + 1 : p - 1 \in 0..last
    BY <1>1
  <2> QED
    BY <1>1, <2>1
<1> HIDE DEF f
<1>3. /\ FlattenSeq([p \in 1..last + 1 |-> f[p - 1]]) \in Seq(Item)
      /\ ToSet(FlattenSeq([p \in 1..last + 1 |-> f[p - 1]])) = UNION {ToSet(f[p]) : p \in 0..last}
  <2>1. PICK n \in Nat : n = last
    BY <1>1
  <2>2. \A p \in 0..n : f[p] \in Seq(Item)
    BY <1>1, <2>1
  <2>3. /\ FlattenSeq([p \in 1..n + 1 |-> f[p - 1]]) \in Seq(Item)
        /\ ToSet(FlattenSeq([p \in 1..n + 1 |-> f[p - 1]])) = UNION {ToSet(f[p]) : p \in 0..n}
    <3>1. \A g : (\A p \in 0..n : g[p] \in Seq(Item)) =>
             /\ FlattenSeq([p \in 1..n + 1 |-> g[p - 1]]) \in Seq(Item)
             /\ ToSet(FlattenSeq([p \in 1..n + 1 |-> g[p - 1]])) = UNION {ToSet(g[p]) : p \in 0..n}
      BY JoinedLog, Zenon
    <3> QED
      BY <2>2, <3>1, Zenon
  <2> QED
    BY <2>1, <2>3
<1>4. Log \in Seq(Item) /\ ToSet(Log) = UNION {ToSet(Page(p)) : p \in 0..last}
  BY <1>1, <1>2, <1>3 DEF Log
<1>5. ToSet(Log) \subseteq Rows
  BY <1>4, PageIsSeq
<1> QED
  BY <1>4, <1>5

-----------------------------------------------------------------------------
(* The inductive invariant.                                                *)

(* A row or a write that names payment p for order o.                      *)
Bill(p, o) ==
  \/ \E r \in Rows : r.by = p /\ r.id = o
  \/ \E op \in Asked : op.by = p /\ op.order = o

(* A payment named is one that was made, and for that order.               *)
PayFits(p, o) ==
  p # Unpaid =>
    /\ p.order = o
    /\ p.rail = "card" => step[p] \in {"flip", "done"}
    /\ p.rail = "tx" => p.tx \in usedTxs
    /\ p.rail = "draw" => drawn[o] > 0

NamesFit ==
  /\ \A p \in Names, o \in Orders : Bill(p, o) => PayFits(p, o)
  /\ \A p, q \in Names, o, u \in Orders :
       Bill(p, o) /\ Bill(q, u) /\ p.tx = q.tx /\ p.tx # NoTx => p = q

InDraw == {"checked", "sent", "mined"}

(* The draws of an order, but for those whose outcome was lost.            *)
Known(o) == drawn[o] + floating[o] - lost[o]
DrawFits(o) ==
  /\ Known(o) = IF o \in settled \/ step[Draw(o)] = "mined" THEN 1 ELSE 0
  /\ o \in settled \/ step[Draw(o)] = "mined" => drawn[o] > 0
  /\ step[Draw(o)] \in InDraw => o \notin settled /\ drawing = o /\ spent + 1 <= Cap
Count(S) == SumFunctionOnSet([o \in Orders |-> IF o \in S THEN 1 ELSE 0], Orders)
DrawsFit ==
  /\ \A o \in Orders : DrawFits(o)
  /\ Count(settled) = spent
  /\ \A op \in Asked : op.by.rail = "draw" => op.by.order \in settled

(* A transfer that is looked at is on the chain.                           *)
Offered == \A p \in Pays : p.rail = "tx" /\ step[p] # "idle" => p.tx \in onChain

(* While no write ended between pages: the log, or the write under way,    *)
(* has every acknowledged order.                                           *)
LogFits ==
  ~torn => IF job = NoJob THEN HasAll(ToSet(Log), acked)
           ELSE /\ last + 1 = Len(job.pages)
                /\ \A p \in 0..(job.next - 1) : Page(p) = job.pages[p + 1]
                /\ HasAll(Paged(job.pages), acked \union Acking(job.op))

ShopIInv == LogType /\ PayType /\ Offered /\ NamesFit /\ DrawsFit /\ LogFits

-----------------------------------------------------------------------------
(* What most steps keep.                                                   *)

(* A step that goes no way back on a payment and names one more at most,   *)
(* one that was made.                                                      *)
Onward ==
  /\ \A p \in Pays : p.rail = "card" /\ step[p] \in {"flip", "done"} => step'[p] \in {"flip", "done"}
  /\ usedTxs \subseteq usedTxs'
  /\ \A o \in Orders : drawn[o] > 0 => drawn'[o] > 0

LEMMA NamesKept ==
  ASSUME NamesFit, Onward, NEW p \in Names, NEW o, PayFits(p, o)',
         p.tx # NoTx => p.tx \notin usedTxs,
         \A q \in Names, u \in Orders :
           Bill(q, u)' => Bill(q, u) \/ q = Unpaid \/ (q = p /\ u = o)
  PROVE  NamesFit'
<1>1. ASSUME NEW q \in Names, NEW u \in Orders, Bill(q, u)
      PROVE  PayFits(q, u)' /\ (q.tx # NoTx => q.tx \in usedTxs)
  <2>1. PayFits(q, u)
    BY <1>1 DEF NamesFit
  <2>2. CASE q = Unpaid
    BY <2>2, PayKinds DEF PayFits
  <2>3. CASE q # Unpaid
    <3>1. q \in Pays
      BY <2>3 DEF Names
    <3>2. q.tx # NoTx => q.rail = "tx"
      BY <3>1, PayKinds
    <3> QED
      BY <2>1, <2>3, <3>1, <3>2 DEF PayFits, Onward
  <2> QED
    BY <2>2, <2>3
<1>2. ASSUME NEW q \in Names, NEW u \in Orders, Bill(q, u)'
      PROVE  PayFits(q, u)'
  <2>1. CASE q = Unpaid
    BY <2>1 DEF PayFits
  <2> QED
    BY <1>1, <1>2, <2>1
<1>3. ASSUME NEW q \in Names, NEW r \in Names, NEW u \in Orders, NEW v \in Orders,
             Bill(q, u)', Bill(r, v)', q.tx = r.tx, q.tx # NoTx
      PROVE  q = r
  <2>1. q # Unpaid /\ r # Unpaid
    BY <1>3, PayKinds
  <2>2. Bill(q, u) \/ q = p
    BY <1>3, <2>1
  <2>3. Bill(r, v) \/ r = p
    BY <1>3, <2>1
  <2>4. CASE Bill(q, u) /\ Bill(r, v)
    BY <1>3, <2>4 DEF NamesFit
  <2>5. CASE Bill(q, u) /\ r = p
    BY <1>1, <1>3, <2>5
  <2>6. CASE q = p /\ Bill(r, v)
    BY <1>1, <1>3, <2>6
  <2> QED
    BY <2>2, <2>3, <2>4, <2>5, <2>6
<1> QED
  BY <1>2, <1>3 DEF NamesFit

(* Nothing is drawn, and the steps of the draws under way stay.            *)
LEMMA DrawsKept ==
  ASSUME DrawsFit, UNCHANGED <<settled, spent, drawing, drawn, floating, lost>>,
         \A o \in Orders : \/ step'[Draw(o)] = step[Draw(o)]
                           \/ step[Draw(o)] \notin InDraw /\ step'[Draw(o)] \notin InDraw,
         \A op \in Asked' : op \in Asked \/ (op.by.rail = "draw" => op.by.order \in settled)
  PROVE  DrawsFit'
<1>1. ASSUME NEW o \in Orders PROVE DrawFits(o)'
  <2>1. DrawFits(o)
    BY DEF DrawsFit
  <2>2. (step'[Draw(o)] = "mined") = (step[Draw(o)] = "mined")
    BY DEF InDraw
  <2>3. step'[Draw(o)] \in InDraw => step[Draw(o)] \in InDraw
    OBVIOUS
  <2>4. Known(o)' = Known(o)
    BY DEF Known
  <2> QED
    BY <2>1, <2>2, <2>3, <2>4 DEF DrawFits
<1>2. Count(settled)' = spent'
  BY DEF DrawsFit, Count
<1>3. \A op \in Asked' : op.by.rail = "draw" => op.by.order \in settled'
  BY DEF DrawsFit
<1> QED
  BY <1>1, <1>2, <1>3 DEF DrawsFit

(* A step that at most asks for one more write.                            *)
Quiet(op) ==
  /\ UNCHANGED <<feed, last, job, acked, torn>>
  /\ writes' = writes \/ writes' = Append(writes, op)

LEMMA QuietStep ==
  ASSUME LogType, NEW op \in Op, Quiet(op)
  PROVE  /\ LogType'
         /\ LogFits => LogFits'
         /\ \A a \in Asked' : a \in Asked \/ a = op
         /\ \A q \in Names, u \in Orders : Bill(q, u)' => Bill(q, u) \/ (q = op.by /\ u = op.order)
<1>1. UNCHANGED <<feed, last, job, acked, torn>>
  BY DEF Quiet
<1>2. writes \in Seq(Op)
  BY DEF LogType
<1>3. writes' \in Seq(Op) /\ ToSet(writes') \subseteq ToSet(writes) \union {op}
  <2>1. CASE writes' = writes
    BY <1>2, <2>1
  <2>2. CASE writes' = Append(writes, op)
    <3> DEFINE s == <<op>>
    <3>1. s \in Seq(Op) /\ ToSet(s) = {op}
      BY RowsOfOne
    <3>2. writes' = writes \o s
      BY <1>2, <2>2, AppendIsConcat
    <3> HIDE DEF s
    <3> QED
      BY <1>2, <3>1, <3>2, RowsOfBoth
  <2> QED
    BY <2>1, <2>2 DEF Quiet
<1>4. LogType'
  BY <1>1, <1>3 DEF LogType, JobType
<1>5. LogFits => LogFits'
  BY <1>1 DEF LogFits, Log, Page
<1>6. \A a \in Asked' : a \in Asked \/ a = op
  BY <1>1, <1>3 DEF Asked
<1>7. Rows' = Rows
  BY <1>1 DEF Rows
<1>8. ASSUME NEW q \in Names, NEW u \in Orders, Bill(q, u)'
      PROVE  Bill(q, u) \/ (q = op.by /\ u = op.order)
  BY <1>6, <1>7, <1>8 DEF Bill
<1> QED
  BY <1>4, <1>5, <1>6, <1>8

(* A step that draws nothing: on the files and on the chain the payments   *)
(* only go on, and the payment it names, if any, is one that was made.     *)
PayGoesOn ==
  /\ step' \in [Pays -> Steps] /\ revoked' \in BOOLEAN
  /\ \A q \in Pays : q.rail = "card" /\ step[q] \in {"flip", "done"} => step'[q] \in {"flip", "done"}
  /\ \A o \in Orders : \/ step'[Draw(o)] = step[Draw(o)]
                       \/ step[Draw(o)] \notin InDraw /\ step'[Draw(o)] \notin InDraw
  /\ \A q \in Pays : q.rail = "tx" => \/ step'[q] \in {step[q], "idle"}
                                       \/ q.tx \in onChain'
  /\ UNCHANGED <<settled, spent, drawing, drawn, floating, lost>> /\ onChain \subseteq onChain'
  /\ usedTxs \subseteq usedTxs' /\ usedTxs' \subseteq onChain' /\ onChain' \subseteq Txs

LEMMA PaysKept ==
  ASSUME ShopIInv, LogType', LogFits', PayGoesOn,
         NEW p \in Names, NEW o, PayFits(p, o)', p.tx # NoTx => p.tx \notin usedTxs,
         \A q \in Names, u \in Orders :
           Bill(q, u)' => Bill(q, u) \/ q = Unpaid \/ (q = p /\ u = o),
         \A op \in Asked' : op \in Asked \/ (op.by.rail = "draw" => op.by.order \in settled)
  PROVE  ShopIInv'
<1>1. PayType'
  BY DEF PayType, PayGoesOn, ShopIInv
<1>2. Onward
  BY DEF Onward, PayGoesOn
<1>3. NamesFit'
  BY <1>2, NamesKept DEF ShopIInv
<1>4. DrawsFit'
  BY DrawsKept DEF PayGoesOn, ShopIInv
<1>5. Offered'
  BY DEF Offered, PayGoesOn, ShopIInv
<1> QED
  BY <1>1, <1>3, <1>4, <1>5 DEF ShopIInv

(* The same, for a request that moves its own payment.                     *)
LEMMA StepChange ==
  ASSUME PayType, NEW p \in Pays, NEW s \in Steps, step' = [step EXCEPT ![p] = s]
  PROVE  /\ step' \in [Pays -> Steps] /\ step'[p] = s
         /\ \A q \in Pays : q # p => step'[q] = step[q]
BY DEF PayType

LEMMA RequestKept ==
  ASSUME ShopIInv, NEW op \in Op, Quiet(op),
         NEW p \in Pays, NEW s \in Steps, step' = [step EXCEPT ![p] = s],
         p.rail = "card" /\ step[p] \in {"flip", "done"} => s \in {"flip", "done"},
         p.rail = "draw" => step[p] = s \/ (step[p] \notin InDraw /\ s \notin InDraw),
         p.rail = "tx" => s \in {step[p], "idle"} \/ p.tx \in onChain,
         UNCHANGED <<permission, chain>>, usedTxs \subseteq usedTxs', usedTxs' \subseteq onChain,
         PayFits(op.by, op.order)', op.by.tx # NoTx => op.by.tx \notin usedTxs,
         op.by.rail = "draw" => op.by.order \in settled
  PROVE  ShopIInv'
<1>1. LogType /\ PayType /\ LogFits
  BY DEF ShopIInv
<1>2. /\ step' \in [Pays -> Steps] /\ step'[p] = s
      /\ \A q \in Pays : q # p => step'[q] = step[q]
  BY <1>1, StepChange
<1>3. PayGoesOn
  <2>1. UNCHANGED <<settled, spent, revoked, drawing, drawn, floating, lost, onChain>>
    BY DEF permission, chain
  <2>2. ASSUME NEW o \in Orders
        PROVE  \/ step'[Draw(o)] = step[Draw(o)]
               \/ step[Draw(o)] \notin InDraw /\ step'[Draw(o)] \notin InDraw
    <3>1. Draw(o) \in Pays /\ Draw(o).rail = "draw"
      BY PayKinds DEF Draw
    <3> QED
      BY <1>2, <3>1
  <2>3. \A q \in Pays : q.rail = "card" /\ step[q] \in {"flip", "done"}
                          => step'[q] \in {"flip", "done"}
    BY <1>2
  <2>4. revoked' \in BOOLEAN /\ onChain' \subseteq Txs
    BY <1>1, <2>1 DEF PayType
  <2>5. \A q \in Pays : q.rail = "tx" => \/ step'[q] \in {step[q], "idle"}
                                         \/ q.tx \in onChain'
    BY <1>2, <2>1
  <2> QED
    BY <1>2, <2>1, <2>2, <2>3, <2>4, <2>5 DEF PayGoesOn
<1>4. /\ LogType' /\ LogFits'
      /\ \A a \in Asked' : a \in Asked \/ a = op
      /\ \A q \in Names, u \in Orders : Bill(q, u)' => Bill(q, u) \/ (q = op.by /\ u = op.order)
  BY <1>1, QuietStep
<1>5. op.by \in Names
  BY DEF Op, Names
<1>6. PICK o : o = op.order
  OBVIOUS
<1> DEFINE b == op.by
<1>7. PayFits(b, o)' /\ (b.tx # NoTx => b.tx \notin usedTxs) /\ b \in Names
  BY <1>5, <1>6
<1>8. \A a \in Asked' : a \in Asked \/ (a.by.rail = "draw" => a.by.order \in settled)
  BY <1>4
<1>9. \A q \in Names, u \in Orders : Bill(q, u)' => Bill(q, u) \/ q = Unpaid \/ (q = b /\ u = o)
  BY <1>4, <1>6
<1> HIDE DEF b
<1> QED
  BY <1>3, <1>4, <1>7, <1>8, <1>9, PaysKept

(* A request that asks for no write, and one that asks for a payment's.    *)
NoWrite(o) == [order |-> o, status |-> "pending", by |-> Unpaid]

LEMMA NoWriteIs ==
  ASSUME NEW o \in Orders, NEW st \in Statuses
  PROVE  /\ [order |-> o, status |-> st, by |-> Unpaid] \in Op
         /\ [order |-> o, status |-> st, by |-> Unpaid].by = Unpaid
         /\ PayFits(Unpaid, o)' /\ Unpaid.tx = NoTx /\ Unpaid.rail # "draw"
BY DEF Op, PayFits, Unpaid

LEMMA FlipIs ==
  ASSUME NEW p \in Pays
  PROVE  LET op == [order |-> p.order, status |-> "paid", by |-> p]
         IN  op \in Op /\ op.by = p /\ op.order = p.order
<1>1. p.order \in Orders
  BY PayKinds
<1> QED
  BY <1>1 DEF Op, Statuses

-----------------------------------------------------------------------------
(* The requests, and the money that moves outside the server.              *)

LEMMA PlaceKept ==
  ASSUME ShopIInv, NEW o \in Orders, Place(o)
  PROVE  ShopIInv'
<1> DEFINE op == [order |-> o, status |-> "pending", by |-> Unpaid]
           p == Card(o)
<1>1. op \in Op /\ op.by = Unpaid /\ PayFits(Unpaid, o)' /\ Unpaid.tx = NoTx /\ Unpaid.rail # "draw"
  BY NoWriteIs DEF Statuses
<1>2. p \in Pays /\ p.rail = "card"
  BY PayKinds DEF Card
<1>3. Quiet(op)
  BY DEF Place, Enqueue, Quiet
<1>4. UNCHANGED <<step, usedTxs, permission, chain>>
  BY DEF Place, Settling
<1> HIDE DEF op, p
<1>5. step[p] \in Steps /\ step' = [step EXCEPT ![p] = step[p]] /\ usedTxs \subseteq onChain
  BY <1>2, <1>4 DEF ShopIInv, PayType
<1>6. op.order = o
  BY DEF op
<1> QED
  BY <1>1, <1>2, <1>3, <1>4, <1>5, <1>6, RequestKept

LEMMA MarkKept ==
  ASSUME ShopIInv, NEW o \in Orders, NEW st \in {"fulfilled", "cancelled"}, MarkOrder(o, st)
  PROVE  ShopIInv'
<1> DEFINE op == [order |-> o, status |-> st, by |-> Unpaid]
           p == Card(o)
<1>1. op \in Op /\ op.by = Unpaid /\ PayFits(Unpaid, o)' /\ Unpaid.tx = NoTx /\ Unpaid.rail # "draw"
  BY NoWriteIs DEF Statuses
<1>2. p \in Pays /\ p.rail = "card"
  BY PayKinds DEF Card
<1>3. Quiet(op)
  BY DEF MarkOrder, Enqueue, Quiet
<1>4. UNCHANGED <<step, usedTxs, permission, chain>>
  BY DEF MarkOrder, Settling
<1> HIDE DEF op, p
<1>5. step[p] \in Steps /\ step' = [step EXCEPT ![p] = step[p]] /\ usedTxs \subseteq onChain
  BY <1>2, <1>4 DEF ShopIInv, PayType
<1>6. op.order = o
  BY DEF op
<1> QED
  BY <1>1, <1>2, <1>3, <1>4, <1>5, <1>6, RequestKept

(* A request that only moves on, outside a draw.                           *)
LEMMA MoveKept ==
  ASSUME ShopIInv, UNCHANGED <<log, usedTxs, permission, chain>>,
         NEW p \in Pays, NEW s \in Steps, step' = [step EXCEPT ![p] = s],
         p.rail = "card" /\ step[p] \in {"flip", "done"} => s \in {"flip", "done"},
         p.rail = "draw" => step[p] = s \/ (step[p] \notin InDraw /\ s \notin InDraw),
         p.rail = "tx" => s \in {step[p], "idle"} \/ p.tx \in onChain
  PROVE  ShopIInv'
<1> DEFINE op == [order |-> p.order, status |-> "pending", by |-> Unpaid]
<1>1. p.order \in Orders
  BY PayKinds
<1>2. /\ op \in Op /\ op.by = Unpaid /\ op.order = p.order /\ PayFits(Unpaid, p.order)'
      /\ Unpaid.tx = NoTx /\ Unpaid.rail # "draw"
  BY <1>1, NoWriteIs DEF Statuses
<1>3. Quiet(op)
  BY DEF log, Quiet
<1>4. usedTxs \subseteq onChain /\ UNCHANGED <<usedTxs, permission, chain>>
  BY DEF ShopIInv, PayType
<1> HIDE DEF op
<1> QED
  BY <1>2, <1>3, <1>4, RequestKept

(* A request that asks for its order's payment to be written down.         *)
LEMMA FlipKept ==
  ASSUME ShopIInv, UNCHANGED <<feed, last, job, acked, torn, permission, chain>>,
         NEW p \in Pays, step' = [step EXCEPT ![p] = "flip"], Flip(p),
         p.rail = "draw" => step[p] \notin InDraw /\ p.order \in settled,
         usedTxs \subseteq usedTxs', usedTxs' \subseteq onChain,
         p.rail = "tx" => p.tx \in onChain /\ p.tx \in usedTxs' \ usedTxs
  PROVE  ShopIInv'
<1> DEFINE op == [order |-> p.order, status |-> "paid", by |-> p]
<1>1. op \in Op /\ op.by = p /\ op.order = p.order
  BY FlipIs
<1>2. Quiet(op)
  BY DEF Flip, Enqueue, Quiet
<1>3. step'[p] = "flip"
  BY DEF ShopIInv, PayType
<1>4. PayFits(p, p.order)'
  <2>1. p.rail = "draw" => drawn[p.order] > 0 /\ drawn' = drawn
    <3>1. p.order \in Orders /\ drawn' = drawn
      BY PayKinds DEF chain
    <3> QED
      BY <3>1 DEF ShopIInv, DrawsFit, DrawFits
  <2> QED
    BY <1>3, <2>1 DEF PayFits
<1>5. p.tx # NoTx => p.tx \notin usedTxs
  BY PayKinds
<1>6. "flip" \in Steps /\ "flip" \notin InDraw
  BY DEF Steps, InDraw
<1> HIDE DEF op
<1> QED
  BY <1>1, <1>2, <1>4, <1>5, <1>6, RequestKept

LEMMA ChargeKept ==
  ASSUME ShopIInv, NEW o \in Orders, Charge(o)
  PROVE  ShopIInv'
<1>1. Card(o) \in Pays /\ Card(o).rail = "card" /\ "charged" \in Steps
  BY PayKinds DEF Card, Steps
<1>2. /\ step[Card(o)] = "idle" /\ step' = [step EXCEPT ![Card(o)] = "charged"]
      /\ UNCHANGED <<log, usedTxs, permission, chain>>
  BY DEF Charge, Settling
<1> QED
  BY <1>1, <1>2, MoveKept

LEMMA PayCryptoKept ==
  ASSUME ShopIInv, NEW o \in Orders, NEW t \in Txs, PayCrypto(o, t)
  PROVE  ShopIInv'
<1>1. /\ Transfer(o, t) \in Pays /\ Transfer(o, t).rail = "tx" /\ Transfer(o, t).tx = t
      /\ "read" \in Steps
  BY PayKinds DEF Transfer, Steps
<1>2. /\ t \in onChain
      /\ step' = [step EXCEPT ![Transfer(o, t)] = "read"]
      /\ UNCHANGED <<log, usedTxs, permission, chain>>
  BY DEF PayCrypto, Settling
<1> QED
  BY <1>1, <1>2, MoveKept

LEMMA PaySpendKept ==
  ASSUME ShopIInv, NEW o \in Orders, PaySpend(o)
  PROVE  ShopIInv'
<1>1. Draw(o) \in Pays /\ Draw(o).rail = "draw" /\ "wait" \in Steps /\ "wait" \notin InDraw
  BY PayKinds DEF Draw, Steps, InDraw
<1>2. /\ step[Draw(o)] \notin InDraw /\ step' = [step EXCEPT ![Draw(o)] = "wait"]
      /\ UNCHANGED <<log, usedTxs, permission, chain>>
  BY DEF PaySpend, Settling, InDraw
<1> QED
  BY <1>1, <1>2, MoveKept

LEMMA WebhookMissesKept ==
  ASSUME ShopIInv, NEW o \in Orders, WebhookMisses(o)
  PROVE  ShopIInv'
<1>1. Card(o) \in Pays /\ Card(o).rail = "card" /\ "done" \in Steps
  BY PayKinds DEF Card, Steps
<1>2. /\ step' = [step EXCEPT ![Card(o)] = "done"]
      /\ UNCHANGED <<log, usedTxs, permission, chain>>
  BY DEF WebhookMisses, Settling
<1> QED
  BY <1>1, <1>2, MoveKept

LEMMA WebhookReadsKept ==
  ASSUME ShopIInv, NEW o \in Orders, WebhookReads(o)
  PROVE  ShopIInv'
<1>1. Card(o) \in Pays /\ Card(o).rail = "card" /\ "done" \in Steps
  BY PayKinds DEF Card, Steps
<1>2. UNCHANGED <<feed, last, job, acked, torn, usedTxs, permission, chain>>
  BY DEF WebhookReads, Settling
<1>3. CASE Status(o) = "pending"
  <2>1. step' = [step EXCEPT ![Card(o)] = "flip"] /\ Flip(Card(o))
    BY <1>3 DEF WebhookReads
  <2>2. usedTxs' = usedTxs /\ usedTxs \subseteq onChain
    BY <1>2 DEF ShopIInv, PayType
  <2> QED
    BY <1>1, <1>2, <2>1, <2>2, FlipKept
<1>4. CASE Status(o) # "pending"
  <2>1. step' = [step EXCEPT ![Card(o)] = "done"] /\ UNCHANGED log
    BY <1>2, <1>4 DEF WebhookReads, log
  <2> QED
    BY <1>1, <1>2, <2>1, MoveKept
<1> QED
  BY <1>3, <1>4

LEMMA TakeTransferKept ==
  ASSUME ShopIInv, NEW o \in Orders, NEW t \in Txs, TakeTransfer(o, t)
  PROVE  ShopIInv'
<1> DEFINE p == Transfer(o, t)
<1>1. p \in Pays /\ p.rail = "tx" /\ p.tx = t /\ "idle" \in Steps
  BY PayKinds DEF Transfer, Steps
<1>2. UNCHANGED <<feed, last, job, acked, torn, permission, chain>>
  BY DEF TakeTransfer
<1>3. CASE Taken(t)
  <2>1. step' = [step EXCEPT ![p] = "idle"] /\ UNCHANGED <<log, usedTxs>>
    BY <1>2, <1>3 DEF TakeTransfer, log
  <2> HIDE DEF p
  <2> QED
    BY <1>1, <1>2, <2>1, MoveKept
<1>4. CASE ~Taken(t)
  <2>1. step' = [step EXCEPT ![p] = "flip"] /\ Flip(p) /\ usedTxs' = usedTxs \union {t}
    BY <1>4 DEF TakeTransfer
  <2>2. t \notin usedTxs /\ usedTxs \subseteq onChain
    BY <1>4 DEF Taken, ShopIInv, PayType
  <2>3. t \in onChain
    <3>1. step[p] = "read"
      BY DEF TakeTransfer
    <3> HIDE DEF p
    <3> QED
      BY <1>1, <3>1 DEF ShopIInv, Offered
  <2> HIDE DEF p
  <2> QED
    BY <1>1, <1>2, <2>1, <2>2, <2>3, FlipKept
<1> QED
  BY <1>3, <1>4

LEMMA OutsideKept ==
  ASSUME ShopIInv, UNCHANGED <<log, step, usedTxs, settled, spent, drawing, drawn, floating, lost>>,
         onChain \subseteq onChain', onChain' \subseteq Txs, revoked' \in BOOLEAN
  PROVE  ShopIInv'
<1>1. UNCHANGED <<feed, last, writes, job, acked, torn>>
  BY DEF log
<1>2. LogType'
  BY <1>1 DEF ShopIInv, LogType, JobType
<1>3. LogFits'
  BY <1>1 DEF ShopIInv, LogFits, Log, Page
<1>4. PayGoesOn
  BY DEF PayGoesOn, ShopIInv, PayType
<1>5. Asked' = Asked /\ Rows' = Rows
  BY <1>1 DEF Asked, Rows
<1>6. PayFits(Unpaid, Unpaid)' /\ Unpaid.tx = NoTx /\ Unpaid \in Names
  BY PayKinds DEF PayFits, Names
<1>7. \A q \in Names, u \in Orders :
        Bill(q, u)' => Bill(q, u) \/ q = Unpaid \/ (q = Unpaid /\ u = Unpaid)
  BY <1>5 DEF Bill
<1> QED
  BY <1>2, <1>3, <1>4, <1>5, <1>6, <1>7, PaysKept

LEMMA SendTransferKept ==
  ASSUME ShopIInv, NEW t \in Txs, SendTransfer(t)
  PROVE  ShopIInv'
<1>1. UNCHANGED <<log, step, usedTxs, settled, spent, revoked, drawing, drawn, floating, lost>>
  BY DEF SendTransfer, permission
<1>2. onChain' = onChain \union {t}
  BY DEF SendTransfer
<1>3. onChain \subseteq Txs /\ revoked \in BOOLEAN
  BY DEF ShopIInv, PayType
<1> QED
  BY <1>1, <1>2, <1>3, OutsideKept

LEMMA RevokeKept ==
  ASSUME ShopIInv, Revoke
  PROVE  ShopIInv'
<1>1. UNCHANGED <<log, step, usedTxs, settled, spent, drawing, onChain, drawn, floating, lost>>
  BY DEF Revoke, chain
<1>2. revoked' \in BOOLEAN
  BY DEF Revoke
<1>3. onChain \subseteq Txs
  BY DEF ShopIInv, PayType
<1> QED
  BY <1>1, <1>2, <1>3, OutsideKept

LEMMA NothingKept ==
  ASSUME ShopIInv, UNCHANGED shopVars
  PROVE  ShopIInv'
<1>1. UNCHANGED <<log, step, usedTxs, settled, spent, revoked, drawing, onChain, drawn, floating, lost>>
  BY DEF shopVars, permission, chain
<1>2. onChain \subseteq Txs /\ revoked \in BOOLEAN
  BY DEF ShopIInv, PayType
<1> QED
  BY <1>1, <1>2, OutsideKept

-----------------------------------------------------------------------------
(* The writes.                                                             *)

(* A step of a write: it names nothing new and at most answers a request.  *)
LEMMA WriteKept ==
  ASSUME ShopIInv, LogType', LogFits', UNCHANGED <<usedTxs, permission, chain>>,
         step' = step \/ \E op \in Asked : Answered(op),
         Asked' \subseteq Asked,
         \A q \in Names, u \in Orders : Bill(q, u)' => Bill(q, u) \/ q = Unpaid
  PROVE  ShopIInv'
<1>1. /\ UNCHANGED <<usedTxs, settled, spent, revoked, drawing, onChain, drawn, floating, lost>>
      /\ PayType
  BY DEF permission, chain, ShopIInv
<1>2. PayGoesOn
  <2>1. CASE step' = step
    BY <1>1, <2>1 DEF PayGoesOn, PayType
  <2>2. CASE \E op \in Asked : Answered(op)
    <3>1. PICK op \in Asked : Answered(op)
      BY <2>2
    <3>2. op \in Op /\ (op.by.rail = "draw" => op.by.order \in settled)
      BY RowTypes DEF ShopIInv, DrawsFit
    <3>3. CASE op.by = Unpaid
      BY <2>1, <3>1, <3>3 DEF Answered
    <3>4. CASE op.by # Unpaid
      <4>1. op.by \in Pays
        BY <3>2, <3>4 DEF Op
      <4>2. PICK p \in Pays : p = op.by
        BY <4>1
      <4>3. PICK s \in {"done", "idle"} : s = IF p.rail = "card" THEN "done" ELSE "idle"
        OBVIOUS
      <4>4. step' = [step EXCEPT ![p] = s] /\ s \in Steps
        BY <3>1, <3>4, <4>2, <4>3 DEF Answered, Steps
      <4>5. /\ step' \in [Pays -> Steps] /\ step'[p] = s
            /\ \A q \in Pays : q # p => step'[q] = step[q]
        BY <1>1, <4>4, StepChange
      <4>6. ASSUME NEW o \in Orders
            PROVE  \/ step'[Draw(o)] = step[Draw(o)]
                   \/ step[Draw(o)] \notin InDraw /\ step'[Draw(o)] \notin InDraw
        <5>1. CASE Draw(o) # p
          BY <4>5, <5>1, PayKinds
        <5>2. CASE Draw(o) = p
          <6>1. p.rail = "draw" /\ p.order = o
            BY <5>2 DEF Draw
          <6>2. o \in settled
            BY <3>2, <4>2, <6>1
          <6>3. step[Draw(o)] \notin InDraw
            BY <6>2 DEF ShopIInv, DrawsFit, DrawFits
          <6>4. s \notin InDraw
            BY DEF InDraw
          <6> QED
            BY <4>5, <5>2, <6>3, <6>4
        <5> QED
          BY <5>1, <5>2
      <4>7. \A q \in Pays : q.rail = "card" /\ step[q] \in {"flip", "done"}
                              => step'[q] \in {"flip", "done"}
        BY <4>3, <4>5
      <4>8. \A q \in Pays : q.rail = "tx" => \/ step'[q] \in {step[q], "idle"}
                                             \/ q.tx \in onChain'
        BY <4>3, <4>5
      <4> QED
        BY <1>1, <4>5, <4>6, <4>7, <4>8 DEF PayGoesOn, PayType
    <3> QED
      BY <3>3, <3>4
  <2> QED
    BY <2>1, <2>2
<1>3. PayFits(Unpaid, Unpaid)' /\ Unpaid.tx = NoTx /\ Unpaid \in Names
  BY PayKinds DEF PayFits, Names
<1>4. \A q \in Names, u \in Orders :
        Bill(q, u)' => Bill(q, u) \/ q = Unpaid \/ (q = Unpaid /\ u = Unpaid)
  OBVIOUS
<1>5. \A op \in Asked' : op \in Asked
  OBVIOUS
<1> QED
  BY <1>2, <1>3, <1>4, <1>5, PaysKept

(* Taking the first write out of the line.                                 *)
LEMMA HeadOfWrites ==
  ASSUME LogType, writes # <<>>
  PROVE  /\ Head(writes) \in Op /\ Head(writes) \in Asked
         /\ Tail(writes) \in Seq(Op) /\ ToSet(Tail(writes)) \subseteq Asked
<1>1. writes \in Seq(Op)
  BY DEF LogType
<1>2. /\ Head(writes) \in Op /\ Tail(writes) \in Seq(Op) /\ Len(Tail(writes)) = Len(writes) - 1
      /\ \A i \in 1..Len(Tail(writes)) : Tail(writes)[i] = writes[i + 1]
  BY <1>1, HeadTailProperties
<1>3. Len(writes) \in Nat \ {0} /\ Head(writes) = writes[1]
  BY <1>1
<1>4. ToSet(writes) = {writes[i] : i \in 1..Len(writes)} /\ ToSet(writes) \subseteq Asked
  BY <1>1, RowsOfSeq DEF Asked
<1>5. Head(writes) \in Asked
  BY <1>3, <1>4
<1>6. ToSet(Tail(writes)) = {Tail(writes)[i] : i \in 1..Len(Tail(writes))}
  BY <1>2, RowsOfSeq
<1>7. ASSUME NEW i \in 1..Len(Tail(writes)) PROVE Tail(writes)[i] \in Asked
  <2>1. i + 1 \in 1..Len(writes)
    BY <1>2, <1>3
  <2> QED
    BY <1>2, <1>4, <2>1
<1> QED
  BY <1>2, <1>5, <1>6, <1>7

LEMMA HeadAnswered ==
  ASSUME ShopIInv, job = NoJob, writes # <<>>, writes' = Tail(writes), Answered(Head(writes)),
         UNCHANGED <<feed, last, job, acked, torn, usedTxs, permission, chain>>
  PROVE  ShopIInv'
<1>1. /\ Head(writes) \in Asked
      /\ Tail(writes) \in Seq(Op) /\ ToSet(Tail(writes)) \subseteq Asked
  BY HeadOfWrites DEF ShopIInv
<1>2. LogType'
  BY <1>1 DEF LogType, JobType, ShopIInv
<1>3. LogFits'
  BY DEF LogFits, Log, Page, ShopIInv
<1>4. Asked' \subseteq Asked
  BY <1>1 DEF Asked
<1>5. Rows' = Rows
  BY DEF Rows
<1>6. \A q \in Names, u \in Orders : Bill(q, u)' => Bill(q, u) \/ q = Unpaid
  BY <1>4, <1>5 DEF Bill
<1> QED
  BY <1>1, <1>2, <1>3, <1>4, <1>6, WriteKept

LEMMA WriteFailsKept ==
  ASSUME ShopIInv, WriteFails
  PROVE  ShopIInv'
<1>1. LogType /\ LogFits /\ UNCHANGED <<feed, last, acked, usedTxs, permission, chain>>
  BY DEF ShopIInv, WriteFails, Settling
<1>2. CASE job # NoJob /\ job' = NoJob /\ torn' = TRUE /\ Answered(job.op) /\ UNCHANGED writes
  <2>1. LogType' /\ LogFits'
    BY <1>1, <1>2 DEF LogType, JobType, LogFits
  <2>2. job.op \in Asked /\ Asked' \subseteq Asked
    BY <1>2 DEF Asked
  <2>3. Rows' \subseteq Rows
    BY <1>1, <1>2 DEF Rows
  <2>4. \A q \in Names, u \in Orders : Bill(q, u)' => Bill(q, u) \/ q = Unpaid
    BY <2>2, <2>3 DEF Bill
  <2> QED
    BY <1>1, <1>2, <2>1, <2>2, <2>4, WriteKept
<1>3. CASE /\ job = NoJob /\ writes # <<>> /\ writes' = Tail(writes)
           /\ Answered(Head(writes)) /\ UNCHANGED <<job, torn>>
  BY <1>1, <1>3, HeadAnswered
<1> QED
  BY <1>2, <1>3 DEF WriteFails

(* One page more on the feed.                                              *)
LEMMA PageWritten ==
  ASSUME LogType, NEW k \in Nat, NEW items \in Seq(Item), WritePage(k, items)
  PROVE  /\ DOMAIN feed' \in SUBSET Nat /\ feed' \in [DOMAIN feed' -> Seq(Item)]
         /\ \A p : Page(p)' = IF p = k THEN items ELSE Page(p)
         /\ \A p \in DOMAIN feed' : ToSet(feed'[p]) \subseteq Rows \union ToSet(items)
<1>1. DOMAIN feed \in SUBSET Nat /\ \A p \in DOMAIN feed : feed[p] \in Seq(Item)
  BY DEF LogType
<1>2. /\ DOMAIN feed' = DOMAIN feed \union {k}
      /\ \A p \in DOMAIN feed' : feed'[p] = IF p = k THEN items ELSE feed[p]
      /\ feed' = [p \in DOMAIN feed' |-> feed'[p]]
  BY DEF WritePage
<1>3. DOMAIN feed' \in SUBSET Nat /\ \A p \in DOMAIN feed' : feed'[p] \in Seq(Item)
  BY <1>1, <1>2
<1>4. feed' \in [DOMAIN feed' -> Seq(Item)]
  BY <1>2, <1>3
<1>5. \A p : Page(p)' = IF p = k THEN items ELSE Page(p)
  BY <1>2 DEF Page
<1>6. \A p \in DOMAIN feed : ToSet(feed[p]) \subseteq Rows
  BY DEF Rows
<1>7. \A p \in DOMAIN feed' : ToSet(feed'[p]) \subseteq Rows \union ToSet(items)
  BY <1>2, <1>6
<1> QED
  BY <1>3, <1>4, <1>5, <1>7

(* When all of its pages are out, the log is what the write made of it.    *)
LEMMA NextLogIs ==
  ASSUME NEW pages \in Seq(Seq(Item)), Len(pages) >= 1, last' = Len(pages) - 1,
         \A p \in 0..last' : Page(p)' = pages[p + 1]
  PROVE  ToSet(Log)' = Paged(pages)
<1> DEFINE n == Len(pages)
<1>1. n \in Nat \ {0} /\ last' + 1 = n /\ DOMAIN pages = 1..n /\ pages \in [1..n -> Seq(Item)]
  OBVIOUS
<1>2. ASSUME NEW p \in 1..last' + 1 PROVE Page(p - 1)' = pages[p]
  <2>1. p - 1 \in 0..last' /\ (p - 1) + 1 = p
    BY <1>1
  <2>2. PICK k \in 0..last' : k = p - 1
    BY <2>1
  <2>3. Page(k)' = pages[k + 1]
    BY <2>2
  <2> QED
    BY <2>1, <2>2, <2>3
<1>3. Log' = FlattenSeq([p \in 1..last' + 1 |-> Page(p - 1)'])
  BY DEF Log
<1>4. [p \in 1..last' + 1 |-> Page(p - 1)'] = pages
  <2>1. [p \in 1..last' + 1 |-> Page(p - 1)'] = [p \in 1..n |-> pages[p]]
    <3> HIDE DEF n
    <3> QED
      BY <1>1, <1>2
  <2> QED
    BY <1>1, <2>1
<1>5. ToSet(FlattenSeq(pages)) = UNION {ToSet(pages[p]) : p \in 1..n}
  <2>1. \A m \in Nat \ {0} : pages \in [1..m -> Seq(Item)] =>
          ToSet(FlattenSeq(pages)) = UNION {ToSet(pages[p]) : p \in 1..m}
    BY FlattenHasAll
  <2> HIDE DEF n
  <2> QED
    BY <1>1, <2>1
<1> HIDE DEF n
<1> QED
  BY <1>1, <1>3, <1>4, <1>5 DEF Paged

LEMMA HasAllOf ==
  ASSUME NEW rows, NEW S, NEW T
  PROVE  /\ HasAll(rows, S \union T) <=> HasAll(rows, S) /\ HasAll(rows, T)
         /\ HasAll(rows, S) <=> \A o \in S : HasAll(rows, {o})
BY DEF HasAll

(* A write that adds the rows of new names no payment but its own.         *)
LEMMA NewRowsBill ==
  ASSUME NEW new, NEW op \in Asked, ToSet(Log) \subseteq Rows,
         \A r \in ToSet(new) : \/ \E q \in ToSet(Log) : r.by = q.by /\ r.id = q.id
                               \/ r.by = op.by /\ r.id = op.order
                               \/ r.by = Unpaid,
         Rows' \subseteq Rows \union ToSet(new), Asked' \subseteq Asked,
         NEW p, NEW o, Bill(p, o)'
  PROVE  Bill(p, o) \/ p = Unpaid
<1>1. CASE \E w \in Asked' : w.by = p /\ w.order = o
  BY <1>1 DEF Bill
<1>2. CASE \E r \in Rows' : r.by = p /\ r.id = o
  <2>1. PICK r \in Rows' : r.by = p /\ r.id = o
    BY <1>2
  <2>2. CASE r \in Rows
    BY <2>1, <2>2 DEF Bill
  <2>3. CASE r \in ToSet(new)
    <3>1. CASE \E q \in ToSet(Log) : r.by = q.by /\ r.id = q.id
      BY <2>1, <3>1 DEF Bill
    <3>2. CASE r.by = op.by /\ r.id = op.order
      BY <2>1, <3>2 DEF Bill
    <3>3. CASE r.by = Unpaid
      BY <2>1, <3>3
    <3> QED
      BY <2>3, <3>1, <3>2, <3>3
  <2> QED
    BY <2>1, <2>2, <2>3
<1> QED
  BY <1>1, <1>2 DEF Bill

LEMMA FirstPageKept ==
  ASSUME ShopIInv, FirstPage
  PROVE  ShopIInv'
<1> DEFINE op == Head(writes)
           new == NewLog(Log, op)
           pages == Split(new)
<1>1. /\ job = NoJob /\ writes # <<>> /\ writes' = Tail(writes)
      /\ UNCHANGED <<torn, usedTxs, permission, chain>>
  BY DEF FirstPage, Settling
<1>2. LogType /\ LogFits
  BY DEF ShopIInv
<1>3. op \in Op /\ op \in Asked /\ Tail(writes) \in Seq(Op) /\ ToSet(Tail(writes)) \subseteq Asked
  BY <1>1, <1>2, HeadOfWrites
<1>4. CASE ~Applies(Log, op) /\ Answered(op) /\ UNCHANGED <<feed, last, job, acked>>
  BY <1>1, <1>4, HeadAnswered
<1>5. CASE /\ Applies(Log, op)
           /\ WritePage(0, pages[1]) /\ last' = Len(pages) - 1
           /\ IF Len(pages) = 1 THEN job' = NoJob /\ Ends(op)
              ELSE /\ job' = [op |-> op, next |-> 1, pages |-> pages]
                   /\ UNCHANGED <<acked, step>>
  <2>1. Log \in Seq(Item) /\ ToSet(Log) \subseteq Rows
    BY <1>2, LogIs
  <2> HIDE DEF op
  <2>2. /\ new \in Seq(Item)
        /\ \A o : HasAll(ToSet(Log), {o}) => HasAll(ToSet(new), {o})
        /\ HasAll(ToSet(new), Acking(op))
        /\ \A r \in ToSet(new) : \/ \E q \in ToSet(Log) : r.by = q.by /\ r.id = q.id
                                 \/ r.by = op.by /\ r.id = op.order
                                 \/ r.by = Unpaid
    BY <1>3, <1>5, <2>1, NewLogIs
  <2> HIDE DEF new
  <2>3. pages \in Seq(Seq(Item)) /\ Len(pages) >= 1 /\ Paged(pages) = ToSet(new)
    BY <2>2, SplitIs
  <2> HIDE DEF pages
  <2>4. Len(pages) \in Nat /\ pages[1] \in Seq(Item) /\ ToSet(pages[1]) \subseteq ToSet(new)
    <3>1. 1 \in 1..Len(pages) /\ Len(pages) \in Nat
      BY <2>3
    <3> QED
      BY <2>3, <3>1, PagedRows
  <2>5. /\ DOMAIN feed' \in SUBSET Nat /\ feed' \in [DOMAIN feed' -> Seq(Item)]
        /\ \A p : Page(p)' = IF p = 0 THEN pages[1] ELSE Page(p)
        /\ \A p \in DOMAIN feed' : ToSet(feed'[p]) \subseteq Rows \union ToSet(new)
    <3>1. WritePage(0, pages[1]) /\ 0 \in Nat
      BY <1>5
    <3> QED
      BY <1>2, <2>4, <3>1, PageWritten
  <2>6. ~torn => HasAll(ToSet(new), acked \union Acking(op))
    <3>1. ~torn => HasAll(ToSet(Log), acked)
      BY <1>1, <1>2 DEF LogFits
    <3> QED
      BY <2>2, <3>1, HasAllOf
  <2>7. last' \in Nat /\ last' + 1 = Len(pages)
    BY <1>5, <2>3, <2>4
  <2>8. op.order \in Orders
    BY <1>3 DEF Op
  <2>9. CASE Len(pages) = 1
    <3>1. job' = NoJob /\ Ends(op)
      BY <1>5, <2>9
    <3>2. acked' = acked \union Acking(op)
      BY <3>1 DEF Ends, Acking
    <3>3. LogType'
      BY <1>1, <1>2, <1>3, <2>5, <2>7, <2>8, <3>1, <3>2 DEF LogType, JobType, Acking
    <3>4. ToSet(Log)' = ToSet(new)
      <4>1. \A p \in 0..last' : Page(p)' = pages[p + 1]
        BY <2>5, <2>7, <2>9
      <4>2. last' = Len(pages) - 1
        BY <1>5
      <4>3. ToSet(Log)' = Paged(pages)
        BY <2>3, <4>1, <4>2, NextLogIs
      <4> QED
        BY <2>3, <4>3
    <3>5. LogFits'
      BY <1>1, <2>6, <3>1, <3>2, <3>4 DEF LogFits
    <3>6. Rows' \subseteq Rows \union ToSet(new) /\ Asked' \subseteq Asked
      BY <1>1, <1>3, <2>5, <3>1 DEF Rows, Asked
    <3>7. Answered(op)
      BY <3>1 DEF Ends
    <3>8. ASSUME NEW q \in Names, NEW u \in Orders, Bill(q, u)'
          PROVE  Bill(q, u) \/ q = Unpaid
      BY <1>3, <2>1, <2>2, <3>6, <3>8, NewRowsBill
    <3> QED
      BY <1>1, <1>3, <3>3, <3>5, <3>6, <3>7, <3>8, WriteKept
  <2>10. CASE Len(pages) # 1
    <3>1. job' = [op |-> op, next |-> 1, pages |-> pages] /\ UNCHANGED <<acked, step>>
      BY <1>5, <2>10
    <3>2. job' \in Job /\ job'.op = op /\ job'.next = 1 /\ job'.pages = pages /\ job' # NoJob
      <4>1. job' \in Job
        BY <1>3, <2>3, <3>1 DEF Job
      <4> QED
        BY <3>1, <4>1, ShopAssumption
    <3>3. LogType'
      <4>1. job'.next < Len(job'.pages)
        <5>1. 1 < Len(pages)
          <6>1. PICK n \in Nat : n = Len(pages)
            BY <2>4
          <6>2. n >= 1 /\ n # 1
            BY <2>3, <2>10, <6>1
          <6>3. 1 < n
            BY <6>2
          <6> QED
            BY <6>1, <6>3
        <5>2. Len(job'.pages) = Len(pages)
          BY <3>2
        <5>3. job'.next = 1
          BY <3>2
        <5> QED
          BY <5>1, <5>2, <5>3
      <4> QED
        BY <1>1, <1>2, <1>3, <2>5, <2>7, <3>1, <3>2, <4>1 DEF LogType, JobType
    <3>4. LogFits'
      <4>1. \A p \in 0..(job'.next - 1) : Page(p)' = job'.pages[p + 1]
        BY <2>5, <3>2
      <4>2. HasAll(Paged(job'.pages), acked' \union Acking(job'.op)) \/ torn'
        BY <1>1, <2>3, <2>6, <3>1, <3>2
      <4> QED
        BY <2>7, <3>2, <4>1, <4>2 DEF LogFits
    <3>5. Rows' \subseteq Rows \union ToSet(new) /\ Asked' \subseteq Asked
      BY <1>1, <1>3, <2>3, <2>5, <3>2 DEF Rows, Asked
    <3>6. ASSUME NEW q \in Names, NEW u \in Orders, Bill(q, u)'
          PROVE  Bill(q, u) \/ q = Unpaid
      BY <1>3, <2>1, <2>2, <3>5, <3>6, NewRowsBill
    <3> QED
      BY <1>1, <3>1, <3>3, <3>4, <3>5, <3>6, WriteKept
  <2> QED
    BY <2>9, <2>10
<1> QED
  BY <1>4, <1>5 DEF FirstPage, StrictReads

LEMMA NextPageKept ==
  ASSUME ShopIInv, NextPage
  PROVE  ShopIInv'
<1> DEFINE k == job.next
           pages == job.pages
           items == pages[k + 1]
<1>1. /\ job # NoJob /\ WritePage(k, items)
      /\ UNCHANGED <<last, writes, torn, usedTxs, permission, chain>>
  BY DEF NextPage, Settling
<1>2. LogType /\ LogFits
  BY DEF ShopIInv
<1>3. job \in Job /\ job.op \in Op /\ k \in Nat \ {0} /\ pages \in Seq(Seq(Item)) /\ k < Len(pages)
  BY <1>1, <1>2 DEF LogType, JobType, Job
<1>4. job.op \in Asked /\ Paged(pages) \subseteq Rows
  BY <1>1 DEF Asked, Rows
<1> HIDE DEF pages, k
<1>5. Len(pages) \in Nat /\ items \in Seq(Item) /\ ToSet(items) \subseteq Paged(pages)
  <2>1. k + 1 \in 1..Len(pages) /\ Len(pages) \in Nat
    BY <1>3
  <2> QED
    BY <1>3, <2>1, PagedRows
<1> HIDE DEF items
<1>6. /\ DOMAIN feed' \in SUBSET Nat /\ feed' \in [DOMAIN feed' -> Seq(Item)]
      /\ \A p : Page(p)' = IF p = k THEN items ELSE Page(p)
      /\ \A p \in DOMAIN feed' : ToSet(feed'[p]) \subseteq Rows
  <2>1. k \in Nat
    BY <1>3
  <2> QED
    BY <1>1, <1>2, <1>4, <1>5, <2>1, PageWritten
<1>7. ~torn => /\ last + 1 = Len(pages)
               /\ \A p \in 0..(k - 1) : Page(p) = pages[p + 1]
               /\ HasAll(Paged(pages), acked \union Acking(job.op))
  BY <1>1, <1>2 DEF LogFits, pages, k
<1>8. ~torn => \A p \in 0..k : Page(p)' = pages[p + 1]
  <2> SUFFICES ASSUME ~torn, NEW p \in 0..k PROVE Page(p)' = pages[p + 1]
    OBVIOUS
  <2>1. CASE p = k
    BY <1>6, <2>1 DEF items
  <2>2. CASE p # k
    <3>1. p \in 0..(k - 1)
      BY <1>3, <2>2
    <3> QED
      BY <1>6, <1>7, <2>2, <3>1
  <2> QED
    BY <2>1, <2>2
<1>9. CASE k + 1 < Len(pages)
  <2>1. job' = [job EXCEPT !.next = @ + 1] /\ UNCHANGED <<acked, step>>
    BY <1>9 DEF NextPage, k, pages
  <2>2. /\ job' \in Job /\ job'.op = job.op /\ job'.next = k + 1 /\ job'.pages = pages
        /\ job' # NoJob
    <3>1. PICK j \in Job : j = job
      BY <1>3
    <3>2. j \in [op: Op, next: Nat \ {0}, pages: Seq(Seq(Item))]
      BY DEF Job
    <3>3. PICK m \in Nat \ {0} : m = j.next + 1
      BY <3>2
    <3> DEFINE i == [j EXCEPT !.next = m]
    <3>4. i \in [op: Op, next: Nat \ {0}, pages: Seq(Seq(Item))]
      BY <3>2
    <3>5. i.op = j.op /\ i.next = m /\ i.pages = j.pages
      BY <3>2
    <3>6. job' = i
      BY <2>1, <3>1, <3>3
    <3>7. i \in Job
      BY <3>4 DEF Job
    <3> HIDE DEF i
    <3> QED
      BY <3>1, <3>3, <3>5, <3>6, <3>7, ShopAssumption DEF k, pages
  <2>3. LogType'
    BY <1>1, <1>2, <1>6, <1>9, <2>1, <2>2 DEF LogType, JobType
  <2>4. LogFits'
    <3>1. torn \/ \A p \in 0..(job'.next - 1) : Page(p)' = job'.pages[p + 1]
      BY <1>3, <1>8, <2>2
    <3> QED
      BY <1>1, <1>7, <2>1, <2>2, <3>1 DEF LogFits
  <2>5. Rows' \subseteq Rows /\ Asked' \subseteq Asked
    BY <1>1, <1>4, <1>6, <2>2 DEF Rows, Asked
  <2>6. \A q \in Names, u \in Orders : Bill(q, u)' => Bill(q, u) \/ q = Unpaid
    BY <2>5 DEF Bill
  <2> QED
    BY <1>1, <2>1, <2>3, <2>4, <2>5, <2>6, WriteKept
<1>10. CASE ~(k + 1 < Len(pages))
  <2>1. job' = NoJob /\ Ends(job.op)
    BY <1>10 DEF NextPage, k, pages
  <2>2. acked' = acked \union Acking(job.op) /\ Answered(job.op)
    BY <2>1 DEF Ends, Acking
  <2>3. LogType'
    <3>1. Acking(job.op) \subseteq Orders
      BY <1>3 DEF Acking, Op
    <3> QED
      BY <1>1, <1>2, <1>6, <2>1, <2>2, <3>1 DEF LogType, JobType
  <2>4. ~torn => ToSet(Log)' = Paged(pages)
    <3>1. SUFFICES ASSUME ~torn PROVE ToSet(Log)' = Paged(pages)
      OBVIOUS
    <3>2. k + 1 = Len(pages) /\ last' = Len(pages) - 1 /\ last' = k /\ Len(pages) >= 1
      <4>1. last \in Nat /\ last' = last
        BY <1>1, <1>2 DEF LogType
      <4> QED
        BY <1>3, <1>5, <1>7, <1>10, <3>1, <4>1
    <3> QED
      BY <1>3, <1>8, <3>1, <3>2, NextLogIs
  <2>5. LogFits'
    BY <1>1, <1>7, <2>1, <2>2, <2>4 DEF LogFits
  <2>6. Rows' \subseteq Rows /\ Asked' \subseteq Asked
    BY <1>1, <1>6, <2>1 DEF Rows, Asked
  <2>7. \A q \in Names, u \in Orders : Bill(q, u)' => Bill(q, u) \/ q = Unpaid
    BY <2>6 DEF Bill
  <2> QED
    BY <1>1, <1>4, <2>2, <2>3, <2>5, <2>6, <2>7, WriteKept
<1> QED
  BY <1>9, <1>10

-----------------------------------------------------------------------------
(* The draws.                                                              *)

LEMMA CountSame ==
  ASSUME UNCHANGED <<settled, spent>>, DrawsFit
  PROVE  Count(settled)' = spent'
BY DEF DrawsFit, Count

(* One more order is settled.                                              *)
LEMMA CountMore ==
  ASSUME NEW S \in SUBSET Orders, NEW o \in Orders \ S
  PROVE  Count(S \union {o}) = Count(S) + 1
<1> DEFINE f == [u \in Orders |-> IF u \in S THEN 1 ELSE 0]
           g == [u \in Orders |-> IF u \in S \union {o} THEN 1 ELSE 0]
<1>1. \A u \in Orders : f[u] \in Int /\ g[u] \in Int /\ (u # o => f[u] = g[u])
  OBVIOUS
<1>2. f[o] = 0 /\ g[o] = 1
  OBVIOUS
<1>3. Count(S) = SumFunctionOnSet(f, Orders) /\ Count(S \union {o}) = SumFunctionOnSet(g, Orders)
  BY DEF Count
<1> HIDE DEF f, g
<1>4. SumFunctionOnSet(g, Orders) = SumFunctionOnSet(f, Orders) + g[o] - f[o]
  BY <1>1, ShopAssumption, SumChanges
<1>5. SumFunctionOnSet(f, Orders) \in Int
  BY <1>1, ShopAssumption, SumIsInt
<1> QED
  BY <1>2, <1>3, <1>4, <1>5

(* A step of the draw for o, when no other draw is under way, or that is   *)
(* nothing to them.                                                        *)
LEMMA DrawKept ==
  ASSUME ShopIInv, NEW op \in Op, Quiet(op), UNCHANGED <<usedTxs, onChain>>,
         NEW o \in Orders,
         step[Draw(o)] \in InDraw \/ drawing = NoOrder \/ UNCHANGED <<drawing, spent>>,
         NEW s \in Steps, step' = [step EXCEPT ![Draw(o)] = s],
         PayType', DrawFits(o)', settled \subseteq settled', settled' \subseteq settled \union {o},
         \A u \in Orders : u # o => /\ drawn'[u] = drawn[u] /\ floating'[u] = floating[u]
                                    /\ lost'[u] = lost[u],
         drawn'[o] >= drawn[o], Count(settled)' = spent',
         PayFits(op.by, op.order)', op.by.tx = NoTx,
         op.by.rail = "draw" => op.by.order \in settled'
  PROVE  ShopIInv'
<1>1. LogType /\ PayType /\ LogFits /\ Offered /\ NamesFit /\ DrawsFit
  BY DEF ShopIInv
<1>2. Draw(o) \in Pays /\ Draw(o).rail = "draw"
  BY PayKinds DEF Draw
<1>3. /\ step' \in [Pays -> Steps] /\ step'[Draw(o)] = s
      /\ \A q \in Pays : q # Draw(o) => step'[q] = step[q]
  BY <1>1, <1>2, StepChange
<1>4. /\ LogType' /\ LogFits'
      /\ \A a \in Asked' : a \in Asked \/ a = op
      /\ \A q \in Names, u \in Orders : Bill(q, u)' => Bill(q, u) \/ (q = op.by /\ u = op.order)
  BY <1>1, QuietStep
<1>5. ASSUME NEW u \in Orders, u # o
      PROVE  DrawFits(u)' /\ (drawn[u] > 0 => drawn'[u] > 0)
  <2>1. Draw(u) \in Pays /\ Draw(u) # Draw(o)
    <3>1. Draw(u).order = u /\ Draw(o).order = o
      BY DEF Draw
    <3> QED
      BY <1>5, <3>1, PayKinds
  <2>2. step'[Draw(u)] = step[Draw(u)]
    BY <1>3, <2>1
  <2>3. step[Draw(u)] \in InDraw => UNCHANGED <<drawing, spent>>
    <3>1. step[Draw(u)] \in InDraw => drawing = u
      BY <1>1 DEF DrawsFit, DrawFits
    <3>2. step[Draw(o)] \in InDraw => drawing = o
      BY <1>1 DEF DrawsFit, DrawFits
    <3>3. u # NoOrder
      BY ShopAssumption
    <3> QED
      BY <1>5, <3>1, <3>2, <3>3
  <2>4. (u \in settled') = (u \in settled)
    BY <1>5
  <2>5. Known(u)' = Known(u) /\ drawn'[u] = drawn[u]
    BY <1>5 DEF Known
  <2>6. DrawFits(u)
    BY <1>1 DEF DrawsFit
  <2> QED
    BY <2>2, <2>3, <2>4, <2>5, <2>6 DEF DrawFits
<1>6. ASSUME drawn[o] > 0 PROVE drawn'[o] > 0
  <2>1. drawn[o] \in Nat /\ drawn'[o] \in Nat
    BY <1>1 DEF PayType
  <2> QED
    BY <1>6, <2>1
<1>7. Onward
  <2>1. \A p \in Pays : p.rail = "card" => step'[p] = step[p]
    BY <1>2, <1>3
  <2> QED
    BY <1>5, <1>6, <2>1 DEF Onward
<1>8. NamesFit'
  <2>1. op.by \in Names
    BY DEF Op, Names
  <2>2. PICK b : b = op.by
    OBVIOUS
  <2>3. PICK v : v = op.order
    OBVIOUS
  <2>4. b \in Names /\ PayFits(b, v)' /\ (b.tx # NoTx => b.tx \notin usedTxs)
    BY <2>1, <2>2, <2>3
  <2>5. \A q \in Names, u \in Orders : Bill(q, u)' => Bill(q, u) \/ q = Unpaid \/ (q = b /\ u = v)
    BY <1>4, <2>2, <2>3
  <2> QED
    BY <1>1, <1>7, <2>4, <2>5, NamesKept
<1>9. DrawsFit'
  <2>1. \A u \in Orders : DrawFits(u)'
    BY <1>5
  <2>2. \A a \in Asked' : a.by.rail = "draw" => a.by.order \in settled'
    BY <1>1, <1>4 DEF DrawsFit
  <2> QED
    BY <2>1, <2>2 DEF DrawsFit
<1>10. Offered'
  BY <1>1, <1>2, <1>3 DEF Offered
<1> QED
  BY <1>4, <1>8, <1>9, <1>10 DEF ShopIInv

LEMMA DrawCheckKept ==
  ASSUME ShopIInv, NEW o \in Orders, DrawCheck(o)
  PROVE  ShopIInv'
<1> DEFINE p == Draw(o)
<1>1. p \in Pays /\ p.rail = "draw" /\ p.order = o /\ p.tx = NoTx
  BY PayKinds DEF Draw
<1>2. /\ step[p] = "wait" /\ PermissionFree
      /\ UNCHANGED <<feed, last, job, acked, torn, usedTxs, settled, spent, revoked, chain>>
  BY DEF DrawCheck
<1>3. PayType /\ DrawFits(o) /\ usedTxs \subseteq onChain
  BY DEF ShopIInv, DrawsFit, PayType
<1>4. CASE o \in settled
  <2>1. step' = [step EXCEPT ![p] = "flip"] /\ Flip(p) /\ UNCHANGED permission
    BY <1>2, <1>4 DEF DrawCheck, permission
  <2>2. step[p] \notin InDraw
    BY <1>2 DEF InDraw
  <2> HIDE DEF p
  <2> QED
    BY <1>1, <1>2, <1>3, <1>4, <2>1, <2>2, FlipKept
<1>5. CASE o \notin settled /\ ~Allowed
  <2>1. step' = [step EXCEPT ![p] = "idle"] /\ UNCHANGED <<log, usedTxs, permission, chain>>
    BY <1>2, <1>5 DEF DrawCheck, permission, log
  <2>2. step[p] \notin InDraw /\ "idle" \notin InDraw /\ "idle" \in Steps
    BY <1>2 DEF InDraw, Steps
  <2> HIDE DEF p
  <2> QED
    BY <1>1, <2>1, <2>2, MoveKept
<1>6. CASE o \notin settled /\ Allowed
  <2> DEFINE op == [order |-> o, status |-> "pending", by |-> Unpaid]
  <2>1. step' = [step EXCEPT ![p] = "checked"] /\ drawing' = o /\ writes' = writes
    BY <1>6 DEF DrawCheck
  <2>2. /\ op \in Op /\ op.by = Unpaid /\ op.order = o /\ PayFits(Unpaid, o)'
        /\ Unpaid.tx = NoTx /\ Unpaid.rail # "draw"
    BY NoWriteIs DEF Statuses
  <2>3. Quiet(op)
    BY <1>2, <2>1 DEF Quiet
  <2>4. "checked" \in Steps /\ drawing = NoOrder
    BY <1>2 DEF Steps, PermissionFree
  <2>5. /\ UNCHANGED <<usedTxs, onChain, settled, spent, revoked, drawn, floating, lost>>
        /\ step' \in [Pays -> Steps] /\ step'[p] = "checked"
    BY <1>1, <1>2, <1>3, <2>1, <2>4, StepChange DEF chain
  <2>6. PayType'
    BY <1>3, <2>1, <2>5 DEF PayType
  <2>7. DrawFits(o)'
    <3>1. Known(o)' = Known(o)
      BY <2>5 DEF Known
    <3>2. spent + 1 <= Cap
      BY <1>6 DEF Allowed
    <3> QED
      BY <1>2, <1>3, <1>6, <2>1, <2>5, <3>1, <3>2 DEF DrawFits
  <2>8. Count(settled)' = spent'
    BY <2>5, CountSame DEF ShopIInv
  <2>9. drawn'[o] >= drawn[o]
    BY <1>3, <2>5 DEF PayType
  <2> HIDE DEF op
  <2>10. UNCHANGED <<usedTxs, onChain>> /\ settled \subseteq settled' /\ settled' \subseteq settled \union {o}
    BY <2>5
  <2>11. \A u \in Orders : u # o => /\ drawn'[u] = drawn[u] /\ floating'[u] = floating[u]
                                    /\ lost'[u] = lost[u]
    BY <2>5
  <2> QED
    BY <2>1, <2>2, <2>3, <2>4, <2>6, <2>7, <2>8, <2>9, <2>10, <2>11, DrawKept
<1> QED
  BY <1>4, <1>5, <1>6

LEMMA DrawSendKept ==
  ASSUME ShopIInv, NEW o \in Orders, DrawSend(o)
  PROVE  ShopIInv'
<1> DEFINE p == Draw(o)
           op == [order |-> o, status |-> "pending", by |-> Unpaid]
<1>1. p \in Pays
  BY PayKinds
<1>2. /\ step[p] = "checked" /\ step' = [step EXCEPT ![p] = "sent"]
      /\ UNCHANGED <<feed, last, writes, job, acked, torn, usedTxs, settled, spent, revoked,
                     drawing, onChain, drawn, floating, lost>>
  BY DEF DrawSend, Settling, log, permission, chain
<1>3. PayType /\ DrawFits(o)
  BY DEF ShopIInv, DrawsFit
<1>4. "sent" \in Steps /\ step[p] \in InDraw
  BY <1>2 DEF Steps, InDraw
<1>5. step' \in [Pays -> Steps] /\ step'[p] = "sent"
  BY <1>1, <1>2, <1>3, <1>4, StepChange
<1>6. PayType'
  BY <1>2, <1>3, <1>5 DEF PayType
<1>7. DrawFits(o)'
  <2>1. Known(o)' = Known(o)
    BY <1>2 DEF Known
  <2> QED
    BY <1>2, <1>3, <1>4, <1>5, <2>1 DEF DrawFits
<1>8. Count(settled)' = spent'
  BY <1>2, CountSame DEF ShopIInv
<1>9. /\ op \in Op /\ op.by = Unpaid /\ op.order = o /\ PayFits(Unpaid, o)'
      /\ Unpaid.tx = NoTx /\ Unpaid.rail # "draw"
  BY NoWriteIs DEF Statuses
<1>10. Quiet(op)
  BY <1>2 DEF Quiet
<1>11. drawn'[o] >= drawn[o]
  BY <1>2, <1>3 DEF PayType
<1>12. \A u \in Orders : u # o => /\ drawn'[u] = drawn[u] /\ floating'[u] = floating[u]
                                  /\ lost'[u] = lost[u]
  BY <1>2
<1>13. UNCHANGED <<usedTxs, onChain>> /\ settled \subseteq settled' /\ settled' \subseteq settled \union {o}
  BY <1>2
<1> HIDE DEF op
<1> QED
  BY <1>2, <1>4, <1>6, <1>7, <1>8, <1>9, <1>10, <1>11, <1>12, <1>13, DrawKept

LEMMA DrawExecutesKept ==
  ASSUME ShopIInv, NEW o \in Orders, DrawExecutes(o)
  PROVE  ShopIInv'
<1> DEFINE p == Draw(o)
           op == [order |-> o, status |-> "pending", by |-> Unpaid]
<1>1. p \in Pays
  BY PayKinds
<1>2. /\ drawn' = [drawn EXCEPT ![o] = @ + 1]
      /\ UNCHANGED <<feed, last, writes, job, acked, torn, usedTxs, settled, spent, revoked,
                     drawing, onChain, lost>>
  BY DEF DrawExecutes, log, permission
<1>3. PayType /\ DrawFits(o) /\ drawn[o] \in Nat /\ floating[o] \in Nat /\ lost[o] \in Nat
  BY DEF ShopIInv, DrawsFit, PayType
<1>4. /\ drawn' \in [Orders -> Nat] /\ drawn'[o] = drawn[o] + 1
      /\ \A u \in Orders : u # o => drawn'[u] = drawn[u]
  BY <1>2, <1>3 DEF PayType
<1>5. PICK s \in Steps :
        /\ step' = [step EXCEPT ![p] = s]
        /\ \/ /\ step[p] = "sent" /\ s = "mined" /\ UNCHANGED floating
           \/ /\ floating[o] > 0 /\ s = step[p] /\ floating' = [floating EXCEPT ![o] = @ - 1]
  <2>1. CASE /\ step[p] = "sent" /\ step' = [step EXCEPT ![p] = "mined"] /\ UNCHANGED floating
    <3>1. "mined" \in Steps
      BY DEF Steps
    <3> QED
      BY <2>1, <3>1
  <2>2. CASE floating[o] > 0 /\ floating' = [floating EXCEPT ![o] = @ - 1] /\ UNCHANGED step
    <3>1. step[p] \in Steps /\ step = [step EXCEPT ![p] = step[p]]
      BY <1>1, <1>3 DEF PayType
    <3> QED
      BY <2>2, <3>1
  <2> QED
    BY <2>1, <2>2 DEF DrawExecutes
<1>6. step' \in [Pays -> Steps] /\ step'[p] = s
  BY <1>1, <1>3, <1>5, StepChange
<1>7. /\ floating' \in [Orders -> Nat]
      /\ \A u \in Orders : u # o => floating'[u] = floating[u]
      /\ floating'[o] = IF step[p] = "sent" /\ s = "mined" THEN floating[o] ELSE floating[o] - 1
  <2>1. CASE step[p] = "sent" /\ s = "mined" /\ UNCHANGED floating
    BY <1>3, <2>1 DEF PayType
  <2>2. CASE /\ floating[o] > 0 /\ s = step[p]
             /\ floating' = [floating EXCEPT ![o] = @ - 1]
    <3>1. floating[o] - 1 \in Nat
      BY <1>3, <2>2
    <3>2. ~(step[p] = "sent" /\ s = "mined")
      BY <2>2
    <3> QED
      BY <1>3, <2>2, <3>1, <3>2 DEF PayType
  <2> QED
    BY <1>5, <2>1, <2>2
<1>8. PayType'
  BY <1>2, <1>3, <1>4, <1>6, <1>7 DEF PayType
<1>9. DrawFits(o)'
  <2>1. CASE step[p] = "sent" /\ s = "mined"
    <3>1. o \notin settled /\ drawing = o /\ spent + 1 <= Cap
      BY <1>3, <2>1 DEF DrawFits, InDraw
    <3>2. drawn[o] + floating[o] - lost[o] = 0
      BY <1>3, <2>1, <3>1 DEF DrawFits, Known
    <3>3. drawn'[o] + floating'[o] - lost'[o] = 1 /\ drawn'[o] > 0
      BY <1>2, <1>3, <1>4, <1>7, <2>1, <3>2
    <3> QED
      BY <1>2, <1>6, <2>1, <3>1, <3>3 DEF DrawFits, Known
  <2>2. CASE ~(step[p] = "sent" /\ s = "mined")
    <3>1. s = step[p] /\ floating'[o] = floating[o] - 1
      BY <1>5, <1>7, <2>2
    <3>2. drawn'[o] + floating'[o] - lost'[o] = drawn[o] + floating[o] - lost[o] /\ drawn'[o] > 0
      BY <1>2, <1>3, <1>4, <3>1
    <3>3. Known(o)' = Known(o)
      BY <3>2 DEF Known
    <3> QED
      BY <1>2, <1>3, <1>6, <3>1, <3>2, <3>3 DEF DrawFits
  <2> QED
    BY <2>1, <2>2
<1>10. Count(settled)' = spent'
  BY <1>2, CountSame DEF ShopIInv
<1>11. /\ op \in Op /\ op.by = Unpaid /\ op.order = o /\ PayFits(Unpaid, o)'
       /\ Unpaid.tx = NoTx /\ Unpaid.rail # "draw"
  BY NoWriteIs DEF Statuses
<1>12. Quiet(op)
  BY <1>2 DEF Quiet
<1>13. drawn'[o] >= drawn[o]
  BY <1>3, <1>4
<1>14. \A u \in Orders : u # o => /\ drawn'[u] = drawn[u] /\ floating'[u] = floating[u]
                                  /\ lost'[u] = lost[u]
  BY <1>2, <1>4, <1>7
<1>15. /\ UNCHANGED <<usedTxs, onChain, drawing, spent>>
       /\ settled \subseteq settled' /\ settled' \subseteq settled \union {o}
  BY <1>2
<1> HIDE DEF op
<1> QED
  BY <1>5, <1>8, <1>9, <1>10, <1>11, <1>12, <1>13, <1>14, <1>15, DrawKept

LEMMA DrawRecordKept ==
  ASSUME ShopIInv, NEW o \in Orders, DrawRecord(o)
  PROVE  ShopIInv'
<1> DEFINE p == Draw(o)
           op == [order |-> p.order, status |-> "paid", by |-> p]
<1>1. p \in Pays /\ p.order = o /\ p.rail = "draw" /\ p.tx = NoTx
  BY PayKinds DEF Draw
<1>2. /\ step[p] = "mined" /\ step' = [step EXCEPT ![p] = "flip"]
      /\ settled' = settled \union {o} /\ spent' = spent + 1 /\ drawing' = NoOrder
      /\ Flip(p)
      /\ UNCHANGED <<feed, last, job, acked, torn, usedTxs, revoked, onChain, drawn, floating, lost>>
  BY DEF DrawRecord, chain
<1>3. PayType /\ DrawFits(o)
  BY DEF ShopIInv, DrawsFit
<1>4. "flip" \in Steps /\ step[p] \in InDraw /\ "flip" \notin InDraw
  BY <1>2 DEF Steps, InDraw
<1>5. step' \in [Pays -> Steps] /\ step'[p] = "flip"
  BY <1>1, <1>2, <1>3, <1>4, StepChange
<1>6. o \notin settled /\ spent + 1 <= Cap /\ Known(o) = 1 /\ drawn[o] > 0
  BY <1>2, <1>3, <1>4 DEF DrawFits
<1>7. PayType'
  <2>1. spent \in Nat /\ Cap \in Nat /\ spent' \in 0..Cap
    BY <1>2, <1>3, <1>6, ShopAssumption DEF PayType
  <2> QED
    BY <1>2, <1>3, <1>5, <2>1 DEF PayType
<1>8. DrawFits(o)'
  <2>1. Known(o)' = Known(o)
    BY <1>2 DEF Known
  <2>2. o \in settled' /\ step'[Draw(o)] \notin InDraw
    BY <1>2, <1>4, <1>5
  <2> QED
    BY <1>2, <1>6, <2>1, <2>2 DEF DrawFits
<1>9. Count(settled)' = spent'
  <2>1. settled \in SUBSET Orders /\ o \in Orders \ settled
    BY <1>3, <1>6 DEF PayType
  <2>2. Count(settled \union {o}) = Count(settled) + 1
    BY <2>1, CountMore
  <2>3. Count(settled)' = Count(settled \union {o})
    BY <1>2 DEF Count
  <2>4. Count(settled) = spent
    BY DEF ShopIInv, DrawsFit
  <2> QED
    BY <1>2, <2>2, <2>3, <2>4
<1>10. op \in Op /\ op.by = p /\ op.order = o
  BY <1>1, FlipIs
<1>11. Quiet(op)
  BY <1>2 DEF Flip, Enqueue, Quiet
<1>12. PayFits(p, o)'
  BY <1>1, <1>2, <1>6 DEF PayFits
<1>13. drawn'[o] >= drawn[o]
  BY <1>2, <1>3 DEF PayType
<1>14. \A u \in Orders : u # o => /\ drawn'[u] = drawn[u] /\ floating'[u] = floating[u]
                                  /\ lost'[u] = lost[u]
  BY <1>2
<1>15. /\ UNCHANGED <<usedTxs, onChain>> /\ o \in settled'
       /\ settled \subseteq settled' /\ settled' \subseteq settled \union {o}
  BY <1>2
<1> HIDE DEF op
<1>16. PayFits(op.by, op.order)' /\ op.by.tx = NoTx /\ (op.by.rail = "draw" => op.by.order \in settled')
  BY <1>1, <1>10, <1>12, <1>15
<1> QED
  BY <1>2, <1>4, <1>7, <1>8, <1>9, <1>10, <1>11, <1>13, <1>14, <1>15, <1>16, DrawKept

LEMMA DrawGivesUpKept ==
  ASSUME ShopIInv, NEW o \in Orders, DrawGivesUp(o)
  PROVE  ShopIInv'
<1> DEFINE p == Draw(o)
           op == [order |-> o, status |-> "pending", by |-> Unpaid]
<1>1. p \in Pays
  BY PayKinds
<1>2. /\ step[p] \in InDraw /\ step' = [step EXCEPT ![p] = "idle"] /\ drawing' = NoOrder
      /\ floating' = [floating EXCEPT ![o] = @ + (IF step[p] = "sent" THEN 1 ELSE 0)]
      /\ lost' = [lost EXCEPT ![o] = @ + (IF step[p] = "checked" THEN 0 ELSE 1)]
      /\ UNCHANGED <<feed, last, writes, job, acked, torn, usedTxs, settled, spent, revoked,
                     onChain, drawn>>
  BY DEF DrawGivesUp, log, InDraw
<1>3. /\ PayType /\ DrawFits(o) /\ drawn[o] \in Nat /\ floating[o] \in Nat /\ lost[o] \in Nat
      /\ floating \in [Orders -> Nat] /\ lost \in [Orders -> Nat]
  BY DEF ShopIInv, DrawsFit, PayType
<1>4. "idle" \in Steps /\ "idle" \notin InDraw
  BY DEF Steps, InDraw
<1>5. step' \in [Pays -> Steps] /\ step'[p] = "idle"
  BY <1>1, <1>2, <1>3, <1>4, StepChange
<1>6. PICK a \in {0, 1} : a = IF step[p] = "sent" THEN 1 ELSE 0
  OBVIOUS
<1>7. PICK b \in {0, 1} : b = IF step[p] = "checked" THEN 0 ELSE 1
  OBVIOUS
<1>8. floating' = [floating EXCEPT ![o] = @ + a] /\ lost' = [lost EXCEPT ![o] = @ + b]
  BY <1>2, <1>6, <1>7
<1>9. /\ floating' \in [Orders -> Nat] /\ floating'[o] = floating[o] + a
      /\ lost' \in [Orders -> Nat] /\ lost'[o] = lost[o] + b
      /\ \A u \in Orders : u # o => floating'[u] = floating[u] /\ lost'[u] = lost[u]
  BY <1>3, <1>8
<1>10. PayType'
  BY <1>2, <1>3, <1>5, <1>9 DEF PayType
<1>11. DrawFits(o)'
  <2>1. o \notin settled
    BY <1>2, <1>3 DEF DrawFits
  <2>2. drawn[o] + floating[o] - lost[o] = IF step[p] = "mined" THEN 1 ELSE 0
    BY <1>3, <2>1 DEF DrawFits, Known
  <2>3. b - a = IF step[p] = "mined" THEN 1 ELSE 0
    BY <1>2, <1>6, <1>7 DEF InDraw
  <2>4. drawn'[o] + floating'[o] - lost'[o] = 0
    BY <1>2, <1>3, <1>9, <2>2, <2>3
  <2> QED
    BY <1>2, <1>4, <1>5, <2>1, <2>4 DEF DrawFits, Known, InDraw
<1>12. Count(settled)' = spent'
  BY <1>2, CountSame DEF ShopIInv
<1>13. /\ op \in Op /\ op.by = Unpaid /\ op.order = o /\ PayFits(Unpaid, o)'
       /\ Unpaid.tx = NoTx /\ Unpaid.rail # "draw"
  BY NoWriteIs DEF Statuses
<1>14. Quiet(op)
  BY <1>2 DEF Quiet
<1>15. drawn'[o] >= drawn[o]
  BY <1>2, <1>3
<1>16. \A u \in Orders : u # o => /\ drawn'[u] = drawn[u] /\ floating'[u] = floating[u]
                                  /\ lost'[u] = lost[u]
  BY <1>2, <1>9
<1>17. UNCHANGED <<usedTxs, onChain>> /\ settled \subseteq settled' /\ settled' \subseteq settled \union {o}
  BY <1>2
<1> HIDE DEF op
<1> QED
  BY <1>2, <1>4, <1>10, <1>11, <1>12, <1>13, <1>14, <1>15, <1>16, <1>17, DrawKept

(* A restart: the draws under way are lost.                                *)
LEMMA RestartKept ==
  ASSUME ShopIInv, Restart
  PROVE  ShopIInv'
<1>1. /\ writes' = <<>> /\ job' = NoJob /\ drawing' = NoOrder
      /\ torn' = (torn \/ job # NoJob)
      /\ UNCHANGED <<feed, last, acked, usedTxs, settled, spent, revoked, onChain, drawn>>
  BY DEF Restart
<1>2. step' = [p \in Pays |-> IF p.rail # "card" THEN "idle"
                              ELSE IF step[p] = "flip" THEN "done" ELSE step[p]]
  BY DEF Restart
<1>3. /\ floating' = [o \in Orders |-> floating[o] + (IF step[Draw(o)] = "sent" THEN 1 ELSE 0)]
      /\ lost' = [o \in Orders |->
                    lost[o] + (IF step[Draw(o)] \in {"sent", "mined"} THEN 1 ELSE 0)]
  BY DEF Restart
<1>4. LogType /\ PayType /\ LogFits /\ NamesFit /\ DrawsFit
  BY DEF ShopIInv
<1>5. <<>> \in Seq(Op) /\ ToSet(<<>>) = {}
  <2>1. <<>> \in Seq(Op) /\ DOMAIN <<>> = {}
    OBVIOUS
  <2> QED
    BY <2>1 DEF ToSet
<1>6. LogType'
  <2>1. torn' \in BOOLEAN
    BY <1>1, <1>4 DEF LogType
  <2> QED
    BY <1>1, <1>4, <1>5, <2>1 DEF LogType, JobType
<1>7. LogFits'
  <2>1. CASE job = NoJob
    <3>1. torn' = torn
      BY <1>1, <1>4, <2>1 DEF LogType
    <3> QED
      BY <1>1, <1>4, <2>1, <3>1 DEF LogFits, Log, Page
  <2>2. CASE job # NoJob
    BY <1>1, <2>2 DEF LogFits
  <2> QED
    BY <2>1, <2>2
<1>8. \A p \in Pays : /\ step'[p] \in Steps
                      /\ p.rail # "card" => step'[p] = "idle"
                      /\ p.rail = "card" /\ step[p] \in {"flip", "done"} => step'[p] \in {"flip", "done"}
  <2> TAKE p \in Pays
  <2>1. step'[p] = IF p.rail # "card" THEN "idle"
                   ELSE IF step[p] = "flip" THEN "done" ELSE step[p]
    BY <1>2
  <2>2. step[p] \in Steps /\ "idle" \in Steps /\ "done" \in Steps
    BY <1>4 DEF PayType, Steps
  <2> QED
    BY <2>1, <2>2
<1>9. step' \in [Pays -> Steps]
  BY <1>2, <1>8
<1>10. ASSUME NEW o \in Orders
       PROVE  /\ floating'[o] \in Nat /\ lost'[o] \in Nat
              /\ step'[Draw(o)] = "idle" /\ DrawFits(o)'
  <2>1. Draw(o) \in Pays /\ Draw(o).rail = "draw"
    BY PayKinds DEF Draw
  <2>2. step'[Draw(o)] = "idle"
    BY <1>8, <2>1
  <2>3. drawn[o] \in Nat /\ floating[o] \in Nat /\ lost[o] \in Nat /\ DrawFits(o)
    BY <1>4 DEF PayType, DrawsFit
  <2>4. PICK a \in {0, 1} : a = IF step[Draw(o)] = "sent" THEN 1 ELSE 0
    OBVIOUS
  <2>5. PICK b \in {0, 1} : b = IF step[Draw(o)] \in {"sent", "mined"} THEN 1 ELSE 0
    OBVIOUS
  <2>6. floating'[o] = floating[o] + a /\ lost'[o] = lost[o] + b
    BY <1>3, <2>4, <2>5
  <2>7. b - a = IF step[Draw(o)] = "mined" THEN 1 ELSE 0
    BY <2>4, <2>5
  <2>8. step[Draw(o)] = "mined" => o \notin settled
    BY <2>3 DEF DrawFits, InDraw
  <2>9. drawn[o] + floating[o] - lost[o] = IF o \in settled \/ step[Draw(o)] = "mined" THEN 1 ELSE 0
    BY <2>3 DEF DrawFits, Known
  <2>10. drawn'[o] + floating'[o] - lost'[o] = IF o \in settled THEN 1 ELSE 0
    <3>1. PICK c \in {0, 1} : c = IF step[Draw(o)] = "mined" THEN 1 ELSE 0
      OBVIOUS
    <3>2. PICK d \in {0, 1} : d = IF o \in settled THEN 1 ELSE 0
      OBVIOUS
    <3>3. drawn[o] + floating[o] - lost[o] = c + d
      BY <2>8, <2>9, <3>1, <3>2
    <3>4. b - a = c
      BY <2>7, <3>1
    <3>5. drawn'[o] + floating'[o] - lost'[o] = d
      <4>1. drawn'[o] = drawn[o]
        BY <1>1
      <4>2. drawn[o] + (floating[o] + a) - (lost[o] + b)
              = (drawn[o] + floating[o] - lost[o]) - (b - a)
        BY <2>3
      <4>3. c + d - c = d
        BY <3>1, <3>2
      <4> QED
        BY <2>6, <3>3, <3>4, <4>1, <4>2, <4>3
    <3> QED
      BY <3>2, <3>5
  <2>11. DrawFits(o)'
    <3>1. o \in settled' <=> o \in settled
      BY <1>1
    <3>2. o \in settled => drawn'[o] > 0
      BY <1>1, <2>3 DEF DrawFits
    <3> QED
      BY <2>2, <2>10, <3>1, <3>2 DEF DrawFits, Known, InDraw
  <2> QED
    BY <2>2, <2>3, <2>6, <2>11
<1>11. floating' \in [Orders -> Nat] /\ lost' \in [Orders -> Nat]
  BY <1>3, <1>10
<1>12. PayType'
  BY <1>1, <1>4, <1>9, <1>11 DEF PayType
<1>13. Offered'
  BY <1>8 DEF Offered
<1>14. Asked' = {} /\ Rows' \subseteq Rows
  BY <1>1, <1>5 DEF Asked, Rows
<1>15. NamesFit'
  <2>1. Onward
    BY <1>1, <1>8 DEF Onward
  <2>2. PayFits(Unpaid, Unpaid)' /\ Unpaid.tx = NoTx /\ Unpaid \in Names
    BY PayKinds DEF PayFits, Names
  <2>3. \A q \in Names, u \in Orders :
          Bill(q, u)' => Bill(q, u) \/ q = Unpaid \/ (q = Unpaid /\ u = Unpaid)
    BY <1>14 DEF Bill
  <2> QED
    BY <1>4, <2>1, <2>2, <2>3, NamesKept
<1>16. DrawsFit'
  <2>1. Count(settled)' = spent'
    BY <1>1, <1>4, CountSame
  <2> QED
    BY <1>10, <1>14, <2>1 DEF DrawsFit
<1> QED
  BY <1>6, <1>7, <1>12, <1>13, <1>15, <1>16 DEF ShopIInv

-----------------------------------------------------------------------------
(* At the start nothing is ordered and nothing drawn.                      *)
LEMMA ShopStarts ==
  ASSUME ShopInit
  PROVE  ShopIInv
<1>1. /\ feed = [p \in {0} |-> <<>>] /\ last = 0 /\ writes = <<>> /\ job = NoJob
      /\ acked = {} /\ torn = FALSE /\ step = [p \in Pays |-> "idle"]
      /\ onChain = {} /\ usedTxs = {} /\ settled = {} /\ spent = 0 /\ revoked = FALSE
      /\ drawing = NoOrder /\ drawn = [o \in Orders |-> 0] /\ floating = drawn /\ lost = drawn
  BY DEF ShopInit
<1>2. LogType
  <2>1. DOMAIN feed = {0} /\ feed \in [{0} -> Seq(Item)]
    <3>1. <<>> \in Seq(Item)
      OBVIOUS
    <3>2. PICK none \in Seq(Item) : none = <<>>
      BY <3>1
    <3>3. feed = [p \in {0} |-> none]
      BY <1>1, <3>2
    <3> QED
      BY <3>3
  <2>2. writes \in Seq(Op) /\ last \in Nat /\ {0} \in SUBSET Nat
    BY <1>1
  <2>3. acked \subseteq Orders /\ torn \in BOOLEAN /\ JobType
    BY <1>1 DEF JobType
  <2> QED
    BY <2>1, <2>2, <2>3 DEF LogType
<1>3. PayType
  <2>1. step \in [Pays -> Steps]
    <3>1. "idle" \in Steps
      BY DEF Steps
    <3> QED
      BY <1>1, <3>1
  <2>2. drawn \in [Orders -> Nat] /\ floating \in [Orders -> Nat] /\ lost \in [Orders -> Nat]
    BY <1>1
  <2>3. spent \in 0..Cap
    BY <1>1, ShopAssumption
  <2> QED
    BY <1>1, <2>1, <2>2, <2>3 DEF PayType
<1>4. Rows = {} /\ Asked = {}
  <2>1. ToSet(<<>>) = {}
    BY DEF ToSet
  <2> QED
    BY <1>1, <2>1 DEF Rows, Asked
<1>5. NamesFit
  BY <1>4 DEF NamesFit, Bill
<1>6. \A p \in Pays : step[p] = "idle"
  BY <1>1
<1>7. Offered
  BY <1>6 DEF Offered
<1>8. ASSUME NEW o \in Orders PROVE DrawFits(o)
  <2>1. step[Draw(o)] = "idle"
    BY <1>6, PayKinds
  <2> QED
    BY <1>1, <2>1 DEF DrawFits, Known, InDraw
<1>9. Count(settled) = 0
  <2> DEFINE f == [o \in Orders |-> IF o \in settled THEN 1 ELSE 0]
  <2>1. \A o \in Orders : f[o] = 0
    BY <1>1
  <2>2. Count(settled) = SumFunctionOnSet(f, Orders)
    BY DEF Count
  <2> HIDE DEF f
  <2> QED
    BY <2>1, <2>2, ShopAssumption, SumOfNoughts
<1>10. DrawsFit
  BY <1>1, <1>4, <1>8, <1>9 DEF DrawsFit
<1>11. LogFits
  BY <1>1 DEF LogFits, HasAll
<1> QED
  BY <1>2, <1>3, <1>5, <1>7, <1>10, <1>11 DEF ShopIInv

LEMMA ShopStep ==
  ASSUME ShopIInv, [ShopNext]_shopVars
  PROVE  ShopIInv'
<1>1. CASE UNCHANGED shopVars
  BY <1>1, NothingKept
<1>2. CASE ShopNext
  <2>1. CASE FirstPage \/ NextPage \/ WriteFails \/ Revoke \/ Restart
    BY <2>1, FirstPageKept, NextPageKept, WriteFailsKept, RevokeKept, RestartKept
  <2>2. ASSUME NEW o \in Orders,
               \/ Place(o) \/ \E status \in {"fulfilled", "cancelled"} : MarkOrder(o, status)
               \/ Charge(o) \/ WebhookReads(o) \/ WebhookMisses(o)
        PROVE  ShopIInv'
    BY <2>2, PlaceKept, MarkKept, ChargeKept, WebhookReadsKept, WebhookMissesKept
  <2>3. ASSUME NEW o \in Orders,
               \/ PaySpend(o) \/ DrawCheck(o) \/ DrawSend(o) \/ DrawExecutes(o)
               \/ DrawRecord(o) \/ DrawGivesUp(o)
        PROVE  ShopIInv'
    BY <2>3, PaySpendKept, DrawCheckKept, DrawSendKept, DrawExecutesKept, DrawRecordKept,
       DrawGivesUpKept
  <2>4. ASSUME NEW o \in Orders, NEW t \in Txs, PayCrypto(o, t) \/ TakeTransfer(o, t)
        PROVE  ShopIInv'
    BY <2>4, PayCryptoKept, TakeTransferKept
  <2>5. ASSUME NEW t \in Txs, SendTransfer(t)
        PROVE  ShopIInv'
    BY <2>5, SendTransferKept
  <2> QED
    BY <1>2, <2>1, <2>2, <2>3, <2>4, <2>5 DEF ShopNext
<1> QED
  BY <1>1, <1>2

(* Every step keeps the log, the payments named on it and the draws in     *)
(* order: the handlers of routes/shops.ts, the webhook, the shop's lock.   *)
THEOREM ShopInvariance == ShopSpec => []ShopIInv
<1>1. ShopInit => ShopIInv
  BY ShopStarts
<1>2. ShopIInv /\ [ShopNext]_shopVars => ShopIInv'
  BY ShopStep
<1> QED
  BY <1>1, <1>2, PTL DEF ShopSpec

(* The pages, the queue of writes and the permission are well formed.      *)
THEOREM ShopTypeHolds == ShopSpec => []ShopTypeOK
<1>1. ShopIInv => ShopTypeOK
  BY TypeParts DEF ShopIInv
<1> QED
  BY <1>1, ShopInvariance, PTL

(* drawSpendPermission draws once for an order, and from one permission no *)
(* more than its cap, but for the draws whose outcome it never learnt.     *)
THEOREM DrawsAccountedHolds == ShopSpec => []DrawsAccounted
<1>1. ASSUME ShopIInv PROVE DrawsAccounted
  <2>1. PayType /\ DrawsFit
    BY <1>1 DEF ShopIInv
  <2>2. \A o \in Orders : drawn[o] \in Nat /\ floating[o] \in Nat /\ lost[o] \in Nat
    BY <2>1 DEF PayType
  <2>3. ASSUME NEW o \in Orders PROVE drawn[o] + floating[o] <= lost[o] + 1
    <3>1. drawn[o] + floating[o] - lost[o] \in {0, 1}
      BY <2>1 DEF DrawsFit, DrawFits, Known
    <3> QED
      BY <2>2, <3>1
  <2> DEFINE net == [o \in Orders |-> drawn[o] + floating[o] - lost[o]]
             paid == [o \in Orders |-> IF o \in settled THEN 1 ELSE 0]
  <2>4. /\ SumFunction(net) = SumFunctionOnSet(net, Orders)
        /\ SumFunctionOnSet(paid, Orders) = spent
    BY <2>1 DEF SumFunction, DrawsFit, Count
  <2>5. \A o \in Orders : /\ net[o] \in Int /\ paid[o] \in Int
                          /\ step[Draw(o)] # "mined" => net[o] = paid[o]
                          /\ step[Draw(o)] = "mined" => net[o] = 1 /\ paid[o] = 0
    <3> TAKE o \in Orders
    <3>1. DrawFits(o)
      BY <2>1 DEF DrawsFit
    <3>2. net[o] = Known(o) /\ net[o] \in Int
      BY <2>2 DEF Known
    <3>3. paid[o] = IF o \in settled THEN 1 ELSE 0
      OBVIOUS
    <3> HIDE DEF net, paid
    <3> QED
      BY <3>1, <3>2, <3>3 DEF DrawFits, InDraw
  <2>6. spent \in Nat /\ spent <= Cap /\ Cap \in Nat
    BY <2>1, ShopAssumption DEF PayType
  <2> HIDE DEF net, paid
  <2>7. SumFunctionOnSet(net, Orders) <= Cap
    <3>1. CASE \A o \in Orders : step[Draw(o)] # "mined"
      <4>1. SumFunctionOnSet(net, Orders) = SumFunctionOnSet(paid, Orders)
        BY <2>5, <3>1, ShopAssumption, SumOfSame
      <4> QED
        BY <2>4, <2>6, <4>1
    <3>2. ASSUME NEW o \in Orders, step[Draw(o)] = "mined"
          PROVE  SumFunctionOnSet(net, Orders) <= Cap
      <4>1. drawing = o /\ spent + 1 <= Cap
        BY <2>1, <3>2 DEF DrawsFit, DrawFits, InDraw
      <4>2. \A u \in Orders : u # o => paid[u] = net[u]
        <5>1. \A u \in Orders : step[Draw(u)] = "mined" => drawing = u
          BY <2>1 DEF DrawsFit, DrawFits, InDraw
        <5> QED
          BY <2>5, <4>1, <5>1
      <4>3. SumFunctionOnSet(net, Orders) = SumFunctionOnSet(paid, Orders) + net[o] - paid[o]
        BY <2>5, <4>2, ShopAssumption, SumChanges
      <4>4. net[o] = 1 /\ paid[o] = 0
        BY <2>5, <3>2
      <4> QED
        BY <2>4, <2>6, <4>1, <4>3, <4>4
    <3> QED
      BY <3>1, <3>2
  <2> QED
    BY <2>3, <2>4, <2>7 DEF DrawsAccounted, net
<1> QED
  BY <1>1, ShopInvariance, PTL

(* An order on the log that names its payment was paid by that payment,    *)
(* and no transfer pays for two: the registry of consumed transactions and *)
(* the patch by order id in service.ts.                                    *)
THEOREM PaidByItsOwnHolds == ShopSpec => []PaidByItsOwn
<1>1. ASSUME ShopIInv PROVE PaidByItsOwn
  <2>1. LogType /\ PayType /\ NamesFit
    BY <1>1 DEF ShopIInv
  <2>2. Log \in Seq(Item) /\ ToSet(Log) \subseteq Rows
    BY <2>1, LogIs
  <2>3. ASSUME NEW i \in DOMAIN Log
        PROVE  /\ Log[i].by \in Names /\ Log[i].id \in Orders
               /\ Bill(Log[i].by, Log[i].id) /\ PayFits(Log[i].by, Log[i].id)
    <3>1. PICK r : r = Log[i]
      OBVIOUS
    <3>2. r \in Item /\ r \in Rows
      BY <2>2, <3>1 DEF ToSet
    <3>3. r.by \in Names /\ r.id \in Orders /\ Bill(r.by, r.id)
      BY <3>2 DEF Item, Names, Bill
    <3>4. PayFits(r.by, r.id)
      BY <2>1, <3>3 DEF NamesFit
    <3> QED
      BY <3>1, <3>3, <3>4
  <2>4. ASSUME NEW i \in DOMAIN Log, Log[i].by # Unpaid
        PROVE  Log[i].by.order = Log[i].id /\ Moved(Log[i].by)
    <3>1. PICK p : p = Log[i].by
      OBVIOUS
    <3>2. PICK o : o = Log[i].id
      OBVIOUS
    <3>3. p \in Pays /\ o \in Orders /\ p # Unpaid /\ PayFits(p, o)
      BY <2>3, <2>4, <3>1, <3>2 DEF Names
    <3>4. p.order = o
      BY <3>3 DEF PayFits
    <3>5. Moved(p)
      <4>1. p.rail \in {"card", "draw", "tx"}
        BY <3>3, PayKinds
      <4>2. usedTxs \subseteq onChain
        BY <2>1 DEF PayType
      <4> QED
        BY <3>3, <3>4, <4>1, <4>2 DEF PayFits, Moved
    <3> QED
      BY <3>1, <3>2, <3>4, <3>5
  <2>5. ASSUME NEW i \in DOMAIN Log, NEW j \in DOMAIN Log,
               Log[i].by.tx = Log[j].by.tx, Log[i].id # Log[j].id, Log[i].by.tx # NoTx
        PROVE  FALSE
    <3>1. PICK p : p = Log[i].by
      OBVIOUS
    <3>2. PICK q : q = Log[j].by
      OBVIOUS
    <3>3. PICK o : o = Log[i].id
      OBVIOUS
    <3>4. PICK u : u = Log[j].id
      OBVIOUS
    <3>5. p \in Names /\ q \in Names /\ o \in Orders /\ u \in Orders
      BY <2>3, <3>1, <3>2, <3>3, <3>4
    <3>6. Bill(p, o) /\ Bill(q, u) /\ PayFits(p, o) /\ PayFits(q, u)
      BY <2>3, <3>1, <3>2, <3>3, <3>4
    <3>7. p.tx = q.tx /\ p.tx # NoTx /\ o # u
      BY <2>5, <3>1, <3>2, <3>3, <3>4
    <3>8. p = q
      BY <2>1, <3>5, <3>6, <3>7 DEF NamesFit
    <3>9. p # Unpaid
      BY <3>7, PayKinds
    <3> QED
      BY <3>6, <3>7, <3>8, <3>9 DEF PayFits
  <2> QED
    BY <2>4, <2>5 DEF PaidByItsOwn
<1> QED
  BY <1>1, ShopInvariance, PTL

(* An acknowledged order stays on the log while no write of the pages is   *)
(* cut short: appendOrder and updateOrder read and write under the lock.   *)
THEOREM OrdersKeptHolds == ShopSpec => []OrdersKept
<1>1. ASSUME ShopIInv PROVE OrdersKept
  <2>1. SUFFICES ASSUME job = NoJob, ~torn PROVE acked \subseteq Ids(Log)
    BY DEF OrdersKept
  <2>2. HasAll(ToSet(Log), acked)
    BY <1>1, <2>1 DEF ShopIInv, LogFits
  <2> QED
    BY <2>2 DEF HasAll, Ids, ToSet
<1> QED
  BY <1>1, ShopInvariance, PTL

===============================================================================
