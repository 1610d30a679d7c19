------------------------- MODULE PayoutReleaseProofs -------------------------
(***************************************************************************)
(* Theorems about PayoutRelease, for every set of sales and currencies and *)
(* every value of the deadlines, windows and bounds: no sale is paid twice, *)
(* what was paid is on disk, what is released was paid, a new payout       *)
(* honours the refunds of the hours before, and the engine implements      *)
(* PayoutPromise.                                                          *)
(***************************************************************************)
EXTENDS PayoutRelease, FiniteSetTheorems, TLAPS

USE SalesAssumption, CurrencyAssumption, AmountAssumption, TimeAssumption,
    SwitchAssumption, NoIntentAssumption

(* A successful or failed write leaves one of the two given values on disk. *)
LEMMA PersistEither ==
  ASSUME NEW d, NEW m, NEW x \in Persist(d, m)
  PROVE  x = m \/ x = d
  BY DEF Persist

(* Leaving a group keeps the types of the sweep's variables.               *)
LEMMA EndGroupType ==
  ASSUME TypeOK, NEW w \in Sweeps, EndGroup(w)
  PROVE  /\ work' \in [Sweeps -> SUBSET Currencies]
         /\ pc' \in [Sweeps -> Steps]
         /\ todo' \in [Sweeps -> SUBSET Sales]
         /\ nets' \in [Sweeps -> Amounts]
         /\ pend' \in [Sweeps -> Intent \cup {NoIntent}]
         /\ groups' = groups /\ cur' = cur
         /\ \A v \in Sweeps : pc'[v] \in {"lookup", "replaying", "paying"}
                                => pend'[v] # NoIntent
<1>1. work' \in [Sweeps -> SUBSET Currencies]
  BY DEF TypeOK, WorldType, StoreType, SweepType, EndGroup
<1>2. pc' \in [Sweeps -> Steps]
  BY DEF TypeOK, WorldType, StoreType, SweepType, EndGroup, Steps
<1>3. todo' \in [Sweeps -> SUBSET Sales]
  BY DEF TypeOK, WorldType, StoreType, SweepType, EndGroup
<1>4. NoNets \in Amounts
  BY DEF NoNets, Amounts
<1>5. nets' \in [Sweeps -> Amounts]
  BY <1>4 DEF TypeOK, WorldType, StoreType, SweepType, EndGroup
<1>6. pend' \in [Sweeps -> Intent \cup {NoIntent}]
  BY DEF TypeOK, WorldType, StoreType, SweepType, EndGroup
<1>7. \A v \in Sweeps : pc'[v] \in {"lookup", "replaying", "paying"}
                            => v # w /\ pc'[v] = pc[v] /\ pend'[v] = pend[v]
  BY <1>2 DEF TypeOK, SweepType, EndGroup
<1> QED BY <1>1, <1>2, <1>3, <1>5, <1>6, <1>7 DEF TypeOK, SweepType, EndGroup

(* Entering selection keeps the types of the sweep's variables.            *)
LEMMA BeginSelectionType ==
  ASSUME TypeOK, NEW w \in Sweeps, NEW c \in Currencies, NEW l,
         BeginSelection(w, c, l)
  PROVE  /\ work' \in [Sweeps -> SUBSET Currencies]
         /\ pc' \in [Sweeps -> Steps]
         /\ todo' \in [Sweeps -> SUBSET Sales]
         /\ \A v \in Sweeps : v # w => pc'[v] = pc[v]
         /\ pc'[w] \in {"idle", "groups", "resolve"}
<1> DEFINE due == {s \in groups[w][c] : l[s].status = "held" /\ IsDue(s, at[w])}
<1>1. due \subseteq Sales
  BY DEF TypeOK, WorldType, StoreType, SweepType
<1>2. CASE due = {}
  <2> DEFINE next == IF work[w] \subseteq {c} THEN "idle" ELSE "groups"
  <2>1. /\ pc' = [pc EXCEPT ![w] = next]
        /\ todo' = [todo EXCEPT ![w] = {}]
        /\ work' = [work EXCEPT ![w] = @ \ {c}]
    BY <1>2 DEF BeginSelection
  <2>2. next \in Steps /\ next \in {"idle", "groups"}
    BY DEF Steps
  <2> HIDE DEF next, due
  <2> QED
    BY <2>1, <2>2 DEF TypeOK, WorldType, StoreType, SweepType
<1>3. CASE due # {}
  <2>1. /\ pc' = [pc EXCEPT ![w] = "resolve"]
        /\ todo' = [todo EXCEPT ![w] = due]
        /\ work' = work
    BY <1>3 DEF BeginSelection
  <2> HIDE DEF due
  <2> QED
    BY <1>1, <2>1 DEF TypeOK, WorldType, StoreType, SweepType, Steps
<1> QED BY <1>2, <1>3

(* A ledger entry stays one when its status or currency is overwritten.    *)
LEMMA EntryUpdate ==
  ASSUME NEW e \in Entry
  PROVE  /\ \A x \in Statuses : [e EXCEPT !.status = x] \in Entry
         /\ \A c \in Currencies : [e EXCEPT !.currency = c] \in Entry
  BY DEF Entry

(* markManyReleased and markVoid return ledgers.                           *)
LEMMA MarkType ==
  ASSUME TypeOK
  PROVE  /\ \A i : MarkManyReleased(i) \in [Sales -> Entry]
         /\ \A s \in Sales : MarkVoid(s) \in [Sales -> Entry]
<1>1. ASSUME NEW i
      PROVE  MarkManyReleased(i) \in [Sales -> Entry]
  <2> SUFFICES ASSUME NEW s \in Sales
               PROVE  MarkManyReleased(i)[s] \in Entry
    BY DEF MarkManyReleased
  <2> DEFINE b == led[s].forced \/ s \in i.forced
  <2>1. led[s] \in Entry
    BY DEF TypeOK, WorldType, StoreType, SweepType
  <2>2. b \in BOOLEAN
    BY <2>1 DEF Entry
  <2>3. MarkManyReleased(i)[s] =
          IF s \in KeyOf(i.nets)
          THEN [led[s] EXCEPT !.status = "released", !.forced = b] ELSE led[s]
    BY DEF MarkManyReleased
  <2> HIDE DEF b
  <2> QED
    BY <2>1, <2>2, <2>3 DEF Entry, Statuses
<1>2. ASSUME NEW s \in Sales
      PROVE  MarkVoid(s) \in [Sales -> Entry]
  <2>1. led[s] \in Entry /\ led \in [Sales -> Entry] /\ "void" \in Statuses
    BY DEF TypeOK, WorldType, StoreType, SweepType, Statuses
  <2>2. [led[s] EXCEPT !.status = "void"] \in Entry
    BY <2>1, EntryUpdate
  <2> QED BY <2>1, <2>2 DEF MarkVoid
<1> QED BY <1>1, <1>2

(* A restart from well-typed files is well-typed.                          *)
LEMMA RestartType ==
  ASSUME TypeOK, NEW l \in [Sales -> Entry],
         NEW i \in [Currencies -> Intent \cup {NoIntent}], Restart(l, i)
  PROVE  TypeOK'
<1> USE DEF TypeOK, Restart, stripe
<1>1. WorldType'
  BY DEF WorldType
<1>2. StoreType'
  BY DEF StoreType
<1>3. SweepType'
  BY DEF WorldType, SweepType, Steps, NoNets, Amounts
<1> QED BY <1>1, <1>2, <1>3

(* Settling an intent keeps the types of both stores.                      *)
LEMMA SettleType ==
  ASSUME TypeOK, NEW w \in Sweeps, Settle(w)
  PROVE  StoreType'
<1>1. cur[w] \in Currencies
  BY DEF TypeOK, SweepType
<1>2. led' \in [Sales -> Entry] /\ dled' \in [Sales -> Entry]
  BY <1>1, MarkType, PersistEither DEF TypeOK, StoreType, Settle
<1>3. /\ intent' \in [Currencies -> Intent \cup {NoIntent}]
      /\ dintent' \in [Currencies -> Intent \cup {NoIntent}]
  BY <1>1, PersistEither DEF TypeOK, StoreType, Settle
<1> QED BY <1>2, <1>3 DEF StoreType

-----------------------------------------------------------------------------
(* The initial state is well-typed.                                        *)
LEMMA InitType == Init => TypeOK
  BY DEF Init, TypeOK, WorldType, StoreType, SweepType, Entry, Statuses, Steps,
         Amounts

(* No step of the clock, a buyer, Stripe or a crash breaks a type.         *)
LEMMA EnvironmentType == TypeOK /\ Environment => TypeOK'
<1> SUFFICES ASSUME TypeOK, Environment PROVE TypeOK'
  OBVIOUS
<1> USE DEF TypeOK, stripe, stores, locals
<1>1. ASSUME Tick PROVE TypeOK'
  BY <1>1 DEF Tick, WorldType, StoreType, SweepType
<1>2. ASSUME NEW s \in Sales, RecordHeld(s) PROVE TypeOK'
  <2>1. [led[s] EXCEPT !.status = "held"] \in Entry
    BY EntryUpdate DEF StoreType, Statuses
  <2>2. led' \in [Sales -> Entry] /\ dled' \in [Sales -> Entry]
    BY <1>2, <2>1, PersistEither DEF RecordHeld, StoreType
  <2> QED
    BY <1>2, <2>2 DEF RecordHeld, WorldType, StoreType, SweepType
<1>3. ASSUME NEW s \in Sales, Refund(s) PROVE TypeOK'
  BY <1>3 DEF Refund, WorldType, StoreType, SweepType
<1>4. ASSUME NEW s \in Sales, VoidSale(s) PROVE TypeOK'
  <2>1. led' \in [Sales -> Entry] /\ dled' \in [Sales -> Entry]
    BY <1>4, MarkType, PersistEither DEF VoidSale, StoreType
  <2> QED
    BY <1>4, <2>1 DEF VoidSale, WorldType, StoreType, SweepType
<1>5. ASSUME NEW s \in Sales, Fund(s) PROVE TypeOK'
  BY <1>5 DEF Fund, WorldType, StoreType, SweepType
<1>6. ASSUME NEW r \in wire, Deliver(r) PROVE TypeOK'
  <2>1. [currency |-> r.currency, nets |-> r.nets, at |-> now] \in Payout
    BY DEF WorldType, Request, Payout
  <2> QED
    BY <1>6, <2>1 DEF Deliver, WorldType, StoreType, SweepType
<1>7. ASSUME Crash PROVE TypeOK'
  BY <1>7, RestartType DEF Crash, StoreType
<1> QED
  BY <1>1, <1>2, <1>3, <1>4, <1>5, <1>6, <1>7 DEF Environment

(* No step of a sweep breaks a type.                                       *)
LEMMA StepType == ASSUME TypeOK, NEW w \in Sweeps, Step(w) PROVE TypeOK'
<1> USE DEF TypeOK, stripe, stores, locals
<1>1. ASSUME StartSweep(w) PROVE TypeOK'
  <2> DEFINE held(c) == {s \in Sales : led[s].status = "held" /\ led[s].currency = c}
             visit == {c \in Currencies : held(c) # {} \/ intent[c] # NoIntent}
             next == IF visit = {} THEN "idle" ELSE "groups"
  <2>1. /\ groups' = [groups EXCEPT ![w] = [c \in Currencies |-> held(c)]]
        /\ work' = [work EXCEPT ![w] = visit]
        /\ pc' = [pc EXCEPT ![w] = next]
        /\ at' = [at EXCEPT ![w] = now]
        /\ UNCHANGED <<now, sold, opening, stripe, stores, cur, todo, nets, pend>>
    BY <1>1 DEF StartSweep
  <2>2. /\ next \in Steps /\ next \in {"idle", "groups"}
        /\ visit \in SUBSET Currencies
        /\ [c \in Currencies |-> held(c)] \in [Currencies -> SUBSET Sales]
    BY DEF Steps
  <2> HIDE DEF held, visit, next
  <2> QED
    BY <2>1, <2>2 DEF WorldType, StoreType, SweepType
<1>2. ASSUME NEW c \in Currencies, BeginGroup(w, c) PROVE TypeOK'
  <2>1. CASE intent[c] # NoIntent
    BY <1>2, <2>1 DEF BeginGroup, WorldType, StoreType, SweepType, Steps
  <2>2. CASE intent[c] = NoIntent
    <3>1. BeginSelection(w, c, led) /\ UNCHANGED pend
      BY <1>2, <2>2 DEF BeginGroup
    <3> QED
      BY <1>2, <3>1, BeginSelectionType
      DEF BeginGroup, WorldType, StoreType, SweepType
  <2> QED BY <2>1, <2>2
<1>3. ASSUME LookupFails(w) \/ Defer(w) \/ PayThrows(w) PROVE TypeOK'
  <2>1. EndGroup(w) /\ UNCHANGED <<now, sold, opening, stripe, stores, at>>
    BY <1>3 DEF LookupFails, Defer, PayThrows
  <2> QED
    BY <2>1, EndGroupType DEF WorldType, StoreType, SweepType
<1>4. ASSUME LookupFound(w) \/ ReplayReturns(w) PROVE TypeOK'
  <2>1. /\ Settle(w) /\ BeginSelection(w, cur[w], led')
        /\ pend' = [pend EXCEPT ![w] = NoIntent]
        /\ UNCHANGED <<now, sold, opening, stripe, at, groups, cur, nets>>
    BY <1>4 DEF LookupFound, ReplayReturns
  <2>2. cur[w] \in Currencies
    BY DEF SweepType
  <2> QED
    BY <2>1, <2>2, SettleType, BeginSelectionType DEF WorldType, SweepType
<1>5. ASSUME Replay(w) PROVE TypeOK'
  <2>1. pend[w] \in Intent /\ cur[w] \in Currencies
    BY <1>5 DEF Replay, SweepType
  <2>2. [currency |-> cur[w], nets |-> pend[w].nets] \in Request
    BY <2>1 DEF Intent, Request
  <2> QED
    BY <1>5, <2>1, <2>2 DEF Replay, WorldType, StoreType, SweepType, Steps
<1>6. ASSUME Abandon(w) PROVE TypeOK'
  <2>1. cur[w] \in Currencies
    BY DEF SweepType
  <2>2. StoreType'
    BY <1>6, <2>1, PersistEither DEF Abandon, StoreType
  <2> QED
    BY <1>6, <2>1, <2>2, BeginSelectionType DEF Abandon, WorldType, SweepType
<1>7. ASSUME todo' \in [Sweeps -> SUBSET Sales], nets' \in [Sweeps -> Amounts],
             IF todo'[w] = {} THEN EndResolve(w) ELSE UNCHANGED <<pc, work>>
      PROVE  /\ work' \in [Sweeps -> SUBSET Currencies]
             /\ pc' \in [Sweeps -> Steps]
             /\ \A v \in Sweeps : v # w => pc'[v] = pc[v]
             /\ pc'[w] = pc[w] \/ pc'[w] \in {"idle", "groups", "balance"}
  <2>1. CASE UNCHANGED <<pc, work>>
    BY <2>1 DEF SweepType
  <2>2. CASE EndResolve(w)
    <3> DEFINE next == IF work[w] \subseteq {cur[w]} THEN "idle" ELSE "groups"
    <3>1. next \in Steps /\ next \in {"idle", "groups"}
      BY DEF Steps
    <3>2. \/ pc' = [pc EXCEPT ![w] = next] /\ work' = [work EXCEPT ![w] = @ \ {cur[w]}]
          \/ pc' = [pc EXCEPT ![w] = "balance"] /\ work' = work
      BY <2>2 DEF EndResolve
    <3> HIDE DEF next
    <3>3. pc \in [Sweeps -> Steps] /\ work \in [Sweeps -> SUBSET Currencies]
      BY DEF SweepType
    <3>4. CASE pc' = [pc EXCEPT ![w] = next] /\ work' = [work EXCEPT ![w] = @ \ {cur[w]}]
      <4>1. work[w] \ {cur[w]} \in SUBSET Currencies
        BY <3>3
      <4>2. work' \in [Sweeps -> SUBSET Currencies]
        BY <3>3, <3>4, <4>1
      <4> QED
        BY <3>1, <3>3, <3>4, <4>2
    <3>5. CASE pc' = [pc EXCEPT ![w] = "balance"] /\ work' = work
      BY <3>3, <3>5 DEF Steps
    <3> QED
      BY <3>2, <3>4, <3>5
  <2> QED BY <1>7, <2>1, <2>2
<1>8. ASSUME ResolveFails(w) PROVE TypeOK'
  <2>1. todo' \in [Sweeps -> SUBSET Sales] /\ nets' \in [Sweeps -> Amounts]
    BY <1>8 DEF ResolveFails, SweepType
  <2>2. /\ IF todo'[w] = {} THEN EndResolve(w) ELSE UNCHANGED <<pc, work>>
        /\ UNCHANGED <<now, sold, opening, stripe, stores, at, groups, cur, pend>>
        /\ pc[w] = "resolve"
    BY <1>8 DEF ResolveFails
  <2> QED
    BY <1>7, <2>1, <2>2 DEF WorldType, StoreType, SweepType
<1>9. ASSUME Resolve(w) PROVE TypeOK'
  <2>1. PICK s \in todo[w] :
          /\ todo' = [todo EXCEPT ![w] = @ \ {s}]
          /\ led' = MarkVoid(s) \/ led' = [led EXCEPT ![s].currency = SettlesIn[s]]
          /\ dled' \in {dled} \cup Persist(dled, led')
          /\ nets' = [nets EXCEPT ![w][s] = net[s]] \/ nets' = nets
    BY <1>9 DEF Resolve, ResolvedNet
  <2>2. s \in Sales
    BY DEF SweepType
  <2>3. [led[s] EXCEPT !.currency = SettlesIn[s]] \in Entry
    BY <2>2, EntryUpdate DEF StoreType
  <2>4. led' \in [Sales -> Entry]
    <3>1. CASE led' = MarkVoid(s)
      BY <2>2, <3>1, MarkType DEF StoreType
    <3>2. CASE led' = [led EXCEPT ![s].currency = SettlesIn[s]]
      BY <2>2, <2>3, <3>2 DEF StoreType
    <3> QED
      BY <2>1, <3>1, <3>2
  <2>5. dled' \in [Sales -> Entry]
    BY <2>1, <2>4, PersistEither DEF StoreType
  <2>6. todo' \in [Sweeps -> SUBSET Sales]
    BY <2>1 DEF SweepType
  <2>7. nets' \in [Sweeps -> Amounts]
    <3>1. [nets[w] EXCEPT ![s] = net[s]] \in Amounts
      BY <2>2 DEF SweepType, WorldType, Amounts
    <3> QED
      BY <2>1, <3>1 DEF SweepType
  <2>8. /\ IF todo'[w] = {} THEN EndResolve(w) ELSE UNCHANGED <<pc, work>>
        /\ UNCHANGED <<now, sold, opening, stripe, intent, dintent, at, groups,
                       cur, pend>>
        /\ pc[w] = "resolve"
    BY <1>9 DEF Resolve, ResolvedNet
  <2> QED
    BY <1>7, <2>4, <2>5, <2>6, <2>7, <2>8 DEF WorldType, StoreType, SweepType
<1>10. ASSUME JournalAndPay(w) PROVE TypeOK'
  <2> DEFINE selected == FittingPrefix(nets[w], Available(cur[w]))
             i == [nets |-> [s \in Sales |-> IF s \in selected THEN nets[w][s] ELSE 0],
                   forced |-> {s \in selected : ~EventOver(s, at[w])},
                   createdAt |-> at[w]]
  <2>1. /\ intent' = [intent EXCEPT ![cur[w]] = i] /\ dintent' = intent'
        /\ pend' = [pend EXCEPT ![w] = i]
        /\ wire' = wire \cup {[currency |-> cur[w], nets |-> i.nets]}
        /\ pc' = [pc EXCEPT ![w] = "paying"]
        /\ UNCHANGED <<now, sold, opening, net, funded, payouts, led, dled, at,
                       groups, work, cur, todo, nets>>
    BY <1>10 DEF JournalAndPay
  <2>2. selected \subseteq Sales
    BY DEF FittingPrefix, KeyOf
  <2>3. cur[w] \in Currencies /\ nets[w] \in Amounts /\ at[w] \in Nat
    BY DEF SweepType
  <2> HIDE DEF selected
  <2>4. i \in Intent
    <3>1. i.nets \in Amounts
      BY <2>2, <2>3 DEF Amounts
    <3>2. i.forced \in SUBSET Sales
      BY <2>2
    <3>3. i = [nets |-> i.nets, forced |-> i.forced, createdAt |-> at[w]]
      OBVIOUS
    <3> HIDE DEF i
    <3> QED
      BY <2>3, <3>1, <3>2, <3>3 DEF Intent
  <2>5. [currency |-> cur[w], nets |-> i.nets] \in Request
    BY <2>3, <2>4 DEF Request, Intent
  <2> HIDE DEF i
  <2> QED
    BY <2>1, <2>3, <2>4, <2>5 DEF WorldType, StoreType, SweepType, Steps
<1>11. ASSUME PayReturns(w) PROVE TypeOK'
  BY <1>11, SettleType, EndGroupType DEF PayReturns, WorldType, SweepType
<1>12. ASSUME CrashWhileSettling(w) PROVE TypeOK'
  <2>1. PICK l \in Persist(dled, MarkManyReleased(pend[w])) : Restart(l, dintent)
    BY <1>12 DEF CrashWhileSettling
  <2>2. l \in [Sales -> Entry]
    BY <2>1, PersistEither, MarkType DEF StoreType
  <2> QED
    BY <2>1, <2>2, RestartType DEF StoreType
<1> QED
  BY <1>1, <1>2, <1>3, <1>4, <1>5, <1>6, <1>8, <1>9, <1>10, <1>11, <1>12 DEF Step

(* Type correctness, with or without overlapping sweeps and failing disks. *)
THEOREM TypeCorrect == Spec => []TypeOK
<1>1. TypeOK /\ [Next]_vars => TypeOK'
  <2>1. TypeOK /\ UNCHANGED vars => TypeOK'
    BY DEF TypeOK, WorldType, StoreType, SweepType, vars, stripe, stores, locals
  <2> QED
    BY <2>1, EnvironmentType, StepType DEF Next
<1> QED BY InitType, <1>1, PTL DEF Spec

-----------------------------------------------------------------------------
(* From here on: sweeps do not overlap and the disk works.                 *)
Sound == ~Overlap /\ ~DiskMayFail

(* With a working disk a store and its file agree after every write.       *)
LEMMA PersistWorks ==
  ASSUME Sound, NEW d, NEW m, NEW x \in Persist(d, m)
  PROVE  x = m
  BY DEF Persist, Sound

(* IInv holds initially: nothing is sold, paid or journalled.              *)
LEMMA InitInv == Init => IInv
<1> SUFFICES ASSUME Init PROVE IInv
  OBVIOUS
<1>1. TypeOK
  BY InitType
<1>2. SweepInv
  BY DEF Init, SweepInv, InGroup, Pays, Journalled
<1>3. SelectionInv /\ IntentInv /\ WireInv
  BY DEF Init, SelectionInv, IntentInv, WireInv, Journalled, KeyOf
<1>4. LedgerInv /\ RightPot /\ NoDoublePay /\ ReleasedWasPaid
  BY DEF Init, LedgerInv, RightPot, NoDoublePay, ReleasedWasPaid
<1> QED BY <1>1, <1>2, <1>3, <1>4 DEF IInv

(* An hour may pass: the wire is empty and no sweep is awake.              *)
LEMMA TickInv == ASSUME IInv, Sound, Tick PROVE IInv'
<1> USE DEF IInv, stores, locals, Tick
<1>1. TypeOK'
  BY EnvironmentType DEF Environment
<1>2. now \in Nat /\ \A w \in Sweeps : at[w] \in Nat /\ pc[w] = "idle"
  BY DEF Sound, TypeOK, WorldType, SweepType
<1>3. SweepInv'
  BY <1>2 DEF SweepInv, InGroup, Pays, Journalled
<1>4. SelectionInv'
  BY <1>2 DEF SelectionInv, KeyOf
<1>5. \A c \in Currencies : Journalled(c) => intent[c].createdAt \in Nat
  BY DEF TypeOK, StoreType, Journalled, Intent
<1>6. IntentInv'
  BY <1>2, <1>5 DEF IntentInv, Journalled, KeyOf
<1>7. WireInv'
  BY DEF WireInv
<1>8. LedgerInv' /\ RightPot' /\ NoDoublePay' /\ ReleasedWasPaid'
  BY DEF LedgerInv, RightPot, NoDoublePay, ReleasedWasPaid, PaidSales, Journalled, KeyOf
<1> QED BY <1>1, <1>3, <1>4, <1>6, <1>7, <1>8

(* A new sale enters the ledger unpaid.                                    *)
LEMMA RecordHeldInv ==
  ASSUME IInv, Sound, NEW s \in Sales, RecordHeld(s) PROVE IInv'
<1> USE DEF IInv, stripe, locals, RecordHeld
<1>1. TypeOK'
  BY EnvironmentType DEF Environment
<1>2. led \in [Sales -> Entry] /\ led' = [led EXCEPT ![s].status = "held"]
  BY DEF TypeOK, StoreType
<1>3. \A r \in Sales : led'[r].status = IF r = s THEN "held" ELSE led[r].status
  BY <1>2 DEF Entry
<1>4. SweepInv'
  BY PersistWorks DEF SweepInv, InGroup, Pays, Journalled
<1>5. SelectionInv'
  BY DEF SelectionInv, PaidSales, KeyOf
<1>6. IntentInv' /\ WireInv'
  BY DEF IntentInv, WireInv, Journalled, PaidSales, KeyOf, Pays
<1>7. \A c \in Currencies : Journalled(c) => s \notin KeyOf(intent[c].nets)
  BY DEF IntentInv
<1>8. \A p \in payouts : p.currency \in Currencies
  BY DEF TypeOK, WorldType, Payout
<1>9. led[s].status = "none"
  BY <1>2 DEF LedgerInv
<1>10. \A p \in payouts : s \notin KeyOf(p.nets)
  BY <1>7, <1>8, <1>9 DEF LedgerInv, KeyOf
<1>11. LedgerInv'
  BY <1>3, <1>10 DEF LedgerInv, Journalled, KeyOf
<1>12. RightPot' /\ NoDoublePay' /\ ReleasedWasPaid'
  BY <1>3 DEF RightPot, NoDoublePay, ReleasedWasPaid, PaidSales, KeyOf
<1> QED BY <1>1, <1>4, <1>5, <1>6, <1>11, <1>12

(* Voiding a sale takes it out of selection and out of "released".         *)
LEMMA VoidSaleInv ==
  ASSUME IInv, Sound, NEW s \in Sales, VoidSale(s) PROVE IInv'
<1> USE DEF IInv, stripe, locals, VoidSale
<1>1. TypeOK'
  BY EnvironmentType DEF Environment
<1>2. led \in [Sales -> Entry] /\ led' = [led EXCEPT ![s].status = "void"]
  BY DEF TypeOK, StoreType, MarkVoid
<1>3. \A r \in Sales : led'[r].status = IF r = s THEN "void" ELSE led[r].status
  BY <1>2 DEF Entry
<1>4. SweepInv'
  BY PersistWorks DEF SweepInv, InGroup, Pays, Journalled
<1>5. SelectionInv'
  BY DEF SelectionInv, PaidSales, KeyOf
<1>6. IntentInv' /\ WireInv'
  BY DEF IntentInv, WireInv, Journalled, PaidSales, KeyOf, Pays
<1>7. LedgerInv'
  BY <1>3 DEF LedgerInv, Journalled, KeyOf
<1>8. RightPot' /\ NoDoublePay' /\ ReleasedWasPaid'
  BY <1>3 DEF RightPot, NoDoublePay, ReleasedWasPaid, PaidSales, KeyOf
<1> QED BY <1>1, <1>4, <1>5, <1>6, <1>7, <1>8

(* A refund or a settlement of funds touches nothing IInv speaks of.       *)
LEMMA RefundFundInv ==
  ASSUME IInv, NEW s \in Sales, Refund(s) \/ Fund(s) PROVE IInv'
<1> USE DEF IInv
<1>1. TypeOK'
  BY EnvironmentType DEF Environment
<1>2. UNCHANGED <<now, sold, payouts, wire, stores, pc, at, locals>>
  BY DEF Refund, Fund
<1>3. SweepInv'
  BY <1>2 DEF SweepInv, InGroup, Pays, Journalled, stores, locals
<1>4. SelectionInv'
  BY <1>2 DEF SelectionInv, PaidSales, KeyOf, locals
<1>5. IntentInv' /\ WireInv'
  BY <1>2 DEF IntentInv, WireInv, Journalled, PaidSales, KeyOf, Pays, stores, locals
<1>6. LedgerInv' /\ RightPot' /\ NoDoublePay' /\ ReleasedWasPaid'
  BY <1>2 DEF LedgerInv, RightPot, NoDoublePay, ReleasedWasPaid, PaidSales,
              Journalled, KeyOf, stores
<1> QED BY <1>1, <1>3, <1>4, <1>5, <1>6

(* A request that Stripe executes pays sales no payout has touched: its    *)
(* set was journalled unpaid and no sweep selects in its currency.         *)
LEMMA DeliverInv ==
  ASSUME IInv, NEW r \in wire, Deliver(r) PROVE IInv'
<1> USE DEF IInv
<1>1. TypeOK'
  BY EnvironmentType DEF Environment
<1>2. /\ wire' = wire \ {r}
      /\ UNCHANGED <<now, sold, net, funded, stores, pc, at, locals>>
  BY DEF Deliver
<1> DEFINE new == [currency |-> r.currency, nets |-> r.nets, at |-> now]
<1>3. payouts' = payouts \/ payouts' = payouts \cup {new}
  BY DEF Deliver
<1>4. /\ r.currency \in Currencies
      /\ Journalled(r.currency) /\ intent[r.currency].nets = r.nets
      /\ KeyOf(r.nets) \cap PaidSales = {}
      /\ \A s \in KeyOf(r.nets) : SettlesIn[s] = r.currency
      /\ intent[r.currency].createdAt <= now
  BY DEF TypeOK, WorldType, Request, WireInv, IntentInv
<1>5. SweepInv'
  BY <1>2 DEF SweepInv, InGroup, Pays, Journalled, stores, locals
<1>6. CASE payouts' = payouts
  <2>1. SelectionInv' /\ IntentInv' /\ WireInv'
    BY <1>2, <1>6 DEF SelectionInv, IntentInv, WireInv, Journalled, PaidSales,
                      KeyOf, Pays, stores, locals
  <2>2. LedgerInv' /\ RightPot'
    BY <1>2, <1>6 DEF LedgerInv, RightPot, PaidSales, Journalled, KeyOf, stores
  <2>3. NoDoublePay' /\ ReleasedWasPaid'
    BY <1>2, <1>6 DEF NoDoublePay, ReleasedWasPaid, PaidSales, KeyOf, stores
  <2> QED BY <1>1, <1>5, <2>1, <2>2, <2>3
<1>7. CASE payouts' = payouts \cup {new}
  <2>1. new.nets = r.nets /\ new.currency = r.currency /\ new.at = now
    OBVIOUS
  <2> HIDE DEF new
  <2>2. \A s \in Sales : s \in PaidSales' <=> s \in PaidSales \/ s \in KeyOf(r.nets)
    BY <1>7, <2>1 DEF PaidSales, KeyOf
  <2>3. \A w \in Sweeps : pc[w] \in {"resolve", "balance"} => cur[w] # r.currency
    BY DEF WireInv, SweepInv, InGroup, Pays
  <2>4. SelectionInv'
    <3> SUFFICES ASSUME NEW w \in Sweeps, pc[w] \in {"resolve", "balance"}
                 PROVE  /\ \A s \in todo[w] : SettlesIn[s] = cur[w] => s \notin PaidSales'
                        /\ \A s \in KeyOf(nets[w]) : s \notin PaidSales'
      BY <1>2 DEF SelectionInv, KeyOf, locals
    <3>1. todo[w] \subseteq Sales /\ KeyOf(nets[w]) \subseteq Sales
      BY DEF TypeOK, SweepType, KeyOf
    <3>2. \A s \in KeyOf(r.nets) : SettlesIn[s] # cur[w]
      BY <1>4, <2>3
    <3> QED
      BY <2>2, <3>1, <3>2 DEF SelectionInv
  <2>5. IntentInv'
    <3> SUFFICES ASSUME NEW c \in Currencies, Journalled(c),
                        NEW p \in payouts',
                        KeyOf(p.nets) \cap KeyOf(intent[c].nets) # {}
                 PROVE  KeyOf(p.nets) = KeyOf(intent[c].nets) /\ p.at >= intent[c].createdAt
      BY <1>2 DEF IntentInv, Journalled, KeyOf, stores
    <3>1. CASE p \in payouts
      BY <3>1 DEF IntentInv
    <3>2. CASE p = new
      <4>1. c = r.currency
        BY <1>4, <2>1, <3>2 DEF IntentInv
      <4> QED
        BY <1>4, <2>1, <3>2, <4>1
    <3> QED BY <1>7, <3>1, <3>2
  <2>6. \A q \in wire' : q.currency # r.currency
    BY <1>2, <1>4 DEF TypeOK, WorldType, Request, WireInv
  <2>7. \A q \in wire' : KeyOf(q.nets) \cap PaidSales' = {}
    <3> SUFFICES ASSUME NEW q \in wire', NEW s \in KeyOf(q.nets) PROVE s \notin PaidSales'
      OBVIOUS
    <3>1. q \in wire /\ q.currency \in Currencies /\ s \in Sales
      BY <1>2 DEF TypeOK, WorldType, Request, KeyOf
    <3>2. SettlesIn[s] = q.currency /\ s \notin PaidSales
      BY <3>1 DEF WireInv, IntentInv
    <3> QED BY <1>4, <2>2, <2>6, <3>1, <3>2
  <2>8. WireInv'
    BY <1>2, <2>7 DEF WireInv, Journalled, Pays, KeyOf, stores, locals
  <2>9. LedgerInv'
    BY <1>2, <1>4, <1>7, <2>1 DEF LedgerInv, Journalled, KeyOf, stores
  <2>10. RightPot'
    BY <1>4, <1>7, <2>1 DEF RightPot, KeyOf
  <2>11. NoDoublePay'
    <3>1. \A p \in payouts : KeyOf(p.nets) \cap KeyOf(r.nets) = {}
      BY <1>4 DEF PaidSales, KeyOf
    <3> QED
      BY <1>7, <2>1, <3>1 DEF NoDoublePay, KeyOf
  <2>12. ReleasedWasPaid'
    BY <1>2, <2>2 DEF ReleasedWasPaid, stores
  <2> QED BY <1>1, <1>5, <2>4, <2>5, <2>8, <2>9, <2>10, <2>11, <2>12
<1> QED BY <1>3, <1>6, <1>7

(* A restart from the journal and a ledger that is as settled as before.   *)
LEMMA RestartInv ==
  ASSUME IInv, TypeOK', NEW l, Restart(l, dintent),
         \A s \in Sales : l[s].status # "none" => s \in sold,
         \A s \in Sales : led[s].status \in {"released", "void"}
                            => l[s].status \in {"released", "void"},
         \A s \in Sales : l[s].status = "released" => s \in PaidSales
  PROVE  IInv'
<1> USE DEF IInv
<1>1. /\ led' = l /\ dled' = l /\ intent' = intent /\ dintent' = intent
      /\ UNCHANGED <<now, sold, payouts, wire>>
      /\ pc' = [w \in Sweeps |-> "idle"]
      /\ at' = [w \in Sweeps |-> now]
      /\ nets' = [w \in Sweeps |-> NoNets]
  BY DEF Restart, SweepInv, stripe
<1>2. SweepInv' /\ SelectionInv'
  BY <1>1 DEF SweepInv, SelectionInv, InGroup, Pays, TypeOK, WorldType, KeyOf, NoNets
<1>3. IntentInv' /\ WireInv'
  BY <1>1 DEF IntentInv, WireInv, Journalled, PaidSales, KeyOf
<1>4. LedgerInv' /\ RightPot' /\ NoDoublePay' /\ ReleasedWasPaid'
  <2>1. \A p \in payouts : KeyOf(p.nets) \subseteq Sales
    BY DEF KeyOf
  <2> QED
    BY <1>1, <2>1 DEF LedgerInv, RightPot, NoDoublePay, ReleasedWasPaid, PaidSales,
                      Journalled, KeyOf
<1> QED BY <1>2, <1>3, <1>4

(* A crash loses the sweep and nothing of the stores.                      *)
LEMMA CrashInv == ASSUME IInv, Crash PROVE IInv'
<1>1. TypeOK'
  BY EnvironmentType DEF Environment, IInv
<1>2. dled = led
  BY DEF IInv, SweepInv
<1>3. Restart(dled, dintent)
  BY DEF Crash
<1> QED
  BY <1>1, <1>2, <1>3, RestartInv DEF IInv, LedgerInv, ReleasedWasPaid

(* Every step of the world around the engine keeps IInv.                   *)
LEMMA EnvironmentInv == ASSUME IInv, Sound, Environment PROVE IInv'
  BY TickInv, RecordHeldInv, VoidSaleInv, RefundFundInv, DeliverInv, CrashInv
  DEF Environment

-----------------------------------------------------------------------------
(* What enters selection is unpaid, provided ledger l accounts for every   *)
(* payout of currency c.                                                   *)
LEMMA SelectsUnpaid ==
  ASSUME IInv, NEW w \in Sweeps, NEW c \in Currencies, NEW l, BeginSelection(w, c, l),
         c \in work[w],
         \A s \in Sales : l[s].status = "held" => s \in sold,
         \A p \in payouts : p.currency = c =>
           \A s \in KeyOf(p.nets) : l[s].status \in {"released", "void"}
  PROVE  /\ pc'[w] \in {"idle", "groups", "resolve"}
         /\ \A v \in Sweeps : v # w =>
              pc'[v] = pc[v] /\ work'[v] = work[v] /\ todo'[v] = todo[v]
         /\ work'[w] \subseteq work[w]
         /\ pc'[w] = "resolve" =>
              /\ c \in work'[w]
              /\ \A s \in todo'[w] : s \in sold /\ (SettlesIn[s] = c => s \notin PaidSales)
<1> DEFINE due == {s \in groups[w][c] : l[s].status = "held" /\ IsDue(s, at[w])}
<1> USE DEF IInv
<1>1. due \subseteq Sales /\ \A s \in due : l[s].status = "held"
  BY DEF TypeOK, SweepType
<1>2. CASE due = {}
  <2> DEFINE next == IF work[w] \subseteq {c} THEN "idle" ELSE "groups"
  <2>1. /\ pc' = [pc EXCEPT ![w] = next]
        /\ todo' = [todo EXCEPT ![w] = {}]
        /\ work' = [work EXCEPT ![w] = @ \ {c}]
    BY <1>2 DEF BeginSelection
  <2>2. next \in {"idle", "groups"}
    OBVIOUS
  <2> HIDE DEF next, due
  <2> QED
    BY <2>1, <2>2 DEF TypeOK, SweepType
<1>3. CASE due # {}
  <2>1. /\ pc' = [pc EXCEPT ![w] = "resolve"]
        /\ todo' = [todo EXCEPT ![w] = due]
        /\ work' = work
    BY <1>3 DEF BeginSelection
  <2> HIDE DEF due
  <2>2. ASSUME NEW s \in due, SettlesIn[s] = c, s \in PaidSales PROVE FALSE
    <3>1. PICK p \in payouts : s \in KeyOf(p.nets)
      BY <2>2 DEF PaidSales
    <3>2. p.currency = c
      BY <2>2, <3>1 DEF RightPot
    <3> QED BY <1>1, <2>2, <3>1, <3>2
  <2> QED
    BY <1>1, <2>1, <2>2 DEF TypeOK, SweepType
<1> QED BY <1>2, <1>3

(* The sweep that is awake is the only one.                                *)
LEMMA OthersIdle ==
  ASSUME IInv, NEW w \in Sweeps, pc[w] # "idle"
  PROVE  \A v \in Sweeps : v # w => pc[v] = "idle"
  BY DEF IInv, SweepInv

(* A sweep starts when no other runs and nothing is on the wire.           *)
LEMMA StartSweepInv ==
  ASSUME IInv, Sound, NEW w \in Sweeps, StartSweep(w) PROVE IInv'
<1> USE DEF IInv
<1>1. TypeOK'
  BY StepType DEF Step
<1>2. /\ pc[w] = "idle" /\ pc'[w] \in {"idle", "groups"}
      /\ \A v \in Sweeps : v # w => pc'[v] = pc[v] /\ pc[v] = "idle" /\ at'[v] = at[v]
      /\ at'[w] = now
      /\ \A v \in Sweeps : at[v] < now
      /\ UNCHANGED <<now, sold, payouts, wire, stores, cur, todo, nets, pend>>
  BY DEF StartSweep, Sound, TypeOK, SweepType, stripe
<1>3. wire = {}
  BY <1>2 DEF TypeOK, WorldType, SweepType, WireInv
<1>4. SweepInv'
  <2>0. led' = dled' /\ intent' = dintent'
    BY <1>2 DEF SweepInv, stores
  <2>a. now \in Nat
    BY DEF TypeOK, WorldType
  <2>1. \A v \in Sweeps : at'[v] <= now' /\ (pc'[v] # "idle" => at'[v] = now')
    BY <1>2, <2>a DEF SweepInv
  <2>2. \A v \in Sweeps : pc'[v] \in {"idle", "groups"}
    BY <1>2
  <2>3. \A v \in Sweeps : v # w => pc'[v] = "idle"
    BY <1>2
  <2> QED
    BY <2>0, <2>1, <2>2, <2>3 DEF SweepInv, InGroup, Pays
<1>5. SelectionInv'
  BY <1>2 DEF SelectionInv, KeyOf, PaidSales
<1>6. IntentInv' /\ WireInv'
  BY <1>2, <1>3 DEF IntentInv, WireInv, Journalled, KeyOf, stores
<1>7. LedgerInv'
  BY <1>2 DEF LedgerInv, Journalled, KeyOf, stores
<1>8. RightPot' /\ NoDoublePay'
  BY <1>2 DEF RightPot, NoDoublePay, KeyOf
<1>9. ReleasedWasPaid'
  BY <1>2 DEF ReleasedWasPaid, PaidSales, KeyOf, stores
<1> QED BY <1>1, <1>4, <1>5, <1>6, <1>7, <1>8, <1>9

(* What a step of the awake sweep w must establish about itself, so that   *)
(* the invariants of the sweeps are kept.                                  *)
MovesWell(w) ==
  /\ InGroup(w)' => cur'[w] \in work'[w]
  /\ pc'[w] = "lookup" \/ Pays(w)'
       => (Journalled(cur[w]) /\ pend[w] = intent[cur[w]])'
  /\ pc'[w] \in {"resolve", "balance"} =>
       /\ ~Journalled(cur[w])'
       /\ \A s \in todo'[w] : s \in sold /\ (SettlesIn[s] = cur'[w] => s \notin PaidSales)
       /\ \A s \in KeyOf(nets'[w]) :
            s \in sold /\ SettlesIn[s] = cur'[w] /\ s \notin PaidSales
  /\ pc'[w] \notin {"resolve", "balance", "paying"} => KeyOf(nets'[w]) = {}
  /\ \A v \in Sweeps : v # w => pc'[v] = pc[v] /\ nets'[v] = nets[v]

(* A step of one sweep that moves well keeps the sweep part of IInv.       *)
LEMMA MoveInv ==
  ASSUME IInv, TypeOK', NEW w \in Sweeps, pc[w] # "idle", MovesWell(w),
         UNCHANGED <<now, sold, payouts, at>>, led' = dled', intent' = dintent'
  PROVE  SweepInv' /\ SelectionInv'
<1> USE DEF IInv
<1>1. \A v \in Sweeps : v # w => pc[v] = "idle" /\ pc'[v] = "idle" /\ nets'[v] = nets[v]
  BY OthersIdle DEF MovesWell
<1>2. \A v \in Sweeps : at'[v] <= now' /\ (pc'[v] # "idle" => at'[v] = now')
  BY <1>1 DEF SweepInv
<1>3. \A v, u \in Sweeps : pc'[v] # "idle" /\ pc'[u] # "idle" => v = u
  BY <1>1
<1>4. SweepInv'
  BY <1>1, <1>2, <1>3 DEF SweepInv, InGroup, Pays, MovesWell
<1>5. PaidSales' = PaidSales
  BY DEF PaidSales
<1>6. SelectionInv'
  BY <1>1, <1>5 DEF SelectionInv, KeyOf, MovesWell
<1> QED BY <1>4, <1>6

(* A step of sweep w that leaves the world and the stores alone keeps IInv *)
(* if it moves well and drops a currency it was paying.                    *)
LEMMA LocalStepInv ==
  ASSUME IInv, TypeOK', NEW w \in Sweeps, pc[w] # "idle", MovesWell(w),
         UNCHANGED <<now, sold, payouts, wire, stores, at>>,
         work'[w] \subseteq work[w],
         ~Pays(w) \/ (cur[w] \notin work'[w])
  PROVE  IInv'
<1> USE DEF IInv
<1>1. SweepInv' /\ SelectionInv'
  BY MoveInv DEF SweepInv, stores
<1>2. IntentInv'
  BY DEF IntentInv, Journalled, KeyOf, stores
<1>3. WireInv'
  <2>1. \A v \in Sweeps : v # w => pc'[v] = "idle"
    BY OthersIdle DEF MovesWell
  <2>2. \A r \in wire : \A v \in Sweeps : pc'[v] # "idle" => r.currency \notin work'[v]
    BY <2>1 DEF WireInv
  <2>3. PaidSales' = PaidSales
    BY DEF PaidSales
  <2> QED
    BY <2>2, <2>3 DEF WireInv, Journalled, KeyOf, stores
<1>4. LedgerInv'
  BY DEF LedgerInv, Journalled, KeyOf, stores
<1>5. RightPot' /\ NoDoublePay'
  BY DEF RightPot, NoDoublePay, KeyOf
<1>6. ReleasedWasPaid'
  BY DEF ReleasedWasPaid, PaidSales, KeyOf, stores
<1> QED BY <1>1, <1>2, <1>3, <1>4, <1>5, <1>6

(* The sweep leaves the currency it was working on.                        *)
LEMMA EndGroupMoves ==
  ASSUME TypeOK, NEW w \in Sweeps, EndGroup(w)
  PROVE  MovesWell(w) /\ work'[w] = work[w] \ {cur[w]}
<1>1. /\ pc'[w] \in {"idle", "groups"} /\ nets'[w] = NoNets
      /\ work'[w] = work[w] \ {cur[w]}
      /\ \A v \in Sweeps : v # w => pc'[v] = pc[v] /\ nets'[v] = nets[v]
  BY DEF EndGroup, TypeOK, SweepType
<1>2. KeyOf(NoNets) = {}
  BY DEF KeyOf, NoNets
<1> QED BY <1>1, <1>2 DEF MovesWell, InGroup, Pays

(* Giving up on a group, with or without its intent journalled, is safe.   *)
LEMMA EndGroupInv ==
  ASSUME IInv, NEW w \in Sweeps, LookupFails(w) \/ Defer(w) \/ PayThrows(w) PROVE IInv'
<1>1. TypeOK /\ TypeOK'
  BY StepType DEF Step, IInv
<1>2. /\ EndGroup(w) /\ UNCHANGED <<now, sold, payouts, wire, stores, at>>
      /\ pc[w] # "idle"
  BY DEF LookupFails, Defer, PayThrows, stripe
<1> QED
  BY <1>1, <1>2, EndGroupMoves, LocalStepInv

(* Entering a group looks its intent up, or selects what is unpaid.        *)
LEMMA BeginGroupInv ==
  ASSUME IInv, NEW w \in Sweeps, NEW c \in Currencies, BeginGroup(w, c) PROVE IInv'
<1> USE DEF IInv
<1>1. TypeOK /\ TypeOK'
  BY StepType DEF Step
<1>2. /\ pc[w] = "groups" /\ c \in work[w]
      /\ cur'[w] = c /\ nets' = nets
      /\ UNCHANGED <<now, sold, payouts, wire, stores, at>>
  BY DEF BeginGroup, TypeOK, SweepType, stripe
<1>3. KeyOf(nets[w]) = {}
  BY <1>2 DEF SelectionInv
<1>4. CASE intent[c] # NoIntent
  <2>1. /\ pc'[w] = "lookup" /\ work' = work /\ pend'[w] = intent[c]
        /\ \A v \in Sweeps : v # w => pc'[v] = pc[v]
    BY <1>4 DEF BeginGroup, TypeOK, SweepType
  <2>2. MovesWell(w)
    BY <1>2, <1>3, <1>4, <2>1 DEF MovesWell, InGroup, Pays, Journalled, stores
  <2> QED
    BY <1>1, <1>2, <2>1, <2>2, LocalStepInv DEF Pays
<1>5. CASE intent[c] = NoIntent
  <2>1. BeginSelection(w, c, led)
    BY <1>5 DEF BeginGroup
  <2>2. \A p \in payouts : p.currency = c =>
          \A s \in KeyOf(p.nets) : led[s].status \in {"released", "void"}
    BY <1>5 DEF LedgerInv, Journalled
  <2>3. /\ pc'[w] \in {"idle", "groups", "resolve"}
        /\ \A v \in Sweeps : v # w => pc'[v] = pc[v]
        /\ work'[w] \subseteq work[w]
        /\ pc'[w] = "resolve" =>
             /\ c \in work'[w]
             /\ \A s \in todo'[w] : s \in sold /\ (SettlesIn[s] = c => s \notin PaidSales)
    BY <1>2, <2>1, <2>2, SelectsUnpaid DEF LedgerInv
  <2>4. MovesWell(w)
    BY <1>2, <1>3, <1>5, <2>3 DEF MovesWell, InGroup, Pays, Journalled, stores
  <2> QED
    BY <1>1, <1>2, <2>3, <2>4, LocalStepInv DEF Pays
<1> QED BY <1>4, <1>5

(* Resolving a due sale keeps the payable set unpaid and in its currency.  *)
LEMMA ResolveMoves ==
  ASSUME IInv, TypeOK', NEW w \in Sweeps, pc[w] = "resolve",
         IF todo'[w] = {} THEN EndResolve(w) ELSE UNCHANGED <<pc, work>>,
         UNCHANGED <<cur, intent>>, todo'[w] \subseteq todo[w],
         \A v \in Sweeps : v # w => nets'[v] = nets[v],
         \A s \in KeyOf(nets'[w]) :
           s \in KeyOf(nets[w]) \/ (s \in todo[w] /\ SettlesIn[s] = cur[w])
  PROVE  MovesWell(w) /\ work'[w] \subseteq work[w]
<1> USE DEF IInv
<1>1. /\ \/ pc'[w] \in {"idle", "groups"} /\ KeyOf(nets'[w]) = {}
         \/ pc'[w] = "balance" /\ work' = work
         \/ pc'[w] = "resolve" /\ work' = work
      /\ work'[w] \subseteq work[w]
      /\ \A v \in Sweeps : v # w => pc'[v] = pc[v]
  <2>1. CASE UNCHANGED <<pc, work>>
    BY <2>1
  <2>2. CASE EndResolve(w) /\ KeyOf(nets'[w]) = {}
    <3> DEFINE next == IF work[w] \subseteq {cur[w]} THEN "idle" ELSE "groups"
    <3>1. pc' = [pc EXCEPT ![w] = next] /\ work' = [work EXCEPT ![w] = @ \ {cur[w]}]
      BY <2>2 DEF EndResolve
    <3>2. next \in {"idle", "groups"}
      OBVIOUS
    <3> HIDE DEF next
    <3> QED BY <2>2, <3>1, <3>2 DEF TypeOK, SweepType
  <2>3. CASE EndResolve(w) /\ KeyOf(nets'[w]) # {}
    <3>1. pc' = [pc EXCEPT ![w] = "balance"] /\ work' = work
      BY <2>3 DEF EndResolve
    <3> QED BY <3>1 DEF TypeOK, SweepType
  <2> QED BY <2>1, <2>2, <2>3
<1>2. cur[w] \in work[w] /\ ~Journalled(cur[w])
  BY DEF SweepInv, InGroup
<1>3. /\ \A s \in todo[w] : s \in sold /\ (SettlesIn[s] = cur[w] => s \notin PaidSales)
      /\ \A s \in KeyOf(nets[w]) : s \in sold /\ SettlesIn[s] = cur[w] /\ s \notin PaidSales
  BY DEF SelectionInv
<1> QED
  BY <1>1, <1>2, <1>3 DEF MovesWell, InGroup, Pays, Journalled

(* A sale Stripe cannot resolve merely leaves the selection.               *)
LEMMA ResolveFailsInv ==
  ASSUME IInv, NEW w \in Sweeps, ResolveFails(w) PROVE IInv'
<1>1. TypeOK /\ TypeOK'
  BY StepType DEF Step, IInv
<1>2. /\ pc[w] = "resolve" /\ nets' = nets
      /\ IF todo'[w] = {} THEN EndResolve(w) ELSE UNCHANGED <<pc, work>>
      /\ UNCHANGED <<now, sold, payouts, wire, stores, at, cur, intent>>
  BY DEF ResolveFails, stripe, stores
<1>3. todo'[w] \subseteq todo[w]
  BY <1>1 DEF ResolveFails, TypeOK, SweepType
<1>4. MovesWell(w) /\ work'[w] \subseteq work[w]
  BY <1>1, <1>2, <1>3, ResolveMoves
<1> QED
  BY <1>1, <1>2, <1>4, LocalStepInv DEF Pays

(* Resolving a sale may void or regroup it, never release it.              *)
LEMMA ResolveInv ==
  ASSUME IInv, Sound, NEW w \in Sweeps, Resolve(w) PROVE IInv'
<1> USE DEF IInv
<1>1. TypeOK /\ TypeOK'
  BY StepType DEF Step
<1>2. /\ pc[w] = "resolve"
      /\ IF todo'[w] = {} THEN EndResolve(w) ELSE UNCHANGED <<pc, work>>
      /\ UNCHANGED <<now, sold, payouts, wire, intent, dintent, at, cur>>
  BY DEF Resolve, ResolvedNet, stripe
<1>3. PICK s \in todo[w] :
        /\ todo' = [todo EXCEPT ![w] = @ \ {s}]
        /\ \/ SettlesIn[s] = cur[w] /\ nets' = [nets EXCEPT ![w][s] = net[s]]
           \/ nets' = nets
        /\ led' = MarkVoid(s) \/ led' = [led EXCEPT ![s].currency = SettlesIn[s]]
        /\ dled' \in IF led' = led THEN {dled} ELSE Persist(dled, led')
  BY DEF Resolve, ResolvedNet
<1>4. s \in Sales /\ led \in [Sales -> Entry] /\ led = dled
  BY DEF TypeOK, SweepType, StoreType, SweepInv
<1>5. todo'[w] \subseteq todo[w]
  BY <1>1, <1>3 DEF TypeOK, SweepType
<1>6. /\ \A v \in Sweeps : v # w => nets'[v] = nets[v]
      /\ \A r \in KeyOf(nets'[w]) :
           r \in KeyOf(nets[w]) \/ (r \in todo[w] /\ SettlesIn[r] = cur[w])
  <2>1. CASE nets' = nets
    BY <2>1
  <2>2. CASE SettlesIn[s] = cur[w] /\ nets' = [nets EXCEPT ![w][s] = net[s]]
    <3>1. /\ \A v \in Sweeps : v # w => nets'[v] = nets[v]
          /\ \A r \in Sales : r # s => nets'[w][r] = nets[w][r]
      BY <2>2, <1>4 DEF TypeOK, SweepType, Amounts
    <3> QED BY <2>2, <3>1, <1>4 DEF KeyOf
  <2> QED BY <1>3, <2>1, <2>2
<1>7. MovesWell(w) /\ work'[w] \subseteq work[w]
  BY <1>1, <1>2, <1>5, <1>6, ResolveMoves
<1>8. led' = dled'
  BY <1>3, <1>4, PersistWorks
<1>9. SweepInv' /\ SelectionInv'
  BY <1>1, <1>2, <1>7, <1>8, MoveInv DEF SweepInv
<1>10. IntentInv' /\ RightPot' /\ NoDoublePay'
  BY <1>2 DEF IntentInv, Journalled, KeyOf, RightPot, NoDoublePay
<1>11. WireInv'
  <2>1. \A v \in Sweeps : v # w => pc'[v] = "idle"
    BY <1>2, <1>7, OthersIdle DEF MovesWell
  <2>2. \A r \in wire : \A v \in Sweeps : pc'[v] # "idle" => r.currency \notin work'[v]
    BY <1>2, <1>7, <2>1 DEF WireInv, Pays
  <2>3. PaidSales' = PaidSales
    BY <1>2 DEF PaidSales
  <2> QED
    BY <1>2, <2>2, <2>3 DEF WireInv, Journalled, KeyOf
<1>12. \A r \in Sales : \/ led'[r].status = led[r].status
                        \/ r = s /\ led'[r].status = "void"
  <2>1. CASE led' = MarkVoid(s)
    BY <2>1, <1>4 DEF MarkVoid, Entry
  <2>2. CASE led' = [led EXCEPT ![s].currency = SettlesIn[s]]
    BY <2>2, <1>4 DEF Entry
  <2> QED BY <1>3, <2>1, <2>2
<1>13. s \in sold
  BY <1>2 DEF SelectionInv
<1>14. LedgerInv'
  BY <1>2, <1>12, <1>13 DEF LedgerInv, Journalled, KeyOf
<1>15. ReleasedWasPaid'
  BY <1>2, <1>12 DEF ReleasedWasPaid, PaidSales, KeyOf
<1> QED BY <1>1, <1>9, <1>10, <1>11, <1>14, <1>15

(* Recording a payout that exists: the journalled set becomes released and *)
(* the journal entry goes, and no payout of the currency stays unaccounted. *)
LEMMA SettleKeeps ==
  ASSUME IInv, Sound, NEW w \in Sweeps, Settle(w),
         pc[w] = "lookup" \/ Pays(w),
         \E p \in payouts : KeyOf(p.nets) = KeyOf(pend[w].nets),
         UNCHANGED <<now, sold, payouts>>
  PROVE  /\ led' = dled' /\ intent' = dintent'
         /\ intent' = [intent EXCEPT ![cur[w]] = NoIntent]
         /\ IntentInv' /\ LedgerInv' /\ RightPot' /\ NoDoublePay' /\ ReleasedWasPaid'
         /\ \A p \in payouts : p.currency = cur[w] =>
              \A s \in KeyOf(p.nets) : led'[s].status \in {"released", "void"}
         /\ \A s \in Sales : led'[s].status = "held" => s \in sold
<1> USE DEF IInv
<1>1. /\ led' = dled' /\ intent' = dintent'
      /\ intent' = [intent EXCEPT ![cur[w]] = NoIntent]
  BY PersistWorks DEF Settle
<1>2. /\ cur[w] \in Currencies /\ Journalled(cur[w]) /\ pend[w] = intent[cur[w]]
      /\ led \in [Sales -> Entry]
      /\ intent \in [Currencies -> Intent \cup {NoIntent}]
  BY DEF TypeOK, SweepType, StoreType, SweepInv
<1> DEFINE K == KeyOf(pend[w].nets)
<1>3. \A s \in Sales :
        led'[s].status = IF s \in K THEN "released" ELSE led[s].status
  BY <1>2 DEF Settle, MarkManyReleased, Entry
<1>4. K \subseteq sold /\ K \subseteq PaidSales
  BY <1>2 DEF IntentInv, PaidSales, KeyOf
<1>5. \A c \in Currencies : Journalled(c)' => c # cur[w] /\ Journalled(c) /\ intent'[c] = intent[c]
  BY <1>1, <1>2 DEF Journalled
<1>6. IntentInv'
  BY <1>5 DEF IntentInv, KeyOf
<1>7. RightPot' /\ NoDoublePay'
  BY DEF RightPot, NoDoublePay, KeyOf
<1>8. PaidSales' = PaidSales
  BY DEF PaidSales
<1>9. ReleasedWasPaid'
  BY <1>3, <1>4, <1>8 DEF ReleasedWasPaid
<1>10. \A p \in payouts : p.currency \in Currencies /\ KeyOf(p.nets) \subseteq Sales
  BY DEF TypeOK, WorldType, Payout, KeyOf
<1> HIDE DEF K
<1>11. \A p \in payouts : p.currency = cur[w] =>
         \A s \in KeyOf(p.nets) : led'[s].status \in {"released", "void"}
  <2>1. K = KeyOf(intent[cur[w]].nets)
    BY <1>2 DEF K
  <2> QED
    BY <1>3, <1>10, <2>1 DEF LedgerInv
<1>12. \A c \in Currencies : c # cur[w] => intent'[c] = intent[c]
  BY <1>1, <1>2
<1>13. LedgerInv'
  <2>1. \A s \in Sales : led'[s].status # "none" => s \in sold
    BY <1>3, <1>4 DEF LedgerInv
  <2>2. ASSUME NEW p \in payouts, NEW s \in KeyOf(p.nets)
        PROVE \/ led'[s].status \in {"released", "void"}
              \/ Journalled(p.currency)' /\ KeyOf(intent'[p.currency].nets) = KeyOf(p.nets)
    <3>1. CASE p.currency = cur[w]
      BY <1>11, <3>1
    <3>2. CASE p.currency # cur[w]
      BY <1>3, <1>10, <1>12, <3>2 DEF LedgerInv, Journalled
    <3> QED BY <3>1, <3>2
  <2> QED
    BY <2>1, <2>2 DEF LedgerInv, KeyOf
<1>14. \A s \in Sales : led'[s].status = "held" => s \in sold
  BY <1>13 DEF LedgerInv
<1> QED BY <1>1, <1>6, <1>7, <1>9, <1>11, <1>13, <1>14

(* While w settles a payout, no request of its currency is in flight.      *)
LEMMA NothingInFlight ==
  ASSUME IInv, NEW w \in Sweeps,
         pc[w] = "lookup" \/ (Pays(w) /\ Accepted(w))
  PROVE  \A r \in wire : r.currency # cur[w]
<1> USE DEF IInv
<1> SUFFICES ASSUME NEW r \in wire, r.currency = cur[w] PROVE FALSE
  OBVIOUS
<1>1. cur[w] \in work[w] /\ pend[w] = intent[cur[w]]
  BY DEF SweepInv, InGroup, Pays
<1>2. intent[cur[w]].nets = r.nets
  BY DEF WireInv
<1>3. Pays(w)
  BY <1>1 DEF WireInv, Pays
<1>4. r = [currency |-> cur[w], nets |-> pend[w].nets]
  BY <1>1, <1>2 DEF TypeOK, WorldType, Request
<1> QED BY <1>3, <1>4 DEF Accepted, Pays

(* Dropping the journal entry of a currency with nothing in flight.        *)
LEMMA WireAfterClear ==
  ASSUME IInv, NEW w \in Sweeps, pc[w] # "idle", cur[w] \in Currencies,
         \A r \in wire : r.currency # cur[w],
         intent' = [intent EXCEPT ![cur[w]] = NoIntent],
         UNCHANGED <<now, payouts, wire, at>>, work'[w] \subseteq work[w],
         \A v \in Sweeps : v # w => pc'[v] = pc[v]
  PROVE  WireInv'
<1> USE DEF IInv
<1>1. \A v \in Sweeps : v # w => pc'[v] = "idle"
  BY OthersIdle
<1>2. \A r \in wire : r.currency \in Currencies /\ intent'[r.currency] = intent[r.currency]
  BY DEF TypeOK, WorldType, StoreType, Request
<1>3. \A r \in wire : r.currency \notin work'[w] \/ pc'[w] = "idle"
  BY DEF WireInv, Pays
<1>4. PaidSales' = PaidSales
  BY DEF PaidSales
<1> QED
  BY <1>1, <1>2, <1>3, <1>4 DEF WireInv, Journalled, KeyOf

(* Settling a confirmed payout releases exactly the sales it paid.         *)
LEMMA SettleInv ==
  ASSUME IInv, Sound, NEW w \in Sweeps,
         LookupFound(w) \/ ReplayReturns(w) \/ PayReturns(w)
  PROVE  IInv'
<1> USE DEF IInv
<1>1. TypeOK /\ TypeOK'
  BY StepType DEF Step
<1>2. /\ Settle(w) /\ (pc[w] = "lookup" \/ Pays(w))
      /\ \E p \in payouts : KeyOf(p.nets) = KeyOf(pend[w].nets)
      /\ UNCHANGED <<now, sold, payouts, wire, at>>
      /\ pc[w] = "lookup" \/ (Pays(w) /\ Accepted(w))
  BY DEF LookupFound, ReplayReturns, PayReturns, OnStripe, Accepted, Pays, stripe
<1>3. /\ led' = dled' /\ intent' = dintent'
      /\ intent' = [intent EXCEPT ![cur[w]] = NoIntent]
      /\ IntentInv' /\ LedgerInv' /\ RightPot' /\ NoDoublePay' /\ ReleasedWasPaid'
      /\ \A p \in payouts : p.currency = cur[w] =>
           \A s \in KeyOf(p.nets) : led'[s].status \in {"released", "void"}
      /\ \A s \in Sales : led'[s].status = "held" => s \in sold
  BY <1>2, SettleKeeps
<1>4. /\ cur[w] \in Currencies /\ cur[w] \in work[w] /\ pc[w] # "idle"
      /\ intent'[cur[w]] = NoIntent
  BY <1>2, <1>3 DEF TypeOK, SweepType, StoreType, SweepInv, InGroup, Pays
<1>5. MovesWell(w) /\ work'[w] \subseteq work[w]
  <2>1. CASE PayReturns(w)
    BY <1>1, <2>1, EndGroupMoves DEF PayReturns
  <2>2. CASE LookupFound(w) \/ ReplayReturns(w)
    <3>1. BeginSelection(w, cur[w], led') /\ UNCHANGED <<cur, nets>>
      BY <2>2 DEF LookupFound, ReplayReturns
    <3>2. KeyOf(nets[w]) = {}
      BY <2>2 DEF LookupFound, ReplayReturns, SelectionInv
    <3>3. /\ pc'[w] \in {"idle", "groups", "resolve"}
          /\ \A v \in Sweeps : v # w => pc'[v] = pc[v]
          /\ work'[w] \subseteq work[w]
          /\ pc'[w] = "resolve" =>
               /\ cur[w] \in work'[w]
               /\ \A s \in todo'[w] : s \in sold /\ (SettlesIn[s] = cur[w] => s \notin PaidSales)
      BY <1>3, <1>4, <3>1, SelectsUnpaid
    <3> QED
      BY <1>4, <3>1, <3>2, <3>3 DEF MovesWell, InGroup, Pays, Journalled
  <2> QED BY <2>1, <2>2
<1>6. SweepInv' /\ SelectionInv'
  BY <1>1, <1>2, <1>3, <1>4, <1>5, MoveInv
<1>7. \A r \in wire : r.currency # cur[w]
  BY <1>2, NothingInFlight
<1>8. WireInv'
  BY <1>2, <1>3, <1>4, <1>5, <1>7, WireAfterClear DEF MovesWell
<1> QED BY <1>1, <1>3, <1>6, <1>8

(* An absent payout was never made: the journalled set is unpaid.          *)
LEMMA AbsentIsUnpaid ==
  ASSUME IInv, NEW w \in Sweeps, pc[w] = "lookup", ~OnStripe(pend[w])
  PROVE  /\ Journalled(cur[w]) /\ pend[w] = intent[cur[w]]
         /\ KeyOf(pend[w].nets) \cap PaidSales = {}
<1>1. cur[w] \in Currencies /\ Journalled(cur[w]) /\ pend[w] = intent[cur[w]]
  BY DEF IInv, TypeOK, SweepType, SweepInv
<1>2. \A p \in payouts : KeyOf(p.nets) \cap KeyOf(pend[w].nets) = {}
  BY <1>1 DEF IInv, IntentInv, OnStripe
<1> QED BY <1>1, <1>2 DEF PaidSales

(* Sending the journalled request of the group in hand.                    *)
LEMMA SendInv ==
  ASSUME IInv, TypeOK', NEW w \in Sweeps, pc[w] # "idle", at[w] = now,
         cur[w] \in work[w], ~Pays(w), Pays(w)',
         UNCHANGED <<now, payouts, at, cur, work>>,
         \A v \in Sweeps : v # w => pc'[v] = pc[v],
         Journalled(cur[w])',
         \A c \in Currencies : c # cur[w] => intent'[c] = intent[c],
         wire' = wire \cup {[currency |-> cur[w], nets |-> intent'[cur[w]].nets]},
         KeyOf(intent'[cur[w]].nets) \cap PaidSales = {}
  PROVE  WireInv'
<1> USE DEF IInv
<1> DEFINE q == [currency |-> cur[w], nets |-> intent'[cur[w]].nets]
<1>1. \A v \in Sweeps : v # w => pc'[v] = "idle"
  BY OthersIdle
<1>2. PaidSales' = PaidSales
  BY DEF PaidSales
<1>3. q.currency = cur[w] /\ q.nets = intent'[cur[w]].nets
  OBVIOUS
<1> HIDE DEF q
<1>4. \A r \in wire : /\ r.currency \in Currencies /\ r.currency # cur[w]
                      /\ r.currency \notin work[w]
  BY DEF TypeOK, WorldType, Request, WireInv, Pays
<1>5. ASSUME NEW r \in wire'
      PROVE  /\ Journalled(r.currency)' /\ intent'[r.currency].nets = r.nets
             /\ KeyOf(r.nets) \cap PaidSales = {}
             /\ \A v \in Sweeps : pc'[v] # "idle" =>
                  r.currency \notin work'[v] \/ (Pays(v)' /\ cur'[v] = r.currency)
  <2>1. CASE r \in wire
    BY <1>1, <1>4, <2>1 DEF WireInv, Journalled
  <2>2. CASE r = q
    BY <1>1, <1>3, <2>2 DEF Journalled
  <2> QED BY <2>1, <2>2 DEF q
<1> QED
  BY <1>2, <1>5 DEF WireInv, KeyOf

(* Replaying an absent intent sends an unpaid, journalled set.             *)
LEMMA ReplayInv ==
  ASSUME IInv, NEW w \in Sweeps, Replay(w) PROVE IInv'
<1> USE DEF IInv
<1> DEFINE q == [currency |-> cur[w], nets |-> pend[w].nets]
<1>1. TypeOK /\ TypeOK'
  BY StepType DEF Step
<1>2. /\ pc[w] = "lookup" /\ ~OnStripe(pend[w]) /\ wire' = wire \cup {q}
      /\ UNCHANGED <<now, sold, payouts, stores, at, locals>>
      /\ pc'[w] = "replaying" /\ \A v \in Sweeps : v # w => pc'[v] = pc[v]
  BY <1>1 DEF Replay, TypeOK, SweepType
<1>3. /\ Journalled(cur[w]) /\ pend[w] = intent[cur[w]]
      /\ KeyOf(pend[w].nets) \cap PaidSales = {}
  BY <1>2, AbsentIsUnpaid
<1>4. cur[w] \in work[w] /\ KeyOf(nets[w]) = {}
  BY <1>2 DEF SweepInv, InGroup, SelectionInv
<1>5. MovesWell(w)
  BY <1>2, <1>3, <1>4 DEF MovesWell, InGroup, Pays, Journalled, stores, locals, KeyOf
<1>6. SweepInv' /\ SelectionInv'
  BY <1>1, <1>2, <1>5, MoveInv DEF SweepInv, stores
<1>7. at[w] = now /\ Pays(w)'
  BY <1>2 DEF SweepInv, Pays
<1>8. UNCHANGED <<now, sold, payouts, led, intent, at, cur, work>>
  BY <1>2 DEF stores, locals
<1>9. /\ wire' = wire \cup {[currency |-> cur[w], nets |-> intent'[cur[w]].nets]}
      /\ Journalled(cur[w])' /\ KeyOf(intent'[cur[w]].nets) \cap PaidSales = {}
  BY <1>2, <1>3, <1>8 DEF Journalled
<1> HIDE DEF q
<1>10. IntentInv'
  BY <1>8 DEF IntentInv, Journalled
<1>11. RightPot' /\ NoDoublePay'
  BY <1>8 DEF RightPot, NoDoublePay
<1>12. LedgerInv' /\ ReleasedWasPaid'
  BY <1>8 DEF LedgerInv, ReleasedWasPaid, PaidSales, Journalled
<1>13. WireInv'
  <2>1. pc[w] # "idle" /\ ~Pays(w)
    BY <1>2 DEF Pays
  <2> QED
    BY <1>1, <1>2, <1>4, <1>7, <1>8, <1>9, <2>1, SendInv
<1> QED BY <1>1, <1>6, <1>10, <1>11, <1>12, <1>13

(* Abandoning an absent intent frees an unpaid set for selection.          *)
LEMMA AbandonInv ==
  ASSUME IInv, Sound, NEW w \in Sweeps, Abandon(w) PROVE IInv'
<1> USE DEF IInv
<1>1. TypeOK /\ TypeOK'
  BY StepType DEF Step
<1>2. /\ pc[w] = "lookup" /\ ~OnStripe(pend[w])
      /\ intent' = [intent EXCEPT ![cur[w]] = NoIntent]
      /\ dintent' \in Persist(dintent, intent')
      /\ BeginSelection(w, cur[w], led)
      /\ UNCHANGED <<now, sold, payouts, wire, led, dled, at, cur, nets>>
  BY DEF Abandon, stripe
<1>3. /\ cur[w] \in Currencies /\ cur[w] \in work[w] /\ KeyOf(nets[w]) = {}
      /\ led = dled /\ intent' = dintent'
  BY <1>1, <1>2, PersistWorks
  DEF TypeOK, SweepType, SweepInv, InGroup, SelectionInv
<1>4. KeyOf(intent[cur[w]].nets) \cap PaidSales = {}
  BY <1>2, AbsentIsUnpaid
<1>5. /\ intent'[cur[w]] = NoIntent
      /\ \A c \in Currencies : c # cur[w] => intent'[c] = intent[c]
  BY <1>1, <1>2, <1>3 DEF TypeOK, StoreType
<1>6. \A p \in payouts : p.currency \in Currencies /\ KeyOf(p.nets) \subseteq Sales
  BY <1>1 DEF TypeOK, WorldType, Payout, KeyOf
<1>7. \A p \in payouts : p.currency = cur[w] =>
        \A s \in KeyOf(p.nets) : led[s].status \in {"released", "void"}
  <2> SUFFICES ASSUME NEW p \in payouts, p.currency = cur[w], NEW s \in KeyOf(p.nets)
               PROVE  led[s].status \in {"released", "void"}
    OBVIOUS
  <2>1. s \in PaidSales
    BY <1>6 DEF PaidSales
  <2> QED
    BY <1>4, <2>1 DEF LedgerInv
<1>8. /\ pc'[w] \in {"idle", "groups", "resolve"}
      /\ \A v \in Sweeps : v # w => pc'[v] = pc[v]
      /\ work'[w] \subseteq work[w]
      /\ pc'[w] = "resolve" =>
           /\ cur[w] \in work'[w]
           /\ \A s \in todo'[w] : s \in sold /\ (SettlesIn[s] = cur[w] => s \notin PaidSales)
  BY <1>2, <1>3, <1>7, SelectsUnpaid DEF LedgerInv
<1>9. MovesWell(w)
  BY <1>2, <1>3, <1>5, <1>8 DEF MovesWell, InGroup, Pays, Journalled
<1>10. SweepInv' /\ SelectionInv'
  BY <1>1, <1>2, <1>3, <1>9, MoveInv
<1>11. IntentInv'
  BY <1>2, <1>5 DEF IntentInv, Journalled, KeyOf
<1>12. LedgerInv'
  BY <1>2, <1>5, <1>6, <1>7 DEF LedgerInv, Journalled, KeyOf
<1>13. RightPot' /\ NoDoublePay'
  BY <1>2 DEF RightPot, NoDoublePay, KeyOf
<1>14. ReleasedWasPaid'
  BY <1>2 DEF ReleasedWasPaid, PaidSales, KeyOf
<1>15. \A r \in wire : r.currency # cur[w]
  BY <1>2, NothingInFlight
<1>16. WireInv'
  BY <1>2, <1>3, <1>8, <1>15, WireAfterClear
<1> QED BY <1>1, <1>10, <1>11, <1>12, <1>13, <1>14, <1>16

(* Journalling and sending a selected set: unpaid, held and journalled.    *)
LEMMA JournalAndPayInv ==
  ASSUME IInv, NEW w \in Sweeps, JournalAndPay(w) PROVE IInv'
<1> USE DEF IInv
<1> DEFINE selected == FittingPrefix(nets[w], Available(cur[w]))
           i == [nets |-> [s \in Sales |-> IF s \in selected THEN nets[w][s] ELSE 0],
                 forced |-> {s \in selected : ~EventOver(s, at[w])},
                 createdAt |-> at[w]]
<1>1. TypeOK /\ TypeOK'
  BY StepType DEF Step
<1>2. /\ pc[w] = "balance" /\ selected # {}
      /\ intent' = [intent EXCEPT ![cur[w]] = i] /\ dintent' = intent'
      /\ pend' = [pend EXCEPT ![w] = i]
      /\ wire' = wire \cup {[currency |-> cur[w], nets |-> i.nets]}
      /\ pc' = [pc EXCEPT ![w] = "paying"]
      /\ UNCHANGED <<now, sold, payouts, led, dled, at, groups, work, cur, todo, nets>>
  BY DEF JournalAndPay
<1>3. /\ cur[w] \in Currencies /\ cur[w] \in work[w] /\ at[w] = now
      /\ intent \in [Currencies -> Intent \cup {NoIntent}] /\ pend'[w] = i
  BY <1>1, <1>2 DEF TypeOK, SweepType, StoreType, SweepInv, InGroup
<1>5. selected \subseteq KeyOf(nets[w])
  BY DEF FittingPrefix
<1>4. KeyOf(i.nets) = selected
  <2>1. i.nets = [s \in Sales |-> IF s \in selected THEN nets[w][s] ELSE 0]
    OBVIOUS
  <2> HIDE DEF i, selected
  <2>2. \A s \in selected : s \in Sales /\ nets[w][s] > 0
    BY <1>5 DEF KeyOf
  <2>3. \A s \in Sales : i.nets[s] > 0 <=> s \in selected
    BY <2>1, <2>2
  <2> QED
    BY <2>2, <2>3 DEF KeyOf
<1>6. \A s \in selected : s \in sold /\ SettlesIn[s] = cur[w] /\ s \notin PaidSales
  BY <1>2, <1>5 DEF SelectionInv
<1>7. i.createdAt = now
  BY <1>3
<1>8. /\ intent'[cur[w]] = i /\ i # NoIntent
      /\ \A c \in Currencies : c # cur[w] => intent'[c] = intent[c]
  BY <1>1, <1>2, <1>3 DEF TypeOK, SweepType
<1>9. now \in Nat
  BY <1>1 DEF TypeOK, WorldType
<1> HIDE DEF i, selected
<1>10. /\ pc'[w] = "paying" /\ \A v \in Sweeps : v # w => pc'[v] = pc[v]
  BY <1>1, <1>2 DEF TypeOK, SweepType
<1>11. MovesWell(w)
  BY <1>2, <1>3, <1>8, <1>10 DEF MovesWell, InGroup, Pays, Journalled
<1>12. led = dled
  BY DEF SweepInv
<1>13. SweepInv' /\ SelectionInv'
  BY <1>1, <1>2, <1>11, <1>12, MoveInv
<1>14. \A p \in payouts : KeyOf(p.nets) \cap selected = {}
  BY <1>6 DEF PaidSales, KeyOf
<1>15. IntentInv'
  <2> SUFFICES ASSUME NEW c \in Currencies, Journalled(c)'
               PROVE  /\ KeyOf(intent'[c].nets) # {} /\ KeyOf(intent'[c].nets) \subseteq sold
                      /\ \A s \in KeyOf(intent'[c].nets) : SettlesIn[s] = c
                      /\ intent'[c].createdAt <= now
                      /\ \A p \in payouts : KeyOf(p.nets) \cap KeyOf(intent'[c].nets) # {}
                           => /\ KeyOf(p.nets) = KeyOf(intent'[c].nets)
                              /\ p.at >= intent'[c].createdAt
    BY <1>2 DEF IntentInv, KeyOf
  <2>1. CASE c = cur[w]
    BY <1>2, <1>4, <1>6, <1>7, <1>8, <1>9, <1>14, <2>1
  <2>2. CASE c # cur[w]
    BY <1>8, <2>2 DEF IntentInv, Journalled
  <2> QED BY <2>1, <2>2
<1>16. WireInv'
  <2>1. KeyOf(intent'[cur[w]].nets) \cap PaidSales = {}
    BY <1>4, <1>6, <1>8
  <2>2. wire' = wire \cup {[currency |-> cur[w], nets |-> intent'[cur[w]].nets]}
    BY <1>2, <1>8
  <2>3. /\ pc[w] # "idle" /\ ~Pays(w) /\ Pays(w)' /\ Journalled(cur[w])'
    BY <1>2, <1>8, <1>10 DEF Pays, Journalled
  <2> QED
    BY <1>1, <1>2, <1>3, <1>8, <1>10, <2>1, <2>2, <2>3, SendInv
<1>17. LedgerInv'
  <2>1. ~Journalled(cur[w])
    BY <1>2 DEF SweepInv
  <2>2. \A p \in payouts : p.currency \in Currencies
    BY <1>1 DEF TypeOK, WorldType, Payout
  <2> QED
    BY <1>2, <1>8, <2>1, <2>2 DEF LedgerInv, Journalled, KeyOf
<1>18. RightPot' /\ NoDoublePay'
  BY <1>2 DEF RightPot, NoDoublePay, KeyOf
<1>19. ReleasedWasPaid'
  BY <1>2 DEF ReleasedWasPaid, PaidSales, KeyOf
<1> QED BY <1>1, <1>13, <1>15, <1>16, <1>17, <1>18, <1>19

(* A crash between the two writes of a settlement leaves the journal entry. *)
LEMMA CrashWhileSettlingInv ==
  ASSUME IInv, Sound, NEW w \in Sweeps, CrashWhileSettling(w) PROVE IInv'
<1> USE DEF IInv
<1>1. TypeOK /\ TypeOK'
  BY StepType DEF Step
<1> DEFINE l == MarkManyReleased(pend[w])
<1>2. /\ Restart(l, dintent)
      /\ pc[w] = "lookup" \/ Pays(w)
      /\ \E p \in payouts : KeyOf(p.nets) = KeyOf(pend[w].nets)
  BY PersistWorks DEF CrashWhileSettling, OnStripe, Accepted, Pays
<1>3. cur[w] \in Currencies /\ Journalled(cur[w]) /\ pend[w] = intent[cur[w]]
  BY <1>1, <1>2 DEF TypeOK, SweepType, SweepInv
<1>4. KeyOf(pend[w].nets) \subseteq sold /\ KeyOf(pend[w].nets) \subseteq PaidSales
  BY <1>2, <1>3 DEF IntentInv, PaidSales, KeyOf
<1>5. \A s \in Sales :
        l[s].status = IF s \in KeyOf(pend[w].nets) THEN "released" ELSE led[s].status
  BY <1>1 DEF MarkManyReleased, TypeOK, StoreType, Entry
<1> HIDE DEF l
<1>6. \A s \in Sales : l[s].status # "none" => s \in sold
  BY <1>4, <1>5 DEF LedgerInv
<1>7. \A s \in Sales : l[s].status = "released" => s \in PaidSales
  BY <1>4, <1>5 DEF ReleasedWasPaid
<1>8. \A s \in Sales : led[s].status \in {"released", "void"}
                         => l[s].status \in {"released", "void"}
  BY <1>5
<1> QED
  BY <1>1, <1>2, <1>6, <1>7, <1>8, RestartInv

(* Every step of a sweep keeps IInv.                                       *)
LEMMA StepInv == ASSUME IInv, Sound, NEW w \in Sweeps, Step(w) PROVE IInv'
  BY StartSweepInv, BeginGroupInv, EndGroupInv, SettleInv, ReplayInv, AbandonInv,
     ResolveFailsInv, ResolveInv, JournalAndPayInv, CrashWhileSettlingInv
  DEF Step

(* IInv is inductive.                                                      *)
LEMMA NextInv == ASSUME IInv, Sound, [Next]_vars PROVE IInv'
<1>1. CASE UNCHANGED vars
  <2> USE <1>1 DEF IInv, vars, stripe, stores, locals
  <2>1. TypeOK'
    BY DEF TypeOK, WorldType, StoreType, SweepType
  <2>2. SweepInv' /\ SelectionInv'
    BY DEF SweepInv, SelectionInv, InGroup, Pays, Journalled, PaidSales, KeyOf
  <2>3. IntentInv' /\ WireInv'
    BY DEF IntentInv, WireInv, Journalled, PaidSales, KeyOf, Pays
  <2>4. LedgerInv' /\ RightPot' /\ NoDoublePay' /\ ReleasedWasPaid'
    BY DEF LedgerInv, RightPot, NoDoublePay, ReleasedWasPaid, PaidSales,
           Journalled, KeyOf
  <2> QED BY <2>1, <2>2, <2>3, <2>4
<1>2. CASE Next
  BY <1>2, EnvironmentInv, StepInv DEF Next
<1> QED BY <1>1, <1>2

(* The inductive invariant holds of every server whose sweeps do not       *)
(* overlap and whose disk works, whatever crashes and answers it meets.    *)
THEOREM Invariance == Sound => (Spec => []IInv)
<1> SUFFICES ASSUME Sound PROVE Spec => []IInv
  OBVIOUS
<1>1. IInv /\ [Next]_vars => IInv'
  BY NextInv
<1> QED BY InitInv, <1>1, PTL DEF Spec

(* Exactly-once payouts (payout-intents.ts:2): no sale ever funds two.     *)
THEOREM NoDoublePayHolds == Sound => (Spec => []NoDoublePay)
<1>1. IInv => NoDoublePay
  BY DEF IInv
<1> QED BY Invariance, <1>1, PTL

(* A restart never re-selects a paid sale: the files already account for   *)
(* every executed payout (payout-release.ts:14-22, a crash anywhere leaves *)
(* the intent on disk).                                                    *)
THEOREM PaidIsOnDiskHolds == Sound => (Spec => []PaidIsOnDisk)
<1>1. IInv => PaidIsOnDisk
  BY DEF IInv, SweepInv, LedgerInv, PaidIsOnDisk, Journalled
<1> QED BY Invariance, <1>1, PTL

(* Nothing is booked as released that did not leave the balance, and every *)
(* payout drew on the pot its sales settled in.                            *)
THEOREM ReleasedWasPaidHolds == Sound => (Spec => [](ReleasedWasPaid /\ RightPot))
<1>1. IInv => ReleasedWasPaid /\ RightPot
  BY DEF IInv
<1> QED BY Invariance, <1>1, PTL

-----------------------------------------------------------------------------
(* The nets of a sweep are of this hour.                                   *)

(* Refunds only lower a net within the hour, and what a sweep has resolved *)
(* it read since the hour began.                                           *)
NetsFresh ==
  /\ \A s \in Sales : net[s] <= opening[s]
  /\ \A w \in Sweeps : \A s \in KeyOf(nets[w]) : nets[w][s] <= opening[s]

(* The clock, refunds and restarts keep the nets fresh.                    *)
LEMMA EnvironmentFresh ==
  ASSUME IInv, Sound, NetsFresh, Environment PROVE NetsFresh'
<1> USE DEF IInv, TypeOK, WorldType, SweepType, Amounts
<1>1. CASE Tick
  <2>1. \A w \in Sweeps : KeyOf(nets[w]) = {}
    BY <1>1 DEF Tick, Sound, SelectionInv
  <2>2. net' = net /\ nets' = nets /\ opening' = net
    BY <1>1 DEF Tick, locals
  <2> QED BY <2>1, <2>2 DEF NetsFresh, KeyOf
<1>2. CASE \E s \in Sales : RecordHeld(s) \/ VoidSale(s) \/ Fund(s)
  BY <1>2 DEF NetsFresh, KeyOf, RecordHeld, VoidSale, Fund, stripe, locals
<1>3. ASSUME NEW s \in Sales, Refund(s) PROVE NetsFresh'
  <2>1. \A r \in Sales : net'[r] <= net[r]
    BY <1>3 DEF Refund
  <2>2. net' \in [Sales -> Int] /\ opening' = opening /\ nets' = nets
    BY <1>3 DEF Refund, locals
  <2>3. \A r \in Sales : net'[r] <= opening[r]
    BY <2>1, <2>2 DEF NetsFresh
  <2> QED BY <2>2, <2>3 DEF NetsFresh, KeyOf
<1>4. CASE \E r \in wire : Deliver(r)
  BY <1>4 DEF NetsFresh, KeyOf, Deliver, locals
<1>5. CASE Crash
  <2>1. net' = net /\ opening' = opening /\ nets' = [v \in Sweeps |-> NoNets]
    BY <1>5 DEF Crash, Restart, stripe
  <2> QED BY <2>1 DEF NetsFresh, KeyOf, NoNets
<1> QED BY <1>1, <1>2, <1>3, <1>4, <1>5 DEF Environment

(* A sweep adds a sale to its nets with what Stripe says of it now, and    *)
(* forgets them all when it leaves the group.                              *)
LEMMA StepFresh ==
  ASSUME TypeOK, NetsFresh, NEW w \in Sweeps, Step(w) PROVE NetsFresh'
<1> USE DEF TypeOK, WorldType, SweepType, Amounts
<1>1. net' = net /\ opening' = opening
  BY DEF Step, StartSweep, BeginGroup, LookupFails, LookupFound, Replay, Abandon,
         ResolveFails, Resolve, Defer, JournalAndPay, PayReturns, ReplayReturns,
         PayThrows, CrashWhileSettling, Restart, stripe
<1>2. \/ nets' = nets
      \/ nets' = [nets EXCEPT ![w] = NoNets]
      \/ \E s \in todo[w] : nets' = [nets EXCEPT ![w][s] = net[s]]
      \/ nets' = [v \in Sweeps |-> NoNets]
  BY DEF Step, StartSweep, BeginGroup, LookupFails, LookupFound, Replay, Abandon,
         ResolveFails, Resolve, ResolvedNet, Defer, JournalAndPay, PayReturns,
         ReplayReturns, PayThrows, CrashWhileSettling, Restart, EndGroup, locals
<1>3. CASE nets' = nets
  BY <1>1, <1>3 DEF NetsFresh, KeyOf
<1>4. CASE nets' = [nets EXCEPT ![w] = NoNets] \/ nets' = [v \in Sweeps |-> NoNets]
  <2>1. \A v \in Sweeps : nets'[v] = nets[v] \/ nets'[v] = NoNets
    BY <1>4
  <2>2. KeyOf(NoNets) = {}
    BY DEF KeyOf, NoNets
  <2> QED BY <1>1, <2>1, <2>2 DEF NetsFresh, KeyOf
<1>5. CASE \E s \in todo[w] : nets' = [nets EXCEPT ![w][s] = net[s]]
  <2>1. \A v \in Sweeps, r \in Sales : nets'[v][r] = nets[v][r] \/ nets'[v][r] = net[r]
    BY <1>5
  <2> QED BY <1>1, <2>1 DEF NetsFresh, KeyOf
<1> QED BY <1>2, <1>3, <1>4, <1>5

(* A journal entry changes to a new one only where a sweep pays: the files *)
(* say what memory says, so a restart brings nothing back.                 *)
LEMMA JournalFresh ==
  ASSUME IInv, Sound, NetsFresh, Next, NEW c \in Currencies,
         intent'[c] # intent[c], intent'[c] # NoIntent, NEW s \in KeyOf(intent'[c].nets)
  PROVE  intent'[c].nets[s] <= opening[s]
<1> USE DEF IInv, TypeOK, StoreType, SweepType, SweepInv
<1>1. ~Environment
  BY DEF Environment, Tick, RecordHeld, Refund, VoidSale, Fund, Deliver, Crash,
         Restart, stores
<1>2. PICK w \in Sweeps : Step(w)
  BY <1>1 DEF Next
<1>3. JournalAndPay(w)
  <2>1. ~(LookupFound(w) \/ Abandon(w) \/ PayReturns(w) \/ ReplayReturns(w))
    BY DEF LookupFound, Abandon, PayReturns, ReplayReturns, Settle
  <2>2. ~(StartSweep(w) \/ (\E d \in Currencies : BeginGroup(w, d)) \/ LookupFails(w)
          \/ Replay(w) \/ ResolveFails(w) \/ Resolve(w) \/ Defer(w) \/ PayThrows(w)
          \/ CrashWhileSettling(w))
    BY DEF StartSweep, BeginGroup, LookupFails, Replay, ResolveFails, Resolve, Defer,
           PayThrows, CrashWhileSettling, Restart, stores
  <2> QED BY <1>2, <2>1, <2>2 DEF Step
<1>4. PICK selected :
        intent' = [intent EXCEPT ![cur[w]] =
          [nets |-> [r \in Sales |-> IF r \in selected THEN nets[w][r] ELSE 0],
           forced |-> {r \in selected : ~EventOver(r, at[w])},
           createdAt |-> at[w]]]
  BY <1>3 DEF JournalAndPay
<1>5. intent'[c].nets = [r \in Sales |-> IF r \in selected THEN nets[w][r] ELSE 0]
  BY <1>4
<1>6. s \in Sales /\ intent'[c].nets[s] > 0 /\ intent'[c].nets[s] = nets[w][s]
  BY <1>5 DEF KeyOf
<1> QED BY <1>6 DEF NetsFresh, KeyOf

(* A refund that landed in an earlier hour is honoured by every newly      *)
(* journalled payout: no entry asks for more than the sale was worth when  *)
(* the hour began (payout-ledger.ts, nets are resolved in the sweep).      *)
THEOREM FreshNetsHolds == Sound => (Spec => FreshNets)
<1> SUFFICES ASSUME Sound PROVE Spec => FreshNets
  OBVIOUS
<1>1. Init => NetsFresh
  BY DEF Init, NetsFresh, KeyOf
<1>2. IInv /\ NetsFresh /\ [Next]_vars => NetsFresh'
  <2>1. CASE UNCHANGED vars
    BY <2>1 DEF NetsFresh, KeyOf, vars, stripe, locals
  <2>2. ASSUME IInv, NetsFresh, Next PROVE NetsFresh'
    BY <2>2, EnvironmentFresh, StepFresh DEF Next, IInv
  <2> QED BY <2>1, <2>2
<1>3. IInv /\ NetsFresh /\ Next =>
        \A c \in Currencies :
          intent'[c] # intent[c] /\ intent'[c] # NoIntent
            => \A s \in KeyOf(intent'[c].nets) : intent'[c].nets[s] <= opening[s]
  BY JournalFresh
<1>4. IInv /\ NetsFresh /\ [Next]_vars =>
        [\A c \in Currencies :
          intent'[c] # intent[c] /\ intent'[c] # NoIntent
            => \A s \in KeyOf(intent'[c].nets) : intent'[c].nets[s] <= opening[s]]_vars
  BY <1>3
<1>5. Spec => []IInv
  BY Invariance
<1> QED BY <1>1, <1>2, <1>4, <1>5, PTL DEF Spec, FreshNets

-----------------------------------------------------------------------------
(* The payments of the sales are a function of the executed payouts.       *)
LEMMA PaidUnchanged == ASSUME payouts' = payouts PROVE TimesPaid' = TimesPaid
  BY DEF TimesPaid

(* A payout of sales no payout has touched adds one payment to each.       *)
LEMMA OnePaymentMore ==
  ASSUME NEW p, payouts' = payouts \cup {p}, KeyOf(p.nets) \cap PaidSales = {}
  PROVE  /\ \A s \in KeyOf(p.nets) : TimesPaid[s] = 0
         /\ TimesPaid' = [s \in Sales |->
                            IF s \in KeyOf(p.nets) THEN TimesPaid[s] + 1 ELSE TimesPaid[s]]
<1> DEFINE by(s) == {q \in payouts : s \in KeyOf(q.nets)}
           byNow(s) == {q \in payouts' : s \in KeyOf(q.nets)}
<1>1. /\ TimesPaid = [s \in Sales |-> Cardinality(by(s))]
      /\ TimesPaid' = [s \in Sales |-> Cardinality(byNow(s))]
  BY DEF TimesPaid, KeyOf
<1>2. \A s \in KeyOf(p.nets) : s \in Sales /\ by(s) = {} /\ byNow(s) = {p}
  BY DEF PaidSales, KeyOf
<1>3. \A s \in Sales : s \notin KeyOf(p.nets) => byNow(s) = by(s)
  OBVIOUS
<1> HIDE DEF by, byNow
<1>4. \A s \in KeyOf(p.nets) : Cardinality(by(s)) = 0 /\ Cardinality(byNow(s)) = 1
  BY <1>2, FS_EmptySet, FS_Singleton
<1>5. \A s \in Sales \ KeyOf(p.nets) : Cardinality(byNow(s)) = Cardinality(by(s))
  BY <1>3
<1> QED BY <1>1, <1>2, <1>4, <1>5

(* Every step is a Sell, a PayOut or a stutter of the promise.             *)
LEMMA StepRefines ==
  ASSUME IInv, [Next]_vars
  PROVE  [Promise!Next]_(Promise!vars)
<1> USE DEF IInv
<1>1. CASE UNCHANGED <<sold, payouts>>
  BY <1>1, PaidUnchanged DEF Promise!vars
<1>2. ASSUME NEW s \in Sales, RecordHeld(s) PROVE [Promise!Next]_(Promise!vars)
  <2>1. s \notin sold /\ sold' = sold \cup {s} /\ payouts' = payouts
    BY <1>2 DEF RecordHeld, stripe
  <2>2. Promise!Sell(s)
    BY <2>1, PaidUnchanged DEF Promise!Sell
  <2> QED BY <2>2 DEF Promise!Next
<1>3. ASSUME NEW r \in wire, Deliver(r), payouts' # payouts
      PROVE  [Promise!Next]_(Promise!vars)
  <2> DEFINE new == [currency |-> r.currency, nets |-> r.nets, at |-> now]
             S == KeyOf(r.nets)
  <2>1. payouts' = payouts \cup {new} /\ sold' = sold
    BY <1>3 DEF Deliver
  <2>2. new.nets = r.nets
    OBVIOUS
  <2> HIDE DEF new
  <2>3. /\ r.currency \in Currencies /\ Journalled(r.currency)
        /\ intent[r.currency].nets = r.nets /\ S \cap PaidSales = {}
    BY DEF TypeOK, WorldType, Request, WireInv
  <2>4. S # {} /\ S \subseteq sold \ PaidSales /\ S \in SUBSET Sales
    BY <2>3 DEF IntentInv, KeyOf
  <2>5. /\ \A s \in S : TimesPaid[s] = 0
        /\ TimesPaid' = [s \in Sales |-> IF s \in S THEN TimesPaid[s] + 1 ELSE TimesPaid[s]]
    BY <2>1, <2>2, <2>3, OnePaymentMore
  <2> HIDE DEF S
  <2>6. Promise!PayOut(S)
    BY <2>1, <2>4, <2>5 DEF Promise!PayOut
  <2> QED BY <2>4, <2>6 DEF Promise!Next
<1>4. \/ UNCHANGED <<sold, payouts>>
      \/ \E s \in Sales : RecordHeld(s)
      \/ \E r \in wire : Deliver(r) /\ payouts' # payouts
  <2>1. CASE UNCHANGED vars
    BY <2>1 DEF vars, stripe
  <2>2. CASE Environment
    <3>1. Tick => UNCHANGED <<sold, payouts>>
      BY DEF Tick
    <3>2. ASSUME NEW s \in Sales, Refund(s) \/ VoidSale(s) \/ Fund(s)
          PROVE  UNCHANGED <<sold, payouts>>
      BY <3>2 DEF Refund, VoidSale, Fund, stripe
    <3>3. \A r \in wire : Deliver(r) => sold' = sold
      BY DEF Deliver
    <3>4. Crash => UNCHANGED <<sold, payouts>>
      BY DEF Crash, Restart, stripe
    <3> QED BY <2>2, <3>1, <3>2, <3>3, <3>4 DEF Environment
  <2>3. ASSUME NEW w \in Sweeps, Step(w) PROVE UNCHANGED <<sold, payouts>>
    BY <2>3 DEF Step, StartSweep, BeginGroup, LookupFails, LookupFound, Replay,
      Abandon, ResolveFails, Resolve, Defer, JournalAndPay, PayReturns,
      ReplayReturns, PayThrows, CrashWhileSettling, Restart, stripe
  <2> QED BY <2>1, <2>2, <2>3 DEF Next
<1> QED BY <1>1, <1>2, <1>3, <1>4

(* The engine implements the promise: every behaviour is one of PayoutPromise. *)
THEOREM Refinement == Sound => (Spec => KeepsPromise)
<1> SUFFICES ASSUME Sound PROVE Spec => KeepsPromise
  OBVIOUS
<1>1. Init => Promise!Init
  <2> SUFFICES ASSUME Init PROVE sold = {} /\ TimesPaid = [s \in Sales |-> 0]
    BY DEF Promise!Init
  <2>1. \A s \in Sales : {p \in payouts : s \in KeyOf(p.nets)} = {}
    BY DEF Init
  <2> QED BY <2>1, FS_EmptySet DEF Init, TimesPaid
<1>2. Spec => []IInv
  BY Invariance
<1>3. IInv /\ [Next]_vars => [Promise!Next]_(Promise!vars)
  BY StepRefines
<1> QED BY <1>1, <1>2, <1>3, PTL DEF Spec, KeepsPromise, Promise!Spec
==============================================================================
