----------------------------- MODULE DeviceProofs -----------------------------
(***************************************************************************)
(* Theorems about the two components that live in the user's browsers:     *)
(* AccountRecovery, for every set of browsers, passkeys and back-ups, with *)
(* tabs closed and storage cleared anywhere, and DoorCheckin, for every    *)
(* set of devices, tickets, events and clocks, with requests and answers   *)
(* lost and devices wiped at any time.                                     *)
(***************************************************************************)
EXTENDS AccountRecovery, DoorCheckin, SumFacts, FiniteSetTheorems, SequenceTheorems, TLAPS

-----------------------------------------------------------------------------
(* What a browser holds of an account, whatever task it is cut short in.   *)

(* What is left to do of a login, of a ceremony and of a new back-up.      *)
LoginLeft == {<<"ask">>, <<"enter">>, <<"seed", "signer", "bind", "enter">>,
              <<"signer", "bind", "enter">>, <<"bind", "enter">>}
Unminted == <<"mint", "rotate", "bind", "seed", "signer", "enter">>
PortalLeft == {Unminted, <<"rotate", "bind", "seed", "signer", "enter">>,
               <<"bind", "seed", "signer", "enter">>,
               <<"seed", "signer", "enter">>, <<"signer", "enter">>}
Registering == {<<"install">>, <<"append">>}
SetupLeft == {<<"escrow", "install">>, <<"escrow", "append">>} \union Registering
Todos == LoginLeft \union PortalLeft \union SetupLeft
(* The lists that can write nothing more before the session is entered, and *)
(* those that find their passkey bound.                                     *)
Blank == {<<"ask">>, <<"enter">>}
Settled == Blank \union {<<"seed", "signer", "enter">>, <<"signer", "enter">>}

(* The task of a browser: only a new back-up is made while signed in, what  *)
(* it carries are the first passkey's roots, and it enters the account that *)
(* the browser knows its passkey to open.                                   *)
TaskFits(d) ==
  \/ task[d] = NoTask
  \/ /\ task[d].todo \in Todos
     /\ task[d].todo \in SetupLeft \/ session[d] = Out
     /\ task[d].todo \in SetupLeft => task[d].backup \in Backups
     /\ task[d].todo \in Registering => escrow[task[d].backup] # None
     /\ task[d].todo = Unminted \/ task[d].cred \in Creds
     /\ task[d].roots = None \/ AreFirsts(task[d].roots)
     /\ task[d].todo \in Blank \/ (task[d].account = First /\ AreFirsts(task[d].roots))
     /\ task[d].todo \in Settled => task[d].account = AccountOf(d, task[d].cred)

(* A session has the account that the browser knows its passkey to open.   *)
SessionFits(d) == session[d] # Out => session[d].account = AccountOf(d, session[d].cred)

(* A seed is First's, or that of the passkey signed in, which is not bound. *)
SeedFits(d, c) ==
  \/ seed[d][c] \in {None, First}
  \/ seed[d][c] = c /\ session[d] # Out /\ session[d].cred = c /\ c \notin bound[d]

BrowserFits(d) ==
  /\ TaskFits(d) /\ SessionFits(d)
  /\ \A c \in Creds : SeedFits(d, c)
  /\ signer[d][First] \in {None, First}
  /\ home[d] \subseteq bound[d]

CopiesFit ==
  /\ \A b \in Backups : escrow[b] = None \/ AreFirsts(escrow[b])
  /\ \A b \in guardians : escrow[b] # None
  /\ \A c \in Creds : envelope[c] = None \/ AreFirsts(envelope[c])

RecoveryIInv == RecoveryTypeOK /\ CopiesFit /\ \A d \in Browsers : BrowserFits(d)

LEMMA CredFacts ==
  /\ First \in Creds /\ Creds = Accounts /\ Creds \subseteq Nat
  /\ None \notin Creds /\ None \notin Roots /\ Out \notin Sessions
  BY RecoveryAssumption DEF First, Creds, Accounts, Roots, Out, Sessions

LEMMA SetsOfBrowsers ==
  ASSUME RecoveryTypeOK
  PROVE  /\ bound \in [Browsers -> SUBSET Creds] /\ cached \in [Browsers -> SUBSET Creds]
         /\ marked \in [Browsers -> SUBSET Creds] /\ tomb \in [Browsers -> SUBSET Creds]
         /\ home \in [Browsers -> SUBSET Creds]
  BY DEF RecoveryTypeOK

(* The lists of steps, one step on.                                        *)
LEMMA TodoSteps ==
  /\ Tail(Unminted) = <<"rotate", "bind", "seed", "signer", "enter">> /\ Head(Unminted) = "mint"
  /\ Tail(<<"rotate", "bind", "seed", "signer", "enter">>) = <<"bind", "seed", "signer", "enter">>
  /\ Head(<<"rotate", "bind", "seed", "signer", "enter">>) = "rotate"
  /\ Tail(<<"bind", "seed", "signer", "enter">>) = <<"seed", "signer", "enter">>
  /\ Head(<<"bind", "seed", "signer", "enter">>) = "bind"
  /\ Tail(<<"seed", "signer", "enter">>) = <<"signer", "enter">>
  /\ Head(<<"seed", "signer", "enter">>) = "seed"
  /\ Tail(<<"signer", "enter">>) = <<"enter">> /\ Head(<<"signer", "enter">>) = "signer"
  /\ Tail(<<"seed", "signer", "bind", "enter">>) = <<"signer", "bind", "enter">>
  /\ Head(<<"seed", "signer", "bind", "enter">>) = "seed"
  /\ Tail(<<"signer", "bind", "enter">>) = <<"bind", "enter">>
  /\ Head(<<"signer", "bind", "enter">>) = "signer"
  /\ Tail(<<"bind", "enter">>) = <<"enter">> /\ Head(<<"bind", "enter">>) = "bind"
  /\ Head(<<"ask">>) = "ask" /\ Head(<<"enter">>) = "enter" /\ Tail(<<"enter">>) = <<>>
  /\ Head(<<"escrow", "install">>) = "escrow" /\ Tail(<<"escrow", "install">>) = <<"install">>
  /\ Head(<<"escrow", "append">>) = "escrow" /\ Tail(<<"escrow", "append">>) = <<"append">>
  /\ Head(<<"install">>) = "install" /\ Tail(<<"install">>) = <<>>
  /\ Head(<<"append">>) = "append" /\ Tail(<<"append">>) = <<>>
  BY DEF Unminted

(* A browser that a step does not touch stays as it was, since no escrow   *)
(* is taken back.                                                          *)
LEMMA BrowserStays ==
  ASSUME NEW d \in Browsers, BrowserFits(d),
         task'[d] = task[d], session'[d] = session[d], bound'[d] = bound[d],
         home'[d] = home[d], seed'[d] = seed[d], signer'[d] = signer[d],
         \A b \in Backups : escrow[b] # None => escrow'[b] # None
  PROVE  BrowserFits(d)'
<1>1. TaskFits(d)'
  BY DEF BrowserFits, TaskFits, AccountOf, Registering, SetupLeft
<1>2. SessionFits(d)' /\ (\A c \in Creds : SeedFits(d, c)')
  BY DEF BrowserFits, SessionFits, SeedFits, AccountOf
<1> QED
  BY <1>1, <1>2 DEF BrowserFits

(* A step of one browser's.                                                *)
LEMMA OneBrowser ==
  ASSUME RecoveryIInv, RecoveryTypeOK', CopiesFit', NEW d \in Browsers, BrowserFits(d)',
         \A b \in Backups : escrow[b] # None => escrow'[b] # None,
         \A e \in Browsers \ {d} :
            /\ task'[e] = task[e] /\ session'[e] = session[e] /\ bound'[e] = bound[e]
            /\ home'[e] = home[e] /\ seed'[e] = seed[e] /\ signer'[e] = signer[e]
  PROVE  RecoveryIInv'
<1>1. ASSUME NEW e \in Browsers \ {d} PROVE BrowserFits(e)'
  BY <1>1, BrowserStays DEF RecoveryIInv
<1> QED
  BY <1>1 DEF RecoveryIInv

(* An account opened is the one its passkey opens, so its browser knows a  *)
(* passkey that has come home.                                             *)
LEMMA OpeningFits ==
  ASSUME RecoveryIInv, NEW d \in Browsers, NEW c \in Creds, session[d] = Out,
         Opens(d, c, AccountOf(d, c)), UNCHANGED <<bound, roots>>
  PROVE  /\ SessionFits(d)' /\ (\A x \in Creds : SeedFits(d, x)')
         /\ signer'[d][First] \in {None, First} /\ home'[d] \subseteq bound'[d]
         /\ session' \in [Browsers -> Sessions \union {Out}]
         /\ home' \in [Browsers -> SUBSET Creds]
         /\ \A e \in Browsers \ {d} : session'[e] = session[e] /\ home'[e] = home[e]
<1>1. session' \in [Browsers -> Sessions \union {Out}] /\ home' \in [Browsers -> SUBSET Creds]
  BY CredFacts DEF RecoveryIInv, RecoveryTypeOK, Opens, Sessions, AccountOf
<1>2. session'[d] = [cred |-> c, account |-> AccountOf(d, c)]
  BY DEF RecoveryIInv, RecoveryTypeOK, Opens
<1>3. SessionFits(d)' /\ (\A x \in Creds : SeedFits(d, x)')
  BY <1>2 DEF RecoveryIInv, BrowserFits, SessionFits, SeedFits, AccountOf, roots
<1>4. home'[d] \subseteq bound'[d] /\ signer'[d][First] \in {None, First}
  BY DEF RecoveryIInv, RecoveryTypeOK, BrowserFits, Opens, AccountOf, roots
<1>5. \A e \in Browsers \ {d} : session'[e] = session[e] /\ home'[e] = home[e]
  BY DEF RecoveryIInv, RecoveryTypeOK, Opens
<1> QED
  BY <1>1, <1>3, <1>4, <1>5

LEMMA LoginCachedKeeps ==
  ASSUME MaySwitch = FALSE, RecoveryIInv, NEW d \in Browsers, NEW c \in Creds, LoginCached(d, c)
  PROVE  RecoveryIInv'
<1>1. AccountOf(d, c) = c /\ session[d] = Out /\ task[d] = NoTask
  BY DEF LoginCached, Fast, CanSignIn, AccountOf
<1>2. Opens(d, c, AccountOf(d, c)) /\ UNCHANGED <<chain, copies, facts, roots, task>>
  BY <1>1 DEF LoginCached
<1>3. probe' \in [Browsers -> [cred: Creds, at: {"due", "asking", "owner"}] \union {None}]
  BY DEF LoginCached, RecoveryIInv, RecoveryTypeOK
<1>4. RecoveryTypeOK'
  BY <1>1, <1>2, <1>3, OpeningFits DEF RecoveryIInv, RecoveryTypeOK, chain, copies, facts, roots
<1>5. CopiesFit'
  BY <1>2 DEF RecoveryIInv, CopiesFit, chain, copies
<1>6. BrowserFits(d)'
  BY <1>1, <1>2, OpeningFits DEF BrowserFits, TaskFits, facts
<1> QED
  BY <1>1, <1>2, <1>4, <1>5, <1>6, OneBrowser, OpeningFits DEF copies, facts, roots

LEMMA LoginVerifiedKeeps ==
  ASSUME MaySwitch = FALSE, RecoveryIInv, NEW d \in Browsers, NEW c \in Creds, LoginVerified(d, c)
  PROVE  RecoveryIInv'
<1>1. AccountOf(d, c) = First /\ session[d] = Out /\ task[d] = NoTask
  BY DEF LoginVerified, Verified, CanSignIn, AccountOf
<1>2. Opens(d, c, AccountOf(d, c)) /\ UNCHANGED <<chain, copies, facts, roots, task>>
  BY <1>1 DEF LoginVerified
<1>3. probe' \in [Browsers -> [cred: Creds, at: {"due", "asking", "owner"}] \union {None}]
  BY DEF LoginVerified, RecoveryIInv, RecoveryTypeOK
<1>4. RecoveryTypeOK'
  BY <1>1, <1>2, <1>3, OpeningFits DEF RecoveryIInv, RecoveryTypeOK, chain, copies, facts, roots
<1>5. CopiesFit'
  BY <1>2 DEF RecoveryIInv, CopiesFit, chain, copies
<1>6. BrowserFits(d)'
  BY <1>1, <1>2, OpeningFits DEF BrowserFits, TaskFits, facts
<1> QED
  BY <1>1, <1>2, <1>4, <1>5, <1>6, OneBrowser, OpeningFits DEF copies, facts, roots

(* What a task must be made of.                                            *)
Tasks == [todo: Seq(Work), cred: Creds \union {None}, account: Accounts \union {None},
          roots: Roots \union {None}, backup: Backups \union {None},
          affirmed: BOOLEAN, absent: BOOLEAN]

LEMMA NoTaskFacts == NoTask \in Tasks /\ NoTask.todo = <<>> /\ Todos \subseteq Seq(Work) \ {<<>>}
  BY DEF NoTask, Tasks, Todos, LoginLeft, PortalLeft, SetupLeft, Registering, Unminted, Work

(* A step that changes what a browser is about to do, and which bindings   *)
(* it holds for checked, and nothing else.                                 *)
LEMMA TaskChanges ==
  ASSUME RecoveryIInv, NEW d \in Browsers, NEW t \in Tasks, TaskFits(d)',
         task' = [task EXCEPT ![d] = t],
         marked' \in [Browsers -> SUBSET Creds],
         UNCHANGED <<chain, copies, bound, cached, tomb, roots, session, probe, home>>
  PROVE  RecoveryIInv'
<1>1. RecoveryTypeOK'
  <2>1. task' \in [Browsers -> Tasks]
    BY DEF RecoveryIInv, RecoveryTypeOK, Tasks
  <2> QED
    BY <2>1 DEF RecoveryIInv, RecoveryTypeOK, Tasks, chain, copies, roots
<1>2. CopiesFit'
  BY DEF RecoveryIInv, CopiesFit, chain, copies
<1>3. BrowserFits(d)'
  BY DEF RecoveryIInv, BrowserFits, SessionFits, SeedFits, AccountOf, roots
<1>4. \A e \in Browsers \ {d} : task'[e] = task[e]
  BY DEF RecoveryIInv, RecoveryTypeOK
<1> QED
  BY <1>1, <1>2, <1>3, <1>4, OneBrowser DEF copies, roots

LEMMA LoginGuardKeeps ==
  ASSUME MaySwitch = FALSE, RecoveryIInv, NEW d \in Browsers, NEW c \in Creds, LoginGuard(d, c)
  PROVE  RecoveryIInv'
<1>1. session[d] = Out /\ task[d] = NoTask
  BY DEF LoginGuard, CanSignIn
<1>2. UNCHANGED <<chain, copies, bound, cached, tomb, roots, session, probe, home>>
  BY DEF LoginGuard
<1>3. PICK answer : IF Foreign(answer, c)
       THEN marked' = [marked EXCEPT ![d] = @ \ {c}] /\ UNCHANGED task
       ELSE /\ task' = [task EXCEPT ![d] =
                 [NoTask EXCEPT !.cred = c, !.account = AccountOf(d, c), !.affirmed = answer = c,
                    !.todo = IF c \in bound[d] /\ HasRoots(d, c, First)
                             THEN <<"enter">> ELSE <<"ask">>]]
            /\ UNCHANGED marked
  BY DEF LoginGuard
<1>4. marked' \in [Browsers -> SUBSET Creds]
  BY <1>3, SetsOfBrowsers DEF RecoveryIInv
<1>5. CASE UNCHANGED task
  <2>1. task' = [task EXCEPT ![d] = NoTask] /\ task'[d] = NoTask
    BY <1>1, <1>5 DEF RecoveryIInv, RecoveryTypeOK
  <2> QED
    BY <1>2, <1>4, <2>1, NoTaskFacts, TaskChanges DEF TaskFits
<1>6. CASE ~Foreign(answer, c)
  <2> DEFINE t == [NoTask EXCEPT !.cred = c, !.account = AccountOf(d, c), !.affirmed = answer = c,
                    !.todo = IF c \in bound[d] /\ HasRoots(d, c, First)
                             THEN <<"enter">> ELSE <<"ask">>]
  <2>1. /\ t.todo \in Blank /\ t.cred = c /\ t.account = AccountOf(d, c)
        /\ t.roots = None /\ t.backup = None
    BY DEF NoTask, Blank
  <2>2. t \in Tasks
    <3>1. <<"enter">> \in Seq(Work) /\ <<"ask">> \in Seq(Work)
      BY DEF Work
    <3>2. (answer = c) \in BOOLEAN /\ AccountOf(d, c) \in Accounts
      BY CredFacts DEF AccountOf
    <3> QED
      BY <3>1, <3>2 DEF NoTask, Tasks
  <2>3. task' = [task EXCEPT ![d] = t] /\ task'[d] = t
    BY <1>3, <1>6 DEF RecoveryIInv, RecoveryTypeOK
  <2>4. t.todo \in Todos /\ t.todo \notin SetupLeft /\ t.todo \notin Registering
    BY <2>1 DEF Blank, Todos, LoginLeft, SetupLeft, Registering
  <2>5. TaskFits(d)'
    <3> HIDE DEF t
    <3> QED
      BY <1>1, <1>2, <2>1, <2>3, <2>4 DEF TaskFits, AccountOf
  <2> HIDE DEF t
  <2> QED
    BY <1>2, <1>4, <2>2, <2>3, <2>5, TaskChanges
<1> QED
  BY <1>3, <1>5, <1>6

LEMMA TabDiesKeeps ==
  ASSUME RecoveryIInv, NEW d \in Browsers, TabDies(d)
  PROVE  RecoveryIInv'
<1>1. task' = [task EXCEPT ![d] = NoTask] /\ task'[d] = NoTask
  BY DEF TabDies, Stops, RecoveryIInv, RecoveryTypeOK
<1>2. marked' \in [Browsers -> SUBSET Creds]
  BY SetsOfBrowsers DEF RecoveryIInv, TabDies, facts
<1> QED
  BY <1>1, <1>2, NoTaskFacts, TaskChanges DEF TaskFits, TabDies, facts

(* A task under way is of its type, has a passkey once one is minted, and  *)
(* what it does is the head of one of the lists.                           *)
LEMMA TaskFacts ==
  ASSUME RecoveryIInv, NEW d \in Browsers, task[d].todo # <<>>
  PROVE  /\ task \in [Browsers -> Tasks] /\ task[d] \in Tasks /\ TaskFits(d)
         /\ task[d] # NoTask /\ task[d].todo \in Todos
         /\ task[d].todo \in SetupLeft \/ session[d] = Out
  BY NoTaskFacts DEF RecoveryIInv, RecoveryTypeOK, Tasks, BrowserFits, TaskFits

LEMMA LoginEnvelopeKeeps ==
  ASSUME RecoveryIInv, NEW d \in Browsers, LoginEnvelope(d)
  PROVE  RecoveryIInv'
<1>1. task[d].todo # <<>> /\ Head(task[d].todo) = "ask"
  BY DEF LoginEnvelope, Doing
<1>2. task \in [Browsers -> Tasks] /\ task[d] \in Tasks /\ TaskFits(d) /\ task[d] # NoTask
  BY <1>1, TaskFacts
<1>3. task[d].todo = <<"ask">>
  BY <1>1, TaskFacts, TodoSteps DEF Todos, LoginLeft, PortalLeft, SetupLeft, Registering
<1>4. <<"ask">> \in Blank /\ <<"ask">> \notin SetupLeft /\ <<"ask">> \in Settled /\ <<"ask">> # Unminted
  BY DEF Blank, SetupLeft, Registering, Settled, Unminted
<1>5. /\ session[d] = Out /\ task[d].cred \in Creds
      /\ task[d].account = AccountOf(d, task[d].cred)
      /\ task[d].roots = None \/ AreFirsts(task[d].roots)
  BY <1>2, <1>3, <1>4 DEF TaskFits
<1>6. UNCHANGED <<chain, copies, bound, cached, tomb, roots, session, probe, home>>
  BY DEF LoginEnvelope
<1>7. marked' \in [Browsers -> SUBSET Creds]
  <2>1. marked' = marked \/ marked' = [marked EXCEPT ![d] = @ \ {task[d].cred}]
    BY DEF LoginEnvelope
  <2> QED
    BY <2>1, SetsOfBrowsers DEF RecoveryIInv
<1>8. <<"enter">> \in Seq(Work) /\ LoginWrites \in Seq(Work)
  BY DEF Work, LoginWrites
<1>9. /\ <<"enter">> \in Todos /\ <<"enter">> \notin SetupLeft /\ <<"enter">> \in Blank
      /\ <<"enter">> \notin Registering
      /\ LoginWrites \in Todos /\ LoginWrites \notin SetupLeft /\ LoginWrites \notin Registering
      /\ LoginWrites \notin Settled
  BY DEF Todos, LoginLeft, SetupLeft, Registering, Blank, Settled, LoginWrites
<1>10. ASSUME NEW absent \in BOOLEAN,
              task' = [task EXCEPT ![d] = [task[d] EXCEPT !.absent = absent, !.todo = <<"enter">>]]
       PROVE  RecoveryIInv'
  <2> DEFINE t == [task[d] EXCEPT !.absent = absent, !.todo = <<"enter">>]
  <2>1. t \in Tasks /\ t.todo = <<"enter">> /\ t.cred = task[d].cred /\ t.account = task[d].account
        /\ t.roots = task[d].roots
    BY <1>2, <1>8 DEF Tasks
  <2>2. task' = [task EXCEPT ![d] = t] /\ task'[d] = t
    BY <1>2, <1>10
  <2>3. TaskFits(d)'
    <3> HIDE DEF t
    <3> QED
      BY <1>5, <1>6, <1>9, <2>1, <2>2 DEF TaskFits, AccountOf
  <2> HIDE DEF t
  <2> QED
    BY <1>6, <1>7, <2>1, <2>2, <2>3, TaskChanges
<1>11. CASE task' = [task EXCEPT ![d].absent = TRUE, ![d].todo = <<"enter">>]
  BY <1>2, <1>10, <1>11
<1>12. CASE task' = [task EXCEPT ![d].todo = <<"enter">>]
  <2>1. task[d].absent \in BOOLEAN
    BY <1>2 DEF Tasks
  <2>2. [task[d] EXCEPT !.todo = <<"enter">>]
           = [task[d] EXCEPT !.absent = task[d].absent, !.todo = <<"enter">>]
    BY <1>2 DEF Tasks
  <2>3. task' = [task EXCEPT ![d] = [task[d] EXCEPT !.todo = <<"enter">>]]
    BY <1>12
  <2> QED
    BY <1>10, <2>1, <2>2, <2>3
<1>13. CASE Stops(d)
  <2>1. task' = [task EXCEPT ![d] = NoTask] /\ task'[d] = NoTask
    BY <1>2, <1>13 DEF Stops
  <2> QED
    BY <1>6, <1>7, <2>1, NoTaskFacts, TaskChanges DEF TaskFits
<1>14. CASE /\ envelope[task[d].cred] # None
            /\ task' = [task EXCEPT ![d].roots = envelope[task[d].cred], ![d].account = First,
                                    ![d].todo = LoginWrites]
  <2> DEFINE t == [task[d] EXCEPT !.roots = envelope[task[d].cred], !.account = First,
                                  !.todo = LoginWrites]
  <2>1. AreFirsts(envelope[task[d].cred]) /\ envelope[task[d].cred] \in Roots
    BY <1>5, <1>14 DEF RecoveryIInv, CopiesFit, RecoveryTypeOK
  <2>2. /\ t \in Tasks /\ t.todo = LoginWrites /\ t.cred = task[d].cred /\ t.account = First
        /\ AreFirsts(t.roots)
    BY <1>2, <1>8, <2>1, CredFacts DEF Tasks
  <2>3. task' = [task EXCEPT ![d] = t] /\ task'[d] = t
    BY <1>2, <1>14
  <2>4. TaskFits(d)'
    <3> HIDE DEF t
    <3> QED
      BY <1>5, <1>6, <1>9, <2>2, <2>3 DEF TaskFits, AreFirsts
  <2> HIDE DEF t
  <2> QED
    BY <1>6, <1>7, <2>2, <2>3, <2>4, TaskChanges
<1> QED
  BY <1>11, <1>12, <1>13, <1>14 DEF LoginEnvelope

(* The task one step on.                                                   *)
LEMMA OneStepOn ==
  ASSUME NEW d \in Browsers, task \in [Browsers -> Tasks], Next1(d), Tail(task[d].todo) \in Seq(Work)
  PROVE  /\ task' \in [Browsers -> Tasks] /\ \A e \in Browsers \ {d} : task'[e] = task[e]
         /\ task'[d].todo = Tail(task[d].todo) /\ task'[d].cred = task[d].cred
         /\ task'[d].account = task[d].account /\ task'[d].roots = task[d].roots
         /\ task'[d].backup = task[d].backup
  BY DEF Next1, Tasks

(* The lists are sequences of work.                                        *)
LEMMA TodosAreWork == \A l \in Todos : l \in Seq(Work)
  BY NoTaskFacts

LEMMA StoreBindingKeeps ==
  ASSUME RecoveryIInv, NEW d \in Browsers, StoreBinding(d)
  PROVE  RecoveryIInv'
<1>1. task[d].todo # <<>> /\ Head(task[d].todo) = "bind"
  BY DEF StoreBinding, Doing
<1>2. /\ task \in [Browsers -> Tasks] /\ task[d] \in Tasks /\ TaskFits(d) /\ task[d] # NoTask
      /\ task[d].todo \in Todos /\ (task[d].todo \in SetupLeft \/ session[d] = Out)
  BY <1>1, TaskFacts
<1>3. task[d].todo \in {<<"bind", "seed", "signer", "enter">>, <<"bind", "enter">>}
  BY <1>1, <1>2, TodoSteps DEF Todos, LoginLeft, PortalLeft, SetupLeft, Registering
<1>4. Tail(task[d].todo) \in {<<"seed", "signer", "enter">>, <<"enter">>}
  BY <1>3, TodoSteps
<1>5. task[d].todo \notin SetupLeft \union Blank /\ task[d].todo # Unminted
  BY <1>3 DEF Blank, SetupLeft, Registering, Unminted
<1>6. Tail(task[d].todo) \in Todos \ SetupLeft /\ Tail(task[d].todo) \notin Registering
  BY <1>4 DEF Todos, LoginLeft, PortalLeft, SetupLeft, Registering
<1>7. /\ session[d] = Out /\ task[d].cred \in Creds /\ task[d].account = First
      /\ AreFirsts(task[d].roots)
  BY <1>2, <1>5 DEF TaskFits
<1>8. /\ UNCHANGED <<chain, copies, cached, marked, tomb, roots, session, probe, home>>
      /\ Next1(d)
  BY DEF StoreBinding
<1>9. /\ task' \in [Browsers -> Tasks] /\ (\A e \in Browsers \ {d} : task'[e] = task[e])
      /\ task'[d].todo = Tail(task[d].todo) /\ task'[d].cred = task[d].cred
      /\ task'[d].account = task[d].account /\ task'[d].roots = task[d].roots
  BY <1>2, <1>6, <1>8, OneStepOn, TodosAreWork
<1>10. /\ bound' \in [Browsers -> SUBSET Creds] /\ bound'[d] = bound[d] \union {task[d].cred}
       /\ \A e \in Browsers \ {d} : bound'[e] = bound[e]
  BY <1>7, SetsOfBrowsers DEF RecoveryIInv, StoreBinding
<1>11. RecoveryTypeOK'
  BY <1>8, <1>9, <1>10 DEF RecoveryIInv, RecoveryTypeOK, Tasks, chain, copies, roots
<1>12. CopiesFit'
  BY <1>8 DEF RecoveryIInv, CopiesFit, chain, copies
<1>13. BrowserFits(d)'
  <2>1. TaskFits(d)'
    BY <1>6, <1>7, <1>8, <1>9, <1>10 DEF TaskFits, AccountOf, AreFirsts
  <2>2. SessionFits(d)'
    BY <1>7, <1>8 DEF SessionFits
  <2>3. ASSUME NEW c \in Creds PROVE SeedFits(d, c)'
    BY <1>7, <1>8 DEF RecoveryIInv, BrowserFits, SeedFits, roots
  <2> QED
    BY <1>8, <1>10, <2>1, <2>2, <2>3 DEF RecoveryIInv, BrowserFits, roots
<1> QED
  BY <1>8, <1>9, <1>10, <1>11, <1>12, <1>13, OneBrowser DEF copies, roots

LEMMA StoreSeedKeeps ==
  ASSUME RecoveryIInv, NEW d \in Browsers, StoreSeed(d)
  PROVE  RecoveryIInv'
<1>1. task[d].todo # <<>> /\ Head(task[d].todo) = "seed"
  BY DEF StoreSeed, Doing
<1>2. /\ task \in [Browsers -> Tasks] /\ task[d] \in Tasks /\ TaskFits(d) /\ task[d] # NoTask
      /\ task[d].todo \in Todos /\ (task[d].todo \in SetupLeft \/ session[d] = Out)
  BY <1>1, TaskFacts
<1>3. task[d].todo \in {<<"seed", "signer", "enter">>, <<"seed", "signer", "bind", "enter">>}
  BY <1>1, <1>2, TodoSteps DEF Todos, LoginLeft, PortalLeft, SetupLeft, Registering
<1>4. Tail(task[d].todo) \in {<<"signer", "enter">>, <<"signer", "bind", "enter">>}
  BY <1>3, TodoSteps
<1>5. task[d].todo \notin SetupLeft \union Blank /\ task[d].todo # Unminted
  BY <1>3 DEF Blank, SetupLeft, Registering, Unminted
<1>6. Tail(task[d].todo) \in Todos \ SetupLeft /\ Tail(task[d].todo) \notin Registering
  BY <1>4 DEF Todos, LoginLeft, PortalLeft, SetupLeft, Registering
<1>7. /\ session[d] = Out /\ task[d].cred \in Creds /\ task[d].account = First
      /\ AreFirsts(task[d].roots)
      /\ task[d].todo \in Settled => task[d].account = AccountOf(d, task[d].cred)
  BY <1>2, <1>5 DEF TaskFits
<1>8. Tail(task[d].todo) \in Settled => task[d].todo \in Settled
  <2>1. CASE task[d].todo = <<"seed", "signer", "enter">>
    BY <2>1 DEF Settled
  <2>2. CASE task[d].todo = <<"seed", "signer", "bind", "enter">>
    <3>1. Tail(task[d].todo) = <<"signer", "bind", "enter">>
      BY <2>2, TodoSteps
    <3> QED
      BY <3>1 DEF Settled, Blank
  <2> QED
    BY <1>3, <2>1, <2>2
<1>9. /\ UNCHANGED <<chain, copies, facts, signer, session, probe, home>> /\ Next1(d)
  BY DEF StoreSeed
<1>10. /\ task' \in [Browsers -> Tasks] /\ (\A e \in Browsers \ {d} : task'[e] = task[e])
       /\ task'[d].todo = Tail(task[d].todo) /\ task'[d].cred = task[d].cred
       /\ task'[d].account = task[d].account /\ task'[d].roots = task[d].roots
  BY <1>2, <1>6, <1>9, OneStepOn, TodosAreWork
<1>11. /\ seed' \in [Browsers -> [Creds -> Creds \union {None}]]
       /\ \A e \in Browsers \ {d} : seed'[e] = seed[e]
       /\ \A c \in Creds : seed'[d][c] = IF c = task[d].cred THEN First ELSE seed[d][c]
  <2>1. seed' = [seed EXCEPT ![d][task[d].cred] = First]
    BY <1>7 DEF StoreSeed, AreFirsts
  <2> QED
    BY <1>7, <2>1, CredFacts DEF RecoveryIInv, RecoveryTypeOK
<1>12. RecoveryTypeOK'
  BY <1>9, <1>10, <1>11 DEF RecoveryIInv, RecoveryTypeOK, Tasks, chain, copies, facts
<1>13. CopiesFit'
  BY <1>9 DEF RecoveryIInv, CopiesFit, chain, copies
<1>14. BrowserFits(d)'
  <2>1. TaskFits(d)'
    BY <1>6, <1>7, <1>8, <1>9, <1>10 DEF TaskFits, AccountOf, AreFirsts, facts
  <2>2. SessionFits(d)'
    BY <1>7, <1>9 DEF SessionFits
  <2>3. ASSUME NEW c \in Creds PROVE SeedFits(d, c)'
    BY <1>7, <1>9, <1>11 DEF RecoveryIInv, BrowserFits, SeedFits, facts
  <2> QED
    BY <1>9, <2>1, <2>2, <2>3 DEF RecoveryIInv, BrowserFits, facts
<1> QED
  BY <1>9, <1>10, <1>11, <1>12, <1>13, <1>14, OneBrowser DEF copies, facts

LEMMA StoreSignerKeeps ==
  ASSUME RecoveryIInv, NEW d \in Browsers, StoreSigner(d)
  PROVE  RecoveryIInv'
<1>1. task[d].todo # <<>> /\ Head(task[d].todo) = "signer"
  BY DEF StoreSigner, Doing
<1>2. /\ task \in [Browsers -> Tasks] /\ task[d] \in Tasks /\ TaskFits(d) /\ task[d] # NoTask
      /\ task[d].todo \in Todos /\ (task[d].todo \in SetupLeft \/ session[d] = Out)
  BY <1>1, TaskFacts
<1>3. task[d].todo \in {<<"signer", "enter">>, <<"signer", "bind", "enter">>}
  BY <1>1, <1>2, TodoSteps DEF Todos, LoginLeft, PortalLeft, SetupLeft, Registering
<1>4. Tail(task[d].todo) \in {<<"enter">>, <<"bind", "enter">>}
  BY <1>3, TodoSteps
<1>5. task[d].todo \notin SetupLeft \union Blank /\ task[d].todo # Unminted
  BY <1>3 DEF Blank, SetupLeft, Registering, Unminted
<1>6. Tail(task[d].todo) \in Todos \ SetupLeft /\ Tail(task[d].todo) \notin Registering
  BY <1>4 DEF Todos, LoginLeft, PortalLeft, SetupLeft, Registering
<1>7. /\ session[d] = Out /\ task[d].cred \in Creds /\ task[d].account = First
      /\ AreFirsts(task[d].roots)
      /\ task[d].todo \in Settled => task[d].account = AccountOf(d, task[d].cred)
  BY <1>2, <1>5 DEF TaskFits
<1>8. Tail(task[d].todo) \in Settled => task[d].todo \in Settled
  BY <1>3, TodoSteps DEF Settled, Blank
<1>9. /\ UNCHANGED <<chain, copies, facts, seed, session, probe, home>> /\ Next1(d)
  BY DEF StoreSigner
<1>10. /\ task' \in [Browsers -> Tasks] /\ (\A e \in Browsers \ {d} : task'[e] = task[e])
       /\ task'[d].todo = Tail(task[d].todo) /\ task'[d].cred = task[d].cred
       /\ task'[d].account = task[d].account /\ task'[d].roots = task[d].roots
  BY <1>2, <1>6, <1>9, OneStepOn, TodosAreWork
<1>11. /\ signer' \in [Browsers -> [Accounts -> Creds \union {None}]]
       /\ signer'[d][First] = First /\ \A e \in Browsers \ {d} : signer'[e] = signer[e]
  <2>1. signer' = [signer EXCEPT ![d][First] = First]
    BY <1>7 DEF StoreSigner, AreFirsts
  <2> QED
    BY <1>7, <2>1, CredFacts DEF RecoveryIInv, RecoveryTypeOK
<1>12. RecoveryTypeOK'
  BY <1>9, <1>10, <1>11 DEF RecoveryIInv, RecoveryTypeOK, Tasks, chain, copies, facts
<1>13. CopiesFit'
  BY <1>9 DEF RecoveryIInv, CopiesFit, chain, copies
<1>14. BrowserFits(d)'
  <2>1. TaskFits(d)'
    BY <1>6, <1>7, <1>8, <1>9, <1>10 DEF TaskFits, AccountOf, AreFirsts, facts
  <2>2. SessionFits(d)'
    BY <1>7, <1>9 DEF SessionFits
  <2>3. ASSUME NEW c \in Creds PROVE SeedFits(d, c)'
    BY <1>7, <1>9 DEF RecoveryIInv, BrowserFits, SeedFits, facts
  <2> QED
    BY <1>9, <1>11, <2>1, <2>2, <2>3 DEF RecoveryIInv, BrowserFits, facts
<1> QED
  BY <1>9, <1>10, <1>11, <1>12, <1>13, <1>14, OneBrowser DEF copies, facts

LEMMA EnterKeeps ==
  ASSUME RecoveryIInv, NEW d \in Browsers, Enter(d)
  PROVE  RecoveryIInv'
<1>1. task[d].todo # <<>> /\ Head(task[d].todo) = "enter"
  BY DEF Enter, Doing
<1>2. /\ task \in [Browsers -> Tasks] /\ task[d] \in Tasks /\ TaskFits(d) /\ task[d] # NoTask
      /\ task[d].todo \in Todos /\ (task[d].todo \in SetupLeft \/ session[d] = Out)
  BY <1>1, TaskFacts
<1>3. task[d].todo = <<"enter">> /\ Tail(task[d].todo) = <<>>
  BY <1>1, <1>2, TodoSteps DEF Todos, LoginLeft, PortalLeft, SetupLeft, Registering
<1>4. <<"enter">> \notin SetupLeft /\ <<"enter">> # Unminted /\ <<"enter">> \in Settled
  BY DEF Blank, SetupLeft, Registering, Unminted, Settled
<1>5. /\ session[d] = Out /\ task[d].cred \in Creds
      /\ task[d].account = AccountOf(d, task[d].cred)
  BY <1>2, <1>3, <1>4 DEF TaskFits
<1>6. /\ UNCHANGED <<chain, copies, bound, tomb, roots, probe>>
      /\ Opens(d, task[d].cred, AccountOf(d, task[d].cred))
  BY <1>5 DEF Enter
<1>7. /\ SessionFits(d)' /\ (\A x \in Creds : SeedFits(d, x)')
      /\ signer'[d][First] \in {None, First} /\ home'[d] \subseteq bound'[d]
      /\ session' \in [Browsers -> Sessions \union {Out}]
      /\ home' \in [Browsers -> SUBSET Creds]
      /\ \A e \in Browsers \ {d} : session'[e] = session[e] /\ home'[e] = home[e]
  BY <1>5, <1>6, OpeningFits
<1>8. task' = [task EXCEPT ![d] = NoTask]
  BY <1>2, <1>3 DEF Enter
<1>9. /\ task' \in [Browsers -> Tasks] /\ task'[d] = NoTask
      /\ \A e \in Browsers \ {d} : task'[e] = task[e]
  BY <1>2, <1>8, NoTaskFacts
<1>10. cached' \in [Browsers -> SUBSET Creds] /\ marked' \in [Browsers -> SUBSET Creds]
  <2>1. cached' = cached \/ cached' = [cached EXCEPT ![d] = @ \union {task[d].cred}]
    BY DEF Enter
  <2>2. marked' = marked \/ marked' = [marked EXCEPT ![d] = @ \union {task[d].cred}]
    BY DEF Enter
  <2> QED
    BY <1>5, <2>1, <2>2, SetsOfBrowsers DEF RecoveryIInv
<1>11. RecoveryTypeOK'
  BY <1>6, <1>7, <1>9, <1>10 DEF RecoveryIInv, RecoveryTypeOK, Tasks, chain, copies, roots
<1>12. CopiesFit'
  BY <1>6 DEF RecoveryIInv, CopiesFit, chain, copies
<1>13. BrowserFits(d)'
  BY <1>7, <1>9 DEF BrowserFits, TaskFits
<1> QED
  BY <1>6, <1>7, <1>9, <1>11, <1>12, <1>13, OneBrowser DEF copies, roots

LEMMA DeriveSeedKeeps ==
  ASSUME RecoveryIInv, NEW d \in Browsers, DeriveSeed(d)
  PROVE  RecoveryIInv'
<1>1. /\ session[d] # Out /\ session[d].cred \in Creds /\ session[d].cred \notin bound[d]
      /\ session[d] \in Sessions
  BY DEF DeriveSeed, MayDerive, RecoveryIInv, RecoveryTypeOK, Sessions
<1>2. UNCHANGED <<chain, copies, facts, signer, session, task, probe, home>>
  BY DEF DeriveSeed
<1>3. /\ seed' \in [Browsers -> [Creds -> Creds \union {None}]]
      /\ \A e \in Browsers \ {d} : seed'[e] = seed[e]
      /\ \A c \in Creds : seed'[d][c] = IF c = session[d].cred THEN c ELSE seed[d][c]
  BY <1>1 DEF RecoveryIInv, RecoveryTypeOK, DeriveSeed
<1>4. RecoveryTypeOK'
  BY <1>2, <1>3 DEF RecoveryIInv, RecoveryTypeOK, chain, copies, facts
<1>5. CopiesFit'
  BY <1>2 DEF RecoveryIInv, CopiesFit, chain, copies
<1>6. BrowserFits(d)'
  <2>1. TaskFits(d)' /\ SessionFits(d)'
    BY <1>2 DEF RecoveryIInv, BrowserFits, TaskFits, SessionFits, AccountOf, AreFirsts, copies, facts
  <2>2. ASSUME NEW c \in Creds PROVE SeedFits(d, c)'
    BY <1>1, <1>2, <1>3 DEF RecoveryIInv, BrowserFits, SeedFits, facts
  <2> QED
    BY <1>2, <2>1, <2>2 DEF RecoveryIInv, BrowserFits, facts
<1> QED
  BY <1>2, <1>3, <1>4, <1>5, <1>6, OneBrowser DEF copies, facts

LEMMA DeriveSignerKeeps ==
  ASSUME RecoveryIInv, NEW d \in Browsers, DeriveSigner(d)
  PROVE  RecoveryIInv'
<1>1. /\ session[d] # Out /\ session[d].cred \in Creds /\ session[d].cred \notin bound[d]
      /\ session[d] \in Sessions /\ session[d].account \in Accounts
  BY DEF DeriveSigner, MayDerive, RecoveryIInv, RecoveryTypeOK, Sessions
<1>2. session[d].account = session[d].cred
  BY <1>1 DEF RecoveryIInv, BrowserFits, SessionFits, AccountOf
<1>3. UNCHANGED <<chain, copies, facts, seed, session, task, probe, home>>
  BY DEF DeriveSigner
<1>4. /\ signer' \in [Browsers -> [Accounts -> Creds \union {None}]]
      /\ \A e \in Browsers \ {d} : signer'[e] = signer[e]
      /\ \A a \in Accounts : signer'[d][a] = IF a = session[d].cred THEN a ELSE signer[d][a]
  BY <1>1, <1>2 DEF RecoveryIInv, RecoveryTypeOK, DeriveSigner
<1>5. RecoveryTypeOK'
  BY <1>3, <1>4 DEF RecoveryIInv, RecoveryTypeOK, chain, copies, facts
<1>6. CopiesFit'
  BY <1>3 DEF RecoveryIInv, CopiesFit, chain, copies
<1>7. BrowserFits(d)'
  <2>1. TaskFits(d)' /\ SessionFits(d)' /\ (\A c \in Creds : SeedFits(d, c)')
    BY <1>3 DEF RecoveryIInv, BrowserFits, TaskFits, SessionFits, SeedFits, AccountOf, AreFirsts,
                copies, facts
  <2>2. signer'[d][First] \in {None, First}
    BY <1>4, CredFacts DEF RecoveryIInv, BrowserFits
  <2> QED
    BY <1>3, <2>1, <2>2 DEF RecoveryIInv, BrowserFits, facts
<1> QED
  BY <1>3, <1>4, <1>5, <1>6, <1>7, OneBrowser DEF copies, facts

(* A step that changes the chain or an envelope.                           *)
LEMMA CopiesChange ==
  ASSUME RecoveryIInv, CopiesFit',
         minted' \in Creds, owner' \in [Accounts -> Creds \union {None}],
         guardians' \subseteq Backups, envelope' \in [Creds -> Roots \union {None}],
         UNCHANGED <<escrow, facts, roots, session, task, probe, home>>
  PROVE  RecoveryIInv'
<1>1. RecoveryTypeOK'
  BY DEF RecoveryIInv, RecoveryTypeOK, facts, roots
<1>2. ASSUME NEW d \in Browsers PROVE BrowserFits(d)'
  BY BrowserStays DEF RecoveryIInv, facts, roots
<1> QED
  BY <1>1, <1>2 DEF RecoveryIInv

LEMMA ActKeeps ==
  ASSUME RecoveryIInv, NEW d \in Browsers, Act(d)
  PROVE  RecoveryIInv'
<1>1. session[d] \in Sessions /\ session[d].cred \in Creds
  BY DEF Act, CanAct, BuildsKernel, RecoveryIInv, RecoveryTypeOK, Sessions
<1>2. owner' \in [Accounts -> Creds \union {None}]
  BY <1>1 DEF Act, RecoveryIInv, RecoveryTypeOK
<1>3. CopiesFit'
  BY DEF Act, RecoveryIInv, CopiesFit, copies
<1> QED
  BY <1>2, <1>3, CopiesChange DEF Act, RecoveryIInv, RecoveryTypeOK, copies

(* The roots of a session for First's account are First's.                 *)
LEMMA HeldAreFirsts ==
  ASSUME RecoveryIInv, NEW d \in Browsers, session[d] # Out, session[d].account = First,
         HasRoots(d, session[d].cred, First)
  PROVE  /\ session[d] \in Sessions /\ session[d].cred \in Creds
         /\ AreFirsts(Held(d, session[d].cred, First)) /\ Held(d, session[d].cred, First) \in Roots
<1>1. session[d] \in Sessions /\ session[d].cred \in Creds
  BY DEF RecoveryIInv, RecoveryTypeOK, Sessions
<1>2. signer[d][First] = First
  BY DEF RecoveryIInv, BrowserFits, HasRoots
<1>3. seed[d][session[d].cred] = First
  <2>1. SeedFits(d, session[d].cred) /\ AccountOf(d, session[d].cred) = First
    BY <1>1 DEF RecoveryIInv, BrowserFits, SessionFits
  <2> QED
    BY <2>1 DEF SeedFits, HasRoots, AccountOf
<1>4. Held(d, session[d].cred, First) = [seed |-> First, signer |-> First]
  BY <1>2, <1>3 DEF Held
<1>5. Held(d, session[d].cred, First) \in Roots
  BY <1>4, CredFacts DEF Roots
<1> QED
  BY <1>1, <1>4, <1>5, CredFacts DEF AreFirsts

LEMMA BackfillKeeps ==
  ASSUME RecoveryIInv, NEW d \in Browsers, Backfill(d)
  PROVE  RecoveryIInv'
<1>1. session[d] # Out /\ session[d].account = First
  BY DEF Backfill, RecoveryIInv, BrowserFits, SessionFits, AccountOf
<1>2. HasRoots(d, session[d].cred, First)
  BY <1>1 DEF Backfill
<1>3. /\ session[d].cred \in Creds
      /\ AreFirsts(Held(d, session[d].cred, First)) /\ Held(d, session[d].cred, First) \in Roots
  BY <1>1, <1>2, HeldAreFirsts
<1>4. PICK h \in Roots :
        AreFirsts(h) /\ envelope' = [envelope EXCEPT ![session[d].cred] = h]
  BY <1>1, <1>3 DEF Backfill
<1>5. envelope' \in [Creds -> Roots \union {None}]
  BY <1>3, <1>4 DEF RecoveryIInv, RecoveryTypeOK
<1>6. CopiesFit'
  <2>1. \A c \in Creds : envelope'[c] = IF c = session[d].cred THEN h ELSE envelope[c]
    BY <1>3, <1>4 DEF RecoveryIInv, RecoveryTypeOK
  <2>2. \A c \in Creds : envelope'[c] = None \/ AreFirsts(envelope'[c])
    BY <1>4, <2>1 DEF RecoveryIInv, CopiesFit
  <2> QED
    BY <2>2 DEF RecoveryIInv, CopiesFit, AreFirsts, Backfill, chain
<1> QED
  BY <1>5, <1>6, CopiesChange DEF Backfill, RecoveryIInv, RecoveryTypeOK, chain

(* Signing out leaves no roots but First's.                                *)
LEMMA WipeFits ==
  ASSUME RecoveryIInv, NEW d \in Browsers, session[d] # Out, WipeRoots(d, session[d]),
         task[d] = NoTask, task' = task, home' = home, bound[d] \subseteq bound'[d]
  PROVE  /\ BrowserFits(d)'
         /\ seed' \in [Browsers -> [Creds -> Creds \union {None}]]
         /\ signer' \in [Browsers -> [Accounts -> Creds \union {None}]]
         /\ session' \in [Browsers -> Sessions \union {Out}]
         /\ \A e \in Browsers \ {d} :
              seed'[e] = seed[e] /\ signer'[e] = signer[e] /\ session'[e] = session[e]
<1>1. session[d] \in Sessions /\ session[d].cred \in Creds /\ session[d].account \in Accounts
  BY DEF RecoveryIInv, RecoveryTypeOK, Sessions
<1>2. /\ session' \in [Browsers -> Sessions \union {Out}] /\ session'[d] = Out
      /\ \A e \in Browsers \ {d} : session'[e] = session[e]
  BY DEF WipeRoots, RecoveryIInv, RecoveryTypeOK
<1>3. /\ seed' \in [Browsers -> [Creds -> Creds \union {None}]]
      /\ \A e \in Browsers \ {d} : seed'[e] = seed[e]
      /\ \A c \in Creds : seed'[d][c] = IF c = session[d].cred THEN None ELSE seed[d][c]
  BY <1>1 DEF WipeRoots, RecoveryIInv, RecoveryTypeOK
<1>4. /\ signer' \in [Browsers -> [Accounts -> Creds \union {None}]]
      /\ \A e \in Browsers \ {d} : signer'[e] = signer[e]
      /\ \A a \in Accounts : signer'[d][a] = IF a = session[d].account THEN None ELSE signer[d][a]
  BY <1>1 DEF WipeRoots, RecoveryIInv, RecoveryTypeOK
<1>5. BrowserFits(d)'
  <2>1. TaskFits(d)' /\ SessionFits(d)'
    BY <1>2 DEF TaskFits, SessionFits
  <2>2. ASSUME NEW c \in Creds PROVE SeedFits(d, c)'
    <3>1. SeedFits(d, c)
      BY DEF RecoveryIInv, BrowserFits
    <3> QED
      BY <1>3, <3>1 DEF SeedFits
  <2>3. signer'[d][First] \in {None, First}
    BY <1>4, CredFacts DEF RecoveryIInv, BrowserFits
  <2>4. home'[d] \subseteq bound'[d]
    BY DEF RecoveryIInv, BrowserFits
  <2> QED
    BY <2>1, <2>2, <2>3, <2>4 DEF BrowserFits
<1> QED
  BY <1>2, <1>3, <1>4, <1>5

LEMMA LogoutKeeps ==
  ASSUME RecoveryIInv, NEW d \in Browsers, Logout(d)
  PROVE  RecoveryIInv'
<1>1. UNCHANGED <<chain, copies, facts, task, probe, home>>
  BY DEF Logout
<1>2. /\ BrowserFits(d)'
      /\ seed' \in [Browsers -> [Creds -> Creds \union {None}]]
      /\ signer' \in [Browsers -> [Accounts -> Creds \union {None}]]
      /\ session' \in [Browsers -> Sessions \union {Out}]
      /\ \A e \in Browsers \ {d} :
           seed'[e] = seed[e] /\ signer'[e] = signer[e] /\ session'[e] = session[e]
  BY <1>1, WipeFits DEF Logout, facts
<1>3. RecoveryTypeOK' /\ CopiesFit'
  BY <1>1, <1>2 DEF RecoveryIInv, RecoveryTypeOK, CopiesFit, chain, copies, facts
<1> QED
  BY <1>1, <1>2, <1>3, OneBrowser DEF copies, facts

LEMMA EvictKeeps ==
  ASSUME RecoveryIInv, NEW d \in Browsers, Evict(d)
  PROVE  RecoveryIInv'
<1>1. UNCHANGED <<chain, copies, task>> /\ task[d] = NoTask
  BY DEF Evict
<1>2. /\ bound' \in [Browsers -> SUBSET Creds] /\ cached' \in [Browsers -> SUBSET Creds]
      /\ marked' \in [Browsers -> SUBSET Creds] /\ tomb' \in [Browsers -> SUBSET Creds]
      /\ home' \in [Browsers -> SUBSET Creds] /\ home'[d] = {}
      /\ \A e \in Browsers \ {d} : bound'[e] = bound[e] /\ home'[e] = home[e]
  BY SetsOfBrowsers DEF RecoveryIInv, Evict
<1>3. /\ seed' \in [Browsers -> [Creds -> Creds \union {None}]]
      /\ \A c \in Creds : seed'[d][c] = None
      /\ \A e \in Browsers \ {d} : seed'[e] = seed[e]
  BY DEF RecoveryIInv, RecoveryTypeOK, Evict
<1>4. /\ signer' \in [Browsers -> [Accounts -> Creds \union {None}]]
      /\ \A a \in Accounts : signer'[d][a] = None
      /\ \A e \in Browsers \ {d} : signer'[e] = signer[e]
  BY DEF RecoveryIInv, RecoveryTypeOK, Evict
<1>5. /\ session' \in [Browsers -> Sessions \union {Out}] /\ session'[d] = Out
      /\ \A e \in Browsers \ {d} : session'[e] = session[e]
  BY DEF RecoveryIInv, RecoveryTypeOK, Evict
<1>6. probe' \in [Browsers -> [cred: Creds, at: {"due", "asking", "owner"}] \union {None}]
  BY DEF RecoveryIInv, RecoveryTypeOK, Evict
<1>7. RecoveryTypeOK' /\ CopiesFit'
  BY <1>1, <1>2, <1>3, <1>4, <1>5, <1>6 DEF RecoveryIInv, RecoveryTypeOK, CopiesFit, chain, copies
<1>8. BrowserFits(d)'
  BY <1>1, <1>2, <1>3, <1>4, <1>5, CredFacts DEF BrowserFits, TaskFits, SessionFits, SeedFits
<1> QED
  BY <1>1, <1>2, <1>3, <1>4, <1>5, <1>7, <1>8, OneBrowser DEF copies

(* A look that ends its session, if that is still the one signed in, and   *)
(* learns what changes no binding.                                         *)
LEMMA LookEnds ==
  ASSUME RecoveryIInv, NEW d \in Browsers, NEW c \in Creds, NEW a, EndsSession(d, c, a), ProbeOver(d),
         task[d] = NoTask, UNCHANGED <<chain, copies, bound, cached, task, home>>,
         marked' \in [Browsers -> SUBSET Creds], tomb' \in [Browsers -> SUBSET Creds]
  PROVE  RecoveryIInv'
<1>1. probe' \in [Browsers -> [cred: Creds, at: {"due", "asking", "owner"}] \union {None}]
  BY DEF ProbeOver, RecoveryIInv, RecoveryTypeOK
<1>2. CopiesFit'
  BY DEF RecoveryIInv, CopiesFit, chain, copies
<1>3. CASE session[d] # Out /\ WipeRoots(d, session[d])
  <2>1. /\ BrowserFits(d)'
        /\ seed' \in [Browsers -> [Creds -> Creds \union {None}]]
        /\ signer' \in [Browsers -> [Accounts -> Creds \union {None}]]
        /\ session' \in [Browsers -> Sessions \union {Out}]
        /\ \A e \in Browsers \ {d} :
             seed'[e] = seed[e] /\ signer'[e] = signer[e] /\ session'[e] = session[e]
    BY <1>3, WipeFits
  <2>2. RecoveryTypeOK'
    BY <1>1, <2>1 DEF RecoveryIInv, RecoveryTypeOK, chain, copies
  <2> QED
    BY <1>2, <2>1, <2>2, OneBrowser DEF copies
<1>4. CASE UNCHANGED <<roots, session>>
  <2>1. RecoveryTypeOK'
    BY <1>1, <1>4 DEF RecoveryIInv, RecoveryTypeOK, chain, copies, roots
  <2>2. ASSUME NEW e \in Browsers PROVE BrowserFits(e)'
    BY <1>4, BrowserStays DEF RecoveryIInv, copies, roots
  <2> QED
    BY <1>2, <2>1, <2>2 DEF RecoveryIInv
<1>5. SignedInAs(d, c, a) => session[d] # Out
  BY CredFacts DEF SignedInAs, Out
<1> QED
  BY <1>3, <1>4, <1>5 DEF EndsSession

LEMMA ProbeFacts ==
  ASSUME RecoveryIInv, NEW d \in Browsers, probe[d] # None
  PROVE  probe[d].cred \in Creds /\ probe[d].at \in {"due", "asking", "owner"}
  BY DEF RecoveryIInv, RecoveryTypeOK

LEMMA LooksKeep ==
  ASSUME RecoveryIInv, NEW d \in Browsers,
         ReprobeRetires(d) \/ BindingRetires(d)
  PROVE  RecoveryIInv'
<1>1. CASE ReprobeRetires(d)
  <2>1. probe[d].cred \in Creds
    BY <1>1, ProbeFacts DEF ReprobeRetires
  <2>2. tomb' \in [Browsers -> SUBSET Creds] /\ marked' \in [Browsers -> SUBSET Creds]
    BY <1>1, <2>1, SetsOfBrowsers DEF ReprobeRetires, RecoveryIInv
  <2> QED
    BY <1>1, <2>1, <2>2, LookEnds DEF ReprobeRetires
<1>2. CASE BindingRetires(d)
  <2>1. probe[d].cred \in Creds
    BY <1>2, ProbeFacts DEF BindingRetires
  <2>2. tomb' \in [Browsers -> SUBSET Creds] /\ marked' \in [Browsers -> SUBSET Creds]
    BY <1>2, <2>1, SetsOfBrowsers DEF BindingRetires, RecoveryIInv
  <2> QED
    BY <1>2, <2>1, <2>2, LookEnds DEF BindingRetires
<1> QED
  BY <1>1, <1>2

(* A browser that learns that its passkey opens First's account signs it   *)
(* out of its own.                                                         *)
LEMMA ReprobeHealsKeeps ==
  ASSUME RecoveryIInv, NEW d \in Browsers, ReprobeHeals(d)
  PROVE  RecoveryIInv'
<1>1. PICK c \in Creds : c = probe[d].cred
  BY ProbeFacts DEF ReprobeHeals
<1>2. /\ UNCHANGED <<chain, copies, marked, tomb, task, home>> /\ task[d] = NoTask
      /\ EndsSession(d, c, c) /\ ProbeOver(d)
  BY <1>1 DEF ReprobeHeals
<1>3. /\ bound' \in [Browsers -> SUBSET Creds] /\ cached' \in [Browsers -> SUBSET Creds]
      /\ bound'[d] = bound[d] \union {c} /\ \A e \in Browsers \ {d} : bound'[e] = bound[e]
  BY <1>1, SetsOfBrowsers DEF ReprobeHeals, RecoveryIInv
<1>4. probe' \in [Browsers -> [cred: Creds, at: {"due", "asking", "owner"}] \union {None}]
  BY <1>2 DEF ProbeOver, RecoveryIInv, RecoveryTypeOK
<1>5. CopiesFit'
  BY <1>2 DEF RecoveryIInv, CopiesFit, chain, copies
<1>6. CASE session[d] # Out /\ WipeRoots(d, session[d])
  <2>1. /\ BrowserFits(d)'
        /\ seed' \in [Browsers -> [Creds -> Creds \union {None}]]
        /\ signer' \in [Browsers -> [Accounts -> Creds \union {None}]]
        /\ session' \in [Browsers -> Sessions \union {Out}]
        /\ \A e \in Browsers \ {d} :
             seed'[e] = seed[e] /\ signer'[e] = signer[e] /\ session'[e] = session[e]
    BY <1>2, <1>3, <1>6, WipeFits
  <2>2. RecoveryTypeOK'
    BY <1>2, <1>3, <1>4, <2>1 DEF RecoveryIInv, RecoveryTypeOK, chain, copies
  <2> QED
    BY <1>2, <1>3, <1>5, <2>1, <2>2, OneBrowser DEF copies
<1>7. CASE ~SignedInAs(d, c, c) /\ UNCHANGED <<roots, session>>
  <2>1. RecoveryTypeOK'
    BY <1>2, <1>3, <1>4, <1>7 DEF RecoveryIInv, RecoveryTypeOK, chain, copies, roots
  <2>2. session[d] # Out /\ session[d].cred = c => session[d].account = First
    <3>1. ASSUME session[d] # Out, session[d].cred = c PROVE session[d] \in Sessions
      BY <3>1 DEF RecoveryIInv, RecoveryTypeOK
    <3>2. ASSUME session[d] \in Sessions, session[d].cred = c, session[d].account = c PROVE FALSE
      BY <1>7, <3>2 DEF SignedInAs, Sessions
    <3> QED
      BY <3>1, <3>2 DEF RecoveryIInv, BrowserFits, SessionFits, AccountOf
  <2>3. SessionFits(d)'
    BY <1>3, <1>7, <2>2 DEF RecoveryIInv, BrowserFits, SessionFits, AccountOf
  <2>4. ASSUME NEW x \in Creds PROVE SeedFits(d, x)'
    <3>1. SeedFits(d, x) /\ SessionFits(d)
      BY DEF RecoveryIInv, BrowserFits
    <3>2. seed'[d][x] = seed[d][x] /\ session'[d] = session[d]
      BY <1>7 DEF roots
    <3> QED
      BY <1>3, <2>2, <3>1, <3>2 DEF SeedFits, SessionFits, AccountOf
  <2>5. BrowserFits(d)'
    BY <1>2, <1>3, <1>7, <2>3, <2>4 DEF RecoveryIInv, BrowserFits, TaskFits, roots
  <2> QED
    BY <1>2, <1>3, <1>5, <1>7, <2>1, <2>5, OneBrowser DEF copies, roots
<1>8. SignedInAs(d, c, c) => session[d] # Out
  BY CredFacts DEF SignedInAs, Out
<1> QED
  BY <1>2, <1>6, <1>7, <1>8 DEF EndsSession

(* A look that starts, or ends with nothing to say.                        *)
LEMMA ProbesKeep ==
  ASSUME RecoveryIInv, NEW d \in Browsers, ReprobeStarts(d) \/ ProbeEnds(d)
  PROVE  RecoveryIInv'
<1>1. UNCHANGED <<chain, copies, facts, roots, session, task, home>>
  BY DEF ReprobeStarts, ProbeEnds
<1>2. probe' \in [Browsers -> [cred: Creds, at: {"due", "asking", "owner"}] \union {None}]
  <2> DEFINE Probes == [cred: Creds, at: {"due", "asking", "owner"}] \union {None}
  <2>1. ASSUME NEW v \in Probes, probe' = [probe EXCEPT ![d] = v]
        PROVE  probe' \in [Browsers -> Probes]
    BY <2>1 DEF RecoveryIInv, RecoveryTypeOK
  <2>2. probe[d] # None => [probe[d] EXCEPT !.at = "asking"] \in Probes
    BY DEF RecoveryIInv, RecoveryTypeOK
  <2>3. CASE ReprobeStarts(d)
    BY <2>1, <2>2, <2>3 DEF ReprobeStarts
  <2>4. CASE ProbeEnds(d)
    BY <2>1, <2>4 DEF ProbeEnds, ProbeOver
  <2> QED
    BY <2>3, <2>4
<1>3. RecoveryTypeOK' /\ CopiesFit'
  BY <1>1, <1>2 DEF RecoveryIInv, RecoveryTypeOK, CopiesFit, chain, copies, facts, roots
<1>4. ASSUME NEW e \in Browsers PROVE BrowserFits(e)'
  BY <1>1, BrowserStays DEF RecoveryIInv, copies, facts, roots
<1> QED
  BY <1>3, <1>4 DEF RecoveryIInv

(* A browser that takes up a back-up or a recovery.                        *)
LEMMA SetupBackupKeeps ==
  ASSUME RecoveryIInv, NEW d \in Browsers, NEW b \in Backups, SetupBackup(d, b)
  PROVE  RecoveryIInv'
<1>1. session[d] # Out /\ session[d].account = First /\ HasRoots(d, session[d].cred, First)
  BY DEF SetupBackup, BuildsKernel
<1>2. PICK h \in Roots : AreFirsts(h) /\ h = Held(d, session[d].cred, First)
  BY <1>1, HeldAreFirsts
<1>3. session[d].cred \in Creds
  BY <1>1, HeldAreFirsts
<1>4. SetupWrites \in SetupLeft /\ SetupWrites \in Todos /\ SetupWrites \in Seq(Work)
  BY TodosAreWork DEF SetupWrites, AddPath, SetupLeft, Todos
<1>5. SetupWrites \notin Registering /\ SetupWrites \notin Settled /\ SetupWrites # Unminted
  BY DEF SetupWrites, AddPath, Registering, Settled, Blank, Unminted
<1>6. PICK t : t = [NoTask EXCEPT !.cred = session[d].cred, !.account = First, !.backup = b,
                                  !.roots = h, !.todo = SetupWrites]
  OBVIOUS
<1>7. /\ t \in Tasks /\ t.todo = SetupWrites /\ t.cred = session[d].cred /\ t.account = First
      /\ t.backup = b /\ t.roots = h
  <2>1. First \in Accounts
    BY CredFacts
  <2> QED
    BY <1>2, <1>3, <1>4, <1>6, <2>1 DEF NoTask, Tasks
<1>8. task' = [task EXCEPT ![d] = t] /\ task'[d] = t
  BY <1>2, <1>6 DEF SetupBackup, RecoveryIInv, RecoveryTypeOK
<1>9. UNCHANGED <<chain, copies, facts, roots, session, probe, home>>
  BY DEF SetupBackup
<1>10. TaskFits(d)'
  BY <1>2, <1>3, <1>4, <1>5, <1>7, <1>8 DEF TaskFits, AreFirsts
<1> QED
  BY <1>7, <1>8, <1>9, <1>10, TaskChanges, SetsOfBrowsers DEF RecoveryIInv, facts

LEMMA ConcatIs ==
  ASSUME NEW S, NEW s \in Seq(S), NEW t \in Seq(S), NEW u \in Seq(S), Len(u) = Len(s) + Len(t),
         \A i \in 1..Len(u) : u[i] = IF i <= Len(s) THEN s[i] ELSE t[i - Len(s)]
  PROVE  s \o t = u
<1>1. PICK v : v = s \o t
  OBVIOUS
<1>2. v \in Seq(S) /\ Len(v) = Len(u)
  BY <1>1, ConcatProperties
<1>3. \A i \in 1..Len(u) : v[i] = u[i]
  BY <1>1, ConcatProperties
<1> QED
  BY <1>1, <1>2, <1>3, SeqEqual

LEMMA PortalOpensKeeps ==
  ASSUME RecoveryIInv, NEW d \in Browsers, NEW b \in Backups, PortalOpens(d, b)
  PROVE  RecoveryIInv'
<1>1. session[d] = Out /\ AreFirsts(escrow[b]) /\ escrow[b] \in Roots
  BY DEF PortalOpens, RecoveryIInv, CopiesFit, RecoveryTypeOK
<1>2. <<"mint", "rotate">> \o PortalWrites = Unminted
  <2>1. PICK s, t, u : s = <<"mint", "rotate">> /\ t = PortalWrites /\ u = Unminted
    OBVIOUS
  <2>2. s \in Seq(Work) /\ Len(s) = 2
    BY <2>1 DEF Work
  <2>3. t \in Seq(Work) /\ Len(t) = 4
    BY <2>1 DEF Work, PortalWrites
  <2>4. u \in Seq(Work) /\ Len(u) = 6
    BY <2>1 DEF Work, Unminted
  <2>5. ASSUME NEW i \in 1..Len(u)
        PROVE  u[i] = IF i <= Len(s) THEN s[i] ELSE t[i - Len(s)]
    <3>1. i \in {1, 2, 3, 4, 5, 6}
      BY <2>4
    <3> QED
      BY <2>1, <2>2, <3>1 DEF PortalWrites, Unminted
  <2>6. Len(u) = Len(s) + Len(t)
    BY <2>2, <2>3, <2>4
  <2>7. s \o t = u
    BY <2>2, <2>3, <2>4, <2>5, <2>6, ConcatIs
  <2> QED
    BY <2>1, <2>7
<1>3. Unminted \in Todos /\ Unminted \in Seq(Work)
  BY TodosAreWork DEF Todos, PortalLeft
<1>4. Unminted \notin Registering /\ Unminted \notin Settled /\ Unminted \notin SetupLeft
  BY DEF Registering, Settled, Blank, Unminted, SetupLeft
<1>5. PICK t : t = [NoTask EXCEPT !.account = First, !.backup = b, !.roots = escrow[b],
                                  !.todo = Unminted]
  OBVIOUS
<1>6. t \in Tasks /\ t.todo = Unminted /\ t.account = First /\ t.backup = b /\ t.roots = escrow[b]
  <2>1. First \in Accounts
    BY CredFacts
  <2> QED
    BY <1>1, <1>3, <1>5, <2>1 DEF NoTask, Tasks
<1>7. task' = [task EXCEPT ![d] = t] /\ task'[d] = t
  BY <1>2, <1>5 DEF PortalOpens, RecoveryIInv, RecoveryTypeOK
<1>8. UNCHANGED <<chain, copies, facts, roots, session, probe, home>>
  BY DEF PortalOpens
<1>9. TaskFits(d)'
  BY <1>1, <1>3, <1>4, <1>6, <1>7, <1>8 DEF TaskFits, AreFirsts
<1> QED
  BY <1>6, <1>7, <1>8, <1>9, TaskChanges, SetsOfBrowsers DEF RecoveryIInv, facts

(* A step of a task that changes the chain or an escrow and no browser's   *)
(* store.                                                                  *)
LEMMA TaskWrites ==
  ASSUME RecoveryIInv, CopiesFit', NEW d \in Browsers, TaskFits(d)',
         minted' \in Creds, owner' \in [Accounts -> Creds \union {None}],
         guardians' \subseteq Backups, escrow' \in [Backups -> Roots \union {None}],
         task' \in [Browsers -> Tasks], \A e \in Browsers \ {d} : task'[e] = task[e],
         \A b \in Backups : escrow[b] # None => escrow'[b] # None,
         UNCHANGED <<envelope, facts, roots, session, probe, home>>
  PROVE  RecoveryIInv'
<1>1. RecoveryTypeOK'
  BY DEF RecoveryIInv, RecoveryTypeOK, Tasks, facts, roots
<1>2. BrowserFits(d)'
  BY DEF RecoveryIInv, BrowserFits, SessionFits, SeedFits, AccountOf, facts, roots
<1> QED
  BY <1>1, <1>2, OneBrowser DEF facts, roots

LEMMA WriteEscrowKeeps ==
  ASSUME RecoveryIInv, NEW d \in Browsers, WriteEscrow(d)
  PROVE  RecoveryIInv'
<1>1. task[d].todo # <<>> /\ Head(task[d].todo) = "escrow"
  BY DEF WriteEscrow, Doing
<1>2. /\ task \in [Browsers -> Tasks] /\ task[d] \in Tasks /\ TaskFits(d) /\ task[d] # NoTask
      /\ task[d].todo \in Todos
  BY <1>1, TaskFacts
<1>3. task[d].todo \in {<<"escrow", "install">>, <<"escrow", "append">>}
  BY <1>1, <1>2, TodoSteps DEF Todos, LoginLeft, PortalLeft, SetupLeft, Registering
<1>4. Tail(task[d].todo) \in Registering
  BY <1>3, TodoSteps DEF Registering
<1>5. task[d].todo \in SetupLeft /\ task[d].todo \notin Blank /\ task[d].todo # Unminted
  BY <1>3 DEF SetupLeft, Blank, Unminted
<1>6. /\ task[d].cred \in Creds /\ task[d].account = First /\ task[d].backup \in Backups
      /\ AreFirsts(task[d].roots) /\ task[d].roots \in Roots
  BY <1>2, <1>5 DEF TaskFits, Tasks, AreFirsts
<1>7. /\ Tail(task[d].todo) \in SetupLeft /\ Tail(task[d].todo) \in Todos
      /\ Tail(task[d].todo) \notin Settled /\ Tail(task[d].todo) # Unminted
  BY <1>4 DEF SetupLeft, Todos, Registering, Settled, Blank, Unminted
<1>8. /\ task' \in [Browsers -> Tasks] /\ (\A e \in Browsers \ {d} : task'[e] = task[e])
      /\ task'[d].todo = Tail(task[d].todo) /\ task'[d].cred = task[d].cred
      /\ task'[d].account = task[d].account /\ task'[d].roots = task[d].roots
      /\ task'[d].backup = task[d].backup
  BY <1>2, <1>7, OneStepOn, TodosAreWork DEF WriteEscrow
<1>9. /\ escrow' \in [Backups -> Roots \union {None}]
      /\ \A b \in Backups : escrow'[b] = IF b = task[d].backup THEN task[d].roots ELSE escrow[b]
  BY <1>6 DEF WriteEscrow, RecoveryIInv, RecoveryTypeOK
<1>10. CopiesFit'
  <2>1. \A b \in Backups : escrow'[b] = None \/ AreFirsts(escrow'[b])
    BY <1>6, <1>9 DEF RecoveryIInv, CopiesFit
  <2>2. \A b \in guardians : b \in Backups /\ escrow'[b] # None
    BY <1>6, <1>9 DEF RecoveryIInv, RecoveryTypeOK, CopiesFit, AreFirsts
  <2> QED
    BY <2>1, <2>2 DEF RecoveryIInv, CopiesFit, AreFirsts, WriteEscrow, chain
<1>11. escrow'[task[d].backup] # None
  BY <1>6, <1>9 DEF AreFirsts
<1>12. TaskFits(d)'
  BY <1>6, <1>7, <1>8, <1>11 DEF TaskFits, AreFirsts
<1>13. \A b \in Backups : escrow[b] # None => escrow'[b] # None
  BY <1>6, <1>9 DEF AreFirsts
<1> QED
  BY <1>8, <1>9, <1>10, <1>12, <1>13, TaskWrites
     DEF WriteEscrow, RecoveryIInv, RecoveryTypeOK, chain

LEMMA RegisterKeeps ==
  ASSUME RecoveryIInv, NEW d \in Browsers, Register(d)
  PROVE  RecoveryIInv'
<1>1. task[d].todo # <<>> /\ Head(task[d].todo) \in {"install", "append"}
  BY DEF Register, Doing
<1>2. /\ task \in [Browsers -> Tasks] /\ task[d] \in Tasks /\ TaskFits(d) /\ task[d] # NoTask
      /\ task[d].todo \in Todos
  BY <1>1, TaskFacts
<1>3. task[d].todo \in Registering /\ Tail(task[d].todo) = <<>>
  BY <1>1, <1>2, TodoSteps DEF Todos, LoginLeft, PortalLeft, SetupLeft, Registering
<1>4. task[d].todo \in SetupLeft /\ task[d].todo # Unminted
  BY <1>3 DEF SetupLeft, Registering, Unminted
<1>5. task[d].cred \in Creds /\ task[d].backup \in Backups /\ escrow[task[d].backup] # None
  BY <1>2, <1>3, <1>4 DEF TaskFits
<1>6. /\ task' \in [Browsers -> Tasks] /\ task'[d] = NoTask
      /\ \A e \in Browsers \ {d} : task'[e] = task[e]
  BY <1>2, <1>3, NoTaskFacts DEF Register
<1>7. owner' \in [Accounts -> Creds \union {None}]
  BY <1>5, CredFacts DEF Register, RecoveryIInv, RecoveryTypeOK
<1>8. guardians' \subseteq guardians \union {task[d].backup}
  BY DEF Register
<1>9. guardians' \subseteq Backups
  BY <1>5, <1>8 DEF RecoveryIInv, RecoveryTypeOK
<1>10. CopiesFit'
  BY <1>5, <1>8 DEF RecoveryIInv, CopiesFit, AreFirsts, Register, copies
<1>11. TaskFits(d)'
  BY <1>6 DEF TaskFits
<1> QED
  BY <1>6, <1>7, <1>9, <1>10, <1>11, TaskWrites DEF Register, RecoveryIInv, RecoveryTypeOK, copies

LEMMA RemoveBackupsKeeps ==
  ASSUME RecoveryIInv, NEW d \in Browsers, NEW gone, RemoveBackups(d, gone)
  PROVE  RecoveryIInv'
<1>1. CopiesFit' /\ guardians' \subseteq Backups
  BY DEF RecoveryIInv, RecoveryTypeOK, CopiesFit, AreFirsts, RemoveBackups, copies
<1> QED
  BY <1>1, CopiesChange DEF RemoveBackups, RecoveryIInv, RecoveryTypeOK, copies

LEMMA MintPasskeyKeeps ==
  ASSUME RecoveryIInv, NEW d \in Browsers, MintPasskey(d)
  PROVE  RecoveryIInv'
<1>1. task[d].todo # <<>> /\ Head(task[d].todo) = "mint"
  BY DEF MintPasskey, Doing
<1>2. /\ task \in [Browsers -> Tasks] /\ task[d] \in Tasks /\ TaskFits(d) /\ task[d] # NoTask
      /\ task[d].todo \in Todos /\ (task[d].todo \in SetupLeft \/ session[d] = Out)
  BY <1>1, TaskFacts
<1>3. task[d].todo = Unminted
  BY <1>1, <1>2, TodoSteps DEF Todos, LoginLeft, PortalLeft, SetupLeft, Registering
<1>4. Unminted \notin SetupLeft /\ Unminted \notin Blank
  BY DEF SetupLeft, Registering, Blank, Unminted
<1>5. PICK left : left = Tail(Unminted) /\ left \in Todos /\ left \notin SetupLeft \union Settled
                  /\ left \notin Registering /\ left \in Seq(Work)
  BY TodoSteps, TodosAreWork DEF Todos, PortalLeft, SetupLeft, Registering, Settled, Blank
<1>6. minted + 1 \in Creds
  BY RecoveryAssumption DEF MintPasskey, RecoveryIInv, RecoveryTypeOK, Creds
<1>7. session[d] = Out /\ task[d].account = First /\ AreFirsts(task[d].roots)
  BY <1>2, <1>3, <1>4 DEF TaskFits
<1>8. /\ task' \in [Browsers -> Tasks] /\ (\A e \in Browsers \ {d} : task'[e] = task[e])
      /\ task'[d].todo = left /\ task'[d].cred = minted + 1
      /\ task'[d].account = task[d].account /\ task'[d].roots = task[d].roots
  BY <1>2, <1>3, <1>5, <1>6 DEF MintPasskey, Tasks
<1>9. UNCHANGED <<owner, guardians, copies, facts, roots, session, probe, home>> /\ minted' \in Creds
  BY <1>6 DEF MintPasskey
<1>10. CopiesFit'
  BY <1>9 DEF RecoveryIInv, CopiesFit, AreFirsts, copies
<1>11. TaskFits(d)'
  BY <1>5, <1>6, <1>7, <1>8, <1>9 DEF TaskFits, AreFirsts
<1> QED
  BY <1>8, <1>9, <1>10, <1>11, TaskWrites DEF RecoveryIInv, RecoveryTypeOK, copies

LEMMA RotateKeeps ==
  ASSUME RecoveryIInv, NEW d \in Browsers, Rotate(d)
  PROVE  RecoveryIInv'
<1>1. task[d].todo # <<>> /\ Head(task[d].todo) = "rotate"
  BY DEF Rotate, Doing
<1>2. /\ task \in [Browsers -> Tasks] /\ task[d] \in Tasks /\ TaskFits(d) /\ task[d] # NoTask
      /\ task[d].todo \in Todos /\ (task[d].todo \in SetupLeft \/ session[d] = Out)
  BY <1>1, TaskFacts
<1>3. task[d].todo = <<"rotate", "bind", "seed", "signer", "enter">>
  BY <1>1, <1>2, TodoSteps DEF Todos, LoginLeft, PortalLeft, SetupLeft, Registering
<1>4. task[d].todo \notin SetupLeft /\ task[d].todo \notin Blank /\ task[d].todo # Unminted
  BY <1>3 DEF SetupLeft, Registering, Blank, Unminted
<1>5. PICK left : left = Tail(task[d].todo) /\ left \in Todos /\ left \notin SetupLeft \union Settled
                  /\ left \notin Registering /\ left \in Seq(Work)
  BY <1>3, TodoSteps, TodosAreWork DEF Todos, PortalLeft, SetupLeft, Registering, Settled, Blank
<1>6. session[d] = Out /\ task[d].account = First /\ AreFirsts(task[d].roots) /\ task[d].cred \in Creds
  BY <1>2, <1>4 DEF TaskFits
<1>7. /\ task' \in [Browsers -> Tasks] /\ (\A e \in Browsers \ {d} : task'[e] = task[e])
      /\ task'[d].todo = left /\ task'[d].cred = task[d].cred
      /\ task'[d].account = task[d].account /\ task'[d].roots = task[d].roots
  BY <1>2, <1>5, OneStepOn DEF Rotate
<1>8. UNCHANGED <<minted, guardians, copies, facts, roots, session, probe, home>>
  BY DEF Rotate
<1>9. owner' \in [Accounts -> Creds \union {None}]
  BY <1>6, CredFacts DEF Rotate, RecoveryIInv, RecoveryTypeOK
<1>10. CopiesFit'
  BY <1>8 DEF RecoveryIInv, CopiesFit, AreFirsts, copies
<1>11. TaskFits(d)'
  BY <1>5, <1>6, <1>7, <1>8 DEF TaskFits, AreFirsts
<1> QED
  BY <1>7, <1>8, <1>9, <1>10, <1>11, TaskWrites DEF RecoveryIInv, RecoveryTypeOK, copies

LEMMA RecoveryInitFits == RecoveryInit => RecoveryIInv
<1> SUFFICES ASSUME RecoveryInit PROVE RecoveryIInv
  OBVIOUS
<1>1. RecoveryTypeOK
  <2>1. task \in [Browsers -> Tasks]
    BY NoTaskFacts DEF RecoveryInit
  <2>2. \A s \in {bound, cached, marked, tomb, home} : s \in [Browsers -> SUBSET Creds]
    BY DEF RecoveryInit
  <2> QED
    BY <2>1, <2>2, CredFacts DEF RecoveryInit, RecoveryTypeOK, Tasks
<1>2. CopiesFit
  BY DEF RecoveryInit, CopiesFit
<1>3. \A d \in Browsers : BrowserFits(d)
  BY CredFacts DEF RecoveryInit, BrowserFits, TaskFits, SessionFits, SeedFits
<1> QED
  BY <1>1, <1>2, <1>3 DEF RecoveryIInv

LEMMA RecoveryNextFits ==
  ASSUME MaySwitch = FALSE, RecoveryIInv, [RecoveryNext]_recoveryVars
  PROVE  RecoveryIInv'
<1>1. ASSUME NEW d \in Browsers, NEW c \in Creds,
             LoginCached(d, c) \/ LoginVerified(d, c) \/ LoginGuard(d, c)
      PROVE  RecoveryIInv'
  BY <1>1, LoginCachedKeeps, LoginVerifiedKeeps, LoginGuardKeeps
<1>2. ASSUME NEW d \in Browsers,
             \/ LoginEnvelope(d) \/ StoreBinding(d) \/ StoreSeed(d) \/ StoreSigner(d)
             \/ Enter(d) \/ TabDies(d)
      PROVE  RecoveryIInv'
  BY <1>2, LoginEnvelopeKeeps, StoreBindingKeeps, StoreSeedKeeps, StoreSignerKeeps, EnterKeeps,
     TabDiesKeeps
<1>3. ASSUME NEW d \in Browsers,
             \/ DeriveSeed(d) \/ DeriveSigner(d) \/ Act(d) \/ Backfill(d) \/ Logout(d) \/ Evict(d)
      PROVE  RecoveryIInv'
  BY <1>3, DeriveSeedKeeps, DeriveSignerKeeps, ActKeeps, BackfillKeeps, LogoutKeeps, EvictKeeps
<1>4. ASSUME NEW d \in Browsers, NEW b \in Backups, SetupBackup(d, b) \/ PortalOpens(d, b)
      PROVE  RecoveryIInv'
  BY <1>4, SetupBackupKeeps, PortalOpensKeeps
<1>5. ASSUME NEW d \in Browsers,
             \/ WriteEscrow(d) \/ Register(d) \/ MintPasskey(d) \/ Rotate(d)
             \/ \E gone \in SUBSET guardians : RemoveBackups(d, gone)
      PROVE  RecoveryIInv'
  BY <1>5, WriteEscrowKeeps, RegisterKeeps, MintPasskeyKeeps, RotateKeeps, RemoveBackupsKeeps
<1>6. ASSUME NEW d \in Browsers,
             \/ ReprobeStarts(d) \/ ReprobeRetires(d) \/ ReprobeHeals(d)
             \/ BindingRetires(d) \/ ProbeEnds(d)
      PROVE  RecoveryIInv'
  BY <1>6, ProbesKeep, LooksKeep, ReprobeHealsKeeps
<1>7. CASE UNCHANGED recoveryVars
  <2>1. UNCHANGED <<chain, copies, facts, roots, session, task, probe, home>>
    BY <1>7 DEF recoveryVars
  <2>2. RecoveryTypeOK' /\ CopiesFit'
    BY <2>1 DEF RecoveryIInv, RecoveryTypeOK, CopiesFit, AreFirsts, chain, copies, facts, roots
  <2>3. ASSUME NEW d \in Browsers PROVE BrowserFits(d)'
    BY <2>1, BrowserStays DEF RecoveryIInv, copies, facts, roots
  <2> QED
    BY <2>2, <2>3 DEF RecoveryIInv
<1>8. CASE RecoveryNext
  BY <1>1, <1>2, <1>3, <1>4, <1>5, <1>6, <1>8 DEF RecoveryNext
<1> QED
  BY <1>7, <1>8

(* While a browser signs one passkey out before another signs in, every    *)
(* state keeps the invariant.                                              *)
THEOREM RecoveryInvariance ==
  ASSUME MaySwitch = FALSE
  PROVE  RecoverySpec => []RecoveryIInv
<1>1. RecoveryIInv /\ [RecoveryNext]_recoveryVars => RecoveryIInv'
  BY RecoveryNextFits
<1> QED
  BY <1>1, RecoveryInitFits, PTL DEF RecoverySpec

(* Whoever may move the account on chain can also restore it: any passkey, *)
(* browser and back-up, any recoveries, and steps cut short anywhere.      *)
THEOREM GuardiansCanRestoreHolds ==
  ASSUME MaySwitch = FALSE
  PROVE  RecoverySpec => []GuardiansCanRestore
<1>1. RecoveryIInv => GuardiansCanRestore
  BY DEF RecoveryIInv, RecoveryTypeOK, CopiesFit, GuardiansCanRestore
<1> QED
  BY <1>1, RecoveryInvariance, PTL

(* No envelope carries roots that a passkey derived for itself, on however *)
(* many browsers it is used.                                               *)
THEOREM EnvelopesHoldRootsHolds ==
  ASSUME MaySwitch = FALSE
  PROVE  RecoverySpec => []EnvelopesHoldRoots
<1>1. RecoveryIInv => EnvelopesHoldRoots
  BY DEF RecoveryIInv, CopiesFit, EnvelopesHoldRoots
<1> QED
  BY <1>1, RecoveryInvariance, PTL

(* A passkey that opened the recovered account in a browser never opens an *)
(* account of its own there, for a browser knows what came home bound.     *)
THEOREM NoForkHolds ==
  ASSUME MaySwitch = FALSE
  PROVE  RecoverySpec => []NoFork
<1>1. RecoveryIInv => NoFork
  BY DEF RecoveryIInv, BrowserFits, SessionFits, AccountOf, NoFork
<1> QED
  BY <1>1, RecoveryInvariance, PTL

-----------------------------------------------------------------------------
(* Records on their way from a door to the server.                         *)

(* The server has the record, or one of the same entry made before it; it  *)
(* has one of the same ticket.                                             *)
Kept(r) == \E s \in records[EventOf[r.ticket]] : Same(r, s) /\ s.at <= r.at
Vouched(r) == \E s \in records[EventOf[r.ticket]] : s.ticket = r.ticket /\ s.at <= r.at

(* What a device has queued it recorded itself, for the event of its pass. *)
QueueFits(d) ==
  \A r \in pending[d] :
    /\ r \in admitted /\ r.device = d
    /\ pass[d] # NoPass /\ EventOf[r.ticket] = pass[d].event

(* What it has sent it recorded too, no later than what it has queued of   *)
(* the same tickets; and when the server answers, it has all of that.      *)
SentFits(d, sent) ==
  \A x \in sent :
    /\ x \in admitted /\ x.device = d
    /\ \A r \in pending[d] : r.ticket = x.ticket => x.at <= r.at
RequestFits(d) ==
  /\ sync[d].at \in {"asked", "answered"} => SentFits(d, sync[d].sent)
  /\ sync[d].at = "asked" => \A x \in sync[d].sent : EventOf[x.ticket] = sync[d].pass.event
  /\ sync[d].at = "answered" => /\ \A x \in sync[d].sent : Kept(x)
                                /\ \A x \in sync[d].merged : Vouched(x)

RecordsFit == \A e \in Events : \A r \in records[e] : EventOf[r.ticket] = e

DoorIInv ==
  /\ DoorTypeOK /\ NoCheckinLost /\ ShownIsVouched /\ RecordsFit
  /\ \A d \in Devices : QueueFits(d) /\ RequestFits(d)

(* Of some records one is the earliest.                                    *)
LEMMA SomeEarliest ==
  ASSUME NEW S \in SUBSET Record, S # {}
  PROVE  Earliest(S) # {}
<1> DEFINE Moments == {r.at : r \in S}
<1>1. Moments \in SUBSET Nat /\ Moments # {}
  <2>1. \A r \in S : r.at \in Nat
    BY DoorAssumption DEF Record
  <2> QED
    BY <2>1
<1>2. PICK n \in Moments : \A m \in Moments : n <= m
  <2> HIDE DEF Moments
  <2> QED
    BY <1>1, SomeLeast
<1> QED
  BY <1>2 DEF Earliest

(* What the server merges it keeps, in the earliest form it has.           *)
LEMMA MergeKeeps ==
  ASSUME NEW E \in SUBSET Record, NEW I \in SUBSET Record, NEW r \in E \union I
  PROVE  \E s \in Merge(E, I) : Same(r, s) /\ s.at <= r.at
<1> DEFINE S == {x \in E \union I : Same(r, x)}
<1>1. S \in SUBSET Record /\ r \in S
  BY DEF Same
<1>2. PICK s \in S : \A x \in S : s.at <= x.at
  BY <1>1, SomeEarliest DEF Earliest
<1>3. s \in Merge(E, I)
  BY <1>2 DEF Merge, Same
<1> QED
  BY <1>1, <1>2, <1>3

(* A device takes over records that it or the server has, one of a ticket. *)
LEMMA AbsorbedFits ==
  ASSUME NEW O \in SUBSET Record, NEW M \in SUBSET Record
  PROVE  Absorbed(O, M) \subseteq O \union M /\ OnePerTicket(Absorbed(O, M))
<1> DEFINE pick(t) == IF Earliest(Of(t, O \union M)) \intersect O # {}
                      THEN CHOOSE r \in Of(t, O) : TRUE
                      ELSE CHOOSE r \in Earliest(Of(t, M)) : TRUE
           Tk == {r.ticket : r \in O \union M}
<1>1. ASSUME NEW t \in Tk
      PROVE  pick(t) \in O \union M /\ pick(t).ticket = t
  <2>1. PICK r \in O \union M : r.ticket = t
    OBVIOUS
  <2>2. Of(t, O \union M) \in SUBSET Record /\ Of(t, O \union M) # {}
    BY <2>1 DEF Of
  <2>3. PICK x \in Earliest(Of(t, O \union M)) : TRUE
    BY <2>2, SomeEarliest
  <2>4. x \in O \union M /\ x.ticket = t
    BY <2>3 DEF Earliest, Of
  <2>5. CASE Earliest(Of(t, O \union M)) \intersect O # {}
    <3>1. PICK y \in Of(t, O) : TRUE
      BY <2>5 DEF Earliest, Of
    <3>2. (CHOOSE r1 \in Of(t, O) : TRUE) \in Of(t, O)
      BY <3>1
    <3>3. pick(t) \in Of(t, O)
      BY <2>5, <3>2
    <3> QED
      BY <3>3 DEF Of
  <2>6. CASE Earliest(Of(t, O \union M)) \intersect O = {}
    <3>1. x \in Of(t, M)
      BY <2>3, <2>4, <2>6 DEF Of
    <3>2. PICK y \in Earliest(Of(t, M)) : TRUE
      BY <3>1, SomeEarliest DEF Of
    <3>3. (CHOOSE r1 \in Earliest(Of(t, M)) : TRUE) \in Earliest(Of(t, M))
      BY <3>2
    <3>4. pick(t) \in Earliest(Of(t, M))
      BY <2>6, <3>3
    <3> QED
      BY <3>4 DEF Earliest, Of
  <2> QED
    BY <2>5, <2>6
<1>2. Absorbed(O, M) = {pick(t) : t \in Tk}
  BY DEF Absorbed
<1> HIDE DEF pick, Tk
<1> QED
  BY <1>1, <1>2 DEF OnePerTicket

LEMMA RequestTypes ==
  ASSUME DoorTypeOK, NEW d \in Devices
  PROVE  /\ sync[d].at = "asked" => sync[d].pass \in Pass /\ sync[d].sent \in SUBSET Record
         /\ sync[d].at = "answered" => /\ sync[d].sent \in SUBSET Record
                                       /\ sync[d].merged \in SUBSET Record
         /\ sync[d] = NoSync => sync[d].at = "idle"
  BY DEF DoorTypeOK, Requests, NoSync

LEMMA RecordTypes ==
  ASSUME NEW f \in [Events -> SUBSET Record], NEW e \in Events, NEW r \in f[e]
  PROVE  r \in Record /\ r.at \in Nat
<1>1. r \in Record
  OBVIOUS
<1>2. r.at \in Times
  BY <1>1 DEF Record
<1> QED
  BY <1>1, <1>2, DoorAssumption

(* The records of an event grow: a record gives way to one of its entry    *)
(* that is no later.                                                       *)
RecordsGrow ==
  \A e \in Events : \A r \in records[e] : \E s \in records'[e] : Same(r, s) /\ s.at <= r.at

LEMMA Grown ==
  ASSUME DoorTypeOK, DoorTypeOK', RecordsGrow, NEW r \in Record,
         NEW s \in records[EventOf[r.ticket]]
  PROVE  \E x \in records'[EventOf[r.ticket]] :
           /\ Same(s, x) /\ x.at <= s.at
           /\ x.at \in Nat /\ s.at \in Nat /\ r.at \in Nat
<1>1. EventOf[r.ticket] \in Events
  BY DoorAssumption DEF Record
<1>2. records \in [Events -> SUBSET Record] /\ records' \in [Events -> SUBSET Record]
  BY DEF DoorTypeOK
<1>3. PICK x \in records'[EventOf[r.ticket]] : Same(s, x) /\ x.at <= s.at
  BY <1>1 DEF RecordsGrow
<1>4. r.at \in Nat
  BY DoorAssumption DEF Record
<1> QED
  BY <1>1, <1>2, <1>3, <1>4, RecordTypes

LEMMA KeptStays ==
  ASSUME DoorTypeOK, DoorTypeOK', RecordsGrow, NEW r \in Record, Kept(r)
  PROVE  Kept(r)'
<1>1. PICK s \in records[EventOf[r.ticket]] : Same(r, s) /\ s.at <= r.at
  BY DEF Kept
<1>2. PICK x \in records'[EventOf[r.ticket]] :
         Same(s, x) /\ x.at <= s.at /\ x.at \in Nat /\ s.at \in Nat /\ r.at \in Nat
  BY Grown
<1>3. Same(r, x) /\ x.at <= r.at
  BY <1>1, <1>2 DEF Same
<1> QED
  BY <1>3 DEF Kept

LEMMA VouchedStays ==
  ASSUME DoorTypeOK, DoorTypeOK', RecordsGrow, NEW r \in Record, Vouched(r)
  PROVE  Vouched(r)'
<1>1. PICK s \in records[EventOf[r.ticket]] : s.ticket = r.ticket /\ s.at <= r.at
  BY DEF Vouched
<1>2. PICK x \in records'[EventOf[r.ticket]] :
         Same(s, x) /\ x.at <= s.at /\ x.at \in Nat /\ s.at \in Nat /\ r.at \in Nat
  BY Grown
<1>3. x.ticket = r.ticket /\ x.at <= r.at
  BY <1>1, <1>2 DEF Same
<1> QED
  BY <1>3 DEF Vouched

LEMMA NoGrowth ==
  ASSUME DoorTypeOK, records' = records
  PROVE  RecordsGrow
<1>1. records \in [Events -> SUBSET Record]
  BY DEF DoorTypeOK
<1> QED
  BY <1>1, RecordTypes DEF RecordsGrow, Same

(* What the devices hold when only what is on the server, or in flight to  *)
(* them, has changed.                                                      *)
LEMMA DoorsHold ==
  ASSUME DoorIInv, DoorTypeOK', RecordsGrow, UNCHANGED <<pending, admitted, wiped>>,
         \A d \in Devices : pass'[d] = pass[d] \/ pending[d] = {} \/
                            (pass'[d] # NoPass /\ pass'[d].event = pass[d].event),
         \A d \in Devices : \A r \in checkins'[d] : r \in checkins[d] \/ Vouched(r)
  PROVE  NoCheckinLost' /\ ShownIsVouched' /\ \A d \in Devices : QueueFits(d)'
<1>1. NoCheckinLost'
  <2> SUFFICES ASSUME NEW r \in admitted \ wiped
               PROVE  \/ \E s \in records'[EventOf[r.ticket]] : Same(r, s)
                      \/ \E s \in pending[r.device] : Same(r, s)
    BY DEF NoCheckinLost
  <2>1. r \in Record
    BY DEF DoorIInv, DoorTypeOK
  <2> QED
    BY <2>1, Grown DEF DoorIInv, NoCheckinLost, Same
<1>2. ShownIsVouched'
  <2> SUFFICES ASSUME NEW d \in Devices, NEW r \in checkins'[d]
               PROVE  r \in pending[d] \/ Vouched(r)'
    BY DEF ShownIsVouched, Vouched
  <2>1. r \in Record
    BY DEF DoorTypeOK
  <2>2. r \in pending[d] \/ Vouched(r)
    BY DEF DoorIInv, ShownIsVouched, Vouched
  <2>3. Vouched(r) => Vouched(r)'
    BY <2>1, VouchedStays DEF DoorIInv
  <2> QED
    BY <2>2, <2>3
<1>3. ASSUME NEW d \in Devices PROVE QueueFits(d)'
  BY DEF DoorIInv, QueueFits
<1> QED
  BY <1>1, <1>2, <1>3

(* A request or an answer in flight stays good.                            *)
LEMMA RequestStays ==
  ASSUME DoorIInv, DoorTypeOK', RecordsGrow, NEW d \in Devices,
         sync'[d] = sync[d], pending'[d] \subseteq pending[d], admitted \subseteq admitted'
  PROVE  RequestFits(d)'
<1>1. RequestFits(d)
  BY DEF DoorIInv
<1>2. sync[d].at \in {"asked", "answered"} => SentFits(d, sync[d].sent)'
  BY <1>1 DEF RequestFits, SentFits
<1>3. ASSUME sync[d].at = "answered"
      PROVE  (\A x \in sync[d].sent : Kept(x)') /\ (\A x \in sync[d].merged : Vouched(x)')
  <2>1. sync[d].sent \in SUBSET Record /\ sync[d].merged \in SUBSET Record
    BY <1>3, RequestTypes DEF DoorIInv
  <2>2. ASSUME NEW x \in Record, Kept(x) PROVE Kept(x)'
    BY <2>2, KeptStays DEF DoorIInv
  <2>3. ASSUME NEW x \in Record, Vouched(x) PROVE Vouched(x)'
    BY <2>3, VouchedStays DEF DoorIInv
  <2> QED
    BY <1>1, <1>3, <2>1, <2>2, <2>3 DEF RequestFits
<1> QED
  BY <1>1, <1>2, <1>3 DEF RequestFits, SentFits

LEMMA IssuePassKeeps ==
  ASSUME DoorIInv, NEW e \in Events, IssuePass(e)
  PROVE  DoorIInv'
<1>1. UNCHANGED <<records, device, sync, history, resets>>
  BY DEF IssuePass
<1>2. active' \in [Events -> 0..MaxPasses]
  BY DoorAssumption DEF IssuePass, DoorIInv, DoorTypeOK
<1>3. DoorTypeOK'
  BY <1>1, <1>2 DEF DoorIInv, DoorTypeOK, device, history
<1>4. RecordsGrow /\ RecordsFit'
  BY <1>1, NoGrowth DEF DoorIInv, RecordsFit
<1>5. NoCheckinLost' /\ ShownIsVouched' /\ \A d \in Devices : QueueFits(d)'
  BY <1>1, <1>3, <1>4, DoorsHold DEF device, history
<1>6. ASSUME NEW d \in Devices PROVE RequestFits(d)'
  BY <1>1, <1>3, <1>4, RequestStays DEF device, history
<1> QED
  BY <1>3, <1>4, <1>5, <1>6 DEF DoorIInv

(* A request sent, lost or given up.                                       *)
LEMMA AskingKeeps ==
  ASSUME DoorIInv, NEW d \in Devices,
         SyncAsk(d) \/ SyncLost(d) \/ SyncRefused(d) \/ Reload(d)
  PROVE  DoorIInv'
<1>1. UNCHANGED <<server, pass, checkins, pending, history, resets>>
  BY DEF SyncAsk, SyncLost, SyncRefused, Reload, device
<1>2. dead' \in [Devices -> BOOLEAN]
  BY DEF SyncAsk, SyncLost, SyncRefused, Reload, device, DoorIInv, DoorTypeOK
<1>3. SyncAsk(d) => Asks(d) \in Requests
  <2> SUFFICES ASSUME SyncAsk(d) PROVE Asks(d) \in Requests
    OBVIOUS
  <2>1. pass[d] \in Pass /\ pending[d] \in SUBSET Record
    BY DEF SyncAsk, DoorIInv, DoorTypeOK
  <2> QED
    BY <2>1 DEF Asks, Requests
<1>4. PICK v \in Requests \union {NoSync} :
        sync' = [sync EXCEPT ![d] = v] /\ (v = NoSync \/ (SyncAsk(d) /\ v = Asks(d)))
  BY <1>3 DEF SyncAsk, SyncLost, SyncRefused, Reload
<1>5. /\ sync' \in [Devices -> Requests \union {NoSync}] /\ sync'[d] = v
      /\ \A c \in Devices \ {d} : sync'[c] = sync[c]
  BY <1>4 DEF DoorIInv, DoorTypeOK
<1>6. DoorTypeOK'
  BY <1>1, <1>2, <1>5 DEF DoorIInv, DoorTypeOK, server, history
<1>7. RecordsGrow /\ RecordsFit'
  BY <1>1, NoGrowth DEF DoorIInv, RecordsFit, server
<1>8. NoCheckinLost' /\ ShownIsVouched' /\ \A c \in Devices : QueueFits(c)'
  BY <1>1, <1>6, <1>7, DoorsHold DEF history
<1>9. ASSUME NEW c \in Devices \ {d} PROVE RequestFits(c)'
  BY <1>1, <1>5, <1>6, <1>7, RequestStays DEF history
<1>10. RequestFits(d)'
  <2>1. CASE v = NoSync
    BY <1>5, <2>1 DEF RequestFits, NoSync
  <2>2. CASE SyncAsk(d) /\ v = Asks(d)
    <3>1. /\ sync'[d].at = "asked" /\ sync'[d].sent = pending[d] /\ sync'[d].pass = pass[d]
      BY <1>5, <2>2 DEF Asks
    <3>2. QueueFits(d) /\ OnePerTicket(pending[d]) /\ pending[d] \in SUBSET Record
      BY DEF DoorIInv, DoorTypeOK
    <3>3. \A r \in pending[d] : r.at \in Nat
      BY <3>2, DoorAssumption DEF Record
    <3>4. SentFits(d, pending[d])
      BY <3>2, <3>3 DEF SentFits, QueueFits, OnePerTicket
    <3>5. SentFits(d, sync[d].sent)'
      BY <1>1, <3>1, <3>4 DEF SentFits, history
    <3> QED
      BY <3>1, <3>2, <3>5 DEF RequestFits, QueueFits
  <2> QED
    BY <1>4, <2>1, <2>2
<1> QED
  BY <1>6, <1>7, <1>8, <1>9, <1>10 DEF DoorIInv

(* A device that opens a pass or refreshes its pack takes over what the    *)
(* server has of the event.                                                *)
LEMMA PackKeeps ==
  ASSUME DoorIInv, NEW d \in Devices, NEW e \in Events,
         checkins' = [checkins EXCEPT ![d] = Absorbed(@, records[e])],
         pass' \in [Devices -> Pass \union {NoPass}], dead' \in [Devices -> BOOLEAN],
         \A c \in Devices \ {d} : pass'[c] = pass[c],
         pass'[d] = pass[d] \/ pending[d] = {} \/
           (pass'[d] # NoPass /\ pass'[d].event = pass[d].event),
         UNCHANGED <<server, pending, sync, history, resets>>
  PROVE  DoorIInv'
<1>1. records[e] \in SUBSET Record /\ checkins[d] \in SUBSET Record
  BY DEF DoorIInv, DoorTypeOK
<1>2. PICK taken : taken = Absorbed(checkins[d], records[e])
  OBVIOUS
<1>3. taken \subseteq checkins[d] \union records[e] /\ OnePerTicket(taken)
  BY <1>1, <1>2, AbsorbedFits
<1>4. /\ checkins' \in [Devices -> SUBSET Record] /\ checkins'[d] = taken
      /\ \A c \in Devices \ {d} : checkins'[c] = checkins[c]
  BY <1>1, <1>2, <1>3 DEF DoorIInv, DoorTypeOK
<1>5. DoorTypeOK'
  BY <1>3, <1>4 DEF DoorIInv, DoorTypeOK, server, history
<1>6. RecordsGrow /\ RecordsFit'
  BY NoGrowth DEF DoorIInv, RecordsFit, server
<1>7. ASSUME NEW r \in records[e] PROVE Vouched(r)
  <2>1. EventOf[r.ticket] = e /\ r.at \in Nat
    BY <1>1, DoorAssumption DEF DoorIInv, RecordsFit, Record
  <2> QED
    BY <2>1 DEF Vouched
<1>8. \A c \in Devices : \A r \in checkins'[c] : r \in checkins[c] \/ Vouched(r)
  BY <1>3, <1>4, <1>7
<1>9. NoCheckinLost' /\ ShownIsVouched' /\ \A c \in Devices : QueueFits(c)'
  BY <1>5, <1>6, <1>8, DoorsHold DEF history
<1>10. ASSUME NEW c \in Devices PROVE RequestFits(c)'
  BY <1>5, <1>6, RequestStays DEF history
<1> QED
  BY <1>5, <1>6, <1>9, <1>10 DEF DoorIInv

LEMMA ProvisionKeeps ==
  ASSUME SwitchEvents = FALSE, DoorIInv, NEW d \in Devices, NEW e \in Events, Provision(d, e)
  PROVE  DoorIInv'
<1>1. active[e] \in 1..MaxPasses
  BY DEF Provision, DoorIInv, DoorTypeOK
<1>2. [event |-> e, jti |-> active[e]] \in Pass
  BY <1>1 DEF Pass
<1>3. pass'[d] = [event |-> e, jti |-> active[e]] /\ \A c \in Devices \ {d} : pass'[c] = pass[c]
  BY DEF Provision, DoorIInv, DoorTypeOK
<1>4. pass' \in [Devices -> Pass \union {NoPass}]
  BY <1>2 DEF Provision, DoorIInv, DoorTypeOK
<1>5. pass'[d] # NoPass /\ pass'[d].event = e
  BY <1>2, <1>3, DoorAssumption DEF Pass
<1>6. pending[d] = {} \/ pass[d].event = e
  BY DEF Provision, MayOpen, DoorIInv, QueueFits
<1>7. dead' \in [Devices -> BOOLEAN]
  BY DEF Provision, DoorIInv, DoorTypeOK
<1> QED
  BY <1>3, <1>4, <1>5, <1>6, <1>7, PackKeeps DEF Provision

LEMMA RefreshPackKeeps ==
  ASSUME DoorIInv, NEW d \in Devices, RefreshPack(d)
  PROVE  DoorIInv'
<1>1. pass[d].event \in Events
  BY DEF RefreshPack, DoorIInv, DoorTypeOK, Pass
<1>2. UNCHANGED <<pass, dead>> /\ pass' \in [Devices -> Pass \union {NoPass}]
      /\ dead' \in [Devices -> BOOLEAN]
  BY DEF RefreshPack, DoorIInv, DoorTypeOK
<1> QED
  BY <1>1, <1>2, PackKeeps DEF RefreshPack

LEMMA AdmitKeeps ==
  ASSUME DoorIInv, NEW d \in Devices, NEW t \in Tickets, NEW at \in Times, Admit(d, t, at)
  PROVE  DoorIInv'
<1>1. PICK r : r = [ticket |-> t, device |-> d, at |-> at]
  OBVIOUS
<1>2. r \in Record /\ r.ticket = t /\ r.device = d /\ r.at = at
  BY <1>1 DEF Record
<1>3. /\ pass[d] # NoPass /\ EventOf[t] = pass[d].event
      /\ \A x \in checkins[d] : x.ticket # t
      /\ \A x \in admitted : x.device = d => x.at <= at
      /\ admitted' = admitted \union {r} /\ wiped' = wiped \ {r}
      /\ UNCHANGED <<server, pass, dead, sync, resets>>
  BY <1>1 DEF Admit, Known, Of
<1>4. /\ checkins' = [checkins EXCEPT ![d] = @ \union {r}]
      /\ pending' = [pending EXCEPT ![d] = (@ \ Of(t, @)) \union {r}]
  BY <1>1 DEF Admit
<1>5. /\ checkins' \in [Devices -> SUBSET Record] /\ checkins'[d] = checkins[d] \union {r}
      /\ \A c \in Devices \ {d} : checkins'[c] = checkins[c]
  BY <1>2, <1>4 DEF DoorIInv, DoorTypeOK
<1>6. /\ pending' \in [Devices -> SUBSET Record]
      /\ pending'[d] = {x \in pending[d] : x.ticket # t} \union {r}
      /\ \A c \in Devices \ {d} : pending'[c] = pending[c]
  BY <1>2, <1>4 DEF DoorIInv, DoorTypeOK, Of
<1>7. OnePerTicket(checkins'[d]) /\ OnePerTicket(pending'[d])
  BY <1>2, <1>3, <1>5, <1>6 DEF DoorIInv, DoorTypeOK, OnePerTicket
<1>8. DoorTypeOK'
  BY <1>2, <1>3, <1>5, <1>6, <1>7 DEF DoorIInv, DoorTypeOK, server
<1>9. RecordsFit' /\ RecordsGrow
  BY <1>3, NoGrowth DEF DoorIInv, RecordsFit, server
<1>10. NoCheckinLost'
  <2> SUFFICES ASSUME NEW x \in admitted' \ wiped'
               PROVE  \/ \E s \in records'[EventOf[x.ticket]] : Same(x, s)
                      \/ \E s \in pending'[x.device] : Same(x, s)
    BY DEF NoCheckinLost
  <2>1. CASE x = r
    BY <1>2, <1>6, <2>1 DEF Same
  <2>2. CASE x # r
    <3>1. x \in admitted \ wiped /\ x.device \in Devices
      BY <1>3, <2>2 DEF DoorIInv, DoorTypeOK, Record
    <3>2. CASE \E s \in records[EventOf[x.ticket]] : Same(x, s)
      BY <1>3, <3>2 DEF server
    <3>3. ASSUME NEW s \in pending[x.device], Same(x, s)
          PROVE  \E y \in pending'[x.device] : Same(x, y)
      BY <1>2, <1>6, <3>1, <3>3 DEF Same
    <3> QED
      BY <3>1, <3>2, <3>3 DEF DoorIInv, NoCheckinLost
  <2> QED
    BY <2>1, <2>2
<1>11. ShownIsVouched'
  BY <1>2, <1>3, <1>5, <1>6 DEF DoorIInv, ShownIsVouched, server
<1>12. ASSUME NEW c \in Devices PROVE QueueFits(c)'
  BY <1>2, <1>3, <1>6 DEF DoorIInv, QueueFits
<1>13. ASSUME NEW c \in Devices \ {d} PROVE RequestFits(c)'
  BY <1>3, <1>6, <1>8, <1>9, RequestStays
<1>14. RequestFits(d)'
  <2>1. RequestFits(d)
    BY DEF DoorIInv
  <2>2. ASSUME sync[d].at \in {"asked", "answered"} PROVE SentFits(d, sync[d].sent)'
    BY <1>2, <1>3, <1>6, <2>1, <2>2 DEF RequestFits, SentFits
  <2>3. \A x : (Kept(x) => Kept(x)') /\ (Vouched(x) => Vouched(x)')
    BY <1>3 DEF Kept, Vouched, server
  <2> QED
    BY <1>3, <2>1, <2>2, <2>3 DEF RequestFits, Kept, Vouched, server
<1> QED
  BY <1>8, <1>9, <1>10, <1>11, <1>12, <1>13, <1>14 DEF DoorIInv

LEMMA SyncServerKeeps ==
  ASSUME DoorIInv, NEW d \in Devices, SyncServer(d)
  PROVE  DoorIInv'
<1>1. /\ UNCHANGED <<active, device, history, resets>> /\ sync[d].at = "asked"
      /\ sync[d].pass \in Pass /\ sync[d].sent \in SUBSET Record
  BY RequestTypes DEF SyncServer, DoorIInv
<1>2. PICK e \in Events : e = sync[d].pass.event
  BY <1>1 DEF Pass
<1>3. records[e] \in SUBSET Record
  BY DEF DoorIInv, DoorTypeOK
<1>4. PICK merged : merged = Merge(records[e], sync[d].sent)
  OBVIOUS
<1>5. merged \subseteq records[e] \union sync[d].sent /\ merged \in SUBSET Record
  BY <1>1, <1>3, <1>4 DEF Merge
<1>6. CASE UNCHANGED records /\ sync' = [sync EXCEPT ![d] = [at |-> "refused"]]
  <2>1. /\ sync' \in [Devices -> Requests \union {NoSync}] /\ sync'[d] = [at |-> "refused"]
        /\ \A c \in Devices \ {d} : sync'[c] = sync[c]
    BY <1>6 DEF DoorIInv, DoorTypeOK, Requests
  <2>2. DoorTypeOK'
    BY <1>1, <1>6, <2>1 DEF DoorIInv, DoorTypeOK, device, history
  <2>3. RecordsGrow /\ RecordsFit'
    BY <1>6, NoGrowth DEF DoorIInv, RecordsFit
  <2>4. NoCheckinLost' /\ ShownIsVouched' /\ \A c \in Devices : QueueFits(c)'
    BY <1>1, <2>2, <2>3, DoorsHold DEF device, history
  <2>5. ASSUME NEW c \in Devices \ {d} PROVE RequestFits(c)'
    BY <1>1, <2>1, <2>2, <2>3, RequestStays DEF device, history
  <2>6. RequestFits(d)'
    BY <2>1 DEF RequestFits
  <2> QED
    BY <2>2, <2>3, <2>4, <2>5, <2>6 DEF DoorIInv
<1>7. CASE /\ records' = [records EXCEPT ![e] = merged]
           /\ sync' = [sync EXCEPT ![d] = [at |-> "answered", sent |-> sync[d].sent,
                                           merged |-> merged]]
  <2>1. /\ records' \in [Events -> SUBSET Record] /\ records'[e] = merged
        /\ \A f \in Events \ {e} : records'[f] = records[f]
    BY <1>5, <1>7 DEF DoorIInv, DoorTypeOK
  <2>2. [at |-> "answered", sent |-> sync[d].sent, merged |-> merged] \in Requests
    BY <1>1, <1>5 DEF Requests
  <2>3. /\ sync' \in [Devices -> Requests \union {NoSync}] /\ sync'[d].at = "answered"
        /\ sync'[d].sent = sync[d].sent /\ sync'[d].merged = merged
        /\ \A c \in Devices \ {d} : sync'[c] = sync[c]
    BY <1>7, <2>2 DEF DoorIInv, DoorTypeOK
  <2>4. DoorTypeOK'
    BY <1>1, <2>1, <2>3 DEF DoorIInv, DoorTypeOK, device, history
  <2>5. \A x \in records[e] \union sync[d].sent : \E s \in merged : Same(x, s) /\ s.at <= x.at
    BY <1>1, <1>3, <1>4, MergeKeeps
  <2>6. RecordsGrow
    <3> SUFFICES ASSUME NEW f \in Events, NEW x \in records[f]
                 PROVE  \E s \in records'[f] : Same(x, s) /\ s.at <= x.at
      BY DEF RecordsGrow
    <3>1. x.at \in Nat
      BY RecordTypes DEF DoorIInv, DoorTypeOK
    <3> QED
      BY <2>1, <2>5, <3>1 DEF Same
  <2>7. \A x \in sync[d].sent : EventOf[x.ticket] = e
    BY <1>1, <1>2 DEF DoorIInv, RequestFits
  <2>8. RecordsFit'
    BY <1>5, <2>1, <2>7 DEF DoorIInv, RecordsFit
  <2>9. NoCheckinLost' /\ ShownIsVouched' /\ \A c \in Devices : QueueFits(c)'
    BY <1>1, <2>4, <2>6, DoorsHold DEF device, history
  <2>10. ASSUME NEW c \in Devices \ {d} PROVE RequestFits(c)'
    BY <1>1, <2>3, <2>4, <2>6, RequestStays DEF device, history
  <2>11. RequestFits(d)'
    <3>1. SentFits(d, sync[d].sent)'
      BY <1>1, <2>3 DEF DoorIInv, RequestFits, SentFits, device, history
    <3>2. ASSUME NEW x \in sync[d].sent PROVE Kept(x)'
      BY <2>1, <2>5, <2>7 DEF Kept
    <3>3. ASSUME NEW x \in merged PROVE Vouched(x)'
      <4>1. EventOf[x.ticket] = e
        BY <1>5, <2>7 DEF DoorIInv, RecordsFit
      <4>2. x.at \in Nat
        BY <1>5, DoorAssumption DEF Record
      <4> QED
        BY <2>1, <4>1, <4>2 DEF Vouched
    <3> QED
      BY <2>3, <3>1, <3>2, <3>3 DEF RequestFits
  <2> QED
    BY <2>4, <2>6, <2>8, <2>9, <2>10, <2>11 DEF DoorIInv
<1> QED
  BY <1>2, <1>4, <1>6, <1>7 DEF SyncServer

LEMMA SyncAnswerKeeps ==
  ASSUME DoorIInv, NEW d \in Devices, SyncAnswer(d)
  PROVE  DoorIInv'
<1>1. /\ sync[d].at = "answered" /\ UNCHANGED <<server, pass, dead, history, resets>>
      /\ sync[d].sent \in SUBSET Record /\ sync[d].merged \in SUBSET Record
  BY RequestTypes DEF SyncAnswer, DoorIInv
<1>2. RequestFits(d) /\ QueueFits(d)
  BY DEF DoorIInv
<1>3. PICK taken : taken = Absorbed(checkins[d], sync[d].merged)
  OBVIOUS
<1>4. checkins[d] \in SUBSET Record /\ pending[d] \in SUBSET Record
  BY DEF DoorIInv, DoorTypeOK
<1>5. taken \subseteq checkins[d] \union sync[d].merged /\ OnePerTicket(taken)
  BY <1>1, <1>3, <1>4, AbsorbedFits
<1>6. /\ checkins' \in [Devices -> SUBSET Record] /\ checkins'[d] = taken
      /\ \A c \in Devices \ {d} : checkins'[c] = checkins[c]
  BY <1>1, <1>3, <1>4, <1>5 DEF SyncAnswer, DoorIInv, DoorTypeOK
<1>7. /\ pending' \in [Devices -> SUBSET Record]
      /\ pending'[d] = {r \in pending[d] : \A x \in sync[d].sent : x.ticket # r.ticket}
      /\ \A c \in Devices \ {d} : pending'[c] = pending[c]
  BY <1>4 DEF SyncAnswer, Left, Of, DoorIInv, DoorTypeOK
<1>8. /\ sync' \in [Devices -> Requests \union {NoSync}] /\ sync'[d] = NoSync
      /\ \A c \in Devices \ {d} : sync'[c] = sync[c]
  BY DEF SyncAnswer, DoorIInv, DoorTypeOK
<1>9. OnePerTicket(pending'[d])
  BY <1>7 DEF DoorIInv, DoorTypeOK, OnePerTicket
<1>10. DoorTypeOK'
  BY <1>1, <1>5, <1>6, <1>7, <1>8, <1>9 DEF DoorIInv, DoorTypeOK, server, history
<1>11. RecordsFit' /\ RecordsGrow
  BY <1>1, NoGrowth DEF DoorIInv, RecordsFit, server
<1>12. ASSUME NEW r \in pending[d], r \notin pending'[d]
       PROVE  \E x \in sync[d].sent : /\ x.ticket = r.ticket /\ x.device = d /\ r.device = d
                                      /\ x.at <= r.at /\ Kept(x) /\ x \in Record
  BY <1>1, <1>2, <1>7, <1>12 DEF RequestFits, SentFits, QueueFits
<1>13. NoCheckinLost'
  <2> SUFFICES ASSUME NEW r \in admitted \ wiped
               PROVE  \/ \E s \in records[EventOf[r.ticket]] : Same(r, s)
                      \/ \E s \in pending'[r.device] : Same(r, s)
    BY <1>1 DEF NoCheckinLost, server, history
  <2>1. r.device \in Devices
    BY DEF DoorIInv, DoorTypeOK, Record
  <2>2. ASSUME NEW s \in pending[d], Same(r, s), s \notin pending'[d]
        PROVE  \E y \in records[EventOf[r.ticket]] : Same(r, y)
    BY <1>12, <2>2 DEF Kept, Same
  <2> QED
    BY <1>7, <2>1, <2>2 DEF DoorIInv, NoCheckinLost
<1>14. ShownIsVouched'
  <2>1. ASSUME NEW r \in checkins'[d] PROVE r \in pending'[d] \/ Vouched(r)
    <3>1. CASE r \in sync[d].merged
      BY <1>1, <1>2, <3>1 DEF RequestFits
    <3>2. CASE r \in pending[d] /\ r \notin pending'[d]
      <4>1. PICK x \in sync[d].sent :
              x.ticket = r.ticket /\ x.at <= r.at /\ Kept(x) /\ x \in Record
        BY <1>12, <3>2
      <4>2. PICK s \in records[EventOf[x.ticket]] : Same(x, s) /\ s.at <= x.at
        BY <4>1 DEF Kept
      <4>3. r.at \in Nat /\ x.at \in Nat /\ EventOf[x.ticket] \in Events
        BY <1>4, <3>2, <4>1, DoorAssumption DEF Record
      <4>4. s.at \in Nat
        BY <4>2, <4>3, RecordTypes DEF DoorIInv, DoorTypeOK
      <4>5. s.ticket = r.ticket /\ s.at <= r.at
        BY <4>1, <4>2, <4>3, <4>4 DEF Same
      <4> QED
        BY <4>1, <4>2, <4>5 DEF Vouched
    <3>3. CASE r \in checkins[d] /\ r \notin pending[d]
      BY <3>3 DEF DoorIInv, ShownIsVouched, Vouched
    <3> QED
      BY <1>5, <1>6, <3>1, <3>2, <3>3
  <2>2. ASSUME NEW c \in Devices \ {d}, NEW r \in checkins'[c]
        PROVE  r \in pending'[c] \/ Vouched(r)
    BY <1>6, <1>7 DEF DoorIInv, ShownIsVouched, Vouched
  <2> QED
    BY <1>1, <2>1, <2>2 DEF ShownIsVouched, Vouched, server
<1>15. ASSUME NEW c \in Devices PROVE QueueFits(c)'
  BY <1>1, <1>7 DEF DoorIInv, QueueFits, history
<1>16. ASSUME NEW c \in Devices \ {d} PROVE RequestFits(c)'
  BY <1>1, <1>7, <1>8, <1>10, <1>11, RequestStays DEF history
<1>17. RequestFits(d)'
  BY <1>8 DEF RequestFits, NoSync
<1> QED
  BY <1>10, <1>11, <1>13, <1>14, <1>15, <1>16, <1>17 DEF DoorIInv

LEMMA ResetKeeps ==
  ASSUME DoorIInv, NEW d \in Devices, Reset(d)
  PROVE  DoorIInv'
<1>1. /\ UNCHANGED <<server, sync, admitted>> /\ resets' \in 0..MaxResets
      /\ wiped' = wiped \union {r \in admitted : \E s \in pending[d] : Same(r, s)}
  BY DoorAssumption DEF Reset, DoorIInv, DoorTypeOK
<1>2. /\ checkins' \in [Devices -> SUBSET Record] /\ checkins'[d] = {}
      /\ pending' \in [Devices -> SUBSET Record] /\ pending'[d] = {}
      /\ \A c \in Devices \ {d} : checkins'[c] = checkins[c] /\ pending'[c] = pending[c]
  BY DEF Reset, DoorIInv, DoorTypeOK
<1>3. /\ pass' \in [Devices -> Pass \union {NoPass}] /\ dead' \in [Devices -> BOOLEAN]
      /\ \A c \in Devices \ {d} : pass'[c] = pass[c]
  BY DEF Reset, DoorIInv, DoorTypeOK
<1>4. \A c \in Devices : OnePerTicket(checkins'[c]) /\ OnePerTicket(pending'[c])
  BY <1>2 DEF DoorIInv, DoorTypeOK, OnePerTicket
<1>5. DoorTypeOK'
  BY <1>1, <1>2, <1>3, <1>4 DEF DoorIInv, DoorTypeOK, server
<1>6. RecordsFit' /\ RecordsGrow
  BY <1>1, NoGrowth DEF DoorIInv, RecordsFit, server
<1>7. NoCheckinLost'
  <2> SUFFICES ASSUME NEW r \in admitted \ wiped'
               PROVE  \/ \E s \in records[EventOf[r.ticket]] : Same(r, s)
                      \/ \E s \in pending'[r.device] : Same(r, s)
    BY <1>1 DEF NoCheckinLost, server
  <2>1. r.device \in Devices /\ r \in admitted \ wiped
    BY <1>1 DEF DoorIInv, DoorTypeOK, Record
  <2> QED
    BY <1>1, <1>2, <2>1 DEF DoorIInv, NoCheckinLost
<1>8. ShownIsVouched'
  BY <1>1, <1>2 DEF DoorIInv, ShownIsVouched, server
<1>9. ASSUME NEW c \in Devices PROVE QueueFits(c)'
  BY <1>1, <1>2, <1>3 DEF DoorIInv, QueueFits
<1>10. ASSUME NEW c \in Devices PROVE RequestFits(c)'
  BY <1>1, <1>2, <1>5, <1>6, RequestStays
<1> QED
  BY <1>5, <1>6, <1>7, <1>8, <1>9, <1>10 DEF DoorIInv

LEMMA DoorInitFits == DoorInit => DoorIInv
<1> SUFFICES ASSUME DoorInit PROVE DoorIInv
  OBVIOUS
<1>1. DoorTypeOK
  BY DoorAssumption DEF DoorInit, DoorTypeOK, OnePerTicket
<1>2. NoCheckinLost /\ ShownIsVouched /\ RecordsFit
  BY DEF DoorInit, NoCheckinLost, ShownIsVouched, RecordsFit
<1>3. ASSUME NEW d \in Devices PROVE QueueFits(d) /\ RequestFits(d)
  BY DEF DoorInit, QueueFits, RequestFits, NoSync
<1> QED
  BY <1>1, <1>2, <1>3 DEF DoorIInv

LEMMA DoorNextFits ==
  ASSUME SwitchEvents = FALSE, DoorIInv, [DoorNext]_doorVars
  PROVE  DoorIInv'
<1>1. CASE \E e \in Events : IssuePass(e)
  BY <1>1, IssuePassKeeps
<1>2. ASSUME NEW d \in Devices,
             \/ \E e \in Events : Provision(d, e)
             \/ \E t \in Tickets, at \in Times : Admit(d, t, at)
             \/ RefreshPack(d)
      PROVE  DoorIInv'
  BY <1>2, ProvisionKeeps, AdmitKeeps, RefreshPackKeeps
<1>3. ASSUME NEW d \in Devices,
             \/ SyncAsk(d) \/ SyncServer(d) \/ SyncLost(d)
             \/ SyncRefused(d) \/ SyncAnswer(d) \/ Reload(d) \/ Reset(d)
      PROVE  DoorIInv'
  BY <1>3, AskingKeeps, SyncServerKeeps, SyncAnswerKeeps, ResetKeeps
<1>4. CASE UNCHANGED doorVars
  <2>1. UNCHANGED <<server, device, sync, history, resets>>
    BY <1>4 DEF doorVars
  <2>2. DoorTypeOK'
    BY <2>1 DEF DoorIInv, DoorTypeOK, server, device, history
  <2>3. RecordsGrow /\ RecordsFit'
    BY <2>1, NoGrowth DEF DoorIInv, RecordsFit, server
  <2>4. NoCheckinLost' /\ ShownIsVouched' /\ \A d \in Devices : QueueFits(d)'
    BY <2>1, <2>2, <2>3, DoorsHold DEF device, history
  <2>5. ASSUME NEW d \in Devices PROVE RequestFits(d)'
    BY <2>1, <2>2, <2>3, RequestStays DEF device, history
  <2> QED
    BY <2>2, <2>3, <2>4, <2>5 DEF DoorIInv
<1>5. CASE DoorNext
  BY <1>1, <1>2, <1>3, <1>5 DEF DoorNext
<1> QED
  BY <1>4, <1>5

(* While a device keeps to one event until it is handed back, every state  *)
(* keeps the invariant.                                                    *)
THEOREM DoorInvariance ==
  ASSUME SwitchEvents = FALSE
  PROVE  DoorSpec => []DoorIInv
<1>1. DoorIInv /\ [DoorNext]_doorVars => DoorIInv'
  BY DoorNextFits
<1> QED
  BY <1>1, DoorInitFits, PTL DEF DoorSpec

(* Whoever was let in is on record at the server or queued at the door,    *)
(* with any number of doors, rotated passes, lost requests, answers that   *)
(* come after the device was wiped and clocks that disagree.               *)
THEOREM NoCheckinLostHolds ==
  ASSUME SwitchEvents = FALSE
  PROVE  DoorSpec => []NoCheckinLost
<1>1. DoorIInv => NoCheckinLost
  BY DEF DoorIInv
<1> QED
  BY <1>1, DoorInvariance, PTL

(* No door shows an entry that neither the server nor its own queue        *)
(* accounts for.                                                           *)
THEOREM ShownIsVouchedHolds ==
  ASSUME SwitchEvents = FALSE
  PROVE  DoorSpec => []ShownIsVouched
<1>1. DoorIInv => ShownIsVouched
  BY DEF DoorIInv
<1> QED
  BY <1>1, DoorInvariance, PTL


=============================================================================
