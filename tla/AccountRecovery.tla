--------------------------- MODULE AccountRecovery ---------------------------
(***************************************************************************)
(* A passkey account whose owner is lost and recovered, as the browsers of *)
(* its user see it (apps/web/src/lib/auth/).                               *)
(*                                                                         *)
(*   auth-store.svelte.ts      logins, back-ups, the recovery ceremony     *)
(*   envelope-reprobe.ts       the repair of a browser on a wrong account  *)
(*   recovery-portability.ts   the envelope that carries the roots along   *)
(*                                                                         *)
(* Every passkey has an account of its own, written like the passkey; the  *)
(* one that is recovered is First's. Recovery makes a fresh passkey own it *)
(* at its old address, so a browser has to be told which account that      *)
(* passkey opens ("bound"), and given the two roots, POD seed and feed     *)
(* signer, that only First could derive. A root is written like the        *)
(* passkey that derives it. Passkeys are synced: any browser has them all. *)
(***************************************************************************)
EXTENDS Naturals, Sequences, FiniteSets

CONSTANTS
  Browsers, Backups,
  Portals,       \* bound: the browsers a recovery is run in
  Synced,        \* the passkeys each browser can use
  LastCred,      \* bound: passkeys made by recoveries
  MaySwitch,     \* another passkey may sign in before the last one signs out
  Evictable,     \* the browsers that may lose all they stored
  Active,        \* bound: the accounts used on chain
  None, Silence  \* nothing; no answer of the chain

Creds == 0..LastCred
First == 0
Accounts == Creds

ASSUME RecoveryAssumption ==
  /\ Portals \subseteq Browsers
  /\ Synced \in [Browsers -> SUBSET Creds]
  /\ LastCred \in Nat
  /\ {None, Silence} \intersect Creds = {} /\ None \notin [seed: Creds, signer: Creds]
  /\ MaySwitch \in BOOLEAN
  /\ Evictable \subseteq Browsers /\ Active \subseteq Accounts

VARIABLES
  minted,     \* passkeys made so far are 0..minted
  owner,      \* who owns each account on chain; None until it is deployed
  guardians,  \* the account's guardians on chain
  escrow,     \* each backup's sealed copy of the roots
  envelope,   \* each passkey's sealed copy of the roots
  bound,      \* passkeys a browser knows to open First's account
  cached,     \* passkeys whose own account it has cached as theirs
  marked,     \* passkeys whose binding it has checked on chain
  tomb,       \* passkeys it has proof are retired
  seed,       \* the POD seed stored under a passkey
  signer,     \* the feed signer stored under an account
  session,    \* passkey and account signed in
  task,       \* the login, ceremony or back-up under way
  probe,      \* the check running behind a fast login
  home        \* passkeys that opened First's account as bound (history)

chain == <<minted, owner, guardians>>
copies == <<escrow, envelope>>
facts == <<bound, cached, marked, tomb>>
roots == <<seed, signer>>
recoveryVars == <<chain, copies, facts, roots, session, task, probe, home>>

Roots == [seed: Creds, signer: Creds]
Out == [cred |-> None, account |-> None]
Sessions == [cred: Creds, account: Accounts]
Work == {"mint", "rotate", "bind", "seed", "signer", "enter", "escrow", "install", "append", "ask"}
NoTask == [todo |-> <<>>, cred |-> None, account |-> None, roots |-> None,
         backup |-> None, affirmed |-> FALSE, absent |-> FALSE]

RecoveryTypeOK ==
  /\ minted \in Creds
  /\ owner \in [Accounts -> Creds \union {None}]
  /\ guardians \subseteq Backups
  /\ escrow \in [Backups -> Roots \union {None}]
  /\ envelope \in [Creds -> Roots \union {None}]
  /\ \A set \in {bound, cached, marked, tomb, home} : set \in [Browsers -> SUBSET Creds]
  /\ seed \in [Browsers -> [Creds -> Creds \union {None}]]
  /\ signer \in [Browsers -> [Accounts -> Creds \union {None}]]
  /\ session \in [Browsers -> Sessions \union {Out}]
  /\ task \in [Browsers -> [todo: Seq(Work), cred: Creds \union {None},
                           account: Accounts \union {None}, roots: Roots \union {None},
                           backup: Backups \union {None}, affirmed: BOOLEAN, absent: BOOLEAN]]
  /\ probe \in [Browsers -> [cred: Creds, at: {"due", "asking", "owner"}] \union {None}]

RecoveryInit ==
  /\ minted = First
  /\ owner = [a \in Accounts |-> None]
  /\ guardians = {}
  /\ escrow = [b \in Backups |-> None]
  /\ envelope = [c \in Creds |-> None]
  /\ bound = [d \in Browsers |-> {}]
  /\ cached = [d \in Browsers |-> {}]
  /\ marked = [d \in Browsers |-> {}]
  /\ tomb = [d \in Browsers |-> {}]
  /\ home = [d \in Browsers |-> {}]
  /\ seed = [d \in Browsers |-> [c \in Creds |-> None]]
  /\ signer = [d \in Browsers |-> [a \in Accounts |-> None]]
  /\ session = [d \in Browsers |-> Out]
  /\ task = [d \in Browsers |-> NoTask]
  /\ probe = [d \in Browsers |-> None]

AccountOf(d, c) == IF c \in bound[d] THEN First ELSE c
Answers(a) == {owner[a], Silence}
Foreign(answer, c) == answer \notin {None, Silence, c}
HasRoots(d, c, a) == seed[d][c] # None /\ signer[d][a] # None
Held(d, c, a) == [seed |-> seed[d][c], signer |-> signer[d][a]]
SignedInAs(d, c, a) == session[d] = [cred |-> c, account |-> a]
Doing(d, what) == task[d].todo # <<>> /\ Head(task[d].todo) = what
Next1(d) == task' = [task EXCEPT ![d].todo = Tail(@)]
Stops(d) == task' = [task EXCEPT ![d] = NoTask]

----------------------------------------------------------------------------
(* Signing in.                                                             *)

Opens(d, c, a) ==
  /\ session' = [session EXCEPT ![d] = [cred |-> c, account |-> a]]
  /\ home' = IF a # c THEN [home EXCEPT ![d] = @ \union {c}] ELSE home

CanSignIn(d, c) ==
  /\ c \in Synced[d] /\ c <= minted
  /\ task[d] = NoTask
  /\ session[d] = Out \/ (MaySwitch /\ session[d].cred # c)

Fast(d, c) == c \notin bound[d] /\ c \in cached[d]
Verified(d, c) == c \in bound[d] /\ c \in marked[d] /\ HasRoots(d, c, First)

\* A browser with a tombstone refuses before it looks at anything else. From the
\* cache; a look for the envelope may be due afterwards (its ladder).
LoginCached(d, c) ==
  /\ CanSignIn(d, c) /\ c \notin tomb[d] /\ Fast(d, c)
  /\ Opens(d, c, c)
  /\ probe' \in {probe, [probe EXCEPT ![d] = IF @ = None THEN [cred |-> c, at |-> "due"] ELSE @]}
  /\ UNCHANGED <<chain, copies, facts, roots, task>>

\* From a checked binding; the owner is read again in the background.
LoginVerified(d, c) ==
  /\ CanSignIn(d, c) /\ c \notin tomb[d] /\ Verified(d, c)
  /\ Opens(d, c, First)
  /\ probe' = [probe EXCEPT ![d] = IF @ = None THEN [cred |-> c, at |-> "owner"] ELSE @]
  /\ UNCHANGED <<chain, copies, facts, roots, task>>

\* The slow path: the owner guard, and whether the envelope must be read.
LoginGuard(d, c) ==
  /\ CanSignIn(d, c) /\ c \notin tomb[d] /\ ~Fast(d, c) /\ ~Verified(d, c)
  /\ \E answer \in (IF c \in bound[d] THEN Answers(First) ELSE {None}) :
       IF Foreign(answer, c)
       THEN /\ marked' = [marked EXCEPT ![d] = @ \ {c}]
            /\ UNCHANGED task
       ELSE /\ task' = [task EXCEPT ![d] =
                 [NoTask EXCEPT !.cred = c, !.account = AccountOf(d, c), !.affirmed = answer = c,
                    !.todo = IF c \in bound[d] /\ HasRoots(d, c, First)
                             THEN <<"enter">> ELSE <<"ask">>]]
            /\ UNCHANGED marked
  /\ UNCHANGED <<chain, copies, bound, cached, tomb, roots, session, probe, home>>

\* The order in which a login stores what the envelope held.
LoginWrites == <<"seed", "signer", "bind", "enter">>

\* The envelope: absent (which may be a gateway's mistake), unreadable, or found
\* and worth what the chain says of the account's owner.
LoginEnvelope(d) ==
  LET c == task[d].cred IN
  /\ Doing(d, "ask")
  /\ \/ /\ task' = [task EXCEPT ![d].absent = TRUE, ![d].todo = <<"enter">>]
        /\ UNCHANGED marked
     \/ /\ task' = [task EXCEPT ![d].todo = <<"enter">>]
        /\ UNCHANGED marked
     \/ /\ envelope[c] # None /\ owner[First] # c
        /\ marked' = [marked EXCEPT ![d] = @ \ {c}]
        /\ Stops(d)
     \/ /\ envelope[c] # None /\ owner[First] = c
        /\ task' = [task EXCEPT ![d].roots = envelope[c], ![d].account = First,
                                ![d].todo = LoginWrites]
        /\ UNCHANGED marked
  /\ UNCHANGED <<chain, copies, bound, cached, tomb, roots, session, probe, home>>

----------------------------------------------------------------------------
(* What a login and the ceremony store, one write at a time.               *)

StoreBinding(d) ==
  /\ Doing(d, "bind")
  /\ bound' = [bound EXCEPT ![d] = @ \union {task[d].cred}]
  /\ Next1(d)
  /\ UNCHANGED <<chain, copies, cached, marked, tomb, roots, session, probe, home>>

StoreSeed(d) ==
  /\ Doing(d, "seed")
  /\ seed' = [seed EXCEPT ![d][task[d].cred] = task[d].roots.seed]
  /\ Next1(d)
  /\ UNCHANGED <<chain, copies, facts, signer, session, probe, home>>

StoreSigner(d) ==
  /\ Doing(d, "signer")
  /\ signer' = [signer EXCEPT ![d][First] = task[d].roots.signer]
  /\ Next1(d)
  /\ UNCHANGED <<chain, copies, facts, seed, session, probe, home>>

\* The session is committed. Only an account that never had a binding and whose
\* envelope is absent is cached, only a binding somebody checked is marked.
Enter(d) ==
  LET t == task[d] IN
  /\ Doing(d, "enter")
  /\ Opens(d, t.cred, t.account)
  /\ cached' = IF t.absent /\ t.account = t.cred
               THEN [cached EXCEPT ![d] = @ \union {t.cred}] ELSE cached
  /\ marked' = IF t.affirmed \/ (t.roots # None /\ t.backup = None)
               THEN [marked EXCEPT ![d] = @ \union {t.cred}] ELSE marked
  /\ task' = [task EXCEPT ![d] = IF Tail(t.todo) = <<>> THEN NoTask ELSE [t EXCEPT !.todo = Tail(@)]]
  /\ UNCHANGED <<chain, copies, bound, tomb, roots, probe>>

\* The tab is closed, or a step fails: what is stored so far stays.
TabDies(d) ==
  /\ task[d] # NoTask
  /\ Stops(d)
  /\ UNCHANGED <<chain, copies, facts, roots, session, probe, home>>

----------------------------------------------------------------------------
(* Using the account.                                                      *)

\* Mutant: the guard is dropped.
DerivesAlways(d, c) == TRUE

\* A passkey that was bound cannot derive the roots of its account.
MayDerive(d, c) == c \notin bound[d]

DeriveSeed(d) ==
  LET c == session[d].cred IN
  /\ session[d] # Out /\ seed[d][c] = None /\ MayDerive(d, c)
  /\ seed' = [seed EXCEPT ![d][c] = c]
  /\ UNCHANGED <<chain, copies, facts, signer, session, task, probe, home>>

DeriveSigner(d) ==
  LET s == session[d] IN
  /\ s # Out /\ signer[d][s.account] = None /\ MayDerive(d, s.cred)
  /\ signer' = [signer EXCEPT ![d][s.account] = s.cred]
  /\ UNCHANGED <<chain, copies, facts, seed, session, task, probe, home>>

\* The kernel a passkey builds must be the account that is signed in.
BuildsKernel(d) ==
  /\ session[d] # Out /\ task[d] = NoTask
  /\ AccountOf(d, session[d].cred) = session[d].account

\* The chain accepts an operation from the account's owner only.
CanAct(d) == BuildsKernel(d) /\ owner[session[d].account] \in {None, session[d].cred}

\* The first operation of an account deploys it.
Act(d) ==
  /\ CanAct(d) /\ session[d].account \in Active /\ owner[session[d].account] = None
  /\ owner' = [owner EXCEPT ![session[d].account] = session[d].cred]
  /\ UNCHANGED <<minted, guardians, copies, facts, roots, session, task, probe, home>>

\* After a session is minted the envelope is brought in line, if it can be read;
\* the server takes it from the account's owner only.
Backfill(d) ==
  LET s == session[d] IN
  /\ s # Out /\ s.cred \in bound[d] /\ HasRoots(d, s.cred, s.account)
  /\ owner[First] = s.cred
  /\ envelope' = [envelope EXCEPT ![s.cred] = Held(d, s.cred, s.account)]
  /\ UNCHANGED <<chain, escrow, facts, roots, session, task, probe, home>>

WipeRoots(d, s) ==
  /\ seed' = [seed EXCEPT ![d][s.cred] = None]
  /\ signer' = [signer EXCEPT ![d][s.account] = None]
  /\ session' = [session EXCEPT ![d] = Out]

\* The binding, the cache and the marks outlive a sign-out, the roots do not.
Logout(d) ==
  /\ session[d] # Out /\ task[d] = NoTask
  /\ WipeRoots(d, session[d])
  /\ UNCHANGED <<chain, copies, facts, task, probe, home>>

\* The user, or the browser, clears everything the site stored.
Evict(d) ==
  /\ d \in Evictable /\ task[d] = NoTask
  /\ bound' = [bound EXCEPT ![d] = {}]
  /\ cached' = [cached EXCEPT ![d] = {}]
  /\ marked' = [marked EXCEPT ![d] = {}]
  /\ tomb' = [tomb EXCEPT ![d] = {}]
  /\ home' = [home EXCEPT ![d] = {}]
  /\ seed' = [seed EXCEPT ![d] = [c \in Creds |-> None]]
  /\ signer' = [signer EXCEPT ![d] = [a \in Accounts |-> None]]
  /\ session' = [session EXCEPT ![d] = Out]
  /\ probe' = [probe EXCEPT ![d] = None]
  /\ UNCHANGED <<chain, copies, task>>

----------------------------------------------------------------------------
(* Back-ups.                                                               *)

\* A route is installed with one guardian, replacing any; or one is added to it.
AddPath == IF guardians = {} THEN "install" ELSE "append"
\* Mutant: the guardian first, its escrow after.
GuardianFirst == <<AddPath, "escrow">>

SetupWrites == <<"escrow", AddPath>>

\* The roots are sealed and opened again, and the way to add is read.
SetupBackup(d, b) ==
  LET s == session[d] IN
  /\ BuildsKernel(d) /\ s.account = First /\ b \notin guardians
  /\ HasRoots(d, s.cred, First)
  /\ task' = [task EXCEPT ![d] =
       [NoTask EXCEPT !.cred = s.cred, !.account = First, !.backup = b,
                    !.roots = Held(d, s.cred, First), !.todo = SetupWrites]]
  /\ UNCHANGED <<chain, copies, facts, roots, session, probe, home>>

WriteEscrow(d) ==
  /\ Doing(d, "escrow")
  /\ escrow' = [escrow EXCEPT ![task[d].backup] = task[d].roots]
  /\ Next1(d)
  /\ UNCHANGED <<chain, envelope, facts, roots, session, probe, home>>

\* The chain accepts it from the account's owner only.
Register(d) ==
  LET t == task[d] IN
  /\ Doing(d, "install") \/ Doing(d, "append")
  /\ owner[First] \in {None, t.cred}
  /\ owner' = [owner EXCEPT ![First] = t.cred]
  /\ guardians' = IF Doing(d, "install") THEN {t.backup} ELSE guardians \union {t.backup}
  /\ task' = [task EXCEPT ![d] = IF Tail(t.todo) = <<>> THEN NoTask ELSE [t EXCEPT !.todo = Tail(@)]]
  /\ UNCHANGED <<minted, copies, facts, roots, session, probe, home>>

RemoveBackups(d, gone) ==
  /\ CanAct(d) /\ session[d].account = First /\ guardians # {}
  /\ gone = guardians \/ Cardinality(gone) = 1
  /\ guardians' = guardians \ gone
  /\ UNCHANGED <<minted, owner, copies, facts, roots, session, task, probe, home>>

----------------------------------------------------------------------------
(* The recovery ceremony, in a browser that is signed out.                 *)

\* Mutant: the binding is the last thing written, as it used to be.
BindingLast == <<"seed", "signer", "enter", "bind">>

\* The order in which the ceremony stores what it recovered: the binding first.
PortalWrites == <<"bind", "seed", "signer", "enter">>

\* The escrow opens; the chain knows the guardian, or does not answer.
PortalOpens(d, b) ==
  /\ d \in Portals /\ session[d] = Out /\ task[d] = NoTask
  /\ escrow[b] # None
  /\ task' = [task EXCEPT ![d] =
       [NoTask EXCEPT !.account = First, !.backup = b, !.roots = escrow[b],
                    !.todo = <<"mint", "rotate">> \o PortalWrites]]
  /\ UNCHANGED <<chain, copies, facts, roots, session, probe, home>>

MintPasskey(d) ==
  /\ Doing(d, "mint") /\ minted < LastCred
  /\ minted' = minted + 1
  /\ task' = [task EXCEPT ![d].cred = minted + 1, ![d].todo = Tail(@)]
  /\ UNCHANGED <<owner, guardians, copies, facts, roots, session, probe, home>>

\* The guardian makes the passkey the owner, proved at the block it happened in.
Rotate(d) ==
  /\ Doing(d, "rotate") /\ task[d].backup \in guardians
  /\ owner' = [owner EXCEPT ![First] = task[d].cred]
  /\ Next1(d)
  /\ UNCHANGED <<minted, guardians, copies, facts, roots, session, probe, home>>

----------------------------------------------------------------------------
(* The checks behind a fast login.                                         *)

\* The deferred look begins only while its session is still the one signed in.
ReprobeStarts(d) ==
  /\ probe[d] # None /\ probe[d].at = "due"
  /\ probe' = [probe EXCEPT ![d] =
       IF SignedInAs(d, @.cred, @.cred) THEN [@ EXCEPT !.at = "asking"] ELSE None]
  /\ UNCHANGED <<chain, copies, facts, roots, session, task, home>>

EndsSession(d, c, a) ==
  IF SignedInAs(d, c, a) THEN WipeRoots(d, session[d]) ELSE UNCHANGED <<roots, session>>

ProbeOver(d) == probe' = [probe EXCEPT ![d] = None]

\* The cached account has another owner: the passkey is retired for good.
ReprobeRetires(d) ==
  LET c == probe[d].cred IN
  /\ probe[d] # None /\ probe[d].at = "asking" /\ task[d] = NoTask
  /\ Foreign(owner[c], c)
  /\ tomb' = [tomb EXCEPT ![d] = @ \union {c}]
  /\ EndsSession(d, c, c) /\ ProbeOver(d)
  /\ UNCHANGED <<chain, copies, bound, cached, marked, task, home>>

\* It was never deployed, and the passkey's envelope names an account it owns.
ReprobeHeals(d) ==
  LET c == probe[d].cred IN
  /\ probe[d] # None /\ probe[d].at = "asking" /\ task[d] = NoTask
  /\ owner[c] = None /\ envelope[c] # None /\ owner[First] = c
  /\ bound' = [bound EXCEPT ![d] = @ \union {c}]
  /\ cached' = [cached EXCEPT ![d] = @ \ {c}]
  /\ EndsSession(d, c, c) /\ ProbeOver(d)
  /\ UNCHANGED <<chain, copies, marked, tomb, task, home>>

\* A checked binding whose account has another owner since.
BindingRetires(d) ==
  LET c == probe[d].cred IN
  /\ probe[d] # None /\ probe[d].at = "owner" /\ task[d] = NoTask
  /\ Foreign(owner[First], c)
  /\ marked' = [marked EXCEPT ![d] = @ \ {c}]
  /\ EndsSession(d, c, First) /\ ProbeOver(d)
  /\ UNCHANGED <<chain, copies, bound, cached, tomb, task, home>>

\* All is well, nobody answers, or the look finds nothing.
ProbeEnds(d) ==
  /\ probe[d] # None /\ probe[d].at # "due" /\ ProbeOver(d)
  /\ UNCHANGED <<chain, copies, facts, roots, session, task, home>>

----------------------------------------------------------------------------
RecoveryNext ==
  \E d \in Browsers :
    \/ \E c \in Creds : LoginCached(d, c) \/ LoginVerified(d, c) \/ LoginGuard(d, c)
    \/ LoginEnvelope(d)
    \/ StoreBinding(d) \/ StoreSeed(d) \/ StoreSigner(d) \/ Enter(d) \/ TabDies(d)
    \/ DeriveSeed(d) \/ DeriveSigner(d) \/ Act(d) \/ Backfill(d) \/ Logout(d) \/ Evict(d)
    \/ \E b \in Backups : SetupBackup(d, b) \/ PortalOpens(d, b)
    \/ WriteEscrow(d) \/ Register(d)
    \/ \E gone \in SUBSET guardians : RemoveBackups(d, gone)
    \/ MintPasskey(d) \/ Rotate(d)
    \/ ReprobeStarts(d) \/ ReprobeRetires(d) \/ ReprobeHeals(d)
    \/ BindingRetires(d) \/ ProbeEnds(d)

RecoverySpec == RecoveryInit /\ [][RecoveryNext]_recoveryVars

----------------------------------------------------------------------------
AreFirsts(r) == r # None /\ r.seed = First /\ r.signer = First

\* Whoever may move the account on chain can also restore it: every registered
\* guardian has an escrow, and in it the roots the account was created with,
\* after any recoveries, removals, setups cut short and signing in elsewhere.
GuardiansCanRestore == \A b \in guardians : AreFirsts(escrow[b])

\* No envelope carries roots that a passkey of a recovered account derived for
\* itself, on a browser that lost the real ones or never had them.
EnvelopesHoldRoots == \A c \in Creds : envelope[c] = None \/ AreFirsts(envelope[c])

\* A passkey that opened the recovered account in a browser never opens an
\* account of its own there later, whatever was lost, cached or cut short.
NoFork ==
  \A d \in Browsers : session[d] # Out /\ session[d].cred \in home[d] => session[d].account = First

\* The seed a session would use is its account's own.
SeedFitsAccount ==
  \A d \in Browsers :
    session[d] # Out => seed[d][session[d].cred] \in {None, session[d].account}

\* A guardian is dropped only on request, never because another was added.
NoneDropped ==
  [][guardians \subseteq guardians' \/ \E d \in Browsers, gone \in SUBSET guardians :
        RemoveBackups(d, gone)]_recoveryVars
=============================================================================
