------------------------------ MODULE SessionAuth ------------------------------
(***************************************************************************)
(* Who may act for a smart account: the sessions its owner signed, the     *)
(* owner read from a chain through replicas that lag, what the server      *)
(* remembers of those reads, and the sessions that were revoked.           *)
(*                                                                         *)
(*   lib/auth/verify-delegation.ts       a request's delegation            *)
(*   lib/auth/kernel-owner.ts            cached and shared owner reads     *)
(*   lib/auth/kernel-owner-ordering.ts   which read is newer               *)
(*   lib/auth/kernel-deployed.ts         the durable record                *)
(*   lib/auth/owner-read-budget.ts       reads a client may cause          *)
(*   lib/auth/revocation.ts              revoked sessions                  *)
(*                                                                         *)
(* One account, whose address is not the key's own: a plain key needs no   *)
(* owner read, only the revocations apply to it. Signatures are genuine: a *)
(* session names the key that signed it. The account's address is derived  *)
(* from BirthKey, which alone can deploy it; recovery gives it other keys. *)
(***************************************************************************)
EXTENDS Naturals, Sequences

CONSTANTS
  Keys, BirthKey, NoOwner,
  Sessions, Requests, NoSession,
  Life,         \* how long a session is good for
  MaxAhead,     \* how far a device's clock may be ahead of the server's
  MaxBlock,     \* bound: blocks of the chain
  MaxClock      \* bound: the server's clock

ASSUME AuthAssumption ==
  /\ BirthKey \in Keys /\ NoOwner \notin Keys
  /\ Life \in Nat \ {0} /\ MaxAhead \in Nat /\ MaxBlock \in Nat \ {0} /\ MaxClock \in Nat \ {0}

VARIABLES
  chain,      \* the account's owner at each block
  record,     \* kernel-deployed.json: whether an owner was seen, the last change
  cache,      \* the last read, while it is fresh
  asking,     \* an owner read is in flight
  req,        \* requests being verified
  session,    \* what the devices' delegations say
  clock,
  barred,     \* sessions revoked one by one
  allBefore,  \* "revoke all before"; 0 if never
  outlawed    \* sessions revoked, alone or with all that were dated before (history)

owner == <<record, cache, asking>>
revocation == <<barred, allBefore, outlawed>>
vars == <<chain, owner, req, session, clock, revocation>>

Owners == Keys \union {NoOwner}
Tip == Len(chain)
Unread == [owner |-> NoOwner, block |-> 0]
Read == [owner: Owners, block: 0..MaxBlock]
Unknown == [known |-> FALSE, owner |-> NoOwner, block |-> 0]
KnownOnly == [known |-> TRUE, owner |-> NoOwner, block |-> 0]   \* a file of version 1
Delegation ==
  [key: Keys, signed: 0..MaxClock, issued: 0..(MaxClock + MaxAhead),
   expires: 0..(MaxClock + MaxAhead + Life)]
Idle == [at |-> "idle"]
Waiting == [at: {"reading", "granted"}, s: Sessions, seen: 0..MaxBlock]

AuthTypeOK ==
  /\ chain \in Seq(Owners) /\ Tip \in 1..MaxBlock
  /\ record \in [known: BOOLEAN, owner: Owners, block: 0..MaxBlock]
  /\ cache \in Read /\ asking \in BOOLEAN
  /\ session \in [Sessions -> Delegation \union {NoSession}]
  /\ req \in [Requests -> Waiting \union {Idle}]
  /\ clock \in 0..MaxClock /\ allBefore \in 0..MaxClock
  /\ barred \subseteq Sessions /\ outlawed \subseteq Sessions

AuthInit ==
  /\ \/ chain = <<NoOwner>> /\ record = Unknown
     \/ chain = <<BirthKey>> /\ record \in {Unknown, KnownOnly}
  /\ cache = Unread /\ asking = FALSE
  /\ req = [r \in Requests |-> Idle] /\ session = [s \in Sessions |-> NoSession]
  /\ clock = 1 /\ barred = {} /\ allBefore = 0 /\ outlawed = {}

-----------------------------------------------------------------------------
(* The chain and the devices. *)

\* Deployment gives the account its first owner, recovery another.
Mine(o) ==
  /\ Tip < MaxBlock
  /\ chain[Tip] = NoOwner => o \in {NoOwner, BirthKey}
  /\ chain[Tip] # NoOwner => o # NoOwner
  /\ chain' = Append(chain, o)
  /\ UNCHANGED <<owner, req, session, clock, revocation>>

Mint(s, k, ahead) ==
  /\ session[s] = NoSession
  /\ session' = [session EXCEPT ![s] = [key |-> k, signed |-> clock,
                                        issued |-> clock + ahead,
                                        expires |-> clock + ahead + Life]]
  /\ UNCHANGED <<chain, owner, req, clock, revocation>>

Tick ==
  /\ clock < MaxClock /\ clock' = clock + 1
  /\ UNCHANGED <<chain, owner, req, session, revocation>>

-----------------------------------------------------------------------------
(* What the server makes of an owner read. *)

Ordered == record.block > 0

\* Mutant: every answer that arrives is current.
StaleNever(rd) == FALSE

\* Mutant: a set of retired owners instead of an order.
StaleOnceOther(rd) == Ordered /\ rd.owner # record.owner

\* judgeOwnerRead: a different owner counts only from a later block.
Stale(rd) == Ordered /\ rd.owner # record.owner /\ rd.block <= record.block

\* Mutant: the block is read by a call of its own.
RecordedAtTip(rd, keys) ==
  LET moves == IF Ordered THEN rd.owner \notin {record.owner, NoOwner}
               ELSE rd.owner \in keys
  IN  IF moves THEN [known |-> TRUE, owner |-> rd.owner, block |-> Tip] ELSE record

\* recordKernelOwner, as observeOwnerRead calls it for the keys presented: a
\* rotation moves the record; a first one needs a key that the chain confirms.
Recorded(rd, keys) ==
  LET moves == IF Ordered THEN rd.owner \notin {record.owner, NoOwner}
               ELSE rd.owner \in keys
  IN  IF moves THEN [known |-> TRUE, owner |-> rd.owner, block |-> rd.block] ELSE record

\* decideKernelOwnership. A read that failed decides like one that found no owner.
Owns(k, o) ==
  IF o # NoOwner THEN o = k ELSE ~record'.known /\ k = BirthKey

Revoked(s) == s \in barred \/ session[s].issued <= allBefore
LetsIn(s, o) == Owns(session[s].key, o) /\ ~Revoked(s)

\* The requests that waited are let in or refused.
Judged(R, o) ==
  req' = [r \in Requests |->
            IF r \notin R THEN req[r]
            ELSE IF LetsIn(req[r].s, o) THEN [req[r] EXCEPT !.at = "granted"] ELSE Idle]

-----------------------------------------------------------------------------
(* A request. *)

Request(s, at) == [at |-> at, s |-> s, seen |-> record.block]
Current(s) == session[s] # NoSession /\ clock <= session[s].expires
Fits(r, s) == req[r] = Idle /\ Current(s)

\* The cache confirms the signer: no read. It may be the first confirmation.
CacheConfirms(s) ==
  cache # Unread /\ LET k == session[s].key
                    IN  \/ cache.owner = k
                        \/ cache.owner = NoOwner /\ ~record.known /\ k = BirthKey
Confirmed(r, s) ==
  /\ Fits(r, s) /\ CacheConfirms(s)
  /\ record' = IF Ordered \/ cache.owner = NoOwner THEN record
               ELSE [known |-> TRUE, owner |-> cache.owner, block |-> cache.block]
  /\ req' = IF Revoked(s) THEN req ELSE [req EXCEPT ![r] = Request(s, "granted")]
  /\ UNCHANGED <<chain, cache, asking, session, clock, revocation>>

\* Otherwise the chain is asked, or a read in flight is joined.
Asks(r, s) ==
  /\ Fits(r, s) /\ ~CacheConfirms(s)
  /\ asking' = TRUE /\ req' = [req EXCEPT ![r] = Request(s, "reading")]
  /\ UNCHANGED <<chain, record, cache, session, clock, revocation>>

\* The client has used up its reads: the read counts as failed.
OverBudget(r, s) ==
  /\ Fits(r, s) /\ ~CacheConfirms(s) /\ ~asking
  /\ record' = record
  /\ req' = IF LetsIn(s, NoOwner) THEN [req EXCEPT ![r] = Request(s, "granted")] ELSE req
  /\ UNCHANGED <<chain, cache, asking, session, clock, revocation>>

Readers == {r \in Requests : req[r].at = "reading"}

\* A replica that is at block b answers all that wait.
Answer(b) ==
  /\ asking /\ asking' = FALSE
  /\ LET rd == [owner |-> chain[b], block |-> b]
     IN  \/ /\ ~Stale(rd)
            /\ record' = Recorded(rd, {session[req[r].s].key : r \in Readers})
            /\ cache' = rd /\ Judged(Readers, rd.owner)
         \/ /\ Stale(rd)
            /\ UNCHANGED <<record, cache>> /\ Judged(Readers, NoOwner)
  /\ UNCHANGED <<chain, session, clock, revocation>>

ReadFails ==
  /\ asking /\ asking' = FALSE
  /\ record' = record /\ Judged(Readers, NoOwner)
  /\ UNCHANGED <<chain, cache, session, clock, revocation>>

CacheExpires ==
  /\ cache # Unread /\ cache' = Unread
  /\ UNCHANGED <<chain, record, asking, req, session, clock, revocation>>

Done(r) ==
  /\ req[r].at = "granted" /\ req' = [req EXCEPT ![r] = Idle]
  /\ UNCHANGED <<chain, owner, session, clock, revocation>>

\* The requests that revoke: the session that makes them, or all of the account's.
RevokeSession(r) ==
  /\ req[r].at = "granted" /\ req' = [req EXCEPT ![r] = Idle]
  /\ barred' = barred \union {req[r].s} /\ outlawed' = outlawed \union {req[r].s}
  /\ UNCHANGED <<chain, owner, session, clock, allBefore>>

Signed == {s \in Sessions : session[s] # NoSession}
RevokeAll(r) ==
  /\ req[r].at = "granted" /\ req' = [req EXCEPT ![r] = Idle]
  /\ allBefore' = clock
  /\ outlawed' = outlawed \union {s \in Signed : session[s].issued <= clock}
  /\ UNCHANGED <<chain, owner, session, clock, barred>>

\* Mutant: the entries are dropped on a restart and by the sweep.
PruneAll ==
  /\ barred' = {}
  /\ UNCHANGED <<chain, owner, req, session, clock, allBefore, outlawed>>

\* pruneExpired, every hour and on load.
Prune ==
  /\ barred' = {s \in barred : session[s].expires > clock}
  /\ UNCHANGED <<chain, owner, req, session, clock, allBefore, outlawed>>

\* What was cached is gone, what was recorded is read back.
Restart ==
  /\ cache' = Unread /\ asking' = FALSE /\ req' = [r \in Requests |-> Idle]
  /\ barred' = {s \in barred : session[s].expires > clock}
  /\ UNCHANGED <<chain, record, session, clock, allBefore, outlawed>>

AuthNext ==
  \/ \E o \in Owners : Mine(o)
  \/ \E s \in Sessions, k \in Keys, ahead \in 0..MaxAhead : Mint(s, k, ahead)
  \/ \E r \in Requests, s \in Sessions : Confirmed(r, s) \/ Asks(r, s) \/ OverBudget(r, s)
  \/ \E b \in 1..Tip : Answer(b)
  \/ \E r \in Requests : Done(r) \/ RevokeSession(r) \/ RevokeAll(r)
  \/ Tick \/ ReadFails \/ CacheExpires \/ Prune \/ Restart

AuthSpec == AuthInit /\ [][AuthNext]_vars

\* A client asks again, and again and again it is within its budget and a replica
\* that has caught up answers it.
Waits(s) == \E r \in Readers : req[r].s = s
AuthFairness ==
  \A s \in Sessions :
    /\ SF_vars(\E r \in Requests : Confirmed(r, s) \/ Asks(r, s))
    /\ SF_vars(Waits(s) /\ Answer(Tip))
AuthFairSpec == AuthSpec /\ AuthFairness /\ \A r \in Requests : WF_vars(Done(r))
-----------------------------------------------------------------------------
Granted == {r \in Requests : req[r].at = "granted"}

\* The record is the chain's: it names an owner and a block at which it was so.
RecordIsTrue == Ordered => chain[record.block] = record.owner

\* Once a change of owner is on the record, only a key that has been the owner
\* since is let in, whatever the replicas answer, and however often they fail.
GrantIsCurrent ==
  \A r \in Granted :
    LET k == session[req[r].s].key
    IN  IF req[r].seen > 0 THEN \E b \in req[r].seen..Tip : chain[b] = k
        ELSE k = BirthKey \/ \E b \in 1..Tip : chain[b] = k

\* A revoked session stays out for the rest of its life, across restarts.
LetIn(r) == req'[r] # req[r] /\ req'[r].at = "granted"
InTime(s) == clock < session[s].expires
RevokedStaysOut ==
  [][\A r \in Requests : LetIn(r) /\ InTime(req'[r].s) => req'[r].s \notin outlawed]_vars

\* Nobody is locked out for good: not by a cached read, nor by what is on record.
OwnerGetsIn ==
  \A s \in Sessions :
    Current(s) /\ ~Revoked(s) /\ chain[Tip] = session[s].key
      ~> \/ ~Current(s) \/ Revoked(s) \/ chain[Tip] # session[s].key
         \/ \E r \in Granted : req[r].s = s

\* Once an owner is on the record, an answer from an earlier block does not replace
\* a later one that named another owner (kernel-owner.ts:264-267).
NoRollback ==
  [][Ordered /\ cache # Unread /\ cache' # Unread /\ cache'.block < cache.block
       => cache'.owner = cache.owner]_vars
\* "Revoke all sessions for a parent address issued before now" (revocation.ts:158).
AllAreRevoked ==
  [][\A r \in Requests : LetIn(r) => session[req'[r].s].signed >= allBefore]_vars

\* A revocation is dropped once the delegation "is rejected for being stale anyway".
RevokedToTheEnd ==
  [][\A r \in Requests : LetIn(r) => req'[r].s \notin outlawed]_vars
=============================================================================
