----------------------------- MODULE MailRights -----------------------------
(***************************************************************************)
(* Whom an organiser may mail: consent given or refused at checkout,       *)
(* objections (unsubscribe, bounce, complaint, by hand), the organiser's   *)
(* list, and Art. 17 erasure.                                              *)
(*                                                                         *)
(*   lib/marketing/suppression-store.ts   suppressOrg, suppressGlobal, lift*)
(*   lib/marketing/consent-capture.ts     captureCheckoutConsent           *)
(*   lib/marketing/consent-store.ts, list-store.ts                         *)
(*   lib/marketing/subject-request.ts     eraseSubject                     *)
(*   routes/unsubscribe.ts, marketing.ts, resend-webhook.ts, ses-webhook.ts*)
(*                                                                         *)
(* The server loads each store once and rewrites it whole; the erasure     *)
(* script is another process that does the same with the same files. One   *)
(* organiser; global marks stand for every other one.                      *)
(***************************************************************************)
EXTENDS Naturals, FiniteSetsExt

CONSTANTS
  Addrs,         \* addressees, by hash
  Decisions,     \* answers given at checkout
  MaxRestarts,   \* bound: restarts of the server
  MaxErasures,   \* bound: runs of the erasure script
  LiveScript,    \* the script may run beside the server
  NoMark, NoAddr

ASSUME RightsAssumption ==
  /\ Decisions \in Nat /\ MaxRestarts \in Nat /\ MaxErasures \in Nat
  /\ LiveScript \in BOOLEAN
  /\ NoAddr \notin Addrs

VARIABLES
  mem,       \* the server's copy of the three stores
  disk,      \* marketing-{suppression,consent,lists}.json
  up, restarts,
  said,      \* checkout answers, in the order they were given: webhooks to come
  captured,  \* the answers taken so far
  ordered,   \* addresses whose answers were taken in the order given (history)
  objected,  \* addresses whose objection was acknowledged (history)
  swallowed, \* those whose objection found a refusal's mark in place (history)
  script,    \* the erasure script: its step, its subject and its copy
  erasures

stores == <<mem, disk>>
server == <<up, restarts>>
answers == <<said, captured, ordered>>
objections == <<objected, swallowed>>
erasing == <<script, erasures>>
vars == <<stores, server, answers, objections, erasing>>

Times == 1..Decisions
OrgMark == [ts: 0..Decisions, source: {"declined", "unsub", "manual"}, lifted: BOOLEAN]
Stores == [global: SUBSET Addrs, org: [Addrs -> OrgMark \union {NoMark}],
           consent: [Addrs -> 0..Decisions], list: SUBSET Addrs]
Answer == [addr: Addrs, ts: Times, granted: BOOLEAN]

ASSUME NoMarkAssumption == NoMark \notin OrgMark

RightsTypeOK ==
  /\ mem \in Stores /\ disk \in Stores
  /\ up \in BOOLEAN /\ restarts \in 0..MaxRestarts
  /\ said \subseteq Answer /\ captured \subseteq said
  /\ ordered \subseteq Addrs
  /\ swallowed \subseteq objected /\ objected \subseteq Addrs
  /\ script \in [step: {"idle", "loaded", "barred", "forgot"},
                 subject: Addrs \union {NoAddr}, copy: Stores]
  /\ erasures \in 0..MaxErasures

Empty == [global |-> {}, org |-> [a \in Addrs |-> NoMark],
          consent |-> [a \in Addrs |-> 0], list |-> {}]
Idle == [step |-> "idle", subject |-> NoAddr, copy |-> Empty]

RightsInit ==
  /\ mem = Empty /\ disk = Empty
  /\ up = TRUE /\ restarts = 0
  /\ said = {} /\ captured = {}
  /\ ordered = Addrs /\ objected = {} /\ swallowed = {}
  /\ script = Idle /\ erasures = 0

-----------------------------------------------------------------------------
(* The stores. *)

Active(mark) == mark # NoMark /\ ~mark.lifted
Suppressed(s, a) == a \in s.global \/ Active(s.org[a])
\* sendMarketingBatch and the audience check, together.
Mailable(s, a) == a \in s.list /\ ~Suppressed(s, a)

\* The first active mark stands; a lifted one gives way.
SuppressOrg(s, a, source, ts) ==
  IF Active(s.org[a]) THEN s
  ELSE [s EXCEPT !.org[a] = [ts |-> ts, source |-> source, lifted |-> FALSE]]

SuppressGlobal(s, a) == [s EXCEPT !.global = @ \union {a}]

\* Mutant: any older mark is lifted.
LiftAny(s, a, ts) ==
  IF Active(s.org[a]) /\ ts > s.org[a].ts
  THEN [s EXCEPT !.org[a].lifted = TRUE] ELSE s

\* Only a refusal at checkout, older than the consent, is lifted.
LiftDecline(s, a, ts) ==
  IF /\ Active(s.org[a]) /\ s.org[a].source = "declined"
     /\ ts > s.org[a].ts
  THEN [s EXCEPT !.org[a].lifted = TRUE] ELSE s

CaptureConsentOnly(s, answer) ==  \* Mutant: a consent lifts nothing.
  IF answer.granted THEN [s EXCEPT !.consent[answer.addr] = answer.ts]
  ELSE SuppressOrg(s, answer.addr, "declined", answer.ts)

CaptureConsent(s, answer) ==
  IF answer.granted
  THEN LiftDecline([s EXCEPT !.consent[answer.addr] = answer.ts], answer.addr, answer.ts)
  ELSE SuppressOrg(s, answer.addr, "declined", answer.ts)

\* Each store is written whole; the suppression file holds both kinds of mark.
Marks(s) == <<s.global, s.org>>
Persist(new) ==
  /\ mem' = new
  /\ disk' = [global |-> IF Marks(new) # Marks(mem) THEN new.global ELSE disk.global,
              org |-> IF Marks(new) # Marks(mem) THEN new.org ELSE disk.org,
              consent |-> IF new.consent # mem.consent THEN new.consent ELSE disk.consent,
              list |-> IF new.list # mem.list THEN new.list ELSE disk.list]

-----------------------------------------------------------------------------
(* Buyers and organisers. *)

Now == Cardinality(said)

\* A buyer pays and answers; the webhook that tells the server comes later.
AnswerAtCheckout(a, granted) ==
  /\ Now < Decisions
  /\ said' = said \union {[addr |-> a, ts |-> Now + 1, granted |-> granted]}
  /\ UNCHANGED <<stores, server, captured, ordered, objections, erasing>>

Later(answer) == {x \in captured : x.addr = answer.addr /\ x.ts > answer.ts}

Capture(answer) ==
  /\ up /\ answer \in said \ captured
  /\ Persist(CaptureConsent(mem, answer))
  /\ captured' = captured \union {answer}
  /\ ordered' = IF Later(answer) = {} THEN ordered ELSE ordered \ {answer.addr}
  /\ UNCHANGED <<server, said, objections, erasing>>

Object(a, new) ==
  /\ up /\ Persist(new)
  /\ objected' = objected \union {a}
  /\ swallowed' = IF a \in new.global \/ new.org[a].source # "declined"
                  THEN swallowed \ {a} ELSE swallowed \union {a}
  /\ UNCHANGED <<server, answers, erasing>>

Unsubscribe(a) == Object(a, SuppressOrg(mem, a, "unsub", Now))
UnsubscribeAll(a) == Object(a, SuppressGlobal(SuppressOrg(mem, a, "unsub", Now), a))
BounceOrComplaint(a) == Object(a, SuppressGlobal(mem, a))
SuppressByHand(a) == Object(a, SuppressOrg(mem, a, "manual", Now))

\* The organiser replaces the whole list, suppressed addresses included.
PutList(L) ==
  /\ up /\ Persist([mem EXCEPT !.list = L])
  /\ UNCHANGED <<server, answers, objections, erasing>>

-----------------------------------------------------------------------------
(* The server's restarts and the script. *)

Stop ==
  /\ up /\ restarts < MaxRestarts
  /\ up' = FALSE /\ restarts' = restarts + 1
  /\ UNCHANGED <<stores, answers, objections, erasing>>

Boot ==
  /\ ~up /\ (LiveScript \/ script.step = "idle")
  /\ up' = TRUE /\ mem' = disk
  /\ UNCHANGED <<disk, restarts, answers, objections, erasing>>

\* The report, printed first, loads every store.
ScriptLoad(a) ==
  /\ script.step = "idle" /\ erasures < MaxErasures /\ (LiveScript \/ ~up)
  /\ script' = [step |-> "loaded", subject |-> a, copy |-> disk]
  /\ erasures' = erasures + 1
  /\ UNCHANGED <<stores, server, answers, objections>>

ScriptBarsNobody ==  \* Mutant: the mark is left to a later step.
  /\ script.step = "loaded" /\ script' = [script EXCEPT !.step = "barred"]
  /\ UNCHANGED <<stores, server, answers, objections, erasures>>

ScriptBar ==
  /\ script.step = "loaded"
  /\ LET s == SuppressGlobal(script.copy, script.subject)
     IN  /\ script' = [script EXCEPT !.step = "barred", !.copy = s]
         /\ disk' = IF s = script.copy THEN disk
                    ELSE [disk EXCEPT !.global = s.global, !.org = s.org]
  /\ UNCHANGED <<mem, server, answers, objections, erasures>>

ScriptForget ==
  /\ script.step = "barred"
  /\ LET s == [script.copy EXCEPT !.consent[script.subject] = 0]
     IN  /\ script' = [script EXCEPT !.step = "forgot", !.copy = s]
         /\ disk' = IF s = script.copy THEN disk ELSE [disk EXCEPT !.consent = s.consent]
  /\ UNCHANGED <<mem, server, answers, objections, erasures>>

ScriptUnlist ==
  /\ script.step = "forgot"
  /\ LET s == [script.copy EXCEPT !.list = @ \ {script.subject}]
     IN  disk' = IF s = script.copy THEN disk ELSE [disk EXCEPT !.list = s.list]
  /\ objected' = objected \union {script.subject}
  /\ swallowed' = swallowed \ {script.subject}
  /\ script' = Idle
  /\ UNCHANGED <<mem, server, answers, erasures>>

ScriptDies ==
  /\ script.step # "idle"
  /\ script' = Idle
  /\ UNCHANGED <<stores, server, answers, objections, erasures>>

RightsNext ==
  \/ \E a \in Addrs, g \in BOOLEAN : AnswerAtCheckout(a, g)
  \/ \E answer \in said : Capture(answer)
  \/ \E a \in Addrs : \/ Unsubscribe(a) \/ UnsubscribeAll(a) \/ BounceOrComplaint(a)
                      \/ SuppressByHand(a) \/ ScriptLoad(a)
  \/ \E L \in SUBSET Addrs : PutList(L)
  \/ Stop \/ Boot
  \/ ScriptBar \/ ScriptForget \/ ScriptUnlist \/ ScriptDies

RightsSpec == RightsInit /\ [][RightsNext]_vars
-----------------------------------------------------------------------------
\* suppression-store.ts: an unsubscribe outranks a later checkbox, and is never
\* lifted by one.
UnsubscribeHolds == up => \A a \in objected : ~Mailable(mem, a)

\* Nobody whose objection was acknowledged, or whose erasure was reported done,
\* can be mailed again: not after a later consent, a new upload of the list, a
\* restart, or an erasure of somebody else that died half-way (unless the
\* objection found the mark of a refusal in its place).
ObjectionHolds == up => \A a \in objected \ swallowed : ~Mailable(mem, a)

\* The last answer of a buyer who never objected decides, when the webhooks
\* were taken in the order of the payments: a grant undoes the refusals before
\* it, a refusal the grants.
LatestChoiceWins ==
  up => \A a \in ordered \ objected :
    \A x \in captured :
      /\ x.addr = a /\ Later(x) = {} /\ a \notin mem.global
      => x.granted = ~Suppressed(mem, a)

\* No consent record is gone from the disk before the mark that bars the
\* address is there, wherever the script dies.
BarredBeforeErased ==
  \A a \in Addrs : (\E x \in captured : x.addr = a /\ x.granted) /\ disk.consent[a] = 0
                   => a \in disk.global

\* suppression-store.ts: an older consent cannot undo a newer refusal.
NewerRefusalHolds ==
  up => \A x \in captured : ~x.granted /\ Later(x) = {} => Suppressed(mem, x.addr)
=============================================================================
