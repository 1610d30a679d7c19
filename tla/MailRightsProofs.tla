-------------------------- MODULE MailRightsProofs --------------------------
(***************************************************************************)
(* An erasure script that is never run beside the server keeps every       *)
(* objection, never erases a consent before it bars the address, and an    *)
(* addressee's last answer decides, for any number of addressees, answers, *)
(* restarts and runs of the script.                                        *)
(*                                                                         *)
(* A message goes out once, an incident has one row, and a lost ticket     *)
(* keeps its alarm, for any messages, envelopes, caps and crashes.         *)
(***************************************************************************)
EXTENDS MailRights, MailLedger, FiniteSetTheorems, SequenceTheorems, TLAPS

Barred(s, a) == a \in s.global \/ (Active(s.org[a]) /\ s.org[a].source # "declined")

\* While the server runs its copy is the disk's; while the script runs the
\* server does not, and the script's copy is the disk's.
OneWriter ==
  /\ up => mem = disk
  /\ script.step # "idle" => ~up /\ script.copy = disk /\ script.subject \in Addrs
  /\ script.step \in {"barred", "forgot"} => script.subject \in disk.global
ObjectedIsBarred == \A a \in objected \ swallowed : Barred(disk, a)
ErasedIsBarred ==
  \A x \in captured : x.granted => disk.consent[x.addr] # 0 \/ x.addr \in disk.global
FewSaid == IsFiniteSet(said) /\ Now \in 0..Decisions
RInv == RightsTypeOK /\ FewSaid /\ OneWriter /\ ObjectedIsBarred /\ ErasedIsBarred
-----------------------------------------------------------------------------
\* A whole rewrite of the stores by the server leaves the disk at its copy.
LEMMA PersistWrites ==
  ASSUME NEW new, new \in Stores, mem = disk, disk \in Stores, Persist(new)
  PROVE  mem' = new /\ disk' = new
<1>1. mem' = new /\ mem \in Stores
  BY DEF Persist
<1>2. disk' = [global |-> new.global, org |-> new.org, consent |-> new.consent, list |-> new.list]
  <2>1. Marks(new) = Marks(mem) => new.global = disk.global /\ new.org = disk.org
    BY DEF Marks
  <2> QED BY <2>1 DEF Persist
<1>3. new = [global |-> new.global, org |-> new.org, consent |-> new.consent, list |-> new.list]
  BY DEF Stores
<1> QED BY <1>1, <1>2, <1>3

\* A mark never weakens a bar, and an objection bars unless a refusal's mark
\* was in its place.
LEMMA SuppressOrgBars ==
  ASSUME NEW s \in Stores, NEW a \in Addrs, NEW ts \in 0..Decisions,
         NEW source \in {"declined", "unsub", "manual"}
  PROVE  LET n == SuppressOrg(s, a, source, ts)
         IN  /\ n \in Stores /\ n.global = s.global /\ n.consent = s.consent /\ n.list = s.list
             /\ \A b \in Addrs : Barred(s, b) => Barred(n, b)
             /\ n.org[a].source # "declined" => Barred(n, a)
<1> DEFINE n == SuppressOrg(s, a, source, ts)
           mark == [ts |-> ts, source |-> source, lifted |-> FALSE]
<1>1. mark \in OrgMark /\ mark # NoMark
  <2>1. mark \in OrgMark
    BY DEF OrgMark
  <2> QED BY <2>1, NoMarkAssumption
<1>2. CASE Active(s.org[a])
  BY <1>2 DEF SuppressOrg, Barred, Active, Stores
<1>3. CASE ~Active(s.org[a])
  <2>1. n = [s EXCEPT !.org = [s.org EXCEPT ![a] = mark]]
    BY <1>3 DEF SuppressOrg
  <2>2. n \in Stores /\ n.global = s.global /\ n.consent = s.consent /\ n.list = s.list
    <3>1. s.org \in [Addrs -> OrgMark \union {NoMark}]
      BY DEF Stores
    <3> HIDE DEF n, mark
    <3>2. [s.org EXCEPT ![a] = mark] \in [Addrs -> OrgMark \union {NoMark}]
      BY <1>1, <3>1
    <3> QED
      BY <2>1, <3>2 DEF Stores
  <2>3. n.org = [s.org EXCEPT ![a] = mark]
    BY <2>1 DEF Stores
  <2>4. n.org[a] = mark /\ \A b \in Addrs : b # a => n.org[b] = s.org[b]
    BY <2>3 DEF Stores
  <2> HIDE DEF n, mark
  <2>5. mark.lifted = FALSE
    BY DEF mark
  <2>6. \A b \in Addrs : Barred(s, b) => Barred(n, b)
    BY <1>3, <2>2, <2>4 DEF Barred
  <2>7. n.org[a].source # "declined" => Barred(n, a)
    BY <2>4, <2>5, <1>1 DEF Barred, Active
  <2> QED BY <2>2, <2>6, <2>7 DEF n
<1> QED BY <1>2, <1>3

LEMMA SuppressGlobalBars ==
  ASSUME NEW s \in Stores, NEW a \in Addrs
  PROVE  LET n == SuppressGlobal(s, a)
         IN  /\ n \in Stores /\ n.org = s.org /\ n.consent = s.consent /\ n.list = s.list
             /\ n.global = s.global \union {a}
             /\ \A b \in Addrs : Barred(s, b) => Barred(n, b)
             /\ Barred(n, a)
BY DEF SuppressGlobal, Stores, Barred

\* A consent lifts a refusal only.
LEMMA LiftKeepsBars ==
  ASSUME NEW s \in Stores, NEW a \in Addrs, NEW ts \in 0..Decisions
  PROVE  LET n == LiftDecline(s, a, ts)
         IN  /\ n \in Stores /\ n.global = s.global /\ n.consent = s.consent /\ n.list = s.list
             /\ \A b \in Addrs : Barred(s, b) => Barred(n, b)
<1> DEFINE n == LiftDecline(s, a, ts)
<1>1. CASE Active(s.org[a]) /\ s.org[a].source = "declined" /\ ts > s.org[a].ts
  <2>1. s.org[a] \in OrgMark
    BY <1>1 DEF Active, Stores
  <2>2. n = [s EXCEPT !.org = [s.org EXCEPT ![a] = [s.org[a] EXCEPT !.lifted = TRUE]]]
    BY <1>1 DEF LiftDecline
  <2>3. [s.org[a] EXCEPT !.lifted = TRUE] \in OrgMark
    BY <2>1 DEF OrgMark
  <2>4. n \in Stores /\ n.global = s.global /\ n.consent = s.consent /\ n.list = s.list
    BY <2>2, <2>3 DEF Stores
  <2>5. \A b \in Addrs : b # a => n.org[b] = s.org[b]
    BY <2>2 DEF Stores
  <2>6. \A b \in Addrs : Barred(s, b) => Barred(n, b)
    BY <1>1, <2>4, <2>5 DEF Barred
  <2> QED BY <2>4, <2>6
<1>2. CASE ~(Active(s.org[a]) /\ s.org[a].source = "declined" /\ ts > s.org[a].ts)
  <2>1. n = s
    BY <1>2 DEF LiftDecline
  <2> QED BY <2>1
<1> QED BY <1>1, <1>2

\* Capturing an answer keeps every bar, and leaves evidence of a grant.
LEMMA CaptureKeepsBars ==
  ASSUME NEW s \in Stores, NEW x \in Answer
  PROVE  LET n == CaptureConsent(s, x)
         IN  /\ n \in Stores /\ n.global = s.global
             /\ \A b \in Addrs : Barred(s, b) => Barred(n, b)
             /\ \A b \in Addrs : s.consent[b] # 0 => n.consent[b] # 0
             /\ x.granted => n.consent[x.addr] # 0
<1> DEFINE t == [s EXCEPT !.consent = [s.consent EXCEPT ![x.addr] = x.ts]]
<1>1. x.addr \in Addrs /\ x.ts \in 1..Decisions /\ x.ts \in 0..Decisions /\ x.ts # 0
  BY RightsAssumption DEF Answer, Times
<1>2. CASE x.granted
  <2>1. CaptureConsent(s, x) = LiftDecline(t, x.addr, x.ts)
    BY <1>2 DEF CaptureConsent
  <2>2. /\ t \in Stores /\ t.global = s.global /\ t.org = s.org
        /\ t.consent = [s.consent EXCEPT ![x.addr] = x.ts]
    BY <1>1 DEF Stores
  <2>3. \A b \in Addrs : Barred(s, b) => Barred(t, b)
    BY <2>2 DEF Barred
  <2>4. \A b \in Addrs : s.consent[b] # 0 => t.consent[b] # 0
    BY <2>2, <1>1 DEF Stores
  <2>5. t.consent[x.addr] # 0
    BY <2>2, <1>1 DEF Stores
  <2> DEFINE n == LiftDecline(t, x.addr, x.ts)
  <2> HIDE DEF t
  <2>6. /\ n \in Stores /\ n.global = t.global /\ n.consent = t.consent
        /\ \A b \in Addrs : Barred(t, b) => Barred(n, b)
    BY <2>2, <1>1, LiftKeepsBars
  <2> HIDE DEF n
  <2>7. CaptureConsent(s, x) = n
    BY <2>1 DEF n
  <2> QED BY <2>2, <2>3, <2>4, <2>5, <2>6, <2>7
<1>3. CASE ~x.granted
  <2>1. CaptureConsent(s, x) = SuppressOrg(s, x.addr, "declined", x.ts)
    BY <1>3 DEF CaptureConsent
  <2> DEFINE n == SuppressOrg(s, x.addr, "declined", x.ts)
  <2>2. /\ n \in Stores /\ n.global = s.global /\ n.consent = s.consent
        /\ \A b \in Addrs : Barred(s, b) => Barred(n, b)
    BY <1>1, SuppressOrgBars
  <2> HIDE DEF n
  <2>3. CaptureConsent(s, x) = n
    BY <2>1 DEF n
  <2> QED BY <2>2, <2>3, <1>3
<1> QED BY <1>2, <1>3

-----------------------------------------------------------------------------
LEMMA InitRInv == RightsInit => RInv
<1> SUFFICES ASSUME RightsInit PROVE RInv
  OBVIOUS
<1>1. Empty \in Stores
  BY RightsAssumption DEF Empty, Stores
<1>2. Idle \in [step: {"idle", "loaded", "barred", "forgot"},
                subject: Addrs \union {NoAddr}, copy: Stores]
  BY <1>1 DEF Idle
<1>3. Idle.step = "idle"
  BY DEF Idle
<1>4. RightsTypeOK
  BY <1>1, <1>2, RightsAssumption DEF RightsInit, RightsTypeOK
<1>5. OneWriter
  BY <1>3 DEF RightsInit, OneWriter
<1>6. ObjectedIsBarred /\ ErasedIsBarred
  BY DEF RightsInit, ObjectedIsBarred, ErasedIsBarred
<1>7. FewSaid
  BY FS_EmptySet, RightsAssumption DEF RightsInit, FewSaid, Now
<1> QED BY <1>4, <1>5, <1>6, <1>7 DEF RInv

\* A write of the server's that keeps every bar and the evidence of consent.
LEMMA ServerWrite ==
  ASSUME RInv, up, NEW new, new \in Stores, Persist(new),
         \A b \in Addrs : Barred(disk, b) => Barred(new, b),
         \A b \in Addrs : disk.consent[b] # 0 \/ b \in disk.global
                          => new.consent[b] # 0 \/ b \in new.global,
         UNCHANGED <<up, script>>
  PROVE  /\ mem' = new /\ disk' = new
         /\ mem' \in Stores /\ disk' \in Stores
         /\ OneWriter'
         /\ \A b \in Addrs : Barred(disk, b) => Barred(disk', b)
<1>1. mem = disk /\ disk \in Stores
  BY DEF RInv, OneWriter, RightsTypeOK
<1>2. mem' = new /\ disk' = new
  BY <1>1, PersistWrites
<1>3. script.step = "idle"
  BY DEF RInv, OneWriter, RightsTypeOK
<1> QED BY <1>2, <1>3 DEF OneWriter

LEMMA ObjectKeeps ==
  ASSUME RInv, NEW a \in Addrs, NEW new, new \in Stores, Object(a, new),
         new.consent = mem.consent, \A b \in mem.global : b \in new.global,
         \A b \in Addrs : Barred(mem, b) => Barred(new, b),
         a \in new.global \/ new.org[a].source # "declined" => Barred(new, a)
  PROVE  RInv'
<1>1. /\ up /\ Persist(new) /\ objected' = objected \union {a}
      /\ swallowed' = (IF a \in new.global \/ new.org[a].source # "declined"
                       THEN swallowed \ {a} ELSE swallowed \union {a})
      /\ UNCHANGED <<server, answers, erasing>>
  BY DEF Object
<1>2. mem = disk
  BY <1>1 DEF RInv, OneWriter
<1>3. UNCHANGED <<up, restarts, said, captured, ordered, script, erasures>>
  BY <1>1 DEF server, answers, erasing
<1>4. /\ mem' = new /\ disk' = new /\ OneWriter'
      /\ mem' \in Stores /\ disk' \in Stores
  BY <1>1, <1>2, <1>3, ServerWrite
<1>5. RightsTypeOK'
  BY <1>1, <1>3, <1>4 DEF RInv, RightsTypeOK
<1>6. ObjectedIsBarred'
  <2> SUFFICES ASSUME NEW b \in objected' \ swallowed' PROVE Barred(disk', b)
    BY DEF ObjectedIsBarred
  <2>1. objected \subseteq Addrs /\ b \in Addrs
    BY <1>1 DEF RInv, RightsTypeOK
  <2>2. CASE b = a
    BY <2>2, <1>1, <1>4
  <2>3. CASE b # a
    <3>1. b \in objected \ swallowed
      BY <2>3, <1>1
    <3>2. Barred(mem, b)
      BY <3>1, <1>2 DEF RInv, ObjectedIsBarred
    <3> QED BY <3>2, <2>1, <1>4
  <2> QED BY <2>2, <2>3
<1>7. ErasedIsBarred' /\ FewSaid'
  BY <1>2, <1>3, <1>4 DEF RInv, ErasedIsBarred, FewSaid, Now
<1> QED BY <1>4, <1>5, <1>6, <1>7 DEF RInv

-----------------------------------------------------------------------------
LEMMA AnswerKeeps ==
  ASSUME RInv, NEW a \in Addrs, NEW g \in BOOLEAN, AnswerAtCheckout(a, g)
  PROVE  RInv'
<1> DEFINE x == [addr |-> a, ts |-> Now + 1, granted |-> g]
<1>1. /\ Now < Decisions /\ said' = said \union {x} /\ captured' = captured
      /\ UNCHANGED <<mem, disk, up, restarts, ordered, objected, swallowed, script, erasures>>
  BY DEF AnswerAtCheckout, stores, server, objections, erasing
<1>2. IsFiniteSet(said) /\ Now \in 0..Decisions
  BY DEF RInv, FewSaid
<1>3. x \in Answer
  BY <1>1, <1>2, RightsAssumption DEF Answer, Times
<1> HIDE DEF x
<1>4. RightsTypeOK'
  BY <1>1, <1>3 DEF RInv, RightsTypeOK
<1>5. OneWriter' /\ ObjectedIsBarred' /\ ErasedIsBarred'
  BY <1>1 DEF RInv, OneWriter, ObjectedIsBarred, ErasedIsBarred
<1>6. FewSaid'
  <2>1. /\ IsFiniteSet(said \union {x})
        /\ \/ Cardinality(said \union {x}) = Cardinality(said)
           \/ Cardinality(said \union {x}) = Cardinality(said) + 1
    BY <1>2, FS_AddElement
  <2>2. Now' = Cardinality(said \union {x})
    BY <1>1 DEF Now
  <2> QED BY <1>1, <1>2, <2>1, <2>2, RightsAssumption DEF FewSaid, Now
<1> QED BY <1>4, <1>5, <1>6 DEF RInv

LEMMA CaptureKeeps ==
  ASSUME RInv, NEW x \in said, Capture(x)
  PROVE  RInv'
<1> DEFINE new == CaptureConsent(mem, x)
<1>1. /\ up /\ Persist(new) /\ captured' = captured \union {x}
      /\ ordered' = (IF Later(x) = {} THEN ordered ELSE ordered \ {x.addr})
      /\ UNCHANGED <<up, restarts, said, objected, swallowed, script, erasures>>
  BY DEF Capture, server, objections, erasing
<1>2. mem = disk /\ disk \in Stores /\ x \in Answer /\ captured \subseteq Answer
  BY <1>1 DEF RInv, OneWriter, RightsTypeOK
<1>3. /\ new \in Stores /\ new.global = disk.global
      /\ \A b \in Addrs : Barred(disk, b) => Barred(new, b)
      /\ \A b \in Addrs : disk.consent[b] # 0 => new.consent[b] # 0
      /\ x.granted => new.consent[x.addr] # 0
  BY <1>2, CaptureKeepsBars
<1> HIDE DEF new
<1>4. /\ mem' = new /\ disk' = new /\ OneWriter'
      /\ mem' \in Stores /\ disk' \in Stores
  BY <1>1, <1>3, ServerWrite
<1>5. RightsTypeOK'
  BY <1>1, <1>4 DEF RInv, RightsTypeOK
<1>6. ObjectedIsBarred'
  <2> SUFFICES ASSUME NEW b \in objected \ swallowed PROVE Barred(new, b)
    BY <1>1, <1>4 DEF ObjectedIsBarred
  <2>1. b \in Addrs /\ Barred(disk, b)
    BY DEF RInv, RightsTypeOK, ObjectedIsBarred
  <2> QED BY <2>1, <1>3
<1>7. ErasedIsBarred'
  <2> SUFFICES ASSUME NEW y \in captured', y.granted
               PROVE  new.consent[y.addr] # 0 \/ y.addr \in new.global
    BY <1>4 DEF ErasedIsBarred
  <2>1. CASE y = x
    BY <2>1, <1>3
  <2>2. CASE y # x
    <3>1. y \in captured /\ y.addr \in Addrs
      BY <2>2, <1>1, <1>2 DEF Answer
    <3> QED BY <3>1, <1>3 DEF RInv, ErasedIsBarred
  <2> QED BY <2>1, <2>2
<1>8. FewSaid'
  BY <1>1 DEF RInv, FewSaid, Now
<1> QED BY <1>4, <1>5, <1>6, <1>7, <1>8 DEF RInv

LEMMA PutListKeeps ==
  ASSUME RInv, NEW L \in SUBSET Addrs, PutList(L)
  PROVE  RInv'
<1> DEFINE new == [mem EXCEPT !.list = L]
<1>1. /\ up /\ Persist(new)
      /\ UNCHANGED <<up, restarts, said, captured, ordered, objected, swallowed,
                     script, erasures>>
  BY DEF PutList, server, answers, objections, erasing
<1>2. mem = disk /\ disk \in Stores
  BY <1>1 DEF RInv, OneWriter, RightsTypeOK
<1>3. /\ new \in Stores /\ new.global = disk.global /\ new.consent = disk.consent
      /\ new.org = disk.org
  BY <1>2 DEF Stores
<1> HIDE DEF new
<1>4. \A b \in Addrs : Barred(disk, b) => Barred(new, b)
  BY <1>3 DEF Barred
<1>5. /\ mem' = new /\ disk' = new /\ OneWriter'
      /\ mem' \in Stores /\ disk' \in Stores
  BY <1>1, <1>3, <1>4, ServerWrite
<1>6. RightsTypeOK'
  BY <1>1, <1>5 DEF RInv, RightsTypeOK
<1>7. ObjectedIsBarred'
  <2>1. objected \subseteq Addrs
    BY DEF RInv, RightsTypeOK
  <2> QED BY <1>1, <1>4, <1>5, <2>1 DEF RInv, ObjectedIsBarred
<1>8. ErasedIsBarred' /\ FewSaid'
  BY <1>1, <1>3, <1>5 DEF RInv, ErasedIsBarred, FewSaid, Now
<1> QED BY <1>5, <1>6, <1>7, <1>8 DEF RInv

LEMMA RestartKeeps ==
  ASSUME RInv, LiveScript = FALSE, Stop \/ Boot
  PROVE  RInv'
<1>1. CASE Stop
  <2>1. /\ up /\ up' = FALSE /\ restarts < MaxRestarts /\ restarts' = restarts + 1
        /\ UNCHANGED <<mem, disk, said, captured, ordered, objected, swallowed,
                       script, erasures>>
    BY <1>1 DEF Stop, stores, answers, objections, erasing
  <2>2. RightsTypeOK'
    <3>1. restarts' \in 0..MaxRestarts
      <4>1. restarts \in 0..MaxRestarts
        BY DEF RInv, RightsTypeOK
      <4> QED BY <2>1, <4>1, RightsAssumption
    <3>2. up' \in BOOLEAN
      BY <2>1
    <3> QED BY <2>1, <3>1, <3>2 DEF RInv, RightsTypeOK
  <2>3. OneWriter' /\ ObjectedIsBarred' /\ ErasedIsBarred' /\ FewSaid'
    BY <2>1 DEF RInv, OneWriter, ObjectedIsBarred, ErasedIsBarred, FewSaid, Now
  <2> QED BY <2>2, <2>3 DEF RInv
<1>2. CASE Boot
  <2>1. /\ script.step = "idle" /\ up' = TRUE /\ mem' = disk
        /\ UNCHANGED <<disk, restarts, said, captured, ordered, objected, swallowed,
                       script, erasures>>
    BY <1>2 DEF Boot, answers, objections, erasing
  <2>2. RightsTypeOK'
    BY <2>1 DEF RInv, RightsTypeOK
  <2>3. OneWriter' /\ ObjectedIsBarred' /\ ErasedIsBarred' /\ FewSaid'
    BY <2>1 DEF RInv, OneWriter, ObjectedIsBarred, ErasedIsBarred, FewSaid, Now
  <2> QED BY <2>2, <2>3 DEF RInv
<1> QED BY <1>1, <1>2

\* What the script's record is made of.
LEMMA ScriptType ==
  ASSUME RInv
  PROVE  /\ script.step \in {"idle", "loaded", "barred", "forgot"}
         /\ script.subject \in Addrs \union {NoAddr} /\ script.copy \in Stores
         /\ script = [step |-> script.step, subject |-> script.subject, copy |-> script.copy]
         /\ disk \in Stores
         /\ script.step # "idle" => ~up /\ script.copy = disk /\ script.subject \in Addrs
BY DEF RInv, RightsTypeOK, OneWriter

LEMMA ScriptLoadKeeps ==
  ASSUME RInv, LiveScript = FALSE, NEW a \in Addrs, ScriptLoad(a)
  PROVE  RInv'
<1>1. /\ script.step = "idle" /\ ~up /\ erasures < MaxErasures /\ erasures' = erasures + 1
      /\ script' = [step |-> "loaded", subject |-> a, copy |-> disk]
      /\ UNCHANGED <<mem, disk, up, restarts, said, captured, ordered, objected, swallowed>>
  BY DEF ScriptLoad, stores, server, answers, objections
<1>2. RightsTypeOK'
  BY <1>1, RightsAssumption DEF RInv, RightsTypeOK
<1>3. OneWriter' /\ ObjectedIsBarred' /\ ErasedIsBarred' /\ FewSaid'
  BY <1>1 DEF RInv, OneWriter, ObjectedIsBarred, ErasedIsBarred, FewSaid, Now
<1> QED BY <1>2, <1>3 DEF RInv

LEMMA ScriptBarKeeps ==
  ASSUME RInv, ScriptBar
  PROVE  RInv'
<1> DEFINE s == SuppressGlobal(script.copy, script.subject)
<1>1. /\ script.step = "loaded"
      /\ script' = [script EXCEPT !.step = "barred", !.copy = s]
      /\ disk' = (IF s = script.copy THEN disk
                  ELSE [disk EXCEPT !.global = s.global, !.org = s.org])
      /\ UNCHANGED <<mem, up, restarts, said, captured, ordered, objected, swallowed, erasures>>
  BY DEF ScriptBar, server, answers, objections
<1>2. /\ ~up /\ script.copy = disk /\ disk \in Stores /\ script.subject \in Addrs
      /\ script = [step |-> script.step, subject |-> script.subject, copy |-> script.copy]
  BY <1>1, ScriptType
<1>3. /\ s \in Stores /\ s.org = disk.org /\ s.consent = disk.consent /\ s.list = disk.list
      /\ s.global = disk.global \union {script.subject}
      /\ \A b \in Addrs : Barred(disk, b) => Barred(s, b)
  BY <1>2, SuppressGlobalBars
<1> HIDE DEF s
<1>4. disk' = s
  <2>1. CASE s = script.copy
    BY <2>1, <1>1, <1>2
  <2>2. CASE s # script.copy
    BY <2>2, <1>1, <1>2, <1>3 DEF Stores
  <2> QED BY <2>1, <2>2
<1>5. script' = [step |-> "barred", subject |-> script.subject, copy |-> s]
  BY <1>1, <1>2
<1>6. RightsTypeOK'
  BY <1>1, <1>2, <1>3, <1>4, <1>5 DEF RInv, RightsTypeOK
<1>7. OneWriter'
  BY <1>1, <1>2, <1>3, <1>4, <1>5 DEF OneWriter
<1>8. ObjectedIsBarred'
  <2>1. objected \subseteq Addrs
    BY DEF RInv, RightsTypeOK
  <2> QED BY <1>1, <1>3, <1>4, <2>1 DEF RInv, ObjectedIsBarred
<1>9. ErasedIsBarred' /\ FewSaid'
  BY <1>1, <1>3, <1>4 DEF RInv, ErasedIsBarred, FewSaid, Now
<1> QED BY <1>6, <1>7, <1>8, <1>9 DEF RInv

\* The evidence goes when the mark that bars its address is on the disk.
LEMMA ScriptForgetKeeps ==
  ASSUME RInv, ScriptForget
  PROVE  RInv'
<1> DEFINE s == [script.copy EXCEPT !.consent[script.subject] = 0]
<1>1. /\ script.step = "barred"
      /\ script' = [script EXCEPT !.step = "forgot", !.copy = s]
      /\ disk' = (IF s = script.copy THEN disk ELSE [disk EXCEPT !.consent = s.consent])
      /\ UNCHANGED <<mem, up, restarts, said, captured, ordered, objected, swallowed, erasures>>
  BY DEF ScriptForget, server, answers, objections
<1>2. /\ ~up /\ script.copy = disk /\ disk \in Stores /\ script.subject \in Addrs
      /\ script = [step |-> script.step, subject |-> script.subject, copy |-> script.copy]
  BY <1>1, ScriptType
<1>3. script.subject \in disk.global
  BY <1>1 DEF RInv, OneWriter
<1>4. /\ s \in Stores /\ s.org = disk.org /\ s.global = disk.global
      /\ s.list = disk.list
      /\ \A b \in Addrs : b # script.subject => s.consent[b] = disk.consent[b]
  BY <1>2, RightsAssumption DEF Stores
<1> HIDE DEF s
<1>5. disk' = s
  <2>1. CASE s = script.copy
    BY <2>1, <1>1, <1>2
  <2>2. CASE s # script.copy
    BY <2>2, <1>1, <1>2, <1>4 DEF Stores
  <2> QED BY <2>1, <2>2
<1>6. script' = [step |-> "forgot", subject |-> script.subject, copy |-> s]
  BY <1>1, <1>2
<1>7. RightsTypeOK'
  BY <1>1, <1>2, <1>4, <1>5, <1>6 DEF RInv, RightsTypeOK
<1>8. OneWriter'
  BY <1>1, <1>2, <1>3, <1>4, <1>5, <1>6 DEF OneWriter
<1>9. ObjectedIsBarred'
  BY <1>1, <1>4, <1>5 DEF RInv, ObjectedIsBarred, Barred
<1>10. ErasedIsBarred'
  <2>1. \A x \in captured : x.addr \in Addrs
    BY DEF RInv, RightsTypeOK, Answer
  <2> QED BY <1>1, <1>3, <1>4, <1>5, <2>1 DEF RInv, ErasedIsBarred
<1>11. FewSaid'
  BY <1>1 DEF RInv, FewSaid, Now
<1> QED BY <1>7, <1>8, <1>9, <1>10, <1>11 DEF RInv

LEMMA ScriptUnlistKeeps ==
  ASSUME RInv, ScriptUnlist
  PROVE  RInv'
<1> DEFINE s == [script.copy EXCEPT !.list = @ \ {script.subject}]
<1>1. /\ script.step = "forgot" /\ script' = Idle
      /\ disk' = (IF s = script.copy THEN disk ELSE [disk EXCEPT !.list = s.list])
      /\ objected' = objected \union {script.subject}
      /\ swallowed' = swallowed \ {script.subject}
      /\ UNCHANGED <<mem, up, restarts, said, captured, ordered, erasures>>
  BY DEF ScriptUnlist, server, answers
<1>2. /\ ~up /\ script.copy = disk /\ disk \in Stores /\ script.subject \in Addrs
  BY <1>1, ScriptType
<1>3. script.subject \in disk.global
  BY <1>1 DEF RInv, OneWriter
<1>4. /\ s \in Stores /\ s.org = disk.org /\ s.global = disk.global
      /\ s.consent = disk.consent
  BY <1>2 DEF Stores
<1> HIDE DEF s
<1>5. disk' = s
  <2>1. CASE s = script.copy
    BY <2>1, <1>1, <1>2
  <2>2. CASE s # script.copy
    BY <2>2, <1>1, <1>2, <1>4 DEF Stores
  <2> QED BY <2>1, <2>2
<1>6. Idle \in [step: {"idle", "loaded", "barred", "forgot"},
                subject: Addrs \union {NoAddr}, copy: Stores] /\ Idle.step = "idle"
  <2>1. Empty \in Stores
    BY RightsAssumption DEF Empty, Stores
  <2> QED BY <2>1 DEF Idle
<1>7. RightsTypeOK'
  BY <1>1, <1>2, <1>4, <1>5, <1>6 DEF RInv, RightsTypeOK
<1>8. OneWriter'
  BY <1>1, <1>2, <1>6 DEF OneWriter
<1>9. ObjectedIsBarred'
  BY <1>1, <1>3, <1>4, <1>5 DEF RInv, ObjectedIsBarred, Barred
<1>10. ErasedIsBarred'
  BY <1>1, <1>4, <1>5 DEF RInv, ErasedIsBarred
<1>11. FewSaid'
  BY <1>1 DEF RInv, FewSaid, Now
<1> QED BY <1>7, <1>8, <1>9, <1>10, <1>11 DEF RInv

LEMMA ScriptDiesKeeps ==
  ASSUME RInv, ScriptDies
  PROVE  RInv'
<1>1. /\ script' = Idle
      /\ UNCHANGED <<mem, disk, up, restarts, said, captured, ordered, objected, swallowed,
                     erasures>>
  BY DEF ScriptDies, stores, server, answers, objections
<1>2. Idle \in [step: {"idle", "loaded", "barred", "forgot"},
                subject: Addrs \union {NoAddr}, copy: Stores] /\ Idle.step = "idle"
  <2>1. Empty \in Stores
    BY RightsAssumption DEF Empty, Stores
  <2> QED BY <2>1 DEF Idle
<1>3. RightsTypeOK'
  BY <1>1, <1>2 DEF RInv, RightsTypeOK
<1>4. OneWriter' /\ ObjectedIsBarred' /\ ErasedIsBarred' /\ FewSaid'
  BY <1>1, <1>2 DEF RInv, OneWriter, ObjectedIsBarred, ErasedIsBarred, FewSaid, Now
<1> QED BY <1>3, <1>4 DEF RInv

\* The four ways to object.
LEMMA ObjectionKeeps ==
  ASSUME RInv, NEW a \in Addrs,
         Unsubscribe(a) \/ UnsubscribeAll(a) \/ BounceOrComplaint(a) \/ SuppressByHand(a)
  PROVE  RInv'
<1> DEFINE org(source) == SuppressOrg(mem, a, source, Now)
           all(s) == SuppressGlobal(s, a)
<1>1. mem \in Stores /\ Now \in 0..Decisions
  BY DEF RInv, RightsTypeOK, FewSaid
<1>2. ASSUME NEW source \in {"unsub", "manual"}
      PROVE  /\ org(source) \in Stores /\ org(source).consent = mem.consent
             /\ org(source).global = mem.global
             /\ \A b \in Addrs : Barred(mem, b) => Barred(org(source), b)
             /\ org(source).org[a].source # "declined" => Barred(org(source), a)
  BY <1>1, SuppressOrgBars
<1>3. ASSUME NEW s \in Stores, s.consent = mem.consent, s.global = mem.global,
             \A b \in Addrs : Barred(mem, b) => Barred(s, b)
      PROVE  /\ all(s) \in Stores /\ all(s).consent = mem.consent
             /\ \A b \in mem.global : b \in all(s).global
             /\ \A b \in Addrs : Barred(mem, b) => Barred(all(s), b)
             /\ Barred(all(s), a)
  BY <1>3, SuppressGlobalBars
<1> HIDE DEF org, all
<1>4. CASE Unsubscribe(a)
  <2> DEFINE new == org("unsub")
  <2>1. Object(a, new)
    BY <1>4 DEF Unsubscribe, org
  <2>2. /\ new \in Stores /\ new.consent = mem.consent /\ new.global = mem.global
        /\ \A b \in Addrs : Barred(mem, b) => Barred(new, b)
        /\ new.org[a].source # "declined" => Barred(new, a)
    BY <1>2
  <2> HIDE DEF new
  <2>3. a \in new.global => Barred(new, a)
    BY DEF Barred
  <2> QED BY <2>1, <2>2, <2>3, ObjectKeeps
<1>5. CASE UnsubscribeAll(a)
  <2> DEFINE new == all(org("unsub"))
  <2>1. Object(a, new)
    BY <1>5 DEF UnsubscribeAll, org, all
  <2>2. /\ org("unsub") \in Stores /\ org("unsub").consent = mem.consent
        /\ org("unsub").global = mem.global
        /\ \A b \in Addrs : Barred(mem, b) => Barred(org("unsub"), b)
    BY <1>2
  <2>3. /\ new \in Stores /\ new.consent = mem.consent
        /\ \A b \in mem.global : b \in new.global
        /\ \A b \in Addrs : Barred(mem, b) => Barred(new, b)
        /\ Barred(new, a)
    BY <2>2, <1>3
  <2> HIDE DEF new
  <2> QED BY <2>1, <2>3, ObjectKeeps
<1>6. CASE BounceOrComplaint(a)
  <2> DEFINE new == all(mem)
  <2>1. Object(a, new)
    BY <1>6 DEF BounceOrComplaint, all
  <2>2. /\ new \in Stores /\ new.consent = mem.consent
        /\ \A b \in mem.global : b \in new.global
        /\ \A b \in Addrs : Barred(mem, b) => Barred(new, b)
        /\ Barred(new, a)
    BY <1>1, <1>3
  <2> HIDE DEF new
  <2> QED BY <2>1, <2>2, ObjectKeeps
<1>7. CASE SuppressByHand(a)
  <2> DEFINE new == org("manual")
  <2>1. Object(a, new)
    BY <1>7 DEF SuppressByHand, org
  <2>2. /\ new \in Stores /\ new.consent = mem.consent /\ new.global = mem.global
        /\ \A b \in Addrs : Barred(mem, b) => Barred(new, b)
        /\ new.org[a].source # "declined" => Barred(new, a)
    BY <1>2
  <2> HIDE DEF new
  <2>3. a \in new.global => Barred(new, a)
    BY DEF Barred
  <2> QED BY <2>1, <2>2, <2>3, ObjectKeeps
<1> QED BY <1>4, <1>5, <1>6, <1>7

-----------------------------------------------------------------------------
LEMMA NextRInv == ASSUME LiveScript = FALSE PROVE RInv /\ [RightsNext]_vars => RInv'
<1> SUFFICES ASSUME RInv, [RightsNext]_vars PROVE RInv'
  OBVIOUS
<1>1. ASSUME NEW a \in Addrs, NEW g \in BOOLEAN, AnswerAtCheckout(a, g) PROVE RInv'
  BY <1>1, AnswerKeeps
<1>2. ASSUME NEW x \in said, Capture(x) PROVE RInv'
  BY <1>2, CaptureKeeps
<1>3. ASSUME NEW a \in Addrs,
             Unsubscribe(a) \/ UnsubscribeAll(a) \/ BounceOrComplaint(a) \/ SuppressByHand(a)
      PROVE  RInv'
  BY <1>3, ObjectionKeeps
<1>4. ASSUME NEW a \in Addrs, ScriptLoad(a) PROVE RInv'
  BY <1>4, ScriptLoadKeeps
<1>5. ASSUME NEW L \in SUBSET Addrs, PutList(L) PROVE RInv'
  BY <1>5, PutListKeeps
<1>6. CASE Stop \/ Boot
  BY <1>6, RestartKeeps
<1>7. CASE ScriptBar \/ ScriptForget \/ ScriptUnlist \/ ScriptDies
  BY <1>7, ScriptBarKeeps, ScriptForgetKeeps, ScriptUnlistKeeps, ScriptDiesKeeps
<1>8. CASE UNCHANGED vars
  <2>1. UNCHANGED <<mem, disk, up, restarts, said, captured, ordered, objected,
                    swallowed, script, erasures>>
    BY <1>8 DEF vars, stores, server, answers, objections, erasing
  <2> QED BY <2>1 DEF RInv, RightsTypeOK, FewSaid, Now, OneWriter, ObjectedIsBarred,
                      ErasedIsBarred
<1> QED BY <1>1, <1>2, <1>3, <1>4, <1>5, <1>6, <1>7, <1>8 DEF RightsNext

\* The types hold in every reachable state.
THEOREM RightsTypes == ASSUME LiveScript = FALSE PROVE RightsSpec => []RightsTypeOK
<1>1. RightsInit => RInv
  BY InitRInv
<1>2. RInv /\ [RightsNext]_vars => RInv'
  BY NextRInv
<1>3. RInv => RightsTypeOK
  BY DEF RInv
<1> QED BY <1>1, <1>2, <1>3, PTL DEF RightsSpec

\* suppression-store.ts, subject-request.ts: nobody whose objection was
\* acknowledged or whose erasure was done is mailed again, whatever is consented,
\* uploaded, restarted or erased after it (with the server down for an erasure).
THEOREM ObjectionsHold == ASSUME LiveScript = FALSE PROVE RightsSpec => []ObjectionHolds
<1>1. RightsInit => RInv
  BY InitRInv
<1>2. RInv /\ [RightsNext]_vars => RInv'
  BY NextRInv
<1>3. RInv => ObjectionHolds
  <2> SUFFICES ASSUME RInv, up, NEW a \in objected \ swallowed PROVE ~Mailable(mem, a)
    BY DEF ObjectionHolds
  <2>1. mem = disk /\ Barred(disk, a)
    BY DEF RInv, OneWriter, ObjectedIsBarred
  <2> QED BY <2>1 DEF Barred, Mailable, Suppressed
<1> QED BY <1>1, <1>2, <1>3, PTL DEF RightsSpec

\* subject-request.ts: the consent of an address leaves the disk only when the
\* mark that bars it is there.
THEOREM BarsComeFirst == ASSUME LiveScript = FALSE PROVE RightsSpec => []BarredBeforeErased
<1>1. RightsInit => RInv
  BY InitRInv
<1>2. RInv /\ [RightsNext]_vars => RInv'
  BY NextRInv
<1>3. RInv => BarredBeforeErased
  BY DEF RInv, ErasedIsBarred, BarredBeforeErased
<1> QED BY <1>1, <1>2, <1>3, PTL DEF RightsSpec
-----------------------------------------------------------------------------
(* The answers. *)

\* Answers are dated apart, and none is dated ahead.
SaidApart ==
  /\ \A x \in said : x.ts <= Now
  /\ \A x, y \in said : x.ts = y.ts => x = y

\* The file's mark on an address whose answers came in order, and who never
\* objected: it is that of a refusal, of no later date than an answer taken, and
\* it is active when the last of them is a refusal.
MarkFollows(a) ==
  /\ Active(disk.org[a]) =>
       disk.org[a].source = "declined" /\ \E x \in captured : x.addr = a /\ disk.org[a].ts <= x.ts
  /\ \A x \in captured : x.addr = a /\ Later(x) = {} => (x.granted <=> ~Active(disk.org[a]))

ChoiceInv == SaidApart /\ \A a \in ordered \ objected : MarkFollows(a)

LEMMA InitChoice == RightsInit => ChoiceInv
<1> SUFFICES ASSUME RightsInit PROVE ChoiceInv
  OBVIOUS
<1>1. SaidApart
  BY DEF RightsInit, SaidApart
<1>2. \A a \in Addrs : ~Active(disk.org[a])
  BY DEF RightsInit, Empty, Active
<1> QED BY <1>1, <1>2 DEF RightsInit, ChoiceInv, MarkFollows

\* A new answer is dated after the others, and changes no mark.
LEMMA AnswerChoice ==
  ASSUME RInv, ChoiceInv, NEW a \in Addrs, NEW g \in BOOLEAN, AnswerAtCheckout(a, g)
  PROVE  ChoiceInv'
<1> DEFINE new == [addr |-> a, ts |-> Now + 1, granted |-> g]
<1>1. /\ said' = said \union {new}
      /\ UNCHANGED <<mem, disk, captured, ordered, objected, swallowed>>
  BY DEF AnswerAtCheckout, stores, objections
<1>2. IsFiniteSet(said) /\ Now \in Nat
  BY RightsAssumption DEF RInv, FewSaid
<1>3. \A x \in said : x.ts \in Nat
  BY RightsAssumption DEF RInv, RightsTypeOK, Answer, Times
<1>4. new \notin said
  <2>1. SUFFICES ASSUME new \in said PROVE FALSE
    OBVIOUS
  <2>2. new.ts = Now + 1 /\ new.ts <= Now
    BY <2>1 DEF ChoiceInv, SaidApart
  <2> QED BY <1>2, <2>2
<1>5. Now' = Now + 1
  BY <1>1, <1>2, <1>4, FS_AddElement DEF Now
<1>6. SaidApart'
  <2>1. \A x \in said : x.ts <= Now
    BY DEF ChoiceInv, SaidApart
  <2>2. new.ts = Now + 1
    OBVIOUS
  <2> HIDE DEF new
  <2>3. \A x \in said' : x.ts <= Now'
    BY <1>1, <1>2, <1>3, <1>5, <2>1, <2>2
  <2>4. \A x, y \in said' : x.ts = y.ts => x = y
    BY <1>1, <1>2, <1>3, <2>1, <2>2 DEF ChoiceInv, SaidApart
  <2> QED BY <2>3, <2>4 DEF SaidApart
<1> QED BY <1>1, <1>6 DEF ChoiceInv, MarkFollows, Later

\* What taking the answer x makes of the mark of its address: a grant leaves none
\* active that is an older refusal's, a refusal leaves one, which is the one there was
\* or its own. Other addresses keep theirs.
LEMMA CaptureMarks ==
  ASSUME NEW s \in Stores, NEW x \in Answer
  PROVE  LET n == CaptureConsent(s, x) IN
         /\ \A b \in Addrs \ {x.addr} : n.org[b] = s.org[b]
         /\ x.granted /\ (Active(s.org[x.addr]) => s.org[x.addr].source = "declined"
                                                   /\ x.ts > s.org[x.addr].ts)
              => ~Active(n.org[x.addr])
         /\ ~x.granted => /\ Active(n.org[x.addr])
                          /\ \/ Active(s.org[x.addr]) /\ n.org[x.addr] = s.org[x.addr]
                             \/ n.org[x.addr].source = "declined" /\ n.org[x.addr].ts = x.ts
<1> DEFINE a == x.addr
<1>0. a \in Addrs /\ x.ts \in 1..Decisions /\ s.org \in [Addrs -> OrgMark \union {NoMark}]
  BY DEF Answer, Times, Stores
<1>1. CASE x.granted
  <2> DEFINE t == [s EXCEPT !.consent = [s.consent EXCEPT ![a] = x.ts]]
  <2>1. CaptureConsent(s, x) = LiftDecline(t, a, x.ts)
    BY <1>1 DEF CaptureConsent
  <2>2. t.org = s.org
    BY DEF Stores
  <2>3. CASE Active(s.org[a]) /\ s.org[a].source = "declined" /\ x.ts > s.org[a].ts
    <3>1. CaptureConsent(s, x) = [t EXCEPT !.org = [s.org EXCEPT ![a] = [s.org[a] EXCEPT !.lifted = TRUE]]]
      BY <2>1, <2>2, <2>3 DEF LiftDecline
    <3>2. CaptureConsent(s, x).org = [s.org EXCEPT ![a] = [s.org[a] EXCEPT !.lifted = TRUE]]
      BY <3>1 DEF Stores
    <3>3. s.org[a] \in OrgMark
      BY <1>0, <2>3 DEF Active
    <3>4. [s.org[a] EXCEPT !.lifted = TRUE].lifted = TRUE
      BY <3>3 DEF OrgMark
    <3> QED BY <1>0, <1>1, <3>2, <3>4 DEF Active
  <2>4. CASE ~(Active(s.org[a]) /\ s.org[a].source = "declined" /\ x.ts > s.org[a].ts)
    <3>1. CaptureConsent(s, x).org = s.org
      BY <2>1, <2>2, <2>4 DEF LiftDecline
    <3> QED BY <1>1, <2>4, <3>1
  <2> QED BY <2>3, <2>4
<1>2. CASE ~x.granted
  <2> DEFINE mark == [ts |-> x.ts, source |-> "declined", lifted |-> FALSE]
  <2>0. mark \in OrgMark /\ mark # NoMark
    <3>1. mark \in OrgMark
      BY <1>0, RightsAssumption DEF OrgMark
    <3> QED BY <3>1, NoMarkAssumption
  <2>1. CASE Active(s.org[a])
    BY <1>2, <2>1 DEF CaptureConsent, SuppressOrg
  <2>2. CASE ~Active(s.org[a])
    <3>1. CaptureConsent(s, x).org = [s.org EXCEPT ![a] = mark]
      BY <1>2, <2>2 DEF CaptureConsent, SuppressOrg, Stores
    <3>2. CaptureConsent(s, x).org[a] = mark
      BY <1>0, <3>1
    <3>3. mark.source = "declined" /\ mark.ts = x.ts /\ mark.lifted = FALSE
      OBVIOUS
    <3> HIDE DEF mark
    <3>4. Active(mark)
      BY <2>0, <3>3 DEF Active
    <3> QED BY <1>0, <1>2, <3>1, <3>2, <3>3, <3>4
  <2> QED BY <2>1, <2>2
<1> QED BY <1>1, <1>2

LEMMA CaptureChoice ==
  ASSUME RInv, ChoiceInv, NEW x \in said, Capture(x)
  PROVE  ChoiceInv'
<1> DEFINE n == CaptureConsent(mem, x)
<1>1. /\ up /\ x \in said \ captured /\ Persist(n) /\ captured' = captured \union {x}
      /\ ordered' = IF Later(x) = {} THEN ordered ELSE ordered \ {x.addr}
      /\ UNCHANGED <<said, objected>>
  BY DEF Capture, objections
<1>2. mem = disk /\ mem \in Stores /\ x \in Answer /\ captured \subseteq Answer /\ captured \subseteq said
      /\ ordered \subseteq Addrs
  BY <1>1 DEF RInv, OneWriter, RightsTypeOK
<1>3. disk' = n
  <2>1. n \in Stores
    BY <1>2, CaptureKeepsBars
  <2> QED BY <1>1, <1>2, <2>1, PersistWrites
<1>4. /\ \A b \in Addrs \ {x.addr} : n.org[b] = mem.org[b]
      /\ x.granted /\ (Active(mem.org[x.addr]) => mem.org[x.addr].source = "declined"
                                                 /\ x.ts > mem.org[x.addr].ts)
           => ~Active(n.org[x.addr])
      /\ ~x.granted => /\ Active(n.org[x.addr])
                       /\ \/ Active(mem.org[x.addr]) /\ n.org[x.addr] = mem.org[x.addr]
                          \/ n.org[x.addr].source = "declined" /\ n.org[x.addr].ts = x.ts
  BY <1>2, CaptureMarks
<1> HIDE DEF n
<1>5. \A y \in said : y.ts \in Nat
  BY DEF RInv, RightsTypeOK, Answer, Times
<1>6. SaidApart'
  BY <1>1 DEF ChoiceInv, SaidApart, Now
<1>7. ASSUME NEW b \in ordered' \ objected'
      PROVE  MarkFollows(b)'
  <2>0. b \in Addrs /\ b \in ordered \ objected /\ MarkFollows(b)
    BY <1>1, <1>2 DEF ChoiceInv
  <2>1. CASE b # x.addr
    <3>1. disk'.org[b] = disk.org[b]
      BY <1>2, <1>3, <1>4, <2>0, <2>1
    <3>2. ASSUME NEW y \in captured', y.addr = b PROVE y \in captured /\ Later(y)' = Later(y)
      BY <1>1, <2>1, <3>2 DEF Later
    <3> QED BY <1>1, <2>0, <3>1, <3>2 DEF MarkFollows
  <2>2. CASE b = x.addr
    <3>1. Later(x) = {}
      BY <1>1, <2>2
    <3>2. \A y \in captured : y.addr = b => y.ts < x.ts
      <4> SUFFICES ASSUME NEW y \in captured, y.addr = b PROVE y.ts < x.ts
        OBVIOUS
      <4>1. ~(y.ts > x.ts) /\ y \in said /\ y # x
        BY <1>1, <1>2, <2>2, <3>1 DEF Later
      <4>2. y.ts # x.ts
        BY <4>1 DEF ChoiceInv, SaidApart
      <4> QED BY <1>5, <4>1, <4>2
    <3>3. \A y \in captured' : y.addr = b /\ Later(y)' = {} => y = x
      BY <1>1, <1>2, <1>5, <2>2, <3>2 DEF Later
    <3>4. Active(mem.org[b]) => mem.org[b].source = "declined" /\ mem.org[b].ts < x.ts
      <4> SUFFICES ASSUME Active(mem.org[b])
                   PROVE  mem.org[b].source = "declined" /\ mem.org[b].ts < x.ts
        OBVIOUS
      <4>1. mem.org[b] \in OrgMark
        BY <1>2, <2>0 DEF Stores, Active
      <4>2. PICK y \in captured : y.addr = b /\ mem.org[b].ts <= y.ts
        BY <1>2, <2>0 DEF MarkFollows
      <4>3. mem.org[b].ts \in Nat /\ y.ts \in Nat /\ x.ts \in Nat /\ y.ts < x.ts
        BY <1>2, <1>5, <3>2, <4>1, <4>2 DEF OrgMark
      <4> QED BY <1>2, <2>0, <4>2, <4>3 DEF MarkFollows
    <3>5. CASE x.granted
      <4>1. ~Active(disk'.org[b])
        <5>1. Active(mem.org[b]) => x.ts > mem.org[b].ts
          BY <3>4
        <5> QED BY <1>3, <1>4, <2>2, <3>4, <3>5, <5>1
      <4> QED BY <3>3, <3>5, <4>1 DEF MarkFollows
    <3>6. CASE ~x.granted
      <4>1. /\ Active(disk'.org[b]) /\ disk'.org[b].source = "declined"
            /\ disk'.org[b].ts <= x.ts
        <5>1. CASE Active(mem.org[b]) /\ n.org[b] = mem.org[b]
          <6>1. mem.org[b] \in OrgMark
            BY <1>2, <2>0, <5>1 DEF Stores, Active
          <6>2. mem.org[b].ts \in Nat /\ x.ts \in Nat
            BY <1>5, <6>1 DEF OrgMark
          <6> QED BY <1>3, <3>4, <5>1, <6>2
        <5>2. CASE Active(n.org[b]) /\ n.org[b].source = "declined" /\ n.org[b].ts = x.ts
          BY <1>3, <1>5, <5>2
        <5> QED BY <1>4, <2>2, <3>6, <5>1, <5>2
      <4>2. x \in captured'
        BY <1>1
      <4> QED BY <2>2, <3>3, <3>6, <4>1, <4>2 DEF MarkFollows
    <3> QED BY <3>5, <3>6
  <2> QED BY <2>1, <2>2
<1> QED BY <1>6, <1>7 DEF ChoiceInv

\* An objection changes the mark of nobody who has not objected.
LEMMA ObjectionChoice ==
  ASSUME RInv, ChoiceInv, NEW a \in Addrs,
         Unsubscribe(a) \/ UnsubscribeAll(a) \/ BounceOrComplaint(a) \/ SuppressByHand(a)
  PROVE  ChoiceInv'
<1>0. mem \in Stores /\ disk \in Stores /\ Now \in 0..Decisions
  BY DEF RInv, RightsTypeOK, FewSaid
<1>1. ASSUME NEW source \in {"unsub", "manual"}
      PROVE  LET n == SuppressOrg(mem, a, source, Now)
             IN  n \in Stores /\ \A b \in Addrs \ {a} : n.org[b] = mem.org[b]
  <2>1. SuppressOrg(mem, a, source, Now) \in Stores
    BY <1>0, SuppressOrgBars
  <2> QED BY <1>0, <2>1 DEF SuppressOrg, Stores
<1>2. PICK n : n \in Stores /\ Object(a, n) /\ \A b \in Addrs \ {a} : n.org[b] = mem.org[b]
  <2>1. CASE Unsubscribe(a)
    BY <1>1, <2>1 DEF Unsubscribe
  <2>2. CASE UnsubscribeAll(a)
    <3> DEFINE u == SuppressOrg(mem, a, "unsub", Now)
    <3>1. u \in Stores /\ \A b \in Addrs \ {a} : u.org[b] = mem.org[b]
      BY <1>1
    <3>2. Object(a, SuppressGlobal(u, a))
      BY <2>2 DEF UnsubscribeAll
    <3> HIDE DEF u
    <3>3. SuppressGlobal(u, a) \in Stores /\ SuppressGlobal(u, a).org = u.org
      BY <3>1, SuppressGlobalBars
    <3> QED BY <3>1, <3>2, <3>3
  <2>3. CASE BounceOrComplaint(a)
    <3>1. SuppressGlobal(mem, a) \in Stores /\ SuppressGlobal(mem, a).org = mem.org
      BY <1>0, SuppressGlobalBars
    <3> QED BY <2>3, <3>1 DEF BounceOrComplaint
  <2>4. CASE SuppressByHand(a)
    BY <1>1, <2>4 DEF SuppressByHand
  <2> QED BY <2>1, <2>2, <2>3, <2>4
<1>3. /\ up /\ Persist(n) /\ objected' = objected \union {a}
      /\ UNCHANGED <<said, captured, ordered>>
  BY <1>2 DEF Object, answers
<1>4. mem = disk /\ disk' = n
  <2>1. mem = disk
    BY <1>3 DEF RInv, OneWriter
  <2> QED BY <1>0, <1>2, <1>3, <2>1, PersistWrites
<1>5. ASSUME NEW b \in ordered' \ objected'
      PROVE  MarkFollows(b)'
  <2>1. b \in Addrs \ {a} /\ b \in ordered \ objected
    BY <1>3 DEF RInv, RightsTypeOK
  <2>2. disk'.org[b] = disk.org[b]
    BY <1>2, <1>4, <2>1
  <2> QED BY <1>3, <2>1, <2>2 DEF ChoiceInv, MarkFollows, Later
<1>6. SaidApart'
  BY <1>3 DEF ChoiceInv, SaidApart, Now
<1> QED BY <1>5, <1>6 DEF ChoiceInv

\* A step that leaves the marks and the answers alone.
LEMMA QuietChoice ==
  ASSUME ChoiceInv, disk'.org = disk.org, UNCHANGED <<said, captured, ordered>>,
         objected \subseteq objected'
  PROVE  ChoiceInv'
BY DEF ChoiceInv, SaidApart, Now, MarkFollows, Later

LEMMA NextChoice ==
  ASSUME LiveScript = FALSE
  PROVE  RInv /\ ChoiceInv /\ [RightsNext]_vars => ChoiceInv'
<1> SUFFICES ASSUME RInv, ChoiceInv, [RightsNext]_vars PROVE ChoiceInv'
  OBVIOUS
<1>0. mem \in Stores /\ disk \in Stores
  BY DEF RInv, RightsTypeOK
<1>1. ASSUME NEW a \in Addrs, NEW g \in BOOLEAN, AnswerAtCheckout(a, g) PROVE ChoiceInv'
  BY <1>1, AnswerChoice
<1>2. ASSUME NEW x \in said, Capture(x) PROVE ChoiceInv'
  BY <1>2, CaptureChoice
<1>3. ASSUME NEW a \in Addrs,
             Unsubscribe(a) \/ UnsubscribeAll(a) \/ BounceOrComplaint(a) \/ SuppressByHand(a)
      PROVE  ChoiceInv'
  BY <1>3, ObjectionChoice
<1>4. ASSUME NEW L \in SUBSET Addrs, PutList(L) PROVE ChoiceInv'
  <2> DEFINE n == [mem EXCEPT !.list = L]
  <2>1. n \in Stores /\ n.org = mem.org
    BY <1>0 DEF Stores
  <2>2. Persist(n) /\ mem = disk /\ UNCHANGED <<said, captured, ordered, objected>>
    BY <1>4 DEF PutList, RInv, OneWriter, answers, objections
  <2> HIDE DEF n
  <2>3. disk' = n
    BY <1>0, <2>1, <2>2, PersistWrites
  <2> QED BY <2>1, <2>2, <2>3, QuietChoice
<1>5. CASE ScriptBar
  <2> DEFINE s == SuppressGlobal(script.copy, script.subject)
  <2>1. /\ script.copy = disk /\ script.subject \in Addrs
        /\ disk' = IF s = script.copy THEN disk
                   ELSE [disk EXCEPT !.global = s.global, !.org = s.org]
        /\ UNCHANGED <<said, captured, ordered, objected>>
    BY <1>5 DEF ScriptBar, RInv, OneWriter, answers, objections
  <2>2. s.org = disk.org
    BY <1>0, <2>1, SuppressGlobalBars
  <2> HIDE DEF s
  <2>3. disk'.org = disk.org
    BY <1>0, <2>1, <2>2 DEF Stores
  <2> QED BY <2>1, <2>3, QuietChoice
<1>6. CASE ScriptForget \/ ScriptUnlist
  <2>1. /\ disk'.org = disk.org /\ UNCHANGED <<said, captured, ordered>>
        /\ objected \subseteq objected'
    BY <1>0, <1>6 DEF ScriptForget, ScriptUnlist, Stores, answers, objections
  <2> QED BY <2>1, QuietChoice
<1>7. CASE \/ Stop \/ Boot \/ ScriptDies \/ UNCHANGED vars
           \/ \E a \in Addrs : ScriptLoad(a)
  <2>1. UNCHANGED <<disk, said, captured, ordered, objected>>
    BY <1>7 DEF Stop, Boot, ScriptDies, ScriptLoad, vars, stores, answers, objections
  <2> QED BY <2>1, QuietChoice
<1> QED BY <1>1, <1>2, <1>3, <1>4, <1>5, <1>6, <1>7 DEF RightsNext

\* consent-capture.ts: the last answer of a buyer who never objected decides whom
\* the organiser may mail, when the webhooks come in the order of the payments: for
\* any number of answers and addressees, through restarts and erasures of others.
THEOREM LastAnswerDecides == ASSUME LiveScript = FALSE PROVE RightsSpec => []LatestChoiceWins
<1>1. RightsInit => RInv /\ ChoiceInv
  BY InitRInv, InitChoice
<1>2. RInv /\ ChoiceInv /\ [RightsNext]_vars => (RInv /\ ChoiceInv)'
  BY NextRInv, NextChoice
<1>3. RInv /\ ChoiceInv => LatestChoiceWins
  <2> SUFFICES ASSUME RInv, ChoiceInv, up, NEW a \in ordered \ objected, NEW x \in captured,
                      x.addr = a, Later(x) = {}, a \notin mem.global
               PROVE  x.granted = ~Suppressed(mem, a)
    BY DEF LatestChoiceWins
  <2>1. mem = disk /\ x.granted \in BOOLEAN
    BY DEF RInv, OneWriter, RightsTypeOK, Answer
  <2>2. x.granted <=> ~Active(disk.org[a])
    BY DEF ChoiceInv, MarkFollows
  <2> QED BY <2>1, <2>2 DEF Suppressed, Active
<1> QED BY <1>1, <1>2, <1>3, PTL DEF RightsSpec
-----------------------------------------------------------------------------
(* The ledger of undelivered mail: positions and what is picked of them,   *)
(* the retries, the rows, then one lemma for each action.                  *)

(* The rank of a position among S: the positions of S are numbered from 1  *)
(* to their count, upwards.                                                *)
LEMMA Ranks ==
  ASSUME NEW n \in Nat, NEW S \in SUBSET (1..n)
  PROVE  /\ Cardinality(S) \in Nat
         /\ \A i \in S : Rank(S, i) \in 1..Cardinality(S)
         /\ \A i, j \in S : Rank(S, i) = Rank(S, j) => i = j
         /\ \A k \in 1..Cardinality(S) : \E i \in S : Rank(S, i) = k
<1> DEFINE Upto(i) == {j \in S : j <= i}
           c == Cardinality(S)
           rank == [i \in S |-> Rank(S, i)]
<1>1. IsFiniteSet(S) /\ c \in Nat
  <2>1. IsFiniteSet(1..n)
    BY FS_Interval
  <2>2. IsFiniteSet(S)
    BY <2>1, FS_Subset
  <2> QED
    BY <2>2, FS_CardinalityType
<1>2. ASSUME NEW i \in S
      PROVE  /\ IsFiniteSet(Upto(i)) /\ i \in Upto(i) /\ Upto(i) \subseteq S
             /\ Rank(S, i) = Cardinality(Upto(i)) /\ Rank(S, i) \in 1..c
  <2>1. i \in Nat /\ Upto(i) \subseteq S /\ i \in Upto(i)
    OBVIOUS
  <2>2. IsFiniteSet(Upto(i)) /\ Cardinality(Upto(i)) <= c
    BY <1>1, <2>1, FS_Subset
  <2>3. Cardinality(Upto(i)) \in Nat /\ Cardinality(Upto(i)) # 0
    BY <2>1, <2>2, FS_CardinalityType, FS_EmptySet
  <2>4. Rank(S, i) = Cardinality(Upto(i))
    BY DEF Rank
  <2> HIDE DEF Upto, c
  <2> QED
    BY <1>1, <2>1, <2>2, <2>3, <2>4
<1>3. ASSUME NEW i \in S, NEW j \in S, i < j
      PROVE  Rank(S, i) # Rank(S, j)
  <2>1. i \in Nat /\ j \in Nat
    OBVIOUS
  <2>2. Upto(i) \subseteq Upto(j) /\ j \in Upto(j) /\ j \notin Upto(i)
    <3>1. \A k \in S : k \in Nat
      OBVIOUS
    <3>2. \A k \in S : k <= i => k <= j
      BY <1>3, <2>1, <3>1
    <3>3. ~(j <= i) /\ j <= j
      BY <1>3, <2>1
    <3> QED
      BY <3>2, <3>3
  <2>3. IsFiniteSet(Upto(j)) /\ Rank(S, i) = Cardinality(Upto(i)) /\ Rank(S, j) = Cardinality(Upto(j))
    BY <1>2
  <2> HIDE DEF Upto
  <2> QED
    BY <2>2, <2>3, FS_Subset
<1>4. \A i, j \in S : Rank(S, i) = Rank(S, j) => i = j
  <2> SUFFICES ASSUME NEW i \in S, NEW j \in S, i # j
               PROVE  Rank(S, i) # Rank(S, j)
    OBVIOUS
  <2>1. i < j \/ j < i
    OBVIOUS
  <2> QED
    BY <1>3, <2>1
<1>5. rank \in Injection(S, 1..c)
  <2>1. rank \in [S -> 1..c]
    BY <1>2
  <2>2. IsInjective(rank)
    BY <1>4 DEF IsInjective
  <2> QED
    BY <2>1, <2>2 DEF Injection
<1>6. rank \in Surjection(S, 1..c)
  <2>1. IsFiniteSet(1..c) /\ Cardinality(1..c) = c
    BY <1>1, FS_Interval
  <2> HIDE DEF rank
  <2> QED
    BY <1>5, <2>1, FS_Injection
<1>7. \A k \in 1..c : \E i \in S : rank[i] = k
  <2> HIDE DEF rank, c
  <2> QED
    BY <1>6 DEF Surjection
<1> QED
  BY <1>1, <1>2, <1>4, <1>7

(* p holds the elements of l at the positions of S, each once: at[k] is    *)
(* where p's k-th came from.                                               *)
PickedBy(at, p, l, S) ==
  /\ \A k \in DOMAIN p : at[k] \in S /\ p[k] = l[at[k]]
  /\ \A k, h \in DOMAIN p : at[k] = at[h] => k = h
  /\ \A i \in S : \E k \in DOMAIN p : at[k] = i

(* What is picked of a sequence are the elements at the chosen positions,  *)
(* each once.                                                              *)
LEMMA PickIs ==
  ASSUME NEW E, NEW l \in Seq(E), NEW S \in SUBSET DOMAIN l
  PROVE  Pick(l, S) \in Seq(E) /\ \E at : PickedBy(at, Pick(l, S), l, S)
<1> DEFINE c == Cardinality(S)
           at == [k \in 1..c |-> CHOOSE i \in S : Rank(S, i) = k]
<1>1. /\ c \in Nat /\ \A i \in S : Rank(S, i) \in 1..c
      /\ \A i, j \in S : Rank(S, i) = Rank(S, j) => i = j
      /\ \A k \in 1..c : \E i \in S : Rank(S, i) = k
  <2>1. Len(l) \in Nat /\ S \in SUBSET (1..Len(l))
    BY LenProperties
  <2> QED
    BY <2>1, Ranks
<1>2. \A k \in 1..c : at[k] \in S /\ Rank(S, at[k]) = k
  BY <1>1
<1>4. Pick(l, S) = [k \in 1..c |-> l[at[k]]]
  BY DEF Pick
<1> HIDE DEF at, c
<1>5. \A k, h \in 1..c : at[k] = at[h] => k = h
  BY <1>2
<1>6. \A i \in S : \E k \in 1..c : at[k] = i
  BY <1>1, <1>2
<1>7. \A k \in 1..c : l[at[k]] \in E
  BY <1>2, LenProperties
<1>8. Pick(l, S) \in Seq(E) /\ DOMAIN Pick(l, S) = 1..c
  BY <1>1, <1>4, <1>7
<1>9. \A k \in 1..c : Pick(l, S)[k] = l[at[k]]
  BY <1>4
<1>10. PickedBy(at, Pick(l, S), l, S)
  BY <1>2, <1>5, <1>6, <1>8, <1>9 DEF PickedBy
<1> QED
  BY <1>8, <1>10

-----------------------------------------------------------------------------
(* The retries that wait, are due or in flight: one for each message, of a *)
(* message that was given up and never taken.                              *)
Alone(q) == \A i, j \in DOMAIN q : q[i].msg = q[j].msg => i = j
Apart(q, r) == \A i \in DOMAIN q, j \in DOMAIN r : q[i].msg # r[j].msg
OneRetryEach ==
  /\ Alone(queue) /\ Alone(due) /\ Apart(queue, due)
  /\ inFlight # NoItem => /\ \A i \in DOMAIN queue : queue[i].msg # inFlight.msg
                          /\ \A i \in DOMAIN due : due[i].msg # inFlight.msg

Retries == ToSet(queue) \union ToSet(due) \union ({inFlight} \ {NoItem})
RetryFits(it) == phase[it.msg] = "abandoned" /\ accepted[it.msg] = 0 /\ it.id < nextId

(* What the provider took, by how far the request came.                    *)
SendFits(m) ==
  /\ accepted[m] <= 1
  /\ phase[m] \in {"new", "sending", "cut"} => accepted[m] = 0

RetriesFit ==
  /\ OneRetryEach
  /\ \A it \in Retries : RetryFits(it)
  /\ \A m \in Msgs : SendFits(m)

(* A row is of a message given up, or of a bounce that was taken; it shares *)
(* its id with the retry of that message alone.                            *)
RowFits(e) ==
  /\ e.id < nextId
  /\ e.origin = "send" => phase[e.msg] = "abandoned" /\ ~e.untagged
  /\ e.origin = "bounce" => <<e.msg, ~e.untagged>> \in consumed
  /\ \A it \in Retries : e.id = it.id => e.msg = it.msg /\ e.origin = "send"

SameIncident(e, f) == e.msg = f.msg /\ e.origin = f.origin /\ e.untagged = f.untagged
Unrepeated(l) == \A i, j \in DOMAIN l : SameIncident(l[i], l[j]) => i = j
RowsFit(l) == Unrepeated(l) /\ \A i \in DOMAIN l : RowFits(l[i])

HasOpen(l, m, o) ==
  \E i \in DOMAIN l : l[i].msg = m /\ l[i].origin = o /\ Protected(l[i])
Owed(m, o) ==
  /\ o = "send" => phase[m] = "abandoned" /\ accepted[m] = 0
  /\ o = "bounce" => <<m, TRUE>> \in consumed
  /\ <<m, o>> \notin handled
Alarm(l) == \A m \in Tickets, o \in {"send", "bounce"} : Owed(m, o) => HasOpen(l, m, o)

MailIInv ==
  /\ MailTypeOK /\ RetriesFit
  /\ RowsFit(ledger) /\ RowsFit(onDisk)
  /\ Alarm(onDisk) /\ (running => Alarm(ledger))

(* The fields of a retry and of a row.                                     *)
LEMMA ItemFields ==
  ASSUME NEW it \in Item
  PROVE  /\ it.id \in Nat /\ it.msg \in Tickets /\ it.msg \in Msgs /\ it # NoItem
         /\ it.attempt \in 0..(Steps - 1)
  BY MailAssumption DEF Item, Msgs

LEMMA EntryFields ==
  ASSUME NEW e \in Entry
  PROVE  /\ e.id \in Nat /\ e.msg \in Msgs /\ e.origin \in {"send", "bounce"}
         /\ e.untagged \in BOOLEAN /\ e.plain \subseteq Addressees
         /\ e.kind \in {"transactional", "marketing"}
  BY DEF Entry

LEMMA RetriesAreItems ==
  ASSUME MailTypeOK
  PROVE  Retries \subseteq Item
<1>1. \A i \in DOMAIN queue : queue[i] \in Item
  BY LenProperties DEF MailTypeOK
<1>2. \A i \in DOMAIN due : due[i] \in Item
  BY LenProperties DEF MailTypeOK
<1> QED
  BY <1>1, <1>2 DEF Retries, ToSet, MailTypeOK

(* The worker's next send and what is left of the pass are what it began   *)
(* with, in order.                                                         *)
LEMMA BeginIs ==
  ASSUME NEW items \in Seq(Item), Begin(items)
  PROVE  /\ due' \in Seq(Item) /\ inFlight' \in Item \union {NoItem}
         /\ inFlight' # NoItem => 1 \in DOMAIN items /\ inFlight' = items[1]
         /\ \A j \in DOMAIN due' : j \in Nat \ {0} /\ j + 1 \in DOMAIN items /\ due'[j] = items[j + 1]
<1>1. CASE items = <<>>
  BY <1>1 DEF Begin
<1>2. CASE items # <<>>
  <2>1. inFlight' = Head(items) /\ due' = Tail(items)
    BY <1>2 DEF Begin
  <2>2. /\ Len(items) \in Nat \ {0} /\ DOMAIN items = 1..Len(items) /\ items[1] \in Item
    BY <1>2, EmptySeq, LenProperties
  <2>3. Head(items) = items[1]
    BY <1>2, <2>2
  <2>4. /\ Tail(items) \in Seq(Item) /\ DOMAIN Tail(items) = 1..(Len(items) - 1)
        /\ \A j \in 1..(Len(items) - 1) : Tail(items)[j] = items[j + 1]
    BY <1>2, <2>2, HeadTailProperties, LenProperties
  <2>5. \A j \in 1..(Len(items) - 1) : j \in Nat \ {0} /\ j + 1 \in 1..Len(items)
    BY <2>2
  <2> QED
    BY <2>1, <2>2, <2>3, <2>4, <2>5
<1> QED
  BY <1>1, <1>2

(* A pass over retries apart from those that wait leaves one for each.     *)
LEMMA BeginKeepsOneEach ==
  ASSUME NEW items \in Seq(Item), Begin(items), Alone(items), Alone(queue'), Apart(queue', items)
  PROVE  OneRetryEach' /\ Retries' \subseteq ToSet(queue') \union ToSet(items)
<1>1. /\ inFlight' # NoItem => 1 \in DOMAIN items /\ inFlight' = items[1]
      /\ \A j \in DOMAIN due' : j \in Nat \ {0} /\ j + 1 \in DOMAIN items /\ due'[j] = items[j + 1]
  BY BeginIs
<1>2. Alone(due')
  <2> SUFFICES ASSUME NEW i \in DOMAIN due', NEW j \in DOMAIN due', due'[i].msg = due'[j].msg
               PROVE  i = j
    BY DEF Alone
  <2>1. i + 1 = j + 1 /\ i \in Nat /\ j \in Nat
    BY <1>1 DEF Alone
  <2> QED
    BY <2>1
<1>3. Apart(queue', due')
  BY <1>1 DEF Apart
<1>4. ASSUME inFlight' # NoItem
      PROVE  /\ \A i \in DOMAIN queue' : queue'[i].msg # inFlight'.msg
             /\ \A i \in DOMAIN due' : due'[i].msg # inFlight'.msg
  <2>1. \A i \in DOMAIN queue' : queue'[i].msg # inFlight'.msg
    BY <1>1, <1>4 DEF Apart
  <2>2. ASSUME NEW i \in DOMAIN due', due'[i].msg = inFlight'.msg PROVE FALSE
    <3>1. i + 1 = 1 /\ i \in Nat \ {0}
      BY <1>1, <1>4, <2>2 DEF Alone
    <3> QED
      BY <3>1
  <2> QED
    BY <2>1, <2>2
<1>5. Retries' \subseteq ToSet(queue') \union ToSet(items)
  BY <1>1 DEF Retries, ToSet
<1> QED
  BY <1>2, <1>3, <1>4, <1>5 DEF OneRetryEach

(* What is picked of retries, one for each message, is so too, and apart   *)
(* from what is picked at other positions.                                 *)
LEMMA PickAlone ==
  ASSUME NEW q \in Seq(Item), Alone(q), NEW S \in SUBSET DOMAIN q
  PROVE  /\ Pick(q, S) \in Seq(Item) /\ Alone(Pick(q, S))
         /\ ToSet(Pick(q, S)) \subseteq ToSet(q)
         /\ \A k \in DOMAIN Pick(q, S) : \E i \in S : Pick(q, S)[k] = q[i]
<1> DEFINE p == Pick(q, S)
<1>1. p \in Seq(Item) /\ \E at : PickedBy(at, p, q, S)
  BY PickIs
<1> HIDE DEF p
<1>a. PICK at : PickedBy(at, p, q, S)
  BY <1>1
<1>2. Alone(p)
  BY <1>a DEF Alone, PickedBy
<1>3. \A k \in DOMAIN p : \E i \in S : p[k] = q[i]
  BY <1>a DEF PickedBy
<1>4. ToSet(p) \subseteq ToSet(q)
  BY <1>3 DEF ToSet
<1> QED
  BY <1>1, <1>2, <1>3, <1>4 DEF p

LEMMA PickApart ==
  ASSUME NEW q \in Seq(Item), Alone(q), NEW S \in SUBSET DOMAIN q, NEW T \in SUBSET DOMAIN q,
         S \intersect T = {}
  PROVE  Apart(Pick(q, S), Pick(q, T))
<1> DEFINE p == Pick(q, S)
           r == Pick(q, T)
<1>1. \A k \in DOMAIN p : \E i \in S : p[k] = q[i]
  BY PickAlone
<1>2. \A k \in DOMAIN r : \E i \in T : r[k] = q[i]
  BY PickAlone
<1> HIDE DEF p, r
<1>3. Apart(p, r)
  BY <1>1, <1>2 DEF Apart, Alone
<1> QED
  BY <1>3 DEF p, r

(* What only grows, as far as the rows depend on it.                       *)
Grows ==
  /\ nextId \in Nat /\ nextId' \in Nat /\ nextId <= nextId'
  /\ consumed \subseteq consumed'
  /\ \A m \in Msgs : phase[m] = "abandoned" => phase'[m] = "abandoned"
  /\ \A it \in Retries' : it.id = nextId \/ \E old \in Retries : old.id = it.id /\ old.msg = it.msg

RetriesHold ==
  /\ queue' \in Seq(Item) /\ due' \in Seq(Item) /\ inFlight' \in Item \union {NoItem}
  /\ RetriesFit' /\ Grows

(* Steps that leave the worker alone.                                      *)
LEMMA RetriesStay ==
  ASSUME MailTypeOK, RetriesFit, UNCHANGED workerVars, \A m \in Msgs : SendFits(m)',
         \A m \in Msgs : phase[m] = "abandoned" => phase'[m] = "abandoned",
         \A m \in Msgs : phase[m] = "abandoned" => accepted'[m] = accepted[m],
         nextId' \in Nat, nextId <= nextId', consumed \subseteq consumed'
  PROVE  RetriesHold
<1>1. Retries' = Retries /\ OneRetryEach'
  BY DEF RetriesFit, OneRetryEach, Alone, Apart, workerVars, Retries, ToSet
<1>2. ASSUME NEW it \in Retries PROVE RetryFits(it)'
  <2>1. it \in Item
    BY RetriesAreItems
  <2>2. it.id \in Nat /\ it.msg \in Msgs /\ RetryFits(it) /\ nextId \in Nat
    BY <2>1, ItemFields DEF RetriesFit, MailTypeOK
  <2> QED
    BY <2>2 DEF RetryFits
<1>3. RetriesFit'
  BY <1>1, <1>2 DEF RetriesFit
<1> QED
  BY <1>1, <1>3 DEF RetriesHold, Grows, MailTypeOK, workerVars

(* Nothing waits after a crash.                                            *)
LEMMA RetriesLost ==
  ASSUME MailTypeOK, RetriesFit, queue' = <<>>, due' = <<>>, inFlight' = NoItem,
         phase' = [m \in Msgs |-> IF phase[m] = "sending" THEN "cut" ELSE phase[m]],
         accepted' = accepted, nextId' = nextId, consumed \subseteq consumed'
  PROVE  RetriesHold
<1>1. Retries' = {} /\ OneRetryEach'
  BY DEF Retries, ToSet, OneRetryEach, Alone, Apart
<1>2. ASSUME NEW m \in Msgs PROVE SendFits(m)'
  BY DEF SendFits, RetriesFit
<1>3. RetriesFit'
  BY <1>1, <1>2 DEF RetriesFit
<1>4. <<>> \in Seq(Item)
  BY EmptySeq
<1> QED
  BY <1>1, <1>3, <1>4 DEF RetriesHold, Grows, MailTypeOK

(* A worker's step: the retries afterwards are some of those before, each  *)
(* of a message that was not taken meanwhile.                              *)
LEMMA WorkerHolds ==
  ASSUME MailTypeOK, RetriesFit, queue' \in Seq(Item), NEW items \in Seq(Item), Begin(items),
         Alone(items), Alone(queue'), Apart(queue', items),
         phase' = phase, nextId' = nextId, consumed' = consumed, \A m \in Msgs : SendFits(m)',
         \A it \in ToSet(queue') \union ToSet(items) :
           /\ accepted'[it.msg] = 0
           /\ \E old \in Retries : old.id = it.id /\ old.msg = it.msg
  PROVE  RetriesHold
<1>1. OneRetryEach' /\ Retries' \subseteq ToSet(queue') \union ToSet(items)
  BY BeginKeepsOneEach
<1>2. due' \in Seq(Item) /\ inFlight' \in Item \union {NoItem}
  BY BeginIs
<1>3. ASSUME NEW it \in Retries' PROVE RetryFits(it)'
  <2>1. PICK old \in Retries : old.id = it.id /\ old.msg = it.msg
    BY <1>1, <1>3
  <2>2. RetryFits(old) /\ accepted'[it.msg] = 0
    BY <1>1, <1>3 DEF RetriesFit
  <2> QED
    BY <2>1, <2>2 DEF RetryFits
<1>4. RetriesFit'
  BY <1>1, <1>3 DEF RetriesFit
<1>5. nextId \in Nat /\ nextId' \in Nat
  BY DEF MailTypeOK
<1> QED
  BY <1>1, <1>2, <1>4, <1>5 DEF RetriesHold, Grows

LEMMA TakeDueHolds ==
  ASSUME MailTypeOK, RetriesFit, TakeDue
  PROVE  RetriesHold
<1>1. PICK S \in SUBSET DOMAIN queue :
        /\ Begin(Pick(queue, {i \in S : queue[i].id \in OpenIds(ledger)}))
        /\ queue' = Pick(queue, DOMAIN queue \ S)
  BY DEF TakeDue
<1> DEFINE T == {i \in S : queue[i].id \in OpenIds(ledger)}
           R == DOMAIN queue \ S
           items == Pick(queue, T)
<1>2. T \in SUBSET DOMAIN queue /\ R \in SUBSET DOMAIN queue /\ R \intersect T = {}
  OBVIOUS
<1>3. queue \in Seq(Item) /\ Alone(queue)
  BY DEF MailTypeOK, RetriesFit, OneRetryEach
<1>4. Begin(items) /\ queue' = Pick(queue, R)
  BY <1>1
<1> HIDE DEF T, R
<1>5. items \in Seq(Item) /\ Alone(items) /\ ToSet(items) \subseteq ToSet(queue)
  BY <1>2, <1>3, PickAlone
<1>6. queue' \in Seq(Item) /\ Alone(queue') /\ ToSet(queue') \subseteq ToSet(queue)
  BY <1>2, <1>3, <1>4, PickAlone
<1>7. Apart(queue', items)
  BY <1>2, <1>3, <1>4, PickApart
<1>8. UNCHANGED <<phase, accepted, consumed, nextId>>
  BY DEF TakeDue, ledgerVars
<1>9. \A m \in Msgs : SendFits(m)'
  BY <1>8 DEF RetriesFit, SendFits
<1> HIDE DEF items
<1>10. \A it \in ToSet(queue') \union ToSet(items) : it \in Retries /\ accepted'[it.msg] = 0
  BY <1>5, <1>6, <1>8 DEF RetriesFit, Retries, RetryFits
<1> QED
  BY <1>4, <1>5, <1>6, <1>7, <1>8, <1>9, <1>10, WorkerHolds

LEMMA RetryOkHolds ==
  ASSUME MailTypeOK, RetriesFit, RetryOk
  PROVE  RetriesHold
<1> DEFINE R == {i \in DOMAIN queue : queue[i].id \notin {inFlight.id}}
<1>1. queue \in Seq(Item) /\ due \in Seq(Item) /\ R \in SUBSET DOMAIN queue
  BY DEF MailTypeOK
<1>2. /\ Alone(queue) /\ Alone(due) /\ Apart(queue, due) /\ inFlight # NoItem
      /\ \A i \in DOMAIN queue : queue[i].msg # inFlight.msg
      /\ \A i \in DOMAIN due : due[i].msg # inFlight.msg
  BY DEF RetriesFit, OneRetryEach, RetryOk
<1>3. inFlight \in Item /\ inFlight.msg \in Msgs /\ inFlight \in Retries
  BY <1>2, ItemFields DEF MailTypeOK, Retries
<1>4. queue' = Pick(queue, R) /\ Begin(due) /\ accepted' = [accepted EXCEPT ![inFlight.msg] = @ + 1]
      /\ phase' = phase /\ nextId' = nextId /\ consumed' = consumed
  BY DEF RetryOk, ForgetRetries
<1> HIDE DEF R
<1>5. /\ queue' \in Seq(Item) /\ Alone(queue') /\ ToSet(queue') \subseteq ToSet(queue)
      /\ \A k \in DOMAIN queue' : \E i \in DOMAIN queue : queue'[k] = queue[i]
  BY <1>1, <1>2, <1>4, PickAlone
<1>6. Apart(queue', due)
  BY <1>2, <1>5 DEF Apart
<1>7. accepted[inFlight.msg] = 0 /\ phase[inFlight.msg] = "abandoned"
  BY <1>3 DEF RetriesFit, RetryFits
<1>8. \A m \in Msgs : SendFits(m)'
  BY <1>3, <1>4, <1>7 DEF RetriesFit, SendFits, MailTypeOK
<1>9. ASSUME NEW it \in ToSet(queue) \union ToSet(due) PROVE it \in Retries /\ accepted'[it.msg] = 0
  <2>1. it \in Retries /\ it.msg # inFlight.msg
    BY <1>2 DEF Retries, ToSet
  <2>2. accepted[it.msg] = 0
    BY <2>1 DEF RetriesFit, RetryFits
  <2>3. it.msg \in Msgs
    BY <2>1, RetriesAreItems, ItemFields
  <2> QED
    BY <1>4, <2>1, <2>2, <2>3 DEF MailTypeOK
<1>10. \A it \in ToSet(queue') \union ToSet(due) : it \in Retries /\ accepted'[it.msg] = 0
  BY <1>5, <1>9
<1> QED
  BY <1>1, <1>2, <1>4, <1>5, <1>6, <1>8, <1>10, WorkerHolds

(* One more retry at the end of the queue, of a message that has none.     *)
LEMMA AppendAlone ==
  ASSUME NEW q \in Seq(Item), Alone(q), NEW it \in Item, \A i \in DOMAIN q : q[i].msg # it.msg
  PROVE  /\ Append(q, it) \in Seq(Item) /\ Alone(Append(q, it))
         /\ \A k \in DOMAIN Append(q, it) :
              Append(q, it)[k] = it \/ \E i \in DOMAIN q : Append(q, it)[k] = q[i]
<1> DEFINE a == Append(q, it)
           n == Len(q)
<1>1. n \in Nat /\ DOMAIN q = 1..n
  BY LenProperties
<1>2. a \in Seq(Item) /\ Len(a) = n + 1 /\ (\A i \in 1..n : a[i] = q[i]) /\ a[n + 1] = it
  BY AppendProperties
<1>3. DOMAIN a = 1..(n + 1)
  BY <1>2, LenProperties
<1> HIDE DEF a, n
<1>4. \A k \in 1..(n + 1) : k \in 1..n \/ k = n + 1
  BY <1>1
<1>5. Alone(a)
  <2> SUFFICES ASSUME NEW i \in DOMAIN a, NEW j \in DOMAIN a, a[i].msg = a[j].msg
               PROVE  i = j
    BY DEF Alone
  <2> QED
    BY <1>1, <1>2, <1>3, <1>4 DEF Alone
<1>6. \A k \in DOMAIN a : a[k] = it \/ \E i \in DOMAIN q : a[k] = q[i]
  BY <1>1, <1>2, <1>3, <1>4
<1> QED
  BY <1>2, <1>5, <1>6 DEF a

LEMMA RetryFailsHolds ==
  ASSUME MailTypeOK, RetriesFit, NEW retryable \in BOOLEAN, RetryFails(retryable)
  PROVE  RetriesHold
<1>1. queue \in Seq(Item) /\ due \in Seq(Item)
  BY DEF MailTypeOK
<1>2. /\ Alone(queue) /\ Alone(due) /\ Apart(queue, due) /\ inFlight # NoItem
      /\ \A i \in DOMAIN queue : queue[i].msg # inFlight.msg
      /\ \A i \in DOMAIN due : due[i].msg # inFlight.msg
  BY DEF RetriesFit, OneRetryEach, RetryFails
<1>3. inFlight \in Item /\ inFlight \in Retries
  BY <1>2 DEF MailTypeOK, Retries
<1>4. Begin(due) /\ UNCHANGED <<phase, accepted, consumed, nextId>>
  BY DEF RetryFails
<1>5. \A m \in Msgs : SendFits(m)'
  BY <1>4 DEF RetriesFit, SendFits
<1>6. \A it \in ToSet(queue) \union ToSet(due) \union {inFlight} : it \in Retries /\ accepted'[it.msg] = 0
  BY <1>3, <1>4 DEF RetriesFit, RetryFits, Retries
<1>7. CASE queue' = queue
  BY <1>1, <1>2, <1>4, <1>5, <1>6, <1>7, WorkerHolds
<1>8. CASE inFlight.attempt + 1 < Steps /\ queue' = Append(queue, [inFlight EXCEPT !.attempt = @ + 1])
  <2>1. PICK it : it = [inFlight EXCEPT !.attempt = @ + 1]
    OBVIOUS
  <2>2. it \in Item /\ it.msg = inFlight.msg /\ it.id = inFlight.id
    <3>1. PICK next : next = inFlight.attempt + 1
      OBVIOUS
    <3>2. next \in 0..(Steps - 1)
      BY <1>3, <1>8, <3>1, MailAssumption DEF Item
    <3>3. it = [inFlight EXCEPT !.attempt = next]
      BY <2>1, <3>1
    <3> QED
      BY <1>3, <3>2, <3>3 DEF Item
  <2>3. /\ queue' \in Seq(Item) /\ Alone(queue')
        /\ \A k \in DOMAIN queue' : queue'[k] = it \/ \E i \in DOMAIN queue : queue'[k] = queue[i]
    <3>1. queue' = Append(queue, it)
      BY <1>8, <2>1
    <3>2. \A i \in DOMAIN queue : queue[i].msg # it.msg
      BY <1>2, <2>2
    <3> QED
      BY <1>1, <1>2, <2>2, <3>1, <3>2, AppendAlone
  <2>4. Apart(queue', due)
    BY <1>2, <2>2, <2>3 DEF Apart
  <2>5. \A x \in ToSet(queue') : x = it \/ x \in ToSet(queue)
    BY <2>3 DEF ToSet
  <2>6. \A x \in ToSet(queue') \union ToSet(due) :
          accepted'[x.msg] = 0 /\ \E old \in Retries : old.id = x.id /\ old.msg = x.msg
    BY <1>3, <1>6, <2>2, <2>5
  <2> QED
    BY <1>1, <1>2, <1>4, <1>5, <2>3, <2>4, <2>6, WorkerHolds
<1> QED
  BY <1>7, <1>8 DEF RetryFails

LEMMA AbandonHolds ==
  ASSUME MailTypeOK, RetriesFit, NEW m \in Msgs, NEW retryable \in BOOLEAN, Abandon(m, retryable)
  PROVE  RetriesHold /\ \A it \in Retries' : it \in Retries \/ it.msg = m
<1>1. /\ phase[m] = "sending" /\ phase' = [phase EXCEPT ![m] = "abandoned"]
      /\ nextId' = nextId + 1 /\ UNCHANGED <<accepted, due, inFlight, consumed>>
      /\ nextId \in Nat /\ phase \in [Msgs -> {"new", "sending", "sent", "abandoned", "cut"}]
  BY DEF Abandon, RecordFailure, MailTypeOK
<1>2. phase'[m] = "abandoned" /\ \A x \in Msgs : x # m => phase'[x] = phase[x]
  BY <1>1
<1>3. \A x \in Msgs : SendFits(x)'
  BY <1>1, <1>2 DEF RetriesFit, SendFits
<1>4. accepted[m] = 0
  BY <1>1 DEF RetriesFit, SendFits
<1>5. CASE queue' = queue
  <2>1. RetriesHold
    BY <1>1, <1>2, <1>3, <1>5, RetriesStay DEF workerVars
  <2>2. Retries' = Retries
    BY <1>1, <1>5 DEF Retries, ToSet
  <2> QED
    BY <2>1, <2>2
<1>6. CASE m \in Tickets /\ queue' = Append(queue, [id |-> nextId, msg |-> m, attempt |-> 0])
  <2>1. PICK new : new = [id |-> nextId, msg |-> m, attempt |-> 0]
    OBVIOUS
  <2>2. new \in Item /\ new.id = nextId /\ new.msg = m
    BY <1>1, <1>6, <2>1, MailAssumption DEF Item
  <2>3. \A it \in Retries : it \in Item /\ it.msg # m /\ RetryFits(it)
    BY <1>1, RetriesAreItems DEF RetriesFit, RetryFits
  <2>4. /\ \A i \in DOMAIN queue : queue[i].msg # m
        /\ \A i \in DOMAIN due : due[i].msg # m
        /\ inFlight # NoItem => inFlight.msg # m
    BY <2>3 DEF Retries, ToSet
  <2>5. OneRetryEach /\ queue \in Seq(Item)
    BY DEF RetriesFit, MailTypeOK
  <2>6. /\ queue' \in Seq(Item) /\ Alone(queue')
        /\ \A k \in DOMAIN queue' : queue'[k] = new \/ \E i \in DOMAIN queue : queue'[k] = queue[i]
    BY <1>6, <2>1, <2>2, <2>4, <2>5, AppendAlone DEF OneRetryEach
  <2>7. OneRetryEach'
    <3>1. Alone(due') /\ Apart(queue', due')
      BY <1>1, <2>2, <2>4, <2>5, <2>6 DEF OneRetryEach, Apart, Alone
    <3>2. ASSUME inFlight' # NoItem
          PROVE  /\ \A i \in DOMAIN queue' : queue'[i].msg # inFlight'.msg
                 /\ \A i \in DOMAIN due' : due'[i].msg # inFlight'.msg
      BY <1>1, <2>2, <2>4, <2>5, <2>6, <3>2 DEF OneRetryEach
    <3> QED
      BY <2>6, <3>1, <3>2 DEF OneRetryEach
  <2>8. Retries' \subseteq Retries \union {new}
    <3>1. ToSet(queue)' \subseteq ToSet(queue) \union {new}
      BY <2>6 DEF ToSet
    <3>2. ToSet(due)' = ToSet(due) /\ inFlight' = inFlight
      BY <1>1 DEF ToSet
    <3> QED
      BY <3>1, <3>2 DEF Retries
  <2>9. ASSUME NEW it \in Retries' PROVE RetryFits(it)'
    <3>1. CASE it = new
      BY <1>1, <1>2, <1>4, <2>2, <3>1 DEF RetryFits
    <3>2. CASE it \in Retries
      <4>1. it.id \in Nat /\ it.msg \in Msgs /\ RetryFits(it) /\ it.msg # m
        BY <2>3, <3>2, ItemFields
      <4> QED
        BY <1>1, <1>2, <4>1 DEF RetryFits
    <3> QED
      BY <2>8, <3>1, <3>2
  <2>10. RetriesFit'
    BY <1>3, <2>7, <2>9 DEF RetriesFit
  <2> QED
    BY <1>1, <1>2, <2>2, <2>6, <2>8, <2>10 DEF RetriesHold, Grows, MailTypeOK
<1> QED
  BY <1>5, <1>6 DEF Abandon, EnqueueRetry

(* Rows stay as they were related to the rest while that only grows.       *)
LEMMA RowsStay ==
  ASSUME MailTypeOK, Grows, NEW l \in Seq(Entry), RowsFit(l)
  PROVE  RowsFit(l)'
<1>1. ASSUME NEW i \in DOMAIN l PROVE RowFits(l[i])'
  <2>1. PICK e : e = l[i]
    OBVIOUS
  <2>2. e \in Entry /\ RowFits(e)
    BY <2>1, LenProperties DEF RowsFit
  <2>3. e.id \in Nat /\ e.msg \in Msgs
    BY <2>2, EntryFields
  <2>4. RowFits(e)'
    <3>1. /\ e.id < nextId'
          /\ e.origin = "send" => phase'[e.msg] = "abandoned" /\ ~e.untagged
          /\ e.origin = "bounce" => <<e.msg, ~e.untagged>> \in consumed'
      BY <2>2, <2>3 DEF RowFits, Grows
    <3>2. ASSUME NEW it \in Retries', e.id = it.id PROVE e.msg = it.msg /\ e.origin = "send"
      <4>1. it.id # nextId
        BY <2>2, <2>3, <3>2 DEF RowFits, Grows
      <4>2. PICK old \in Retries : old.id = it.id /\ old.msg = it.msg
        BY <4>1 DEF Grows
      <4> QED
        BY <2>2, <3>2, <4>2 DEF RowFits
    <3> QED
      BY <3>1, <3>2 DEF RowFits
  <2> QED
    BY <2>1, <2>4
<1> QED
  BY <1>1 DEF RowsFit, Unrepeated

(* The rows of k are rows of l, each once, but for how they were closed.   *)
Stems(k, l) ==
  /\ k \in Seq(Entry)
  /\ \E at :
       /\ \A i, j \in DOMAIN k : at[i] = at[j] => i = j
       /\ \A i \in DOMAIN k : /\ at[i] \in DOMAIN l
                              /\ SameIncident(k[i], l[at[i]]) /\ k[i].id = l[at[i]].id

LEMMA RowsStem ==
  ASSUME NEW l, RowsFit(l)', NEW k, Stems(k, l)
  PROVE  RowsFit(k)'
<1>1. PICK at :
        /\ \A i, j \in DOMAIN k : at[i] = at[j] => i = j
        /\ \A i \in DOMAIN k : /\ at[i] \in DOMAIN l
                               /\ SameIncident(k[i], l[at[i]]) /\ k[i].id = l[at[i]].id
  BY DEF Stems
<1>2. Unrepeated(k)
  <2> SUFFICES ASSUME NEW i \in DOMAIN k, NEW j \in DOMAIN k, SameIncident(k[i], k[j])
               PROVE  i = j
    BY DEF Unrepeated
  <2>1. SameIncident(l[at[i]], l[at[j]])
    BY <1>1 DEF SameIncident
  <2> QED
    BY <1>1, <2>1 DEF RowsFit, Unrepeated
<1>3. ASSUME NEW i \in DOMAIN k PROVE RowFits(k[i])'
  <2>1. PICK e : e = l[at[i]]
    OBVIOUS
  <2>2. PICK f : f = k[i]
    OBVIOUS
  <2>3. RowFits(e)' /\ SameIncident(f, e) /\ f.id = e.id
    BY <1>1, <2>1, <2>2 DEF RowsFit
  <2>4. RowFits(f)'
    BY <2>3 DEF RowFits, SameIncident
  <2> QED
    BY <2>2, <2>4
<1> QED
  BY <1>2, <1>3 DEF RowsFit, Unrepeated

(* A row in front.                                                         *)
LEMMA PrependIs ==
  ASSUME NEW e \in Entry, NEW l \in Seq(Entry)
  PROVE  /\ <<e>> \o l \in Seq(Entry) /\ DOMAIN (<<e>> \o l) = 1..(Len(l) + 1)
         /\ (<<e>> \o l)[1] = e
         /\ \A i \in DOMAIN l : i \in Nat /\ i + 1 \in 2..(Len(l) + 1) /\ (<<e>> \o l)[i + 1] = l[i]
         /\ \A j \in 2..(Len(l) + 1) : j - 1 \in DOMAIN l /\ (<<e>> \o l)[j] = l[j - 1]
<1>1. PICK s : s = <<e>>
  OBVIOUS
<1>2. s \in Seq(Entry) /\ Len(s) = 1 /\ s[1] = e
  BY <1>1
<1>3. PICK p : p = s \o l
  OBVIOUS
<1>4. Len(l) \in Nat /\ DOMAIN l = 1..Len(l)
  BY LenProperties
<1>5. /\ p \in Seq(Entry) /\ Len(p) = 1 + Len(l)
      /\ \A i \in 1..(1 + Len(l)) : p[i] = IF i <= 1 THEN s[i] ELSE l[i - 1]
  BY <1>2, <1>3, ConcatProperties
<1>6. DOMAIN p = 1..(Len(l) + 1) /\ p[1] = e
  BY <1>2, <1>4, <1>5, LenProperties
<1>7. \A j \in 2..(Len(l) + 1) : j - 1 \in DOMAIN l /\ p[j] = l[j - 1]
  BY <1>4, <1>5
<1>8. \A i \in DOMAIN l : i \in Nat /\ i + 1 \in 2..(Len(l) + 1) /\ p[i + 1] = l[i]
  BY <1>4, <1>7
<1> QED
  BY <1>1, <1>3, <1>5, <1>6, <1>7, <1>8

LEMMA SameIsSame == ASSUME NEW e PROVE SameIncident(e, e)
  BY DEF SameIncident

(* What is picked of the rows are rows as they were, each once, and an     *)
(* open transactional row at a chosen position is one of them.             *)
LEMMA PickStems ==
  ASSUME NEW l \in Seq(Entry), NEW S \in SUBSET DOMAIN l,
         \A i \in DOMAIN l : Protected(l[i]) => i \in S
  PROVE  /\ Stems(Pick(l, S), l)
         /\ \A m, o : HasOpen(l, m, o) => HasOpen(Pick(l, S), m, o)
<1> DEFINE p == Pick(l, S)
<1>1. p \in Seq(Entry) /\ \E at : PickedBy(at, p, l, S)
  BY PickIs
<1> HIDE DEF p
<1>2. PICK at : PickedBy(at, p, l, S)
  BY <1>1
<1>3. Stems(p, l)
  BY <1>1, <1>2, SameIsSame DEF Stems, PickedBy
<1>4. ASSUME NEW m, NEW o, HasOpen(l, m, o) PROVE HasOpen(p, m, o)
  <2>1. PICK i \in DOMAIN l : l[i].msg = m /\ l[i].origin = o /\ Protected(l[i])
    BY <1>4 DEF HasOpen
  <2>2. PICK j \in DOMAIN p : p[j] = l[i]
    BY <1>2, <2>1 DEF PickedBy
  <2> QED
    BY <2>1, <2>2 DEF HasOpen
<1> QED
  BY <1>1, <1>3, <1>4 DEF p

(* What pruning leaves are rows as they were, each once, and every open    *)
(* transactional one.                                                      *)
LEMMA PruneIs ==
  ASSUME NEW l \in Seq(Entry)
  PROVE  /\ Stems(Prune(l), l)
         /\ \A m, o : HasOpen(l, m, o) => HasOpen(Prune(l), m, o)
<1> DEFINE protected == {i \in DOMAIN l : Protected(l[i])}
           newest == {i \in DOMAIN l \ protected :
                        Cardinality(protected) + Rank(DOMAIN l \ protected, i) <= MaxEntries}
           S == protected \union newest
<1>1. CASE Prune(l) = l
  <2> DEFINE at == [i \in DOMAIN l |-> i]
  <2>1. \A i \in DOMAIN l : at[i] = i
    OBVIOUS
  <2> HIDE DEF at
  <2>2. Stems(l, l)
    BY <2>1, SameIsSame DEF Stems
  <2> QED
    BY <1>1, <2>2
<1>2. CASE Prune(l) = Pick(l, S)
  <2>1. S \in SUBSET DOMAIN l /\ \A i \in DOMAIN l : Protected(l[i]) => i \in S
    OBVIOUS
  <2> HIDE DEF S
  <2> QED
    BY <1>2, <2>1, PickStems
<1>3. Prune(l) = l \/ Prune(l) = Pick(l, S)
  BY DEF Prune
<1> QED
  BY <1>1, <1>2, <1>3

(* Marking closes rows of the ids it is given and leaves the rest.         *)
LEMMA MarkIs ==
  ASSUME NEW l \in Seq(Entry), NEW S, NEW by \in {"worker", "operator"}
  PROVE  /\ Stems(Mark(l, S, by), l)
         /\ \A m, o : HasOpen(l, m, o) =>
              \/ HasOpen(Mark(l, S, by), m, o)
              \/ \E i \in DOMAIN l : /\ l[i].id \in S /\ IsOpen(l[i])
                                     /\ l[i].msg = m /\ l[i].origin = o
<1>1. PICK k : k = Mark(l, S, by)
  OBVIOUS
<1>2. Len(l) \in Nat /\ DOMAIN l = 1..Len(l) /\ \A i \in DOMAIN l : l[i] \in Entry
  BY LenProperties
<1>3. k = [i \in DOMAIN l |-> IF l[i].id \in S /\ IsOpen(l[i])
                              THEN [l[i] EXCEPT !.resolved = by] ELSE l[i]]
  BY <1>1 DEF Mark
<1>4. DOMAIN k = DOMAIN l
  BY <1>3
<1>5. ASSUME NEW i \in DOMAIN l
      PROVE  /\ k[i] \in Entry /\ SameIncident(k[i], l[i]) /\ k[i].id = l[i].id
             /\ (l[i].id \in S /\ IsOpen(l[i])) \/ k[i] = l[i]
  <2>1. PICK e : e = l[i] /\ e \in Entry
    BY <1>2
  <2>2. PICK f : f = [e EXCEPT !.resolved = by]
    OBVIOUS
  <2>3. f \in Entry /\ f.msg = e.msg /\ f.origin = e.origin /\ f.untagged = e.untagged /\ f.id = e.id
    BY <2>1, <2>2 DEF Entry
  <2>4. CASE l[i].id \in S /\ IsOpen(l[i])
    <3>1. k[i] = f
      BY <1>3, <2>1, <2>2, <2>4
    <3> QED
      BY <2>1, <2>3, <2>4, <3>1 DEF SameIncident
  <2>5. CASE ~(l[i].id \in S /\ IsOpen(l[i]))
    <3>1. k[i] = l[i]
      BY <1>3, <2>5
    <3> QED
      BY <2>1, <3>1, SameIsSame
  <2> QED
    BY <2>4, <2>5
<1> HIDE <1>3
<1>6. Stems(k, l)
  <2> DEFINE at == [i \in DOMAIN l |-> i]
  <2>1. \A i \in DOMAIN l : at[i] = i
    OBVIOUS
  <2> HIDE DEF at
  <2>2. k = [i \in 1..Len(l) |-> k[i]]
    BY <1>2, <1>3
  <2>3. k \in Seq(Entry)
    BY <1>2, <1>5, <2>2
  <2>4. \A i \in DOMAIN k : /\ at[i] \in DOMAIN l
                           /\ SameIncident(k[i], l[at[i]]) /\ k[i].id = l[at[i]].id
    BY <1>4, <1>5, <2>1
  <2>5. \A i, j \in DOMAIN k : at[i] = at[j] => i = j
    BY <1>4, <2>1
  <2> QED
    BY <2>3, <2>4, <2>5 DEF Stems
<1>7. ASSUME NEW m, NEW o, HasOpen(l, m, o)
      PROVE  \/ HasOpen(k, m, o)
             \/ \E i \in DOMAIN l : /\ l[i].id \in S /\ IsOpen(l[i])
                                    /\ l[i].msg = m /\ l[i].origin = o
  BY <1>4, <1>5, <1>7 DEF HasOpen
<1> QED
  BY <1>1, <1>6, <1>7

(* Redacting closes the rows that hold the address and leaves the rest.    *)
LEMMA RedactIs ==
  ASSUME NEW l \in Seq(Entry), NEW a
  PROVE  /\ Stems(Redact(l, a), l)
         /\ \A m, o : HasOpen(l, m, o) =>
              \/ HasOpen(Redact(l, a), m, o)
              \/ \E i \in DOMAIN l : /\ a \in l[i].plain /\ IsOpen(l[i])
                                     /\ l[i].msg = m /\ l[i].origin = o
<1>1. PICK k : k = Redact(l, a)
  OBVIOUS
<1>2. Len(l) \in Nat /\ DOMAIN l = 1..Len(l) /\ \A i \in DOMAIN l : l[i] \in Entry
  BY LenProperties
<1>3. k = [i \in DOMAIN l |-> IF a \in l[i].plain
                              THEN [l[i] EXCEPT !.plain = @ \ {a},
                                                !.resolved = IF @ = "no" THEN "erasure" ELSE @]
                              ELSE l[i]]
  BY <1>1 DEF Redact
<1>4. DOMAIN k = DOMAIN l
  BY <1>3
<1>5. ASSUME NEW i \in DOMAIN l
      PROVE  /\ k[i] \in Entry /\ SameIncident(k[i], l[i]) /\ k[i].id = l[i].id
             /\ a \in l[i].plain \/ k[i] = l[i]
  <2>1. PICK e : e = l[i] /\ e \in Entry
    BY <1>2
  <2>2. PICK f : f = [e EXCEPT !.plain = @ \ {a},
                               !.resolved = IF @ = "no" THEN "erasure" ELSE @]
    OBVIOUS
  <2>3. f \in Entry /\ f.msg = e.msg /\ f.origin = e.origin /\ f.untagged = e.untagged /\ f.id = e.id
    <3>1. e.plain \ {a} \subseteq Addressees
      BY <2>1, EntryFields
    <3>2. (IF e.resolved = "no" THEN "erasure" ELSE e.resolved)
            \in {"no", "worker", "operator", "erasure"}
      BY <2>1 DEF Entry
    <3>3. PICK p : p = e.plain \ {a}
      OBVIOUS
    <3>4. PICK r : r = IF e.resolved = "no" THEN "erasure" ELSE e.resolved
      OBVIOUS
    <3>5. f = [e EXCEPT !.plain = p, !.resolved = r]
      BY <2>2, <3>3, <3>4
    <3> QED
      BY <2>1, <3>1, <3>2, <3>3, <3>4, <3>5 DEF Entry
  <2>4. CASE a \in l[i].plain
    <3>1. k[i] = f
      BY <1>3, <2>1, <2>2, <2>4
    <3> QED
      BY <2>1, <2>3, <2>4, <3>1 DEF SameIncident
  <2>5. CASE a \notin l[i].plain
    <3>1. k[i] = l[i]
      BY <1>3, <2>5
    <3> QED
      BY <2>1, <3>1, SameIsSame
  <2> QED
    BY <2>4, <2>5
<1> HIDE <1>3
<1>6. Stems(k, l)
  <2> DEFINE at == [i \in DOMAIN l |-> i]
  <2>1. \A i \in DOMAIN l : at[i] = i
    OBVIOUS
  <2> HIDE DEF at
  <2>2. k = [i \in 1..Len(l) |-> k[i]]
    BY <1>2, <1>3
  <2>3. k \in Seq(Entry)
    BY <1>2, <1>5, <2>2
  <2>4. \A i \in DOMAIN k : /\ at[i] \in DOMAIN l
                           /\ SameIncident(k[i], l[at[i]]) /\ k[i].id = l[at[i]].id
    BY <1>4, <1>5, <2>1
  <2>5. \A i, j \in DOMAIN k : at[i] = at[j] => i = j
    BY <1>4, <2>1
  <2> QED
    BY <2>3, <2>4, <2>5 DEF Stems
<1>7. ASSUME NEW m, NEW o, HasOpen(l, m, o)
      PROVE  \/ HasOpen(k, m, o)
             \/ \E i \in DOMAIN l : /\ a \in l[i].plain /\ IsOpen(l[i])
                                    /\ l[i].msg = m /\ l[i].origin = o
  BY <1>4, <1>5, <1>7 DEF HasOpen, Protected
<1> QED
  BY <1>1, <1>6, <1>7

(* An alarm rings on while nothing new is owed and what was open stays so. *)
LEMMA AlarmStep ==
  ASSUME NEW l, Alarm(l), NEW k,
         \A m \in Tickets, o \in {"send", "bounce"} : Owed(m, o)' =>
           HasOpen(k, m, o) \/ (Owed(m, o) /\ (HasOpen(l, m, o) => HasOpen(k, m, o)))
  PROVE  Alarm(k)'
<1> SUFFICES ASSUME NEW m \in Tickets, NEW o \in {"send", "bounce"}, Owed(m, o)'
             PROVE  HasOpen(k, m, o)
  BY DEF Alarm, HasOpen, Protected, IsOpen
<1> QED
  BY DEF Alarm

RowsHold ==
  /\ ledger' \in Seq(Entry) /\ onDisk' \in Seq(Entry)
  /\ RowsFit(ledger)' /\ RowsFit(onDisk)'
  /\ Alarm(onDisk)' /\ (running' => Alarm(ledger)')

LEMMA RowsAre ==
  ASSUME NEW k \in Seq(Entry), NEW d \in Seq(Entry), ledger' = k, onDisk' = d,
         RowsFit(k)', RowsFit(d)', Alarm(d)', running' => Alarm(k)'
  PROVE  RowsHold
<1>1. RowsFit(ledger)' /\ RowsFit(onDisk)'
  BY DEF RowsFit, Unrepeated, SameIncident
<1>2. Alarm(onDisk)' /\ (running' => Alarm(ledger)')
  BY DEF Alarm, HasOpen
<1> QED
  BY <1>1, <1>2 DEF RowsHold

(* A failure is one more row, of an incident that had none, and closes no  *)
(* other.                                                                  *)
LEMMA RecordIs ==
  ASSUME MailTypeOK, Grows, RowsFit(ledger), NEW m \in Msgs, NEW kind \in {"transactional", "marketing"},
         NEW origin \in {"send", "bounce"}, NEW untagged \in BOOLEAN,
         RecordFailure(m, kind, origin, untagged),
         origin = "send" => phase'[m] = "abandoned" /\ ~untagged,
         origin = "bounce" => <<m, ~untagged>> \in consumed',
         \A it \in Retries' : it.id = nextId => it.msg = m /\ origin = "send",
         \A i \in DOMAIN ledger :
           ~(ledger[i].msg = m /\ ledger[i].origin = origin /\ ledger[i].untagged = untagged)
  PROVE  \E k \in Seq(Entry) :
           /\ ledger' = k /\ onDisk' = k /\ RowsFit(k)'
           /\ \A x, o : HasOpen(ledger, x, o) => HasOpen(k, x, o)
           /\ kind = "transactional" => HasOpen(k, m, origin)
<1>1. PICK e : e = [id |-> nextId, msg |-> m, kind |-> kind, origin |-> origin,
                    untagged |-> untagged,
                    plain |-> IF kind = "transactional" THEN To[m] ELSE {},
                    resolved |-> "no"]
  OBVIOUS
<1>2. /\ e.id = nextId /\ e.msg = m /\ e.kind = kind /\ e.origin = origin
      /\ e.untagged = untagged /\ e.resolved = "no"
  BY <1>1
<1>3. e \in Entry
  <2>1. PICK p : p = IF kind = "transactional" THEN To[m] ELSE {}
    OBVIOUS
  <2>2. p \in SUBSET Addressees
    <3>1. To[m] \in SUBSET Addressees
      BY MailAssumption
    <3> QED
      BY <2>1, <3>1
  <2>3. e = [id |-> nextId, msg |-> m, kind |-> kind, origin |-> origin,
             untagged |-> untagged, plain |-> p, resolved |-> "no"]
    BY <1>1, <2>1
  <2>4. nextId \in Nat
    BY DEF MailTypeOK
  <2> QED
    BY <2>2, <2>3, <2>4 DEF Entry
<1>4. ledger \in Seq(Entry)
  BY DEF MailTypeOK
<1>5. PICK l : l = <<e>> \o ledger
  OBVIOUS
<1>6. /\ l \in Seq(Entry) /\ l[1] = e
      /\ \A i \in DOMAIN ledger : i + 1 \in DOMAIN l /\ l[i + 1] = ledger[i]
      /\ \A j \in DOMAIN l : j = 1 \/ (j - 1 \in DOMAIN ledger /\ l[j] = ledger[j - 1])
      /\ 1 \in DOMAIN l /\ \A j \in DOMAIN l : j \in Nat
  <2>1. Len(ledger) \in Nat
    BY <1>4, LenProperties
  <2>2. /\ l \in Seq(Entry) /\ DOMAIN l = 1..(Len(ledger) + 1) /\ l[1] = e
        /\ \A i \in DOMAIN ledger : i + 1 \in 2..(Len(ledger) + 1) /\ l[i + 1] = ledger[i]
        /\ \A j \in 2..(Len(ledger) + 1) : j - 1 \in DOMAIN ledger /\ l[j] = ledger[j - 1]
    BY <1>3, <1>4, <1>5, PrependIs
  <2>3. /\ \A j \in 1..(Len(ledger) + 1) : j \in Nat /\ (j = 1 \/ j \in 2..(Len(ledger) + 1))
        /\ \A j \in 2..(Len(ledger) + 1) : j \in 1..(Len(ledger) + 1)
        /\ 1 \in 1..(Len(ledger) + 1)
    BY <2>1
  <2>4. PICK D : D = 1..(Len(ledger) + 1)
    OBVIOUS
  <2>5. PICK T : T = 2..(Len(ledger) + 1)
    OBVIOUS
  <2>6. /\ l \in Seq(Entry) /\ DOMAIN l = D /\ l[1] = e
        /\ \A i \in DOMAIN ledger : i + 1 \in T /\ l[i + 1] = ledger[i]
        /\ \A j \in T : j - 1 \in DOMAIN ledger /\ l[j] = ledger[j - 1]
    BY <2>2, <2>4, <2>5
  <2>7. /\ \A j \in D : j \in Nat /\ (j = 1 \/ j \in T)
        /\ \A j \in T : j \in D
        /\ 1 \in D
    BY <2>3, <2>4, <2>5
  <2> HIDE <2>1, <2>2, <2>3, <2>4, <2>5
  <2>8. \A i \in DOMAIN ledger : i + 1 \in DOMAIN l /\ l[i + 1] = ledger[i]
    BY <2>6, <2>7
  <2>9. \A j \in DOMAIN l : j = 1 \/ (j - 1 \in DOMAIN ledger /\ l[j] = ledger[j - 1])
    BY <2>6, <2>7
  <2> QED
    BY <2>6, <2>7, <2>8, <2>9
<1>7. RowFits(e)'
  <2>1. nextId \in Nat /\ nextId < nextId'
    BY DEF MailTypeOK, RecordFailure
  <2> QED
    BY <1>2, <2>1 DEF RowFits
<1>8. PICK r : r = ledger /\ r \in Seq(Entry)
  BY <1>4
<1>9. RowsFit(r) /\ RowsFit(r)'
  BY <1>8, RowsStay
<1>10. RowsFit(l)'
  <2>1. Unrepeated(l)
    <3> SUFFICES ASSUME NEW i \in DOMAIN l, NEW j \in DOMAIN l, SameIncident(l[i], l[j])
                 PROVE  i = j
      BY DEF Unrepeated
    <3>1. \A h \in DOMAIN ledger : ~SameIncident(ledger[h], e) /\ ~SameIncident(e, ledger[h])
      BY <1>2 DEF SameIncident
    <3>2. CASE i = 1
      BY <1>6, <3>1, <3>2
    <3>3. CASE j = 1
      BY <1>6, <3>1, <3>3
    <3>4. CASE i # 1 /\ j # 1
      <4>1. i - 1 \in DOMAIN r /\ j - 1 \in DOMAIN r /\ SameIncident(r[i - 1], r[j - 1])
        BY <1>6, <1>8, <3>4
      <4>2. i - 1 = j - 1 /\ i \in Nat /\ j \in Nat
        BY <1>6, <1>9, <4>1 DEF RowsFit, Unrepeated
      <4> QED
        BY <4>2
    <3> QED
      BY <3>2, <3>3, <3>4
  <2>2. ASSUME NEW j \in DOMAIN l PROVE RowFits(l[j])'
    <3>1. CASE l[j] = e
      BY <1>7, <3>1
    <3>2. CASE j - 1 \in DOMAIN ledger /\ l[j] = ledger[j - 1]
      <4>1. l[j] = r[j - 1] /\ j - 1 \in DOMAIN r
        BY <1>8, <3>2
      <4>2. RowFits(r[j - 1])'
        BY <1>9, <4>1 DEF RowsFit
      <4> QED
        BY <4>1, <4>2
    <3> QED
      BY <1>6, <3>1, <3>2
  <2> QED
    BY <2>1, <2>2 DEF RowsFit
<1>11. PICK k : k = Prune(l)
  OBVIOUS
<1>12. Stems(k, l) /\ \A x, o : HasOpen(l, x, o) => HasOpen(k, x, o)
  BY <1>6, <1>11, PruneIs
<1>13. k \in Seq(Entry) /\ RowsFit(k)'
  BY <1>10, <1>12, RowsStem DEF Stems
<1>14. ledger' = k /\ onDisk' = k
  BY <1>1, <1>5, <1>11 DEF RecordFailure
<1>15. ASSUME NEW x, NEW o, HasOpen(ledger, x, o) PROVE HasOpen(k, x, o)
  <2>1. PICK i \in DOMAIN ledger : ledger[i].msg = x /\ ledger[i].origin = o /\ Protected(ledger[i])
    BY <1>15 DEF HasOpen
  <2>2. i + 1 \in DOMAIN l /\ l[i + 1] = ledger[i]
    BY <1>6
  <2>3. HasOpen(l, x, o)
    BY <2>1, <2>2 DEF HasOpen
  <2> QED
    BY <1>12, <2>3
<1>16. ASSUME kind = "transactional" PROVE HasOpen(k, m, origin)
  <2>1. l[1].msg = m /\ l[1].origin = origin /\ Protected(l[1]) /\ 1 \in DOMAIN l
    BY <1>2, <1>6, <1>16 DEF Protected, IsOpen
  <2>2. HasOpen(l, m, origin)
    BY <2>1 DEF HasOpen
  <2> QED
    BY <1>12, <2>2
<1> QED
  BY <1>13, <1>14, <1>15, <1>16

(* A step that rewrites neither the ledger nor the file.                   *)
LEMMA RowsSame ==
  ASSUME MailIInv, Grows, UNCHANGED <<ledger, onDisk>>, running' => running,
         \A m \in Tickets, o \in {"send", "bounce"} : Owed(m, o)' => Owed(m, o)
  PROVE  RowsHold
<1>1. PICK k : k = ledger
  OBVIOUS
<1>2. PICK d : d = onDisk
  OBVIOUS
<1>3. /\ k \in Seq(Entry) /\ d \in Seq(Entry) /\ RowsFit(k) /\ RowsFit(d)
      /\ Alarm(d) /\ (running => Alarm(k)) /\ ledger' = k /\ onDisk' = d
  BY <1>1, <1>2 DEF MailIInv, MailTypeOK
<1>4. RowsFit(k)' /\ RowsFit(d)'
  BY <1>3, RowsStay DEF MailIInv
<1>5. Alarm(d)' /\ (running' => Alarm(k)')
  BY <1>3, AlarmStep
<1> QED
  BY <1>3, <1>4, <1>5, RowsAre

LEMMA StartSendKeeps ==
  ASSUME MailIInv, NEW m \in Msgs, StartSend(m)
  PROVE  RetriesHold /\ RowsHold
<1>1. /\ phase[m] = "new" /\ phase' = [phase EXCEPT ![m] = "sending"]
      /\ UNCHANGED <<accepted, ledger, onDisk, nextId, queue, due, inFlight, consumed, handled, running>>
      /\ nextId \in Nat /\ phase \in [Msgs -> {"new", "sending", "sent", "abandoned", "cut"}]
  BY DEF StartSend, ledgerVars, workerVars, bounds, MailIInv, MailTypeOK
<1>2. phase'[m] = "sending" /\ \A x \in Msgs : x # m => phase'[x] = phase[x]
  BY <1>1
<1>3. \A x \in Msgs : SendFits(x)'
  BY <1>1, <1>2 DEF MailIInv, RetriesFit, SendFits
<1>4. RetriesHold
  BY <1>1, <1>2, <1>3, RetriesStay DEF MailIInv, workerVars
<1>5. \A x \in Tickets, o \in {"send", "bounce"} : Owed(x, o)' => Owed(x, o)
  BY <1>1, <1>2 DEF Owed, Msgs
<1> QED
  BY <1>1, <1>4, <1>5, RowsSame DEF RetriesHold

LEMMA SendOkKeeps ==
  ASSUME MailIInv, NEW m \in Msgs, SendOk(m)
  PROVE  RetriesHold /\ RowsHold
<1>1. /\ phase[m] = "sending" /\ phase' = [phase EXCEPT ![m] = "sent"]
      /\ accepted' = [accepted EXCEPT ![m] = @ + 1] /\ accepted \in [Msgs -> Nat]
      /\ UNCHANGED <<ledger, onDisk, nextId, queue, due, inFlight, consumed, handled, running>>
      /\ nextId \in Nat /\ phase \in [Msgs -> {"new", "sending", "sent", "abandoned", "cut"}]
  BY DEF SendOk, ledgerVars, workerVars, bounds, MailIInv, MailTypeOK
<1>2. phase'[m] = "sent" /\ \A x \in Msgs : x # m => phase'[x] = phase[x] /\ accepted'[x] = accepted[x]
  BY <1>1
<1>3. \A x \in Msgs : SendFits(x)'
  <2>1. accepted[m] = 0
    BY <1>1 DEF MailIInv, RetriesFit, SendFits
  <2>2. accepted'[m] = 1
    BY <1>1, <2>1
  <2> QED
    BY <1>2, <2>2 DEF MailIInv, RetriesFit, SendFits
<1>4. RetriesHold
  BY <1>1, <1>2, <1>3, RetriesStay DEF MailIInv, workerVars
<1>5. \A x \in Tickets, o \in {"send", "bounce"} : Owed(x, o)' => Owed(x, o)
  BY <1>1, <1>2 DEF Owed, Msgs
<1> QED
  BY <1>1, <1>4, <1>5, RowsSame DEF RetriesHold

(* A message given up has no row yet, so it gets its one.                  *)
LEMMA AbandonKeeps ==
  ASSUME MailIInv, NEW m \in Msgs, NEW retryable \in BOOLEAN, Abandon(m, retryable)
  PROVE  RetriesHold /\ RowsHold
<1>1. RetriesHold /\ \A it \in Retries' : it \in Retries \/ it.msg = m
  BY AbandonHolds DEF MailIInv
<1>2. /\ phase[m] = "sending" /\ phase' = [phase EXCEPT ![m] = "abandoned"] /\ running
      /\ RecordFailure(m, Kind(m), "send", FALSE)
      /\ UNCHANGED <<accepted, consumed, handled, running>>
      /\ phase \in [Msgs -> {"new", "sending", "sent", "abandoned", "cut"}]
  BY DEF Abandon, bounds, MailIInv, MailTypeOK
<1>3. phase'[m] = "abandoned" /\ \A x \in Msgs : x # m => phase'[x] = phase[x]
  BY <1>2
<1>4. \A it \in Retries' : it.id = nextId => it.msg = m
  <2>1. \A it \in Retries : it.id \in Nat /\ it.id < nextId /\ nextId \in Nat
    BY RetriesAreItems, ItemFields DEF MailIInv, RetriesFit, RetryFits, MailTypeOK
  <2> QED
    BY <1>1, <2>1
<1>5. ASSUME NEW i \in DOMAIN ledger
      PROVE  ~(ledger[i].msg = m /\ ledger[i].origin = "send" /\ ledger[i].untagged = FALSE)
  BY <1>2 DEF MailIInv, RowsFit, RowFits
<1>6. Kind(m) \in {"transactional", "marketing"} /\ (m \in Tickets => Kind(m) = "transactional")
  BY DEF Kind
<1>7. PICK k \in Seq(Entry) :
        /\ ledger' = k /\ onDisk' = k /\ RowsFit(k)'
        /\ \A x, o : HasOpen(ledger, x, o) => HasOpen(k, x, o)
        /\ Kind(m) = "transactional" => HasOpen(k, m, "send")
  <2>1. MailTypeOK /\ Grows /\ RowsFit(ledger)
    BY <1>1 DEF RetriesHold, MailIInv
  <2> HIDE <1>1
  <2> QED
    BY <1>2, <1>3, <1>4, <1>5, <1>6, <2>1, RecordIs
<1>8. Alarm(k)'
  <2>1. Alarm(ledger)
    BY <1>2 DEF MailIInv
  <2>2. PICK l : l = ledger
    OBVIOUS
  <2>3. ASSUME NEW x \in Tickets, NEW o \in {"send", "bounce"}, Owed(x, o)'
        PROVE  HasOpen(k, x, o) \/ (Owed(x, o) /\ (HasOpen(l, x, o) => HasOpen(k, x, o)))
    <3>1. CASE x = m /\ o = "send"
      BY <1>6, <1>7, <3>1
    <3>2. CASE ~(x = m /\ o = "send")
      <4>1. x \in Msgs /\ Owed(x, o)
        BY <1>2, <1>3, <2>3, <3>2 DEF Owed, Msgs
      <4> QED
        BY <1>7, <2>2, <4>1
    <3> QED
      BY <3>1, <3>2
  <2> QED
    BY <2>1, <2>2, <2>3, AlarmStep
<1> QED
  BY <1>1, <1>7, <1>8, RowsAre

(* Marking rows whose message was delivered or handled.                    *)
LEMMA RowsMarked ==
  ASSUME MailIInv, Grows, running, NEW S, NEW by \in {"worker", "operator"},
         ledger' = Mark(ledger, S, by), onDisk' = ledger' \/ onDisk' = onDisk,
         \A m \in Tickets, o \in {"send", "bounce"} : Owed(m, o)' =>
           /\ Owed(m, o)
           /\ \A i \in DOMAIN ledger : ledger[i].id \in S /\ IsOpen(ledger[i]) =>
                ~(ledger[i].msg = m /\ ledger[i].origin = o)
  PROVE  RowsHold
<1>1. PICK l : l = ledger
  OBVIOUS
<1>2. PICK d : d = onDisk
  OBVIOUS
<1>3. PICK k : k = Mark(l, S, by)
  OBVIOUS
<1>4. /\ l \in Seq(Entry) /\ d \in Seq(Entry) /\ MailTypeOK
      /\ RowsFit(l) /\ RowsFit(d) /\ Alarm(l) /\ Alarm(d)
  BY <1>1, <1>2 DEF MailIInv, MailTypeOK
<1>5. RowsFit(l)' /\ RowsFit(d)'
  BY <1>4, RowsStay
<1>6. /\ Stems(k, l)
      /\ \A m, o : HasOpen(l, m, o) =>
           \/ HasOpen(k, m, o)
           \/ \E i \in DOMAIN l : l[i].id \in S /\ IsOpen(l[i]) /\ l[i].msg = m /\ l[i].origin = o
  BY <1>3, <1>4, MarkIs
<1>7. k \in Seq(Entry) /\ RowsFit(k)'
  BY <1>5, <1>6, RowsStem DEF Stems
<1>8. Alarm(d)'
  BY <1>4, AlarmStep
<1>9. Alarm(k)'
  <2>1. ASSUME NEW m \in Tickets, NEW o \in {"send", "bounce"}, Owed(m, o)'
        PROVE  HasOpen(k, m, o) \/ (Owed(m, o) /\ (HasOpen(l, m, o) => HasOpen(k, m, o)))
    <3>1. Owed(m, o) /\ ~\E i \in DOMAIN l : /\ l[i].id \in S /\ IsOpen(l[i])
                                            /\ l[i].msg = m /\ l[i].origin = o
      BY <1>1, <2>1
    <3> QED
      BY <1>6, <3>1
  <2> QED
    BY <1>4, <2>1, AlarmStep
<1>10. ledger' = k
  BY <1>1, <1>3
<1>11. CASE onDisk' = ledger'
  BY <1>7, <1>9, <1>10, <1>11, RowsAre
<1>12. CASE onDisk' = onDisk
  BY <1>2, <1>4, <1>5, <1>7, <1>8, <1>9, <1>10, <1>12, RowsAre
<1> QED
  BY <1>11, <1>12

LEMMA TakeDueKeeps ==
  ASSUME MailIInv, TakeDue
  PROVE  RetriesHold /\ RowsHold
<1>1. RetriesHold
  BY TakeDueHolds DEF MailIInv
<1>2. UNCHANGED <<phase, accepted, ledger, onDisk, consumed, handled, running>>
  BY DEF TakeDue, ledgerVars, bounds
<1>3. \A x \in Tickets, o \in {"send", "bounce"} : Owed(x, o)' => Owed(x, o)
  BY <1>2 DEF Owed
<1> QED
  BY <1>1, <1>2, <1>3, RowsSame DEF RetriesHold

(* The rows a delivered retry closes are of its own message.               *)
LEMMA RetryOkKeeps ==
  ASSUME MailIInv, RetryOk
  PROVE  RetriesHold /\ RowsHold
<1>1. RetriesHold
  BY RetryOkHolds DEF MailIInv
<1>2. /\ inFlight # NoItem /\ accepted' = [accepted EXCEPT ![inFlight.msg] = @ + 1]
      /\ ledger' = Mark(ledger, {inFlight.id}, "worker")
      /\ onDisk' = ledger' \/ onDisk' = onDisk
      /\ UNCHANGED <<phase, consumed, handled>> /\ running
      /\ accepted \in [Msgs -> Nat]
  BY DEF RetryOk, bounds, MailIInv, MailTypeOK
<1>3. inFlight \in Item /\ inFlight.msg \in Msgs /\ inFlight \in Retries
  BY <1>2, ItemFields DEF MailIInv, MailTypeOK, Retries
<1>4. accepted'[inFlight.msg] # 0 /\ \A x \in Msgs : accepted'[x] = 0 => accepted[x] = 0
  BY <1>2, <1>3
<1>5. \A x \in Tickets, o \in {"send", "bounce"} : Owed(x, o)' => Owed(x, o)
  BY <1>2, <1>4 DEF Owed, Msgs
<1>6. \A i \in DOMAIN ledger : ledger[i].id \in {inFlight.id} =>
        ledger[i].msg = inFlight.msg /\ ledger[i].origin = "send"
  BY <1>3 DEF MailIInv, RowsFit, RowFits
<1>7. \A x \in Tickets, o \in {"send", "bounce"} : Owed(x, o)' =>
        ~(inFlight.msg = x /\ "send" = o)
  BY <1>4 DEF Owed
<1> QED
  BY <1>1, <1>2, <1>5, <1>6, <1>7, RowsMarked DEF RetriesHold

LEMMA RetryFailsKeeps ==
  ASSUME MailIInv, NEW retryable \in BOOLEAN, RetryFails(retryable)
  PROVE  RetriesHold /\ RowsHold
<1>1. RetriesHold
  BY RetryFailsHolds DEF MailIInv
<1>2. /\ UNCHANGED <<phase, accepted, ledger, consumed, handled, running>> /\ running
      /\ onDisk' = ledger \/ onDisk' = onDisk
  BY DEF RetryFails, bounds
<1>3. \A x \in Tickets, o \in {"send", "bounce"} : Owed(x, o)' => Owed(x, o)
  BY <1>2 DEF Owed
<1>4. CASE onDisk' = onDisk
  BY <1>1, <1>2, <1>3, <1>4, RowsSame DEF RetriesHold
<1>5. CASE onDisk' = ledger
  <2>1. PICK k : k = ledger
    OBVIOUS
  <2>2. k \in Seq(Entry) /\ RowsFit(k) /\ Alarm(k) /\ MailTypeOK /\ Grows
    BY <1>1, <1>2, <2>1 DEF MailIInv, MailTypeOK, RetriesHold
  <2>3. RowsFit(k)'
    BY <2>2, RowsStay
  <2>4. Alarm(k)'
    BY <1>3, <2>2, AlarmStep
  <2>5. ledger' = k /\ onDisk' = k
    BY <1>2, <1>5, <2>1
  <2> QED
    BY <1>1, <2>2, <2>3, <2>4, <2>5, RowsAre
<1> QED
  BY <1>2, <1>4, <1>5

(* What the operator closes by hand is handled, and its retry forgotten.   *)
LEMMA ResolveKeeps ==
  ASSUME MailIInv, NEW S, Resolve(S)
  PROVE  RetriesHold /\ RowsHold
<1> DEFINE R == {i \in DOMAIN queue : queue[i].id \notin S}
<1>1. /\ running /\ ledger' = Mark(ledger, S, "operator") /\ onDisk' = ledger'
      /\ handled' = handled \union Closes(ledger, S)
      /\ queue' = Pick(queue, R)
      /\ UNCHANGED <<phase, accepted, due, inFlight, consumed, nextId>>
  BY DEF Resolve, ForgetRetries
<1>2. /\ MailTypeOK /\ OneRetryEach /\ queue \in Seq(Item) /\ due \in Seq(Item)
      /\ R \in SUBSET DOMAIN queue /\ nextId \in Nat /\ inFlight \in Item \union {NoItem}
  BY DEF MailIInv, RetriesFit, MailTypeOK
<1> HIDE DEF R
<1>3. /\ queue' \in Seq(Item) /\ Alone(queue') /\ ToSet(queue') \subseteq ToSet(queue)
      /\ \A k \in DOMAIN queue' : \E i \in DOMAIN queue : queue'[k] = queue[i]
  BY <1>1, <1>2, PickAlone DEF OneRetryEach
<1>4. RetriesHold
  <2>1. OneRetryEach'
    <3>1. Alone(due)' /\ Apart(queue, due)'
      BY <1>1, <1>2, <1>3 DEF OneRetryEach, Alone, Apart
    <3>2. (inFlight # NoItem)' => /\ \A i \in DOMAIN queue' : queue'[i].msg # inFlight'.msg
                                  /\ \A i \in DOMAIN due' : due'[i].msg # inFlight'.msg
      BY <1>1, <1>2, <1>3 DEF OneRetryEach
    <3> QED
      BY <1>3, <3>1, <3>2 DEF OneRetryEach
  <2>2. Retries' \subseteq Retries
    <3>1. ToSet(due)' = ToSet(due)
      BY <1>1 DEF ToSet
    <3> QED
      BY <1>1, <1>3, <3>1 DEF Retries
  <2>3. \A it \in Retries' : RetryFits(it)'
    BY <1>1, <2>2 DEF MailIInv, RetriesFit, RetryFits
  <2>4. \A m \in Msgs : SendFits(m)'
    BY <1>1 DEF MailIInv, RetriesFit, SendFits
  <2>5. RetriesFit'
    BY <2>1, <2>3, <2>4 DEF RetriesFit
  <2> QED
    BY <1>1, <1>2, <1>3, <2>2, <2>5 DEF RetriesHold, Grows
<1>5. ASSUME NEW m \in Tickets, NEW o \in {"send", "bounce"}, Owed(m, o)'
      PROVE  /\ Owed(m, o)
             /\ \A i \in DOMAIN ledger : ledger[i].id \in S /\ IsOpen(ledger[i]) =>
                  ~(ledger[i].msg = m /\ ledger[i].origin = o)
  <2>1. <<m, o>> \notin handled'
    BY <1>5 DEF Owed
  <2>2. Owed(m, o)
    BY <1>1, <1>5 DEF Owed
  <2>3. ASSUME NEW i \in DOMAIN ledger, ledger[i].id \in S, IsOpen(ledger[i]),
               ledger[i].msg = m, ledger[i].origin = o
        PROVE  FALSE
    <3>1. ledger[i] \in ToSet(ledger)
      BY DEF ToSet
    <3>2. <<m, o>> \in Closes(ledger, S)
      BY <2>3, <3>1 DEF Closes
    <3> QED
      BY <1>1, <2>1, <3>2
  <2> QED
    BY <2>2, <2>3
<1> QED
  BY <1>1, <1>4, <1>5, RowsMarked DEF RetriesHold

(* No envelope is the key of a failure.                                    *)
LEMMA KeyIsNoEnvelope ==
  ASSUME NEW e \in Envelopes
  PROVE  \A x \in Tickets : x \in Msgs /\ <<x, TRUE>> # e
<1> SUFFICES ASSUME NEW x \in Tickets PROVE x \in Msgs /\ <<x, TRUE>> # e
  OBVIOUS
<1>1. x \in Msgs
  BY DEF Msgs
<1>2. <<x, TRUE>> \in Msgs \X BOOLEAN
  BY <1>1
<1>3. e \notin Msgs \X BOOLEAN
  BY MailAssumption
<1> QED
  BY <1>1, <1>2, <1>3, Zenon

(* A bounce that was taken before adds nothing; the first one of its key   *)
(* gets the row it owes.                                                   *)
LEMMA WebhookKeeps ==
  ASSUME MailIInv, NEW e \in Envelopes, Webhook(e)
  PROVE  RetriesHold /\ RowsHold
<1>1. /\ running /\ consumed' = consumed \union {e, LedgerKey(e)}
      /\ UNCHANGED <<phase, accepted, queue, due, inFlight, running, handled>>
      /\ nextId \in Nat /\ MailTypeOK /\ RetriesFit /\ RowsFit(ledger)
  BY DEF Webhook, workerVars, bounds, MailIInv, MailTypeOK
<1>2. PICK m \in Msgs : m = About[e]
  BY MailAssumption
<1>3. PICK t \in BOOLEAN : t = (e \in Tagged)
  <2>1. (e \in Tagged) \in BOOLEAN
    OBVIOUS
  <2> QED
    BY <2>1, Zenon
<1>4. LedgerKey(e) = <<m, t>> /\ (e \notin Tagged) = ~t
  BY <1>2, <1>3 DEF LedgerKey
<1>5. ASSUME NEW x \in Tickets, NEW o \in {"send", "bounce"}, Owed(x, o)'
      PROVE  x \in Msgs /\ (Owed(x, o) \/ (<<x, TRUE>> = <<m, t>> /\ o = "bounce"))
  <2>1. PICK p : p = <<x, TRUE>>
    OBVIOUS
  <2>2. PICK q : q = <<m, t>>
    OBVIOUS
  <2>3. x \in Msgs /\ p # e
    BY <2>1, KeyIsNoEnvelope
  <2>4. p \in consumed' => p \in consumed \/ p = q
    BY <1>1, <1>4, <2>2, <2>3
  <2> HIDE <1>4
  <2>5. /\ o = "send" => phase[x] = "abandoned" /\ accepted[x] = 0
        /\ o = "bounce" => p \in consumed'
        /\ <<x, o>> \notin handled
    BY <1>1, <1>5, <2>1 DEF Owed
  <2>6. p \in consumed \/ o # "bounce" => Owed(x, o)
    BY <2>1, <2>5 DEF Owed
  <2> QED
    BY <2>1, <2>2, <2>3, <2>4, <2>5, <2>6
<1>6. \A x \in Msgs : SendFits(x)'
  BY <1>1 DEF RetriesFit, SendFits
<1>7. Retries' = Retries
  BY <1>1 DEF Retries, ToSet
<1>8. CASE <<m, t>> \in consumed
  <2>1. UNCHANGED <<ledger, onDisk, nextId>>
    BY <1>4, <1>8 DEF Webhook, ledgerVars
  <2>2. RetriesHold
    BY <1>1, <1>6, <2>1, RetriesStay DEF workerVars
  <2>3. ASSUME NEW x \in Tickets, NEW o \in {"send", "bounce"}, Owed(x, o)'
        PROVE  Owed(x, o)
    <3>1. CASE <<x, TRUE>> = <<m, t>> /\ o = "bounce"
      <4>1. <<x, TRUE>> \in consumed /\ <<x, o>> \notin handled
        BY <1>1, <1>8, <2>3, <3>1 DEF Owed
      <4> QED
        BY <3>1, <4>1 DEF Owed
    <3> QED
      BY <1>5, <2>3, <3>1
  <2> QED
    BY <1>1, <2>1, <2>2, <2>3, RowsSame DEF RetriesHold
<1>9. CASE <<m, t>> \notin consumed
  <2>1. PICK kind \in {"transactional", "marketing"} : kind = IF t THEN Kind(m) ELSE "marketing"
    BY DEF Kind
  <2>2. RecordFailure(m, kind, "bounce", ~t)
    <3>1. RecordFailure(About[e], IF e \in Tagged THEN Kind(About[e]) ELSE "marketing",
                        "bounce", e \notin Tagged)
      BY <1>4, <1>9 DEF Webhook
    <3>2. CASE t
      BY <1>2, <1>3, <1>4, <2>1, <3>1, <3>2
    <3>3. CASE ~t
      BY <1>2, <1>3, <1>4, <2>1, <3>1, <3>3
    <3> QED
      BY <3>2, <3>3
  <2>3. nextId' = nextId + 1
    BY <2>2 DEF RecordFailure
  <2>4. RetriesHold
    BY <1>1, <1>6, <2>3, RetriesStay DEF workerVars
  <2>5. \A it \in Retries' : it.id # nextId
    <3>1. \A it \in Retries : it.id \in Nat /\ it.id < nextId
      BY <1>1, RetriesAreItems, ItemFields DEF RetriesFit, RetryFits
    <3> QED
      BY <1>1, <1>7, <3>1
  <2>6. ASSUME NEW i \in DOMAIN ledger, ledger[i].msg = m, ledger[i].origin = "bounce",
               ledger[i].untagged = ~t
        PROVE  FALSE
    <3>1. <<ledger[i].msg, ~ledger[i].untagged>> \in consumed
      BY <1>1, <2>6 DEF RowsFit, RowFits
    <3>2. CASE t
      BY <1>9, <2>6, <3>1, <3>2
    <3>3. CASE ~t
      BY <1>9, <2>6, <3>1, <3>3
    <3> QED
      BY <3>2, <3>3
  <2>7. <<m, ~(~t)>> \in consumed'
    BY <1>1, <1>4
  <2>8. PICK k \in Seq(Entry) :
          /\ ledger' = k /\ onDisk' = k /\ RowsFit(k)'
          /\ \A x, o : HasOpen(ledger, x, o) => HasOpen(k, x, o)
          /\ kind = "transactional" => HasOpen(k, m, "bounce")
    <3>1. Grows
      BY <2>4 DEF RetriesHold
    <3>2. PICK u \in BOOLEAN : u = ~t
      OBVIOUS
    <3>3. /\ RecordFailure(m, kind, "bounce", u) /\ <<m, ~u>> \in consumed'
          /\ \A i \in DOMAIN ledger :
               ~(ledger[i].msg = m /\ ledger[i].origin = "bounce" /\ ledger[i].untagged = u)
      BY <2>2, <2>6, <2>7, <3>2
    <3> QED
      BY <1>1, <2>5, <3>1, <3>3, RecordIs
  <2>9. Alarm(k)'
    <3>1. PICK l : l = ledger
      OBVIOUS
    <3>2. Alarm(l)
      BY <1>1, <3>1 DEF MailIInv
    <3>3. ASSUME NEW x \in Tickets, NEW o \in {"send", "bounce"}, Owed(x, o)'
          PROVE  HasOpen(k, x, o) \/ (Owed(x, o) /\ (HasOpen(l, x, o) => HasOpen(k, x, o)))
      <4>1. CASE <<x, TRUE>> = <<m, t>> /\ o = "bounce"
        <5>1. x = m /\ t
          BY <4>1
        <5>2. Kind(m) = "transactional"
          BY <5>1 DEF Kind
        <5> QED
          BY <2>1, <2>8, <4>1, <5>1, <5>2
      <4>2. CASE ~(<<x, TRUE>> = <<m, t>> /\ o = "bounce")
        <5>1. Owed(x, o)
          BY <1>5, <3>3, <4>2
        <5> QED
          BY <2>8, <3>1, <5>1
      <4> QED
        BY <4>1, <4>2
    <3> QED
      BY <3>2, <3>3, AlarmStep
  <2> QED
    BY <2>4, <2>8, <2>9, RowsAre
<1> QED
  BY <1>8, <1>9

(* A crash empties the memory; the file keeps every row and its alarm.     *)
LEMMA CrashKeeps ==
  ASSUME MailIInv, Crash \/ \E e \in Envelopes : WebhookCut(e)
  PROVE  RetriesHold /\ RowsHold
<1>1. /\ queue' = <<>> /\ due' = <<>> /\ inFlight' = NoItem /\ ledger' = <<>> /\ running' = FALSE
      /\ phase' = [m \in Msgs |-> IF phase[m] = "sending" THEN "cut" ELSE phase[m]]
      /\ UNCHANGED <<accepted, nextId, onDisk, handled>>
      /\ consumed' = consumed \/ \E e \in Envelopes : consumed' = consumed \union {e}
  BY DEF Crash, WebhookCut
<1>2. RetriesHold
  BY <1>1, RetriesLost DEF MailIInv
<1>3. PICK d : d = onDisk
  OBVIOUS
<1>4. d \in Seq(Entry) /\ RowsFit(d) /\ Alarm(d) /\ onDisk' = d /\ MailTypeOK /\ Grows
  BY <1>1, <1>2, <1>3 DEF MailIInv, MailTypeOK, RetriesHold
<1>5. RowsFit(d)'
  BY <1>4, RowsStay
<1>6. \A x \in Tickets, o \in {"send", "bounce"} : Owed(x, o)' => Owed(x, o)
  <2> SUFFICES ASSUME NEW x \in Tickets, NEW o \in {"send", "bounce"}, Owed(x, o)'
               PROVE  Owed(x, o)
    OBVIOUS
  <2>1. x \in Msgs /\ \A e \in Envelopes : <<x, TRUE>> # e
    BY KeyIsNoEnvelope DEF Msgs
  <2>2. PICK p : p = <<x, TRUE>>
    OBVIOUS
  <2>3. p \in consumed' => p \in consumed
    BY <1>1, <2>1, <2>2
  <2>4. phase'[x] = "abandoned" => phase[x] = "abandoned"
    BY <1>1, <2>1
  <2> QED
    BY <1>1, <2>2, <2>3, <2>4 DEF Owed
<1>7. Alarm(d)'
  BY <1>4, <1>6, AlarmStep
<1>8. PICK k : k = <<>> /\ k \in Seq(Entry)
  BY EmptySeq
<1>9. RowsFit(k)'
  BY <1>8 DEF RowsFit, Unrepeated
<1> QED
  BY <1>1, <1>2, <1>4, <1>5, <1>7, <1>8, <1>9, RowsAre

LEMMA StartKeeps ==
  ASSUME MailIInv, Start
  PROVE  RetriesHold /\ RowsHold
<1>1. /\ ledger' = onDisk
      /\ UNCHANGED <<phase, accepted, onDisk, nextId, queue, due, inFlight, consumed, handled>>
  BY DEF Start, workerVars
<1>2. RetriesHold
  BY <1>1, RetriesStay DEF MailIInv, RetriesFit, SendFits, workerVars, MailTypeOK
<1>3. PICK d : d = onDisk
  OBVIOUS
<1>4. d \in Seq(Entry) /\ RowsFit(d) /\ Alarm(d) /\ onDisk' = d /\ ledger' = d /\ MailTypeOK /\ Grows
  BY <1>1, <1>2, <1>3 DEF MailIInv, MailTypeOK, RetriesHold
<1>5. RowsFit(d)'
  BY <1>4, RowsStay
<1>6. \A x \in Tickets, o \in {"send", "bounce"} : Owed(x, o)' => Owed(x, o)
  BY <1>1 DEF Owed
<1>7. Alarm(d)'
  BY <1>4, <1>6, AlarmStep
<1> QED
  BY <1>2, <1>4, <1>5, <1>7, RowsAre

(* The erasure works on the file, behind the server's back: the ledger in  *)
(* memory still owes no less.                                              *)
LEMMA EraseKeeps ==
  ASSUME MailIInv, NEW a \in Addressees, Erase(a)
  PROVE  RetriesHold /\ RowsHold
<1>1. /\ onDisk' = Redact(onDisk, a)
      /\ handled' = handled \union
           {<<e.msg, e.origin>> : e \in {x \in ToSet(onDisk) : a \in x.plain /\ IsOpen(x)}}
      /\ UNCHANGED <<phase, accepted, ledger, nextId, queue, due, inFlight, consumed, running>>
  BY DEF Erase, workerVars
<1>2. RetriesHold
  BY <1>1, RetriesStay DEF MailIInv, RetriesFit, SendFits, workerVars, MailTypeOK
<1>3. PICK d : d = onDisk
  OBVIOUS
<1>4. PICK k : k = ledger
  OBVIOUS
<1>5. PICK n : n = Redact(d, a)
  OBVIOUS
<1>6. /\ d \in Seq(Entry) /\ RowsFit(d) /\ Alarm(d) /\ MailTypeOK /\ Grows
      /\ k \in Seq(Entry) /\ RowsFit(k) /\ (running => Alarm(k))
  BY <1>2, <1>3, <1>4 DEF MailIInv, MailTypeOK, RetriesHold
<1>7. RowsFit(d)' /\ RowsFit(k)'
  BY <1>6, RowsStay
<1>8. /\ Stems(n, d)
      /\ \A m, o : HasOpen(d, m, o) =>
           \/ HasOpen(n, m, o)
           \/ \E i \in DOMAIN d : a \in d[i].plain /\ IsOpen(d[i]) /\ d[i].msg = m /\ d[i].origin = o
  BY <1>5, <1>6, RedactIs
<1>9. n \in Seq(Entry) /\ RowsFit(n)'
  BY <1>7, <1>8, RowsStem DEF Stems
<1>10. \A x \in Tickets, o \in {"send", "bounce"} : Owed(x, o)' => Owed(x, o)
  BY <1>1 DEF Owed
<1>11. Alarm(n)'
  <2>1. ASSUME NEW m \in Tickets, NEW o \in {"send", "bounce"}, Owed(m, o)'
        PROVE  HasOpen(n, m, o) \/ (Owed(m, o) /\ (HasOpen(d, m, o) => HasOpen(n, m, o)))
    <3>1. Owed(m, o) /\ <<m, o>> \notin handled'
      BY <1>10, <2>1 DEF Owed
    <3>2. ASSUME NEW i \in DOMAIN d, a \in d[i].plain, IsOpen(d[i]), d[i].msg = m, d[i].origin = o
          PROVE  FALSE
      <4>1. d[i] \in ToSet(onDisk)
        BY <1>3 DEF ToSet
      <4> QED
        BY <1>1, <3>1, <3>2, <4>1
    <3> QED
      BY <1>8, <3>1, <3>2
  <2> QED
    BY <1>6, <2>1, AlarmStep
<1>12. running' => Alarm(k)'
  <2> SUFFICES ASSUME running' PROVE Alarm(k)'
    OBVIOUS
  <2>1. Alarm(k)
    BY <1>1, <1>6
  <2> QED
    BY <1>10, <2>1, AlarmStep
<1> QED
  BY <1>1, <1>2, <1>3, <1>4, <1>5, <1>6, <1>7, <1>9, <1>11, <1>12, RowsAre

LEMMA MailTypeStep ==
  ASSUME MailTypeOK, MailNext, RetriesHold, RowsHold
  PROVE  MailTypeOK'
<1> DEFINE Phases == {"new", "sending", "sent", "abandoned", "cut"}
           Typed(p, a, c, h) == /\ p \in [Msgs -> Phases] /\ a \in [Msgs -> Nat]
                                /\ c \subseteq Envelopes \union (Msgs \X BOOLEAN)
                                /\ h \subseteq Msgs \X {"send", "bounce"}
<1>1. Typed(phase, accepted, consumed, handled)
  BY DEF MailTypeOK
<1>2. \A l \in {ledger, onDisk} : \A x \in ToSet(l) : <<x.msg, x.origin>> \in Msgs \X {"send", "bounce"}
  <2> SUFFICES ASSUME NEW l \in Seq(Entry), NEW x \in ToSet(l)
               PROVE  <<x.msg, x.origin>> \in Msgs \X {"send", "bounce"}
    BY DEF MailTypeOK
  <2>1. x \in Entry
    BY LenProperties DEF ToSet
  <2> QED
    BY <2>1, EntryFields
<1>3. CASE \E m \in Msgs : StartSend(m) \/ SendOk(m) \/ Abandon(m, TRUE) \/ Abandon(m, FALSE)
  <2>1. PICK m \in Msgs : StartSend(m) \/ SendOk(m) \/ Abandon(m, TRUE) \/ Abandon(m, FALSE)
    BY <1>3
  <2>2. /\ consumed' = consumed /\ handled' = handled /\ UNCHANGED bounds
        /\ \E p \in Phases : phase' = [phase EXCEPT ![m] = p]
        /\ accepted' = accepted \/ accepted' = [accepted EXCEPT ![m] = @ + 1]
    BY <2>1 DEF StartSend, SendOk, Abandon
  <2>3. phase' \in [Msgs -> Phases] /\ accepted' \in [Msgs -> Nat]
    BY <1>1, <2>2
  <2> QED
    BY <1>1, <2>2, <2>3 DEF MailTypeOK, RetriesHold, RowsHold, Grows, bounds
<1>4. CASE TakeDue \/ RetryFails(TRUE) \/ RetryFails(FALSE) \/ Start
  <2>1. UNCHANGED <<phase, accepted, consumed, handled, crashes, erased>> /\ running' \in BOOLEAN
    BY <1>4 DEF TakeDue, RetryFails, Start, bounds, MailTypeOK
  <2> QED
    BY <2>1 DEF MailTypeOK, RetriesHold, RowsHold, Grows
<1>5. CASE RetryOk
  <2>1. /\ UNCHANGED <<phase, consumed, handled, bounds>> /\ inFlight # NoItem
        /\ accepted' = [accepted EXCEPT ![inFlight.msg] = @ + 1]
    BY <1>5 DEF RetryOk
  <2>2. inFlight.msg \in Msgs
    BY <2>1, ItemFields DEF MailTypeOK
  <2>3. accepted' \in [Msgs -> Nat]
    BY <1>1, <2>1, <2>2
  <2> QED
    BY <2>1, <2>3 DEF MailTypeOK, RetriesHold, RowsHold, Grows, bounds
<1>6. CASE \E S \in SUBSET OpenIds(ledger) \ {{}} : Resolve(S)
  <2>1. PICK S : Resolve(S)
    BY <1>6
  <2>2. /\ UNCHANGED <<phase, accepted, consumed, bounds>>
        /\ handled' = handled \union Closes(ledger, S)
    BY <2>1 DEF Resolve
  <2>3. Closes(ledger, S) \subseteq Msgs \X {"send", "bounce"}
    BY <1>2 DEF Closes
  <2> QED
    BY <1>1, <2>2, <2>3 DEF MailTypeOK, RetriesHold, RowsHold, Grows, bounds
<1>7. CASE \E e \in Envelopes : Webhook(e)
  <2>1. PICK e \in Envelopes : Webhook(e)
    BY <1>7
  <2>2. UNCHANGED <<phase, accepted, handled, bounds>> /\ consumed' = consumed \union {e, LedgerKey(e)}
    BY <2>1 DEF Webhook
  <2>3. LedgerKey(e) \in Msgs \X BOOLEAN
    <3>1. About[e] \in Msgs /\ (e \in Tagged) \in BOOLEAN
      BY MailAssumption
    <3> QED
      BY <3>1 DEF LedgerKey
  <2> QED
    BY <1>1, <2>2, <2>3 DEF MailTypeOK, RetriesHold, RowsHold, Grows, bounds
<1>8. CASE Crash \/ \E e \in Envelopes : WebhookCut(e)
  <2>1. /\ running' = FALSE /\ crashes < MaxCrashes /\ crashes' = crashes + 1
        /\ UNCHANGED <<accepted, handled, erased>>
        /\ phase' = [m \in Msgs |-> IF phase[m] = "sending" THEN "cut" ELSE phase[m]]
        /\ consumed' = consumed \/ \E e \in Envelopes : consumed' = consumed \union {e}
    BY <1>8 DEF Crash, WebhookCut
  <2>2. phase' \in [Msgs -> Phases] /\ consumed' \subseteq Envelopes \union (Msgs \X BOOLEAN)
    BY <1>1, <2>1
  <2>3. crashes' \in 0..MaxCrashes
    BY <2>1, MailAssumption DEF MailTypeOK
  <2> QED
    BY <1>1, <2>1, <2>2, <2>3 DEF MailTypeOK, RetriesHold, RowsHold, Grows
<1>9. CASE \E a \in Addressees : Erase(a)
  <2>1. PICK a : Erase(a)
    BY <1>9
  <2>2. /\ UNCHANGED <<phase, accepted, consumed, running, crashes>>
        /\ erased < MaxErased /\ erased' = erased + 1
        /\ handled' = handled \union
             {<<e.msg, e.origin>> : e \in {x \in ToSet(onDisk) : a \in x.plain /\ IsOpen(x)}}
    BY <2>1 DEF Erase
  <2>3. erased' \in 0..MaxErased
    BY <2>2, MailAssumption DEF MailTypeOK
  <2>4. handled' \subseteq Msgs \X {"send", "bounce"}
    BY <1>1, <1>2, <2>2
  <2> QED
    BY <1>1, <2>2, <2>3, <2>4 DEF MailTypeOK, RetriesHold, RowsHold, Grows
<1> QED
  BY <1>3, <1>4, <1>5, <1>6, <1>7, <1>8, <1>9 DEF MailNext, WorkerStep

LEMMA MailStep == ASSUME MailIInv, MailNext PROVE MailIInv'
<1>1. RetriesHold /\ RowsHold
  <2>1. ASSUME NEW m \in Msgs, StartSend(m) \/ SendOk(m) \/ Abandon(m, TRUE) \/ Abandon(m, FALSE)
        PROVE  RetriesHold /\ RowsHold
    BY <2>1, StartSendKeeps, SendOkKeeps, AbandonKeeps
  <2>2. CASE WorkerStep
    BY <2>2, TakeDueKeeps, RetryOkKeeps, RetryFailsKeeps DEF WorkerStep
  <2>3. ASSUME NEW S, Resolve(S) PROVE RetriesHold /\ RowsHold
    BY <2>3, ResolveKeeps
  <2>4. ASSUME NEW e \in Envelopes, Webhook(e) \/ WebhookCut(e) PROVE RetriesHold /\ RowsHold
    BY <2>4, WebhookKeeps, CrashKeeps
  <2>5. CASE Crash \/ Start
    BY <2>5, CrashKeeps, StartKeeps
  <2>6. ASSUME NEW a \in Addressees, Erase(a) PROVE RetriesHold /\ RowsHold
    BY <2>6, EraseKeeps
  <2> QED
    BY <2>1, <2>2, <2>3, <2>4, <2>5, <2>6 DEF MailNext
<1>2. MailTypeOK'
  BY <1>1, MailTypeStep DEF MailIInv
<1> QED
  BY <1>1, <1>2 DEF MailIInv, RetriesHold, RowsHold

LEMMA MailStutter == ASSUME MailIInv, UNCHANGED mailVars PROVE MailIInv'
<1>1. MailTypeOK'
  BY DEF MailIInv, MailTypeOK, mailVars
<1>2. UNCHANGED <<phase, accepted, ledger, onDisk, queue, due, inFlight, consumed, handled, nextId, running>>
  BY DEF mailVars
<1>3. \A m \in Msgs : SendFits(m)'
  BY <1>2 DEF MailIInv, RetriesFit, SendFits
<1>4. RetriesHold
  BY <1>2, <1>3, RetriesStay DEF MailIInv, MailTypeOK, workerVars
<1>5. \A m \in Tickets, o \in {"send", "bounce"} : Owed(m, o)' => Owed(m, o)
  BY <1>2 DEF Owed
<1>6. RowsHold
  BY <1>2, <1>4, <1>5, RowsSame DEF RetriesHold
<1> QED
  BY <1>1, <1>4, <1>6 DEF MailIInv, RetriesHold, RowsHold

LEMMA MailStart == MailInit => MailIInv
<1> SUFFICES ASSUME MailInit PROVE MailIInv
  OBVIOUS
<1>1. MailTypeOK
  BY MailAssumption, EmptySeq DEF MailInit, MailTypeOK
<1>2. RetriesFit
  BY DEF MailInit, RetriesFit, OneRetryEach, Alone, Apart, Retries, ToSet, SendFits
<1>3. RowsFit(ledger) /\ RowsFit(onDisk)
  BY DEF MailInit, RowsFit, Unrepeated
<1>4. Alarm(onDisk) /\ Alarm(ledger)
  BY DEF MailInit, Alarm, Owed, Msgs
<1> QED
  BY <1>1, <1>2, <1>3, <1>4 DEF MailIInv

(* In every reachable state of the mail ledger each message has at most    *)
(* one retry, its rows tell incidents apart, and the file and the ledger   *)
(* owe no alarm.                                                           *)
THEOREM MailInvariance == MailSpec => []MailIInv
<1>1. MailIInv /\ [MailNext]_mailVars => MailIInv'
  BY MailStep, MailStutter
<1> QED
  BY <1>1, MailStart, PTL DEF MailSpec

(* DeliveredOnce, in every reachable state: an automatic retry is never    *)
(* made of a message the provider took, however failures, crashes, hand    *)
(* resolutions and bounces interleave.                                     *)
THEOREM DeliveredOnceHolds == MailSpec => []DeliveredOnce
<1>1. MailIInv => DeliveredOnce
  BY DEF MailIInv, RetriesFit, SendFits, DeliveredOnce
<1> QED
  BY <1>1, MailInvariance, PTL

(* OneRowPerIncident, in every reachable state: no retry, redelivery,      *)
(* second topic or restart gives an incident a second row.                 *)
THEOREM OneRowPerIncidentHolds == MailSpec => []OneRowPerIncident
<1>1. ASSUME MailIInv PROVE OneRowPerIncident
  <2> SUFFICES ASSUME NEW i \in DOMAIN ledger, NEW j \in DOMAIN ledger, i # j
               PROVE  <<ledger[i].msg, ledger[i].origin, ledger[i].untagged>>
                        # <<ledger[j].msg, ledger[j].origin, ledger[j].untagged>>
    BY DEF OneRowPerIncident
  <2> QED
    BY <1>1 DEF MailIInv, RowsFit, Unrepeated, SameIncident
<1> QED
  BY <1>1, MailInvariance, PTL

(* LostTicketAlarms, in every reachable state: pruning, other failures,    *)
(* erasures and restarts never take the open row of a ticket that nobody   *)
(* received and nobody has handled.                                        *)
THEOREM LostTicketAlarmsHolds == MailSpec => []LostTicketAlarms
<1>1. ASSUME MailIInv PROVE LostTicketAlarms
  <2>1. ASSUME running, NEW m \in Tickets, NEW o \in {"send", "bounce"}, Owed(m, o)
        PROVE  \E e \in ToSet(ledger) :
                 e.msg = m /\ e.origin = o /\ e.kind = "transactional" /\ IsOpen(e)
    <3>1. HasOpen(ledger, m, o)
      BY <1>1, <2>1 DEF MailIInv, Alarm
    <3> QED
      BY <3>1 DEF HasOpen, Protected, ToSet
  <2> QED
    BY <2>1 DEF LostTicketAlarms, Owed
<1> QED
  BY <1>1, MailInvariance, PTL
=============================================================================
