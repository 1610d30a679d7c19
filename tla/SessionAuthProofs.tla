--------------------------- MODULE SessionAuthProofs ---------------------------
(***************************************************************************)
(* What is proved of SessionAuth, for any keys, sessions, requests and     *)
(* bounds: its types, that the record is the chain's, that a grant is      *)
(* never to a key that the record shows to have been replaced, and that a  *)
(* revoked session stays out.                                              *)
(***************************************************************************)
EXTENDS SessionAuth, TLAPS

\* What a cached read says was so on the chain, and does not contradict the record.
CacheIsTrue ==
  cache # Unread =>
    /\ cache.block \in 1..Tip /\ chain[cache.block] = cache.owner
    /\ Ordered => cache.owner = record.owner \/ cache.block > record.block

RecordIsKnown == Ordered => record.known /\ record.block <= Tip

\* A request in progress is one of a signed session, and the record has not moved
\* back since it came.
RequestsFollow ==
  \A r \in Requests :
    req[r] # Idle => session[req[r].s] # NoSession /\ req[r].seen <= record.block

AInv == AuthTypeOK /\ RecordIsTrue /\ CacheIsTrue /\ RecordIsKnown /\ RequestsFollow
        /\ GrantIsCurrent
-----------------------------------------------------------------------------
LEMMA InitInv == AuthInit => AInv
<1> SUFFICES ASSUME AuthInit PROVE AInv
  OBVIOUS
<1> USE AuthAssumption
<1>1. chain \in Seq(Owners) /\ Tip = 1 /\ ~Ordered
  <2>1. CASE chain = <<NoOwner>> /\ record = Unknown
    BY <2>1 DEF Owners, Tip, Ordered, Unknown
  <2>2. CASE chain = <<BirthKey>> /\ record \in {Unknown, KnownOnly}
    BY <2>2 DEF Owners, Tip, Ordered, Unknown, KnownOnly
  <2> QED BY <2>1, <2>2 DEF AuthInit
<1>0. NoOwner \in Owners /\ 0 \in 0..MaxBlock /\ 0 \in 0..MaxClock /\ 1 \in 0..MaxClock /\ 1 \in 1..MaxBlock
  BY DEF Owners
<1>2. record \in [known: BOOLEAN, owner: Owners, block: 0..MaxBlock]
  <2>1. record = Unknown \/ record = KnownOnly
    BY DEF AuthInit
  <2>2. Unknown \in [known: BOOLEAN, owner: Owners, block: 0..MaxBlock]
    BY <1>0 DEF Unknown
  <2>3. KnownOnly \in [known: BOOLEAN, owner: Owners, block: 0..MaxBlock]
    BY <1>0 DEF KnownOnly
  <2> QED BY <2>1, <2>2, <2>3
<1>3. AuthTypeOK
  <2>1. cache \in Read /\ asking \in BOOLEAN
    BY <1>0 DEF AuthInit, Unread, Read
  <2>2. session \in [Sessions -> Delegation \union {NoSession}]
    BY DEF AuthInit
  <2>3. req \in [Requests -> Waiting \union {Idle}]
    BY DEF AuthInit
  <2>4. clock \in 0..MaxClock /\ allBefore \in 0..MaxClock /\ barred \subseteq Sessions /\ outlawed \subseteq Sessions
    BY <1>0 DEF AuthInit
  <2> QED BY <1>0, <1>1, <1>2, <2>1, <2>2, <2>3, <2>4 DEF AuthTypeOK
<1>4. CacheIsTrue /\ RecordIsTrue /\ RecordIsKnown
  BY <1>1 DEF AuthInit, CacheIsTrue, RecordIsTrue, RecordIsKnown
<1>5. RequestsFollow /\ GrantIsCurrent
  BY DEF AuthInit, RequestsFollow, GrantIsCurrent, Granted, Idle
<1> QED BY <1>3, <1>4, <1>5 DEF AInv

\* A grant made with the answer o is to a key that has been the owner since the
\* record's last change, or, with no answer and nothing on record, to the first key.
LEMMA GrantsFollow ==
  ASSUME AInv, NEW o \in Owners, Judged(Readers, o),
         record' \in [known: BOOLEAN, owner: Owners, block: 0..MaxBlock],
         record'.block >= record.block, record.block > 0 => record'.known,
         o # NoOwner => \E b \in 1..Tip : chain[b] = o /\ b >= record.block,
         UNCHANGED <<chain, session>>
  PROVE  req' \in [Requests -> Waiting \union {Idle}] /\ RequestsFollow' /\ GrantIsCurrent'
<1> USE AuthAssumption
<1>1. req \in [Requests -> Waiting \union {Idle}]
  BY DEF AInv, AuthTypeOK
<1>2. ASSUME NEW r \in Requests
      PROVE  \/ req'[r] = req[r]
             \/ req'[r] = Idle
             \/ /\ req[r].at = "reading" /\ req'[r] = [req[r] EXCEPT !.at = "granted"]
                /\ Owns(session[req[r].s].key, o)
  BY DEF Judged, Readers, LetsIn
<1>3. req' \in [Requests -> Waiting \union {Idle}]
  <2>1. ASSUME NEW r \in Requests PROVE req'[r] \in Waiting \union {Idle}
    <3>1. CASE req'[r] \in {req[r], Idle}
      BY <1>1, <3>1
    <3>2. CASE req[r].at = "reading" /\ req'[r] = [req[r] EXCEPT !.at = "granted"]
      <4>1. req[r] \in Waiting
        BY <1>1, <3>2 DEF Idle
      <4> QED BY <3>2, <4>1 DEF Waiting
    <3> QED BY <1>2, <3>1, <3>2
  <2> QED BY <2>1 DEF Judged
<1>4. ASSUME NEW r \in Requests, req'[r] # Idle
      PROVE  req[r] # Idle /\ req[r] \in Waiting /\ req'[r].s = req[r].s /\ req'[r].seen = req[r].seen
  <2>1. CASE req'[r] = req[r]
    BY <1>1, <1>4, <2>1
  <2>2. CASE req[r].at = "reading" /\ req'[r] = [req[r] EXCEPT !.at = "granted"]
    <3>1. req[r] \in Waiting /\ req[r] # Idle
      BY <1>1, <2>2 DEF Idle
    <3> QED BY <2>2, <3>1 DEF Waiting
  <2> QED BY <1>2, <1>4, <2>1, <2>2
<1>5. RequestsFollow'
  <2> SUFFICES ASSUME NEW r \in Requests, req'[r] # Idle
               PROVE  session'[req'[r].s] # NoSession /\ req'[r].seen <= record'.block
    BY DEF RequestsFollow
  <2>1. session[req[r].s] # NoSession /\ req[r].seen <= record.block
    BY <1>4 DEF AInv, RequestsFollow
  <2> QED BY <1>4, <2>1 DEF AInv, AuthTypeOK, Waiting
<1>6. GrantIsCurrent'
  <2> SUFFICES ASSUME NEW r \in Requests, req'[r].at = "granted"
               PROVE  LET k == session[req'[r].s].key
                      IN  IF req'[r].seen > 0
                          THEN \E b \in req'[r].seen..Tip : chain[b] = k
                          ELSE k = BirthKey \/ \E b \in 1..Tip : chain[b] = k
    BY DEF GrantIsCurrent, Granted, Tip
  <2> DEFINE k == session[req[r].s].key
  <2>0. req'[r] # Idle
    BY DEF Idle
  <2>1. req[r] \in Waiting /\ req'[r].s = req[r].s /\ req'[r].seen = req[r].seen
    BY <1>4, <2>0
  <2>2. CASE req'[r] = req[r]
    BY <2>2 DEF AInv, GrantIsCurrent, Granted
  <2>3. CASE req[r].at = "reading" /\ Owns(k, o)
    <3>1. req[r].seen <= record.block /\ req[r].seen \in Nat /\ record.block \in Nat
      BY <2>1, <2>3 DEF AInv, RequestsFollow, AuthTypeOK, Waiting, Idle
    <3>2. CASE o # NoOwner
      <4>1. PICK b \in 1..Tip : chain[b] = k /\ b >= record.block
        BY <2>3, <3>2 DEF Owns
      <4>2. Tip \in Nat
        BY DEF AInv, AuthTypeOK
      <4>3. req[r].seen > 0 => b \in req[r].seen..Tip
        BY <3>1, <4>1, <4>2
      <4> QED BY <2>1, <4>1, <4>3
    <3>3. CASE o = NoOwner
      <4>1. ~record'.known /\ k = BirthKey
        BY <2>3, <3>3 DEF Owns
      <4>2. req[r].seen = 0
        BY <3>1, <4>1
      <4> QED BY <2>1, <4>1, <4>2
    <3> QED BY <3>2, <3>3
  <2> QED BY <1>2, <2>0, <2>2, <2>3
<1> QED BY <1>3, <1>5, <1>6

\* What a read that is not stale leaves on the record.
LEMMA RecordMoves ==
  ASSUME AInv, NEW b \in 1..Tip, NEW keys,
         ~Stale([owner |-> chain[b], block |-> b]),
         record' = Recorded([owner |-> chain[b], block |-> b], keys), chain' = chain
  PROVE  /\ record' \in [known: BOOLEAN, owner: Owners, block: 0..MaxBlock]
         /\ record'.block >= record.block
         /\ record.block > 0 => record'.known
         /\ RecordIsTrue' /\ RecordIsKnown'
         /\ record'.block > 0 =>
              \/ chain[b] = record'.owner
              \/ b > record'.block
         /\ \E c \in 1..Tip : chain[c] = chain[b] /\ c >= record.block
<1> DEFINE rd == [owner |-> chain[b], block |-> b]
<1>1. /\ chain \in Seq(Owners) /\ Tip \in 1..MaxBlock /\ Tip = Len(chain) /\ MaxBlock \in Nat
      /\ record \in [known: BOOLEAN, owner: Owners, block: 0..MaxBlock]
  BY AuthAssumption DEF AInv, AuthTypeOK, Tip
<1>2. b \in Nat /\ b > 0 /\ b <= MaxBlock /\ chain[b] \in Owners /\ rd.owner = chain[b] /\ rd.block = b
  BY <1>1
<1>3. CASE record' = record
  <2>1. RecordIsTrue' /\ RecordIsKnown' /\ (record.block > 0 => record'.known)
    BY <1>3 DEF AInv, RecordIsTrue, RecordIsKnown, Ordered, Tip
  <2>2. CASE ~Ordered
    BY <1>1, <1>2, <1>3, <2>1, <2>2 DEF Ordered
  <2>3. CASE Ordered
    <3>1. record.block \in 1..Tip /\ chain[record.block] = record.owner
      BY <1>1, <2>3 DEF AInv, RecordIsTrue, RecordIsKnown, Ordered
    <3>2. chain[b] = record.owner \/ b > record.block
      BY <1>1, <1>2, <2>3 DEF Stale
    <3>3. \E c \in 1..Tip : chain[c] = chain[b] /\ c >= record.block
      BY <1>1, <1>2, <3>1, <3>2
    <3> QED BY <1>1, <1>3, <2>1, <3>2, <3>3
  <2> QED BY <2>2, <2>3
<1>4. CASE record' # record
  <2>1. record' = [known |-> TRUE, owner |-> chain[b], block |-> b]
    BY <1>4 DEF Recorded
  <2>2. Ordered => b > record.block
    BY <1>1, <1>2, <1>4 DEF Recorded, Stale
  <2>3. record.block <= b
    BY <1>1, <1>2, <2>2 DEF Ordered
  <2>4. RecordIsTrue' /\ RecordIsKnown'
    BY <1>1, <1>2, <2>1 DEF RecordIsTrue, RecordIsKnown, Ordered, Tip
  <2>5. record' \in [known: BOOLEAN, owner: Owners, block: 0..MaxBlock] /\ record'.known
        /\ record'.block = b /\ record'.owner = chain[b]
    <3>1. b \in 0..MaxBlock
      BY <1>1, <1>2
    <3>2. [known |-> TRUE, owner |-> chain[b], block |-> b]
            \in [known: BOOLEAN, owner: Owners, block: 0..MaxBlock]
      BY <1>2, <3>1
    <3>3. record'.known /\ record'.block = b /\ record'.owner = chain[b]
      BY <2>1
    <3> QED BY <2>1, <3>2, <3>3
  <2>6. \E c \in 1..Tip : chain[c] = chain[b] /\ c >= record.block
    BY <1>1, <1>2, <2>3
  <2> QED BY <2>3, <2>4, <2>5, <2>6
<1> QED BY <1>3, <1>4

LEMMA AnswerKeeps ==
  ASSUME AInv, NEW b \in 1..Tip, Answer(b)
  PROVE  AInv'
<1> DEFINE rd == [owner |-> chain[b], block |-> b]
           keys == {session[req[r].s].key : r \in Readers}
<1>1. chain \in Seq(Owners) /\ Tip \in 1..MaxBlock /\ Tip = Len(chain) /\ MaxBlock \in Nat
  BY AuthAssumption DEF AInv, AuthTypeOK, Tip
<1>2. b \in Nat /\ b > 0 /\ b <= MaxBlock /\ chain[b] \in Owners
  BY <1>1
<1>3. CASE ~Stale(rd) /\ record' = Recorded(rd, keys) /\ cache' = rd /\ Judged(Readers, rd.owner)
  <2>0. UNCHANGED <<chain, session, clock, revocation>> /\ asking' = FALSE
    BY DEF Answer
  <2>1. /\ record' \in [known: BOOLEAN, owner: Owners, block: 0..MaxBlock]
        /\ record'.block >= record.block
        /\ record.block > 0 => record'.known
        /\ RecordIsTrue' /\ RecordIsKnown'
        /\ record'.block > 0 => chain[b] = record'.owner \/ b > record'.block
        /\ \E c \in 1..Tip : chain[c] = chain[b] /\ c >= record.block
    BY <1>3, <2>0, RecordMoves
  <2>2. rd.owner \in Owners /\ rd.owner = chain[b] /\ Judged(Readers, rd.owner)
    BY <1>2, <1>3
  <2>3. rd.owner # NoOwner => \E c \in 1..Tip : chain[c] = rd.owner /\ c >= record.block
    BY <2>1, <2>2
  <2> HIDE DEF rd
  <2>4. req' \in [Requests -> Waiting \union {Idle}] /\ RequestsFollow' /\ GrantIsCurrent'
    BY <2>0, <2>1, <2>2, <2>3, GrantsFollow
  <2> USE DEF rd
  <2>5. cache' \in Read /\ CacheIsTrue'
    <3>1. cache' = rd /\ chain' = chain /\ Tip' = Tip /\ rd.block = b /\ rd.owner = chain[b]
      BY <1>3, <2>0 DEF Tip
    <3>2. rd \in Read
      BY <1>1, <1>2 DEF Read
    <3> HIDE DEF rd
    <3>3. CacheIsTrue'
      BY <2>1, <3>1 DEF CacheIsTrue, Ordered
    <3> QED
      BY <3>1, <3>2, <3>3
  <2>6. AuthTypeOK'
    BY <2>0, <2>1, <2>4, <2>5 DEF AInv, AuthTypeOK, revocation, Tip
  <2> QED BY <2>1, <2>4, <2>5, <2>6 DEF AInv
<1>4. CASE UNCHANGED <<record, cache>> /\ Judged(Readers, NoOwner)
  <2>0. UNCHANGED <<chain, session, clock, revocation>> /\ asking' = FALSE
    BY DEF Answer
  <2>1. NoOwner \in Owners /\ (record.block > 0 => record.known) /\ record.block \in Nat
        /\ record \in [known: BOOLEAN, owner: Owners, block: 0..MaxBlock]
    BY DEF AInv, RecordIsKnown, Ordered, Owners, AuthTypeOK
  <2>2. req' \in [Requests -> Waiting \union {Idle}] /\ RequestsFollow' /\ GrantIsCurrent'
    BY <1>4, <2>0, <2>1, GrantsFollow
  <2>3. AuthTypeOK'
    BY <1>4, <2>0, <2>2 DEF AInv, AuthTypeOK, revocation, Tip
  <2>4. RecordIsTrue' /\ CacheIsTrue' /\ RecordIsKnown'
    BY <1>4, <2>0 DEF AInv, RecordIsTrue, CacheIsTrue, RecordIsKnown, Ordered, Tip
  <2> QED BY <2>2, <2>3, <2>4 DEF AInv
<1> QED BY <1>3, <1>4 DEF Answer

LEMMA ReadFailsKeeps ==
  ASSUME AInv, ReadFails
  PROVE  AInv'
<1>0. UNCHANGED <<chain, record, cache, session, clock, revocation>> /\ asking' = FALSE
      /\ Judged(Readers, NoOwner)
  BY DEF ReadFails
<1>1. NoOwner \in Owners /\ (record.block > 0 => record.known) /\ record.block \in Nat
      /\ record \in [known: BOOLEAN, owner: Owners, block: 0..MaxBlock]
  BY DEF AInv, RecordIsKnown, Ordered, Owners, AuthTypeOK
<1>2. req' \in [Requests -> Waiting \union {Idle}] /\ RequestsFollow' /\ GrantIsCurrent'
  BY <1>0, <1>1, GrantsFollow
<1>3. AuthTypeOK'
  BY <1>0, <1>2 DEF AInv, AuthTypeOK, revocation, Tip
<1>4. RecordIsTrue' /\ CacheIsTrue' /\ RecordIsKnown'
  BY <1>0 DEF AInv, RecordIsTrue, CacheIsTrue, RecordIsKnown, Ordered, Tip
<1> QED BY <1>2, <1>3, <1>4 DEF AInv

\* A step that leaves chain, record and sessions alone, and lets nobody in.
LEMMA QuietKeeps ==
  ASSUME AInv, UNCHANGED <<chain, record, session>>,
         cache' \in {cache, Unread}, asking' \in BOOLEAN,
         clock' \in 0..MaxClock, allBefore' \in 0..MaxClock,
         barred' \subseteq Sessions, outlawed' \subseteq Sessions,
         req' \in [Requests -> Waiting \union {Idle}],
         \A r \in Requests :
           \/ req'[r] \in {req[r], Idle}
           \/ /\ req'[r].at = "reading" /\ session[req'[r].s] # NoSession
              /\ req'[r].seen <= record.block
  PROVE  AInv'
<1>1. Unread \in Read
  BY AuthAssumption DEF Unread, Read, Owners
<1>2. AuthTypeOK'
  BY <1>1 DEF AInv, AuthTypeOK, Tip
<1>3. RecordIsTrue' /\ RecordIsKnown'
  BY DEF AInv, RecordIsTrue, RecordIsKnown, Ordered, Tip
<1>4. CacheIsTrue'
  BY DEF AInv, CacheIsTrue, Ordered, Tip
<1>5. RequestsFollow'
  BY DEF AInv, RequestsFollow
<1>6. GrantIsCurrent'
  <2> SUFFICES ASSUME NEW r \in Requests, req'[r].at = "granted"
               PROVE  LET k == session[req'[r].s].key
                      IN  IF req'[r].seen > 0
                          THEN \E b \in req'[r].seen..Tip : chain[b] = k
                          ELSE k = BirthKey \/ \E b \in 1..Tip : chain[b] = k
    BY DEF GrantIsCurrent, Granted, Tip
  <2>1. req'[r] = req[r]
    BY DEF Idle
  <2> QED BY <2>1 DEF AInv, GrantIsCurrent, Granted
<1> QED BY <1>2, <1>3, <1>4, <1>5, <1>6 DEF AInv

LEMMA MineKeeps ==
  ASSUME AInv, NEW o \in Owners, Mine(o)
  PROVE  AInv'
<1>1. /\ chain \in Seq(Owners) /\ Tip \in 1..MaxBlock /\ Tip = Len(chain) /\ MaxBlock \in Nat
      /\ Tip < MaxBlock /\ chain' = Append(chain, o)
      /\ UNCHANGED <<record, cache, asking, req, session, clock, revocation>>
  BY AuthAssumption DEF AInv, AuthTypeOK, Tip, Mine, owner
<1>2. chain' \in Seq(Owners) /\ Tip' = Tip + 1 /\ Tip' \in 1..MaxBlock
  BY <1>1 DEF Tip
<1>3. \A b \in 1..Tip : b \in 1..Tip' /\ chain'[b] = chain[b]
  BY <1>1, <1>2
<1>4. AuthTypeOK'
  BY <1>1, <1>2 DEF AInv, AuthTypeOK, revocation
<1>5. RecordIsKnown' /\ RecordIsTrue'
  <2>1. record.block \in Nat
    BY DEF AInv, AuthTypeOK
  <2> QED BY <1>1, <1>2, <1>3, <2>1 DEF AInv, RecordIsKnown, RecordIsTrue, Ordered
<1>6. CacheIsTrue'
  BY <1>1, <1>3 DEF AInv, CacheIsTrue, Ordered
<1>7. RequestsFollow'
  BY <1>1 DEF AInv, RequestsFollow
<1>8. GrantIsCurrent'
  <2> SUFFICES ASSUME NEW r \in Requests, req[r].at = "granted"
               PROVE  LET k == session[req[r].s].key
                      IN  IF req[r].seen > 0
                          THEN \E b \in req[r].seen..Tip' : chain'[b] = k
                          ELSE k = BirthKey \/ \E b \in 1..Tip' : chain'[b] = k
    BY <1>1 DEF GrantIsCurrent, Granted
  <2>1. req[r] \in Waiting /\ req[r].seen \in Nat
    BY DEF AInv, AuthTypeOK, Idle, Waiting
  <2>2. CASE req[r].seen > 0
    <3>1. PICK b \in req[r].seen..Tip : chain[b] = session[req[r].s].key
      BY <2>2 DEF AInv, GrantIsCurrent, Granted
    <3>2. b \in 1..Tip /\ b \in req[r].seen..Tip'
      BY <1>1, <1>2, <2>1, <2>2, <3>1
    <3> QED BY <1>3, <2>2, <3>1, <3>2
  <2>3. CASE ~(req[r].seen > 0)
    BY <1>3, <2>3 DEF AInv, GrantIsCurrent, Granted
  <2> QED BY <2>2, <2>3
<1> QED BY <1>4, <1>5, <1>6, <1>7, <1>8 DEF AInv

LEMMA MintKeeps ==
  ASSUME AInv, NEW s \in Sessions, NEW k \in Keys, NEW ahead \in 0..MaxAhead, Mint(s, k, ahead)
  PROVE  AInv'
<1> DEFINE d == [key |-> k, signed |-> clock, issued |-> clock + ahead,
                 expires |-> clock + ahead + Life]
<1>1. /\ session[s] = NoSession /\ session' = [session EXCEPT ![s] = d]
      /\ UNCHANGED <<chain, record, cache, asking, req, clock, barred, allBefore, outlawed>>
  BY DEF Mint, owner, revocation
<1>2. d \in Delegation
  BY AuthAssumption DEF AInv, AuthTypeOK, Delegation
<1>3. session \in [Sessions -> Delegation \union {NoSession}]
      /\ req \in [Requests -> Waiting \union {Idle}]
  BY DEF AInv, AuthTypeOK
<1>4. AuthTypeOK'
  BY <1>1, <1>2 DEF AInv, AuthTypeOK, Tip
<1>5. RecordIsTrue' /\ RecordIsKnown' /\ CacheIsTrue'
  BY <1>1 DEF AInv, RecordIsTrue, RecordIsKnown, CacheIsTrue, Ordered, Tip
<1>6. \A r \in Requests :
        req[r] # Idle => /\ req[r] \in Waiting /\ session[req[r].s] # NoSession
                         /\ session'[req[r].s] = session[req[r].s]
  BY <1>1, <1>3 DEF AInv, RequestsFollow, Waiting
<1>7. RequestsFollow'
  BY <1>1, <1>6 DEF AInv, RequestsFollow
<1>8. GrantIsCurrent'
  <2> SUFFICES ASSUME NEW r \in Requests, req[r].at = "granted"
               PROVE  LET key == session'[req[r].s].key
                      IN  IF req[r].seen > 0
                          THEN \E b \in req[r].seen..Tip : chain[b] = key
                          ELSE key = BirthKey \/ \E b \in 1..Tip : chain[b] = key
    BY <1>1 DEF GrantIsCurrent, Granted, Tip
  <2>1. session'[req[r].s] = session[req[r].s]
    BY <1>6 DEF Idle
  <2> QED BY <2>1 DEF AInv, GrantIsCurrent, Granted
<1> QED BY <1>4, <1>5, <1>7, <1>8 DEF AInv

\* A grant to a session of a key that the record does not contradict.
LEMMA LetInKeeps ==
  ASSUME AInv, NEW r \in Requests, NEW s \in Sessions, Fits(r, s),
         UNCHANGED <<chain, cache, asking, session, clock, revocation>>,
         record' \in [known: BOOLEAN, owner: Owners, block: 0..MaxBlock],
         record'.block >= record.block, RecordIsTrue', RecordIsKnown', CacheIsTrue',
         req' \in {req, [req EXCEPT ![r] = Request(s, "granted")]},
         req' # req =>
           LET k == session[s].key
           IN  IF record.block > 0 THEN \E b \in record.block..Tip : chain[b] = k
               ELSE k = BirthKey \/ \E b \in 1..Tip : chain[b] = k
  PROVE  AInv'
<1> DEFINE q == Request(s, "granted")
<1>0. record.block \in Nat /\ record'.block \in Nat /\ record.block \in 0..MaxBlock
      /\ req \in [Requests -> Waiting \union {Idle}]
  BY DEF AInv, AuthTypeOK
<1>1. q \in Waiting /\ q.s = s /\ q.seen = record.block /\ q.at = "granted"
  BY <1>0 DEF Request, Waiting
<1>2. \A i \in Requests : req'[i] = req[i] \/ (i = r /\ req' # req /\ req'[i] = q)
  BY <1>0
<1>3. AuthTypeOK'
  <2>1. req' \in [Requests -> Waiting \union {Idle}]
    BY <1>0, <1>1
  <2> QED BY <2>1 DEF AInv, AuthTypeOK, Tip, revocation
<1>4. RequestsFollow'
  <2> SUFFICES ASSUME NEW i \in Requests, req'[i] # Idle
               PROVE  session[req'[i].s] # NoSession /\ req'[i].seen <= record'.block
    BY DEF RequestsFollow
  <2>1. CASE req'[i] = req[i]
    <3>1. req[i] \in Waiting /\ session[req[i].s] # NoSession /\ req[i].seen <= record.block
      BY <1>0, <2>1 DEF AInv, RequestsFollow
    <3> QED BY <1>0, <2>1, <3>1 DEF Waiting
  <2>2. CASE req'[i] = q
    BY <1>0, <1>1, <2>2 DEF Fits, Current
  <2> QED BY <1>2, <2>1, <2>2
<1>5. GrantIsCurrent'
  <2> SUFFICES ASSUME NEW i \in Requests, req'[i].at = "granted"
               PROVE  LET k == session[req'[i].s].key
                      IN  IF req'[i].seen > 0
                          THEN \E b \in req'[i].seen..Tip : chain[b] = k
                          ELSE k = BirthKey \/ \E b \in 1..Tip : chain[b] = k
    BY DEF GrantIsCurrent, Granted, Tip
  <2>1. CASE req'[i] = req[i]
    BY <2>1 DEF AInv, GrantIsCurrent, Granted
  <2>2. CASE req' # req /\ req'[i] = q
    BY <1>1, <2>2
  <2> QED BY <1>2, <2>1, <2>2
<1> QED BY <1>3, <1>4, <1>5 DEF AInv

LEMMA ConfirmedKeeps ==
  ASSUME AInv, NEW r \in Requests, NEW s \in Sessions, Confirmed(r, s)
  PROVE  AInv'
<1> DEFINE k == session[s].key
<1>0. /\ Fits(r, s) /\ CacheConfirms(s) /\ cache # Unread
      /\ UNCHANGED <<chain, cache, asking, session, clock, revocation>>
      /\ req' \in {req, [req EXCEPT ![r] = Request(s, "granted")]}
  BY DEF Confirmed, CacheConfirms
<1>1. /\ chain \in Seq(Owners) /\ Tip \in 1..MaxBlock /\ MaxBlock \in Nat
      /\ record \in [known: BOOLEAN, owner: Owners, block: 0..MaxBlock]
      /\ cache \in Read
  BY AuthAssumption DEF AInv, AuthTypeOK
<1>2. cache.block \in 1..Tip /\ chain[cache.block] = cache.owner
      /\ (Ordered => cache.owner = record.owner \/ cache.block > record.block)
  BY <1>0 DEF AInv, CacheIsTrue
<1>3. /\ record' \in [known: BOOLEAN, owner: Owners, block: 0..MaxBlock]
      /\ record'.block >= record.block /\ RecordIsTrue' /\ RecordIsKnown' /\ CacheIsTrue'
  <2>1. CASE record' = record
    BY <1>0, <1>1, <2>1
    DEF AInv, RecordIsTrue, RecordIsKnown, CacheIsTrue, Ordered, Tip
  <2>2. CASE ~Ordered /\ record' = [known |-> TRUE, owner |-> cache.owner, block |-> cache.block]
    <3>1. cache.owner \in Owners /\ cache.block \in 0..MaxBlock /\ cache.block \in Nat
      BY <1>1 DEF Read
    <3>2. record' \in [known: BOOLEAN, owner: Owners, block: 0..MaxBlock]
      BY <2>2, <3>1
    <3>3. record'.known /\ record'.owner = cache.owner /\ record'.block = cache.block
      BY <2>2
    <3>4. record.block = 0
      BY <1>1, <2>2 DEF Ordered
    <3> QED BY <1>0, <1>1, <1>2, <3>1, <3>2, <3>3, <3>4
      DEF RecordIsTrue, RecordIsKnown, CacheIsTrue, Ordered, Tip
  <2> QED BY <2>1, <2>2 DEF Confirmed
<1>4. IF record.block > 0 THEN \E b \in record.block..Tip : chain[b] = k
      ELSE k = BirthKey \/ \E b \in 1..Tip : chain[b] = k
  <2>1. CASE cache.owner = k /\ Ordered
    <3>1. record.block \in 1..Tip /\ chain[record.block] = record.owner
      BY <1>1, <2>1 DEF AInv, RecordIsTrue, RecordIsKnown, Ordered
    <3> QED BY <1>1, <1>2, <2>1, <3>1 DEF Ordered
  <2>2. CASE cache.owner = k /\ ~Ordered
    BY <1>1, <1>2, <2>2 DEF Ordered
  <2>3. CASE ~record.known /\ k = BirthKey
    BY <1>1, <2>3 DEF AInv, RecordIsKnown, Ordered
  <2> QED BY <1>0, <2>1, <2>2, <2>3 DEF CacheConfirms
<1> QED BY <1>0, <1>3, <1>4, LetInKeeps

LEMMA OverBudgetKeeps ==
  ASSUME AInv, NEW r \in Requests, NEW s \in Sessions, OverBudget(r, s)
  PROVE  AInv'
<1>1. /\ Fits(r, s) /\ record' = record
      /\ UNCHANGED <<chain, cache, asking, session, clock, revocation>>
      /\ req' \in {req, [req EXCEPT ![r] = Request(s, "granted")]}
      /\ req' # req => LetsIn(s, NoOwner)
  BY DEF OverBudget
<1>2. /\ record' \in [known: BOOLEAN, owner: Owners, block: 0..MaxBlock]
      /\ record'.block >= record.block /\ RecordIsTrue' /\ RecordIsKnown' /\ CacheIsTrue'
  BY <1>1 DEF AInv, AuthTypeOK, RecordIsTrue, RecordIsKnown, CacheIsTrue, Ordered, Tip
<1>3. LetsIn(s, NoOwner) => record.block = 0 /\ session[s].key = BirthKey
  BY <1>1 DEF LetsIn, Owns, AInv, AuthTypeOK, RecordIsKnown, Ordered
<1> QED BY <1>1, <1>2, <1>3, LetInKeeps

LEMMA AsksKeeps ==
  ASSUME AInv, NEW r \in Requests, NEW s \in Sessions, Asks(r, s)
  PROVE  AInv'
<1> DEFINE q == Request(s, "reading")
<1>1. /\ UNCHANGED <<chain, record, cache, session, clock, barred, allBefore, outlawed>>
      /\ asking' = TRUE /\ req' = [req EXCEPT ![r] = q] /\ session[s] # NoSession
  BY DEF Asks, revocation, Fits, Current
<1>2. q \in Waiting /\ q.at = "reading" /\ q.s = s /\ q.seen = record.block /\ record.block \in Nat
  BY DEF AInv, AuthTypeOK, Request, Waiting
<1>3. req' \in [Requests -> Waiting \union {Idle}]
  BY <1>1, <1>2 DEF AInv, AuthTypeOK
<1>4. \A i \in Requests :
        \/ req'[i] = req[i]
        \/ /\ req'[i].at = "reading" /\ session[req'[i].s] # NoSession
           /\ req'[i].seen <= record.block
  BY <1>1, <1>2 DEF AInv, AuthTypeOK
<1>5. /\ clock' \in 0..MaxClock /\ allBefore' \in 0..MaxClock
      /\ barred' \subseteq Sessions /\ outlawed' \subseteq Sessions
  BY <1>1 DEF AInv, AuthTypeOK
<1> QED BY <1>1, <1>3, <1>4, <1>5, QuietKeeps

\* The steps that only end requests, move the clock or write the revocations.
LEMMA OtherKeeps ==
  ASSUME AInv,
         \/ \E r \in Requests : Done(r) \/ RevokeSession(r) \/ RevokeAll(r)
         \/ Tick \/ CacheExpires \/ Prune \/ Restart \/ UNCHANGED vars
  PROVE  AInv'
<1>0. /\ cache \in Read /\ asking \in BOOLEAN /\ req \in [Requests -> Waiting \union {Idle}]
      /\ clock \in 0..MaxClock /\ allBefore \in 0..MaxClock
      /\ barred \subseteq Sessions /\ outlawed \subseteq Sessions
  BY DEF AInv, AuthTypeOK
<1> DEFINE Quiet ==
      /\ UNCHANGED <<chain, record, session>> /\ cache' \in {cache, Unread} /\ asking' \in BOOLEAN
      /\ clock' \in 0..MaxClock /\ allBefore' \in 0..MaxClock
      /\ barred' \subseteq Sessions /\ outlawed' \subseteq Sessions
      /\ req' \in [Requests -> Waiting \union {Idle}]
      /\ \A i \in Requests : req'[i] \in {req[i], Idle}
<1>1. Quiet
  <2>1. ASSUME NEW r \in Requests, Done(r) \/ RevokeSession(r) \/ RevokeAll(r) PROVE Quiet
    <3>1. UNCHANGED <<chain, record, cache, asking, session, clock>> /\ req' = [req EXCEPT ![r] = Idle]
      BY <2>1 DEF Done, RevokeSession, RevokeAll, owner, revocation
    <3>2. req[r] # Idle
      BY <2>1 DEF Done, RevokeSession, RevokeAll, Idle
    <3>3. req[r].s \in Sessions
      BY <1>0, <3>2 DEF Waiting
    <3>4. allBefore' \in 0..MaxClock /\ barred' \subseteq Sessions /\ outlawed' \subseteq Sessions
      BY <1>0, <2>1, <3>3 DEF Done, RevokeSession, RevokeAll, revocation, Signed
    <3> QED BY <1>0, <3>1, <3>4
  <2>2. CASE Tick
    <3>1. clock' \in 0..MaxClock
      BY <1>0, <2>2, AuthAssumption DEF Tick
    <3> QED BY <1>0, <2>2, <3>1 DEF Tick, owner, revocation
  <2>3. CASE CacheExpires
    BY <1>0, <2>3 DEF CacheExpires, revocation
  <2>4. CASE Prune
    BY <1>0, <2>4 DEF Prune, owner
  <2>5. CASE Restart
    <3>1. req' = [r \in Requests |-> Idle]
      BY <2>5 DEF Restart
    <3>2. req' \in [Requests -> Waiting \union {Idle}] /\ \A i \in Requests : req'[i] = Idle
      BY <3>1
    <3> QED BY <1>0, <2>5, <3>2 DEF Restart
  <2>6. CASE UNCHANGED vars
    BY <1>0, <2>6 DEF vars, owner, revocation
  <2> QED BY <2>1, <2>2, <2>3, <2>4, <2>5, <2>6
<1> QED BY <1>1, QuietKeeps

LEMMA NextInv == AInv /\ [AuthNext]_vars => AInv'
<1> SUFFICES ASSUME AInv, [AuthNext]_vars PROVE AInv'
  OBVIOUS
<1>1. ASSUME NEW o \in Owners, Mine(o) PROVE AInv'
  BY <1>1, MineKeeps
<1>2. ASSUME NEW s \in Sessions, NEW k \in Keys, NEW ahead \in 0..MaxAhead, Mint(s, k, ahead)
      PROVE  AInv'
  BY <1>2, MintKeeps
<1>3. ASSUME NEW r \in Requests, NEW s \in Sessions, Confirmed(r, s) \/ Asks(r, s) \/ OverBudget(r, s)
      PROVE  AInv'
  BY <1>3, ConfirmedKeeps, AsksKeeps, OverBudgetKeeps
<1>4. ASSUME NEW b \in 1..Tip, Answer(b) PROVE AInv'
  BY <1>4, AnswerKeeps
<1>5. CASE ReadFails
  BY <1>5, ReadFailsKeeps
<1>6. CASE \/ \E r \in Requests : Done(r) \/ RevokeSession(r) \/ RevokeAll(r)
           \/ Tick \/ CacheExpires \/ Prune \/ Restart \/ UNCHANGED vars
  BY <1>6, OtherKeeps
<1> QED BY <1>1, <1>2, <1>3, <1>4, <1>5, <1>6 DEF AuthNext

LEMMA AInvHolds == AuthSpec => []AInv
BY InitInv, NextInv, PTL DEF AuthSpec

\* Every variable keeps its type.
THEOREM AuthTypes == AuthSpec => []AuthTypeOK
<1>1. AInv => AuthTypeOK
  BY DEF AInv
<1> QED BY <1>1, AInvHolds, PTL

\* What kernel-deployed.json says of the owner was so on the chain at the block it
\* names: however replicas lag, fail or answer out of order, and across restarts.
THEOREM RecordsAreTrue == AuthSpec => []RecordIsTrue
<1>1. AInv => RecordIsTrue
  BY DEF AInv
<1> QED BY <1>1, AInvHolds, PTL

\* A request is let in only for a key that has been the owner since the record's
\* last change, or that could deploy the account when nothing was on record.
THEOREM GrantsAreCurrent == AuthSpec => []GrantIsCurrent
<1>1. AInv => GrantIsCurrent
  BY DEF AInv
<1> QED BY <1>1, AInvHolds, PTL
-----------------------------------------------------------------------------
(* Revocation. *)

\* A revoked session is still recognised as such, or is past its end; the date of
\* "revoke all" never falls back.
Outlaws ==
  /\ allBefore <= clock
  /\ \A s \in outlawed :
       /\ session[s] # NoSession
       /\ Revoked(s) \/ session[s].expires <= clock

\* What the types say of a session that was signed.
LEMMA SignedNumbers ==
  ASSUME AuthTypeOK, NEW s \in Sessions, session[s] # NoSession
  PROVE  session[s].issued \in Nat /\ session[s].expires \in Nat
<1> USE AuthAssumption
<1>1. session[s] \in Delegation
  BY DEF AuthTypeOK
<1> QED BY <1>1 DEF Delegation

\* The steps that touch neither the revocations nor the sessions nor the clock.
LEMMA OutlawsStay ==
  ASSUME Outlaws, UNCHANGED <<session, clock, revocation>>
  PROVE  Outlaws'
BY DEF Outlaws, revocation, Revoked

\* Pruning, alone or in a restart, forgets only sessions past their end.
LEMMA PrunedOutlaws ==
  ASSUME AuthTypeOK, Outlaws, UNCHANGED <<session, clock, allBefore, outlawed>>,
         barred' = {s \in barred : session[s].expires > clock}
  PROVE  Outlaws'
<1>1. ASSUME NEW s \in outlawed
      PROVE  session[s] # NoSession /\ (Revoked(s)' \/ session[s].expires <= clock)
  <2>1. s \in Sessions /\ session[s] # NoSession /\ clock \in Nat
    BY AuthAssumption DEF Outlaws, AuthTypeOK
  <2>2. session[s].expires \in Nat
    BY <2>1, SignedNumbers
  <2> QED BY <2>1, <2>2 DEF Outlaws, Revoked
<1> QED BY <1>1 DEF Outlaws

\* The requests that revoke, alone or all at once.
LEMMA RevokedOutlaws ==
  ASSUME AInv, Outlaws, NEW r \in Requests, RevokeSession(r) \/ RevokeAll(r)
  PROVE  Outlaws'
<1> USE AuthAssumption
<1>0. AuthTypeOK /\ allBefore \in Nat /\ clock \in Nat /\ outlawed \subseteq Sessions
  BY DEF AInv, AuthTypeOK
<1>1. CASE RevokeSession(r)
  <2>1. req[r] # Idle
    BY <1>1 DEF RevokeSession, Idle
  <2>2. session[req[r].s] # NoSession
    BY <2>1 DEF AInv, RequestsFollow
  <2> QED BY <1>1, <2>2 DEF RevokeSession, Outlaws, Revoked, owner
<1>2. CASE RevokeAll(r)
  <2>1. /\ UNCHANGED <<session, clock, barred>> /\ allBefore' = clock
        /\ outlawed' = outlawed \union {s \in Signed : session[s].issued <= clock}
    BY <1>2 DEF RevokeAll
  <2>2. ASSUME NEW s \in outlawed'
        PROVE  session[s] # NoSession /\ (Revoked(s)' \/ session[s].expires <= clock)
    <3>1. CASE s \in outlawed
      <4>1. s \in Sessions /\ session[s] # NoSession
        BY <1>0, <3>1 DEF Outlaws
      <4>2. session[s].issued \in Nat /\ session[s].expires \in Nat
        BY <1>0, <4>1, SignedNumbers
      <4>3. session[s].issued <= allBefore => session[s].issued <= clock
        BY <1>0, <4>2 DEF Outlaws
      <4> QED BY <2>1, <3>1, <4>1, <4>3 DEF Outlaws, Revoked
    <3>2. CASE s \in Signed /\ session[s].issued <= clock
      BY <2>1, <3>2 DEF Signed, Revoked
    <3> QED BY <2>1, <3>1, <3>2
  <2> QED BY <1>0, <2>1, <2>2 DEF Outlaws
<1> QED BY <1>1, <1>2

\* A new session is of one that was not signed before, so not of a revoked one.
LEMMA MintOutlaws ==
  ASSUME Outlaws, AuthTypeOK, NEW s \in Sessions, NEW k \in Keys, NEW ahead \in 0..MaxAhead,
         Mint(s, k, ahead)
  PROVE  Outlaws'
<1>1. \A x \in outlawed : x # s /\ session'[x] = session[x]
  BY DEF Mint, Outlaws, AuthTypeOK
<1> QED BY <1>1 DEF Mint, Outlaws, Revoked, revocation

LEMMA TickOutlaws ==
  ASSUME Outlaws, AuthTypeOK, Tick
  PROVE  Outlaws'
<1> USE AuthAssumption
<1>1. clock \in Nat /\ allBefore \in Nat /\ clock' = clock + 1 /\ outlawed \subseteq Sessions
  BY DEF AuthTypeOK, Tick
<1>2. ASSUME NEW s \in outlawed
      PROVE  session[s] # NoSession /\ (Revoked(s) \/ session[s].expires <= clock')
  <2>1. session[s] # NoSession /\ session[s].expires \in Nat
    BY <1>1, SignedNumbers DEF Outlaws
  <2> QED BY <1>1, <2>1 DEF Outlaws
<1> QED BY <1>1, <1>2 DEF Tick, Outlaws, Revoked, revocation

LEMMA NextOutlaws == AInv /\ Outlaws /\ [AuthNext]_vars => Outlaws'
<1> SUFFICES ASSUME AInv, Outlaws, [AuthNext]_vars PROVE Outlaws'
  OBVIOUS
<1>0. AuthTypeOK
  BY DEF AInv
<1>1. ASSUME NEW s \in Sessions, NEW k \in Keys, NEW ahead \in 0..MaxAhead, Mint(s, k, ahead)
      PROVE  Outlaws'
  BY <1>0, <1>1, MintOutlaws
<1>2. ASSUME NEW r \in Requests, RevokeSession(r) \/ RevokeAll(r)
      PROVE  Outlaws'
  BY <1>2, RevokedOutlaws
<1>3. CASE Tick
  BY <1>0, <1>3, TickOutlaws
<1>4. CASE Prune \/ Restart
  BY <1>0, <1>4, PrunedOutlaws DEF Prune, Restart
<1>5. CASE \/ \E o \in Owners : Mine(o)
           \/ \E r \in Requests, s \in Sessions : Confirmed(r, s) \/ Asks(r, s) \/ OverBudget(r, s)
           \/ \E b \in 1..Tip : Answer(b)
           \/ \E r \in Requests : Done(r)
           \/ ReadFails \/ CacheExpires \/ UNCHANGED vars
  <2>1. UNCHANGED <<session, clock, revocation>>
    BY <1>5 DEF Mine, Confirmed, Asks, OverBudget, Answer, Done, ReadFails, CacheExpires, vars
  <2> QED BY <2>1, OutlawsStay
<1> QED BY <1>1, <1>2, <1>3, <1>4, <1>5 DEF AuthNext

\* Whoever is let in in a step was not revoked when it began.
LEMMA NobodyRevokedIsLetIn ==
  ASSUME AInv, [AuthNext]_vars, NEW r \in Requests, LetIn(r)
  PROVE  req'[r].s \in Sessions /\ ~Revoked(req'[r].s)
<1>0. req \in [Requests -> Waiting \union {Idle}]
  BY DEF AInv, AuthTypeOK
<1>1. ASSUME NEW x \in Requests, NEW s \in Sessions, Confirmed(x, s) \/ OverBudget(x, s)
      PROVE  req'[r].s \in Sessions /\ ~Revoked(req'[r].s)
  <2>1. req' = [req EXCEPT ![x] = Request(s, "granted")] /\ ~Revoked(s)
    BY <1>1 DEF Confirmed, OverBudget, LetIn, LetsIn
  <2>2. req'[r] = Request(s, "granted")
    BY <1>0, <2>1 DEF LetIn
  <2> QED BY <2>1, <2>2 DEF Request
<1>2. ASSUME NEW o, Judged(Readers, o)
      PROVE  req'[r].s \in Sessions /\ ~Revoked(req'[r].s)
  <2>1. r \in Readers /\ LetsIn(req[r].s, o) /\ req'[r] = [req[r] EXCEPT !.at = "granted"]
    BY <1>2 DEF Judged, LetIn, Idle
  <2>2. req[r] \in Waiting
    BY <1>0, <2>1 DEF Readers, Idle
  <2>3. req'[r].s = req[r].s /\ req[r].s \in Sessions
    BY <2>1, <2>2 DEF Waiting
  <2> QED BY <2>1, <2>3 DEF LetsIn
<1>3. ASSUME NEW x \in Requests, NEW s \in Sessions, Asks(x, s)
      PROVE  FALSE
  <2>1. req'[r] = req[r] \/ req'[r] = Request(s, "reading")
    BY <1>0, <1>3 DEF Asks
  <2> QED BY <2>1 DEF LetIn, Request
<1>4. ASSUME NEW x \in Requests, Done(x) \/ RevokeSession(x) \/ RevokeAll(x)
      PROVE  FALSE
  <2>1. req'[r] = req[r] \/ req'[r] = Idle
    BY <1>0, <1>4 DEF Done, RevokeSession, RevokeAll
  <2> QED BY <2>1 DEF LetIn, Idle
<1>5. CASE Restart
  BY <1>5 DEF Restart, LetIn, Idle
<1>6. CASE \/ \E o \in Owners : Mine(o)
           \/ \E s \in Sessions, k \in Keys, ahead \in 0..MaxAhead : Mint(s, k, ahead)
           \/ Tick \/ CacheExpires \/ Prune \/ UNCHANGED vars
  BY <1>6 DEF Mine, Mint, Tick, CacheExpires, Prune, vars, LetIn
<1>7. CASE ReadFails \/ \E b \in 1..Tip : Answer(b)
  BY <1>2, <1>7 DEF ReadFails, Answer
<1> QED BY <1>1, <1>3, <1>4, <1>5, <1>6, <1>7 DEF AuthNext

\* A session that was revoked, alone or with all of the account's, is let in no
\* more until its end: however often the server restarts or prunes its file, and
\* also when the request was waiting for the chain while the session was revoked.
THEOREM RevokedStaysOutHolds == AuthSpec => RevokedStaysOut
<1>1. AuthInit => Outlaws
  BY DEF AuthInit, Outlaws
<1>2. AInv /\ Outlaws /\ [AuthNext]_vars
        => [\A r \in Requests : LetIn(r) /\ InTime(req'[r].s) => req'[r].s \notin outlawed]_vars
  <2> SUFFICES ASSUME AInv, Outlaws, [AuthNext]_vars, NEW r \in Requests,
                      LetIn(r), InTime(req'[r].s), req'[r].s \in outlawed
               PROVE  FALSE
    OBVIOUS
  <2>1. req'[r].s \in Sessions /\ ~Revoked(req'[r].s)
    BY NobodyRevokedIsLetIn
  <2>2. session[req'[r].s] # NoSession /\ session[req'[r].s].expires <= clock
    BY <2>1 DEF Outlaws
  <2>3. session[req'[r].s].expires \in Nat /\ clock \in Nat
    BY <2>1, <2>2, SignedNumbers, AuthAssumption DEF AInv, AuthTypeOK
  <2> QED BY <2>2, <2>3 DEF InTime
<1> QED BY <1>1, <1>2, NextOutlaws, AInvHolds, PTL DEF AuthSpec, RevokedStaysOut
=============================================================================
