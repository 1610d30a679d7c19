--------------------------- MODULE BroadcastProofs ---------------------------
(***************************************************************************)
(* Proofs about the broadcast queue, for any jobs, recipients, sizes and   *)
(* bounds: the types, that no job mails an address twice whatever fails,   *)
(* that a resume skips the record it was given, that without cut chunks    *)
(* and failing writes it mails nobody the prior job mailed, and that a     *)
(* stopped job stays as it is.  Then the books: a completed job accounts   *)
(* for everyone, what a job loses or a resume repeats is one chunk, what   *)
(* was reserved and not sent is given back, and the cap holds but for      *)
(* chunks that were cut.                                                   *)
(***************************************************************************)
EXTENDS BroadcastQueue, SumFacts, FiniteSetTheorems, TLAPS

USE JobsAssumption, SizesAssumption, SwitchAssumption, KindsAssumption

(* A set of recipients has a size. *)
LEMMA SizeIsNat ==
  ASSUME NEW S \in SUBSET Addrs
  PROVE  Cardinality(S) \in Nat
<1>1. IsFiniteSet(S)
  BY FS_Subset
<1> QED
  BY <1>1, FS_CardinalityType

(* The fields of a job record, one by one. *)
LEMMA JobFields ==
  ASSUME NEW r \in Job
  PROVE  /\ r.state \in Live \cup Terminal \cup {"none"}
         /\ r.kind \in {"marketing", "event"}
         /\ r.chunkCount \in Nat /\ r.nextChunk \in Nat
         /\ r.accepted \subseteq Addrs /\ r.sent \subseteq Addrs
         /\ \A state \in Live \cup Terminal : [r EXCEPT !.state = state] \in Job
BY DEF Job

(* What a settled reservation may be. *)
LEMMA SettledType ==
  ASSUME NEW j, NEW r \in Job, NEW l, l[j] \in Nat \cup {NoEntry}
  PROVE  Settled(j, r, l) \in Nat \cup {NoEntry}
<1>1. Cardinality(r.sent) \in Nat
  BY JobFields, SizeIsNat
<1> QED
  BY <1>1 DEF Settled

(* The write of the log keeps its type. *)
LEMMA LogType ==
  ASSUME NEW F, NEW old \in [Jobs -> Nat \cup {NoEntry}], NEW now \in [Jobs -> Nat \cup {NoEntry}],
         logDisk \in [Jobs -> Nat \cup {NoEntry}], PersistLog(F, old, now)
  PROVE  logDisk' \in [Jobs -> Nat \cup {NoEntry}]
BY DEF PersistLog

(* The write of the jobs keeps its type. *)
LEMMA FileType ==
  ASSUME NEW F, NEW old \in [Jobs -> Job], NEW now \in [Jobs -> Job], Persist(F, old, now)
  PROVE  disk' \in [Jobs -> Job]
BY DEF Persist

(* finishJob and settleReservation keep the types. *)
LEMMA FinishType ==
  ASSUME TypeOK, NEW F \in SUBSET Jobs, NEW state \in Terminal,
         NEW now \in [Jobs -> Job], NEW old \in [Jobs -> Job], Finish(F, state, now, old)
  PROVE  /\ job' \in [Jobs -> Job] /\ disk' \in [Jobs -> Job]
         /\ chunks' \in [Jobs -> [ChunkIds -> SUBSET Addrs]]
         /\ seen' \in [Jobs -> SUBSET Addrs] /\ lapsed' \subseteq Jobs
         /\ log' \in [Jobs -> Nat \cup {NoEntry}] /\ logDisk' \in [Jobs -> Nat \cup {NoEntry}]
<1> DEFINE done == [j \in Jobs |-> IF j \in F THEN [now[j] EXCEPT !.state = state] ELSE now[j]]
           settled == [j \in Jobs |-> IF j \in F THEN Settled(j, now[j], log) ELSE log[j]]
<1>1. done \in [Jobs -> Job]
  BY JobFields
<1>2. settled \in [Jobs -> Nat \cup {NoEntry}]
  BY SettledType DEF TypeOK
<1>3. job' = done /\ Persist(F, old, done) /\ log' = settled /\ PersistLog(F, log, settled)
  BY DEF Finish
<1>4. disk' \in [Jobs -> Job]
  BY <1>1, <1>3, FileType
<1>5. logDisk' \in [Jobs -> Nat \cup {NoEntry}]
  BY <1>2, <1>3, LogType DEF TypeOK
<1>6. NoChunks \in [ChunkIds -> SUBSET Addrs]
  BY DEF NoChunks
<1>7. /\ chunks' \in [Jobs -> [ChunkIds -> SUBSET Addrs]]
      /\ seen' \in [Jobs -> SUBSET Addrs] /\ lapsed' \subseteq Jobs
  BY <1>6 DEF Finish, TypeOK
<1> QED
  BY <1>1, <1>2, <1>3, <1>4, <1>5, <1>7

(* Updates of a job record that keep it one *)
LEMMA JobUpdates ==
  ASSUME NEW r \in Job
  PROVE  /\ \A S, T, U \in SUBSET Addrs :
              [r EXCEPT !.sent = @ \cup S, !.suppressed = @ \cup T, !.failed = @ \cup U] \in Job
         /\ [r EXCEPT !.nextChunk = @ + 1] \in Job
         /\ [r EXCEPT !.state = IF @ = "queued" THEN "running" ELSE @] \in Job
         /\ \A n \in Nat : [r EXCEPT !.startedAt = n] \in Job
         /\ \A b \in BOOLEAN : [r EXCEPT !.reserved = b] \in Job
         /\ \A S \in SUBSET Addrs : [r EXCEPT !.accepted = @ \cup S] \in Job
         /\ r.chunkCount < MaxChunks => [r EXCEPT !.chunkCount = @ + 1] \in Job
<1>1. \A S, T, U \in SUBSET Addrs :
        [r EXCEPT !.sent = @ \cup S, !.suppressed = @ \cup T, !.failed = @ \cup U] \in Job
  BY DEF Job
<1>2. [r EXCEPT !.nextChunk = @ + 1] \in Job
  BY DEF Job
<1>3. [r EXCEPT !.state = IF @ = "queued" THEN "running" ELSE @] \in Job
  BY DEF Job, Live
<1>4. \A n \in Nat : [r EXCEPT !.startedAt = n] \in Job
  BY DEF Job
<1>5. \A b \in BOOLEAN : [r EXCEPT !.reserved = b] \in Job
  BY DEF Job
<1>6. \A S \in SUBSET Addrs : [r EXCEPT !.accepted = @ \cup S] \in Job
  BY DEF Job
<1>7. r.chunkCount < MaxChunks => [r EXCEPT !.chunkCount = @ + 1] \in Job
  BY DEF Job
<1> QED
  BY <1>1, <1>2, <1>3, <1>4, <1>5, <1>6, <1>7

(* The record of a drained chunk is a job record. *)
LEMMA DrainedType ==
  ASSUME TypeOK, NEW j \in Jobs
  PROVE  Drained(j) \in Job
<1> DEFINE r1 == [job[j] EXCEPT !.sent = @ \cup worker.sent,
                                !.suppressed = @ \cup worker.suppressed,
                                !.failed = @ \cup worker.failed]
           r2 == [r1 EXCEPT !.nextChunk = @ + 1]
           r3 == [r2 EXCEPT !.state = IF @ = "queued" THEN "running" ELSE @]
<1>1. /\ job[j] \in Job /\ worker.sent \subseteq Addrs
      /\ worker.suppressed \subseteq Addrs /\ worker.failed \subseteq Addrs
  BY DEF TypeOK
<1>2. r1 \in Job
  BY <1>1, JobUpdates
<1>3. r2 \in Job
  BY <1>2, JobUpdates
<1>4. r3 \in Job
  BY <1>3, JobUpdates
<1>5. Drained(j) = r3
  BY DEF Drained
<1> QED
  BY <1>4, <1>5

LEMMA BlankType == Blank \in Job
BY DEF Blank, Job

LEMMA InitType == Init => TypeOK
<1> SUFFICES ASSUME Init PROVE TypeOK
  OBVIOUS
<1>1. job \in [Jobs -> Job] /\ disk \in [Jobs -> Job]
  BY BlankType DEF Init
<1>2. /\ client \in [Jobs -> [posts : Nat, posted : SUBSET Addrs, chunkCount : Nat, total : Nat]]
      /\ log \in [Jobs -> Nat \cup {NoEntry}] /\ logDisk \in [Jobs -> Nat \cup {NoEntry}]
      /\ mailed \in [Jobs -> [Addrs -> 0 .. 2]]
  BY DEF Init
<1>3. worker \in [job : Jobs \cup {NoJob}, left : SUBSET Addrs, flying : SUBSET Addrs,
                  sent : SUBSET Addrs, suppressed : SUBSET Addrs, failed : SUBSET Addrs]
  BY DEF Init, Idle
<1> QED
  BY <1>1, <1>2, <1>3 DEF Init, TypeOK

(* The client's own count keeps its type. *)
LEMMA CountedType ==
  ASSUME TypeOK, NEW j \in Jobs, NEW S \in SUBSET Addrs, NEW took \in SUBSET Addrs,
         Counted(j, S, took)
  PROVE  client' \in [Jobs -> [posts : Nat, posted : SUBSET Addrs, chunkCount : Nat, total : Nat]]
<1>1. Cardinality(took) \in Nat
  BY SizeIsNat
<1> QED
  BY <1>1 DEF Counted, TypeOK

LEMMA StepType == TypeOK /\ [Next]_vars => TypeOK'
<1> SUFFICES ASSUME TypeOK, [Next]_vars PROVE TypeOK'
  OBVIOUS
<1>t. /\ job \in [Jobs -> Job] /\ disk \in [Jobs -> Job]
      /\ log \in [Jobs -> Nat \cup {NoEntry}] /\ logDisk \in [Jobs -> Nat \cup {NoEntry}]
  BY DEF TypeOK
<1> USE DEF outside, memory, files
<1>1. ASSUME NEW j \in Jobs, NEW kind \in Kinds, NEW p \in Jobs \cup {NoJob}, Create(j, kind, p)
      PROVE  TypeOK'
  <2> DEFINE seed == IF p = NoJob THEN {} ELSE job[p].sent
             msg == IF p = NoJob THEN j ELSE job[p].msg
             rec == [Blank EXCEPT !.state = "draft", !.kind = kind, !.msg = msg, !.resumeOf = p]
  <2>1. seed \in SUBSET Addrs /\ msg \in Jobs \cup {NoJob}
    BY <1>t DEF Job
  <2>2. rec \in Job
    <3>1. kind \in {"marketing", "event"} /\ "draft" \in Live
      BY DEF Live
    <3> HIDE DEF seed, msg
    <3> QED
      BY <2>1, <3>1, BlankType DEF Job
  <2>3. job' = [job EXCEPT ![j] = rec] /\ Persist({j}, disk, job')
    BY <1>1 DEF Create
  <2>4. job' \in [Jobs -> Job]
    BY <2>2, <2>3, <1>t
  <2>5. disk' \in [Jobs -> Job]
    BY <2>3, <2>4, <1>t, FileType
  <2>6. seen' \in [Jobs -> SUBSET Addrs] /\ skip' \in [Jobs -> SUBSET Addrs]
    BY <1>1, <2>1 DEF Create, TypeOK
  <2> QED
    BY <1>1, <2>4, <2>5, <2>6 DEF Create, TypeOK
<1>2. ASSUME NEW j \in Jobs, NEW S \in Uploads, Append(j, S)
      PROVE  TypeOK'
  <2> DEFINE fresh == Fresh(j, S)
             rec == [job[j] EXCEPT !.accepted = @ \cup fresh,
                                   !.chunkCount = IF fresh = {} THEN @ ELSE @ + 1]
  <2>1. S \in SUBSET Addrs /\ fresh \in SUBSET Addrs
    BY DEF Uploads, Fresh
  <2>2. rec \in Job
    <3> DEFINE r1 == [job[j] EXCEPT !.accepted = @ \cup fresh]
    <3>0. job[j] \in Job /\ job[j].chunkCount < MaxChunks
      BY <1>2, <1>t DEF Append, HasRoom
    <3>1. r1 \in Job /\ r1.chunkCount < MaxChunks
      <4>1. r1 \in Job
        BY <3>0, <2>1, JobUpdates
      <4>2. r1.chunkCount = job[j].chunkCount
        BY <3>0 DEF Job
      <4> QED
        BY <3>0, <4>1, <4>2
    <3>2. CASE fresh = {}
      BY <3>1, <3>2, <1>t DEF Job
    <3>3. CASE fresh # {}
      <4>1. rec = [r1 EXCEPT !.chunkCount = @ + 1]
        BY <3>3
      <4> QED
        BY <3>1, <4>1, JobUpdates
    <3> QED
      BY <3>2, <3>3
  <2>3. job' = [job EXCEPT ![j] = rec] /\ Persist({j}, disk, job')
    BY <1>2 DEF Append
  <2>4. job' \in [Jobs -> Job]
    BY <2>2, <2>3, <1>t
  <2>5. disk' \in [Jobs -> Job]
    BY <2>3, <2>4, <1>t, FileType
  <2>6. client' \in [Jobs -> [posts : Nat, posted : SUBSET Addrs, chunkCount : Nat, total : Nat]]
    BY <1>2, <2>1, CountedType DEF Append
  <2>7. chunks' \in [Jobs -> [ChunkIds -> SUBSET Addrs]]
    BY <1>2, <2>1 DEF Append, TypeOK
  <2>8. seen' \in [Jobs -> SUBSET Addrs]
    BY <1>2, <2>1 DEF Append, TypeOK
  <2> QED
    BY <1>2, <2>4, <2>5, <2>6, <2>7, <2>8 DEF Append, TypeOK
<1>3. ASSUME NEW j \in Jobs, NEW S \in Uploads, LoseUpload(j, S)
      PROVE  TypeOK'
  <2>1. client' \in [Jobs -> [posts : Nat, posted : SUBSET Addrs, chunkCount : Nat, total : Nat]]
    BY <1>3, CountedType DEF LoseUpload, Uploads
  <2> QED
    BY <1>3, <2>1 DEF LoseUpload, TypeOK
<1>4. ASSUME NEW j \in Jobs, Start(j)
      PROVE  TypeOK'
  <2> DEFINE charged == job[j].kind = "marketing"
             n == Cardinality(job[j].accepted)
             started == {k \in Jobs : job[k].startedAt > 0}
             sealed == [job[j] EXCEPT !.state = "queued", !.startedAt = 1 + Cardinality(started)]
             marked == [sealed EXCEPT !.reserved = charged]
  <2>1. n \in Nat /\ Cardinality(started) \in Nat
    <3>1. IsFiniteSet(started)
      BY FS_Subset
    <3> QED
      BY <3>1, <1>t, SizeIsNat, FS_CardinalityType DEF Job
  <2>2. sealed \in Job /\ marked \in Job
    <3>1. [job[j] EXCEPT !.state = "queued"] \in Job
      <4>1. job[j] \in Job /\ "queued" \in Live \cup Terminal
        BY <1>t DEF Live
      <4> QED
        BY <4>1, JobFields
    <3>2. 1 + Cardinality(started) \in Nat
      BY <2>1
    <3>3. sealed \in Job
      BY <3>1, <3>2, JobUpdates
    <3> QED
      BY <3>3, JobUpdates
  <2>3. /\ job' = [job EXCEPT ![j] = marked]
        /\ \/ disk' = [disk EXCEPT ![j] = disk[j]]
           \/ disk' = [disk EXCEPT ![j] = sealed]
           \/ disk' = [disk EXCEPT ![j] = marked]
    BY <1>4 DEF Start
  <2>4. job' \in [Jobs -> Job] /\ disk' \in [Jobs -> Job]
    BY <2>2, <2>3, <1>t
  <2>5. log' \in [Jobs -> Nat \cup {NoEntry}] /\ PersistLog({}, log, log')
    BY <1>4, <2>1, <1>t DEF Start
  <2>6. logDisk' \in [Jobs -> Nat \cup {NoEntry}]
    BY <2>5, <1>t, LogType
  <2> QED
    BY <1>4, <2>4, <2>5, <2>6 DEF Start, TypeOK
<1>5. ASSUME NEW j \in Jobs, Cancel(j)
      PROVE  TypeOK'
  <2>1. Finish({j}, "cancelled", job, disk) /\ {j} \in SUBSET Jobs /\ "cancelled" \in Terminal
    BY <1>5 DEF Cancel, Terminal
  <2>2. /\ job' \in [Jobs -> Job] /\ disk' \in [Jobs -> Job]
        /\ chunks' \in [Jobs -> [ChunkIds -> SUBSET Addrs]]
        /\ seen' \in [Jobs -> SUBSET Addrs] /\ lapsed' \subseteq Jobs
        /\ log' \in [Jobs -> Nat \cup {NoEntry}] /\ logDisk' \in [Jobs -> Nat \cup {NoEntry}]
    BY <2>1, <1>t, FinishType
  <2> QED
    BY <1>5, <2>2 DEF Cancel, TypeOK
<1>6. CASE Sweep
  <2>1. PICK F \in SUBSET Jobs : Finish(F, "expired", job, disk)
    BY <1>6 DEF Sweep, Overdue, TypeOK
  <2> QED
    BY <1>6, <2>1, <1>t, FinishType DEF Sweep, TypeOK, Terminal
<1>7. ASSUME NEW j \in Jobs, OpenChunk(j)
      PROVE  TypeOK'
  <2> DEFINE todo == chunks[j][job[j].nextChunk] \ job[j].sent
  <2>1. todo \cap optOut \subseteq Addrs /\ worker' = [Idle EXCEPT !.job = j, !.left = todo \ optOut, !.suppressed = todo \cap optOut]
    BY <1>7 DEF OpenChunk, TypeOK
  <2>2. todo \subseteq Addrs
    <3>1. j \in Runnable
      BY <1>7 DEF OpenChunk, Turn, Pool
    <3>2. job[j].nextChunk \in ChunkIds
      BY <3>1, <1>t DEF Runnable, Job, ChunkIds
    <3> QED
      BY <3>2 DEF TypeOK
  <2>3. worker' \in [job : Jobs \cup {NoJob}, left : SUBSET Addrs, flying : SUBSET Addrs,
                      sent : SUBSET Addrs, suppressed : SUBSET Addrs, failed : SUBSET Addrs]
    <3>1. todo \ optOut \in SUBSET Addrs /\ todo \cap optOut \in SUBSET Addrs
      BY <2>2
    <3> HIDE DEF todo
    <3> QED
      BY <2>1, <3>1 DEF Idle
  <2> QED
    BY <1>7, <2>3 DEF OpenChunk, TypeOK
<1>8. ASSUME NEW j \in Jobs, CannotSend(j)
      PROVE  TypeOK'
  <2>1. Finish({j}, "died", job, disk)
    BY <1>8 DEF CannotSend
  <2> QED
    BY <1>8, <2>1, <1>t, FinishType DEF CannotSend, TypeOK, Terminal
<1>9. ASSUME NEW j \in Jobs, Record(j)
      PROVE  TypeOK'
  <2> DEFINE rec == Drained(j)
             kept == [job EXCEPT ![j] = rec]
             file == [disk EXCEPT ![j] = rec]
  <2>1. kept \in [Jobs -> Job] /\ file \in [Jobs -> Job]
    BY DrainedType, <1>t
  <2>2. CASE /\ job' = kept /\ disk' = file
             /\ chunks' = [chunks EXCEPT ![j][job[j].nextChunk] = {}]
             /\ UNCHANGED <<seen, lapsed, log, logDisk>>
    BY <1>9, <2>1, <2>2 DEF Record, TypeOK, Idle
  <2>3. ASSUME NEW state \in Terminal, NEW old \in [Jobs -> Job], Finish({j}, state, kept, old)
        PROVE  TypeOK'
    <3>1. /\ job' \in [Jobs -> Job] /\ disk' \in [Jobs -> Job]
          /\ chunks' \in [Jobs -> [ChunkIds -> SUBSET Addrs]]
          /\ seen' \in [Jobs -> SUBSET Addrs] /\ lapsed' \subseteq Jobs
          /\ log' \in [Jobs -> Nat \cup {NoEntry}] /\ logDisk' \in [Jobs -> Nat \cup {NoEntry}]
      BY <2>3, <2>1, FinishType
    <3> QED
      BY <1>9, <3>1 DEF Record, TypeOK, Idle
  <2>4. CASE RecordKept(j)
    BY <2>1, <2>2, <2>3, <2>4 DEF RecordKept, Terminal
  <2>5. CASE RecordLost(j)
    BY <2>3, <2>5, <1>t DEF RecordLost, Terminal
  <2> QED
    BY <1>9, <2>4, <2>5 DEF Record
<1>10. ASSUME NEW G \in SUBSET Addrs, HandOver(G)
       PROVE  TypeOK'
  BY <1>10 DEF HandOver, TypeOK
<1>11. ASSUME NEW a \in Addrs, Deliver(a)
       PROVE  TypeOK'
  <2>1. worker.job \in Jobs => mailed' \in [Jobs -> [Addrs -> 0 .. 2]]
    BY <1>11 DEF Deliver, TypeOK
  <2>2. worker.job \notin Jobs => mailed' = mailed
    BY <1>11 DEF Deliver, TypeOK
  <2>3. mailed' \in [Jobs -> [Addrs -> 0 .. 2]]
    BY <2>1, <2>2 DEF TypeOK
  <2> QED
    BY <1>11, <2>3 DEF Deliver, TypeOK
<1>12. ASSUME NEW a \in Addrs, GiveUp(a)
       PROVE  TypeOK'
  BY <1>12 DEF GiveUp, TypeOK
<1>13. ASSUME NEW a \in Addrs, OptOut(a)
       PROVE  TypeOK'
  BY <1>13 DEF OptOut, TypeOK
<1>14. ASSUME NEW j \in Jobs, Lapse(j)
       PROVE  TypeOK'
  BY <1>14 DEF Lapse, TypeOK
<1>15. CASE Shutdown
  <2>1. PICK F \in SUBSET Jobs : Finish(F, "died", job, disk)
    BY <1>15 DEF Shutdown
  <2> QED
    BY <1>15, <2>1, <1>t, FinishType DEF Shutdown, TypeOK, Terminal
<1>16. CASE Restart
  <2> DEFINE F == {j \in Jobs : disk[j].state \in Live}
             now == [j \in Jobs |-> IF j \in F THEN [disk[j] EXCEPT !.state = "died"] ELSE disk[j]]
             settled == [j \in Jobs |-> IF j \in F THEN Settled(j, disk[j], logDisk) ELSE logDisk[j]]
  <2>1. now \in [Jobs -> Job]
    BY JobFields, <1>t DEF Terminal
  <2>2. settled \in [Jobs -> Nat \cup {NoEntry}]
    BY SettledType, <1>t
  <2>3. job' = now /\ Persist(F, disk, now) /\ log' = settled /\ PersistLog(F, logDisk, settled)
    BY <1>16 DEF Restart
  <2>4. disk' \in [Jobs -> Job]
    BY <2>1, <2>3, <1>t, FileType
  <2>5. logDisk' \in [Jobs -> Nat \cup {NoEntry}]
    BY <2>2, <2>3, <1>t, LogType
  <2>6. chunks' \in [Jobs -> [ChunkIds -> SUBSET Addrs]]
    BY <1>16 DEF Restart, NoChunks
  <2>7. worker' \in [job : Jobs \cup {NoJob}, left : SUBSET Addrs, flying : SUBSET Addrs,
                      sent : SUBSET Addrs, suppressed : SUBSET Addrs, failed : SUBSET Addrs]
    BY <1>16 DEF Restart, Idle
  <2>8. /\ seen' \in [Jobs -> SUBSET Addrs] /\ lapsed' \subseteq Jobs
        /\ served' \in Jobs \cup {NoJob} /\ closing' \in BOOLEAN /\ restarts' \in Nat
        /\ UNCHANGED <<client, optOut, mailed, skip>>
    <3>1. /\ seen' = [j \in Jobs |-> {}] /\ lapsed' = {} /\ served' = NoJob
          /\ closing' = FALSE /\ restarts' = restarts + 1
          /\ UNCHANGED <<client, optOut, mailed, skip>>
      BY <1>16 DEF Restart
    <3>2. restarts \in Nat
      BY DEF TypeOK
    <3>3. restarts' \in Nat
      BY <3>1, <3>2
    <3>4. seen' \in [Jobs -> SUBSET Addrs] /\ lapsed' \subseteq Jobs
      BY <3>1
    <3>5. served' \in Jobs \cup {NoJob} /\ closing' \in BOOLEAN
      BY <3>1
    <3> QED
      BY <3>1, <3>3, <3>4, <3>5
  <2>9. job' \in [Jobs -> Job] /\ log' \in [Jobs -> Nat \cup {NoEntry}]
    BY <2>1, <2>2, <2>3
  <2> QED
    BY <2>4, <2>5, <2>6, <2>7, <2>8, <2>9 DEF TypeOK
<1>17. CASE UNCHANGED vars
  BY <1>17 DEF vars, TypeOK
<1> QED
  BY <1>1, <1>2, <1>3, <1>4, <1>5, <1>6, <1>7, <1>8, <1>9, <1>10, <1>11, <1>12, <1>13,
     <1>14, <1>15, <1>16, <1>17 DEF Next, Organiser, Drain

(* The variables keep their types in every behaviour of the queue. *)
THEOREM TypeCorrect == Spec => []TypeOK
BY InitType, StepType, PTL DEF Spec

-----------------------------------------------------------------------------
(* The part of the invariant that holds whatever fails *)
Core ==
  /\ Untouched /\ NoFiles /\ ChunksApart /\ ChunksNew /\ SeenSkips /\ WorkerNew
  /\ OncePerJob /\ SkipsRecorded

(* Steps that mail nobody, add no recipients and only stop, start or keep     *)
(* jobs and the worker keep the core.                                         *)
LEMMA QuietStep ==
  ASSUME TypeOK, TypeOK', Core, mailed' = mailed, skip' = skip,
         \A j \in Jobs : job'[j].state = "draft" => job[j].state = "draft" /\ seen'[j] = seen[j],
         \A j \in Jobs : job'[j].state = "none" => job[j].state = "none" \/ chunks'[j] = NoChunks,
         \A j \in Jobs : client'[j].posts = 0 => client[j].posts = 0,
         \A j \in Jobs, i \in ChunkIds : chunks'[j][i] \subseteq chunks[j][i],
         \/ /\ worker' = Idle
            /\ \A j \in Jobs, i \in ChunkIds :
                  Busy(j) /\ i = job[j].nextChunk => chunks'[j][i] = {}
         \/ /\ worker' = worker
            /\ \A j \in Jobs : Busy(j) => /\ job'[j].nextChunk = job[j].nextChunk
                                          /\ job'[j].state \notin {"none", "draft"}
  PROVE  Core'
<1>1. Untouched'
  BY DEF Core, Untouched
<1>2. NoFiles'
  <2> SUFFICES ASSUME NEW j \in Jobs, job'[j].state = "none" PROVE chunks'[j] = NoChunks
    BY DEF NoFiles, NoChunks
  <2>1. CASE chunks'[j] = NoChunks
    BY <2>1
  <2>2. CASE job[j].state = "none"
    <3>1. \A i \in ChunkIds : chunks'[j][i] = {}
      BY <2>2 DEF Core, NoFiles, NoChunks
    <3>2. chunks'[j] = [i \in ChunkIds |-> chunks'[j][i]]
      BY DEF TypeOK
    <3>3. [i \in ChunkIds |-> chunks'[j][i]] = [i \in ChunkIds |-> {}]
      BY <3>1
    <3> QED
      BY <3>2, <3>3 DEF NoChunks
  <2> QED
    BY <2>1, <2>2
<1>3. ChunksApart'
  BY DEF Core, ChunksApart
<1>4. ChunksNew'
  <2> SUFFICES ASSUME NEW j \in Jobs, NEW i \in ChunkIds, NEW a \in chunks'[j][i]
               PROVE  /\ client'[j].posts # 0
                      /\ a \notin skip'[j]
                      /\ job'[j].state = "draft" => a \in seen'[j]
                      /\ mailed'[j][a] # 0 => worker'.job = j /\ i = job'[j].nextChunk
    BY DEF ChunksNew, Busy
  <2>1. a \in chunks[j][i]
    OBVIOUS
  <2>2. /\ client[j].posts # 0 /\ a \notin skip[j]
        /\ job[j].state = "draft" => a \in seen[j]
        /\ mailed[j][a] # 0 => Busy(j) /\ i = job[j].nextChunk
    BY <2>1 DEF Core, ChunksNew
  <2> QED
    BY <2>2 DEF Busy
<1>5. SeenSkips'
  BY DEF Core, SeenSkips
<1>6. WorkerNew'
  <2>1. CASE worker' = Idle
    BY <2>1, JobsAssumption DEF WorkerNew, Idle
  <2>2. CASE /\ worker' = worker
             /\ \A j \in Jobs : Busy(j) => /\ job'[j].nextChunk = job[j].nextChunk
                                           /\ job'[j].state \notin {"none", "draft"}
    <3>1. CASE worker.job = NoJob
      BY <2>2, <3>1 DEF Core, WorkerNew
    <3>2. CASE worker.job # NoJob
      <4> DEFINE w == worker.job
      <4>1. w \in Jobs /\ Busy(w)
        BY <3>2 DEF TypeOK, Busy
      <4>2. /\ job'[w].nextChunk = job[w].nextChunk
            /\ job'[w].state \notin {"none", "draft"}
        BY <2>2, <4>1
      <4> QED
        BY <2>2, <3>2, <4>1, <4>2 DEF Core, WorkerNew
    <3> QED
      BY <3>1, <3>2
  <2> QED
    BY <2>1, <2>2
<1>7. OncePerJob' /\ SkipsRecorded'
  BY DEF Core, OncePerJob, SkipsRecorded, Mailed
<1> QED
  BY <1>1, <1>2, <1>3, <1>4, <1>5, <1>6, <1>7 DEF Core

(* What finishJob does to the jobs and their chunks, whatever it writes.     *)
Finished(F, state, now) ==
  \A k \in Jobs :
     /\ k \in F => job'[k].state = state /\ chunks'[k] = NoChunks
     /\ k \notin F => job'[k] = now[k] /\ chunks'[k] = chunks[k] /\ seen'[k] = seen[k]
     /\ job'[k].nextChunk = now[k].nextChunk
     /\ job'[k].sent = now[k].sent
     /\ job'[k].resumeOf = now[k].resumeOf

LEMMA FinishEffect ==
  ASSUME TypeOK, NEW F \in SUBSET Jobs, NEW state \in Terminal,
         NEW now \in [Jobs -> Job], NEW old \in [Jobs -> Job], Finish(F, state, now, old)
  PROVE  Finished(F, state, now)
BY DEF Finish, Job, Finished

(* finishJob on jobs that are in the list, with a worker that goes idle or   *)
(* stays, keeps the core.                                                    *)
LEMMA FinishCore ==
  ASSUME TypeOK, TypeOK', Core, NEW F \in SUBSET Jobs, NEW state \in Terminal,
         Finish(F, state, job, disk), worker' = worker,
         client' = client, mailed' = mailed, skip' = skip,
         \A k \in F : job[k].state # "none"
  PROVE  Core'
<1>1. \A k \in Jobs :
        /\ k \in F => job'[k].state = state /\ chunks'[k] = NoChunks
        /\ k \notin F => job'[k] = job[k] /\ chunks'[k] = chunks[k] /\ seen'[k] = seen[k]
        /\ job'[k].nextChunk = job[k].nextChunk
  <2>1. job \in [Jobs -> Job] /\ disk \in [Jobs -> Job]
    BY DEF TypeOK
  <2> QED
    <3>1. Finished(F, state, job)
      BY <2>1, FinishEffect
    <3> QED
      BY <3>1 DEF Finished
<1>2. state \notin {"none", "draft"}
  BY DEF Terminal
<1>3. \A k \in Jobs : job'[k].state = "draft" => job[k].state = "draft" /\ seen'[k] = seen[k]
  BY <1>1, <1>2
<1>4. \A k \in Jobs : job'[k].state = "none" => job[k].state = "none" \/ chunks'[k] = NoChunks
  BY <1>1
<1>5. \A k \in Jobs, i \in ChunkIds : chunks'[k][i] \subseteq chunks[k][i]
  BY <1>1 DEF NoChunks
<1>6. \A k \in Jobs : Busy(k) => /\ job'[k].nextChunk = job[k].nextChunk
                                 /\ job'[k].state \notin {"none", "draft"}
  BY <1>1, <1>2, JobsAssumption DEF Core, WorkerNew, Busy
<1>7. \A k \in Jobs : client'[k].posts = 0 => client[k].posts = 0
  OBVIOUS
<1> QED
  BY <1>3, <1>4, <1>5, <1>6, <1>7, QuietStep

LEMMA InitCore == Init => Core
BY JobsAssumption DEF Init, Core, Untouched, NoFiles, NoChunks, ChunksApart, ChunksNew, SeenSkips,
   WorkerNew, OncePerJob, SkipsRecorded, Mailed, Idle, Blank

(* An upload keeps the core: what it adds is new to the job. *)
LEMMA AppendCore ==
  ASSUME TypeOK, TypeOK', Core, NEW j \in Jobs, NEW S \in Uploads, Append(j, S)
  PROVE  Core'
<1> DEFINE n == job[j].chunkCount
           fresh == S \ seen[j]
<1>1. /\ job[j] \in Job /\ job[j].state = "draft" /\ n \in ChunkIds
      /\ \A k \in Jobs : k # j => job'[k] = job[k]
  <2>1. job[j] \in Job /\ \A k \in Jobs : k # j => job'[k] = job[k]
    BY DEF Append, TypeOK
  <2>2. job[j].state = "draft" /\ n < MaxChunks
    BY DEF Append, HasRoom
  <2>3. n \in Nat
    BY <2>1, JobFields
  <2> HIDE DEF n
  <2> QED
    BY <2>1, <2>2, <2>3 DEF ChunkIds
<1>2. job'[j].state = "draft" /\ job'[j].nextChunk = job[j].nextChunk
  <2> DEFINE more == IF fresh = {} THEN n ELSE n + 1
  <2>1. job'[j] = [job[j] EXCEPT !.accepted = @ \cup fresh, !.chunkCount = more]
    BY DEF Append, Fresh, TypeOK
  <2> HIDE DEF more, fresh
  <2> QED
    BY <1>1, <2>1 DEF Job
<1>3. \A k \in Jobs, i \in ChunkIds :
        \/ chunks'[k][i] = chunks[k][i]
        \/ k = j /\ i = n /\ chunks'[k][i] = fresh
  <2>1. chunks' = chunks \/ chunks' = [chunks EXCEPT ![j][n] = fresh]
    BY DEF Append, Fresh
  <2> HIDE DEF n, fresh
  <2> QED
    BY <1>1, <2>1 DEF TypeOK
<1>4. \A k \in Jobs : k # j => chunks'[k] = chunks[k]
  BY DEF Append, TypeOK
<1>5. seen'[j] = seen[j] \cup fresh /\ \A k \in Jobs : k # j => seen'[k] = seen[k]
  BY DEF Append, Fresh, TypeOK
<1>6. /\ client'[j].posts = client[j].posts + 1 /\ client[j].posts \in Nat
      /\ \A k \in Jobs : k # j => client'[k] = client[k]
  BY DEF Append, Counted, TypeOK
<1>7. mailed' = mailed /\ skip' = skip /\ worker' = worker
  BY DEF Append
<1>8. /\ \A a \in Addrs : mailed[j][a] = 0
      /\ skip[j] \subseteq seen[j]
      /\ worker.job # j
      /\ \A i \in ChunkIds : chunks[j][i] \subseteq seen[j]
  BY <1>1, JobsAssumption DEF Core, Untouched, SeenSkips, WorkerNew, ChunksNew
<1>a. client'[j].posts # 0
  BY <1>6
<1> HIDE DEF n, fresh
<1>9. Untouched'
  BY <1>1, <1>6, <1>7, <1>8 DEF Core, Untouched
<1>10. NoFiles'
  BY <1>1, <1>2, <1>4 DEF Core, NoFiles, NoChunks
<1>11. ChunksApart'
  BY <1>3, <1>8 DEF Core, ChunksApart, fresh
<1>12. ChunksNew'
  <2> SUFFICES ASSUME NEW k \in Jobs, NEW i \in ChunkIds, NEW a \in chunks'[k][i]
               PROVE  /\ client'[k].posts # 0
                      /\ a \notin skip'[k]
                      /\ job'[k].state = "draft" => a \in seen'[k]
                      /\ mailed'[k][a] # 0 => worker'.job = k /\ i = job'[k].nextChunk
    BY DEF ChunksNew, Busy
  <2>1. CASE k = j
    <3>1. a \in Addrs
      BY DEF TypeOK
    <3>2. a \in seen'[j] /\ a \notin skip[j]
      BY <1>3, <1>5, <1>8, <2>1 DEF fresh, Core, ChunksNew
    <3> QED
      BY <2>1, <3>1, <3>2, <1>a, <1>7, <1>8
  <2>2. CASE k # j
    BY <2>2, <1>1, <1>4, <1>5, <1>6, <1>7 DEF Core, ChunksNew, Busy
  <2> QED
    BY <2>1, <2>2
<1>13. SeenSkips'
  BY <1>1, <1>5, <1>7, <1>8 DEF Core, SeenSkips
<1>14. WorkerNew'
  BY <1>1, <1>4, <1>6, <1>7, <1>8 DEF Core, WorkerNew, TypeOK
<1>15. OncePerJob' /\ SkipsRecorded'
  BY <1>7 DEF Core, OncePerJob, SkipsRecorded, Mailed
<1> QED
  BY <1>9, <1>10, <1>11, <1>12, <1>13, <1>14, <1>15 DEF Core

(* A new job starts with no files, and has mailed nobody. *)
LEMMA CreateCore ==
  ASSUME TypeOK, TypeOK', Core, NEW j \in Jobs, NEW kind \in Kinds, NEW p \in Jobs \cup {NoJob},
         Create(j, kind, p)
  PROVE  Core'
<1>1. /\ job[j].state = "none" /\ client[j].posts = 0
      /\ chunks' = chunks /\ client' = client /\ worker' = worker /\ mailed' = mailed
      /\ \A k \in Jobs : k # j => job'[k] = job[k] /\ seen'[k] = seen[k] /\ skip'[k] = skip[k]
  BY DEF Create, TypeOK
<1>2. job'[j].state = "draft" /\ seen'[j] = skip'[j]
  BY DEF Create, TypeOK, Blank
<1>3. /\ \A a \in Addrs : mailed[j][a] = 0
      /\ \A i \in ChunkIds : chunks[j][i] = {}
      /\ worker.job # j
  BY <1>1, JobsAssumption DEF Core, Untouched, NoFiles, NoChunks, WorkerNew
<1>4. Untouched'
  BY <1>1, <1>3 DEF Core, Untouched
<1>5. NoFiles'
  BY <1>1, <1>2 DEF Core, NoFiles, NoChunks
<1>6. ChunksApart'
  BY <1>1 DEF Core, ChunksApart
<1>7. ChunksNew'
  BY <1>1, <1>3 DEF Core, ChunksNew, Busy
<1>8. SeenSkips'
  BY <1>1, <1>2 DEF Core, SeenSkips
<1>9. WorkerNew'
  BY <1>1, <1>3 DEF Core, WorkerNew, TypeOK
<1>10. OncePerJob' /\ SkipsRecorded'
  BY <1>1, <1>3 DEF Core, OncePerJob, SkipsRecorded, Mailed
<1> QED
  BY <1>4, <1>5, <1>6, <1>7, <1>8, <1>9, <1>10 DEF Core

(* Opening a chunk hands the worker recipients nobody has mailed. *)
LEMMA OpenCore ==
  ASSUME TypeOK, TypeOK', Core, NEW j \in Jobs, OpenChunk(j)
  PROVE  Core'
<1> DEFINE n == job[j].nextChunk
           todo == chunks[j][n] \ job[j].sent
<1>1. /\ worker = Idle /\ j \in Runnable
      /\ worker' = [Idle EXCEPT !.job = j, !.left = todo \ optOut, !.suppressed = todo \cap optOut]
      /\ UNCHANGED <<job, seen, chunks, client, mailed, skip>>
  BY DEF OpenChunk, Turn, Pool, memory, files, outside
<1>2. n \in ChunkIds /\ job[j].state \in {"queued", "running"}
  <2>1. job[j] \in Job /\ job[j].state \in {"queued", "running"} /\ n < job[j].chunkCount
    BY <1>1 DEF Runnable, TypeOK
  <2>2. n \in Nat /\ job[j].chunkCount \in 0 .. MaxChunks
    BY <2>1 DEF Job
  <2> HIDE DEF n
  <2> QED
    BY <2>1, <2>2 DEF ChunkIds
<1>3. worker'.job = j /\ worker'.left = todo \ optOut /\ worker'.flying = {}
  <2> HIDE DEF todo
  <2> QED
    BY <1>1 DEF Idle
<1>4. \A k \in Jobs : ~Busy(k)
  BY <1>1, JobsAssumption DEF Busy, Idle
<1>5. ChunksNew'
  BY <1>1, <1>4 DEF Core, ChunksNew
<1>6. \A a \in worker'.left :
        /\ a \in Addrs /\ a \in chunks[j][n] /\ client[j].posts # 0
        /\ mailed[j][a] = 0 /\ a \notin skip[j]
        /\ \A i \in ChunkIds : a \in chunks[j][i] => i = n
  <2> SUFFICES ASSUME NEW a \in chunks[j][n]
               PROVE  /\ a \in Addrs /\ client[j].posts # 0
                      /\ mailed[j][a] = 0 /\ a \notin skip[j]
                      /\ \A i \in ChunkIds : a \in chunks[j][i] => i = n
    BY <1>3
  <2>1. /\ client[j].posts # 0 /\ mailed[j][a] = 0 /\ a \notin skip[j]
    BY <1>2, <1>4 DEF Core, ChunksNew
  <2>2. \A i \in ChunkIds : a \in chunks[j][i] => i = n
    BY <1>2 DEF Core, ChunksApart
  <2>3. a \in Addrs
    BY <1>2 DEF TypeOK
  <2> QED
    BY <2>1, <2>2, <2>3
<1>7. WorkerNew'
  <2> HIDE DEF n, todo
  <2>1. worker'.job # NoJob /\ worker'.left \cap worker'.flying = {}
    BY <1>3, JobsAssumption
  <2>2. job'[j].nextChunk = n /\ job'[j].state \notin {"none", "draft"}
    BY <1>1, <1>2 DEF n
  <2> QED
    BY <1>1, <1>3, <1>6, <2>1, <2>2 DEF WorkerNew
<1>8. Untouched' /\ NoFiles' /\ ChunksApart' /\ SeenSkips' /\ OncePerJob' /\ SkipsRecorded'
  BY <1>1 DEF Core, Untouched, NoFiles, ChunksApart, SeenSkips, OncePerJob, SkipsRecorded, Mailed
<1> QED
  BY <1>5, <1>7, <1>8 DEF Core

(* A group in flight, or a message given up, mails nobody. *)
LEMMA FlightCore ==
  ASSUME TypeOK, TypeOK', Core,
         UNCHANGED <<job, seen, chunks, client, mailed, skip>>,
         worker.job # NoJob, worker'.job = worker.job,
         worker'.left \cap worker'.flying = {},
         worker'.left \cup worker'.flying \subseteq worker.left \cup worker.flying
  PROVE  Core'
<1>1. WorkerNew'
  BY DEF Core, WorkerNew
<1>2. ChunksNew'
  BY DEF Core, ChunksNew, Busy
<1>3. Untouched' /\ NoFiles' /\ ChunksApart' /\ SeenSkips' /\ OncePerJob' /\ SkipsRecorded'
  BY DEF Core, Untouched, NoFiles, ChunksApart, SeenSkips, OncePerJob, SkipsRecorded, Mailed
<1> QED
  BY <1>1, <1>2, <1>3 DEF Core

(* A message in flight has a job and a recipient not mailed before. *)
LEMMA FlyingNew ==
  ASSUME TypeOK, Core, NEW a \in worker.flying
  PROVE  /\ worker.job \in Jobs /\ worker.job # NoJob /\ a \in Addrs
         /\ client[worker.job].posts # 0 /\ mailed[worker.job][a] = 0
         /\ a \notin skip[worker.job] /\ a \notin worker.left
         /\ job[worker.job].state \notin {"none", "draft"}
         /\ \A i \in ChunkIds : a \in chunks[worker.job][i] => i = job[worker.job].nextChunk
<1>1. worker.job \in Jobs \cup {NoJob} /\ worker.flying \subseteq Addrs
  BY DEF TypeOK
<1>2. worker.job # NoJob
  BY DEF Core, WorkerNew, Idle
<1> QED
  BY <1>1, <1>2 DEF Core, WorkerNew

(* A delivery is the first for its job and recipient. *)
LEMMA DeliverCore ==
  ASSUME TypeOK, TypeOK', Core, NEW a \in Addrs, Deliver(a)
  PROVE  Core'
<1> DEFINE w == worker.job
<1>0. a \in worker.flying
  BY DEF Deliver
<1>1. /\ w \in Jobs /\ w # NoJob /\ client[w].posts # 0 /\ mailed[w][a] = 0
      /\ a \notin skip[w] /\ a \notin worker.left /\ job[w].state \notin {"none", "draft"}
      /\ \A i \in ChunkIds : a \in chunks[w][i] => i = job[w].nextChunk
  BY <1>0, FlyingNew
<1>2. /\ UNCHANGED <<job, seen, chunks, client, skip>>
      /\ worker'.job = w /\ worker'.left = worker.left /\ worker'.flying = worker.flying \ {a}
  BY DEF Deliver, memory, files, TypeOK
<1>3. /\ mailed'[w][a] = 1
      /\ \A k \in Jobs, b \in Addrs : k # w \/ b # a => mailed'[k][b] = mailed[k][b]
  BY <1>1 DEF Deliver, TypeOK
<1> HIDE DEF w
<1>4. Untouched'
  BY <1>1, <1>2, <1>3 DEF Core, Untouched
<1>5. NoFiles' /\ ChunksApart' /\ SeenSkips'
  BY <1>2 DEF Core, NoFiles, ChunksApart, SeenSkips
<1>6. ChunksNew'
  <2> SUFFICES ASSUME NEW k \in Jobs, NEW i \in ChunkIds, NEW b \in chunks[k][i]
               PROVE  /\ client[k].posts # 0
                      /\ b \notin skip[k]
                      /\ job[k].state = "draft" => b \in seen[k]
                      /\ mailed'[k][b] # 0 => worker'.job = k /\ i = job[k].nextChunk
    BY <1>2 DEF ChunksNew, Busy
  <2>1. /\ client[k].posts # 0
        /\ b \notin skip[k] /\ b \in Addrs
        /\ job[k].state = "draft" => b \in seen[k]
        /\ mailed[k][b] # 0 => worker.job = k /\ i = job[k].nextChunk
    BY DEF Core, ChunksNew, Busy, TypeOK
  <2>2. mailed'[k][b] # 0 => worker'.job = k /\ i = job[k].nextChunk
    <3>1. CASE k = w /\ b = a
      BY <3>1, <1>1, <1>2
    <3>2. CASE k # w \/ b # a
      BY <3>2, <2>1, <1>2, <1>3 DEF w
    <3> QED
      BY <3>1, <3>2
  <2> QED
    BY <2>1, <2>2
<1>7. WorkerNew'
  <2>1. \A b \in worker'.left \cup worker'.flying :
          /\ b \in worker.left \cup worker.flying /\ b # a /\ b \in Addrs
    BY <1>1, <1>2 DEF TypeOK
  <2>2. \A b \in worker'.left \cup worker'.flying : mailed'[w][b] = 0
    BY <2>1, <1>1, <1>3 DEF Core, WorkerNew, w
  <2>3. /\ worker'.left \cap worker'.flying = {}
    BY <1>1, <1>2 DEF Core, WorkerNew, w
  <2> QED
    BY <2>1, <2>2, <2>3, <1>1, <1>2 DEF Core, WorkerNew, w
<1>8. OncePerJob'
  <2> SUFFICES ASSUME NEW k \in Jobs, NEW b \in Addrs PROVE mailed'[k][b] <= 1
    BY DEF OncePerJob
  <2>1. mailed[k][b] <= 1
    BY DEF Core, OncePerJob
  <2> QED
    BY <2>1, <1>3
<1>9. SkipsRecorded'
  <2> SUFFICES ASSUME NEW k \in Jobs, NEW b \in Addrs, b \in skip[k], mailed'[k][b] > 0
               PROVE  FALSE
    BY <1>2 DEF SkipsRecorded, Mailed
  <2>1. ~(mailed[k][b] > 0)
    BY DEF Core, SkipsRecorded, Mailed
  <2> QED
    BY <2>1, <1>1, <1>3
<1> QED
  BY <1>4, <1>5, <1>6, <1>7, <1>8, <1>9 DEF Core

(* A step that leaves the stores and the worker alone keeps the core. *)
LEMMA SameCore ==
  ASSUME TypeOK, TypeOK', Core,
         UNCHANGED <<job, seen, chunks, mailed, skip, worker>>,
         \A j \in Jobs : client'[j].posts = 0 => client[j].posts = 0
  PROVE  Core'
<1>1. \A j \in Jobs : Busy(j) => job[j].state \notin {"none", "draft"}
  BY JobsAssumption DEF Core, WorkerNew, Busy
<1> QED
  BY <1>1, QuietStep

(* A start leaves the job's chunks and its place in them. *)
LEMMA StartCore ==
  ASSUME TypeOK, TypeOK', Core, NEW j \in Jobs, Start(j)
  PROVE  Core'
<1>1. /\ job[j].state = "draft" /\ worker' = worker /\ chunks' = chunks /\ client' = client
      /\ mailed' = mailed /\ skip' = skip
      /\ \A k \in Jobs : k # j => job'[k] = job[k] /\ seen'[k] = seen[k]
  BY DEF Start, outside, TypeOK
<1>2. job'[j].state = "queued" /\ job'[j].nextChunk = job[j].nextChunk
  <2> DEFINE at == 1 + Cardinality({k \in Jobs : job[k].startedAt > 0})
             charged == job[j].kind = "marketing"
             sealed == [job[j] EXCEPT !.state = "queued", !.startedAt = at]
  <2>1. job[j] \in Job /\ job'[j] = [sealed EXCEPT !.reserved = charged]
    BY DEF Start, TypeOK
  <2> HIDE DEF at, charged
  <2> QED
    BY <2>1 DEF Job
<1>3. \A k \in Jobs : Busy(k) => k # j /\ job[k].state \notin {"none", "draft"}
  BY <1>1, JobsAssumption DEF Core, WorkerNew, Busy
<1> QED
  BY <1>1, <1>2, <1>3, QuietStep

(* What the record of a chunk says *)
LEMMA DrainedFields ==
  ASSUME TypeOK, NEW j \in Jobs
  PROVE  /\ Drained(j).sent = job[j].sent \cup worker.sent
         /\ Drained(j).resumeOf = job[j].resumeOf
         /\ Drained(j).state = IF job[j].state = "queued" THEN "running" ELSE job[j].state
         /\ Drained(j).nextChunk = job[j].nextChunk + 1
  <1>1. job[j] \in Job
    BY DEF TypeOK
  <1> QED
    BY <1>1 DEF Drained, Job

(* The effect of Record: the chunk is gone, or all of the job's are. *)
LEMMA RecordEffect ==
  ASSUME TypeOK, NEW j \in Jobs, Record(j)
  PROVE  /\ worker' = Idle
         /\ \A k \in Jobs : k # j => job'[k] = job[k] /\ chunks'[k] = chunks[k] /\ seen'[k] = seen[k]
         /\ job'[j].sent = job[j].sent \cup worker.sent
         /\ job'[j].resumeOf = job[j].resumeOf
         /\ \/ /\ job'[j].state \in Terminal /\ chunks'[j] = NoChunks
            \/ /\ job'[j].state = IF job[j].state = "queued" THEN "running" ELSE job[j].state
               /\ chunks'[j] = [chunks[j] EXCEPT ![job[j].nextChunk] = {}]
               /\ seen'[j] = seen[j]
         /\ ~DiskMayFail /\ job[j].state \in Terminal => job'[j].state = job[j].state
<1> DEFINE rec == Drained(j)
           kept == [job EXCEPT ![j] = rec]
           file == [disk EXCEPT ![j] = rec]
<1>1. /\ job \in [Jobs -> Job] /\ disk \in [Jobs -> Job] /\ rec \in Job
      /\ kept \in [Jobs -> Job] /\ file \in [Jobs -> Job]
  BY DrainedType DEF TypeOK
<1>2. worker' = Idle
  BY DEF Record
<1>3. CASE /\ Stopped(j) \/ rec.nextChunk < rec.chunkCount
           /\ job' = kept
           /\ chunks' = [chunks EXCEPT ![j][job[j].nextChunk] = {}]
           /\ seen' = seen
  <2>1. chunks'[j] = [chunks[j] EXCEPT ![job[j].nextChunk] = {}]
    BY <1>3 DEF TypeOK
  <2>2. job'[j] = rec
    BY <1>1, <1>3
  <2>3. \A k \in Jobs : k # j => job'[k] = job[k] /\ chunks'[k] = chunks[k] /\ seen'[k] = seen[k]
    BY <1>1, <1>3 DEF TypeOK
  <2>4. job[j].state \in Terminal => job[j].state # "queued"
    BY DEF Terminal
  <2> HIDE DEF rec, kept
  <2> QED
    BY <1>2, <1>3, <2>1, <2>2, <2>3, <2>4, DrainedFields DEF rec
<1>4. ASSUME NEW state \in Terminal, NEW old \in [Jobs -> Job], Finish({j}, state, kept, old),
             ~Stopped(j) \/ DiskMayFail
      PROVE  /\ \A k \in Jobs : k # j => job'[k] = job[k] /\ chunks'[k] = chunks[k] /\ seen'[k] = seen[k]
             /\ job'[j].sent = job[j].sent \cup worker.sent
             /\ job'[j].resumeOf = job[j].resumeOf
             /\ job'[j].state \in Terminal /\ chunks'[j] = NoChunks
             /\ ~DiskMayFail /\ job[j].state \in Terminal => job'[j].state = job[j].state
  <2>1. \A k \in Jobs :
           /\ k = j => job'[k].state = state /\ chunks'[k] = NoChunks
           /\ k # j => job'[k] = kept[k] /\ chunks'[k] = chunks[k] /\ seen'[k] = seen[k]
           /\ job'[k].sent = kept[k].sent
           /\ job'[k].resumeOf = kept[k].resumeOf
    <3> DEFINE F == {j}
    <3>1. F \in SUBSET Jobs /\ Finish(F, state, kept, old)
      BY <1>4
    <3> HIDE DEF kept, F
    <3>2. Finished(F, state, kept)
      BY <1>1, <1>4, <3>1, FinishEffect
    <3> QED
      BY <3>2 DEF F, Finished
  <2>2. kept[j] = rec /\ \A k \in Jobs : k # j => kept[k] = job[k]
    BY <1>1
  <2> HIDE DEF rec, kept
  <2> QED
    BY <2>1, <2>2, <1>4, DrainedFields DEF rec, Stopped
<1>5. CASE RecordKept(j)
  <2>1. CASE ~Stopped(j) /\ (Finish({j}, "died", kept, file) \/ Finish({j}, "completed", kept, file))
    <3>1. {"died", "completed"} \subseteq Terminal
      BY DEF Terminal
    <3> HIDE DEF kept, file
    <3> QED
      BY <1>1, <1>2, <1>4, <2>1, <3>1
  <2>2. CASE /\ job' = kept
             /\ chunks' = [chunks EXCEPT ![j][job[j].nextChunk] = {}]
             /\ seen' = seen
             /\ Stopped(j) \/ ~(rec.nextChunk >= rec.chunkCount)
    <3>1. Stopped(j) \/ rec.nextChunk < rec.chunkCount
      <4>1. rec.nextChunk \in Nat /\ rec.chunkCount \in Nat
        BY <1>1, JobFields
      <4> HIDE DEF rec
      <4> QED
        BY <2>2, <4>1
    <3> QED
      BY <1>3, <2>2, <3>1
  <2> QED
    BY <1>5, <2>1, <2>2 DEF RecordKept
<1>6. CASE RecordLost(j)
  <2>1. Finish({j}, "died", kept, disk) /\ DiskMayFail /\ "died" \in Terminal
    BY <1>6 DEF RecordLost, Terminal
  <2> HIDE DEF kept
  <2> QED
    BY <1>1, <1>2, <1>4, <2>1
<1> QED
  BY <1>5, <1>6 DEF Record

LEMMA RecordCore ==
  ASSUME TypeOK, TypeOK', Core, NEW j \in Jobs, Record(j)
  PROVE  Core'
<1>1. /\ Busy(j) /\ worker' = Idle /\ UNCHANGED <<client, mailed, skip>>
  BY DEF Record, outside
<1>2. /\ \A k \in Jobs : k # j => job'[k] = job[k] /\ chunks'[k] = chunks[k] /\ seen'[k] = seen[k]
      /\ \/ /\ job'[j].state \in Terminal /\ chunks'[j] = NoChunks
         \/ /\ job'[j].state = IF job[j].state = "queued" THEN "running" ELSE job[j].state
            /\ chunks'[j] = [chunks[j] EXCEPT ![job[j].nextChunk] = {}]
            /\ seen'[j] = seen[j]
  BY RecordEffect
<1>3. job[j].state \notin {"none", "draft"}
  BY <1>1, JobsAssumption DEF Core, WorkerNew, Busy
<1>4. job'[j].state \notin {"none", "draft"}
  BY <1>2, <1>3 DEF Terminal
<1>5. \A k \in Jobs, i \in ChunkIds : chunks'[k][i] \subseteq chunks[k][i]
  <2>1. \A i \in ChunkIds : chunks'[j][i] \subseteq chunks[j][i]
    <3>1. CASE chunks'[j] = NoChunks
      BY <3>1 DEF NoChunks
    <3>2. CASE chunks'[j] = [chunks[j] EXCEPT ![job[j].nextChunk] = {}]
      <4>1. chunks[j] \in [ChunkIds -> SUBSET Addrs]
        BY DEF TypeOK
      <4> QED
        BY <3>2, <4>1
    <3> QED
      BY <1>2, <3>1, <3>2
  <2> QED
    BY <1>2, <2>1
<1>6. \A k \in Jobs, i \in ChunkIds : Busy(k) /\ i = job[k].nextChunk => chunks'[k][i] = {}
  BY <1>1, <1>2 DEF NoChunks, TypeOK, Busy
<1> QED
  BY <1>1, <1>2, <1>4, <1>5, <1>6, QuietStep

(* A restart wipes the chunks and ends every live job. *)
LEMMA RestartCore ==
  ASSUME TypeOK, TypeOK', Core, Restart
  PROVE  Core'
<1>1. /\ chunks' = [j \in Jobs |-> NoChunks] /\ worker' = Idle
      /\ UNCHANGED <<client, mailed, skip>>
  BY DEF Restart
<1>2. \A j \in Jobs : job'[j].state # "draft"
  <2> SUFFICES ASSUME NEW j \in Jobs PROVE job'[j].state # "draft"
    OBVIOUS
  <2>1. disk[j] \in Job
    BY DEF TypeOK
  <2>2. job'[j] = IF disk[j].state \in Live THEN [disk[j] EXCEPT !.state = "died"] ELSE disk[j]
    BY DEF Restart
  <2> QED
    BY <2>1, <2>2 DEF Job, Live
<1>3. \A j \in Jobs, i \in ChunkIds : chunks'[j] = NoChunks /\ chunks'[j][i] = {}
  BY <1>1 DEF NoChunks
<1> QED
  BY <1>1, <1>2, <1>3, QuietStep

LEMMA StepCore == TypeOK /\ TypeOK' /\ Core /\ [Next]_vars => Core'
<1> SUFFICES ASSUME TypeOK, TypeOK', Core, [Next]_vars PROVE Core'
  OBVIOUS
<1>1. ASSUME NEW j \in Jobs, NEW S \in Uploads, LoseUpload(j, S)
      PROVE  Core'
  <2>1. \A k \in Jobs : client'[k].posts = 0 => client[k].posts = 0
    BY <1>1 DEF LoseUpload, Counted, TypeOK
  <2> QED
    BY <1>1, <2>1, SameCore DEF LoseUpload, memory, files
<1>2. ASSUME NEW j \in Jobs, Cancel(j)
      PROVE  Core'
  <2>1. \A k \in {j} : job[k].state # "none"
    BY <1>2 DEF Cancel, Live
  <2> QED
    BY <1>2, <2>1, FinishCore DEF Cancel, Terminal, outside
<1>3. CASE Sweep
  <2> DEFINE F == Overdue
  <2>1. F \in SUBSET Jobs /\ \A k \in F : job[k].state # "none"
    BY DEF Overdue, TypeOK, Live
  <2>2. Finish(F, "expired", job, disk) /\ UNCHANGED <<worker, outside>>
    BY <1>3 DEF Sweep
  <2> HIDE DEF F
  <2> QED
    BY <2>1, <2>2, FinishCore DEF Terminal, outside
<1>4. CASE Shutdown
  <2> DEFINE F == {j \in Jobs : job[j].state \in Live}
  <2>1. F \in SUBSET Jobs /\ \A k \in F : job[k].state # "none"
    BY DEF Live
  <2>2. Finish(F, "died", job, disk) /\ UNCHANGED <<worker, outside>>
    BY <1>4 DEF Shutdown
  <2> HIDE DEF F
  <2> QED
    BY <2>1, <2>2, FinishCore DEF Terminal, outside
<1>5. ASSUME NEW j \in Jobs, CannotSend(j)
      PROVE  Core'
  <2>1. \A k \in {j} : job[k].state # "none"
    BY <1>5 DEF CannotSend, Turn, Pool, Runnable
  <2> QED
    BY <1>5, <2>1, FinishCore DEF CannotSend, Terminal, outside
<1>6. ASSUME NEW a \in Addrs, OptOut(a)
      PROVE  Core'
  BY <1>6, SameCore DEF OptOut, memory, files
<1>7. ASSUME NEW j \in Jobs, Lapse(j)
      PROVE  Core'
  BY <1>7, SameCore DEF Lapse, files, outside
<1>8. ASSUME NEW G \in SUBSET Addrs, HandOver(G)
      PROVE  Core'
  <2>1. /\ worker.job # NoJob /\ worker.flying = {} /\ G \subseteq worker.left
        /\ UNCHANGED <<memory, files, outside>>
        /\ worker' = [worker EXCEPT !.left = @ \ G, !.flying = G]
    BY <1>8 DEF HandOver
  <2>2. worker'.job = worker.job /\ worker'.left = worker.left \ G /\ worker'.flying = G
    BY <2>1 DEF TypeOK
  <2> QED
    BY <2>1, <2>2, FlightCore DEF memory, files, outside
<1>9. ASSUME NEW a \in Addrs, GiveUp(a)
      PROVE  Core'
  <2>1. /\ a \in worker.flying /\ UNCHANGED <<memory, files, outside>>
        /\ worker' = [worker EXCEPT !.flying = @ \ {a}, !.failed = @ \cup {a}]
    BY <1>9 DEF GiveUp
  <2>2. worker'.job = worker.job /\ worker'.left = worker.left /\ worker'.flying = worker.flying \ {a}
    BY <2>1 DEF TypeOK
  <2>3. worker.job # NoJob /\ worker.left \cap worker.flying = {}
    BY <2>1 DEF Core, WorkerNew, Idle
  <2> QED
    BY <2>1, <2>2, <2>3, FlightCore DEF memory, files, outside
<1>10. CASE UNCHANGED vars
  BY <1>10, SameCore DEF vars, memory, files, outside
<1> QED
  BY <1>1, <1>2, <1>3, <1>4, <1>5, <1>6, <1>7, <1>8, <1>9, <1>10, CreateCore, AppendCore,
     StartCore, OpenCore, RecordCore, DeliverCore, RestartCore DEF Next, Organiser, Drain

-----------------------------------------------------------------------------
(* Writes that do not fail keep the files as the memory. *)
LEMMA PersistTrue ==
  ASSUME ~DiskMayFail, NEW F, NEW old, NEW now \in [Jobs -> Job],
         \A k \in Jobs : k \notin F => now[k] = old[k], Persist(F, old, now)
  PROVE  disk' = now
<1>1. disk' = [k \in Jobs |-> IF k \in F \ {} THEN now[k] ELSE old[k]]
  BY DEF Persist
<1>2. \A k \in Jobs : (IF k \in F \ {} THEN now[k] ELSE old[k]) = now[k]
  OBVIOUS
<1>3. disk' = [k \in Jobs |-> now[k]]
  BY <1>1, <1>2
<1> QED
  BY <1>3

LEMMA FinishTrue ==
  ASSUME ~DiskMayFail, NEW F \in SUBSET Jobs, NEW state \in Terminal,
         NEW now \in [Jobs -> Job], Finish(F, state, now, now)
  PROVE  disk' = job'
<1> DEFINE done == [k \in Jobs |-> IF k \in F THEN [now[k] EXCEPT !.state = state] ELSE now[k]]
<1>1. done \in [Jobs -> Job]
  BY JobFields
<1>2. job' = done /\ Persist(F, now, done)
  BY DEF Finish
<1>3. \A k \in Jobs : k \notin F => done[k] = now[k]
  OBVIOUS
<1> HIDE DEF done
<1> QED
  BY <1>1, <1>2, <1>3, PersistTrue

LEMMA StepFiles == TypeOK /\ TypeOK' /\ FilesTrue /\ [Next]_vars => FilesTrue'
<1> SUFFICES ASSUME TypeOK, TypeOK', disk = job, ~DiskMayFail, [Next]_vars
             PROVE  disk' = job'
  BY DEF FilesTrue
<1>t. job \in [Jobs -> Job] /\ disk \in [Jobs -> Job] /\ job' \in [Jobs -> Job]
  BY DEF TypeOK
<1>1. ASSUME NEW j \in Jobs, Persist({j}, disk, job'), \A k \in Jobs : k # j => job'[k] = job[k]
      PROVE  disk' = job'
  <2> DEFINE F == {j}
  <2>1. Persist(F, disk, job') /\ \A k \in Jobs : k \notin F => job'[k] = disk[k]
    BY <1>1
  <2> HIDE DEF F
  <2> QED
    BY <2>1, <1>t, PersistTrue
<1>2. ASSUME NEW j \in Jobs, NEW kind \in Kinds, NEW p \in Jobs \cup {NoJob}, Create(j, kind, p)
      PROVE  disk' = job'
  BY <1>2, <1>1, <1>t DEF Create
<1>3. ASSUME NEW j \in Jobs, NEW S \in Uploads, Append(j, S)
      PROVE  disk' = job'
  BY <1>3, <1>1, <1>t DEF Append
<1>4. ASSUME NEW j \in Jobs, Start(j)
      PROVE  disk' = job'
  BY <1>4, <1>t DEF Start
<1>5. ASSUME NEW j \in Jobs, Record(j)
      PROVE  disk' = job'
  <2> DEFINE kept == [job EXCEPT ![j] = Drained(j)]
             F == {j}
  <2>1. kept \in [Jobs -> Job] /\ F \in SUBSET Jobs /\ {"died", "completed"} \subseteq Terminal
    BY DrainedType, <1>t DEF Terminal
  <2>2. \/ job' = kept /\ disk' = kept
        \/ Finish(F, "died", kept, kept)
        \/ Finish(F, "completed", kept, kept)
    BY <1>5 DEF Record, RecordKept, RecordLost
  <2> HIDE DEF kept, F
  <2> QED
    BY <2>1, <2>2, FinishTrue
<1>6. ASSUME NEW F \in SUBSET Jobs, NEW state \in Terminal, Finish(F, state, job, disk)
      PROVE  disk' = job'
  BY <1>6, <1>t, FinishTrue
<1>7. ASSUME NEW j \in Jobs, Cancel(j) \/ CannotSend(j)
      PROVE  disk' = job'
  <2> DEFINE F == {j}
  <2>1. F \in SUBSET Jobs /\ (Finish(F, "cancelled", job, disk) \/ Finish(F, "died", job, disk))
    BY <1>7 DEF Cancel, CannotSend
  <2> HIDE DEF F
  <2> QED
    BY <2>1, <1>6 DEF Terminal
<1>8. CASE Sweep
  <2>1. PICK F \in SUBSET Jobs : Finish(F, "expired", job, disk)
    BY <1>8 DEF Sweep, Overdue, TypeOK
  <2> QED
    BY <2>1, <1>6 DEF Terminal
<1>9. CASE Shutdown
  <2>1. PICK F \in SUBSET Jobs : Finish(F, "died", job, disk)
    BY <1>9 DEF Shutdown
  <2> QED
    BY <2>1, <1>6 DEF Terminal
<1>10. CASE Restart
  <2> DEFINE F == {j \in Jobs : disk[j].state \in Live}
             now == [j \in Jobs |-> IF j \in F THEN [disk[j] EXCEPT !.state = "died"] ELSE disk[j]]
  <2>1. job' = now /\ Persist(F, disk, now)
    BY <1>10 DEF Restart
  <2>2. \A k \in Jobs : k \notin F => now[k] = disk[k]
    OBVIOUS
  <2>3. now \in [Jobs -> Job]
    BY <2>1, <1>t
  <2> HIDE DEF now, F
  <2> QED
    BY <2>1, <2>2, <2>3, PersistTrue
<1>11. CASE disk' = disk /\ job' = job
  BY <1>11
<1> QED
  BY <1>2, <1>3, <1>4, <1>5, <1>7, <1>8, <1>9, <1>10, <1>11
  DEF Next, Organiser, Drain, LoseUpload, OpenChunk, HandOver, Deliver, GiveUp, OptOut, Lapse,
      vars, memory, files

-----------------------------------------------------------------------------
(* Steps that mail nobody, and stop no job the worker has, keep the records. *)
LEMMA QuietRecords ==
  ASSUME TypeOK, RecordsTrue, mailed' = mailed, skip' = skip,
         \A j \in Jobs : /\ job'[j].sent = job[j].sent
                         /\ job'[j].resumeOf = job[j].resumeOf
                         /\ job[j].state \in Terminal => job'[j].state \in Terminal,
         worker'.job = worker.job, worker'.sent = worker.sent,
         worker.job # NoJob => job'[worker.job].state \in {"queued", "running"}
  PROVE  RecordsTrue'
<1> SUFFICES ASSUME ~MayCut, ~DiskMayFail PROVE RecordsTrue'
  BY DEF RecordsTrue
<1>1. \A j \in Jobs, a \in Addrs :
        mailed'[j][a] # 0 <=> a \in job'[j].sent \/ (worker'.job = j /\ a \in worker'.sent)
  BY DEF RecordsTrue, Busy
<1>2. \A j \in Jobs : job'[j].resumeOf # NoJob =>
        /\ job'[job'[j].resumeOf].state \in Terminal
        /\ skip'[j] = job'[job'[j].resumeOf].sent
  <2> SUFFICES ASSUME NEW j \in Jobs, job[j].resumeOf # NoJob
               PROVE  /\ job'[job[j].resumeOf].state \in Terminal
                      /\ skip[j] = job'[job[j].resumeOf].sent
    OBVIOUS
  <2>1. job[j].resumeOf \in Jobs
    <3>1. job[j] \in Job
      BY DEF TypeOK
    <3> QED
      BY <3>1 DEF Job
  <2> QED
    BY <2>1 DEF RecordsTrue
<1> QED
  BY <1>1, <1>2 DEF RecordsTrue, Busy

(* What finishJob keeps of the records, for jobs the worker does not have *)
LEMMA FinishRecords ==
  ASSUME TypeOK, RecordsTrue, NEW F \in SUBSET Jobs, NEW state \in Terminal,
         Finish(F, state, job, disk), worker' = worker, mailed' = mailed, skip' = skip,
         ~MayCut => worker.job \notin F
  PROVE  RecordsTrue'
<1>1. job \in [Jobs -> Job] /\ disk \in [Jobs -> Job] /\ worker.job \in Jobs \cup {NoJob}
  BY DEF TypeOK
<1>2. \A k \in Jobs :
        /\ k \in F => job'[k].state = state
        /\ k \notin F => job'[k] = job[k]
        /\ job'[k].sent = job[k].sent /\ job'[k].resumeOf = job[k].resumeOf
  <2>1. job \in [Jobs -> Job] /\ disk \in [Jobs -> Job]
    BY <1>1
  <2>2. Finished(F, state, job)
    BY <2>1, FinishEffect
  <2> QED
    BY <2>2 DEF Finished
<1>3. CASE ~MayCut /\ ~DiskMayFail
  <2>1. worker.job # NoJob => job'[worker.job].state \in {"queued", "running"}
    BY <1>1, <1>2, <1>3 DEF RecordsTrue
  <2> QED
    BY <1>2, <2>1, QuietRecords
<1> QED
  BY <1>3 DEF RecordsTrue

LEMMA StepRecords == TypeOK /\ TypeOK' /\ Core /\ FilesTrue /\ RecordsTrue /\ [Next]_vars => RecordsTrue'
<1> SUFFICES ASSUME TypeOK, TypeOK', Core, FilesTrue, RecordsTrue, [Next]_vars, ~MayCut, ~DiskMayFail
             PROVE  RecordsTrue'
  BY DEF RecordsTrue
<1>t. /\ job \in [Jobs -> Job] /\ worker.job \in Jobs \cup {NoJob}
      /\ \A j \in Jobs : job[j].resumeOf \in Jobs \cup {NoJob}
  BY DEF TypeOK, Job
<1>w. /\ worker.job = NoJob => worker = Idle
      /\ worker.job # NoJob => worker.job \in Jobs /\ job[worker.job].state \in {"queued", "running"}
      /\ \A j \in Jobs : Busy(j) => job[j].state \in {"queued", "running"}
  BY <1>t, JobsAssumption DEF Core, WorkerNew, RecordsTrue, Busy
<1>1. ASSUME NEW j \in Jobs, NEW kind \in Kinds, NEW p \in Jobs \cup {NoJob}, Create(j, kind, p)
      PROVE  RecordsTrue'
  <2>1. /\ job[j].state = "none" /\ client[j].posts = 0 /\ mailed' = mailed /\ worker' = worker
        /\ p # NoJob => job[p].state \in Terminal
        /\ \A k \in Jobs : k # j => job'[k] = job[k] /\ skip'[k] = skip[k]
    BY <1>1, <1>t DEF Create, TypeOK
  <2>2. job'[j].sent = {} /\ job'[j].resumeOf = p
    BY <1>1, <1>t DEF Create, Blank
  <2>3. skip'[j] = IF p = NoJob THEN {} ELSE job[p].sent
    BY <1>1 DEF Create, TypeOK
  <2>4. p # j /\ worker.job # j /\ \A k \in Jobs : job[k].resumeOf # j
    BY <2>1, <1>w, <1>t, JobsAssumption DEF RecordsTrue, Terminal
  <2>5. \A a \in Addrs : mailed[j][a] = 0
    BY <2>1 DEF Core, Untouched
  <2>6. \A k \in Jobs, a \in Addrs :
          mailed'[k][a] # 0 <=> a \in job'[k].sent \/ (worker'.job = k /\ a \in worker'.sent)
    BY <2>1, <2>2, <2>4, <2>5 DEF RecordsTrue, Busy
  <2>7. worker'.job # NoJob => job'[worker'.job].state \in {"queued", "running"}
    BY <2>1, <2>4, <1>w
  <2>8. \A k \in Jobs : job'[k].resumeOf # NoJob =>
          /\ job'[job'[k].resumeOf].state \in Terminal
          /\ skip'[k] = job'[job'[k].resumeOf].sent
    <3> SUFFICES ASSUME NEW k \in Jobs, job'[k].resumeOf # NoJob
                 PROVE  /\ job'[job'[k].resumeOf].state \in Terminal
                        /\ skip'[k] = job'[job'[k].resumeOf].sent
      OBVIOUS
    <3>1. CASE k = j
      BY <3>1, <2>1, <2>2, <2>3, <2>4
    <3>2. CASE k # j
      BY <3>2, <2>1, <2>4, <1>t DEF RecordsTrue
    <3> QED
      BY <3>1, <3>2
  <2> QED
    BY <2>6, <2>7, <2>8 DEF RecordsTrue, Busy
<1>2. ASSUME NEW j \in Jobs, NEW S \in Uploads, Append(j, S)
      PROVE  RecordsTrue'
  <2> DEFINE fresh == Fresh(j, S)
             more == IF fresh = {} THEN job[j].chunkCount ELSE job[j].chunkCount + 1
  <2>1. /\ job[j].state = "draft" /\ mailed' = mailed /\ skip' = skip /\ worker' = worker
        /\ job' = [job EXCEPT ![j] = [job[j] EXCEPT !.accepted = @ \cup fresh, !.chunkCount = more]]
    BY <1>2 DEF Append
  <2> HIDE DEF fresh, more
  <2>2. /\ \A k \in Jobs : k # j => job'[k] = job[k]
        /\ job'[j].sent = job[j].sent /\ job'[j].resumeOf = job[j].resumeOf
        /\ job'[j].state = job[j].state
    BY <2>1, <1>t DEF Job
  <2> QED
    BY <2>1, <2>2, <1>w, QuietRecords
<1>3. ASSUME NEW j \in Jobs, Start(j)
      PROVE  RecordsTrue'
  <2> DEFINE at == 1 + Cardinality({k \in Jobs : job[k].startedAt > 0})
             charged == job[j].kind = "marketing"
             sealed == [job[j] EXCEPT !.state = "queued", !.startedAt = at]
  <2>1. /\ job[j].state = "draft" /\ mailed' = mailed /\ skip' = skip /\ worker' = worker
        /\ job' = [job EXCEPT ![j] = [sealed EXCEPT !.reserved = charged]]
    BY <1>3 DEF Start, outside
  <2> HIDE DEF at, charged
  <2>2. /\ \A k \in Jobs : k # j => job'[k] = job[k]
        /\ job'[j].sent = job[j].sent /\ job'[j].resumeOf = job[j].resumeOf
        /\ job'[j].state = "queued"
    BY <2>1, <1>t DEF Job
  <2>3. \A k \in Jobs : job[k].state \in Terminal => job'[k].state \in Terminal
    BY <2>1, <2>2 DEF Terminal
  <2> QED
    BY <2>1, <2>2, <2>3, <1>w, QuietRecords
<1>4. ASSUME NEW F \in SUBSET Jobs, NEW state \in Terminal, Finish(F, state, job, disk),
             UNCHANGED <<worker, outside>>, worker.job \notin F
      PROVE  RecordsTrue'
  BY <1>4, FinishRecords DEF outside
<1>5. ASSUME NEW j \in Jobs, Cancel(j) \/ CannotSend(j)
      PROVE  RecordsTrue'
  <2> DEFINE F == {j}
  <2>1. /\ F \in SUBSET Jobs /\ worker.job \notin F /\ UNCHANGED <<worker, outside>>
        /\ Finish(F, "cancelled", job, disk) \/ Finish(F, "died", job, disk)
    BY <1>5, JobsAssumption DEF Cancel, CannotSend, MayStop, Busy, Idle
  <2> HIDE DEF F
  <2> QED
    BY <2>1, <1>4 DEF Terminal
<1>6. CASE Sweep
  <2>1. PICK F \in SUBSET Jobs : Finish(F, "expired", job, disk)
    BY <1>6 DEF Sweep, Overdue, TypeOK
  <2>2. worker.job \notin F /\ UNCHANGED <<worker, outside>>
    BY <1>6, JobsAssumption DEF Sweep, Idle
  <2> QED
    BY <2>1, <2>2, <1>4 DEF Terminal
<1>7. CASE Shutdown
  <2>1. PICK F \in SUBSET Jobs : Finish(F, "died", job, disk)
    BY <1>7 DEF Shutdown
  <2>2. worker.job \notin F /\ UNCHANGED <<worker, outside>>
    BY <1>7, JobsAssumption DEF Shutdown, MayHalt
  <2> QED
    BY <2>1, <2>2, <1>4 DEF Terminal
<1>8. ASSUME NEW j \in Jobs, OpenChunk(j)
      PROVE  RecordsTrue'
  <2>1. /\ worker = Idle /\ worker'.job = j /\ worker'.sent = {} /\ j \in Runnable
        /\ UNCHANGED <<job, mailed, skip>>
    BY <1>8 DEF OpenChunk, Turn, Pool, Idle, files, outside
  <2>2. \A k \in Jobs, a \in Addrs : mailed[k][a] # 0 <=> a \in job[k].sent
    BY <2>1, JobsAssumption DEF RecordsTrue, Busy, Idle
  <2> QED
    BY <2>1, <2>2 DEF RecordsTrue, Busy, Runnable
<1>9. ASSUME NEW j \in Jobs, Record(j)
      PROVE  RecordsTrue'
  <2>1. /\ Busy(j) /\ worker' = Idle /\ UNCHANGED <<mailed, skip>>
        /\ \A k \in Jobs : k # j => job'[k] = job[k]
        /\ job'[j].sent = job[j].sent \cup worker.sent
        /\ job'[j].resumeOf = job[j].resumeOf
    BY <1>9, RecordEffect DEF Record, outside
  <2>2. job[j].state \notin Terminal /\ \A k \in Jobs : job[k].resumeOf # j
    BY <2>1, <1>w, JobsAssumption DEF RecordsTrue, Terminal
  <2>3. \A k \in Jobs, a \in Addrs : mailed'[k][a] # 0 <=> a \in job'[k].sent
    BY <2>1 DEF RecordsTrue, Busy
  <2>4. worker'.job = NoJob
    BY <2>1 DEF Idle
  <2>5. \A k \in Jobs : job'[k].resumeOf # NoJob =>
          /\ job'[job'[k].resumeOf].state \in Terminal
          /\ skip'[k] = job'[job'[k].resumeOf].sent
    BY <2>1, <2>2, <1>t DEF RecordsTrue
  <2> QED
    BY <2>3, <2>4, <2>5, JobsAssumption DEF RecordsTrue, Busy
<1>10. ASSUME NEW a \in Addrs, Deliver(a)
       PROVE  RecordsTrue'
  <2> DEFINE w == worker.job
  <2>1. /\ w \in Jobs /\ mailed[w][a] = 0
    BY <1>10, FlyingNew DEF Deliver
  <2>2. /\ UNCHANGED <<job, skip>>
        /\ worker'.job = w /\ worker'.sent = worker.sent \cup {a}
    BY <1>10 DEF Deliver, memory, files, TypeOK
  <2>3. /\ mailed'[w][a] = 1
        /\ \A k \in Jobs, b \in Addrs : k # w \/ b # a => mailed'[k][b] = mailed[k][b]
    BY <1>10, <2>1 DEF Deliver, TypeOK
  <2> HIDE DEF w
  <2>4. \A k \in Jobs, b \in Addrs :
          mailed'[k][b] # 0 <=> b \in job[k].sent \/ (w = k /\ b \in worker'.sent)
    <3> SUFFICES ASSUME NEW k \in Jobs, NEW b \in Addrs
                 PROVE  mailed'[k][b] # 0 <=> b \in job[k].sent \/ (w = k /\ b \in worker'.sent)
      OBVIOUS
    <3>1. CASE k = w /\ b = a
      BY <3>1, <2>2, <2>3
    <3>2. CASE k # w \/ b # a
      BY <3>2, <2>2, <2>3 DEF RecordsTrue, Busy, w
    <3> QED
      BY <3>1, <3>2
  <2> QED
    BY <2>2, <2>4, <1>w DEF RecordsTrue, Busy, w
<1>11. CASE Restart
  <2>1. /\ worker = Idle /\ worker' = Idle /\ UNCHANGED <<mailed, skip>> /\ disk = job
    BY <1>11, <1>w DEF Restart, MayHalt, FilesTrue
  <2>2. \A j \in Jobs : job'[j] = IF job[j].state \in Live THEN [job[j] EXCEPT !.state = "died"] ELSE job[j]
    BY <1>11, <2>1 DEF Restart
  <2>3. \A j \in Jobs : /\ job'[j].sent = job[j].sent /\ job'[j].resumeOf = job[j].resumeOf
                        /\ job[j].state \in Terminal => job'[j].state \in Terminal
    <3> SUFFICES ASSUME NEW j \in Jobs
                 PROVE  /\ job'[j].sent = job[j].sent /\ job'[j].resumeOf = job[j].resumeOf
                        /\ job[j].state \in Terminal => job'[j].state \in Terminal
      OBVIOUS
    <3>1. job[j] \in Job /\ "died" \in Terminal
      BY <1>t DEF Terminal
    <3>2. CASE job[j].state \in Live
      <4>1. job'[j] = [job[j] EXCEPT !.state = "died"]
        BY <2>2, <3>2
      <4> QED
        BY <3>1, <4>1 DEF Job
    <3>3. CASE job[j].state \notin Live
      BY <2>2, <3>3
    <3> QED
      BY <3>2, <3>3
  <2> QED
    BY <2>1, <2>3, QuietRecords DEF Idle
<1>12. CASE /\ job' = job /\ mailed' = mailed /\ skip' = skip
            /\ worker'.job = worker.job /\ worker'.sent = worker.sent
  BY <1>12, <1>w, QuietRecords
<1>13. ASSUME NEW G \in SUBSET Addrs, HandOver(G)
       PROVE  RecordsTrue'
  BY <1>13, <1>12 DEF HandOver, memory, files, outside, TypeOK
<1>14. ASSUME NEW a \in Addrs, GiveUp(a)
       PROVE  RecordsTrue'
  BY <1>14, <1>12 DEF GiveUp, memory, files, outside, TypeOK
<1>15. CASE \/ \E j \in Jobs, S \in Uploads : LoseUpload(j, S)
            \/ \E a \in Addrs : OptOut(a)
            \/ \E j \in Jobs : Lapse(j)
            \/ UNCHANGED vars
  BY <1>12, <1>15 DEF LoseUpload, OptOut, Lapse, vars, memory, files, outside
<1> QED
  BY <1>1, <1>2, <1>3, <1>5, <1>6, <1>7, <1>8, <1>9, <1>10, <1>11, <1>13, <1>14, <1>15
  DEF Next, Organiser, Drain

-----------------------------------------------------------------------------
LEMMA InitIInv == Init => IInv
<1>1. Init => FilesTrue
  BY DEF Init, FilesTrue
<1>2. Init => RecordsTrue
  BY JobsAssumption DEF Init, RecordsTrue, Blank, Idle, Busy
<1> QED
  BY <1>1, <1>2, InitType, InitCore DEF IInv, Core

LEMMA StepIInv == IInv /\ [Next]_vars => IInv'
<1> SUFFICES ASSUME IInv, [Next]_vars PROVE IInv'
  OBVIOUS
<1>1. TypeOK /\ Core /\ FilesTrue /\ RecordsTrue
  BY DEF IInv, Core
<1>2. TypeOK'
  BY <1>1, StepType
<1>3. Core' /\ FilesTrue' /\ RecordsTrue'
  BY <1>1, <1>2, StepCore, StepFiles, StepRecords
<1> QED
  BY <1>2, <1>3 DEF IInv, Core

(* The inductive invariant: who the chunk files and the worker hold is new   *)
(* to the job and to the prior job, and mailed only while the worker has the *)
(* chunk (appendChunk, drainOneChunk, recordChunkDrained).                   *)
THEOREM Invariance == Spec => []IInv
BY InitIInv, StepIInv, PTL DEF Spec

(* No job mails an address twice, whatever write fails and wherever the      *)
(* process is cut off (appendChunk's dedupe, the order of the drain).        *)
THEOREM OncePerJobHolds == Spec => []OncePerJob
<1>1. IInv => OncePerJob
  BY DEF IInv
<1> QED
  BY <1>1, Invariance, PTL

(* A resume mails nobody the prior record held when it was created           *)
(* (createJob's seed).                                                       *)
THEOREM SkipsRecordedHolds == Spec => []SkipsRecorded
<1>1. IInv => SkipsRecorded
  BY DEF IInv
<1> QED
  BY <1>1, Invariance, PTL

(* When no chunk is cut short and no write fails, a resume mails nobody the  *)
(* job it resumes has mailed: the record it skips is the whole truth.        *)
THEOREM ResumeMailsNobodyTwiceHolds ==
  ASSUME ~MayCut, ~DiskMayFail
  PROVE  Spec => []ResumeMailsNobodyTwice
<1>1. IInv => ResumeMailsNobodyTwice
  <2> SUFFICES ASSUME IInv, NEW j \in Jobs, job[j].resumeOf # NoJob
               PROVE  Mailed(j) \cap Mailed(job[j].resumeOf) = {}
    BY DEF ResumeMailsNobodyTwice
  <2> DEFINE p == job[j].resumeOf
  <2>1. /\ TypeOK /\ RecordsTrue /\ SkipsRecorded
    BY DEF IInv
  <2>2. p \in Jobs /\ p # NoJob
    <3>1. job[j] \in Job
      BY <2>1 DEF TypeOK
    <3> QED
      BY <3>1 DEF Job
  <2>3. job[p].state \in Terminal /\ skip[j] = job[p].sent
    BY <2>1, <2>2 DEF RecordsTrue
  <2>4. ~Busy(p)
    BY <2>1, <2>2, <2>3 DEF RecordsTrue, Busy, Terminal
  <2>5. Mailed(p) \subseteq skip[j]
    <3> SUFFICES ASSUME NEW a \in Addrs, mailed[p][a] > 0 PROVE a \in skip[j]
      BY DEF Mailed
    <3>1. mailed[p][a] # 0
      OBVIOUS
    <3> QED
      BY <3>1, <2>1, <2>2, <2>3, <2>4 DEF RecordsTrue
  <2> HIDE DEF p
  <2> QED
    BY <2>1, <2>5 DEF SkipsRecorded, p
<1> QED
  BY <1>1, Invariance, PTL

(* When no write fails, a stopped job keeps the state it was stopped with,   *)
(* whatever the worker still records for it (recordChunkDrained).            *)
THEOREM StaysStoppedHolds ==
  ASSUME ~DiskMayFail
  PROVE  Spec => StaysStopped
<1>1. IInv /\ IInv' /\ [Next]_vars => [\A j \in Jobs : job[j].state \in Terminal => job'[j].state = job[j].state]_vars
  <2> SUFFICES ASSUME IInv, IInv', Next, NEW k \in Jobs, job[k].state \in Terminal
               PROVE  job'[k].state = job[k].state
    OBVIOUS
  <2>t. /\ TypeOK /\ job \in [Jobs -> Job] /\ disk \in [Jobs -> Job] /\ disk = job
        /\ job[k].state \notin Live \cup {"none"}
    BY DEF IInv, TypeOK, FilesTrue, Live, Terminal
  <2>1. ASSUME NEW F \in SUBSET Jobs, NEW state \in Terminal, Finish(F, state, job, disk), k \notin F
        PROVE  job'[k].state = job[k].state
    BY <2>1, <2>t DEF Finish
  <2>2. ASSUME NEW j \in Jobs, Cancel(j) \/ CannotSend(j)
        PROVE  job'[k].state = job[k].state
    <3> DEFINE F == {j}
    <3>1. /\ F \in SUBSET Jobs /\ k \notin F
          /\ Finish(F, "cancelled", job, disk) \/ Finish(F, "died", job, disk)
      BY <2>2, <2>t DEF Cancel, CannotSend, Turn, Pool, Runnable, Terminal
    <3> HIDE DEF F
    <3> QED
      BY <3>1, <2>1 DEF Terminal
  <2>3. CASE Sweep
    <3> DEFINE F == Overdue
    <3>1. F \in SUBSET Jobs /\ k \notin F /\ Finish(F, "expired", job, disk)
      BY <2>3, <2>t DEF Sweep, Overdue, TypeOK
    <3> HIDE DEF F
    <3> QED
      BY <3>1, <2>1 DEF Terminal
  <2>4. CASE Shutdown
    <3> DEFINE F == {j \in Jobs : job[j].state \in Live}
    <3>1. F \in SUBSET Jobs /\ k \notin F /\ Finish(F, "died", job, disk)
      BY <2>4, <2>t DEF Shutdown
    <3> HIDE DEF F
    <3> QED
      BY <3>1, <2>1 DEF Terminal
  <2>5. CASE Restart
    BY <2>5, <2>t DEF Restart
  <2>6. ASSUME NEW j \in Jobs, Record(j)
        PROVE  job'[k].state = job[k].state
    BY <2>6, <2>t, RecordEffect
  <2>7. ASSUME NEW j \in Jobs, job[j].state \in {"none", "draft"}, NEW r, job' = [job EXCEPT ![j] = r]
        PROVE  job'[k].state = job[k].state
    BY <2>7, <2>t DEF Live
  <2>8. ASSUME NEW j \in Jobs, NEW kind \in Kinds, NEW p \in Jobs \cup {NoJob}, Create(j, kind, p)
        PROVE  job'[k].state = job[k].state
    BY <2>8, <2>7 DEF Create
  <2>9. ASSUME NEW j \in Jobs, NEW S \in Uploads, Append(j, S)
        PROVE  job'[k].state = job[k].state
    BY <2>9, <2>7 DEF Append
  <2>10. ASSUME NEW j \in Jobs, Start(j)
         PROVE  job'[k].state = job[k].state
    BY <2>10, <2>7 DEF Start
  <2> QED
    BY <2>2, <2>3, <2>4, <2>5, <2>6, <2>8, <2>9, <2>10
    DEF Next, Organiser, Drain, LoseUpload, OpenChunk, HandOver, Deliver, GiveUp, OptOut, Lapse,
        memory, files
<1> QED
  BY <1>1, Invariance, PTL DEF Spec, StaysStopped

-----------------------------------------------------------------------------
(* Each job by itself: what a step may do to one job, its files, its mail    *)
(* and the part of its chunk that the worker has.                            *)

Held(j) == IF Busy(j) THEN worker.left \cup worker.flying ELSE {}
Doing(j) == IF Busy(j) THEN worker.sent ELSE {}
Done(j) == job[j].sent \cup job[j].suppressed \cup job[j].failed

(* The records r and q of a job differ in their state alone. *)
SameButState(r, q) ==
  /\ r.kind = q.kind /\ r.msg = q.msg /\ r.resumeOf = q.resumeOf
  /\ r.accepted = q.accepted /\ r.chunkCount = q.chunkCount
  /\ r.nextChunk = q.nextChunk /\ r.reserved = q.reserved
  /\ r.sent = q.sent /\ r.suppressed = q.suppressed /\ r.failed = q.failed

SameRest(j) ==
  client'[j] = client[j] /\ mailed'[j] = mailed[j] /\ skip'[j] = skip[j]

(* The step is not about job j. *)
Untouches(j) ==
  /\ job'[j] = job[j] /\ disk'[j] = disk[j] /\ chunks'[j] = chunks[j]
  /\ log'[j] = log[j] /\ seen'[j] = seen[j] /\ SameRest(j)
  /\ worker' = worker \/ (worker.job # j /\ worker'.job # j)

(* Job j takes the state st: its chunks go, its reservation is settled by    *)
(* the record r, and its file, old before, may miss it.                      *)
Settles(j, r, old, st) ==
  /\ job'[j].state = st /\ SameButState(job'[j], r)
  /\ disk'[j] = old \/ disk'[j] = job'[j]
  /\ chunks'[j] = NoChunks
  /\ log'[j] = Settled(j, r, log)

(* Job j is stopped by a cancel, the sweep, a shutdown or a broken server. *)
Stops(j) ==
  /\ job[j].state \in Live
  /\ \E st \in Terminal \ {"completed"} : Settles(j, job[j], disk[j], st)
  /\ worker' = worker /\ SameRest(j)

(* The worker goes on with its chunk of job j: a group is handed over, or a  *)
(* message settles.                                                          *)
SendsOn(j) ==
  Busy(j) /\ \/ \E G \in SUBSET Addrs : HandOver(G)
             \/ \E a \in Addrs : Deliver(a) \/ GiveUp(a)

(* What finishJob and settleReservation do, job by job *)
LEMMA FinishEach ==
  ASSUME TypeOK, NEW F \in SUBSET Jobs, NEW state \in Terminal,
         NEW now \in [Jobs -> Job], NEW old \in [Jobs -> Job], Finish(F, state, now, old)
  PROVE  \A k \in Jobs :
           /\ k \in F => Settles(k, now[k], old[k], state)
           /\ k \notin F => /\ job'[k] = now[k] /\ disk'[k] = old[k] /\ chunks'[k] = chunks[k]
                            /\ log'[k] = log[k] /\ seen'[k] = seen[k]
<1> DEFINE done == [j \in Jobs |-> IF j \in F THEN [now[j] EXCEPT !.state = state] ELSE now[j]]
<1>1. job' = done /\ Persist(F, old, done)
  BY DEF Finish
<1>2. \A k \in Jobs : k \in F => done[k].state = state /\ SameButState(done[k], now[k])
  BY DEF SameButState, Job
<1>3. \A k \in Jobs : /\ k \in F => disk'[k] = old[k] \/ disk'[k] = done[k]
                      /\ k \notin F => disk'[k] = old[k]
  <2> HIDE DEF done
  <2> QED
    BY <1>1 DEF Persist
<1>4. \A k \in Jobs : k \notin F => done[k] = now[k]
  OBVIOUS
<1>5. \A k \in Jobs :
        /\ k \in F => chunks'[k] = NoChunks /\ log'[k] = Settled(k, now[k], log)
        /\ k \notin F => chunks'[k] = chunks[k] /\ log'[k] = log[k] /\ seen'[k] = seen[k]
  BY DEF Finish
<1> HIDE DEF done
<1> QED
  BY <1>1, <1>2, <1>3, <1>4, <1>5 DEF Settles

(* A stop of the jobs in F stops them and leaves the others alone. *)
LEMMA StopsEach ==
  ASSUME TypeOK, NEW F \in SUBSET Jobs, NEW state \in Terminal \ {"completed"},
         Finish(F, state, job, disk), UNCHANGED <<worker, outside>>,
         \A k \in F : job[k].state \in Live, NEW j \in Jobs
  PROVE  Stops(j) \/ Untouches(j)
<1>1. job \in [Jobs -> Job] /\ disk \in [Jobs -> Job]
  BY DEF TypeOK
<1>2. /\ j \in F => Settles(j, job[j], disk[j], state)
      /\ j \notin F => /\ job'[j] = job[j] /\ disk'[j] = disk[j] /\ chunks'[j] = chunks[j]
                       /\ log'[j] = log[j] /\ seen'[j] = seen[j]
  BY <1>1, FinishEach
<1> QED
  BY <1>2 DEF Stops, Untouches, SameRest, outside

(* Writing the file of job j leaves the others' files alone. *)
LEMMA PersistEach ==
  ASSUME NEW j \in Jobs, NEW now, Persist({j}, disk, now)
  PROVE  /\ disk'[j] = disk[j] \/ disk'[j] = now[j]
         /\ \A k \in Jobs : k # j => disk'[k] = disk[k]
BY DEF Persist

(* Every step is seen by job j as one of its own, or leaves it alone. *)
LEMMA StepEach ==
  ASSUME TypeOK, [Next]_vars, NEW j \in Jobs
  PROVE  \/ Untouches(j) \/ Stops(j) \/ SendsOn(j)
         \/ \E kind \in Kinds, p \in Jobs \cup {NoJob} : Create(j, kind, p)
         \/ \E S \in Uploads : Append(j, S) \/ LoseUpload(j, S)
         \/ Start(j) \/ OpenChunk(j) \/ Record(j) \/ Restart
<1>t. /\ job \in [Jobs -> Job] /\ disk \in [Jobs -> Job] /\ worker.job \in Jobs \cup {NoJob}
      /\ log \in [Jobs -> Nat \cup {NoEntry}] /\ client = [k \in Jobs |-> client[k]]
      /\ chunks = [k \in Jobs |-> chunks[k]] /\ seen = [k \in Jobs |-> seen[k]]
      /\ skip = [k \in Jobs |-> skip[k]]
  BY DEF TypeOK
<1> USE DEF outside, memory, files
<1>1. ASSUME NEW k \in Jobs, k # j, NEW kind \in Kinds, NEW p \in Jobs \cup {NoJob}, Create(k, kind, p)
      PROVE  Untouches(j)
  <2>1. disk'[j] = disk[j]
    BY <1>1, PersistEach DEF Create
  <2>2. job'[j] = job[j] /\ seen'[j] = seen[j] /\ skip'[j] = skip[j]
    BY <1>1, <1>t DEF Create
  <2> QED
    BY <1>1, <2>1, <2>2 DEF Create, Untouches, SameRest
<1>2. ASSUME NEW k \in Jobs, k # j, NEW S \in Uploads, Append(k, S)
      PROVE  Untouches(j)
  <2>1. disk'[j] = disk[j]
    BY <1>2, PersistEach DEF Append
  <2>2. job'[j] = job[j] /\ seen'[j] = seen[j] /\ chunks'[j] = chunks[j] /\ client'[j] = client[j]
    BY <1>2, <1>t DEF Append, Counted
  <2> QED
    BY <1>2, <2>1, <2>2 DEF Append, Untouches, SameRest
<1>3. ASSUME NEW k \in Jobs, k # j, NEW S \in Uploads, LoseUpload(k, S)
      PROVE  Untouches(j)
  BY <1>3, <1>t DEF LoseUpload, Counted, Untouches, SameRest
<1>4. ASSUME NEW k \in Jobs, k # j, Start(k)
      PROVE  Untouches(j)
  <2>1. job'[j] = job[j] /\ disk'[j] = disk[j] /\ seen'[j] = seen[j] /\ log'[j] = log[j]
    BY <1>4, <1>t DEF Start
  <2> QED
    BY <1>4, <2>1 DEF Start, Untouches, SameRest
<1>5. ASSUME NEW k \in Jobs, Cancel(k) \/ CannotSend(k)
      PROVE  Stops(j) \/ Untouches(j)
  <2> DEFINE F == {k}
  <2>1. /\ F \in SUBSET Jobs /\ UNCHANGED <<worker, outside>> /\ \A l \in F : job[l].state \in Live
        /\ Finish(F, "cancelled", job, disk) \/ Finish(F, "died", job, disk)
    BY <1>5 DEF Cancel, CannotSend, Turn, Pool, Runnable, Live
  <2> HIDE DEF F
  <2> QED
    BY <2>1, StopsEach DEF Terminal
<1>6. CASE Sweep
  <2> DEFINE F == Overdue
  <2>1. /\ F \in SUBSET Jobs /\ Finish(F, "expired", job, disk) /\ UNCHANGED <<worker, outside>>
        /\ \A l \in F : job[l].state \in Live
    BY <1>6 DEF Sweep, Overdue, TypeOK
  <2> HIDE DEF F
  <2> QED
    BY <2>1, StopsEach DEF Terminal
<1>7. CASE Shutdown
  <2> DEFINE F == {k \in Jobs : job[k].state \in Live}
  <2>1. /\ F \in SUBSET Jobs /\ Finish(F, "died", job, disk) /\ UNCHANGED <<worker, outside>>
        /\ \A l \in F : job[l].state \in Live
    BY <1>7 DEF Shutdown
  <2> HIDE DEF F
  <2> QED
    BY <2>1, StopsEach DEF Terminal
<1>8. ASSUME NEW k \in Jobs, k # j, OpenChunk(k)
      PROVE  Untouches(j)
  <2>1. worker.job # j /\ worker'.job # j
    BY <1>8, JobsAssumption DEF OpenChunk, Idle
  <2> QED
    BY <1>8, <2>1 DEF OpenChunk, Untouches, SameRest
<1>9. ASSUME NEW k \in Jobs, k # j, Record(k)
      PROVE  Untouches(j)
  <2> DEFINE kept == [job EXCEPT ![k] = Drained(k)]
             file == [disk EXCEPT ![k] = Drained(k)]
  <2>1. /\ kept \in [Jobs -> Job] /\ file \in [Jobs -> Job]
        /\ kept[j] = job[j] /\ file[j] = disk[j]
    BY <1>9, <1>t, DrainedType
  <2>2. worker.job # j /\ worker'.job # j
    BY <1>9, JobsAssumption DEF Record, Busy, Idle
  <2>3. ASSUME NEW state \in Terminal, NEW old \in {disk, file}, Finish({k}, state, kept, old)
        PROVE  /\ job'[j] = job[j] /\ disk'[j] = disk[j] /\ chunks'[j] = chunks[j]
               /\ log'[j] = log[j] /\ seen'[j] = seen[j]
    <3> DEFINE F == {k}
    <3>1. F \in SUBSET Jobs /\ j \notin F /\ Finish(F, state, kept, old) /\ old \in [Jobs -> Job]
          /\ old[j] = disk[j]
      BY <2>3, <2>1, <1>9, <1>t
    <3> HIDE DEF F, kept, file
    <3> QED
      BY <3>1, <2>1, FinishEach
  <2>4. CASE RecordKept(k)
    <3>1. CASE /\ job' = kept /\ disk' = file
               /\ chunks' = [chunks EXCEPT ![k][job[k].nextChunk] = {}]
               /\ UNCHANGED <<seen, lapsed, log, logDisk>>
      BY <3>1, <2>1, <2>2, <1>9, <1>t DEF Record, Untouches, SameRest
    <3>2. CASE Finish({k}, "died", kept, file) \/ Finish({k}, "completed", kept, file)
      <4>1. "died" \in Terminal /\ "completed" \in Terminal
        BY DEF Terminal
      <4> HIDE DEF kept, file
      <4> QED
        BY <4>1, <3>2, <2>2, <2>3, <1>9 DEF Record, Untouches, SameRest
    <3> QED
      BY <2>4, <3>1, <3>2 DEF RecordKept
  <2>5. CASE RecordLost(k)
    <3>1. Finish({k}, "died", kept, disk) /\ "died" \in Terminal
      BY <2>5 DEF RecordLost, Terminal
    <3> HIDE DEF kept, file
    <3> QED
      BY <3>1, <2>2, <2>3, <1>9 DEF Record, Untouches, SameRest
  <2> QED
    BY <2>4, <2>5, <1>9 DEF Record
<1>10. ASSUME NEW G \in SUBSET Addrs, HandOver(G) PROVE SendsOn(j) \/ Untouches(j)
  <2>1. worker'.job = worker.job
    BY <1>10 DEF HandOver, TypeOK
  <2> QED
    BY <1>10, <2>1 DEF HandOver, SendsOn, Untouches, SameRest, Busy
<1>11. ASSUME NEW a \in Addrs, Deliver(a) PROVE SendsOn(j) \/ Untouches(j)
  <2>1. worker'.job = worker.job /\ (worker.job # j => mailed'[j] = mailed[j])
    BY <1>11 DEF Deliver, TypeOK
  <2> QED
    BY <1>11, <2>1 DEF Deliver, SendsOn, Untouches, SameRest, Busy
<1>12. ASSUME NEW a \in Addrs, GiveUp(a) PROVE SendsOn(j) \/ Untouches(j)
  <2>1. worker'.job = worker.job
    BY <1>12 DEF GiveUp, TypeOK
  <2> QED
    BY <1>12, <2>1 DEF GiveUp, SendsOn, Untouches, SameRest, Busy
<1>13. CASE (\E a \in Addrs : OptOut(a)) \/ (\E k \in Jobs : Lapse(k)) \/ UNCHANGED vars
  BY <1>13 DEF OptOut, Lapse, vars, Untouches, SameRest
<1> QED
  BY <1>1, <1>2, <1>3, <1>4, <1>5, <1>6, <1>7, <1>8, <1>9, <1>10, <1>11, <1>12, <1>13
  DEF Next, Organiser, Drain

(* What the record of a chunk says, field by field *)
LEMMA DrainedRecord ==
  ASSUME TypeOK, NEW j \in Jobs
  PROVE  LET rec == Drained(j) IN
         /\ rec \in Job
         /\ rec.kind = job[j].kind /\ rec.msg = job[j].msg /\ rec.resumeOf = job[j].resumeOf
         /\ rec.accepted = job[j].accepted /\ rec.chunkCount = job[j].chunkCount
         /\ rec.reserved = job[j].reserved
         /\ rec.nextChunk = job[j].nextChunk + 1
         /\ rec.sent = job[j].sent \cup worker.sent
         /\ rec.suppressed = job[j].suppressed \cup worker.suppressed
         /\ rec.failed = job[j].failed \cup worker.failed
         /\ rec.state = IF job[j].state = "queued" THEN "running" ELSE job[j].state
<1> DEFINE rec == Drained(j)
<1>1. job[j] \in Job
  BY DEF TypeOK
<1>2. /\ rec.kind = job[j].kind /\ rec.msg = job[j].msg /\ rec.resumeOf = job[j].resumeOf
      /\ rec.accepted = job[j].accepted /\ rec.chunkCount = job[j].chunkCount
      /\ rec.reserved = job[j].reserved
  BY <1>1 DEF Drained, Job
<1>3. /\ rec.sent = job[j].sent \cup worker.sent
      /\ rec.suppressed = job[j].suppressed \cup worker.suppressed
      /\ rec.failed = job[j].failed \cup worker.failed
  BY <1>1 DEF Drained, Job
<1>4. /\ rec.nextChunk = job[j].nextChunk + 1
      /\ rec.state = IF job[j].state = "queued" THEN "running" ELSE job[j].state
  BY <1>1 DEF Drained, Job
<1>5. rec \in Job
  BY DrainedType
<1> HIDE DEF rec
<1> QED
  BY <1>2, <1>3, <1>4, <1>5 DEF rec

(* drainOneChunk after its await: the job stays stopped or goes on, or it    *)
(* ends, in a record on disk or, when that fails, without one.               *)
LEMMA RecordEach ==
  ASSUME TypeOK, NEW j \in Jobs, Record(j)
  PROVE  LET rec == Drained(j) IN
         /\ Busy(j) /\ worker' = Idle /\ worker.flying = {} /\ SameRest(j)
         /\ worker.left = {} \/ Stopped(j)
         /\ \/ /\ Stopped(j) \/ rec.nextChunk < rec.chunkCount
               /\ job'[j] = rec /\ disk'[j] = rec /\ log'[j] = log[j]
               /\ chunks'[j] = [chunks[j] EXCEPT ![job[j].nextChunk] = {}]
            \/ ~Stopped(j) /\ Settles(j, rec, rec, "died")
            \/ ~Stopped(j) /\ rec.nextChunk >= rec.chunkCount /\ Settles(j, rec, rec, "completed")
            \/ DiskMayFail /\ Settles(j, rec, disk[j], "died")
<1> DEFINE rec == Drained(j)
           kept == [job EXCEPT ![j] = rec]
           file == [disk EXCEPT ![j] = rec]
<1>1. /\ Busy(j) /\ worker' = Idle /\ worker.flying = {} /\ SameRest(j)
      /\ worker.left = {} \/ Stopped(j)
  BY DEF Record, outside, SameRest
<1>2. /\ job \in [Jobs -> Job] /\ disk \in [Jobs -> Job] /\ rec \in Job
      /\ chunks = [k \in Jobs |-> chunks[k]]
  BY DrainedType DEF TypeOK
<1>3. /\ kept \in [Jobs -> Job] /\ file \in [Jobs -> Job] /\ kept[j] = rec /\ file[j] = rec
      /\ rec.nextChunk \in Nat /\ rec.chunkCount \in Nat
      /\ rec.nextChunk >= rec.chunkCount \/ rec.nextChunk < rec.chunkCount
  <2>1. kept \in [Jobs -> Job] /\ file \in [Jobs -> Job] /\ kept[j] = rec /\ file[j] = rec
    BY <1>2
  <2>2. rec.nextChunk \in Nat /\ rec.chunkCount \in Nat
    BY <1>2, JobFields
  <2> HIDE DEF rec, kept, file
  <2> QED
    BY <2>1, <2>2
<1>4. ASSUME NEW state \in Terminal, NEW old \in [Jobs -> Job], Finish({j}, state, kept, old)
      PROVE  Settles(j, rec, old[j], state)
  <2> DEFINE F == {j}
  <2>1. F \in SUBSET Jobs /\ j \in F /\ Finish(F, state, kept, old)
    BY <1>4
  <2> HIDE DEF F, kept, rec
  <2> QED
    BY <2>1, <1>3, FinishEach
<1>5. "died" \in Terminal /\ "completed" \in Terminal
  BY DEF Terminal
<1>6. ASSUME RecordKept(j)
      PROVE  \/ /\ Stopped(j) \/ rec.nextChunk < rec.chunkCount
                /\ job'[j] = rec /\ disk'[j] = rec /\ log'[j] = log[j]
                /\ chunks'[j] = [chunks[j] EXCEPT ![job[j].nextChunk] = {}]
             \/ ~Stopped(j) /\ Settles(j, rec, rec, "died")
             \/ ~Stopped(j) /\ rec.nextChunk >= rec.chunkCount /\ Settles(j, rec, rec, "completed")
  <2>1. CASE /\ Stopped(j) \/ ~(rec.nextChunk >= rec.chunkCount)
             /\ job' = kept /\ disk' = file
             /\ chunks' = [chunks EXCEPT ![j][job[j].nextChunk] = {}]
             /\ UNCHANGED <<seen, lapsed, log, logDisk>>
    <3>1. chunks'[j] = [chunks[j] EXCEPT ![job[j].nextChunk] = {}]
      BY <2>1, <1>2
    <3> HIDE DEF rec, kept, file
    <3> QED
      BY <2>1, <3>1, <1>3
  <2>2. CASE ~Stopped(j) /\ Finish({j}, "died", kept, file)
    <3> HIDE DEF rec, kept, file
    <3> QED
      BY <2>2, <1>3, <1>4, <1>5
  <2>3. CASE ~Stopped(j) /\ rec.nextChunk >= rec.chunkCount /\ Finish({j}, "completed", kept, file)
    <3> HIDE DEF rec, kept, file
    <3> QED
      BY <2>3, <1>3, <1>4, <1>5
  <2> QED
    BY <1>6, <2>1, <2>2, <2>3 DEF RecordKept
<1>7. ASSUME RecordLost(j) PROVE DiskMayFail /\ Settles(j, rec, disk[j], "died")
  <2>1. DiskMayFail /\ Finish({j}, "died", kept, disk)
    BY <1>7 DEF RecordLost
  <2> HIDE DEF rec, kept, file
  <2> QED
    BY <2>1, <1>2, <1>4, <1>5
<1>8. RecordKept(j) \/ RecordLost(j)
  BY DEF Record
<1> HIDE DEF rec
<1> QED
  BY <1>1, <1>6, <1>7, <1>8 DEF rec

(* A draft begins with a blank record, and skips what the prior job's holds. *)
LEMMA CreateEach ==
  ASSUME TypeOK, Core, NEW j \in Jobs, NEW kind \in Kinds, NEW p \in Jobs \cup {NoJob},
         Create(j, kind, p)
  PROVE  /\ job[j].state = "none" /\ client[j].posts = 0 /\ Mailed(j) = {} /\ ~Busy(j)
         /\ p # NoJob => p # j /\ job[p].state \in Terminal /\ skip'[j] = job[p].sent
         /\ job'[j].state = "draft" /\ job'[j].kind = kind /\ job'[j].resumeOf = p
         /\ job'[j].accepted = {} /\ job'[j].sent = {} /\ job'[j].nextChunk = 0
         /\ disk'[j] = disk[j] \/ disk'[j] = job'[j]
         /\ seen'[j] = skip'[j] /\ chunks[j] = NoChunks
         /\ UNCHANGED <<chunks, client, worker, log, mailed>>
<1>1. /\ job[j].state = "none" /\ client[j].posts = 0
      /\ p # NoJob => job[p].state \in Terminal
      /\ UNCHANGED <<chunks, client, worker, log, mailed>>
  BY DEF Create
<1>2. Mailed(j) = {} /\ ~Busy(j) /\ chunks[j] = NoChunks
  BY <1>1, JobsAssumption DEF Core, Untouched, NoFiles, WorkerNew, Mailed, Busy
<1>3. p # j
  BY <1>1 DEF Terminal
<1>4. /\ job'[j].state = "draft" /\ job'[j].kind = kind /\ job'[j].resumeOf = p
      /\ job'[j].accepted = {} /\ job'[j].sent = {} /\ job'[j].nextChunk = 0
  BY DEF Create, Blank, TypeOK
<1>5. seen'[j] = skip'[j] /\ (p # NoJob => skip'[j] = job[p].sent)
  BY DEF Create, TypeOK
<1>6. disk'[j] = disk[j] \/ disk'[j] = job'[j]
  BY PersistEach DEF Create
<1> QED
  BY <1>1, <1>2, <1>3, <1>4, <1>5, <1>6

(* An upload of S adds the recipients not seen yet as the next chunk. *)
Appends(j, S) ==
  LET fresh == S \ seen[j] IN
  /\ job[j].state = "draft" /\ job[j].chunkCount \in ChunkIds
  /\ job[j].chunkCount \in Nat /\ Mailed(j) = {} /\ ~Busy(j)
  /\ job'[j].state = "draft" /\ job'[j].kind = job[j].kind
  /\ job'[j].resumeOf = job[j].resumeOf /\ job'[j].reserved = job[j].reserved
  /\ job'[j].sent = job[j].sent /\ job'[j].suppressed = job[j].suppressed
  /\ job'[j].failed = job[j].failed /\ job'[j].nextChunk = job[j].nextChunk
  /\ job'[j].accepted = job[j].accepted \cup fresh
  /\ job'[j].chunkCount = IF fresh = {} THEN job[j].chunkCount ELSE job[j].chunkCount + 1
  /\ disk'[j] = disk[j] \/ disk'[j] = job'[j]
  /\ seen'[j] = seen[j] \cup fresh
  /\ chunks'[j] = IF fresh = {} THEN chunks[j]
                  ELSE [chunks[j] EXCEPT ![job[j].chunkCount] = fresh]
  /\ client'[j].posts = client[j].posts + 1
  /\ client'[j].posted = client[j].posted \cup S
  /\ \E took \in {fresh, S} : client'[j].total = client[j].total + Cardinality(took)
  /\ worker' = worker /\ log' = log /\ mailed' = mailed /\ skip' = skip

LEMMA AppendEach ==
  ASSUME TypeOK, Core, NEW j \in Jobs, NEW S \in Uploads, Append(j, S)
  PROVE  Appends(j, S)
<1> DEFINE fresh == S \ seen[j]
           more == IF fresh = {} THEN job[j].chunkCount ELSE job[j].chunkCount + 1
<1>1. job[j] \in Job /\ job[j].state = "draft" /\ job[j].chunkCount < MaxChunks
  BY DEF Append, HasRoom, TypeOK
<1>2. job[j].chunkCount \in Nat /\ job[j].chunkCount \in ChunkIds
  BY <1>1 DEF Job, ChunkIds
<1>3. Mailed(j) = {} /\ ~Busy(j)
  BY <1>1, JobsAssumption DEF Core, Untouched, WorkerNew, Mailed, Busy
<1>4. job'[j] = [job[j] EXCEPT !.accepted = @ \cup fresh, !.chunkCount = more]
  BY DEF Append, Fresh, TypeOK
<1>5. disk'[j] = disk[j] \/ disk'[j] = job'[j]
  BY PersistEach DEF Append
<1>6. /\ seen'[j] = seen[j] \cup fresh
      /\ chunks'[j] = IF fresh = {} THEN chunks[j]
                      ELSE [chunks[j] EXCEPT ![job[j].chunkCount] = fresh]
      /\ UNCHANGED <<worker, log, mailed, skip>>
  BY DEF Append, Fresh, TypeOK
<1>7. /\ client'[j].posts = client[j].posts + 1
      /\ client'[j].posted = client[j].posted \cup S
      /\ \E took \in {fresh, S} : client'[j].total = client[j].total + Cardinality(took)
  BY DEF Append, Fresh, Counted, TypeOK
<1> HIDE DEF fresh, more
<1>8. /\ job'[j].state = "draft" /\ job'[j].kind = job[j].kind
      /\ job'[j].resumeOf = job[j].resumeOf /\ job'[j].reserved = job[j].reserved
      /\ job'[j].sent = job[j].sent /\ job'[j].suppressed = job[j].suppressed
      /\ job'[j].failed = job[j].failed /\ job'[j].nextChunk = job[j].nextChunk
      /\ job'[j].accepted = job[j].accepted \cup fresh /\ job'[j].chunkCount = more
  BY <1>1, <1>4 DEF Job
<1> QED
  BY <1>1, <1>2, <1>3, <1>5, <1>6, <1>7, <1>8 DEF fresh, more, Appends

(* A lost upload is counted by the client alone. *)
LEMMA LoseEach ==
  ASSUME TypeOK, NEW j \in Jobs, NEW S \in Uploads, LoseUpload(j, S)
  PROVE  /\ job[j].state = "draft"
         /\ client'[j].posts = client[j].posts + 1
         /\ client'[j].total = client[j].total + Cardinality(S)
         /\ UNCHANGED <<job, disk, chunks, seen, worker, log, mailed, skip>>
BY DEF LoseUpload, Counted, TypeOK, memory, files

(* A start seals the draft, whose upload the client has confirmed. *)
LEMMA StartEach ==
  ASSUME TypeOK, Core, NEW j \in Jobs, Start(j)
  PROVE  LET charged == job[j].kind = "marketing"
             n == Cardinality(job[j].accepted)
         IN
         /\ job[j].state = "draft" /\ Mailed(j) = {} /\ ~Busy(j)
         /\ charged => n <= Remaining
         /\ client[j].total = n
         /\ job'[j].state = "queued" /\ job'[j].reserved = charged
         /\ job'[j].kind = job[j].kind /\ job'[j].resumeOf = job[j].resumeOf
         /\ job'[j].accepted = job[j].accepted /\ job'[j].chunkCount = job[j].chunkCount
         /\ job'[j].nextChunk = job[j].nextChunk /\ job'[j].sent = job[j].sent
         /\ job'[j].suppressed = job[j].suppressed /\ job'[j].failed = job[j].failed
         /\ disk'[j].sent = disk[j].sent \/ disk'[j].sent = job[j].sent
         /\ disk'[j].state = "completed" => disk'[j] = disk[j]
         /\ log'[j] = IF charged THEN n ELSE log[j]
         /\ UNCHANGED <<chunks, worker, client, mailed, skip>>
<1> DEFINE at == 1 + Cardinality({k \in Jobs : job[k].startedAt > 0})
           charged == job[j].kind = "marketing"
           sealed == [job[j] EXCEPT !.state = "queued", !.startedAt = at]
           marked == [sealed EXCEPT !.reserved = charged]
<1>1. /\ job[j] \in Job /\ job[j].state = "draft" /\ client[j].total = Cardinality(job[j].accepted)
      /\ charged => Cardinality(job[j].accepted) <= Remaining
      /\ UNCHANGED <<chunks, worker, client, mailed, skip>>
  BY DEF Start, UploadComplete, TypeOK, outside
<1>2. Mailed(j) = {} /\ ~Busy(j)
  BY <1>1, JobsAssumption DEF Core, Untouched, WorkerNew, Mailed, Busy
<1>3. /\ job'[j] = marked
      /\ disk'[j] = disk[j] \/ disk'[j] = sealed \/ disk'[j] = marked
      /\ log'[j] = IF charged THEN Cardinality(job[j].accepted) ELSE log[j]
  BY DEF Start, TypeOK
<1> HIDE DEF at, charged
<1>4. /\ marked.state = "queued" /\ marked.reserved = charged
      /\ marked.kind = job[j].kind /\ marked.resumeOf = job[j].resumeOf
      /\ marked.accepted = job[j].accepted /\ marked.chunkCount = job[j].chunkCount
      /\ marked.nextChunk = job[j].nextChunk /\ marked.sent = job[j].sent
      /\ marked.suppressed = job[j].suppressed /\ marked.failed = job[j].failed
      /\ sealed.sent = job[j].sent /\ sealed.state = "queued"
  BY <1>1 DEF Job
<1> HIDE DEF sealed, marked
<1>5. /\ disk'[j].sent = disk[j].sent \/ disk'[j].sent = job[j].sent
      /\ disk'[j].state = "completed" => disk'[j] = disk[j]
  BY <1>3, <1>4
<1> QED
  BY <1>1, <1>2, <1>3, <1>4, <1>5 DEF charged

(* The worker opens the next chunk of a job, less who is mailed or opted out. *)
LEMMA OpenEach ==
  ASSUME TypeOK, Core, NEW j \in Jobs, OpenChunk(j)
  PROVE  LET n == job[j].nextChunk IN
         /\ ~Busy(j) /\ worker'.job = j /\ worker'.flying = {} /\ worker'.sent = {}
         /\ job[j].state \in {"queued", "running"}
         /\ n \in ChunkIds /\ n < job[j].chunkCount
         /\ worker'.left \subseteq chunks[j][n]
         /\ chunks[j][n] \subseteq job[j].sent \cup worker'.left \cup worker'.suppressed
         /\ UNCHANGED <<job, disk, chunks, log, client, mailed, skip, seen>>
<1> DEFINE n == job[j].nextChunk
           todo == chunks[j][n] \ job[j].sent
<1>1. /\ worker = Idle /\ j \in Runnable
      /\ worker' = [Idle EXCEPT !.job = j, !.left = todo \ optOut, !.suppressed = todo \cap optOut]
      /\ UNCHANGED <<job, disk, chunks, log, client, mailed, skip, seen>>
  BY DEF OpenChunk, Turn, Pool, memory, files, outside
<1>2. job[j].state \in {"queued", "running"} /\ n < job[j].chunkCount /\ n \in ChunkIds
  <2>1. job[j] \in Job /\ job[j].state \in {"queued", "running"} /\ n < job[j].chunkCount
    BY <1>1 DEF Runnable, TypeOK
  <2>2. n \in Nat /\ job[j].chunkCount \in 0 .. MaxChunks
    BY <2>1 DEF Job
  <2> HIDE DEF n
  <2> QED
    BY <2>1, <2>2 DEF ChunkIds
<1>3. ~Busy(j)
  BY <1>1, JobsAssumption DEF Busy, Idle
<1>4. /\ worker'.job = j /\ worker'.flying = {} /\ worker'.sent = {}
      /\ worker'.left = todo \ optOut /\ worker'.suppressed = todo \cap optOut
  <2> HIDE DEF todo
  <2> QED
    BY <1>1 DEF Idle
<1> QED
  BY <1>1, <1>2, <1>3, <1>4

(* While the worker goes on with a chunk, its recipients are handed on, and  *)
(* whom it says it sent to was mailed.                                       *)
LEMMA SendsOnEach ==
  ASSUME TypeOK, Core, NEW j \in Jobs, SendsOn(j)
  PROVE  /\ Busy(j) /\ worker'.job = j
         /\ UNCHANGED <<job, disk, chunks, log, client, skip, seen>>
         /\ worker'.left \cup worker'.flying \subseteq worker.left \cup worker.flying
         /\ worker.left \cup worker.flying \cup worker.sent \cup worker.failed
              \subseteq worker'.left \cup worker'.flying \cup worker'.sent \cup worker'.failed
         /\ worker'.suppressed = worker.suppressed
         /\ \E D \in SUBSET worker.flying :
              Mailed(j)' = Mailed(j) \cup D /\ worker'.sent = worker.sent \cup D
<1>1. Busy(j) /\ j # NoJob
  BY JobsAssumption DEF SendsOn
<1>2. ASSUME NEW G \in SUBSET Addrs, HandOver(G)
      PROVE  /\ worker'.job = j /\ worker'.left = worker.left \ G /\ worker'.flying = G
             /\ worker'.sent = worker.sent /\ worker'.suppressed = worker.suppressed
             /\ worker'.failed = worker.failed /\ worker.flying = {} /\ G \subseteq worker.left
             /\ Mailed(j)' = Mailed(j)
             /\ UNCHANGED <<job, disk, chunks, log, client, skip, seen>>
  BY <1>1, <1>2 DEF HandOver, memory, files, outside, TypeOK, Busy, Mailed
<1>3. ASSUME NEW a \in Addrs, Deliver(a)
      PROVE  /\ worker'.job = j /\ worker'.left = worker.left
             /\ worker'.flying = worker.flying \ {a} /\ worker'.sent = worker.sent \cup {a}
             /\ worker'.suppressed = worker.suppressed /\ worker'.failed = worker.failed
             /\ Mailed(j)' = Mailed(j) \cup {a} /\ a \in worker.flying
             /\ UNCHANGED <<job, disk, chunks, log, client, skip, seen>>
  <2>1. /\ a \in worker.flying /\ mailed[j][a] = 0
        /\ mailed' = [mailed EXCEPT ![j][a] = IF @ < 2 THEN @ + 1 ELSE @]
    BY <1>1, <1>3, FlyingNew DEF Deliver, Busy
  <2>2. /\ mailed'[j][a] = 1 /\ \A b \in Addrs : b # a => mailed'[j][b] = mailed[j][b]
    BY <2>1 DEF TypeOK
  <2>3. Mailed(j)' = Mailed(j) \cup {a}
    BY <2>1, <2>2 DEF Mailed
  <2>4. /\ worker'.job = j /\ worker'.left = worker.left
        /\ worker'.flying = worker.flying \ {a} /\ worker'.sent = worker.sent \cup {a}
        /\ worker'.suppressed = worker.suppressed /\ worker'.failed = worker.failed
    BY <1>1, <1>3 DEF Deliver, TypeOK, Busy
  <2> QED
    BY <1>3, <2>1, <2>3, <2>4 DEF Deliver, memory, files
<1>4. ASSUME NEW a \in Addrs, GiveUp(a)
      PROVE  /\ worker'.job = j /\ worker'.left = worker.left
             /\ worker'.flying = worker.flying \ {a} /\ worker'.sent = worker.sent
             /\ worker'.suppressed = worker.suppressed /\ worker'.failed = worker.failed \cup {a}
             /\ Mailed(j)' = Mailed(j)
             /\ UNCHANGED <<job, disk, chunks, log, client, skip, seen>>
  <2>1. worker' = [worker EXCEPT !.flying = @ \ {a}, !.failed = @ \cup {a}] /\ mailed' = mailed
        /\ UNCHANGED <<job, disk, chunks, log, client, skip, seen>>
    BY <1>4 DEF GiveUp, memory, files, outside
  <2>2. /\ worker'.job = j /\ worker'.left = worker.left
        /\ worker'.flying = worker.flying \ {a} /\ worker'.sent = worker.sent
        /\ worker'.suppressed = worker.suppressed /\ worker'.failed = worker.failed \cup {a}
    BY <1>1, <2>1 DEF TypeOK, Busy
  <2>3. Mailed(j)' = Mailed(j)
    BY <2>1 DEF Mailed
  <2> QED
    BY <2>1, <2>2, <2>3
<1>5. CASE \E G \in SUBSET Addrs : HandOver(G)
  <2>1. PICK G \in SUBSET Addrs : HandOver(G)
    BY <1>5
  <2>2. {} \in SUBSET worker.flying
    OBVIOUS
  <2>3. /\ worker'.job = j /\ worker'.left = worker.left \ G /\ worker'.flying = G
        /\ worker'.sent = worker.sent /\ worker'.suppressed = worker.suppressed
        /\ worker'.failed = worker.failed /\ worker.flying = {} /\ G \subseteq worker.left
        /\ Mailed(j)' = Mailed(j)
        /\ UNCHANGED <<job, disk, chunks, log, client, skip, seen>>
    BY <1>2, <2>1
  <2>4. worker'.left \cup worker'.flying \subseteq worker.left \cup worker.flying
    BY <2>3
  <2>5. worker.left \cup worker.flying \cup worker.sent \cup worker.failed
          \subseteq worker'.left \cup worker'.flying \cup worker'.sent \cup worker'.failed
    BY <2>3
  <2> QED
    BY <1>1, <2>2, <2>3, <2>4, <2>5
<1>6. CASE \E a \in Addrs : Deliver(a)
  <2>1. PICK a \in Addrs : Deliver(a)
    BY <1>6
  <2>2. {a} \in SUBSET worker.flying
    BY <1>3, <2>1
  <2>3. \E D \in SUBSET worker.flying :
          Mailed(j)' = Mailed(j) \cup D /\ worker'.sent = worker.sent \cup D
    BY <1>3, <2>1, <2>2
  <2> QED
    BY <1>1, <1>3, <2>1, <2>3
<1>7. CASE \E a \in Addrs : GiveUp(a)
  <2>1. PICK a \in Addrs : GiveUp(a)
    BY <1>7
  <2>2. \E D \in SUBSET worker.flying :
          Mailed(j)' = Mailed(j) \cup D /\ worker'.sent = worker.sent \cup D
    <3>1. {} \in SUBSET worker.flying
      OBVIOUS
    <3>2. Mailed(j)' = Mailed(j) /\ worker'.sent = worker.sent
      BY <1>4, <2>1
    <3>3. Mailed(j)' = Mailed(j) \cup {} /\ worker'.sent = worker.sent \cup {}
      BY <3>2
    <3> QED
      BY <3>1, <3>3
  <2>3. worker'.left \cup worker'.flying \subseteq worker.left \cup worker.flying
    BY <1>4, <2>1
  <2>4. worker.left \cup worker.flying \cup worker.sent \cup worker.failed
          \subseteq worker'.left \cup worker'.flying \cup worker'.sent \cup worker'.failed
    BY <1>4, <2>1
  <2> QED
    BY <1>1, <1>4, <2>1, <2>2, <2>3, <2>4
<1> QED
  BY <1>5, <1>6, <1>7 DEF SendsOn

(* A restart loads the record on disk, ended if it was live. *)
LEMMA RestartEach ==
  ASSUME TypeOK, NEW j \in Jobs, Restart
  PROVE  /\ SameButState(job'[j], disk[j]) /\ job'[j].state \notin Live
         /\ disk[j].state \notin Live => job'[j] = disk[j]
         /\ disk[j].state \in Live => job'[j].state = "died"
         /\ disk'[j] = disk[j] \/ disk'[j] = job'[j]
         /\ chunks'[j] = NoChunks /\ worker' = Idle /\ MayHalt /\ SameRest(j)
         /\ log'[j] = IF disk[j].state \in Live THEN Settled(j, disk[j], logDisk) ELSE logDisk[j]
<1> DEFINE F == {k \in Jobs : disk[k].state \in Live}
           now == [k \in Jobs |-> IF k \in F THEN [disk[k] EXCEPT !.state = "died"] ELSE disk[k]]
<1>1. /\ job' = now /\ Persist(F, disk, now) /\ chunks'[j] = NoChunks /\ worker' = Idle
      /\ MayHalt /\ SameRest(j)
      /\ log'[j] = IF disk[j].state \in Live THEN Settled(j, disk[j], logDisk) ELSE logDisk[j]
  BY DEF Restart, SameRest
<1>2. disk[j] \in Job
  BY DEF TypeOK
<1>3. now[j] = IF disk[j].state \in Live THEN [disk[j] EXCEPT !.state = "died"] ELSE disk[j]
  OBVIOUS
<1>4. /\ SameButState(now[j], disk[j]) /\ now[j].state \notin Live
      /\ disk[j].state \notin Live => now[j] = disk[j]
      /\ disk[j].state \in Live => now[j].state = "died"
  <2> HIDE DEF now
  <2>1. CASE disk[j].state \in Live
    BY <1>2, <1>3, <2>1 DEF SameButState, Job, Live
  <2>2. CASE disk[j].state \notin Live
    BY <1>3, <2>2 DEF SameButState
  <2> QED
    BY <2>1, <2>2
<1>5. disk'[j] = disk[j] \/ disk'[j] = now[j]
  <2> HIDE DEF now, F
  <2> QED
    BY <1>1 DEF Persist
<1> QED
  BY <1>1, <1>4, <1>5

-----------------------------------------------------------------------------
(* The records of a job and what was mailed for it.                          *)

(* Whoever the file lists is in the record, and whoever the record lists was *)
(* mailed.  While a job runs its file misses the worker's chunk at most, and *)
(* the record of a completed job misses nobody.                              *)
Recorded(j) ==
  /\ disk[j].sent \subseteq job[j].sent
  /\ job[j].sent \subseteq Mailed(j)
  /\ Busy(j) => worker.sent \subseteq Mailed(j) /\ job[j].state # "completed"
  /\ job[j].state \in {"queued", "running"} => Mailed(j) \subseteq disk[j].sent \cup Doing(j)
  /\ job[j].state = "completed" => Mailed(j) \subseteq job[j].sent
  /\ disk[j].state = "completed" => job[j] = disk[j]

(* No chunk is longer than the limit, and what was mailed for a job and is   *)
(* not in its file is, with what the worker has still to mail for it, no     *)
(* more than a chunk.                                                        *)
Bounded(j) ==
  /\ \A i \in ChunkIds : Cardinality(chunks[j][i]) <= ChunkSize
  /\ Cardinality((Mailed(j) \ disk[j].sent) \cup Held(j)) <= ChunkSize

(* A job the worker has was started; an idle worker has none. *)
LEMMA BusyStarted ==
  ASSUME Core, NEW j \in Jobs, Busy(j)
  PROVE  job[j].state \notin {"none", "draft"}
BY JobsAssumption DEF Core, WorkerNew, Busy

LEMMA IdleHasNone ==
  ASSUME NEW j \in Jobs, worker' = Idle
  PROVE  ~Busy(j)'
BY JobsAssumption DEF Busy, Idle

LEMMA SameMailed ==
  ASSUME NEW j, mailed'[j] = mailed[j]
  PROVE  Mailed(j)' = Mailed(j)
BY DEF Mailed

LEMMA FewerIsLess ==
  ASSUME NEW T \in SUBSET Addrs, NEW S \in SUBSET T
  PROVE  Cardinality(S) \in Nat /\ Cardinality(T) \in Nat /\ Cardinality(S) <= Cardinality(T)
<1>1. IsFiniteSet(T)
  BY FS_Subset
<1> QED
  BY <1>1, FS_Subset, SizeIsNat

LEMMA RecordedStep ==
  ASSUME TypeOK, Core, [Next]_vars, NEW j \in Jobs, Recorded(j)
  PROVE  Recorded(j)'
<1> USE DEF Recorded
<1>n. j # NoJob
  BY JobsAssumption
<1>1. CASE Untouches(j)
  BY <1>1, SameMailed DEF Untouches, SameRest, Busy, Doing
<1>2. CASE Stops(j)
  BY <1>2, SameMailed DEF Stops, Settles, SameButState, SameRest, Busy, Doing, Terminal, Live
<1>3. CASE SendsOn(j)
  BY <1>3, SendsOnEach DEF Busy, Doing
<1>4. ASSUME NEW kind \in Kinds, NEW p \in Jobs \cup {NoJob}, Create(j, kind, p)
      PROVE  Recorded(j)'
  <2>1. /\ Mailed(j) = {} /\ Mailed(j)' = Mailed(j) /\ ~Busy(j) /\ ~Busy(j)'
        /\ job'[j].state = "draft" /\ job'[j].sent = {} /\ job[j].state = "none"
        /\ disk'[j] = disk[j] \/ disk'[j] = job'[j]
    BY <1>4, CreateEach, SameMailed DEF Busy
  <2> QED
    BY <2>1
<1>5. ASSUME NEW S \in Uploads, Append(j, S)
      PROVE  Recorded(j)'
  <2>0. /\ mailed' = mailed /\ worker' = worker /\ ~Busy(j)
        /\ job'[j].state = "draft" /\ job'[j].sent = job[j].sent /\ job[j].state = "draft"
        /\ disk'[j] = disk[j] \/ disk'[j] = job'[j]
    <3>1. Appends(j, S)
      BY <1>5, AppendEach
    <3> QED
      BY <3>1 DEF Appends
  <2>1. Mailed(j)' = Mailed(j) /\ ~Busy(j)'
    BY <2>0, SameMailed DEF Busy
  <2> QED
    BY <2>0, <2>1
<1>6. ASSUME NEW S \in Uploads, LoseUpload(j, S)
      PROVE  Recorded(j)'
  BY <1>6, LoseEach, SameMailed DEF Busy, Doing
<1>7. CASE Start(j)
  <2>1. /\ Mailed(j) = {} /\ Mailed(j)' = Mailed(j) /\ ~Busy(j) /\ ~Busy(j)'
        /\ job'[j].state = "queued" /\ job'[j].sent = job[j].sent /\ job[j].state = "draft"
        /\ disk'[j].sent = disk[j].sent \/ disk'[j].sent = job[j].sent
        /\ disk'[j].state = "completed" => disk'[j] = disk[j]
    BY <1>7, StartEach, SameMailed DEF Busy
  <2> QED
    BY <2>1
<1>8. CASE OpenChunk(j)
  BY <1>8, OpenEach, SameMailed DEF Busy, Doing
<1>9. CASE Record(j)
  <2> DEFINE rec == Drained(j)
  <2>1. /\ rec.sent = job[j].sent \cup worker.sent
        /\ rec.state = IF job[j].state = "queued" THEN "running" ELSE job[j].state
    BY DrainedRecord
  <2>2. /\ Busy(j) /\ worker' = Idle /\ SameRest(j)
        /\ \/ job'[j] = rec /\ disk'[j] = rec
           \/ ~Stopped(j) /\ Settles(j, rec, rec, "died")
           \/ ~Stopped(j) /\ Settles(j, rec, rec, "completed")
           \/ DiskMayFail /\ Settles(j, rec, disk[j], "died")
    BY <1>9, RecordEach
  <2>0. ~Busy(j)' /\ Mailed(j)' = Mailed(j)
    BY <2>2, <1>n, SameMailed DEF Busy, Idle, SameRest
  <2>3. job[j].state \notin {"none", "draft", "completed"}
    BY <2>2, <1>n DEF Core, WorkerNew, Busy
  <2>4. ~Stopped(j) => job[j].state \in {"queued", "running"}
    <3>1. job[j].state \in Live \cup Terminal \cup {"none"}
      BY DEF TypeOK, Job
    <3> QED
      BY <2>3, <3>1 DEF Stopped, Live
  <2> HIDE DEF rec
  <2>5. CASE job'[j] = rec /\ disk'[j] = rec
    BY <2>0, <2>1, <2>2, <2>3, <2>5 DEF Doing
  <2>6. CASE ~Stopped(j) /\ Settles(j, rec, rec, "died")
    BY <2>0, <2>1, <2>2, <2>3, <2>6 DEF Settles, SameButState
  <2>7. CASE ~Stopped(j) /\ Settles(j, rec, rec, "completed")
    BY <2>0, <2>1, <2>2, <2>3, <2>4, <2>7 DEF Settles, SameButState, Doing
  <2>8. CASE Settles(j, rec, disk[j], "died")
    BY <2>0, <2>1, <2>2, <2>3, <2>8 DEF Settles, SameButState
  <2> QED
    BY <2>2, <2>5, <2>6, <2>7, <2>8
<1>10. CASE Restart
  <2>1. /\ SameButState(job'[j], disk[j]) /\ job'[j].state \notin Live
        /\ disk[j].state \notin Live => job'[j] = disk[j]
        /\ disk[j].state \in Live => job'[j].state = "died"
        /\ disk'[j] = disk[j] \/ disk'[j] = job'[j]
        /\ Mailed(j)' = Mailed(j) /\ ~Busy(j)'
    BY <1>10, <1>n, RestartEach, SameMailed DEF SameRest, Busy, Idle
  <2> QED
    BY <2>1 DEF SameButState, Live
<1> QED
  BY <1>1, <1>2, <1>3, <1>4, <1>5, <1>6, <1>7, <1>8, <1>9, <1>10, StepEach

LEMMA BoundedStep ==
  ASSUME TypeOK, TypeOK', Core, [Next]_vars, NEW j \in Jobs, Recorded(j), Bounded(j)
  PROVE  Bounded(j)'
<1> DEFINE Loose == (Mailed(j) \ disk[j].sent) \cup Held(j)
<1>n. j # NoJob /\ ChunkSize \in Nat
  BY JobsAssumption, SizesAssumption
<1>t. Loose \in SUBSET Addrs /\ chunks[j] \in [ChunkIds -> SUBSET Addrs]
  BY DEF TypeOK, Mailed, Held
<1>e. (\A i \in ChunkIds : NoChunks[i] = {}) /\ Cardinality({}) = 0
  BY FS_EmptySet DEF NoChunks
<1>f. ASSUME Mailed(j)' \cup Held(j)' \subseteq Mailed(j) \cup Held(j),
             Held(j)' \subseteq Held(j), Mailed(j)' \ Mailed(j) \subseteq Held(j),
             disk[j].sent \subseteq disk'[j].sent
      PROVE  Cardinality((Mailed(j)' \ disk'[j].sent) \cup Held(j)') <= ChunkSize
  <2>1. (Mailed(j)' \ disk'[j].sent) \cup Held(j)' \subseteq Loose
    BY <1>f
  <2>2. Cardinality(Loose) <= ChunkSize
    BY DEF Bounded
  <2> HIDE DEF Loose
  <2> QED
    BY <2>1, <2>2, <1>t, <1>n, FewerIsLess
<1>c. ASSUME chunks'[j] = chunks[j] \/ chunks'[j] = NoChunks
      PROVE  \A i \in ChunkIds : Cardinality(chunks'[j][i]) <= ChunkSize
  <2> HIDE DEF Loose
  <2>1. CASE chunks'[j] = chunks[j]
    BY <2>1 DEF Bounded
  <2>2. CASE chunks'[j] = NoChunks
    BY <2>2, <1>e, <1>n
  <2> QED
    BY <1>c, <2>1, <2>2
<1> HIDE DEF Loose
<1>1. CASE Untouches(j)
  <2>1. Mailed(j)' = Mailed(j) /\ Held(j)' = Held(j) /\ disk'[j] = disk[j]
    BY <1>1, SameMailed DEF Untouches, SameRest, Busy, Held
  <2> QED
    BY <2>1, <1>1, <1>c, <1>f DEF Bounded, Untouches
<1>2. CASE Stops(j)
  <2>1. Mailed(j)' = Mailed(j) /\ Held(j)' = Held(j) /\ disk[j].sent \subseteq disk'[j].sent
    BY <1>2, SameMailed DEF Stops, Settles, SameButState, SameRest, Busy, Held, Recorded
  <2> QED
    BY <2>1, <1>2, <1>c, <1>f DEF Bounded, Stops, Settles
<1>3. CASE SendsOn(j)
  <2>1. /\ Busy(j) /\ worker'.job = j /\ disk' = disk /\ chunks' = chunks
        /\ worker'.left \cup worker'.flying \subseteq worker.left \cup worker.flying
    BY <1>3, SendsOnEach
  <2>2. PICK D \in SUBSET worker.flying : Mailed(j)' = Mailed(j) \cup D
    BY <1>3, SendsOnEach
  <2>3. Held(j)' \subseteq Held(j) /\ D \subseteq Held(j)
    BY <2>1 DEF Held, Busy
  <2> QED
    BY <2>1, <2>2, <2>3, <1>c, <1>f DEF Bounded
<1>4. ASSUME NEW kind \in Kinds, NEW p \in Jobs \cup {NoJob}, Create(j, kind, p)
      PROVE  Bounded(j)'
  <2>1. Mailed(j) = {} /\ Mailed(j)' = Mailed(j) /\ ~Busy(j)' /\ chunks' = chunks
    BY <1>4, CreateEach, SameMailed DEF Busy
  <2>2. (Mailed(j)' \ disk'[j].sent) \cup Held(j)' = {}
    BY <2>1 DEF Held
  <2> QED
    BY <2>1, <2>2, <1>c, <1>e, <1>n DEF Bounded
<1>5. ASSUME NEW S \in Uploads, Append(j, S)
      PROVE  Bounded(j)'
  <2> DEFINE fresh == S \ seen[j]
  <2>0. /\ Mailed(j) = {} /\ mailed' = mailed /\ worker' = worker /\ ~Busy(j)
        /\ chunks'[j] = chunks[j] \/ chunks'[j] = [chunks[j] EXCEPT ![job[j].chunkCount] = fresh]
    <3>1. Appends(j, S)
      BY <1>5, AppendEach
    <3> QED
      BY <3>1 DEF Appends
  <2>1. Mailed(j)' = {} /\ ~Busy(j)'
    BY <2>0, SameMailed DEF Busy
  <2>2. (Mailed(j)' \ disk'[j].sent) \cup Held(j)' = {}
    BY <2>1 DEF Held
  <2>3. Cardinality(fresh) <= ChunkSize
    <3>1. S \in SUBSET Addrs /\ fresh \in SUBSET S /\ Cardinality(S) <= ChunkSize
      BY DEF Uploads
    <3> HIDE DEF fresh
    <3> QED
      BY <3>1, <1>n, FewerIsLess
  <2>4. \A i \in ChunkIds : chunks'[j][i] = chunks[j][i] \/ chunks'[j][i] = fresh
    <3> HIDE DEF fresh
    <3> QED
      BY <2>0, <1>t
  <2>5. \A i \in ChunkIds : Cardinality(chunks'[j][i]) <= ChunkSize
    BY <2>3, <2>4 DEF Bounded
  <2> QED
    BY <2>2, <2>5, <1>e, <1>n DEF Bounded
<1>6. ASSUME NEW S \in Uploads, LoseUpload(j, S)
      PROVE  Bounded(j)'
  <2>1. /\ Mailed(j)' = Mailed(j) /\ Held(j)' = Held(j) /\ disk' = disk /\ chunks' = chunks
    BY <1>6, LoseEach, SameMailed DEF Held, Busy
  <2> QED
    BY <2>1, <1>c, <1>f DEF Bounded
<1>7. CASE Start(j)
  <2>1. Mailed(j) = {} /\ Mailed(j)' = Mailed(j) /\ ~Busy(j)' /\ chunks' = chunks
    BY <1>7, StartEach, SameMailed DEF Busy
  <2>2. (Mailed(j)' \ disk'[j].sent) \cup Held(j)' = {}
    BY <2>1 DEF Held
  <2> QED
    BY <2>1, <2>2, <1>c, <1>e, <1>n DEF Bounded
<1>8. CASE OpenChunk(j)
  <2> DEFINE n == job[j].nextChunk
  <2>1. /\ ~Busy(j) /\ worker'.job = j /\ worker'.flying = {} /\ n \in ChunkIds
        /\ job[j].state \in {"queued", "running"} /\ worker'.left \subseteq chunks[j][n]
        /\ disk' = disk /\ chunks' = chunks /\ Mailed(j)' = Mailed(j)
    BY <1>8, OpenEach, SameMailed
  <2> HIDE DEF n
  <2>2. (Mailed(j)' \ disk'[j].sent) \cup Held(j)' \subseteq chunks[j][n]
    BY <2>1 DEF Recorded, Doing, Held, Busy
  <2>3. Cardinality(chunks[j][n]) <= ChunkSize /\ chunks[j][n] \in SUBSET Addrs
    BY <2>1, <1>t DEF Bounded
  <2>4. Cardinality((Mailed(j)' \ disk'[j].sent) \cup Held(j)') <= ChunkSize
    BY <2>2, <2>3, <1>n, FewerIsLess
  <2> QED
    BY <2>1, <2>4, <1>c DEF Bounded
<1>9. CASE Record(j)
  <2> DEFINE rec == Drained(j)
  <2>1. rec.sent = job[j].sent \cup worker.sent
    BY DrainedRecord
  <2>0. /\ worker' = Idle /\ SameRest(j)
        /\ \/ disk'[j] = rec /\ chunks'[j] = [chunks[j] EXCEPT ![job[j].nextChunk] = {}]
           \/ Settles(j, rec, rec, "died")
           \/ Settles(j, rec, rec, "completed")
           \/ Settles(j, rec, disk[j], "died")
    BY <1>9, RecordEach
  <2>2. ~Busy(j)' /\ Mailed(j)' = Mailed(j)
    BY <2>0, <1>n, SameMailed DEF Busy, Idle, SameRest
  <2> HIDE DEF rec
  <2>3. disk[j].sent \subseteq disk'[j].sent
    BY <2>1, <2>0 DEF Settles, SameButState, Recorded
  <2>4. \A i \in ChunkIds : chunks'[j][i] = chunks[j][i] \/ chunks'[j][i] = {}
    <3>1. CASE chunks'[j] = [chunks[j] EXCEPT ![job[j].nextChunk] = {}]
      BY <3>1, <1>t
    <3>2. CASE chunks'[j] = NoChunks
      BY <3>2, <1>e
    <3> QED
      BY <2>0, <3>1, <3>2 DEF Settles
  <2>5. ASSUME NEW i \in ChunkIds PROVE Cardinality(chunks'[j][i]) <= ChunkSize
    <3>1. CASE chunks'[j][i] = chunks[j][i]
      BY <3>1 DEF Bounded
    <3>2. CASE chunks'[j][i] = {}
      BY <3>2, <1>e, <1>n
    <3> QED
      BY <2>4, <3>1, <3>2
  <2> QED
    BY <2>2, <2>3, <2>5, <1>f DEF Bounded, Held
<1>10. CASE Restart
  <2>1. /\ SameButState(job'[j], disk[j])
        /\ disk'[j] = disk[j] \/ disk'[j] = job'[j]
        /\ chunks'[j] = NoChunks /\ Mailed(j)' = Mailed(j) /\ ~Busy(j)'
    BY <1>10, <1>n, RestartEach, SameMailed DEF SameRest, Busy, Idle
  <2> QED
    BY <2>1, <1>c, <1>f DEF Bounded, SameButState, Held
<1> QED
  BY <1>1, <1>2, <1>3, <1>4, <1>5, <1>6, <1>7, <1>8, <1>9, <1>10, StepEach

-----------------------------------------------------------------------------
(* Who was posted, who was taken in, and who is accounted for.               *)

(* While a job is a draft its client's count is at least its own, and where  *)
(* the two agree nobody the client posted is missing.                        *)
Tallied(j) ==
  /\ client[j].posts = 0 => client[j].posted = {} /\ client[j].total = 0
  /\ job[j].state = "draft" =>
       /\ job[j].accepted \subseteq seen[j] /\ seen[j] \subseteq skip[j] \cup job[j].accepted
       /\ Cardinality(job[j].accepted) <= client[j].total
       /\ Cardinality(job[j].accepted) = client[j].total
            => client[j].posted \subseteq skip[j] \cup job[j].accepted
  /\ job[j].state \in {"queued", "running", "completed"} =>
       client[j].posted \subseteq skip[j] \cup job[j].accepted

(* The recipients of a live job are accounted for or in a chunk to come, and *)
(* those of its current chunk are accounted for or with the worker.          *)
Covered(j) ==
  /\ job[j].state = "draft" => job[j].nextChunk = 0
  /\ job[j].state \in Live => \A a \in job[j].accepted :
       \/ a \in Done(j)
       \/ \E i \in ChunkIds : /\ job[j].nextChunk <= i /\ i < job[j].chunkCount
                              /\ a \in chunks[j][i]
  /\ Busy(j) /\ job[j].state \in Live =>
       /\ job[j].nextChunk < job[j].chunkCount
       /\ chunks[j][job[j].nextChunk] \subseteq
            job[j].sent \cup worker.left \cup worker.flying \cup worker.sent
              \cup worker.suppressed \cup worker.failed
  /\ job[j].state = "completed" => job[j].accepted \subseteq Done(j)

(* The sizes of the two possible counts of an upload *)
LEMMA UploadSizes ==
  ASSUME NEW A \in SUBSET Addrs, NEW S \in SUBSET Addrs, NEW fresh \in SUBSET S, A \cap fresh = {}
  PROVE  /\ Cardinality(A) \in Nat /\ Cardinality(S) \in Nat /\ Cardinality(fresh) \in Nat
         /\ Cardinality(A \cup fresh) = Cardinality(A) + Cardinality(fresh)
         /\ Cardinality(fresh) <= Cardinality(S)
         /\ S # {} => Cardinality(S) > 0
<1>1. IsFiniteSet(A) /\ IsFiniteSet(S) /\ IsFiniteSet(fresh)
  BY FS_Subset
<1>2. Cardinality(A \cap fresh) = 0
  BY FS_EmptySet
<1>3. Cardinality(A) \in Nat /\ Cardinality(S) \in Nat /\ Cardinality(fresh) \in Nat
  BY <1>1, FS_CardinalityType
<1>4. Cardinality(A \cup fresh) = Cardinality(A) + Cardinality(fresh)
  <2>1. Cardinality(A \cup fresh) = Cardinality(A) + Cardinality(fresh) - Cardinality(A \cap fresh)
    BY <1>1, FS_Union
  <2> QED
    BY <2>1, <1>2, <1>3
<1>5. Cardinality(fresh) <= Cardinality(S)
  BY <1>1, FS_Subset
<1>6. S # {} => Cardinality(S) # 0
  BY <1>1, FS_EmptySet
<1> QED
  BY <1>3, <1>4, <1>5, <1>6

LEMMA TalliedStep ==
  ASSUME TypeOK, Core, [Next]_vars, NEW j \in Jobs, Recorded(j), Tallied(j)
  PROVE  Tallied(j)'
<1> USE DEF Tallied
<1>t. /\ client[j].posts \in Nat /\ client[j].total \in Nat
      /\ job[j].accepted \in SUBSET Addrs
      /\ job[j].state \in Live \cup Terminal \cup {"none"}
  BY DEF TypeOK, Job
<1>1. CASE Untouches(j)
  BY <1>1 DEF Untouches, SameRest
<1>2. CASE Stops(j)
  BY <1>2 DEF Stops, Settles, SameRest, Terminal
<1>3. CASE SendsOn(j)
  BY <1>3, SendsOnEach
<1>4. ASSUME NEW kind \in Kinds, NEW p \in Jobs \cup {NoJob}, Create(j, kind, p)
      PROVE  Tallied(j)'
  <2>1. /\ client' = client /\ client[j].posts = 0
        /\ job'[j].state = "draft" /\ job'[j].accepted = {} /\ seen'[j] = skip'[j]
    BY <1>4, CreateEach
  <2>2. Cardinality({}) = 0
    BY FS_EmptySet
  <2> QED
    BY <2>1, <2>2
<1>5. ASSUME NEW S \in Uploads, Append(j, S)
      PROVE  Tallied(j)'
  <2> DEFINE fresh == S \ seen[j]
  <2>1. /\ job[j].state = "draft" /\ job'[j].state = "draft" /\ skip' = skip
        /\ job'[j].accepted = job[j].accepted \cup fresh
        /\ seen'[j] = seen[j] \cup fresh
        /\ client'[j].posts = client[j].posts + 1
        /\ client'[j].posted = client[j].posted \cup S
        /\ \E took \in {fresh, S} : client'[j].total = client[j].total + Cardinality(took)
    <3>1. Appends(j, S)
      BY <1>5, AppendEach
    <3> QED
      BY <3>1 DEF Appends
  <2>2. S \in SUBSET Addrs /\ fresh \in SUBSET S /\ job[j].accepted \cap fresh = {}
    BY <2>1 DEF Uploads
  <2>3. S \subseteq seen[j] \cup fresh
    OBVIOUS
  <2> HIDE DEF fresh
  <2>4. /\ Cardinality(job[j].accepted) \in Nat /\ Cardinality(fresh) \in Nat /\ Cardinality(S) \in Nat
        /\ Cardinality(job'[j].accepted) = Cardinality(job[j].accepted) + Cardinality(fresh)
        /\ Cardinality(fresh) <= Cardinality(S)
    <3>1. job[j].accepted \in SUBSET Addrs /\ job'[j].accepted = job[j].accepted \cup fresh
      BY <2>1, <1>t
    <3>2. \A A \in SUBSET Addrs : A \cap fresh = {} =>
             /\ Cardinality(A) \in Nat /\ Cardinality(S) \in Nat /\ Cardinality(fresh) \in Nat
             /\ Cardinality(A \cup fresh) = Cardinality(A) + Cardinality(fresh)
             /\ Cardinality(fresh) <= Cardinality(S)
      BY <2>2, UploadSizes
    <3> QED
      BY <2>2, <3>1, <3>2
  <2>5. client'[j].total \in Nat /\ client'[j].total >= client[j].total + Cardinality(fresh)
    BY <2>1, <2>4, <1>t
  <2>6. Cardinality(job'[j].accepted) <= client'[j].total
    BY <2>1, <2>4, <2>5, <1>t
  <2>7. Cardinality(job'[j].accepted) = client'[j].total
          => Cardinality(job[j].accepted) = client[j].total
    BY <2>1, <2>4, <2>5, <1>t
  <2>8. Cardinality(job'[j].accepted) = client'[j].total
          => client'[j].posted \subseteq skip'[j] \cup job'[j].accepted
    BY <2>1, <2>3, <2>7
  <2>9. job'[j].accepted \subseteq seen'[j] /\ seen'[j] \subseteq skip'[j] \cup job'[j].accepted
    BY <2>1
  <2>10. client'[j].posts # 0
    BY <2>1, <1>t
  <2> QED
    BY <2>1, <2>6, <2>8, <2>9, <2>10
<1>6. ASSUME NEW S \in Uploads, LoseUpload(j, S)
      PROVE  Tallied(j)'
  <2>1. /\ job[j].state = "draft" /\ UNCHANGED <<job, seen, skip>>
        /\ client'[j].posts = client[j].posts + 1
        /\ client'[j].total = client[j].total + Cardinality(S)
    BY <1>6, LoseEach
  <2>2. Cardinality(job[j].accepted) \in Nat /\ Cardinality(S) \in Nat /\ Cardinality(S) > 0
    <3>1. S \in SUBSET Addrs /\ S # {} /\ {} \in SUBSET S /\ job[j].accepted \cap {} = {}
      BY DEF Uploads
    <3> QED
      BY <3>1, <1>t, UploadSizes
  <2> QED
    BY <2>1, <2>2, <1>t
<1>7. CASE Start(j)
  <2>1. /\ job[j].state = "draft" /\ client' = client /\ skip' = skip
        /\ client[j].total = Cardinality(job[j].accepted)
        /\ job'[j].state = "queued" /\ job'[j].accepted = job[j].accepted
    BY <1>7, StartEach
  <2> QED
    BY <2>1
<1>8. CASE OpenChunk(j)
  BY <1>8, OpenEach
<1>9. CASE Record(j)
  <2> DEFINE rec == Drained(j)
  <2>1. /\ rec.accepted = job[j].accepted
        /\ rec.state = IF job[j].state = "queued" THEN "running" ELSE job[j].state
    BY DrainedRecord
  <2>2. /\ Busy(j) /\ SameRest(j)
        /\ \/ job'[j] = rec
           \/ Settles(j, rec, rec, "died")
           \/ ~Stopped(j) /\ Settles(j, rec, rec, "completed")
           \/ Settles(j, rec, disk[j], "died")
    BY <1>9, RecordEach
  <2>3. job[j].state \notin {"none", "draft"}
    BY <2>2, JobsAssumption DEF Core, WorkerNew, Busy
  <2>4. ~Stopped(j) => job[j].state \in {"queued", "running"}
    BY <2>3, <1>t DEF Stopped, Live
  <2> HIDE DEF rec
  <2> QED
    BY <2>1, <2>2, <2>3, <2>4 DEF Settles, SameButState, SameRest
<1>10. CASE Restart
  <2>1. /\ job'[j].state \notin Live /\ SameRest(j)
        /\ disk[j].state \notin Live => job'[j] = disk[j]
        /\ disk[j].state \in Live => job'[j].state = "died"
    BY <1>10, RestartEach
  <2>2. job'[j].state = "completed" => job'[j] = job[j]
    BY <2>1 DEF Recorded
  <2> QED
    BY <2>1, <2>2 DEF SameRest, Live
<1> QED
  BY <1>1, <1>2, <1>3, <1>4, <1>5, <1>6, <1>7, <1>8, <1>9, <1>10, StepEach

LEMMA CoveredStep ==
  ASSUME TypeOK, Core, [Next]_vars, NEW j \in Jobs, Recorded(j), Covered(j)
  PROVE  Covered(j)'
<1> USE DEF Covered
<1>n. j # NoJob
  BY JobsAssumption
<1>t. /\ job[j].nextChunk \in Nat /\ job[j].chunkCount \in Nat
      /\ job[j].state \in Live \cup Terminal \cup {"none"}
      /\ chunks[j] \in [ChunkIds -> SUBSET Addrs] /\ ChunkIds \subseteq Nat
  <2>1. job[j] \in Job /\ chunks[j] \in [ChunkIds -> SUBSET Addrs]
    BY DEF TypeOK
  <2>2. ChunkIds \subseteq Nat
    BY DEF ChunkIds
  <2> QED
    BY <2>1, <2>2, JobFields
<1>1. CASE Untouches(j)
  <2>1. /\ job'[j] = job[j] /\ chunks'[j] = chunks[j]
        /\ \/ Busy(j)' = Busy(j) /\ worker' = worker
           \/ ~Busy(j)'
    BY <1>1 DEF Untouches, Busy
  <2> QED
    BY <2>1 DEF Done
<1>2. CASE Stops(j)
  BY <1>2 DEF Stops, Settles, Terminal, Live
<1>3. CASE SendsOn(j)
  <2>1. /\ Busy(j) /\ UNCHANGED <<job, chunks>> /\ worker'.suppressed = worker.suppressed
        /\ worker.left \cup worker.flying \cup worker.sent \cup worker.failed
             \subseteq worker'.left \cup worker'.flying \cup worker'.sent \cup worker'.failed
    BY <1>3, SendsOnEach
  <2> QED
    BY <2>1 DEF Done
<1>4. ASSUME NEW kind \in Kinds, NEW p \in Jobs \cup {NoJob}, Create(j, kind, p)
      PROVE  Covered(j)'
  <2>1. /\ ~Busy(j) /\ worker' = worker
        /\ job'[j].state = "draft" /\ job'[j].accepted = {} /\ job'[j].nextChunk = 0
    BY <1>4, CreateEach
  <2> QED
    BY <2>1 DEF Busy
<1>5. ASSUME NEW S \in Uploads, Append(j, S)
      PROVE  Covered(j)'
  <2> DEFINE fresh == S \ seen[j]
             n == job[j].chunkCount
  <2>1. /\ job[j].state = "draft" /\ n \in ChunkIds /\ ~Busy(j) /\ worker' = worker
        /\ job'[j].state = "draft" /\ job'[j].nextChunk = job[j].nextChunk
        /\ job'[j].sent = job[j].sent /\ job'[j].suppressed = job[j].suppressed
        /\ job'[j].failed = job[j].failed /\ job'[j].accepted = job[j].accepted \cup fresh
        /\ job'[j].chunkCount = IF fresh = {} THEN n ELSE n + 1
        /\ chunks'[j] = IF fresh = {} THEN chunks[j] ELSE [chunks[j] EXCEPT ![n] = fresh]
    <3>1. Appends(j, S)
      BY <1>5, AppendEach
    <3> QED
      BY <3>1 DEF Appends
  <2>2. ~Busy(j)' /\ Done(j)' = Done(j) /\ job[j].nextChunk = 0
    BY <2>1 DEF Busy, Done, Live
  <2> HIDE DEF fresh
  <2>3. ASSUME NEW a \in job'[j].accepted
        PROVE  \/ a \in Done(j)
               \/ \E i \in ChunkIds : /\ job'[j].nextChunk <= i /\ i < job'[j].chunkCount
                                      /\ a \in chunks'[j][i]
    <3>1. CASE a \in fresh
      <4>1. chunks'[j][n] = fresh /\ job'[j].chunkCount = n + 1
        BY <2>1, <3>1, <1>t
      <4> QED
        BY <2>1, <2>2, <3>1, <4>1, <1>t
    <3>2. CASE a \in job[j].accepted /\ a \notin Done(j)
      <4>1. PICK i \in ChunkIds : i < n /\ a \in chunks[j][i]
        BY <2>1, <3>2 DEF Live
      <4>2. chunks'[j][i] = chunks[j][i] /\ i < job'[j].chunkCount /\ 0 <= i
        BY <2>1, <4>1, <1>t
      <4> QED
        BY <2>1, <2>2, <4>1, <4>2
    <3> QED
      BY <2>1, <3>1, <3>2
  <2> QED
    BY <2>1, <2>2, <2>3
<1>6. ASSUME NEW S \in Uploads, LoseUpload(j, S)
      PROVE  Covered(j)'
  BY <1>6, LoseEach DEF Done, Busy
<1>7. CASE Start(j)
  <2>1. /\ job[j].state = "draft" /\ ~Busy(j) /\ worker' = worker /\ chunks' = chunks
        /\ job'[j].state = "queued" /\ job'[j].accepted = job[j].accepted
        /\ job'[j].chunkCount = job[j].chunkCount /\ job'[j].nextChunk = job[j].nextChunk
        /\ job'[j].sent = job[j].sent /\ job'[j].suppressed = job[j].suppressed
        /\ job'[j].failed = job[j].failed
    BY <1>7, StartEach
  <2>2. Done(j)' = Done(j) /\ ~Busy(j)'
    BY <2>1 DEF Done, Busy
  <2> QED
    BY <2>1, <2>2 DEF Live
<1>8. CASE OpenChunk(j)
  <2>1. /\ job[j].nextChunk < job[j].chunkCount /\ UNCHANGED <<job, chunks>>
        /\ chunks[j][job[j].nextChunk] \subseteq
             job[j].sent \cup worker'.left \cup worker'.suppressed
    BY <1>8, OpenEach
  <2> QED
    BY <2>1 DEF Done
<1>9. CASE Record(j)
  <2> DEFINE rec == Drained(j)
             n == job[j].nextChunk
  <2>1. /\ rec.accepted = job[j].accepted /\ rec.chunkCount = job[j].chunkCount
        /\ rec.nextChunk = n + 1
        /\ rec.sent = job[j].sent \cup worker.sent
        /\ rec.suppressed = job[j].suppressed \cup worker.suppressed
        /\ rec.failed = job[j].failed \cup worker.failed
        /\ rec.state = IF job[j].state = "queued" THEN "running" ELSE job[j].state
    BY DrainedRecord
  <2>2. /\ Busy(j) /\ worker' = Idle /\ worker.flying = {}
        /\ worker.left = {} \/ Stopped(j)
        /\ \/ /\ job'[j] = rec
              /\ chunks'[j] = [chunks[j] EXCEPT ![n] = {}]
           \/ Settles(j, rec, rec, "died")
           \/ /\ ~Stopped(j) /\ rec.nextChunk >= rec.chunkCount
              /\ Settles(j, rec, rec, "completed")
           \/ Settles(j, rec, disk[j], "died")
    BY <1>9, RecordEach
  <2>3. job[j].state \notin {"none", "draft", "completed"} /\ ~Busy(j)'
    <3>1. Busy(j) /\ worker' = Idle
      BY <1>9 DEF Record
    <3>2. job[j].state \notin {"none", "draft"}
      BY <3>1, BusyStarted
    <3>3. ~Busy(j)'
      BY <3>1, IdleHasNone
    <3>4. job[j].state # "completed"
      BY <3>1 DEF Recorded
    <3> QED
      BY <3>2, <3>3, <3>4
  <2>4. ~Stopped(j) => job[j].state \in {"queued", "running"}
    BY <2>3, <1>t DEF Stopped, Live
  <2> DEFINE all == rec.sent \cup rec.suppressed \cup rec.failed
  <2> HIDE DEF rec
  <2>5. ASSUME ~Stopped(j), NEW a \in job[j].accepted, a \notin all
        PROVE  \E i \in ChunkIds : /\ n + 1 <= i /\ i < job[j].chunkCount
                                   /\ a \in chunks[j][i] /\ i # n
    <3>1. /\ job[j].state \in Live /\ worker.left = {} /\ a \notin Done(j)
      BY <2>1, <2>2, <2>4, <2>5 DEF Live, Done
    <3>2. PICK i \in ChunkIds : n <= i /\ i < job[j].chunkCount /\ a \in chunks[j][i]
      BY <3>1
    <3>3. i # n
      BY <2>1, <2>2, <2>5, <3>1, <3>2
    <3> QED
      BY <3>2, <3>3, <1>t
  <2>6. CASE job'[j] = rec /\ chunks'[j] = [chunks[j] EXCEPT ![n] = {}]
    <3>1. CASE Stopped(j)
      BY <2>1, <2>3, <2>6, <3>1 DEF Stopped, Live, Terminal
    <3>2. CASE ~Stopped(j)
      <4>1. job'[j].state = "running" /\ Done(j)' = all
        BY <2>1, <2>4, <2>6, <3>2 DEF Done
      <4>2. \A a \in job'[j].accepted : a \notin Done(j)' =>
              \E i \in ChunkIds : /\ job'[j].nextChunk <= i /\ i < job'[j].chunkCount
                                  /\ a \in chunks'[j][i]
        BY <2>1, <2>5, <2>6, <3>2, <4>1, <1>t
      <4> QED
        BY <2>3, <4>1, <4>2
    <3> QED
      BY <3>1, <3>2
  <2>7. CASE Settles(j, rec, rec, "died") \/ Settles(j, rec, disk[j], "died")
    BY <2>3, <2>7 DEF Settles, Live
  <2>8. CASE ~Stopped(j) /\ rec.nextChunk >= rec.chunkCount /\ Settles(j, rec, rec, "completed")
    <3>0. \A i \in ChunkIds : ~(n + 1 <= i /\ i < job[j].chunkCount)
      <4>1. n + 1 >= job[j].chunkCount
        BY <2>1, <2>8
      <4>2. n \in Nat /\ job[j].chunkCount \in Nat /\ ChunkIds \subseteq Nat
        BY <1>t
      <4>3. PICK m \in Nat, c \in Nat : m = n /\ c = job[j].chunkCount
        BY <4>2
      <4>4. \A i \in Nat : ~(m + 1 <= i /\ i < c)
        BY <4>1, <4>3
      <4> HIDE DEF n
      <4> QED
        BY <4>2, <4>3, <4>4
    <3>1. \A a \in job[j].accepted : a \in all
      BY <2>5, <2>8, <3>0
    <3> QED
      BY <2>1, <2>3, <2>8, <3>1 DEF Settles, SameButState, Done, Live
  <2> QED
    BY <2>2, <2>6, <2>7, <2>8
<1>10. CASE Restart
  <2>1. /\ job'[j].state \notin Live /\ SameRest(j)
        /\ disk[j].state \notin Live => job'[j] = disk[j]
        /\ disk[j].state \in Live => job'[j].state = "died"
    BY <1>10, RestartEach
  <2>2. job'[j].state = "completed" => job'[j] = job[j]
    BY <2>1 DEF Recorded
  <2> QED
    BY <2>1, <2>2 DEF Live, Done
<1> QED
  BY <1>1, <1>2, <1>3, <1>4, <1>5, <1>6, <1>7, <1>8, <1>9, <1>10, StepEach

(* The records, the bounds and the accounts of every job, together *)
Accounts ==
  \A j \in Jobs : Recorded(j) /\ Bounded(j) /\ Tallied(j) /\ Covered(j)

LEMMA InitAccounts == Init => Accounts
<1> SUFFICES ASSUME Init, NEW j \in Jobs
             PROVE  Recorded(j) /\ Bounded(j) /\ Tallied(j) /\ Covered(j)
  BY DEF Accounts
<1>1. /\ job[j] = Blank /\ disk[j] = Blank /\ Mailed(j) = {} /\ ~Busy(j)
      /\ \A i \in ChunkIds : chunks[j][i] = {}
      /\ client[j].posted = {} /\ client[j].total = 0
  BY JobsAssumption DEF Init, Mailed, Busy, Idle
<1>2. Blank.state = "none" /\ Blank.sent = {}
  BY DEF Blank
<1>3. Held(j) = {} /\ Cardinality({}) = 0 /\ ChunkSize \in Nat
  BY <1>1, FS_EmptySet DEF Held
<1>4. (Mailed(j) \ disk[j].sent) \cup Held(j) = {}
  BY <1>1, <1>3
<1>5. Bounded(j)
  BY <1>1, <1>3, <1>4 DEF Bounded
<1> QED
  BY <1>1, <1>2, <1>5 DEF Recorded, Tallied, Covered, Live

LEMMA AccountsStep == IInv /\ Accounts /\ [Next]_vars => Accounts'
<1> SUFFICES ASSUME IInv, Accounts, [Next]_vars, NEW j \in Jobs
             PROVE  (Recorded(j) /\ Bounded(j) /\ Tallied(j) /\ Covered(j))'
  BY DEF Accounts
<1>1. TypeOK /\ Core /\ TypeOK'
  BY StepType DEF IInv, Core
<1>2. Recorded(j) /\ Bounded(j) /\ Tallied(j) /\ Covered(j)
  BY DEF Accounts
<1> QED
  BY <1>1, <1>2, RecordedStep, BoundedStep, TalliedStep, CoveredStep

THEOREM AccountsHold == Spec => []Accounts
BY InitAccounts, AccountsStep, Invariance, PTL DEF Spec

(* Nobody is silently missed: a completed job accounts for every address its *)
(* client posted, whatever answers, chunks and writes were lost on the way   *)
(* (sealAndQueue's check, drainOneChunk's early return for a stopped job).   *)
THEOREM CompletedCoversAllHolds == Spec => []CompletedCoversAll
<1>1. Accounts => CompletedCoversAll
  <2> SUFFICES ASSUME Accounts, NEW j \in Jobs, job[j].state = "completed"
               PROVE  /\ client[j].posted \subseteq skip[j] \cup job[j].sent
                                                   \cup job[j].suppressed \cup job[j].failed
                      /\ job[j].sent = Mailed(j)
    BY DEF CompletedCoversAll
  <2>1. Recorded(j) /\ Tallied(j) /\ Covered(j)
    BY DEF Accounts
  <2>2. job[j].sent = Mailed(j)
    BY <2>1 DEF Recorded
  <2>3. client[j].posted \subseteq skip[j] \cup job[j].accepted
    BY <2>1 DEF Tallied
  <2>4. job[j].accepted \subseteq Done(j)
    BY <2>1 DEF Covered
  <2> QED
    BY <2>2, <2>3, <2>4 DEF Done
<1> QED
  BY <1>1, AccountsHold, PTL

(* What a job mailed and its file does not say is never more than a chunk,   *)
(* also when writes fail (recordChunkDrained, and drainOneChunk's stop when  *)
(* the record is not kept).                                                  *)
THEOREM LossBoundedHolds == Spec => []LossBounded
<1>1. Accounts /\ TypeOK => LossBounded
  <2> SUFFICES ASSUME Accounts, TypeOK, NEW j \in Jobs
               PROVE  Cardinality(Mailed(j) \ disk[j].sent) <= ChunkSize
    BY DEF LossBounded
  <2> DEFINE Loose == (Mailed(j) \ disk[j].sent) \cup Held(j)
             Lost == Mailed(j) \ disk[j].sent
  <2>1. Cardinality(Loose) <= ChunkSize /\ ChunkSize \in Nat
    BY DEF Accounts, Bounded
  <2>2. Lost \in SUBSET Loose /\ Loose \in SUBSET Addrs
    BY DEF Mailed, Held, TypeOK
  <2> HIDE DEF Loose, Lost
  <2>3. Cardinality(Lost) <= ChunkSize
    BY <2>1, <2>2, FewerIsLess
  <2> QED
    BY <2>3 DEF Lost
<1> QED
  BY <1>1, AccountsHold, TypeCorrect, PTL

-----------------------------------------------------------------------------
(* A resume and the job it resumes, and what a stopped job keeps of its      *)
(* reservation.  From here on no write fails, as the properties say.         *)

(* The prior job is over, and what it mailed or may still mail beyond what   *)
(* the resume skips is no more than a chunk, and nothing if it completed.    *)
Repeats(j) ==
  LET p == job[j].resumeOf IN
  p # NoJob =>
    /\ job[p].state \in Terminal
    /\ Cardinality((Mailed(p) \ skip[j]) \cup Held(p)) <= ChunkSize
    /\ job[p].state = "completed" => Mailed(p) \subseteq skip[j]

(* Only a started marketing job has a reservation, and a stopped one keeps   *)
(* what it sent of it.                                                       *)
Returned(j) ==
  /\ log[j] # NoEntry => /\ job[j].kind = "marketing" /\ job[j].reserved
                         /\ job[j].state \notin {"none", "draft"}
  /\ job[j].state \in Terminal => log[j] <= Cardinality(job[j].sent)

(* The file of the reservations is the log. *)
LogTrue == logDisk = log

(* A job that is over stays what it is, and only the worker's chunk of it    *)
(* may still be mailed.                                                      *)
LEMMA OverStep ==
  ASSUME ~DiskMayFail, TypeOK, Core, FilesTrue, [Next]_vars, NEW p \in Jobs, Recorded(p),
         job[p].state \in Terminal
  PROVE  /\ job'[p].state = job[p].state /\ Held(p)' \subseteq Held(p)
         /\ Mailed(p)' \subseteq Mailed(p) \cup Held(p)
         /\ job[p].state = "completed" => Held(p) = {}
<1>n. p # NoJob
  BY JobsAssumption
<1>s. /\ job[p].state \notin Live /\ job[p].state \notin {"none", "queued", "running", "draft"}
      /\ job[p].state = "completed" => Held(p) = {}
  BY DEF Live, Terminal, Recorded, Held
<1>1. CASE Untouches(p)
  <2>1. job'[p] = job[p] /\ Mailed(p)' = Mailed(p) /\ Held(p)' \subseteq Held(p)
    BY <1>1, SameMailed DEF Untouches, SameRest, Busy, Held
  <2> QED
    BY <2>1, <1>s
<1>2. CASE Stops(p)
  BY <1>2, <1>s DEF Stops
<1>3. CASE SendsOn(p)
  <2>1. /\ Busy(p) /\ worker'.job = p /\ job' = job
        /\ worker'.left \cup worker'.flying \subseteq worker.left \cup worker.flying
    BY <1>3, SendsOnEach
  <2>2. PICK D \in SUBSET worker.flying : Mailed(p)' = Mailed(p) \cup D
    BY <1>3, SendsOnEach
  <2>3. Held(p)' \subseteq Held(p) /\ D \subseteq Held(p)
    BY <2>1 DEF Held, Busy
  <2> QED
    BY <2>1, <2>2, <2>3, <1>s
<1>4. ASSUME NEW kind \in Kinds, NEW q \in Jobs \cup {NoJob}, Create(p, kind, q)
      PROVE  FALSE
  BY <1>4, <1>s DEF Create
<1>5. ASSUME NEW S \in Uploads, Append(p, S) \/ LoseUpload(p, S)
      PROVE  FALSE
  BY <1>5, <1>s DEF Append, LoseUpload
<1>6. ~Start(p)
  BY <1>s DEF Start
<1>7. ~OpenChunk(p)
  BY <1>s DEF OpenChunk, Turn, Pool, Runnable
<1>8. CASE Record(p)
  <2> DEFINE rec == Drained(p)
  <2>1. rec.state = job[p].state
    BY <1>s, DrainedRecord
  <2>2. worker' = Idle /\ SameRest(p) /\ job'[p] = rec
    BY <1>8, RecordEach DEF Stopped
  <2>3. Mailed(p)' = Mailed(p) /\ ~Busy(p)'
    BY <2>2, IdleHasNone, SameMailed DEF SameRest
  <2> HIDE DEF rec
  <2> QED
    BY <2>1, <2>2, <2>3, <1>s DEF Held
<1>9. CASE Restart
  <2>1. job'[p] = disk[p] /\ disk[p] = job[p] /\ worker' = Idle /\ SameRest(p)
    BY <1>9, <1>s, RestartEach DEF FilesTrue
  <2>2. Mailed(p)' = Mailed(p) /\ ~Busy(p)'
    BY <2>1, IdleHasNone, SameMailed DEF SameRest
  <2> QED
    BY <2>1, <2>2, <1>s DEF Held
<1> QED
  BY <1>1, <1>2, <1>3, <1>4, <1>5, <1>6, <1>7, <1>8, <1>9, StepEach

(* Which job a job resumes, and whom it skips, is settled when it is created. *)
LEMMA ResumeKept ==
  ASSUME ~DiskMayFail, TypeOK, Core, FilesTrue, [Next]_vars, NEW j \in Jobs
  PROVE  \/ job'[j].resumeOf = job[j].resumeOf /\ skip'[j] = skip[j]
         \/ \E kind \in Kinds, p \in Jobs \cup {NoJob} : Create(j, kind, p)
<1>1. CASE Untouches(j)
  BY <1>1 DEF Untouches, SameRest
<1>2. CASE Stops(j)
  BY <1>2 DEF Stops, Settles, SameButState, SameRest
<1>3. CASE SendsOn(j)
  BY <1>3, SendsOnEach
<1>4. ASSUME NEW S \in Uploads, Append(j, S)
      PROVE  job'[j].resumeOf = job[j].resumeOf /\ skip'[j] = skip[j]
  <2>1. Appends(j, S)
    BY <1>4, AppendEach
  <2> QED
    BY <2>1 DEF Appends
<1>5. ASSUME NEW S \in Uploads, LoseUpload(j, S)
      PROVE  job'[j].resumeOf = job[j].resumeOf /\ skip'[j] = skip[j]
  BY <1>5, LoseEach
<1>6. CASE Start(j)
  BY <1>6, StartEach
<1>7. CASE OpenChunk(j)
  BY <1>7, OpenEach
<1>8. CASE Record(j)
  <2> DEFINE rec == Drained(j)
  <2>1. rec.resumeOf = job[j].resumeOf
    BY DrainedRecord
  <2>2. /\ SameRest(j)
        /\ \/ job'[j] = rec
           \/ Settles(j, rec, rec, "died")
           \/ Settles(j, rec, rec, "completed")
    BY <1>8, RecordEach
  <2> HIDE DEF rec
  <2> QED
    BY <2>1, <2>2 DEF Settles, SameButState, SameRest
<1>9. CASE Restart
  <2>1. SameButState(job'[j], disk[j]) /\ SameRest(j) /\ disk[j] = job[j]
    BY <1>9, RestartEach DEF FilesTrue
  <2> QED
    BY <2>1 DEF SameButState, SameRest
<1> QED
  BY <1>1, <1>2, <1>3, <1>4, <1>5, <1>6, <1>7, <1>8, <1>9, StepEach

LEMMA RepeatsStep ==
  ASSUME ~DiskMayFail, TypeOK, TypeOK', Core, FilesTrue, [Next]_vars,
         \A k \in Jobs : Recorded(k) /\ Bounded(k), NEW j \in Jobs, Repeats(j)
  PROVE  Repeats(j)'
<1>1. job'[j].resumeOf # NoJob => job'[j].resumeOf \in Jobs
  <2>1. job'[j] \in Job
    BY DEF TypeOK
  <2> QED
    BY <2>1 DEF Job
<1>2. SUFFICES ASSUME NEW q \in Jobs, q # NoJob, q = job'[j].resumeOf
               PROVE  /\ job'[q].state \in Terminal
                      /\ Cardinality((Mailed(q)' \ skip'[j]) \cup Held(q)') <= ChunkSize
                      /\ job'[q].state = "completed" => Mailed(q)' \subseteq skip'[j]
  BY <1>1 DEF Repeats, Mailed, Held, Busy
<1>3. ChunkSize \in Nat /\ Mailed(q) \in SUBSET Addrs /\ Held(q) \in SUBSET Addrs
  BY SizesAssumption DEF Mailed, Held, TypeOK
<1>4. /\ job[q].state \in Terminal
      /\ Cardinality((Mailed(q) \ skip'[j]) \cup Held(q)) <= ChunkSize
      /\ job[q].state = "completed" => Mailed(q) \subseteq skip'[j]
  <2>1. CASE job'[j].resumeOf = job[j].resumeOf /\ skip'[j] = skip[j]
    BY <2>1, <1>2 DEF Repeats
  <2>2. ASSUME NEW kind \in Kinds, NEW p \in Jobs \cup {NoJob}, Create(j, kind, p)
        PROVE  /\ job[q].state \in Terminal
               /\ Cardinality((Mailed(q) \ skip'[j]) \cup Held(q)) <= ChunkSize
               /\ job[q].state = "completed" => Mailed(q) \subseteq skip'[j]
    <3>1. p = q /\ job[q].state \in Terminal /\ skip'[j] = job[q].sent
      BY <2>2, <1>2, CreateEach
    <3> DEFINE Loose == (Mailed(q) \ disk[q].sent) \cup Held(q)
               Over == (Mailed(q) \ skip'[j]) \cup Held(q)
    <3>2. Over \in SUBSET Loose /\ Loose \in SUBSET Addrs /\ Cardinality(Loose) <= ChunkSize
      BY <3>1, <1>2, <1>3 DEF Recorded, Bounded
    <3> HIDE DEF Loose, Over
    <3>3. Cardinality(Over) <= ChunkSize
      BY <3>2, <1>3, FewerIsLess
    <3> QED
      BY <3>1, <3>3, <1>2 DEF Recorded, Over
  <2> QED
    BY <2>1, <2>2, ResumeKept
<1>5. /\ job'[q].state = job[q].state /\ Held(q)' \subseteq Held(q)
      /\ Mailed(q)' \subseteq Mailed(q) \cup Held(q)
      /\ job[q].state = "completed" => Held(q) = {}
  BY <1>2, <1>4, OverStep
<1> DEFINE Was == (Mailed(q) \ skip'[j]) \cup Held(q)
           Is == (Mailed(q)' \ skip'[j]) \cup Held(q)'
<1>6. Is \in SUBSET Was /\ Was \in SUBSET Addrs
  BY <1>3, <1>5
<1>7. Cardinality(Is) <= ChunkSize
  <2>1. Cardinality(Was) <= ChunkSize
    BY <1>4
  <2> HIDE DEF Was, Is
  <2> QED
    BY <1>3, <1>6, <2>1, FewerIsLess
<1> QED
  BY <1>4, <1>5, <1>7

LEMMA ReturnedStep ==
  ASSUME ~DiskMayFail, TypeOK, TypeOK', Core, FilesTrue, LogTrue, [Next]_vars, NEW j \in Jobs,
         Returned(j)
  PROVE  Returned(j)'
<1> USE DEF Returned
<1>t. /\ log[j] \in Nat \cup {NoEntry} /\ NoEntry = -1
      /\ job[j] \in Job /\ Cardinality(job[j].sent) \in Nat
      /\ job'[j] \in Job /\ Cardinality(job'[j].sent) \in Nat
  <2>1. /\ log[j] \in Nat \cup {NoEntry} /\ NoEntry = -1 /\ job[j] \in Job /\ job'[j] \in Job
    BY DEF TypeOK, NoEntry
  <2> QED
    BY <2>1, JobFields, SizeIsNat
<1>s. \A r \in Job, old \in Job, st \in Terminal :
        /\ Settles(j, r, old, st) /\ Cardinality(r.sent) \in Nat
        /\ r.kind = job[j].kind /\ r.reserved = job[j].reserved
        => Returned(j)'
  <2> SUFFICES ASSUME NEW r \in Job, NEW old \in Job, NEW st \in Terminal,
                      Settles(j, r, old, st), Cardinality(r.sent) \in Nat,
                      r.kind = job[j].kind, r.reserved = job[j].reserved
               PROVE  Returned(j)'
    OBVIOUS
  <2>1. /\ job'[j].state = st /\ job'[j].sent = r.sent
        /\ job'[j].kind = job[j].kind /\ job'[j].reserved = job[j].reserved
        /\ log'[j] = Settled(j, r, log)
    BY DEF Settles, SameButState
  <2>2. /\ log[j] # NoEntry => log'[j] = Cardinality(r.sent)
        /\ log[j] = NoEntry => log'[j] = NoEntry
    BY <2>1 DEF Settled
  <2>3. st \notin {"none", "draft"}
    BY DEF Terminal
  <2> QED
    BY <2>1, <2>2, <2>3, <1>t
<1>1. CASE Untouches(j)
  BY <1>1 DEF Untouches
<1>2. CASE Stops(j)
  <2>1. disk[j] \in Job /\ \E st \in Terminal : Settles(j, job[j], disk[j], st)
    BY <1>2 DEF Stops, TypeOK
  <2> QED
    BY <2>1, <1>s, <1>t
<1>3. CASE SendsOn(j)
  BY <1>3, SendsOnEach
<1>4. ASSUME NEW kind \in Kinds, NEW p \in Jobs \cup {NoJob}, Create(j, kind, p)
      PROVE  Returned(j)'
  <2>1. job[j].state = "none" /\ job'[j].state = "draft" /\ log' = log
    BY <1>4, CreateEach
  <2> QED
    BY <2>1 DEF Terminal
<1>5. ASSUME NEW S \in Uploads, Append(j, S)
      PROVE  Returned(j)'
  <2>1. job[j].state = "draft" /\ job'[j].state = "draft" /\ log' = log
    <3>1. Appends(j, S)
      BY <1>5, AppendEach
    <3> QED
      BY <3>1 DEF Appends
  <2> QED
    BY <2>1 DEF Terminal
<1>6. ASSUME NEW S \in Uploads, LoseUpload(j, S)
      PROVE  Returned(j)'
  BY <1>6, LoseEach
<1>7. CASE Start(j)
  <2>1. /\ job[j].state = "draft" /\ job'[j].state = "queued"
        /\ job'[j].reserved = (job[j].kind = "marketing") /\ job'[j].kind = job[j].kind
        /\ job[j].kind # "marketing" => log'[j] = log[j]
    BY <1>7, StartEach
  <2> QED
    BY <2>1 DEF Terminal
<1>8. CASE OpenChunk(j)
  BY <1>8, OpenEach
<1>9. CASE Record(j)
  <2> DEFINE rec == Drained(j)
  <2>1. /\ rec \in Job /\ rec.kind = job[j].kind /\ rec.reserved = job[j].reserved
        /\ rec.sent = job[j].sent \cup worker.sent
        /\ rec.state = IF job[j].state = "queued" THEN "running" ELSE job[j].state
    BY DrainedRecord
  <2>2. \/ job'[j] = rec /\ log'[j] = log[j]
        \/ Settles(j, rec, rec, "died")
        \/ Settles(j, rec, rec, "completed")
    BY <1>9, RecordEach
  <2>3. Cardinality(rec.sent) \in Nat /\ Cardinality(job[j].sent) <= Cardinality(rec.sent)
    <3>1. rec.sent \in SUBSET Addrs /\ job[j].sent \in SUBSET rec.sent
      BY <2>1, JobFields
    <3> HIDE DEF rec
    <3> QED
      BY <3>1, FewerIsLess
  <2> HIDE DEF rec
  <2>4. CASE job'[j] = rec /\ log'[j] = log[j]
    <3>1. job'[j].state \in Terminal => job[j].state \in Terminal
      BY <2>1, <2>4 DEF Terminal
    <3>2. job'[j].state \in {"none", "draft"} => job[j].state \in {"none", "draft"}
      BY <2>1, <2>4
    <3>3. job'[j].sent = rec.sent /\ log'[j] = log[j] /\ log[j] \in Int
      BY <2>4, <1>t
    <3>4. job[j].state \in Terminal => log[j] <= Cardinality(job[j].sent)
      OBVIOUS
    <3>5. job'[j].state \in Terminal => log'[j] <= Cardinality(job'[j].sent)
      BY <2>3, <3>1, <3>3, <3>4, <1>t
    <3> QED
      BY <2>1, <2>4, <3>2, <3>5
  <2>5. CASE Settles(j, rec, rec, "died") \/ Settles(j, rec, rec, "completed")
    <3>1. "died" \in Terminal /\ "completed" \in Terminal
      BY DEF Terminal
    <3> QED
      BY <2>1, <2>3, <2>5, <3>1, <1>s
  <2> QED
    BY <2>2, <2>4, <2>5
<1>10. CASE Restart
  <2>1. /\ disk[j] = job[j] /\ logDisk = log
    BY DEF FilesTrue, LogTrue
  <2>2. /\ SameButState(job'[j], job[j]) /\ job'[j].state \notin Live
        /\ job[j].state \notin Live => job'[j] = job[j]
        /\ job[j].state \in Live => job'[j].state = "died"
        /\ log'[j] = IF job[j].state \in Live THEN Settled(j, job[j], log) ELSE log[j]
    BY <1>10, <2>1, RestartEach
  <2>3. CASE job[j].state \in Live
    <3>1. /\ log[j] # NoEntry => log'[j] = Cardinality(job[j].sent)
          /\ log[j] = NoEntry => log'[j] = NoEntry
      BY <2>2, <2>3 DEF Settled
    <3> QED
      BY <2>2, <2>3, <3>1, <1>t DEF SameButState
  <2>4. CASE job[j].state \notin Live
    BY <2>2, <2>4
  <2> QED
    BY <2>3, <2>4
<1> QED
  BY <1>1, <1>2, <1>3, <1>4, <1>5, <1>6, <1>7, <1>8, <1>9, <1>10, StepEach

LEMMA LogStep ==
  ASSUME ~DiskMayFail, LogTrue, [Next]_vars
  PROVE  LogTrue'
<1> USE DEF LogTrue
<1>1. ASSUME NEW F, NEW old, NEW now, PersistLog(F, old, now)
      PROVE  logDisk' = now
  BY <1>1 DEF PersistLog
<1>2. ASSUME NEW F, NEW state, NEW now, NEW old, Finish(F, state, now, old)
      PROVE  logDisk' = log'
  BY <1>1, <1>2 DEF Finish
<1>3. ASSUME NEW j \in Jobs, Cancel(j) \/ CannotSend(j)
      PROVE  LogTrue'
  BY <1>2, <1>3 DEF Cancel, CannotSend
<1>4. CASE Sweep \/ Shutdown
  BY <1>2, <1>4 DEF Sweep, Shutdown
<1>5. ASSUME NEW j \in Jobs, Record(j)
      PROVE  LogTrue'
  BY <1>2, <1>5 DEF Record, RecordKept, RecordLost
<1>6. ASSUME NEW j \in Jobs, Start(j)
      PROVE  LogTrue'
  BY <1>1, <1>6 DEF Start
<1>7. CASE Restart
  BY <1>1, <1>7 DEF Restart
<1> QED
  BY <1>3, <1>4, <1>5, <1>6, <1>7
  DEF Next, Organiser, Drain, Create, Append, LoseUpload, OpenChunk, HandOver, Deliver, GiveUp,
      OptOut, Lapse, memory, files, vars

(* The invariant of a resume and its reservation *)
Resumes == LogTrue /\ \A j \in Jobs : Repeats(j) /\ Returned(j)

LEMMA InitResumes == Init => Resumes
BY DEF Init, Resumes, LogTrue, Repeats, Returned, Blank, Terminal

LEMMA ResumesStep ==
  ASSUME ~DiskMayFail
  PROVE  IInv /\ Accounts /\ Resumes /\ [Next]_vars => Resumes'
<1> SUFFICES ASSUME IInv, Accounts, Resumes, [Next]_vars
             PROVE  Resumes'
  OBVIOUS
<1>1. TypeOK /\ Core /\ TypeOK' /\ FilesTrue
  BY StepType DEF IInv, Core
<1>2. LogTrue /\ \A k \in Jobs : Recorded(k) /\ Bounded(k) /\ Repeats(k) /\ Returned(k)
  BY DEF Accounts, Resumes
<1>3. LogTrue'
  BY <1>2, LogStep
<1>4. \A j \in Jobs : Repeats(j)' /\ Returned(j)'
  BY <1>1, <1>2, RepeatsStep, ReturnedStep
<1> QED
  BY <1>3, <1>4 DEF Resumes

LEMMA ResumesHold ==
  ASSUME ~DiskMayFail
  PROVE  Spec => []Resumes
BY InitResumes, ResumesStep, AccountsHold, Invariance, PTL DEF Spec

(* Wherever a job is cut, a resume repeats at most the chunk it was at, and  *)
(* nothing of a job that ran to its end (createJob's seed from sentHashes).  *)
THEOREM ResumeRepeatsAChunkHolds ==
  ASSUME ~DiskMayFail
  PROVE  Spec => []ResumeRepeatsAChunk
<1>1. IInv /\ Resumes => ResumeRepeatsAChunk
  <2> SUFFICES ASSUME IInv, Resumes, NEW j \in Jobs, job[j].resumeOf # NoJob
               PROVE  Cardinality(Mailed(j) \cap Mailed(job[j].resumeOf))
                        <= IF job[job[j].resumeOf].state = "completed" THEN 0 ELSE ChunkSize
    BY DEF ResumeRepeatsAChunk
  <2> DEFINE p == job[j].resumeOf
             Both == Mailed(j) \cap Mailed(p)
             Over == (Mailed(p) \ skip[j]) \cup Held(p)
  <2>1. /\ Cardinality(Over) <= ChunkSize /\ ChunkSize \in Nat
        /\ job[p].state = "completed" => Mailed(p) \subseteq skip[j]
        /\ Mailed(j) \cap skip[j] = {}
    BY SizesAssumption DEF Resumes, Repeats, IInv, SkipsRecorded
  <2>2. Both \in SUBSET Over /\ Over \in SUBSET Addrs
    BY <2>1 DEF IInv, TypeOK, Mailed, Held
  <2>3. job[p].state = "completed" => Both = {}
    BY <2>1
  <2> HIDE DEF p, Both, Over
  <2>4. Cardinality(Both) <= ChunkSize /\ Cardinality({}) = 0
    BY <2>1, <2>2, FewerIsLess, FS_EmptySet
  <2>5. Cardinality(Both) <= IF job[p].state = "completed" THEN 0 ELSE ChunkSize
    BY <2>3, <2>4
  <2> QED
    BY <2>5 DEF p, Both
<1> QED
  BY <1>1, Invariance, ResumesHold, PTL

(* A stopped job gives its unspent allowance back, however it was stopped    *)
(* (settleReservation, at cancel, sweep, shutdown and boot).                 *)
THEOREM ReservationReturnedHolds ==
  ASSUME ~DiskMayFail
  PROVE  Spec => []ReservationReturned
<1>1. Resumes => ReservationReturned
  BY DEF Resumes, Returned, ReservationReturned
<1> QED
  BY <1>1, ResumesHold, PTL

-----------------------------------------------------------------------------
(* The reservations and the mail of the day, while no write fails.           *)

(* Whom a job has mailed, or still mails, is among the recipients it         *)
(* accepted, and so are its chunks; a job that was never created mails none. *)
Within(j) ==
  /\ job[j].state = "none" => Mailed(j) = {}
  /\ job[j].sent \subseteq job[j].accepted
  /\ \A i \in ChunkIds : chunks[j][i] \subseteq job[j].accepted
  /\ Mailed(j) \cup Held(j) \subseteq job[j].accepted
  /\ Doing(j) \subseteq job[j].accepted

(* A started marketing job has all its recipients reserved, and one that is  *)
(* over what it sent; one that was cut mails at most a chunk more.           *)
Charged(j) ==
  job[j].kind = "marketing" =>
    /\ job[j].state \in {"queued", "running"} => log[j] = Cardinality(job[j].accepted)
    /\ job[j].state = "completed" => log[j] = Cardinality(job[j].sent)
    /\ job[j].state \in Terminal \ {"completed"} =>
         Cardinality(Mailed(j) \cup Held(j)) <= Reserved(j) + ChunkSize

WithinDay == SumFunction([j \in Jobs |-> Reserved(j)]) <= DailyCap

(* A set that is within a chunk of s is not much larger than it. *)
LEMMA AChunkMore ==
  ASSUME NEW M \in SUBSET Addrs, NEW H \in SUBSET Addrs, NEW s \in SUBSET Addrs,
         Cardinality((M \ s) \cup H) <= ChunkSize
  PROVE  Cardinality(M \cup H) <= Cardinality(s) + ChunkSize
<1> DEFINE Loose == (M \ s) \cup H
           Both == s \cup Loose
<1>1. /\ IsFiniteSet(s) /\ IsFiniteSet(Loose) /\ Both \in SUBSET Addrs
      /\ (M \cup H) \in SUBSET Both
  BY FS_Subset
<1>2. Cardinality(s) \in Nat /\ Cardinality(Loose) \in Nat /\ ChunkSize \in Nat
      /\ Cardinality(Loose) <= ChunkSize /\ Cardinality(s \cap Loose) \in Nat
  <2>1. s \in SUBSET Addrs /\ Loose \in SUBSET Addrs /\ s \cap Loose \in SUBSET Addrs
    OBVIOUS
  <2> QED
    BY <2>1, SizeIsNat
<1> HIDE DEF Loose
<1>3. Cardinality(Both) = Cardinality(s) + Cardinality(Loose) - Cardinality(s \cap Loose)
  BY <1>1, FS_Union
<1> HIDE DEF Both
<1>4. Cardinality(M \cup H) <= Cardinality(Both) /\ Cardinality(M \cup H) \in Nat
      /\ Cardinality(Both) \in Nat
  BY <1>1, FewerIsLess
<1> QED
  BY <1>2, <1>3, <1>4

(* Reserved is the entry of the log, or nothing. *)
LEMMA ReservedIs ==
  ASSUME TypeOK, NEW j \in Jobs
  PROVE  /\ Reserved(j) \in Nat
         /\ log[j] # NoEntry => Reserved(j) = log[j]
         /\ log[j] = NoEntry => Reserved(j) = 0
BY DEF TypeOK, Reserved

LEMMA WithinStep ==
  ASSUME ~DiskMayFail, TypeOK, TypeOK', Core, FilesTrue, [Next]_vars, NEW j \in Jobs, Within(j)
  PROVE  Within(j)'
<1> USE DEF Within
<1>n. j # NoJob
  BY JobsAssumption
<1>1. CASE Untouches(j)
  <2>1. /\ job'[j] = job[j] /\ chunks'[j] = chunks[j] /\ Mailed(j)' = Mailed(j)
        /\ Held(j)' \subseteq Held(j) /\ Doing(j)' \subseteq Doing(j)
    BY <1>1, SameMailed DEF Untouches, SameRest, Busy, Held, Doing
  <2> QED
    BY <2>1
<1>2. CASE Stops(j)
  <2>1. /\ job'[j].state \in Terminal /\ chunks'[j] = NoChunks
        /\ job'[j].sent = job[j].sent /\ job'[j].accepted = job[j].accepted
        /\ worker' = worker /\ mailed'[j] = mailed[j]
    BY <1>2 DEF Stops, Settles, SameButState, SameRest
  <2>2. Mailed(j)' = Mailed(j) /\ Held(j)' = Held(j) /\ Doing(j)' = Doing(j)
    BY <2>1, SameMailed DEF Held, Doing, Busy
  <2>3. job'[j].state # "none" /\ \A i \in ChunkIds : chunks'[j][i] = {}
    BY <2>1 DEF Terminal, NoChunks
  <2> QED
    BY <2>1, <2>2, <2>3
<1>3. CASE SendsOn(j)
  <2>1. /\ Busy(j) /\ worker'.job = j /\ job' = job /\ chunks' = chunks
        /\ worker'.left \cup worker'.flying \subseteq worker.left \cup worker.flying
    BY <1>3, SendsOnEach
  <2>2. PICK D \in SUBSET worker.flying :
          Mailed(j)' = Mailed(j) \cup D /\ worker'.sent = worker.sent \cup D
    BY <1>3, SendsOnEach
  <2>3. /\ Held(j)' \subseteq Held(j) /\ D \subseteq Held(j)
        /\ Doing(j)' = Doing(j) \cup D
    BY <2>1, <2>2 DEF Held, Doing, Busy
  <2>4. job[j].state # "none"
    BY <2>1, BusyStarted
  <2> QED
    BY <2>1, <2>2, <2>3, <2>4
<1>4. ASSUME NEW kind \in Kinds, NEW p \in Jobs \cup {NoJob}, Create(j, kind, p)
      PROVE  Within(j)'
  <2>1. /\ Mailed(j) = {} /\ ~Busy(j) /\ chunks[j] = NoChunks
        /\ job'[j].state = "draft" /\ job'[j].accepted = {} /\ job'[j].sent = {}
        /\ UNCHANGED <<chunks, worker, mailed>>
    BY <1>4, CreateEach
  <2>2. Mailed(j)' = {} /\ Held(j)' = {} /\ Doing(j)' = {}
    BY <2>1, SameMailed DEF Held, Doing, Busy
  <2>3. \A i \in ChunkIds : chunks'[j][i] = {}
    BY <2>1 DEF NoChunks
  <2> QED
    BY <2>1, <2>2, <2>3
<1>5. ASSUME NEW S \in Uploads, Append(j, S)
      PROVE  Within(j)'
  <2> DEFINE fresh == S \ seen[j]
  <2>0. Appends(j, S)
    BY <1>5, AppendEach
  <2>1. /\ Mailed(j) = {} /\ ~Busy(j) /\ worker' = worker /\ mailed' = mailed
        /\ job'[j].state = "draft" /\ job'[j].sent = job[j].sent
        /\ job'[j].accepted = job[j].accepted \cup fresh
    BY <2>0 DEF Appends
  <2>2. /\ job[j].chunkCount \in ChunkIds
        /\ chunks'[j] = IF fresh = {} THEN chunks[j]
                        ELSE [chunks[j] EXCEPT ![job[j].chunkCount] = fresh]
    BY <2>0 DEF Appends
  <2>3. Mailed(j)' = {} /\ Held(j)' = {} /\ Doing(j)' = {}
    BY <2>1, SameMailed DEF Held, Doing, Busy
  <2>4. \A i \in ChunkIds : chunks'[j][i] = chunks[j][i] \/ chunks'[j][i] = fresh
    BY <2>2 DEF TypeOK
  <2> HIDE DEF fresh
  <2> QED
    BY <2>1, <2>3, <2>4
<1>6. ASSUME NEW S \in Uploads, LoseUpload(j, S)
      PROVE  Within(j)'
  <2>1. UNCHANGED <<job, chunks, worker, mailed>>
    BY <1>6, LoseEach
  <2> QED
    BY <2>1 DEF Mailed, Held, Doing, Busy
<1>7. CASE Start(j)
  <2>1. /\ job'[j].state = "queued" /\ job'[j].accepted = job[j].accepted
        /\ job'[j].sent = job[j].sent /\ UNCHANGED <<chunks, worker, mailed>>
    BY <1>7, StartEach
  <2>2. Mailed(j)' = Mailed(j) /\ Held(j)' = Held(j) /\ Doing(j)' = Doing(j)
    BY <2>1, SameMailed DEF Held, Doing, Busy
  <2> QED
    BY <2>1, <2>2
<1>8. CASE OpenChunk(j)
  <2>1. /\ worker'.job = j /\ worker'.flying = {} /\ worker'.sent = {}
        /\ job[j].state \in {"queued", "running"}
        /\ job[j].nextChunk \in ChunkIds
        /\ worker'.left \subseteq chunks[j][job[j].nextChunk]
        /\ UNCHANGED <<job, chunks, mailed>>
    BY <1>8, OpenEach
  <2>2. /\ Mailed(j)' = Mailed(j) /\ Doing(j)' = {}
        /\ Held(j)' \subseteq chunks[j][job[j].nextChunk]
    BY <2>1, SameMailed DEF Held, Doing, Busy
  <2> QED
    BY <2>1, <2>2
<1>9. CASE Record(j)
  <2> DEFINE rec == Drained(j)
  <2>1. /\ rec.accepted = job[j].accepted /\ rec.sent = job[j].sent \cup worker.sent
        /\ rec.state = IF job[j].state = "queued" THEN "running" ELSE job[j].state
    BY DrainedRecord
  <2>2. Busy(j) /\ worker' = Idle /\ SameRest(j)
    BY <1>9, RecordEach
  <2>3. \/ /\ job'[j] = rec
           /\ chunks'[j] = [chunks[j] EXCEPT ![job[j].nextChunk] = {}]
        \/ Settles(j, rec, rec, "died")
        \/ Settles(j, rec, rec, "completed")
    BY <1>9, RecordEach
  <2>4. /\ Mailed(j)' = Mailed(j) /\ Held(j)' = {} /\ Doing(j)' = {}
        /\ worker.sent = Doing(j) /\ job[j].state # "none"
    BY <2>2, IdleHasNone, SameMailed, BusyStarted DEF SameRest, Held, Doing
  <2> HIDE DEF rec
  <2>5. job'[j].sent = rec.sent /\ job'[j].accepted = rec.accepted /\ job'[j].state # "none"
    BY <2>1, <2>3, <2>4 DEF Settles, SameButState
  <2>6. \A i \in ChunkIds : chunks'[j][i] = chunks[j][i] \/ chunks'[j][i] = {}
    BY <2>3 DEF Settles, NoChunks, TypeOK
  <2> QED
    BY <2>1, <2>4, <2>5, <2>6
<1>10. CASE Restart
  <2>1. /\ disk[j] = job[j] /\ SameButState(job'[j], disk[j]) /\ chunks'[j] = NoChunks
        /\ disk[j].state \notin Live => job'[j] = disk[j]
        /\ disk[j].state \in Live => job'[j].state = "died"
        /\ worker' = Idle /\ SameRest(j)
    BY <1>10, RestartEach DEF FilesTrue
  <2>2. Mailed(j)' = Mailed(j) /\ Held(j)' = {} /\ Doing(j)' = {}
    BY <2>1, IdleHasNone, SameMailed DEF SameRest, Held, Doing
  <2>3. \A i \in ChunkIds : chunks'[j][i] = {}
    BY <2>1 DEF NoChunks
  <2>4. /\ job'[j].sent = job[j].sent /\ job'[j].accepted = job[j].accepted
        /\ job'[j].state = "none" => job[j].state = "none"
    BY <2>1 DEF SameButState
  <2> QED
    BY <2>2, <2>3, <2>4
<1> QED
  BY <1>1, <1>2, <1>3, <1>4, <1>5, <1>6, <1>7, <1>8, <1>9, <1>10, StepEach

(* What a step does to the entry of one job: it stays, the start of a        *)
(* marketing job makes it, and the end of a started one leaves what it sent. *)
EntryMoves(j) ==
  /\ \/ log'[j] = log[j]
     \/ Start(j) /\ job[j].kind = "marketing" /\ log'[j] = Cardinality(job[j].accepted)
     \/ /\ job[j].kind = "marketing" /\ job[j].state \in {"queued", "running"}
        /\ job'[j].state \in Terminal
  /\ /\ job[j].kind = "marketing" /\ job[j].state \in {"queued", "running"}
     /\ job'[j].state \in Terminal
     => log'[j] = Cardinality(job'[j].sent)

LEMMA EntryStep ==
  ASSUME ~DiskMayFail, TypeOK, Core, FilesTrue, LogTrue, [Next]_vars, NEW j \in Jobs,
         Charged(j), Returned(j)
  PROVE  EntryMoves(j)
<1> USE DEF EntryMoves
<1>t. /\ job[j].kind = "marketing" /\ job[j].state \in {"queued", "running"}
           => log[j] # NoEntry /\ job[j].reserved
      /\ log[j] # NoEntry => job[j].kind = "marketing" /\ job[j].state \notin {"none", "draft"}
      /\ \A st \in Terminal : st \notin {"draft", "queued", "running"}
      /\ Live = {"draft", "queued", "running"}
  <2>1. job[j].kind = "marketing" /\ job[j].state \in {"queued", "running"}
          => log[j] \in Nat
    <3>1. Cardinality(job[j].accepted) \in Nat
      BY JobFields, SizeIsNat DEF TypeOK
    <3> QED
      BY <3>1 DEF Charged
  <2>2. NoEntry \notin Nat
    BY DEF NoEntry
  <2> QED
    BY <2>1, <2>2 DEF Returned, Terminal, Live
<1>s. ASSUME NEW r, job'[j].sent = r.sent, log'[j] = Settled(j, r, log),
             r.kind = job[j].kind, r.reserved = job[j].reserved,
             job'[j].state \in Terminal, job[j].state \in Live
      PROVE  EntryMoves(j)
  <2>1. \/ log'[j] = log[j]
        \/ log'[j] = Cardinality(r.sent) /\ log[j] # NoEntry
    BY <1>s DEF Settled
  <2>2. job[j].kind = "marketing" /\ job[j].state \in {"queued", "running"}
          => log'[j] = Cardinality(r.sent)
    BY <1>s, <1>t DEF Settled
  <2>3. log[j] # NoEntry => job[j].kind = "marketing" /\ job[j].state \in {"queued", "running"}
    BY <1>s, <1>t
  <2> QED
    BY <1>s, <2>1, <2>2, <2>3
<1>1. CASE Untouches(j)
  <2>1. job'[j] = job[j] /\ log'[j] = log[j]
    BY <1>1 DEF Untouches
  <2> QED
    BY <2>1, <1>t
<1>2. CASE Stops(j)
  <2>1. /\ job[j].state \in Live /\ job'[j].state \in Terminal
        /\ job'[j].sent = job[j].sent /\ log'[j] = Settled(j, job[j], log)
    BY <1>2 DEF Stops, Settles, SameButState
  <2> QED
    BY <2>1, <1>s
<1>3. CASE SendsOn(j)
  <2>1. job' = job /\ log' = log
    BY <1>3, SendsOnEach
  <2> QED
    BY <2>1, <1>t
<1>4. ASSUME NEW kind \in Kinds, NEW p \in Jobs \cup {NoJob}, Create(j, kind, p)
      PROVE  EntryMoves(j)
  <2>1. log' = log /\ job'[j].state = "draft"
    BY <1>4, CreateEach
  <2> QED
    BY <2>1, <1>t
<1>5. ASSUME NEW S \in Uploads, Append(j, S)
      PROVE  EntryMoves(j)
  <2>1. Appends(j, S)
    BY <1>5, AppendEach
  <2>2. log' = log /\ job'[j].state = "draft"
    BY <2>1 DEF Appends
  <2> QED
    BY <2>2, <1>t
<1>6. ASSUME NEW S \in Uploads, LoseUpload(j, S)
      PROVE  EntryMoves(j)
  <2>1. log' = log /\ job' = job
    BY <1>6, LoseEach
  <2> QED
    BY <2>1, <1>t
<1>7. CASE Start(j)
  <2>1. /\ job'[j].state = "queued"
        /\ log'[j] = IF job[j].kind = "marketing" THEN Cardinality(job[j].accepted) ELSE log[j]
    BY <1>7, StartEach
  <2> QED
    BY <1>7, <2>1, <1>t
<1>8. CASE OpenChunk(j)
  <2>1. job' = job /\ log' = log
    BY <1>8, OpenEach
  <2> QED
    BY <2>1, <1>t
<1>9. CASE Record(j)
  <2> DEFINE rec == Drained(j)
  <2>1. /\ rec.kind = job[j].kind /\ rec.reserved = job[j].reserved
        /\ rec.state = IF job[j].state = "queued" THEN "running" ELSE job[j].state
    BY DrainedRecord
  <2>2. /\ Busy(j)
        /\ \/ log'[j] = log[j] /\ job'[j] = rec
           \/ /\ ~Stopped(j)
              /\ Settles(j, rec, rec, "died") \/ Settles(j, rec, rec, "completed")
    BY <1>9, RecordEach
  <2>3. ~Stopped(j) => job[j].state \in Live
    <3>1. job[j] \in Job /\ job[j].state # "none"
      BY <2>2, BusyStarted DEF TypeOK
    <3> QED
      BY <3>1, JobFields DEF Stopped
  <2>4. "died" \in Terminal /\ "completed" \in Terminal
    BY DEF Terminal
  <2> HIDE DEF rec
  <2>5. CASE log'[j] = log[j] /\ job'[j] = rec
    BY <2>1, <2>5, <1>t
  <2>6. CASE ~Stopped(j) /\ (Settles(j, rec, rec, "died") \/ Settles(j, rec, rec, "completed"))
    <3>1. /\ job'[j].sent = rec.sent /\ log'[j] = Settled(j, rec, log)
          /\ job'[j].state \in Terminal
      BY <2>4, <2>6 DEF Settles, SameButState
    <3> QED
      BY <2>1, <2>3, <2>6, <3>1, <1>s
  <2> QED
    BY <2>2, <2>5, <2>6
<1>10. CASE Restart
  <2>1. /\ disk[j] = job[j] /\ logDisk = log
    BY DEF FilesTrue, LogTrue
  <2>2. /\ SameButState(job'[j], job[j])
        /\ job[j].state \notin Live => job'[j] = job[j]
        /\ job[j].state \in Live => job'[j].state = "died"
        /\ log'[j] = IF job[j].state \in Live THEN Settled(j, job[j], log) ELSE log[j]
    BY <1>10, <2>1, RestartEach
  <2>3. CASE job[j].state \notin Live
    BY <2>2, <2>3, <1>t
  <2>4. CASE job[j].state \in Live
    <3>1. "died" \in Terminal /\ job'[j].sent = job[j].sent
      BY <2>2 DEF Terminal, SameButState
    <3> QED
      BY <2>2, <2>4, <3>1, <1>s
  <2> QED
    BY <2>3, <2>4
<1> QED
  BY <1>1, <1>2, <1>3, <1>4, <1>5, <1>6, <1>7, <1>8, <1>9, <1>10, StepEach

(* How the state of a job may change: it is created, filled, started, sent   *)
(* and over; a record with all its recipients is what makes it complete.     *)
LEMMA StateStep ==
  ASSUME ~DiskMayFail, TypeOK, Core, FilesTrue, [Next]_vars, NEW j \in Jobs
  PROVE  /\ job'[j].kind = job[j].kind \/ job'[j].state = "draft"
         /\ job'[j].state = "queued" /\ job[j].state # "queued" => Start(j)
         /\ job'[j].state = "running" => job[j].state \in {"queued", "running"}
         /\ job'[j].state = "completed" /\ job[j].state # "completed"
              => job[j].state \in {"queued", "running"}
         /\ job'[j].state \in Terminal /\ job[j].state \notin Terminal
              => job[j].state \in Live
         /\ job[j].state \in {"queued", "running"} => job'[j].accepted = job[j].accepted
<1>s. /\ "died" \in Terminal /\ "completed" \in Terminal
      /\ \A st \in Terminal : st \notin Live \cup {"none", "draft", "queued", "running"}
      /\ Live = {"draft", "queued", "running"}
  BY DEF Terminal, Live
<1>1. CASE Untouches(j)
  BY <1>1, <1>s DEF Untouches
<1>2. CASE Stops(j)
  <2>1. /\ job[j].state \in Live /\ job'[j].kind = job[j].kind
        /\ job'[j].accepted = job[j].accepted
        /\ job'[j].state \in Terminal \ {"completed"}
    BY <1>2 DEF Stops, Settles, SameButState
  <2> QED
    BY <2>1, <1>s
<1>3. CASE SendsOn(j)
  <2>1. job' = job
    BY <1>3, SendsOnEach
  <2> QED
    BY <2>1, <1>s
<1>4. ASSUME NEW kind \in Kinds, NEW p \in Jobs \cup {NoJob}, Create(j, kind, p)
      PROVE  job[j].state = "none" /\ job'[j].state = "draft"
  BY <1>4, CreateEach
<1>5. ASSUME NEW S \in Uploads, Append(j, S)
      PROVE  job[j].state = "draft" /\ job'[j].state = "draft"
  <2>1. Appends(j, S)
    BY <1>5, AppendEach
  <2> QED
    BY <2>1 DEF Appends
<1>6. ASSUME NEW S \in Uploads, LoseUpload(j, S)
      PROVE  job' = job
  BY <1>6, LoseEach
<1>7. CASE Start(j)
  <2>1. job[j].state = "draft" /\ job'[j].state = "queued" /\ job'[j].kind = job[j].kind
    BY <1>7, StartEach
  <2> QED
    BY <1>7, <2>1, <1>s
<1>8. CASE OpenChunk(j)
  <2>1. job' = job
    BY <1>8, OpenEach
  <2> QED
    BY <2>1, <1>s
<1>9. CASE Record(j)
  <2> DEFINE rec == Drained(j)
  <2>1. /\ rec.kind = job[j].kind /\ rec.accepted = job[j].accepted
        /\ rec.state = IF job[j].state = "queued" THEN "running" ELSE job[j].state
    BY DrainedRecord
  <2>2. /\ Busy(j)
        /\ \/ job'[j] = rec
           \/ /\ ~Stopped(j)
              /\ Settles(j, rec, rec, "died") \/ Settles(j, rec, rec, "completed")
    BY <1>9, RecordEach
  <2>3. ~Stopped(j) => job[j].state \in {"queued", "running"}
    <3>1. job[j] \in Job /\ job[j].state \notin {"none", "draft"}
      BY <2>2, BusyStarted DEF TypeOK
    <3> QED
      BY <3>1, <1>s, JobFields DEF Stopped
  <2> HIDE DEF rec
  <2>4. CASE job'[j] = rec
    <3>1. job[j].state # "draft" /\ job[j].state # "none"
      BY <2>2, BusyStarted
    <3> QED
      BY <2>1, <2>4, <3>1, <1>s
  <2>5. CASE ~Stopped(j) /\ (Settles(j, rec, rec, "died") \/ Settles(j, rec, rec, "completed"))
    <3>1. /\ job'[j].state \in {"died", "completed"} /\ job'[j].kind = rec.kind
          /\ job'[j].accepted = rec.accepted
      BY <2>5 DEF Settles, SameButState
    <3> QED
      BY <2>1, <2>3, <2>5, <3>1, <1>s
  <2> QED
    BY <2>2, <2>4, <2>5
<1>10. CASE Restart
  <2>1. /\ job'[j].kind = job[j].kind /\ job'[j].accepted = job[j].accepted
        /\ job[j].state \notin Live => job'[j] = job[j]
        /\ job[j].state \in Live => job'[j].state = "died"
    BY <1>10, RestartEach DEF FilesTrue, SameButState
  <2> QED
    BY <2>1, <1>s
<1> QED
  BY <1>1, <1>2, <1>3, <1>4, <1>5, <1>6, <1>7, <1>8, <1>9, <1>10, <1>s, StepEach

(* The record of a job that is over is kept, but for the worker's chunk.     *)
LEMMA CompletedKept ==
  ASSUME ~DiskMayFail, TypeOK, Core, FilesTrue, [Next]_vars, NEW j \in Jobs, Recorded(j),
         job[j].state = "completed"
  PROVE  job'[j].sent = job[j].sent
<1>s. job[j].state \notin Live \cup {"none", "queued", "running", "draft"} /\ ~Busy(j)
  BY DEF Live, Recorded
<1>1. CASE Untouches(j)
  BY <1>1 DEF Untouches
<1>2. ~Stops(j) /\ ~SendsOn(j) /\ ~Start(j) /\ ~OpenChunk(j) /\ ~Record(j)
  BY <1>s DEF Stops, SendsOn, Start, OpenChunk, Turn, Pool, Runnable, Record
<1>3. ASSUME NEW kind \in Kinds, NEW q \in Jobs \cup {NoJob}, Create(j, kind, q)
      PROVE  FALSE
  BY <1>3, <1>s DEF Create
<1>4. ASSUME NEW S \in Uploads, Append(j, S) \/ LoseUpload(j, S)
      PROVE  FALSE
  BY <1>4, <1>s DEF Append, LoseUpload
<1>5. CASE Restart
  <2>1. job'[j] = disk[j] /\ disk[j] = job[j]
    BY <1>5, <1>s, RestartEach DEF FilesTrue
  <2> QED
    BY <2>1
<1> QED
  BY <1>1, <1>2, <1>3, <1>4, <1>5, StepEach

(* A draft that ends has mailed nobody, and the worker has none of it.       *)
LEMMA DraftEndsUnsent ==
  ASSUME ~DiskMayFail, TypeOK, Core, FilesTrue, [Next]_vars, NEW j \in Jobs,
         job[j].state = "draft", job'[j].state \in Terminal, Mailed(j) = {}, ~Busy(j)
  PROVE  Mailed(j)' = {} /\ Held(j)' = {}
<1>s. \A st \in Terminal : st # "draft" /\ st # "queued"
  BY DEF Terminal
<1>1. CASE Untouches(j)
  BY <1>1, <1>s DEF Untouches
<1>2. CASE Stops(j)
  <2>1. worker' = worker /\ mailed'[j] = mailed[j]
    BY <1>2 DEF Stops, SameRest
  <2> QED
    BY <2>1, SameMailed DEF Held, Busy
<1>3. ~SendsOn(j) /\ ~Record(j)
  BY DEF SendsOn, Record
<1>4. ASSUME NEW kind \in Kinds, NEW p \in Jobs \cup {NoJob}, Create(j, kind, p)
      PROVE  FALSE
  BY <1>4 DEF Create
<1>5. ASSUME NEW S \in Uploads, Append(j, S)
      PROVE  FALSE
  <2>1. Appends(j, S)
    BY <1>5, AppendEach
  <2> QED
    BY <2>1, <1>s DEF Appends
<1>6. ASSUME NEW S \in Uploads, LoseUpload(j, S)
      PROVE  FALSE
  BY <1>6, <1>s, LoseEach
<1>7. ~Start(j)
  BY <1>s, StartEach
<1>8. ~OpenChunk(j)
  BY OpenEach
<1>9. CASE Restart
  <2>1. worker' = Idle /\ SameRest(j)
    BY <1>9, RestartEach
  <2> QED
    BY <2>1, SameMailed, IdleHasNone DEF SameRest, Held
<1> QED
  BY <1>1, <1>2, <1>3, <1>4, <1>5, <1>6, <1>7, <1>8, <1>9, StepEach

LEMMA ChargedStep ==
  ASSUME ~DiskMayFail, TypeOK, TypeOK', Core, FilesTrue, FilesTrue', LogTrue, [Next]_vars,
         NEW j \in Jobs, Charged(j), Returned(j), Recorded(j), Bounded(j)', Within(j),
         Returned(j)', Recorded(j)'
  PROVE  Charged(j)'
<1>s. \A st \in Terminal : st \notin Live \cup {"none", "draft", "queued", "running"}
  BY DEF Terminal, Live
<1>t. /\ Reserved(j) \in Nat /\ Reserved(j)' \in Nat /\ ChunkSize \in Nat
      /\ log'[j] # NoEntry => Reserved(j)' = log'[j]
      /\ log'[j] = log[j] => Reserved(j)' = Reserved(j)
      /\ Mailed(j)' \in SUBSET Addrs /\ Held(j)' \in SUBSET Addrs
      /\ Mailed(j) \in SUBSET Addrs /\ Held(j) \in SUBSET Addrs
      /\ job[j] \in Job /\ job'[j] \in Job
  BY SizesAssumption DEF TypeOK, Reserved, Mailed, Held
<1>u. Cardinality(job'[j].sent) \in Nat /\ NoEntry \notin Nat /\ job'[j].sent \in SUBSET Addrs
  BY <1>t, JobFields, SizeIsNat DEF NoEntry
<1>1. SUFFICES ASSUME job'[j].kind = "marketing", job'[j].state # "draft"
               PROVE  /\ job'[j].state \in {"queued", "running"}
                           => log'[j] = Cardinality(job'[j].accepted)
                      /\ job'[j].state = "completed" => log'[j] = Cardinality(job'[j].sent)
                      /\ job'[j].state \in Terminal \ {"completed"} =>
                           Cardinality(Mailed(j)' \cup Held(j)') <= Reserved(j)' + ChunkSize
  <2>1. job'[j].state = "draft" => job'[j].state \notin {"queued", "running", "completed"}
                                   /\ job'[j].state \notin Terminal
    BY <1>s
  <2> QED
    BY <2>1 DEF Charged, Mailed, Held, Reserved, Busy
<1>2. /\ job[j].kind = "marketing"
      /\ job'[j].state = "queued" /\ job[j].state # "queued" => Start(j)
      /\ job'[j].state = "running" => job[j].state \in {"queued", "running"}
      /\ job'[j].state = "completed" /\ job[j].state # "completed"
           => job[j].state \in {"queued", "running"}
      /\ job'[j].state \in Terminal /\ job[j].state \notin Terminal => job[j].state \in Live
      /\ job[j].state \in {"queued", "running"} => job'[j].accepted = job[j].accepted
  BY <1>1, StateStep
<1>3. /\ \/ log'[j] = log[j]
         \/ Start(j) /\ log'[j] = Cardinality(job[j].accepted)
         \/ job[j].state \in {"queued", "running"} /\ job'[j].state \in Terminal
      /\ job[j].state \in {"queued", "running"} /\ job'[j].state \in Terminal
           => log'[j] = Cardinality(job'[j].sent)
  BY <1>2, EntryStep DEF EntryMoves
<1>4. Start(j) => /\ job[j].state = "draft" /\ job'[j].state = "queued"
                  /\ job'[j].accepted = job[j].accepted
                  /\ log'[j] = Cardinality(job[j].accepted)
  BY <1>2, StartEach
<1>5. ASSUME job'[j].state \in {"queued", "running"}
      PROVE  log'[j] = Cardinality(job'[j].accepted)
  BY <1>2, <1>3, <1>4, <1>5, <1>s DEF Charged
<1>6. ASSUME job'[j].state = "completed"
      PROVE  log'[j] = Cardinality(job'[j].sent)
  <2>1. CASE job[j].state = "completed"
    <3>1. job'[j].sent = job[j].sent
      BY <2>1, CompletedKept
    <3>2. log'[j] = log[j]
      BY <1>3, <1>4, <2>1
    <3> QED
      BY <1>2, <2>1, <3>1, <3>2 DEF Charged
  <2>2. CASE job[j].state # "completed"
    <3>1. "completed" \in Terminal
      BY DEF Terminal
    <3> QED
      BY <1>2, <1>3, <1>6, <2>2, <3>1
  <2> QED
    BY <2>1, <2>2
<1>7. ASSUME job'[j].state \in Terminal \ {"completed"}
      PROVE  Cardinality(Mailed(j)' \cup Held(j)') <= Reserved(j)' + ChunkSize
  <2>1. CASE job[j].state \in Terminal
    <3>1. /\ job'[j].state = job[j].state /\ Held(j)' \subseteq Held(j)
          /\ Mailed(j)' \subseteq Mailed(j) \cup Held(j)
      BY <2>1, OverStep
    <3>2. Cardinality(Mailed(j) \cup Held(j)) <= Reserved(j) + ChunkSize
      BY <1>2, <1>7, <2>1, <3>1 DEF Charged
    <3>3. Reserved(j)' = Reserved(j)
      <4>1. ~Start(j) /\ job[j].state \notin {"queued", "running"}
        BY <1>4, <1>s, <2>1
      <4> QED
        BY <1>3, <1>t, <4>1
    <3> DEFINE Was == Mailed(j) \cup Held(j)
               Is == Mailed(j)' \cup Held(j)'
    <3>4. Is \in SUBSET Was /\ Was \in SUBSET Addrs
      BY <1>t, <3>1
    <3>5. Cardinality(Was) <= Reserved(j) + ChunkSize
      BY <3>2
    <3> HIDE DEF Was, Is
    <3>6. Cardinality(Is) <= Cardinality(Was) /\ Cardinality(Is) \in Nat /\ Cardinality(Was) \in Nat
      BY <3>4, FewerIsLess
    <3>7. Cardinality(Is) <= Reserved(j)' + ChunkSize
      BY <1>t, <3>3, <3>5, <3>6
    <3> QED
      BY <3>7 DEF Is
  <2>2. CASE job[j].state \in {"queued", "running"}
    <3>1. log'[j] = Cardinality(job'[j].sent) /\ Reserved(j)' = Cardinality(job'[j].sent)
      BY <1>3, <1>7, <1>t, <1>u, <2>2
    <3>2. Cardinality((Mailed(j)' \ job'[j].sent) \cup Held(j)') <= ChunkSize
      <4>1. Cardinality((Mailed(j)' \ disk'[j].sent) \cup Held(j)') <= ChunkSize
        BY DEF Bounded, Mailed, Held, Busy
      <4>2. disk'[j] = job'[j]
        BY DEF FilesTrue
      <4> QED
        BY <4>1, <4>2
    <3> QED
      BY <1>t, <1>u, <3>1, <3>2, AChunkMore
  <2>3. CASE job[j].state = "draft"
    <3>1. Mailed(j) = {} /\ ~Busy(j)
      BY <2>3, BusyStarted DEF Core, Untouched, Mailed
    <3>2. Mailed(j)' = {} /\ Held(j)' = {}
      BY <1>7, <2>3, <3>1, DraftEndsUnsent
    <3>3. Cardinality({}) = 0
      BY FS_EmptySet
    <3> QED
      BY <1>t, <3>2, <3>3
  <2> QED
    BY <1>2, <1>7, <2>1, <2>2, <2>3 DEF Live
<1> QED
  BY <1>5, <1>6, <1>7

(* A reservation only shrinks, but for the start of a marketing job, which   *)
(* was let through because the rest of the day allowed for it.               *)
LEMMA ReservedStep ==
  ASSUME ~DiskMayFail, TypeOK, TypeOK', Core, FilesTrue, LogTrue, [Next]_vars, NEW j \in Jobs,
         Charged(j), Returned(j), Within(j)'
  PROVE  \/ Reserved(j)' <= Reserved(j)
         \/ /\ Start(j) /\ job[j].kind = "marketing"
            /\ Reserved(j)' = Cardinality(job[j].accepted)
<1>t. /\ Reserved(j) \in Nat /\ Reserved(j)' \in Nat
      /\ log[j] # NoEntry => Reserved(j) = log[j]
      /\ log'[j] # NoEntry => Reserved(j)' = log'[j]
      /\ log'[j] = log[j] => Reserved(j)' = Reserved(j)
      /\ job[j] \in Job /\ job'[j] \in Job
  BY DEF TypeOK, Reserved
<1>n. \A n \in Nat : n # NoEntry
  BY DEF NoEntry
<1>1. CASE log'[j] = log[j]
  BY <1>1, <1>t
<1>2. CASE /\ Start(j) /\ job[j].kind = "marketing"
           /\ log'[j] = Cardinality(job[j].accepted)
  <2>1. Cardinality(job[j].accepted) \in Nat
    BY <1>t, JobFields, SizeIsNat
  <2> QED
    BY <1>2, <1>n, <1>t, <2>1
<1>3. CASE /\ job[j].kind = "marketing" /\ job[j].state \in {"queued", "running"}
           /\ job'[j].state \in Terminal /\ log'[j] = Cardinality(job'[j].sent)
  <2>1. log[j] = Cardinality(job[j].accepted) /\ job'[j].accepted = job[j].accepted
    BY <1>3, StateStep DEF Charged
  <2>2. job'[j].sent \in SUBSET job[j].accepted /\ job[j].accepted \in SUBSET Addrs
    BY <1>t, <2>1, JobFields DEF Within
  <2>3. /\ Cardinality(job'[j].sent) \in Nat /\ Cardinality(job[j].accepted) \in Nat
        /\ Cardinality(job'[j].sent) <= Cardinality(job[j].accepted)
    BY <2>2, FewerIsLess
  <2> QED
    BY <1>3, <1>n, <1>t, <2>1, <2>3
<1> QED
  BY <1>1, <1>2, <1>3, EntryStep DEF EntryMoves

(* The reservations of the day stay within the cap. *)
LEMMA WithinDayStep ==
  ASSUME ~DiskMayFail, TypeOK, TypeOK', Core, FilesTrue, LogTrue, [Next]_vars, WithinDay,
         \A j \in Jobs : Charged(j) /\ Returned(j) /\ Within(j)'
  PROVE  WithinDay'
<1> DEFINE F == [k \in Jobs |-> Reserved(k)]
           G == [k \in Jobs |-> Reserved(k)']
<1>0. /\ IsFiniteSet(Jobs) /\ DailyCap \in Nat
      /\ \A k \in Jobs : F[k] \in Int /\ G[k] \in Int
                         /\ F[k] = Reserved(k) /\ G[k] = Reserved(k)' /\ F[k] >= 0
  BY JobsAssumption, SizesAssumption DEF TypeOK, Reserved
<1>1. /\ WithinDay <=> SumFunctionOnSet(F, Jobs) <= DailyCap
      /\ WithinDay' <=> SumFunctionOnSet(G, Jobs) <= DailyCap
  BY DEF WithinDay, SumFunction
<1>2. SumFunctionOnSet(F, Jobs) \in Int /\ SumFunctionOnSet(G, Jobs) \in Int
  <2> HIDE DEF F, G
  <2> QED
    BY <1>0, SumIsInt
<1>3. CASE \A k \in Jobs : Reserved(k)' <= Reserved(k)
  <2>1. \A k \in Jobs : G[k] \in Int /\ F[k] \in Int /\ G[k] <= F[k]
    BY <1>0, <1>3
  <2> HIDE DEF F, G
  <2>2. SumFunctionOnSet(G, Jobs) <= SumFunctionOnSet(F, Jobs)
    BY <1>0, <2>1, SumGrowsWith
  <2> QED
    BY <1>0, <1>1, <1>2, <2>2
<1>4. ASSUME NEW j \in Jobs, Start(j), job[j].kind = "marketing",
             Reserved(j)' = Cardinality(job[j].accepted)
      PROVE  WithinDay'
  <2>1. /\ Cardinality(job[j].accepted) <= Remaining
        /\ log' = [log EXCEPT ![j] = Cardinality(job[j].accepted)]
    BY <1>4 DEF Start
  <2>2. Remaining = DailyCap - SumFunctionOnSet(F, Jobs)
    BY DEF Remaining, SumFunction
  <2>3. \A k \in Jobs : k # j => F[k] = G[k]
    BY <2>1 DEF Reserved, TypeOK
  <2>4. G[j] = Cardinality(job[j].accepted) /\ F[j] \in Int /\ G[j] \in Int /\ F[j] >= 0
    BY <1>0, <1>4
  <2> HIDE DEF F, G
  <2>5. SumFunctionOnSet(G, Jobs) = SumFunctionOnSet(F, Jobs) + G[j] - F[j]
    BY <1>0, <2>3, SumChanges
  <2> QED
    BY <1>0, <1>1, <1>2, <2>1, <2>2, <2>4, <2>5
<1> QED
  BY <1>3, <1>4, ReservedStep

(* The invariant of the day. *)
Days == WithinDay /\ \A j \in Jobs : Within(j) /\ Charged(j)

LEMMA InitDays == Init => Days
<1> SUFFICES ASSUME Init
             PROVE  Days
  OBVIOUS
<1>1. \A j \in Jobs : Within(j) /\ Charged(j)
  <2> TAKE j \in Jobs
  <2>1. /\ job[j] = Blank /\ Mailed(j) = {} /\ worker = Idle
        /\ \A i \in ChunkIds : chunks[j][i] = {}
    BY DEF Init, Mailed
  <2>2. ~Busy(j)
    BY <2>1, JobsAssumption DEF Idle, Busy
  <2> QED
    BY <2>1, <2>2 DEF Within, Charged, Blank, Held, Doing
<1>2. WithinDay
  <2> DEFINE F == [k \in Jobs |-> Reserved(k)]
  <2>1. \A k \in Jobs : F[k] = 0
    BY DEF Init, Reserved
  <2>2. WithinDay <=> SumFunctionOnSet(F, Jobs) <= DailyCap
    BY DEF WithinDay, SumFunction
  <2> HIDE DEF F
  <2>3. SumFunctionOnSet(F, Jobs) = 0
    BY <2>1, JobsAssumption, SumOfNoughts
  <2> QED
    BY <2>2, <2>3, SizesAssumption
<1> QED
  BY <1>1, <1>2 DEF Days

LEMMA DaysStep ==
  ASSUME ~DiskMayFail
  PROVE  /\ IInv /\ Accounts /\ Resumes /\ Days /\ [Next]_vars
         /\ IInv' /\ Accounts' /\ Resumes'
         => Days'
<1> SUFFICES ASSUME IInv, Accounts, Resumes, Days, [Next]_vars, IInv', Accounts', Resumes'
             PROVE  Days'
  OBVIOUS
<1>1. TypeOK /\ Core /\ FilesTrue /\ TypeOK' /\ FilesTrue'
  BY DEF IInv, Core
<1>2. /\ LogTrue /\ WithinDay
      /\ \A k \in Jobs : Recorded(k) /\ Returned(k) /\ Within(k) /\ Charged(k)
  BY DEF Accounts, Resumes, Days
<1>3. \A k \in Jobs : Recorded(k)' /\ Bounded(k)' /\ Returned(k)'
  BY DEF Accounts, Resumes
<1>4. \A k \in Jobs : Within(k)'
  BY <1>1, <1>2, WithinStep
<1>5. \A k \in Jobs : Charged(k)'
  BY <1>1, <1>2, <1>3, ChargedStep
<1>6. WithinDay'
  BY <1>1, <1>2, <1>4, WithinDayStep
<1> QED
  BY <1>4, <1>5, <1>6 DEF Days

LEMMA DaysHold ==
  ASSUME ~DiskMayFail
  PROVE  Spec => []Days
BY InitDays, DaysStep, ResumesHold, AccountsHold, Invariance, PTL DEF Spec

(* What a job mailed counts against its reservation, but for the chunk it    *)
(* was cut at.                                                               *)
LEMMA CountsAreReserved ==
  ASSUME IInv, Accounts, Days, NEW j \in Jobs
  PROVE  /\ CapCount(j) \in Nat /\ Reserved(j) \in Nat
         /\ CapCount(j) <= Reserved(j) + (IF j \in CutShort THEN ChunkSize ELSE 0)
<1>t. /\ job[j] \in Job /\ Mailed(j) \in SUBSET Addrs /\ Held(j) \in SUBSET Addrs
      /\ Reserved(j) \in Nat /\ ChunkSize \in Nat
      /\ log[j] \in Nat => Reserved(j) = log[j]
  BY SizesAssumption DEF IInv, TypeOK, Reserved, Mailed, Held, NoEntry
<1>c. /\ Cardinality(Mailed(j)) \in Nat /\ Cardinality(job[j].accepted) \in Nat
      /\ Cardinality(job[j].sent) \in Nat
  BY <1>t, JobFields, SizeIsNat
<1>i. Recorded(j) /\ Within(j) /\ Charged(j) /\ Untouched
  BY DEF Accounts, Days, IInv
<1>1. CASE job[j].kind # "marketing"
  BY <1>1, <1>t DEF CapCount
<1>2. CASE job[j].kind = "marketing"
  <2>1. CapCount(j) = Cardinality(Mailed(j))
    BY <1>2 DEF CapCount
  <2>2. CASE job[j].state \in {"none", "draft"}
    <3>1. Mailed(j) = {}
      BY <2>2, <1>i DEF Within, Untouched, Mailed
    <3> QED
      BY <2>1, <3>1, <1>t, FS_EmptySet
  <2>3. CASE job[j].state \in {"queued", "running"}
    <3>1. /\ log[j] = Cardinality(job[j].accepted)
          /\ Mailed(j) \in SUBSET job[j].accepted /\ job[j].accepted \in SUBSET Addrs
      BY <1>2, <2>3, <1>i, <1>t, JobFields DEF Charged, Within
    <3>2. Cardinality(Mailed(j)) <= Cardinality(job[j].accepted)
      BY <3>1, FewerIsLess
    <3> QED
      BY <1>c, <1>t, <2>1, <3>1, <3>2
  <2>4. CASE job[j].state = "completed"
    <3>1. /\ log[j] = Cardinality(job[j].sent)
          /\ Mailed(j) \in SUBSET job[j].sent /\ job[j].sent \in SUBSET Addrs
      BY <1>2, <2>4, <1>i, <1>t, JobFields DEF Charged, Recorded
    <3>2. Cardinality(Mailed(j)) <= Cardinality(job[j].sent)
      BY <3>1, FewerIsLess
    <3> QED
      BY <1>c, <1>t, <2>1, <3>1, <3>2
  <2>5. CASE job[j].state \in Terminal \ {"completed"}
    <3>1. /\ j \in CutShort
          /\ Cardinality(Mailed(j) \cup Held(j)) <= Reserved(j) + ChunkSize
      BY <1>2, <2>5, <1>i DEF Charged, CutShort
    <3>2. /\ Cardinality(Mailed(j)) <= Cardinality(Mailed(j) \cup Held(j))
          /\ Cardinality(Mailed(j) \cup Held(j)) \in Nat
      <4>1. Mailed(j) \cup Held(j) \in SUBSET Addrs
            /\ Mailed(j) \in SUBSET (Mailed(j) \cup Held(j))
        BY <1>t
      <4> QED
        BY <4>1, FewerIsLess
    <3> QED
      BY <1>c, <1>t, <2>1, <3>1, <3>2
  <2> QED
    BY <1>t, <2>2, <2>3, <2>4, <2>5, JobFields DEF Live
<1> QED
  BY <1>1, <1>2

(* The organiser's marketing mail of the day is within the cap, but for at   *)
(* most a chunk for each job that was cut (reserveSend, reconcileReservation, *)
(* settleReservation).                                                       *)
THEOREM CapHoldsButForCutsHolds ==
  ASSUME ~DiskMayFail
  PROVE  Spec => []CapHoldsButForCuts
<1>1. IInv /\ Accounts /\ Days => CapHoldsButForCuts
  <2> SUFFICES ASSUME IInv, Accounts, Days
               PROVE  CapHoldsButForCuts
    OBVIOUS
  <2> DEFINE F == [k \in Jobs |-> Reserved(k)]
             G == [k \in Jobs |-> CapCount(k)]
  <2>1. /\ IsFiniteSet(Jobs) /\ ChunkSize \in Nat /\ DailyCap \in Nat
        /\ CutShort \in SUBSET Jobs
    BY JobsAssumption, SizesAssumption DEF CutShort
  <2>2. \A k \in Jobs : /\ F[k] \in Int /\ G[k] \in Int
                        /\ G[k] <= F[k] + (IF k \in CutShort THEN ChunkSize ELSE 0)
    BY CountsAreReserved
  <2>3. SumFunctionOnSet(F, Jobs) <= DailyCap
    BY DEF Days, WithinDay, SumFunction
  <2>4. CapHoldsButForCuts
          <=> SumFunctionOnSet(G, Jobs) <= DailyCap + ChunkSize * Cardinality(CutShort)
    BY DEF CapHoldsButForCuts, SumFunction
  <2> HIDE DEF F, G
  <2>5. SumFunctionOnSet(G, Jobs)
          <= SumFunctionOnSet(F, Jobs) + ChunkSize * Cardinality(CutShort)
    BY <2>1, <2>2, SumWithin
  <2>6. /\ SumFunctionOnSet(F, Jobs) \in Int /\ SumFunctionOnSet(G, Jobs) \in Int
        /\ ChunkSize * Cardinality(CutShort) \in Int
    <3>1. Cardinality(CutShort) \in Nat
      BY <2>1, FS_Subset, FS_CardinalityType
    <3>2. ChunkSize * Cardinality(CutShort) \in Int
      BY <2>1, <3>1
    <3> QED
      BY <2>1, <2>2, <3>2, SumIsInt
  <2> QED
    BY <2>1, <2>3, <2>4, <2>5, <2>6
<1> QED
  BY <1>1, DaysHold, AccountsHold, Invariance, PTL

=============================================================================
