--------------------------- MODULE BroadcastQueue ---------------------------
(***************************************************************************)
(* The background broadcast queue of one organiser: jobs that are filled   *)
(* with recipients chunk by chunk, started against the daily send cap,     *)
(* drained one chunk at a time by the single worker, and stopped by a      *)
(* cancel, the time limit, an outage of the account, a shutdown or a crash *)
(* (lib/email/broadcast-jobs.ts, lib/email/drain-worker.ts,                *)
(* lib/email/marketing-send.ts, lib/marketing/send-cap.ts and              *)
(* routes/broadcast-jobs.ts of the server).                                *)
(*                                                                         *)
(* A handler without an await is one action.  Sending a chunk is several:  *)
(* open it, hand over one group after another, see each message settle,    *)
(* record the result; anything else may happen in between.                 *)
(***************************************************************************)
EXTENDS Integers, FiniteSets, Functions

CONSTANTS
  Jobs,           \* job ids
  NoJob,          \* not a job
  Addrs,          \* recipients, all of them members of the audience
  ChunkSize,      \* MAX_CHUNK_RECIPIENTS
  MaxChunks,      \* MAX_CHUNKS
  MaxRecipients,  \* MAX_JOB_RECIPIENTS
  GroupSize,      \* SEND_CHUNK, the messages in flight at once
  DailyCap,       \* the organiser's allowance for the day the model covers
  Kinds,          \* bound: the kinds of job, of "marketing" and "event"
  MaxPosts,       \* bound: chunk uploads per job
  MaxOptOuts,     \* bound: addresses that opt out
  MaxRestarts,    \* bound: restarts of the process
  MayCut,         \* may a cancel, shutdown or crash come while a chunk is sent?
  FreeResume,     \* may a client resume what the page does not offer?
  DiskMayFail     \* may a write of a store fail (or be cut off by a crash)?

ASSUME JobsAssumption == NoJob \notin Jobs /\ IsFiniteSet(Jobs) /\ IsFiniteSet(Addrs)
ASSUME SizesAssumption ==
  /\ {ChunkSize, MaxChunks, MaxRecipients, GroupSize} \subseteq Nat \ {0}
  /\ {DailyCap, MaxPosts, MaxOptOuts, MaxRestarts} \subseteq Nat
ASSUME KindsAssumption == Kinds \subseteq {"marketing", "event"}
ASSUME SwitchAssumption == {MayCut, FreeResume, DiskMayFail} \subseteq BOOLEAN

VARIABLES
  job,      \* the jobs in memory
  disk,     \* their files
  chunks,   \* the encrypted chunk files, {} where there is none
  seen,     \* acceptedHashes: the addresses a draft skips
  lapsed,   \* live jobs past their expiresAt
  client,   \* what the uploading client has posted and counted
  worker,   \* the chunk being sent
  served,   \* lastServed
  log,      \* the organiser's reservations against the daily cap, by job
  logDisk,  \* their file
  optOut,   \* addresses suppressed
  closing,  \* the process has had its SIGTERM
  restarts, \* restarts so far
  mailed,   \* how often each job mailed each address (2 stands for more)
  skip      \* the prior job's record as it was when a job was created

memory == <<job, seen, lapsed, served, log, closing>>
files == <<disk, chunks, logDisk>>
outside == <<client, optOut, restarts, mailed, skip>>
vars == <<memory, files, outside, worker>>

Live == {"draft", "queued", "running"}
Terminal == {"completed", "cancelled", "died", "expired"}
ChunkIds == 0 .. MaxChunks - 1
NoEntry == -1

Job == [state : Live \cup Terminal \cup {"none"}, kind : {"marketing", "event"}, msg : Jobs \cup {NoJob},
        resumeOf : Jobs \cup {NoJob}, accepted : SUBSET Addrs, chunkCount : 0 .. MaxChunks,
        nextChunk : Nat, startedAt : Nat, reserved : BOOLEAN,
        sent : SUBSET Addrs, suppressed : SUBSET Addrs, failed : SUBSET Addrs]

Blank == [state |-> "none", kind |-> "event", msg |-> NoJob, resumeOf |-> NoJob,
          accepted |-> {}, chunkCount |-> 0, nextChunk |-> 0, startedAt |-> 0,
          reserved |-> FALSE, sent |-> {}, suppressed |-> {}, failed |-> {}]

Idle == [job |-> NoJob, left |-> {}, flying |-> {},
         sent |-> {}, suppressed |-> {}, failed |-> {}]

Mailed(j) == {a \in Addrs : mailed[j][a] > 0}

(* The chunk of j is with the worker; may j, or the process, be stopped now? *)
Busy(j) == worker.job = j
MayStop(j) == MayCut \/ ~Busy(j)
MayHalt == MayCut \/ worker.job = NoJob

Init ==
  /\ job = [j \in Jobs |-> Blank]
  /\ disk = job
  /\ chunks = [j \in Jobs |-> [i \in ChunkIds |-> {}]]
  /\ seen = [j \in Jobs |-> {}]
  /\ lapsed = {}
  /\ client = [j \in Jobs |-> [posts |-> 0, posted |-> {}, chunkCount |-> 0, total |-> 0]]
  /\ worker = Idle
  /\ served = NoJob
  /\ log = [j \in Jobs |-> NoEntry]
  /\ logDisk = log
  /\ optOut = {}
  /\ closing = FALSE
  /\ restarts = 0
  /\ mailed = [j \in Jobs |-> [a \in Addrs |-> 0]]
  /\ skip = [j \in Jobs |-> {}]

-----------------------------------------------------------------------------
(* The stores *)

(* persist of the jobs in F, which are now "now" and were "old" on disk: a  *)
(* write that fails leaves the old file.                                    *)
Persist(F, old, now) ==
  \E lost \in IF DiskMayFail THEN SUBSET F ELSE {{}} :
     disk' = [j \in Jobs |-> IF j \in F \ lost THEN now[j] ELSE old[j]]

(* The log, "old" in memory before, is written whole after each entry of F  *)
(* is changed.                                                              *)
PersistLog(F, old, now) ==
  \/ logDisk' = now
  \/ /\ DiskMayFail
     /\ \/ logDisk' = logDisk
        \/ \E S \in SUBSET F \ {{}} :
              logDisk' = [j \in Jobs |-> IF j \in S THEN now[j] ELSE old[j]]

\* Mutant of Settled: the reservation stands.
SettledNever(j, rec, l) == l[j]

(* reconcileReservation, for a marketing job that has a reservation *)
Settled(j, rec, l) ==
  IF rec.kind = "marketing" /\ rec.reserved /\ l[j] # NoEntry
  THEN Cardinality(rec.sent) ELSE l[j]

NoChunks == [i \in ChunkIds |-> {}]

(* finishJob and settleReservation for the jobs of F, given the jobs and the *)
(* files so far.  A job's abort signal is raised exactly when it becomes     *)
(* terminal, so it is no variable.                                           *)
Finish(F, state, now, old) ==
  LET done == [j \in Jobs |-> IF j \in F THEN [now[j] EXCEPT !.state = state] ELSE now[j]]
      settled == [j \in Jobs |-> IF j \in F THEN Settled(j, now[j], log) ELSE log[j]]
  IN /\ job' = done
     /\ Persist(F, old, done)
     /\ chunks' = [j \in Jobs |-> IF j \in F THEN NoChunks ELSE chunks[j]]
     /\ seen' = [j \in Jobs |-> IF j \in F THEN {} ELSE seen[j]]
     /\ lapsed' = lapsed \ F
     /\ log' = settled
     /\ PersistLog(F, log, settled)

-----------------------------------------------------------------------------
(* The organiser *)

(* jobView's "resumable", on a page that shows the latest job only *)
Offered(p) ==
  /\ job[p].state \in Terminal \ {"cancelled"}
  /\ Cardinality(job[p].sent) < Cardinality(job[p].accepted)
  /\ \A k \in Jobs : job[k].resumeOf # p

(* POST /jobs.  A resume takes the message of a finished job of the same    *)
(* kind, and skips what that job's own record holds.                        *)
Create(j, kind, p) ==
  /\ job[j].state = "none" /\ client[j].posts = 0
  /\ p # NoJob => /\ job[p].state \in Terminal
                  /\ job[p].kind = kind
                  /\ FreeResume \/ Offered(p)
  /\ LET seed == IF p = NoJob THEN {} ELSE job[p].sent
         msg == IF p = NoJob THEN j ELSE job[p].msg
     IN /\ job' = [job EXCEPT ![j] = [Blank EXCEPT !.state = "draft", !.kind = kind,
                                                   !.msg = msg, !.resumeOf = p]]
        /\ seen' = [seen EXCEPT ![j] = seed]
        /\ skip' = [skip EXCEPT ![j] = seed]
  /\ Persist({j}, disk, job')
  /\ lapsed' = lapsed \ {j}
  /\ UNCHANGED <<chunks, client, worker, served, log, logDisk, closing, optOut, restarts, mailed>>

(* The client counts what the server said it took.  Where it got no answer, *)
(* it may count what it posted and go on (the web page gives up there, but  *)
(* the check at the start is meant for a client that does not).             *)
Counted(j, S, took) ==
  client' = [client EXCEPT ![j] =
    [posts |-> @.posts + 1, posted |-> @.posted \cup S,
     chunkCount |-> @.chunkCount + (IF took = {} THEN 0 ELSE 1),
     total |-> @.total + Cardinality(took)]]

Uploads == {S \in SUBSET Addrs : S # {} /\ Cardinality(S) <= ChunkSize}

HasRoom(j, S) ==
  /\ Cardinality(job[j].accepted) + Cardinality(S) <= MaxRecipients
  /\ job[j].chunkCount < MaxChunks

\* Mutant of Fresh: nobody is skipped.
FreshAll(j, S) == S

(* appendChunk's dedupe *)
Fresh(j, S) == S \ seen[j]

(* POST /jobs/:id/chunk *)
Append(j, S) ==
  LET fresh == Fresh(j, S)
      rec == job[j]
  IN /\ rec.state = "draft" /\ client[j].posts < MaxPosts
     /\ HasRoom(j, S)
     /\ seen' = [seen EXCEPT ![j] = @ \cup fresh]
     /\ chunks' = IF fresh = {} THEN chunks
                  ELSE [chunks EXCEPT ![j][rec.chunkCount] = fresh]
     /\ job' = [job EXCEPT ![j] =
          [rec EXCEPT !.accepted = @ \cup fresh,
                      !.chunkCount = IF fresh = {} THEN @ ELSE @ + 1]]
     /\ Persist({j}, disk, job')
     /\ lapsed' = lapsed \ {j}
     /\ Counted(j, S, fresh) \/ Counted(j, S, S)
     /\ UNCHANGED <<worker, served, log, logDisk, closing, optOut, restarts, mailed, skip>>

(* A chunk that never reaches the server *)
LoseUpload(j, S) ==
  /\ job[j].state = "draft" /\ client[j].posts < MaxPosts
  /\ Counted(j, S, S)
  /\ UNCHANGED <<memory, files, worker, optOut, restarts, mailed, skip>>

Reserved(j) == IF log[j] = NoEntry THEN 0 ELSE log[j]

\* Mutant of Remaining: what is sent counts, not what is reserved.
Sent(j) == Cardinality(job[j].sent)
RemainingUnsent == DailyCap - SumFunction([j \in Jobs |-> Sent(j)])

(* capRemaining *)
Remaining == DailyCap - SumFunction([j \in Jobs |-> Reserved(j)])

\* Mutant of UploadComplete: the client is not asked.
UploadAssumed(j) == TRUE

(* What the client says it uploaded is what the server holds. *)
UploadComplete(j) ==
  /\ client[j].chunkCount = job[j].chunkCount
  /\ client[j].total = Cardinality(job[j].accepted)

(* POST /jobs/:id/start: sealAndQueue, reserveSend, markReserved.  On a job *)
(* already started it answers with the job and changes nothing.             *)
Start(j) ==
  LET rec == job[j]
      n == Cardinality(rec.accepted)
      charged == rec.kind = "marketing"
      sealed == [rec EXCEPT !.state = "queued",
                            !.startedAt = 1 + Cardinality({k \in Jobs : job[k].startedAt > 0})]
      marked == [sealed EXCEPT !.reserved = charged]
  IN /\ rec.state = "draft" /\ rec.accepted # {}
     /\ charged => n <= Remaining
     /\ UploadComplete(j)
     /\ job' = [job EXCEPT ![j] = marked]
     /\ \E saved \in IF DiskMayFail THEN {disk[j], sealed, marked} ELSE {marked} :
           disk' = [disk EXCEPT ![j] = saved]
     /\ lapsed' = lapsed \ {j}
     /\ seen' = [seen EXCEPT ![j] = {}]
     /\ log' = IF charged THEN [log EXCEPT ![j] = n] ELSE log
     /\ PersistLog({}, log, log')
     /\ UNCHANGED <<chunks, worker, served, closing, outside>>

(* POST /jobs/:id/cancel *)
Cancel(j) ==
  /\ job[j].state \in Live /\ MayStop(j)
  /\ Finish({j}, "cancelled", job, disk)
  /\ UNCHANGED <<served, closing, worker, outside>>

(* An unsubscribe or an erasure stores a suppression. *)
OptOut(a) ==
  /\ a \notin optOut /\ Cardinality(optOut) < MaxOptOuts
  /\ optOut' = optOut \cup {a}
  /\ UNCHANGED <<memory, files, worker, client, restarts, mailed, skip>>

-----------------------------------------------------------------------------
(* The worker *)

Runnable == {j \in Jobs : /\ job[j].state \in {"queued", "running"}
                          /\ job[j].nextChunk < job[j].chunkCount
                          /\ j \notin lapsed}

(* pickNext: events before marketing, and the next after the last served in *)
(* the order the jobs were started.                                         *)
Pool == LET events == {j \in Runnable : job[j].kind = "event"}
        IN IF events # {} THEN events ELSE Runnable

Turn(j) ==
  LET after == IF served \in Pool
               THEN {k \in Pool : job[k].startedAt > job[served].startedAt} ELSE {}
      next == IF after # {} THEN after ELSE Pool
  IN j \in next /\ \A k \in next : job[j].startedAt <= job[k].startedAt

\* Mutant of Overdue: only uploads that were abandoned.
OverdueDrafts == {j \in lapsed : job[j].state = "draft"}

\* Mutant of Overdue: only jobs that were started.
OverdueStarted == {j \in lapsed : job[j].state \in {"queued", "running"}}

Overdue == {j \in lapsed : job[j].state \in Live}

(* maybeSweep, before a chunk is picked *)
Sweep ==
  /\ worker = Idle /\ Overdue # {}
  /\ Finish(Overdue, "expired", job, disk)
  /\ UNCHANGED <<served, closing, worker, outside>>

(* drainOneChunk up to the first message: the chunk is read, and the        *)
(* recipients already mailed or suppressed are taken out.                   *)
OpenChunk(j) ==
  LET todo == chunks[j][job[j].nextChunk] \ job[j].sent
  IN /\ worker = Idle /\ Turn(j)
     /\ served' = j
     /\ worker' = [Idle EXCEPT !.job = j, !.left = todo \ optOut, !.suppressed = todo \cap optOut]
     /\ UNCHANGED <<job, seen, lapsed, log, closing, files, outside>>

(* sendMarketingBatch throws before it sends: the server is misconfigured. *)
CannotSend(j) ==
  /\ worker = Idle /\ Turn(j)
  /\ served' = j
  /\ Finish({j}, "died", job, disk)
  /\ UNCHANGED <<closing, worker, outside>>

Stopped(j) == job[j].state \in Terminal

\* Mutant of HandOver: the group stays on the list.
HandOverAgain(G) ==
  /\ worker.job # NoJob /\ ~Stopped(worker.job)
  /\ worker.flying = {} /\ G \subseteq worker.left /\ Cardinality(G) = GroupSize
  /\ worker' = [worker EXCEPT !.flying = G]
  /\ UNCHANGED <<memory, files, outside>>

(* The next group, unless the job was stopped *)
HandOver(G) ==
  /\ worker.job # NoJob /\ ~Stopped(worker.job)
  /\ worker.flying = {} /\ G \subseteq worker.left /\ G # {}
  /\ Cardinality(G) = GroupSize \/ (G = worker.left /\ Cardinality(G) < GroupSize)
  /\ worker' = [worker EXCEPT !.left = @ \ G, !.flying = G]
  /\ UNCHANGED <<memory, files, outside>>

(* A message settles: delivered, or given up. *)
Deliver(a) ==
  /\ a \in worker.flying
  /\ worker' = [worker EXCEPT !.flying = @ \ {a}, !.sent = @ \cup {a}]
  /\ mailed' = [mailed EXCEPT ![worker.job][a] = IF @ < 2 THEN @ + 1 ELSE @]
  /\ UNCHANGED <<memory, files, client, optOut, restarts, skip>>

GiveUp(a) ==
  /\ a \in worker.flying
  /\ worker' = [worker EXCEPT !.flying = @ \ {a}, !.failed = @ \cup {a}]
  /\ UNCHANGED <<memory, files, outside>>

\* Mutant of Drained: the record keeps the last chunk's recipients only.
DrainedLast(j) ==
  [job[j] EXCEPT !.sent = worker.sent,
                 !.suppressed = @ \cup worker.suppressed,
                 !.failed = @ \cup worker.failed,
                 !.nextChunk = @ + 1,
                 !.state = IF @ = "queued" THEN "running" ELSE @]

(* recordChunkDrained, before it is saved *)
Drained(j) ==
  [job[j] EXCEPT !.sent = @ \cup worker.sent,
                 !.suppressed = @ \cup worker.suppressed,
                 !.failed = @ \cup worker.failed,
                 !.nextChunk = @ + 1,
                 !.state = IF @ = "queued" THEN "running" ELSE @]

(* stopReason may name an outage: some failed and none was sent. *)
MayBeOutage == worker.failed # {} /\ worker.sent = {}

\* Mutant of RecordKept: a job stopped meanwhile completes.
RecordKeptAnyway(j) ==
  LET rec == Drained(j)
      kept == [job EXCEPT ![j] = rec]
      file == [disk EXCEPT ![j] = rec]
  IN \/ /\ rec.nextChunk < rec.chunkCount
        /\ job' = kept /\ disk' = file
        /\ chunks' = [chunks EXCEPT ![j][job[j].nextChunk] = {}]
        /\ UNCHANGED <<seen, lapsed, log, logDisk>>
     \/ /\ rec.nextChunk >= rec.chunkCount
        /\ Finish({j}, "completed", kept, file)

(* The record is saved and the chunk deleted: a stopped job stays stopped,   *)
(* and another is settled or goes on.                                        *)
RecordKept(j) ==
  LET rec == Drained(j)
      kept == [job EXCEPT ![j] = rec]
      file == [disk EXCEPT ![j] = rec]
      over == rec.nextChunk >= rec.chunkCount
  IN \/ /\ Stopped(j) \/ ~over
        /\ job' = kept /\ disk' = file
        /\ chunks' = [chunks EXCEPT ![j][job[j].nextChunk] = {}]
        /\ UNCHANGED <<seen, lapsed, log, logDisk>>
     \/ /\ ~Stopped(j) /\ MayBeOutage
        /\ Finish({j}, "died", kept, file)
     \/ /\ ~Stopped(j) /\ over
        /\ Finish({j}, "completed", kept, file)

\* Mutant of RecordLost: the chunk is kept and tried again.
RecordLostRetry(j) == DiskMayFail /\ UNCHANGED <<job, seen, lapsed, log, files>>

\* Mutant of RecordLost: the job goes on.
RecordLostGoesOn(j) ==
  /\ DiskMayFail
  /\ job' = [job EXCEPT ![j] = Drained(j)]
  /\ UNCHANGED <<seen, lapsed, log, files>>

(* The record could not be saved: the job is settled as died, whatever it was. *)
RecordLost(j) ==
  /\ DiskMayFail
  /\ Finish({j}, "died", [job EXCEPT ![j] = Drained(j)], disk)

(* drainOneChunk after its await *)
Record(j) ==
  /\ Busy(j) /\ worker.flying = {}
  /\ worker.left = {} \/ Stopped(j)
  /\ worker' = Idle
  /\ RecordKept(j) \/ RecordLost(j)
  /\ UNCHANGED <<served, closing, outside>>

-----------------------------------------------------------------------------
(* Time and the process *)

(* A job's expiresAt goes by. *)
Lapse(j) ==
  /\ job[j].state \in Live /\ j \notin lapsed
  /\ lapsed' = lapsed \cup {j}
  /\ UNCHANGED <<job, seen, served, log, closing, files, worker, outside>>

(* SIGTERM: recordShutdown marks every live job; the chunk in flight may    *)
(* still be recorded before the process is gone.                            *)
Shutdown ==
  LET F == {j \in Jobs : job[j].state \in Live}
  IN /\ ~closing /\ restarts < MaxRestarts /\ MayHalt
     /\ closing' = TRUE
     /\ Finish(F, "died", job, disk)
     /\ UNCHANGED <<served, worker, outside>>

(* The process ends, by itself after a SIGTERM or by a crash, and another   *)
(* starts: the stores are loaded, the chunks, whose key is lost, are wiped, *)
(* and reconcileOnBoot marks and settles every job that was live.           *)
Restart ==
  LET F == {j \in Jobs : disk[j].state \in Live}
      now == [j \in Jobs |-> IF j \in F THEN [disk[j] EXCEPT !.state = "died"] ELSE disk[j]]
      settled == [j \in Jobs |-> IF j \in F THEN Settled(j, disk[j], logDisk) ELSE logDisk[j]]
  IN /\ restarts < MaxRestarts /\ MayHalt
     /\ restarts' = restarts + 1
     /\ closing' = FALSE
     /\ job' = now
     /\ Persist(F, disk, now)
     /\ log' = settled
     /\ PersistLog(F, logDisk, settled)
     /\ chunks' = [j \in Jobs |-> NoChunks]
     /\ seen' = [j \in Jobs |-> {}]
     /\ lapsed' = {}
     /\ served' = NoJob
     /\ worker' = Idle
     /\ UNCHANGED <<client, optOut, mailed, skip>>

-----------------------------------------------------------------------------
Organiser ==
  \/ \E j \in Jobs, kind \in Kinds, p \in Jobs \cup {NoJob} : Create(j, kind, p)
  \/ \E j \in Jobs, S \in Uploads : Append(j, S) \/ LoseUpload(j, S)
  \/ \E j \in Jobs : Start(j) \/ Cancel(j)

Drain ==
  \/ Sweep
  \/ \E j \in Jobs : OpenChunk(j) \/ CannotSend(j) \/ Record(j)
  \/ \E G \in SUBSET Addrs : HandOver(G)
  \/ \E a \in Addrs : Deliver(a) \/ GiveUp(a)

Next ==
  \/ Organiser
  \/ Drain
  \/ \E a \in Addrs : OptOut(a)
  \/ \E j \in Jobs : Lapse(j)
  \/ Shutdown
  \/ Restart

Spec == Init /\ [][Next]_vars

(* The worker's loop runs on every tick, time goes by, and a process told to *)
(* end does.                                                                 *)
Fairness ==
  /\ WF_vars(Drain)
  /\ \A j \in Jobs : WF_vars(Lapse(j))
  /\ WF_vars(closing /\ Restart)

FairSpec == Spec /\ Fairness

-----------------------------------------------------------------------------
(* The variables hold what the stores can: jobs, chunks and counts in their  *)
(* types, and a worker that is idle or holds one job (the declarations of    *)
(* broadcast-jobs.ts and send-cap.ts).                                       *)
TypeOK ==
  /\ job \in [Jobs -> Job]
  /\ disk \in [Jobs -> Job]
  /\ chunks \in [Jobs -> [ChunkIds -> SUBSET Addrs]]
  /\ seen \in [Jobs -> SUBSET Addrs]
  /\ lapsed \subseteq Jobs
  /\ client \in [Jobs -> [posts : Nat, posted : SUBSET Addrs, chunkCount : Nat, total : Nat]]
  /\ worker \in [job : Jobs \cup {NoJob}, left : SUBSET Addrs, flying : SUBSET Addrs,
                  sent : SUBSET Addrs, suppressed : SUBSET Addrs, failed : SUBSET Addrs]
  /\ served \in Jobs \cup {NoJob}
  /\ log \in [Jobs -> Nat \cup {NoEntry}]
  /\ logDisk \in [Jobs -> Nat \cup {NoEntry}]
  /\ optOut \subseteq Addrs
  /\ closing \in BOOLEAN
  /\ restarts \in Nat
  /\ mailed \in [Jobs -> [Addrs -> 0 .. 2]]
  /\ skip \in [Jobs -> SUBSET Addrs]

(* No job mails an address twice: not for duplicates across chunks, not for  *)
(* a chunk whose record failed to save, not across a restart (appendChunk's  *)
(* dedupe, the order of recordChunkDrained).                                 *)
OncePerJob == \A j \in Jobs, a \in Addrs : mailed[j][a] <= 1

(* A resume mails nobody the prior job's record held when the resume was     *)
(* created (createJob's seed, which is dropped when the job is sealed).      *)
SkipsRecorded == \A j \in Jobs : Mailed(j) \cap skip[j] = {}

(* Nobody is silently missed: a completed job accounts for every address the *)
(* client posted, whatever answers and chunks were lost on the way           *)
(* (sealAndQueue's check, drainOneChunk's early return for a stopped job).   *)
CompletedCoversAll ==
  \A j \in Jobs : job[j].state = "completed" =>
     /\ client[j].posted \subseteq skip[j] \cup job[j].sent \cup job[j].suppressed \cup job[j].failed
     /\ job[j].sent = Mailed(j)

(* What a job mailed and its file does not say is at most one chunk, the     *)
(* "blast radius of a mid-chunk crash", also when writes fail                *)
(* (recordChunkDrained, drainOneChunk's stop when the record is not kept).   *)
LossBounded ==
  \A j \in Jobs : Cardinality(Mailed(j) \ disk[j].sent) <= ChunkSize

(* With no stop in the middle of a chunk, a resume mails nobody the job it   *)
(* resumes has mailed (createJob's seed from sentHashes).                    *)
ResumeMailsNobodyTwice ==
  \A j \in Jobs : job[j].resumeOf # NoJob =>
     Mailed(j) \cap Mailed(job[j].resumeOf) = {}

(* Wherever a job is cut, a resume repeats at most the chunk it was at; of a  *)
(* job that ran to its end it repeats nothing (createJob's seed, and what a  *)
(* cut leaves unrecorded).                                                   *)
ResumeRepeatsAChunk ==
  \A j \in Jobs : job[j].resumeOf # NoJob =>
     Cardinality(Mailed(j) \cap Mailed(job[j].resumeOf))
       <= IF job[job[j].resumeOf].state = "completed" THEN 0 ELSE ChunkSize

(* Nobody gets one message twice, through however many jobs it is sent.      *)
NobodyTwice ==
  \A j, k \in Jobs : j # k /\ job[j].msg = job[k].msg /\ job[j].msg # NoJob =>
     Mailed(j) \cap Mailed(k) = {}

(* The organiser's marketing mail of the day stays within the cap, resumes   *)
(* and returned reservations included (reserveSend, reconcileReservation).   *)
CapCount(j) == IF job[j].kind = "marketing" THEN Cardinality(Mailed(j)) ELSE 0
WithinCap == SumFunction([j \in Jobs |-> CapCount(j)]) <= DailyCap

(* A job that was cut gives back what its file does not say was mailed: the  *)
(* cap is overrun by at most a chunk for each such job.                      *)
CutShort == {j \in Jobs : job[j].state \in Terminal \ {"completed"}}
CapHoldsButForCuts ==
  SumFunction([j \in Jobs |-> CapCount(j)]) <= DailyCap + ChunkSize * Cardinality(CutShort)

(* A stopped job gives its unspent allowance back: its reservation is not    *)
(* more than it sent, however it was stopped (settleReservation, and its     *)
(* callers at cancel, sweep, shutdown and boot).                             *)
ReservationReturned ==
  \A j \in Jobs : job[j].state \in Terminal => log[j] <= Cardinality(job[j].sent)

(* A stopped job stays what it was stopped as: a chunk recorded later makes  *)
(* it neither running, completed nor died (recordChunkDrained, isTerminal).  *)
StaysStopped ==
  [][\A j \in Jobs : job[j].state \in Terminal => job'[j].state = job[j].state]_vars

(* Nobody who has opted out is handed to the provider: the suppression is    *)
(* re-checked per recipient at send time.                                    *)
OptOutHeeded == [][(worker'.flying \ worker.flying) \cap optOut = {}]_vars

-----------------------------------------------------------------------------
(* The inductive invariant behind the properties of one job and of a resume. *)

(* Nothing is mailed for a job before it is started. *)
Untouched ==
  \A j \in Jobs : client[j].posts = 0 \/ job[j].state = "draft" =>
     \A a \in Addrs : mailed[j][a] = 0

NoFiles == \A j \in Jobs : job[j].state = "none" => chunks[j] = NoChunks

ChunksApart ==
  \A j \in Jobs : \A i, k \in ChunkIds : i # k => chunks[j][i] \cap chunks[j][k] = {}

(* The recipients of a chunk file are new to the job and to the prior job,   *)
(* and are not mailed yet unless the worker has the chunk.                   *)
ChunksNew ==
  \A j \in Jobs : \A i \in ChunkIds : \A a \in chunks[j][i] :
     /\ client[j].posts # 0
     /\ a \notin skip[j]
     /\ job[j].state = "draft" => a \in seen[j]
     /\ mailed[j][a] # 0 => Busy(j) /\ i = job[j].nextChunk

SeenSkips == \A j \in Jobs : job[j].state = "draft" => skip[j] \subseteq seen[j]

(* Whoever the worker has still to mail is new as well, and in no other chunk. *)
WorkerNew ==
  /\ worker.job = NoJob => worker = Idle
  /\ worker.job # NoJob =>
        /\ job[worker.job].state \notin {"none", "draft"}
        /\ worker.left \cap worker.flying = {}
        /\ \A a \in worker.left \cup worker.flying :
              /\ client[worker.job].posts # 0
              /\ mailed[worker.job][a] = 0
              /\ a \notin skip[worker.job]
              /\ \A i \in ChunkIds : a \in chunks[worker.job][i] => i = job[worker.job].nextChunk

(* Without failing writes the files are the memory. *)
FilesTrue == ~DiskMayFail => disk = job

(* If also no chunk is cut short, the records are what was mailed, the       *)
(* worker's job is a running one, and a resume skips what the job it         *)
(* resumes, long over, has mailed.                                           *)
RecordsTrue ==
  ~MayCut /\ ~DiskMayFail =>
     /\ \A j \in Jobs, a \in Addrs :
           mailed[j][a] # 0 <=> a \in job[j].sent \/ (Busy(j) /\ a \in worker.sent)
     /\ worker.job # NoJob => job[worker.job].state \in {"queued", "running"}
     /\ \A j \in Jobs : job[j].resumeOf # NoJob =>
           /\ job[job[j].resumeOf].state \in Terminal
           /\ skip[j] = job[job[j].resumeOf].sent

IInv ==
  /\ TypeOK
  /\ Untouched /\ NoFiles /\ ChunksApart /\ ChunksNew /\ SeenSkips /\ WorkerNew
  /\ OncePerJob /\ SkipsRecorded
  /\ FilesTrue /\ RecordsTrue

-----------------------------------------------------------------------------
(* A started job does not stay queued or running, whatever else is queued,   *)
(* and however its chunks and its writes fare: it ends, or a restart that    *)
(* finds it unstarted on disk forgets the start (pump, pickNext, sweep).     *)
StartedEnds == \A j \in Jobs : []<>(job[j].state \notin {"queued", "running"})

(* The recipients on disk go away, also for a draft nobody starts (deleteChunk, *)
(* finishJob, sweep, reconcileOnBoot).                                          *)
PayloadGoes == \A j \in Jobs : chunks[j] # NoChunks ~> chunks[j] = NoChunks
=============================================================================
