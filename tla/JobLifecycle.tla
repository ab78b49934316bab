---------------------------- MODULE JobLifecycle ----------------------------
(***************************************************************************)
(* The durable job record and everybody who writes its state: the scraper  *)
(* worker (worker_scraper.py), the cancel endpoint (main.py), the stale    *)
(* job reaper (reaper.py) and soft_delete_job / purge_expired_jobs of the  *)
(* job repository.  Each writer reads the row in one database call and     *)
(* writes it in a later one; update_job_state is a compare-and-swap on the *)
(* version column and nothing else guards the state.                       *)
(*                                                                         *)
(* Deliveries come from the stream queue: StreamQueue shows that a message *)
(* has one callback at a time, that a failed callback is retried, and that *)
(* a message whose handler was killed is not delivered again.              *)
(***************************************************************************)
EXTENDS Integers, FiniteSets

CONSTANTS
  Jobs,        \* submitted jobs, each with a durable row and one message
  Workers,     \* scraper processes
  Cancels,     \* cancel requests in flight
  Deletes,     \* soft deletions in flight
  None,        \* "no job"
  Saturation,  \* may Valkey be above its hard memory limit?
  MaxRetries,  \* callbacks the queue grants one message
  MaxFaults    \* bound: failing calls and killed workers

ASSUME NoneAssumption == None \notin Jobs
ASSUME RequestsAssumption == Cancels \cap Deletes = {}
ASSUME BoundsAssumption ==
  /\ Saturation \in BOOLEAN
  /\ MaxRetries \in Nat \ {0}
  /\ MaxFaults \in Nat

Requests == Cancels \cup Deletes

JobState == {"QUEUED", "RUNNING", "SUCCEEDED", "FAILED", "CANCELLED",
             "DEAD_LETTERED", "DELETED"}

VARIABLES
  rows,         \* jobs that have a row
  state,        \* column state
  version,      \* column version
  beat,         \* column last_heartbeat_at: "null", "fresh" or "stale"
  deletedAt,    \* jobs whose column deleted_at is set
  attempts,     \* rows of job_attempts
  delivery,     \* the job's message: "ready", "running" or "done"
  retry,        \* its retry_count
  pc,           \* what each worker awaits next
  job,          \* the job each worker processes
  snap,         \* the version _update_job_state has read
  round,        \* its round: 1 or 2
  target,       \* the state it writes
  guarded,      \* is the worker inside the browser tier's try block?
  reqPc,        \* what each API request awaits next
  reqJob,       \* the job it is about
  reqSnap,      \* the version it has read
  reapList,     \* what find_stale_jobs returned and is not reaped yet
  purgeList,    \* what purge_expired_jobs selected for deletion
  published,    \* history: jobs whose payload is on raw_data_stream
  dropped,      \* history: jobs whose payload is on its dead-letter queue
  deadLettered, \* history: jobs on the jobs stream's dead-letter queue
  reaped,       \* history: jobs the reaper failed
  hurt,         \* history: jobs whose worker was hit by a fault
  faults        \* history: faults so far

rowVars     == <<rows, state, version, beat, deletedAt, attempts>>
queueVars   == <<delivery, retry>>
workerVars  == <<pc, job, snap, round, target, guarded>>
requestVars == <<reqPc, reqJob, reqSnap>>
reaperVars  == <<reapList, purgeList>>
history     == <<published, dropped, deadLettered, reaped, hurt, faults>>
vars == <<rowVars, queueVars, workerVars, requestVars, reaperVars, history>>

WorkerPc == {"idle", "read", "cas", "attempt", "beat", "fetch",
             "publish", "store", "deadletter", "close"}

Attempt  == [job : Jobs, no : Nat, state : JobState]
Snapshot == [job : Jobs, version : Nat]

Init ==
  /\ rows = Jobs
  /\ state = [j \in Jobs |-> "QUEUED"]
  /\ version = [j \in Jobs |-> 1]
  /\ beat = [j \in Jobs |-> "null"]
  /\ deletedAt = {} /\ attempts = {}
  /\ delivery = [j \in Jobs |-> "ready"]
  /\ retry = [j \in Jobs |-> 0]
  /\ pc = [w \in Workers |-> "idle"]
  /\ job = [w \in Workers |-> None]
  /\ snap = [w \in Workers |-> 0]
  /\ round = [w \in Workers |-> 1]
  /\ target = [w \in Workers |-> "RUNNING"]
  /\ guarded = [w \in Workers |-> FALSE]
  /\ reqPc = [r \in Requests |-> "new"]
  /\ reqJob = [r \in Requests |-> None]
  /\ reqSnap = [r \in Requests |-> 0]
  /\ reapList = {} /\ purgeList = {}
  /\ published = {} /\ dropped = {} /\ deadLettered = {} /\ reaped = {} /\ hurt = {} /\ faults = 0

-----------------------------------------------------------------------------
(* The job repository.                                                     *)

\* Mutant of Matches: the WHERE clause drops the version.
AnyVersion(j, v) == j \in rows

Matches(j, v) == j \in rows /\ version[j] = v

\* UPDATE jobs SET state, version = version + 1 WHERE job_id AND version.
UpdateJobState(j, v, new) ==
  IF Matches(j, v)
  THEN /\ state' = [state EXCEPT ![j] = new]
       /\ version' = [version EXCEPT ![j] = @ + 1]
  ELSE UNCHANGED <<state, version>>

\* create_attempt; the retry_count tells the attempts of a job apart.
InsertAttempt(j, no) ==
  attempts' = attempts \cup {[job |-> j, no |-> no, state |-> "RUNNING"]}

\* update_attempt: an UPDATE of no row when the attempt was never written.
UpdateAttempt(j, no, new) ==
  attempts' = {IF a.job = j /\ a.no = no THEN [a EXCEPT !.state = new] ELSE a : a \in attempts}

\* heartbeat: it leaves the version alone.
TouchJob(j) == beat' = [beat EXCEPT ![j] = IF j \in rows THEN "fresh" ELSE @]

-----------------------------------------------------------------------------
(* The scraper worker.                                                     *)

Goto(w, label) == pc' = [pc EXCEPT ![w] = label]

\* Starts _update_job_state(job, new).
StartUpdate(w, new) ==
  /\ Goto(w, "read")
  /\ target' = [target EXCEPT ![w] = new]
  /\ round' = [round EXCEPT ![w] = 1]

\* What follows _update_job_state, whatever became of it.
AfterUpdate(w) == Goto(w, IF target[w] = "RUNNING" THEN "attempt" ELSE "close")

\* The consumer hands a job to process_stream_message.
Deliver(w, j) ==
  /\ pc[w] = "idle"
  /\ delivery[j] = "ready"
  /\ delivery' = [delivery EXCEPT ![j] = "running"]
  /\ job' = [job EXCEPT ![w] = j]
  /\ guarded' = [guarded EXCEPT ![w] = FALSE]
  /\ StartUpdate(w, "RUNNING")
  /\ UNCHANGED <<rowVars, retry, snap, requestVars, reaperVars, history>>

\* get_job: the version is read; without a row the update is skipped.
ReadVersion(w) ==
  /\ pc[w] = "read"
  /\ \/ /\ job[w] \in rows
        /\ snap' = [snap EXCEPT ![w] = version[job[w]]]
        /\ Goto(w, "cas")
     \/ /\ job[w] \notin rows
        /\ AfterUpdate(w)
        /\ UNCHANGED snap
  /\ UNCHANGED <<rowVars, queueVars, job, round, target, guarded,
                 requestVars, reaperVars, history>>

\* update_job_state; after a conflict the loop reads and tries once more.
WriteState(w) ==
  /\ pc[w] = "cas"
  /\ UpdateJobState(job[w], snap[w], target[w])
  /\ \/ /\ ~Matches(job[w], snap[w]) /\ round[w] = 1
        /\ round' = [round EXCEPT ![w] = 2]
        /\ Goto(w, "read")
     \/ /\ Matches(job[w], snap[w]) \/ round[w] = 2
        /\ AfterUpdate(w)
        /\ UNCHANGED round
  /\ UNCHANGED <<rows, beat, deletedAt, attempts, queueVars, job, snap, target,
                 guarded, requestVars, reaperVars, history>>

CreateAttempt(w) ==
  /\ pc[w] = "attempt"
  /\ InsertAttempt(job[w], retry[job[w]])
  /\ Goto(w, "beat")
  /\ UNCHANGED <<rows, state, version, beat, deletedAt, queueVars, job, snap,
                 round, target, guarded, requestVars, reaperVars, history>>

\* The one heartbeat a job gets.
Heartbeat(w) ==
  /\ pc[w] = "beat"
  /\ TouchJob(job[w])
  /\ Goto(w, "fetch")
  /\ UNCHANGED <<rows, state, version, deletedAt, attempts, queueVars, job, snap,
                 round, target, guarded, requestVars, reaperVars, history>>

\* A failing database call is logged and swallowed: the worker goes on as if
\* it had been made.
SwallowedFault(w) ==
  /\ faults < MaxFaults
  /\ \/ pc[w] \in {"read", "cas"} /\ AfterUpdate(w)
     \/ pc[w] = "attempt" /\ Goto(w, "beat")
     \/ pc[w] = "beat" /\ Goto(w, "fetch")
  /\ faults' = faults + 1
  /\ hurt' = hurt \cup {job[w]}
  /\ UNCHANGED <<rowVars, queueVars, job, snap, round, target, guarded,
                 requestVars, reaperVars, published, dropped, deadLettered, reaped>>

\* robots.txt forbids the page (outside the try block), or the browser found
\* a challenge or an error (inside it): the job is dead-lettered.
FetchFails(w) ==
  /\ pc[w] = "fetch"
  /\ \E browser \in BOOLEAN : guarded' = [guarded EXCEPT ![w] = browser]
  /\ Goto(w, "deadletter")
  /\ UNCHANGED <<rowVars, queueVars, job, snap, round, target,
                 requestVars, reaperVars, history>>

\* Turbo replay and Tier 1 (outside) or the browser (inside) got the page.
FetchSucceeds(w) ==
  /\ pc[w] = "fetch"
  /\ \E browser \in BOOLEAN : guarded' = [guarded EXCEPT ![w] = browser]
  /\ Goto(w, "publish")
  /\ UNCHANGED <<rowVars, queueVars, job, snap, round, target,
                 requestVars, reaperVars, history>>

\* push: the entry is added to the stream.  Above the hard memory limit it is
\* dead-lettered instead, or as well when counting the drop fails; neither
\* raises, and no caller looks at the "" that push then returns.
Pushed == IF Saturation THEN {"added", "dropped", "both"} ELSE {"added"}

\* Mutant of PublishPayload: a push that failed goes unnoticed.
PublishUnchecked(w) ==
  /\ pc[w] = "publish"
  /\ published' = published \cup {job[w]} \/ UNCHANGED published
  /\ Goto(w, "store")
  /\ UNCHANGED <<rowVars, queueVars, job, snap, round, target, guarded,
                 requestVars, reaperVars, dropped, deadLettered, reaped, hurt, faults>>

\* The payload is pushed to raw_data_stream.
PublishPayload(w) ==
  /\ pc[w] = "publish"
  /\ \E push \in Pushed :
       /\ published' = IF push = "dropped" THEN published ELSE published \cup {job[w]}
       /\ dropped' = IF push = "added" THEN dropped ELSE dropped \cup {job[w]}
       /\ faults' = IF push = "both" THEN faults + 1 ELSE faults
       /\ push = "both" => faults < MaxFaults
  /\ Goto(w, "store")
  /\ UNCHANGED <<rowVars, queueVars, job, snap, round, target, guarded,
                 requestVars, reaperVars, deadLettered, reaped, hurt>>

\* The HTML artifact is stored, and the job is to become SUCCEEDED.
StoreArtifact(w) ==
  /\ pc[w] = "store"
  /\ StartUpdate(w, "SUCCEEDED")
  /\ UNCHANGED <<rowVars, queueVars, job, snap, guarded,
                 requestVars, reaperVars, history>>

\* push_dlq, and the job is to become FAILED.
DeadLetterJob(w) ==
  /\ pc[w] = "deadletter"
  /\ deadLettered' = deadLettered \cup {job[w]}
  /\ StartUpdate(w, "FAILED")
  /\ UNCHANGED <<rowVars, queueVars, job, snap, guarded,
                 requestVars, reaperVars, published, dropped, reaped, hurt, faults>>

\* The variables of the callback go with it.
EndCallback(w) ==
  /\ Goto(w, "idle")
  /\ job' = [job EXCEPT ![w] = None]
  /\ snap' = [snap EXCEPT ![w] = 0]
  /\ round' = [round EXCEPT ![w] = 1]
  /\ target' = [target EXCEPT ![w] = "RUNNING"]
  /\ guarded' = [guarded EXCEPT ![w] = FALSE]

\* Mutant of Finish: one delivery more than max_retries.
FinishOnceMore(w, ok) ==
  LET j == job[w]
      again == ~ok /\ retry[j] + 1 <= MaxRetries
  IN /\ \E push \in Pushed :
          LET back == again /\ push # "dropped"
          IN /\ delivery' = [delivery EXCEPT ![j] = IF back THEN "ready" ELSE "done"]
             /\ retry' = [retry EXCEPT ![j] = IF back THEN @ + 1 ELSE @]
             /\ deadLettered' = IF ok \/ (again /\ push = "added")
                                THEN deadLettered ELSE deadLettered \cup {j}
     /\ EndCallback(w)

\* The callback ends and the consumer acts on its result: done, pushed again
\* with an incremented retry_count, or dead-lettered as exhausted.
Finish(w, ok) ==
  LET j == job[w]
      again == ~ok /\ retry[j] + 1 < MaxRetries
  IN /\ \E push \in Pushed :
          LET back == again /\ push # "dropped"
          IN /\ delivery' = [delivery EXCEPT ![j] = IF back THEN "ready" ELSE "done"]
             /\ retry' = [retry EXCEPT ![j] = IF back THEN @ + 1 ELSE @]
             /\ deadLettered' = IF ok \/ (again /\ push = "added")
                                THEN deadLettered ELSE deadLettered \cup {j}
     /\ EndCallback(w)

\* A failing push, push_dlq or artifact write.  The browser tier's try block
\* turns it into a dead-lettered job; a failing push_dlq and everything
\* outside the block ends the callback with False.
RaisedFault(w) ==
  /\ faults < MaxFaults
  /\ pc[w] \in {"publish", "store", "deadletter"}
  /\ faults' = faults + 1
  /\ hurt' = hurt \cup {job[w]}
  /\ \/ /\ guarded[w] /\ pc[w] # "deadletter"
        /\ Goto(w, "deadletter")
        /\ UNCHANGED <<queueVars, job, snap, round, target, guarded, deadLettered>>
     \/ /\ ~guarded[w] \/ pc[w] = "deadletter"
        /\ Finish(w, FALSE)
  /\ UNCHANGED <<rowVars, requestVars, reaperVars, published, dropped, reaped>>

\* _complete_attempt records the outcome, whether or not the state update
\* went through, and the callback returns True.
CompleteAttempt(w) ==
  /\ pc[w] = "close"
  /\ UpdateAttempt(job[w], retry[job[w]], target[w])
  /\ Finish(w, TRUE)
  /\ UNCHANGED <<rows, state, version, beat, deletedAt, requestVars, reaperVars,
                 published, dropped, reaped, hurt, faults>>

\* The worker is killed.  Its message keeps its dedup key and is dropped when
\* it is reclaimed, so the job is not delivered again.
Kill(w) ==
  /\ faults < MaxFaults
  /\ pc[w] # "idle"
  /\ faults' = faults + 1
  /\ hurt' = hurt \cup {job[w]}
  /\ delivery' = [delivery EXCEPT ![job[w]] = "done"]
  /\ EndCallback(w)
  /\ UNCHANGED <<rowVars, retry, requestVars, reaperVars,
                 published, dropped, deadLettered, reaped>>

WorkerStep(w) ==
  \/ \E j \in Jobs : Deliver(w, j)
  \/ ReadVersion(w) \/ WriteState(w) \/ CreateAttempt(w) \/ Heartbeat(w)
  \/ FetchFails(w) \/ FetchSucceeds(w) \/ PublishPayload(w) \/ StoreArtifact(w)
  \/ DeadLetterJob(w) \/ CompleteAttempt(w)

-----------------------------------------------------------------------------
(* cancel_job and soft_delete_job: read, decide on what was read, CAS.     *)

Deletable == {"SUCCEEDED", "FAILED", "CANCELLED", "DEAD_LETTERED"}

\* cancel_job leaves a finished job alone, soft_delete_job an unfinished one.
Proceeds(r, s) == IF r \in Cancels THEN s \notin Deletable ELSE s \in Deletable

RequestReads(r, j) ==
  /\ reqPc[r] = "new"
  /\ \/ /\ j \in rows /\ Proceeds(r, state[j])
        /\ reqJob' = [reqJob EXCEPT ![r] = j]
        /\ reqSnap' = [reqSnap EXCEPT ![r] = version[j]]
        /\ reqPc' = [reqPc EXCEPT ![r] = "cas"]
     \/ /\ ~(j \in rows /\ Proceeds(r, state[j]))
        /\ reqPc' = [reqPc EXCEPT ![r] = "done"]
        /\ UNCHANGED <<reqJob, reqSnap>>
  /\ UNCHANGED <<rowVars, queueVars, workerVars, reaperVars, history>>

\* The result is not looked at: the client is told "cancelled" even when the
\* version had moved on.
RequestWrites(r) ==
  /\ reqPc[r] = "cas"
  /\ UpdateJobState(reqJob[r], reqSnap[r], IF r \in Cancels THEN "CANCELLED" ELSE "DELETED")
  /\ deletedAt' = IF r \in Deletes /\ Matches(reqJob[r], reqSnap[r])
                  THEN deletedAt \cup {reqJob[r]} ELSE deletedAt
  /\ reqPc' = [reqPc EXCEPT ![r] = "done"]
  /\ reqJob' = [reqJob EXCEPT ![r] = None]
  /\ reqSnap' = [reqSnap EXCEPT ![r] = 0]
  /\ UNCHANGED <<rows, beat, attempts, queueVars, workerVars, reaperVars, history>>

-----------------------------------------------------------------------------
(* The reaper: one process, its two passes one after the other.            *)

\* 120 seconds without a heartbeat.
BeatExpires(j) ==
  /\ beat[j] = "fresh"
  /\ beat' = [beat EXCEPT ![j] = "stale"]
  /\ UNCHANGED <<rows, state, version, deletedAt, attempts, queueVars,
                 workerVars, requestVars, reaperVars, history>>

\* Mutant of Stale: last_heartbeat_at IS NULL is not stale.
StaleIfBeaten(j) == j \in rows /\ state[j] = "RUNNING" /\ beat[j] = "stale"

Stale(j) == j \in rows /\ state[j] = "RUNNING" /\ beat[j] # "fresh"

FindStaleJobs ==
  /\ reapList = {} /\ purgeList = {}
  /\ \E j \in Jobs : Stale(j)
  /\ reapList' = {[job |-> j, version |-> version[j]] : j \in {k \in Jobs : Stale(k)}}
  /\ UNCHANGED <<rowVars, queueVars, workerVars, requestVars, purgeList, history>>

ReapNext ==
  \E s \in reapList :
    /\ UpdateJobState(s.job, s.version, "FAILED")
    /\ reaped' = IF Matches(s.job, s.version) THEN reaped \cup {s.job} ELSE reaped
    /\ reapList' = reapList \ {s}
    /\ UNCHANGED <<rows, beat, deletedAt, attempts, queueVars, workerVars,
                   requestVars, purgeList, published, dropped, deadLettered, hurt, faults>>

\* purge_expired_jobs selects by deleted_at, outside the write lock, ...
SelectExpired ==
  /\ reapList = {} /\ purgeList = {}
  /\ deletedAt \cap rows # {}
  /\ purgeList' = deletedAt \cap rows
  /\ UNCHANGED <<rowVars, queueVars, workerVars, requestVars, reapList, history>>

\* ... and then deletes attempts and rows in one transaction.
PurgeSelected ==
  /\ purgeList # {}
  /\ rows' = rows \ purgeList
  /\ attempts' = {a \in attempts : a.job \notin purgeList}
  /\ deletedAt' = deletedAt \ purgeList
  /\ purgeList' = {}
  /\ UNCHANGED <<state, version, beat, queueVars, workerVars, requestVars,
                 reapList, history>>

ReaperStep == FindStaleJobs \/ ReapNext \/ SelectExpired \/ PurgeSelected

-----------------------------------------------------------------------------
Next ==
  \/ \E w \in Workers :
       WorkerStep(w) \/ SwallowedFault(w) \/ RaisedFault(w) \/ Kill(w)
  \/ \E r \in Requests : (\E j \in Jobs : RequestReads(r, j)) \/ RequestWrites(r)
  \/ \E j \in Jobs : BeatExpires(j)
  \/ ReaperStep

Spec == Init /\ [][Next]_vars

(* Workers and the reaper loop forever, every await has a timeout, time    *)
(* passes.  Faults, cancellations and deletions need not happen.           *)
Fairness ==
  /\ \A w \in Workers : WF_vars(WorkerStep(w))
  /\ WF_vars(FindStaleJobs \/ ReapNext \/ PurgeSelected)
  /\ \A j \in Jobs : WF_vars(BeatExpires(j))

FairSpec == Spec /\ Fairness

-----------------------------------------------------------------------------
TypeOK ==
  /\ rows \subseteq Jobs
  /\ state \in [Jobs -> JobState]
  /\ version \in [Jobs -> Nat]
  /\ beat \in [Jobs -> {"null", "fresh", "stale"}]
  /\ deletedAt \subseteq Jobs
  /\ attempts \subseteq Attempt
  /\ delivery \in [Jobs -> {"ready", "running", "done"}]
  /\ retry \in [Jobs -> Nat]
  /\ pc \in [Workers -> WorkerPc]
  /\ job \in [Workers -> Jobs \cup {None}]
  /\ \A w \in Workers : (pc[w] = "idle") = (job[w] = None)
  /\ snap \in [Workers -> Nat]
  /\ round \in [Workers -> {1, 2}]
  /\ target \in [Workers -> {"RUNNING", "SUCCEEDED", "FAILED"}]
  /\ guarded \in [Workers -> BOOLEAN]
  /\ reqPc \in [Requests -> {"new", "cas", "done"}]
  /\ reqJob \in [Requests -> Jobs \cup {None}]
  /\ \A r \in Requests : reqPc[r] = "cas" => reqJob[r] \in Jobs
  /\ reqSnap \in [Requests -> Nat]
  /\ reapList \subseteq Snapshot
  /\ purgeList \subseteq Jobs
  /\ published \subseteq Jobs /\ dropped \subseteq Jobs /\ deadLettered \subseteq Jobs
  /\ reaped \subseteq Jobs /\ hurt \subseteq Jobs /\ faults \in Nat

Busy(j) == \E w \in Workers : job[w] = j

(* A cancellation or a deletion is decided on one read and written by a    *)
(* later call, and so is a reaping; yet a finished job is never turned     *)
(* into CANCELLED, an unfinished one never into DELETED, and the reaper    *)
(* fails nothing but a RUNNING job, however the writers interleave.        *)
DecisionsHoldWhenWritten ==
  [][\A j \in Jobs : state'[j] # state[j] =>
       /\ state'[j] = "CANCELLED" => state[j] \notin Deletable
       /\ state'[j] = "DELETED" => state[j] \in Deletable
       /\ j \in reaped' \ reaped => state[j] = "RUNNING"]_vars

(* No outcome is recorded before its message is out, on any fault path: a  *)
(* FAILED job was dead-lettered or reaped, and the payload of a SUCCEEDED  *)
(* one is on the raw data stream or, as _finalize_success does not look at *)
(* what push returns, on that stream's dead-letter queue.                  *)
OutcomeIsBackedByMessage ==
  \A j \in rows :
    /\ state[j] = "SUCCEEDED" => j \in published \cup dropped
    /\ state[j] = "FAILED" => j \in deadLettered \cup reaped

(* A job is left RUNNING by nobody: if no worker is on it and no fault hit *)
(* its worker, it is not RUNNING, in spite of an update that gives up      *)
(* after losing the version race twice.                                    *)
NotLeftRunning ==
  \A j \in rows : state[j] = "RUNNING" => Busy(j) \/ j \in hurt

(* The row and the queue implement JobRecord: every state is written by    *)
(* whom and on the grounds it names, across conflicts, retries and kills,  *)
(* a job is worked on by one worker at a time and no more often than       *)
(* MaxRetries, and only deleted rows are purged.                           *)
Record == INSTANCE JobRecord WITH
  deleted <- deletedAt, retries <- retry, buried <- deadLettered,
  working <- {j \in Jobs : delivery[j] = "running"},
  over    <- {j \in Jobs : delivery[j] = "done"}
RecordSpec == Record!Spec

(* Whatever happened to its worker, a RUNNING job does not stay RUNNING:   *)
(* it ends, or the reaper fails it.                                        *)
RunningEnds ==
  \A j \in Jobs : (state[j] = "RUNNING") ~> (state[j] # "RUNNING" \/ j \notin rows)
=============================================================================
