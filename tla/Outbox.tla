------------------------------- MODULE Outbox -------------------------------
(***************************************************************************)
(* Job submission and the transactional outbox: submit_job (main.py), the  *)
(* unit of work of SqliteJobRepository.transaction(), the outbox table and *)
(* the OutboxRelay that polls it in the API process.                       *)
(*                                                                         *)
(* All writers of the job database share one connection, and whatever      *)
(* commits on it commits every statement pending on it: only the write     *)
(* lock keeps a unit of work together.  The API process may be killed      *)
(* between any two awaited calls, and every database and Valkey call may   *)
(* fail.                                                                   *)
(***************************************************************************)
EXTENDS Integers, FiniteSets

CONSTANTS
  Jobs,         \* job submissions, one POST /jobs each
  None,         \* "nobody holds the write lock"
  BatchSize,    \* DEFAULT_BATCH_SIZE: 20 in the code
  MaxAttempts,  \* max_attempts of _deliver_event: 3 in the code
  MaxRetries,   \* OutboxEvent.max_retries: 10 in the code
  MaxErrors,    \* MAX_CONSECUTIVE_FAILURES: 5 in the code
  Saturation,   \* may Valkey be above its hard memory limit?
  MaxFaults,    \* bound: failing calls
  MaxKills      \* bound: kills of the API process

ASSUME JobsAssumption == IsFiniteSet(Jobs) /\ None \notin Jobs
ASSUME BoundsAssumption ==
  /\ BatchSize \in Nat \ {0} /\ MaxAttempts \in Nat \ {0}
  /\ MaxRetries \in Nat \ {0} /\ MaxErrors \in Nat \ {0}
  /\ Saturation \in BOOLEAN /\ MaxFaults \in Nat /\ MaxKills \in Nat

VARIABLES
  lock,      \* holder of _write_lock
  unsaved,   \* statements executed on the connection and not committed
  jobs,      \* committed rows of jobs
  outbox,    \* committed rows of outbox_events, one per job
  created,   \* column created_at of each event
  status,    \* column status of each event
  retries,   \* column retry_count
  resting,   \* events whose last_attempt_at is less than 10 s ago
  reqPc,     \* what each submission awaits next, or how it was answered
  relayPc,   \* what the relay awaits next
  cur,       \* the event it is delivering
  batch,     \* events it has polled and still to deliver
  attempt,   \* attempt of _deliver_event for cur
  errors,    \* _consecutive_failures
  stream,    \* jobs_stream, as the set of [job, payload] ever pushed
  refused,   \* those push() dead-lettered above the memory limit
  misses,    \* history: failed deliveries of each event
  faults,    \* history: failed calls so far
  kills      \* history: kills so far

dbVars      == <<unsaved, jobs, outbox>>
eventVars   == <<created, status, retries, resting>>
relayVars   == <<relayPc, cur, batch, attempt, errors>>
valkeyVars  == <<stream, refused>>
history     == <<misses, faults, kills>>
vars == <<lock, dbVars, eventVars, reqPc, relayVars, valkeyVars, history>>

Statement == [table : {"jobs", "outbox"}, job : Jobs]
Message   == [job : Jobs, payload : {"job", "event"}]

InTransaction == {"insert", "event", "commit"}
Answered      == {"accepted", "fault", "lost"}

Init ==
  /\ lock = None
  /\ unsaved = {} /\ jobs = {} /\ outbox = {}
  /\ created = [j \in Jobs |-> 0]
  /\ status = [j \in Jobs |-> "PENDING"]
  /\ retries = [j \in Jobs |-> 0]
  /\ resting = {}
  /\ reqPc = [j \in Jobs |-> "new"]
  /\ relayPc = "idle" /\ cur = None /\ batch = {} /\ attempt = 1 /\ errors = 0
  /\ stream = {} /\ refused = {}
  /\ misses = [j \in Jobs |-> 0] /\ faults = 0 /\ kills = 0

Fault == faults < MaxFaults /\ faults' = faults + 1

-----------------------------------------------------------------------------
(* The job database: one connection, one implicit transaction, one lock.   *)

Execute(table, j) == unsaved' = unsaved \cup {[table |-> table, job |-> j]}

\* COMMIT makes everything pending on the connection durable.
CommitAll ==
  /\ jobs' = jobs \cup {s.job : s \in {t \in unsaved : t.table = "jobs"}}
  /\ outbox' = outbox \cup {s.job : s \in {t \in unsaved : t.table = "outbox"}}
  /\ unsaved' = {}

\* Mutant of WriterCommits: a repository write does not take the lock.
WriterCommitsUnlocked ==
  /\ CommitAll
  /\ UNCHANGED <<lock, eventVars, reqPc, relayVars, valkeyVars, history>>

\* Every other write method (heartbeat, update_job_state, ...): lock, execute, commit, unlock.  Its own row is
\* left out; that it commits the connection is what matters.
WriterCommits ==
  /\ lock = None
  /\ CommitAll
  /\ UNCHANGED <<lock, eventVars, reqPc, relayVars, valkeyVars, history>>

-----------------------------------------------------------------------------
(* submit_job.                                                             *)

Goto(j, label) == reqPc' = [reqPc EXCEPT ![j] = label]

Begin(j) ==
  /\ reqPc[j] = "new"
  /\ lock = None
  /\ lock' = j
  /\ Goto(j, "insert")
  /\ UNCHANGED <<dbVars, eventVars, relayVars, valkeyVars, history>>

CreateJob(j) ==
  /\ reqPc[j] = "insert"
  /\ Execute("jobs", j)
  /\ Goto(j, "event")
  /\ UNCHANGED <<lock, jobs, outbox, eventVars, relayVars, valkeyVars, history>>

CreateEvent(j) ==
  /\ reqPc[j] = "event"
  /\ Execute("outbox", j)
  /\ created' = [created EXCEPT ![j] = 1 + Cardinality({k \in Jobs : created[k] > 0})]
  /\ Goto(j, "commit")
  /\ UNCHANGED <<lock, jobs, outbox, status, retries, resting, relayVars, valkeyVars, history>>

Commit(j) ==
  /\ reqPc[j] = "commit"
  /\ CommitAll
  /\ lock' = None
  /\ Goto(j, "push")
  /\ UNCHANGED <<eventVars, relayVars, valkeyVars, history>>

\* A statement fails: the connection is rolled back, the request with it.
Rollback(j) ==
  /\ reqPc[j] \in InTransaction
  /\ Fault
  /\ unsaved' = {}
  /\ lock' = None
  /\ Goto(j, "fault")
  /\ UNCHANGED <<jobs, outbox, eventVars, relayVars, valkeyVars, misses, kills>>

\* push(): above the memory limit the message is dead-lettered and "" is
\* returned, which both callers take for success.
Push(m) ==
  \/ stream' = stream \cup {m} /\ UNCHANGED refused
  \/ Saturation /\ refused' = refused \cup {m} /\ UNCHANGED stream

\* The scrape job is pushed after the commit, under a message id of its own.
PushJob(j) ==
  /\ reqPc[j] = "push"
  /\ Push([job |-> j, payload |-> "job"])
  /\ Goto(j, "accepted")
  /\ UNCHANGED <<lock, dbVars, eventVars, relayVars, history>>

\* The push fails: the client is answered 500, the rows stay.
PushJobFails(j) ==
  /\ reqPc[j] = "push"
  /\ Fault
  /\ Goto(j, "fault")
  /\ UNCHANGED <<lock, dbVars, eventVars, relayVars, valkeyVars, misses, kills>>

Submission(j) == Begin(j) \/ CreateJob(j) \/ CreateEvent(j) \/ Commit(j) \/ PushJob(j)

-----------------------------------------------------------------------------
(* OutboxRelay: run_forever, run_once, _deliver_event.                     *)

\* Mutant of Due: settled events are polled as well.
DueOnceMore == {j \in outbox : j \notin resting}
Due == {j \in outbox : status[j] = "PENDING" /\ j \notin resting}

Oldest(S, n) == {j \in S : Cardinality({k \in S : created[k] < created[j]}) < n}

\* The relay turns to the oldest event of S, or polls again after a pause.
Deliver(S) ==
  /\ attempt' = 1
  /\ \/ S = {} /\ cur' = None /\ batch' = {} /\ relayPc' = "idle"
     \/ \E e \in Oldest(S, 1) : cur' = e /\ batch' = S \ {e} /\ relayPc' = "push"

\* get_pending_events: the oldest due events.
Poll ==
  /\ relayPc = "idle"
  /\ Due # {}
  /\ Deliver(Oldest(Due, BatchSize))
  /\ UNCHANGED <<lock, dbVars, eventVars, reqPc, errors, valkeyVars, history>>

\* The event is wrapped in an envelope of its own payload, not in the
\* scrape job's, and its event id is the message id.
PushEvent ==
  /\ relayPc = "push"
  /\ Push([job |-> cur, payload |-> "event"])
  /\ relayPc' = "mark"
  /\ UNCHANGED <<lock, dbVars, eventVars, reqPc, cur, batch, attempt, errors, history>>

\* The count of consecutive failures is reset when the batch is through.
MarkDelivered ==
  /\ relayPc = "mark"
  /\ status' = [status EXCEPT ![cur] = "DELIVERED"]
  /\ Deliver(batch)
  /\ errors' = IF batch = {} THEN 0 ELSE errors
  /\ UNCHANGED <<lock, dbVars, created, retries, resting, reqPc, valkeyVars, history>>

\* The push or the UPDATE fails: the event is tried again from the push on.
AttemptFails ==
  /\ relayPc \in {"push", "mark"}
  /\ Fault
  /\ misses' = [misses EXCEPT ![cur] = @ + 1]
  /\ \/ /\ attempt < MaxAttempts
        /\ attempt' = attempt + 1
        /\ relayPc' = "push"
     \/ /\ attempt = MaxAttempts
        /\ relayPc' = "fail"
        /\ UNCHANGED attempt
  /\ UNCHANGED <<lock, dbVars, eventVars, reqPc, cur, batch, errors, valkeyVars, kills>>

\* Mutant of MarkFailed: the event is given up at once.
GiveUp ==
  /\ relayPc = "fail"
  /\ status' = [status EXCEPT ![cur] = "FAILED"]
  /\ retries' = [retries EXCEPT ![cur] = @ + 1]
  /\ resting' = resting \cup {cur}
  /\ Deliver(batch)
  /\ errors' = IF batch = {} THEN 0 ELSE errors
  /\ UNCHANGED <<lock, dbVars, created, reqPc, valkeyVars, history>>

\* mark_failed: the event rests for 10 s, and is given up at max_retries.
MarkFailed ==
  /\ relayPc = "fail"
  /\ retries' = [retries EXCEPT ![cur] = @ + 1]
  /\ status' = [status EXCEPT ![cur] = IF retries[cur] + 1 >= MaxRetries THEN "FAILED" ELSE @]
  /\ resting' = resting \cup {cur}
  /\ Deliver(batch)
  /\ errors' = IF batch = {} THEN 0 ELSE errors
  /\ UNCHANGED <<lock, dbVars, created, reqPc, valkeyVars, history>>

\* mark_failed or the poll itself fails: the rest of the batch is abandoned,
\* and the circuit breaker opens after MaxErrors such polls.
PollFails ==
  /\ relayPc \in {"idle", "fail"}
  /\ Fault
  /\ errors' = errors + 1
  /\ cur' = None /\ batch' = {} /\ attempt' = 1
  /\ relayPc' = IF errors + 1 >= MaxErrors THEN "paused" ELSE "idle"
  /\ UNCHANGED <<lock, dbVars, eventVars, reqPc, valkeyVars, misses, kills>>

\* Mutant of Resume: the breaker stays open.
StayPaused ==
  /\ relayPc = "paused"
  /\ UNCHANGED vars

Resume ==
  /\ relayPc = "paused"
  /\ relayPc' = "idle"
  /\ errors' = 0
  /\ UNCHANGED <<lock, dbVars, eventVars, reqPc, cur, batch, attempt, valkeyVars, history>>

RelayStep == Poll \/ PushEvent \/ MarkDelivered \/ MarkFailed \/ Resume

\* 10 s pass since the last attempt.
Rested(j) ==
  /\ j \in resting
  /\ resting' = resting \ {j}
  /\ UNCHANGED <<lock, dbVars, created, status, retries, reqPc, relayVars, valkeyVars, history>>

-----------------------------------------------------------------------------
(* The API process is killed and restarted.  SQLite drops what was not     *)
(* committed; requests under way get no answer; the relay starts afresh.   *)
Kill ==
  /\ kills < MaxKills
  /\ kills' = kills + 1
  /\ unsaved' = {} /\ lock' = None
  /\ reqPc' = [j \in Jobs |-> IF reqPc[j] \in Answered \cup {"new"} THEN reqPc[j] ELSE "lost"]
  /\ relayPc' = "idle" /\ cur' = None /\ batch' = {} /\ attempt' = 1 /\ errors' = 0
  /\ UNCHANGED <<jobs, outbox, eventVars, valkeyVars, misses, faults>>

Next ==
  \/ \E j \in Jobs : Submission(j) \/ Rollback(j) \/ PushJobFails(j) \/ Rested(j)
  \/ WriterCommits
  \/ RelayStep \/ AttemptFails \/ PollFails
  \/ Kill

Spec == Init /\ [][Next]_vars

(* The relay task loops forever and its pauses end.                        *)
Fairness ==
  /\ WF_vars(RelayStep)
  /\ \A j \in Jobs : WF_vars(Rested(j)) /\ WF_vars(Submission(j))

FairSpec == Spec /\ Fairness

-----------------------------------------------------------------------------
TypeOK ==
  /\ lock \in Jobs \cup {None}
  /\ unsaved \subseteq Statement /\ jobs \subseteq Jobs /\ outbox \subseteq Jobs
  /\ created \in [Jobs -> Nat]
  /\ status \in [Jobs -> {"PENDING", "DELIVERED", "FAILED"}]
  /\ retries \in [Jobs -> Nat] /\ resting \subseteq Jobs
  /\ reqPc \in [Jobs -> {"new", "push"} \cup InTransaction \cup Answered]
  /\ relayPc \in {"idle", "push", "mark", "fail", "paused"}
  /\ cur \in Jobs \cup {None} /\ batch \subseteq Jobs
  /\ (relayPc \in {"push", "mark", "fail"}) = (cur # None)
  /\ attempt \in 1 .. MaxAttempts
  /\ errors \in 0 .. MaxErrors /\ (relayPc = "paused") = (errors = MaxErrors)
  /\ stream \subseteq Message /\ refused \subseteq Message
  /\ misses \in [Jobs -> Nat] /\ faults \in Nat /\ kills \in Nat

Sent(j, payload) == [job |-> j, payload |-> payload] \in stream \cup refused

(* A job row is durable if and only if its outbox event is, whoever else   *)
(* commits on the shared connection and wherever a failure or a kill hits. *)
JobAndEventTogether == jobs = outbox

(* Nothing reaches the stream about a job whose row is not durable.        *)
NoMessageWithoutJob == \A m \in stream \cup refused : m.job \in jobs

(* DELIVERED is written only for events that were pushed, whichever of the *)
(* push and the UPDATE fails in between and is tried again.                *)
DeliveredWasSent ==
  \A j \in jobs : status[j] = "DELIVERED" => Sent(j, "event")

(* The outbox implements Mailbox: what the service promises about a job    *)
(* that was submitted, its statements, its messages and its retries, holds *)
(* step by step, and an event that is settled stays settled.               *)
Promise == INSTANCE Mailbox WITH
  rows <- jobs, events <- outbox, sent <- stream \cup refused, missed <- misses,
  delivered <- {j \in Jobs : status[j] = "DELIVERED"},
  abandoned <- {j \in Jobs : status[j] = "FAILED"}
MailboxSpec == Promise!Spec

(* An event is given up only after MaxRetries rounds of MaxAttempts failed *)
(* deliveries: kills and abandoned batches use up no retry.                *)
GivenUpAfterRetries ==
  \A j \in Jobs : status[j] = "FAILED" => misses[j] >= MaxRetries * MaxAttempts

(* Every committed event is delivered or given up: no kill, failing call   *)
(* or open circuit breaker makes the relay forget one.                     *)
EventsResolved == \A j \in Jobs : (j \in jobs) ~> (status[j] # "PENDING")
=============================================================================
