--------------------------- MODULE Outbox_proofs ---------------------------
(***************************************************************************)
(* Proofs about Outbox for every set of jobs, every batch size and retry   *)
(* budget, and every number of faults and kills.                           *)
(*                                                                         *)
(* The argument: the write lock is held from Begin to Commit or Rollback,  *)
(* so the statements pending on the shared connection are exactly those of *)
(* the holder (LockInv), and any other commit finds nothing pending.       *)
(* What the relay has polled is open (OpenInv), so it settles an event     *)
(* once; with what is sent and spent that gives the refinement of Mailbox. *)
(***************************************************************************)
EXTENDS Outbox, FiniteSetTheorems, TLAPS

LEMMA OldestSubset ==
  ASSUME NEW S, NEW n PROVE Oldest(S, n) \subseteq S
BY DEF Oldest

(* The relay takes up events it was given and none else.                   *)
LEMMA DeliverType ==
  ASSUME NEW S \in SUBSET Jobs, Deliver(S)
  PROVE  /\ cur' \in S \cup {None} /\ batch' \subseteq S
         /\ relayPc' \in {"idle", "push"} /\ attempt' = 1
         /\ (relayPc' = "push") = (cur' # None)
BY OldestSubset, JobsAssumption DEF Deliver

LEMMA TypeStep == TypeOK /\ [Next]_vars => TypeOK'
<1> SUFFICES ASSUME TypeOK, [Next]_vars PROVE TypeOK'
  OBVIOUS
<1> USE JobsAssumption, BoundsAssumption
<1>1. ASSUME NEW j \in Jobs, Begin(j) PROVE TypeOK'
  BY <1>1 DEF Begin, Goto, TypeOK, InTransaction, Answered, dbVars, eventVars,
              relayVars, valkeyVars, history
<1>2. ASSUME NEW j \in Jobs, CreateJob(j) PROVE TypeOK'
  BY <1>2 DEF CreateJob, Execute, Goto, TypeOK, Statement, InTransaction, Answered,
              eventVars, relayVars, valkeyVars, history
<1>3. ASSUME NEW j \in Jobs, CreateEvent(j) PROVE TypeOK'
  <2>1. Cardinality({k \in Jobs : created[k] > 0}) \in Nat
    BY FS_CardinalityType, FS_Subset
  <2>2. created' \in [Jobs -> Nat]
    BY <1>3, <2>1 DEF CreateEvent, TypeOK
  <2>3. QED
    BY <1>3, <2>2 DEF CreateEvent, Execute, Goto, TypeOK, Statement, InTransaction,
                      Answered, relayVars, valkeyVars, history
<1>4. ASSUME CommitAll PROVE jobs' \subseteq Jobs /\ outbox' \subseteq Jobs /\ unsaved' = {}
  BY <1>4 DEF CommitAll, TypeOK, Statement
<1>5. ASSUME NEW j \in Jobs, Commit(j) PROVE TypeOK'
  BY <1>4, <1>5 DEF Commit, Goto, TypeOK, InTransaction, Answered, eventVars,
                    relayVars, valkeyVars, history
<1>6. ASSUME NEW j \in Jobs, Rollback(j) PROVE TypeOK'
  BY <1>6 DEF Rollback, Fault, Goto, TypeOK, InTransaction, Answered, eventVars,
              relayVars, valkeyVars
<1>7. ASSUME NEW j \in Jobs, PushJob(j) PROVE TypeOK'
  BY <1>7 DEF PushJob, Push, Goto, TypeOK, Message, InTransaction, Answered, dbVars,
              eventVars, relayVars, history
<1>8. ASSUME NEW j \in Jobs, PushJobFails(j) PROVE TypeOK'
  BY <1>8 DEF PushJobFails, Fault, Goto, TypeOK, InTransaction, Answered, dbVars,
              eventVars, relayVars, valkeyVars
<1>9. ASSUME NEW j \in Jobs, Rested(j) PROVE TypeOK'
  BY <1>9 DEF Rested, TypeOK, dbVars, relayVars, valkeyVars, history
<1>10. CASE WriterCommits
  BY <1>4, <1>10 DEF WriterCommits, TypeOK, eventVars, relayVars, valkeyVars, history
<1>11. CASE Poll
  <2>1. Oldest(Due, BatchSize) \in SUBSET Jobs
    BY OldestSubset DEF Due, TypeOK
  <2>2. QED
    BY <1>11, <2>1, DeliverType DEF Poll, TypeOK, dbVars, eventVars, valkeyVars, history
<1>12. CASE PushEvent
  BY <1>12 DEF PushEvent, Push, TypeOK, Message, dbVars, eventVars, history
<1>13. CASE MarkDelivered
  <2>1. /\ cur' \in batch \cup {None} /\ batch' \subseteq batch
        /\ relayPc' \in {"idle", "push"} /\ attempt' = 1
        /\ (relayPc' = "push") = (cur' # None)
    BY <1>13, DeliverType DEF MarkDelivered, TypeOK
  <2>2. QED
    BY <1>13, <2>1 DEF MarkDelivered, TypeOK, dbVars, valkeyVars, history
<1>14. CASE MarkFailed
  <2>1. /\ cur' \in batch \cup {None} /\ batch' \subseteq batch
        /\ relayPc' \in {"idle", "push"} /\ attempt' = 1
        /\ (relayPc' = "push") = (cur' # None)
    BY <1>14, DeliverType DEF MarkFailed, TypeOK
  <2>2. QED
    BY <1>14, <2>1 DEF MarkFailed, TypeOK, dbVars, valkeyVars, history
<1>15. CASE Resume
  BY <1>15 DEF Resume, TypeOK, dbVars, eventVars, valkeyVars, history
<1>16. CASE AttemptFails
  BY <1>16 DEF AttemptFails, Fault, TypeOK, dbVars, eventVars, valkeyVars
<1>17. CASE PollFails
  <2>1. errors' \in 0 .. MaxErrors
    BY <1>17 DEF PollFails, TypeOK
  <2>2. QED
    BY <1>17, <2>1 DEF PollFails, Fault, TypeOK, dbVars, eventVars, valkeyVars
<1>18. CASE Kill
  BY <1>18 DEF Kill, TypeOK, InTransaction, Answered, eventVars, valkeyVars
<1>19. CASE UNCHANGED vars
  BY <1>19 DEF vars, TypeOK, dbVars, eventVars, relayVars, valkeyVars, history
<1>20. QED
  BY <1>1, <1>2, <1>3, <1>5, <1>6, <1>7, <1>8, <1>9, <1>10, <1>11, <1>12, <1>13,
     <1>14, <1>15, <1>16, <1>17, <1>18, <1>19 DEF Next, Submission, RelayStep

(* Every variable keeps its type.                                          *)
THEOREM TypeCorrect == Spec => []TypeOK
<1>1. Init => TypeOK
  BY JobsAssumption, BoundsAssumption DEF Init, TypeOK
<1>2. QED
  BY <1>1, TypeStep, PTL DEF Spec

-----------------------------------------------------------------------------
\* What the unit of work of job j has put on the connection.
Written(j) ==
  IF reqPc[j] = "insert" THEN {}
  ELSE IF reqPc[j] = "event" THEN {[table |-> "jobs", job |-> j]}
  ELSE {[table |-> "jobs", job |-> j], [table |-> "outbox", job |-> j]}

LockInv ==
  /\ \A j \in Jobs : (reqPc[j] \in InTransaction) = (lock = j)
  /\ lock = None => unsaved = {}
  /\ lock # None => unsaved = Written(lock)

DurableInv == LockInv /\ JobAndEventTogether

(* A commit makes the job and its event durable, and nothing else.         *)
LEMMA CommitTogether ==
  ASSUME DurableInv, NEW j \in Jobs, Commit(j)
  PROVE  jobs' = jobs \cup {j} /\ outbox' = outbox \cup {j} /\ unsaved' = {}
<1> DEFINE J == [table |-> "jobs", job |-> j]
           E == [table |-> "outbox", job |-> j]
<1>1. J.table = "jobs" /\ J.job = j /\ E.table = "outbox" /\ E.job = j
  OBVIOUS
<1>2. lock = j /\ unsaved = {J, E}
  BY JobsAssumption DEF Commit, DurableInv, LockInv, Written, InTransaction
<1> HIDE DEF J, E
<1>3. {t \in unsaved : t.table = "jobs"} = {J} /\ {t \in unsaved : t.table = "outbox"} = {E}
  BY <1>1, <1>2
<1>4. {s.job : s \in {J}} = {j} /\ {s.job : s \in {E}} = {j}
  BY <1>1
<1> QED
  BY <1>3, <1>4 DEF Commit, CommitAll

LEMMA DurableStep == TypeOK /\ DurableInv /\ [Next]_vars => DurableInv'
<1> SUFFICES ASSUME TypeOK, DurableInv, [Next]_vars PROVE DurableInv'
  OBVIOUS
<1> USE JobsAssumption DEF InTransaction
<1>1. ASSUME NEW j \in Jobs, Begin(j) PROVE DurableInv'
  BY <1>1 DEF Begin, Goto, TypeOK, DurableInv, LockInv, Written, JobAndEventTogether, dbVars
<1>2. ASSUME NEW j \in Jobs, CreateJob(j) PROVE DurableInv'
  <2>1. lock = j /\ unsaved = {}
    BY <1>2 DEF CreateJob, DurableInv, LockInv, Written
  <2>2. /\ unsaved' = {[table |-> "jobs", job |-> j]} /\ lock' = lock
        /\ reqPc'[j] = "event" /\ \A k \in Jobs \ {j} : reqPc'[k] = reqPc[k]
    BY <1>2, <2>1 DEF CreateJob, Execute, Goto, TypeOK
  <2>3. LockInv'
    BY <2>1, <2>2 DEF DurableInv, LockInv, Written
  <2>4. QED
    BY <1>2, <2>3 DEF CreateJob, DurableInv, JobAndEventTogether
<1>3. ASSUME NEW j \in Jobs, CreateEvent(j) PROVE DurableInv'
  <2>1. lock = j /\ unsaved = {[table |-> "jobs", job |-> j]}
    BY <1>3 DEF CreateEvent, DurableInv, LockInv, Written
  <2>2. /\ unsaved' = {[table |-> "jobs", job |-> j], [table |-> "outbox", job |-> j]}
        /\ lock' = lock
        /\ reqPc'[j] = "commit" /\ \A k \in Jobs \ {j} : reqPc'[k] = reqPc[k]
    BY <1>3, <2>1 DEF CreateEvent, Execute, Goto, TypeOK
  <2>3. LockInv'
    BY <2>1, <2>2 DEF DurableInv, LockInv, Written
  <2>4. QED
    BY <1>3, <2>3 DEF CreateEvent, DurableInv, JobAndEventTogether
<1>4. ASSUME NEW j \in Jobs, Commit(j) PROVE DurableInv'
  <2>1. lock = j
    BY <1>4 DEF Commit, DurableInv, LockInv
  <2>2. jobs' = jobs \cup {j} /\ outbox' = outbox \cup {j} /\ unsaved' = {}
    BY <1>4, CommitTogether
  <2>3. LockInv'
    BY <1>4, <2>1, <2>2 DEF Commit, Goto, TypeOK, DurableInv, LockInv
  <2>4. QED
    BY <2>2, <2>3 DEF DurableInv, JobAndEventTogether
<1>5. CASE WriterCommits
  <2>1. unsaved = {} /\ lock = None
    BY <1>5 DEF WriterCommits, DurableInv, LockInv
  <2>2. jobs' = jobs /\ outbox' = outbox /\ unsaved' = {}
    BY <1>5, <2>1 DEF WriterCommits, CommitAll
  <2>3. QED
    BY <1>5, <2>1, <2>2 DEF WriterCommits, DurableInv, LockInv, JobAndEventTogether
<1>6. ASSUME NEW j \in Jobs, Rollback(j) PROVE DurableInv'
  BY <1>6 DEF Rollback, Goto, TypeOK, DurableInv, LockInv, JobAndEventTogether
<1>7. ASSUME NEW j \in Jobs, PushJob(j) \/ PushJobFails(j) PROVE DurableInv'
  <2>1. /\ reqPc[j] = "push" /\ reqPc'[j] \in {"accepted", "fault"}
        /\ \A k \in Jobs \ {j} : reqPc'[k] = reqPc[k]
        /\ lock' = lock /\ unsaved' = unsaved /\ jobs' = jobs /\ outbox' = outbox
    BY <1>7 DEF PushJob, PushJobFails, Goto, TypeOK, dbVars
  <2>2. lock # j
    BY <2>1 DEF DurableInv, LockInv
  <2>3. lock # None => Written(lock)' = Written(lock)
    BY <2>1, <2>2 DEF Written, TypeOK
  <2>4. LockInv'
    BY <2>1, <2>2, <2>3 DEF DurableInv, LockInv
  <2>5. QED
    BY <2>1, <2>4 DEF DurableInv, JobAndEventTogether
<1>8. CASE Kill
  BY <1>8 DEF Kill, Answered, TypeOK, DurableInv, LockInv, JobAndEventTogether
<1>9. CASE UNCHANGED <<lock, dbVars, reqPc>>
  BY <1>9 DEF DurableInv, LockInv, Written, JobAndEventTogether, dbVars
<1>10. QED
  BY <1>1, <1>2, <1>3, <1>4, <1>5, <1>6, <1>7, <1>8, <1>9 DEF Next, Submission,
     RelayStep, Rested, Poll, PushEvent, MarkDelivered, MarkFailed, Resume,
     AttemptFails, PollFails, vars

LEMMA DurableInvariant == Spec => []DurableInv
<1>1. Init => DurableInv
  BY JobsAssumption DEF Init, DurableInv, LockInv, InTransaction, JobAndEventTogether
<1>2. QED
  BY <1>1, DurableStep, TypeCorrect, PTL DEF Spec

(* The job row and its outbox event are durable together or not at all.    *)
THEOREM UnitOfWork == Spec => []JobAndEventTogether
<1>1. DurableInv => JobAndEventTogether
  BY DEF DurableInv
<1>2. QED
  BY <1>1, DurableInvariant, PTL

-----------------------------------------------------------------------------
(* A failure or a kill never takes a committed row or a message back.      *)
LEMMA Durable ==
  ASSUME TypeOK, [Next]_vars
  PROVE  /\ jobs \subseteq jobs' /\ outbox \subseteq outbox'
         /\ stream \subseteq stream' /\ refused \subseteq refused'
BY DEF Next, Submission, RelayStep, vars, dbVars, valkeyVars, CommitAll, Push,
   Begin, CreateJob, CreateEvent, Commit, Rollback, PushJob, PushJobFails, Rested,
   WriterCommits, Poll, PushEvent, MarkDelivered, MarkFailed, Resume, AttemptFails,
   PollFails, Kill

MessageInv ==
  /\ \A j \in Jobs : reqPc[j] = "push" => j \in jobs
  /\ batch \subseteq outbox /\ (cur # None => cur \in outbox)
  /\ NoMessageWithoutJob

LEMMA MessageStep == TypeOK /\ DurableInv /\ MessageInv /\ [Next]_vars => MessageInv'
<1> SUFFICES ASSUME TypeOK, DurableInv, MessageInv, [Next]_vars PROVE MessageInv'
  OBVIOUS
<1>1. jobs \subseteq jobs' /\ outbox \subseteq outbox'
  BY Durable
<1>2. ASSUME NEW j \in Jobs, reqPc'[j] = "push" PROVE j \in jobs'
  <2>1. CASE reqPc[j] = "push"
    BY <1>1, <2>1 DEF MessageInv
  <2>2. CASE reqPc[j] # "push"
    <3>1. Commit(j)
      BY <1>2, <2>2, ZenonT(40) DEF TypeOK, Next, Submission, RelayStep, vars, Goto,
         Begin, CreateJob, CreateEvent, Commit, Rollback, PushJob, PushJobFails,
         Rested, WriterCommits, Poll, PushEvent, MarkDelivered, MarkFailed, Resume,
         AttemptFails, PollFails, Kill, Answered
    <3>2. [table |-> "jobs", job |-> j] \in unsaved
      BY <3>1, JobsAssumption DEF Commit, DurableInv, LockInv, Written, InTransaction
    <3>3. j \in {s.job : s \in {t \in unsaved : t.table = "jobs"}}
      BY <3>2
    <3>4. QED
      BY <3>1, <3>3 DEF Commit, CommitAll
  <2>3. QED
    BY <2>1, <2>2
<1>3. batch' \subseteq outbox' /\ (cur' # None => cur' \in outbox')
  <2>1. ASSUME NEW S \in SUBSET outbox, Deliver(S)
        PROVE  batch' \subseteq outbox /\ (cur' # None => cur' \in outbox)
    BY <2>1, OldestSubset DEF Deliver
  <2>2. CASE Poll
    BY <1>1, <2>1, <2>2, OldestSubset DEF Poll, Due
  <2>3. CASE MarkDelivered \/ MarkFailed
    BY <1>1, <2>1, <2>3 DEF MarkDelivered, MarkFailed, MessageInv
  <2>4. CASE PollFails \/ Kill
    BY <2>4 DEF PollFails, Kill
  <2>5. CASE UNCHANGED <<cur, batch>>
    BY <1>1, <2>5 DEF MessageInv
  <2>6. QED
    BY <2>2, <2>3, <2>4, <2>5 DEF Next, Submission, RelayStep, vars, relayVars,
       Begin, CreateJob, CreateEvent, Commit, Rollback, PushJob, PushJobFails,
       Rested, WriterCommits, PushEvent, Resume, AttemptFails
<1>4. \A m \in stream' \cup refused' : m \in stream \cup refused \/ m.job \in jobs
  <2>1. ASSUME NEW j \in Jobs, PushJob(j)
        PROVE  \A m \in stream' \cup refused' : m \in stream \cup refused \/ m.job \in jobs
    BY <2>1 DEF PushJob, Push, MessageInv
  <2>2. CASE PushEvent
    <3>1. cur \in jobs
      BY <2>2 DEF PushEvent, TypeOK, MessageInv, DurableInv, JobAndEventTogether
    <3>2. QED
      BY <2>2, <3>1 DEF PushEvent, Push
  <2>3. CASE UNCHANGED valkeyVars
    BY <2>3 DEF valkeyVars
  <2>4. QED
    BY <2>1, <2>2, <2>3 DEF Next, Submission, RelayStep, vars,
       Begin, CreateJob, CreateEvent, Commit, Rollback, PushJobFails, Rested,
       WriterCommits, Poll, MarkDelivered, MarkFailed, Resume, AttemptFails,
       PollFails, Kill
<1>5. NoMessageWithoutJob'
  BY <1>1, <1>4 DEF MessageInv, NoMessageWithoutJob
<1>6. QED
  BY <1>2, <1>3, <1>5 DEF MessageInv

LEMMA MessageInvariant == Spec => []MessageInv
<1>1. Init => MessageInv
  BY DEF Init, MessageInv, NoMessageWithoutJob
<1> QED
  BY <1>1, MessageStep, TypeCorrect, DurableInvariant, PTL DEF Spec

(* No message is ever about a job that a failure rolled back.              *)
THEOREM MessagesHaveJobs == Spec => []NoMessageWithoutJob
<1>1. MessageInv => NoMessageWithoutJob
  BY DEF MessageInv
<1> QED
  BY <1>1, MessageInvariant, PTL

-----------------------------------------------------------------------------
SentInv ==
  /\ relayPc = "mark" => Sent(cur, "event")
  /\ \A j \in Jobs : status[j] = "DELIVERED" => Sent(j, "event")

LEMMA SentStep == TypeOK /\ SentInv /\ [Next]_vars => SentInv'
<1> SUFFICES ASSUME TypeOK, SentInv, [Next]_vars PROVE SentInv'
  OBVIOUS
<1>1. \A j, p : Sent(j, p) => Sent(j, p)'
  BY Durable DEF Sent
<1>2. ASSUME NEW j \in Jobs, status'[j] = "DELIVERED" PROVE Sent(j, "event")'
  <2>1. CASE status[j] = "DELIVERED"
    BY <1>1, <2>1 DEF SentInv
  <2>2. CASE status[j] # "DELIVERED"
    <3>1. MarkDelivered /\ j = cur
      BY <1>2, <2>2 DEF TypeOK, Next, Submission, RelayStep, vars, eventVars,
         Begin, CreateJob, CreateEvent, Commit, Rollback, PushJob, PushJobFails,
         Rested, WriterCommits, Poll, PushEvent, MarkDelivered, MarkFailed, Resume,
         AttemptFails, PollFails, Kill
    <3>2. QED
      BY <1>1, <3>1 DEF MarkDelivered, SentInv
  <2>3. QED
    BY <2>1, <2>2
<1>3. relayPc' = "mark" => Sent(cur, "event")'
  <2>1. CASE PushEvent
    BY <2>1 DEF PushEvent, Push, Sent
  <2>2. CASE relayPc' # "mark"
    BY <2>2
  <2>3. CASE UNCHANGED <<relayPc, cur>>
    BY <1>1, <2>3 DEF SentInv, Sent
  <2>4. ASSUME NEW S, Deliver(S) PROVE relayPc' # "mark"
    BY <2>4 DEF Deliver
  <2>5. QED
    BY <2>1, <2>2, <2>3, <2>4 DEF Next, Submission, RelayStep, vars, relayVars,
       Begin, CreateJob, CreateEvent, Commit, Rollback, PushJob, PushJobFails,
       Rested, WriterCommits, Poll, MarkDelivered, MarkFailed, Resume,
       AttemptFails, PollFails, Kill
<1>4. QED
  BY <1>2, <1>3 DEF SentInv

LEMMA SentInvariant == Spec => []SentInv
<1>1. Init => SentInv
  BY DEF Init, SentInv
<1> QED
  BY <1>1, SentStep, TypeCorrect, PTL DEF Spec

(* An event marked DELIVERED was pushed (or dead-lettered by the push).    *)
THEOREM DeliveredSent == Spec => []DeliveredWasSent
<1>1. TypeOK /\ SentInv => DeliveredWasSent
  BY DEF SentInv, DeliveredWasSent, TypeOK
<1> QED
  BY <1>1, SentInvariant, TypeCorrect, PTL

-----------------------------------------------------------------------------
\* Failed deliveries of the round under way.
Spent(j) == IF cur # j THEN 0 ELSE IF relayPc = "fail" THEN MaxAttempts ELSE attempt - 1

BudgetInv ==
  \A j \in Jobs :
    /\ misses[j] >= retries[j] * MaxAttempts + Spent(j)
    /\ status[j] = "FAILED" => retries[j] >= MaxRetries

LEMMA BudgetStep == TypeOK /\ BudgetInv /\ [Next]_vars => BudgetInv'
<1> SUFFICES ASSUME TypeOK, BudgetInv, [Next]_vars, NEW j \in Jobs
             PROVE  /\ misses'[j] >= retries'[j] * MaxAttempts + Spent(j)'
                    /\ status'[j] = "FAILED" => retries'[j] >= MaxRetries
  BY DEF BudgetInv, Spent
<1> DEFINE product == retries[j] * MaxAttempts
<1>1. /\ misses[j] \in Nat /\ retries[j] \in Nat /\ MaxAttempts \in Nat \ {0}
      /\ MaxRetries \in Nat /\ attempt \in 1 .. MaxAttempts
  BY BoundsAssumption DEF TypeOK
<1>2. product \in Nat /\ (retries[j] + 1) * MaxAttempts = product + MaxAttempts
  BY <1>1
<1>3. misses[j] >= product + Spent(j) /\ (status[j] = "FAILED" => retries[j] >= MaxRetries)
  BY DEF BudgetInv
<1>4. Spent(j) \in Nat
  BY <1>1 DEF Spent
<1>5. ASSUME NEW S, Deliver(S) PROVE Spent(j)' = 0
  BY <1>5 DEF Deliver, Spent
<1>6. CASE MarkFailed
  <2>1. Spent(j)' = 0
    BY <1>5, <1>6 DEF MarkFailed
  <2>2. CASE j = cur
    <3>1. /\ Spent(j) = MaxAttempts /\ retries'[j] = retries[j] + 1 /\ misses' = misses
          /\ status'[j] = IF retries[j] + 1 >= MaxRetries THEN "FAILED" ELSE status[j]
      BY <1>6, <2>2 DEF MarkFailed, Spent, TypeOK, history
    <3> HIDE DEF product
    <3>2. misses'[j] >= product + MaxAttempts
      BY <1>3, <3>1
    <3>3. retries'[j] * MaxAttempts = product + MaxAttempts
      BY <1>2, <3>1
    <3>4. retries'[j] >= retries[j]
      BY <1>1, <3>1
    <3>5. QED
      BY <1>1, <1>2, <1>3, <2>1, <3>1, <3>2, <3>3, <3>4
  <2>3. CASE j # cur
    <3>1. retries'[j] = retries[j] /\ misses'[j] = misses[j] /\ status'[j] = status[j]
      BY <1>6, <2>3 DEF MarkFailed, TypeOK, history
    <3> HIDE DEF product
    <3>2. QED
      BY <1>1, <1>2, <1>3, <1>4, <2>1, <3>1 DEF product
  <2>4. QED
    BY <2>2, <2>3
<1>7. CASE AttemptFails
  <2>1. retries' = retries /\ status' = status /\ cur' = cur
    BY <1>7 DEF AttemptFails, eventVars
  <2>2. misses'[j] = IF cur = j THEN misses[j] + 1 ELSE misses[j]
    BY <1>7 DEF AttemptFails, TypeOK
  <2>3. cur = j => Spent(j)' <= Spent(j) + 1
    BY <1>1, <1>7, <2>1 DEF AttemptFails, Spent
  <2>4. cur # j => Spent(j)' = Spent(j)
    BY <2>1 DEF Spent
  <2>5. Spent(j)' \in Nat
    BY <1>1, <1>7 DEF AttemptFails, Spent
  <2> HIDE DEF product
  <2>6. misses'[j] >= product + Spent(j)'
    BY <1>1, <1>2, <1>3, <1>4, <2>2, <2>3, <2>4, <2>5
  <2>7. QED
    BY <1>3, <2>1, <2>6 DEF product
<1>8. CASE UNCHANGED <<misses, retries>> /\ Spent(j)' \in {0, Spent(j)}
           /\ (status'[j] = "FAILED" => status[j] = "FAILED")
  <2>1. retries'[j] * MaxAttempts = product /\ misses'[j] = misses[j]
    BY <1>8
  <2> HIDE DEF product
  <2>2. misses'[j] >= product + Spent(j)'
    BY <1>1, <1>2, <1>3, <1>4, <1>8
  <2>3. QED
    BY <1>3, <1>8, <2>1, <2>2
<1>9. UNCHANGED <<relayPc, cur, attempt>> => Spent(j)' = Spent(j)
  BY DEF Spent
<1>10. CASE Poll \/ MarkDelivered
  BY <1>5, <1>8, <1>10 DEF Poll, MarkDelivered, eventVars, history, TypeOK
<1>11. CASE PushEvent
  BY <1>8, <1>11 DEF PushEvent, Spent, eventVars, history
<1>12. CASE PollFails \/ Kill
  <2>1. Spent(j)' = 0
    BY <1>12, JobsAssumption DEF PollFails, Kill, Spent
  <2>2. QED
    BY <1>8, <1>12, <2>1 DEF PollFails, Kill, eventVars
<1>13. CASE Resume
  <2>1. Spent(j)' = Spent(j)
    BY <1>13 DEF Resume, Spent
  <2>2. QED
    BY <1>8, <1>13, <2>1 DEF Resume, eventVars, history
<1>14. CASE UNCHANGED <<relayPc, cur, attempt, misses, retries, status>>
  BY <1>8, <1>9, <1>14
<1>15. QED
  BY <1>6, <1>7, <1>10, <1>11, <1>12, <1>13, <1>14 DEF Next, Submission, RelayStep,
     vars, relayVars, eventVars, history, Begin, CreateJob, CreateEvent, Commit,
     Rollback, PushJob, PushJobFails, Rested, WriterCommits

(* An event is given up only after its whole budget of failed deliveries.  *)
THEOREM GivenUpLate == Spec => []GivenUpAfterRetries
<1>1. Init => BudgetInv
  BY JobsAssumption, BoundsAssumption DEF Init, BudgetInv, Spent
<1>2. TypeOK /\ BudgetInv => GivenUpAfterRetries
  <2> SUFFICES ASSUME TypeOK, BudgetInv, NEW j \in Jobs, status[j] = "FAILED"
               PROVE  misses[j] >= MaxRetries * MaxAttempts
    BY DEF GivenUpAfterRetries
  <2>1. /\ misses[j] \in Nat /\ retries[j] \in Nat /\ MaxAttempts \in Nat
        /\ MaxRetries \in Nat /\ Spent(j) \in Nat /\ retries[j] >= MaxRetries
    BY BoundsAssumption DEF TypeOK, BudgetInv, Spent
  <2>2. PICK d \in Nat : retries[j] = MaxRetries + d
    BY <2>1
  <2>3. retries[j] * MaxAttempts = MaxRetries * MaxAttempts + d * MaxAttempts
    BY <2>1, <2>2
  <2>4. /\ d * MaxAttempts \in Nat /\ MaxRetries * MaxAttempts \in Nat
        /\ retries[j] * MaxAttempts \in Nat
    BY <2>1
  <2>5. misses[j] >= retries[j] * MaxAttempts + Spent(j)
    BY DEF BudgetInv
  <2>6. QED
    BY <2>1, <2>3, <2>4, <2>5
<1>3. QED
  BY <1>1, <1>2, BudgetStep, TypeCorrect, PTL DEF Spec

-----------------------------------------------------------------------------
(* The refinement: every step of the API process is a step of Mailbox or   *)
(* leaves what was submitted, sent and settled unchanged.                  *)

(* What the relay has polled is open: it alone settles events, takes each  *)
(* up once per poll, and forgets them when it is killed.                   *)
OpenInv ==
  /\ cur # None => status[cur] = "PENDING" /\ cur \notin batch
  /\ \A e \in batch : status[e] = "PENDING"

LEMMA OpenStep == TypeOK /\ OpenInv /\ [Next]_vars => OpenInv'
<1> SUFFICES ASSUME TypeOK, OpenInv, [Next]_vars PROVE OpenInv'
  OBVIOUS
<1>1. ASSUME NEW S \in SUBSET Jobs, Deliver(S), \A e \in S : status'[e] = "PENDING" PROVE OpenInv'
  <2>1. (cur' # None => cur' \in S) /\ batch' \subseteq S \ {cur'}
    BY <1>1, OldestSubset, JobsAssumption DEF Deliver
  <2> QED
    BY <1>1, <2>1 DEF OpenInv
<1>2. CASE Poll
  <2>1. Oldest(Due, BatchSize) \subseteq Due
    BY OldestSubset
  <2>2. \A e \in Oldest(Due, BatchSize) : e \in Jobs /\ status'[e] = "PENDING"
    BY <1>2, <2>1 DEF Poll, Due, eventVars, TypeOK
  <2> QED
    BY <1>1, <1>2, <2>2 DEF Poll
<1>3. CASE MarkDelivered \/ MarkFailed
  <2>1. cur \notin batch /\ batch \subseteq Jobs /\ \A e \in batch : status[e] = "PENDING"
    BY <1>3 DEF MarkDelivered, MarkFailed, OpenInv, TypeOK
  <2>2. \A e \in batch : status'[e] = "PENDING"
    BY <1>3, <2>1 DEF MarkDelivered, MarkFailed, TypeOK
  <2> QED
    BY <1>1, <1>3, <2>1, <2>2 DEF MarkDelivered, MarkFailed
<1>4. CASE PollFails \/ Kill
  BY <1>4 DEF PollFails, Kill, OpenInv
<1>5. CASE UNCHANGED <<cur, batch, status>>
  BY <1>5 DEF OpenInv
<1> QED
  BY <1>2, <1>3, <1>4, <1>5 DEF Next, Submission, RelayStep, vars, relayVars, eventVars, Begin, CreateJob,
     CreateEvent, Commit, Rollback, PushJob, PushJobFails, Rested, WriterCommits, PushEvent, Resume, AttemptFails

LEMMA OpenInvariant == Spec => []OpenInv
<1>1. Init => OpenInv
  BY DEF Init, OpenInv
<1> QED
  BY <1>1, OpenStep, TypeCorrect, PTL DEF Spec

Delivered == {j \in Jobs : status[j] = "DELIVERED"}
Abandoned == {j \in Jobs : status[j] = "FAILED"}

\* What Mailbox sees of a state.
seen == <<jobs, outbox, stream \cup refused, Delivered, Abandoned, misses>>

LEMMA MailboxStep ==
  TypeOK /\ DurableInv /\ MessageInv /\ SentInv /\ OpenInv /\ GivenUpAfterRetries' /\ [Next]_vars
    => [Promise!Next]_seen
<1> SUFFICES ASSUME TypeOK, DurableInv, MessageInv, SentInv, OpenInv, GivenUpAfterRetries', [Next]_vars
             PROVE  [Promise!Next]_seen
  OBVIOUS
<1> USE JobsAssumption
<1>0. ASSUME NEW j \in Jobs,
             \/ Promise!Submit(j) \/ Promise!Miss(j) \/ Promise!Settle(j) \/ Promise!GiveUp(j)
             \/ \E payload \in {"job", "event"} : Promise!Send(j, payload)
      PROVE  Promise!Next
  BY <1>0 DEF Promise!Next
<1>1. ASSUME NEW j \in Jobs, Begin(j) \/ CreateJob(j) \/ CreateEvent(j) \/ Rollback(j) \/ PushJobFails(j) \/ Rested(j)
      PROVE  UNCHANGED seen
  BY <1>1 DEF Begin, CreateJob, CreateEvent, Rollback, PushJobFails, Rested, seen, Delivered, Abandoned,
              dbVars, eventVars, valkeyVars, history
<1>2. ASSUME NEW j \in Jobs, Commit(j) PROVE UNCHANGED seen \/ Promise!Submit(j)
  <2>1. jobs' = jobs \cup {j} /\ outbox' = outbox \cup {j}
    BY <1>2, CommitTogether
  <2>2. UNCHANGED <<stream \cup refused, Delivered, Abandoned, misses>>
    BY <1>2 DEF Commit, eventVars, valkeyVars, history, Delivered, Abandoned
  <2>3. CASE j \in jobs
    BY <2>1, <2>2, <2>3 DEF seen, DurableInv, JobAndEventTogether
  <2>4. CASE j \notin jobs
    BY <2>1, <2>2, <2>4 DEF Promise!Submit, Delivered, Abandoned
  <2> QED
    BY <2>3, <2>4
<1>3. ASSUME NEW m, Push(m), UNCHANGED <<jobs, outbox, status, misses>>,
             m.job \in jobs, m.payload \in {"job", "event"}, m = [job |-> m.job, payload |-> m.payload]
      PROVE  \E payload \in {"job", "event"} : Promise!Send(m.job, payload)
  <2>1. stream' \cup refused' = (stream \cup refused) \cup {m}
    BY <1>3 DEF Push
  <2>2. UNCHANGED <<Delivered, Abandoned>>
    BY <1>3 DEF Delivered, Abandoned
  <2> QED
    BY <1>3, <2>1, <2>2 DEF Promise!Send, Delivered, Abandoned
<1>4. ASSUME NEW j \in Jobs, PushJob(j) PROVE \E payload \in {"job", "event"} : Promise!Send(j, payload)
  <2> DEFINE m == [job |-> j, payload |-> "job"]
  <2>1. m.job = j /\ m.payload = "job" /\ j \in jobs
    BY <1>4 DEF PushJob, MessageInv
  <2>2. Push(m) /\ UNCHANGED <<jobs, outbox, status, misses>>
    BY <1>4 DEF PushJob, dbVars, eventVars, history
  <2> HIDE DEF m
  <2> QED
    BY <1>3, <2>1, <2>2 DEF m
<1>5. CASE PushEvent
  <2> DEFINE m == [job |-> cur, payload |-> "event"]
  <2>1. m.job = cur /\ m.payload = "event" /\ cur \in jobs /\ cur \in Jobs
    BY <1>5 DEF PushEvent, TypeOK, MessageInv, DurableInv, JobAndEventTogether
  <2>2. Push(m) /\ UNCHANGED <<jobs, outbox, status, misses>>
    BY <1>5 DEF PushEvent, dbVars, eventVars, history
  <2>3. \E payload \in {"job", "event"} : Promise!Send(cur, payload)
    BY <1>3, <2>1, <2>2
  <2> QED
    BY <1>0, <2>1, <2>3
<1>6. ASSUME cur # None
      PROVE  /\ cur \in Jobs /\ cur \in outbox /\ status[cur] = "PENDING"
             /\ cur \in outbox \ (Delivered \cup Abandoned)
  BY <1>6 DEF TypeOK, MessageInv, OpenInv, Delivered, Abandoned
<1>7. CASE MarkDelivered
  <2>1. PICK j \in Jobs : j = cur
    BY <1>6, <1>7 DEF MarkDelivered, TypeOK
  <2>2. j \in outbox \ (Delivered \cup Abandoned) /\ Sent(j, "event") /\ status[j] = "PENDING"
    BY <1>6, <1>7, <2>1 DEF MarkDelivered, SentInv
  <2>3. status' = [status EXCEPT ![j] = "DELIVERED"] /\ UNCHANGED <<jobs, outbox, stream, refused, misses>>
    BY <1>7, <2>1 DEF MarkDelivered, dbVars, valkeyVars, history
  <2>4. Delivered' = Delivered \cup {j} /\ Abandoned' = Abandoned
    BY <2>2, <2>3 DEF Delivered, Abandoned, TypeOK
  <2>5. Promise!Settle(j)
    BY <2>2, <2>3, <2>4 DEF Promise!Settle, Promise!Open, Delivered, Abandoned, Sent
  <2> QED
    BY <1>0, <2>5
<1>8. CASE MarkFailed
  <2>1. PICK j \in Jobs : j = cur
    BY <1>6, <1>8 DEF MarkFailed, TypeOK
  <2>2. j \in outbox \ (Delivered \cup Abandoned) /\ status[j] = "PENDING"
    BY <1>6, <1>8, <2>1 DEF MarkFailed, TypeOK
  <2>3. UNCHANGED <<jobs, outbox, stream, refused, misses>>
    BY <1>8 DEF MarkFailed, dbVars, valkeyVars, history
  <2>4. CASE retries[j] + 1 < MaxRetries
    <3>1. status' = status
      BY <1>8, <2>1, <2>4, BoundsAssumption DEF MarkFailed, TypeOK
    <3> QED
      BY <2>3, <3>1 DEF seen, Delivered, Abandoned
  <2>5. CASE retries[j] + 1 >= MaxRetries
    <3>1. status' = [status EXCEPT ![j] = "FAILED"]
      BY <1>8, <2>1, <2>5 DEF MarkFailed, TypeOK
    <3>2. Delivered' = Delivered /\ Abandoned' = Abandoned \cup {j}
      BY <2>2, <3>1 DEF Delivered, Abandoned, TypeOK
    <3>3. misses[j] >= MaxRetries * MaxAttempts
      BY <2>3, <3>1 DEF GivenUpAfterRetries, TypeOK
    <3>4. Promise!GiveUp(j)
      BY <2>2, <2>3, <3>2, <3>3 DEF Promise!GiveUp, Promise!Open, Delivered, Abandoned
    <3> QED
      BY <1>0, <3>4
  <2> QED
    BY <2>4, <2>5, BoundsAssumption DEF TypeOK
<1>9. CASE AttemptFails
  <2>1. cur \in Jobs /\ cur \in outbox \ (Delivered \cup Abandoned)
    BY <1>6, <1>9 DEF AttemptFails, TypeOK
  <2>2. /\ misses' = [misses EXCEPT ![cur] = @ + 1]
        /\ UNCHANGED <<jobs, outbox, status, stream, refused>>
    BY <1>9 DEF AttemptFails, dbVars, eventVars, valkeyVars
  <2>3. Promise!Miss(cur)
    BY <2>1, <2>2 DEF Promise!Miss, Promise!Open, Delivered, Abandoned
  <2> QED
    BY <1>0, <2>1, <2>3
<1>10. CASE WriterCommits
  <2>1. unsaved = {}
    BY <1>10 DEF WriterCommits, DurableInv, LockInv
  <2>2. jobs' = jobs /\ outbox' = outbox
    BY <1>10, <2>1 DEF WriterCommits, CommitAll
  <2> QED
    BY <1>10, <2>2 DEF WriterCommits, seen, Delivered, Abandoned, eventVars, valkeyVars, history
<1>11. CASE Poll \/ Resume \/ PollFails \/ Kill
  BY <1>11 DEF Poll, Resume, PollFails, Kill, seen, Delivered, Abandoned, dbVars, eventVars, valkeyVars, history
<1>12. CASE UNCHANGED vars
  BY <1>12 DEF vars, seen, Delivered, Abandoned, dbVars, eventVars, valkeyVars, history
<1> QED
  BY <1>0, <1>1, <1>2, <1>4, <1>5, <1>7, <1>8, <1>9, <1>10, <1>11, <1>12 DEF Next, Submission, RelayStep

(* The outbox implements Mailbox.                                          *)
THEOREM Refinement == Spec => MailboxSpec
<1>1. Init => Promise!Init
  BY DEF Init, Promise!Init
<1>2. TypeOK /\ DurableInv /\ MessageInv /\ SentInv /\ OpenInv /\ GivenUpAfterRetries' /\ [Next]_vars
        => [Promise!Next]_Promise!mailboxVars
  BY MailboxStep DEF Promise!mailboxVars, seen, Delivered, Abandoned
<1> QED
  BY <1>1, <1>2, TypeCorrect, DurableInvariant, MessageInvariant, SentInvariant, OpenInvariant, GivenUpLate, PTL
     DEF Spec, MailboxSpec, Promise!Spec
=============================================================================
