------------------------ MODULE JobLifecycle_proofs ------------------------
(***************************************************************************)
(* Proofs about JobLifecycle for every set of jobs, workers and requests,  *)
(* every retry budget and every number of faults.                          *)
(*                                                                         *)
(* The argument rests on the version column.  It moves whenever the state  *)
(* does (VersionMoves), so a snapshot that still matches it tells the      *)
(* state (SnapshotInv): a compare-and-swap writes what the read justified. *)
(* A worker owns its job between delivery and the end of the callback      *)
(* (OwnerInv), so a worker whose final compare-and-swap fails lost to      *)
(* somebody who moved the job out of RUNNING (ClosingInv).                 *)
(***************************************************************************)
EXTENDS JobLifecycle, TLAPS

LEMMA TypeInit == Init => TypeOK
BY NoneAssumption DEF Init, TypeOK, JobState, WorkerPc, Requests

(* The compare-and-swap keeps the two columns it writes well typed.        *)
LEMMA UpdateType ==
  ASSUME TypeOK, NEW j \in Jobs, NEW v, NEW new \in JobState,
         UpdateJobState(j, v, new)
  PROVE  state' \in [Jobs -> JobState] /\ version' \in [Jobs -> Nat]
BY DEF UpdateJobState, TypeOK

EndedTypes ==
  /\ job' \in [Workers -> Jobs \cup {None}]
  /\ pc' \in [Workers -> WorkerPc]
  /\ \A u \in Workers : (pc'[u] = "idle") = (job'[u] = None)
  /\ snap' \in [Workers -> Nat] /\ round' \in [Workers -> {1, 2}]
  /\ target' \in [Workers -> {"RUNNING", "SUCCEEDED", "FAILED"}]
  /\ guarded' \in [Workers -> BOOLEAN]

LEMMA EndCallbackType ==
  ASSUME TypeOK, NEW w \in Workers, EndCallback(w)
  PROVE  EndedTypes
BY DEF EndCallback, Goto, TypeOK, WorkerPc, EndedTypes

(* So is what Finish leaves behind.                                        *)
LEMMA FinishType ==
  ASSUME TypeOK, NEW w \in Workers, pc[w] # "idle", NEW ok, Finish(w, ok)
  PROVE  /\ delivery' \in [Jobs -> {"ready", "running", "done"}]
         /\ retry' \in [Jobs -> Nat]
         /\ deadLettered' \subseteq Jobs
         /\ EndedTypes
BY EndCallbackType DEF Finish, TypeOK

LEMMA TypeStep == TypeOK /\ [Next]_vars => TypeOK'
<1> SUFFICES ASSUME TypeOK, [Next]_vars PROVE TypeOK'
  OBVIOUS
<1> USE NoneAssumption
<1>1. ASSUME NEW w \in Workers, NEW j \in Jobs, Deliver(w, j) PROVE TypeOK'
  BY <1>1 DEF Deliver, StartUpdate, Goto, TypeOK, WorkerPc, rowVars, requestVars,
              reaperVars, history
<1>2. ASSUME NEW w \in Workers, ReadVersion(w) PROVE TypeOK'
  BY <1>2 DEF ReadVersion, AfterUpdate, Goto, TypeOK, WorkerPc, rowVars, queueVars,
              requestVars, reaperVars, history
<1>3. ASSUME NEW w \in Workers, WriteState(w) PROVE TypeOK'
  <2>1. state' \in [Jobs -> JobState] /\ version' \in [Jobs -> Nat]
    BY <1>3, UpdateType DEF WriteState, TypeOK, JobState
  <2>2. QED
    BY <1>3, <2>1 DEF WriteState, AfterUpdate, Goto, TypeOK, WorkerPc, queueVars,
                      requestVars, reaperVars, history
<1>4. ASSUME NEW w \in Workers, CreateAttempt(w) PROVE TypeOK'
  <2>1. attempts' \subseteq Attempt
    BY <1>4 DEF CreateAttempt, InsertAttempt, TypeOK, Attempt, JobState
  <2>2. QED
    BY <1>4, <2>1 DEF CreateAttempt, Goto, TypeOK, WorkerPc, queueVars, requestVars,
                      reaperVars, history
<1>5. ASSUME NEW w \in Workers, Heartbeat(w) PROVE TypeOK'
  <2>1. beat' \in [Jobs -> {"null", "fresh", "stale"}]
    BY <1>5 DEF Heartbeat, TouchJob, TypeOK
  <2>2. QED
    BY <1>5, <2>1 DEF Heartbeat, Goto, TypeOK, WorkerPc, queueVars, requestVars,
                      reaperVars, history
<1>6. ASSUME NEW w \in Workers, SwallowedFault(w) PROVE TypeOK'
  BY <1>6 DEF SwallowedFault, AfterUpdate, Goto, TypeOK, WorkerPc, rowVars, queueVars,
              requestVars, reaperVars
<1>7. ASSUME NEW w \in Workers, FetchFails(w) \/ FetchSucceeds(w) PROVE TypeOK'
  BY <1>7 DEF FetchFails, FetchSucceeds, Goto, TypeOK, WorkerPc, rowVars, queueVars,
              requestVars, reaperVars, history
<1>8. ASSUME NEW w \in Workers, PublishPayload(w) PROVE TypeOK'
  BY <1>8 DEF PublishPayload, Goto, TypeOK, WorkerPc, rowVars, queueVars,
              requestVars, reaperVars
<1>9. ASSUME NEW w \in Workers, StoreArtifact(w) \/ DeadLetterJob(w) PROVE TypeOK'
  BY <1>9 DEF StoreArtifact, DeadLetterJob, StartUpdate, Goto, TypeOK, WorkerPc,
              rowVars, queueVars, requestVars, reaperVars, history
<1>10. ASSUME NEW w \in Workers, RaisedFault(w) PROVE TypeOK'
  <2>1. CASE Finish(w, FALSE)
    <3>1. pc[w] # "idle" /\ job[w] \in Jobs
      BY <1>10 DEF RaisedFault, TypeOK
    <3>2. /\ delivery' \in [Jobs -> {"ready", "running", "done"}]
          /\ retry' \in [Jobs -> Nat]
          /\ deadLettered' \subseteq Jobs
          /\ EndedTypes
      BY <2>1, <3>1, FinishType
    <3>3. hurt' \subseteq Jobs /\ faults' \in Nat
      BY <1>10, <3>1 DEF RaisedFault, TypeOK
    <3>4. QED
      BY <1>10, <3>2, <3>3 DEF RaisedFault, EndedTypes, TypeOK, rowVars, requestVars, reaperVars
  <2>2. CASE /\ Goto(w, "deadletter")
             /\ UNCHANGED <<queueVars, job, snap, round, target, guarded, deadLettered>>
    BY <1>10, <2>2 DEF RaisedFault, Goto, TypeOK, WorkerPc, rowVars, queueVars,
                       requestVars, reaperVars
  <2>3. QED
    BY <1>10, <2>1, <2>2 DEF RaisedFault
<1>11. ASSUME NEW w \in Workers, CompleteAttempt(w) PROVE TypeOK'
  <2>1. attempts' \subseteq Attempt
    <3>1. target[w] \in JobState
      BY DEF TypeOK, JobState
    <3>2. \A a \in Attempt : [a EXCEPT !.state = target[w]] \in Attempt
      BY <3>1 DEF Attempt
    <3>3. QED
      BY <1>11, <3>2 DEF CompleteAttempt, UpdateAttempt, TypeOK
  <2>2. QED
    BY <1>11, <2>1, FinishType DEF CompleteAttempt, EndedTypes, TypeOK, requestVars, reaperVars
<1>12. ASSUME NEW w \in Workers, Kill(w) PROVE TypeOK'
  BY <1>12, EndCallbackType DEF Kill, EndedTypes, TypeOK, rowVars, requestVars, reaperVars
<1>13. ASSUME NEW r \in Requests, NEW j \in Jobs, RequestReads(r, j) PROVE TypeOK'
  BY <1>13 DEF RequestReads, TypeOK, rowVars, queueVars, workerVars, reaperVars, history
<1>14. ASSUME NEW r \in Requests, RequestWrites(r) PROVE TypeOK'
  <2>1. state' \in [Jobs -> JobState] /\ version' \in [Jobs -> Nat]
    BY <1>14, UpdateType DEF RequestWrites, TypeOK, JobState
  <2>2. QED
    BY <1>14, <2>1 DEF RequestWrites, TypeOK, queueVars, workerVars, reaperVars, history
<1>15. ASSUME NEW j \in Jobs, BeatExpires(j) PROVE TypeOK'
  BY <1>15 DEF BeatExpires, TypeOK, queueVars, workerVars, requestVars, reaperVars, history
<1>16. CASE FindStaleJobs
  BY <1>16 DEF FindStaleJobs, TypeOK, Snapshot, rowVars, queueVars, workerVars,
               requestVars, history
<1>17. CASE ReapNext
  <2>1. PICK s \in reapList :
          /\ UpdateJobState(s.job, s.version, "FAILED")
          /\ reaped' = IF Matches(s.job, s.version) THEN reaped \cup {s.job} ELSE reaped
          /\ reapList' = reapList \ {s}
          /\ UNCHANGED <<rows, beat, deletedAt, attempts, queueVars, workerVars,
                         requestVars, purgeList, published, dropped, deadLettered, hurt, faults>>
    BY <1>17 DEF ReapNext
  <2>2. s.job \in Jobs /\ "FAILED" \in JobState
    BY DEF TypeOK, Snapshot, JobState
  <2>3. state' \in [Jobs -> JobState] /\ version' \in [Jobs -> Nat]
    BY <2>1, <2>2, UpdateType
  <2>4. QED
    BY <2>1, <2>2, <2>3 DEF TypeOK, queueVars, workerVars, requestVars
<1>18. CASE SelectExpired \/ PurgeSelected
  BY <1>18 DEF SelectExpired, PurgeSelected, TypeOK, rowVars, queueVars, workerVars,
               requestVars, history
<1>19. CASE UNCHANGED vars
  BY <1>19 DEF vars, TypeOK, rowVars, queueVars, workerVars, requestVars,
               reaperVars, history
<1>20. QED
  BY <1>1, <1>2, <1>3, <1>4, <1>5, <1>6, <1>7, <1>8, <1>9, <1>10, <1>11, <1>12,
     <1>13, <1>14, <1>15, <1>16, <1>17, <1>18, <1>19
     DEF Next, WorkerStep, ReaperStep

(* Every variable keeps its type.                                          *)
THEOREM TypeCorrect == Spec => []TypeOK
BY TypeInit, TypeStep, PTL DEF Spec

-----------------------------------------------------------------------------
Still(j) == state'[j] = state[j] /\ version'[j] = version[j]

(* A compare-and-swap on one job leaves the others alone.                  *)
LEMMA UpdateMoves ==
  ASSUME TypeOK, NEW j \in Jobs, NEW v, NEW new, UpdateJobState(j, v, new)
  PROVE  /\ \A k \in Jobs \ {j} : Still(k)
         /\ ~Matches(j, v) => Still(j)
         /\ Matches(j, v) => state'[j] = new /\ version'[j] = version[j] + 1
BY DEF UpdateJobState, Still, TypeOK

(* The state never changes without the version.                            *)
LEMMA VersionMoves ==
  ASSUME TypeOK, [Next]_vars, NEW j \in Jobs
  PROVE  Still(j) \/ version'[j] = version[j] + 1
<1>1. ASSUME NEW w \in Workers, WriteState(w)
      PROVE  Still(j) \/ version'[j] = version[j] + 1
  <2>1. job[w] \in Jobs /\ UpdateJobState(job[w], snap[w], target[w])
    BY <1>1 DEF WriteState, TypeOK
  <2>2. QED
    BY <2>1, UpdateMoves
<1>2. ASSUME NEW r \in Requests, RequestWrites(r)
      PROVE  Still(j) \/ version'[j] = version[j] + 1
  <2>1. PICK new : reqJob[r] \in Jobs /\ UpdateJobState(reqJob[r], reqSnap[r], new)
    BY <1>2 DEF RequestWrites, TypeOK
  <2>2. QED
    BY <2>1, UpdateMoves
<1>3. CASE ReapNext
  <2>1. PICK s \in reapList : s.job \in Jobs /\ UpdateJobState(s.job, s.version, "FAILED")
    BY <1>3 DEF ReapNext, TypeOK, Snapshot
  <2>2. QED
    BY <2>1, UpdateMoves
<1>4. CASE UNCHANGED <<state, version>>
  BY <1>4 DEF Still
<1>5. QED
  BY <1>1, <1>2, <1>3, <1>4 DEF Next, WorkerStep, ReaperStep, vars, rowVars,
     Deliver, ReadVersion, CreateAttempt, Heartbeat, SwallowedFault, FetchFails,
     FetchSucceeds, PublishPayload, StoreArtifact, DeadLetterJob, RaisedFault,
     CompleteAttempt, Kill, RequestReads, BeatExpires, FindStaleJobs,
     SelectExpired, PurgeSelected

RequestInv ==
  \A r \in Requests : reqPc[r] = "cas" =>
    /\ reqSnap[r] <= version[reqJob[r]]
    /\ reqSnap[r] = version[reqJob[r]] => Proceeds(r, state[reqJob[r]])

ReapInv ==
  \A s \in reapList :
    /\ s.version <= version[s.job]
    /\ s.version = version[s.job] => state[s.job] = "RUNNING"

SnapshotInv == RequestInv /\ ReapInv

LEMMA SnapshotStep == TypeOK /\ SnapshotInv /\ [Next]_vars => SnapshotInv'
<1> SUFFICES ASSUME TypeOK, SnapshotInv, [Next]_vars PROVE SnapshotInv'
  OBVIOUS
<1>1. \A j \in Jobs : Still(j) \/ version'[j] = version[j] + 1
  BY VersionMoves
<1>2. \A r \in Requests :
        reqPc'[r] = "cas" =>
          \/ reqPc[r] = "cas" /\ reqJob'[r] = reqJob[r] /\ reqSnap'[r] = reqSnap[r]
          \/ /\ reqJob'[r] \in Jobs /\ Still(reqJob'[r])
             /\ reqSnap'[r] = version[reqJob'[r]] /\ Proceeds(r, state[reqJob'[r]])
  <2>1. ASSUME NEW q \in Requests, NEW j \in Jobs, RequestReads(q, j)
        PROVE  \A r \in Requests :
                 reqPc'[r] = "cas" =>
                   \/ reqPc[r] = "cas" /\ reqJob'[r] = reqJob[r] /\ reqSnap'[r] = reqSnap[r]
                   \/ /\ reqJob'[r] \in Jobs /\ Still(reqJob'[r])
                      /\ reqSnap'[r] = version[reqJob'[r]] /\ Proceeds(r, state[reqJob'[r]])
    BY <2>1 DEF RequestReads, TypeOK, rowVars, Still
  <2>2. ASSUME NEW q \in Requests, RequestWrites(q)
        PROVE  \A r \in Requests :
                 reqPc'[r] = "cas" =>
                   reqPc[r] = "cas" /\ reqJob'[r] = reqJob[r] /\ reqSnap'[r] = reqSnap[r]
    BY <2>2 DEF RequestWrites, TypeOK
  <2>3. CASE UNCHANGED requestVars
    BY <2>3 DEF requestVars
  <2>4. QED
    BY <2>1, <2>2, <2>3 DEF Next, WorkerStep, ReaperStep, vars,
       Deliver, ReadVersion, WriteState, CreateAttempt, Heartbeat, SwallowedFault,
       FetchFails, FetchSucceeds, PublishPayload, StoreArtifact, DeadLetterJob,
       RaisedFault, CompleteAttempt, Kill, BeatExpires, FindStaleJobs, ReapNext,
       SelectExpired, PurgeSelected
<1>3. \A s \in reapList' :
        \/ s \in reapList
        \/ /\ s.job \in Jobs /\ Still(s.job)
           /\ s.version = version[s.job] /\ state[s.job] = "RUNNING"
  <2>1. CASE FindStaleJobs
    BY <2>1 DEF FindStaleJobs, Stale, rowVars, Still
  <2>2. CASE reapList' \subseteq reapList
    BY <2>2
  <2>3. QED
    BY <2>1, <2>2 DEF Next, WorkerStep, ReaperStep, vars, reaperVars,
       Deliver, ReadVersion, WriteState, CreateAttempt, Heartbeat, SwallowedFault,
       FetchFails, FetchSucceeds, PublishPayload, StoreArtifact, DeadLetterJob,
       RaisedFault, CompleteAttempt, Kill, RequestReads, RequestWrites, BeatExpires,
       ReapNext, SelectExpired, PurgeSelected
<1>4. RequestInv'
  <2> SUFFICES ASSUME NEW r \in Requests, reqPc'[r] = "cas"
               PROVE  /\ reqSnap'[r] <= version'[reqJob'[r]]
                      /\ reqSnap'[r] = version'[reqJob'[r]] => Proceeds(r, state'[reqJob'[r]])
    BY DEF RequestInv, Proceeds
  <2>1. CASE reqPc[r] = "cas" /\ reqJob'[r] = reqJob[r] /\ reqSnap'[r] = reqSnap[r]
    <3>1. reqJob[r] \in Jobs /\ version[reqJob[r]] \in Nat /\ reqSnap[r] \in Nat
      BY <2>1 DEF TypeOK
    <3>2. CASE Still(reqJob[r])
      BY <2>1, <3>1, <3>2 DEF Still, SnapshotInv, RequestInv
    <3>3. CASE version'[reqJob[r]] = version[reqJob[r]] + 1
      BY <2>1, <3>1, <3>3 DEF SnapshotInv, RequestInv
    <3>4. QED
      BY <1>1, <3>1, <3>2, <3>3
  <2>2. CASE /\ reqJob'[r] \in Jobs /\ Still(reqJob'[r])
             /\ reqSnap'[r] = version[reqJob'[r]] /\ Proceeds(r, state[reqJob'[r]])
    <3>1. version[reqJob'[r]] \in Nat
      BY <2>2 DEF TypeOK
    <3>2. QED
      BY <2>2, <3>1 DEF Still
  <2>3. QED
    BY <1>2, <2>1, <2>2
<1>5. ReapInv'
  <2> SUFFICES ASSUME NEW s \in reapList'
               PROVE  /\ s.version <= version'[s.job]
                      /\ s.version = version'[s.job] => state'[s.job] = "RUNNING"
    BY DEF ReapInv
  <2>1. CASE s \in reapList
    <3>1. s.job \in Jobs /\ version[s.job] \in Nat /\ s.version \in Nat
      BY <2>1 DEF TypeOK, Snapshot
    <3>2. CASE Still(s.job)
      BY <2>1, <3>1, <3>2 DEF Still, SnapshotInv, ReapInv
    <3>3. CASE version'[s.job] = version[s.job] + 1
      BY <2>1, <3>1, <3>3 DEF SnapshotInv, ReapInv
    <3>4. QED
      BY <1>1, <3>1, <3>2, <3>3
  <2>2. CASE /\ s.job \in Jobs /\ Still(s.job)
             /\ s.version = version[s.job] /\ state[s.job] = "RUNNING"
    <3>1. version[s.job] \in Nat
      BY <2>2 DEF TypeOK
    <3>2. QED
      BY <2>2, <3>1 DEF Still
  <2>3. QED
    BY <1>3, <2>1, <2>2
<1>6. QED
  BY <1>4, <1>5 DEF SnapshotInv

LEMMA SnapshotInvariant == Spec => []SnapshotInv
<1>1. Init => SnapshotInv
  BY DEF Init, SnapshotInv, RequestInv, ReapInv
<1>2. QED
  BY <1>1, SnapshotStep, TypeCorrect, PTL DEF Spec

DecisionHolds ==
  \A j \in Jobs : state'[j] # state[j] =>
    /\ state'[j] = "CANCELLED" => state[j] \notin Deletable
    /\ state'[j] = "DELETED" => state[j] \in Deletable
    /\ j \in reaped' \ reaped => state[j] = "RUNNING"

LEMMA DecisionStep == TypeOK /\ SnapshotInv /\ [Next]_vars => DecisionHolds
<1> SUFFICES ASSUME TypeOK, SnapshotInv, [Next]_vars, NEW j \in Jobs, state'[j] # state[j]
             PROVE  /\ state'[j] = "CANCELLED" => state[j] \notin Deletable
                    /\ state'[j] = "DELETED" => state[j] \in Deletable
                    /\ j \in reaped' \ reaped => state[j] = "RUNNING"
  BY DEF DecisionHolds
<1>1. ASSUME NEW w \in Workers, WriteState(w)
      PROVE  state'[j] \notin {"CANCELLED", "DELETED"} /\ reaped' = reaped
  <2>1. job[w] \in Jobs /\ UpdateJobState(job[w], snap[w], target[w])
    BY <1>1 DEF WriteState, TypeOK
  <2>2. state'[j] = target[w]
    BY <2>1, UpdateMoves DEF Still
  <2>3. QED
    BY <1>1, <2>2 DEF WriteState, history, TypeOK
<1>2. ASSUME NEW r \in Requests, RequestWrites(r)
      PROVE  /\ state'[j] = "CANCELLED" => state[j] \notin Deletable
             /\ state'[j] = "DELETED" => state[j] \in Deletable
             /\ reaped' = reaped
  <2>1. /\ reqPc[r] = "cas" /\ reqJob[r] \in Jobs
        /\ UpdateJobState(reqJob[r], reqSnap[r], IF r \in Cancels THEN "CANCELLED" ELSE "DELETED")
    BY <1>2 DEF RequestWrites, TypeOK
  <2>2. /\ j = reqJob[r] /\ Matches(j, reqSnap[r])
        /\ state'[j] = IF r \in Cancels THEN "CANCELLED" ELSE "DELETED"
    BY <2>1, UpdateMoves DEF Still
  <2>3. Proceeds(r, state[j])
    BY <2>1, <2>2 DEF SnapshotInv, RequestInv, Matches
  <2>4. QED
    BY <1>2, <2>2, <2>3 DEF Proceeds, RequestWrites, history
<1>3. CASE ReapNext
  <2>1. PICK s \in reapList :
          /\ s.job \in Jobs
          /\ UpdateJobState(s.job, s.version, "FAILED")
          /\ reaped' = IF Matches(s.job, s.version) THEN reaped \cup {s.job} ELSE reaped
    BY <1>3 DEF ReapNext, TypeOK, Snapshot
  <2>2. j = s.job /\ Matches(j, s.version) /\ state'[j] = "FAILED"
    BY <2>1, UpdateMoves DEF Still
  <2>3. state[j] = "RUNNING"
    BY <2>2 DEF SnapshotInv, ReapInv, Matches
  <2>4. QED
    BY <2>2, <2>3
<1>4. CASE UNCHANGED state
  BY <1>4
<1>5. QED
  BY <1>1, <1>2, <1>3, <1>4 DEF Next, WorkerStep, ReaperStep, vars, rowVars,
     Deliver, ReadVersion, CreateAttempt, Heartbeat, SwallowedFault, FetchFails,
     FetchSucceeds, PublishPayload, StoreArtifact, DeadLetterJob, RaisedFault,
     CompleteAttempt, Kill, RequestReads, BeatExpires, FindStaleJobs,
     SelectExpired, PurgeSelected

(* A cancellation never hits a finished job, a deletion never an           *)
(* unfinished one and a reaping only a RUNNING one, although all three are *)
(* decided before they are written.                                        *)
THEOREM DecisionsHold == Spec => DecisionsHoldWhenWritten
<1>1. TypeOK /\ SnapshotInv /\ [Next]_vars =>
        [\A j \in Jobs : state'[j] # state[j] =>
           /\ state'[j] = "CANCELLED" => state[j] \notin Deletable
           /\ state'[j] = "DELETED" => state[j] \in Deletable
           /\ j \in reaped' \ reaped => state[j] = "RUNNING"]_vars
  BY DecisionStep DEF DecisionHolds
<1>2. QED
  BY <1>1, TypeCorrect, SnapshotInvariant, PTL DEF Spec, DecisionsHoldWhenWritten

-----------------------------------------------------------------------------
(* On its way to an outcome a worker has already sent the message.         *)
SentInv ==
  \A w \in Workers :
    /\ pc[w] = "store" => job[w] \in published \cup dropped
    /\ pc[w] \in {"read", "cas"} /\ target[w] = "SUCCEEDED" =>
         job[w] \in published \cup dropped
    /\ pc[w] \in {"read", "cas"} /\ target[w] = "FAILED" => job[w] \in deadLettered

OutcomeInv == SentInv /\ OutcomeIsBackedByMessage

(* Nothing that was sent is taken back, and no row comes into being.       *)
LEMMA SentStays ==
  ASSUME TypeOK, [Next]_vars
  PROVE  /\ published \subseteq published' /\ dropped \subseteq dropped'
         /\ deadLettered \subseteq deadLettered'
         /\ reaped \subseteq reaped' /\ rows' \subseteq rows
BY DEF Next, WorkerStep, ReaperStep, vars, rowVars, history, Finish,
   Deliver, ReadVersion, WriteState, CreateAttempt, Heartbeat, SwallowedFault,
   FetchFails, FetchSucceeds, PublishPayload, StoreArtifact, DeadLetterJob,
   RaisedFault, CompleteAttempt, Kill, RequestReads, RequestWrites, BeatExpires,
   FindStaleJobs, ReapNext, SelectExpired, PurgeSelected

(* A worker that enters the read of a final update sent the message first. *)
LEMMA SentStep == TypeOK /\ SentInv /\ [Next]_vars => SentInv'
<1> SUFFICES ASSUME TypeOK, SentInv, [Next]_vars PROVE SentInv'
  OBVIOUS
<1>1. /\ published \subseteq published' /\ dropped \subseteq dropped'
      /\ deadLettered \subseteq deadLettered'
  BY SentStays
<1>2. ASSUME NEW w \in Workers, NEW j \in Jobs, Deliver(w, j) PROVE SentInv'
  BY <1>1, <1>2 DEF SentInv, Deliver, StartUpdate, Goto, TypeOK
<1>3. ASSUME NEW w \in Workers, ReadVersion(w) PROVE SentInv'
  BY <1>1, <1>3 DEF SentInv, ReadVersion, AfterUpdate, Goto, TypeOK
<1>4. ASSUME NEW w \in Workers, WriteState(w) PROVE SentInv'
  BY <1>1, <1>4 DEF SentInv, WriteState, AfterUpdate, Goto, TypeOK
<1>5. ASSUME NEW w \in Workers, CreateAttempt(w) \/ Heartbeat(w) PROVE SentInv'
  BY <1>1, <1>5 DEF SentInv, CreateAttempt, Heartbeat, Goto, TypeOK
<1>6. ASSUME NEW w \in Workers, SwallowedFault(w) PROVE SentInv'
  BY <1>1, <1>6 DEF SentInv, SwallowedFault, AfterUpdate, Goto, TypeOK
<1>7. ASSUME NEW w \in Workers, FetchFails(w) \/ FetchSucceeds(w) PROVE SentInv'
  BY <1>1, <1>7 DEF SentInv, FetchFails, FetchSucceeds, Goto, TypeOK
<1>8. ASSUME NEW w \in Workers, PublishPayload(w) PROVE SentInv'
  BY <1>1, <1>8 DEF SentInv, PublishPayload, Goto, TypeOK
<1>9. ASSUME NEW w \in Workers, StoreArtifact(w) PROVE SentInv'
  BY <1>1, <1>9 DEF SentInv, StoreArtifact, StartUpdate, Goto, TypeOK
<1>10. ASSUME NEW w \in Workers, DeadLetterJob(w) PROVE SentInv'
  BY <1>1, <1>10 DEF SentInv, DeadLetterJob, StartUpdate, Goto, TypeOK
<1>11. ASSUME NEW w \in Workers, RaisedFault(w) PROVE SentInv'
  BY <1>1, <1>11 DEF SentInv, RaisedFault, Finish, EndCallback, Goto, TypeOK
<1>12. ASSUME NEW w \in Workers, CompleteAttempt(w) PROVE SentInv'
  BY <1>1, <1>12 DEF SentInv, CompleteAttempt, Finish, EndCallback, Goto, TypeOK
<1>13. ASSUME NEW w \in Workers, Kill(w) PROVE SentInv'
  BY <1>1, <1>13 DEF SentInv, Kill, EndCallback, Goto, TypeOK
<1>14. CASE UNCHANGED workerVars
  BY <1>1, <1>14 DEF SentInv, workerVars
<1>15. QED
  BY <1>2, <1>3, <1>4, <1>5, <1>6, <1>7, <1>8, <1>9, <1>10, <1>11, <1>12, <1>13,
     <1>14 DEF Next, WorkerStep, ReaperStep, vars, RequestReads, RequestWrites,
     BeatExpires, FindStaleJobs, ReapNext, SelectExpired, PurgeSelected

LEMMA OutcomeStep == TypeOK /\ OutcomeInv /\ [Next]_vars => OutcomeInv'
<1> SUFFICES ASSUME TypeOK, OutcomeInv, [Next]_vars PROVE OutcomeInv'
  OBVIOUS
<1>1. SentInv'
  BY SentStep DEF OutcomeInv
<1>2. /\ published \subseteq published' /\ dropped \subseteq dropped'
      /\ deadLettered \subseteq deadLettered'
      /\ reaped \subseteq reaped' /\ rows' \subseteq rows
  BY SentStays
<1>3. ASSUME NEW j \in rows', state'[j] # state[j]
      PROVE  /\ state'[j] = "SUCCEEDED" => j \in published' \cup dropped'
             /\ state'[j] = "FAILED" => j \in deadLettered' \cup reaped'
  <2>0. j \in Jobs
    BY <1>2, <1>3 DEF TypeOK
  <2>1. ASSUME NEW w \in Workers, WriteState(w)
        PROVE  /\ state'[j] = "SUCCEEDED" => j \in published \cup dropped
               /\ state'[j] = "FAILED" => j \in deadLettered
    <3>1. /\ pc[w] = "cas" /\ job[w] \in Jobs
          /\ UpdateJobState(job[w], snap[w], target[w])
      BY <2>1 DEF WriteState, TypeOK
    <3>2. j = job[w] /\ state'[j] = target[w]
      BY <1>3, <2>0, <3>1, UpdateMoves DEF Still
    <3>3. QED
      BY <3>1, <3>2 DEF OutcomeInv, SentInv
  <2>2. ASSUME NEW r \in Requests, RequestWrites(r)
        PROVE  state'[j] \notin {"SUCCEEDED", "FAILED"}
    <3>1. /\ reqJob[r] \in Jobs
          /\ UpdateJobState(reqJob[r], reqSnap[r], IF r \in Cancels THEN "CANCELLED" ELSE "DELETED")
      BY <2>2 DEF RequestWrites, TypeOK
    <3>2. state'[j] = IF r \in Cancels THEN "CANCELLED" ELSE "DELETED"
      BY <1>3, <2>0, <3>1, UpdateMoves DEF Still
    <3>3. QED
      BY <3>2
  <2>3. CASE ReapNext
    <3>1. PICK s \in reapList :
            /\ s.job \in Jobs
            /\ UpdateJobState(s.job, s.version, "FAILED")
            /\ reaped' = IF Matches(s.job, s.version) THEN reaped \cup {s.job} ELSE reaped
      BY <2>3 DEF ReapNext, TypeOK, Snapshot
    <3>2. j = s.job /\ Matches(j, s.version) /\ state'[j] = "FAILED"
      BY <1>3, <2>0, <3>1, UpdateMoves DEF Still
    <3>3. QED
      BY <3>1, <3>2
  <2>4. CASE UNCHANGED state
    BY <1>3, <2>4
  <2>5. QED
    BY <1>2, <2>1, <2>2, <2>3, <2>4 DEF Next, WorkerStep, ReaperStep, vars, rowVars,
       Deliver, ReadVersion, CreateAttempt, Heartbeat, SwallowedFault, FetchFails,
       FetchSucceeds, PublishPayload, StoreArtifact, DeadLetterJob, RaisedFault,
       CompleteAttempt, Kill, RequestReads, BeatExpires, FindStaleJobs,
       SelectExpired, PurgeSelected
<1>4. OutcomeIsBackedByMessage'
  BY <1>2, <1>3 DEF OutcomeInv, OutcomeIsBackedByMessage
<1>5. QED
  BY <1>1, <1>4 DEF OutcomeInv

(* SUCCEEDED is recorded after push took the payload, onto the stream or   *)
(* onto its dead-letter queue, FAILED after the dead letter or by the      *)
(* reaper.                                                                 *)
THEOREM OutcomeBacked == Spec => []OutcomeIsBackedByMessage
<1>1. Init => OutcomeInv
  BY DEF Init, OutcomeInv, SentInv, OutcomeIsBackedByMessage
<1>2. OutcomeInv => OutcomeIsBackedByMessage
  BY DEF OutcomeInv
<1>3. QED
  BY <1>1, <1>2, OutcomeStep, TypeCorrect, PTL DEF Spec

-----------------------------------------------------------------------------
OwnerInv ==
  \A w \in Workers : job[w] # None =>
    /\ delivery[job[w]] = "running"
    /\ \A u \in Workers : u # w => job[u] # job[w]

\* The job of worker w is not RUNNING any more, or a fault explains it.
Ended(w) == job[w] \notin rows \/ state[job[w]] # "RUNNING"

ClosingInv ==
  \A w \in Workers :
    /\ pc[w] = "cas" /\ target[w] # "RUNNING" =>
         /\ snap[w] <= version[job[w]]
         /\ snap[w] = version[job[w]] \/ Ended(w)
    /\ pc[w] = "close" => Ended(w) \/ job[w] \in hurt

RunningInv == OwnerInv /\ ClosingInv /\ NotLeftRunning

(* A job is processed by one worker at a time.                             *)
LEMMA OwnerStep == TypeOK /\ OwnerInv /\ [Next]_vars => OwnerInv'
<1> SUFFICES ASSUME TypeOK, OwnerInv, [Next]_vars PROVE OwnerInv'
  OBVIOUS
<1>1. ASSUME NEW w \in Workers, NEW j \in Jobs, Deliver(w, j) PROVE OwnerInv'
  BY <1>1, NoneAssumption DEF OwnerInv, Deliver, TypeOK
<1>2. ASSUME NEW w \in Workers, pc[w] # "idle", job' = [job EXCEPT ![w] = None],
             \A j \in Jobs \ {job[w]} : delivery'[j] = delivery[j]
      PROVE  OwnerInv'
  BY <1>2, NoneAssumption DEF OwnerInv, TypeOK
<1>3. ASSUME NEW w \in Workers, RaisedFault(w) PROVE OwnerInv'
  <2>1. CASE Finish(w, FALSE)
    <3>1. pc[w] # "idle" /\ job' = [job EXCEPT ![w] = None]
      BY <1>3, <2>1 DEF RaisedFault, Finish, EndCallback
    <3>2. \A j \in Jobs \ {job[w]} : delivery'[j] = delivery[j]
      BY <2>1 DEF Finish, TypeOK
    <3>3. QED
      BY <1>2, <3>1, <3>2
  <2>2. CASE UNCHANGED <<queueVars, job>>
    BY <2>2 DEF OwnerInv, queueVars
  <2>3. QED
    BY <1>3, <2>1, <2>2 DEF RaisedFault
<1>4. ASSUME NEW w \in Workers, CompleteAttempt(w) PROVE OwnerInv'
  <2>1. pc[w] # "idle" /\ job' = [job EXCEPT ![w] = None]
    BY <1>4 DEF CompleteAttempt, Finish, EndCallback
  <2>2. \A j \in Jobs \ {job[w]} : delivery'[j] = delivery[j]
    BY <1>4 DEF CompleteAttempt, Finish, TypeOK
  <2>3. QED
    BY <1>2, <2>1, <2>2
<1>5. ASSUME NEW w \in Workers, Kill(w) PROVE OwnerInv'
  <2>1. \A j \in Jobs \ {job[w]} : delivery'[j] = delivery[j]
    BY <1>5 DEF Kill, TypeOK
  <2>2. QED
    BY <1>2, <1>5, <2>1 DEF Kill, EndCallback
<1>6. CASE UNCHANGED <<delivery, job>>
  BY <1>6 DEF OwnerInv
<1>7. QED
  BY <1>1, <1>3, <1>4, <1>5, <1>6 DEF Next, WorkerStep, ReaperStep, vars, queueVars,
     workerVars, ReadVersion, WriteState, CreateAttempt, Heartbeat, SwallowedFault,
     FetchFails, FetchSucceeds, PublishPayload, StoreArtifact, DeadLetterJob,
     RequestReads, RequestWrites, BeatExpires, FindStaleJobs, ReapNext,
     SelectExpired, PurgeSelected

(* Only the worker that processes a job writes RUNNING to it.              *)
LEMMA RunningWritten ==
  ASSUME TypeOK, [Next]_vars, NEW j \in Jobs, ~Still(j), state'[j] = "RUNNING"
  PROVE  \E w \in Workers : WriteState(w) /\ job[w] = j /\ target[w] = "RUNNING"
<1>1. ASSUME NEW w \in Workers, WriteState(w)
      PROVE  job[w] = j /\ target[w] = "RUNNING"
  <2>1. job[w] \in Jobs /\ UpdateJobState(job[w], snap[w], target[w])
    BY <1>1 DEF WriteState, TypeOK
  <2>2. QED
    BY <2>1, UpdateMoves
<1>2. ASSUME NEW r \in Requests, RequestWrites(r) PROVE FALSE
  <2>1. /\ reqJob[r] \in Jobs
        /\ UpdateJobState(reqJob[r], reqSnap[r], IF r \in Cancels THEN "CANCELLED" ELSE "DELETED")
    BY <1>2 DEF RequestWrites, TypeOK
  <2>2. state'[j] = IF r \in Cancels THEN "CANCELLED" ELSE "DELETED"
    BY <2>1, UpdateMoves
  <2>3. QED
    BY <2>2
<1>3. CASE ReapNext
  <2>1. PICK s \in reapList : s.job \in Jobs /\ UpdateJobState(s.job, s.version, "FAILED")
    BY <1>3 DEF ReapNext, TypeOK, Snapshot
  <2>2. state'[j] = "FAILED"
    BY <2>1, UpdateMoves
  <2>3. QED
    BY <2>2
<1>4. ~UNCHANGED <<state, version>>
  BY DEF Still
<1>5. QED
  BY <1>1, <1>2, <1>3, <1>4 DEF Next, WorkerStep, ReaperStep, vars, rowVars,
     Deliver, ReadVersion, CreateAttempt, Heartbeat, SwallowedFault, FetchFails,
     FetchSucceeds, PublishPayload, StoreArtifact, DeadLetterJob, RaisedFault,
     CompleteAttempt, Kill, RequestReads, BeatExpires, FindStaleJobs,
     SelectExpired, PurgeSelected

(* A worker whose job ended elsewhere finds it ended when it gets to it.   *)
LEMMA ClosingFrame ==
  ASSUME TypeOK, OwnerInv, ClosingInv, [Next]_vars, NEW w \in Workers,
         pc'[w] = pc[w], pc[w] # "idle", job'[w] = job[w], snap'[w] = snap[w],
         target'[w] = target[w], ~WriteState(w)
  PROVE  /\ pc'[w] = "cas" /\ target'[w] # "RUNNING" =>
              /\ snap'[w] <= version'[job'[w]]
              /\ snap'[w] = version'[job'[w]] \/ Ended(w)'
         /\ pc'[w] = "close" => Ended(w)' \/ job'[w] \in hurt'
<1>1. job[w] \in Jobs /\ version[job[w]] \in Nat /\ snap[w] \in Nat
  BY DEF TypeOK
<1>2. rows' \subseteq rows /\ hurt \subseteq hurt'
  BY SentStays, ZenonT(40) DEF Next, WorkerStep, ReaperStep, vars, history,
     Deliver, ReadVersion, WriteState, CreateAttempt, Heartbeat, SwallowedFault,
     FetchFails, FetchSucceeds, PublishPayload, StoreArtifact, DeadLetterJob,
     RaisedFault, CompleteAttempt, Kill, RequestReads, RequestWrites, BeatExpires,
     FindStaleJobs, ReapNext, SelectExpired, PurgeSelected
<1>3. CASE Still(job[w])
  BY <1>1, <1>2, <1>3 DEF Still, Ended, ClosingInv
<1>4. CASE ~Still(job[w])
  <2>1. version'[job[w]] = version[job[w]] + 1
    BY <1>1, <1>4, VersionMoves
  <2>2. state'[job[w]] # "RUNNING"
    <3>1. SUFFICES ASSUME state'[job[w]] = "RUNNING" PROVE FALSE
      OBVIOUS
    <3>2. PICK u \in Workers : WriteState(u) /\ job[u] = job[w]
      BY <1>1, <1>4, <3>1, RunningWritten
    <3>3. u = w
      BY <1>1, <3>2, NoneAssumption DEF OwnerInv
    <3>4. QED
      BY <3>2, <3>3
  <2>3. QED
    BY <1>1, <2>1, <2>2 DEF Ended, ClosingInv
<1>5. QED
  BY <1>3, <1>4

(* The ways to get to, or to stay at, the last compare-and-swap and the    *)
(* closing of the attempt.                                                 *)
LEMMA ClosingMoves ==
  ASSUME TypeOK, [Next]_vars, NEW w \in Workers, pc'[w] \in {"cas", "close"}
  PROVE  \/ ReadVersion(w) \/ WriteState(w) \/ SwallowedFault(w)
         \/ /\ pc'[w] = pc[w] /\ job'[w] = job[w]
            /\ snap'[w] = snap[w] /\ target'[w] = target[w]
<1> DEFINE Stays == /\ pc'[w] = pc[w] /\ job'[w] = job[w]
                    /\ snap'[w] = snap[w] /\ target'[w] = target[w]
<1>1. ASSUME NEW u \in Workers, ReadVersion(u) \/ WriteState(u) \/ SwallowedFault(u), u # w
      PROVE  Stays
  BY <1>1 DEF ReadVersion, WriteState, SwallowedFault, AfterUpdate, Goto, TypeOK
<1>2. ASSUME NEW u \in Workers, NEW j \in Jobs, Deliver(u, j) PROVE Stays
  BY <1>2 DEF Deliver, StartUpdate, Goto, TypeOK
<1>3. ASSUME NEW u \in Workers, CreateAttempt(u) \/ Heartbeat(u) \/ FetchFails(u)
             \/ FetchSucceeds(u) \/ PublishPayload(u)
      PROVE  Stays
  BY <1>3 DEF CreateAttempt, Heartbeat, FetchFails, FetchSucceeds, PublishPayload,
              Goto, TypeOK
<1>4. ASSUME NEW u \in Workers, StoreArtifact(u) \/ DeadLetterJob(u) PROVE Stays
  BY <1>4 DEF StoreArtifact, DeadLetterJob, StartUpdate, Goto, TypeOK
<1>5. ASSUME NEW u \in Workers, CompleteAttempt(u) \/ Kill(u) PROVE Stays
  BY <1>5 DEF CompleteAttempt, Kill, Finish, EndCallback, Goto, TypeOK
<1>6. ASSUME NEW u \in Workers, RaisedFault(u) PROVE Stays
  BY <1>6 DEF RaisedFault, Finish, EndCallback, Goto, TypeOK
<1>7. CASE UNCHANGED workerVars
  BY <1>7 DEF workerVars
<1>8. QED
  BY <1>1, <1>2, <1>3, <1>4, <1>5, <1>6, <1>7 DEF Next, WorkerStep, ReaperStep, vars,
     RequestReads, RequestWrites, BeatExpires, FindStaleJobs, ReapNext,
     SelectExpired, PurgeSelected

LEMMA ClosingStep == TypeOK /\ OwnerInv /\ ClosingInv /\ [Next]_vars => ClosingInv'
<1> SUFFICES ASSUME TypeOK, OwnerInv, ClosingInv, [Next]_vars, NEW w \in Workers,
                    pc'[w] \in {"cas", "close"}
             PROVE  /\ pc'[w] = "cas" /\ target'[w] # "RUNNING" =>
                         /\ snap'[w] <= version'[job'[w]]
                         /\ snap'[w] = version'[job'[w]] \/ Ended(w)'
                    /\ pc'[w] = "close" => Ended(w)' \/ job'[w] \in hurt'
  BY DEF ClosingInv
<1>1. CASE ReadVersion(w)
  <2>1. job[w] \in Jobs /\ version[job[w]] \in Nat
    BY <1>1 DEF ReadVersion, TypeOK
  <2>2. QED
    BY <1>1, <2>1 DEF ReadVersion, AfterUpdate, Goto, Ended, rowVars, TypeOK
<1>2. CASE WriteState(w)
  <2>1. /\ pc[w] = "cas" /\ job[w] \in Jobs /\ job' = job /\ rows' = rows
        /\ UpdateJobState(job[w], snap[w], target[w])
    BY <1>2 DEF WriteState, TypeOK
  <2>2. pc'[w] = "close" /\ target[w] # "RUNNING"
    BY <1>2 DEF WriteState, AfterUpdate, Goto, TypeOK
  <2>3. CASE Matches(job[w], snap[w])
    BY <2>1, <2>2, <2>3, UpdateMoves DEF Ended
  <2>4. CASE ~Matches(job[w], snap[w])
    <3>1. Ended(w)
      BY <2>1, <2>2, <2>4 DEF ClosingInv, Matches, Ended
    <3>2. Still(job[w])
      BY <2>1, <2>4, UpdateMoves
    <3>3. QED
      BY <2>1, <2>2, <3>1, <3>2 DEF Ended, Still
  <2>5. QED
    BY <2>3, <2>4
<1>3. CASE SwallowedFault(w)
  BY <1>3 DEF SwallowedFault, AfterUpdate, Goto, TypeOK
<1>4. CASE /\ pc'[w] = pc[w] /\ job'[w] = job[w] /\ ~WriteState(w)
           /\ snap'[w] = snap[w] /\ target'[w] = target[w]
  BY <1>4, ClosingFrame
<1>5. QED
  BY <1>1, <1>2, <1>3, <1>4, ClosingMoves

(* A worker leaves a job when it ended it, or when a fault hit it.         *)
LEMMA LeavingStep ==
  ASSUME TypeOK, ClosingInv, [Next]_vars, NEW w \in Workers,
         job[w] # None, job'[w] # job[w]
  PROVE  Ended(w) \/ job[w] \in hurt'
<1>1. ASSUME NEW u \in Workers, CompleteAttempt(u) PROVE Ended(w) \/ job[w] \in hurt'
  <2>1. u = w
    BY <1>1 DEF CompleteAttempt, Finish, EndCallback, TypeOK
  <2>2. QED
    BY <1>1, <2>1 DEF CompleteAttempt, ClosingInv
<1>2. ASSUME NEW u \in Workers, Kill(u) \/ RaisedFault(u) PROVE job[w] \in hurt'
  BY <1>2 DEF Kill, RaisedFault, Finish, EndCallback, TypeOK
<1>3. ASSUME NEW u \in Workers, NEW j \in Jobs, Deliver(u, j) PROVE FALSE
  BY <1>3 DEF Deliver, TypeOK
<1>4. ~UNCHANGED job
  OBVIOUS
<1>5. QED
  BY <1>1, <1>2, <1>3, <1>4 DEF Next, WorkerStep, ReaperStep, vars, workerVars,
     ReadVersion, WriteState, CreateAttempt, Heartbeat, SwallowedFault,
     FetchFails, FetchSucceeds, PublishPayload, StoreArtifact, DeadLetterJob,
     RequestReads, RequestWrites, BeatExpires, FindStaleJobs, ReapNext,
     SelectExpired, PurgeSelected

LEMMA RunningStep == TypeOK /\ RunningInv /\ [Next]_vars => RunningInv'
<1> SUFFICES ASSUME TypeOK, RunningInv, [Next]_vars PROVE RunningInv'
  OBVIOUS
<1>1. OwnerInv' /\ ClosingInv'
  BY OwnerStep, ClosingStep DEF RunningInv
<1>2. ASSUME NEW j \in rows', state'[j] = "RUNNING", j \notin hurt' PROVE Busy(j)'
  <2>1. j \in rows /\ j \in Jobs
    BY <1>2, SentStays DEF TypeOK
  <2>2. CASE ~Still(j)
    <3>1. PICK w \in Workers : WriteState(w) /\ job[w] = j
      BY <1>2, <2>1, <2>2, RunningWritten
    <3>2. QED
      BY <3>1 DEF WriteState, Busy
  <2>3. CASE Still(j)
    <3>1. state[j] = "RUNNING"
      BY <1>2, <2>3 DEF Still
    <3>2. hurt \subseteq hurt'
      BY DEF Next, WorkerStep, ReaperStep, vars, history,
         Deliver, ReadVersion, WriteState, CreateAttempt, Heartbeat, SwallowedFault,
         FetchFails, FetchSucceeds, PublishPayload, StoreArtifact, DeadLetterJob,
         RaisedFault, CompleteAttempt, Kill, RequestReads, RequestWrites, BeatExpires,
         FindStaleJobs, ReapNext, SelectExpired, PurgeSelected
    <3>3. PICK w \in Workers : job[w] = j
      BY <1>2, <2>1, <3>1, <3>2 DEF RunningInv, NotLeftRunning, Busy
    <3>4. job'[w] = job[w]
      BY <1>2, <2>1, <3>1, <3>3, LeavingStep, NoneAssumption DEF RunningInv, Ended
    <3>5. QED
      BY <3>3, <3>4 DEF Busy
  <2>4. QED
    BY <2>2, <2>3
<1>3. NotLeftRunning'
  BY <1>2 DEF NotLeftRunning, Busy
<1>4. QED
  BY <1>1, <1>3 DEF RunningInv

LEMMA RunningInvariant == Spec => []RunningInv
<1>1. Init => RunningInv
  BY NoneAssumption DEF Init, RunningInv, OwnerInv, ClosingInv, NotLeftRunning
<1> QED
  BY <1>1, RunningStep, TypeCorrect, PTL DEF Spec

(* A RUNNING job has a worker on it, or a fault explains why it has none.  *)
THEOREM NoJobLeftRunning == Spec => []NotLeftRunning
<1>1. RunningInv => NotLeftRunning
  BY DEF RunningInv
<1> QED
  BY <1>1, RunningInvariant, PTL

-----------------------------------------------------------------------------
(* The refinement.  The job of a worker is one the record calls worked on  *)
(* (OwnerInv); what a compare-and-swap writes is justified by the read it  *)
(* matches (SnapshotInv) or by what the worker sent before (SentInv); and  *)
(* what was selected for the purge stays selected by its deleted_at.       *)

Working == {j \in Jobs : delivery[j] = "running"}
Over    == {j \in Jobs : delivery[j] = "done"}

recorded == <<rows, state, deletedAt, Working, Over, retry,
              published, dropped, deadLettered, hurt>>

PurgeInv == purgeList \subseteq deletedAt

LEMMA PurgeStep == TypeOK /\ PurgeInv /\ [Next]_vars => PurgeInv'
<1> SUFFICES ASSUME TypeOK, PurgeInv, [Next]_vars PROVE PurgeInv'
  OBVIOUS
<1>1. CASE SelectExpired
  BY <1>1 DEF SelectExpired, PurgeInv, rowVars
<1>2. CASE PurgeSelected
  BY <1>2 DEF PurgeSelected, PurgeInv
<1>3. ASSUME NEW r \in Requests, RequestWrites(r) PROVE PurgeInv'
  BY <1>3 DEF RequestWrites, PurgeInv, reaperVars
<1>4. CASE UNCHANGED <<deletedAt, purgeList>>
  BY <1>4 DEF PurgeInv
<1> QED
  BY <1>1, <1>2, <1>3, <1>4 DEF Next, WorkerStep, ReaperStep, vars, rowVars, reaperVars,
     Deliver, ReadVersion, WriteState, CreateAttempt, Heartbeat, SwallowedFault, FetchFails,
     FetchSucceeds, PublishPayload, StoreArtifact, DeadLetterJob, RaisedFault,
     CompleteAttempt, Kill, RequestReads, BeatExpires, FindStaleJobs, ReapNext

LEMMA PurgeInvariant == Spec => []PurgeInv
<1>1. Init => PurgeInv
  BY DEF Init, PurgeInv
<1> QED
  BY <1>1, PurgeStep, TypeCorrect, PTL DEF Spec

LEMMA SentInvariant == Spec => []SentInv
<1>1. Init => SentInv
  BY DEF Init, SentInv
<1> QED
  BY <1>1, SentStep, TypeCorrect, PTL DEF Spec

(* A compare-and-swap that matches is a write of the record.               *)
LEMMA UpdateIsWrite ==
  ASSUME TypeOK, NEW j \in Jobs, NEW v, NEW new, UpdateJobState(j, v, new), rows' = rows
  PROVE  \/ ~Matches(j, v) /\ UNCHANGED state
         \/ Matches(j, v) /\ Record!Becomes(j, new)
BY DEF UpdateJobState, Matches, Record!Becomes

(* What the consumer makes of a callback's result is what the record       *)
(* allows whoever stops working on a job.                                  *)
LEMMA FinishRecorded ==
  ASSUME TypeOK, NEW w \in Workers, NEW ok \in BOOLEAN, Finish(w, ok), job[w] \in Working,
         UNCHANGED <<rows, state, deletedAt, published, dropped>>,
         (ok /\ hurt' = hurt) \/ hurt' = hurt \cup {job[w]},
         Ended(w) \/ job[w] \in hurt'
  PROVE  \E j \in Jobs : Record!GiveBack(j) \/ Record!Leave(j)
<1>0. PICK j \in Jobs : j = job[w]
  BY DEF Working
<1> DEFINE again == ~ok /\ retry[j] + 1 < MaxRetries
<1>1. PICK push \in Pushed :
        /\ delivery' = [delivery EXCEPT ![j] = IF again /\ push # "dropped" THEN "ready" ELSE "done"]
        /\ retry' = [retry EXCEPT ![j] = IF again /\ push # "dropped" THEN @ + 1 ELSE @]
        /\ deadLettered' = IF ok \/ (again /\ push = "added")
                           THEN deadLettered ELSE deadLettered \cup {j}
  BY <1>0 DEF Finish
<1> DEFINE back == again /\ push # "dropped"
<1>2. /\ delivery \in [Jobs -> {"ready", "running", "done"}] /\ retry \in [Jobs -> Nat]
      /\ delivery[j] = "running"
  BY <1>0 DEF TypeOK, Working
<1>3. ((ok /\ hurt' = hurt) \/ hurt' = hurt \cup {j}) /\ (Ended(w) \/ j \in hurt')
  BY <1>0
<1>4. Ended(w) <=> ~(j \in rows /\ state[j] = "RUNNING")
  BY <1>0 DEF Ended
<1>5. CASE back
  <2>1. Working' = Working \ {j} /\ Over' = Over
    BY <1>1, <1>2, <1>5 DEF Working, Over
  <2>2. /\ retry' = [retry EXCEPT ![j] = @ + 1] /\ hurt' = hurt \cup {j}
        /\ deadLettered' \in {deadLettered, deadLettered \cup {j}}
    BY <1>1, <1>3, <1>5
  <2>3. Record!GiveBack(j)
    BY <1>1, <1>2, <1>5, <2>1, <2>2 DEF Record!GiveBack, Working, Over
  <2> QED
    BY <2>3
<1>6. CASE ~back
  <2>1. Working' = Working \ {j} /\ Over' = Over \cup {j}
    BY <1>1, <1>2, <1>6 DEF Working, Over
  <2>2. retry' = retry
    BY <1>1, <1>2, <1>6
  <2>3. deadLettered' = deadLettered \/ (j \in hurt' /\ deadLettered' = deadLettered \cup {j})
    BY <1>1, <1>3, <1>6
  <2>4. hurt' \in {hurt, hurt \cup {j}} /\ ((j \in rows /\ state[j] = "RUNNING") => j \in hurt')
    BY <1>3, <1>4
  <2>5. Record!Leave(j)
    BY <1>1, <1>2, <2>1, <2>2, <2>3, <2>4 DEF Record!Leave, Working, Over
  <2> QED
    BY <2>5
<1> QED
  BY <1>5, <1>6

LEMMA RecordStep ==
  TypeOK /\ SnapshotInv /\ SentInv /\ RunningInv /\ PurgeInv /\ [Next]_vars
    => [Record!Next]_recorded
<1> SUFFICES ASSUME TypeOK, SnapshotInv, SentInv, RunningInv, PurgeInv, [Next]_vars
             PROVE  [Record!Next]_recorded
  OBVIOUS
<1> USE NoneAssumption
<1>0. ASSUME NEW j \in Jobs,
             \/ Record!Take(j) \/ Record!Publish(j) \/ Record!Bury(j) \/ Record!Hurt(j)
             \/ Record!GiveBack(j) \/ Record!Leave(j)
             \/ Record!Cancel(j) \/ Record!Delete(j) \/ Record!Reap(j)
             \/ \E new \in {"RUNNING", "SUCCEEDED", "FAILED"} : Record!Write(j, new)
      PROVE  Record!Next
  BY <1>0 DEF Record!Next
<1>1. \A w \in Workers : pc[w] # "idle" => job[w] \in Jobs /\ job[w] \in Working
  BY DEF TypeOK, RunningInv, OwnerInv, Working
<1>2. ASSUME NEW w \in Workers, NEW j \in Jobs, Deliver(w, j) PROVE Record!Next
  <2>1. delivery[j] = "ready" /\ delivery' = [delivery EXCEPT ![j] = "running"]
    BY <1>2 DEF Deliver
  <2>2. j \notin Working \cup Over /\ Working' = Working \cup {j} /\ Over' = Over
    BY <2>1 DEF Working, Over, TypeOK
  <2>3. UNCHANGED <<rows, state, deletedAt, retry, published, dropped, deadLettered, hurt>>
    BY <1>2 DEF Deliver, rowVars, history
  <2>4. Record!Take(j)
    BY <2>2, <2>3 DEF Record!Take, Working, Over
  <2> QED
    BY <1>0, <2>4
<1>3. ASSUME NEW w \in Workers, WriteState(w) PROVE Record!Next \/ UNCHANGED recorded
  <2>1. /\ pc[w] = "cas" /\ rows' = rows /\ UpdateJobState(job[w], snap[w], target[w])
        /\ UNCHANGED <<deletedAt, delivery, retry, published, dropped, deadLettered, hurt>>
    BY <1>3 DEF WriteState, queueVars, history
  <2>2. UNCHANGED <<Working, Over>>
    BY <2>1 DEF Working, Over
  <2>3. PICK j \in Jobs : j = job[w] /\ j \in Working
    BY <1>1, <2>1
  <2>4. CASE UNCHANGED state
    BY <2>1, <2>2, <2>4 DEF recorded
  <2>5. CASE Record!Becomes(j, target[w])
    <3>1. target[w] \in {"RUNNING", "SUCCEEDED", "FAILED"}
      BY DEF TypeOK
    <3>2. (target[w] = "SUCCEEDED" => j \in published \cup dropped) /\ (target[w] = "FAILED" => j \in deadLettered)
      BY <2>1, <2>3 DEF SentInv
    <3>3. Record!Write(j, target[w])
      BY <2>1, <2>2, <2>3, <2>5, <3>2 DEF Record!Write, Working, Over
    <3> QED
      BY <1>0, <3>1, <3>3
  <2> QED
    BY <2>1, <2>3, <2>4, <2>5, UpdateIsWrite
<1>4. ASSUME NEW w \in Workers, SwallowedFault(w) PROVE Record!Next
  <2>1. pc[w] # "idle" /\ hurt' = hurt \cup {job[w]}
    BY <1>4 DEF SwallowedFault
  <2>2. UNCHANGED <<rows, state, deletedAt, delivery, retry, published, dropped, deadLettered>>
    BY <1>4 DEF SwallowedFault, rowVars, queueVars
  <2>3. PICK j \in Jobs : j = job[w] /\ j \in Working
    BY <1>1, <2>1
  <2>4. Record!Hurt(j)
    BY <2>1, <2>2, <2>3 DEF Record!Hurt, Working
  <2> QED
    BY <1>0, <2>4
<1>5. ASSUME NEW w \in Workers, PublishPayload(w) PROVE Record!Next
  <2>1. pc[w] # "idle"
    BY <1>5 DEF PublishPayload
  <2>2. UNCHANGED <<rows, state, deletedAt, delivery, retry, deadLettered, hurt>>
    BY <1>5 DEF PublishPayload, rowVars, queueVars
  <2>3. PICK j \in Jobs : j = job[w] /\ j \in Working
    BY <1>1, <2>1
  <2>4. \/ published' = published \cup {j} /\ dropped' \in {dropped, dropped \cup {j}}
        \/ dropped' = dropped \cup {j} /\ UNCHANGED published
    BY <1>5, <2>3 DEF PublishPayload, Pushed
  <2>5. Record!Publish(j)
    BY <2>2, <2>3, <2>4 DEF Record!Publish, Working
  <2> QED
    BY <1>0, <2>5
<1>6. ASSUME NEW w \in Workers, DeadLetterJob(w) PROVE Record!Next
  <2>1. pc[w] # "idle" /\ deadLettered' = deadLettered \cup {job[w]}
    BY <1>6 DEF DeadLetterJob
  <2>2. UNCHANGED <<rows, state, deletedAt, delivery, retry, published, dropped, hurt>>
    BY <1>6 DEF DeadLetterJob, rowVars, queueVars
  <2>3. PICK j \in Jobs : j = job[w] /\ j \in Working
    BY <1>1, <2>1
  <2>4. Record!Bury(j)
    BY <2>1, <2>2, <2>3 DEF Record!Bury, Working
  <2> QED
    BY <1>0, <2>4
<1>7. ASSUME NEW w \in Workers, RaisedFault(w) PROVE Record!Next
  <2>1. pc[w] # "idle" /\ hurt' = hurt \cup {job[w]} /\ UNCHANGED <<rows, state, deletedAt, published, dropped>>
    BY <1>7 DEF RaisedFault, rowVars
  <2>2. PICK j \in Jobs : j = job[w] /\ j \in Working
    BY <1>1, <2>1
  <2>3. CASE UNCHANGED <<queueVars, job, snap, round, target, guarded, deadLettered>>
    <3>1. Record!Hurt(j)
      BY <2>1, <2>2, <2>3 DEF Record!Hurt, Working, queueVars
    <3> QED
      BY <1>0, <3>1
  <2>4. CASE Finish(w, FALSE)
    <3>1. \E k \in Jobs : Record!GiveBack(k) \/ Record!Leave(k)
      BY <2>1, <2>2, <2>4, FinishRecorded
    <3> QED
      BY <1>0, <3>1
  <2> QED
    BY <1>7, <2>3, <2>4 DEF RaisedFault
<1>8. ASSUME NEW w \in Workers, CompleteAttempt(w) PROVE Record!Next
  <2>1. pc[w] = "close" /\ Finish(w, TRUE) /\ UNCHANGED <<rows, state, deletedAt, published, dropped, hurt>>
    BY <1>8 DEF CompleteAttempt
  <2>2. PICK j \in Jobs : j = job[w] /\ j \in Working
    BY <1>1, <2>1
  <2>3. Ended(w) \/ job[w] \in hurt'
    BY <2>1 DEF RunningInv, ClosingInv
  <2>4. \E k \in Jobs : Record!GiveBack(k) \/ Record!Leave(k)
    BY <2>1, <2>2, <2>3, FinishRecorded
  <2> QED
    BY <1>0, <2>4
<1>9. ASSUME NEW w \in Workers, Kill(w) PROVE Record!Next
  <2>1. /\ pc[w] # "idle" /\ hurt' = hurt \cup {job[w]}
        /\ delivery' = [delivery EXCEPT ![job[w]] = "done"]
        /\ UNCHANGED <<rows, state, deletedAt, retry, published, dropped, deadLettered>>
    BY <1>9 DEF Kill, rowVars
  <2>2. PICK j \in Jobs : j = job[w] /\ j \in Working
    BY <1>1, <2>1
  <2>3. delivery' = [delivery EXCEPT ![j] = "done"]
    BY <2>1, <2>2
  <2>4. Working' = Working \ {j} /\ Over' = Over \cup {j}
    BY <2>3 DEF Working, Over, TypeOK
  <2>5. Record!Leave(j)
    BY <2>1, <2>2, <2>4 DEF Record!Leave, Working, Over
  <2> QED
    BY <1>0, <2>5
<1>10. ASSUME NEW r \in Requests, RequestWrites(r) PROVE Record!Next \/ UNCHANGED recorded
  <2> DEFINE new == IF r \in Cancels THEN "CANCELLED" ELSE "DELETED"
  <2>1. /\ reqPc[r] = "cas" /\ reqJob[r] \in Jobs
        /\ UpdateJobState(reqJob[r], reqSnap[r], new)
        /\ deletedAt' = IF r \in Deletes /\ Matches(reqJob[r], reqSnap[r])
                        THEN deletedAt \cup {reqJob[r]} ELSE deletedAt
        /\ UNCHANGED <<rows, delivery, retry, published, dropped, deadLettered, hurt>>
    BY <1>10 DEF RequestWrites, queueVars, history, TypeOK
  <2>2. UNCHANGED <<Working, Over>>
    BY <2>1 DEF Working, Over
  <2>3. PICK j \in Jobs : j = reqJob[r]
    BY <2>1
  <2>4. CASE ~Matches(j, reqSnap[r])
    <3>1. UNCHANGED <<state, deletedAt>>
      BY <2>1, <2>3, <2>4 DEF UpdateJobState
    <3> QED
      BY <2>1, <2>2, <3>1 DEF recorded
  <2>5. CASE Matches(j, reqSnap[r])
    <3>1. Proceeds(r, state[j])
      BY <2>1, <2>3, <2>5 DEF SnapshotInv, RequestInv, Matches
    <3>2. Record!Becomes(j, new)
      BY <2>1, <2>3, <2>5, UpdateIsWrite
    <3>3. CASE r \in Cancels
      <4>1. r \notin Deletes /\ new = "CANCELLED" /\ state[j] \notin Deletable
        BY <3>1, <3>3, RequestsAssumption DEF Proceeds
      <4>2. Record!Cancel(j)
        BY <2>1, <2>2, <3>2, <4>1 DEF Record!Cancel, Record!Finished, Deletable, Working, Over
      <4> QED
        BY <1>0, <4>2
    <3>4. CASE r \notin Cancels
      <4>1. r \in Deletes /\ new = "DELETED" /\ state[j] \in Deletable
        BY <3>1, <3>4 DEF Proceeds, Requests
      <4>2. deletedAt' = deletedAt \cup {j}
        BY <2>1, <2>3, <2>5, <4>1
      <4>3. Record!Delete(j)
        BY <2>1, <2>2, <3>2, <4>1, <4>2 DEF Record!Delete, Record!Finished, Deletable, Working, Over
      <4> QED
        BY <1>0, <4>3
    <3> QED
      BY <3>3, <3>4
  <2> QED
    BY <2>4, <2>5
<1>11. CASE ReapNext
  <2>1. PICK s \in reapList :
          /\ UpdateJobState(s.job, s.version, "FAILED")
          /\ UNCHANGED <<rows, deletedAt, delivery, retry, published, dropped, deadLettered, hurt>>
    BY <1>11 DEF ReapNext, queueVars
  <2>2. UNCHANGED <<Working, Over>>
    BY <2>1 DEF Working, Over
  <2>3. PICK j \in Jobs : j = s.job
    BY DEF TypeOK, Snapshot
  <2>4. CASE ~Matches(j, s.version)
    BY <2>1, <2>2, <2>3, <2>4 DEF UpdateJobState, recorded
  <2>5. CASE Matches(j, s.version)
    <3>1. state[j] = "RUNNING"
      BY <2>3, <2>5 DEF SnapshotInv, ReapInv, Matches
    <3>2. Record!Becomes(j, "FAILED")
      BY <2>1, <2>3, <2>5, UpdateIsWrite
    <3>3. Record!Reap(j)
      BY <2>1, <2>2, <3>1, <3>2 DEF Record!Reap, Working, Over
    <3> QED
      BY <1>0, <3>3
  <2> QED
    BY <2>4, <2>5
<1>12. CASE PurgeSelected
  <2>1. /\ rows' = rows \ purgeList /\ deletedAt' = deletedAt \ purgeList
        /\ UNCHANGED <<state, delivery, retry, published, dropped, deadLettered, hurt>>
    BY <1>12 DEF PurgeSelected, queueVars, history
  <2>2. Record!Purge(purgeList) /\ purgeList \in SUBSET deletedAt
    BY <2>1 DEF Record!Purge, PurgeInv
  <2> QED
    BY <2>2 DEF Record!Next
<1>13. ASSUME NEW w \in Workers,
              ReadVersion(w) \/ CreateAttempt(w) \/ Heartbeat(w) \/ FetchFails(w) \/ FetchSucceeds(w) \/ StoreArtifact(w)
       PROVE  UNCHANGED recorded
  BY <1>13 DEF ReadVersion, CreateAttempt, Heartbeat, FetchFails, FetchSucceeds, StoreArtifact,
               rowVars, queueVars, history, recorded, Working, Over
<1>14. ASSUME NEW r \in Requests, NEW j \in Jobs, RequestReads(r, j) PROVE UNCHANGED recorded
  BY <1>14 DEF RequestReads, rowVars, queueVars, history, recorded, Working, Over
<1>15. ASSUME NEW j \in Jobs, BeatExpires(j) PROVE UNCHANGED recorded
  BY <1>15 DEF BeatExpires, queueVars, history, recorded, Working, Over
<1>16. CASE FindStaleJobs \/ SelectExpired \/ UNCHANGED vars
  BY <1>16 DEF FindStaleJobs, SelectExpired, vars, rowVars, queueVars, history, recorded, Working, Over
<1> QED
  BY <1>2, <1>3, <1>4, <1>5, <1>6, <1>7, <1>8, <1>9, <1>10, <1>11, <1>12, <1>13, <1>14, <1>15, <1>16
     DEF Next, WorkerStep, ReaperStep

(* The row, its writers and the queue implement JobRecord.                 *)
THEOREM Refinement == Spec => RecordSpec
<1>1. Init => Record!Init
  BY DEF Init, Record!Init
<1>2. TypeOK /\ SnapshotInv /\ SentInv /\ RunningInv /\ PurgeInv /\ [Next]_vars
        => [Record!Next]_Record!recordVars
  BY RecordStep DEF Record!recordVars, recorded, Working, Over
<1> QED
  BY <1>1, <1>2, TypeCorrect, SnapshotInvariant, SentInvariant, RunningInvariant, PurgeInvariant, PTL
     DEF Spec, RecordSpec, Record!Spec
=============================================================================
