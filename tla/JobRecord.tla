----------------------------- MODULE JobRecord -----------------------------
(***************************************************************************)
(* What the durable record promises about a job, without versions,         *)
(* snapshots or the calls in which a worker goes about its work: who may   *)
(* write which state and on what grounds, how often a job is worked on,    *)
(* and in what state whoever works on it may leave it.                     *)
(*                                                                         *)
(* Only cancellations, deletions and the reaper look at the state they     *)
(* replace.  Whoever works on the job does not: it may set a cancelled job *)
(* RUNNING, and a deleted one that is to be purged.                        *)
(***************************************************************************)
EXTENDS Integers

CONSTANTS Jobs, MaxRetries

VARIABLES
  rows,       \* jobs on record
  state,      \* their states
  deleted,    \* jobs once soft-deleted and still on record
  working,    \* jobs somebody works on
  over,       \* jobs nobody will work on again
  retries,    \* how often each was given back
  published,  \* jobs whose payload is out
  dropped,    \* jobs whose payload was dead-lettered for want of memory
  buried,     \* jobs on the dead-letter queue
  hurt        \* jobs hit by a failing call or a kill while worked on

recordVars == <<rows, state, deleted, working, over, retries, published, dropped, buried, hurt>>

Finished == {"SUCCEEDED", "FAILED", "CANCELLED", "DEAD_LETTERED"}

Init ==
  /\ rows = Jobs
  /\ state = [j \in Jobs |-> "QUEUED"]
  /\ deleted = {}
  /\ working = {} /\ over = {}
  /\ retries = [j \in Jobs |-> 0]
  /\ published = {} /\ dropped = {} /\ buried = {} /\ hurt = {}

Becomes(j, new) == j \in rows /\ state' = [state EXCEPT ![j] = new]

Take(j) ==
  /\ j \notin working \cup over
  /\ working' = working \cup {j}
  /\ UNCHANGED <<rows, state, deleted, over, retries, published, dropped, buried, hurt>>

Publish(j) ==
  /\ j \in working
  /\ \/ published' = published \cup {j} /\ dropped' \in {dropped, dropped \cup {j}}
     \/ dropped' = dropped \cup {j} /\ UNCHANGED published
  /\ UNCHANGED <<rows, state, deleted, working, over, retries, buried, hurt>>

Bury(j) ==
  /\ j \in working
  /\ buried' = buried \cup {j}
  /\ UNCHANGED <<rows, state, deleted, working, over, retries, published, dropped, hurt>>

\* An outcome is written after its message is out.
Write(j, new) ==
  /\ j \in working
  /\ new = "SUCCEEDED" => j \in published \cup dropped
  /\ new = "FAILED" => j \in buried
  /\ Becomes(j, new)
  /\ UNCHANGED <<rows, deleted, working, over, retries, published, dropped, buried, hurt>>

Hurt(j) ==
  /\ j \in working
  /\ hurt' = hurt \cup {j}
  /\ UNCHANGED <<rows, state, deleted, working, over, retries, published, dropped, buried>>

\* A fault gives the job back, until the budget is used up.
GiveBack(j) ==
  /\ j \in working
  /\ retries[j] + 1 < MaxRetries
  /\ working' = working \ {j}
  /\ retries' = [retries EXCEPT ![j] = @ + 1]
  /\ hurt' = hurt \cup {j}
  /\ buried' \in {buried, buried \cup {j}}
  /\ UNCHANGED <<rows, state, deleted, over, published, dropped>>

\* Work ends for good: with the job not RUNNING, or by a fault.
Leave(j) ==
  /\ j \in working
  /\ working' = working \ {j} /\ over' = over \cup {j}
  /\ hurt' \in {hurt, hurt \cup {j}}
  /\ (j \in rows /\ state[j] = "RUNNING") => j \in hurt'
  /\ buried' = buried \/ (j \in hurt' /\ buried' = buried \cup {j})
  /\ UNCHANGED <<rows, state, deleted, retries, published, dropped>>

Cancel(j) ==
  /\ state[j] \notin Finished
  /\ Becomes(j, "CANCELLED")
  /\ UNCHANGED <<rows, deleted, working, over, retries, published, dropped, buried, hurt>>

Delete(j) ==
  /\ state[j] \in Finished
  /\ Becomes(j, "DELETED")
  /\ deleted' = deleted \cup {j}
  /\ UNCHANGED <<rows, working, over, retries, published, dropped, buried, hurt>>

Reap(j) ==
  /\ state[j] = "RUNNING"
  /\ Becomes(j, "FAILED")
  /\ UNCHANGED <<rows, deleted, working, over, retries, published, dropped, buried, hurt>>

Purge(S) ==
  /\ S \subseteq deleted
  /\ rows' = rows \ S /\ deleted' = deleted \ S
  /\ UNCHANGED <<state, working, over, retries, published, dropped, buried, hurt>>

Next ==
  \/ \E j \in Jobs :
       \/ Take(j) \/ Publish(j) \/ Bury(j) \/ Hurt(j) \/ GiveBack(j) \/ Leave(j)
       \/ Cancel(j) \/ Delete(j) \/ Reap(j)
       \/ \E new \in {"RUNNING", "SUCCEEDED", "FAILED"} : Write(j, new)
  \/ \E S \in SUBSET deleted : Purge(S)

Spec == Init /\ [][Next]_recordVars
=============================================================================
