----------------------------- MODULE StreamQueue -----------------------------
(***************************************************************************)
(* One Valkey stream read by one consumer group through ValkeyStreamQueue  *)
(* (src/infrastructure/queues/stream_queue.py).  Every action is one       *)
(* awaited Valkey call of the consumer loop, so that the consumers of a    *)
(* group, the 60 second reclaim, a failing Valkey call and a killed worker *)
(* can interleave at every await.                                          *)
(*                                                                         *)
(* A stream entry is [id, mid, retry]: the entry id Valkey hands out, the  *)
(* message_id of the envelope it carries and the envelope's retry_count.   *)
(* Ids grow, so a set of entries is also the sequence Valkey keeps: the    *)
(* oldest entry is the one with the least id.                              *)
(* Payloads are left out: only the identity of a message and the outcome   *)
(* of its callback matter here.                                            *)
(***************************************************************************)
EXTENDS Integers, FiniteSets

CONSTANTS
  Consumers,   \* members of the consumer group
  Messages,    \* message_ids of the envelopes producers push
  Malformed,   \* the messages whose payload is not a QueueMessage
  None,        \* "no entry is being handled"
  MaxRetries,  \* max_retries of consume(): 3 in the code
  BatchSize,   \* COUNT of XREADGROUP: 10 in the code
  ClaimCount,  \* COUNT of XPENDING in _claim_pending: 5 in the code
  Saturation,  \* may Valkey be above its hard memory limit?
  MaxPushes,   \* bound: how often producers push one message_id
  MaxCrashes,  \* bound: handlers cut short by a kill or a failing call
  MaxExpiries  \* bound: dedup keys that reach their 24 hour TTL

Entry == [id : Nat, mid : Messages, retry : Nat]

ASSUME NoneAssumption      == None \notin Entry
ASSUME MessagesAssumption  == Malformed \subseteq Messages
ASSUME BoundsAssumption ==
  /\ MaxRetries \in Nat \ {0} /\ BatchSize \in Nat \ {0} /\ ClaimCount \in Nat
  /\ MaxPushes \in Nat /\ MaxCrashes \in Nat /\ MaxExpiries \in Nat
  /\ Saturation \in BOOLEAN

VARIABLES
  backlog,   \* entries XREADGROUP ">" has not delivered yet
  pending,   \* the group's pending entries list: delivered, not XACKed
  idle,      \* the pending entries untouched for claim_idle_ms
  dedup,     \* message_ids whose key dedup:<message_id> exists
  dlq,       \* dead-letter stream, as the set of [mid, reason] written
  pc,        \* what each consumer awaits next
  phase,     \* which half of the consumer loop each consumer is in
  batch,     \* entries a consumer received and has not looked at yet
  cur,       \* the entry a consumer is handling
  nextId,    \* id Valkey gives the next entry
  pushes,    \* history: pushes of each message by producers
  failures,  \* history: callbacks that returned False or raised
  successes, \* history: callbacks that returned True
  cut,       \* history: messages whose handler was cut short before it
             \* recorded an outcome
  crashes,   \* history: handlers cut short so far
  expired    \* history: messages whose dedup key reached its TTL

streamVars == <<backlog, nextId>>
groupVars  == <<pending, idle>>
localVars  == <<pc, phase, batch, cur>>
history    == <<pushes, failures, successes, cut, crashes, expired>>
vars == <<streamVars, groupVars, dedup, dlq, localVars, history>>

Reason == {"exhausted", "oom", "unparseable"}

\* "loop": between two entries; the others name the awaited call in
\* _process_entry: SET NX, the callback, DEL, re-push or DLQ, XACK.
Pc == {"loop", "dedup", "callback", "release", "requeue", "ack"}

Init ==
  /\ backlog = {} /\ nextId = 1
  /\ pending = {} /\ idle = {}
  /\ dedup = {} /\ dlq = {}
  /\ pc = [c \in Consumers |-> "loop"]
  /\ phase = [c \in Consumers |-> "read"]
  /\ batch = [c \in Consumers |-> {}]
  /\ cur = [c \in Consumers |-> None]
  /\ pushes = [m \in Messages |-> 0]
  /\ failures = [m \in Messages |-> 0]
  /\ successes = [m \in Messages |-> 0]
  /\ cut = {} /\ crashes = 0 /\ expired = {}

-----------------------------------------------------------------------------
(* Producer side: push() and push_dlq().                                   *)

Enqueue(m, retry) ==
  /\ backlog' = backlog \cup {[id |-> nextId, mid |-> m, retry |-> retry]}
  /\ nextId' = nextId + 1

DeadLetter(m, reason) == dlq' = dlq \cup {[mid |-> m, reason |-> reason]}

(* Above the hard limit push() dead-letters instead of enqueueing.  The    *)
(* check sits in a try block that swallows exceptions: when the metric     *)
(* increment after push_dlq() fails, control falls through to XADD and the *)
(* message is dead-lettered and enqueued.                                  *)
Push(m, retry) ==
  \/ Enqueue(m, retry) /\ UNCHANGED dlq
  \/ Saturation /\ DeadLetter(m, "oom") /\ UNCHANGED streamVars
  \/ Saturation /\ DeadLetter(m, "oom") /\ Enqueue(m, retry)

\* A producer pushes an envelope; a producer that retries (the outbox relay
\* after a crash) pushes the same message_id again.
Produce(m) ==
  /\ pushes[m] < MaxPushes
  /\ Push(m, 0)
  /\ pushes' = [pushes EXCEPT ![m] = @ + 1]
  /\ UNCHANGED <<groupVars, dedup, localVars,
                 failures, successes, cut, crashes, expired>>

-----------------------------------------------------------------------------
(* Consumer side: consume(), _claim_pending() and _process_entry().        *)

\* The n entries of S with the least ids, in the order Valkey lists them.
Oldest(S, n) == {e \in S : Cardinality({f \in S : f.id < e.id}) < n}

\* The consumer loop hands the entries it holds to _process_entry one after
\* the other, oldest first; when none is left it goes on with the other half
\* of the loop.
Continue(c, entries) ==
  \/ /\ entries = {}
     /\ pc' = [pc EXCEPT ![c] = "loop"]
     /\ phase' = [phase EXCEPT ![c] = IF @ = "read" THEN "claim" ELSE "read"]
     /\ cur' = [cur EXCEPT ![c] = None]
     /\ UNCHANGED batch
  \/ \E e \in Oldest(entries, 1) :
       /\ pc' = [pc EXCEPT ![c] = "dedup"]
       /\ cur' = [cur EXCEPT ![c] = e]
       /\ batch' = [batch EXCEPT ![c] = entries \ {e}]
       /\ UNCHANGED phase

\* XREADGROUP ">": the oldest undelivered entries become pending.
Read(c) ==
  LET delivered == Oldest(backlog, BatchSize)
  IN /\ pc[c] = "loop" /\ phase[c] = "read"
     /\ backlog' = backlog \ delivered
     /\ pending' = pending \cup delivered
     /\ Continue(c, delivered)
     /\ UNCHANGED <<nextId, idle, dedup, dlq, history>>

\* Mutant of Claim: claimed entries never reach _process_entry.
ClaimNothing(c) ==
  /\ pc[c] = "loop" /\ phase[c] = "claim"
  /\ Continue(c, {})
  /\ UNCHANGED <<streamVars, groupVars, dedup, dlq, history>>

\* XPENDING then XCLAIM: whatever of the oldest pending entries has been idle
\* long enough is delivered again to this consumer, whoever had it.
Claim(c) ==
  LET claimed == Oldest(pending, ClaimCount) \cap idle
  IN /\ pc[c] = "loop" /\ phase[c] = "claim"
     /\ idle' = idle \ claimed
     /\ Continue(c, claimed)
     /\ UNCHANGED <<streamVars, pending, dedup, dlq, history>>

Goto(c, label) == pc' = [pc EXCEPT ![c] = label] /\ UNCHANGED <<phase, batch, cur>>

\* The payload does not parse: dead-letter it raw, which may fail silently.
RejectMalformed(c) ==
  /\ pc[c] = "dedup"
  /\ cur[c].mid \in Malformed
  /\ DeadLetter(cur[c].mid, "unparseable") \/ UNCHANGED dlq
  /\ Goto(c, "ack")
  /\ UNCHANGED <<streamVars, groupVars, dedup, history>>

\* Mutant of Acquire: SET without NX.
AcquireWithoutNX(c) ==
  /\ pc[c] = "dedup"
  /\ cur[c].mid \notin Malformed
  /\ dedup' = dedup \cup {cur[c].mid}
  /\ Goto(c, "callback")
  /\ UNCHANGED <<streamVars, groupVars, dlq, history>>

\* SET dedup:<message_id> NX succeeds: the callback starts.
Acquire(c) ==
  /\ pc[c] = "dedup"
  /\ cur[c].mid \notin Malformed \cup dedup
  /\ dedup' = dedup \cup {cur[c].mid}
  /\ Goto(c, "callback")
  /\ UNCHANGED <<streamVars, groupVars, dlq, history>>

\* The key exists: the entry is a duplicate and is only acknowledged.
SkipDuplicate(c) ==
  /\ pc[c] = "dedup"
  /\ cur[c].mid \in dedup \ Malformed
  /\ Goto(c, "ack")
  /\ UNCHANGED <<streamVars, groupVars, dedup, dlq, history>>

\* The callback returns True.
CallbackSucceeds(c) ==
  /\ pc[c] = "callback"
  /\ successes' = [successes EXCEPT ![cur[c].mid] = @ + 1]
  /\ Goto(c, "ack")
  /\ UNCHANGED <<streamVars, groupVars, dedup, dlq,
                 pushes, failures, cut, crashes, expired>>

\* The callback returns False or raises.
CallbackFails(c) ==
  /\ pc[c] = "callback"
  /\ failures' = [failures EXCEPT ![cur[c].mid] = @ + 1]
  /\ Goto(c, "release")
  /\ UNCHANGED <<streamVars, groupVars, dedup, dlq,
                 pushes, successes, cut, crashes, expired>>

\* Mutant of ReleaseKey: the key outlives a failed callback.
KeepKey(c) ==
  /\ pc[c] = "release"
  /\ Goto(c, "requeue")
  /\ UNCHANGED <<streamVars, groupVars, dedup, dlq, history>>

\* DEL dedup:<message_id>, so that the retry is not taken for a duplicate.
ReleaseKey(c) ==
  /\ pc[c] = "release"
  /\ dedup' = dedup \ {cur[c].mid}
  /\ Goto(c, "requeue")
  /\ UNCHANGED <<streamVars, groupVars, dlq, history>>

\* Mutant of Requeue: the retry budget is compared off by one.
RequeueOffByOne(c) ==
  LET newRetry == cur[c].retry + 1
  IN /\ pc[c] = "requeue"
     /\ \/ newRetry + 1 < MaxRetries /\ Push(cur[c].mid, newRetry)
        \/ /\ newRetry + 1 >= MaxRetries
           /\ DeadLetter(cur[c].mid, "exhausted")
           /\ UNCHANGED streamVars
     /\ Goto(c, "ack")
     /\ UNCHANGED <<groupVars, dedup, history>>

\* A failed callback below the budget is re-pushed with its retry_count
\* incremented, otherwise dead-lettered.
Requeue(c) ==
  LET newRetry == cur[c].retry + 1
  IN /\ pc[c] = "requeue"
     /\ \/ /\ newRetry < MaxRetries
           /\ Push(cur[c].mid, newRetry)
        \/ /\ newRetry >= MaxRetries
           /\ DeadLetter(cur[c].mid, "exhausted")
           /\ UNCHANGED streamVars
     /\ Goto(c, "ack")
     /\ UNCHANGED <<groupVars, dedup, history>>

\* XACK removes the entry from the group whoever owns it; a no-op when
\* another consumer acknowledged it before.
Ack(c) ==
  /\ pc[c] = "ack"
  /\ pending' = pending \ {cur[c]}
  /\ idle' = idle \ {cur[c]}
  /\ Continue(c, batch[c])
  /\ UNCHANGED <<streamVars, dedup, dlq, history>>

(* The handler is cut short at an await: the worker is killed and          *)
(* restarted, or a Valkey call raises and consume() goes back to the top   *)
(* of its loop.  What was in memory, the batch included, is forgotten.     *)
Cut(c) ==
  /\ crashes < MaxCrashes
  /\ pc[c] # "loop"
  /\ crashes' = crashes + 1
  /\ cut' = IF pc[c] \in {"callback", "release", "requeue"}
            THEN cut \cup {cur[c].mid} ELSE cut
  /\ pc' = [pc EXCEPT ![c] = "loop"]
  /\ phase' = [phase EXCEPT ![c] = "read"]
  /\ batch' = [batch EXCEPT ![c] = {}]
  /\ cur' = [cur EXCEPT ![c] = None]
  /\ UNCHANGED <<streamVars, groupVars, dedup, dlq,
                 pushes, failures, successes, expired>>

-----------------------------------------------------------------------------
(* Time.                                                                   *)

\* A pending entry becomes claimable: nothing bounds a callback by 60 s.
BecomeIdle(e) ==
  /\ e \in pending \ idle
  /\ idle' = idle \cup {e}
  /\ UNCHANGED <<streamVars, pending, dedup, dlq, localVars, history>>

Holds(c, m) == pc[c] \in {"callback", "release"} /\ cur[c].mid = m

\* The key reaches its 24 hour TTL.  A single handling takes less than that.
ExpireKey(m) ==
  /\ m \in dedup
  /\ Cardinality(expired) < MaxExpiries
  /\ \A c \in Consumers : ~Holds(c, m)
  /\ dedup' = dedup \ {m}
  /\ expired' = expired \cup {m}
  /\ UNCHANGED <<streamVars, groupVars, dlq, localVars,
                 pushes, failures, successes, cut, crashes>>

ConsumerStep(c) ==
  \/ Read(c) \/ Claim(c)
  \/ RejectMalformed(c) \/ Acquire(c) \/ SkipDuplicate(c)
  \/ CallbackSucceeds(c) \/ CallbackFails(c)
  \/ ReleaseKey(c) \/ Requeue(c) \/ Ack(c)

Next ==
  \/ \E m \in Messages : Produce(m) \/ ExpireKey(m)
  \/ \E c \in Consumers : ConsumerStep(c) \/ Cut(c)
  \/ \E e \in pending : BecomeIdle(e)

Spec == Init /\ [][Next]_vars

(* The loop of a running worker is never descheduled for good, a callback  *)
(* returns (every network wait below it has a timeout), and time passes.   *)
(* Nobody has to push, and no worker has to fail.                          *)
Fairness ==
  /\ \A c \in Consumers : WF_vars(ConsumerStep(c))
  /\ WF_vars(\E e \in pending : BecomeIdle(e))

FairSpec == Spec /\ Fairness

-----------------------------------------------------------------------------
TypeOK ==
  /\ backlog \subseteq Entry /\ nextId \in Nat
  /\ pending \subseteq Entry /\ idle \subseteq pending
  /\ dedup \subseteq Messages
  /\ dlq \subseteq [mid : Messages, reason : Reason]
  /\ pc \in [Consumers -> Pc]
  /\ phase \in [Consumers -> {"read", "claim"}]
  /\ batch \in [Consumers -> SUBSET Entry]
  /\ cur \in [Consumers -> Entry \cup {None}]
  /\ \A c \in Consumers : (pc[c] = "loop") = (cur[c] = None)
  /\ pushes \in [Messages -> Nat]
  /\ failures \in [Messages -> Nat]
  /\ successes \in [Messages -> Nat]
  /\ cut \subseteq Messages /\ crashes \in Nat /\ expired \subseteq Messages

(* No two workers run the callback of one message at the same time, even   *)
(* when a slow callback's entry is reclaimed after 60 seconds, when copies *)
(* of the message are re-pushed, or when a worker is killed.               *)
OneCallbackAtATime ==
  \A c, d \in Consumers :
    (pc[c] = "callback" /\ pc[d] = "callback" /\ c # d) => cur[c].mid # cur[d].mid

(* Within the dedup window a message is processed successfully once, how   *)
(* often producers push it and the group redelivers it notwithstanding.    *)
AtMostOneSuccess == \A m \in Messages \ expired : successes[m] <= 1

(* A message is dead-lettered as exhausted only after max_retries          *)
(* callbacks of it failed: duplicates and skipped deliveries do not use up *)
(* its retry budget.                                                       *)
NoPrematureDeadLetter ==
  \A m \in Messages :
    [mid |-> m, reason |-> "exhausted"] \in dlq => failures[m] >= MaxRetries

DeadLettered(m) == \E r \in Reason : [mid |-> m, reason |-> r] \in dlq

\* Somebody still has the message: the stream, the group or a handler that
\* has not yet written the retry copy.
InFlight(m) ==
  \/ \E e \in backlog \cup pending : e.mid = m
  \/ \E c \in Consumers :
       pc[c] \in {"callback", "release", "requeue"} /\ cur[c].mid = m

Lost(m) == pushes[m] > 0 /\ successes[m] = 0 /\ ~DeadLettered(m) /\ ~InFlight(m)

(* A pushed message that is gone from the stream and from every worker was *)
(* processed or dead-lettered, unless its handler was cut short between    *)
(* the dedup SET and the write of the retry copy: every other interruption *)
(* (before the SET, between re-push and XACK, between success and XACK,    *)
(* while entries of the batch wait) loses nothing.                         *)
LostOnlyIfCutShort == \A m \in Messages \ Malformed : Lost(m) => m \in cut

(* Every pushed message is eventually processed or dead-lettered, unless   *)
(* its handler was cut short.                                              *)
EventuallyResolved ==
  \A m \in Messages \ Malformed :
    (pushes[m] > 0) ~> (successes[m] > 0 \/ DeadLettered(m) \/ m \in cut)

(* Seen through the callbacks, the stream queue is MessageDelivery: a      *)
(* reclaim, a duplicate, a retry copy or a kill never starts a callback    *)
(* the abstract specification does not allow.                              *)
Delivery == INSTANCE MessageDelivery WITH
  running  <- {m \in Messages : \E c \in Consumers : pc[c] = "callback" /\ cur[c].mid = m},
  done     <- {m \in Messages \ expired : successes[m] > 0},
  failed   <- failures,
  buried   <- {m \in Messages : [mid |-> m, reason |-> "exhausted"] \in dlq},
  reopened <- expired

DeliverySpec == Delivery!Spec
=============================================================================
