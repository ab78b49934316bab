------------------------- MODULE StreamQueue_proofs -------------------------
(***************************************************************************)
(* Proofs about StreamQueue for every number of consumers, messages,       *)
(* pushes, kills and expired keys, and for every max_retries.              *)
(*                                                                         *)
(* The argument: the dedup key is a lock.  A consumer that runs a callback *)
(* or has just seen it fail owns the key (KeyHeld); the key of a message   *)
(* has one owner (OneHolder); and a message that succeeded keeps its key   *)
(* without an owner, so nobody acquires it again (SuccessKeepsKey).  For   *)
(* the retry budget, an envelope's retry_count never exceeds the number of *)
(* callbacks of its message that failed (RetryEarned).  And a message that *)
(* was not settled is at a handler or in an entry that nobody is about to  *)
(* acknowledge (Kept).                                                     *)
(***************************************************************************)
EXTENDS StreamQueue, TLAPS

KeyHeld ==
  \A c \in Consumers :
    pc[c] \in {"callback", "release"} => cur[c].mid \in dedup

OneHolder ==
  \A c, d \in Consumers :
    /\ c # d
    /\ pc[c] \in {"callback", "release"}
    /\ pc[d] \in {"callback", "release"}
    => cur[c].mid # cur[d].mid

SuccessKeepsKey ==
  \A m \in Messages \ expired :
    /\ successes[m] <= 1
    /\ successes[m] = 1 =>
         m \in dedup /\ \A c \in Consumers : ~Holds(c, m)

RetryEarned ==
  /\ \A e \in backlog \cup pending : e.retry <= failures[e.mid]
  /\ \A c \in Consumers : \A e \in batch[c] : e.retry <= failures[e.mid]
  /\ \A c \in Consumers : pc[c] # "loop" => cur[c].retry <= failures[cur[c].mid]
  /\ \A c \in Consumers :
       pc[c] \in {"release", "requeue"} => cur[c].retry + 1 <= failures[cur[c].mid]

LockInv  == KeyHeld /\ OneHolder /\ SuccessKeepsKey
RetryInv == RetryEarned /\ NoPrematureDeadLetter

-----------------------------------------------------------------------------
(* The entries a batch continues with are entries the consumer was given.  *)
LEMMA OldestSubset ==
  ASSUME NEW S, NEW n PROVE Oldest(S, n) \subseteq S
BY DEF Oldest

(* Continue leaves the loop variables well typed.                          *)
LEMMA ContinueType ==
  ASSUME TypeOK, NEW c \in Consumers, NEW entries \in SUBSET Entry,
         Continue(c, entries)
  PROVE  /\ pc' \in [Consumers -> Pc]
         /\ phase' \in [Consumers -> {"read", "claim"}]
         /\ batch' \in [Consumers -> SUBSET Entry]
         /\ cur' \in [Consumers -> Entry \cup {None}]
         /\ \A d \in Consumers : (pc'[d] = "loop") = (cur'[d] = None)
<1>1. CASE entries = {} /\ pc' = [pc EXCEPT ![c] = "loop"]
           /\ phase' = [phase EXCEPT ![c] = IF @ = "read" THEN "claim" ELSE "read"]
           /\ cur' = [cur EXCEPT ![c] = None] /\ UNCHANGED batch
  BY <1>1 DEF TypeOK, Pc
<1>2. ASSUME NEW e \in Oldest(entries, 1),
             pc' = [pc EXCEPT ![c] = "dedup"], cur' = [cur EXCEPT ![c] = e],
             batch' = [batch EXCEPT ![c] = entries \ {e}], UNCHANGED phase
      PROVE  /\ pc' \in [Consumers -> Pc]
             /\ phase' \in [Consumers -> {"read", "claim"}]
             /\ batch' \in [Consumers -> SUBSET Entry]
             /\ cur' \in [Consumers -> Entry \cup {None}]
             /\ \A d \in Consumers : (pc'[d] = "loop") = (cur'[d] = None)
  <2>1. e \in Entry /\ e # None
    BY OldestSubset, NoneAssumption
  <2>2. QED
    BY <1>2, <2>1 DEF TypeOK, Pc
<1>3. QED
  BY <1>1, <1>2 DEF Continue

(* Every state of the queue is well typed.                                 *)
THEOREM TypeCorrect == Spec => []TypeOK
<1>1. Init => TypeOK
  BY DEF Init, TypeOK, Pc, Reason
<1>2. TypeOK /\ [Next]_vars => TypeOK'
  <2> SUFFICES ASSUME TypeOK, [Next]_vars PROVE TypeOK'
    OBVIOUS
  <2> USE BoundsAssumption
  <2>1. ASSUME NEW m \in Messages, Produce(m) PROVE TypeOK'
    BY <2>1 DEF TypeOK, Produce, Push, Enqueue, DeadLetter, Entry, Reason,
                streamVars, groupVars, localVars
  <2>2. ASSUME NEW m \in Messages, ExpireKey(m) PROVE TypeOK'
    BY <2>2 DEF TypeOK, ExpireKey, streamVars, groupVars, localVars
  <2>3. ASSUME NEW c \in Consumers, Read(c) PROVE TypeOK'
    <3>1. Oldest(backlog, BatchSize) \in SUBSET Entry
      BY OldestSubset DEF TypeOK
    <3>2. QED
      BY <2>3, <3>1, ContinueType DEF TypeOK, Read, history
  <2>4. ASSUME NEW c \in Consumers, Claim(c) PROVE TypeOK'
    <3>1. Oldest(pending, ClaimCount) \cap idle \in SUBSET Entry
      BY DEF TypeOK
    <3>2. QED
      BY <2>4, <3>1, ContinueType DEF TypeOK, Claim, history, streamVars
  <2>5. ASSUME NEW c \in Consumers, RejectMalformed(c) PROVE TypeOK'
    BY <2>5 DEF TypeOK, RejectMalformed, DeadLetter, Goto, Reason, Pc, Entry,
                streamVars, groupVars, history
  <2>6. ASSUME NEW c \in Consumers, Acquire(c) \/ SkipDuplicate(c) PROVE TypeOK'
    BY <2>6 DEF TypeOK, Acquire, SkipDuplicate, Goto, Pc, Entry,
                streamVars, groupVars, history
  <2>7. ASSUME NEW c \in Consumers, CallbackSucceeds(c) \/ CallbackFails(c)
        PROVE TypeOK'
    <3>1. cur[c].mid \in Messages
      BY <2>7 DEF TypeOK, CallbackSucceeds, CallbackFails, Entry
    <3>2. QED
      BY <2>7, <3>1 DEF TypeOK, CallbackSucceeds, CallbackFails, Goto, Pc,
                        streamVars, groupVars
  <2>8. ASSUME NEW c \in Consumers, ReleaseKey(c) PROVE TypeOK'
    BY <2>8 DEF TypeOK, ReleaseKey, Goto, Pc, streamVars, groupVars, history
  <2>9. ASSUME NEW c \in Consumers, Requeue(c) PROVE TypeOK'
    <3>1. cur[c] \in Entry
      BY <2>9 DEF TypeOK, Requeue
    <3>2. cur[c].mid \in Messages /\ cur[c].retry \in Nat
      BY <3>1 DEF Entry
    <3>3. backlog' \subseteq Entry /\ nextId' \in Nat
      BY <2>9, <3>2 DEF TypeOK, Requeue, Push, Enqueue, Entry, streamVars
    <3>4. dlq' \subseteq [mid : Messages, reason : Reason]
      BY <2>9, <3>2 DEF TypeOK, Requeue, Push, DeadLetter, Reason
    <3>5. QED
      BY <2>9, <3>3, <3>4 DEF TypeOK, Requeue, Goto, Pc, groupVars, history
  <2>10. ASSUME NEW c \in Consumers, Ack(c) PROVE TypeOK'
    <3>1. batch[c] \in SUBSET Entry
      BY DEF TypeOK
    <3>2. QED
      BY <2>10, <3>1, ContinueType DEF TypeOK, Ack, streamVars, history
  <2>11. ASSUME NEW c \in Consumers, Cut(c) PROVE TypeOK'
    BY <2>11 DEF TypeOK, Cut, Pc, Entry, streamVars, groupVars
  <2>12. ASSUME NEW e \in pending, BecomeIdle(e) PROVE TypeOK'
    BY <2>12 DEF TypeOK, BecomeIdle, streamVars, localVars, history
  <2>13. CASE UNCHANGED vars
    BY <2>13 DEF TypeOK, vars, streamVars, groupVars, localVars, history
  <2>14. QED
    BY <2>1, <2>2, <2>3, <2>4, <2>5, <2>6, <2>7, <2>8, <2>9, <2>10, <2>11,
       <2>12, <2>13 DEF Next, ConsumerStep
<1>3. QED
  BY <1>1, <1>2, PTL DEF Spec

-----------------------------------------------------------------------------
(* What a step does to the key a consumer holds and to the successes is    *)
(* all that LockInv is about: Continue moves a consumer to a state in      *)
(* which it holds no key.                                                  *)
LEMMA ContinueHoldsNothing ==
  ASSUME TypeOK, NEW c \in Consumers, NEW entries, Continue(c, entries)
  PROVE  /\ pc'[c] \in {"loop", "dedup"}
         /\ \A d \in Consumers \ {c} : pc'[d] = pc[d] /\ cur'[d] = cur[d]
BY DEF TypeOK, Continue

(* A step in which no consumer starts to hold a key, and keys, successes   *)
(* and expiries stay as they are, preserves the lock invariant.            *)
LEMMA LockFrame ==
  ASSUME TypeOK, LockInv, NEW c \in Consumers,
         pc'[c] \notin {"callback", "release"},
         \A d \in Consumers \ {c} : pc'[d] = pc[d] /\ cur'[d] = cur[d],
         dedup' = dedup, successes' = successes, expired' = expired
  PROVE  LockInv'
BY DEF LockInv, KeyHeld, OneHolder, SuccessKeepsKey, Holds, TypeOK

LEMMA LockInductive == TypeOK /\ LockInv /\ [Next]_vars => LockInv'
<1> SUFFICES ASSUME TypeOK, LockInv, [Next]_vars PROVE LockInv'
  OBVIOUS
<1>1. ASSUME NEW m \in Messages, Produce(m) PROVE LockInv'
  BY <1>1 DEF Produce, localVars, LockInv, KeyHeld, OneHolder, SuccessKeepsKey, Holds
<1>2. ASSUME NEW m \in Messages, ExpireKey(m) PROVE LockInv'
  BY <1>2 DEF ExpireKey, localVars, LockInv, KeyHeld, OneHolder,
              SuccessKeepsKey, Holds, TypeOK
<1>3. ASSUME NEW c \in Consumers, Read(c) PROVE LockInv'
  BY <1>3, ContinueHoldsNothing, LockFrame DEF Read, history
<1>4. ASSUME NEW c \in Consumers, Claim(c) PROVE LockInv'
  BY <1>4, ContinueHoldsNothing, LockFrame DEF Claim, history
<1>5. ASSUME NEW c \in Consumers, RejectMalformed(c) PROVE LockInv'
  BY <1>5, LockFrame DEF RejectMalformed, Goto, history, TypeOK
<1>6. ASSUME NEW c \in Consumers, SkipDuplicate(c) PROVE LockInv'
  BY <1>6, LockFrame DEF SkipDuplicate, Goto, history, TypeOK
<1>7. ASSUME NEW c \in Consumers, Acquire(c) PROVE LockInv'
  <2>1. cur[c] \in Entry /\ cur[c].mid \notin dedup
    BY <1>7 DEF Acquire, TypeOK
  <2>2. KeyHeld' /\ OneHolder'
    BY <1>7, <2>1 DEF Acquire, Goto, LockInv, KeyHeld, OneHolder, TypeOK
  <2>3. SuccessKeepsKey'
    BY <1>7, <2>1 DEF Acquire, Goto, LockInv, SuccessKeepsKey, Holds, TypeOK, history
  <2>4. QED
    BY <2>2, <2>3 DEF LockInv
<1>8. ASSUME NEW c \in Consumers, CallbackSucceeds(c) PROVE LockInv'
  <2>1. cur[c] \in Entry /\ cur[c].mid \in Messages /\ cur[c].mid \in dedup
    BY <1>8 DEF CallbackSucceeds, TypeOK, LockInv, KeyHeld
  <2>2. KeyHeld' /\ OneHolder'
    BY <1>8, <2>1 DEF CallbackSucceeds, Goto, LockInv, KeyHeld, OneHolder, TypeOK
  <2>3. ASSUME NEW m \in Messages \ expired
        PROVE  /\ successes'[m] <= 1
               /\ successes'[m] = 1 =>
                    m \in dedup' /\ \A d \in Consumers : ~Holds(d, m)'
    <3>1. CASE m = cur[c].mid
      <4>1. Holds(c, m)
        BY <1>8, <3>1 DEF CallbackSucceeds, Holds
      <4>2. successes[m] = 0
        BY <4>1 DEF LockInv, SuccessKeepsKey, TypeOK
      <4>3. \A d \in Consumers : ~Holds(d, m)'
        BY <1>8, <3>1 DEF CallbackSucceeds, Goto, LockInv, OneHolder, Holds, TypeOK
      <4>4. QED
        BY <1>8, <2>1, <3>1, <4>2, <4>3 DEF CallbackSucceeds, TypeOK
    <3>2. CASE m # cur[c].mid
      <4>1. successes'[m] = successes[m] /\ dedup' = dedup
        BY <1>8, <3>2 DEF CallbackSucceeds, TypeOK
      <4>2. \A d \in Consumers : Holds(d, m)' => Holds(d, m)
        BY <1>8 DEF CallbackSucceeds, Goto, Holds, TypeOK
      <4>3. QED
        BY <4>1, <4>2 DEF LockInv, SuccessKeepsKey
    <3>3. QED
      BY <3>1, <3>2
  <2>4. QED
    BY <1>8, <2>2, <2>3 DEF CallbackSucceeds, LockInv, SuccessKeepsKey
<1>9. ASSUME NEW c \in Consumers, CallbackFails(c) PROVE LockInv'
  <2>1. \A d \in Consumers : \A m \in Messages : Holds(d, m)' = Holds(d, m)
    BY <1>9 DEF CallbackFails, Goto, Holds, TypeOK
  <2>2. KeyHeld' /\ OneHolder'
    BY <1>9 DEF CallbackFails, Goto, LockInv, KeyHeld, OneHolder, TypeOK
  <2>3. SuccessKeepsKey'
    BY <1>9, <2>1 DEF CallbackFails, LockInv, SuccessKeepsKey
  <2>4. QED
    BY <2>2, <2>3 DEF LockInv
<1>10. ASSUME NEW c \in Consumers, ReleaseKey(c) PROVE LockInv'
  <2>1. KeyHeld' /\ OneHolder'
    BY <1>10 DEF ReleaseKey, Goto, LockInv, KeyHeld, OneHolder, TypeOK
  <2>2. ASSUME NEW m \in Messages \ expired, successes[m] = 1
        PROVE  m # cur[c].mid
    BY <1>10, <2>2 DEF ReleaseKey, LockInv, SuccessKeepsKey, Holds
  <2>3. \A d \in Consumers : \A m \in Messages : Holds(d, m)' => Holds(d, m)
    BY <1>10 DEF ReleaseKey, Goto, Holds, TypeOK
  <2>4. SuccessKeepsKey'
    BY <1>10, <2>2, <2>3 DEF ReleaseKey, LockInv, SuccessKeepsKey, history
  <2>5. QED
    BY <2>1, <2>4 DEF LockInv
<1>11. ASSUME NEW c \in Consumers, Requeue(c) PROVE LockInv'
  BY <1>11, LockFrame DEF Requeue, Goto, history, TypeOK
<1>12. ASSUME NEW c \in Consumers, Ack(c) PROVE LockInv'
  BY <1>12, ContinueHoldsNothing, LockFrame DEF Ack, history
<1>13. ASSUME NEW c \in Consumers, Cut(c) PROVE LockInv'
  BY <1>13, LockFrame DEF Cut, TypeOK
<1>14. ASSUME NEW e \in pending, BecomeIdle(e) PROVE LockInv'
  BY <1>14 DEF BecomeIdle, localVars, history,
               LockInv, KeyHeld, OneHolder, SuccessKeepsKey, Holds
<1>15. CASE UNCHANGED vars
  BY <1>15 DEF vars, localVars, history,
               LockInv, KeyHeld, OneHolder, SuccessKeepsKey, Holds
<1>16. QED
  BY <1>1, <1>2, <1>3, <1>4, <1>5, <1>6, <1>7, <1>8, <1>9, <1>10, <1>11,
     <1>12, <1>13, <1>14, <1>15 DEF Next, ConsumerStep

LEMMA LockInvariant == Spec => []LockInv
<1>1. Init => LockInv
  BY DEF Init, LockInv, KeyHeld, OneHolder, SuccessKeepsKey, Holds
<1>2. QED
  BY <1>1, LockInductive, TypeCorrect, PTL DEF Spec

(* No two consumers ever run the callback of one message at once.          *)
THEOREM MutualExclusion == Spec => []OneCallbackAtATime
<1>1. LockInv => OneCallbackAtATime
  BY DEF LockInv, OneHolder, OneCallbackAtATime
<1>2. QED
  BY <1>1, LockInvariant, PTL

(* A message is processed successfully at most once per dedup window.      *)
THEOREM SuccessOnce == Spec => []AtMostOneSuccess
<1>1. LockInv => AtMostOneSuccess
  BY DEF LockInv, SuccessKeepsKey, AtMostOneSuccess
<1>2. QED
  BY <1>1, LockInvariant, PTL

-----------------------------------------------------------------------------
(* Failures are only ever counted up.                                      *)
LEMMA FailuresGrow ==
  ASSUME TypeOK, [Next]_vars, NEW m \in Messages
  PROVE  /\ failures[m] \in Nat /\ failures'[m] \in Nat
         /\ failures[m] <= failures'[m]
<1>1. failures \in [Messages -> Nat]
  BY DEF TypeOK
<1>2. CASE failures' = failures
  BY <1>1, <1>2
<1>3. ASSUME NEW c \in Consumers, CallbackFails(c)
      PROVE  failures'[m] \in Nat /\ failures[m] <= failures'[m]
  BY <1>1, <1>3 DEF CallbackFails
<1>4. QED
  BY <1>1, <1>2, <1>3 DEF Next, ConsumerStep, vars, Produce, ExpireKey, Read, Claim,
     RejectMalformed, Acquire, SkipDuplicate, CallbackSucceeds, ReleaseKey,
     Requeue, Ack, Cut, BecomeIdle, history

(* The entry Continue makes current, and those it keeps, were given to it. *)
LEMMA ContinueEntries ==
  ASSUME TypeOK, NEW c \in Consumers, NEW entries \in SUBSET Entry,
         Continue(c, entries)
  PROVE  /\ batch'[c] \subseteq batch[c] \cup entries
         /\ pc'[c] # "loop" => cur'[c] \in entries
         /\ \A d \in Consumers \ {c} :
              pc'[d] = pc[d] /\ cur'[d] = cur[d] /\ batch'[d] = batch[d]
BY OldestSubset DEF TypeOK, Continue

(* A step that adds no entry, fails no callback and only moves consumer c  *)
(* on within entries the system already had.                               *)
LEMMA RetryFrame ==
  ASSUME TypeOK, TypeOK', RetryInv, NEW c \in Consumers,
         backlog' \cup pending' \subseteq backlog \cup pending,
         batch'[c] \subseteq batch[c] \cup backlog \cup pending,
         pc'[c] # "loop" => cur'[c] \in {cur[c]} \cup batch[c] \cup backlog \cup pending,
         cur'[c] = cur[c] \/ pc'[c] \in {"loop", "dedup"},
         pc'[c] # "loop" /\ cur'[c] = cur[c] => pc[c] # "loop",
         pc'[c] \in {"release", "requeue"} => pc[c] \in {"release", "requeue"},
         \A d \in Consumers \ {c} :
           pc'[d] = pc[d] /\ cur'[d] = cur[d] /\ batch'[d] = batch[d],
         failures' = failures
  PROVE  RetryEarned'
<1>1. \A e \in backlog' \cup pending' : e.retry <= failures'[e.mid]
  BY DEF RetryInv, RetryEarned
<1>2. ASSUME NEW d \in Consumers PROVE \A e \in batch'[d] : e.retry <= failures'[e.mid]
  BY DEF RetryInv, RetryEarned
<1>3. ASSUME NEW d \in Consumers, pc'[d] # "loop"
      PROVE  cur'[d].retry <= failures'[cur'[d].mid]
  <2>1. CASE d = c
    <3>1. CASE cur'[c] = cur[c]
      BY <1>3, <2>1, <3>1 DEF RetryInv, RetryEarned
    <3>2. CASE cur'[c] \in batch[c] \cup backlog \cup pending
      BY <1>3, <2>1, <3>2 DEF RetryInv, RetryEarned
    <3>3. QED
      BY <1>3, <2>1, <3>1, <3>2
  <2>2. CASE d # c
    BY <1>3, <2>2 DEF RetryInv, RetryEarned
  <2>3. QED
    BY <2>1, <2>2
<1>4. ASSUME NEW d \in Consumers, pc'[d] \in {"release", "requeue"}
      PROVE  cur'[d].retry + 1 <= failures'[cur'[d].mid]
  <2>1. CASE d = c
    BY <1>4, <2>1 DEF RetryInv, RetryEarned
  <2>2. CASE d # c
    BY <1>4, <2>2 DEF RetryInv, RetryEarned
  <2>3. QED
    BY <2>1, <2>2
<1>5. QED
  BY <1>1, <1>2, <1>3, <1>4 DEF RetryEarned

(* An entry with a retry_count its message has earned may be enqueued.     *)
LEMMA PushEarned ==
  ASSUME TypeOK, RetryInv, NEW m \in Messages, NEW r \in Nat,
         r <= failures[m], Push(m, r)
  PROVE  \A e \in backlog' : e.retry <= failures[e.mid]
BY DEF Push, Enqueue, RetryInv, RetryEarned, streamVars

(* Only Requeue dead-letters a message as exhausted.                       *)
LEMMA PushNeverExhausts ==
  ASSUME NEW m \in Messages, NEW r, Push(m, r), NEW n \in Messages,
         [mid |-> n, reason |-> "exhausted"] \in dlq'
  PROVE  [mid |-> n, reason |-> "exhausted"] \in dlq
BY DEF Push, DeadLetter

LEMMA RetryInductive == TypeOK /\ TypeOK' /\ RetryInv /\ [Next]_vars => RetryInv'
<1> SUFFICES ASSUME TypeOK, TypeOK', RetryInv, [Next]_vars PROVE RetryInv'
  OBVIOUS
<1>a. ASSUME \A m \in Messages : [mid |-> m, reason |-> "exhausted"] \in dlq'
                => [mid |-> m, reason |-> "exhausted"] \in dlq
      PROVE  NoPrematureDeadLetter'
  BY <1>a, FailuresGrow, BoundsAssumption DEF RetryInv, NoPrematureDeadLetter
<1>1. ASSUME NEW m \in Messages, Produce(m) PROVE RetryInv'
  <2>1. failures' = failures /\ pending' = pending /\ UNCHANGED localVars
    BY <1>1 DEF Produce, groupVars
  <2>2. \A e \in backlog' : e.retry <= failures[e.mid]
    BY <1>1, PushEarned DEF Produce, TypeOK
  <2>3. RetryEarned'
    BY <2>1, <2>2 DEF RetryInv, RetryEarned, localVars
  <2>4. NoPrematureDeadLetter'
    BY <1>1, <1>a, PushNeverExhausts DEF Produce
  <2>5. QED
    BY <2>3, <2>4 DEF RetryInv
<1>2. ASSUME NEW m \in Messages, ExpireKey(m) PROVE RetryInv'
  BY <1>2, <1>a DEF ExpireKey, RetryInv, RetryEarned, streamVars, groupVars, localVars
<1>3. ASSUME NEW c \in Consumers, Read(c) PROVE RetryInv'
  <2> DEFINE delivered == Oldest(backlog, BatchSize)
  <2>1. delivered \subseteq backlog /\ delivered \in SUBSET Entry
    BY OldestSubset DEF TypeOK
  <2>2. RetryEarned'
    BY <1>3, <2>1, ContinueEntries, ContinueHoldsNothing, RetryFrame DEF Read, history, TypeOK
  <2>3. QED
    BY <1>3, <1>a, <2>2 DEF Read, RetryInv
<1>4. ASSUME NEW c \in Consumers, Claim(c) PROVE RetryInv'
  <2> DEFINE claimed == Oldest(pending, ClaimCount) \cap idle
  <2>1. claimed \subseteq pending /\ claimed \in SUBSET Entry
    BY DEF TypeOK
  <2>2. RetryEarned'
    BY <1>4, <2>1, ContinueEntries, ContinueHoldsNothing, RetryFrame
       DEF Claim, history, streamVars, TypeOK
  <2>3. QED
    BY <1>4, <1>a, <2>2 DEF Claim, RetryInv
<1>5. ASSUME NEW c \in Consumers, RejectMalformed(c) PROVE RetryInv'
  <2>1. RetryEarned'
    BY <1>5, RetryFrame DEF RejectMalformed, Goto, history, streamVars, groupVars, TypeOK
  <2>2. NoPrematureDeadLetter'
    BY <1>5, <1>a DEF RejectMalformed, DeadLetter
  <2>3. QED
    BY <2>1, <2>2 DEF RetryInv
<1>6. ASSUME NEW c \in Consumers, Acquire(c) \/ SkipDuplicate(c) PROVE RetryInv'
  <2>1. RetryEarned'
    BY <1>6, RetryFrame DEF Acquire, SkipDuplicate, Goto, history, streamVars,
                            groupVars, TypeOK
  <2>2. QED
    BY <1>6, <1>a, <2>1 DEF Acquire, SkipDuplicate, RetryInv
<1>7. ASSUME NEW c \in Consumers, CallbackSucceeds(c) PROVE RetryInv'
  <2>1. RetryEarned'
    BY <1>7, RetryFrame DEF CallbackSucceeds, Goto, streamVars, groupVars, TypeOK
  <2>2. QED
    BY <1>7, <1>a, <2>1 DEF CallbackSucceeds, RetryInv
<1>8. ASSUME NEW c \in Consumers, CallbackFails(c) PROVE RetryInv'
  <2>1. \A m \in Messages : failures[m] <= failures'[m] /\ failures[m] \in Nat
                            /\ failures'[m] \in Nat
    BY FailuresGrow
  <2>2. cur[c] \in Entry /\ cur[c].mid \in Messages /\ cur[c].retry \in Nat
    BY <1>8 DEF CallbackFails, TypeOK, Entry
  <2>3. failures'[cur[c].mid] = failures[cur[c].mid] + 1
    BY <1>8, <2>2 DEF CallbackFails, TypeOK
  <2>4. \A e \in Entry : e.mid \in Messages /\ e.retry \in Nat
    BY DEF Entry
  <2>5. \A e \in backlog' \cup pending' : e.retry <= failures'[e.mid]
    BY <1>8, <2>1, <2>4 DEF CallbackFails, RetryInv, RetryEarned, streamVars,
                            groupVars, TypeOK
  <2>6. \A d \in Consumers : \A e \in batch'[d] : e.retry <= failures'[e.mid]
    BY <1>8, <2>1, <2>4 DEF CallbackFails, Goto, RetryInv, RetryEarned, TypeOK
  <2>7. ASSUME NEW d \in Consumers, pc'[d] # "loop"
        PROVE  cur'[d].retry <= failures'[cur'[d].mid]
    <3>1. cur'[d] = cur[d] /\ pc[d] # "loop" /\ cur[d] \in Entry
      BY <1>8, <2>7 DEF CallbackFails, Goto, TypeOK
    <3>2. QED
      BY <2>1, <2>4, <3>1 DEF RetryInv, RetryEarned
  <2>8. ASSUME NEW d \in Consumers, pc'[d] \in {"release", "requeue"}
        PROVE  cur'[d].retry + 1 <= failures'[cur'[d].mid]
    <3>1. CASE d = c
      <4>1. cur[c].retry <= failures[cur[c].mid]
        BY <1>8 DEF CallbackFails, RetryInv, RetryEarned
      <4>2. failures[cur[c].mid] \in Nat
        BY <2>1, <2>2
      <4>3. QED
        BY <1>8, <2>2, <2>3, <3>1, <4>1, <4>2 DEF CallbackFails, Goto
    <3>2. CASE d # c
      <4>1. cur'[d] = cur[d] /\ pc'[d] = pc[d] /\ cur[d] \in Entry
        BY <1>8, <2>8, <3>2 DEF CallbackFails, Goto, TypeOK
      <4>2. cur[d].retry + 1 <= failures[cur[d].mid]
        BY <2>8, <4>1 DEF RetryInv, RetryEarned
      <4>3. cur[d].mid \in Messages /\ cur[d].retry \in Nat
        BY <2>4, <4>1
      <4>4. failures[cur[d].mid] <= failures'[cur[d].mid]
            /\ failures[cur[d].mid] \in Nat /\ failures'[cur[d].mid] \in Nat
        BY <2>1, <4>3
      <4>5. QED
        BY <4>1, <4>2, <4>3, <4>4
    <3>3. QED
      BY <3>1, <3>2
  <2>9. RetryEarned'
    BY <2>5, <2>6, <2>7, <2>8 DEF RetryEarned
  <2>10. QED
    BY <1>8, <1>a, <2>9 DEF CallbackFails, RetryInv
<1>9. ASSUME NEW c \in Consumers, ReleaseKey(c) PROVE RetryInv'
  <2>1. RetryEarned'
    BY <1>9, RetryFrame DEF ReleaseKey, Goto, history, streamVars, groupVars, TypeOK
  <2>2. QED
    BY <1>9, <1>a, <2>1 DEF ReleaseKey, RetryInv
<1>10. ASSUME NEW c \in Consumers, Requeue(c) PROVE RetryInv'
  <2>1. cur[c].mid \in Messages /\ cur[c].retry \in Nat
    BY <1>10 DEF Requeue, TypeOK, Entry
  <2>2. cur[c].retry + 1 <= failures[cur[c].mid] /\ failures[cur[c].mid] \in Nat
    BY <1>10, <2>1 DEF Requeue, RetryInv, RetryEarned, TypeOK
  <2>3. failures' = failures /\ pending' = pending /\ batch' = batch /\ cur' = cur
        /\ pc' = [pc EXCEPT ![c] = "ack"]
    BY <1>10 DEF Requeue, Goto, history, groupVars
  <2>4. \A e \in backlog' : e.retry <= failures[e.mid]
    <3>1. CASE Push(cur[c].mid, cur[c].retry + 1)
      BY <2>1, <2>2, <3>1, PushEarned
    <3>2. CASE UNCHANGED streamVars
      BY <3>2 DEF streamVars, RetryInv, RetryEarned
    <3>3. QED
      BY <1>10, <3>1, <3>2 DEF Requeue
  <2>5. RetryEarned'
    BY <1>10, <2>3, <2>4 DEF RetryInv, RetryEarned, TypeOK, Requeue
  <2>6. NoPrematureDeadLetter'
    <3>1. CASE Push(cur[c].mid, cur[c].retry + 1)
      BY <1>a, <2>1, <3>1, PushNeverExhausts
    <3>2. CASE cur[c].retry + 1 >= MaxRetries /\ DeadLetter(cur[c].mid, "exhausted")
      BY <2>1, <2>2, <2>3, <3>2, BoundsAssumption
         DEF DeadLetter, NoPrematureDeadLetter, RetryInv
    <3>3. QED
      BY <1>10, <3>1, <3>2 DEF Requeue
  <2>7. QED
    BY <2>5, <2>6 DEF RetryInv
<1>11. ASSUME NEW c \in Consumers, Ack(c) PROVE RetryInv'
  <2>1. batch[c] \in SUBSET Entry
    BY DEF TypeOK
  <2>2. RetryEarned'
    BY <1>11, <2>1, ContinueEntries, ContinueHoldsNothing, RetryFrame
       DEF Ack, history, streamVars, TypeOK
  <2>3. QED
    BY <1>11, <1>a, <2>2 DEF Ack, RetryInv
<1>12. ASSUME NEW c \in Consumers, Cut(c) PROVE RetryInv'
  <2>1. RetryEarned'
    BY <1>12, RetryFrame DEF Cut, streamVars, groupVars, TypeOK
  <2>2. QED
    BY <1>12, <1>a, <2>1 DEF Cut, RetryInv
<1>13. ASSUME NEW e \in pending, BecomeIdle(e) PROVE RetryInv'
  BY <1>13, <1>a DEF BecomeIdle, RetryInv, RetryEarned, streamVars, localVars, history
<1>14. CASE UNCHANGED vars
  BY <1>14, <1>a DEF vars, RetryInv, RetryEarned, streamVars, groupVars, localVars, history
<1>15. QED
  BY <1>1, <1>2, <1>3, <1>4, <1>5, <1>6, <1>7, <1>8, <1>9, <1>10, <1>11,
     <1>12, <1>13, <1>14 DEF Next, ConsumerStep

LEMMA RetryInvariant == Spec => []RetryInv
<1>1. Init => RetryInv
  BY DEF Init, RetryInv, RetryEarned, NoPrematureDeadLetter
<1>2. QED
  BY <1>1, RetryInductive, TypeCorrect, PTL DEF Spec

(* A message dead-lettered as exhausted failed max_retries times.          *)
THEOREM RetryBudgetHonoured == Spec => []NoPrematureDeadLetter
<1>1. RetryInv => NoPrematureDeadLetter
  BY DEF RetryInv
<1>2. QED
  BY <1>1, RetryInvariant, PTL

-----------------------------------------------------------------------------
(* The refinement: every step of the queue is a step of MessageDelivery or *)
(* leaves what the callbacks see unchanged.                                *)
Running == {m \in Messages : \E c \in Consumers : pc[c] = "callback" /\ cur[c].mid = m}
Done    == {m \in Messages \ expired : successes[m] > 0}
Buried  == {m \in Messages : [mid |-> m, reason |-> "exhausted"] \in dlq}

(* A step of consumer c that does not touch a running callback.            *)
LEMMA RunningFrame ==
  ASSUME NEW c \in Consumers, pc[c] # "callback", pc'[c] # "callback",
         \A d \in Consumers \ {c} : pc'[d] = pc[d] /\ cur'[d] = cur[d]
  PROVE  Running' = Running
<1>1. \A d \in Consumers : \A m \in Messages :
        (pc'[d] = "callback" /\ cur'[d].mid = m) <=> (pc[d] = "callback" /\ cur[d].mid = m)
  OBVIOUS
<1>2. QED
  BY <1>1 DEF Running

(* When the callback of c ends, its message and no other stops running.    *)
LEMMA RunningEnds ==
  ASSUME TypeOK, LockInv, NEW c \in Consumers, pc[c] = "callback", pc'[c] # "callback",
         \A d \in Consumers \ {c} : pc'[d] = pc[d] /\ cur'[d] = cur[d]
  PROVE  /\ cur[c].mid \in Messages /\ cur[c].mid \in Running
         /\ Running' = Running \ {cur[c].mid}
<1>1. cur[c].mid \in Messages
  BY DEF TypeOK, Entry
<1>2. \A d \in Consumers \ {c} : pc[d] = "callback" => cur[d].mid # cur[c].mid
  BY DEF LockInv, OneHolder
<1>3. QED
  BY <1>1, <1>2 DEF Running

LEMMA DeliveryStep ==
  TypeOK /\ LockInv /\ RetryInv /\ RetryInv' /\ [Next]_vars
    => [Delivery!Next]_<<Running, Done, failures, Buried, expired>>
<1> SUFFICES ASSUME TypeOK, LockInv, RetryInv, RetryInv', [Next]_vars
             PROVE  [Delivery!Next]_<<Running, Done, failures, Buried, expired>>
  OBVIOUS
<1> DEFINE Stutter == UNCHANGED <<Running, Done, failures, Buried, expired>>
<1>1. ASSUME NEW m \in Messages, Produce(m) PROVE Stutter
  <2>1. UNCHANGED <<Running, Done, failures, expired>>
    BY <1>1 DEF Produce, localVars, Running, Done
  <2>2. UNCHANGED Buried
    BY <1>1 DEF Produce, Push, DeadLetter, Buried
  <2>3. QED
    BY <2>1, <2>2
<1>2. ASSUME NEW m \in Messages, ExpireKey(m) PROVE Delivery!Reopen(m)
  <2>1. m \notin Running /\ UNCHANGED Running
    BY <1>2 DEF ExpireKey, localVars, Running, Holds
  <2>2. Done' = Done \ {m} /\ expired' = expired \cup {m} /\ UNCHANGED <<failures, Buried>>
    BY <1>2 DEF ExpireKey, Done, Buried
  <2>3. QED
    BY <2>1, <2>2 DEF Delivery!Reopen, Running, Done, Buried
<1>3. ASSUME NEW c \in Consumers, Read(c) \/ Claim(c) \/ Ack(c) PROVE Stutter
  <2>1. pc[c] # "callback" /\ pc'[c] # "callback"
        /\ \A d \in Consumers \ {c} : pc'[d] = pc[d] /\ cur'[d] = cur[d]
    BY <1>3, ContinueHoldsNothing DEF Read, Claim, Ack
  <2>2. QED
    BY <1>3, <2>1, RunningFrame DEF Read, Claim, Ack, history, Done, Buried
<1>4. ASSUME NEW c \in Consumers,
             RejectMalformed(c) \/ SkipDuplicate(c) \/ ReleaseKey(c)
      PROVE  Stutter
  <2>1. pc[c] # "callback" /\ pc'[c] # "callback"
        /\ \A d \in Consumers \ {c} : pc'[d] = pc[d] /\ cur'[d] = cur[d]
    BY <1>4 DEF RejectMalformed, SkipDuplicate, ReleaseKey, Goto, TypeOK
  <2>2. UNCHANGED Buried
    BY <1>4 DEF RejectMalformed, SkipDuplicate, ReleaseKey, DeadLetter, Buried
  <2>3. QED
    BY <1>4, <2>1, <2>2, RunningFrame
       DEF RejectMalformed, SkipDuplicate, ReleaseKey, history, Done
<1>5. ASSUME NEW c \in Consumers, Acquire(c) PROVE \E m \in Messages : Delivery!Begin(m)
  <2>1. cur[c].mid \in Messages /\ cur[c].mid \notin dedup
    BY <1>5 DEF Acquire, TypeOK, Entry
  <2>2. cur[c].mid \notin Running \cup Done
    BY <2>1 DEF Running, Done, LockInv, KeyHeld, SuccessKeepsKey, TypeOK
  <2>3. Running' = Running \cup {cur[c].mid}
    BY <1>5, <2>1 DEF Acquire, Goto, Running, TypeOK
  <2>4. UNCHANGED <<Done, failures, Buried, expired>>
    BY <1>5 DEF Acquire, history, Done, Buried
  <2>5. QED
    BY <2>1, <2>2, <2>3, <2>4 DEF Delivery!Begin, Running, Done, Buried
<1>6. ASSUME NEW c \in Consumers, CallbackSucceeds(c)
      PROVE  \E m \in Messages : Delivery!Succeed(m)
  <2>1. cur[c].mid \in Messages /\ cur[c].mid \in Running
        /\ Running' = Running \ {cur[c].mid}
    BY <1>6, RunningEnds DEF CallbackSucceeds, Goto, TypeOK
  <2>2. Done' = IF cur[c].mid \in expired THEN Done ELSE Done \cup {cur[c].mid}
    BY <1>6, <2>1 DEF CallbackSucceeds, Done, TypeOK
  <2>3. UNCHANGED <<failures, Buried, expired>>
    BY <1>6 DEF CallbackSucceeds, Buried
  <2>4. QED
    BY <2>1, <2>2, <2>3 DEF Delivery!Succeed, Running, Done, Buried
<1>7. ASSUME NEW c \in Consumers, CallbackFails(c)
      PROVE  \E m \in Messages : Delivery!Fail(m)
  <2>1. cur[c].mid \in Messages /\ cur[c].mid \in Running
        /\ Running' = Running \ {cur[c].mid}
    BY <1>7, RunningEnds DEF CallbackFails, Goto, TypeOK
  <2>2. failures' = [failures EXCEPT ![cur[c].mid] = @ + 1]
        /\ UNCHANGED <<Done, Buried, expired>>
    BY <1>7 DEF CallbackFails, Done, Buried
  <2>3. QED
    BY <2>1, <2>2 DEF Delivery!Fail, Running, Done, Buried
<1>8. ASSUME NEW c \in Consumers, Requeue(c)
      PROVE  Stutter \/ \E m \in Messages : Delivery!Bury(m)
  <2>1. UNCHANGED <<Running, Done, failures, expired>>
    <3>1. pc[c] # "callback" /\ pc'[c] # "callback"
          /\ \A d \in Consumers \ {c} : pc'[d] = pc[d] /\ cur'[d] = cur[d]
      BY <1>8 DEF Requeue, Goto, TypeOK
    <3>2. QED
      BY <1>8, <3>1, RunningFrame DEF Requeue, history, Done
  <2>2. cur[c].mid \in Messages
    BY <1>8 DEF Requeue, TypeOK, Entry
  <2>3. CASE Push(cur[c].mid, cur[c].retry + 1)
    BY <2>1, <2>3 DEF Push, DeadLetter, Buried
  <2>4. CASE DeadLetter(cur[c].mid, "exhausted")
    <3>1. Buried' = Buried \cup {cur[c].mid}
      BY <2>2, <2>4 DEF DeadLetter, Buried
    <3>2. failures[cur[c].mid] >= MaxRetries
      BY <2>1, <2>2, <2>4 DEF DeadLetter, RetryInv, NoPrematureDeadLetter
    <3>3. QED
      BY <2>1, <2>2, <3>1, <3>2 DEF Delivery!Bury, Running, Done, Buried
  <2>5. QED
    BY <1>8, <2>3, <2>4 DEF Requeue
<1>9. ASSUME NEW c \in Consumers, Cut(c)
      PROVE  Stutter \/ \E m \in Messages : Delivery!Abandon(m)
  <2>1. UNCHANGED <<Done, failures, Buried, expired>>
    BY <1>9 DEF Cut, Done, Buried
  <2>2. pc'[c] # "callback"
        /\ \A d \in Consumers \ {c} : pc'[d] = pc[d] /\ cur'[d] = cur[d]
    BY <1>9 DEF Cut, TypeOK
  <2>3. CASE pc[c] = "callback"
    <3>1. cur[c].mid \in Messages /\ cur[c].mid \in Running
          /\ Running' = Running \ {cur[c].mid}
      BY <2>2, <2>3, RunningEnds
    <3>2. QED
      BY <2>1, <3>1 DEF Delivery!Abandon, Running, Done, Buried
  <2>4. CASE pc[c] # "callback"
    BY <2>1, <2>2, <2>4, RunningFrame
  <2>5. QED
    BY <2>3, <2>4
<1>10. ASSUME NEW e \in pending, BecomeIdle(e) PROVE Stutter
  BY <1>10 DEF BecomeIdle, localVars, history, Running, Done, Buried
<1>11. CASE UNCHANGED vars
  BY <1>11 DEF vars, localVars, history, Running, Done, Buried
<1>12. QED
  BY <1>1, <1>2, <1>3, <1>4, <1>5, <1>6, <1>7, <1>8, <1>9, <1>10, <1>11
     DEF Next, ConsumerStep, Delivery!Next

(* The stream queue implements MessageDelivery.                            *)
THEOREM Refinement == Spec => DeliverySpec
<1>1. Init => Delivery!Init
  BY DEF Init, Delivery!Init
<1>2. TypeOK /\ LockInv /\ RetryInv /\ RetryInv' /\ [Next]_vars
        => [Delivery!Next]_Delivery!deliveryVars
  BY DeliveryStep DEF Delivery!deliveryVars, Running, Done, Buried
<1>3. QED
  BY <1>1, <1>2, TypeCorrect, LockInvariant, RetryInvariant, PTL
     DEF Spec, DeliverySpec, Delivery!Spec

-----------------------------------------------------------------------------
(* Nothing is lost.  A dedup key stands for a handler at work, a success   *)
(* or a handler that was cut short, so an entry that is skipped as a       *)
(* duplicate is not the last of its message (KeyInv).  And a message that  *)
(* nobody settled is at a handler, or in an entry that no consumer is      *)
(* about to acknowledge (Kept): ids are fresh, so the retry copy of an     *)
(* entry is not the entry that is acknowledged after it (Fresh).           *)
Settled(m) == pushes[m] = 0 \/ successes[m] > 0 \/ DeadLettered(m) \/ m \in cut
Handled(m) == \E c \in Consumers : pc[c] \in {"callback", "release", "requeue"} /\ cur[c].mid = m
Acking     == {cur[c] : c \in {d \in Consumers : pc[d] = "ack"}}
Kept(m)    == Settled(m) \/ Handled(m) \/ \E e \in (backlog \cup pending) \ Acking : e.mid = m

KeyInv == \A m \in dedup : (\E c \in Consumers : Holds(c, m)) \/ successes[m] > 0 \/ m \in cut

Fresh ==
  /\ \A e \in backlog \cup pending : e.id < nextId
  /\ \A c \in Consumers : \A e \in batch[c] : e.id < nextId
  /\ \A c \in Consumers : pc[c] # "loop" => cur[c].id < nextId

KeptInv == KeyInv /\ Fresh /\ \A m \in Messages \ Malformed : Kept(m)

(* A step of one consumer leaves the others where they are.                *)
LEMMA OneMoves ==
  ASSUME TypeOK, NEW c \in Consumers, ConsumerStep(c) \/ Cut(c)
  PROVE  \A d \in Consumers \ {c} : pc'[d] = pc[d] /\ cur'[d] = cur[d]
<1>1. CASE Read(c) \/ Claim(c) \/ Ack(c)
  BY <1>1, ContinueHoldsNothing DEF Read, Claim, Ack
<1>2. CASE Cut(c)
  BY <1>2 DEF Cut, TypeOK
<1> QED
  BY <1>1, <1>2 DEF ConsumerStep, RejectMalformed, Acquire, SkipDuplicate, CallbackSucceeds, CallbackFails,
                    ReleaseKey, Requeue, Goto, TypeOK

LEMMA KeyStep == ASSUME TypeOK, KeyInv, [Next]_vars PROVE KeyInv'
<1>1. ASSUME NEW c \in Consumers, Read(c) \/ Claim(c) \/ RejectMalformed(c) \/ SkipDuplicate(c) \/ Requeue(c) \/ Ack(c)
      PROVE  KeyInv'
  <2>1. \A d \in Consumers \ {c} : pc'[d] = pc[d] /\ cur'[d] = cur[d]
    BY <1>1, OneMoves DEF ConsumerStep
  <2>2. pc[c] \notin {"callback", "release"} /\ UNCHANGED <<dedup, successes, cut>>
    BY <1>1 DEF Read, Claim, RejectMalformed, SkipDuplicate, Requeue, Ack, history
  <2> QED
    BY <2>1, <2>2 DEF KeyInv, Holds
<1>2. ASSUME NEW c \in Consumers, Acquire(c) PROVE KeyInv'
  <2>1. \A d \in Consumers \ {c} : pc'[d] = pc[d] /\ cur'[d] = cur[d]
    BY <1>2, OneMoves DEF ConsumerStep
  <2>2. /\ pc[c] = "dedup" /\ pc'[c] = "callback" /\ cur'[c] = cur[c] /\ dedup' = dedup \cup {cur[c].mid}
        /\ UNCHANGED <<successes, cut>>
    BY <1>2 DEF Acquire, Goto, history, TypeOK
  <2> QED
    BY <2>1, <2>2 DEF KeyInv, Holds
<1>3. ASSUME NEW c \in Consumers, CallbackSucceeds(c) PROVE KeyInv'
  <2>1. \A d \in Consumers \ {c} : pc'[d] = pc[d] /\ cur'[d] = cur[d]
    BY <1>3, OneMoves DEF ConsumerStep
  <2>2. /\ pc[c] = "callback" /\ cur[c].mid \in Messages /\ UNCHANGED <<dedup, cut>>
        /\ successes' = [successes EXCEPT ![cur[c].mid] = @ + 1]
    BY <1>3 DEF CallbackSucceeds, TypeOK, Entry
  <2>3. successes'[cur[c].mid] > 0 /\ \A m \in Messages : successes[m] > 0 => successes'[m] > 0
    BY <2>2 DEF TypeOK
  <2> QED
    BY <2>1, <2>2, <2>3 DEF KeyInv, Holds, TypeOK
<1>4. ASSUME NEW c \in Consumers, CallbackFails(c) PROVE KeyInv'
  <2>1. \A d \in Consumers \ {c} : pc'[d] = pc[d] /\ cur'[d] = cur[d]
    BY <1>4, OneMoves DEF ConsumerStep
  <2>2. pc[c] = "callback" /\ pc'[c] = "release" /\ cur'[c] = cur[c] /\ UNCHANGED <<dedup, successes, cut>>
    BY <1>4 DEF CallbackFails, Goto, TypeOK
  <2> QED
    BY <2>1, <2>2 DEF KeyInv, Holds
<1>5. ASSUME NEW c \in Consumers, ReleaseKey(c) PROVE KeyInv'
  <2>1. \A d \in Consumers \ {c} : pc'[d] = pc[d] /\ cur'[d] = cur[d]
    BY <1>5, OneMoves DEF ConsumerStep
  <2>2. dedup' = dedup \ {cur[c].mid} /\ UNCHANGED <<successes, cut>>
    BY <1>5 DEF ReleaseKey, history
  <2> QED
    BY <2>1, <2>2 DEF KeyInv, Holds
<1>6. ASSUME NEW c \in Consumers, Cut(c) PROVE KeyInv'
  <2>1. \A d \in Consumers \ {c} : pc'[d] = pc[d] /\ cur'[d] = cur[d]
    BY <1>6, OneMoves
  <2>2. /\ UNCHANGED <<dedup, successes>> /\ cut \subseteq cut'
        /\ pc[c] \in {"callback", "release"} => cur[c].mid \in cut'
    BY <1>6 DEF Cut
  <2> QED
    BY <2>1, <2>2 DEF KeyInv, Holds
<1>7. CASE \/ \E m \in Messages : Produce(m) \/ ExpireKey(m)
           \/ \E e \in pending : BecomeIdle(e)
           \/ UNCHANGED vars
  <2>1. dedup' \subseteq dedup /\ UNCHANGED <<pc, cur, successes, cut>>
    BY <1>7 DEF Produce, ExpireKey, BecomeIdle, localVars, history, vars
  <2> QED
    BY <2>1 DEF KeyInv, Holds
<1> QED
  BY <1>1, <1>2, <1>3, <1>4, <1>5, <1>6, <1>7 DEF Next, ConsumerStep

(* What a push adds to the stream has a new id.                            *)
LEMMA PushFresh ==
  ASSUME TypeOK, NEW m \in Messages, NEW retry \in Nat, Push(m, retry)
  PROVE  /\ nextId' \in Nat /\ nextId' >= nextId /\ backlog \subseteq backlog'
         /\ \A e \in backlog' \ backlog : e.id = nextId /\ e.id < nextId' /\ e.mid = m
         /\ (\E e \in backlog' : e.mid = m /\ e.id = nextId) \/ DeadLettered(m)'
         /\ dlq \subseteq dlq'
<1> DEFINE n == [id |-> nextId, mid |-> m, retry |-> retry]
<1>1. nextId \in Nat /\ n.id = nextId /\ n.mid = m
  BY DEF TypeOK
<1>2. \/ /\ backlog' = backlog \cup {n} /\ nextId' = nextId + 1 /\ dlq \subseteq dlq'
      \/ /\ dlq' = dlq \cup {[mid |-> m, reason |-> "oom"]} /\ UNCHANGED <<backlog, nextId>>
  BY DEF Push, Enqueue, DeadLetter, streamVars
<1> HIDE DEF n
<1>3. CASE backlog' = backlog \cup {n} /\ nextId' = nextId + 1 /\ dlq \subseteq dlq'
  BY <1>1, <1>3
<1>4. CASE dlq' = dlq \cup {[mid |-> m, reason |-> "oom"]} /\ UNCHANGED <<backlog, nextId>>
  <2>1. DeadLettered(m)'
    BY <1>4 DEF DeadLettered, Reason
  <2> QED
    BY <1>1, <1>4, <2>1
<1> QED
  BY <1>2, <1>3, <1>4

LEMMA FreshStep == ASSUME TypeOK, Fresh, [Next]_vars PROVE Fresh'
<1> DEFINE Known == {e \in Entry : e.id < nextId}
<1>1. /\ nextId \in Nat /\ \A e \in Known : e.id < nextId /\ e.id \in Nat
  BY DEF TypeOK, Entry
<1>2. ASSUME NEW new, \A e \in new : e.id \in Nat /\ e.id < nextId', nextId' \in Nat, nextId' >= nextId,
             backlog' \subseteq Known \cup new, pending' \subseteq Known,
             \A d \in Consumers : batch'[d] \subseteq Known,
             \A d \in Consumers : pc'[d] # "loop" => cur'[d] \in Known
      PROVE  Fresh'
  <2>1. \A e \in Known \cup new : e.id < nextId'
    BY <1>1, <1>2
  <2> HIDE DEF Known
  <2> QED
    BY <1>2, <2>1 DEF Fresh
<1>3. /\ backlog \subseteq Known /\ pending \subseteq Known /\ \A d \in Consumers : batch[d] \subseteq Known
      /\ \A d \in Consumers : pc[d] # "loop" => cur[d] \in Known
  BY DEF Fresh, TypeOK
<1> HIDE DEF Known
<1>4. ASSUME NEW c \in Consumers, Read(c) \/ Claim(c) \/ Ack(c) PROVE Fresh'
  <2>1. PICK entries \in SUBSET Known : Continue(c, entries) /\ entries \subseteq Entry
    BY <1>3, <1>4, OldestSubset DEF Read, Claim, Ack, TypeOK
  <2>2. /\ batch'[c] \subseteq Known /\ (pc'[c] # "loop" => cur'[c] \in Known)
        /\ \A d \in Consumers \ {c} : pc'[d] = pc[d] /\ cur'[d] = cur[d] /\ batch'[d] = batch[d]
    BY <1>3, <2>1, ContinueEntries
  <2>3. nextId' = nextId /\ backlog' \subseteq Known /\ pending' \subseteq Known
    BY <1>3, <1>4, OldestSubset DEF Read, Claim, Ack, streamVars
  <2> QED
    BY <1>1, <1>2, <1>3, <2>2, <2>3
<1>5. ASSUME NEW c \in Consumers,
             \/ RejectMalformed(c) \/ Acquire(c) \/ SkipDuplicate(c) \/ CallbackSucceeds(c) \/ CallbackFails(c)
             \/ ReleaseKey(c) \/ Cut(c)
      PROVE  Fresh'
  <2>1. UNCHANGED <<nextId, backlog, pending>> /\ pc[c] # "loop"
    BY <1>5 DEF RejectMalformed, Acquire, SkipDuplicate, CallbackSucceeds, CallbackFails, ReleaseKey, Cut,
                streamVars, groupVars
  <2>2. \A d \in Consumers : batch'[d] \subseteq batch[d] /\ (pc'[d] # "loop" => pc[d] # "loop" /\ cur'[d] = cur[d])
    BY <1>5 DEF RejectMalformed, Acquire, SkipDuplicate, CallbackSucceeds, CallbackFails, ReleaseKey, Cut, Goto,
                TypeOK
  <2> QED
    BY <1>1, <1>2, <1>3, <2>1, <2>2
<1>6. ASSUME NEW c \in Consumers, Requeue(c) PROVE Fresh'
  <2>1. cur[c].mid \in Messages /\ cur[c].retry + 1 \in Nat /\ pc[c] # "loop"
    BY <1>6 DEF Requeue, TypeOK, Entry
  <2>2. UNCHANGED <<pending, batch, cur>> /\ \A d \in Consumers \ {c} : pc'[d] = pc[d]
    BY <1>6 DEF Requeue, Goto, groupVars, TypeOK
  <2>3. CASE Push(cur[c].mid, cur[c].retry + 1)
    BY <1>1, <1>2, <1>3, <2>1, <2>2, <2>3, PushFresh
  <2>4. CASE UNCHANGED streamVars
    BY <1>1, <1>2, <1>3, <2>1, <2>2, <2>4 DEF streamVars
  <2> QED
    BY <1>6, <2>3, <2>4 DEF Requeue
<1>7. ASSUME NEW m \in Messages, Produce(m) PROVE Fresh'
  <2>1. Push(m, 0) /\ UNCHANGED <<pending, pc, batch, cur>>
    BY <1>7 DEF Produce, localVars, groupVars
  <2> QED
    BY <1>1, <1>2, <1>3, <2>1, PushFresh
<1>8. CASE \/ \E m \in Messages : ExpireKey(m)
           \/ \E e \in pending : BecomeIdle(e)
           \/ UNCHANGED vars
  BY <1>8 DEF Fresh, ExpireKey, BecomeIdle, localVars, streamVars, groupVars, vars
<1> QED
  BY <1>4, <1>5, <1>6, <1>7, <1>8 DEF Next, ConsumerStep

(* A step that settles no less, and neither takes an entry of the message  *)
(* out of the stream nor has one acknowledged that was not before.         *)
LEMMA KeptFrame ==
  ASSUME NEW m \in Messages, Kept(m), Settled(m) => Settled(m)', Handled(m) => Handled(m)' \/ Settled(m)',
         \A e \in (backlog \cup pending) \ Acking :
           e.mid = m => e \in (backlog' \cup pending') \ Acking' \/ Settled(m)' \/ Handled(m)'
  PROVE  Kept(m)'
BY DEF Kept

(* The entry a push adds is not about to be acknowledged.                  *)
LEMMA PushKept ==
  ASSUME TypeOK, Fresh, NEW m \in Messages, NEW retry \in Nat, Push(m, retry),
         \A e \in Acking' : e.id < nextId /\ e.id \in Nat
  PROVE  DeadLettered(m)' \/ \E e \in (backlog' \cup pending') \ Acking' : e.mid = m
<1>1. nextId \in Nat
  BY DEF TypeOK
<1> QED
  BY <1>1, PushFresh

LEMMA AckingIds ==
  ASSUME TypeOK, Fresh PROVE \A d \in Consumers : pc[d] # "loop" => cur[d].id < nextId /\ cur[d].id \in Nat
BY DEF Fresh, TypeOK, Entry

LEMMA KeptStep ==
  ASSUME TypeOK, KeyInv, Fresh, NEW m \in Messages \ Malformed, Kept(m), [Next]_vars
  PROVE  Kept(m)'
<1>1. ASSUME NEW c \in Consumers, Read(c) \/ Claim(c) \/ Ack(c) PROVE Kept(m)'
  <2>1. /\ \A d \in Consumers \ {c} : pc'[d] = pc[d] /\ cur'[d] = cur[d]
        /\ pc[c] \in {"loop", "ack"} /\ pc'[c] \in {"loop", "dedup"}
    BY <1>1, OneMoves, ContinueHoldsNothing DEF ConsumerStep, Read, Claim, Ack
  <2>2. UNCHANGED <<pushes, successes, dlq, cut>>
    BY <1>1 DEF Read, Claim, Ack, history
  <2>3. \A e \in backlog \cup pending : e \in backlog' \cup pending' \/ (pc[c] = "ack" /\ e = cur[c])
    BY <1>1 DEF Read, Claim, Ack, streamVars
  <2>4. \A e \in (backlog \cup pending) \ Acking : e \in (backlog' \cup pending') \ Acking'
    BY <2>1, <2>3 DEF Acking
  <2>5. (Handled(m) => Handled(m)') /\ (Settled(m) => Settled(m)')
    BY <2>1, <2>2 DEF Handled, Settled, DeadLettered
  <2> QED
    BY <2>4, <2>5, KeptFrame
<1>2. ASSUME NEW c \in Consumers, Acquire(c) \/ CallbackFails(c) \/ ReleaseKey(c) PROVE Kept(m)'
  <2>1. /\ \A d \in Consumers \ {c} : pc'[d] = pc[d] /\ cur'[d] = cur[d]
        /\ pc[c] # "ack" /\ pc'[c] \in {"callback", "release", "requeue"} /\ cur'[c] = cur[c]
    BY <1>2, OneMoves DEF ConsumerStep, Acquire, CallbackFails, ReleaseKey, Goto, TypeOK
  <2>2. UNCHANGED <<backlog, pending, pushes, successes, dlq, cut>>
    BY <1>2 DEF Acquire, CallbackFails, ReleaseKey, history, streamVars, groupVars
  <2>3. (Handled(m) => Handled(m)') /\ (Settled(m) => Settled(m)') /\ Acking' \subseteq Acking
    BY <2>1, <2>2 DEF Handled, Settled, DeadLettered, Acking
  <2> QED
    BY <2>2, <2>3, KeptFrame
<1>3. ASSUME NEW c \in Consumers,
             RejectMalformed(c) \/ SkipDuplicate(c) \/ CallbackSucceeds(c) \/ Requeue(c)
      PROVE  Kept(m)'
  <2>1. /\ \A d \in Consumers \ {c} : pc'[d] = pc[d] /\ cur'[d] = cur[d]
        /\ pc[c] # "loop" /\ pc'[c] = "ack" /\ cur'[c] = cur[c]
    BY <1>3, OneMoves
       DEF ConsumerStep, RejectMalformed, SkipDuplicate, CallbackSucceeds, Requeue, Goto, TypeOK
  <2>2. /\ UNCHANGED <<pending, pushes, cut>> /\ dlq \subseteq dlq' /\ cur[c].mid \in Messages
        /\ RejectMalformed(c) \/ SkipDuplicate(c) \/ Requeue(c) => successes' = successes
    BY <1>3, <2>1 DEF RejectMalformed, SkipDuplicate, CallbackSucceeds, Requeue, Push, DeadLetter, history, groupVars,
                TypeOK, Entry
  <2>3. successes[m] > 0 => successes'[m] > 0
    BY <1>3, <2>2 DEF CallbackSucceeds, TypeOK
  <2>4. Settled(m) => Settled(m)'
    BY <2>2, <2>3 DEF Settled, DeadLettered
  <2>5. backlog \subseteq backlog' /\ Acking' \subseteq Acking \cup {cur[c]}
    BY <1>3, <2>1 DEF RejectMalformed, SkipDuplicate, CallbackSucceeds, Requeue, Push, Enqueue, streamVars, Acking
  <2>6. CASE cur[c].mid # m
    <3>1. Handled(m) => Handled(m)'
      BY <2>1, <2>6 DEF Handled
    <3> QED
      BY <2>2, <2>4, <2>5, <2>6, <3>1, KeptFrame
  <2>7. CASE cur[c].mid = m /\ SkipDuplicate(c)
    <3>1. (\E d \in Consumers : Holds(d, m)) \/ successes[m] > 0 \/ m \in cut
      BY <2>7 DEF KeyInv, SkipDuplicate
    <3>2. \A d \in Consumers : Holds(d, m) => Handled(m)'
      BY <2>1, <2>7 DEF Holds, Handled, SkipDuplicate
    <3> QED
      BY <2>4, <3>1, <3>2 DEF Kept, Settled
  <2>8. CASE cur[c].mid = m /\ CallbackSucceeds(c)
    BY <2>8 DEF CallbackSucceeds, Kept, Settled, TypeOK
  <2>9. CASE cur[c].mid = m /\ Requeue(c)
    <3>1. cur[c].retry + 1 \in Nat
      BY <2>1 DEF TypeOK, Entry
    <3>2. CASE Push(m, cur[c].retry + 1)
      <4>1. \A e \in Acking' : e.id < nextId /\ e.id \in Nat
        BY <2>1, AckingIds DEF Acking
      <4> QED
        BY <3>1, <3>2, <4>1, PushKept DEF Kept, Settled
    <3>3. CASE DeadLetter(m, "exhausted")
      BY <3>3 DEF DeadLetter, Kept, Settled, DeadLettered, Reason
    <3> QED
      BY <2>9, <3>2, <3>3 DEF Requeue
  <2> QED
    BY <1>3, <2>6, <2>7, <2>8, <2>9 DEF RejectMalformed
<1>4. ASSUME NEW c \in Consumers, Cut(c) PROVE Kept(m)'
  <2>1. /\ \A d \in Consumers \ {c} : pc'[d] = pc[d] /\ cur'[d] = cur[d]
        /\ pc'[c] = "loop" /\ UNCHANGED <<backlog, pending, pushes, successes, dlq>> /\ cut \subseteq cut'
        /\ pc[c] \in {"callback", "release", "requeue"} => cur[c].mid \in cut'
    BY <1>4, OneMoves DEF Cut, TypeOK, streamVars, groupVars
  <2>2. Acking' \subseteq Acking /\ (Settled(m) => Settled(m)') /\ (Handled(m) => Handled(m)' \/ Settled(m)')
    BY <2>1 DEF Acking, Settled, DeadLettered, Handled
  <2> QED
    BY <2>1, <2>2, KeptFrame
<1>5. ASSUME NEW k \in Messages, Produce(k) PROVE Kept(m)'
  <2>1. /\ Push(k, 0) /\ pushes' = [pushes EXCEPT ![k] = @ + 1]
        /\ UNCHANGED <<pending, pc, cur, successes, cut>>
    BY <1>5 DEF Produce, localVars, groupVars
  <2>2. backlog \subseteq backlog' /\ dlq \subseteq dlq' /\ Acking' = Acking /\ (Handled(m) => Handled(m)')
    BY <2>1, PushFresh DEF Acking, Handled
  <2>3. CASE k = m
    <3>1. \A e \in Acking' : e.id < nextId /\ e.id \in Nat
      BY <2>1, AckingIds DEF Acking
    <3> QED
      BY <2>1, <2>3, <3>1, PushKept DEF Kept, Settled
  <2>4. CASE k # m
    <3>1. Settled(m) => Settled(m)'
      BY <2>1, <2>2, <2>4 DEF Settled, DeadLettered, TypeOK
    <3> QED
      BY <2>1, <2>2, <3>1, KeptFrame
  <2> QED
    BY <2>3, <2>4
<1>6. CASE \/ \E k \in Messages : ExpireKey(k)
           \/ \E e \in pending : BecomeIdle(e)
           \/ UNCHANGED vars
  <2>1. UNCHANGED <<backlog, pending, pc, cur, pushes, successes, dlq, cut>>
    BY <1>6 DEF ExpireKey, BecomeIdle, localVars, streamVars, groupVars, history, vars
  <2> QED
    BY <2>1 DEF Kept, Settled, Handled, DeadLettered, Acking
<1> QED
  BY <1>1, <1>2, <1>3, <1>4, <1>5, <1>6 DEF Next, ConsumerStep

(* A message is lost only when its handler was cut short before it wrote   *)
(* the retry copy (_process_entry): for any number of consumers, copies,   *)
(* reclaims and failing calls nothing else makes it disappear.             *)
THEOREM NothingElseIsLost == Spec => []LostOnlyIfCutShort
<1>1. Init => KeptInv
  BY DEF Init, KeptInv, KeyInv, Fresh, Kept, Settled
<1>2. TypeOK /\ KeptInv /\ [Next]_vars => KeptInv'
  BY KeyStep, FreshStep, KeptStep DEF KeptInv
<1>3. KeptInv => LostOnlyIfCutShort
  <2> SUFFICES ASSUME KeptInv, NEW m \in Messages \ Malformed, Lost(m), m \notin cut, pushes[m] > 0 PROVE FALSE
    BY DEF LostOnlyIfCutShort, Lost
  <2> QED
    BY DEF KeptInv, Kept, Settled, Handled, Lost, InFlight
<1> QED
  BY <1>1, <1>2, <1>3, TypeCorrect, PTL DEF Spec
=============================================================================
