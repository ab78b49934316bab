------------------------------- MODULE Mailbox -------------------------------
(***************************************************************************)
(* What the transactional outbox promises whoever submits a job, without   *)
(* connection, lock, relay or circuit breaker: the job and its event are   *)
(* on record in one step; only then is anything sent about the job; and    *)
(* the event is settled once, as delivered after it was sent or as given   *)
(* up after its whole budget of failed deliveries.                         *)
(***************************************************************************)
EXTENDS Integers

CONSTANTS Jobs, MaxAttempts, MaxRetries

VARIABLES
  rows,       \* jobs on record
  events,     \* jobs whose event is on record
  sent,       \* messages sent, [job, payload]
  delivered,  \* jobs whose event is settled as delivered
  abandoned,  \* jobs whose event is settled as given up
  missed      \* failed deliveries of each event

mailboxVars == <<rows, events, sent, delivered, abandoned, missed>>

Open == events \ (delivered \cup abandoned)

Init ==
  /\ rows = {} /\ events = {} /\ sent = {} /\ delivered = {} /\ abandoned = {}
  /\ missed = [j \in Jobs |-> 0]

Submit(j) ==
  /\ j \notin rows
  /\ rows' = rows \cup {j} /\ events' = events \cup {j}
  /\ UNCHANGED <<sent, delivered, abandoned, missed>>

Send(j, payload) ==
  /\ j \in rows
  /\ sent' = sent \cup {[job |-> j, payload |-> payload]}
  /\ UNCHANGED <<rows, events, delivered, abandoned, missed>>

Miss(j) ==
  /\ j \in Open
  /\ missed' = [missed EXCEPT ![j] = @ + 1]
  /\ UNCHANGED <<rows, events, sent, delivered, abandoned>>

Settle(j) ==
  /\ j \in Open
  /\ [job |-> j, payload |-> "event"] \in sent
  /\ delivered' = delivered \cup {j}
  /\ UNCHANGED <<rows, events, sent, abandoned, missed>>

GiveUp(j) ==
  /\ j \in Open
  /\ missed[j] >= MaxRetries * MaxAttempts
  /\ abandoned' = abandoned \cup {j}
  /\ UNCHANGED <<rows, events, sent, delivered, missed>>

Next ==
  \E j \in Jobs :
    \/ Submit(j) \/ Miss(j) \/ Settle(j) \/ GiveUp(j)
    \/ \E payload \in {"job", "event"} : Send(j, payload)

Spec == Init /\ [][Next]_mailboxVars
=============================================================================
