--------------------------- MODULE MessageDelivery ---------------------------
(***************************************************************************)
(* What the stream queue promises the workers' callbacks, without streams, *)
(* consumer groups, keys or consumers: per message, one callback at a      *)
(* time, none after a success while the dedup window is open, and no       *)
(* burial in the dead-letter stream before max_retries failures.           *)
(***************************************************************************)
EXTENDS Integers

CONSTANTS Messages, MaxRetries

VARIABLES
  running,  \* messages whose callback is running
  done,     \* messages processed successfully, their dedup window open
  failed,   \* failed callbacks of each message
  buried,   \* messages dead-lettered as exhausted
  reopened  \* messages whose dedup window has passed

deliveryVars == <<running, done, failed, buried, reopened>>

Init ==
  /\ running = {} /\ done = {} /\ buried = {} /\ reopened = {}
  /\ failed = [m \in Messages |-> 0]

Begin(m) ==
  /\ m \notin running \cup done
  /\ running' = running \cup {m}
  /\ UNCHANGED <<done, failed, buried, reopened>>

Succeed(m) ==
  /\ m \in running
  /\ running' = running \ {m}
  /\ done' = IF m \in reopened THEN done ELSE done \cup {m}
  /\ UNCHANGED <<failed, buried, reopened>>

Fail(m) ==
  /\ m \in running
  /\ running' = running \ {m}
  /\ failed' = [failed EXCEPT ![m] = @ + 1]
  /\ UNCHANGED <<done, buried, reopened>>

\* The worker died: the callback ended without an outcome.
Abandon(m) ==
  /\ m \in running
  /\ running' = running \ {m}
  /\ UNCHANGED <<done, failed, buried, reopened>>

Bury(m) ==
  /\ failed[m] >= MaxRetries
  /\ buried' = buried \cup {m}
  /\ UNCHANGED <<running, done, failed, reopened>>

Reopen(m) ==
  /\ m \notin running
  /\ done' = done \ {m}
  /\ reopened' = reopened \cup {m}
  /\ UNCHANGED <<running, failed, buried>>

Next ==
  \E m \in Messages :
    Begin(m) \/ Succeed(m) \/ Fail(m) \/ Abandon(m) \/ Bury(m) \/ Reopen(m)

Spec == Init /\ [][Next]_deliveryVars
=============================================================================
