-------------------------- MODULE Processor_proofs --------------------------
(***************************************************************************)
(* Proofs about Processor for every site, every depth, fan-out cap and     *)
(* retry budget, and every number of restarts and lost answers.            *)
(***************************************************************************)
EXTENDS Processor, FiniteSetTheorems, TLAPS

(* The jobs of a site are finitely many.                                   *)
LEMMA JobsFinite == IsFiniteSet(Job)
<1> DEFINE f == [j \in Job |-> <<j.page, j.depth>>]
<1>1. IsFiniteSet(Pages \X Depths)
  <2>1. IsFiniteSet(Depths)
    BY FS_Interval, BoundsAssumption DEF Depths
  <2>2. QED
    BY <2>1, FS_Product, SiteAssumption
<1>2. f \in [Job -> Pages \X Depths]
  BY DEF Job
<1>3. \A i, j \in Job : f[i] = f[j] => i = j
  BY DEF Job
<1>4. f \in Injection(Job, Pages \X Depths)
  BY <1>2, <1>3 DEF Injection, IsInjective
<1>5. QED
  BY <1>1, <1>4, FS_Injection

LEMMA FollowsType ==
  ASSUME TypeOK, NEW m \in Payload PROVE Follows(m) \subseteq Job
<1>1. site[m.page].next \in Pages \cup {None} /\ site[m.page].links \subseteq Pages
  BY SiteAssumption DEF TypeOK, Payload
<1>2. m.depth \in Depths /\ (m.depth < MaxDepth => m.depth + 1 \in Depths)
  BY BoundsAssumption DEF Payload, Depths
<1>3. QED
  BY <1>1, <1>2 DEF Follows, Job

(* What a split of the fresh links grants and refuses.                     *)
LEMMA SplitType ==
  ASSUME TypeOK, pc # "idle", NEW n \in Nat, Split(Fresh(cur), n)
  PROVE  /\ cur \in Payload
         /\ todo' \subseteq Job /\ over' \subseteq Job /\ Cardinality(todo') = n
         /\ todo' \cup over' = Fresh(cur) /\ pc' = "spread"
<1>1. cur \in Payload
  BY DEF TypeOK
<1>2. QED
  BY <1>1, FollowsType DEF Split, Fresh

LEMMA FreshCount ==
  ASSUME TypeOK, pc # "idle" PROVE Cardinality(Fresh(cur)) \in Nat
<1>1. Fresh(cur) \in SUBSET Job
  BY FollowsType DEF TypeOK, Fresh
<1>2. QED
  BY <1>1, JobsFinite, FS_Subset, FS_CardinalityType

(***************************************************************************)
(* Types.                                                                  *)
(***************************************************************************)

(* TypeOK and what it takes to be inductive: a payload that is audited has *)
(* a record.                                                               *)
HasRecord == pc \in {"audit", "record", "announce"} => cur.version \in Versions
TypeInv == TypeOK /\ HasRecord

LEMMA TypeInit == Init => TypeInv
<1> SUFFICES ASSUME Init PROVE TypeInv
  OBVIOUS
<1>1. tracker \in [Pages -> Versions \cup {None}]
  BY SiteAssumption DEF Init
<1>2. announced \subseteq [page : Pages, version : Versions]
  BY <1>1 DEF Init
<1>3. jobs \in [Job -> Nat] /\ raw \in [Payload -> Nat]
  BY DEF Init
<1>4. QED
  BY <1>1, <1>2, <1>3 DEF Init, TypeInv, TypeOK, HasRecord

(* A payload that is delivered again keeps the stream of payloads typed.   *)
LEMMA RedeliverType ==
  ASSUME TypeOK, pc # "idle", Redeliver
  PROVE  raw' \in [Payload -> Nat] /\ cur.page \in Pages
<1>1. cur \in Payload
  BY DEF TypeOK
<1>2. CASE cur.retry + 1 < MaxRetries /\ raw' = Add(raw, [cur EXCEPT !.retry = @ + 1])
  <2>1. [cur EXCEPT !.retry = @ + 1] \in Payload
    BY <1>1, <1>2, BoundsAssumption DEF Payload
  <2>2. raw' = [raw EXCEPT ![[cur EXCEPT !.retry = @ + 1]] = @ + 1]
    BY <1>2 DEF Add
  <2>3. raw' \in [Payload -> Nat]
    BY <2>1, <2>2 DEF TypeOK
  <2>4. QED
    BY <1>1, <2>3 DEF Payload
<1>3. CASE UNCHANGED raw
  BY <1>1, <1>3 DEF TypeOK, Payload
<1>4. QED
  BY <1>2, <1>3 DEF Redeliver

LEMMA TypeStep == TypeInv /\ [Next]_vars => TypeInv'
<1> SUFFICES ASSUME TypeInv, [Next]_vars PROVE TypeInv'
  OBVIOUS
<1> USE SiteAssumption, BoundsAssumption DEF TypeInv, HasRecord
<1>1. ASSUME NEW j \in Job, Scrape(j) PROVE TypeInv'
  <2>1. PICK v \in site[j.page].shows :
          raw' = Add(raw, [page |-> j.page, depth |-> j.depth, version |-> v, retry |-> 0])
    BY <1>1 DEF Scrape
  <2>2. v \in Versions \cup {None}
    BY DEF TypeOK, Job
  <2> DEFINE m == [page |-> j.page, depth |-> j.depth, version |-> v, retry |-> 0]
  <2>3. m \in Payload
    BY <2>2 DEF Job, Payload
  <2>4. raw' \in [Payload -> Nat]
    BY <2>1, <2>3 DEF Add, TypeOK
  <2>5. jobs' \in [Job -> Nat]
    BY <1>1 DEF Scrape, Remove, TypeOK
  <2>6. QED
    BY <1>1, <2>4, <2>5 DEF Scrape, TypeOK, stores, work, fanout, history
<1>2. ASSUME NEW j \in Job, ScrapeFails(j) PROVE TypeInv'
  BY <1>2 DEF ScrapeFails, Remove, TypeOK, stores, work, fanout, history
<1>3. ASSUME NEW m \in Payload, Take(m) PROVE TypeInv'
  <2>1. raw' \in [Payload -> Nat]
    BY <1>3 DEF Take, Remove, TypeOK
  <2>2. m.version \in Versions \cup {None} /\ m # None
    BY DEF Payload
  <2>3. QED
    BY <1>3, <2>1, <2>2 DEF Take, TypeOK, stores, fanout, history
<1>4. ASSUME NEW m \in Payload, Reject(m) PROVE TypeInv'
  BY <1>4 DEF Reject, Remove, TypeOK, stores, work, fanout, history
<1>5. CASE Audit
  BY <1>5 DEF Audit, UpsertRecord, Change, TypeOK, Payload, streams, fanout, history
<1>6. CASE Record
  BY <1>6 DEF Record, TypeOK, streams, stores, work, fanout, history
<1>7. CASE Announce
  <2>1. cur.page \in Pages /\ cur.version \in Versions
    BY <1>7 DEF Announce, TypeOK, Payload
  <2>2. /\ announced' \subseteq [page : Pages, version : Versions]
        /\ dropped' \subseteq [page : Pages, version : Versions]
    BY <1>7, <2>1 DEF Announce, TypeOK
  <2>3. QED
    BY <1>7, <2>2 DEF Announce, TypeOK, streams, work, fanout, history
<1>8. CASE Grant
  <2> DEFINE n == Smaller(Cardinality(Fresh(cur)), Larger(0, MaxFanout - budget))
  <2>1. Cardinality(Fresh(cur)) \in Nat
    BY <1>8, FreshCount DEF Grant
  <2>2. n \in Nat /\ budget + n \in Nat
    BY <2>1 DEF Smaller, Larger, TypeOK
  <2>3. Split(Fresh(cur), n) /\ budget' = budget + n
    BY <1>8 DEF Grant
  <2>4. todo' \subseteq Job /\ over' \subseteq Job /\ pc' = "spread" /\ cur \in Payload
    BY <1>8, <2>2, <2>3, SplitType DEF Grant
  <2>5. QED
    BY <1>8, <2>2, <2>3, <2>4 DEF Grant, TypeOK, streams, stores, history
<1>9. CASE GrantDegraded
  <2> DEFINE n == Smaller(Cardinality(Fresh(cur)), Degraded)
             k == Smaller(Cardinality(Fresh(cur)), Larger(0, MaxFanout - budget))
  <2>1. Cardinality(Fresh(cur)) \in Nat
    BY <1>9, FreshCount DEF GrantDegraded
  <2>2. n \in Nat /\ budget + k \in Nat
    BY <2>1 DEF Smaller, Larger, TypeOK
  <2>3. Split(Fresh(cur), n) /\ budget' \in {budget, budget + k}
    BY <1>9 DEF GrantDegraded
  <2>4. todo' \subseteq Job /\ over' \subseteq Job /\ pc' = "spread" /\ cur \in Payload
    BY <1>9, <2>2, <2>3, SplitType DEF GrantDegraded
  <2>5. budget' \in Nat
    BY <2>2, <2>3 DEF TypeOK
  <2>6. QED
    BY <1>9, <2>4, <2>5 DEF GrantDegraded, TypeOK, streams, stores, history
<1>10. CASE PushChild
  <2>1. PICK g \in todo : /\ jobs' = Add(jobs, g) /\ seen' = seen \cup {g.page}
                          /\ todo' = todo \ {g} /\ disposed' = disposed \cup {g.page}
    BY <1>10 DEF PushChild
  <2>2. g \in Job /\ g.page \in Pages
    BY DEF TypeOK, Job
  <2>3. jobs' \in [Job -> Nat] /\ inWindow' \in Nat
    BY <1>10, <2>1, <2>2 DEF PushChild, Add, TypeOK
  <2>4. QED
    BY <1>10, <2>1, <2>2, <2>3 DEF PushChild, TypeOK, stores
<1>11. CASE DropChild
  <2>1. PICK g \in over : /\ seen' = seen \cup {g.page} /\ over' = over \ {g}
                          /\ disposed' = disposed \cup {g.page}
    BY <1>11 DEF DropChild
  <2>2. g.page \in Pages
    BY DEF TypeOK, Job
  <2>3. QED
    BY <1>11, <2>1, <2>2 DEF DropChild, TypeOK, streams, stores, fanout
<1>12. CASE Finish
  BY <1>12 DEF Finish, Idle, TypeOK, streams, stores, fanout, history
<1>13. CASE CallFails
  <2>1. raw' \in [Payload -> Nat] /\ cur.page \in Pages
    BY <1>13, RedeliverType DEF CallFails
  <2>2. QED
    BY <1>13, <2>1 DEF CallFails, Idle, TypeOK, stores, fanout
<1>14. CASE Kill
  <2>1. cur # None => cur.page \in Pages
    BY DEF TypeOK, Payload
  <2>2. hurt' \subseteq Pages
    BY <1>14, <2>1 DEF Kill, TypeOK
  <2>3. faults' \in Nat /\ seen' \subseteq Pages
    BY <1>14 DEF Kill, TypeOK
  <2>4. Idle /\ UNCHANGED <<site, streams, stores, fanout, disposed>>
    BY <1>14 DEF Kill
  <2>5. QED
    BY <2>2, <2>3, <2>4 DEF Idle, TypeOK, streams, stores, fanout
<1>15. CASE WindowExpires
  BY <1>15 DEF WindowExpires, TypeOK, streams, stores, work, history
<1>16. CASE AnswerLost
  <2>1. PICK g \in todo : jobs' = Add(jobs, g) /\ disposed' = disposed \cup {g.page}
    BY <1>16 DEF AnswerLost
  <2>2. g \in Job /\ g.page \in Pages
    BY DEF TypeOK, Job
  <2>3. jobs' \in [Job -> Nat] /\ inWindow' \in Nat /\ faults' \in Nat
    BY <1>16, <2>1, <2>2 DEF AnswerLost, Add, TypeOK
  <2>4. raw' \in [Payload -> Nat] /\ cur.page \in Pages
    BY <1>16, RedeliverType DEF AnswerLost
  <2>5. QED
    BY <1>16, <2>1, <2>2, <2>3, <2>4 DEF AnswerLost, Idle, TypeOK, stores
<1>17. CASE UNCHANGED vars
  BY <1>17 DEF TypeOK, vars, streams, stores, work, fanout, history
<1>18. QED
  BY <1>1, <1>2, <1>3, <1>4, <1>5, <1>6, <1>7, <1>8, <1>9, <1>10, <1>11, <1>12,
     <1>13, <1>14, <1>15, <1>16, <1>17 DEF Next, Scraper, Process, Receive, Spread

LEMMA TypeInvariant == Spec => []TypeInv
BY TypeInit, TypeStep, PTL DEF Spec

(* Every variable keeps its type: in particular the processor always holds *)
(* a payload while it works and no link when it does not.                  *)
THEOREM TypeCorrect == Spec => []TypeOK
<1>1. TypeInv => TypeOK
  BY DEF TypeInv
<1>2. QED
  BY <1>1, TypeInvariant, PTL

(***************************************************************************)
(* The budget: what was pushed and what is still granted in this window    *)
(* never exceeds what the window was charged, and that never exceeds the   *)
(* cap.                                                                    *)
(***************************************************************************)
Outstanding == IF counted THEN Cardinality(todo) ELSE 0
BudgetInv == inWindow + Outstanding <= budget /\ budget <= MaxFanout

LEMMA NoLinks == Cardinality({}) = 0
BY FS_EmptySet

LEMMA BudgetStep == TypeInv /\ BudgetInv /\ [Next]_vars => BudgetInv'
<1> SUFFICES ASSUME TypeInv, BudgetInv, [Next]_vars PROVE BudgetInv'
  OBVIOUS
<1> USE BoundsAssumption
<1>1. TypeOK /\ inWindow \in Nat /\ budget \in Nat
  BY DEF TypeInv, TypeOK
<1>2. Cardinality(todo) \in Nat /\ IsFiniteSet(todo)
  BY <1>1, JobsFinite, FS_Subset, FS_CardinalityType DEF TypeOK
<1>3. ASSUME UNCHANGED <<fanout, todo>> PROVE BudgetInv'
  BY <1>3 DEF BudgetInv, Outstanding, fanout
<1>4. ASSUME UNCHANGED fanout, Idle PROVE BudgetInv'
  BY <1>1, <1>2, <1>4, NoLinks DEF BudgetInv, Outstanding, fanout, Idle
<1>5. CASE Scraper \/ Receive \/ Audit \/ Record \/ Announce \/ UNCHANGED vars
  BY <1>3, <1>5 DEF Scraper, Scrape, ScrapeFails, Receive, Take, Reject, Audit, Record,
                    Announce, vars, work
<1>6. CASE Grant
  <2> DEFINE n == Smaller(Cardinality(Fresh(cur)), Larger(0, MaxFanout - budget))
  <2>1. Cardinality(Fresh(cur)) \in Nat
    BY <1>1, <1>6, FreshCount DEF Grant
  <2>2. n \in Nat /\ budget + n <= MaxFanout
    BY <1>1, <2>1 DEF Smaller, Larger, BudgetInv
  <2>3. Cardinality(todo') = n
    BY <1>1, <1>6, <2>2, SplitType DEF Grant
  <2>4. inWindow <= budget
    BY <1>1, <1>2 DEF BudgetInv, Outstanding
  <2>5. budget' = budget + n /\ inWindow' = inWindow /\ counted' = TRUE
    BY <1>6 DEF Grant
  <2>6. QED
    BY <1>1, <2>2, <2>3, <2>4, <2>5 DEF BudgetInv, Outstanding
<1>7. CASE GrantDegraded
  <2> DEFINE k == Smaller(Cardinality(Fresh(cur)), Larger(0, MaxFanout - budget))
  <2>1. Cardinality(Fresh(cur)) \in Nat
    BY <1>1, <1>7, FreshCount DEF GrantDegraded
  <2>2. k \in Nat /\ budget + k <= MaxFanout
    BY <1>1, <2>1 DEF Smaller, Larger, BudgetInv
  <2>3. inWindow <= budget /\ budget <= MaxFanout
    BY <1>1, <1>2 DEF BudgetInv, Outstanding
  <2>4. budget' \in {budget, budget + k} /\ inWindow' = inWindow /\ counted' = FALSE
    BY <1>7 DEF GrantDegraded
  <2>5. QED
    BY <1>1, <2>2, <2>3, <2>4 DEF BudgetInv, Outstanding
<1>8. CASE PushChild
  <2>1. PICK g \in todo : todo' = todo \ {g}
    BY <1>8 DEF PushChild
  <2>2. Cardinality(todo') = Cardinality(todo) - 1
    BY <1>2, <2>1, FS_RemoveElement
  <2>3. QED
    BY <1>1, <1>2, <1>8, <2>2 DEF PushChild, BudgetInv, Outstanding
<1>9. CASE DropChild
  BY <1>3, <1>9 DEF DropChild
<1>10. CASE Finish \/ CallFails \/ Kill
  BY <1>4, <1>10 DEF Finish, CallFails, Kill
<1>11. CASE WindowExpires
  BY <1>11 DEF WindowExpires, BudgetInv, Outstanding
<1>12. CASE AnswerLost
  <2>1. todo # {} /\ todo' = {} /\ budget' = budget /\ counted' = counted
    BY <1>12 DEF AnswerLost, Idle
  <2>2. Cardinality(todo) >= 1 /\ Cardinality(todo') = 0
    BY <1>2, <2>1, FS_EmptySet
  <2>3. QED
    BY <1>1, <1>2, <1>12, <2>1, <2>2 DEF AnswerLost, BudgetInv, Outstanding
<1>13. QED
  BY <1>5, <1>6, <1>7, <1>8, <1>9, <1>10, <1>11, <1>12 DEF Next, Process, Spread

(* However often a parent is delivered again, one window of the budget     *)
(* grants at most MaxFanout pushes.                                        *)
THEOREM CapHolds == Spec => []FanoutCapHolds
<1>1. Init => BudgetInv
  BY BoundsAssumption DEF Init, BudgetInv, Outstanding
<1>2. TypeInv /\ BudgetInv => FanoutCapHolds
  <2> SUFFICES ASSUME TypeInv, BudgetInv PROVE FanoutCapHolds
    OBVIOUS
  <2>1. Cardinality(todo) \in Nat
    BY JobsFinite, FS_Subset, FS_CardinalityType DEF TypeInv, TypeOK
  <2>2. QED
    BY <2>1, BoundsAssumption DEF BudgetInv, Outstanding, FanoutCapHolds, TypeInv, TypeOK
<1>3. QED
  BY <1>1, <1>2, BudgetStep, TypeInvariant, PTL DEF Spec

(***************************************************************************)
(* The links: a page marked as seen is disposed of, and the links of the   *)
(* payload that is spread are granted, refused or disposed of.             *)
(***************************************************************************)
LinksInv ==
  /\ seen \subseteq disposed
  /\ pc = "spread" => \A f \in Follows(cur) : f \in todo \cup over \/ f.page \in disposed

LEMMA LinksStep == TypeInv /\ LinksInv /\ [Next]_vars => LinksInv'
<1> SUFFICES ASSUME TypeInv, LinksInv, [Next]_vars PROVE LinksInv'
  OBVIOUS
<1>1. TypeOK
  BY DEF TypeInv
<1>2. ASSUME UNCHANGED <<seen, disposed>>, pc' # "spread" PROVE LinksInv'
  BY <1>2 DEF LinksInv
<1>3. CASE Scraper \/ WindowExpires \/ UNCHANGED vars
  BY <1>3 DEF Scraper, Scrape, ScrapeFails, WindowExpires, vars, work, history, LinksInv, Follows
<1>4. CASE Receive \/ Audit \/ Record \/ Announce
  BY <1>2, <1>4 DEF Receive, Take, Reject, Audit, Record, Announce, history
<1>5. CASE Grant \/ GrantDegraded
  <2>1. pc # "idle"
    BY <1>5 DEF Grant, GrantDegraded
  <2>2. \E n : Split(Fresh(cur), n)
    BY <1>5 DEF Grant, GrantDegraded
  <2>3. Fresh(cur) \subseteq todo' \cup over'
    BY <2>2 DEF Split
  <2>4. UNCHANGED <<site, cur, seen, disposed>>
    BY <1>5 DEF Grant, GrantDegraded, history
  <2>5. QED
    BY <2>3, <2>4 DEF LinksInv, Fresh, Follows
<1>6. CASE PushChild
  <2>1. PICK g \in todo : /\ seen' = seen \cup {g.page} /\ todo' = todo \ {g}
                          /\ disposed' = disposed \cup {g.page}
    BY <1>6 DEF PushChild
  <2>2. UNCHANGED <<site, cur, over, pc>> /\ pc = "spread"
    BY <1>6 DEF PushChild
  <2>3. QED
    BY <2>1, <2>2 DEF LinksInv, Follows
<1>7. CASE DropChild
  <2>1. PICK g \in over : /\ seen' = seen \cup {g.page} /\ over' = over \ {g}
                          /\ disposed' = disposed \cup {g.page}
    BY <1>7 DEF DropChild
  <2>2. UNCHANGED <<site, cur, todo, pc>> /\ pc = "spread"
    BY <1>7 DEF DropChild
  <2>3. QED
    BY <2>1, <2>2 DEF LinksInv, Follows
<1>8. CASE Finish \/ CallFails
  BY <1>2, <1>8 DEF Finish, CallFails, Idle, history
<1>9. CASE Kill
  BY <1>9 DEF Kill, Idle, LinksInv
<1>10. CASE AnswerLost
  BY <1>10 DEF AnswerLost, Idle, LinksInv
<1>11. QED
  BY <1>3, <1>4, <1>5, <1>6, <1>7, <1>8, <1>9, <1>10 DEF Next, Process, Spread

(* The links of a payload that is processed to the end all became jobs or  *)
(* dead letters, whatever failed before and however often.                 *)
THEOREM NoLinkLost == Spec => NoFollowUrlLost
<1>1. Init => LinksInv
  BY DEF Init, LinksInv
<1>2. LinksInv /\ [Next]_vars => [Finish => \A f \in Follows(cur) : f.page \in disposed]_vars
  BY DEF LinksInv, Finish
<1>3. QED
  BY <1>1, <1>2, LinksStep, TypeInvariant, PTL DEF Spec, NoFollowUrlLost

(***************************************************************************)
(* The events: a tracked version that was not announced is that of the     *)
(* payload in work, between its audit and its event, or its page was hurt. *)
(***************************************************************************)
OnItsWay(p) ==
  /\ pc \in {"record", "announce"} /\ cur.page = p /\ cur.version = tracker[p]
  /\ audited /\ change # "UNCHANGED"
Told(p) == [page |-> p, version |-> tracker[p]] \in announced \cup dropped
EventInv == \A p \in Pages : tracker[p] # None => Told(p) \/ p \in hurt \/ OnItsWay(p)

LEMMA EventStep == TypeInv /\ EventInv /\ [Next]_vars => EventInv'
<1> SUFFICES ASSUME TypeInv, EventInv, [Next]_vars, NEW p \in Pages, tracker'[p] # None
             PROVE  (Told(p) \/ p \in hurt \/ OnItsWay(p))'
  BY DEF EventInv
<1>1. TypeOK /\ (tracker[p] # None => Told(p) \/ p \in hurt \/ OnItsWay(p))
  BY DEF TypeInv, EventInv
<1>2. CASE Scraper \/ WindowExpires \/ UNCHANGED vars
  BY <1>1, <1>2 DEF Scraper, Scrape, ScrapeFails, WindowExpires, vars, stores, work,
                    history, Told, OnItsWay
<1>3. CASE Receive \/ Grant \/ GrantDegraded \/ PushChild \/ DropChild \/ Finish
  <2>1. UNCHANGED <<stores, hurt>> /\ ~OnItsWay(p)
    BY <1>3 DEF Receive, Take, Reject, Grant, GrantDegraded, PushChild, DropChild, Finish,
                history, OnItsWay
  <2>2. QED
    BY <1>1, <2>1 DEF Told, stores
<1>4. CASE Audit
  <2>1. /\ pc' = "record" /\ ~OnItsWay(p)
        /\ change' = Change(cur.page, cur.version)
        /\ UNCHANGED <<announced, dropped, hurt, cur>>
        /\ \/ tracker' = [tracker EXCEPT ![cur.page] = cur.version] /\ audited' = TRUE
           \/ UNCHANGED <<tracker, audited>>
    BY <1>4 DEF Audit, UpsertRecord, history, OnItsWay
  <2>2. CASE tracker'[p] = tracker[p]
    BY <1>1, <2>1, <2>2 DEF Told
  <2>3. CASE tracker'[p] # tracker[p]
    <3>1. tracker' = [tracker EXCEPT ![cur.page] = cur.version] /\ audited'
      BY <2>1, <2>3
    <3>2. p = cur.page /\ tracker'[p] = cur.version
      BY <1>1, <2>3, <3>1 DEF TypeOK
    <3>3. change' # "UNCHANGED"
      BY <2>1, <2>3, <3>2 DEF Change
    <3>4. QED
      BY <2>1, <3>1, <3>2, <3>3 DEF OnItsWay
  <2>4. QED
    BY <2>2, <2>3
<1>5. CASE Record
  BY <1>1, <1>5 DEF Record, stores, work, history, Told, OnItsWay
<1>6. CASE Announce
  <2>1. /\ UNCHANGED <<tracker, hurt>> /\ announced \cup dropped \subseteq announced' \cup dropped'
        /\ audited => [page |-> cur.page, version |-> cur.version] \in announced' \cup dropped'
    BY <1>6 DEF Announce, history
  <2>2. QED
    BY <1>1, <2>1 DEF Told, OnItsWay
<1>7. CASE CallFails \/ Kill \/ AnswerLost
  <2>1. UNCHANGED stores /\ hurt \subseteq hurt'
    BY <1>7 DEF CallFails, Kill, AnswerLost
  <2>2. OnItsWay(p) => p \in hurt'
    BY <1>1, <1>7 DEF CallFails, Kill, AnswerLost, OnItsWay, TypeOK
  <2>3. QED
    BY <1>1, <2>1, <2>2 DEF Told, stores
<1>8. QED
  BY <1>2, <1>3, <1>4, <1>5, <1>6, <1>7 DEF Next, Process, Spread

(* Every version the tracker learns is in an event that is pushed, onto    *)
(* the discovery stream or onto its dead-letter queue, before its page is  *)
(* done, unless the processing of that page was cut short once.            *)
THEOREM TrackedAnnounced == Spec => []TrackedIsAnnounced
<1>1. Init => EventInv
  BY SiteAssumption DEF Init, EventInv, Told
<1>2. TypeInv /\ EventInv => TrackedIsAnnounced
  <2> SUFFICES ASSUME TypeInv, EventInv, NEW p \in Pages, tracker[p] # None,
                      cur # None => cur.page # p
               PROVE  [page |-> p, version |-> tracker[p]] \in announced \cup dropped \/ p \in hurt
    BY DEF TrackedIsAnnounced
  <2>1. ~OnItsWay(p)
    BY DEF OnItsWay, TypeInv, TypeOK
  <2>2. QED
    BY <2>1 DEF EventInv, Told
<1>3. QED
  BY <1>1, <1>2, EventStep, TypeInvariant, PTL DEF Spec

(***************************************************************************)
(* Enqueued once: without a fault the seen pages are the disposed ones,    *)
(* and a link still granted or refused leads to an unseen page, unless the *)
(* payload lists that page twice.                                          *)
(***************************************************************************)
ListedTwice(f) == \E g \in Follows(cur) : g.page = f.page /\ g # f
OnceInv ==
  /\ pc = "spread" => todo \cup over \subseteq Follows(cur)
  /\ todo \cap over = {}
  /\ faults = 0 => /\ disposed \subseteq seen
                   /\ pc = "spread" => \A f \in todo \cup over : f.page \notin seen \/ ListedTwice(f)

LEMMA OnceStep == TypeInv /\ OnceInv /\ [Next]_vars => OnceInv'
<1> SUFFICES ASSUME TypeInv, OnceInv, [Next]_vars PROVE OnceInv'
  OBVIOUS
<1>1. TypeOK
  BY DEF TypeInv
<1>2. ASSUME UNCHANGED <<seen, disposed, faults>>, pc' # "spread", (todo \cap over)' = {}
      PROVE  OnceInv'
  BY <1>2 DEF OnceInv
<1>3. CASE Scraper \/ WindowExpires \/ UNCHANGED vars
  BY <1>3 DEF Scraper, Scrape, ScrapeFails, WindowExpires, vars, work, history, OnceInv,
              ListedTwice, Follows
<1>4. CASE Receive \/ Audit \/ Record \/ Announce \/ Finish \/ CallFails
  <2>1. CASE Receive \/ Audit \/ Record \/ Announce
    BY <1>1, <1>2, <2>1 DEF Receive, Take, Reject, Audit, Record, Announce, work, history,
                            TypeOK, OnceInv
  <2>2. CASE Finish \/ CallFails
    BY <1>2, <2>2 DEF Finish, CallFails, Idle, history
  <2>3. QED
    BY <1>4, <2>1, <2>2
<1>5. CASE Grant \/ GrantDegraded
  <2>1. \E n : Split(Fresh(cur), n)
    BY <1>5 DEF Grant, GrantDegraded
  <2>2. todo' \cup over' = Fresh(cur) /\ (todo \cap over)' = {}
    BY <2>1 DEF Split
  <2>3. UNCHANGED <<site, cur, seen, disposed, faults>>
    BY <1>5 DEF Grant, GrantDegraded, history
  <2>4. QED
    BY <2>2, <2>3 DEF OnceInv, Fresh, Follows, ListedTwice
<1>6. ASSUME NEW g \in todo \cup over, pc = "spread", UNCHANGED <<site, cur, pc, faults>>,
             seen' = seen \cup {g.page}, disposed' = disposed \cup {g.page},
             (todo \cup over)' = (todo \cup over) \ {g}, (todo \cap over)' = {}
      PROVE  OnceInv'
  <2>1. Follows(cur)' = Follows(cur)
    BY <1>6 DEF Follows
  <2>2. ASSUME NEW f \in (todo \cup over)', faults = 0 PROVE f.page \notin seen' \/ ListedTwice(f)
    <3>1. /\ f \in todo \cup over /\ f # g /\ g \in Follows(cur)
          /\ f.page \notin seen \/ ListedTwice(f)
      BY <1>6, <2>2 DEF OnceInv
    <3>2. CASE f.page = g.page
      BY <3>1, <3>2 DEF ListedTwice
    <3>3. CASE f.page # g.page
      BY <1>6, <3>1, <3>3
    <3>4. QED
      BY <3>2, <3>3
  <2>3. QED
    BY <1>6, <2>1, <2>2 DEF OnceInv, ListedTwice
<1>7. CASE PushChild
  <2>1. PICK g \in todo : /\ seen' = seen \cup {g.page} /\ todo' = todo \ {g}
                          /\ disposed' = disposed \cup {g.page}
    BY <1>7 DEF PushChild
  <2>2. UNCHANGED <<site, cur, over, pc, faults>> /\ pc = "spread"
    BY <1>7 DEF PushChild
  <2>3. (todo \cup over)' = (todo \cup over) \ {g} /\ (todo \cap over)' = {}
    BY <2>1, <2>2 DEF OnceInv
  <2>4. QED
    BY <1>6, <2>1, <2>2, <2>3
<1>8. CASE DropChild
  <2>1. PICK g \in over : /\ seen' = seen \cup {g.page} /\ over' = over \ {g}
                          /\ disposed' = disposed \cup {g.page}
    BY <1>8 DEF DropChild
  <2>2. UNCHANGED <<site, cur, todo, pc, faults>> /\ pc = "spread"
    BY <1>8 DEF DropChild
  <2>3. (todo \cup over)' = (todo \cup over) \ {g} /\ (todo \cap over)' = {}
    BY <2>1, <2>2 DEF OnceInv
  <2>4. QED
    BY <1>6, <2>1, <2>2, <2>3
<1>9. CASE Kill \/ AnswerLost
  <2>1. faults' = faults + 1 /\ faults \in Nat /\ pc' = "idle" /\ todo' = {}
    BY <1>1, <1>9 DEF Kill, AnswerLost, Idle, TypeOK
  <2>2. faults' # 0
    BY <2>1
  <2>3. QED
    BY <2>1, <2>2 DEF OnceInv
<1>10. QED
  BY <1>3, <1>4, <1>5, <1>7, <1>8, <1>9 DEF Next, Process, Spread

(* A page is enqueued again only if the page in work lists it as its next  *)
(* page and as an ordinary link, or the processor was restarted or missed  *)
(* an answer.                                                              *)
THEOREM EnqueuedOnce == Spec => EnqueuedAgainOnlyIfListedTwice
<1> DEFINE Again(j) == jobs'[j] > jobs[j] /\ j.page \in disposed
           Once == \A j \in Job : Again(j) => faults > 0 \/ \E f \in Follows(cur) : f.page = j.page /\ f # j
<1>1. Init => OnceInv
  BY DEF Init, OnceInv
<1>2. TypeInv /\ OnceInv /\ [Next]_vars => [Once]_vars
  <2> SUFFICES ASSUME TypeInv, OnceInv, [Next]_vars, NEW j \in Job, Again(j)
               PROVE  faults > 0 \/ ListedTwice(j)
    BY DEF ListedTwice
  <2>1. TypeOK /\ jobs[j] \in Nat /\ faults \in Nat
    BY DEF TypeInv, TypeOK
  <2>2. PushChild \/ AnswerLost
    <3>1. ASSUME NEW i \in Job, jobs' = Remove(jobs, i) PROVE FALSE
      BY <2>1, <3>1 DEF Remove, TypeOK
    <3>2. ASSUME UNCHANGED jobs PROVE FALSE
      BY <2>1, <3>2
    <3>3. QED
      BY <3>1, <3>2 DEF Next, Scraper, Scrape, ScrapeFails, Process, Receive, Take, Reject, Spread,
            Audit, Record, Announce, Grant, GrantDegraded, DropChild, Finish, CallFails, Kill,
            WindowExpires, vars, streams
  <2>3. PICK g \in todo : jobs' = Add(jobs, g)
    BY <2>2 DEF PushChild, AnswerLost
  <2>4. g = j
    <3>1. jobs' = [jobs EXCEPT ![g] = @ + 1]
      BY <2>3 DEF Add
    <3>2. g # j => jobs'[j] = jobs[j]
      BY <2>1, <3>1 DEF TypeOK
    <3>3. QED
      BY <2>1, <3>2
  <2>5. pc = "spread"
    BY <2>2 DEF PushChild, AnswerLost
  <2>6. QED
    <3>1. faults = 0 => j.page \in seen
      BY DEF OnceInv
    <3>2. faults = 0 => j.page \notin seen \/ ListedTwice(j)
      BY <2>3, <2>4, <2>5 DEF OnceInv
    <3>3. QED
      BY <2>1, <3>1, <3>2
<1>3. QED
  BY <1>1, <1>2, OnceStep, TypeInvariant, PTL DEF Spec, EnqueuedAgainOnlyIfListedTwice
=============================================================================
