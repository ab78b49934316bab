----------------------------- MODULE Processor -----------------------------
(***************************************************************************)
(* One crawl tree: the scrapers turn its jobs into raw payloads, and the   *)
(* processor (worker_processor.py) extracts, audits, records, announces    *)
(* and fans out into child jobs, which the scrapers take up again.         *)
(*                                                                         *)
(* Every action of the processor is one awaited call of process_payload;   *)
(* each of them may raise at any time, upon which the stream queue         *)
(* delivers the payload again, from the start, up to max_retries times.    *)
(* The compose file runs one processor, and its loop handles one payload   *)
(* at a time.  Valkey may be above its hard memory limit at any push: the  *)
(* message is dead-lettered then and the caller is not told.               *)
(*                                                                         *)
(* A page yields at most one record: no extractor sets canonical_url, all  *)
(* records of a page have its URL as source_url, and Deduplicator keeps    *)
(* one record per URL.  A version stands for the record's identity_hash.   *)
(***************************************************************************)
EXTENDS Integers, FiniteSets

CONSTANTS
  Pages,       \* the URLs of the site
  Root,        \* the page of the submitted job
  Sites,       \* the links and contents the site may have
  Versions,    \* the contents a page may show
  None,        \* "no next page", "no record", "no payload"
  Known,       \* what the tracker may hold from earlier crawls
  MaxDepth,    \* max_depth of the job
  MaxFanout,   \* MAX_RECURSIVE_FANOUT: 200 in the code
  Degraded,    \* FANOUT_DEGRADED_LIMIT: 10 in the code
  MaxRetries,  \* max_retries of consume(): 3 in the code
  MaxFaults    \* bound: restarts of the processor and answers of Valkey that are lost

Depths   == 0 .. MaxDepth
Job      == [page : Pages, depth : Depths]
Payload  == [page : Pages, depth : Depths, version : Versions \cup {None}, retry : 0 .. MaxRetries - 1]

ASSUME SiteAssumption ==
  /\ IsFiniteSet(Pages) /\ Root \in Pages
  /\ Sites \subseteq [Pages -> [next : Pages \cup {None}, links : SUBSET Pages, shows : SUBSET (Versions \cup {None})]]
  /\ Known \subseteq [Pages -> Versions \cup {None}]
  /\ None \notin Pages \cup Versions \cup Payload
ASSUME BoundsAssumption ==
  /\ MaxDepth \in Nat /\ MaxFanout \in Nat /\ Degraded \in Nat
  /\ MaxRetries \in Nat \ {0} /\ MaxFaults \in Nat

VARIABLES
  site,       \* the links and contents of the pages
  jobs,       \* jobs_stream: how many jobs of each kind wait
  raw,        \* raw_data_stream: how many payloads of each kind wait
  tracker,    \* intel_records: the version known of each page
  announced,  \* discovery_stream: the [page, version] of the events pushed
  dropped,    \* its dead-letter queue: those of the events dropped for want of memory
  budget,     \* the key fanout:<root>: children granted in this window
  seen,       \* _seen_urls[root], in the processor's memory
  pc,         \* what the processor awaits next
  cur,        \* the payload it processes
  change,     \* change_type of its record; "none" without a record
  audited,    \* is the record among audited_records?
  todo,       \* follow links granted and not pushed yet
  over,       \* follow links beyond the grant, not dead-lettered yet
  disposed,   \* history: pages pushed to jobs_stream or dead-lettered with FANOUT_CAP_EXCEEDED
  hurt,       \* history: pages whose processing was cut short once
  counted,    \* history: was todo granted in this window, by the script?
  inWindow,   \* history: children pushed under such grants in this window
  faults      \* history: restarts and lost answers so far

streams == <<jobs, raw>>
stores  == <<tracker, announced, dropped>>
work    == <<cur, change, audited, todo, over>>
fanout  == <<budget, counted, inWindow>>
history == <<disposed, hurt, faults>>
vars == <<site, streams, stores, seen, pc, work, fanout, history>>

Init ==
  /\ site \in Sites
  /\ jobs = [j \in Job |-> IF j = [page |-> Root, depth |-> 0] THEN 1 ELSE 0]
  /\ raw = [m \in Payload |-> 0]
  /\ tracker \in Known
  /\ announced = {[page |-> p, version |-> tracker[p]] : p \in {q \in Pages : tracker[q] # None}}
  /\ dropped = {} /\ seen = {} /\ pc = "idle"
  /\ cur = None /\ change = "none" /\ audited = FALSE /\ todo = {} /\ over = {}
  /\ budget = 0 /\ counted = FALSE /\ inWindow = 0
  /\ disposed = {} /\ hurt = {} /\ faults = 0

Add(stream, m)    == [stream EXCEPT ![m] = @ + 1]
Remove(stream, m) == [stream EXCEPT ![m] = @ - 1]

-----------------------------------------------------------------------------
(* The scrapers: a job yields one payload, or it or its payload is         *)
(* dead-lettered.                                                          *)

Scrape(j) ==
  /\ jobs[j] > 0
  /\ jobs' = Remove(jobs, j)
  /\ \E v \in site[j.page].shows :
       raw' = Add(raw, [page |-> j.page, depth |-> j.depth, version |-> v, retry |-> 0])
  /\ UNCHANGED <<site, stores, seen, pc, work, fanout, history>>

ScrapeFails(j) ==
  /\ jobs[j] > 0
  /\ jobs' = Remove(jobs, j)
  /\ UNCHANGED <<site, raw, stores, seen, pc, work, fanout, history>>

-----------------------------------------------------------------------------
(* The links of a page: _discover_follow_urls.                             *)

\* The next page keeps the depth; the other links are one level deeper.
Follows(m) ==
  {[page |-> p, depth |-> m.depth] : p \in {site[m.page].next} \ {None}} \cup
  {[page |-> p, depth |-> m.depth + 1] : p \in IF m.depth < MaxDepth THEN site[m.page].links ELSE {}}

Fresh(m) == {f \in Follows(m) : f.page \notin seen}

-----------------------------------------------------------------------------
(* process_payload.                                                        *)

Idle ==
  /\ pc' = "idle" /\ cur' = None /\ change' = "none" /\ audited' = FALSE
  /\ todo' = {} /\ over' = {}

\* The extractors find a record, or none.
Take(m) ==
  /\ pc = "idle" /\ raw[m] > 0
  /\ raw' = Remove(raw, m)
  /\ cur' = m
  /\ pc' = IF m.version = None THEN "fanout" ELSE "audit"
  /\ UNCHANGED <<site, jobs, stores, seen, change, audited, todo, over, fanout, history>>

\* A status of 400 or above, or an extractor that raised: acknowledged without an effect.
Reject(m) ==
  /\ pc = "idle" /\ raw[m] > 0
  /\ raw' = Remove(raw, m)
  /\ UNCHANGED <<site, jobs, stores, seen, pc, work, fanout, history>>

\* run_state_audit: the change of a record against the tracked state.
Change(page, version) ==
  IF tracker[page] = None THEN "NEW"
  ELSE IF tracker[page] # version THEN "UPDATED" ELSE "UNCHANGED"

\* upsert_record: one row per page, overwritten whole.
UpsertRecord(page, version) == tracker' = [tracker EXCEPT ![page] = version]

\* A failing upsert is logged: the record counts, but is not among the audited ones.
Audit ==
  /\ pc = "audit"
  /\ change' = Change(cur.page, cur.version)
  /\ \/ UpsertRecord(cur.page, cur.version) /\ audited' = TRUE
     \/ UNCHANGED <<tracker, audited>>
  /\ pc' = "record"
  /\ UNCHANGED <<site, streams, announced, dropped, seen, cur, todo, over, fanout, history>>

\* Mutant of Record: only new records are announced.
RecordNewOnly ==
  /\ pc = "record"
  /\ pc' = IF change = "NEW" THEN "announce" ELSE "fanout"
  /\ UNCHANGED <<site, streams, stores, seen, work, fanout, history>>

Record ==
  /\ pc = "record"
  /\ pc' = IF change = "UNCHANGED" THEN "fanout" ELSE "announce"
  /\ UNCHANGED <<site, streams, stores, seen, work, fanout, history>>

\* The event carries the audited records; without any it is pushed all the same.
\* push adds it to the stream, dead-letters it, or, when counting the drop fails, both.
Announce ==
  /\ pc = "announce"
  /\ LET event == IF audited THEN {[page |-> cur.page, version |-> cur.version]} ELSE {}
     IN \/ announced' = announced \cup event /\ dropped' \in {dropped, dropped \cup event}
        \/ dropped' = dropped \cup event /\ UNCHANGED announced
  /\ pc' = "fanout"
  /\ UNCHANGED <<site, streams, tracker, seen, work, fanout, history>>

-----------------------------------------------------------------------------
(* The fan-out.                                                            *)

Smaller(a, b) == IF a <= b THEN a ELSE b
Larger(a, b)  == IF a >= b THEN a ELSE b

\* fresh_follows[:allowed] and the rest; the order of the links is the page's.
Split(fresh, allowed) ==
  /\ todo' \in {S \in SUBSET fresh : Cardinality(S) = allowed}
  /\ over' = fresh \ todo'
  /\ pc' = "spread"

\* Mutant of Grant: the URLs are marked before they are pushed.
GrantMarksSeen ==
  /\ pc = "fanout"
  /\ LET fresh   == Fresh(cur)
         allowed == Smaller(Cardinality(fresh), Larger(0, MaxFanout - budget))
     IN  /\ Split(fresh, allowed)
         /\ budget' = budget + allowed
         /\ seen' = seen \cup {f.page : f \in fresh}
  /\ counted' = TRUE
  /\ UNCHANGED <<site, streams, stores, cur, change, audited, inWindow, history>>

\* Mutant of Grant: the script reads the counter and does not add to it.
GrantUncharged ==
  /\ pc = "fanout"
  /\ LET fresh   == Fresh(cur)
         allowed == Smaller(Cardinality(fresh), Larger(0, MaxFanout - budget))
     IN  Split(fresh, allowed)
  /\ counted' = TRUE
  /\ UNCHANGED <<site, streams, stores, seen, cur, change, audited, budget, inWindow, history>>

\* get_allowed_fanout: the script reads and charges the budget atomically.
Grant ==
  /\ pc = "fanout"
  /\ LET fresh   == Fresh(cur)
         allowed == Smaller(Cardinality(fresh), Larger(0, MaxFanout - budget))
     IN  /\ Split(fresh, allowed)
         /\ budget' = budget + allowed
  /\ counted' = TRUE
  /\ UNCHANGED <<site, streams, stores, seen, cur, change, audited, inWindow, history>>

\* The call fails, before or after the script ran: the degraded limit.
GrantDegraded ==
  /\ pc = "fanout"
  /\ LET fresh   == Fresh(cur)
         allowed == Smaller(Cardinality(fresh), Larger(0, MaxFanout - budget))
     IN  /\ Split(fresh, Smaller(Cardinality(fresh), Degraded))
         /\ budget' \in {budget, budget + allowed}
  /\ counted' = FALSE
  /\ UNCHANGED <<site, streams, stores, seen, cur, change, audited, inWindow, history>>

\* Mutant of PushChild: the URL is not marked after its push.
PushUnmarked ==
  /\ pc = "spread"
  /\ \E f \in todo :
       /\ jobs' = Add(jobs, f)
       /\ todo' = todo \ {f}
       /\ disposed' = disposed \cup {f.page}
  /\ inWindow' = IF counted THEN inWindow + 1 ELSE inWindow
  /\ UNCHANGED <<site, raw, stores, seen, pc, cur, change, audited, over,
                 budget, counted, hurt, faults>>

\* At Valkey's hard memory limit the push is a dead letter: as if its scrape failed.
PushChild ==
  /\ pc = "spread"
  /\ \E f \in todo :
       /\ jobs' = Add(jobs, f)
       /\ seen' = seen \cup {f.page}
       /\ todo' = todo \ {f}
       /\ disposed' = disposed \cup {f.page}
  /\ inWindow' = IF counted THEN inWindow + 1 ELSE inWindow
  /\ UNCHANGED <<site, raw, stores, pc, cur, change, audited, over,
                 budget, counted, hurt, faults>>

DropChild ==
  /\ pc = "spread" /\ todo = {}
  /\ \E f \in over :
       /\ seen' = seen \cup {f.page}
       /\ over' = over \ {f}
       /\ disposed' = disposed \cup {f.page}
  /\ UNCHANGED <<site, streams, stores, pc, cur, change, audited, todo, fanout,
                 hurt, faults>>

\* update_job_record_count, and the callback returns True.
Finish ==
  /\ pc = "spread" /\ todo = {} /\ over = {}
  /\ Idle
  /\ UNCHANGED <<site, streams, stores, seen, fanout, history>>

-----------------------------------------------------------------------------
(* Failures.                                                               *)

\* The stream queue delivers the payload again; it dead-letters it when the budget is used
\* up, or for want of memory.
Redeliver ==
  \/ cur.retry + 1 < MaxRetries /\ raw' = Add(raw, [cur EXCEPT !.retry = @ + 1])
  \/ UNCHANGED raw

\* A call raises, and process_stream_message returns False.
CallFails ==
  /\ pc \in {"audit", "record", "announce", "spread"}
  /\ pc = "spread" => todo \cup over # {} \/ change # "none"
  /\ Redeliver
  /\ hurt' = hurt \cup {cur.page}
  /\ Idle
  /\ UNCHANGED <<site, jobs, stores, seen, fanout, disposed, faults>>

\* A push arrives and raises all the same, its answer being lost: the URL is not marked.
AnswerLost ==
  /\ pc = "spread" /\ faults < MaxFaults
  /\ faults' = faults + 1
  /\ \E f \in todo :
       /\ jobs' = Add(jobs, f)
       /\ disposed' = disposed \cup {f.page}
  /\ inWindow' = IF counted THEN inWindow + 1 ELSE inWindow
  /\ Redeliver
  /\ hurt' = hurt \cup {cur.page}
  /\ Idle
  /\ UNCHANGED <<site, stores, seen, budget, counted>>

\* A restart forgets the seen URLs, and the payload in work: its dedup key stays behind (StreamQueue).
Kill ==
  /\ faults < MaxFaults
  /\ faults' = faults + 1
  /\ seen' = {}
  /\ hurt' = IF cur = None THEN hurt ELSE hurt \cup {cur.page}
  /\ Idle
  /\ UNCHANGED <<site, streams, stores, fanout, disposed>>

\* The key fanout:<root> reaches its TTL of one hour.
WindowExpires ==
  /\ budget > 0
  /\ budget' = 0 /\ counted' = FALSE /\ inWindow' = 0
  /\ UNCHANGED <<site, streams, stores, seen, pc, work, history>>

-----------------------------------------------------------------------------
Scraper   == \E j \in Job : Scrape(j) \/ ScrapeFails(j)
Receive   == \E m \in Payload : Take(m) \/ Reject(m)
Spread    == PushChild \/ DropChild \/ Finish
Process   == Receive \/ Audit \/ Record \/ Announce \/ Grant \/ GrantDegraded \/ Spread \/ CallFails
             \/ AnswerLost

Next == Scraper \/ Process \/ Kill \/ WindowExpires

Spec == Init /\ [][Next]_vars

(* The scrapers and the processor carry on while there is something to do. *)
FairSpec == Spec /\ WF_vars(Scraper) /\ WF_vars(Process)

-----------------------------------------------------------------------------
TypeOK ==
  /\ site \in Sites
  /\ jobs \in [Job -> Nat] /\ raw \in [Payload -> Nat]
  /\ tracker \in [Pages -> Versions \cup {None}]
  /\ announced \subseteq [page : Pages, version : Versions]
  /\ dropped \subseteq [page : Pages, version : Versions]
  /\ seen \subseteq Pages
  /\ pc \in {"idle", "audit", "record", "announce", "fanout", "spread"}
  /\ cur \in Payload \cup {None} /\ (pc = "idle") = (cur = None)
  /\ change \in {"none", "NEW", "UPDATED", "UNCHANGED"} /\ audited \in BOOLEAN
  /\ todo \subseteq Job /\ over \subseteq Job
  /\ (pc # "spread") => todo \cup over = {}
  /\ budget \in Nat /\ counted \in BOOLEAN /\ inWindow \in Nat
  /\ disposed \subseteq Pages
  /\ hurt \subseteq Pages /\ faults \in Nat

(* A link of a page that was processed to the end became a job or a dead   *)
(* letter of the tree, whichever calls failed in between and however often *)
(* the page was delivered: no URL counts as seen that nobody disposed of.  *)
NoFollowUrlLost ==
  [][Finish => \A f \in Follows(cur) : f.page \in disposed]_vars

(* In one window of the budget no more than MaxFanout children are pushed  *)
(* under it, though parents are redelivered and ask again.                 *)
FanoutCapHolds == inWindow <= MaxFanout

(* A page that became a job or a dead letter is enqueued again in two      *)
(* cases only: the page that links it has it as its next page and as an    *)
(* ordinary link, or the processor was restarted or missed an answer.      *)
EnqueuedAgainOnlyIfListedTwice ==
  [][\A j \in Job : jobs'[j] > jobs[j] /\ j.page \in disposed =>
       faults > 0 \/ \E f \in Follows(cur) : f.page = j.page /\ f # j]_vars

(* The event of what the tracker knows is on the discovery stream, or on   *)
(* its dead-letter queue if Valkey was short of memory, unless the         *)
(* processing of that page was cut short once: every change that is        *)
(* audited leads to an event before the page is done.                      *)
TrackedIsAnnounced ==
  \A p \in Pages :
    tracker[p] # None /\ (cur # None => cur.page # p) =>
      [page |-> p, version |-> tracker[p]] \in announced \cup dropped \/ p \in hurt

(* The crawl comes to an end, though every call may fail, the window may   *)
(* be renewed for ever and pages may link in circles, by next-page links   *)
(* too, whose depth never grows: what stops those is that links are seen.  *)
CrawlEnds ==
  <>[](pc = "idle" /\ (\A j \in Job : jobs[j] = 0) /\ (\A m \in Payload : raw[m] = 0))
=============================================================================
