# Verification of the scraping pipeline

TLA+ modules that model the stateful core of this repository, TLC configurations
that check them on small instances, and TLAPS proofs of their main properties for
every value of the constants. Paths are relative to the repository root.

    tlc -workers 2 -config StreamQueue.cfg MCStreamQueue     # check one instance
    tlapm StreamQueue_proofs.tla                             # check one set of proofs

`PROJECT.json` lists the runs, the properties each checks, the mutation that breaks
each property, the source lines behind every definition, the hazards and the theorems.
Section 5 lists where the code and its documents differ.

## 1. The system

An API process (`main.py`) accepts jobs. Scraper replicas (`worker_scraper.py`, two in
`docker-compose.yml`) fetch pages, one processor (`worker_processor.py`) extracts
records and follows links, one reporter (`worker_reporter.py`) delivers what was
discovered. They communicate over Valkey streams and share a job database (SQLite or
Postgres). All containers restart always, so any of them may be killed between two
awaited calls. `cli.py` runs the place sweep, the key generator and other commands by
hand; `migrate_sqlite_to_postgres.py` moves the database.

    POST /jobs -> job row + outbox event (one transaction) -> jobs_stream <- OutboxRelay
    jobs_stream -> scraper -> raw_data_stream -> processor -> discovery_stream -> reporter
                                                    |
                                                    +-> child jobs, back onto jobs_stream

### Inventory

| Component | State | Operations | What is hard | What makes it correct |
|---|---|---|---|---|
| Stream queue (`stream_queue.py`) | stream, pending list, `dedup:<id>` keys, DLQ | push, consume, reclaim, retry, dead-letter | two consumers on one entry, a kill between `SET NX` and the outcome, stale retry copies, the memory limit | one callback at a time, one success, nothing lost, retry budget honoured |
| Job lifecycle (`job_repository.py`, `worker_scraper.py`, `reaper.py`, `main.py`) | `jobs`, `job_attempts` | state updates by compare-and-swap, attempts, heartbeat, cancel, delete, reap, purge | decisions on old reads, updates that give up, swallowed faults | decisions still hold when written, outcomes backed by messages, nothing RUNNING for ever |
| Transactional outbox (`main.py`, `outbox_relay.py`, `outbox_repository.py`) | `jobs`, `outbox_events`, one shared connection and its lock | submit, poll, deliver, mark, circuit breaker | a foreign commit in the middle of a transaction, push without mark, kill | job and event durable together, DELIVERED means pushed, every event resolved |
| Domain profile (`worker_scraper.py`, `adaptive_fetch.py`, `target_throttle.py`, `strategy_selector.py`, `strategy_evaluator.py`) | `domain_profiles` row, observations, turbo endpoints | turbo, HTTP and browser tiers, demotion, throttle, hourly evaluation | whole-row read-modify-write by several processes | what is learned is not lost, a domain settles on a tier |
| Processor (`worker_processor.py`, `post_processor.py`, `extraction_pipeline.py`, `get_allowed_fanout`) | seen URLs in memory, fan-out budget, tracker, children | extract, audit, record, announce, fan out | failure between two calls and the redelivery after it, circular links, a restart | no link lost or followed twice, the cap holds, events match the audit, the crawl ends |
| Reporter (`worker_reporter.py`) | none | export, deliver, nack on total failure | redelivery repeats the exports | every event leads to a delivery or a dead letter |
| Discovery (`worker_discovery.py`, `discovery_service.py`) | seen results of a request | search, canonicalise, dedup, one job per result | partial failure in the loop | one job per canonical URL |
| Browser pool, engine, sessions, rate limiter, robots, HTTP tier (`browser/`, `sessions.py`, `rate_limiter.py`, `robots.py`, `http_fetcher.py`) | Chromium and its contexts, captured bodies, sessions per domain and those on loan, semaphores | boot, wait for a slot, lease, fetch, crawl, capture, score, sweep, close, shut down | a path that does not give back, caps checked before an await, a dying browser, cancellation | every loan ends with its job, none is shared, buffers stay bounded |
| Overlays (`overlay_repository.py`, `extraction_pipeline.py`, `shadow_evaluator.py`, `slo_monitor.py`, `main.py`) | overlay rows and states | propose, promote, retire, roll back, apply | two writes for one promotion, rows read earlier, a redesign of the site | only approved overlays serve, two ACTIVE ones have a known cause, a selector that misses hides nothing |
| Authentication and quotas (`auth_middleware.py`) | key table, keys in memory, counters in Valkey and in memory | mint, validate, revoke, count | read and increment apart, fall-back counters, restarts | the daily limit, revocation |
| Language models (`ai/`, `cache.py`) | model table, breaker, semaphore, two-level cache | choose, ask, retry, cache | one request for a chain of models, a cache that processes with other models share | an answer is of the right page and of a model the process asked |
| Place sweep (`place_sweep.py`, `google_places.py`, `lead_export.py`) | listings, warnings, quota | search, subdivide, page, accumulate, report, export | full pages, failing calls, quota in the middle, two passes over one place | nothing missed silently, no number lost, no line called twice |
| Records and migration (`record_repository.py`, `postgres_record_repository.py`, `migrate_sqlite_to_postgres.py`, `verify_migration.py`) | rows in two databases | insert, page, migrate, verify, switch | equal stamps, re-runs after a failure, a source that changes | exact pages, no doubled row, a true report |
| Artifact store (`artifact_store.py`) | files | store | shared metadata files | not modelled |

Components that only parse, format or do I/O (site extractors, URL policy,
observability) are in section 7, each with its reason. `pipeline.py`,
`exploration_policy.py` and `synthesis_service.py` are constructed by no
process.

## 2. The modules

| Module | Role | Depends on |
|---|---|---|
| `StreamQueue` | one stream and its consumer group, one action per Valkey call | |
| `MessageDelivery` | abstract: what the queue promises the callbacks | implemented by `StreamQueue` |
| `JobLifecycle` | the job row and all its writers | takes its deliveries from what `StreamQueue` promises |
| `JobRecord` | abstract: who may write which state of a job, and why | implemented by `JobLifecycle` |
| `Outbox` | submission, unit of work, relay | |
| `Mailbox` | abstract: what the outbox promises whoever submits a job | implemented by `Outbox` |
| `DomainProfile` | the profile row and its writers | |
| `Processor` | one crawl tree through scrapers and processor | same promise of `StreamQueue` |
| `ScraperNode` | one scraper process: what jobs borrow and give back | job row and tiers are in `JobLifecycle`, `DomainProfile` |
| `Extraction` | the stage chain of a page and the deduplicator, as operators | |
| `Overlays` | the overlays of a domain, their writers and the pages they are applied to | `Extraction` |
| `PlaceSweep` | `cli.py places`, one action per API call | |
| `Gateway` | API keys and daily quotas over several API processes | |
| `LlmModels` | the table of models and the request built from it | |
| `LlmProvider` | the provider of a process and the cache all share | `LlmModels` |
| `Migration` | the migration tool, run repeatedly, and the switch of the backend | |
| `Records` | the records of a job in two databases and a client that pages | |
| `Cutover` | both together: the switch happens under the client | `Migration`, `Records` |
| `MC*` | instances for TLC | |
| `StreamQueue_proofs`, `JobLifecycle_proofs`, `Outbox_proofs`, `Processor_proofs`, `ScraperNode_proofs` | theorems about the module of that name | |
| `Domain_proofs` | theorems about what is kept of a domain | `DomainProfile`, `Overlays` |
| `SharedStore_proofs` | theorems about the processes that share a store in Valkey | `Gateway`, `LlmProvider` |
| `CommandLine_proofs` | theorems about what an operator runs by hand | `Cutover`, `PlaceSweep` |

No module declares a RECURSIVE operator, so all of them can be proved about. The
mutated operators that show what breaks each property stand beside the operators they
mutate.

### StreamQueue and MessageDelivery

An entry is `[id, mid, retry]`; payloads are left out. `pc[c]` names the call consumer
`c` awaits in `_process_entry`: `dedup` (SET NX), `callback`, `release` (DEL),
`requeue` (re-push or DLQ), `ack` (XACK); `phase` alternates between `Read`
(XREADGROUP) and `Claim` (XPENDING and XCLAIM of idle entries). `Cut` is a kill or an
exception at any of them: what the handler holds in memory is gone, what it wrote
stays. `BecomeIdle` is the 60 s of a pending entry, `ExpireKey` the 24 h of a key.
Above the hard memory limit (`Saturation`) a push dead-letters instead, and when the
metric after that raises it may do both.

`MessageDelivery` has neither stream nor keys: per message a callback begins, succeeds
or fails, never two at once, none after a success within the window, and burial only
after `MaxRetries` failures. `Delivery` is the refinement mapping (running callbacks,
successes, failures, exhausted dead letters).

`LostOnlyIfCutShort`: a worker killed during its callback leaves the key, and the
reclaimed entry is acknowledged as a duplicate; there is no other way to lose a message.
A stale copy of an entry waiting in a batch can also make a callback fail more often than
`max_retries`; no property states that.

### JobLifecycle

The row columns that decide something (`state`, `version`, heartbeat, `deleted_at`,
attempts), each worker's position in `_process_job`, each API request between its
read and its write, the reaper's list and the purge's list. `Matches` and
`UpdateJobState` are the compare-and-swap on `version`; `ReadVersion`/`WriteState` the
two rounds of `_update_job_state`, which re-reads the version and writes its target
regardless of the state. Faults are of three kinds, as in the code: swallowed,
raised to the queue, and kills. The fetch itself is one choice of outcome.
Above the hard memory limit (`Saturation`) `push` dead-letters and returns "", and no caller
looks (`Pushed`): the payload of a SUCCEEDED job is then only on the dead-letter queue of
`raw_data_stream` (`dropped`), and a retry ends on that of `jobs_stream`. A job whose first
message was dropped like that is never delivered and stays QUEUED; the model starts with the
jobs whose message was added.

`JobRecord` has no versions, snapshots or worker positions: whoever works on a job may set it
RUNNING whatever it was, and to an outcome whose message is out or, a payload, dead-lettered; he gives it back only by a
fault and within the budget, and otherwise leaves it not RUNNING; a cancellation, deletion or
reaping looks at the state it replaces; only rows once deleted are purged. What it does not
promise is as telling: a cancelled job may run and succeed, and a deleted one that a worker
set RUNNING is purged under him. The budget counts one copy of a message at a time, so
the additional callbacks of a stale copy are outside it.

### Outbox

All writers share one connection, so `CommitAll` commits whatever is pending; `lock` is
`_write_lock`. A submission runs Begin, CreateJob, CreateEvent, Commit, PushJob; the
relay runs Poll, PushEvent, MarkDelivered, with attempts, MarkFailed, the pause of 10 s
(`resting`) and the circuit breaker (`errors`, `paused`). `WriterCommits` is any other
commit. `Kill` drops everything that is not committed.

`Mailbox` says what is left of this without connection, lock, relay and breaker: a submission
puts job and event on record in one step, only then is anything sent about the job, and the
event is settled once, delivered after it was sent or given up after its budget of failed
deliveries. A message counts as sent when `push` returns, dead-lettered above the memory
limit or not, because that is all its caller learns.

### DomainProfile

One row (`tier`, `delay`) that each job reads at its start and writes back as a whole
object after its fetch, and that `StrategySelector` rewrites hourly from the
observations. Left out because nothing live writes it: `blocked=True` observations
(so `block_rate` is 0) and extraction strategies. `Score` needs `MinTotal`
observations, `MinEvidence` per tier; observations are counted up to these limits.
`site` is fixed per behaviour: it answers plain HTTP sometimes or never.

### Processor

One crawl tree. `jobs` and `raw` count the messages of each kind on the two streams;
`pc` names the call `process_payload` awaits: `audit` (`run_state_audit`), `record`
(`create_record`), `announce` (push of the `DiscoveryEvent`), `fanout`
(`get_allowed_fanout`) and `spread` (pushes of children and dead letters). `CallFails`
is any of these raising: the payload is delivered again, from the start.
`AnswerLost` is a push that arrived and raised, `Kill` a restart, which forgets
`_seen_urls` and, as `StreamQueue` shows, the payload. `Grant` is the Lua script,
`GrantDegraded` its failure before or after it ran. The links and contents of the
site are data (`Sites`), with a record's content reduced to a version.

One record per page is a premise taken from the code: no extractor sets
`canonical_url`, every record has the page's URL as `source_url`, and
`deduplicator.py:38` keeps one per URL. The records table and the job's record count
are left out: the children's id `rec_<id>` has no job row, and nothing reads them back.

The tracker is written before the event is pushed; when a call in between raises, the
redelivered payload audits as UNCHANGED and no event is ever pushed. `TrackedIsAnnounced`
says that a call cut short is needed for that. A push above the hard memory limit is a dead
letter its caller does not hear of: a dropped event goes to `dropped`, a dropped child is a job
whose scrape fails, a dropped payload or retry is gone from its stream.

### ScraperNode

`process_job` as a walk from loan to loan: `pc` is `wait` (slot of the domain), `begin`
(robots, replay), `tier1`, `tier2`, `parse` (the proxy URL), `start` and `crawl` (the
browser), `tail` (publish, store, record), `fault` (the last handler), `close`, `leave`.
The session pool is complete: lease of the healthiest, round robin of proxies, score,
retirement, sweep. `stranded` notes the leases that no code gives back, because the call
raises between the lease and the `try` block: a proxy without a numeric port, or a host
name that cannot be encoded. `Crash` is Chromium dying, `Stop` a cancellation at any await,
which passes every `except Exception`. The consumer runs one job at a time today; the model
lets jobs overlap, as pool and limiter promise to serve. In `Capture` the count of captured
bodies may pass its cap by the bodies in flight; the total in bytes may not
(`BufferWithinBytes`).

### Extraction and Overlays

A page is what the stages tell apart: its layout, its containers and what each stage
would read. An overlay maps fields to the layout its selectors were captured on. A selector that
is no CSS raises where it is evaluated (`Raises`): the containers of an override, all selectors of an
overlay; the mappings of an override are guarded and count as misses. What a stage raises fails the
page (`Fails`). Such selectors come from jobs and from the pipeline itself, which joins a tag and the
class names of the page as they are (`Captured`). The deduplicator
keeps a record unless one kept before it has its URL or title. `Overlays`
has one action per repository call that writes, with the reads before it; `CallDies` ends a
caller between two of them. `ShadowOverlayEvaluator` and `AutoRollback` are library code no
process constructs; they are in the model as callers like the endpoint. `left` remembers why two
overlays are ACTIVE together, for as long as both are: a promotion killed between its writes
("cut short"), or a call that activated the one and was not going to retire the other
("stranger").

### PlaceSweep

A call is answered with at most `PageCap` places, fails, or is refused for the quota; an
answer may omit fields. A region is the set of spots in a circle and `Grid` the smaller
circles that cover it. The accumulator, the verdicts with every flag of the command line, the
report and `dedupe_by_phone` follow the code in order.

### Gateway

A step is the code between two awaits of a request: validation (table, or memory when the
table raises), the read of the counter, its increment, minting. `linked` falls to FALSE at
the first failing call, for the rest of the process's life, and a counter in memory takes
over. `alone` collects the lives that counted alone, `admitted` the requests let through.
The demo key of development and `expires_at`, which no caller sets, are left out.

### LlmModels and LlmProvider

Of the table of models there is who is asked for which job and who may answer in its place;
what a request says of temperature, format and reasoning is left out. `Payload` is
`_build_payload`: one request for a whole chain. An operator may name a model per job
(`override`) or one for all (`pin`), an id of the table or not. The provider has its breaker,
semaphore, retries and two cache levels. Of the operations of the provider, production
calls `generate_overlay` only; the empty overlay `{}` a broken answer yields is cached like
any other. `Writers` is whose overlays a process may be handed: those it lets answer, and for a
process pinned to the model the job has anyway those of the whole chain (section 5).

### Migration, Records and Cutover

`Migration` runs the tool table by table and row by row: opportunities in transactions of a
batch, runs and dead letters in one each, a profile in two committed statements. `todo` are the
rows read and not yet written, `open` the table as the open transaction sees it. Statements are
refused (`Refuse`, `ProfileFails`), the process is killed, the source goes on changing, and the
run is repeated. What a row's id is made of (`Ident`) does not change in between; the count and
the rows of a table are read as one. `Records` has the rows of one job in both databases: SQLite
stamps seconds, Postgres the start of the statement, and a row shows up at the COMMIT or when the
statement ends. The client
reads page after page behind a (created_at, record_id) cursor. In `Cutover` the operator
switches the backend under it.

What the model also shows, and no property forbids: the current code creates neither
`opportunities` nor `runs`, so a full run over its database raises before the profiles;
the checks of `verify_migration.py` other than `content_hash` cannot fail and never compare
with the source; a profile error does not fail the exit code, and "inserted" profiles count
overwrites (so `ReportIsTrue` leaves profiles out); a re-run overwrites what was learned on Postgres since; jobs, records, overlays
and the outbox are not carried, so the API answers 404 for old jobs after the switch.

## 3. The runs

| Run | Instance | Shows |
|---|---|---|
| `stream_queue` | 1 message pushed twice, 2 consumers, batches of 2, 1 cut, memory limit | no early dead letter, loss only when cut, refinement of `MessageDelivery` (one callback at a time, one success) |
| `stream_queue_live` | 2 messages (1 malformed), 2 consumers, 1 cut, 1 expired key | every message is resolved |
| `job_lifecycle` | 1 job, 1 worker, 1 cancel, 1 delete, reaper, purge, 2 faults, 2 deliveries, memory limit | decisions hold when written, outcomes are backed, refinement of `JobRecord` (who writes which state and why), RUNNING ends |
| `outbox` | 2 submissions, batch 1, 2 x 2 attempts, breaker at 2, 4 faults, 1 kill | job and event together, given up late, refinement of `Mailbox` (a record before a message, one settlement), every event resolved |
| `domain_profile` | 2 scrapers and the selector, delays 0..1, 1 fault | misses of known endpoints, learning lost to stale copies only, a lasting demotion |
| `processor` | 2 pages on 3 sites: a circle of next-page links; one with the second page listed twice and the first changed; one with a link back and the second page new or without a record; cap 1, 2 deliveries, 1 fault | the cap, no lost link, tracked means announced or dead-lettered, the crawl ends |
| `scraper_node` | 2 jobs of a domain, 1 slot, 2 proxies (one odd), 3 sessions, 3 starts, sweep at every 2nd release, bodies of 1 and 2 against a total of 2 | loans are sound and end, the buffer is bounded |
| `overlays` | 3 overlays, 2 callers, 3 pages, 1 redesign | only approved overlays serve, two ACTIVE ones have a known cause, a selector that misses hides nothing |
| `place_sweep` | 3 places, 2 overlapping areas, pages of 1, 2 text pages, 1 subdivision | no silent miss, contacts kept, each line called once |
| `gateway` | 2 processes, 2 requests in flight, 1 key, 1 address, limits of 1, 2 days, 2 starts | the quota up to overlap and lone lives, revocation up to the memory of the minting process |
| `llm_provider` | 5 processes (the table's models, an operator's for overlays, a pin to the table's first, a local one, one without a key), 2 calls, 2 pages, breaker at 1 and open or counting in one process at a time, 1 slot, 1 entry, 2 attempts | overlays of the right page and model |
| `cutover` | 3 opportunities in batches of 2, 1 run, 1 dead letter, 1 domain, 2 executions, 1 fault, 1 write to the source; 2 records, pages of 1 or 2, clock 0..1 | re-runs resume, reports are true, pages are exact |

The type invariants of `Overlays`, `ScraperNode`, `Gateway`, `LlmProvider` and `Cutover` are
checked in their runs and proved; those of the other six are proved and not run. So are `OneCallbackAtATime`, `AtMostOneSuccess`, `NotLeftRunning`,
`NoMessageWithoutJob`, `DeliveredWasSent` and `EnqueuedAgainOnlyIfListedTwice`.

Why the bounds are enough. Two consumers and a message with two copies are what every
race on a key needs: a third consumer can only repeat the part of the second. Batches of 2
let an entry wait in memory while another consumer takes it. One job row is enough because
no writer decides about a row by reading another; two submissions are needed because a commit can
carry another submission's statements. Two faults give a fault in the handling of a
fault. Retry budgets of 2 have a first, a last and an over-budget delivery. Two pages
in a circle have all the ways a page can be met again: by a next-page link, which keeps the depth
and so is stopped by the seen URLs alone, by a link one level deeper, by both, and by a
redelivery; a cap of 1 splits a page's links. Delays of 0 and 1 suffice
to lose a delay; larger ceilings change the run time and no verdict. With one slot the second
job goes on without one; three sessions let one retire, one be on loan and one be minted;
two bodies that fit alone and not together are what a check before an await lets pass.
Three overlays are an ACTIVE one, its successor and the one a stale read names; after the
redesign of their site the class names are no CSS, as those of a utility framework are. A place in two
areas, found by type and by query, is met in every order of the passes; pages of one force
both subdivision and paging. With a limit of 1 each admission too many shows, and two lives
of two processes have the counters part. A cache of one entry evicts at the second page. A
batch of two of three rows leaves an unfilled rest, and two executions are a run and its
repetition. Every bound is a CONSTANT named `Max...`; the proofs hold for all of their values.

`CHECK_DEADLOCK FALSE` everywhere: producers are bounded, and a system without messages
rests; a sweep, a node that shut down and a migration are done.

Fairness. Weak fairness of a consumer's, worker's or relay's next step: each is a loop
in its own process, every await below it has a timeout, and `restart: always` brings it
back. Weak fairness of time (`BecomeIdle`, `BeatExpires`, `Rested`). Nothing is assumed
of pushes, faults, kills, expiries, requests or of a callback's outcome. The modules of the
second half state no fairness: their properties are safety properties. `LastingDemotion`
assumes in its antecedent that the browser keeps getting pages.

## 4. The proofs

For every number of processes, messages, jobs, retries and faults, and every data
constant, under the named assumptions (finiteness of the sets that are counted,
positive budgets, distinct values). Each argument is an inductive strengthening:

- **StreamQueue**: the dedup key is a lock. Who runs a callback holds its key
  (`KeyHeld`), a key has one holder (`OneHolder`), a successful message's key is held by
  nobody and stays (`SuccessKeepsKey`); an envelope's retry count never exceeds the
  failed callbacks (`RetryEarned`). Hence `MutualExclusion`, `SuccessOnce`,
  `RetryBudgetHonoured`, and, step by step, `Refinement` of `MessageDelivery`. A key also
  stands for a reason (`KeyInv`): a handler at work, a success, or a handler that was cut short; so
  an entry skipped as a duplicate is not the last of its message. A message nobody
  settled is at a handler or in an entry that no consumer is about to acknowledge (`Kept`), since a
  retry copy has an id of its own (`Fresh`). Hence `NothingElseIsLost`.
- **JobLifecycle**: the version moves with the state (`VersionMoves`), so a snapshot
  that still matches tells the state (`SnapshotInv`); a worker owns its job while it is
  delivered (`OwnerInv`), so a worker whose last compare-and-swap fails lost to somebody
  who moved the job out of RUNNING (`ClosingInv`). Hence `DecisionsHold`,
  `OutcomeBacked`, `NoJobLeftRunning`. With the selection of the purge (`PurgeInv`: what was
  selected still has its `deleted_at`) these make every step one of `JobRecord`
  (`Refinement`).
- **Outbox**: from Begin to Commit the statements pending are the lock holder's
  (`LockInv`), so every other commit finds none. Hence `UnitOfWork`, and with it
  `MessagesHaveJobs`, `DeliveredSent`, `GivenUpLate`. The event the relay is delivering, and
  those it polled with it, are on record and not settled, each once (`OpenInv`): so what is
  settled was open, and every step is one of `Mailbox` or a stutter (`Refinement`).
- **DomainProfile**: `compute_next_delay` stays between its argument and the ceiling
  (`NextDelayBounds`), so a process whose copy is current loses nothing. Hence
  `MissesKnown`, `LearningKept`.
- **Processor**: pushed and still granted links never exceed what the window was charged
  (`BudgetInv`); seen pages are disposed of and the links of the current payload are granted,
  refused or disposed of (`LinksInv`); an unannounced version is on its way between audit
  and event (`EventInv`); without a fault the disposed pages are the seen ones
  (`OnceInv`). Hence `CapHolds`, `NoLinkLost`, `TrackedAnnounced`, `EnqueuedOnce`.

- **ScraperNode**: what a job may hold at each `pc` (`PcInv`), and the pool around it
  (`PoolInv`): an id names one session, a session on loan is checked out and has not
  retired, so nobody is lent it again and a sweep, which drops only domains whose sessions
  have all retired, cannot take it. The counts of slots and contexts are cardinalities of
  the sets of holders (`SlotsInv`, `ContextsInv`). Hence `SessionsLent`, `LoansReturned`,
  `BufferBounded`.
- **Overlays**: overlays are created in order and each names an older one as rollback target
  (`InOrder`); what a caller is about to activate was approved when it decided, so was every
  target a rollback can name, and approvals are not undone (`CallsDecided`,
  `TargetsApproved`). Hence `NothingUnapprovedIsServed`. A pair that stays ACTIVE keeps its
  cause unless the promotion between its writes ends, which retires one of the pair or is
  recorded (`PairStays`), and an overlay that becomes ACTIVE beside another gets one
  (`PairMade`). Hence `TwoActiveOverlaysHaveACause`.
- **Extraction**: the stages yield sequences (`FlattenedIsSeq`), a redesign leaves what the markup
  stages read (`MarkupStays`), and of records that are not none one is kept (`SomethingIsKept`): a
  choice of records in which each is kept unless it is the same as one kept before it exists up to every
  position (`KeptExist`, by a least position without one); a stage fails only on a selector that is no
  CSS (`FailsOnlyUnparsable`). Hence `MarkupIsNotHiddenByAMiss`.
- **Gateway**: what the lives that count alone may still let through today is a set of one
  element per request, `Slack`. A life that begins to count alone brings `Limit` elements, an
  admission takes one away, a process that goes down takes its own with it; so what was and what
  may be let through stay within the shared counter and `Limit` per such life (`QuotaInv`). The
  shared counter passes the limit only by requests that were between reading and increment
  together (`SharedInv`). Hence `QuotaIsBounded`, which allows `Limit * (1 + lone lives)` and
  one less than the requests in flight: no tighter bound holds. A key revoked before it was
  looked up is let through only out of the memory of the process that minted it, when the look-up in the table
  raised; the record of it ends with the request (`RevokedInFlight`). Hence `RevocationIsFinal`.
- **LlmProvider**: an entry of either cache level fits every page and process its key stands
  for (`Fits`). A fresh answer does, because the model in the key, the first of its chain, tells
  whose overlays the processes that use the key may be handed (`WritersByModel`, from the table of
  models and every choice an operator has); promotion from one level to the other and recency keep
  it. Hence `NoOverlayCrosses`.
- **PlaceSweep**: a place due in an area behind the sweep is listed, or a warning names the
  area; in the area in work a call whose circle has it may still be waiting (`Covered`). The circles
  of a subdivision cover the one they replace, so a full page moves a place from one waiting
  call to another. Hence `NobodyIsMissedSilently`. A listing's contacts are those of all answers
  about it (`ContactInv`); only listings get a verdict (`Judged`), and the export takes one listing
  per line. Hence `ContactsAreKept`, `LinesAreCalledOnce`.
- **Migration**: until a failure every row that was read is carried by its table or still to do
  (`TakenInv`), where the table is the one the open transaction sees (`View`); a table
  that is not done holds the ids it held at the start but for those this transaction counted
  (`CountInv`), and a reported table is written no more (`ReportInv`). Hence
  `MigrationDoesNotDuplicate`, `MigrationIsComplete`, `MigrationReportsTheTruth`.
- **Cutover**: served records are not behind the cursor (`ServedInv`), and for a client that
  began after the last record the others are (`SettledInv`); a page cuts the finite,
  totally ordered set of the rows behind the cursor from its lower end. Hence
  `PagesExact`, for all page sizes and whatever the migration does meanwhile.

Every module has a theorem for its types. The type invariant alone
carries no other property, `BufferBounded` apart: each needs the relation between two pieces
of state named above. One assumption is
about geometry the model does not compute: the circles of a grid cover the circle they replace
(`CoverAssumption` of `PlaceSweep`).

Every safety property of the runs has a theorem. Only model-checked are the liveness properties
(`EventuallyResolved`, `RunningEnds`, `EventsResolved`, `LastingDemotion`, `CrawlEnds`),
since the prover has neither fairness nor ENABLED in reach.

## 5. Where code and documents differ

Met while modelling; the models follow the code.

- README.md:25 promises "**At-least-once delivery** — transactional outbox → Valkey Streams
  with consumer groups, ACK, retry, and dead-letter queue". A worker killed between `SET NX` and the
  end of its callback (stream_queue.py:295) loses the message for the 24 hours of its key.
- worker_scraper.py:515 "Shared success tail for every fetch tier: push the payload, store the
  HTML artifact, mark the job SUCCEEDED". Above the hard memory limit `push` dead-letters and
  "returns "" (no entry was written)" (stream_queue.py:118); worker_scraper.py:302 and :517 do
  not look at it, and the job is SUCCEEDED although nothing of it will be extracted
  (`dropped` in `OutcomeIsBackedByMessage`).
- src/domain/models.py:23 calls `JobState` a "Guarded state machine for job lifecycle." No
  writer asks `can_transition_to`; worker_scraper.py:112 re-reads the version after a
  conflict and sets a cancelled job RUNNING.
- main.py:437 "Cancel a job that is QUEUED or RUNNING.": DELETED is not among the states
  main.py:443 leaves alone, so a deleted job becomes CANCELLED and the purge still takes it.
- src/application/reaper.py:1 "periodically fails RUNNING jobs whose worker went silent":
  a worker beats once per job, and a NULL heartbeat counts as stale, so workers on slow
  pages are reaped too.
- README.md:72 "OutboxRelay pushes to Valkey Stream `jobs_stream`": its envelope nests the
  job's fields under `data`, and the scraper cannot build a job from it. When the direct push of
  `submit_job` fails (main.py:402), the job stays QUEUED although its event is DELIVERED.
- src/application/rendering_policy.py:11 counts on the tier "set by AdaptiveFetchService on a
  Tier-1 miss". The same job writes its older profile back with a new delay
  (worker_scraper.py:213) and undoes it.
- src/domain/models.py:473 "Emitted when new high-value intelligence is discovered.": the
  `DiscoveryEvent` is lost when a call fails between audit and push (worker_processor.py:103).
- src/application/place_sweep.py:495 "Stop, keep what was already paid for": the pages of a
  text search that were billed before its quota error go with the local list
  (google_places.py:288).
- main.py:560 "Retire old ACTIVE" retires the row `rollback_overlay_id` names, which need not be
  the ACTIVE one; src/domain/ports.py:239 "Get the ACTIVE overlay for a domain." then has two
  to choose from, for the reasons `TwoActiveHaveACause` lists.
- extraction_pipeline.py:592 says of a synthesized selector that a bad "guess here self-corrects
  instead of shipping silently." Promotion through main.py:530 looks at no evaluation, and a selector
  such as `div.md:flex` is no CSS: once ACTIVE it raises on every page of the domain that is
  given no overlay, so the page fails whole (extraction_pipeline.py:679) and no relocation is
  proposed (`MissHidesNothing` leaves just these pages out).

- src/config_settings.py:111 on the one model for every job: "Setting this also disables the
  fallback chain". It does for the process's own requests, but the cache key holds the first model only
  (openrouter.py:252): pinned to glm-5.3-flash, the table's first for overlays, a process is handed
  overlays that a fallback wrote for an unpinned process (`Writers`).
- src/infrastructure/ai/ssot.py:36 has fallbacks chosen "so one payload stays valid across a whole
  fallback chain". Enrichment's payload says reasoning is disabled, after its first model, and its last
  fallback, glm-5.3-flash, has mandatory reasoning (ssot.py:267, openrouter.py:366). The
  models leave these parameters out.
- src/auth_middleware.py:268 "Uses Valkey for atomic counter operations across nodes" and :278 "even
  a valid admin caller can only mint REGISTRATION_IP_LIMIT keys per IP per day": the counter is
  read and raised in two calls, and a process that met one failing call counts alone from then on. What holds is
  the bound of `QuotaHolds`: the limit once more per such life, and the requests that overlap.

## 6. Plan

Done: all modules of section 2, and a theorem for every safety property.

Refinements still wanted: that `Processor` implements an abstract crawl, in which a link is
granted, refused or disposed of once, and `ScraperNode` an abstract lease of slots, proxies,
sessions and bytes, each given back by whom it was lent to.

Hazards known and not covered by a property: the stream is trimmed at about 100 000 entries
(stream_queue.py:143); a redelivered payload inserts its record rows again
(worker_processor.py:98); one record per page survives the deduplicator
(deduplicator.py:38, in `Extraction`); two jobs that store the same bytes share one metadata
file (artifact_store.py:109). Those with a line in `PROJECT.json` carry a note.

## 7. Not modelled

- Reporter: it keeps no state. It writes files, calls plugins and returns whether one
  of them succeeded, which is the callback's outcome in `StreamQueue`.
- Discovery worker: no service of `docker-compose.yml` runs it, and nothing creates a
  research plan or pushes onto its stream.
- Artifact store: content-addressed files; `JobLifecycle` has the call and its failure, and
  no process reads the metadata file of shared content.
- URL policy and SSRF guard: pure predicates over strings and addresses.
- Site extractors: DOM parsing.
- Observability: no decision depends on it, except that a failing metric call aborts its
  caller, which `StreamQueue` has.
- Parts of modelled components: `pipeline.py`, `exploration_policy.py`,
  `synthesis_service.py`, `smart_crawler.py` and the comparison of strategies
  (`evaluate_strategy`), which no process constructs or calls; `update_record` and
  `get_record`; schema migrations; prompts, prices and parsing of answers; scrolling and clicking;
  the retries of `http_client.py`.
