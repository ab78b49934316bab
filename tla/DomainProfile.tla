--------------------------- MODULE DomainProfile ---------------------------
(***************************************************************************)
(* What the system learns about one domain: the row of domain_profiles,    *)
(* read and rewritten as a whole by every scraper job of the domain        *)
(* (worker_scraper.py, adaptive_fetch.py) and by the hourly                *)
(* StrategySelector of the API process.  No process re-reads the row       *)
(* before it writes its own copy back.                                     *)
(*                                                                         *)
(* A scraper replica handles one job at a time and keeps the API endpoints *)
(* it discovered (turbo mode) in its own memory.  Delays are counted in    *)
(* abstract units.  No code writes an observation with blocked=True or     *)
(* with an extraction strategy of EXTRACTION_STRATEGIES, so block_rate     *)
(* stays 0, preferred_extraction_strategy stays empty, and both are left   *)
(* out; the other columns are statistics nothing reads.                    *)
(***************************************************************************)
EXTENDS Integers, FiniteSets

CONSTANTS
  Workers,        \* scraper replicas
  Selector,       \* the StrategySelector task
  None,           \* "no row", "no copy", "no Retry-After", "no evidence"
  MaxDelay,       \* THROTTLE_MAX_DELAY_MS
  Latencies,      \* latency_ms / target_concurrency of a fetch
  RetryAfters,    \* Retry-After answers, in the same unit
  MissThreshold,  \* TURBO_MISS_THRESHOLD: 3 in the code
  MinEvidence,    \* MIN_OBSERVATIONS_FOR_EVALUATION: 5 in the code
  MinTotal,       \* DEFAULT_MIN_OBS: 10 in the code
  MaxFaults       \* bound: failing calls, scraper restarts and idle weeks together

ASSUME ProcessesAssumption ==
  /\ IsFiniteSet(Workers) /\ Selector \notin Workers /\ None \notin Workers \cup {Selector}
ASSUME BoundsAssumption ==
  /\ MaxDelay \in Nat /\ Latencies \subseteq Nat /\ RetryAfters \subseteq Nat
  /\ None \notin Nat /\ None \notin [tier : {"http", "browser"}, delay : Nat]
  /\ None \notin {"http", "browser"}
  /\ MissThreshold \in Nat \ {0} /\ MinEvidence \in Nat \ {0} /\ MinTotal \in Nat
  /\ MaxFaults \in Nat

VARIABLES
  site,       \* the answers the domain may give to plain HTTP
  row,        \* its row: preferred_fetch_tier and throttle_delay_ms
  seen,       \* fetch observations inside the window, per tier (counted up to MinEvidence)
  total,      \* all its observations (counted up to MinTotal)
  pc,         \* what each process awaits next
  copy,       \* the DomainProfile object it holds
  best,       \* best_tier, while the selector awaits
  endpoints,  \* replicas with an entry in domain_endpoints
  misses,     \* _turbo_miss_counts of each replica
  faults      \* history: failed calls, restarts and idle weeks so far

evidence == <<seen, total>>
memory == <<endpoints, misses>>
vars == <<site, row, evidence, pc, copy, best, memory, faults>>

Processes == Workers \cup {Selector}
Tiers     == {"http", "browser"}
Profile   == [tier : Tiers, delay : 0 .. MaxDelay]

\* DomainProfile(domain=domain): the defaults.
Fresh == [tier |-> "http", delay |-> 0]

Init ==
  /\ site \in {{"miss"}, {"hit", "miss"}}
  /\ row = None
  /\ seen = [t \in Tiers |-> 0] /\ total = 0
  /\ pc = [p \in Processes |-> "idle"]
  /\ copy = [p \in Processes |-> None]
  /\ best = None
  /\ endpoints = {} /\ misses = [w \in Workers |-> 0]
  /\ faults = 0

Larger(a, b)  == IF a >= b THEN a ELSE b
Smaller(a, b) == IF a <= b THEN a ELSE b

-----------------------------------------------------------------------------
(* The pure policies.                                                      *)

\* Mutant of NextDelay: the delay converges towards the target and may shrink.
ShrinkingDelay(current, target, ok, retryAfter) ==
  LET penalty == IF ok THEN 0 ELSE IF retryAfter = None THEN current * 2 ELSE retryAfter
  IN  Smaller(Larger(Larger((current + target) \div 2, target), penalty), MaxDelay)

\* compute_next_delay, with floor_ms = THROTTLE_FLOOR_MS = 0 and target = latency_ms / target_concurrency.
NextDelay(current, target, ok, retryAfter) ==
  LET damped  == Larger((current + target) \div 2, target)
      penalty == IF ok THEN 0 ELSE IF retryAfter = None THEN current * 2 ELSE retryAfter
  IN  Smaller(Larger(Larger(damped, penalty), current), MaxDelay)

\* should_attempt_http_tier, block_rate being 0.
ShouldAttemptHttp(profile) == profile.tier # "browser"

\* _compute_strategy_metrics, in hundredths: only successes are observed, each with one complete record and
\* unblocked, and the browser's with latency 0; that of a plain request stands for any number of milliseconds.
StrategyMetrics(tier) ==
  [precision |-> 100, completeness |-> 100, latency |-> IF tier = "browser" THEN 0 ELSE 1, blocks |-> 0]

\* _compute_score; a latency of 100 stands for 10 s and more.
ComputeScore(metrics) ==
  50 * metrics.precision + 20 * metrics.completeness
    + 15 * Larger(0, 100 - metrics.latency) + 15 * (100 - metrics.blocks)

\* _best_scoring over FETCH_TIERS: "http" comes first, a later tier must score higher.
BestTier ==
  IF /\ seen["browser"] >= MinEvidence
     /\ seen["http"] >= MinEvidence =>
          ComputeScore(StrategyMetrics("browser")) > ComputeScore(StrategyMetrics("http"))
  THEN "browser"
  ELSE IF seen["http"] >= MinEvidence THEN "http" ELSE None

-----------------------------------------------------------------------------
(* The repository.                                                         *)

Fault == faults < MaxFaults /\ faults' = faults + 1

\* get_or_create_profile: INSERT ... ON CONFLICT DO NOTHING, then SELECT.
Existing == IF row = None THEN Fresh ELSE row

\* update_profile: a full-row UPDATE, of no row when there is none.
Update(profile) == row' = IF row = None THEN None ELSE profile

\* update_profile under an except clause that only logs.
TryUpdate(profile) ==
  \/ Update(profile) /\ UNCHANGED faults
  \/ Fault /\ UNCHANGED row

\* create_observation; more observations than the selector asks for decide nothing.
CreateObservation(tier) ==
  /\ seen' = [seen EXCEPT ![tier] = Smaller(@ + 1, MinEvidence)]
  /\ total' = Smaller(total + 1, MinTotal)

\* The same under an except clause that only logs.
TryObserve(tier) ==
  \/ CreateObservation(tier) /\ UNCHANGED faults
  \/ Fault /\ UNCHANGED evidence

Goto(p, label) == pc' = [pc EXCEPT ![p] = label]
Hold(p, profile) == copy' = [copy EXCEPT ![p] = profile]

-----------------------------------------------------------------------------
(* One job of the domain in a scraper: _process_job.                       *)

FetchTier(profile) == IF ShouldAttemptHttp(profile) THEN "http" ELSE "browser"

StartFetch(w, profile) ==
  /\ Hold(w, profile)
  /\ Goto(w, IF w \in endpoints THEN "turbo" ELSE FetchTier(profile))
  /\ UNCHANGED <<site, evidence, best, memory>>

Load(w) ==
  /\ pc[w] = "idle"
  /\ row' = Existing
  /\ StartFetch(w, Existing)
  /\ UNCHANGED faults

\* The profile cannot be read: the job goes on with the defaults.
LoadFails(w) ==
  /\ pc[w] = "idle"
  /\ Fault
  /\ StartFetch(w, Fresh)
  /\ UNCHANGED row

\* robots.txt forbids the page: the job ends after the profile was created.
Disallowed(w) ==
  /\ pc[w] = "idle"
  /\ row' = Existing
  /\ UNCHANGED <<site, evidence, pc, copy, best, memory, faults>>

Done(w) == Hold(w, None) /\ Goto(w, "idle")

\* _record_throttle_observation.
Throttle(w, ok) ==
  \E target \in Latencies, retryAfter \in RetryAfters \cup {None} :
    LET delay == NextDelay(copy[w].delay, target, ok, retryAfter)
    IN  IF delay = copy[w].delay
        THEN UNCHANGED <<row, faults>>
        ELSE TryUpdate([copy[w] EXCEPT !.delay = delay])

\* A replayed endpoint answers; ok is about the last one replayed.
TurboHit(w) ==
  /\ pc[w] = "turbo"
  /\ misses' = [misses EXCEPT ![w] = 0]
  /\ \E ok \in BOOLEAN : Throttle(w, ok)
  /\ Done(w)
  /\ UNCHANGED <<site, evidence, best, endpoints>>

\* Mutant of TurboMiss: the counter survives the demotion.
TurboMissKeepsCount(w) ==
  /\ pc[w] = "turbo"
  /\ misses' = [misses EXCEPT ![w] = @ + 1]
  /\ endpoints' = IF misses[w] + 1 >= MissThreshold THEN endpoints \ {w} ELSE endpoints
  /\ Goto(w, FetchTier(copy[w]))
  /\ UNCHANGED <<site, row, evidence, copy, best, faults>>

TurboMiss(w) ==
  /\ pc[w] = "turbo"
  /\ IF misses[w] + 1 >= MissThreshold
     THEN endpoints' = endpoints \ {w} /\ misses' = [misses EXCEPT ![w] = 0]
     ELSE misses' = [misses EXCEPT ![w] = @ + 1] /\ UNCHANGED endpoints
  /\ Goto(w, FetchTier(copy[w]))
  /\ UNCHANGED <<site, row, evidence, copy, best, faults>>

\* try_tier1 answers: the observation, then the throttle of the same job.
HttpHit(w) ==
  /\ pc[w] = "http" /\ "hit" \in site
  /\ TryObserve("http")
  /\ Goto(w, "served")
  /\ UNCHANGED <<site, row, copy, best, memory>>

HttpServed(w) ==
  /\ pc[w] = "served"
  /\ Throttle(w, TRUE)
  /\ Done(w)
  /\ UNCHANGED <<site, evidence, best, memory>>

\* Mutant of HttpMiss: the demotion is not persisted.
HttpMissForgotten(w) ==
  /\ pc[w] = "http" /\ "miss" \in site
  /\ Goto(w, "browser")
  /\ UNCHANGED <<site, row, evidence, copy, best, memory, faults>>

\* _demote writes a modified copy; the caller's profile still says "http".
HttpMiss(w) ==
  /\ pc[w] = "http" /\ "miss" \in site
  /\ TryUpdate([copy[w] EXCEPT !.tier = "browser"])
  /\ Goto(w, "browser")
  /\ UNCHANGED <<site, evidence, copy, best, memory>>

\* The browser delivers the page; JSON traffic it saw becomes the turbo endpoints.
Crawl(w) ==
  /\ pc[w] = "browser"
  /\ Throttle(w, TRUE)
  /\ \/ endpoints' = endpoints \cup {w} /\ misses' = [misses EXCEPT ![w] = 0]
     \/ UNCHANGED memory
  /\ Hold(w, None)
  /\ Goto(w, "crawled")
  /\ UNCHANGED <<site, evidence, best>>

\* A challenge, a 429 or 503, or a navigation error.
CrawlBlocked(w) ==
  /\ pc[w] = "browser"
  /\ Throttle(w, FALSE)
  /\ Done(w)
  /\ UNCHANGED <<site, evidence, best, memory>>

\* engine.start() raises: nothing is recorded.
CrawlRaises(w) ==
  /\ pc[w] = "browser"
  /\ Done(w)
  /\ UNCHANGED <<site, row, evidence, best, memory, faults>>

ObserveBrowser(w) ==
  /\ pc[w] = "crawled"
  /\ TryObserve("browser")
  /\ Goto(w, "idle")
  /\ UNCHANGED <<site, row, copy, best, memory>>

Kill(w) ==
  /\ Fault
  /\ endpoints' = endpoints \ {w} /\ misses' = [misses EXCEPT ![w] = 0]
  /\ Done(w)
  /\ UNCHANGED <<site, row, evidence, best>>

-----------------------------------------------------------------------------
(* The hourly pass of the selector: update_domain_profile.                 *)

\* evaluate_all_domains takes up the domain and scores its tiers.
Score ==
  /\ pc[Selector] = "idle" /\ total >= MinTotal
  /\ best' = BestTier
  /\ Goto(Selector, "read")
  /\ UNCHANGED <<site, row, evidence, copy, memory, faults>>

ReadProfile ==
  /\ pc[Selector] = "read"
  /\ row' = Existing
  /\ Hold(Selector, Existing)
  /\ Goto(Selector, "write")
  /\ UNCHANGED <<site, evidence, best, memory, faults>>

EndPass == best' = None /\ Done(Selector)

\* An axis without evidence is written back as it was read.
WriteProfile ==
  /\ pc[Selector] = "write"
  /\ Update([copy[Selector] EXCEPT !.tier = IF best = None THEN @ ELSE best])
  /\ EndPass
  /\ UNCHANGED <<site, evidence, memory, faults>>

\* A failing call ends the pass for this domain.
PassFails ==
  /\ pc[Selector] \in {"read", "write"}
  /\ Fault
  /\ EndPass
  /\ UNCHANGED <<site, row, evidence, memory>>

SelectorPass == Score \/ ReadProfile \/ WriteProfile

\* A week without jobs: the observations leave the evaluator's window.
WindowPasses ==
  /\ Fault
  /\ seen' = [t \in Tiers |-> 0]
  /\ UNCHANGED <<site, row, total, pc, copy, best, memory>>

-----------------------------------------------------------------------------
Turbo(w)   == TurboHit(w) \/ TurboMiss(w)
Http(w)    == HttpHit(w) \/ HttpServed(w) \/ HttpMiss(w)
Browser(w) == Crawl(w) \/ ObserveBrowser(w)
Job(w)     == Load(w) \/ Turbo(w) \/ Http(w) \/ Browser(w)

Next ==
  \/ \E w \in Workers :
       Job(w) \/ LoadFails(w) \/ Disallowed(w) \/ CrawlBlocked(w) \/ CrawlRaises(w) \/ Kill(w)
  \/ SelectorPass \/ PassFails
  \/ WindowPasses

Spec == Init /\ [][Next]_vars

(* A scraper carries on with its job; jobs of the domain keep arriving.    *)
FairSpec == Spec /\ \A w \in Workers : WF_vars(Job(w))

-----------------------------------------------------------------------------
TypeOK ==
  /\ site \subseteq {"hit", "miss"}
  /\ row \in Profile \cup {None}
  /\ seen \in [Tiers -> 0 .. MinEvidence] /\ total \in 0 .. MinTotal
  /\ pc \in [Processes -> {"idle", "turbo", "http", "served", "browser", "crawled", "read", "write"}]
  /\ copy \in [Processes -> Profile \cup {None}]
  /\ \A p \in Processes : (copy[p] = None) = (pc[p] \in {"idle", "crawled", "read"})
  /\ best \in Tiers \cup {None}
  /\ endpoints \subseteq Workers /\ misses \in [Workers -> Nat]
  /\ faults \in Nat

(* Turbo mode counts misses of endpoints it still has, and gives up on     *)
(* them before the count reaches the threshold: a new set of endpoints     *)
(* never inherits the misses of an old one.                                *)
MissesOfKnownEndpoints ==
  \A w \in Workers : misses[w] > 0 => w \in endpoints /\ misses[w] < MissThreshold

\* p is the process that steps, and its copy is not what the row says.
WritesStaleCopy(p) == pc'[p] # pc[p] /\ copy[p] # row

(* What was learned is lost in two ways only: a process writes back a copy *)
(* the row has overtaken, or the selector has evidence for plain HTTP.  A  *)
(* process that wrote what it read never lowers the delay or undoes a      *)
(* demotion.                                                               *)
LearningLostOnlyByStaleCopy ==
  [][ row # None =>
        /\ row'.delay < row.delay => \E p \in Processes : WritesStaleCopy(p)
        /\ row.tier = "browser" /\ row'.tier = "http" =>
             (\E p \in Processes : WritesStaleCopy(p)) \/ (pc[Selector] = "write" /\ best = "http")
    ]_vars

(* A domain that never answers plain HTTP, and whose pages the browser     *)
(* keeps getting, is in the end no longer asked over HTTP: the overwrites  *)
(* by stale copies die out, because delays only grow and the evidence of   *)
(* the selector ends up on the browser's side.                             *)
LastingDemotion ==
  (site = {"miss"} /\ []<>(\E w \in Workers : pc[w] = "crawled"))
    => <>[](\A w \in Workers : pc[w] # "http")
=============================================================================
