----------------------------- MODULE ScraperNode -----------------------------
(***************************************************************************)
(* One scraper process: what a call of process_job borrows (a slot of its  *)
(* domain, a persona and proxy session, a browser context, room in the     *)
(* capture buffer) and gives back on every way out of the job.             *)
(*                                                                         *)
(* An action is the code between two awaits that matter to a loan.  The    *)
(* stream consumer runs one job at a time today; Jobs may hold several, as *)
(* the session pool and the rate limiter promise to serve.  Job state,     *)
(* throttling, the turbo registry and the fetch tier are in JobLifecycle   *)
(* and DomainProfile: here a job is turned away, served or sent on.        *)
(***************************************************************************)
EXTENDS Integers, FiniteSets, Sequences

CONSTANTS
  Jobs,           \* calls of process_job that may overlap
  Domains,
  Proxies,        \* the configured list, a sequence of "plain" or "odd" URLs
  Answers,        \* what a fetch may bring: records [status, challenge, body]
  Bodies,         \* sizes of captured JSON bodies
  default_budget, \* 2 in the worker
  MAX_USES,       \* 50
  SWEEP_INTERVAL_RELEASES,      \* 50
  INTERCEPT_MAX_RESPONSE_BYTES, \* 2 000 000
  INTERCEPT_MAX_COUNT,          \* 200
  INTERCEPT_MAX_TOTAL_BYTES,    \* 20 000 000
  MaxRuns,        \* bound: jobs started
  MaxSessions,    \* bound: sessions minted
  MaxResponses,   \* bound: captured responses of one page
  None

SUCCESS_DELTA == 1
BLOCK_DELTA == -3
RETIREMENT_THRESHOLD == -3
BLOCK_STATUS_CODES == {403, 429, 503}
RobotsFiles == {"missing", "permits", "forbids", "error", "unreachable"}

Answer  == [status : Nat, challenge : BOOLEAN, body : BOOLEAN]
Session == [session_id : Nat, proxy : {"plain", "odd"} \cup {None}, health_score : Int, uses : Nat]

ASSUME NodeAssumption ==
  /\ Answers \subseteq Answer /\ Bodies \subseteq Nat
  /\ Proxies \in Seq({"plain", "odd"})
  /\ default_budget \in Nat \ {0} /\ MAX_USES \in Nat \ {0}
  /\ SWEEP_INTERVAL_RELEASES \in Nat \ {0}
  /\ {INTERCEPT_MAX_RESPONSE_BYTES, INTERCEPT_MAX_COUNT, INTERCEPT_MAX_TOTAL_BYTES} \subseteq Nat
  /\ None \notin Answers /\ None \notin {"plain", "odd"} /\ None \notin Session
  /\ IsFiniteSet(Jobs) /\ {MaxRuns, MaxSessions, MaxResponses} \subseteq Nat

VARIABLES
  node,        \* "booting", "up", "stopping" or "gone"
  job,         \* job -> where it stands and what it holds
  slots,       \* domain -> value of the semaphore in DomainRateLimiter
  sessions,    \* domain -> the sessions of SessionPool._sessions
  checked_out, \* domain -> session ids on loan
  sweep_counter, next_index, minted,
  chromium,    \* Chromium processes that run
  contexts,    \* contexts open in them
  client,      \* the target_http singleton: "none" or "open"
  stranded,    \* ghost: sessions whose lease ended in a raise before the job's try block
  runs
poolVars == <<sessions, checked_out, sweep_counter, next_index, minted>>
browserVars == <<chromium, contexts>>
vars == <<node, job, slots, poolVars, browserVars, client, stranded, runs>>

NoBuffer == [captured |-> 0, bytes |-> 0, inflight |-> [b \in Bodies |-> 0], seen |-> 0]
Idle == [pc |-> "idle", domain |-> None, slot |-> FALSE, use_proxy |-> FALSE, robots |-> FALSE,
         session |-> None, context |-> FALSE, buffer |-> NoBuffer]

Init ==
  /\ node = "booting" /\ job = [j \in Jobs |-> Idle]
  /\ slots = [d \in Domains |-> default_budget]
  /\ sessions = [d \in Domains |-> {}] /\ checked_out = [d \in Domains |-> {}]
  /\ sweep_counter = 0 /\ next_index = 0 /\ minted = 0
  /\ chromium = 0 /\ contexts = 0 /\ client = "none" /\ stranded = {} /\ runs = 0

----------------------------------------------------------------------------
\* The worker's browser: launched once before the consumer starts.

\* A failure after the launch tears the browser down again.
Initialize(fails) ==
  /\ chromium' = IF fails THEN chromium ELSE chromium + 1
  /\ UNCHANGED contexts

Boot ==
  /\ node = "booting"
  /\ \E fails \in BOOLEAN :
       /\ Initialize(fails)
       /\ node' = IF fails THEN "gone" ELSE "up"
  /\ UNCHANGED <<job, slots, poolVars, client, stranded, runs>>

\* Chromium dies.  The pool still counts itself initialised and starts no other.
Crash ==
  /\ node = "up" /\ chromium > 0
  /\ chromium' = 0 /\ contexts' = 0
  /\ UNCHANGED <<node, job, slots, poolVars, client, stranded, runs>>

\* Mutant of NewContext: a context whose init script raises is not closed.
NewContextLeft(made, scripted) ==
  /\ made => chromium > 0
  /\ contexts' = contexts + (IF made THEN 1 ELSE 0)
NewContext(made, scripted) ==
  /\ made => chromium > 0
  /\ contexts' = contexts + (IF made /\ scripted THEN 1 ELSE 0)

CloseContext(j) ==
  contexts' = IF job[j].context /\ contexts > 0 THEN contexts - 1 ELSE contexts

----------------------------------------------------------------------------
\* DomainRateLimiter in memory, as process_job uses it.

Goto(j, pc) == job' = [job EXCEPT ![j].pc = pc]

Start(j) ==
  /\ node = "up" /\ job[j].pc = "idle" /\ runs < MaxRuns
  /\ runs' = runs + 1
  /\ \E d \in Domains, proxied, polite \in BOOLEAN :
       job' = [job EXCEPT ![j] = [Idle EXCEPT !.pc = "wait", !.domain = d,
                                              !.use_proxy = proxied, !.robots = polite]]
  /\ UNCHANGED <<node, slots, poolVars, browserVars, client, stranded>>

\* A wait that times out goes on without a slot.
WaitForSlot(j) ==
  LET d == job[j].domain IN
  /\ job[j].pc = "wait"
  /\ slots' = [slots EXCEPT ![d] = IF @ > 0 THEN @ - 1 ELSE 0]
  /\ job' = [job EXCEPT ![j].pc = "begin", ![j].slot = slots[d] > 0]
  /\ UNCHANGED <<node, poolVars, browserVars, client, stranded, runs>>

\* Mutant of Leave: a job that went on without a slot returns one.
LeaveFrees(j) ==
  /\ job[j].pc = "leave"
  /\ slots' = [slots EXCEPT ![job[j].domain] = @ + 1]
  /\ job' = [job EXCEPT ![j] = Idle]
  /\ UNCHANGED <<node, poolVars, browserVars, client, stranded, runs>>
Leave(j) ==
  LET d == job[j].domain IN
  /\ job[j].pc = "leave"
  /\ slots' = [slots EXCEPT ![d] = @ + (IF job[j].slot THEN 1 ELSE 0)]
  /\ job' = [job EXCEPT ![j] = Idle]
  /\ UNCHANGED <<node, poolVars, browserVars, client, stranded, runs>>

----------------------------------------------------------------------------
\* Before the first tier: robots.txt and the replay of known endpoints.

\* robots.txt that cannot be read forbids; one that does not exist permits.
Allowed(file) == file \in {"missing", "permits"}
Replayed(a) == a.status \in 200 .. 299 /\ a.body

\* One of the answers the gate may give, cached or fetched.
TurnedAway(j) ==
  /\ job[j].pc = "begin" /\ job[j].robots
  /\ \E file \in RobotsFiles : ~Allowed(file)
  /\ Goto(j, "leave") /\ client' = "open"
  /\ UNCHANGED <<node, slots, poolVars, browserVars, stranded, runs>>

ServedByTurbo(j) ==
  /\ job[j].pc = "begin"
  /\ job[j].robots => \E file \in RobotsFiles : Allowed(file)
  /\ \E a \in Answers : Replayed(a)
  /\ Goto(j, "leave") /\ client' = "open"
  /\ UNCHANGED <<node, slots, poolVars, browserVars, stranded, runs>>

ToTiers(j) ==
  /\ job[j].pc = "begin"
  /\ \E asked \in BOOLEAN :
       /\ job[j].robots => asked /\ \E file \in RobotsFiles : Allowed(file)
       /\ client' = IF asked THEN "open" ELSE client
  /\ Goto(j, "tier1")
  /\ UNCHANGED <<node, slots, poolVars, browserVars, stranded, runs>>

----------------------------------------------------------------------------
\* SessionPool.

Retired(s) == s.health_score <= RETIREMENT_THRESHOLD \/ s.uses >= MAX_USES

ScoreOutcome(s, success, blocked) ==
  [s EXCEPT !.health_score = @ + (IF blocked THEN BLOCK_DELTA ELSE IF success THEN SUCCESS_DELTA ELSE 0),
            !.uses = @ + 1]

\* Mutant of Live: sessions on loan are not skipped.
LiveShared(d) == {s \in sessions[d] : ~Retired(s)}
Live(d) == {s \in sessions[d] : ~Retired(s) /\ s.session_id \notin checked_out[d]}

\* max() keeps the first of equals; ids follow the order of the list.
Healthiest(S) ==
  CHOOSE s \in S : \A t \in S : \/ s.health_score > t.health_score
                                \/ s.health_score = t.health_score /\ s.session_id <= t.session_id

NextProxy == IF Proxies = <<>> THEN None ELSE Proxies[next_index + 1]

Lease(j, pc) ==
  LET d == job[j].domain
      mints == Live(d) = {}
      s == IF mints THEN [session_id |-> minted + 1, proxy |-> NextProxy, health_score |-> 0, uses |-> 0]
           ELSE Healthiest(Live(d))
  IN /\ mints => minted < MaxSessions
     /\ minted' = minted + (IF mints THEN 1 ELSE 0)
     /\ next_index' = IF mints /\ Proxies # <<>> THEN (next_index + 1) % Len(Proxies) ELSE next_index
     /\ sessions' = [sessions EXCEPT ![d] = @ \cup {s}]
     /\ checked_out' = [checked_out EXCEPT ![d] = @ \cup {s.session_id}]
     /\ job' = [job EXCEPT ![j].pc = pc, ![j].session = s]
     /\ UNCHANGED sweep_counter

\* The swept domains: every session of theirs has retired.
Swept(now) ==
  IF (sweep_counter + 1) % SWEEP_INTERVAL_RELEASES # 0 THEN {}
  ELSE {d \in Domains : \A s \in now[d] : Retired(s)}

Release(j, success, blocked) ==
  LET d == job[j].domain
      s == job[j].session
      now == [sessions EXCEPT ![d] = {t \in @ : t.session_id # s.session_id}
                                     \cup {ScoreOutcome(s, success, blocked)}]
  IN /\ sessions' = [e \in Domains |-> IF e \in Swept(now) THEN {} ELSE now[e]]
     /\ checked_out' = [e \in Domains |-> IF e \in Swept(now) THEN {}
                                          ELSE IF e = d THEN checked_out[e] \ {s.session_id}
                                          ELSE checked_out[e]]
     /\ sweep_counter' = (sweep_counter + 1) % SWEEP_INTERVAL_RELEASES
     /\ UNCHANGED <<next_index, minted>>

ReleaseIfHeld(j, success, blocked) ==
  IF job[j].session = None THEN UNCHANGED poolVars ELSE Release(j, success, blocked)

----------------------------------------------------------------------------
\* Tier 1, the impersonated HTTP fetch.

DetectBlock(a) == a.status \in BLOCK_STATUS_CODES \/ a.challenge
\* FetchResult.ok; None stands for a refused destination or a failed transport.
Usable(a) == a # None /\ ~DetectBlock(a) /\ a.status \in 200 .. 299 /\ a.body

\* Without use_proxy there is no lease; a domain known to need a browser skips the tier.
Tier1(j) ==
  /\ job[j].pc = "tier1" /\ job[j].session = None
  /\ \/ job[j].use_proxy /\ Lease(j, "tier1")
     \/ /\ ~job[j].use_proxy /\ \E a \in Answers : Usable(a)
        /\ Goto(j, "leave") /\ UNCHANGED poolVars
     \/ Goto(j, "tier2") /\ UNCHANGED poolVars
  /\ UNCHANGED <<node, slots, browserVars, client, stranded, runs>>

Tier1Returns(j) ==
  /\ job[j].pc = "tier1" /\ job[j].session # None
  /\ \E a \in Answers \cup {None} :
       /\ Release(j, Usable(a), FALSE)
       /\ job' = [job EXCEPT ![j].session = None, ![j].pc = IF Usable(a) THEN "leave" ELSE "tier2"]
  /\ UNCHANGED <<node, slots, browserVars, client, stranded, runs>>

\* A host name getaddrinfo cannot encode raises UnicodeError, which nothing here catches.
Tier1Raises(j) ==
  /\ job[j].pc = "tier1" /\ job[j].session # None /\ ~job[j].robots
  /\ stranded' = stranded \cup {job[j].session.session_id}
  /\ job' = [job EXCEPT ![j].pc = "leave", ![j].session = None]
  /\ UNCHANGED <<node, slots, poolVars, browserVars, client, runs>>

----------------------------------------------------------------------------
\* Tier 2, the browser.

ToBrowser(j) ==
  /\ job[j].pc = "tier2" /\ job[j].session = None
  /\ \/ job[j].use_proxy /\ Lease(j, "parse")
     \/ ~job[j].use_proxy /\ Goto(j, "start") /\ UNCHANGED poolVars
  /\ UNCHANGED <<node, slots, browserVars, client, stranded, runs>>

\* Only a proxy with a number for a port can be cut into Playwright's shape;
\* the call stands before the try block.
ParseProxyUrl(j) ==
  LET odd == job[j].session.proxy = "odd" IN
  /\ job[j].pc = "parse"
  /\ stranded' = IF odd THEN stranded \cup {job[j].session.session_id} ELSE stranded
  /\ job' = [job EXCEPT ![j].pc = IF odd THEN "leave" ELSE "start",
                        ![j].session = IF odd THEN None ELSE @]
  /\ UNCHANGED <<node, slots, poolVars, browserVars, client, runs>>

\* engine.start: the context, then its page and its route.
StartEngine(j) ==
  /\ job[j].pc = "start"
  /\ \E made, scripted, paged \in BOOLEAN :
       /\ NewContext(made, scripted)
       /\ job' = [job EXCEPT ![j].context = made /\ scripted, ![j].buffer = NoBuffer,
                             ![j].pc = IF made /\ scripted /\ paged THEN "crawl" ELSE "fault"]
  /\ UNCHANGED <<node, slots, poolVars, chromium, client, stranded, runs>>

\* crawl never raises: a fault is an error in the payload, as a challenge is.
Crawl(j) ==
  /\ job[j].pc = "crawl"
  /\ \E a \in Answers \cup {None} :
       LET blocked == a # None /\ DetectBlock(a)
           success == a # None /\ ~blocked
       IN /\ a # None => chromium > 0
          /\ ReleaseIfHeld(j, success, blocked)
          /\ job' = [job EXCEPT ![j].pc = "tail", ![j].session = None, ![j].buffer = NoBuffer]
  /\ UNCHANGED <<node, slots, browserVars, client, stranded, runs>>

\* Publish, store and record; or report the failure.  Each call may raise.
Finish(j) ==
  /\ job[j].pc = "tail"
  /\ \/ Goto(j, "close")
     \/ Goto(j, "fault")
  /\ UNCHANGED <<node, slots, poolVars, browserVars, client, stranded, runs>>

\* The last handler: a session still held goes back unscored for success.
Fault(j) ==
  /\ job[j].pc = "fault"
  /\ ReleaseIfHeld(j, FALSE, FALSE)
  /\ job' = [job EXCEPT ![j].pc = "close", ![j].session = None]
  /\ UNCHANGED <<node, slots, browserVars, client, stranded, runs>>

Close(j) ==
  /\ job[j].pc = "close"
  /\ CloseContext(j)
  /\ job' = [job EXCEPT ![j].pc = "leave", ![j].context = FALSE, ![j].buffer = NoBuffer]
  /\ UNCHANGED <<node, slots, poolVars, chromium, client, stranded, runs>>

----------------------------------------------------------------------------
\* The response listener of the page; it runs while the page is open.

\* What arrives after crawl has returned meets the same checks and is left out.
Listening(j) == job[j].pc = "crawl" /\ chromium > 0

\* The count is checked before the body is awaited.
Respond(j, size) ==
  LET buf == job[j].buffer IN
  /\ Listening(j) /\ buf.seen < MaxResponses
  /\ buf.captured < INTERCEPT_MAX_COUNT
  /\ job' = [job EXCEPT ![j].buffer = [buf EXCEPT !.seen = @ + 1, !.inflight[size] = @ + 1]]
  /\ UNCHANGED <<node, slots, poolVars, browserVars, client, stranded, runs>>

\* Mutant of Fits: the total of all bytes seen before this one is what counts.
FitsBefore(buf, size) == size <= INTERCEPT_MAX_RESPONSE_BYTES /\ buf.bytes <= INTERCEPT_MAX_TOTAL_BYTES
Fits(buf, size) ==
  size <= INTERCEPT_MAX_RESPONSE_BYTES /\ buf.bytes + size <= INTERCEPT_MAX_TOTAL_BYTES

\* The body arrives; what is not JSON, or JSON behind a guard, is not kept.
Capture(j, size) ==
  LET buf == job[j].buffer IN
  /\ Listening(j) /\ buf.inflight[size] > 0
  /\ \E json \in BOOLEAN :
       LET kept == json /\ Fits(buf, size) IN
       job' = [job EXCEPT ![j].buffer =
                 [buf EXCEPT !.inflight[size] = @ - 1,
                             !.captured = @ + (IF kept THEN 1 ELSE 0),
                             !.bytes = @ + (IF kept THEN size ELSE 0)]]
  /\ UNCHANGED <<node, slots, poolVars, browserVars, client, stranded, runs>>

----------------------------------------------------------------------------
\* Shutdown: CancelledError passes every `except Exception` and runs the finally blocks.

Unwound(pc) == CASE pc \in {"idle", "wait"} -> "idle"
                 [] pc \in {"begin", "tier1", "tier2", "parse", "leave"} -> "leave"
                 [] OTHER -> "close"
Stop ==
  /\ node = "up" /\ node' = "stopping"
  /\ job' = [j \in Jobs |-> IF Unwound(job[j].pc) = "idle" THEN Idle
                            ELSE [job[j] EXCEPT !.pc = Unwound(@)]]
  /\ UNCHANGED <<slots, poolVars, browserVars, client, stranded, runs>>

CloseAll ==
  /\ node = "stopping" /\ \A j \in Jobs : job[j].pc = "idle"
  /\ node' = "gone" /\ chromium' = 0 /\ contexts' = 0 /\ client' = "none"
  /\ UNCHANGED <<job, slots, poolVars, stranded, runs>>

ProcessJob(j) ==
  \/ WaitForSlot(j) \/ TurnedAway(j) \/ ServedByTurbo(j) \/ ToTiers(j)
  \/ Tier1(j) \/ Tier1Returns(j) \/ Tier1Raises(j) \/ ToBrowser(j) \/ ParseProxyUrl(j)
  \/ StartEngine(j) \/ Crawl(j) \/ Finish(j) \/ Fault(j) \/ Close(j) \/ Leave(j)

Next ==
  \/ Boot \/ Crash \/ Stop \/ CloseAll
  \/ \E j \in Jobs : Start(j) \/ ProcessJob(j)
  \/ \E j \in Jobs, size \in Bodies : Respond(j, size) \/ Capture(j, size)

Spec == Init /\ [][Next]_vars

----------------------------------------------------------------------------
Running(j) == job[j].pc # "idle"
OnLoan(j) == node = "up" /\ job[j].session # None

\* Everything a job holds has its type, and a session id is minted once.
TypeOK ==
  /\ node \in {"booting", "up", "stopping", "gone"}
  /\ \A j \in Jobs :
       /\ job[j].pc \in {"idle", "wait", "begin", "tier1", "tier2", "parse", "start", "crawl",
                         "tail", "fault", "close", "leave"}
       /\ job[j].session \in Session \cup {None}
       /\ job[j].context => job[j].pc \in {"crawl", "tail", "fault", "close"}
  /\ slots \in [Domains -> 0 .. default_budget]
  /\ \A d \in Domains : sessions[d] \subseteq Session /\ checked_out[d] \subseteq 1 .. minted
  /\ \A d, e \in Domains : \A s \in sessions[d], t \in sessions[e] :
       s.session_id = t.session_id => d = e /\ s = t
  /\ sweep_counter \in 0 .. SWEEP_INTERVAL_RELEASES - 1
  /\ chromium \in 0 .. 1 /\ client \in {"none", "open"}
  /\ stranded \subseteq 1 .. minted /\ runs \in 0 .. MaxRuns

(* SessionPool (sessions.py) scores from the caller's copy and trusts the   *)
(* callers to release once per lease.  No session is on loan to two jobs,   *)
(* the copy a job will score from is the pool's own, so no score is lost or *)
(* given twice, and a lease ends with its job: an id stays checked out only *)
(* for a job that runs, or after a raise between the lease and the code     *)
(* that guards it.                                                          *)
LeasesSound ==
  /\ \A j, k \in Jobs : OnLoan(j) /\ OnLoan(k) /\ job[j].domain = job[k].domain
                          /\ job[j].session.session_id = job[k].session.session_id => j = k
  /\ \A j \in Jobs : OnLoan(j) =>
       /\ job[j].session \in sessions[job[j].domain] /\ ~Retired(job[j].session)
       /\ job[j].session.session_id \in checked_out[job[j].domain]
  /\ node = "up" => \A d \in Domains : \A id \in checked_out[d] \ stranded :
       \E j \in Jobs : OnLoan(j) /\ job[j].domain = d /\ job[j].session.session_id = id

(* process_job gives back its slot, and engine.close its context, on every  *)
(* way out: a semaphore is short by the jobs that hold a slot and no more,  *)
(* and every context open in Chromium is one a job will close.              *)
NothingLeaks ==
  /\ \A d \in Domains :
       slots[d] + Cardinality({j \in Jobs : job[j].domain = d /\ job[j].slot}) = default_budget
  /\ contexts = IF chromium = 0 THEN 0 ELSE Cardinality({j \in Jobs : job[j].context})
  /\ node = "gone" => chromium = 0 /\ client = "none" /\ \A j \in Jobs : ~Running(j)

(* SEC-3 (engine.py): a page that answers with many bodies at once cannot   *)
(* fill the memory of the worker past the total: the sum is compared after  *)
(* the body is in hand, with no await before it is raised.  (The count of   *)
(* captures, compared before, may pass its cap by the bodies in flight.)    *)
BufferWithinBytes ==
  \A j \in Jobs : job[j].buffer.bytes <= INTERCEPT_MAX_TOTAL_BYTES

============================================================================
