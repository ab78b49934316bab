------------------------------ MODULE LlmProvider ------------------------------
(***************************************************************************)
(* Calls to language models: the provider a process builds at import, its  *)
(* circuit breaker, semaphore and retries, and the two-level cache of      *)
(* overlays whose second level all processes share.                        *)
(*                                                                         *)
(* A step is the code between two awaits of one call.  A page is known by  *)
(* the sample compact_html_for_prompt leaves of it, an overlay by where it *)
(* comes from; the content of prompts and answers is left out.             *)
(***************************************************************************)
EXTENDS LlmModels, Integers, FiniteSets, SequencesExt

CONSTANTS
  Processes,
  Calls,        \* calls that may be in flight together
  Pages,
  Sample,       \* page -> the text of it that is sent
  Asked,        \* the calls that are made: <<process, job, page>>, job in AIJob or "timed"
  Settings,     \* process -> [provider, configured, pin, override]
  breaker_threshold, max_retries, max_concurrency,
  result_cache_maxsize,
  Missing

Jobs == AIJob \cup {"timed"}
Samples == {Sample[g] : g \in Pages}
Providers == {"openrouter", "local", "noop"}

Setting == [provider : STRING, configured : BOOLEAN, pin : ModelIds \cup {Unset},
            override : [AIJob -> ModelIds \cup {Unset}]]

ASSUME LlmAssumption ==
  /\ Settings \in [Processes -> Setting]
  /\ Sample \in [Pages -> Samples] /\ Asked \subseteq Processes \X Jobs \X Pages
  /\ {breaker_threshold, max_retries, max_concurrency, result_cache_maxsize} \subseteq Nat \ {0}
  /\ IsFiniteSet(Calls) /\ Missing \notin Pages \cup Processes

VARIABLES
  provider,       \* process -> what create_ai_provider returned
  failure_count,  \* process -> failed calls since the last success, up to the threshold
  offline,        \* process -> offline_until lies ahead
  lru,            \* process -> LocalLRUCache, oldest first
  valkey,         \* key -> entry of the shared level, or Missing
  inflight        \* call -> where it stands
providerVars == <<provider, failure_count, offline, lru, valkey, inflight>>
cacheVars == <<lru, valkey>>
breakerVars == <<failure_count, offline>>

\* An overlay: who wrote it, for which sample.
Overlay == [by : ModelIds \cup {"local"}, sample : Samples]
CallState ==
  [pc : {"idle", "local", "lookup", "queued", "post", "sleep", "store", "done"},
   process : Processes \cup {Missing}, job : Jobs \cup {"none"}, page : Pages \cup {Missing},
   attempt : 0 .. max_retries, answer : Overlay \cup {Missing}]
At(pc, p, job, page, answer) ==
  [pc |-> pc, process |-> p, job |-> job, page |-> page, attempt |-> 0, answer |-> answer]
NoCall == At("idle", Missing, "none", Missing, Missing)

Profile(p, job) ==
  LET Pinned(j) == ProfileFor(j, Settings[p].override[j]) IN
  IF job = "timed" THEN Timed(Pinned("generate")) ELSE Pinned(job)
Payload == [p \in Processes |-> [job \in Jobs |-> BuildPayload(Profile(p, job), Settings[p].pin)]]

\* Who may answer: the chain of the request, or the one model it names.
Served == [p \in Processes |-> [job \in Jobs |->
             IF Payload[p][job].models = {} THEN {Payload[p][job].model}
             ELSE Payload[p][job].models]]

\* A provider without its key or address is none at all; gemini is an older name.
CreateAiProvider(s) ==
  IF ~s.configured THEN "noop"
  ELSE CASE s.provider \in {"openrouter", "gemini"} -> "openrouter"
         [] s.provider = "local" -> "local"
         [] OTHER -> "noop"

\* Mutant of MakeKey: the model is not part of the key.
MakeKeyOfSample(p, page) == <<"any", Sample[page]>>
MakeKey(p, page) == <<Payload[p]["overlay"].model, Sample[page]>>
CacheKeys == {MakeKey(v[1], v[3]) : v \in {w \in Asked : w[2] = "overlay"}}

ProviderInit ==
  /\ provider = [p \in Processes |-> CreateAiProvider(Settings[p])]
  /\ failure_count = [p \in Processes |-> 0] /\ offline = [p \in Processes |-> FALSE]
  /\ lru = [p \in Processes |-> <<>>] /\ valkey = [k \in CacheKeys |-> Missing]
  /\ inflight = [c \in Calls |-> NoCall]

----------------------------------------------------------------------------
\* AICache: a list in memory, the most recent entry last, over the shared level.

Without(entries, key) ==
  LET at == {i \in DOMAIN entries : entries[i].key = key} IN
  IF at = {} THEN entries ELSE RemoveAt(entries, CHOOSE i \in at : TRUE)
Held(p, key) == {e \in ToSet(lru[p]) : e.key = key}

\* get moves what it finds to the end.
Touch(p, e) == lru' = [lru EXCEPT ![p] = Append(Without(@, e.key), e)]

Put(p, e) ==
  LET longer == Append(Without(lru[p], e.key), e) IN
  lru' = [lru EXCEPT ![p] = IF Len(longer) > result_cache_maxsize THEN Tail(longer) ELSE longer]

\* The TTL of the shared level; the list in memory has none.
Expire(key) ==
  /\ valkey[key] # Missing /\ valkey' = [valkey EXCEPT ![key] = Missing]
  /\ UNCHANGED <<provider, breakerVars, lru, inflight>>

----------------------------------------------------------------------------
\* The circuit breaker.

CheckCircuit(p) == ~offline[p]

RecordFailure(p) ==
  LET count == IF failure_count[p] < breaker_threshold THEN failure_count[p] + 1 ELSE breaker_threshold IN
  /\ failure_count' = [failure_count EXCEPT ![p] = count]
  /\ offline' = IF count = breaker_threshold THEN [offline EXCEPT ![p] = TRUE] ELSE offline

\* A success does not bring the end of a cooldown nearer.
RecordSuccess(p) ==
  /\ failure_count' = [failure_count EXCEPT ![p] = 0]
  /\ UNCHANGED offline

\* cooldown_period_s passes.
CoolDown(p) ==
  /\ offline[p] /\ offline' = [offline EXCEPT ![p] = FALSE]
  /\ UNCHANGED <<provider, failure_count, cacheVars, inflight>>

----------------------------------------------------------------------------
\* One call.

Goto(c, pc) == inflight' = [inflight EXCEPT ![c].pc = pc]
AnsweredAt(c, pc, answer) ==
  inflight' = [inflight EXCEPT ![c] = At(pc, @.process, @.job, @.page, answer)]
Answered(c, answer) == AnsweredAt(c, "done", answer)

\* The breaker is asked before the wait for the semaphore; the request is built there too.
StartCall(c, p, job, page) ==
  inflight' = [inflight EXCEPT ![c] = At(IF CheckCircuit(p) THEN "queued" ELSE "done", p, job, page, Missing)]

Ask(c) ==
  /\ inflight[c].pc = "idle"
  /\ \E v \in Asked :
       LET p == v[1]
           job == v[2]
           page == v[3] IN
       \/ /\ provider[p] = "noop"
          /\ inflight' = [inflight EXCEPT ![c] = At("done", p, job, page, Missing)] /\ UNCHANGED lru
       \/ /\ provider[p] = "local"
          /\ inflight' = [inflight EXCEPT ![c] = At("local", p, job, page, Missing)] /\ UNCHANGED lru
       \/ /\ provider[p] = "openrouter" /\ job # "overlay"
          /\ StartCall(c, p, job, page) /\ UNCHANGED lru
       \/ /\ provider[p] = "openrouter" /\ job = "overlay" /\ Held(p, MakeKey(p, page)) = {}
          /\ inflight' = [inflight EXCEPT ![c] = At("lookup", p, job, page, Missing)] /\ UNCHANGED lru
       \/ /\ provider[p] = "openrouter" /\ job = "overlay"
          /\ \E e \in Held(p, MakeKey(p, page)) :
               /\ Touch(p, e)
               /\ inflight' = [inflight EXCEPT ![c] = At("done", p, job, page, e.value)]
  /\ UNCHANGED <<provider, breakerVars, valkey>>

\* The shared level; an error there is a miss.
Lookup(c) ==
  LET p == inflight[c].process
      key == MakeKey(p, inflight[c].page) IN
  /\ inflight[c].pc = "lookup"
  /\ \/ /\ valkey[key] # Missing
        /\ Put(p, [key |-> key, value |-> valkey[key]]) /\ Answered(c, valkey[key])
     \/ /\ StartCall(c, p, "overlay", inflight[c].page) /\ UNCHANGED lru
  /\ UNCHANGED <<provider, breakerVars, valkey>>

Posting(p) == {c \in Calls : inflight[c].process = p /\ inflight[c].pc \in {"post", "sleep"}}

\* The semaphore is held through the retries.
Enter(c) ==
  /\ inflight[c].pc = "queued" /\ Cardinality(Posting(inflight[c].process)) < max_concurrency
  /\ inflight' = [inflight EXCEPT ![c].pc = "post", ![c].attempt = 1]
  /\ UNCHANGED <<provider, breakerVars, cacheVars>>

\* 408, 429, 5xx, a body without a message, or no response at all.
\* Mutant of Retries: the last attempt is followed by another.
RetriesPast(c) == inflight[c].attempt <= max_retries
Retries(c) == inflight[c].attempt < max_retries

PostFails(c) ==
  /\ inflight[c].pc = "post"
  /\ IF Retries(c)
     THEN Goto(c, "sleep") /\ UNCHANGED breakerVars
     ELSE Answered(c, Missing) /\ RecordFailure(inflight[c].process)
  /\ UNCHANGED <<provider, cacheVars>>

\* Any other 4xx ends the call at once.
PostRefused(c) ==
  /\ inflight[c].pc = "post"
  /\ Answered(c, Missing) /\ RecordFailure(inflight[c].process)
  /\ UNCHANGED <<provider, cacheVars>>

Sleep(c) ==
  /\ inflight[c].pc = "sleep"
  /\ inflight' = [inflight EXCEPT ![c].pc = "post", ![c].attempt = @ + 1]
  /\ UNCHANGED <<provider, breakerVars, cacheVars>>

\* The text of a model.  That of an overlay must parse, and is then written through;
\* of other jobs the caller takes it and nothing is kept.
PostAnswers(c) ==
  LET p == inflight[c].process
      job == inflight[c].job IN
  /\ inflight[c].pc = "post" /\ RecordSuccess(p)
  /\ \/ Answered(c, Missing) /\ UNCHANGED lru
     \/ /\ job = "overlay"
        /\ \E m \in Served[p][job] :
             LET value == [by |-> m, sample |-> Sample[inflight[c].page]] IN
             /\ Put(p, [key |-> MakeKey(p, inflight[c].page), value |-> value])
             /\ AnsweredAt(c, "store", value)
  /\ UNCHANGED <<provider, valkey>>

Store(c) ==
  /\ inflight[c].pc = "store" /\ Goto(c, "done")
  /\ \/ valkey' = [valkey EXCEPT ![MakeKey(inflight[c].process, inflight[c].page)] = inflight[c].answer]
     \/ UNCHANGED valkey
  /\ UNCHANGED <<provider, breakerVars, lru>>

\* A model behind an address of the operator: one request, no breaker, no cache.
LocalGenerate(c) ==
  /\ inflight[c].pc = "local"
  /\ \/ Answered(c, Missing)
     \/ Answered(c, [by |-> "local", sample |-> Sample[inflight[c].page]])
  /\ UNCHANGED <<provider, breakerVars, cacheVars>>

Return(c) ==
  /\ inflight[c].pc = "done" /\ inflight' = [inflight EXCEPT ![c] = NoCall]
  /\ UNCHANGED <<provider, breakerVars, cacheVars>>

----------------------------------------------------------------------------
Advance(c) ==
  \/ Lookup(c) \/ Enter(c) \/ PostFails(c) \/ PostRefused(c) \/ Sleep(c) \/ PostAnswers(c)
  \/ Store(c) \/ LocalGenerate(c) \/ Return(c)

ProviderNext ==
  \/ \E c \in Calls : Ask(c) \/ Advance(c)
  \/ \E p \in Processes : CoolDown(p)
  \/ \E key \in CacheKeys : Expire(key)

ProviderSpec == ProviderInit /\ [][ProviderNext]_providerVars

----------------------------------------------------------------------------

\* Every variable keeps its type; a cache never outgrows its size nor a semaphore its value.
ProviderTypeOK ==
  /\ provider \in [Processes -> Providers]
  /\ failure_count \in [Processes -> 0 .. breaker_threshold] /\ offline \in [Processes -> BOOLEAN]
  /\ lru \in [Processes -> Seq([key : CacheKeys, value : Overlay])]
  /\ valkey \in [CacheKeys -> Overlay \cup {Missing}]
  /\ inflight \in [Calls -> CallState]
  /\ \A p \in Processes :
       /\ Cardinality(Posting(p)) <= max_concurrency
       /\ Len(lru[p]) <= result_cache_maxsize
       /\ \A i, j \in DOMAIN lru[p] : lru[p][i].key = lru[p][j].key => i = j

\* The models whose overlays a process may be handed: those it lets answer, and for one
\* pinned to the model the job has anyway those of the whole chain, since it shares the
\* keys of the processes that ask the chain.
Writers(p) ==
  IF Settings[p].pin = MODEL_OVERLAY THEN InChain(JOB_PROFILES["overlay"]) ELSE Served[p]["overlay"]

(* generate_overlay caches under the model it asked, whichever answered, in *)
(* a store all processes share: an overlay handed out was written for the   *)
(* same sample, by a model the process itself would have let answer, unless *)
(* it is pinned to the first model of the chain that others ask.            *)
OverlayIsOfItsPage ==
  \A c \in Calls :
    LET p == inflight[c].process IN
    inflight[c].job = "overlay" /\ inflight[c].answer # Missing =>
      /\ inflight[c].answer.sample = Sample[inflight[c].page]
      /\ inflight[c].answer.by \in IF provider[p] = "local" THEN {"local"} ELSE Writers(p)

============================================================================
