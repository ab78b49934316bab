------------------------- MODULE ScraperNode_proofs -------------------------
(***************************************************************************)
(* Proofs about ScraperNode for every number of jobs, domains, proxies and *)
(* sessions, and every cap.                                                *)
(*                                                                         *)
(* The argument: a job holds a loan only between the call that takes it    *)
(* and the one that gives it back (PcInv); the id of a session on loan is  *)
(* checked out, so nobody is given it again, and a sweep drops only        *)
(* domains whose sessions have all retired, which a session on loan has    *)
(* not (PoolInv).                                                          *)
(***************************************************************************)
EXTENDS ScraperNode, FiniteSetTheorems, TLAPS

Pcs == {"idle", "wait", "begin", "tier1", "tier2", "parse", "start", "crawl",
        "tail", "fault", "close", "leave"}
Buffer == [captured : Nat, bytes : 0 .. INTERCEPT_MAX_TOTAL_BYTES, inflight : [Bodies -> Nat], seen : Nat]
JobRecord ==
  [pc : Pcs, domain : Domains \cup {None}, slot : BOOLEAN, use_proxy : BOOLEAN, robots : BOOLEAN,
   session : Session \cup {None}, context : BOOLEAN, buffer : Buffer]

Types ==
  /\ node \in {"booting", "up", "stopping", "gone"}
  /\ job \in [Jobs -> JobRecord]
  /\ slots \in [Domains -> 0 .. default_budget]
  /\ sessions \in [Domains -> SUBSET Session] /\ checked_out \in [Domains -> SUBSET (1 .. minted)]
  /\ sweep_counter \in 0 .. SWEEP_INTERVAL_RELEASES - 1 /\ minted \in Nat /\ next_index \in Nat
  /\ Proxies # <<>> => next_index < Len(Proxies)
  /\ chromium \in 0 .. 1 /\ contexts \in Nat /\ client \in {"none", "open"}
  /\ stranded \subseteq 1 .. minted /\ runs \in 0 .. MaxRuns

(* What a job may hold where, and where jobs may be.                       *)
PcInv ==
  /\ \A j \in Jobs :
       /\ IF job[j].pc = "idle" THEN job[j].session = None ELSE job[j].domain \in Domains
       /\ job[j].slot => job[j].pc \notin {"idle", "wait"}
       /\ job[j].context => job[j].pc \in {"crawl", "tail", "fault", "close"}
       /\ job[j].session # None /\ node = "up" => job[j].pc \in {"tier1", "parse", "start", "crawl", "fault"}
       /\ job[j].pc = "parse" => job[j].session # None
       /\ node \in {"booting", "gone"} => job[j].pc = "idle"
       /\ node = "stopping" => job[j].pc \in {"idle", "close", "leave"}
  /\ node = "booting" => chromium = 0 /\ client = "none"
  /\ node = "gone" => chromium = 0 /\ client = "none"

-----------------------------------------------------------------------------
(* Jobs.                                                                   *)

LEMMA IdleTyped == Idle \in JobRecord /\ NoBuffer \in Buffer
<1>1. NoBuffer \in Buffer
  BY NodeAssumption DEF NoBuffer, Buffer
<1> QED
  BY <1>1 DEF Idle, JobRecord, Pcs

LEMMA RecordFields ==
  ASSUME NEW r \in JobRecord
  PROVE  /\ r.pc \in Pcs /\ r.domain \in Domains \cup {None} /\ r.slot \in BOOLEAN
         /\ r.session \in Session \cup {None} /\ r.context \in BOOLEAN /\ r.buffer \in Buffer
BY DEF JobRecord

(* What a step makes of a job: its place, slot, session, context, buffer.   *)
Effect(j, p, g, s, c, b) ==
  /\ job' \in [Jobs -> JobRecord]
  /\ \A k \in Jobs \ {j} : job'[k] = job[k]
  /\ job'[j].pc = p /\ job'[j].domain = job[j].domain /\ job'[j].slot = g
  /\ job'[j].session = s /\ job'[j].context = c /\ job'[j].buffer = b

(* The updates of a job in the actions.                                    *)
LEMMA SetPc ==
  ASSUME job \in [Jobs -> JobRecord], NEW j \in Jobs, NEW p \in Pcs, NEW g \in BOOLEAN,
         NEW s \in Session \cup {None}, NEW c \in BOOLEAN, NEW b \in Buffer,
         job' = [job EXCEPT ![j].pc = p]
  PROVE  Effect(j, p, job[j].slot, job[j].session, job[j].context, job[j].buffer)
<1>1. /\ job'[j] = [job[j] EXCEPT !.pc = p] /\ DOMAIN job' = Jobs
      /\ job' = [k \in Jobs |-> job'[k]] /\ \A k \in Jobs \ {j} : job'[k] = job[k]
  OBVIOUS
<1>2. job'[j] \in JobRecord
  BY <1>1 DEF JobRecord
<1>3. job' \in [Jobs -> JobRecord]
  BY <1>1, <1>2
<1> QED
  BY <1>1, <1>2, <1>3 DEF Effect, JobRecord

LEMMA SetBuffer ==
  ASSUME job \in [Jobs -> JobRecord], NEW j \in Jobs, NEW p \in Pcs, NEW g \in BOOLEAN,
         NEW s \in Session \cup {None}, NEW c \in BOOLEAN, NEW b \in Buffer,
         job' = [job EXCEPT ![j].buffer = b]
  PROVE  Effect(j, job[j].pc, job[j].slot, job[j].session, job[j].context, b)
<1>1. /\ job'[j] = [job[j] EXCEPT !.buffer = b] /\ DOMAIN job' = Jobs
      /\ job' = [k \in Jobs |-> job'[k]] /\ \A k \in Jobs \ {j} : job'[k] = job[k]
  OBVIOUS
<1>2. job'[j] \in JobRecord
  BY <1>1 DEF JobRecord
<1>3. job' \in [Jobs -> JobRecord]
  BY <1>1, <1>2
<1> QED
  BY <1>1, <1>2, <1>3 DEF Effect, JobRecord

LEMMA SetSlot ==
  ASSUME job \in [Jobs -> JobRecord], NEW j \in Jobs, NEW p \in Pcs, NEW g \in BOOLEAN,
         NEW s \in Session \cup {None}, NEW c \in BOOLEAN, NEW b \in Buffer,
         job' = [job EXCEPT ![j].pc = p, ![j].slot = g]
  PROVE  Effect(j, p, g, job[j].session, job[j].context, job[j].buffer)
<1>1. /\ job'[j] = [job[j] EXCEPT !.pc = p, !.slot = g] /\ DOMAIN job' = Jobs
      /\ job' = [k \in Jobs |-> job'[k]] /\ \A k \in Jobs \ {j} : job'[k] = job[k]
  OBVIOUS
<1>2. job'[j] \in JobRecord
  BY <1>1 DEF JobRecord
<1>3. job' \in [Jobs -> JobRecord]
  BY <1>1, <1>2
<1> QED
  BY <1>1, <1>2, <1>3 DEF Effect, JobRecord

LEMMA SetSession ==
  ASSUME job \in [Jobs -> JobRecord], NEW j \in Jobs, NEW p \in Pcs, NEW g \in BOOLEAN,
         NEW s \in Session \cup {None}, NEW c \in BOOLEAN, NEW b \in Buffer,
         job' = [job EXCEPT ![j].pc = p, ![j].session = s]
  PROVE  Effect(j, p, job[j].slot, s, job[j].context, job[j].buffer)
<1>1. /\ job'[j] = [job[j] EXCEPT !.pc = p, !.session = s] /\ DOMAIN job' = Jobs
      /\ job' = [k \in Jobs |-> job'[k]] /\ \A k \in Jobs \ {j} : job'[k] = job[k]
  OBVIOUS
<1>2. job'[j] \in JobRecord
  BY <1>1 DEF JobRecord
<1>3. job' \in [Jobs -> JobRecord]
  BY <1>1, <1>2
<1> QED
  BY <1>1, <1>2, <1>3 DEF Effect, JobRecord

LEMMA SetSessionFirst ==
  ASSUME job \in [Jobs -> JobRecord], NEW j \in Jobs, NEW p \in Pcs, NEW g \in BOOLEAN,
         NEW s \in Session \cup {None}, NEW c \in BOOLEAN, NEW b \in Buffer,
         job' = [job EXCEPT ![j].session = s, ![j].pc = p]
  PROVE  Effect(j, p, job[j].slot, s, job[j].context, job[j].buffer)
<1>1. /\ job'[j] = [job[j] EXCEPT !.session = s, !.pc = p] /\ DOMAIN job' = Jobs
      /\ job' = [k \in Jobs |-> job'[k]] /\ \A k \in Jobs \ {j} : job'[k] = job[k]
  OBVIOUS
<1>2. job'[j] \in JobRecord
  BY <1>1 DEF JobRecord
<1>3. job' \in [Jobs -> JobRecord]
  BY <1>1, <1>2
<1> QED
  BY <1>1, <1>2, <1>3 DEF Effect, JobRecord

LEMMA SetAfterCrawl ==
  ASSUME job \in [Jobs -> JobRecord], NEW j \in Jobs, NEW p \in Pcs, NEW g \in BOOLEAN,
         NEW s \in Session \cup {None}, NEW c \in BOOLEAN, NEW b \in Buffer,
         job' = [job EXCEPT ![j].pc = p, ![j].session = s, ![j].buffer = b]
  PROVE  Effect(j, p, job[j].slot, s, job[j].context, b)
<1>1. /\ job'[j] = [job[j] EXCEPT !.pc = p, !.session = s, !.buffer = b] /\ DOMAIN job' = Jobs
      /\ job' = [k \in Jobs |-> job'[k]] /\ \A k \in Jobs \ {j} : job'[k] = job[k]
  OBVIOUS
<1>2. job'[j] \in JobRecord
  BY <1>1 DEF JobRecord
<1>3. job' \in [Jobs -> JobRecord]
  BY <1>1, <1>2
<1> QED
  BY <1>1, <1>2, <1>3 DEF Effect, JobRecord

LEMMA SetContext ==
  ASSUME job \in [Jobs -> JobRecord], NEW j \in Jobs, NEW p \in Pcs, NEW g \in BOOLEAN,
         NEW s \in Session \cup {None}, NEW c \in BOOLEAN, NEW b \in Buffer,
         job' = [job EXCEPT ![j].pc = p, ![j].context = c, ![j].buffer = b]
  PROVE  Effect(j, p, job[j].slot, job[j].session, c, b)
<1>1. /\ job'[j] = [job[j] EXCEPT !.pc = p, !.context = c, !.buffer = b] /\ DOMAIN job' = Jobs
      /\ job' = [k \in Jobs |-> job'[k]] /\ \A k \in Jobs \ {j} : job'[k] = job[k]
  OBVIOUS
<1>2. job'[j] \in JobRecord
  BY <1>1 DEF JobRecord
<1>3. job' \in [Jobs -> JobRecord]
  BY <1>1, <1>2
<1> QED
  BY <1>1, <1>2, <1>3 DEF Effect, JobRecord

LEMMA SetContextFirst ==
  ASSUME job \in [Jobs -> JobRecord], NEW j \in Jobs, NEW p \in Pcs, NEW g \in BOOLEAN,
         NEW s \in Session \cup {None}, NEW c \in BOOLEAN, NEW b \in Buffer,
         job' = [job EXCEPT ![j].context = c, ![j].buffer = b, ![j].pc = p]
  PROVE  Effect(j, p, job[j].slot, job[j].session, c, b)
<1>1. /\ job'[j] = [job[j] EXCEPT !.context = c, !.buffer = b, !.pc = p] /\ DOMAIN job' = Jobs
      /\ job' = [k \in Jobs |-> job'[k]] /\ \A k \in Jobs \ {j} : job'[k] = job[k]
  OBVIOUS
<1>2. job'[j] \in JobRecord
  BY <1>1 DEF JobRecord
<1>3. job' \in [Jobs -> JobRecord]
  BY <1>1, <1>2
<1> QED
  BY <1>1, <1>2, <1>3 DEF Effect, JobRecord

-----------------------------------------------------------------------------
(* The pool.                                                               *)

(* Sessions on loan, and sessions as a whole: an id names one session, the *)
(* sessions of a domain are finitely many.                                 *)
PoolInv ==
  /\ \A d \in Domains : IsFiniteSet(sessions[d]) /\ \A s \in sessions[d] : s.session_id \in 1 .. minted
  /\ \A d, e \in Domains : \A s \in sessions[d], t \in sessions[e] :
       s.session_id = t.session_id => d = e /\ s = t
  /\ \A j, k \in Jobs : OnLoan(j) /\ OnLoan(k) /\ job[j].session.session_id = job[k].session.session_id => j = k
  /\ \A j \in Jobs : OnLoan(j) =>
       /\ job[j].session \in sessions[job[j].domain] /\ ~ Retired(job[j].session)
       /\ job[j].session.session_id \in checked_out[job[j].domain]
  /\ node \in {"booting", "up"} => \A d \in Domains : \A id \in checked_out[d] \ stranded :
       \E j \in Jobs : OnLoan(j) /\ job[j].domain = d /\ job[j].session.session_id = id

(* A function into the naturals takes a least value on a set.              *)
LEMMA LeastOfImage ==
  ASSUME NEW S, S # {}, NEW f \in [S -> Nat]
  PROVE  \E x \in S : \A y \in S : f[x] <= f[y]
<1> DEFINE T == {f[x] : x \in S}
<1>1. T \subseteq Nat /\ T # {}
  OBVIOUS
<1>2. PICK m \in T : \A n \in T : ~ (<<n, m>> \in OpToRel(<, Nat))
  <2> HIDE DEF T
  <2> QED BY <1>1, NatLessThanWellFounded, WFMin
<1>3. \A n \in T : ~ (n < m)
  BY <1>1, <1>2 DEF OpToRel
<1>4. PICK x \in S : f[x] = m
  OBVIOUS
<1>5. ASSUME NEW y \in S PROVE f[x] <= f[y]
  <2>1. f[y] \in T /\ f[y] \in Nat /\ m \in Nat
    BY <1>1
  <2> HIDE DEF T
  <2> QED BY <2>1, <1>3, <1>4
<1> QED
  BY <1>5

(* A strict order on a finite set has a minimal element: one with the      *)
(* fewest elements below it, which has none.                               *)
LEMMA MinimalElement ==
  ASSUME NEW S, IsFiniteSet(S), S # {}, NEW L,
         \A x \in S : <<x, x>> \notin L,
         \A x, y, z \in S : <<x, y>> \in L /\ <<y, z>> \in L => <<x, z>> \in L
  PROVE  \E x \in S : \A y \in S : <<y, x>> \notin L
<1> DEFINE Below(x) == {y \in S : <<y, x>> \in L}
           f == [x \in S |-> Cardinality(Below(x))]
<1>1. \A x \in S : IsFiniteSet(Below(x)) /\ f[x] \in Nat
  BY FS_Subset, FS_CardinalityType
<1>2. PICK x \in S : \A y \in S : f[x] <= f[y]
  <2>1. f \in [S -> Nat]
    BY <1>1
  <2> HIDE DEF f
  <2> QED BY <2>1, LeastOfImage
<1>3. SUFFICES ASSUME NEW y \in S, <<y, x>> \in L PROVE FALSE
  OBVIOUS
<1>4. Below(y) \subseteq Below(x) /\ y \in Below(x) /\ y \notin Below(y)
  BY <1>3
<1>5. Cardinality(Below(y)) <= Cardinality(Below(x)) /\ Cardinality(Below(y)) # Cardinality(Below(x))
  <2> HIDE DEF Below
  <2> QED BY <1>1, <1>4, FS_Subset
<1> QED
  BY <1>1, <1>2, <1>5

LEMMA SessionFields ==
  ASSUME NEW s \in Session
  PROVE  s.session_id \in Nat /\ s.health_score \in Int /\ s.uses \in Nat /\ s # None
BY NodeAssumption DEF Session

LEMMA HealthiestExists ==
  ASSUME NEW S \in SUBSET Session, IsFiniteSet(S), S # {}
  PROVE  Healthiest(S) \in S
<1> DEFINE Better(s, t) ==
             \/ s.health_score > t.health_score
             \/ s.health_score = t.health_score /\ s.session_id < t.session_id
           L == {p \in S \X S : Better(p[1], p[2])}
<1>1. \A s, t \in S : <<s, t>> \in L <=> Better(s, t)
  OBVIOUS
<1> HIDE DEF L
<1>2. \A s \in S : s.session_id \in Int /\ s.health_score \in Int
  BY SessionFields
<1>3. /\ \A s \in S : <<s, s>> \notin L
      /\ \A s, t, u \in S : <<s, t>> \in L /\ <<t, u>> \in L => <<s, u>> \in L
  BY <1>1, <1>2
<1>4. PICK s \in S : \A t \in S : <<t, s>> \notin L
  BY <1>3, MinimalElement
<1>5. ASSUME NEW t \in S
      PROVE  \/ s.health_score > t.health_score
             \/ s.health_score = t.health_score /\ s.session_id <= t.session_id
  <2>1. ~ Better(t, s)
    BY <1>1, <1>4
  <2>2. /\ s.session_id \in Int /\ s.health_score \in Int
        /\ t.session_id \in Int /\ t.health_score \in Int
    BY <1>2
  <2> QED
    BY <2>1, <2>2
<1> QED
  BY <1>5 DEF Healthiest

(* A lease gives a session of the domain that nobody holds.                *)
LEMMA LeaseFacts ==
  ASSUME Types, PoolInv, NEW j \in Jobs, NEW p \in Pcs, job[j].domain \in Domains, Lease(j, p)
  PROVE  \E s \in Session :
           LET d == job[j].domain IN
           /\ ~ Retired(s) /\ s.session_id \notin checked_out[d] /\ s.session_id \in 1 .. minted'
           /\ s \in sessions[d] \/ s.session_id = minted + 1
           /\ sessions' = [sessions EXCEPT ![d] = @ \cup {s}]
           /\ checked_out' = [checked_out EXCEPT ![d] = @ \cup {s.session_id}]
           /\ job' = [job EXCEPT ![j].pc = p, ![j].session = s]
           /\ minted' \in {minted, minted + 1}
           /\ next_index' \in Nat /\ (Proxies # <<>> => next_index' < Len(Proxies))
           /\ sweep_counter' = sweep_counter
<1> DEFINE d == job[j].domain
           mints == Live(d) = {}
           new == [session_id |-> minted + 1, proxy |-> NextProxy, health_score |-> 0, uses |-> 0]
           s == IF mints THEN new ELSE Healthiest(Live(d))
<1>1. Live(d) \subseteq sessions[d] /\ Live(d) \in SUBSET Session /\ IsFiniteSet(Live(d))
  BY FS_Subset DEF Live, Types, PoolInv
<1>2. next_index' \in Nat /\ (Proxies # <<>> => next_index' < Len(Proxies))
  <2>1. CASE Proxies = <<>>
    BY <2>1 DEF Lease, Types
  <2>2. CASE Proxies # <<>>
    <3>1. Len(Proxies) \in Nat \ {0}
      BY <2>2, NodeAssumption
    <3>2. (next_index + 1) % Len(Proxies) \in 0 .. Len(Proxies) - 1
      BY <3>1 DEF Types
    <3> QED
      BY <2>2, <3>1, <3>2 DEF Lease, Types
  <2> QED
    BY <2>1, <2>2
<1>3. NextProxy \in {"plain", "odd"} \cup {None}
  BY NodeAssumption DEF NextProxy, Types
<1>4. CASE mints
  <2>1. s = new /\ new \in Session /\ minted' = minted + 1 /\ minted \in Nat
    BY <1>3, <1>4 DEF Lease, Types, Session
  <2>2. ~ Retired(new)
    BY NodeAssumption DEF Retired, RETIREMENT_THRESHOLD
  <2>3. new.session_id = minted + 1 /\ minted + 1 \notin checked_out[d]
    BY <2>1 DEF Types
  <2>4. /\ sessions' = [sessions EXCEPT ![d] = @ \cup {s}]
        /\ checked_out' = [checked_out EXCEPT ![d] = @ \cup {s.session_id}]
        /\ job' = [job EXCEPT ![j].pc = p, ![j].session = s]
        /\ sweep_counter' = sweep_counter
    BY DEF Lease
  <2>5. new.session_id \in 1 .. minted'
    BY <2>1, <2>3
  <2> HIDE DEF new, s, d
  <2> QED
    BY <1>2, <2>1, <2>2, <2>3, <2>4, <2>5 DEF d
<1>5. CASE ~ mints
  <2>1. s \in Live(d)
    BY <1>1, <1>5, HealthiestExists
  <2>2. /\ sessions' = [sessions EXCEPT ![d] = @ \cup {s}]
        /\ checked_out' = [checked_out EXCEPT ![d] = @ \cup {s.session_id}]
        /\ job' = [job EXCEPT ![j].pc = p, ![j].session = s]
        /\ sweep_counter' = sweep_counter
    BY DEF Lease
  <2>3. minted' = minted
    BY <1>5 DEF Lease, Types
  <2> HIDE DEF s
  <2>4. ~ Retired(s) /\ s.session_id \notin checked_out[d] /\ s \in sessions[d] /\ s \in Session
    BY <1>1, <2>1 DEF Live
  <2>5. s.session_id \in 1 .. minted'
    BY <2>3, <2>4 DEF PoolInv
  <2> QED
    BY <1>2, <2>2, <2>3, <2>4, <2>5
<1> QED
  BY <1>4, <1>5

LEMMA ScoreTyped ==
  ASSUME NEW s \in Session, NEW good \in BOOLEAN, NEW bad \in BOOLEAN
  PROVE  ScoreOutcome(s, good, bad) \in Session /\ ScoreOutcome(s, good, bad).session_id = s.session_id
<1> DEFINE delta == IF bad THEN BLOCK_DELTA ELSE IF good THEN SUCCESS_DELTA ELSE 0
<1>1. delta \in Int
  BY DEF BLOCK_DELTA, SUCCESS_DELTA
<1>2. ScoreOutcome(s, good, bad) = [s EXCEPT !.health_score = @ + delta, !.uses = @ + 1]
  BY DEF ScoreOutcome
<1> HIDE DEF delta
<1>3. s.health_score + delta \in Int /\ s.uses + 1 \in Nat
  BY <1>1, SessionFields
<1> QED
  BY <1>2, <1>3 DEF Session

(* A release scores one session, puts it back, and sweeps domains in which *)
(* no session is left to lend.                                             *)
Released(j, good, bad, now, swept) ==
  LET d == job[j].domain
      id == job[j].session.session_id IN
  /\ now = [sessions EXCEPT ![d] = {t \in @ : t.session_id # id}
                                   \cup {ScoreOutcome(job[j].session, good, bad)}]
  /\ \A e \in swept : \A s \in now[e] : Retired(s)
  /\ sessions' = [e \in Domains |-> IF e \in swept THEN {} ELSE now[e]]
  /\ checked_out' = [e \in Domains |-> IF e \in swept THEN {}
                                       ELSE IF e = d THEN checked_out[e] \ {id} ELSE checked_out[e]]
  /\ sweep_counter' \in 0 .. SWEEP_INTERVAL_RELEASES - 1
  /\ UNCHANGED <<next_index, minted>>

LEMMA ReleaseFacts ==
  ASSUME Types, NEW j \in Jobs, NEW good \in BOOLEAN, NEW bad \in BOOLEAN,
         job[j].domain \in Domains, job[j].session \in Session, Release(j, good, bad)
  PROVE  \E now \in [Domains -> SUBSET Session], swept \in SUBSET Domains : Released(j, good, bad, now, swept)
<1> DEFINE d   == job[j].domain
           id  == job[j].session.session_id
           new == ScoreOutcome(job[j].session, good, bad)
           now == [sessions EXCEPT ![d] = {t \in @ : t.session_id # id} \cup {new}]
<1>1. now \in [Domains -> SUBSET Session]
  BY ScoreTyped DEF Types
<1>2. sweep_counter' \in 0 .. SWEEP_INTERVAL_RELEASES - 1
  <2>1. sweep_counter' = (sweep_counter + 1) % SWEEP_INTERVAL_RELEASES
    BY DEF Release
  <2> QED
    BY <2>1, NodeAssumption DEF Types
<1>3. /\ sessions' = [e \in Domains |-> IF e \in Swept(now) THEN {} ELSE now[e]]
      /\ checked_out' = [e \in Domains |-> IF e \in Swept(now) THEN {}
                                           ELSE IF e = d THEN checked_out[e] \ {id} ELSE checked_out[e]]
      /\ UNCHANGED <<next_index, minted>>
  BY Zenon DEF Release
<1>4. Swept(now) \subseteq Domains /\ \A e \in Swept(now) : \A s \in now[e] : Retired(s)
  <2> HIDE DEF now
  <2> QED BY DEF Swept
<1>5. now = [sessions EXCEPT ![d] = {t \in @ : t.session_id # id} \cup {new}] /\ Swept(now) \in SUBSET Domains
  BY <1>4
<1>6. Released(j, good, bad, now, Swept(now))
  BY <1>2, <1>3, <1>4, <1>5, Zenon DEF Released
<1> HIDE DEF now
<1> QED
  BY <1>1, <1>5, <1>6

LEMMA ReleaseTyped ==
  ASSUME Types, NEW j \in Jobs, NEW good \in BOOLEAN, NEW bad \in BOOLEAN,
         job[j].domain \in Domains, ReleaseIfHeld(j, good, bad)
  PROVE  /\ sessions' \in [Domains -> SUBSET Session] /\ checked_out' \in [Domains -> SUBSET (1 .. minted')]
         /\ sweep_counter' \in 0 .. SWEEP_INTERVAL_RELEASES - 1
         /\ next_index' = next_index /\ minted' = minted
<1>1. CASE job[j].session = None
  BY <1>1 DEF ReleaseIfHeld, poolVars, Types
<1>2. CASE job[j].session # None
  <2>1. job[j].session \in Session /\ Release(j, good, bad)
    BY <1>2, RecordFields DEF Types, ReleaseIfHeld
  <2>2. PICK now \in [Domains -> SUBSET Session], swept \in SUBSET Domains : Released(j, good, bad, now, swept)
    BY <2>1, ReleaseFacts
  <2>3. /\ sessions' = [e \in Domains |-> IF e \in swept THEN {} ELSE now[e]]
        /\ checked_out' = [e \in Domains |-> IF e \in swept THEN {}
                            ELSE IF e = job[j].domain THEN checked_out[e] \ {job[j].session.session_id}
                            ELSE checked_out[e]]
        /\ sweep_counter' \in 0 .. SWEEP_INTERVAL_RELEASES - 1
        /\ UNCHANGED <<next_index, minted>>
    BY <2>2, Zenon DEF Released
  <2> QED
    BY <2>3 DEF Types
<1> QED
  BY <1>1, <1>2

-----------------------------------------------------------------------------
(* Types and places.                                                       *)

(* Where each step of a job leads, and what the job holds then.            *)
LEMMA Moves ==
  ASSUME job \in [Jobs -> JobRecord], NEW j \in Jobs
  PROVE  LET r == job[j] IN
         /\ WaitForSlot(j) => \E g \in BOOLEAN : /\ g <=> slots[r.domain] > 0
                                                 /\ Effect(j, "begin", g, r.session, r.context, r.buffer)
         /\ TurnedAway(j) \/ ServedByTurbo(j) => Effect(j, "leave", r.slot, r.session, r.context, r.buffer)
         /\ ToTiers(j) => Effect(j, "tier1", r.slot, r.session, r.context, r.buffer)
         /\ Tier1Raises(j) => Effect(j, "leave", r.slot, None, r.context, r.buffer)
         /\ ParseProxyUrl(j) => IF r.session.proxy = "odd"
                                THEN Effect(j, "leave", r.slot, None, r.context, r.buffer)
                                ELSE Effect(j, "start", r.slot, r.session, r.context, r.buffer)
         /\ Finish(j) => \E p \in {"close", "fault"} : Effect(j, p, r.slot, r.session, r.context, r.buffer)
         /\ Close(j) => Effect(j, "leave", r.slot, r.session, FALSE, NoBuffer)
         /\ Crawl(j) => Effect(j, "tail", r.slot, None, r.context, NoBuffer)
         /\ Fault(j) => Effect(j, "close", r.slot, None, r.context, r.buffer)
         /\ Tier1Returns(j) => \E p \in {"leave", "tier2"} : Effect(j, p, r.slot, None, r.context, r.buffer)
<1> DEFINE r == job[j]
<1>0. /\ r.session \in Session \cup {None} /\ r.buffer \in Buffer /\ NoBuffer \in Buffer
      /\ r.slot \in BOOLEAN /\ r.context \in BOOLEAN /\ r.pc \in Pcs
      /\ {"begin", "leave", "tier1", "tier2", "start", "crawl", "fault", "close", "tail"} \subseteq Pcs
  BY RecordFields, IdleTyped DEF Pcs
<1>1. WaitForSlot(j) => \E g \in BOOLEAN : /\ g <=> slots[r.domain] > 0
                                           /\ Effect(j, "begin", g, r.session, r.context, r.buffer)
  <2> SUFFICES ASSUME WaitForSlot(j)
               PROVE  \E g \in BOOLEAN : /\ g <=> slots[r.domain] > 0
                                         /\ Effect(j, "begin", g, r.session, r.context, r.buffer)
    OBVIOUS
  <2>1. CASE slots[r.domain] > 0
    <3>1. job' = [job EXCEPT ![j].pc = "begin", ![j].slot = TRUE]
      BY <2>1 DEF WaitForSlot
    <3> QED
      BY <1>0, <2>1, <3>1, SetSlot
  <2>2. CASE ~ (slots[r.domain] > 0)
    <3>1. job' = [job EXCEPT ![j].pc = "begin", ![j].slot = FALSE]
      <4>1. (slots[r.domain] > 0) = FALSE
        BY <2>2
      <4> QED BY <4>1, Zenon DEF WaitForSlot
    <3> QED
      BY <1>0, <2>2, <3>1, SetSlot
  <2> QED
    BY <2>1, <2>2
<1>2. TurnedAway(j) \/ ServedByTurbo(j) => Effect(j, "leave", r.slot, r.session, r.context, r.buffer)
  BY <1>0, SetPc DEF TurnedAway, ServedByTurbo, Goto
<1>3. ToTiers(j) => Effect(j, "tier1", r.slot, r.session, r.context, r.buffer)
  BY <1>0, SetPc DEF ToTiers, Goto
<1>4. Tier1Raises(j) => Effect(j, "leave", r.slot, None, r.context, r.buffer)
  BY <1>0, SetSession DEF Tier1Raises
<1>5. ParseProxyUrl(j) => IF r.session.proxy = "odd"
                          THEN Effect(j, "leave", r.slot, None, r.context, r.buffer)
                          ELSE Effect(j, "start", r.slot, r.session, r.context, r.buffer)
  <2>1. CASE r.session.proxy = "odd"
    BY <1>0, <2>1, SetSession DEF ParseProxyUrl
  <2>2. CASE r.session.proxy # "odd"
    BY <1>0, <2>2, SetSession DEF ParseProxyUrl
  <2> QED
    BY <2>1, <2>2
<1>6. Finish(j) => \E p \in {"close", "fault"} : Effect(j, p, r.slot, r.session, r.context, r.buffer)
  BY <1>0, SetPc DEF Finish, Goto
<1>7. Close(j) => Effect(j, "leave", r.slot, r.session, FALSE, NoBuffer)
  BY <1>0, SetContext DEF Close
<1>8. Crawl(j) => Effect(j, "tail", r.slot, None, r.context, NoBuffer)
  <2>1. Crawl(j) => job' = [job EXCEPT ![j].pc = "tail", ![j].session = None, ![j].buffer = NoBuffer]
    BY DEF Crawl
  <2> QED
    BY <1>0, <2>1, SetAfterCrawl
<1>9. Fault(j) => Effect(j, "close", r.slot, None, r.context, r.buffer)
  BY <1>0, SetSession DEF Fault
<1>10. Tier1Returns(j) => \E p \in {"leave", "tier2"} : Effect(j, p, r.slot, None, r.context, r.buffer)
  <2>1. Tier1Returns(j) =>
          \E p \in {"leave", "tier2"} : job' = [job EXCEPT ![j].session = None, ![j].pc = p]
    BY DEF Tier1Returns
  <2> QED
    BY <1>0, <2>1, SetSessionFirst
<1> QED
  BY <1>1, <1>2, <1>3, <1>4, <1>5, <1>6, <1>7, <1>8, <1>9, <1>10

(* A new context is noted before its page opens.                           *)
LEMMA StartEngineMoves ==
  ASSUME job \in [Jobs -> JobRecord], NEW j \in Jobs, StartEngine(j)
  PROVE  \E c \in BOOLEAN, p \in {"crawl", "fault"} :
           /\ Effect(j, p, job[j].slot, job[j].session, c, NoBuffer)
           /\ contexts' = contexts + (IF c THEN 1 ELSE 0)
           /\ c => chromium > 0
<1>1. PICK made \in BOOLEAN, scripted \in BOOLEAN, paged \in BOOLEAN :
        /\ NewContext(made, scripted)
        /\ job' = [job EXCEPT ![j].context = made /\ scripted, ![j].buffer = NoBuffer,
                              ![j].pc = IF made /\ scripted /\ paged THEN "crawl" ELSE "fault"]
  BY DEF StartEngine
<1> DEFINE c == made /\ scripted
           p == IF made /\ scripted /\ paged THEN "crawl" ELSE "fault"
<1>2. c \in BOOLEAN /\ p \in {"crawl", "fault"} /\ p \in Pcs
  BY DEF Pcs
<1>3. contexts' = contexts + (IF c THEN 1 ELSE 0) /\ (c => chromium > 0)
  BY <1>1 DEF NewContext
<1>4. job' = [job EXCEPT ![j].context = c, ![j].buffer = NoBuffer, ![j].pc = p]
  BY <1>1
<1> HIDE DEF c, p
<1> QED
  BY <1>2, <1>3, <1>4, SetContextFirst, IdleTyped

(* A step of one job keeps PcInv when what the job holds fits its place.   *)
LEMMA PcStep ==
  ASSUME PcInv, NEW j \in Jobs, NEW p, NEW g, NEW s, NEW c, NEW b, Effect(j, p, g, s, c, b),
         node' = node, chromium' = chromium, node \in {"booting", "gone"} => client' = client,
         job[j].pc # "idle", p \notin {"idle", "wait"},
         c => p \in {"crawl", "tail", "fault", "close"},
         s # None /\ node = "up" => p \in {"tier1", "parse", "start", "crawl", "fault"},
         p = "parse" => s # None,
         node = "stopping" => p \in {"close", "leave"}
  PROVE  PcInv'
<1>1. job[j].domain \in Domains /\ node \notin {"booting", "gone"}
  BY DEF PcInv
<1>2. ASSUME NEW k \in Jobs
      PROVE  /\ IF job'[k].pc = "idle" THEN job'[k].session = None ELSE job'[k].domain \in Domains
             /\ job'[k].slot => job'[k].pc \notin {"idle", "wait"}
             /\ job'[k].context => job'[k].pc \in {"crawl", "tail", "fault", "close"}
             /\ job'[k].session # None /\ node = "up" =>
                  job'[k].pc \in {"tier1", "parse", "start", "crawl", "fault"}
             /\ job'[k].pc = "parse" => job'[k].session # None
             /\ node = "stopping" => job'[k].pc \in {"idle", "close", "leave"}
  <2>1. CASE k = j
    BY <1>1, <2>1 DEF Effect
  <2>2. CASE k # j
    <3>1. job'[k] = job[k]
      BY <2>2 DEF Effect
    <3> QED
      BY <3>1 DEF PcInv
  <2> QED
    BY <2>1, <2>2
<1> QED
  BY <1>1, <1>2 DEF PcInv

LEMMA QuietStep ==
  ASSUME Types, PcInv, PoolInv, NEW j \in Jobs,
         \/ WaitForSlot(j) \/ TurnedAway(j) \/ ServedByTurbo(j) \/ ToTiers(j) \/ Tier1Raises(j)
         \/ ParseProxyUrl(j) \/ StartEngine(j) \/ Finish(j) \/ Close(j)
  PROVE  Types' /\ PcInv'
<1>0. job \in [Jobs -> JobRecord] /\ job[j] \in JobRecord
  BY DEF Types
<1>1. CASE WaitForSlot(j)
  <2>1. PICK g \in BOOLEAN : Effect(j, "begin", g, job[j].session, job[j].context, job[j].buffer)
    BY <1>0, <1>1, Moves
  <2>2. job[j].pc = "wait" /\ job[j].domain \in Domains /\ node = "up"
    BY <1>1 DEF WaitForSlot, PcInv, Types
  <2>3. slots' \in [Domains -> 0 .. default_budget]
    <3>1. slots[job[j].domain] \in 0 .. default_budget
      BY <2>2 DEF Types
    <3>a. default_budget \in Nat
      BY NodeAssumption
    <3>2. (IF slots[job[j].domain] > 0 THEN slots[job[j].domain] - 1 ELSE 0) \in 0 .. default_budget
      BY <3>1, <3>a
    <3> QED
      BY <1>1, <3>2 DEF WaitForSlot, Types
  <2>4. Types'
    BY <1>1, <2>1, <2>3 DEF Types, WaitForSlot, poolVars, browserVars, Effect
  <2>5. job[j].context = FALSE /\ job[j].session = None
    BY <2>2, RecordFields DEF PcInv, Types
  <2>6. node' = node /\ chromium' = chromium /\ client' = client
    BY <1>1 DEF WaitForSlot, browserVars
  <2> QED
    BY <2>1, <2>2, <2>4, <2>5, <2>6, PcStep
<1>2. CASE TurnedAway(j) \/ ServedByTurbo(j)
  <2>1. Effect(j, "leave", job[j].slot, job[j].session, job[j].context, job[j].buffer)
    BY <1>0, <1>2, Moves
  <2>2. /\ job[j].pc = "begin" /\ client' = "open"
        /\ UNCHANGED <<node, slots, poolVars, browserVars, stranded, runs>>
    BY <1>2 DEF TurnedAway, ServedByTurbo
  <2>3. node = "up"
    BY <2>2 DEF PcInv, Types
  <2>4. Types'
    BY <2>1, <2>2 DEF Types, poolVars, browserVars, Effect
  <2>5. job[j].context = FALSE /\ job[j].session = None
    BY <2>2, <2>3, RecordFields DEF PcInv, Types
  <2> QED
    BY <2>1, <2>2, <2>3, <2>4, <2>5, PcStep DEF browserVars
<1>3. CASE ToTiers(j)
  <2>1. Effect(j, "tier1", job[j].slot, job[j].session, job[j].context, job[j].buffer)
    BY <1>0, <1>3, Moves
  <2>2. job[j].pc = "begin" /\ node = "up" /\ client' \in {"open", client}
    BY <1>3 DEF ToTiers, PcInv, Types
  <2>3. Types'
    BY <1>3, <2>1, <2>2 DEF Types, ToTiers, poolVars, browserVars, Effect
  <2> QED
    BY <1>3, <2>1, <2>2, <2>3, PcStep DEF ToTiers, browserVars, PcInv
<1>4. CASE Tier1Raises(j)
  <2>1. Effect(j, "leave", job[j].slot, None, job[j].context, job[j].buffer)
    BY <1>0, <1>4, Moves
  <2>2. job[j].pc = "tier1" /\ node = "up" /\ job[j].session # None
    BY <1>4 DEF Tier1Raises, PcInv, Types
  <2>3. job[j].session.session_id \in 1 .. minted
    BY <2>2 DEF PoolInv, OnLoan, PcInv
  <2>4. Types'
    BY <1>4, <2>1, <2>3 DEF Types, Tier1Raises, poolVars, browserVars, Effect
  <2>5. job[j].context = FALSE
    BY <2>2, RecordFields DEF PcInv, Types
  <2> QED
    BY <1>4, <2>1, <2>2, <2>4, <2>5, PcStep DEF Tier1Raises, browserVars
<1>5. CASE ParseProxyUrl(j)
  <2>1. \E p \in {"leave", "start"}, s \in Session \cup {None} :
          /\ Effect(j, p, job[j].slot, s, job[j].context, job[j].buffer)
          /\ p = "leave" => s = None
    BY <1>0, <1>5, Moves, RecordFields
  <2>2. job[j].pc = "parse" /\ job[j].session # None /\ node = "up"
    BY <1>5 DEF ParseProxyUrl, PcInv, Types
  <2>3. job[j].session.session_id \in 1 .. minted
    BY <2>2 DEF PoolInv, OnLoan, PcInv
  <2>4. stranded' \subseteq 1 .. minted
    BY <1>5, <2>3 DEF ParseProxyUrl, Types
  <2>5. Types'
    BY <1>5, <2>1, <2>4 DEF Types, ParseProxyUrl, poolVars, browserVars, Effect
  <2>6. job[j].context = FALSE
    BY <2>2, RecordFields DEF PcInv, Types
  <2>7. node' = node /\ chromium' = chromium /\ client' = client
    BY <1>5 DEF ParseProxyUrl, browserVars
  <2> QED
    BY <2>1, <2>2, <2>5, <2>6, <2>7, PcStep
<1>6. CASE StartEngine(j)
  <2>1. PICK c \in BOOLEAN, p \in {"crawl", "fault"} :
          /\ Effect(j, p, job[j].slot, job[j].session, c, NoBuffer)
          /\ contexts' = contexts + (IF c THEN 1 ELSE 0)
          /\ c => chromium > 0
    BY <1>0, <1>6, StartEngineMoves
  <2>2. job[j].pc = "start" /\ node = "up"
    BY <1>6 DEF StartEngine, PcInv, Types
  <2>3. Types'
    <3>1. UNCHANGED <<node, slots, poolVars, chromium, client, stranded, runs>>
      BY <1>6 DEF StartEngine
    <3>2. job' \in [Jobs -> JobRecord] /\ contexts' \in Nat
      BY <2>1 DEF Effect, Types
    <3> QED
      BY <3>1, <3>2 DEF Types, poolVars
  <2>4. node' = node /\ chromium' = chromium /\ client' = client
    BY <1>6 DEF StartEngine
  <2> QED
    BY <2>1, <2>2, <2>3, <2>4, PcStep
<1>7. CASE Finish(j)
  <2>1. PICK p \in {"close", "fault"} :
          Effect(j, p, job[j].slot, job[j].session, job[j].context, job[j].buffer)
    BY <1>0, <1>7, Moves
  <2>2. job[j].pc = "tail" /\ node = "up" /\ job[j].session = None
    BY <1>7 DEF Finish, PcInv, Types
  <2>3. Types'
    BY <1>7, <2>1 DEF Types, Finish, poolVars, browserVars, Effect
  <2>4. node' = node /\ chromium' = chromium /\ client' = client
    BY <1>7 DEF Finish, browserVars
  <2> QED
    BY <2>1, <2>2, <2>3, <2>4, PcStep
<1>8. CASE Close(j)
  <2>1. PICK c \in BOOLEAN : ~ c /\ Effect(j, "leave", job[j].slot, job[j].session, c, NoBuffer)
    BY <1>0, <1>8, Moves
  <2>2. /\ job[j].pc = "close" /\ node \in {"up", "stopping"}
        /\ node = "up" => job[j].session = None
    BY <1>8 DEF Close, PcInv, Types
  <2>3. contexts' \in Nat
    BY <1>8 DEF Close, CloseContext, Types
  <2>4. Types'
    BY <1>8, <2>1, <2>3 DEF Types, Close, poolVars, Effect
  <2>5. node' = node /\ chromium' = chromium /\ client' = client
    BY <1>8 DEF Close
  <2> QED
    BY <2>1, <2>2, <2>4, <2>5, PcStep
<1> QED
  BY <1>1, <1>2, <1>3, <1>4, <1>5, <1>6, <1>7, <1>8

-----------------------------------------------------------------------------
(* Loans.                                                                  *)

(* A step that leaves the pool alone keeps PoolInv when no loan is new and *)
(* one that ends without a release is noted as stranded.                   *)
LEMMA PoolUntouched ==
  ASSUME PoolInv, UNCHANGED <<sessions, checked_out, minted>>, stranded \subseteq stranded',
         \A k \in Jobs : OnLoan(k)' =>
           OnLoan(k) /\ job'[k].session = job[k].session /\ job'[k].domain = job[k].domain,
         node' \in {"booting", "up"} =>
           /\ node \in {"booting", "up"}
           /\ \A k \in Jobs : OnLoan(k) => OnLoan(k)' \/ job[k].session.session_id \in stranded'
  PROVE  PoolInv'
<1>1. /\ \A d \in Domains : IsFiniteSet(sessions'[d]) /\ \A s \in sessions'[d] : s.session_id \in 1 .. minted'
      /\ \A d, e \in Domains : \A s \in sessions'[d], t \in sessions'[e] :
           s.session_id = t.session_id => d = e /\ s = t
  BY DEF PoolInv
<1>2. \A j, k \in Jobs :
        OnLoan(j)' /\ OnLoan(k)' /\ job'[j].session.session_id = job'[k].session.session_id => j = k
  BY DEF PoolInv
<1>3. \A j \in Jobs : OnLoan(j)' =>
        /\ job'[j].session \in sessions'[job'[j].domain] /\ ~ Retired(job'[j].session)
        /\ job'[j].session.session_id \in checked_out'[job'[j].domain]
  BY DEF PoolInv
<1>4. ASSUME node' \in {"booting", "up"}, NEW d \in Domains, NEW id \in checked_out'[d] \ stranded'
      PROVE  \E j \in Jobs : OnLoan(j)' /\ job'[j].domain = d /\ job'[j].session.session_id = id
  BY <1>4 DEF PoolInv
<1> QED
  BY <1>1, <1>2, <1>3, <1>4 DEF PoolInv

LEMMA LeaseStep ==
  ASSUME Types, PcInv, PoolInv, NEW j \in Jobs, NEW p \in {"tier1", "parse"}, Lease(j, p),
         job[j].session = None, job[j].pc \in {"tier1", "tier2"},
         UNCHANGED <<node, slots, browserVars, client, stranded, runs>>
  PROVE  /\ Types' /\ PcInv' /\ PoolInv'
         /\ \E s : Effect(j, p, job[j].slot, s, job[j].context, job[j].buffer)
<1> DEFINE d == job[j].domain
<1>0. d \in Domains /\ node = "up" /\ job[j].context = FALSE /\ p \in Pcs
  BY RecordFields DEF PcInv, Types, Pcs
<1>1. PICK s \in Session :
           /\ ~ Retired(s) /\ s.session_id \notin checked_out[d] /\ s.session_id \in 1 .. minted'
           /\ s \in sessions[d] \/ s.session_id = minted + 1
           /\ sessions' = [sessions EXCEPT ![d] = @ \cup {s}]
           /\ checked_out' = [checked_out EXCEPT ![d] = @ \cup {s.session_id}]
           /\ job' = [job EXCEPT ![j].pc = p, ![j].session = s]
           /\ minted' \in {minted, minted + 1}
           /\ next_index' \in Nat /\ (Proxies # <<>> => next_index' < Len(Proxies))
           /\ sweep_counter' = sweep_counter
  BY <1>0, LeaseFacts
<1>2. Effect(j, p, job[j].slot, s, job[j].context, job[j].buffer)
  <2>1. job \in [Jobs -> JobRecord] /\ job[j].slot \in BOOLEAN /\ job[j].context \in BOOLEAN /\ job[j].buffer \in Buffer
    BY RecordFields DEF Types
  <2>2. s \in Session \cup {None} /\ job' = [job EXCEPT ![j].pc = p, ![j].session = s]
    BY <1>1
  <2> HIDE DEF d
  <2> QED
    BY <1>0, <2>1, <2>2, SetSession
<1>3. Types'
  <2>1. sessions' \in [Domains -> SUBSET Session] /\ minted' \in Nat
    <3>1. sessions' = [sessions EXCEPT ![d] = @ \cup {s}] /\ minted' \in {minted, minted + 1}
      BY <1>1
    <3>2. sessions \in [Domains -> SUBSET Session] /\ minted \in Nat
      BY DEF Types
    <3>3. sessions[d] \cup {s} \in SUBSET Session
      BY <1>0, <3>2
    <3>4. minted' \in Nat
      BY <3>1, <3>2
    <3> HIDE DEF d
    <3>5. sessions' \in [Domains -> SUBSET Session]
      BY <3>1, <3>2, <3>3, Zenon
    <3> QED
      BY <3>4, <3>5
  <2>2. checked_out' \in [Domains -> SUBSET (1 .. minted')]
    <3>1. \A e \in Domains : checked_out[e] \subseteq 1 .. minted'
      BY <1>1 DEF Types
    <3>2. checked_out'[d] \subseteq 1 .. minted'
      BY <1>0, <1>1, <3>1 DEF Types
    <3>3. \A e \in Domains \ {d} : checked_out'[e] = checked_out[e]
      BY <1>0, <1>1 DEF Types
    <3>4. checked_out' = [e \in Domains |-> checked_out'[e]]
      BY <1>1 DEF Types
    <3> QED
      BY <3>1, <3>2, <3>3, <3>4
  <2>3. stranded' \subseteq 1 .. minted'
    BY <1>1 DEF Types
  <2> QED
    BY <1>1, <1>2, <2>1, <2>2, <2>3 DEF Types, browserVars, Effect
<1>4. PcInv'
  <2>1. s # None
    BY SessionFields
  <2> QED
    BY <1>0, <1>2, <2>1, PcStep DEF browserVars
<1>5. PoolInv'
  <2>1. /\ \A k \in Jobs \ {j} : job'[k] = job[k]
        /\ job'[j].session = s /\ job'[j].domain = d /\ s # None
    BY <1>2, SessionFields DEF Effect
  <2>2. /\ \A k \in Jobs \ {j} : OnLoan(k)' <=> OnLoan(k)
        /\ OnLoan(j)' /\ ~ OnLoan(j)
    BY <1>0, <2>1 DEF OnLoan
  <2>3. /\ sessions'[d] = sessions[d] \cup {s} /\ checked_out'[d] = checked_out[d] \cup {s.session_id}
        /\ \A e \in Domains \ {d} : sessions'[e] = sessions[e] /\ checked_out'[e] = checked_out[e]
    BY <1>0, <1>1 DEF Types
  <2>4. ASSUME NEW e \in Domains
        PROVE  IsFiniteSet(sessions'[e]) /\ \A t \in sessions'[e] : t.session_id \in 1 .. minted'
    <3>1. IsFiniteSet(sessions'[e])
      <4>1. IsFiniteSet(sessions[e]) /\ IsFiniteSet(sessions[e] \cup {s})
        BY FS_AddElement DEF PoolInv
      <4>2. CASE e = d
        BY <2>3, <4>1, <4>2
      <4>3. CASE e # d
        BY <2>3, <4>1, <4>3
      <4> QED
        BY <4>2, <4>3
    <3>2. \A t \in sessions[e] : t.session_id \in 1 .. minted'
      BY <1>1 DEF PoolInv, Types
    <3> QED
      BY <1>1, <2>3, <3>1, <3>2
  <2>5. \A e \in Domains, t \in Session : t \in sessions[e] /\ t.session_id = s.session_id => e = d /\ t = s
    BY <1>0, <1>1 DEF PoolInv, Types
  <2>6. \A e, f \in Domains : \A t \in sessions'[e], u \in sessions'[f] :
          t.session_id = u.session_id => e = f /\ t = u
    <3>1. sessions \in [Domains -> SUBSET Session]
      BY DEF Types
    <3> QED
      BY <2>3, <2>5, <3>1 DEF PoolInv
  <2>7. \A k \in Jobs \ {j} : OnLoan(k) => job[k].session.session_id # s.session_id /\ job[k].domain \in Domains
    <3> SUFFICES ASSUME NEW k \in Jobs \ {j}, OnLoan(k)
                 PROVE  job[k].session.session_id # s.session_id /\ job[k].domain \in Domains
      OBVIOUS
    <3>1. job[k].domain \in Domains
      BY DEF PcInv, OnLoan
    <3>2. /\ job[k].session \in sessions[job[k].domain]
          /\ job[k].session.session_id \in checked_out[job[k].domain]
      BY DEF PoolInv
    <3>3. job[k].session \in Session
      BY <3>1, <3>2 DEF Types
    <3> QED
      BY <1>1, <2>5, <3>1, <3>2, <3>3
  <2>8. \A k, l \in Jobs :
          OnLoan(k)' /\ OnLoan(l)' /\ job'[k].session.session_id = job'[l].session.session_id => k = l
    BY <2>1, <2>2, <2>7 DEF PoolInv
  <2>9. \A k \in Jobs : OnLoan(k)' =>
          /\ job'[k].session \in sessions'[job'[k].domain] /\ ~ Retired(job'[k].session)
          /\ job'[k].session.session_id \in checked_out'[job'[k].domain]
    <3> SUFFICES ASSUME NEW k \in Jobs, OnLoan(k)'
                 PROVE  /\ job'[k].session \in sessions'[job'[k].domain] /\ ~ Retired(job'[k].session)
                        /\ job'[k].session.session_id \in checked_out'[job'[k].domain]
      OBVIOUS
    <3>1. CASE k = j
      BY <1>0, <1>1, <2>1, <2>3, <3>1
    <3>2. CASE k # j
      <4>1. OnLoan(k) /\ job'[k] = job[k] /\ job[k].domain \in Domains
        BY <2>1, <2>2, <2>7, <3>2
      <4>2. /\ job[k].session \in sessions[job[k].domain] /\ ~ Retired(job[k].session)
            /\ job[k].session.session_id \in checked_out[job[k].domain]
        BY <4>1 DEF PoolInv
      <4>3. \A e \in Domains : sessions[e] \subseteq sessions'[e] /\ checked_out[e] \subseteq checked_out'[e]
        BY <2>3
      <4> QED
        BY <4>1, <4>2, <4>3
    <3> QED
      BY <3>1, <3>2
  <2>10. ASSUME NEW e \in Domains, NEW id \in checked_out'[e] \ stranded'
         PROVE  \E k \in Jobs : OnLoan(k)' /\ job'[k].domain = e /\ job'[k].session.session_id = id
    <3>1. CASE e = d /\ id = s.session_id
      BY <2>1, <2>2, <3>1
    <3>2. CASE ~ (e = d /\ id = s.session_id)
      <4>1. id \in checked_out[e] \ stranded
        BY <2>3, <3>2
      <4>2. PICK k \in Jobs : OnLoan(k) /\ job[k].domain = e /\ job[k].session.session_id = id
        BY <1>0, <4>1 DEF PoolInv
      <4> QED
        BY <2>1, <2>2, <4>2
    <3> QED
      BY <3>1, <3>2
  <2> QED
    BY <2>4, <2>6, <2>8, <2>9, <2>10 DEF PoolInv
<1> QED
  BY <1>2, <1>3, <1>4, <1>5

LEMMA ReleaseStep ==
  ASSUME Types, PcInv, PoolInv, NEW j \in Jobs, NEW good \in BOOLEAN, NEW bad \in BOOLEAN,
         NEW p \in {"leave", "tier2", "tail", "close"}, NEW b \in Buffer,
         job[j].pc \in {"tier1", "crawl", "fault"}, ReleaseIfHeld(j, good, bad),
         Effect(j, p, job[j].slot, None, job[j].context, b),
         job[j].pc = "tier1" => p \in {"leave", "tier2"},
         job[j].pc # "tier1" => p \in {"tail", "close"},
         UNCHANGED <<node, slots, browserVars, client, stranded, runs>>
  PROVE  Types' /\ PcInv' /\ PoolInv'
<1> DEFINE d == job[j].domain
<1>0. d \in Domains /\ node = "up" /\ (job[j].pc = "tier1" => job[j].context = FALSE)
  BY RecordFields DEF PcInv, Types
<1>1. Types'
  <2>1. /\ sessions' \in [Domains -> SUBSET Session] /\ checked_out' \in [Domains -> SUBSET (1 .. minted')]
        /\ sweep_counter' \in 0 .. SWEEP_INTERVAL_RELEASES - 1
        /\ next_index' = next_index /\ minted' = minted
    BY <1>0, ReleaseTyped
  <2>2. job' \in [Jobs -> JobRecord]
    BY DEF Effect
  <2> QED
    BY <2>1, <2>2 DEF Types, browserVars
<1>2. PcInv'
  BY <1>0, PcStep DEF browserVars
<1>3. CASE job[j].session = None
  <2>1. UNCHANGED <<sessions, checked_out, minted>>
    BY <1>3 DEF ReleaseIfHeld, poolVars
  <2>2. \A k \in Jobs : job'[k].session = job[k].session /\ job'[k].domain = job[k].domain
    BY <1>3 DEF Effect
  <2>3. \A k \in Jobs : OnLoan(k)' <=> OnLoan(k)
    BY <2>2 DEF OnLoan
  <2>4. PoolInv'
    BY <1>0, <2>1, <2>2, <2>3, PoolUntouched
  <2> QED
    BY <1>1, <1>2, <2>4
<1>4. CASE job[j].session # None
  <2> DEFINE id  == job[j].session.session_id
             new == ScoreOutcome(job[j].session, good, bad)
  <2>1. job[j].session \in Session /\ Release(j, good, bad) /\ OnLoan(j)
    BY <1>0, <1>4, RecordFields DEF Types, ReleaseIfHeld, OnLoan
  <2>2. new \in Session /\ new.session_id = id
    BY <2>1, ScoreTyped
  <2>a. PICK now \in [Domains -> SUBSET Session], swept \in SUBSET Domains : Released(j, good, bad, now, swept)
    BY <1>0, <2>1, ReleaseFacts
  <2>3. /\ now = [sessions EXCEPT ![d] = {t \in @ : t.session_id # id} \cup {new}]
        /\ \A e \in swept : \A s \in now[e] : Retired(s)
        /\ sessions' = [e \in Domains |-> IF e \in swept THEN {} ELSE now[e]]
        /\ checked_out' = [e \in Domains |-> IF e \in swept THEN {}
                                             ELSE IF e = d THEN checked_out[e] \ {id} ELSE checked_out[e]]
        /\ UNCHANGED <<next_index, minted>>
    BY <2>a, Zenon DEF Released
  <2> HIDE DEF new, id, d
  <2>4. /\ now[d] = {t \in sessions[d] : t.session_id # id} \cup {new}
        /\ \A e \in Domains \ {d} : now[e] = sessions[e]
        /\ sessions \in [Domains -> SUBSET Session]
    BY <1>0, <2>3 DEF Types
  <2>5. /\ \A e \in swept : sessions'[e] = {} /\ checked_out'[e] = {}
        /\ \A e \in Domains \ swept : sessions'[e] = now[e]
        /\ \A e \in Domains \ (swept \cup {d}) : checked_out'[e] = checked_out[e]
        /\ d \notin swept => checked_out'[d] = checked_out[d] \ {id}
    BY <1>0, <2>3
  <2>6. job[j].session \in sessions[d] /\ id \in 1 .. minted /\ minted' = minted
    BY <1>0, <2>1, <2>3 DEF PoolInv, id, d
  <2>7. ASSUME NEW e \in Domains
        PROVE  IsFiniteSet(now[e]) /\ \A t \in now[e] : t.session_id \in 1 .. minted
    <3>1. IsFiniteSet(sessions[e]) /\ \A t \in sessions[e] : t.session_id \in 1 .. minted
      BY DEF PoolInv
    <3>2. CASE e = d
      <4>1. IsFiniteSet({t \in sessions[d] : t.session_id # id})
        BY <3>1, <3>2, FS_Subset
      <4>2. IsFiniteSet({t \in sessions[d] : t.session_id # id} \cup {new})
        BY <4>1, FS_AddElement
      <4> QED
        BY <2>2, <2>4, <2>6, <3>1, <3>2, <4>2
    <3>3. CASE e # d
      BY <2>4, <3>1, <3>3
    <3> QED
      BY <3>2, <3>3
  <2>8. \A e, f \in Domains : \A t \in now[e], u \in now[f] : t.session_id = u.session_id => e = f /\ t = u
    <3>1. \A e, f \in Domains : \A t \in sessions[e], u \in sessions[f] :
            t.session_id = u.session_id => e = f /\ t = u
      BY DEF PoolInv
    <3>2. \A e \in Domains : \A t \in now[e] : (t = new /\ e = d) \/ (t \in sessions[e] /\ t.session_id # id)
      <4>1. \A t \in sessions[d] : t.session_id = id => t = job[j].session
        BY <1>0, <2>6, <3>1 DEF id
      <4>2. \A e \in Domains \ {d} : \A t \in sessions[e] : t.session_id # id
        BY <1>0, <2>6, <3>1 DEF id
      <4> SUFFICES ASSUME NEW e \in Domains, NEW t \in now[e]
                   PROVE  (t = new /\ e = d) \/ (t \in sessions[e] /\ t.session_id # id)
        OBVIOUS
      <4>3. CASE e = d
        <5>1. t \in {u \in sessions[d] : u.session_id # id} \cup {new}
          BY <2>4, <4>3
        <5> QED
          BY <4>3, <5>1
      <4>4. CASE e # d
        BY <2>4, <4>2, <4>4
      <4> QED
        BY <4>3, <4>4
    <3> QED
      BY <2>2, <3>1, <3>2
  <2>9. /\ \A e \in Domains : IsFiniteSet(sessions'[e]) /\ \A s \in sessions'[e] : s.session_id \in 1 .. minted'
        /\ \A e, f \in Domains : \A s \in sessions'[e], t \in sessions'[f] :
             s.session_id = t.session_id => e = f /\ s = t
    <3>1. \A e \in Domains : sessions'[e] = {} \/ sessions'[e] = now[e]
      BY <2>5
    <3>2. \A e \in Domains : IsFiniteSet(sessions'[e]) /\ \A s \in sessions'[e] : s.session_id \in 1 .. minted'
      <4> SUFFICES ASSUME NEW e \in Domains
                   PROVE  IsFiniteSet(sessions'[e]) /\ \A s \in sessions'[e] : s.session_id \in 1 .. minted'
        OBVIOUS
      <4>1. CASE sessions'[e] = {}
        BY <4>1, FS_EmptySet
      <4>2. CASE sessions'[e] = now[e]
        BY <2>6, <2>7, <4>2
      <4> QED
        BY <3>1, <4>1, <4>2
    <3>3. ASSUME NEW e \in Domains, NEW f \in Domains, NEW s \in sessions'[e], NEW t \in sessions'[f],
                 s.session_id = t.session_id
          PROVE  e = f /\ s = t
      <4>1. s \in now[e] /\ t \in now[f]
        BY <3>1, <3>3
      <4> QED
        BY <2>8, <3>3, <4>1
    <3> QED
      BY <3>2, <3>3
  <2>10. /\ \A k \in Jobs \ {j} : job'[k] = job[k] /\ (OnLoan(k)' <=> OnLoan(k))
         /\ ~ OnLoan(j)'
    BY DEF Effect, OnLoan
  <2>11. \A k, l \in Jobs :
           OnLoan(k)' /\ OnLoan(l)' /\ job'[k].session.session_id = job'[l].session.session_id => k = l
    BY <2>10 DEF PoolInv
  <2>12. \A k \in Jobs : OnLoan(k)' =>
           /\ job'[k].session \in sessions'[job'[k].domain] /\ ~ Retired(job'[k].session)
           /\ job'[k].session.session_id \in checked_out'[job'[k].domain]
    <3> SUFFICES ASSUME NEW k \in Jobs, OnLoan(k)'
                 PROVE  /\ job'[k].session \in sessions'[job'[k].domain] /\ ~ Retired(job'[k].session)
                        /\ job'[k].session.session_id \in checked_out'[job'[k].domain]
      OBVIOUS
    <3>1. k # j /\ OnLoan(k) /\ job'[k] = job[k]
      BY <2>10
    <3>2. /\ job[k].session \in sessions[job[k].domain] /\ ~ Retired(job[k].session)
          /\ job[k].session.session_id \in checked_out[job[k].domain]
          /\ job[k].session.session_id # id
      BY <2>1, <3>1 DEF PoolInv, id
    <3>3. job[k].domain \in Domains
      BY <3>1 DEF PcInv, OnLoan
    <3>4. job[k].session \in now[job[k].domain]
      BY <2>4, <3>2, <3>3
    <3>5. job[k].domain \notin swept
      BY <2>3, <3>2, <3>4
    <3> QED
      BY <2>5, <3>1, <3>2, <3>3, <3>4, <3>5
  <2>13. ASSUME NEW e \in Domains, NEW i \in checked_out'[e] \ stranded'
         PROVE  \E k \in Jobs : OnLoan(k)' /\ job'[k].domain = e /\ job'[k].session.session_id = i
    <3>1. i \in checked_out[e] \ stranded /\ (e = d => i # id)
      BY <2>5
    <3>2. PICK k \in Jobs : OnLoan(k) /\ job[k].domain = e /\ job[k].session.session_id = i
      BY <1>0, <3>1 DEF PoolInv
    <3>3. k # j
      BY <3>1, <3>2 DEF id, d
    <3> QED
      BY <2>10, <3>2, <3>3
  <2>14. PoolInv'
    BY <2>9, <2>11, <2>12, <2>13 DEF PoolInv
  <2> QED
    BY <1>1, <1>2, <2>14
<1> QED
  BY <1>3, <1>4

-----------------------------------------------------------------------------
(* Slots and contexts.                                                     *)

SlotHolders(d) == {k \in Jobs : job[k].domain = d /\ job[k].slot}
ContextHolders == {k \in Jobs : job[k].context}
SlotsInv == \A d \in Domains : slots[d] + Cardinality(SlotHolders(d)) = default_budget
ContextsInv == contexts = IF chromium = 0 THEN 0 ELSE Cardinality(ContextHolders)

LEMMA SameHolders ==
  ASSUME SlotsInv, slots' = slots,
         \A k \in Jobs, d \in Domains :
           (job'[k].domain = d /\ job'[k].slot) <=> (job[k].domain = d /\ job[k].slot)
  PROVE  SlotsInv'
<1>1. \A d \in Domains : SlotHolders(d)' = SlotHolders(d)
  BY DEF SlotHolders
<1> QED
  BY <1>1 DEF SlotsInv

LEMMA SameContexts ==
  ASSUME ContextsInv, chromium' = chromium, contexts' = contexts,
         \A k \in Jobs : job'[k].context <=> job[k].context
  PROVE  ContextsInv'
<1>1. ContextHolders' = ContextHolders
  BY DEF ContextHolders
<1> QED
  BY <1>1 DEF ContextsInv

LEMMA FiniteHolders ==
  /\ \A d : IsFiniteSet(SlotHolders(d)) /\ Cardinality(SlotHolders(d)) \in Nat
  /\ IsFiniteSet(ContextHolders) /\ Cardinality(ContextHolders) \in Nat
<1>1. \A d : SlotHolders(d) \subseteq Jobs
  BY DEF SlotHolders
<1>2. ContextHolders \subseteq Jobs /\ IsFiniteSet(Jobs)
  BY NodeAssumption DEF ContextHolders
<1>3. IsFiniteSet(ContextHolders) /\ Cardinality(ContextHolders) \in Nat
  BY <1>2, FS_Subset, FS_CardinalityType
<1>4. ASSUME NEW d PROVE IsFiniteSet(SlotHolders(d)) /\ Cardinality(SlotHolders(d)) \in Nat
  <2>1. IsFiniteSet(SlotHolders(d))
    BY <1>1, <1>2, FS_Subset
  <2> QED
    BY <2>1, FS_CardinalityType
<1> QED
  BY <1>3, <1>4

LEMMA AcquireSlot ==
  ASSUME Types, PcInv, SlotsInv, NEW j \in Jobs, WaitForSlot(j)
  PROVE  SlotsInv'
<1> DEFINE d == job[j].domain
<1>0. d \in Domains /\ ~ job[j].slot /\ job \in [Jobs -> JobRecord] /\ slots[d] \in Nat
  <2>1. default_budget \in Nat /\ slots \in [Domains -> 0 .. default_budget] /\ job \in [Jobs -> JobRecord]
    BY NodeAssumption DEF Types
  <2>2. d \in Domains /\ ~ job[j].slot
    BY DEF WaitForSlot, PcInv
  <2> QED
    BY <2>1, <2>2
<1>1. PICK g \in BOOLEAN : /\ g <=> slots[d] > 0
                           /\ Effect(j, "begin", g, job[j].session, job[j].context, job[j].buffer)
  BY <1>0, Moves
<1>2. slots' = [slots EXCEPT ![d] = IF slots[d] > 0 THEN slots[d] - 1 ELSE 0]
  BY DEF WaitForSlot
<1>3. /\ \A k \in Jobs \ {j} : job'[k] = job[k]
      /\ job'[j].domain = d /\ job'[j].slot = g
  BY <1>1 DEF Effect
<1> HIDE DEF d
<1>4. ASSUME NEW e \in Domains
      PROVE  slots'[e] + Cardinality(SlotHolders(e)') = default_budget
  <2>1. slots[e] + Cardinality(SlotHolders(e)) = default_budget /\ slots[e] \in Nat
    BY NodeAssumption DEF SlotsInv, Types
  <2>2. CASE e = d /\ slots[d] > 0
    <3>1. SlotHolders(e)' = SlotHolders(e) \cup {j}
      BY <1>1, <1>3, <2>2 DEF SlotHolders
    <3>2. j \notin SlotHolders(e)
      BY <1>0 DEF SlotHolders
    <3>3. Cardinality(SlotHolders(e) \cup {j}) = Cardinality(SlotHolders(e)) + 1
      BY <3>2, FiniteHolders, FS_AddElement
    <3>4. slots'[e] = slots[e] - 1
      BY <1>2, <2>2 DEF Types
    <3> QED
      BY <2>1, <3>1, <3>3, <3>4, FiniteHolders
  <2>3. CASE ~ (e = d /\ slots[d] > 0)
    <3>1. SlotHolders(e)' = SlotHolders(e)
      BY <1>0, <1>1, <1>3, <2>3 DEF SlotHolders, d
    <3>2. slots'[e] = slots[e]
      BY <1>0, <1>2, <2>1, <2>3 DEF Types
    <3> QED
      BY <2>1, <3>1, <3>2
  <2> QED
    BY <2>2, <2>3
<1> QED
  BY <1>4 DEF SlotsInv

(* A job that leaves gives back the slot it holds, and its record is blank.*)
LEMMA LeaveStep ==
  ASSUME Types, PcInv, SlotsInv, NEW j \in Jobs, Leave(j)
  PROVE  SlotsInv' /\ slots' \in [Domains -> 0 .. default_budget]
<1> DEFINE d == job[j].domain
<1>0. d \in Domains /\ job[j].slot \in BOOLEAN /\ slots[d] \in Nat
  BY NodeAssumption, RecordFields DEF Leave, PcInv, Types
<1>1. /\ \A k \in Jobs \ {j} : job'[k] = job[k]
      /\ ~ job'[j].slot
  BY DEF Leave, Types, Idle
<1>2. slots' = [slots EXCEPT ![d] = slots[d] + (IF job[j].slot THEN 1 ELSE 0)]
  BY DEF Leave
<1> HIDE DEF d
<1>3. ASSUME NEW e \in Domains
      PROVE  slots'[e] + Cardinality(SlotHolders(e)') = default_budget /\ slots'[e] \in Nat
  <2>1. slots[e] + Cardinality(SlotHolders(e)) = default_budget /\ slots[e] \in Nat
    BY NodeAssumption DEF SlotsInv, Types
  <2>2. CASE e = d /\ job[j].slot
    <3>1. SlotHolders(e)' = SlotHolders(e) \ {j}
      BY <1>1, <2>2 DEF SlotHolders
    <3>2. j \in SlotHolders(e)
      BY <2>2 DEF SlotHolders, d
    <3>3. Cardinality(SlotHolders(e) \ {j}) = Cardinality(SlotHolders(e)) - 1
      BY <3>2, FiniteHolders, FS_RemoveElement
    <3>4. slots'[e] = slots[e] + 1
      BY <1>2, <2>2 DEF Types
    <3> QED
      BY <2>1, <3>1, <3>3, <3>4, FiniteHolders
  <2>3. CASE ~ (e = d /\ job[j].slot)
    <3>1. SlotHolders(e)' = SlotHolders(e)
      BY <1>0, <1>1, <2>3 DEF SlotHolders, d
    <3>2. slots'[e] = slots[e]
      BY <1>0, <1>2, <2>1, <2>3 DEF Types
    <3> QED
      BY <2>1, <3>1, <3>2
  <2> QED
    BY <2>2, <2>3
<1>4. \A e \in Domains : slots'[e] \in 0 .. default_budget
  <2> SUFFICES ASSUME NEW e \in Domains
               PROVE  slots'[e] \in 0 .. default_budget
    OBVIOUS
  <2>1. Cardinality(SlotHolders(e)') \in Nat
    <3>1. SlotHolders(e)' \subseteq Jobs /\ IsFiniteSet(Jobs)
      BY NodeAssumption DEF SlotHolders
    <3> QED
      BY <3>1, FS_Subset, FS_CardinalityType
  <2> QED
    BY <1>3, <2>1, NodeAssumption
<1>5. slots' = [e \in Domains |-> slots'[e]]
  BY <1>2 DEF Types
<1> QED
  BY <1>3, <1>4, <1>5 DEF SlotsInv

LEMMA OpenContext ==
  ASSUME Types, PcInv, ContextsInv, NEW j \in Jobs, StartEngine(j)
  PROVE  ContextsInv'
<1>0. job \in [Jobs -> JobRecord] /\ ~ job[j].context /\ chromium' = chromium
  BY DEF StartEngine, PcInv, Types
<1>1. PICK c \in BOOLEAN, p \in {"crawl", "fault"} :
        /\ Effect(j, p, job[j].slot, job[j].session, c, NoBuffer)
        /\ contexts' = contexts + (IF c THEN 1 ELSE 0)
        /\ c => chromium > 0
  BY <1>0, StartEngineMoves
<1>2. /\ \A k \in Jobs \ {j} : job'[k] = job[k]
      /\ job'[j].context = c
  BY <1>1 DEF Effect
<1>3. CASE c
  <2>1. ContextHolders' = ContextHolders \cup {j} /\ j \notin ContextHolders
    BY <1>0, <1>2, <1>3 DEF ContextHolders
  <2>2. Cardinality(ContextHolders') = Cardinality(ContextHolders) + 1
    BY <2>1, FiniteHolders, FS_AddElement
  <2> QED
    BY <1>0, <1>1, <1>3, <2>2 DEF ContextsInv, Types
<1>4. CASE ~ c
  <2>1. ContextHolders' = ContextHolders
    BY <1>0, <1>2, <1>4 DEF ContextHolders
  <2> QED
    BY <1>0, <1>1, <1>4, <2>1 DEF ContextsInv, Types
<1> QED
  BY <1>3, <1>4

LEMMA ReturnContext ==
  ASSUME Types, PcInv, ContextsInv, NEW j \in Jobs, Close(j)
  PROVE  ContextsInv'
<1>0. /\ job \in [Jobs -> JobRecord] /\ chromium' = chromium
      /\ contexts' = IF job[j].context /\ contexts > 0 THEN contexts - 1 ELSE contexts
  BY DEF Close, CloseContext, Types
<1>1. PICK c \in BOOLEAN : ~ c /\ Effect(j, "leave", job[j].slot, job[j].session, c, NoBuffer)
  BY <1>0, Moves
<1>2. /\ \A k \in Jobs \ {j} : job'[k] = job[k]
      /\ ~ job'[j].context
  BY <1>1 DEF Effect
<1>3. CASE job[j].context
  <2>1. ContextHolders' = ContextHolders \ {j} /\ j \in ContextHolders
    BY <1>2, <1>3 DEF ContextHolders
  <2>2. Cardinality(ContextHolders') = Cardinality(ContextHolders) - 1
    BY <2>1, FiniteHolders, FS_RemoveElement
  <2>3. Cardinality(ContextHolders) > 0
    BY <2>1, FiniteHolders, FS_EmptySet
  <2> QED
    BY <1>0, <1>3, <2>2, <2>3 DEF ContextsInv, Types
<1>4. CASE ~ job[j].context
  <2>1. ContextHolders' = ContextHolders
    BY <1>2, <1>4 DEF ContextHolders
  <2> QED
    BY <1>0, <1>4, <2>1 DEF ContextsInv, Types
<1> QED
  BY <1>3, <1>4

-----------------------------------------------------------------------------
(* The invariant and the steps.                                            *)

Inv == Types /\ PcInv /\ PoolInv /\ SlotsInv /\ ContextsInv

LEMMA EffectKeepsSlots ==
  ASSUME SlotsInv, NEW j \in Jobs, NEW p, NEW s, NEW c, NEW b, Effect(j, p, job[j].slot, s, c, b), slots' = slots
  PROVE  SlotsInv'
<1>1. \A k \in Jobs : job'[k].domain = job[k].domain /\ job'[k].slot = job[k].slot
  BY DEF Effect
<1> QED
  BY <1>1, SameHolders

LEMMA EffectKeepsContexts ==
  ASSUME ContextsInv, NEW j \in Jobs, NEW p, NEW g, NEW s, NEW b,
         Effect(j, p, g, s, job[j].context, b), UNCHANGED browserVars
  PROVE  ContextsInv'
<1>1. \A k \in Jobs : job'[k].context = job[k].context
  BY DEF Effect
<1> QED
  BY <1>1, SameContexts DEF browserVars

LEMMA EffectKeepsLoans ==
  ASSUME Types, PcInv, PoolInv, NEW j \in Jobs, NEW p, NEW g, NEW s, NEW c, NEW b, Effect(j, p, g, s, c, b),
         UNCHANGED <<node, poolVars>>, stranded \subseteq stranded', job[j].pc # "idle",
         s = job[j].session \/ (s = None /\ job[j].session.session_id \in stranded')
  PROVE  PoolInv'
<1>1. \A k \in Jobs \ {j} : job'[k] = job[k]
  BY DEF Effect
<1>2. job'[j].session = s /\ job'[j].domain = job[j].domain
  BY DEF Effect
<1>3. ASSUME NEW k \in Jobs, OnLoan(k)'
      PROVE  OnLoan(k) /\ job'[k].session = job[k].session /\ job'[k].domain = job[k].domain
  BY <1>1, <1>2, <1>3 DEF OnLoan
<1>4. ASSUME NEW k \in Jobs, OnLoan(k)
      PROVE  OnLoan(k)' \/ job[k].session.session_id \in stranded'
  BY <1>1, <1>2, <1>4 DEF OnLoan
<1>5. node' \in {"booting", "up"} => node \in {"booting", "up"}
  OBVIOUS
<1> QED
  BY <1>3, <1>4, <1>5, PoolUntouched DEF poolVars

LEMMA QuietInv ==
  ASSUME Inv, NEW j \in Jobs,
         \/ WaitForSlot(j) \/ TurnedAway(j) \/ ServedByTurbo(j) \/ ToTiers(j) \/ Tier1Raises(j)
         \/ ParseProxyUrl(j) \/ StartEngine(j) \/ Finish(j) \/ Close(j)
  PROVE  Inv'
<1>0. Types' /\ PcInv'
  BY QuietStep DEF Inv
<1> DEFINE r == job[j]
<1>1. job \in [Jobs -> JobRecord]
  BY DEF Inv, Types
<1>2. CASE WaitForSlot(j)
  <2>1. PICK g \in BOOLEAN : Effect(j, "begin", g, r.session, r.context, r.buffer)
    BY <1>1, <1>2, Moves
  <2>2. /\ r.pc # "idle" /\ UNCHANGED <<node, poolVars>> /\ UNCHANGED browserVars
        /\ stranded \subseteq stranded'
    BY <1>2 DEF WaitForSlot
  <2>3. PoolInv'
    BY <2>1, <2>2, EffectKeepsLoans DEF Inv
  <2>4. ContextsInv'
    BY <2>1, <2>2, EffectKeepsContexts DEF Inv
  <2>5. SlotsInv'
    BY <1>2, AcquireSlot DEF Inv
  <2> QED
    BY <1>0, <2>3, <2>4, <2>5 DEF Inv
<1>3. CASE TurnedAway(j) \/ ServedByTurbo(j) \/ ToTiers(j) \/ Finish(j)
  <2>1. \E p \in {"leave", "tier1", "close", "fault"} : Effect(j, p, r.slot, r.session, r.context, r.buffer)
    BY <1>1, <1>3, Moves
  <2>2. /\ r.pc # "idle" /\ UNCHANGED <<node, poolVars>> /\ UNCHANGED browserVars /\ slots' = slots
        /\ stranded \subseteq stranded'
    BY <1>3 DEF TurnedAway, ServedByTurbo, ToTiers, Finish
  <2>3. PoolInv'
    BY <2>1, <2>2, EffectKeepsLoans DEF Inv
  <2>4. ContextsInv'
    BY <2>1, <2>2, EffectKeepsContexts DEF Inv
  <2>5. SlotsInv'
    BY <2>1, <2>2, EffectKeepsSlots DEF Inv
  <2> QED
    BY <1>0, <2>3, <2>4, <2>5 DEF Inv
<1>4. CASE Tier1Raises(j)
  <2>1. Effect(j, "leave", r.slot, None, r.context, r.buffer)
    BY <1>1, <1>4, Moves
  <2>2. /\ r.pc # "idle" /\ UNCHANGED <<node, poolVars>> /\ UNCHANGED browserVars /\ slots' = slots
        /\ stranded \subseteq stranded' /\ r.session.session_id \in stranded'
    BY <1>4 DEF Tier1Raises
  <2>3. PoolInv'
    BY <2>1, <2>2, EffectKeepsLoans DEF Inv
  <2>4. ContextsInv'
    BY <2>1, <2>2, EffectKeepsContexts DEF Inv
  <2>5. SlotsInv'
    BY <2>1, <2>2, EffectKeepsSlots DEF Inv
  <2> QED
    BY <1>0, <2>3, <2>4, <2>5 DEF Inv
<1>5. CASE ParseProxyUrl(j)
  <2>1. PICK p, s : /\ Effect(j, p, r.slot, s, r.context, r.buffer)
                    /\ s = r.session \/ (s = None /\ r.session.proxy = "odd")
    BY <1>1, <1>5, Moves
  <2>2. /\ r.pc # "idle" /\ UNCHANGED <<node, poolVars>> /\ UNCHANGED browserVars /\ slots' = slots
        /\ stranded \subseteq stranded' /\ (r.session.proxy = "odd" => r.session.session_id \in stranded')
    BY <1>5 DEF ParseProxyUrl
  <2>3. PoolInv'
    BY <2>1, <2>2, EffectKeepsLoans DEF Inv
  <2>4. ContextsInv'
    BY <2>1, <2>2, EffectKeepsContexts DEF Inv
  <2>5. SlotsInv'
    BY <2>1, <2>2, EffectKeepsSlots DEF Inv
  <2> QED
    BY <1>0, <2>3, <2>4, <2>5 DEF Inv
<1>6. CASE StartEngine(j) \/ Close(j)
  <2>1. PICK p \in {"crawl", "fault", "leave"}, c \in BOOLEAN : Effect(j, p, r.slot, r.session, c, NoBuffer)
    BY <1>1, <1>6, Moves, StartEngineMoves
  <2>2. /\ r.pc # "idle" /\ UNCHANGED <<node, poolVars>> /\ slots' = slots
        /\ stranded \subseteq stranded'
    BY <1>6 DEF StartEngine, Close
  <2>3. PoolInv'
    BY <2>1, <2>2, EffectKeepsLoans DEF Inv
  <2>4. ContextsInv'
    BY <1>6, OpenContext, ReturnContext DEF Inv
  <2>5. SlotsInv'
    BY <2>1, <2>2, EffectKeepsSlots DEF Inv
  <2> QED
    BY <1>0, <2>3, <2>4, <2>5 DEF Inv
<1> QED
  BY <1>2, <1>3, <1>4, <1>5, <1>6

(* The steps that borrow a session, and those that give it back.           *)
LEMMA SessionInv ==
  ASSUME Inv, NEW j \in Jobs, Tier1(j) \/ ToBrowser(j) \/ Tier1Returns(j) \/ Crawl(j) \/ Fault(j)
  PROVE  Inv'
<1> DEFINE r == job[j]
<1>0. /\ job \in [Jobs -> JobRecord] /\ r.buffer \in Buffer /\ NoBuffer \in Buffer /\ r.pc # "idle"
      /\ UNCHANGED <<node, slots, browserVars, client, stranded, runs>>
  BY RecordFields, IdleTyped DEF Inv, Types, Tier1, ToBrowser, Tier1Returns, Crawl, Fault
<1>1. ASSUME NEW p, NEW s, NEW b, Effect(j, p, r.slot, s, r.context, b)
      PROVE  SlotsInv' /\ ContextsInv'
  BY <1>0, <1>1, EffectKeepsSlots, EffectKeepsContexts DEF Inv
<1>2. CASE \E p \in {"tier1", "parse"} : Lease(j, p) /\ r.session = None /\ r.pc \in {"tier1", "tier2"}
  BY <1>0, <1>1, <1>2, LeaseStep DEF Inv
<1>3. CASE /\ Tier1(j) \/ ToBrowser(j)
           /\ ~ \E p \in {"tier1", "parse"} : Lease(j, p) /\ r.session = None /\ r.pc \in {"tier1", "tier2"}
  <2>1. PICK p \in {"leave", "tier2", "start"} : job' = [job EXCEPT ![j].pc = p] /\ UNCHANGED poolVars
    BY <1>3 DEF Tier1, ToBrowser, Goto
  <2>2. Effect(j, p, r.slot, r.session, r.context, r.buffer)
    BY <1>0, <2>1, SetPc, RecordFields DEF Pcs
  <2>3. r.session = None /\ r.pc \in {"tier1", "tier2"}
    BY <1>3 DEF Tier1, ToBrowser
  <2>4. r.context = FALSE /\ node = "up"
    BY <1>0, <2>3, RecordFields DEF Inv, PcInv, Types
  <2>5. PoolInv'
    BY <1>0, <2>1, <2>2, EffectKeepsLoans DEF Inv
  <2>6. PcInv'
    BY <1>0, <2>2, <2>3, <2>4, PcStep DEF Inv, browserVars
  <2>7. Types'
    BY <1>0, <2>1, <2>2 DEF Inv, Types, Effect, browserVars, poolVars
  <2> QED
    BY <1>1, <2>2, <2>5, <2>6, <2>7 DEF Inv
<1>4. CASE Tier1Returns(j)
  <2>1. PICK p \in {"leave", "tier2"} : Effect(j, p, r.slot, None, r.context, r.buffer)
    BY <1>0, <1>4, Moves
  <2>2. PICK good \in BOOLEAN : Release(j, good, FALSE)
    BY <1>4 DEF Tier1Returns, Usable
  <2>3. ReleaseIfHeld(j, good, FALSE) /\ r.pc = "tier1"
    BY <1>4, <2>2 DEF Tier1Returns, ReleaseIfHeld
  <2>4. Types' /\ PcInv' /\ PoolInv'
    BY <1>0, <2>1, <2>3, ReleaseStep DEF Inv
  <2> QED
    BY <1>1, <2>1, <2>4 DEF Inv
<1>5. CASE Crawl(j)
  <2>1. Effect(j, "tail", r.slot, None, r.context, NoBuffer)
    BY <1>0, <1>5, Moves
  <2>2. PICK good \in BOOLEAN, bad \in BOOLEAN : ReleaseIfHeld(j, good, bad)
    BY <1>5 DEF Crawl, DetectBlock
  <2>3. r.pc = "crawl"
    BY <1>5 DEF Crawl
  <2>4. Types' /\ PcInv' /\ PoolInv'
    BY <1>0, <2>1, <2>2, <2>3, ReleaseStep DEF Inv
  <2> QED
    BY <1>1, <2>1, <2>4 DEF Inv
<1>6. CASE Fault(j)
  <2>1. Effect(j, "close", r.slot, None, r.context, r.buffer)
    BY <1>0, <1>6, Moves
  <2>2. ReleaseIfHeld(j, FALSE, FALSE) /\ r.pc = "fault"
    BY <1>6 DEF Fault
  <2>3. Types' /\ PcInv' /\ PoolInv'
    BY <1>0, <2>1, <2>2, ReleaseStep DEF Inv
  <2> QED
    BY <1>1, <2>1, <2>3 DEF Inv
<1> QED
  BY <1>2, <1>3, <1>4, <1>5, <1>6

LEMMA BufferFields ==
  ASSUME NEW buf \in Buffer
  PROVE  /\ buf.captured \in Nat /\ buf.bytes \in 0 .. INTERCEPT_MAX_TOTAL_BYTES
         /\ buf.inflight \in [Bodies -> Nat] /\ buf.seen \in Nat
BY DEF Buffer

(* A body is counted when its size is known to fit.                        *)
LEMMA BufferSteps ==
  ASSUME NEW buf \in Buffer, NEW size \in Bodies
  PROVE  /\ [buf EXCEPT !.seen = @ + 1, !.inflight[size] = @ + 1] \in Buffer
         /\ \A kept \in BOOLEAN : (kept => Fits(buf, size)) /\ buf.inflight[size] > 0 =>
              [buf EXCEPT !.inflight[size] = @ - 1, !.captured = @ + (IF kept THEN 1 ELSE 0),
                          !.bytes = @ + (IF kept THEN size ELSE 0)] \in Buffer
<1>0. size \in Nat /\ INTERCEPT_MAX_TOTAL_BYTES \in Nat
  BY NodeAssumption
<1>1. [buf EXCEPT !.seen = @ + 1, !.inflight[size] = @ + 1] \in Buffer
  <2>1. [buf.inflight EXCEPT ![size] = @ + 1] \in [Bodies -> Nat] /\ buf.seen + 1 \in Nat
    BY BufferFields
  <2> QED
    BY <2>1 DEF Buffer
<1>2. ASSUME NEW kept \in BOOLEAN, kept => Fits(buf, size), buf.inflight[size] > 0
      PROVE  [buf EXCEPT !.inflight[size] = @ - 1, !.captured = @ + (IF kept THEN 1 ELSE 0),
                         !.bytes = @ + (IF kept THEN size ELSE 0)] \in Buffer
  <2>1. [buf.inflight EXCEPT ![size] = @ - 1] \in [Bodies -> Nat]
    BY <1>2, BufferFields
  <2>2. /\ buf.captured + (IF kept THEN 1 ELSE 0) \in Nat
        /\ buf.bytes + (IF kept THEN size ELSE 0) \in 0 .. INTERCEPT_MAX_TOTAL_BYTES
    BY <1>0, <1>2, BufferFields DEF Fits
  <2> QED
    BY <2>1, <2>2 DEF Buffer
<1> QED
  BY <1>1, <1>2

(* A response enters the buffer when its size is known to fit.             *)
LEMMA ListenInv ==
  ASSUME Inv, NEW j \in Jobs, NEW size \in Bodies, Respond(j, size) \/ Capture(j, size)
  PROVE  Inv'
<1> DEFINE r == job[j]
<1>0. /\ job \in [Jobs -> JobRecord] /\ r \in JobRecord /\ r.buffer \in Buffer /\ r.pc = "crawl"
      /\ UNCHANGED <<node, slots, poolVars, browserVars, client, stranded, runs>>
  BY RecordFields DEF Inv, Types, Respond, Capture, Listening
<1>1. PICK b \in Buffer : job' = [job EXCEPT ![j].buffer = b]
  <2>1. CASE Respond(j, size)
    BY <1>0, <2>1, BufferSteps DEF Respond
  <2>2. CASE Capture(j, size)
    <3>1. PICK json \in BOOLEAN :
            LET kept == json /\ Fits(r.buffer, size) IN
            job' = [job EXCEPT ![j].buffer =
                      [r.buffer EXCEPT !.inflight[size] = @ - 1,
                                       !.captured = @ + (IF kept THEN 1 ELSE 0),
                                       !.bytes = @ + (IF kept THEN size ELSE 0)]]
      BY <2>2 DEF Capture
    <3> DEFINE kept == json /\ Fits(r.buffer, size)
               b == [r.buffer EXCEPT !.inflight[size] = @ - 1, !.captured = @ + (IF kept THEN 1 ELSE 0),
                                     !.bytes = @ + (IF kept THEN size ELSE 0)]
    <3>2. kept \in BOOLEAN /\ (kept => Fits(r.buffer, size)) /\ r.buffer.inflight[size] > 0
      BY <2>2 DEF Capture, Fits
    <3>3. job' = [job EXCEPT ![j].buffer = b]
      BY <3>1
    <3> HIDE DEF kept
    <3>4. b \in Buffer
      BY <1>0, <3>2, BufferSteps
    <3> HIDE DEF b
    <3> QED
      BY <3>3, <3>4
  <2> QED
    BY <2>1, <2>2
<1>2. Effect(j, r.pc, r.slot, r.session, r.context, b)
  BY <1>0, <1>1, SetBuffer, RecordFields
<1>3. PoolInv' /\ SlotsInv' /\ ContextsInv'
  BY <1>0, <1>2, EffectKeepsLoans, EffectKeepsSlots, EffectKeepsContexts DEF Inv
<1>4. node = "up"
  BY <1>0 DEF Inv, PcInv, Types
<1>5. PcInv'
  BY <1>0, <1>2, <1>4, PcStep DEF Inv, browserVars
<1>6. Types'
  BY <1>0, <1>2 DEF Inv, Types, Effect, browserVars, poolVars
<1> QED
  BY <1>3, <1>5, <1>6 DEF Inv

LEMMA StartInv ==
  ASSUME Inv, NEW j \in Jobs, Start(j)
  PROVE  Inv'
<1>1. PICK d \in Domains, proxied \in BOOLEAN, polite \in BOOLEAN :
        job' = [job EXCEPT ![j] = [Idle EXCEPT !.pc = "wait", !.domain = d,
                                               !.use_proxy = proxied, !.robots = polite]]
  BY DEF Start
<1> DEFINE new == [Idle EXCEPT !.pc = "wait", !.domain = d, !.use_proxy = proxied, !.robots = polite]
<1>2. new \in JobRecord
  BY IdleTyped DEF JobRecord, Pcs
<1>3. new.pc = "wait" /\ new.domain = d /\ ~ new.slot /\ new.session = None /\ ~ new.context
  BY DEF Idle
<1>4. /\ node = "up" /\ job[j].pc = "idle" /\ job \in [Jobs -> JobRecord] /\ runs' \in 0 .. MaxRuns
      /\ UNCHANGED <<node, slots, poolVars, browserVars, client, stranded>>
  <2>1. /\ node = "up" /\ job[j].pc = "idle" /\ runs < MaxRuns /\ runs' = runs + 1
        /\ UNCHANGED <<node, slots, poolVars, browserVars, client, stranded>>
    BY DEF Start
  <2>2. job \in [Jobs -> JobRecord] /\ runs \in 0 .. MaxRuns /\ MaxRuns \in Nat
    BY NodeAssumption DEF Inv, Types
  <2> QED
    BY <2>1, <2>2
<1> HIDE DEF new
<1>5. /\ job' \in [Jobs -> JobRecord] /\ job'[j] = new
      /\ \A k \in Jobs \ {j} : job'[k] = job[k]
  BY <1>1, <1>2, <1>4 DEF new
<1>6. job[j].session = None /\ ~ job[j].slot /\ ~ job[j].context
  BY <1>4 DEF Inv, PcInv
<1>7. Types'
  BY <1>4, <1>5 DEF Inv, Types, poolVars, browserVars
<1>8. PcInv'
  BY <1>3, <1>4, <1>5 DEF Inv, PcInv, browserVars
<1>9. PoolInv'
  <2>1. \A k \in Jobs : /\ OnLoan(k)' => OnLoan(k) /\ k # j
                        /\ OnLoan(k) => OnLoan(k)'
    BY <1>3, <1>4, <1>5, <1>6 DEF OnLoan
  <2> QED
    BY <1>4, <1>5, <2>1, PoolUntouched DEF Inv, poolVars
<1>10. SlotsInv'
  BY <1>3, <1>4, <1>5, <1>6, SameHolders DEF Inv
<1>11. ContextsInv'
  BY <1>3, <1>4, <1>5, <1>6, SameContexts DEF Inv, browserVars
<1> QED
  BY <1>7, <1>8, <1>9, <1>10, <1>11 DEF Inv

LEMMA LeaveInv ==
  ASSUME Inv, NEW j \in Jobs, Leave(j)
  PROVE  Inv'
<1>1. SlotsInv' /\ slots' \in [Domains -> 0 .. default_budget]
  BY LeaveStep DEF Inv
<1>2. /\ job[j].pc = "leave" /\ job \in [Jobs -> JobRecord] /\ job' = [job EXCEPT ![j] = Idle]
      /\ UNCHANGED <<node, poolVars, browserVars, client, stranded, runs>>
  BY DEF Leave, Inv, Types
<1>3. Idle.pc = "idle" /\ ~ Idle.slot /\ Idle.session = None /\ ~ Idle.context
  BY DEF Idle
<1>4. /\ job' \in [Jobs -> JobRecord] /\ job'[j] = Idle
      /\ \A k \in Jobs \ {j} : job'[k] = job[k]
  BY <1>2, IdleTyped
<1>5. ~ job[j].context /\ (node = "up" => job[j].session = None)
  BY <1>2 DEF Inv, PcInv
<1>6. Types'
  BY <1>1, <1>2, <1>4 DEF Inv, Types, poolVars, browserVars
<1>7. PcInv'
  BY <1>2, <1>3, <1>4 DEF Inv, PcInv, browserVars
<1>8. PoolInv'
  <2>1. \A k \in Jobs : /\ OnLoan(k)' => OnLoan(k) /\ k # j
                        /\ OnLoan(k) => OnLoan(k)'
    BY <1>2, <1>3, <1>4, <1>5 DEF OnLoan
  <2> QED
    BY <1>2, <1>4, <2>1, PoolUntouched DEF Inv, poolVars
<1>9. ContextsInv'
  BY <1>2, <1>3, <1>4, <1>5, SameContexts DEF Inv, browserVars
<1> QED
  BY <1>1, <1>6, <1>7, <1>8, <1>9 DEF Inv

LEMMA StopInv ==
  ASSUME Inv, Stop
  PROVE  Inv'
<1>0. /\ job \in [Jobs -> JobRecord] /\ node' = "stopping"
      /\ UNCHANGED <<slots, poolVars, browserVars, client, stranded, runs>>
  BY DEF Inv, Types, Stop
<1>1. ASSUME NEW k \in Jobs
      PROVE  /\ job'[k] \in JobRecord
             /\ job'[k].pc \in {"idle", "leave", "close"}
             /\ job'[k].pc = "idle" => job[k].pc \in {"idle", "wait"} /\ job'[k] = Idle
             /\ job'[k].pc # "idle" =>
                  /\ job[k].pc # "idle"
                  /\ job'[k].domain = job[k].domain /\ job'[k].slot = job[k].slot
                  /\ job'[k].context = job[k].context
             /\ job'[k].pc = "leave" => job[k].pc \in {"begin", "tier1", "tier2", "parse", "start", "leave"}
  <2>1. job'[k] = IF Unwound(job[k].pc) = "idle" THEN Idle ELSE [job[k] EXCEPT !.pc = Unwound(job[k].pc)]
    BY DEF Stop
  <2>2. job[k].pc \in Pcs /\ job[k] \in JobRecord /\ Idle.pc = "idle"
    BY <1>0, RecordFields DEF Idle
  <2>3. CASE job[k].pc \in {"idle", "wait"}
    <3>1. job'[k] = Idle
      BY <2>1, <2>3 DEF Unwound
    <3> QED
      BY <2>2, <2>3, <3>1, IdleTyped
  <2>4. CASE job[k].pc \in {"begin", "tier1", "tier2", "parse", "leave"}
    <3>1. job'[k] = [job[k] EXCEPT !.pc = "leave"]
      BY <2>1, <2>4 DEF Unwound
    <3>2. job'[k] \in JobRecord
      BY <2>2, <3>1 DEF JobRecord, Pcs
    <3> QED
      BY <2>2, <2>4, <3>1, <3>2 DEF JobRecord
  <2>5. CASE job[k].pc \in {"start", "crawl", "tail", "fault", "close"}
    <3>1. job'[k] = [job[k] EXCEPT !.pc = "close"]
      BY <2>1, <2>5 DEF Unwound
    <3>2. job'[k] \in JobRecord
      BY <2>2, <3>1 DEF JobRecord, Pcs
    <3> QED
      BY <2>2, <2>5, <3>1, <3>2 DEF JobRecord
  <2> QED
    BY <2>2, <2>3, <2>4, <2>5 DEF Pcs
<1>2. Idle.session = None /\ ~ Idle.slot /\ ~ Idle.context
  BY DEF Idle
<1>3. \A k \in Jobs : job[k].pc \in {"idle", "wait"} => ~ job[k].slot /\ ~ job[k].context
  BY DEF Inv, PcInv
<1>4. Types'
  <2>1. job' \in [Jobs -> JobRecord]
    <3>1. job' = [k \in Jobs |-> job'[k]]
      BY DEF Stop
    <3> QED
      BY <1>1, <3>1
  <2> QED
    BY <1>0, <2>1 DEF Inv, Types, poolVars, browserVars
<1>5. PcInv'
  <2>1. ASSUME NEW k \in Jobs
        PROVE  /\ IF job'[k].pc = "idle" THEN job'[k].session = None ELSE job'[k].domain \in Domains
               /\ job'[k].slot => job'[k].pc \notin {"idle", "wait"}
               /\ job'[k].context => job'[k].pc \in {"crawl", "tail", "fault", "close"}
    <3>1. CASE job'[k].pc = "idle"
      BY <1>1, <1>2, <3>1
    <3>2. CASE job'[k].pc # "idle"
      BY <1>1, <3>2 DEF Inv, PcInv
    <3> QED
      BY <3>1, <3>2
  <2> QED
    BY <1>0, <1>1, <2>1 DEF PcInv
<1>6. PoolInv'
  <2>1. \A k \in Jobs : ~ OnLoan(k)'
    BY <1>0 DEF OnLoan
  <2> QED
    BY <1>0, <2>1, PoolUntouched DEF Inv, poolVars
<1>7. SlotsInv'
  <2>1. ASSUME NEW k \in Jobs, NEW d \in Domains
        PROVE  (job'[k].domain = d /\ job'[k].slot) <=> (job[k].domain = d /\ job[k].slot)
    <3>1. CASE job'[k].pc = "idle"
      BY <1>1, <1>2, <1>3, <3>1
    <3>2. CASE job'[k].pc # "idle"
      BY <1>1, <3>2
    <3> QED
      BY <3>1, <3>2
  <2> QED
    BY <1>0, <2>1, SameHolders DEF Inv
<1>8. ContextsInv'
  <2>1. ASSUME NEW k \in Jobs
        PROVE  job'[k].context <=> job[k].context
    <3>1. CASE job'[k].pc = "idle"
      BY <1>1, <1>2, <1>3, <3>1
    <3>2. CASE job'[k].pc # "idle"
      BY <1>1, <3>2
    <3> QED
      BY <3>1, <3>2
  <2> QED
    BY <1>0, <2>1, SameContexts DEF Inv, browserVars
<1> QED
  BY <1>4, <1>5, <1>6, <1>7, <1>8 DEF Inv

(* Chromium and the process around the jobs.                               *)
LEMMA NodeInv ==
  ASSUME Inv, Boot \/ Crash \/ CloseAll
  PROVE  Inv'
<1>0. /\ job \in [Jobs -> JobRecord]
      /\ UNCHANGED <<job, slots, poolVars, stranded, runs>>
  BY DEF Inv, Types, Boot, Crash, CloseAll
<1>1. SlotsInv'
  BY <1>0, SameHolders DEF Inv
<1>2. CASE Boot
  <2>1. /\ node = "booting" /\ node' \in {"gone", "up"} /\ UNCHANGED <<client, contexts>>
        /\ chromium' \in {0, 1} /\ (node' = "gone" => chromium' = 0)
    BY <1>2 DEF Boot, Initialize, Inv, PcInv, Types
  <2>2. \A k \in Jobs : job[k].pc = "idle" /\ job[k].session = None /\ ~ job[k].context
    BY <2>1 DEF Inv, PcInv
  <2>3. Types' /\ PcInv'
    BY <1>0, <2>1, <2>2 DEF Inv, Types, PcInv, poolVars
  <2>4. PoolInv'
    <3>1. \A k \in Jobs : ~ OnLoan(k) /\ ~ OnLoan(k)'
      BY <1>0, <2>2 DEF OnLoan
    <3> QED
      BY <1>0, <2>1, <3>1, PoolUntouched DEF Inv, poolVars
  <2>5. ContextsInv'
    <3>1. ContextHolders = {} /\ ContextHolders' = {}
      BY <1>0, <2>2 DEF ContextHolders
    <3>2. Cardinality({}) = 0
      BY FS_EmptySet
    <3> QED
      BY <2>1, <3>1, <3>2 DEF ContextsInv, Inv
  <2> QED
    BY <1>1, <2>3, <2>4, <2>5 DEF Inv
<1>3. CASE Crash
  <2>1. node = "up" /\ chromium' = 0 /\ contexts' = 0 /\ UNCHANGED <<node, client>>
    BY <1>3 DEF Crash
  <2>2. Types' /\ PcInv'
    BY <1>0, <2>1 DEF Inv, Types, PcInv, poolVars
  <2>3. PoolInv'
    <3>1. \A k \in Jobs : OnLoan(k)' <=> OnLoan(k)
      BY <1>0, <2>1 DEF OnLoan
    <3> QED
      BY <1>0, <2>1, <3>1, PoolUntouched DEF Inv, poolVars
  <2>4. ContextsInv'
    BY <2>1 DEF ContextsInv
  <2> QED
    BY <1>1, <2>2, <2>3, <2>4 DEF Inv
<1>4. CASE CloseAll
  <2>1. /\ node' = "gone" /\ chromium' = 0 /\ contexts' = 0 /\ client' = "none"
        /\ \A k \in Jobs : job[k].pc = "idle"
    BY <1>4 DEF CloseAll
  <2>2. Types' /\ PcInv'
    BY <1>0, <2>1 DEF Inv, Types, PcInv, poolVars
  <2>3. PoolInv'
    <3>1. \A k \in Jobs : ~ OnLoan(k)'
      BY <2>1 DEF OnLoan
    <3> QED
      BY <1>0, <2>1, <3>1, PoolUntouched DEF Inv, poolVars
  <2>4. ContextsInv'
    BY <2>1 DEF ContextsInv
  <2> QED
    BY <1>1, <2>2, <2>3, <2>4 DEF Inv
<1> QED
  BY <1>2, <1>3, <1>4

LEMMA InitInv == Init => Inv
<1> SUFFICES ASSUME Init
             PROVE  Inv
  OBVIOUS
<1>1. Idle.pc = "idle" /\ ~ Idle.slot /\ Idle.session = None /\ ~ Idle.context
  BY DEF Idle
<1>2. \A k \in Jobs : job[k] = Idle
  BY DEF Init
<1>3. Types
  <2>1. 0 \in 0 .. SWEEP_INTERVAL_RELEASES - 1 /\ 0 \in 0 .. MaxRuns /\ default_budget \in 0 .. default_budget
    BY NodeAssumption
  <2>2. Proxies # <<>> => 0 < Len(Proxies)
    BY NodeAssumption
  <2>3. job \in [Jobs -> JobRecord]
    BY IdleTyped DEF Init
  <2> QED
    BY <2>1, <2>2, <2>3 DEF Init, Types
<1>4. PcInv
  BY <1>1, <1>2 DEF Init, PcInv
<1>5. PoolInv
  BY <1>1, <1>2, FS_EmptySet DEF Init, PoolInv, OnLoan
<1>6. SlotsInv
  <2>1. \A d \in Domains : SlotHolders(d) = {}
    BY <1>1, <1>2 DEF SlotHolders
  <2>2. \A d \in Domains : slots[d] = default_budget
    BY DEF Init
  <2>3. Cardinality({}) = 0 /\ default_budget + 0 = default_budget
    BY FS_EmptySet, NodeAssumption
  <2> QED
    BY <2>1, <2>2, <2>3 DEF SlotsInv
<1>7. ContextsInv
  BY DEF Init, ContextsInv
<1> QED
  BY <1>3, <1>4, <1>5, <1>6, <1>7 DEF Inv

LEMMA NextInv == Inv /\ [Next]_vars => Inv'
<1> SUFFICES ASSUME Inv, [Next]_vars
             PROVE  Inv'
  OBVIOUS
<1>1. CASE Boot \/ Crash \/ CloseAll
  BY <1>1, NodeInv
<1>2. CASE Stop
  BY <1>2, StopInv
<1>3. ASSUME NEW j \in Jobs, Start(j)
      PROVE  Inv'
  BY <1>3, StartInv
<1>4. ASSUME NEW j \in Jobs, ProcessJob(j)
      PROVE  Inv'
  BY <1>4, QuietInv, SessionInv, LeaveInv DEF ProcessJob
<1>5. ASSUME NEW j \in Jobs, NEW size \in Bodies, Respond(j, size) \/ Capture(j, size)
      PROVE  Inv'
  BY <1>5, ListenInv
<1>6. CASE UNCHANGED vars
  BY <1>6 DEF vars, poolVars, browserVars, Inv, Types, PcInv, PoolInv, SlotsInv, ContextsInv, OnLoan,
              SlotHolders, ContextHolders
<1> QED
  BY <1>1, <1>2, <1>3, <1>4, <1>5, <1>6 DEF Next

LEMMA InvHolds == Spec => []Inv
  BY InitInv, NextInv, PTL DEF Spec

-----------------------------------------------------------------------------
(* What a job holds has its type, on every way through process_job.        *)
THEOREM TypeCorrect == Spec => []TypeOK
<1>1. Inv => TypeOK
  <2> SUFFICES ASSUME Inv
               PROVE  TypeOK
    OBVIOUS
  <2>1. \A j \in Jobs : job[j].pc \in Pcs /\ job[j].session \in Session \cup {None}
    BY RecordFields DEF Inv, Types
  <2> QED
    BY <2>1 DEF Inv, Types, PcInv, PoolInv, TypeOK, Pcs
<1> QED
  BY <1>1, InvHolds, PTL

(* No session of SessionPool is lent twice or scored from a stale copy, and*)
(* none stays checked out without a running job, raises before the try     *)
(* block apart.                                                            *)
THEOREM SessionsLent == Spec => []LeasesSound
<1>1. Inv => LeasesSound
  BY DEF Inv, PoolInv, LeasesSound
<1> QED
  BY <1>1, InvHolds, PTL

(* The semaphores of DomainRateLimiter and the contexts of Chromium count  *)
(* exactly what the running jobs hold.                                     *)
THEOREM LoansReturned == Spec => []NothingLeaks
<1>1. Inv => NothingLeaks
  BY DEF Inv, SlotsInv, ContextsInv, SlotHolders, ContextHolders, PcInv, NothingLeaks, Running
<1> QED
  BY <1>1, InvHolds, PTL

(* The bodies captured for a page stay within their total in bytes.        *)
THEOREM BufferBounded == Spec => []BufferWithinBytes
<1>1. Inv => BufferWithinBytes
  <2> SUFFICES ASSUME Inv, NEW j \in Jobs
               PROVE  job[j].buffer.bytes <= INTERCEPT_MAX_TOTAL_BYTES
    BY DEF BufferWithinBytes
  <2>1. job[j].buffer \in Buffer
    BY RecordFields DEF Inv, Types
  <2> QED
    BY <2>1, BufferFields, NodeAssumption
<1> QED
  BY <1>1, InvHolds, PTL
=============================================================================
