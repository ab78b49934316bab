----------------------------- MODULE Migration -----------------------------
(***************************************************************************)
(* The move from SQLite to Postgres: migrate_sqlite_to_postgres.py, run by *)
(* an operator, possibly several times, while the processes still write to *)
(* the source; the switch of PERSISTENCE_BACKEND; and verify_migration.py. *)
(*                                                                         *)
(* A table is read once, in its row order, and written row by row:         *)
(* opportunities in transactions of a batch, runs and dead letters in one  *)
(* transaction each.  A profile is written in two committed statements.    *)
(*                                                                         *)
(* A row is its key, the identity its target id derives from (the URL, the *)
(* run_id, the source id or the composite of a dead letter) and a version  *)
(* for its columns that change.                                            *)
(***************************************************************************)
EXTENDS Integers, Sequences, FiniteSets, SequencesExt

CONSTANTS
  Order,      \* per table, its keys in row order
  Ident,      \* the identity of a key; two keys may share one
  Defects,    \* the sets of rows Postgres may refuse: no url, an url over 512 characters
  Unhashed,   \* keys of opportunities without a content_hash
  Domains,    \* keys of domain_profiles
  Values,     \* the rows domain_profiles may hold in the source
  Sources,    \* the sets of tables the source may have
  Requests,   \* what --tables may name; {} without it
  BatchSize,  \* --batch-size: 100 in the code
  MaxRuns,    \* bound: executions of the tool
  MaxFaults,  \* bound: failures of a statement, kills of the tool
  MaxWrites,  \* bound: writes to the source
  None

AVAILABLE_TABLES == <<"opportunities", "runs", "dead_letters", "event_logs", "domain_profiles">>
Moved  == {"opportunities", "runs", "dead_letters"}
Keys   == UNION {Range(Order[t]) : t \in Moved}

FETCH_TIERS           == {"http", "browser"}
EXTRACTION_STRATEGIES == {"overlay", "json_ld", "semantic_html"}
Profile == [tier : FETCH_TIERS, extractor : EXTRACTION_STRATEGIES \cup {None}]

ASSUME TablesAssumption ==
  /\ Order \in [Moved -> Seq(Keys)] /\ DOMAIN Ident = Keys
  /\ Defects \subseteq SUBSET Keys /\ Unhashed \subseteq Keys
  /\ Sources \subseteq SUBSET (Moved \cup {"domain_profiles"})
  /\ IsFiniteSet(Domains) /\ None \notin Profile
ASSUME ValuesAssumption ==
  \A v \in Values : ~v.legacy => [tier |-> v.preferred, extractor |-> v.extractor] \in Profile
ASSUME NumbersAssumption ==
  /\ BatchSize \in Nat \ {0} /\ MaxRuns \in Nat /\ MaxFaults \in Nat /\ MaxWrites \in Nat

VARIABLES
  present,   \* the tables of the source
  refused,   \* the source rows Postgres refuses
  version,   \* the version of each source row
  learned,   \* the source profile of each domain
  target,    \* the rows of the target's tables
  profiles,  \* the target's profiles
  backend,   \* PERSISTENCE_BACKEND of the running processes
  pc,        \* "none", "next", "rows", "profile", "update"
  dry,       \* --dry-run, or --execute without the operator's "yes"
  verify,    \* --verify
  left,      \* the tables still to do, the current one included
  todo,      \* the rows of the current table still to do
  open,      \* the rows of the current table as the open transaction sees them
  batch,     \* how many rows the open transaction has written
  stats,     \* the statistics of the current table
  report,    \* self.stats: those of the tables done
  exit,      \* how the last run ended: "none", "ok" or "failed"
  taken,     \* history: the rows read by this execution, as they were
  before,    \* history: the ids in the target's tables when this run began
  budget     \* history: runs, faults and writes so far

source  == <<present, refused, version, learned>>
tool    == <<pc, dry, verify, left, todo, open, batch, stats, report, exit, taken, before>>
vars    == <<source, target, profiles, backend, tool, budget>>

IdsOf(tgt) == [t \in Moved |-> {r.id : r \in tgt[t]}]
NoStats == [table |-> None, source |-> 0, inserted |-> 0, updated |-> 0, skipped |-> 0, errors |-> 0]

Init ==
  /\ present \in Sources /\ refused \in Defects
  /\ version = [k \in Keys |-> 0]
  /\ \E legacy \in BOOLEAN : learned \in [Domains -> {v \in Values : v.legacy = legacy}]
  /\ target = [t \in Moved |-> {}] /\ profiles = [d \in Domains |-> None]
  /\ backend = "sqlite"
  /\ pc = "none" /\ dry = TRUE /\ verify = FALSE
  /\ left = {} /\ todo = <<>> /\ open = {} /\ batch = 0 /\ stats = NoStats /\ report = {} /\ exit = "none"
  /\ taken = {} /\ before = IdsOf(target)
  /\ budget = [runs |-> 0, faults |-> 0, writes |-> 0]

Spend(what) == budget' = [budget EXCEPT ![what] = @ + 1]

-----------------------------------------------------------------------------
(* main and migrate_all.                                                   *)

\* An unknown name refuses the run.
Known(tables) == tables \subseteq Range(AVAILABLE_TABLES)
Chosen(tables) == IF tables = {} THEN Range(AVAILABLE_TABLES) ELSE tables

\* The order is that of AVAILABLE_TABLES, not the caller's.
Rank(t) == CHOOSE i \in DOMAIN AVAILABLE_TABLES : AVAILABLE_TABLES[i] = t
First(tables) == CHOOSE t \in tables : \A u \in tables : Rank(t) <= Rank(u)

\* A run ends: the connections are closed, what the tool knew and did not commit is gone.
Stop(how) ==
  /\ pc' = "none" /\ exit' = how
  /\ left' = {} /\ todo' = <<>> /\ open' = {} /\ batch' = 0 /\ stats' = NoStats

Launch ==
  /\ pc = "none" /\ budget.runs < MaxRuns
  /\ Spend("runs")
  /\ dry' \in BOOLEAN /\ verify' \in {FALSE, ~dry'}
  /\ report' = {} /\ taken' = {} /\ before' = IdsOf(target)
  /\ \E tables \in Requests :
       IF ~Known(tables) THEN Stop("failed")
       ELSE /\ pc' = "next" /\ exit' = "none" /\ left' = Chosen(tables)
            /\ UNCHANGED <<todo, open, batch, stats>>
  /\ UNCHANGED <<source, target, profiles, backend>>

Row(k) == [key |-> k, version |-> version[k]]

RowsOf(t) ==
  IF t = "domain_profiles" THEN SetToSeq(Domains)
  ELSE [i \in DOMAIN Order[t] |-> Row(Order[t][i])]

\* COUNT and SELECT *: the snapshot of one table.
ReadTable(t) ==
  /\ todo' = RowsOf(t)
  /\ taken' = IF t \in Moved /\ ~dry THEN taken \cup {<<t, r>> : r \in Range(RowsOf(t))} ELSE taken
  /\ stats' = [NoStats EXCEPT !.table = t, !.source = Len(RowsOf(t))]
  /\ IF t = "domain_profiles" THEN pc' = "profile" /\ UNCHANGED open
     ELSE pc' = "rows" /\ open' = target[t]
  /\ UNCHANGED <<left, batch, report, exit>>

SkipTable(t) ==
  /\ pc' = "next" /\ left' = left \ {t}
  /\ UNCHANGED <<todo, open, batch, stats, report, exit, taken>>

\* dead_letters and domain_profiles may be missing; without opportunities or runs the SELECT raises.
StartTable ==
  /\ pc = "next" /\ left # {}
  /\ LET t == First(left) IN
       IF t = "event_logs" THEN SkipTable(t)
       ELSE IF t \in present THEN IF RowsOf(t) = <<>> THEN SkipTable(t) ELSE ReadTable(t)
       ELSE IF t \in {"dead_letters", "domain_profiles"} THEN SkipTable(t)
       ELSE Stop("failed") /\ UNCHANGED <<report, taken>>
  /\ UNCHANGED <<source, target, profiles, backend, dry, verify, before, budget>>

\* The statistics are appended when the table is done.
EndTable(done) ==
  /\ pc' = "next" /\ left' = left \ {stats.table} /\ todo' = <<>> /\ open' = {} /\ batch' = 0
  /\ report' = report \cup {done}
  /\ stats' = NoStats

\* A dry run writes and counts nothing.
DryTable ==
  /\ pc \in {"rows", "profile"} /\ dry
  /\ EndTable(stats)
  /\ UNCHANGED <<source, target, profiles, backend, dry, verify, exit, taken, before, budget>>

-----------------------------------------------------------------------------
(* The rows of opportunities, runs and dead letters.                       *)

New(k, v, id) == [id |-> id, of |-> k, version |-> v]

Held(id) == {r \in open : r.id = id}

Insert(row, id) ==
  /\ open' = open \cup {New(row.key, row.version, id)}
  /\ stats' = [stats EXCEPT !.inserted = @ + 1]

\* The URL, or the id of a row without one.
OpportunityId(row) == Ident[row.key]

\* ON CONFLICT DO UPDATE: the columns that change are the source's, the row stays that of its first key.
UpsertOpportunity(row) ==
  LET held == Held(OpportunityId(row)) IN
  IF held = {} THEN Insert(row, OpportunityId(row))
  ELSE /\ open' = (open \ held) \cup {[r EXCEPT !.version = row.version] : r \in held}
       /\ stats' = [stats EXCEPT !.updated = @ + 1]

\* Mutant of InsertRun: what ON CONFLICT DO NOTHING left alone counts as inserted.
InsertRunCounted(row) ==
  IF Held(Ident[row.key]) = {} THEN Insert(row, Ident[row.key])
  ELSE open' = open /\ stats' = [stats EXCEPT !.inserted = @ + 1]

\* ON CONFLICT DO NOTHING.
InsertRun(row) ==
  IF Held(Ident[row.key]) = {} THEN Insert(row, Ident[row.key])
  ELSE open' = open /\ stats' = [stats EXCEPT !.skipped = @ + 1]

\* Mutant of DeadLetterId: the id derives from retry_count and status too.
DeadLetterIdOfStatus(row) == <<Ident[row.key], row.version>>

\* uuid5 of the source id, else of job, url, created_at and error: columns that do not change.
DeadLetterId(row) == Ident[row.key]

InsertDeadLetter(row) ==
  IF Held(DeadLetterId(row)) = {} THEN Insert(row, DeadLetterId(row))
  ELSE open' = open /\ stats' = [stats EXCEPT !.skipped = @ + 1]

\* batch_size opportunities, or every run and dead letter.
BatchFull == stats.table = "opportunities" /\ batch = BatchSize

\* One statement of the open transaction.
WriteRow ==
  /\ pc = "rows" /\ ~dry /\ todo # <<>> /\ ~BatchFull /\ Head(todo).key \notin refused
  /\ \/ stats.table = "opportunities" /\ UpsertOpportunity(Head(todo))
     \/ stats.table = "runs"          /\ InsertRun(Head(todo))
     \/ stats.table = "dead_letters"  /\ InsertDeadLetter(Head(todo))
  /\ todo' = Tail(todo) /\ batch' = batch + 1
  /\ UNCHANGED <<source, target, profiles, backend, pc, dry, verify, left, report, exit, taken, before, budget>>

\* One refused row aborts its transaction, and the tool with it.
Refuse ==
  /\ pc = "rows" /\ ~dry /\ todo # <<>> /\ ~BatchFull /\ Head(todo).key \in refused
  /\ Stop("failed")
  /\ UNCHANGED <<source, target, profiles, backend, dry, verify, report, taken, before, budget>>

\* Mutant of Committed: the opportunities that do not fill a batch are left out.
CommittedFull == IF stats.table = "opportunities" /\ ~BatchFull THEN target["opportunities"] ELSE open
Committed == open

\* A full batch, or the rest of the table, commits.
Commit ==
  /\ pc = "rows" /\ ~dry /\ (todo = <<>> \/ BatchFull)
  /\ target' = [target EXCEPT ![stats.table] = Committed]
  /\ IF todo = <<>> THEN EndTable(stats)
     ELSE batch' = 0 /\ UNCHANGED <<pc, left, todo, open, stats, report>>
  /\ UNCHANGED <<source, profiles, backend, dry, verify, exit, taken, before, budget>>

-----------------------------------------------------------------------------
(* The profiles.                                                           *)

\* Mutant of ProfileAxes: the legacy value is taken for a tier.
ProfileAxesOfTier(row) == [tier |-> row.preferred, extractor |-> row.extractor]

\* Before the split a row holds a value of either vocabulary, or of none.
ProfileAxes(row) ==
  IF ~row.legacy THEN [tier |-> row.preferred, extractor |-> row.extractor]
  ELSE [tier      |-> IF row.preferred \in FETCH_TIERS THEN row.preferred ELSE "http",
        extractor |-> IF row.preferred \in EXTRACTION_STRATEGIES THEN row.preferred ELSE None]

DefaultProfile == [tier |-> "http", extractor |-> None]

\* get_or_create_profile, committed on its own.
CreateProfile ==
  /\ pc = "profile" /\ ~dry /\ todo # <<>>
  /\ profiles' = [profiles EXCEPT ![Head(todo)] = IF @ = None THEN DefaultProfile ELSE @]
  /\ pc' = "update"
  /\ UNCHANGED <<source, target, backend, dry, verify, left, todo, open, batch, stats, report, exit, taken, before, budget>>

NextProfile(done) ==
  IF Tail(todo) = <<>> THEN EndTable(done)
  ELSE pc' = "profile" /\ todo' = Tail(todo) /\ stats' = done /\ UNCHANGED <<left, open, batch, report>>

\* update_profile: the source's values over whatever the target has.
UpdateProfile ==
  /\ pc = "update"
  /\ profiles' = [profiles EXCEPT ![Head(todo)] = ProfileAxes(learned[Head(todo)])]
  /\ NextProfile([stats EXCEPT !.inserted = @ + 1])
  /\ UNCHANGED <<source, target, backend, dry, verify, exit, taken, before, budget>>

\* A row that fails is counted, and the loop goes on: a default row may stay behind.
ProfileFails ==
  /\ pc \in {"profile", "update"} /\ ~dry /\ budget.faults < MaxFaults
  /\ Spend("faults")
  /\ NextProfile([stats EXCEPT !.errors = @ + 1])
  /\ UNCHANGED <<source, target, profiles, backend, dry, verify, exit, taken, before>>

-----------------------------------------------------------------------------
(* The end of a run.                                                       *)

\* verify_migration: the one check that can fail, the others hold by the target's schema;
\* of an empty table it raises, since its SUM is null.
Verified == target["opportunities"] # {} /\ \A r \in target["opportunities"] : r.of \notin Unhashed

\* The report is saved; --verify counts only after an execution.
Finish ==
  /\ pc = "next" /\ left = {}
  /\ Stop(IF ~dry /\ verify /\ ~Verified THEN "failed" ELSE "ok")
  /\ UNCHANGED <<source, target, profiles, backend, dry, verify, report, taken, before, budget>>

\* A statement raises, Postgres is away, or the operator stops the tool: the open transaction is lost.
Fail ==
  /\ pc # "none" /\ budget.faults < MaxFaults
  /\ Spend("faults")
  /\ Stop("failed")
  /\ UNCHANGED <<source, target, profiles, backend, dry, verify, report, taken, before>>

-----------------------------------------------------------------------------
(* The processes.                                                          *)

\* A retry_count, a status, a changed tender: a run's row stays as it is.
WriteSource(k) ==
  /\ backend = "sqlite" /\ budget.writes < MaxWrites
  /\ Spend("writes")
  /\ version' = [version EXCEPT ![k] = @ + 1]
  /\ UNCHANGED <<present, refused, learned, target, profiles, backend, tool>>

\* A worker on Postgres learns a domain's tier.
Learn(d) ==
  /\ backend = "postgres" /\ budget.writes < MaxWrites
  /\ Spend("writes")
  /\ \E t \in FETCH_TIERS :
       profiles' = [profiles EXCEPT ![d] = IF @ = None THEN [DefaultProfile EXCEPT !.tier = t]
                                            ELSE [@ EXCEPT !.tier = t]]
  /\ UNCHANGED <<source, target, backend, tool>>

\* The operator sets PERSISTENCE_BACKEND and restarts the processes.
SwitchBackend ==
  /\ pc = "none" /\ backend = "sqlite" /\ exit = "ok" /\ ~dry
  /\ backend' = "postgres"
  /\ UNCHANGED <<source, target, profiles, tool, budget>>

-----------------------------------------------------------------------------
CarryProfiles == CreateProfile \/ UpdateProfile \/ ProfileFails
Tool    == Launch \/ StartTable \/ DryTable \/ WriteRow \/ Refuse \/ Commit \/ CarryProfiles \/ Finish \/ Fail
Process == (\E k \in Keys \ Range(Order["runs"]) : WriteSource(k)) \/ (\E d \in Domains : Learn(d)) \/ SwitchBackend

Next == Tool \/ Process

Spec == Init /\ [][Next]_vars

-----------------------------------------------------------------------------
Statistics ==
  [table : Range(AVAILABLE_TABLES), source : Nat, inserted : Nat, updated : Nat, skipped : Nat, errors : Nat]

(* Besides the types: no profile of the target has an extraction strategy, *)
(* or anything else, for a fetch tier (_profile_axes).                     *)
TypeOK ==
  /\ present \in Sources /\ refused \in Defects
  /\ version \in [Keys -> 0 .. MaxWrites]
  /\ \A t \in Moved : \A r \in target[t] : r.of \in Range(Order[t]) /\ r.version \in 0 .. MaxWrites
  /\ profiles \in [Domains -> Profile \cup {None}]
  /\ backend \in {"sqlite", "postgres"}
  /\ pc \in {"none", "next", "rows", "profile", "update"}
  /\ exit \in {"none", "ok", "failed"} /\ (exit # "none" => pc = "none")
  /\ report \subseteq Statistics

(* However often the tool is run, stopped and run again, and whatever the  *)
(* source added in between or changed outside the columns a row's id is    *)
(* made of (Ident), no source row has two rows in the target: a run after  *)
(* a failure resumes and does not duplicate (_dead_letter_id, the conflict *)
(* clauses).                                                               *)
NoRowTwice ==
  \A t \in Moved : \A r, s \in target[t] : r.of = s.of => r = s

Carried(t, row) ==
  \E r \in target[t] :
    /\ r.id = Ident[row.key]
    /\ t = "opportunities" =>
         r.version \in {x[2].version : x \in {y \in taken : y[1] = t /\ Ident[y[2].key] = Ident[row.key]}}

(* An execution that ends well has carried every opportunity, run and dead *)
(* letter it read, the rest of an unfilled batch and those read before a   *)
(* failed run included, and the opportunities as it read them.             *)
NothingLeftBehind ==
  exit = "ok" /\ ~dry => \A x \in taken : Carried(x[1], x[2])

(* Of opportunities, runs and dead letters the report counts what the run  *)
(* did: the rows it lists as inserted are those the table has now and had  *)
(* not before, each row read is counted once, and a dry run counts and     *)
(* writes nothing (MigrationStats).  Profiles are left out: "inserted"     *)
(* counts those that were overwritten, too.                                *)
ReportIsTrue ==
  \A s \in report : s.table \in Moved =>
    /\ s.inserted = Cardinality(IdsOf(target)[s.table] \ before[s.table])
    /\ s.inserted + s.updated + s.skipped + s.errors = IF dry THEN 0 ELSE s.source
=============================================================================
