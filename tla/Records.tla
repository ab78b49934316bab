------------------------------ MODULE Records ------------------------------
(***************************************************************************)
(* The records of one job and a client that pages through them:            *)
(* GET /jobs/{id}/records (main.py) over the record repositories of the    *)
(* two backends.  A page starts behind its cursor, the (created_at,        *)
(* record_id) pair of the last record of the page before.                  *)
(*                                                                         *)
(* created_at is the database's clock at the INSERT: seconds in SQLite,    *)
(* the start of the statement in Postgres.  Other connections see the row  *)
(* later: at the COMMIT in SQLite, at the end of the statement in Postgres. *)
(* A record_id is random: its order says nothing about time.  The jobs     *)
(* table is not carried to Postgres, so the API no longer finds the job    *)
(* there (Migration).                                                      *)
(***************************************************************************)
EXTENDS Integers, FiniteSets

CONSTANTS
  Ids,       \* the record_ids the processor will create for the job
  MaxClock,  \* bound: ticks of the clock
  MaxLimit,  \* bound on the page size: 200 in the code
  None

VARIABLES
  backend,   \* PERSISTENCE_BACKEND of the running processes
  home,      \* the database the job was submitted to, or None
  clock,
  rows,      \* per backend, the committed rows of the job
  inserting, \* the row that is inserted and not visible yet, and in which database, or None
  reader,    \* the client: "new", "reading", "done", or "gone" upon a 404
  cursor,    \* next_cursor of its last page
  served,    \* how often each record was served to it
  settled    \* history: it began after the last record of the job, on the same backend

Backends == {"sqlite", "postgres"}
Row == [at : 0 .. MaxClock, id : Ids]
Pending == [to : Backends, row : Row]

Created == {r.id : r \in rows["sqlite"] \cup rows["postgres"] \cup {p.row : p \in {inserting} \ {None}}}

Init ==
  /\ home = None /\ clock = 0
  /\ rows = [b \in Backends |-> {}] /\ inserting = None
  /\ reader = "new" /\ cursor = None
  /\ served = [i \in Ids |-> 0] /\ settled = FALSE

Submit ==
  /\ home = None
  /\ home' = backend
  /\ UNCHANGED <<clock, rows, inserting, reader, cursor, served, settled>>

Tick ==
  /\ clock < MaxClock
  /\ clock' = clock + 1
  /\ UNCHANGED <<home, rows, inserting, reader, cursor, served, settled>>

-----------------------------------------------------------------------------
(* The processor.                                                          *)

\* One writer: a record is visible before the next is inserted.
Insert(i) ==
  /\ home # None /\ i \notin Created /\ inserting = None
  /\ inserting' = [to |-> backend, row |-> [at |-> clock, id |-> i]]
  /\ UNCHANGED <<home, clock, rows, reader, cursor, served, settled>>

CreateSqlite(i) == backend = "sqlite" /\ Insert(i)

CreatePostgres(i) == backend = "postgres" /\ Insert(i)

\* COMMIT, or the end of the statement.
Commit ==
  /\ inserting # None
  /\ rows' = [rows EXCEPT ![inserting.to] = @ \cup {inserting.row}]
  /\ inserting' = None
  /\ UNCHANGED <<home, clock, reader, cursor, served, settled>>

-----------------------------------------------------------------------------
(* The reader.                                                             *)

\* ORDER BY created_at ASC, record_id ASC.
Sooner(q, r) == q.at < r.at \/ (q.at = r.at /\ q.id < r.id)

\* Mutant of Behind: the cursor is created_at alone.
BehindStampOnly(c, r) == c = None \/ c.at < r.at

\* (created_at, record_id) > cursor.
Behind(c, r) == c = None \/ Sooner(c, r)

\* The LIMIT limit + 1 first rows behind the cursor: one more than the page says whether another follows.
Page(table, c, limit) ==
  LET behind == {r \in table : Behind(c, r)}
      page   == {r \in behind : Cardinality({q \in behind : Sooner(q, r)}) < limit}
  IN  [records |-> page,
       next    |-> IF Cardinality(behind) > limit
                   THEN CHOOSE r \in page : \A q \in page : ~Sooner(r, q)
                   ELSE None]

\* A limit below 1 would be "no limit" to SQLite: it becomes 1.
PageSqlite(c, limit) == Page(rows["sqlite"], c, IF limit < 1 THEN 1 ELSE limit)

\* The cursor's stamp is parsed back; a negative LIMIT is refused by Postgres, not here.
PagePostgres(c, limit) == Page(rows["postgres"], c, limit)

\* get_job finds the job only in the database it was submitted to.
JobFound == backend = home

GetRecords(limit) ==
  /\ reader \in {"new", "reading"} /\ JobFound
  /\ LET answer == IF backend = "sqlite" THEN PageSqlite(cursor, limit) ELSE PagePostgres(cursor, limit)
     IN  /\ served' = [i \in Ids |-> served[i] + Cardinality({r \in answer.records : r.id = i})]
         /\ cursor' = answer.next
         /\ reader' = IF answer.next = None THEN "done" ELSE "reading"
  /\ settled' = IF reader = "new" THEN Created = Ids /\ inserting = None ELSE settled
  /\ UNCHANGED <<home, clock, rows, inserting>>

JobNotFound ==
  /\ reader \in {"new", "reading"} /\ home # None /\ ~JobFound
  /\ reader' = "gone"
  /\ UNCHANGED <<home, clock, rows, inserting, cursor, served, settled>>

-----------------------------------------------------------------------------
Create == \E i \in Ids : CreateSqlite(i) \/ CreatePostgres(i)
Read   == (\E n \in 1 .. MaxLimit : GetRecords(n)) \/ JobNotFound

Next == Submit \/ Tick \/ Create \/ Commit \/ Read
-----------------------------------------------------------------------------
TypeOK ==
  /\ home \in Backends \cup {None} /\ clock \in 0 .. MaxClock
  /\ rows \in [Backends -> SUBSET Row]
  /\ inserting \in Pending \cup {None} /\ cursor \in Row \cup {None}
  /\ reader \in {"new", "reading", "done", "gone"}
  /\ (cursor # None) => reader \in {"reading", "gone"}
  /\ served \in [Ids -> 0 .. 1] /\ settled \in BOOLEAN

(* A client that pages through a job is served no record twice, and once   *)
(* it began after the job's last record and came to the last page, every   *)
(* record the job has in that database: pages neither overlap nor leave    *)
(* out records that share a created_at (list_records).                     *)
PagesAreExact ==
  /\ \A i \in Ids : served[i] <= 1
  /\ reader = "done" /\ settled => \A r \in rows[home] : served[r.id] = 1
=============================================================================
