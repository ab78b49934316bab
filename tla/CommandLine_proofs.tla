------------------------- MODULE CommandLine_proofs -------------------------
(***************************************************************************)
(* Proofs about the tools of the command line.                             *)
(*                                                                         *)
(* Cutover, for every job, every page size, every number of records,       *)
(* tables of every length, and however often the operator runs the         *)
(* migration, stops it or lets it fail.  The pages: the rows behind a      *)
(* cursor are totally ordered, so a page that does not hold all of them    *)
(* has a last row, and the rows behind that row are exactly those the page *)
(* left out (PageExact).  While a client reads, what it was served is      *)
(* therefore never behind its cursor, and, once no record can be created   *)
(* any more, everything else is (ServedInv).  The migration: a table has   *)
(* one row per identity, committed or in the open transaction (TableOK);   *)
(* what a run read of the current table is in that transaction or still to *)
(* do (TakenInv), and what it counted is the difference between that       *)
(* transaction and the table as the run found it (CountInv).  A commit     *)
(* then turns the one into the other.                                      *)
(*                                                                         *)
(* PlaceSweep, for every world, grid, page size and depth, and whatever    *)
(* the calls answer.  A place that is due in the area in work is listed,   *)
(* warned of, or inside the circle of a call that still waits: the smaller *)
(* circles cover the one they replace, and an answer that is not full has  *)
(* everything in its circle (Covered).                                     *)
(***************************************************************************)
EXTENDS Cutover, PlaceSweep, FiniteSetTheorems, TLAPS

-----------------------------------------------------------------------------
(* A function into the naturals takes a least value on a set.              *)
LEMMA LeastOfImage ==
  ASSUME NEW S, S # {}, NEW f \in [S -> Nat]
  PROVE  \E x \in S : \A y \in S : f[x] <= f[y]
<1> DEFINE T == {f[x] : x \in S}
<1>1. T \subseteq Nat /\ T # {}
  OBVIOUS
<1>2. PICK m \in T : \A n \in T : ~ (<<n, m>> \in OpToRel(<, Nat))
  <2> HIDE DEF T
  <2> QED BY <1>1, NatLessThanWellFounded, WFMin
<1>3. \A n \in T : ~ (n < m)
  BY <1>1, <1>2 DEF OpToRel
<1>4. PICK x \in S : f[x] = m
  OBVIOUS
<1>5. ASSUME NEW y \in S PROVE f[x] <= f[y]
  <2>1. f[y] \in T /\ f[y] \in Nat /\ m \in Nat
    BY <1>1
  <2> HIDE DEF T
  <2> QED BY <2>1, <1>3, <1>4
<1> QED
  BY <1>5

(* A strict order on a finite set has a minimal element: one with the      *)
(* fewest elements below it, which has none.                               *)
LEMMA MinimalElement ==
  ASSUME NEW S, IsFiniteSet(S), S # {}, NEW L,
         \A x \in S : <<x, x>> \notin L,
         \A x, y, z \in S : <<x, y>> \in L /\ <<y, z>> \in L => <<x, z>> \in L
  PROVE  \E x \in S : \A y \in S : <<y, x>> \notin L
<1> DEFINE Below(x) == {y \in S : <<y, x>> \in L}
           f == [x \in S |-> Cardinality(Below(x))]
<1>1. \A x \in S : IsFiniteSet(Below(x)) /\ f[x] \in Nat
  BY FS_Subset, FS_CardinalityType
<1>2. PICK x \in S : \A y \in S : f[x] <= f[y]
  <2>1. f \in [S -> Nat]
    BY <1>1
  <2> HIDE DEF f
  <2> QED BY <2>1, LeastOfImage
<1>3. SUFFICES ASSUME NEW y \in S, <<y, x>> \in L PROVE FALSE
  OBVIOUS
<1>4. Below(y) \subseteq Below(x) /\ y \in Below(x) /\ y \notin Below(y)
  BY <1>3
<1>5. Cardinality(Below(y)) <= Cardinality(Below(x)) /\ Cardinality(Below(y)) # Cardinality(Below(x))
  <2> HIDE DEF Below
  <2> QED BY <1>1, <1>4, FS_Subset
<1> QED
  BY <1>1, <1>2, <1>5

-----------------------------------------------------------------------------
(* Pages.                                                                  *)

LEMMA SameCardinality == \A S : R!Cardinality(S) = Cardinality(S)
BY DEF R!Cardinality, Cardinality

LEMMA RowFields ==
  ASSUME NEW r \in R!Row
  PROVE  /\ r.at \in Int /\ r.id \in Int /\ r.id \in Ids
         /\ \A q \in R!Row : q.at = r.at /\ q.id = r.id => q = r
         /\ r # None
<1>1. r.at \in 0 .. MaxClock /\ r.id \in Ids /\ r # None
  BY NoneAssumption DEF R!Row
<1>2. ASSUME NEW q \in R!Row, q.at = r.at, q.id = r.id PROVE q = r
  BY <1>2 DEF R!Row
<1>3. r.at \in Int
  BY <1>1, PagesAssumption
<1>4. r.id \in Int
  <2>1. Ids \subseteq Int
    BY IdsAssumption
  <2> QED
    BY <1>1, <2>1
<1> QED
  BY <1>1, <1>2, <1>3, <1>4

(* ORDER BY created_at, record_id is a strict total order on rows.         *)
LEMMA SoonerOrder ==
  ASSUME NEW q \in R!Row, NEW r \in R!Row, NEW s \in R!Row
  PROVE  /\ ~ R!Sooner(q, q)
         /\ R!Sooner(q, r) /\ R!Sooner(r, s) => R!Sooner(q, s)
         /\ R!Sooner(q, r) \/ q = r \/ R!Sooner(r, q)
<1>1. q.at = r.at /\ q.id = r.id => q = r
  BY RowFields
<1> QED
  BY <1>1, RowFields DEF R!Sooner

(* The rows of a table sooner than r: their number grows with r.           *)
Before(T, r) == {q \in T : R!Sooner(q, r)}

LEMMA BeforeGrows ==
  ASSUME NEW T \in SUBSET R!Row, IsFiniteSet(T), NEW q \in T, NEW r \in T, R!Sooner(q, r)
  PROVE  Cardinality(Before(T, q)) < Cardinality(Before(T, r))
<1>1. IsFiniteSet(Before(T, r)) /\ Before(T, q) \subseteq Before(T, r)
  BY FS_Subset, SoonerOrder DEF Before
<1>2. q \in Before(T, r) /\ q \notin Before(T, q)
  BY SoonerOrder DEF Before
<1>3. Cardinality(Before(T, q)) <= Cardinality(Before(T, r)) /\ IsFiniteSet(Before(T, q))
      /\ (Cardinality(Before(T, q)) = Cardinality(Before(T, r)) => Before(T, q) = Before(T, r))
  BY <1>1, FS_Subset
<1> QED
  BY <1>1, <1>2, <1>3, FS_CardinalityType

LEMMA BeforeCount ==
  ASSUME NEW T \in SUBSET R!Row, IsFiniteSet(T), NEW r \in T
  PROVE  Cardinality(Before(T, r)) \in Nat /\ Cardinality(Before(T, r)) < Cardinality(T)
<1>1. Before(T, r) \subseteq T /\ r \notin Before(T, r)
  BY SoonerOrder DEF Before
<1> QED
  BY <1>1, FS_Subset, FS_CardinalityType

(* A finite table has a first row and a last one.                          *)
LEMMA Extremes ==
  ASSUME NEW T \in SUBSET R!Row, IsFiniteSet(T), T # {}
  PROVE  /\ \E r \in T : \A q \in T : ~ R!Sooner(q, r)
         /\ \E r \in T : \A q \in T : ~ R!Sooner(r, q)
<1>1. \E r \in T : \A q \in T : ~ R!Sooner(q, r)
  <2> DEFINE L == {p \in T \X T : R!Sooner(p[1], p[2])}
  <2>1. \A q, r \in T : <<q, r>> \in L <=> R!Sooner(q, r)
    OBVIOUS
  <2> HIDE DEF L
  <2>2. /\ \A q \in T : <<q, q>> \notin L
        /\ \A q, r, s \in T : <<q, r>> \in L /\ <<r, s>> \in L => <<q, s>> \in L
    BY <2>1, SoonerOrder
  <2>3. \E r \in T : \A q \in T : <<q, r>> \notin L
    BY <2>2, MinimalElement
  <2> QED
    BY <2>1, <2>3
<1>2. \E r \in T : \A q \in T : ~ R!Sooner(r, q)
  <2> DEFINE L == {p \in T \X T : R!Sooner(p[2], p[1])}
  <2>1. \A q, r \in T : <<q, r>> \in L <=> R!Sooner(r, q)
    OBVIOUS
  <2> HIDE DEF L
  <2>2. /\ \A q \in T : <<q, q>> \notin L
        /\ \A q, r, s \in T : <<q, r>> \in L /\ <<r, s>> \in L => <<q, s>> \in L
    BY <2>1, SoonerOrder
  <2>3. \E r \in T : \A q \in T : <<q, r>> \notin L
    BY <2>2, MinimalElement
  <2> QED
    BY <2>1, <2>3
<1> QED
  BY <1>1, <1>2

(* What a page holds: rows behind the cursor; all of them when it names no *)
(* next cursor, else just those up to that cursor, which is one of them.   *)
LEMMA PageExact ==
  ASSUME NEW T \in SUBSET R!Row, IsFiniteSet(T), NEW c, NEW n \in Nat \ {0}
  PROVE  LET page == R!Page(T, c, n) IN
         /\ page.records \subseteq {r \in T : R!Behind(c, r)}
         /\ page.next = None => page.records = {r \in T : R!Behind(c, r)}
         /\ page.next # None =>
              /\ page.next \in page.records
              /\ \A r \in T : R!Behind(c, r) => (r \in page.records <=> ~ R!Sooner(page.next, r))
<1> DEFINE behind == {r \in T : R!Behind(c, r)}
           upTo == {r \in behind : Cardinality(Before(behind, r)) < n}
           IsLast(r) == \A q \in upTo : ~ R!Sooner(r, q)
<1>1. /\ R!Page(T, c, n).records = upTo
      /\ Cardinality(behind) > n /\ (\E r \in upTo : IsLast(r)) =>
           R!Page(T, c, n).next \in upTo /\ IsLast(R!Page(T, c, n).next)
      /\ ~ (Cardinality(behind) > n) => R!Page(T, c, n).next = None
  <2> DEFINE page == {r \in behind : R!Cardinality({q \in behind : R!Sooner(q, r)}) < n}
             Latest(r) == \A q \in page : ~ R!Sooner(r, q)
  <2>1. R!Page(T, c, n) = [records |-> page,
                           next |-> IF R!Cardinality(behind) > n
                                    THEN CHOOSE r \in page : Latest(r) ELSE None]
    BY DEF R!Page
  <2>2. page = upTo
    BY SameCardinality DEF Before
  <2>3. \A r : Latest(r) <=> IsLast(r)
    BY <2>2
  <2>4. R!Cardinality(behind) = Cardinality(behind)
    BY SameCardinality
  <2> HIDE DEF upTo, page, IsLast, Latest, behind
  <2>5. (\E r \in page : Latest(r)) =>
          /\ (CHOOSE r \in page : Latest(r)) \in page
          /\ Latest(CHOOSE r \in page : Latest(r))
    OBVIOUS
  <2> QED
    BY <2>1, <2>2, <2>3, <2>4, <2>5
<1>2. behind \in SUBSET R!Row /\ IsFiniteSet(behind) /\ upTo \subseteq behind
  BY FS_Subset
<1> HIDE DEF behind
<1>3. CASE ~ (Cardinality(behind) > n)
  <2>1. \A r \in behind : Cardinality(Before(behind, r)) < n
    BY <1>2, <1>3, BeforeCount, FS_CardinalityType
  <2> QED
    BY <2>1, <1>1, <1>2, <1>3 DEF behind
<1>4. CASE Cardinality(behind) > n
  <2> DEFINE f == [r \in behind |-> Cardinality(Before(behind, r))]
  <2>1. f \in [behind -> Nat] /\ behind # {}
    <3>1. Cardinality(behind) # 0
      BY <1>4, <1>2, FS_CardinalityType
    <3> QED
      BY <3>1, <1>2, BeforeCount, FS_EmptySet
  <2>2. \A q, r \in behind : R!Sooner(q, r) => f[q] < f[r]
    BY <1>2, BeforeGrows
  <2>3. upTo # {}
    <3>1. PICK r \in behind : \A q \in behind : ~ R!Sooner(q, r)
      BY <1>2, <2>1, Extremes
    <3>2. Before(behind, r) = {}
      BY <3>1 DEF Before
    <3> QED
      BY <3>2, FS_EmptySet
  <2>4. \E r \in upTo : IsLast(r)
    <3>1. upTo \in SUBSET R!Row /\ IsFiniteSet(upTo)
      BY <1>2, FS_Subset
    <3> HIDE DEF upTo
    <3> QED BY <2>3, <3>1, Extremes
  <2> DEFINE m == R!Page(T, c, n).next
  <2>5. m \in upTo /\ IsLast(m)
    BY <1>1, <1>4, <2>4
  <2> HIDE DEF m
  <2>6. m \in R!Row /\ m # None
    BY <2>5, <1>2, RowFields
  <2>7. ASSUME NEW r \in behind, r \notin upTo PROVE R!Sooner(m, r)
    <3>1. f[m] < n /\ ~ (f[r] < n) /\ f[m] \in Nat /\ f[r] \in Nat
      BY <2>1, <2>5, <2>7
    <3>2. ~ R!Sooner(r, m) /\ r # m
      <4> HIDE DEF f
      <4> QED BY <3>1, <2>2, <2>5, <1>2
    <3> QED
      BY <3>2, <2>6, <1>2, SoonerOrder
  <2>8. R!Page(T, c, n).records = upTo /\ R!Page(T, c, n).next = m
    BY <1>1 DEF m
  <2>9. \A r \in behind : r \in upTo <=> ~ R!Sooner(m, r)
    BY <2>5, <2>7
  <2> HIDE DEF upTo
  <2> QED
    BY <2>5, <2>6, <2>8, <2>9, <1>2 DEF behind
<1> QED
  BY <1>3, <1>4

-----------------------------------------------------------------------------
(* The invariant.                                                          *)

Types ==
  /\ backend \in R!Backends /\ home \in R!Backends \cup {None} /\ clock \in 0 .. MaxClock
  /\ rows \in [R!Backends -> SUBSET R!Row] /\ \A b \in R!Backends : IsFiniteSet(rows[b])
  /\ inserting \in R!Pending \cup {None} /\ cursor \in R!Row \cup {None}
  /\ reader \in {"new", "reading", "done", "gone"}
  /\ served \in [Ids -> 0 .. 1] /\ settled \in BOOLEAN

(* A record_id names one row of a database.                                *)
IdsInv ==
  /\ \A b \in R!Backends : \A r, s \in rows[b] : r.id = s.id => r = s
  /\ inserting # None => \A r \in rows[inserting.to] : r.id # inserting.row.id

(* What was served is a record of the job's database that is no longer     *)
(* behind the cursor.                                                      *)
ServedInv ==
  /\ reader = "new" => cursor = None /\ \A i \in Ids : served[i] = 0
  /\ reader \in {"reading", "done"} => home # None
  /\ cursor # None => reader \in {"reading", "gone"}
  /\ reader = "reading" => cursor # None /\ \A r \in rows[home] : served[r.id] = 1 => ~ R!Sooner(cursor, r)
  /\ \A i \in Ids : served[i] = 1 => home # None /\ \E r \in rows[home] : r.id = i

(* After the last record of the job: the rest is behind the cursor.        *)
SettledInv ==
  settled =>
    /\ R!Created = Ids /\ inserting = None /\ reader # "new"
    /\ reader = "reading" => \A r \in rows[home] : ~ R!Sooner(cursor, r) => served[r.id] = 1
    /\ reader = "done" => \A r \in rows[home] : served[r.id] = 1

Inv == Types /\ IdsInv /\ ServedInv /\ SettledInv

LEMMA InitInv == CutoverInit => Inv
<1> SUFFICES ASSUME CutoverInit PROVE Inv
  OBVIOUS
<1>1. Types
  <2>1. backend \in R!Backends
    BY DEF CutoverInit, Init, R!Backends
  <2>2. clock \in 0 .. MaxClock /\ \A b \in R!Backends : IsFiniteSet(rows[b])
    BY FS_EmptySet, PagesAssumption DEF CutoverInit, R!Init
  <2>3. rows \in [R!Backends -> SUBSET R!Row]
    BY DEF CutoverInit, R!Init
  <2>4. served \in [Ids -> 0 .. 1]
    BY DEF CutoverInit, R!Init
  <2>5. home = None /\ inserting = None /\ cursor = None /\ reader = "new" /\ settled = FALSE
    BY DEF CutoverInit, R!Init
  <2> HIDE DEF CutoverInit, R!Init, R!Backends
  <2> QED
    BY <2>1, <2>2, <2>3, <2>4, <2>5 DEF Types
<1> QED
  BY <1>1 DEF CutoverInit, R!Init, Inv, IdsInv, ServedInv, SettledInv, R!Backends

(* A record that was not created yet was not served yet.                   *)
LEMMA CreateStep ==
  ASSUME Inv, NEW i \in Ids, R!CreateSqlite(i) \/ R!CreatePostgres(i), backend' = backend
  PROVE  Inv'
<1> DEFINE new == [at |-> clock, id |-> i]
<1>1. /\ new \in R!Row /\ i \notin R!Created /\ inserting = None /\ settled = FALSE
      /\ home # None
      /\ UNCHANGED <<home, clock, reader, cursor, served, settled>>
  BY DEF Inv, Types, SettledInv, R!CreateSqlite, R!CreatePostgres, R!Insert, R!Row
<1>2. \A b \in R!Backends : \A r \in rows[b] : r.id # i
  BY <1>1 DEF R!Created, R!Backends
<1>4. rows' = rows /\ inserting' = [to |-> backend, row |-> new]
  BY DEF R!CreateSqlite, R!CreatePostgres, R!Insert
<1> DEFINE p == [to |-> backend, row |-> new]
<1>5. p \in R!Pending /\ p.to \in R!Backends /\ p.row = new /\ p.row.id = i
  BY <1>1 DEF Inv, Types, R!Pending
<1> HIDE DEF p
<1>6. inserting' = p
  BY <1>4 DEF p
<1> HIDE DEF new
<1>7. Types'
  BY <1>1, <1>4, <1>5, <1>6 DEF Inv, Types
<1>8. IdsInv' /\ ServedInv'
  BY <1>1, <1>2, <1>4, <1>5, <1>6 DEF Inv, IdsInv, ServedInv
<1> QED
  BY <1>1, <1>7, <1>8 DEF Inv, SettledInv

LEMMA CommitStep ==
  ASSUME Inv, R!Commit, backend' = backend
  PROVE  Inv'
<1> DEFINE to == inserting.to
           new == inserting.row
<1>1. /\ inserting \in R!Pending /\ inserting' = None /\ settled = FALSE
      /\ rows' = [rows EXCEPT ![to] = @ \cup {new}]
      /\ UNCHANGED <<home, clock, reader, cursor, served, settled>>
  BY DEF Inv, Types, SettledInv, R!Commit
<1>2. to \in R!Backends /\ new \in R!Row /\ \A r \in rows[to] : r.id # new.id
  BY <1>1, NoneAssumption DEF Inv, IdsInv, R!Pending
<1> HIDE DEF to, new
<1>3. IsFiniteSet(rows[to] \cup {new})
  BY <1>2, FS_AddElement DEF Inv, Types
<1>4. Types'
  BY <1>1, <1>2, <1>3 DEF Inv, Types
<1>5. \A b \in R!Backends : \A r \in rows'[b] : r \in rows[b] \/ (r = new /\ b = to)
  BY <1>1 DEF Inv, Types
<1>6. \A b \in R!Backends : rows[b] \subseteq rows'[b]
  BY <1>1 DEF Inv, Types
<1>7. IdsInv'
  BY <1>1, <1>2, <1>5 DEF Inv, IdsInv
<1>8. home = to => served[new.id] # 1
  BY <1>2, RowFields DEF Inv, IdsInv, ServedInv
<1>9. ServedInv'
  BY <1>1, <1>5, <1>6, <1>8 DEF Inv, Types, ServedInv
<1> QED
  BY <1>1, <1>4, <1>7, <1>9 DEF Inv, SettledInv

(* A page serves each of its records for the first time.                   *)
LEMMA ReadStep ==
  ASSUME Inv, NEW n \in 1 .. MaxLimit, R!GetRecords(n), backend' = backend
  PROVE  Inv'
<1> DEFINE table == rows[home]
           answer == R!Page(table, cursor, n)
           Has(i) == \E r \in answer.records : r.id = i
<1>1. /\ reader \in {"new", "reading"} /\ home \in R!Backends /\ backend = home
      /\ table \in SUBSET R!Row /\ IsFiniteSet(table) /\ n \in Nat \ {0}
  BY PagesAssumption DEF Inv, Types, R!GetRecords, R!JobFound
<1>2. (IF backend = "sqlite" THEN R!PageSqlite(cursor, n) ELSE R!PagePostgres(cursor, n)) = answer
  BY <1>1 DEF R!PageSqlite, R!PagePostgres, R!Backends
<1>3. /\ served' = [i \in Ids |-> served[i] + R!Cardinality({r \in answer.records : r.id = i})]
      /\ cursor' = answer.next
      /\ reader' = IF answer.next = None THEN "done" ELSE "reading"
      /\ settled' = IF reader = "new" THEN R!Created = Ids /\ inserting = None ELSE settled
      /\ UNCHANGED <<home, clock, rows, inserting>>
  <2> HIDE DEF answer
  <2> QED BY <1>2 DEF R!GetRecords
<1>4. /\ answer.records \subseteq {r \in table : R!Behind(cursor, r)}
      /\ answer.next = None => answer.records = {r \in table : R!Behind(cursor, r)}
      /\ answer.next # None =>
           /\ answer.next \in answer.records
           /\ \A r \in table : R!Behind(cursor, r) =>
                (r \in answer.records <=> ~ R!Sooner(answer.next, r))
  <2> HIDE DEF table
  <2> QED BY <1>1, PageExact
<1> HIDE DEF answer
<1>5. \A r \in answer.records : served[r.id] = 0
  <2> SUFFICES ASSUME NEW r \in answer.records PROVE served[r.id] = 0
    OBVIOUS
  <2>1. r \in table /\ R!Behind(cursor, r) /\ r.id \in Ids
    BY <1>1, <1>4, RowFields
  <2>2. CASE reader = "new"
    BY <2>1, <2>2 DEF Inv, ServedInv
  <2>3. CASE reader = "reading"
    <3>1. R!Sooner(cursor, r) /\ (served[r.id] = 1 => ~ R!Sooner(cursor, r))
      BY <2>1, <2>3 DEF Inv, ServedInv, R!Behind
    <3>2. served[r.id] \in 0 .. 1
      BY <2>1 DEF Inv, Types
    <3> QED
      BY <3>1, <3>2
  <2> QED
    BY <1>1, <2>2, <2>3
<1>6. \A i \in Ids : served'[i] \in 0 .. 1 /\ (served'[i] = 1 <=> (served[i] = 1 \/ Has(i)))
  <2> SUFFICES ASSUME NEW i \in Ids
               PROVE  served'[i] \in 0 .. 1 /\ (served'[i] = 1 <=> (served[i] = 1 \/ Has(i)))
    OBVIOUS
  <2> DEFINE of == {r \in answer.records : r.id = i}
  <2>1. served'[i] = served[i] + Cardinality(of) /\ served[i] \in 0 .. 1
    BY <1>3, SameCardinality DEF Inv, Types
  <2>2. CASE Has(i)
    <3>1. PICK r \in answer.records : r.id = i
      BY <2>2
    <3>2. of = {r}
      BY <1>1, <1>4, <3>1 DEF Inv, IdsInv
    <3>3. Cardinality(of) = 1
      BY <3>2, FS_Singleton
    <3> QED
      BY <1>5, <2>1, <2>2, <3>1, <3>3
  <2>3. CASE ~ Has(i)
    <3>1. of = {}
      BY <2>3
    <3>2. Cardinality(of) = 0
      BY <3>1, FS_EmptySet
    <3> QED
      BY <2>1, <2>3, <3>2
  <2> QED
    BY <2>2, <2>3
<1>7. answer.next \in R!Row \cup {None}
  BY <1>1, <1>4
<1>8. Types'
  BY <1>1, <1>3, <1>6, <1>7 DEF Inv, Types
<1>9. IdsInv'
  BY <1>3 DEF Inv, IdsInv
\* Nothing that was served, before or now, is behind the new cursor.
<1>10. ASSUME answer.next # None, NEW r \in table
       PROVE  /\ served'[r.id] = 1 => ~ R!Sooner(answer.next, r)
              /\ ~ R!Behind(cursor, r) => cursor # None /\ ~ R!Sooner(answer.next, r)
  <2>1. r \in R!Row /\ r.id \in Ids /\ answer.next \in R!Row /\ answer.next \in table
    BY <1>1, <1>4, <1>10, RowFields
  <2>2. ~ R!Behind(cursor, r) => cursor # None /\ ~ R!Sooner(answer.next, r)
    <3> SUFFICES ASSUME ~ R!Behind(cursor, r), R!Sooner(answer.next, r) PROVE FALSE
      BY DEF R!Behind
    <3>1. cursor \in R!Row /\ R!Sooner(cursor, answer.next)
      BY <1>4, <1>10 DEF R!Behind, Inv, Types
    <3> QED
      BY <2>1, <3>1, SoonerOrder DEF R!Behind
  <2>3. ASSUME Has(r.id) PROVE ~ R!Sooner(answer.next, r)
    <3>1. r \in answer.records
      BY <1>1, <1>4, <2>3 DEF Inv, IdsInv
    <3> QED
      BY <1>4, <1>10, <3>1
  <2>4. ASSUME served[r.id] = 1 PROVE ~ R!Sooner(answer.next, r)
    <3>1. ~ R!Behind(cursor, r)
      BY <1>1, <2>1, <2>4 DEF Inv, ServedInv, R!Behind
    <3> QED
      BY <2>2, <3>1
  <2> QED
    BY <1>6, <2>1, <2>2, <2>3, <2>4
<1>11. ServedInv'
  <2>1. \A i \in Ids : served'[i] = 1 => home' # None /\ \E r \in rows'[home'] : r.id = i
    BY <1>1, <1>3, <1>4, <1>6, NoneAssumption DEF Inv, ServedInv
  <2>2. home' # None /\ (reader' = "reading" <=> cursor' # None) /\ reader' # "new"
    BY <1>1, <1>3, NoneAssumption
  <2>3. reader' = "reading" => \A r \in rows'[home'] : served'[r.id] = 1 => ~ R!Sooner(cursor', r)
    BY <1>3, <1>10
  <2> QED
    BY <2>1, <2>2, <2>3 DEF ServedInv
<1>12. SettledInv'
  <2> SUFFICES ASSUME settled' PROVE SettledInv'
    BY DEF SettledInv
  <2>1. R!Created' = Ids /\ inserting' = None
    BY <1>3 DEF Inv, SettledInv, R!Created
  <2>2. ASSUME NEW r \in table, ~ R!Behind(cursor, r) PROVE served'[r.id] = 1
    <3>1. reader = "reading" /\ settled /\ ~ R!Sooner(cursor, r)
      BY <1>1, <1>3, <2>2 DEF Inv, ServedInv, R!Behind
    <3>2. served[r.id] = 1 /\ r.id \in Ids
      BY <1>1, <3>1, RowFields DEF Inv, SettledInv
    <3> QED
      BY <1>6, <3>2
  <2>3. ASSUME NEW r \in answer.records PROVE served'[r.id] = 1
    BY <1>1, <1>4, <1>6, <2>3, RowFields
  <2>4. CASE answer.next = None
    BY <1>3, <1>4, <2>1, <2>2, <2>3, <2>4 DEF SettledInv
  <2>5. CASE answer.next # None
    <3>1. \A r \in table : ~ R!Sooner(answer.next, r) => served'[r.id] = 1
      BY <1>4, <2>2, <2>3, <2>5
    <3> QED
      BY <1>3, <2>1, <2>5, <3>1 DEF SettledInv
  <2> QED
    BY <2>4, <2>5
<1> QED
  BY <1>8, <1>9, <1>11, <1>12 DEF Inv

(* The operator moves the backend, and nothing of the records.             *)
LEMMA BackendStep ==
  ASSUME Inv, backend' \in R!Backends, UNCHANGED records
  PROVE  Inv'
BY DEF Inv, Types, IdsInv, ServedInv, SettledInv, R!Created, records

LEMMA MigrationKeepsBackends ==
  ASSUME backend \in R!Backends, [Next]_vars
  PROVE  backend' \in R!Backends
BY DEF Next, vars, source, tool, Tool, Process, CarryProfiles, Launch, StartTable, DryTable, WriteRow, Refuse,
       Commit, CreateProfile, UpdateProfile, ProfileFails, Finish, Fail, WriteSource, Learn, SwitchBackend,
       R!Backends

LEMMA NextInv == Inv /\ [CutoverNext]_<<vars, records>> => Inv'
<1> SUFFICES ASSUME Inv, [CutoverNext]_<<vars, records>> PROVE Inv'
  OBVIOUS
<1>1. CASE Next /\ UNCHANGED records
  BY <1>1, MigrationKeepsBackends, BackendStep DEF Inv, Types
<1>2. CASE UNCHANGED <<vars, records>>
  BY <1>2, MigrationKeepsBackends, BackendStep DEF Inv, Types
<1>3. CASE R!Next /\ UNCHANGED vars
  <2>1. backend' = backend
    BY <1>3 DEF vars
  <2>2. CASE R!Submit
    <3>1. \A i \in Ids : served[i] # 1
      BY <2>2 DEF Inv, ServedInv, R!Submit
    <3> QED
      BY <2>1, <2>2, <3>1, NoneAssumption DEF R!Submit, Inv, Types, IdsInv, ServedInv, SettledInv, R!Created
  <2>3. CASE R!Tick
    BY <2>1, <2>3, PagesAssumption DEF R!Tick, Inv, Types, IdsInv, ServedInv, SettledInv, R!Created
  <2>4. CASE R!Create
    BY <2>1, <2>4, CreateStep DEF R!Create
  <2>5. CASE R!Commit
    BY <2>1, <2>5, CommitStep
  <2>6. CASE R!Read
    <3>1. CASE R!JobNotFound
      BY <2>1, <3>1 DEF R!JobNotFound, Inv, Types, IdsInv, ServedInv, SettledInv, R!Created
    <3> QED
      BY <2>1, <2>6, <3>1, ReadStep DEF R!Read
  <2> QED
    BY <1>3, <2>2, <2>3, <2>4, <2>5, <2>6 DEF R!Next
<1> QED
  BY <1>1, <1>2, <1>3 DEF CutoverNext

-----------------------------------------------------------------------------
(* The migration.                                                          *)

\* A row as the tool read it, a row of the target, and the ids of a table.
SourceRow(t) == [key : Range(Order[t]), version : 0 .. MaxWrites]
TargetRow(t) == [id : {Ident[k] : k \in Keys}, of : Range(Order[t]), version : 0 .. MaxWrites]
IdsIn(S) == {r.id : r \in S}

\* The rows of a table, or of a transaction on it: one per identity.
TableOK(t, S) ==
  /\ IsFiniteSet(S) /\ S \subseteq TargetRow(t)
  /\ \A r \in S : r.id = Ident[r.of]
  /\ \A r, s \in S : r.id = s.id => r = s

Counts == [table : Range(AVAILABLE_TABLES) \cup {None}, source : Nat, inserted : Nat, updated : Nat,
           skipped : Nat, errors : Nat]

\* The version of a row counts writes to it: it never exceeds their number.
SourceTypes ==
  /\ present \in Sources /\ refused \in Defects /\ learned \in [Domains -> Values]
  /\ budget \in [runs : Nat, faults : Nat, writes : 0 .. MaxWrites]
  /\ version \in [Keys -> Nat] /\ \A k \in Keys : version[k] <= budget.writes

TargetTypes ==
  /\ DOMAIN target = Moved /\ DOMAIN before = Moved
  /\ profiles \in [Domains -> Profile \cup {None}] /\ backend \in {"sqlite", "postgres"}

ToolTypes ==
  /\ pc \in {"none", "next", "rows", "profile", "update"} /\ dry \in BOOLEAN
  /\ exit \in {"none", "ok", "failed"} /\ (exit # "none" => pc = "none")
  /\ left \subseteq Range(AVAILABLE_TABLES) /\ (pc = "none" => left = {})
  /\ batch \in Nat /\ stats \in Counts /\ report \subseteq Statistics
  /\ taken \subseteq Moved \X [key : Keys, version : 0 .. MaxWrites] /\ (dry => taken = {})
  /\ pc \in {"profile", "update"} => stats.table = "domain_profiles" /\ stats.table \in left

\* What is committed, and what the open transaction sees.
TablesInv == \A t \in Moved : TableOK(t, target[t])

RowsInv ==
  pc = "rows" =>
    /\ stats.table \in Moved /\ stats.table \in left
    /\ todo \in Seq(SourceRow(stats.table)) /\ TableOK(stats.table, open)

\* What the current transaction makes of a table, and whether it carries a row that was read.
View(t) == IF pc = "rows" /\ stats.table = t THEN open ELSE target[t]

Versions(t, k) == {x[2].version : x \in {y \in taken : y[1] = t /\ Ident[y[2].key] = Ident[k]}}
CarriedIn(S, t, row) ==
  \E r \in S : r.id = Ident[row.key] /\ (t = "opportunities" => r.version \in Versions(t, row.key))

\* Until a failure, what was read is carried by its table, or is still to do in this one.
TakenInv ==
  ~dry /\ exit # "failed" =>
    /\ pc = "rows" => \A row \in Range(todo) : <<stats.table, row>> \in taken
    /\ \A x \in taken :
         \/ CarriedIn(View(x[1]), x[1], x[2])
         \/ pc = "rows" /\ x[1] = stats.table /\ x[2] \in Range(todo)

\* A table that is not done holds what it held when the run began, but for what this transaction counted.
CountInv ==
  \A t \in Moved : t \in left =>
    IF pc = "rows" /\ stats.table = t /\ ~dry
    THEN /\ before[t] \subseteq IdsIn(open) /\ stats.inserted = Cardinality(IdsIn(open) \ before[t])
         /\ stats.inserted + stats.updated + stats.skipped + Len(todo) = stats.source /\ stats.errors = 0
    ELSE /\ before[t] = IdsIn(target[t])
         /\ pc = "rows" /\ stats.table = t =>
              stats.inserted = 0 /\ stats.updated = 0 /\ stats.skipped = 0 /\ stats.errors = 0

\* A reported table is done: nothing writes to it any more.
ReportInv == ReportIsTrue /\ \A s \in report : s.table \notin left

MInv == SourceTypes /\ TargetTypes /\ ToolTypes /\ TablesInv /\ RowsInv /\ TakenInv /\ CountInv /\ ReportInv

\* The first row of a table and the others.
LEMMA HeadAndTail ==
  ASSUME NEW S, NEW s \in Seq(S), s # <<>>
  PROVE  /\ Head(s) \in S /\ Tail(s) \in Seq(S) /\ Len(s) \in Nat /\ Len(s) = Len(Tail(s)) + 1
         /\ Range(s) = {Head(s)} \cup Range(Tail(s)) /\ Range(s) \subseteq S
<1>1. Head(s) \in S /\ Tail(s) \in Seq(S) /\ Len(s) \in Nat /\ Len(s) = Len(Tail(s)) + 1 /\ Len(Tail(s)) \in Nat
  OBVIOUS
<1>2. /\ DOMAIN s = 1 .. Len(s) /\ DOMAIN Tail(s) = 1 .. Len(Tail(s))
      /\ s[1] = Head(s) /\ \A i \in 1 .. Len(Tail(s)) : Tail(s)[i] = s[i + 1]
      /\ \A i \in 1 .. Len(s) : s[i] \in S
  OBVIOUS
<1>3. Range(s) \subseteq {Head(s)} \cup Range(Tail(s))
  <2> SUFFICES ASSUME NEW i \in 1 .. Len(s), i # 1 PROVE \E j \in DOMAIN Tail(s) : Tail(s)[j] = s[i]
    BY <1>2 DEF Range
  <2>1. i - 1 \in 1 .. Len(Tail(s)) /\ (i - 1) + 1 = i
    BY <1>1
  <2> QED
    BY <1>2, <2>1
<1>4. Head(s) \in Range(s)
  BY <1>1, <1>2 DEF Range
<1>5. Range(Tail(s)) \subseteq Range(s)
  <2> SUFFICES ASSUME NEW j \in 1 .. Len(Tail(s)) PROVE \E i \in DOMAIN s : s[i] = Tail(s)[j]
    BY <1>2 DEF Range
  <2>1. j + 1 \in 1 .. Len(s)
    BY <1>1
  <2> QED
    BY <1>2, <2>1
<1>6. Range(s) \subseteq S
  BY <1>2 DEF Range
<1> QED
  BY <1>1, <1>3, <1>4, <1>5, <1>6

\* The keys of a table are keys.
LEMMA KeysOf == ASSUME NEW t \in Moved PROVE Range(Order[t]) \subseteq Keys
BY DEF Keys

\* What a statement makes of a table: a row more, or the columns that change over those it has.
Inserted(S, row, id) == S \cup {New(row.key, row.version, id)}
Updated(S, row, id) ==
  LET held == {r \in S : r.id = id} IN (S \ held) \cup {[r EXCEPT !.version = row.version] : r \in held}

\* A row of an identity that the table does not have.
LEMMA RowInserted ==
  ASSUME NEW t \in Moved, NEW S, TableOK(t, S), NEW row \in SourceRow(t), NEW id, id = Ident[row.key],
         \A r \in S : r.id # id
  PROVE  /\ TableOK(t, Inserted(S, row, id)) /\ IdsIn(Inserted(S, row, id)) = IdsIn(S) \cup {id}
         /\ id \notin IdsIn(S)
         /\ \E q \in Inserted(S, row, id) : q.id = id /\ q.version = row.version
<1> DEFINE n == New(row.key, row.version, id)
           T == S \cup {n}
<1>1. n \in TargetRow(t) /\ n.id = Ident[n.of] /\ n.id = id /\ n.version = row.version
  BY KeysOf DEF New, TargetRow, SourceRow
<1> HIDE DEF n
<1>2. IsFiniteSet(T) /\ T \subseteq TargetRow(t)
  BY <1>1, FS_AddElement DEF TableOK
<1>3. \A r \in T : r.id = Ident[r.of]
  BY <1>1 DEF TableOK
<1>4. \A r, s \in T : r.id = s.id => r = s
  BY <1>1 DEF TableOK
<1>5. IdsIn(T) = IdsIn(S) \cup {id} /\ id \notin IdsIn(S)
  BY <1>1 DEF IdsIn
<1> HIDE DEF T
<1>6. TableOK(t, T)
  BY <1>2, <1>3, <1>4 DEF TableOK
<1> QED
  BY <1>1, <1>5, <1>6 DEF T, n, Inserted

\* A row over the one the table has of its identity.
LEMMA RowUpdated ==
  ASSUME NEW t \in Moved, NEW S, TableOK(t, S), NEW row \in SourceRow(t), NEW id, id = Ident[row.key],
         \E r \in S : r.id = id
  PROVE  /\ TableOK(t, Updated(S, row, id)) /\ IdsIn(Updated(S, row, id)) = IdsIn(S)
         /\ \A r \in S : r \in Updated(S, row, id) \/ r.id = id
         /\ \E q \in Updated(S, row, id) : q.id = id /\ q.version = row.version
<1> DEFINE held == {r \in S : r.id = id}
           T == (S \ held) \cup {[r EXCEPT !.version = row.version] : r \in held}
<1>1. PICK h \in S : h.id = id
  OBVIOUS
<1>2. held = {h}
  BY <1>1 DEF TableOK
<1> DEFINE n == [h EXCEPT !.version = row.version]
<1>3. n \in TargetRow(t) /\ n.id = Ident[n.of] /\ n.id = id /\ n.version = row.version
  BY <1>1 DEF TableOK, TargetRow, SourceRow
<1>4. T = (S \ {h}) \cup {n}
  BY <1>2
<1> HIDE DEF n, held, T
<1>5. IsFiniteSet((S \ {h}) \cup {n})
  <2>1. IsFiniteSet(S \ {h})
    BY FS_RemoveElement DEF TableOK
  <2> QED
    BY <2>1, FS_AddElement
<1>6. \A r \in S \ {h} : r.id # id
  BY <1>1 DEF TableOK
<1>7. IsFiniteSet(T) /\ T \subseteq TargetRow(t) /\ \A r \in T : r.id = Ident[r.of]
  BY <1>3, <1>4, <1>5 DEF TableOK
<1>8. \A r, s \in T : r.id = s.id => r = s
  BY <1>3, <1>4, <1>6 DEF TableOK
<1>9. IdsIn(T) = IdsIn(S)
  BY <1>1, <1>3, <1>4 DEF IdsIn
<1>10. n \in T /\ id \in IdsIn(S) /\ \A r \in S : r \in T \/ r.id = id
  BY <1>1, <1>4 DEF IdsIn
<1>11. TableOK(t, T)
  BY <1>7, <1>8 DEF TableOK
<1> QED
  BY <1>3, <1>9, <1>10, <1>11 DEF held, T, Updated

\* One statement of the open transaction.
LEMMA RowWritten ==
  ASSUME RowsInv, WriteRow, NEW t, t = stats.table, NEW row, row = Head(todo), NEW id, id = Ident[row.key]
  PROVE  /\ t \in Moved /\ row \in SourceRow(t) /\ TableOK(t, open')
         /\ \A r \in open : r \in open' \/ (r.id = id /\ t = "opportunities")
         /\ \E q \in open' : q.id = id /\ (t = "opportunities" => q.version = row.version)
         /\ \/ /\ id \notin IdsIn(open) /\ IdsIn(open') = IdsIn(open) \cup {id}
               /\ stats' = [stats EXCEPT !.inserted = @ + 1]
            \/ /\ IdsIn(open') = IdsIn(open)
               /\ stats' = [stats EXCEPT !.updated = @ + 1] \/ stats' = [stats EXCEPT !.skipped = @ + 1]
<1>1. t \in Moved /\ row \in SourceRow(t) /\ TableOK(t, open)
  BY HeadAndTail DEF WriteRow, RowsInv
<1> DEFINE known == \E r \in open : r.id = id
           grown == [stats EXCEPT !.inserted = @ + 1]
           over  == [stats EXCEPT !.updated = @ + 1]
           kept  == [stats EXCEPT !.skipped = @ + 1]
<1>2. \/ ~ known /\ open' = Inserted(open, row, id) /\ stats' = grown
      \/ known /\ t = "opportunities" /\ open' = Updated(open, row, id) /\ stats' = over
      \/ known /\ t # "opportunities" /\ open' = open /\ stats' = kept
  BY DEF WriteRow, UpsertOpportunity, InsertRun, InsertDeadLetter, Insert, Held, OpportunityId, DeadLetterId,
         Inserted, Updated
<1> HIDE DEF grown, over, kept
<1>3. CASE ~ known /\ open' = Inserted(open, row, id) /\ stats' = grown
  <2>1. \A r \in open : r.id # id
    BY <1>3
  <2>2. /\ TableOK(t, open') /\ IdsIn(open') = IdsIn(open) \cup {id} /\ id \notin IdsIn(open)
        /\ \E q \in open' : q.id = id /\ q.version = row.version
    BY <1>1, <1>3, <2>1, RowInserted
  <2>3. open \subseteq open'
    BY <1>3 DEF Inserted
  <2> QED
    BY <1>1, <1>3, <2>2, <2>3 DEF grown
<1>4. CASE known /\ t = "opportunities" /\ open' = Updated(open, row, id) /\ stats' = over
  <2>1. /\ TableOK(t, open') /\ IdsIn(open') = IdsIn(open)
        /\ \A r \in open : r \in open' \/ r.id = id
        /\ \E q \in open' : q.id = id /\ q.version = row.version
    BY <1>1, <1>4, RowUpdated
  <2> HIDE DEF known
  <2> QED
    BY <1>1, <1>4, <2>1 DEF over
<1>5. CASE known /\ t # "opportunities" /\ open' = open /\ stats' = kept
  BY <1>1, <1>5 DEF kept
<1> HIDE DEF known
<1> QED
  BY <1>2, <1>3, <1>4, <1>5

\* A table has finitely many ids.
LEMMA IdsFinite == ASSUME NEW S, IsFiniteSet(S) PROVE IsFiniteSet(IdsIn(S))
<1> DEFINE f == [r \in S |-> r.id]
<1>1. f \in [S -> IdsIn(S)] /\ \A i \in IdsIn(S) : \E r \in S : f[r] = i
  BY DEF IdsIn
<1>2. f \in Surjection(S, IdsIn(S))
  <2> HIDE DEF f
  <2> QED BY <1>1, Zenon DEF Surjection
<1> QED
  BY <1>2, FS_Surjection

\* The first table left is one of those left.
LEMMA FirstIsLeft ==
  ASSUME left \subseteq Range(AVAILABLE_TABLES), left # {} PROVE First(left) \in left
<1> DEFINE f == [t \in left |-> Rank(t)]
<1>1. \A t \in left : Rank(t) \in Nat
  BY DEF Rank, Range, AVAILABLE_TABLES
<1>2. PICK t \in left : \A u \in left : f[t] <= f[u]
  <2>1. f \in [left -> Nat]
    BY <1>1
  <2> HIDE DEF f
  <2> QED BY <2>1, LeastOfImage
<1>3. \A u \in left : Rank(t) <= Rank(u)
  BY <1>2
<1> QED
  BY <1>3 DEF First

\* The rows read of a table.
LEMMA RowsRead ==
  ASSUME SourceTypes
  PROVE  /\ \A t \in Moved : RowsOf(t) \in Seq(SourceRow(t))
         /\ \A t \in Moved \cup {"domain_profiles"} : Len(RowsOf(t)) \in Nat
<1>1. ASSUME NEW t \in Moved PROVE RowsOf(t) \in Seq(SourceRow(t))
  <2> DEFINE s == Order[t]
  <2>1. s \in Seq(Keys)
    BY TablesAssumption
  <2>2. Len(s) \in Nat /\ DOMAIN s = 1 .. Len(s) /\ \A i \in 1 .. Len(s) : s[i] \in Keys /\ s[i] \in Range(s)
    BY <2>1 DEF Range
  <2>3. \A k \in Keys : version[k] \in 0 .. MaxWrites
    BY NumbersAssumption DEF SourceTypes
  <2>4. \A i \in 1 .. Len(s) : Row(s[i]) \in SourceRow(t)
    BY <2>2, <2>3 DEF Row, SourceRow
  <2>5. t # "domain_profiles"
    BY DEF Moved
  <2> HIDE DEF s
  <2>6. RowsOf(t) = [i \in 1 .. Len(s) |-> Row(s[i])]
    BY <2>2, <2>5 DEF RowsOf, s
  <2> QED
    BY <2>2, <2>4, <2>6
<1>2. Len(RowsOf("domain_profiles")) \in Nat
  <2> DEFINE n == Cardinality(Domains)
  <2>1. n \in Nat /\ ExistsBijection(1 .. n, Domains)
    BY TablesAssumption, FS_CardinalityType
  <2>2. \E f \in [1 .. n -> Domains] : IsInjective(f)
    BY <2>1, Zenon DEF ExistsBijection, Bijection, Injection
  <2>3. SetToSeq(Domains) \in [1 .. n -> Domains]
    BY <2>2 DEF SetToSeq
  <2> HIDE DEF n
  <2> QED
    BY <2>1, <2>3 DEF RowsOf
<1> QED
  BY <1>1, <1>2 DEF Moved

\* The first state.
LEMMA MigrationInit == Init => MInv
<1> SUFFICES ASSUME Init PROVE MInv
  OBVIOUS
<1>1. SourceTypes
  <2>1. learned \in [Domains -> Values]
    BY DEF Init
  <2>2. version \in [Keys -> Nat] /\ \A k \in Keys : version[k] <= 0
    BY DEF Init
  <2> QED
    BY <2>1, <2>2, NumbersAssumption DEF Init, SourceTypes
<1>2. TargetTypes
  BY DEF Init, TargetTypes, IdsOf
<1>3. ToolTypes
  BY DEF Init, ToolTypes, NoStats, Counts
<1>4. TablesInv
  BY FS_EmptySet DEF Init, TablesInv, TableOK
<1> QED
  BY <1>1, <1>2, <1>3, <1>4 DEF Init, MInv, RowsInv, TakenInv, CountInv, ReportInv, ReportIsTrue

\* A table's ids, and its name.
LEMMA TableIds ==
  /\ \A t \in Moved : IdsOf(target)[t] = IdsIn(target[t])
  /\ "domain_profiles" \notin Moved /\ Moved \subseteq Range(AVAILABLE_TABLES)
  /\ "domain_profiles" \in Range(AVAILABLE_TABLES)
BY DEF IdsOf, IdsIn, Moved, Range, AVAILABLE_TABLES

\* A run that ends leaves the target and its report.
LEMMA StopStep ==
  ASSUME MInv, NEW how \in {"ok", "failed"}, Stop(how), how = "ok" => pc = "next",
         UNCHANGED <<source, target, profiles, backend, dry, verify, report, taken, before>>,
         budget' \in [runs : Nat, faults : Nat, writes : 0 .. MaxWrites], budget'.writes = budget.writes
  PROVE  MInv'
<1>1. SourceTypes'
  BY DEF MInv, SourceTypes, source
<1>2. TargetTypes'
  BY DEF MInv, TargetTypes
<1>3. ToolTypes'
  BY DEF MInv, ToolTypes, Stop, NoStats, Counts
<1>4. TablesInv' /\ RowsInv' /\ CountInv'
  BY DEF MInv, TablesInv, RowsInv, CountInv, Stop
<1>5. TakenInv'
  <2> SUFFICES ASSUME how = "ok", ~dry, NEW x \in taken PROVE CarriedIn(View(x[1]), x[1], x[2])'
    BY DEF Stop, TakenInv
  <2>1. pc = "next" /\ exit = "none"
    BY DEF MInv, ToolTypes
  <2>2. CarriedIn(target[x[1]], x[1], x[2])
    BY <2>1 DEF MInv, TakenInv, View
  <2> QED
    BY <2>2 DEF Stop, View, CarriedIn, Versions
<1>6. ReportInv'
  BY DEF MInv, ReportInv, ReportIsTrue, Stop
<1> QED
  BY <1>1, <1>2, <1>3, <1>4, <1>5, <1>6 DEF MInv

\* A run begins with the tables as they are.
LEMMA LaunchStep == ASSUME MInv, Launch PROVE MInv'
<1>1. SourceTypes'
  BY DEF MInv, SourceTypes, source, Launch, Spend
<1>2. TargetTypes'
  BY DEF MInv, TargetTypes, Launch, IdsOf
<1>3. ToolTypes'
  BY DEF MInv, ToolTypes, Launch, Stop, NoStats, Counts, Known, Chosen
<1>4. TablesInv' /\ RowsInv'
  BY DEF MInv, TablesInv, RowsInv, Launch, Stop
<1>5. TakenInv'
  BY DEF TakenInv, Launch, Stop
<1>6. CountInv'
  BY TableIds DEF CountInv, Launch, Stop
<1>7. ReportInv'
  BY DEF ReportInv, ReportIsTrue, Launch
<1> QED
  BY <1>1, <1>2, <1>3, <1>4, <1>5, <1>6, <1>7 DEF MInv

\* A table without rows, or without a source, is not read.
LEMMA SkipStep ==
  ASSUME MInv, pc = "next", NEW t, SkipTable(t),
         UNCHANGED <<source, target, profiles, backend, dry, verify, before, budget>>
  PROVE  MInv'
<1>1. SourceTypes' /\ TargetTypes'
  BY DEF MInv, SourceTypes, TargetTypes, source
<1>2. ToolTypes'
  BY DEF MInv, ToolTypes, SkipTable
<1>3. TablesInv' /\ RowsInv' /\ CountInv'
  BY DEF MInv, TablesInv, RowsInv, CountInv, SkipTable
<1>4. TakenInv'
  BY DEF MInv, TakenInv, SkipTable, View, CarriedIn, Versions
<1>5. ReportInv'
  BY DEF MInv, ReportInv, ReportIsTrue, SkipTable
<1> QED
  BY <1>1, <1>2, <1>3, <1>4, <1>5 DEF MInv

\* What a table is read as is carried before its transaction writes the first row, or is to do.
LEMMA ReadTableStep ==
  ASSUME MInv, pc = "next", NEW t \in left, ReadTable(t), t \in Moved \cup {"domain_profiles"},
         UNCHANGED <<source, target, profiles, backend, dry, verify, before, budget>>
  PROVE  MInv'
<1> DEFINE new == {<<t, r>> : r \in Range(RowsOf(t))}
<1>1. SourceTypes' /\ TargetTypes'
  BY DEF MInv, SourceTypes, TargetTypes, source
<1>2. Len(RowsOf(t)) \in Nat /\ (t \in Moved => RowsOf(t) \in Seq(SourceRow(t)))
  BY RowsRead DEF MInv
<1>3. /\ stats'.table = t /\ stats'.source = Len(RowsOf(t)) /\ stats'.inserted = 0 /\ stats'.updated = 0
      /\ stats'.skipped = 0 /\ stats'.errors = 0 /\ stats' \in Counts
  BY <1>2, TableIds DEF ReadTable, NoStats, Counts
<1>4. /\ todo' = RowsOf(t) /\ UNCHANGED <<left, batch, report, exit>> /\ exit = "none"
      /\ t \in Moved => pc' = "rows" /\ open' = target[t]
      /\ t \notin Moved => pc' = "profile" /\ t = "domain_profiles"
      /\ taken' = IF t \in Moved /\ ~dry THEN taken \cup new ELSE taken
  BY TableIds DEF ReadTable, MInv, ToolTypes
<1>5. ASSUME t \in Moved PROVE \A r \in Range(RowsOf(t)) : r \in SourceRow(t)
  <2>1. RowsOf(t) \in Seq(SourceRow(t))
    BY <1>2, <1>5
  <2> QED
    BY <2>1 DEF Range
<1>6. ToolTypes'
  <2>1. taken' \subseteq Moved \X [key : Keys, version : 0 .. MaxWrites]
    <3>1. CASE t \in Moved
      <4>1. SourceRow(t) \subseteq [key : Keys, version : 0 .. MaxWrites]
        BY <3>1, KeysOf DEF SourceRow
      <4> QED
        BY <1>4, <1>5, <3>1, <4>1 DEF MInv, ToolTypes
    <3> QED
      BY <1>4, <3>1 DEF MInv, ToolTypes
  <2>2. dry => taken' = {}
    BY <1>4 DEF MInv, ToolTypes
  <2> HIDE DEF new
  <2> QED
    BY <1>3, <1>4, <2>1, <2>2 DEF MInv, ToolTypes
<1>7. TablesInv'
  BY DEF MInv, TablesInv
<1>8. RowsInv'
  BY <1>2, <1>3, <1>4 DEF MInv, RowsInv, TablesInv, SourceRow, TableOK, TargetRow
<1>9. TakenInv'
  <2> SUFFICES ASSUME ~dry
               PROVE  /\ pc' = "rows" => \A row \in Range(todo') : <<stats'.table, row>> \in taken'
                      /\ \A x \in taken' :
                           \/ CarriedIn(View(x[1]), x[1], x[2])'
                           \/ pc' = "rows" /\ x[1] = stats'.table /\ x[2] \in Range(todo')
    BY DEF TakenInv
  <2>1. taken \subseteq taken' /\ (t \in Moved => new \subseteq taken')
    BY <1>4
  <2>2. \A u : View(u)' = target[u] /\ View(u) = target[u]
    BY <1>3, <1>4 DEF View
  <2>3. ASSUME NEW x \in taken PROVE CarriedIn(View(x[1]), x[1], x[2])'
    <3>1. CarriedIn(target[x[1]], x[1], x[2])
      BY <1>4, <2>2 DEF MInv, TakenInv
    <3>2. Versions(x[1], x[2].key) \subseteq Versions(x[1], x[2].key)'
      BY <2>1 DEF Versions
    <3> QED
      BY <2>2, <3>1, <3>2 DEF CarriedIn
  <2>4. ASSUME NEW x \in taken', x \notin taken
        PROVE  pc' = "rows" /\ x[1] = stats'.table /\ x[2] \in Range(todo')
    BY <1>3, <1>4, <2>4
  <2>5. pc' = "rows" => \A row \in Range(todo') : <<stats'.table, row>> \in taken'
    BY <1>3, <1>4, <2>1
  <2> QED
    BY <2>3, <2>4, <2>5
<1>10. CountInv'
  <2> SUFFICES ASSUME NEW u \in Moved, u \in left
               PROVE  IF pc' = "rows" /\ stats'.table = u /\ ~dry
                      THEN /\ before[u] \subseteq IdsIn(open')
                           /\ stats'.inserted = Cardinality(IdsIn(open') \ before[u])
                           /\ stats'.inserted + stats'.updated + stats'.skipped + Len(todo') = stats'.source
                           /\ stats'.errors = 0
                      ELSE /\ before[u] = IdsIn(target[u])
                           /\ pc' = "rows" /\ stats'.table = u =>
                                /\ stats'.inserted = 0 /\ stats'.updated = 0
                                /\ stats'.skipped = 0 /\ stats'.errors = 0
    BY <1>4 DEF CountInv, IdsIn
  <2>1. before[u] = IdsIn(target[u])
    BY DEF MInv, CountInv
  <2>2. Cardinality(IdsIn(target[u]) \ before[u]) = 0
    BY <2>1, FS_EmptySet
  <2>3. CASE pc' = "rows" /\ stats'.table = u
    <3>1. open' = target[u] /\ stats'.source = Len(todo') /\ Len(todo') \in Nat
      BY <1>2, <1>3, <1>4, <2>3
    <3> QED
      BY <1>3, <2>1, <2>2, <2>3, <3>1
  <2> QED
    BY <2>1, <2>3
<1>11. ReportInv'
  BY <1>4 DEF MInv, ReportInv, ReportIsTrue
<1> QED
  BY <1>1, <1>6, <1>7, <1>8, <1>9, <1>10, <1>11 DEF MInv

\* The next table is skipped, read, or missing.
LEMMA StartTableStep == ASSUME MInv, StartTable PROVE MInv'
<1>1. First(left) \in left
  BY FirstIsLeft DEF StartTable, MInv, ToolTypes
<1>2. \/ SkipTable(First(left))
      \/ ReadTable(First(left)) /\ First(left) \in present
      \/ Stop("failed") /\ UNCHANGED <<report, taken>>
  BY DEF StartTable
<1>3. pc = "next" /\ UNCHANGED <<source, target, profiles, backend, dry, verify, before, budget>>
  BY DEF StartTable
<1>4. CASE SkipTable(First(left))
  BY <1>3, <1>4, SkipStep
<1>5. CASE ReadTable(First(left)) /\ First(left) \in present
  BY <1>1, <1>3, <1>5, ReadTableStep, TablesAssumption DEF MInv, SourceTypes
<1>6. CASE Stop("failed") /\ UNCHANGED <<report, taken>>
  BY <1>3, <1>6, StopStep DEF MInv, SourceTypes
<1> QED
  BY <1>2, <1>4, <1>5, <1>6

\* A dry run counts nothing.
LEMMA DryTableStep == ASSUME MInv, DryTable PROVE MInv'
<1>1. /\ pc \in {"rows", "profile"} /\ dry /\ exit = "none" /\ stats.table \in left
      /\ pc' = "next" /\ left' = left \ {stats.table} /\ report' = report \cup {stats} /\ batch' = 0
      /\ stats' = NoStats
      /\ UNCHANGED <<source, target, profiles, backend, dry, verify, exit, taken, before, budget>>
  BY DEF DryTable, EndTable, MInv, ToolTypes, RowsInv
<1>2. SourceTypes' /\ TargetTypes'
  BY <1>1 DEF MInv, SourceTypes, TargetTypes, source
<1>3. stats.table \in Range(AVAILABLE_TABLES)
  BY <1>1 DEF MInv, ToolTypes
<1>4. stats \in Statistics
  BY <1>3 DEF MInv, ToolTypes, Counts, Statistics
<1>5. ToolTypes'
  BY <1>1, <1>4 DEF MInv, ToolTypes, NoStats, Counts
<1>6. TablesInv' /\ RowsInv' /\ TakenInv'
  BY <1>1 DEF MInv, TablesInv, RowsInv, TakenInv
<1>7. CountInv'
  BY <1>1 DEF MInv, CountInv
<1>8. ReportInv'
  <2>1. ASSUME stats.table \in Moved
        PROVE  /\ stats.inserted = Cardinality(IdsOf(target)[stats.table] \ before[stats.table])
               /\ stats.inserted + stats.updated + stats.skipped + stats.errors = 0
    <3>1. /\ before[stats.table] = IdsIn(target[stats.table])
          /\ stats.inserted = 0 /\ stats.updated = 0 /\ stats.skipped = 0 /\ stats.errors = 0
      BY <1>1, <2>1, TableIds DEF MInv, CountInv, ToolTypes
    <3>2. IdsOf(target)[stats.table] \ before[stats.table] = {}
      BY <2>1, <3>1, TableIds
    <3> QED
      BY <3>1, <3>2, FS_EmptySet
  <2>2. IdsOf(target)' = IdsOf(target)
    BY <1>1 DEF IdsOf
  <2> QED
    BY <1>1, <2>1, <2>2 DEF MInv, ReportInv, ReportIsTrue
<1> QED
  BY <1>2, <1>5, <1>6, <1>7, <1>8 DEF MInv

\* What a statement writes is carried and counted.
LEMMA WriteRowStep == ASSUME MInv, WriteRow PROVE MInv'
<1> DEFINE t == stats.table
           row == Head(todo)
           id == Ident[row.key]
<1>1. /\ t \in Moved /\ row \in SourceRow(t) /\ TableOK(t, open')
      /\ \A r \in open : r \in open' \/ (r.id = id /\ t = "opportunities")
      /\ \E q \in open' : q.id = id /\ (t = "opportunities" => q.version = row.version)
      /\ \/ /\ id \notin IdsIn(open) /\ IdsIn(open') = IdsIn(open) \cup {id}
            /\ stats' = [stats EXCEPT !.inserted = @ + 1]
         \/ /\ IdsIn(open') = IdsIn(open)
            /\ stats' = [stats EXCEPT !.updated = @ + 1] \/ stats' = [stats EXCEPT !.skipped = @ + 1]
  BY RowWritten DEF MInv
<1>2. /\ pc = "rows" /\ ~dry /\ exit = "none" /\ todo' = Tail(todo) /\ batch' = batch + 1
      /\ UNCHANGED <<source, target, profiles, backend, pc, dry, verify, left, report, exit, taken, before, budget>>
  BY DEF WriteRow, MInv, ToolTypes
<1>3. /\ todo \in Seq(SourceRow(t)) /\ todo' \in Seq(SourceRow(t)) /\ Len(todo) \in Nat /\ Len(todo') \in Nat
      /\ Len(todo) = Len(todo') + 1 /\ Range(todo) = {row} \cup Range(todo') /\ t \in left
  BY <1>2, HeadAndTail DEF WriteRow, MInv, RowsInv
<1>4. stats' \in Counts /\ stats'.table = t /\ stats'.source = stats.source /\ stats'.errors = stats.errors
  BY <1>1 DEF MInv, ToolTypes, Counts
<1>5. \/ /\ id \notin IdsIn(open) /\ IdsIn(open') = IdsIn(open) \cup {id}
         /\ stats'.inserted = stats.inserted + 1
         /\ stats'.updated = stats.updated /\ stats'.skipped = stats.skipped
      \/ /\ IdsIn(open') = IdsIn(open) /\ stats'.inserted = stats.inserted
         /\ \/ stats'.updated = stats.updated + 1 /\ stats'.skipped = stats.skipped
            \/ stats'.updated = stats.updated /\ stats'.skipped = stats.skipped + 1
  BY <1>1 DEF MInv, ToolTypes, Counts
<1> HIDE DEF t, row, id
<1>6. SourceTypes' /\ TargetTypes'
  BY <1>2 DEF MInv, SourceTypes, TargetTypes, source
<1>7. ToolTypes'
  BY <1>2, <1>4 DEF MInv, ToolTypes
<1>8. TablesInv' /\ RowsInv'
  BY <1>1, <1>2, <1>3, <1>4 DEF MInv, TablesInv, RowsInv, SourceRow, TableOK, TargetRow
<1>9. TakenInv'
  <2>1. /\ \A r \in Range(todo) : <<t, r>> \in taken
        /\ \A x \in taken : CarriedIn(View(x[1]), x[1], x[2]) \/ (x[1] = t /\ x[2] \in Range(todo))
    BY <1>2 DEF MInv, TakenInv, t
  <2>2. SUFFICES ASSUME NEW x \in taken, ~ (x[1] = t /\ x[2] \in Range(todo'))
                 PROVE  CarriedIn(View(x[1]), x[1], x[2])'
    BY <1>2, <1>3, <1>4, <2>1 DEF TakenInv
  <2>3. View(x[1])' = (IF x[1] = t THEN open' ELSE target[x[1]])
    BY <1>2, <1>4 DEF View
  <2>4. View(x[1]) = (IF x[1] = t THEN open ELSE target[x[1]])
    BY <1>2 DEF View, t
  <2>5. Versions(x[1], x[2].key)' = Versions(x[1], x[2].key)
    BY <1>2 DEF Versions
  <2>6. <<t, row>> \in taken
    BY <1>3, <2>1
  <2>7. ASSUME x[1] = t, Ident[x[2].key] = id PROVE CarriedIn(View(x[1]), x[1], x[2])'
    <3>1. PICK q \in open' : q.id = id /\ (t = "opportunities" => q.version = row.version)
      BY <1>1
    <3>2. row.version \in Versions(t, x[2].key)
      BY <2>6, <2>7 DEF Versions, id
    <3> QED
      BY <2>3, <2>5, <2>7, <3>1, <3>2 DEF CarriedIn
  <2>8. CASE CarriedIn(View(x[1]), x[1], x[2])
    <3>1. PICK r \in View(x[1]) :
            r.id = Ident[x[2].key] /\ (x[1] = "opportunities" => r.version \in Versions(x[1], x[2].key))
      BY <2>8 DEF CarriedIn
    <3>2. CASE x[1] # t
      BY <2>3, <2>4, <2>5, <3>1, <3>2 DEF CarriedIn
    <3>3. CASE x[1] = t /\ r \in open'
      BY <2>3, <2>5, <3>1, <3>3 DEF CarriedIn
    <3>4. CASE x[1] = t /\ r.id = id
      BY <2>7, <3>1, <3>4
    <3>5. x[1] = t => r \in open
      BY <2>4, <3>1
    <3> QED
      BY <1>1, <3>2, <3>3, <3>4, <3>5
  <2>9. CASE x[1] = t /\ x[2] = row
    BY <2>7, <2>9 DEF id
  <2> QED
    BY <1>3, <2>1, <2>2, <2>8, <2>9
<1>10. CountInv'
  <2>1. /\ before[t] \subseteq IdsIn(open) /\ stats.inserted = Cardinality(IdsIn(open) \ before[t])
        /\ stats.inserted + stats.updated + stats.skipped + Len(todo) = stats.source /\ stats.errors = 0
    BY <1>1, <1>2, <1>3 DEF MInv, CountInv, t
  <2>2. before[t] \subseteq IdsIn(open') /\ stats'.inserted = Cardinality(IdsIn(open') \ before[t])
    <3>1. CASE /\ id \notin IdsIn(open) /\ IdsIn(open') = IdsIn(open) \cup {id}
               /\ stats'.inserted = stats.inserted + 1
      <4> DEFINE old == IdsIn(open) \ before[t]
      <4>1. IsFiniteSet(old) /\ id \notin old
        <5>1. IsFiniteSet(IdsIn(open))
          BY <1>2, IdsFinite DEF MInv, RowsInv, TableOK
        <5> QED
          BY <3>1, <5>1, FS_Difference
      <4>2. IdsIn(open') \ before[t] = old \cup {id}
        BY <2>1, <3>1
      <4> HIDE DEF old
      <4>3. Cardinality(old \cup {id}) = Cardinality(old) + 1
        BY <4>1, FS_AddElement
      <4> QED
        BY <2>1, <3>1, <4>2, <4>3 DEF old
    <3> QED
      BY <1>5, <2>1, <3>1
  <2>3. stats'.inserted + stats'.updated + stats'.skipped + Len(todo') = stats'.source
    <3>1. /\ stats.inserted \in Nat /\ stats.updated \in Nat /\ stats.skipped \in Nat
      BY DEF MInv, ToolTypes, Counts
    <3>2. Len(todo) \in Nat /\ Len(todo') \in Nat /\ Len(todo) = Len(todo') + 1
      BY <1>3
    <3>3. stats'.source = stats.source /\ stats.inserted + stats.updated + stats.skipped + Len(todo) = stats.source
      BY <1>4, <2>1
    <3> DEFINE n == Len(todo)
               m == Len(todo')
    <3>4. n \in Nat /\ m \in Nat /\ n = m + 1 /\ stats.inserted + stats.updated + stats.skipped + n = stats'.source
      BY <3>2, <3>3
    <3> SUFFICES stats'.inserted + stats'.updated + stats'.skipped + m = stats'.source
      OBVIOUS
    <3> HIDE DEF n, m
    <3>5. CASE stats'.inserted = stats.inserted + 1 /\ stats'.updated = stats.updated /\ stats'.skipped = stats.skipped
      BY <3>1, <3>4, <3>5
    <3>6. CASE stats'.inserted = stats.inserted /\ stats'.updated = stats.updated + 1 /\ stats'.skipped = stats.skipped
      BY <3>1, <3>4, <3>6
    <3>7. CASE stats'.inserted = stats.inserted /\ stats'.updated = stats.updated /\ stats'.skipped = stats.skipped + 1
      BY <3>1, <3>4, <3>7
    <3> QED
      BY <1>5, <3>5, <3>6, <3>7
  <2>4. \A u \in Moved : u \in left /\ u # t => before[u] = IdsIn(target[u])
    BY DEF MInv, CountInv, t
  <2> QED
    BY <1>2, <1>4, <2>1, <2>2, <2>3, <2>4 DEF CountInv
<1>11. ReportInv'
  BY <1>2 DEF MInv, ReportInv, ReportIsTrue, IdsOf
<1> QED
  BY <1>6, <1>7, <1>8, <1>9, <1>10, <1>11 DEF MInv

\* A transaction that commits is the table from then on.
LEMMA CommitTableStep == ASSUME MInv, Commit PROVE MInv'
<1> DEFINE t == stats.table
<1>1. /\ pc = "rows" /\ ~dry /\ exit = "none" /\ t \in Moved /\ t \in left /\ TableOK(t, open)
      /\ target' = [target EXCEPT ![t] = open] /\ DOMAIN target = Moved
      /\ UNCHANGED <<source, profiles, backend, dry, verify, exit, taken, before, budget>>
  BY DEF Commit, Committed, MInv, TargetTypes, ToolTypes, RowsInv
<1>2. /\ before[t] \subseteq IdsIn(open) /\ stats.inserted = Cardinality(IdsIn(open) \ before[t])
      /\ stats.inserted + stats.updated + stats.skipped + Len(todo) = stats.source /\ stats.errors = 0
  BY <1>1 DEF MInv, CountInv
<1>3. \A u : target'[u] = (IF u = t THEN open ELSE target[u]) \/ u \notin Moved
  BY <1>1
<1>4. \A u \in Moved : u # t => target'[u] = target[u] /\ IdsOf(target)'[u] = IdsOf(target)[u]
  BY <1>3 DEF IdsOf
<1>5. target'[t] = open /\ IdsOf(target)'[t] = IdsIn(open)
  BY <1>1 DEF IdsOf, IdsIn
<1>6. SourceTypes'
  BY <1>1 DEF MInv, SourceTypes, source
<1>7. TargetTypes'
  BY <1>1 DEF MInv, TargetTypes
<1>8. TablesInv'
  BY <1>1, <1>4, <1>5 DEF MInv, TablesInv, TableOK, TargetRow
<1>9. \A x \in taken : Versions(x[1], x[2].key)' = Versions(x[1], x[2].key) /\ x[1] \in Moved
  BY <1>1 DEF Versions, MInv, ToolTypes
<1>10. \A s \in report : s.table # t
  BY <1>1 DEF MInv, ReportInv
<1>11. \A s \in report : s.table \in Moved =>
         /\ s.inserted = Cardinality(IdsOf(target)'[s.table] \ before[s.table])
         /\ s.inserted + s.updated + s.skipped + s.errors = IF dry THEN 0 ELSE s.source
  BY <1>4, <1>10 DEF MInv, ReportInv, ReportIsTrue
<1>12. CASE todo = <<>>
  <2>1. /\ pc' = "next" /\ left' = left \ {t} /\ report' = report \cup {stats} /\ batch' = 0 /\ todo' = <<>>
        /\ stats' = NoStats
    BY <1>12 DEF Commit, EndTable
  <2>2. stats \in Statistics
    BY <1>1, TableIds DEF MInv, ToolTypes, Counts, Statistics
  <2>3. ToolTypes'
    BY <1>1, <2>1, <2>2 DEF MInv, ToolTypes, NoStats, Counts
  <2>4. RowsInv'
    BY <2>1 DEF RowsInv
  <2>5. TakenInv'
    <3> SUFFICES ASSUME NEW x \in taken PROVE CarriedIn(View(x[1]), x[1], x[2])'
      BY <1>1, <2>1 DEF TakenInv
    <3>1. CarriedIn(View(x[1]), x[1], x[2])
      BY <1>1, <1>12 DEF MInv, TakenInv, Range
    <3>2. View(x[1])' = View(x[1])
      BY <1>1, <1>4, <1>5, <1>9, <2>1 DEF View
    <3> QED
      BY <1>9, <3>1, <3>2 DEF CarriedIn
  <2>6. CountInv'
    BY <1>1, <1>4, <2>1 DEF MInv, CountInv
  <2>7. ReportInv'
    <3>1. stats.inserted + stats.updated + stats.skipped + stats.errors = stats.source
      BY <1>2, <1>12 DEF MInv, ToolTypes, Counts
    <3>2. stats.inserted = Cardinality(IdsOf(target)'[t] \ before[t])
      BY <1>2, <1>5
    <3> QED
      BY <1>1, <1>11, <2>1, <3>1, <3>2 DEF MInv, ReportInv, ReportIsTrue
  <2> QED
    BY <1>6, <1>7, <1>8, <2>3, <2>4, <2>5, <2>6, <2>7 DEF MInv
<1>13. CASE todo # <<>>
  <2>1. batch' = 0 /\ UNCHANGED <<pc, left, todo, open, stats, report>>
    BY <1>13 DEF Commit
  <2>2. ToolTypes'
    BY <1>1, <2>1 DEF MInv, ToolTypes
  <2>3. RowsInv'
    BY <2>1 DEF MInv, RowsInv, SourceRow, TableOK, TargetRow
  <2>4. TakenInv'
    <3> SUFFICES ASSUME NEW x \in taken
                 PROVE  CarriedIn(View(x[1]), x[1], x[2])' \/ (x[1] = t /\ x[2] \in Range(todo))
      BY <1>1, <2>1 DEF MInv, TakenInv
    <3>1. CarriedIn(View(x[1]), x[1], x[2]) \/ (x[1] = t /\ x[2] \in Range(todo))
      BY <1>1 DEF MInv, TakenInv
    <3>2. View(x[1])' = View(x[1])
      BY <1>1, <1>4, <1>5, <1>9, <2>1 DEF View
    <3> QED
      BY <1>9, <3>1, <3>2 DEF CarriedIn
  <2>5. CountInv'
    BY <1>1, <1>4, <2>1 DEF MInv, CountInv
  <2>6. ReportInv'
    BY <1>1, <1>11, <2>1 DEF MInv, ReportInv, ReportIsTrue
  <2> QED
    BY <1>6, <1>7, <1>8, <2>2, <2>3, <2>4, <2>5, <2>6 DEF MInv
<1> QED
  BY <1>12, <1>13

\* The profiles do not touch the tables.
LEMMA ProfileStep ==
  ASSUME MInv, CarryProfiles PROVE MInv'
<1>1. /\ pc \in {"profile", "update"} /\ exit = "none" /\ stats.table = "domain_profiles" /\ stats.table \in left
      /\ UNCHANGED <<source, target, backend, dry, verify, exit, taken, before>>
      /\ budget' \in [runs : Nat, faults : Nat, writes : 0 .. MaxWrites] /\ budget'.writes = budget.writes
  BY DEF CarryProfiles, CreateProfile, UpdateProfile, ProfileFails, Spend, MInv, SourceTypes, ToolTypes
<1>2. PICK done \in Counts :
        /\ done.table = "domain_profiles"
        /\ \/ pc' \in {"profile", "update"} /\ stats' = done /\ UNCHANGED <<left, open, batch, report>>
           \/ EndTable(done)
  <2>1. CASE CreateProfile
    BY <1>1, <2>1 DEF CreateProfile, MInv, ToolTypes
  <2>2. CASE UpdateProfile
    <3>1. [stats EXCEPT !.inserted = @ + 1] \in Counts /\ [stats EXCEPT !.inserted = @ + 1].table = "domain_profiles"
      BY <1>1 DEF MInv, ToolTypes, Counts
    <3> QED
      BY <2>2, <3>1 DEF UpdateProfile, NextProfile
  <2>3. CASE ProfileFails
    <3>1. [stats EXCEPT !.errors = @ + 1] \in Counts /\ [stats EXCEPT !.errors = @ + 1].table = "domain_profiles"
      BY <1>1 DEF MInv, ToolTypes, Counts
    <3> QED
      BY <2>3, <3>1 DEF ProfileFails, NextProfile
  <2> QED
    BY <2>1, <2>2, <2>3 DEF CarryProfiles
<1>3. profiles' \in [Domains -> Profile \cup {None}]
  <2>1. CASE CreateProfile
    <3>1. DefaultProfile \in Profile
      BY DEF DefaultProfile, Profile, FETCH_TIERS
    <3> QED
      BY <2>1, <3>1 DEF CreateProfile, MInv, TargetTypes
  <2>2. CASE UpdateProfile
    <3>1. \A d \in Domains : ProfileAxes(learned[d]) \in Profile
      <4> SUFFICES ASSUME NEW d \in Domains PROVE ProfileAxes(learned[d]) \in Profile
        OBVIOUS
      <4>1. learned[d] \in Values
        BY DEF MInv, SourceTypes
      <4> QED
        BY <4>1, ValuesAssumption DEF ProfileAxes, Profile, FETCH_TIERS
    <3> QED
      BY <2>2, <3>1 DEF UpdateProfile, MInv, TargetTypes
  <2>3. CASE ProfileFails
    BY <2>3 DEF ProfileFails, MInv, TargetTypes
  <2> QED
    BY <2>1, <2>2, <2>3 DEF CarryProfiles
<1>4. \/ pc' \in {"profile", "update"} /\ stats' = done /\ UNCHANGED <<left, report, batch>>
      \/ /\ pc' = "next" /\ stats' = NoStats /\ left' = left \ {"domain_profiles"} /\ batch' = 0
         /\ report' = report \cup {done}
  BY <1>1, <1>2 DEF EndTable
<1>5. done \in Statistics
  BY <1>2, TableIds DEF Counts, Statistics
<1>6. SourceTypes' /\ TargetTypes'
  BY <1>1, <1>3 DEF MInv, SourceTypes, TargetTypes, source
<1>7. ToolTypes'
  BY <1>1, <1>2, <1>4, <1>5 DEF MInv, ToolTypes, NoStats, Counts
<1>8. TablesInv' /\ RowsInv'
  BY <1>1, <1>4 DEF MInv, TablesInv, RowsInv
<1>9. TakenInv'
  BY <1>1, <1>4 DEF MInv, TakenInv, View, CarriedIn, Versions
<1>10. CountInv'
  BY <1>1, <1>4 DEF MInv, CountInv
<1>11. ReportInv'
  BY <1>1, <1>2, <1>4, TableIds DEF MInv, ReportInv, ReportIsTrue, IdsOf
<1> QED
  BY <1>6, <1>7, <1>8, <1>9, <1>10, <1>11 DEF MInv

\* The processes write to the source, the profiles and the backend.
LEMMA ProcessStep == ASSUME MInv, Process PROVE MInv'
<1>1. UNCHANGED <<present, refused, learned, target, tool>>
  BY DEF Process, WriteSource, Learn, SwitchBackend, source
<1>2. SourceTypes'
  <2>1. CASE \E k \in Keys : WriteSource(k)
    <3>1. PICK k \in Keys : WriteSource(k)
      BY <2>1
    <3>2. /\ budget' \in [runs : Nat, faults : Nat, writes : 0 .. MaxWrites] /\ budget'.writes = budget.writes + 1
          /\ version' = [version EXCEPT ![k] = @ + 1]
      BY <3>1, NumbersAssumption DEF WriteSource, Spend, MInv, SourceTypes
    <3> QED
      BY <1>1, <3>2 DEF MInv, SourceTypes
  <2>2. CASE \E d \in Domains : Learn(d)
    <3>1. /\ budget' \in [runs : Nat, faults : Nat, writes : 0 .. MaxWrites] /\ budget'.writes >= budget.writes
          /\ version' = version
      BY <2>2, NumbersAssumption DEF Learn, Spend, MInv, SourceTypes, source
    <3> QED
      BY <1>1, <3>1 DEF MInv, SourceTypes
  <2>3. CASE SwitchBackend
    BY <2>3 DEF SwitchBackend, MInv, SourceTypes, source
  <2> QED
    BY <2>1, <2>2, <2>3 DEF Process
<1>3. TargetTypes'
  <2>1. CASE \E d \in Domains : Learn(d)
    <3>1. PICK d \in Domains : Learn(d)
      BY <2>1
    <3>2. PICK t \in FETCH_TIERS :
            profiles' = [profiles EXCEPT ![d] = IF @ = None THEN [DefaultProfile EXCEPT !.tier = t]
                                                ELSE [@ EXCEPT !.tier = t]]
      BY <3>1 DEF Learn
    <3>3. \A p \in Profile : [p EXCEPT !.tier = t] \in Profile
      BY DEF Profile
    <3>4. DefaultProfile \in Profile
      BY DEF DefaultProfile, Profile, FETCH_TIERS
    <3>5. (IF profiles[d] = None THEN [DefaultProfile EXCEPT !.tier = t]
           ELSE [profiles[d] EXCEPT !.tier = t]) \in Profile
      BY <3>3, <3>4 DEF MInv, TargetTypes
    <3> QED
      BY <1>1, <3>1, <3>2, <3>5 DEF MInv, TargetTypes, tool, Learn
  <2> QED
    BY <1>1, <2>1 DEF Process, WriteSource, SwitchBackend, MInv, TargetTypes, tool
<1>4. ToolTypes'
  BY <1>1 DEF MInv, ToolTypes, tool
<1>5. TablesInv' /\ RowsInv' /\ CountInv'
  BY <1>1 DEF MInv, TablesInv, RowsInv, CountInv, tool
<1>6. TakenInv'
  BY <1>1 DEF MInv, TakenInv, View, CarriedIn, Versions, tool
<1>7. ReportInv'
  BY <1>1 DEF MInv, ReportInv, ReportIsTrue, IdsOf, tool
<1> QED
  BY <1>2, <1>3, <1>4, <1>5, <1>6, <1>7 DEF MInv

\* Every step of the migration.
LEMMA MigrationStep == MInv /\ [Next]_vars => MInv'
<1> SUFFICES ASSUME MInv, [Next]_vars PROVE MInv'
  OBVIOUS
<1>1. CASE Launch \/ StartTable
  BY <1>1, LaunchStep, StartTableStep
<1>2. CASE DryTable \/ WriteRow \/ Commit
  BY <1>2, DryTableStep, WriteRowStep, CommitTableStep
<1>3. CASE Refuse
  BY <1>3, StopStep DEF Refuse, MInv, SourceTypes
<1>4. CASE Finish
  <2> DEFINE how == IF ~dry /\ verify /\ ~Verified THEN "failed" ELSE "ok"
  <2>1. how \in {"ok", "failed"} /\ Stop(how) /\ pc = "next"
    BY <1>4 DEF Finish
  <2>2. UNCHANGED <<source, target, profiles, backend, dry, verify, report, taken, before, budget>>
    BY <1>4 DEF Finish
  <2> HIDE DEF how
  <2> QED
    BY <2>1, <2>2, StopStep DEF MInv, SourceTypes
<1>5. CASE Fail
  <2>1. budget' \in [runs : Nat, faults : Nat, writes : 0 .. MaxWrites] /\ budget'.writes = budget.writes
    BY <1>5 DEF Fail, Spend, MInv, SourceTypes
  <2> QED
    BY <1>5, <2>1, StopStep DEF Fail
<1>6. CASE CarryProfiles
  BY <1>6, ProfileStep
<1>7. CASE Process
  BY <1>7, ProcessStep
<1>8. CASE UNCHANGED vars
  <2>1. UNCHANGED <<present, refused, version, learned, target, profiles, backend, tool, budget>>
    BY <1>8 DEF vars, source
  <2> QED
    BY <2>1 DEF tool, MInv, SourceTypes, TargetTypes, ToolTypes, TablesInv, RowsInv, TakenInv, View, CarriedIn,
                Versions, CountInv, ReportInv, ReportIsTrue, IdsOf
<1> QED
  BY <1>1, <1>2, <1>3, <1>4, <1>5, <1>6, <1>7, <1>8 DEF Next, Tool

-----------------------------------------------------------------------------
(* The theorems.                                                           *)

LEMMA BothInit == CutoverInit => Inv /\ MInv
BY InitInv, MigrationInit DEF CutoverInit

LEMMA BothStep == Inv /\ MInv /\ [CutoverNext]_<<vars, records>> => Inv' /\ MInv'
BY NextInv, MigrationStep DEF CutoverNext

(* The types of both parts, for every table, profile and record: however a *)
(* run of the migration ends, no profile of Postgres has an extraction     *)
(* strategy for a fetch tier (_profile_axes).                              *)
THEOREM TypesCorrect == CutoverSpec => []CutoverTypeOK
<1>1. MInv => TypeOK
  <2> SUFFICES ASSUME MInv PROVE TypeOK
    OBVIOUS
  <2>1. version \in [Keys -> 0 .. MaxWrites]
    BY NumbersAssumption DEF MInv, SourceTypes
  <2>2. \A t \in Moved : \A r \in target[t] : r.of \in Range(Order[t]) /\ r.version \in 0 .. MaxWrites
    BY DEF MInv, TablesInv, TableOK, TargetRow
  <2> QED
    BY <2>1, <2>2 DEF MInv, SourceTypes, TargetTypes, ToolTypes, TypeOK
<1>2. Inv => R!TypeOK
  BY DEF Inv, Types, ServedInv, R!TypeOK
<1> QED
  BY <1>1, <1>2, BothInit, BothStep, PTL DEF CutoverSpec, CutoverTypeOK

(* However often the migration runs, fails and runs again, and whatever    *)
(* the processes write in between but the columns a row's id is made of,   *)
(* no source row gets two rows in Postgres (_dead_letter_id, the ON        *)
(* CONFLICT clauses).                                                      *)
THEOREM MigrationDoesNotDuplicate == CutoverSpec => []NoRowTwice
<1>1. MInv => NoRowTwice
  BY DEF MInv, TablesInv, TableOK, NoRowTwice
<1> QED
  BY <1>1, BothInit, BothStep, PTL DEF CutoverSpec

(* A run that ends well carried every row it read, whatever the batch size *)
(* and wherever earlier runs stopped (_migrate_opportunities).             *)
THEOREM MigrationIsComplete == CutoverSpec => []NothingLeftBehind
<1>1. MInv => NothingLeftBehind
  <2> SUFFICES ASSUME MInv, exit = "ok", ~dry, NEW x \in taken PROVE Carried(x[1], x[2])
    BY DEF NothingLeftBehind
  <2>1. CarriedIn(target[x[1]], x[1], x[2])
    BY DEF MInv, ToolTypes, TakenInv, View
  <2> QED
    BY <2>1 DEF CarriedIn, Versions, Carried
<1> QED
  BY <1>1, BothInit, BothStep, PTL DEF CutoverSpec

(* The report of a run, at every moment of it, counts the rows that the    *)
(* done tables gained, and every row read once, for every table but the    *)
(* profiles (MigrationStats).                                              *)
THEOREM MigrationReportsTheTruth == CutoverSpec => []ReportIsTrue
<1>1. MInv => ReportIsTrue
  BY DEF MInv, ReportInv
<1> QED
  BY <1>1, BothInit, BothStep, PTL DEF CutoverSpec

(* Pages neither overlap nor leave out records, for every number of        *)
(* records, every page size and whatever the migration does meanwhile.     *)
THEOREM PagesExact == CutoverSpec => []PagesAreExact
<1>1. Inv => PagesAreExact
  BY DEF Inv, Types, SettledInv, PagesAreExact, R!PagesAreExact
<1> QED
  BY <1>1, InitInv, NextInv, PTL DEF CutoverSpec

-----------------------------------------------------------------------------
(* The sweep.                                                              *)

(* What the answers of the API leave to find: a place of a swept type      *)
(* inside an area that is behind the sweep is listed, or a warning says    *)
(* why it may not be; in the area in work a call for it may still wait.    *)
Due(a, i, p) == world[p].named /\ world[p].spot \in Region[a] /\ IncludedTypes[i] \in world[p].types
Answered(a, i, p) ==
  (acc[p] # Nil /\ a \in resolved) \/ {<<a, "unresolved">>, <<a, IncludedTypes[i]>>} \cap warned # {}
Waits(i, p) == \E j \in DOMAIN calls : calls[j].type = IncludedTypes[i] /\ world[p].spot \in calls[j].region

Covered ==
  /\ \A k \in DOMAIN Areas, i \in DOMAIN IncludedTypes, p \in Places :
       k < at /\ Due(Areas[k], i, p) => Answered(Areas[k], i, p)
  /\ step = "sweep" =>
       \A i \in DOMAIN IncludedTypes, p \in Places :
         Due(Area, i, p) => Answered(Area, i, p) \/ Waits(i, p)
  /\ step = "sweep" => Area \in resolved
  /\ step \in {"report", "export", "done"} => quota \/ at = Len(Areas) + 1

ContactInv ==
  /\ ContactKept
  /\ \A p \in Places : acc[p] = Nil => told[p] = {}

\* Only listings get a verdict.
Judged == step \in {"export", "done"} => \A p \in Places : verdicts[p] # "absent" => acc[p] # Nil

SweepInv == SweepTypeOK /\ Covered /\ ContactInv /\ Judged /\ NoSilentMiss /\ EveryLineCalledOnce

Answer(a) == DOMAIN a \subseteq Places /\ \A p \in DOMAIN a : a[p] \in Listing

LEMMA ShownType ==
  ASSUME SweepTypeOK, NEW p \in Places, NEW o \in Omissions PROVE Shown(p, o) \in Listing
<1>1. world[p] \in Place
  BY WorldAssumption DEF SweepTypeOK
<1>2. world[p].url \in Urls /\ world[p].phone \in Phones \cup {Nil} /\ "" \in Urls
  BY <1>1 DEF Place, Urls
<1>3. QED
  BY <1>2 DEF Shown, Listing

(* An answer lists some of the places that match, all of them unless it is *)
(* full.                                                                   *)
LEMMA AnswersType ==
  ASSUME SweepTypeOK, NEW M, M \subseteq Places, NEW answer \in Answers(M)
  PROVE  /\ Answer(answer) /\ DOMAIN answer \subseteq M
         /\ ~ Truncated(answer) => DOMAIN answer = M
<1>1. PICK S \in Pages(M) : answer \in {[p \in S |-> Shown(p, omit[p])] : omit \in [S -> Omissions]}
  BY DEF Answers
<1>2. PICK omit \in [S -> Omissions] : answer = [p \in S |-> Shown(p, omit[p])]
  BY <1>1
<1>3. S \subseteq M /\ DOMAIN answer = S
  BY <1>2 DEF Pages
<1>4. Answer(answer)
  BY <1>2, <1>3, ShownType DEF Answer
<1>5. ASSUME ~ Truncated(answer) PROVE S = M
  <2>1. IsFiniteSet(M)
    BY WorldAssumption, FS_Subset
  <2>2. Cardinality(S) \in Nat /\ Cardinality(M) \in Nat
    BY <1>3, <2>1, FS_Subset, FS_CardinalityType
  <2>3. ~ (Cardinality(S) >= PageCap)
    BY <1>3, <1>5 DEF Truncated
  <2>4. Cardinality(S) = Cardinality(M)
    BY <2>2, <2>3, BoundsAssumption DEF Pages
  <2>5. QED
    BY <1>3, <2>1, <2>4, FS_Subset
<1>6. QED
  BY <1>3, <1>4, <1>5

LEMMA ParsedType ==
  ASSUME NEW answer, Answer(answer)
  PROVE  /\ Answer(Parsed(answer))
         /\ DOMAIN Parsed(answer) = {q \in DOMAIN answer : world[q].named}
  BY DEF Answer, Parsed

(* What an answer adds: no listing is lost, every place in it has one, and *)
(* no number and no site that was told is forgotten.                       *)
LEMMA Added ==
  ASSUME SweepTypeOK, ContactInv, NEW answer, Answer(answer), Add(answer)
  PROVE  /\ acc' \in [Places -> Listing \cup {Nil}] /\ told' \in [Places -> SUBSET Listing]
         /\ \A p \in Places : acc[p] # Nil => acc'[p] # Nil
         /\ \A p \in DOMAIN answer : acc'[p] # Nil
         /\ ContactInv'
<1> DEFINE new(p) == IF p \in DOMAIN answer THEN Filled(acc[p], answer[p]) ELSE acc[p]
           heard(p) == told[p] \cup {answer[q] : q \in {p} \cap DOMAIN answer}
<1>1. acc' = [p \in Places |-> new(p)] /\ told' = [p \in Places |-> heard(p)]
  BY DEF Add
<1>2. ASSUME NEW p \in Places
      PROVE  /\ acc[p] \in Listing \cup {Nil} /\ told[p] \subseteq Listing
             /\ acc[p] = Nil => told[p] = {}
             /\ acc[p] # Nil => /\ acc[p].phone = Nil <=> \A l \in told[p] : l.phone = Nil
                                /\ acc[p].url = "" <=> \A l \in told[p] : l.url = ""
  BY DEF SweepTypeOK, ContactInv, ContactKept
<1>3. ASSUME NEW p \in Places
      PROVE  /\ new(p) \in Listing \cup {Nil} /\ heard(p) \subseteq Listing
             /\ acc[p] # Nil => new(p) # Nil
             /\ p \in DOMAIN answer => new(p) # Nil
             /\ new(p) = Nil => heard(p) = {}
             /\ new(p) # Nil => /\ new(p).phone = Nil <=> \A l \in heard(p) : l.phone = Nil
                                /\ new(p).url = "" <=> \A l \in heard(p) : l.url = ""
  <2>1. CASE p \notin DOMAIN answer
    <3>1. new(p) = acc[p] /\ heard(p) = told[p]
      BY <2>1
    <3> HIDE DEF new, heard
    <3>2. QED
      BY <1>2, <2>1, <3>1
  <2>2. CASE p \in DOMAIN answer
    <3>1. new(p) = Filled(acc[p], answer[p]) /\ heard(p) = told[p] \cup {answer[p]}
      BY <2>2
    <3>2. answer[p] \in Listing /\ Nil \notin Listing
      BY <2>2, WorldAssumption DEF Answer
    <3> HIDE DEF new, heard
    <3>3. CASE acc[p] = Nil
      <4>1. new(p) = answer[p] /\ heard(p) = {answer[p]}
        BY <1>2, <3>1, <3>3 DEF Filled
      <4>2. QED
        BY <3>2, <3>3, <4>1
    <3>4. CASE acc[p] # Nil
      <4>1. acc[p] \in Listing
        BY <1>2, <3>4
      <4>2. /\ new(p) \in Listing
            /\ new(p).phone = IF acc[p].phone = Nil THEN answer[p].phone ELSE acc[p].phone
            /\ new(p).url = IF acc[p].url = "" THEN answer[p].url ELSE acc[p].url
        BY <3>1, <3>2, <3>4, <4>1 DEF Filled, Listing
      <4>3. heard(p) \subseteq Listing /\ new(p) # Nil
        BY <1>2, <3>1, <3>2, <4>2
      <4>4. new(p).phone = Nil <=> \A l \in heard(p) : l.phone = Nil
        BY <1>2, <3>1, <3>4, <4>2
      <4>5. new(p).url = "" <=> \A l \in heard(p) : l.url = ""
        BY <1>2, <3>1, <3>4, <4>2
      <4>6. QED
        BY <4>2, <4>3, <4>4, <4>5
    <3>5. QED
      BY <3>3, <3>4
  <2>3. QED
    BY <2>1, <2>2
<1> HIDE DEF new, heard
<1>4. acc' \in [Places -> Listing \cup {Nil}] /\ told' \in [Places -> SUBSET Listing]
  BY <1>1, <1>3
<1>5. DOMAIN answer \subseteq Places
  BY DEF Answer
<1>6. \A p \in Places : acc'[p] = new(p) /\ told'[p] = heard(p)
  BY <1>1
<1>7. ContactInv'
  <2>1. ASSUME NEW p \in Places
        PROVE  /\ acc'[p] = Nil => told'[p] = {}
               /\ acc'[p] # Nil => /\ acc'[p].phone = Nil <=> \A l \in told'[p] : l.phone = Nil
                                   /\ acc'[p].url = "" <=> \A l \in told'[p] : l.url = ""
    <3>1. acc'[p] = new(p) /\ told'[p] = heard(p)
      BY <1>6
    <3>2. /\ new(p) = Nil => heard(p) = {}
          /\ new(p) # Nil => /\ new(p).phone = Nil <=> \A l \in heard(p) : l.phone = Nil
                             /\ new(p).url = "" <=> \A l \in heard(p) : l.url = ""
      BY <1>3
    <3>3. QED
      BY ONLY <3>1, <3>2
  <2>2. QED
    BY ONLY <2>1 DEF ContactInv, ContactKept
<1>8. QED
  BY <1>3, <1>4, <1>5, <1>6, <1>7

(* A place that was answered for stays so.                                 *)
LEMMA StaysAnswered ==
  ASSUME resolved \subseteq resolved', warned \subseteq warned',
         NEW a, NEW i, NEW p \in Places, acc[p] # Nil => acc'[p] # Nil, Answered(a, i, p)
  PROVE  Answered(a, i, p)'
  BY DEF Answered

(* Moving on to the next area, when nothing of this one is left to find.   *)
LEMMA MovesOn ==
  ASSUME SweepTypeOK, Covered, step \in {"resolve", "sweep"}, NextArea, UNCHANGED <<world, quota>>,
         resolved \subseteq resolved', warned \subseteq warned',
         \A p \in Places : acc[p] # Nil => acc'[p] # Nil,
         NEW area, area = Area,
         \A i \in DOMAIN IncludedTypes, p \in Places : Due(area, i, p) => Answered(area, i, p)'
  PROVE  /\ Covered' /\ at' \in 1 .. Len(Areas) + 1 /\ step' \in {"resolve", "report"}
         /\ step' = "resolve" => at' <= Len(Areas)
         /\ query' = 1 /\ pageNo' = 1
<1> DEFINE last == Len(Areas)
<1>1. /\ at \in 1 .. last /\ at' = at + 1 /\ last \in Nat /\ DOMAIN Areas = 1 .. last
      /\ step' = IF at = last THEN "report" ELSE "resolve"
  BY WorldAssumption DEF SweepTypeOK, NextArea
<1> HIDE DEF last
<1>2. ASSUME NEW k \in DOMAIN Areas, NEW i \in DOMAIN IncludedTypes, NEW p \in Places, k < at',
             Due(Areas[k], i, p)'
      PROVE  Answered(Areas[k], i, p)'
  <2>1. Due(Areas[k], i, p)
    BY <1>2 DEF Due
  <2>2. CASE k < at
    <3>1. Answered(Areas[k], i, p)
      BY <2>1, <2>2 DEF Covered
    <3>2. QED
      BY <3>1, StaysAnswered
  <2>3. CASE k = at
    <3>1. Areas[k] = area
      BY <2>3 DEF Area
    <3>2. Due(area, i, p)
      BY <2>1, <3>1
    <3>3. Answered(area, i, p)'
      BY <3>2
    <3>4. QED
      BY <3>1, <3>3
  <2>4. k < at \/ k = at
    BY <1>1, <1>2
  <2>5. QED
    BY <2>2, <2>3, <2>4
<1>3. /\ step' # "sweep" /\ (step' = "report" => at' = last + 1)
      /\ step' \in {"resolve", "report"} /\ at' \in 1 .. last + 1
      /\ (step' = "resolve" => at' <= last)
  BY <1>1
<1>4. Covered'
  BY <1>2, <1>3 DEF Covered, last
<1>5. QED
  BY <1>3, <1>4 DEF NextArea, last

LEMMA AreaInWork ==
  ASSUME SweepTypeOK, step \in {"resolve", "sweep"}
  PROVE  at \in DOMAIN Areas /\ at <= Len(Areas) /\ Area \in AreaNames /\ Region[Area] \in SUBSET Spots
<1> DEFINE last == Len(Areas)
<1>1. at \in 1 .. last + 1 /\ at <= last /\ last \in Nat /\ DOMAIN Areas = 1 .. last
  BY WorldAssumption DEF SweepTypeOK
<1> HIDE DEF last
<1>2. at \in DOMAIN Areas
  BY <1>1
<1>3. Area \in AreaNames
  BY <1>2 DEF Area, AreaNames
<1>4. QED
  BY <1>1, <1>2, <1>3, WorldAssumption DEF last

(* The typed calls of an area: every place that is due waits for one.      *)
LEMMA ResolveStep ==
  ASSUME SweepInv, Resolve PROVE SweepTypeOK' /\ Covered' /\ ContactInv'
<1>0. SweepTypeOK /\ Covered /\ ContactInv
  BY DEF SweepInv
<1>1. at \in DOMAIN Areas /\ at <= Len(Areas) /\ Area \in AreaNames /\ Region[Area] \in SUBSET Spots
  BY <1>0, AreaInWork DEF Resolve
<1>2. \A i \in DOMAIN IncludedTypes :
        [type |-> IncludedTypes[i], region |-> Region[Area], depth |-> 0] \in Call
  BY <1>1, WorldAssumption, BoundsAssumption DEF Call
<1>3. calls' \in Seq(Call)
  BY <1>2, WorldAssumption DEF Resolve
<1>4. /\ DOMAIN calls' = DOMAIN IncludedTypes
      /\ \A i \in DOMAIN IncludedTypes : calls'[i].type = IncludedTypes[i] /\ calls'[i].region = Region[Area]
  BY DEF Resolve
<1>5. SweepTypeOK'
  <2>1. /\ UNCHANGED <<world, config, at, query, pageNo, gathered, acc, warned, quota, verdicts, leads, told>>
        /\ step' = "sweep" /\ resolved' = resolved \cup {Area}
    BY DEF Resolve, data, results
  <2>2. resolved' \subseteq AreaNames
    BY <1>0, <1>1, <2>1 DEF SweepTypeOK
  <2>3. QED
    BY <1>0, <1>1, <1>3, <2>1, <2>2 DEF SweepTypeOK
<1>6. ASSUME NEW k \in DOMAIN Areas, NEW i \in DOMAIN IncludedTypes, NEW p \in Places, k < at',
             Due(Areas[k], i, p)'
      PROVE  Answered(Areas[k], i, p)'
  <2>1. Answered(Areas[k], i, p)
    BY <1>0, <1>6 DEF Covered, Due, Resolve, data, walk
  <2>2. QED
    BY <2>1, StaysAnswered DEF Resolve
<1>7. ASSUME NEW i \in DOMAIN IncludedTypes, NEW p \in Places, Due(Area, i, p)'
      PROVE  Waits(i, p)'
  <2>1. world[p].spot \in Region[Area]
    BY <1>7 DEF Due, Resolve, data, walk, Area
  <2>2. QED
    BY <1>4, <2>1 DEF Waits, Resolve, data
<1>8. Covered'
  BY <1>6, <1>7 DEF Covered, Resolve, Area
<1>9. ContactInv'
  BY <1>0 DEF ContactInv, ContactKept, Resolve
<1>10. QED
  BY <1>5, <1>8, <1>9

LEMMA UnresolvedStep ==
  ASSUME SweepInv, Unresolved PROVE SweepTypeOK' /\ Covered' /\ ContactInv'
<1>0. SweepTypeOK /\ Covered /\ ContactInv
  BY DEF SweepInv
<1>1. PICK area : area = Area
  OBVIOUS
<1>2. \A i \in DOMAIN IncludedTypes, p \in Places : Answered(area, i, p)'
  BY <1>1 DEF Unresolved, Answered
<1>3. /\ Covered' /\ at' \in 1 .. Len(Areas) + 1 /\ step' \in {"resolve", "report"}
      /\ step' = "resolve" => at' <= Len(Areas)
      /\ query' = 1 /\ pageNo' = 1
  BY <1>0, <1>1, <1>2, MovesOn DEF Unresolved, data
<1>4. SweepTypeOK'
  <2>1. 1 \in 1 .. Len(Queries) /\ 1 \in 1 .. MaxPages
    BY WorldAssumption, BoundsAssumption
  <2>2. QED
    BY <1>0, <1>3, <2>1 DEF SweepTypeOK, Unresolved, data, results
<1>5. ContactInv'
  BY <1>0 DEF ContactInv, ContactKept, Unresolved
<1>6. QED
  BY <1>3, <1>4, <1>5

(* What the next call of an area leaves to wait for.                       *)
LEMMA CallsType ==
  ASSUME SweepTypeOK, calls # <<>>
  PROVE  Head(calls) \in Call /\ Tail(calls) \in Seq(Call)
  BY DEF SweepTypeOK

LEMMA WaitsHeadOrTail ==
  ASSUME SweepTypeOK, calls # <<>>, NEW i, NEW p, Waits(i, p)
  PROVE  \/ Head(calls).type = IncludedTypes[i] /\ world[p].spot \in Head(calls).region
         \/ \E j \in DOMAIN Tail(calls) :
              Tail(calls)[j].type = IncludedTypes[i] /\ world[p].spot \in Tail(calls)[j].region
<1>1. PICK j \in DOMAIN calls : calls[j].type = IncludedTypes[i] /\ world[p].spot \in calls[j].region
  BY DEF Waits
<1>2. calls \in Seq(Call) /\ j \in 1 .. Len(calls) /\ Len(calls) \in Nat
  BY DEF SweepTypeOK
<1>3. CASE j = 1
  BY <1>1, <1>3
<1>4. CASE j # 1
  <2> DEFINE n == Len(calls)
  <2>1. j - 1 \in 1 .. n - 1
    <3> HIDE DEF n
    <3> QED BY <1>2, <1>4 DEF n
  <2>2. DOMAIN Tail(calls) = 1 .. n - 1 /\ Tail(calls)[j - 1] = calls[j]
    BY <1>2, <1>4, <2>1
  <2>3. QED
    BY <1>1, <2>1, <2>2
<1>5. QED
  BY <1>3, <1>4

(* The smaller circles cover the circle, one level deeper.                 *)
LEMMA Subdivided ==
  ASSUME NEW call \in Call, MayDivide(call)
  PROVE  /\ Subdivide(call) \in Seq(Call)
         /\ \A spot \in call.region : \E j \in DOMAIN Subdivide(call) :
              Subdivide(call)[j].type = call.type /\ spot \in Subdivide(call)[j].region
<1> DEFINE cells == Grid[call.region]
<1>1. call.region \in SUBSET Spots /\ call.type \in STRING /\ call.depth + 1 \in 0 .. MaxDepth
  BY BoundsAssumption DEF Call, MayDivide
<1>2. cells \in Seq(SUBSET Spots) /\ call.region \subseteq UNION {cells[i] : i \in DOMAIN cells}
  BY <1>1, CoverAssumption
<1>3. \A i \in DOMAIN cells : [type |-> call.type, region |-> cells[i], depth |-> call.depth + 1] \in Call
  BY <1>1, <1>2 DEF Call
<1>4. Subdivide(call) = [i \in DOMAIN cells |-> [type |-> call.type, region |-> cells[i], depth |-> call.depth + 1]]
  BY DEF Subdivide
<1> HIDE DEF cells
<1>5. QED
  BY <1>2, <1>3, <1>4

(* Appended calls keep those behind them.                                  *)
LEMMA WaitsInFront ==
  ASSUME NEW S, NEW s \in Seq(S), NEW t \in Seq(S)
  PROVE  /\ s \o t \in Seq(S)
         /\ \A j \in DOMAIN s : j \in DOMAIN (s \o t) /\ (s \o t)[j] = s[j]
         /\ \A j \in DOMAIN t : \E l \in DOMAIN (s \o t) : (s \o t)[l] = t[j]
<1> DEFINE m == Len(s)
           n == Len(t)
           u == s \o t
<1>1. m \in Nat /\ n \in Nat /\ DOMAIN s = 1 .. m /\ DOMAIN t = 1 .. n
  OBVIOUS
<1>2. u \in Seq(S) /\ DOMAIN u = 1 .. m + n
  OBVIOUS
<1>3. \A j \in 1 .. m : u[j] = s[j]
  OBVIOUS
<1>4. \A j \in 1 .. n : u[m + j] = t[j]
  OBVIOUS
<1> HIDE DEF m, n, u
<1>5. \A j \in 1 .. m : j \in 1 .. m + n
  BY <1>1
<1>6. \A j \in 1 .. n : m + j \in 1 .. m + n
  BY <1>1
<1>7. QED
  BY <1>1, <1>2, <1>3, <1>4, <1>5, <1>6 DEF u

(* One typed call: what it does not list, it warns of or asks again.       *)
LEMMA NearbyStep ==
  ASSUME SweepInv, Nearby PROVE SweepTypeOK' /\ Covered' /\ ContactInv'
<1>0. SweepTypeOK /\ Covered /\ ContactInv
  BY DEF SweepInv
<1> DEFINE call == Head(calls)
           again(answer) == Truncated(answer) /\ MayDivide(call)
<1>1. step = "sweep" /\ calls # <<>> /\ call \in Call /\ Tail(calls) \in Seq(Call)
  BY <1>0, CallsType DEF Nearby
<1>2. PICK answer \in Answers(InReach(call)) :
        /\ Add(Parsed(answer))
        /\ IF again(answer)
           THEN calls' = Subdivide(call) \o Tail(calls) /\ UNCHANGED warned
           ELSE /\ calls' = Tail(calls)
                /\ warned' = IF Truncated(answer) THEN warned \cup {<<Area, call.type>>} ELSE warned
  BY DEF Nearby
<1>3. /\ Answer(answer) /\ Answer(Parsed(answer))
      /\ DOMAIN Parsed(answer) = {q \in DOMAIN answer : world[q].named}
      /\ ~ Truncated(answer) => DOMAIN answer = InReach(call)
  BY <1>0, AnswersType, ParsedType DEF InReach
<1>4. UNCHANGED <<world, config, step, at, query, pageNo, gathered, resolved, quota, verdicts, leads>>
  BY DEF Nearby, data, results
<1>5. /\ acc' \in [Places -> Listing \cup {Nil}] /\ told' \in [Places -> SUBSET Listing]
      /\ \A p \in Places : acc[p] # Nil => acc'[p] # Nil
      /\ \A p \in DOMAIN Parsed(answer) : acc'[p] # Nil
      /\ ContactInv'
  BY <1>0, <1>2, <1>3, Added
<1>6. warned \subseteq warned'
  BY <1>2
<1> HIDE DEF call, again
<1>7. /\ calls' \in Seq(Call)
      /\ again(answer) =>
           /\ \A j \in DOMAIN Subdivide(call) : j \in DOMAIN calls' /\ calls'[j] = Subdivide(call)[j]
           /\ \A j \in DOMAIN Tail(calls) : \E l \in DOMAIN calls' : calls'[l] = Tail(calls)[j]
  <2>1. CASE again(answer)
    <3>1. Subdivide(call) \in Seq(Call)
      BY <1>1, <2>1, Subdivided DEF again
    <3>2. calls' = Subdivide(call) \o Tail(calls)
      BY <1>2, <2>1
    <3> DEFINE front == Subdivide(call)
               behind == Tail(calls)
    <3>3. front \in Seq(Call) /\ behind \in Seq(Call)
      BY <1>1, <3>1
    <3> HIDE DEF front, behind
    <3>4. /\ front \o behind \in Seq(Call)
          /\ \A j \in DOMAIN front : j \in DOMAIN (front \o behind) /\ (front \o behind)[j] = front[j]
          /\ \A j \in DOMAIN behind : \E l \in DOMAIN (front \o behind) : (front \o behind)[l] = behind[j]
      BY <3>3, WaitsInFront
    <3>5. calls' = front \o behind
      BY <3>2 DEF front, behind
    <3>6. QED
      BY <3>4, <3>5 DEF front, behind
  <2>2. CASE ~ again(answer)
    BY <1>1, <1>2, <2>2
  <2>3. QED
    BY <2>1, <2>2
<1>8. SweepTypeOK'
  BY <1>0, <1>4, <1>5, <1>7 DEF SweepTypeOK
<1>9. ASSUME NEW a, NEW i \in DOMAIN IncludedTypes, NEW p \in Places, Answered(a, i, p)
      PROVE  Answered(a, i, p)'
  BY <1>4, <1>5, <1>6, <1>9, StaysAnswered
<1>10. ASSUME NEW j \in DOMAIN Tail(calls), NEW i \in DOMAIN IncludedTypes, NEW p \in Places,
              Tail(calls)[j].type = IncludedTypes[i], world[p].spot \in Tail(calls)[j].region
       PROVE  Waits(i, p)'
  <2>1. \E l \in DOMAIN calls' : calls'[l] = Tail(calls)[j]
    <3>1. CASE again(answer)
      BY <1>7, <3>1
    <3>2. CASE ~ again(answer)
      BY <1>2, <3>2
    <3>3. QED
      BY <3>1, <3>2
  <2>2. QED
    BY <1>4, <1>10, <2>1 DEF Waits
<1>11. ASSUME NEW i \in DOMAIN IncludedTypes, NEW p \in Places, NEW area, area = Area, Due(area, i, p),
              call.type = IncludedTypes[i], world[p].spot \in call.region
       PROVE  Answered(area, i, p)' \/ Waits(i, p)'
  <2>1. CASE again(answer)
    <3>1. PICK j \in DOMAIN Subdivide(call) :
            Subdivide(call)[j].type = call.type /\ world[p].spot \in Subdivide(call)[j].region
      BY <1>1, <1>11, <2>1, Subdivided DEF again
    <3>2. j \in DOMAIN calls' /\ calls'[j] = Subdivide(call)[j]
      BY <1>7, <2>1
    <3>3. Waits(i, p)'
      BY <1>4, <1>11, <3>1, <3>2 DEF Waits
    <3>4. QED
      BY <3>3
  <2>2. CASE ~ again(answer) /\ Truncated(answer)
    <3>1. <<area, IncludedTypes[i]>> \in warned'
      BY <1>2, <1>11, <2>2
    <3>2. QED
      BY <3>1 DEF Answered
  <2>3. CASE ~ Truncated(answer)
    <3>1. p \in InReach(call) /\ world[p].named
      BY <1>11 DEF InReach, Due
    <3>2. p \in DOMAIN Parsed(answer)
      BY <1>3, <2>3, <3>1
    <3>3. acc'[p] # Nil /\ area \in resolved'
      BY <1>0, <1>1, <1>4, <1>5, <1>11, <3>2 DEF Covered
    <3>4. QED
      BY <3>3 DEF Answered
  <2>4. QED
    BY <2>1, <2>2, <2>3
<1>12. ASSUME NEW i \in DOMAIN IncludedTypes, NEW p \in Places, NEW area, area = Area, Due(area, i, p)
       PROVE  Answered(area, i, p)' \/ Waits(i, p)'
  <2>1. Answered(area, i, p) \/ Waits(i, p)
    BY <1>0, <1>1, <1>12 DEF Covered
  <2>2. CASE Answered(area, i, p)
    BY <1>9, <2>2
  <2>3. CASE Waits(i, p)
    BY <1>0, <1>1, <1>10, <1>11, <1>12, <2>3, WaitsHeadOrTail DEF call
  <2>4. QED
    BY <2>1, <2>2, <2>3
<1>13. Covered'
  <2>1. ASSUME NEW k \in DOMAIN Areas, NEW i \in DOMAIN IncludedTypes, NEW p \in Places, k < at',
               Due(Areas[k], i, p)'
        PROVE  Answered(Areas[k], i, p)'
    BY <1>0, <1>4, <1>9, <2>1 DEF Covered, Due
  <2>2. ASSUME NEW i \in DOMAIN IncludedTypes, NEW p \in Places, Due(Area, i, p)'
        PROVE  Answered(Area, i, p)' \/ Waits(i, p)'
    <3>1. PICK area : area = Area
      OBVIOUS
    <3>2. area = Area'
      BY <1>4, <3>1 DEF Area
    <3>3. Due(area, i, p)
      BY <1>4, <2>2, <3>2 DEF Due
    <3>4. Answered(area, i, p)' \/ Waits(i, p)'
      BY <1>12, <3>1, <3>3
    <3>5. QED
      BY <3>2, <3>4 DEF Answered
  <2>3. Area' \in resolved' /\ step' = "sweep"
    BY <1>0, <1>1, <1>4 DEF Covered, Area
  <2>4. QED
    BY <2>1, <2>2, <2>3 DEF Covered
<1>14. QED
  BY <1>5, <1>8, <1>13

LEMMA NearbyFailsStep ==
  ASSUME SweepInv, NearbyFails PROVE SweepTypeOK' /\ Covered' /\ ContactInv'
<1>0. SweepTypeOK /\ Covered /\ ContactInv
  BY DEF SweepInv
<1>1. step = "sweep" /\ calls # <<>> /\ Tail(calls) \in Seq(Call)
  BY <1>0, CallsType DEF NearbyFails
<1>2. /\ UNCHANGED <<world, config, step, at, query, pageNo, gathered, acc, resolved, quota, verdicts, leads, told>>
      /\ calls' = Tail(calls) /\ warned' = warned \cup {<<Area, Head(calls).type>>}
  BY DEF NearbyFails, data, results
<1>3. SweepTypeOK'
  BY <1>0, <1>1, <1>2 DEF SweepTypeOK
<1>4. ContactInv'
  BY <1>0, <1>2 DEF ContactInv, ContactKept
<1>5. ASSUME NEW a, NEW i \in DOMAIN IncludedTypes, NEW p \in Places, Answered(a, i, p)
      PROVE  Answered(a, i, p)'
  BY <1>2, <1>5, StaysAnswered
<1>6. ASSUME NEW i \in DOMAIN IncludedTypes, NEW p \in Places, NEW area, area = Area, Due(area, i, p)
      PROVE  Answered(area, i, p)' \/ Waits(i, p)'
  <2>1. Answered(area, i, p) \/ Waits(i, p)
    BY <1>0, <1>1, <1>6 DEF Covered
  <2>2. CASE Answered(area, i, p)
    BY <1>5, <2>2
  <2>3. ASSUME Waits(i, p), Head(calls).type # IncludedTypes[i] PROVE Waits(i, p)'
    BY <1>0, <1>1, <1>2, <2>3, WaitsHeadOrTail DEF Waits
  <2>4. CASE Head(calls).type = IncludedTypes[i]
    BY <1>2, <1>6, <2>4 DEF Answered
  <2>5. QED
    BY <2>1, <2>2, <2>3, <2>4
<1>7. Covered'
  <2>1. ASSUME NEW k \in DOMAIN Areas, NEW i \in DOMAIN IncludedTypes, NEW p \in Places, k < at',
               Due(Areas[k], i, p)'
        PROVE  Answered(Areas[k], i, p)'
    BY <1>0, <1>2, <1>5, <2>1 DEF Covered, Due
  <2>2. ASSUME NEW i \in DOMAIN IncludedTypes, NEW p \in Places, Due(Area, i, p)'
        PROVE  Answered(Area, i, p)' \/ Waits(i, p)'
    <3>1. PICK area : area = Area
      OBVIOUS
    <3>2. area = Area'
      BY <1>2, <3>1 DEF Area
    <3>3. Due(area, i, p)
      BY <1>2, <2>2, <3>2 DEF Due
    <3>4. Answered(area, i, p)' \/ Waits(i, p)'
      BY <1>6, <3>1, <3>3
    <3>5. QED
      BY <3>2, <3>4 DEF Answered
  <2>3. Area' \in resolved' /\ step' = "sweep"
    BY <1>0, <1>1, <1>2 DEF Covered, Area
  <2>4. QED
    BY <2>1, <2>2, <2>3 DEF Covered
<1>8. QED
  BY <1>3, <1>4, <1>7

(* A page of a text search; the last one makes its places listings.        *)
LEMMA NextQueryType ==
  ASSUME SweepTypeOK, Covered, step = "sweep", calls = <<>>, NextQuery, UNCHANGED <<world, quota>>,
         resolved \subseteq resolved', warned \subseteq warned',
         \A p \in Places : acc[p] # Nil => acc'[p] # Nil
  PROVE  /\ Covered' /\ at' \in 1 .. Len(Areas) + 1 /\ step' \in {"sweep", "resolve", "report"}
         /\ step' # "report" => at' <= Len(Areas)
         /\ query' \in 1 .. Len(Queries) /\ pageNo' = 1 /\ calls' = calls
         /\ gathered' = [p \in Places |-> Nil]
<1>1. ASSUME NEW i, NEW p PROVE ~ Waits(i, p)
  BY DEF Waits
<1>2. PICK area : area = Area
  OBVIOUS
<1>3. \A i \in DOMAIN IncludedTypes, p \in Places : Due(area, i, p) => Answered(area, i, p)
  BY <1>1, <1>2 DEF Covered
<1>4. ASSUME NEW a, NEW i \in DOMAIN IncludedTypes, NEW p \in Places, Answered(a, i, p)
      PROVE  Answered(a, i, p)'
  BY <1>4, StaysAnswered
<1>5. \A i \in DOMAIN IncludedTypes, p \in Places : Due(area, i, p) => Answered(area, i, p)'
  BY <1>3, <1>4
<1>6. CASE query < Len(Queries)
  <2> DEFINE last == Len(Queries)
  <2>1. /\ query' = query + 1 /\ pageNo' = 1 /\ UNCHANGED <<step, at, calls>>
        /\ gathered' = [p \in Places |-> Nil]
    BY <1>6 DEF NextQuery
  <2>2. query \in 1 .. last /\ query < last /\ last \in Nat /\ query' = query + 1
    BY <1>6, <2>1, WorldAssumption DEF SweepTypeOK
  <2> HIDE DEF last
  <2>3. query' \in 1 .. last
    BY <2>2
  <2>4. ASSUME NEW k \in DOMAIN Areas, NEW i \in DOMAIN IncludedTypes, NEW p \in Places, k < at',
               Due(Areas[k], i, p)'
        PROVE  Answered(Areas[k], i, p)'
    BY <1>4, <2>1, <2>4 DEF Covered, Due
  <2>5. ASSUME NEW i \in DOMAIN IncludedTypes, NEW p \in Places, Due(Area, i, p)'
        PROVE  Answered(Area, i, p)'
    <3>1. area = Area' /\ Due(area, i, p)
      BY <1>2, <2>1, <2>5 DEF Area, Due
    <3>2. Answered(area, i, p)'
      BY <1>5, <3>1
    <3>3. QED
      BY <3>1, <3>2 DEF Answered
  <2>6. Covered'
    BY <2>1, <2>4, <2>5 DEF Covered, Area
  <2>7. QED
    BY <2>1, <2>3, <2>6 DEF SweepTypeOK, last
<1>7. CASE ~ (query < Len(Queries))
  <2>1. NextArea /\ gathered' = [p \in Places |-> Nil] /\ calls' = calls
    BY <1>7 DEF NextQuery
  <2>2. /\ Covered' /\ at' \in 1 .. Len(Areas) + 1 /\ step' \in {"resolve", "report"}
        /\ step' = "resolve" => at' <= Len(Areas)
        /\ query' = 1 /\ pageNo' = 1
    BY <1>2, <1>5, <2>1, MovesOn
  <2>3. 1 \in 1 .. Len(Queries)
    BY WorldAssumption
  <2>4. QED
    BY <2>1, <2>2, <2>3
<1>8. QED
  BY <1>6, <1>7

LEMMA TextPageStep ==
  ASSUME SweepInv, TextPage PROVE SweepTypeOK' /\ Covered' /\ ContactInv'
<1>0. SweepTypeOK /\ Covered /\ ContactInv
  BY DEF SweepInv
<1> DEFINE all(answer) == [p \in Places |-> IF p \in DOMAIN answer THEN answer[p] ELSE gathered[p]]
           found(answer) == [p \in {q \in Places : all(answer)[q] # Nil} |-> all(answer)[p]]
<1>1. /\ step = "sweep" /\ calls = <<>>
      /\ UNCHANGED <<world, config, resolved, warned, quota, verdicts, leads>>
  BY DEF TextPage, data, results
<1>2. PICK answer \in Answers(Matching) :
        IF DOMAIN answer # Matching /\ pageNo < MaxPages
        THEN /\ gathered' = all(answer) /\ pageNo' = pageNo + 1
             /\ UNCHANGED <<step, at, calls, query, acc, told>>
        ELSE Add(Parsed(found(answer))) /\ NextQuery
  BY DEF TextPage
<1>3. Answer(answer)
  BY <1>0, AnswersType DEF Matching
<1>4. all(answer) \in [Places -> Listing \cup {Nil}]
  BY <1>0, <1>3 DEF Answer, SweepTypeOK
<1>5. Answer(found(answer))
  BY <1>4 DEF Answer
<1> HIDE DEF all, found
<1>6. CASE DOMAIN answer # Matching /\ pageNo < MaxPages
  <2>1. /\ gathered' = all(answer) /\ pageNo' = pageNo + 1
        /\ UNCHANGED <<step, at, calls, query, acc, told>>
    BY <1>2, <1>6
  <2>2. pageNo' \in 1 .. MaxPages
    BY <1>0, <1>6, <2>1, BoundsAssumption DEF SweepTypeOK
  <2>3. SweepTypeOK'
    BY <1>0, <1>1, <1>4, <2>1, <2>2 DEF SweepTypeOK
  <2>4. Covered'
    BY <1>0, <1>1, <2>1 DEF Covered, Due, Answered, Waits, Area
  <2>5. ContactInv'
    BY <1>0, <2>1 DEF ContactInv, ContactKept
  <2>6. QED
    BY <2>3, <2>4, <2>5
<1>7. CASE ~ (DOMAIN answer # Matching /\ pageNo < MaxPages)
  <2>1. Add(Parsed(found(answer))) /\ NextQuery
    BY <1>2, <1>7
  <2>2. Answer(Parsed(found(answer)))
    BY <1>5, ParsedType
  <2>3. /\ acc' \in [Places -> Listing \cup {Nil}] /\ told' \in [Places -> SUBSET Listing]
        /\ \A p \in Places : acc[p] # Nil => acc'[p] # Nil
        /\ ContactInv'
    BY <1>0, <2>1, <2>2, Added
  <2>4. /\ Covered' /\ at' \in 1 .. Len(Areas) + 1 /\ step' \in {"sweep", "resolve", "report"}
        /\ step' # "report" => at' <= Len(Areas)
        /\ query' \in 1 .. Len(Queries) /\ pageNo' = 1 /\ calls' = calls
        /\ gathered' = [p \in Places |-> Nil]
    BY <1>0, <1>1, <2>1, <2>3, NextQueryType
  <2>5. 1 \in 1 .. MaxPages /\ gathered' \in [Places -> Listing \cup {Nil}]
    BY <2>4, BoundsAssumption
  <2>6. SweepTypeOK'
    BY <1>0, <1>1, <2>3, <2>4, <2>5 DEF SweepTypeOK
  <2>7. QED
    BY <2>3, <2>4, <2>6
<1>8. QED
  BY <1>6, <1>7

LEMMA TextFailsStep ==
  ASSUME SweepInv, TextFails PROVE SweepTypeOK' /\ Covered' /\ ContactInv'
<1>0. SweepTypeOK /\ Covered /\ ContactInv
  BY DEF SweepInv
<1>1. /\ step = "sweep" /\ calls = <<>> /\ NextQuery
      /\ UNCHANGED <<world, config, acc, resolved, quota, verdicts, leads, told>> /\ warned \subseteq warned'
  BY DEF TextFails, data, results
<1>2. /\ Covered' /\ at' \in 1 .. Len(Areas) + 1 /\ step' \in {"sweep", "resolve", "report"}
      /\ step' # "report" => at' <= Len(Areas)
      /\ query' \in 1 .. Len(Queries) /\ pageNo' = 1 /\ calls' = calls
      /\ gathered' = [p \in Places |-> Nil]
  BY <1>0, <1>1, NextQueryType
<1>3. 1 \in 1 .. MaxPages /\ gathered' \in [Places -> Listing \cup {Nil}]
  BY <1>2, BoundsAssumption
<1>4. SweepTypeOK'
  BY <1>0, <1>1, <1>2, <1>3 DEF SweepTypeOK
<1>5. ContactInv'
  BY <1>0, <1>1 DEF ContactInv, ContactKept
<1>6. QED
  BY <1>2, <1>4, <1>5

LEMMA QuotaStep ==
  ASSUME SweepInv, QuotaRunsOut PROVE SweepTypeOK' /\ Covered' /\ ContactInv'
<1>0. SweepTypeOK /\ Covered /\ ContactInv
  BY DEF SweepInv
<1>1. /\ step' = "report" /\ quota' = TRUE /\ warned \subseteq warned'
      /\ UNCHANGED <<world, config, at, calls, query, pageNo, gathered, acc, resolved, verdicts, leads, told>>
  BY DEF QuotaRunsOut, data, walk, results
<1>2. SweepTypeOK'
  BY <1>0, <1>1 DEF SweepTypeOK
<1>3. ASSUME NEW k \in DOMAIN Areas, NEW i \in DOMAIN IncludedTypes, NEW p \in Places, k < at',
             Due(Areas[k], i, p)'
      PROVE  Answered(Areas[k], i, p)'
  <2>1. Answered(Areas[k], i, p)
    BY <1>0, <1>1, <1>3 DEF Covered, Due
  <2>2. QED
    BY <1>1, <2>1, StaysAnswered
<1>4. Covered' /\ ContactInv'
  BY <1>0, <1>1, <1>3 DEF Covered, ContactInv, ContactKept
<1>5. QED
  BY <1>2, <1>4

(* A verdict is one of eight; a listing inside a resolved area is neither  *)
(* absent nor far.                                                         *)
VerdictKinds ==
  {"absent", "closed", "no_coords", "far", "excluded", "no_website", "borderline", "has_website"}

LEMMA VerdictType == \A p \in Places : Verdict(p) \in VerdictKinds
<1>1. \A kind : Bucket(kind) \in VerdictKinds
  <2> TAKE kind
  <2>1. CASE kind \in {"none", "directory"}
    BY <2>1 DEF Bucket, VerdictKinds
  <2>2. CASE kind = "social"
    BY <2>2 DEF Bucket, VerdictKinds
  <2>3. CASE kind = "booking"
    BY <2>3 DEF Bucket, VerdictKinds
  <2>4. CASE kind \notin {"none", "directory", "social", "booking"}
    BY <2>4 DEF Bucket, VerdictKinds
  <2>5. QED
    BY <2>1, <2>2, <2>3, <2>4
<1>2. QED
  BY <1>1 DEF Verdict, VerdictKinds

LEMMA ListedIsNotFar ==
  ASSUME NEW a \in resolved, NEW p \in Places, acc[p] # Nil, world[p].spot \in Region[a]
  PROVE  Verdict(p) \notin {"absent", "far"}
<1>1. Inside(p)
  BY DEF Inside
<1>2. \A kind : Bucket(kind) \notin {"absent", "far"}
  <2> TAKE kind
  <2>1. CASE kind \in {"none", "directory"}
    BY <2>1 DEF Bucket
  <2>2. CASE kind = "social"
    BY <2>2 DEF Bucket
  <2>3. CASE kind = "booking"
    BY <2>3 DEF Bucket
  <2>4. CASE kind \notin {"none", "directory", "social", "booking"}
    BY <2>4 DEF Bucket
  <2>5. QED
    BY <2>1, <2>2, <2>3, <2>4
<1>3. QED
  BY <1>1, <1>2 DEF Verdict

LEMMA ReportStep ==
  ASSUME SweepInv, Report PROVE SweepTypeOK' /\ Covered' /\ ContactInv' /\ Judged' /\ NoSilentMiss'
<1>0. SweepTypeOK /\ Covered /\ ContactInv
  BY DEF SweepInv
<1>1. /\ step = "report" /\ step' = "export" /\ warned \subseteq warned'
      /\ verdicts' = [p \in Places |-> Verdict(p)]
      /\ UNCHANGED <<world, config, at, calls, query, pageNo, gathered, acc, resolved, quota, leads, told>>
  BY DEF Report, data, walk
<1>2. verdicts' \in [Places -> VerdictKinds]
  BY <1>1, VerdictType
<1>3. SweepTypeOK'
  BY <1>0, <1>1, <1>2 DEF SweepTypeOK, VerdictKinds
<1>4. ASSUME NEW a, NEW i \in DOMAIN IncludedTypes, NEW p \in Places, Answered(a, i, p)
      PROVE  Answered(a, i, p)'
  BY <1>1, <1>4, StaysAnswered
<1>5. ASSUME NEW k \in DOMAIN Areas, NEW i \in DOMAIN IncludedTypes, NEW p \in Places, k < at',
             Due(Areas[k], i, p)'
      PROVE  Answered(Areas[k], i, p)'
  BY <1>0, <1>1, <1>4, <1>5 DEF Covered, Due
<1>6. Covered' /\ ContactInv'
  BY <1>0, <1>1, <1>5 DEF Covered, ContactInv, ContactKept
<1>7. ASSUME NEW a \in AreaNames, NEW i \in DOMAIN IncludedTypes, NEW p \in Places, ~ quota,
             Due(a, i, p), {<<a, "unresolved">>, <<a, IncludedTypes[i]>>} \cap warned' = {}
      PROVE  Verdict(p) \notin {"absent", "far"}
  <2>1. PICK k \in DOMAIN Areas : a = Areas[k]
    BY DEF AreaNames
  <2>2. k < at
    <3> DEFINE last == Len(Areas)
    <3>1. k \in 1 .. last /\ last \in Nat /\ at = last + 1
      BY <1>0, <1>1, <1>7, WorldAssumption DEF Covered
    <3> HIDE DEF last
    <3>2. QED
      BY <3>1
  <2>3. Answered(a, i, p)
    BY <1>0, <1>7, <2>1, <2>2 DEF Covered
  <2>4. acc[p] # Nil /\ a \in resolved
    BY <1>1, <1>7, <2>3 DEF Answered
  <2>5. QED
    BY <1>7, <2>4, ListedIsNotFar DEF Due
<1>8. NoSilentMiss'
  BY <1>1, <1>7 DEF NoSilentMiss, Due
<1>9. Judged'
  BY <1>1 DEF Judged, Verdict
<1>10. QED
  BY <1>3, <1>6, <1>8, <1>9

(* Two numbers are the same line exactly when their digits agree.          *)
LEMMA SameLine ==
  ASSUME NEW a \in Phones, NEW b \in Phones
  PROVE  (Digits(a) = Digits(b)) <=> (a.line = b.line)
  BY DEF Phones, Digits

LEMMA ExportStep ==
  ASSUME SweepInv, Export
  PROVE  SweepTypeOK' /\ Covered' /\ ContactInv' /\ Judged' /\ NoSilentMiss' /\ EveryLineCalledOnce'
<1>0. SweepTypeOK /\ Covered /\ ContactInv /\ Judged /\ NoSilentMiss
  BY DEF SweepInv
<1>1. /\ step = "export" /\ step' = "done" /\ leads' \in Dedupe(Survivors)
      /\ UNCHANGED <<world, config, at, calls, query, pageNo, gathered, acc, resolved, warned, quota, verdicts, told>>
  BY DEF Export, data, walk
<1>2. /\ Survivors \subseteq Places /\ leads' \subseteq Survivors
      /\ \A p \in Survivors : \E r \in leads' : r = p \/ (SamePhone(p, r) /\ ~RicherThan(p, r))
      /\ \A r, s \in leads' : r # s => ~SamePhone(r, s)
  BY <1>1 DEF Dedupe, Survivors, Source
<1>3. SweepTypeOK'
  BY <1>0, <1>1, <1>2 DEF SweepTypeOK
<1>4. ASSUME NEW k \in DOMAIN Areas, NEW i \in DOMAIN IncludedTypes, NEW p \in Places, k < at',
             Due(Areas[k], i, p)'
      PROVE  Answered(Areas[k], i, p)'
  <2>1. Answered(Areas[k], i, p)
    BY <1>0, <1>1, <1>4 DEF Covered, Due
  <2>2. QED
    BY <1>1, <2>1, StaysAnswered
<1>5. Covered' /\ ContactInv' /\ Judged' /\ NoSilentMiss'
  BY <1>0, <1>1, <1>4 DEF Covered, ContactInv, ContactKept, Judged, NoSilentMiss
<1>6. \A p \in Survivors : acc[p] \in Listing
  BY <1>0, <1>1, <1>2 DEF SweepTypeOK, Survivors, Source, Judged
<1>7. \A p \in Survivors : acc[p].phone # Nil => acc[p].phone \in Phones
  BY <1>6 DEF Listing
<1>8. ASSUME NEW p \in leads', NEW q \in leads', p # q, acc[p].phone # Nil, acc[q].phone # Nil
      PROVE  acc[p].phone.line # acc[q].phone.line
  <2>1. acc[p].phone \in Phones /\ acc[q].phone \in Phones
    BY <1>2, <1>7, <1>8
  <2>2. ~ SamePhone(p, q)
    BY <1>2, <1>8
  <2>3. QED
    BY <1>8, <2>1, <2>2, SameLine DEF SamePhone
<1>9. ASSUME NEW p \in Places, verdicts[p] = "no_website", ~ world[p].barred, p \notin leads'
      PROVE  \E q \in leads' : acc[q].phone # Nil /\ acc[p].phone # Nil
                               /\ acc[q].phone.line = acc[p].phone.line
  <2>1. p \in Survivors
    BY <1>9 DEF Survivors, Source
  <2>2. PICK q \in leads' : SamePhone(p, q)
    BY <1>2, <1>9, <2>1
  <2>3. acc[p].phone \in Phones /\ acc[q].phone \in Phones
    BY <1>2, <1>7, <2>1, <2>2 DEF SamePhone
  <2>4. QED
    BY <2>2, <2>3, SameLine DEF SamePhone
<1>10. EveryLineCalledOnce'
  BY <1>1, <1>8, <1>9 DEF EveryLineCalledOnce
<1>11. QED
  BY <1>3, <1>5, <1>10

LEMMA SweepInvInit == SweepInit => SweepInv
<1> SUFFICES ASSUME SweepInit PROVE SweepInv
  OBVIOUS
<1>1. /\ world \in Worlds /\ config \in Configs /\ step = "resolve" /\ at = 1 /\ calls = <<>>
      /\ query = 1 /\ pageNo = 1 /\ resolved = {} /\ quota = FALSE /\ leads = {}
      /\ gathered = [p \in Places |-> Nil] /\ acc = [p \in Places |-> Nil]
      /\ verdicts = [p \in Places |-> "absent"] /\ told = [p \in Places |-> {}]
  BY DEF SweepInit
<1>2. Len(Areas) \in Nat \ {0} /\ Len(Queries) \in Nat \ {0} /\ DOMAIN Areas = 1 .. Len(Areas)
  BY WorldAssumption
<1>3. 1 \in 1 .. Len(Areas) + 1 /\ 1 <= Len(Areas) /\ 1 \in 1 .. Len(Queries) /\ 1 \in 1 .. MaxPages
  <2> DEFINE m == Len(Areas)
             n == Len(Queries)
  <2>1. m \in Nat \ {0} /\ n \in Nat \ {0}
    BY <1>2
  <2> HIDE DEF m, n
  <2>2. 1 \in 1 .. m + 1 /\ 1 <= m /\ 1 \in 1 .. n /\ 1 \in 1 .. MaxPages
    BY <2>1, BoundsAssumption
  <2>3. QED
    BY <2>2 DEF m, n
<1>4. SweepTypeOK
  <2>1. /\ calls \in Seq(Call) /\ told \in [Places -> SUBSET Listing] /\ leads \subseteq Places
        /\ gathered \in [Places -> Listing \cup {Nil}] /\ acc \in [Places -> Listing \cup {Nil}]
    BY <1>1
  <2>2. verdicts \in [Places -> VerdictKinds]
    BY <1>1 DEF VerdictKinds
  <2>3. QED
    BY <1>1, <1>3, <2>1, <2>2 DEF SweepTypeOK, VerdictKinds
<1>5. \A k \in DOMAIN Areas : ~ (k < at)
  <2> DEFINE m == Len(Areas)
  <2>1. DOMAIN Areas = 1 .. m /\ m \in Nat
    BY <1>2
  <2> HIDE DEF m
  <2>2. QED
    BY <1>1, <2>1
<1>6. Covered /\ ContactInv /\ Judged /\ NoSilentMiss /\ EveryLineCalledOnce
  BY <1>1, <1>5 DEF Covered, ContactInv, ContactKept, Judged, NoSilentMiss, EveryLineCalledOnce
<1>7. QED
  BY <1>4, <1>6 DEF SweepInv

LEMMA SweepInvStep == SweepInv /\ [SweepNext]_sweepVars => SweepInv'
<1> SUFFICES ASSUME SweepInv, [SweepNext]_sweepVars PROVE SweepInv'
  OBVIOUS
<1>1. ASSUME SweepTypeOK' /\ Covered' /\ ContactInv', step' \notin {"export", "done"} PROVE SweepInv'
  BY <1>1 DEF SweepInv, Judged, NoSilentMiss, EveryLineCalledOnce
<1>2. CASE Resolve
  BY <1>1, <1>2, ResolveStep DEF Resolve
<1>3. CASE Unresolved
  BY <1>1, <1>3, UnresolvedStep DEF Unresolved, NextArea
<1>4. CASE Nearby
  BY <1>1, <1>4, NearbyStep DEF Nearby
<1>5. CASE NearbyFails
  BY <1>1, <1>5, NearbyFailsStep DEF NearbyFails
<1>6. CASE TextPage
  <2>1. step' \notin {"export", "done"}
    BY <1>6 DEF TextPage, NextQuery, NextArea
  <2>2. QED
    BY <1>1, <1>6, <2>1, TextPageStep
<1>7. CASE TextFails
  <2>1. step' \notin {"export", "done"}
    BY <1>7 DEF TextFails, NextQuery, NextArea
  <2>2. QED
    BY <1>1, <1>7, <2>1, TextFailsStep
<1>8. CASE QuotaRunsOut
  BY <1>1, <1>8, QuotaStep DEF QuotaRunsOut
<1>9. CASE Report
  BY <1>9, ReportStep DEF SweepInv, Report, EveryLineCalledOnce
<1>10. CASE Export
  BY <1>10, ExportStep DEF SweepInv
<1>11. CASE UNCHANGED sweepVars
  <2>1. UNCHANGED <<world, config, step, at, calls, query, pageNo, gathered, acc, resolved, warned,
                    quota, verdicts, leads, told>>
    BY <1>11 DEF sweepVars, data, walk, results
  <2>2. SweepTypeOK' /\ ContactInv' /\ Judged'
    BY <2>1 DEF SweepInv, SweepTypeOK, ContactInv, ContactKept, Judged
  <2>3. NoSilentMiss'
    BY <2>1 DEF SweepInv, NoSilentMiss
  <2>4. EveryLineCalledOnce'
    BY <2>1 DEF SweepInv, EveryLineCalledOnce
  <2>5. Covered'
    BY <2>1 DEF SweepInv, Covered, Due, Answered, Waits, Area
  <2>6. QED
    BY <2>2, <2>3, <2>4, <2>5 DEF SweepInv
<1>12. QED
  BY <1>2, <1>3, <1>4, <1>5, <1>6, <1>7, <1>8, <1>9, <1>10, <1>11 DEF SweepNext

LEMMA SweepInvHolds == SweepSpec => []SweepInv
  BY SweepInvInit, SweepInvStep, PTL DEF SweepSpec

(* The sweep keeps its types; the calls of an area never go deeper than    *)
(* the last subdivision, for every grid and every page size.               *)
THEOREM SweepTyped == SweepSpec => []SweepTypeOK
<1>1. SweepInv => SweepTypeOK
  BY DEF SweepInv
<1>2. QED
  BY <1>1, SweepInvHolds, PTL

(* Whatever the calls answer or refuse, in every world, a practice of a    *)
(* swept type inside a swept area is in the report or the report says why  *)
(* it may not be.                                                          *)
THEOREM NobodyIsMissedSilently == SweepSpec => []NoSilentMiss
<1>1. SweepInv => NoSilentMiss
  BY DEF SweepInv
<1>2. QED
  BY <1>1, SweepInvHolds, PTL

(* Whatever the order in which answers reach the accumulator, a number or  *)
(* a site that one of them had is kept.                                    *)
THEOREM ContactsAreKept == SweepSpec => []ContactKept
<1>1. SweepInv => ContactKept
  BY DEF SweepInv, ContactInv
<1>2. QED
  BY <1>1, SweepInvHolds, PTL

(* The leads file calls each line once and leaves no listing without a     *)
(* site uncalled, for every set of places and numbers.                     *)
THEOREM LinesAreCalledOnce == SweepSpec => []EveryLineCalledOnce
<1>1. SweepInv => EveryLineCalledOnce
  BY DEF SweepInv
<1>2. QED
  BY <1>1, SweepInvHolds, PTL
=============================================================================
