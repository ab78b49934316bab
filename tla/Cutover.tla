------------------------------ MODULE Cutover ------------------------------
(***************************************************************************)
(* The migration and a client of the API that reads the records of a job   *)
(* meanwhile: both run against the backend the operator switches.          *)
(***************************************************************************)
EXTENDS Migration

CONSTANTS
  Ids,       \* see Records
  MaxClock,
  MaxLimit

VARIABLES home, clock, rows, inserting, reader, cursor, served, settled

R == INSTANCE Records

ASSUME IdsAssumption == Ids \subseteq Nat /\ IsFiniteSet(Ids)
ASSUME PagesAssumption == MaxClock \in Nat /\ MaxLimit \in Nat \ {0}
ASSUME NoneAssumption == None \notin R!Row /\ None \notin R!Pending /\ None \notin R!Backends

records == <<home, clock, rows, inserting, reader, cursor, served, settled>>

CutoverInit == Init /\ R!Init

CutoverNext ==
  \/ Next /\ UNCHANGED records
  \/ R!Next /\ UNCHANGED vars

CutoverSpec == CutoverInit /\ [][CutoverNext]_<<vars, records>>

-----------------------------------------------------------------------------
(* The types of both parts: see Migration and Records.                     *)
CutoverTypeOK == TypeOK /\ R!TypeOK

(* Records!PagesAreExact, while the operator moves the database: a client  *)
(* that reached its last page was not switched over halfway.               *)
PagesAreExact == R!PagesAreExact
=============================================================================
