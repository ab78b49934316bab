------------------------------ MODULE Overlays ------------------------------
(***************************************************************************)
(* The overlays of one domain: the processor applies the ACTIVE one to the *)
(* pages it visits and proposes CANDIDATEs; operators promote them through *)
(* POST /overlays/{id}/promote; the shadow evaluator and the automatic     *)
(* rollback, library code that no process of the repository constructs,    *)
(* promote and roll back as well.                                          *)
(*                                                                         *)
(* Every caller reads a row, decides, and writes one row per call; the     *)
(* repository checks nothing.  One action per repository call that writes, *)
(* with the reads that precede it.  Every overlay is created with version  *)
(* 1, so among several ACTIVE ones get_active_overlay may return any.      *)
(***************************************************************************)
EXTENDS Extraction, FiniteSets

CONSTANTS
  MaxOverlays,  \* bound: overlays ever created
  Callers,      \* concurrent promotions and rollbacks
  Pages,        \* the pages of the domain
  Givens,       \* what jobs give: [kind, container, selector]
  MaxShifts,    \* bound: redesigns of the site
  Targets       \* the target states that callers of the API ask for

Ids    == 1 .. MaxOverlays
States == {"CANDIDATE", "SHADOW", "ACTIVE", "DISABLED", "RETIRED"}
LeftPairs == [pair : SUBSET Ids, why : {"stranger", "cut short"}]
Overlay == [state : States, container : BOOLEAN, selector : [Fields -> Selectors], rollback : Ids \cup {Nil}]

ASSUME OverlayAssumption ==
  /\ MaxOverlays \in Nat \ {0} /\ MaxShifts \in Nat
  /\ Nil \notin Ids \cup {0} \cup Overlay /\ Similarity \in [Layouts \X Layouts -> 0 .. 100]
  /\ Fields # {} /\ Layouts \subseteq Nat \ {0} /\ Layouts # {} /\ Targets \subseteq States
  /\ Pages \subseteq Page
ASSUME GivensAssumption ==
  Nil \notin Givens /\ \A g \in Givens : g.kind \in {"none", "mappings", "overlay"}

VARIABLES
  store,    \* extraction_overlays: id -> row or Nil
  visit,    \* the row a visit of the processor is about to insert, or Nil
  calls,    \* per caller: the step it is at and the row it decided on
  layout,   \* the layout of the site today
  shifts,   \* redesigns so far
  approved, \* history: overlays a human approved, or that passed the evidence check
  left      \* history: the pairs of ACTIVE overlays that calls left behind, and why

overlaysVars == <<store, visit, calls, layout, shifts, approved, left>>

NoCall  == [pc |-> "idle", id |-> Nil, rollback |-> Nil]

Known  == {i \in Ids : store[i] # Nil}
Active == {i \in Known : store[i].state = "ACTIVE"}
\* get_active_overlay: the highest version, all of which are 1.
GetActive == IF Active = {} THEN {Nil} ELSE Active
Row(id) == IF id = Nil THEN Nil ELSE store[id]
\* The page as it is served today.
Today(page) == [page EXCEPT !.layout = layout]

OverlaysInit ==
  /\ store = [i \in Ids |-> Nil]
  /\ visit = Nil
  /\ calls = [c \in Callers |-> NoCall]
  /\ layout = (CHOOSE l \in Layouts : \A m \in Layouts : l <= m) /\ shifts = 0
  /\ approved = {} /\ left = {}

-----------------------------------------------------------------------------
(* The processor.                                                          *)

Create(row) ==
  LET id == CHOOSE i \in Ids : i \notin Known /\ \A j \in Ids \ Known : i <= j
  IN store' = [store EXCEPT ![id] = row]

\* A selector is made of the tag and the class names of an element, as they are.
Captured(page) == IF page.layout \in page.plain THEN page.layout ELSE Unparsable

\* Mutant of Relocation: rolls back to nothing that was ever served.
RelocationToNext(id, row, page) ==
  [state |-> "CANDIDATE", container |-> row.container,
   rollback |-> IF id < MaxOverlays THEN id + 1 ELSE id,
   selector |-> [f \in Fields |-> IF f \in Relocated(page, row) THEN Captured(page) ELSE row.selector[f]]]

\* The other selectors are kept; the source becomes the rollback target.
Relocation(id, row, page) ==
  [state |-> "CANDIDATE", container |-> row.container, rollback |-> id,
   selector |-> [f \in Fields |-> IF f \in Relocated(page, row) THEN Captured(page) ELSE row.selector[f]]]

\* The container's selector is made of the classes that all its peers have.
Synthesis(page) ==
  [state |-> "CANDIDATE", container |-> page.layout \in page.plain, rollback |-> Nil,
   selector |-> [f \in Fields |-> Captured(page)]]

\* get_active_overlay and the stage chain up to the row it wants to insert; a visit
\* that proposes nothing changes no row.
Visit ==
  /\ visit = Nil
  /\ \E p \in Pages, g \in Givens, id \in GetActive :
       LET page == Today(p)
           what == Proposal(page, g, Row(id))
       IN /\ what # "nothing"
          /\ visit' = IF what = "relocation" THEN Relocation(id, Row(id), page) ELSE Synthesis(page)
  /\ UNCHANGED <<store, calls, layout, shifts, approved, left>>

\* The insert may fail; it is logged and the visit goes on.
Propose ==
  /\ visit # Nil
  /\ \/ Known # Ids /\ Create(visit)
     \/ UNCHANGED store
  /\ visit' = Nil
  /\ UNCHANGED <<calls, layout, shifts, approved, left>>

Redesign ==
  /\ shifts < MaxShifts
  /\ layout' \in Layouts \ {layout}
  /\ shifts' = shifts + 1
  /\ UNCHANGED <<store, visit, calls, approved, left>>

-----------------------------------------------------------------------------
(* Promotion through the API.                                              *)

SetState(id, s) == store' = [store EXCEPT ![id].state = s]
Step(c, pc, id, other) == calls' = [calls EXCEPT ![c] = [pc |-> pc, id |-> id, rollback |-> other]]
Returns(c) == calls' = [calls EXCEPT ![c] = NoCall]

\* id becomes ACTIVE beside others, none of which its call has decided to retire.
Strangers(id, retires) ==
  {[pair |-> {id, j}, why |-> "stranger"] : j \in IF id \in Active THEN {} ELSE Active \ {id, retires}}
\* A pair is forgotten once one of the two is no longer ACTIVE.
Still(pairs) == {p \in pairs : p.pair \subseteq Active'}

\* Mutant of MayMove: any caller may activate.
MayMoveUnapproved(from, to, human) ==
  /\ from = "CANDIDATE" => to = "SHADOW"
  /\ from = "SHADOW" => to = "ACTIVE"

\* Only the two source states on the way up are restricted.
MayMove(from, to, human) ==
  /\ to = "ACTIVE" => human
  /\ from = "CANDIDATE" => to = "SHADOW"
  /\ from = "SHADOW" => to = "ACTIVE"

\* The row is read and the request accepted.
PromoteReads(c) ==
  /\ calls[c].pc = "idle"
  /\ \E id \in Known, to \in Targets, human \in BOOLEAN :
       /\ MayMove(store[id].state, to, human)
       /\ IF store[id].state = "SHADOW" THEN Step(c, "promote", id, store[id].rollback)
          ELSE Step(c, to, id, Nil)
       /\ approved' = IF human /\ to = "ACTIVE" THEN approved \cup {id} ELSE approved
  /\ UNCHANGED <<store, visit, layout, shifts, left>>

\* Moves other than SHADOW to ACTIVE are one write.
Moves(c) ==
  /\ calls[c].pc \in States
  /\ SetState(calls[c].id, calls[c].pc)
  /\ left' = Still(left \cup IF calls[c].pc = "ACTIVE" THEN Strangers(calls[c].id, Nil) ELSE {})
  /\ Returns(c)
  /\ UNCHANGED <<visit, layout, shifts, approved>>

\* Mutant of Promotes: the old ACTIVE overlay is left as it is.
PromotesOnly(c) ==
  /\ calls[c].pc = "promote"
  /\ SetState(calls[c].id, "ACTIVE")
  /\ left' = Still(left \cup Strangers(calls[c].id, calls[c].rollback))
  /\ Returns(c)
  /\ UNCHANGED <<visit, layout, shifts, approved>>

\* SHADOW to ACTIVE: first the new one, then the one it names as its rollback target.
Promotes(c) ==
  /\ calls[c].pc = "promote"
  /\ SetState(calls[c].id, "ACTIVE")
  /\ left' = Still(left \cup Strangers(calls[c].id, calls[c].rollback))
  /\ IF calls[c].rollback = Nil THEN Returns(c) ELSE calls' = [calls EXCEPT ![c].pc = "retire"]
  /\ UNCHANGED <<visit, layout, shifts, approved>>

Retires(c) ==
  /\ calls[c].pc = "retire"
  /\ IF calls[c].rollback \in Known THEN SetState(calls[c].rollback, "RETIRED") ELSE UNCHANGED store
  /\ left' = Still(left)
  /\ Returns(c)
  /\ UNCHANGED <<visit, layout, shifts, approved>>

\* The connection or the process is lost between two calls.
CallDies(c) ==
  /\ calls[c].pc # "idle"
  /\ LET two == {calls[c].id, calls[c].rollback}
     IN left' = left \cup IF calls[c].pc = "retire" /\ two \subseteq Active
                          THEN {[pair |-> two, why |-> "cut short"]} ELSE {}
  /\ Returns(c)
  /\ UNCHANGED <<store, visit, layout, shifts, approved>>

-----------------------------------------------------------------------------
(* ShadowOverlayEvaluator and AutoRollback.                                *)

AsGiven(row) == [kind |-> "overlay", container |-> row.container, selector |-> row.selector]

\* evaluate_candidate runs the chain on a sample with the candidate, and then with the
\* ACTIVE overlay, as the overlay of the job: where that finds nothing the later stages
\* run, the synthesis of a CANDIDATE with them.  The comparison it stores decides nothing.
Evaluate ==
  /\ \E id \in Known, p \in Pages : \E over \in {id} \cup Active :
       /\ store[id].state \in {"CANDIDATE", "SHADOW"}
       /\ Proposal(Today(p), AsGiven(store[over]), Nil) = "synthesis"
       /\ Known # Ids /\ Create(Synthesis(Today(p)))
  /\ UNCHANGED <<visit, calls, layout, shifts, approved, left>>

\* promote_to_shadow.
ToShadow(c) ==
  /\ calls[c].pc = "idle"
  /\ \E id \in Known : store[id].state = "CANDIDATE" /\ Step(c, "SHADOW", id, Nil)
  /\ UNCHANGED <<store, visit, layout, shifts, approved, left>>

\* promote_to_active: a SHADOW overlay with twenty observations of its own.  The
\* ACTIVE overlay it retires is the one get_active_overlay returns.
ShadowReads(c) ==
  /\ calls[c].pc = "idle"
  /\ \E id \in Known, old \in GetActive :
       /\ store[id].state = "SHADOW"
       /\ approved' = approved \cup {id}
       /\ Step(c, IF old = Nil THEN "activate" ELSE "swap", id, old)
  /\ UNCHANGED <<store, visit, layout, shifts, left>>

\* check_and_rollback: the ACTIVE overlay fails too often and names a target.
RollbackReads(c) ==
  /\ calls[c].pc = "idle"
  /\ \E id \in Active :
       /\ store[id].rollback # Nil
       /\ Step(c, "swap", store[id].rollback, id)
  /\ UNCHANGED <<store, visit, layout, shifts, approved, left>>

\* Both retire first and activate then.
Swaps(c) ==
  /\ calls[c].pc = "swap"
  /\ SetState(calls[c].rollback, "RETIRED")
  /\ left' = Still(left)
  /\ calls' = [calls EXCEPT ![c].pc = "activate"]
  /\ UNCHANGED <<visit, layout, shifts, approved>>

Activates(c) ==
  /\ calls[c].pc = "activate"
  /\ IF calls[c].id \in Known THEN SetState(calls[c].id, "ACTIVE") ELSE UNCHANGED store
  /\ left' = Still(left \cup Strangers(calls[c].id, Nil))
  /\ Returns(c)
  /\ UNCHANGED <<visit, layout, shifts, approved>>

-----------------------------------------------------------------------------

OverlaysNext ==
  \/ Visit \/ Propose \/ Redesign \/ Evaluate
  \/ \E c \in Callers : \/ PromoteReads(c) \/ Moves(c) \/ Promotes(c) \/ Retires(c) \/ CallDies(c)
                        \/ ToShadow(c) \/ ShadowReads(c) \/ RollbackReads(c) \/ Swaps(c) \/ Activates(c)

OverlaysSpec == OverlaysInit /\ [][OverlaysNext]_overlaysVars

-----------------------------------------------------------------------------
(* Properties.                                                             *)

\* Every variable keeps its type; a rollback target is an older overlay.
OverlaysTypeOK ==
  /\ store \in [Ids -> Overlay \cup {Nil}]
  /\ \A i \in Known : store[i].rollback # Nil => store[i].rollback \in Known /\ store[i].rollback < i
  /\ visit \in Overlay \cup {Nil}
  /\ calls \in [Callers -> [pc : States \cup {"idle", "promote", "retire", "swap", "activate"},
                            id : Ids \cup {Nil}, rollback : Ids \cup {Nil}]]
  /\ \A c \in Callers : calls[c].pc # "idle" => calls[c].id \in Known
  /\ layout \in Layouts /\ shifts \in 0 .. MaxShifts
  /\ approved \subseteq Known
  /\ left \subseteq LeftPairs

\* What the pipeline proposes never serves a page on its own: an ACTIVE overlay was
\* approved by a human or passed the evidence check, and one that a rollback restores
\* had been approved when it was first served.
ActiveWasApproved == Active \subseteq approved

\* Any two ACTIVE overlays of a domain have a cause that lasts: a promotion of the one
\* is still to retire the other; or it was killed between its two writes; or the one was
\* activated by a call that was not going to retire the other, because its row names
\* another target or none, or because the other became ACTIVE after the row was read.
TwoActiveHaveACause ==
  \A i, j \in Active : i # j =>
    \/ \E c \in Callers : calls[c].pc = "retire" /\ {calls[c].id, calls[c].rollback} = {i, j}
    \/ \E p \in left : p.pair = {i, j}

\* A selector that misses hides nothing: a visit made now, of a page that a stage of the
\* markup can read, yields a record, whatever the job gives and whichever overlay is
\* ACTIVE, unless it has to evaluate a selector that is no CSS.  Such a selector fails
\* the page, except among the mappings of a job, where it counts as a miss.
MissHidesNothing ==
  \A p \in Pages, g \in Givens, id \in GetActive :
    LET used == IF g.kind = "none" THEN Row(id) ELSE g
    IN /\ Markup(p) # <<>>
       /\ used # Nil => used.container /\ (g.kind = "mappings" \/ Unparsable \notin Range(used.selector))
       => Process(Today(p), g, Row(id)) # {}
=============================================================================
