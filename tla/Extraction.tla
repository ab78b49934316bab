----------------------------- MODULE Extraction -----------------------------
(***************************************************************************)
(* The extraction of one page: the stage chain of extraction_pipeline.py,  *)
(* the overlay applied to it, and the deduplicator behind it, as functions *)
(* of the page.                                                            *)
(*                                                                         *)
(* A page is what the stages tell apart: the layout its selectors belong   *)
(* to, the layouts in which its class names are CSS identifiers (plain),   *)
(* its containers, and what each stage would read from its markup.  An     *)
(* overlay says whether the selector of its containers is CSS, and maps    *)
(* each field to the layout its selector was captured on; the selector     *)
(* hits on that layout, misses on every other, and raises if it is no CSS. *)
(* A record is its type, its title and the URL the deduplicator keys it by. *)
(***************************************************************************)
EXTENDS Integers, Sequences, SequencesExt

CONSTANTS
  Fields,
  Layouts,
  Similarity,   \* <<captured, shown>> -> similarity, in percent, of the best candidate element
  Nil

Unparsable == 0   \* in place of a layout: a selector that is no CSS
Selectors  == Layouts \cup {Unparsable}

Texts   == STRING \cup {Nil}
Records == [type : STRING, title : Texts, canonical : Texts, source : STRING]
Record(type, title) == [type |-> type, title |-> title, canonical |-> Nil, source |-> "page"]

Page ==
  [host : {"maps", "site"}, plain : SUBSET Layouts, layout : Layouts, containers : Nat, places : Nat, shaped : Nat,
   jsonld : Seq([broken : BOOLEAN, items : Seq(Seq(Records))]), opengraph : BOOLEAN,
   articles : Seq([long : BOOLEAN, title : Texts]), tables : Seq([cells : Nat]),
   lists : Seq([items : Nat, nav : BOOLEAN, links : BOOLEAN]),
   microdata : Seq([nested : BOOLEAN, props : BOOLEAN]), rdfa : Seq([nested : BOOLEAN, props : BOOLEAN])]

-----------------------------------------------------------------------------
(* Stages A to C: mappings of the job, then the Google Maps strategies.    *)

\* OverrideStrategy: one record for each container in which some mapping hits; a mapping
\* that is no CSS counts as a miss.
Override(page, mappings) ==
  IF \E f \in DOMAIN mappings : mappings[f] = page.layout
  THEN [i \in 1 .. page.containers |-> Record("generic", Nil)] ELSE <<>>

\* matches_domain selects one of the two strategies by URL; each may find nothing.
Maps(page) == IF page.host = "maps" THEN [i \in 1 .. page.places |-> Record("place", Nil)] ELSE <<>>

-----------------------------------------------------------------------------
(* Stage D: an overlay, given with the job or ACTIVE for the domain.       *)

\* Every field is looked up in every container, with el.css as it is.
Raises(page, overlay) ==
  \/ ~overlay.container
  \/ page.containers > 0 /\ \E f \in DOMAIN overlay.selector : overlay.selector[f] = Unparsable

Hit(page, selector) == {f \in DOMAIN selector : selector[f] = page.layout}

DEFAULT_RELOCATION_THRESHOLD == 45
FindBestRelocation(captured, shown) == Similarity[captured, shown] >= DEFAULT_RELOCATION_THRESHOLD

\* Fields whose selector misses and whose captured signature an element still resembles.
Relocated(page, overlay) ==
  {f \in DOMAIN overlay.selector \ Hit(page, overlay.selector) :
     FindBestRelocation(overlay.selector[f], page.layout)}

\* A field is relocated in the first container only: later containers skip it.
ApplyFieldMappings(page, overlay) ==
  LET hit == Hit(page, overlay.selector)
  IN IF hit # {} THEN [i \in 1 .. page.containers |-> Record("generic", Nil)]
     ELSE IF page.containers > 0 /\ Relocated(page, overlay) # {} THEN <<Record("generic", Nil)>>
     ELSE <<>>

\* An overlay given with the job is applied without relocation.
ApplyOverlayDict(page, selector) ==
  IF Hit(page, selector) = {} THEN <<>> ELSE [i \in 1 .. page.containers |-> Record("generic", Nil)]

-----------------------------------------------------------------------------
(* Stages E to H: the markup of the page.                                  *)

\* Each script block is a sequence of items, and each item the records it expands
\* to: itself, the members of its @graph, or none when it is no object.  A block
\* that is no JSON is skipped, the others are not.
JsonLd(page) ==
  FlattenSeq([b \in 1 .. Len(page.jsonld) |->
    IF page.jsonld[b].broken THEN <<>> ELSE FlattenSeq(page.jsonld[b].items)])

\* Long articles, tables with a cell, lists of three or more outside navigation.
SemanticHtml(page) ==
  LET Articles == [i \in DOMAIN page.articles |->
                     IF page.articles[i].long THEN <<Record("article", page.articles[i].title)>> ELSE <<>>]
      Tables   == [i \in DOMAIN page.tables |->
                     IF page.tables[i].cells > 0 THEN <<Record("table", Nil)>> ELSE <<>>]
      Lists    == [i \in DOMAIN page.lists |->
                     IF page.lists[i].items >= 3 /\ ~page.lists[i].nav /\ ~page.lists[i].links
                     THEN <<Record("list", Nil)>> ELSE <<>>]
  IN FlattenSeq(Articles \o Tables \o Lists)

\* Scopes inside another scope fold into it; a scope without properties is no record.
ScopedProps(scopes) ==
  FlattenSeq([i \in DOMAIN scopes |->
    IF ~scopes[i].nested /\ scopes[i].props THEN <<Record("structured", Nil)>> ELSE <<>>])

StructuredMarkup(page) ==
  LET micro == ScopedProps(page.microdata)
  IN IF page.opengraph THEN <<Record("opengraph", Nil)>>
     ELSE IF micro # <<>> THEN micro ELSE ScopedProps(page.rdfa)

\* The first pattern whose match has a container with two peers.
ContentAddressed(page) ==
  IF page.shaped >= 3 THEN [i \in 1 .. page.shaped |-> Record("content_addressed", Nil)] ELSE <<>>

Markup(page) ==
  LET jsonld     == JsonLd(page)
      semantic   == SemanticHtml(page)
      structured == StructuredMarkup(page)
  IN IF jsonld # <<>> THEN jsonld ELSE IF semantic # <<>> THEN semantic
     ELSE IF structured # <<>> THEN structured ELSE ContentAddressed(page)

-----------------------------------------------------------------------------
(* The chain.  A job gives mappings, an overlay or nothing; active is the  *)
(* ACTIVE overlay of the domain or Nil.  The processor passes no schema,  *)
(* so no record is dropped by validation.                                  *)

ByJob(page, given) ==
  IF given.kind = "mappings" /\ Override(page, given.selector) # <<>>
  THEN Override(page, given.selector) ELSE Maps(page)

ByOverlay(page, given, active) ==
  IF given.kind = "overlay" THEN ApplyOverlayDict(page, given.selector)
  ELSE IF given.kind = "none" /\ active # Nil THEN ApplyFieldMappings(page, active)
  ELSE <<>>

\* Mutant of Extract: a domain with an overlay gets what the overlay finds, even nothing.
ExtractOverlayOnly(page, given, active) ==
  LET job == ByJob(page, given)
      overlay == ByOverlay(page, given, active)
  IN IF job # <<>> THEN job ELSE IF overlay # <<>> \/ active # Nil THEN overlay ELSE Markup(page)

\* Whether a stage of the chain raises.  The override's containers are looked up first,
\* unguarded; the overlay only where the job and the Maps strategies yield nothing.
Fails(page, given, active) ==
  IF given.kind = "mappings" /\ ~given.container THEN TRUE
  ELSE IF ByJob(page, given) # <<>> THEN FALSE
  ELSE \/ given.kind = "overlay" /\ Raises(page, given)
       \/ given.kind = "none" /\ active # Nil /\ Raises(page, active)

Extract(page, given, active) ==
  LET job == ByJob(page, given)
      overlay == ByOverlay(page, given, active)
  IN IF job # <<>> THEN job ELSE IF overlay # <<>> THEN overlay ELSE Markup(page)

\* What the chain proposes as a new CANDIDATE on the way.  A relocation is proposed after
\* the last container, so not by a visit that raised.
Proposal(page, given, active) ==
  IF Fails(page, given, active) \/ ByJob(page, given) # <<>> THEN "nothing"
  ELSE IF given.kind = "none" /\ active # Nil /\ page.containers > 0 /\ Relocated(page, active) # {} THEN "relocation"
  ELSE IF ByOverlay(page, given, active) = <<>> /\ page.shaped >= 3 /\ Markup(page) = ContentAddressed(page)
  THEN "synthesis" ELSE "nothing"

-----------------------------------------------------------------------------
(* The deduplicator.                                                       *)

Key(r) == IF r.canonical # Nil THEN r.canonical ELSE r.source

\* Titles at or above the fuzzy threshold are taken as equal.
Near(r, s) == r.type = s.type /\ r.title # Nil /\ r.title = s.title

\* A record is kept unless one kept before it is the same.  Their order is left out.
Dedupe(records) ==
  LET Same(r, t) == Key(r) = Key(t) \/ Near(r, t)
      kept == CHOOSE K \in SUBSET DOMAIN records :
                K = {i \in DOMAIN records : \A j \in K : j < i => ~Same(records[j], records[i])}
  IN {records[i] : i \in kept}

\* ExtractionPipeline.process of a page that was fetched: an exception of a stage fails
\* the whole page.
Process(page, given, active) ==
  IF Fails(page, given, active) THEN {} ELSE Dedupe(Extract(page, given, active))
=============================================================================
