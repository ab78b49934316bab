----------------------------- MODULE PlaceSweep -----------------------------
(***************************************************************************)
(* cli.py places: sweep named areas through the Places API, unite what the *)
(* calls return, sort the listings by web presence and export the leads.   *)
(*                                                                         *)
(* One action per API call.  A call is answered, fails, or is refused for  *)
(* the quota; an answer holds at most PageCap places and may omit fields   *)
(* of a place.  The world is data: where a place is, its types, the        *)
(* queries that find it.  A region stands for the set of spots inside a    *)
(* circle; Grid gives the smaller circles of _subdivide, which cover it.   *)
(* The labels of a listing (areas, sources, specialty, distance) are left  *)
(* out; no decision depends on them.                                       *)
(***************************************************************************)
EXTENDS Integers, FiniteSets, Sequences

CONSTANTS
  Places, Spots, Lines,
  Areas,       \* the sequence of areas of the sweep
  Region,      \* area -> the spots within its radius
  Grid,        \* region -> the sequence of smaller regions _subdivide makes of it
  IncludedTypes, \* included_types, a sequence
  Queries,     \* text_queries, a sequence
  Worlds,      \* the worlds the sweep may meet
  Configs,     \* the flags of cli.py places
  Omissions,   \* the sets of fields an answer may lack
  PageCap,     \* MAX_PAGE_SIZE: 20 in the code
  MaxPages,    \* max_text_pages: 3 by default
  MaxDepth,    \* max_subdivision_depth: 1 by default
  Nil

AreaNames == {Areas[i] : i \in DOMAIN Areas}
Phones == [line : Lines, form : {"national", "international"}]
Urls   == {"", "junk", "directory", "social", "booking", "own"}
Fields == {"url", "phone", "coords"}
Place  == [spot : Spots, types : SUBSET STRING, finds : SUBSET STRING, named : BOOLEAN,
           name : {"practice", "vet", "other"}, url : Urls, phone : Phones \cup {Nil},
           open : BOOLEAN, fields : Nat, barred : BOOLEAN]
Config == [social : BOOLEAN, booking : BOOLEAN, closed : BOOLEAN, vet : BOOLEAN,
           relevance : BOOLEAN, strict : BOOLEAN, borderline : BOOLEAN]

Listing == [url : Urls, phone : Phones \cup {Nil}, coords : BOOLEAN]

ASSUME WorldAssumption ==
  /\ Worlds \subseteq [Places -> Place] /\ Configs \subseteq Config
  /\ Areas \in Seq(STRING) /\ Areas # <<>>
  /\ IncludedTypes \in Seq(STRING) /\ Queries \in Seq(STRING) /\ Queries # <<>>
  /\ Region \in [AreaNames -> SUBSET Spots]
  /\ Omissions \subseteq SUBSET Fields
  /\ Nil \notin Phones \cup Listing /\ IsFiniteSet(Places)
\* Each cell of the grid is covered corner to corner by its circle.
ASSUME CoverAssumption ==
  /\ Grid \in [SUBSET Spots -> Seq(SUBSET Spots)]
  /\ \A r \in SUBSET Spots : r \subseteq UNION {Grid[r][i] : i \in DOMAIN Grid[r]}
ASSUME BoundsAssumption ==
  PageCap \in Nat \ {0} /\ MaxPages \in Nat \ {0} /\ MaxDepth \in Nat

VARIABLES
  world, config,
  step,      \* the call run_places_sweep awaits next
  at,        \* index of the area in work
  calls,     \* nearby calls still to make in this area, in order
  query,     \* index of the text query in work
  pageNo,    \* page of the text search
  gathered,  \* what the pages of this text search returned so far
  acc,       \* _Accumulator: the listing of each place
  resolved,  \* areas_resolved
  warned,    \* the warnings of the report
  quota,     \* quota_exhausted
  verdicts,  \* the verdict on each place
  leads,     \* the rows of the leads file
  told       \* history: for each place the answers that reached the accumulator

data    == <<world, config>>
walk    == <<at, calls, query, pageNo, gathered>>
results == <<verdicts, leads>>
sweepVars == <<data, step, walk, acc, resolved, warned, quota, results, told>>

Call    == [type : STRING, region : SUBSET Spots, depth : 0 .. MaxDepth]
Area    == Areas[at]

SweepInit ==
  /\ world \in Worlds /\ config \in Configs
  /\ step = "resolve" /\ at = 1 /\ calls = <<>> /\ query = 1 /\ pageNo = 1
  /\ gathered = [p \in Places |-> Nil] /\ acc = [p \in Places |-> Nil]
  /\ resolved = {} /\ warned = {} /\ quota = FALSE
  /\ verdicts = [p \in Places |-> "absent"] /\ leads = {}
  /\ told = [p \in Places |-> {}]

-----------------------------------------------------------------------------
(* What an answer holds, and the accumulator.                              *)

\* What the API says of p, the omitted fields left blank.
Shown(p, omitted) ==
  [url    |-> IF "url" \in omitted THEN "" ELSE world[p].url,
   phone  |-> IF "phone" \in omitted THEN Nil ELSE world[p].phone,
   coords |-> "coords" \notin omitted]

\* Mutant of Filled: a later, sparser answer blanks the number.
FilledByLast(old, new) ==
  IF old = Nil THEN new
  ELSE [old EXCEPT !.url = IF @ = "" THEN new.url ELSE @, !.phone = new.phone]

\* A listing met again: gaps in website and phone are filled, coordinates are not.
Filled(old, new) ==
  IF old = Nil THEN new
  ELSE [old EXCEPT !.url   = IF @ = "" THEN new.url ELSE @,
                   !.phone = IF @ = Nil THEN new.phone ELSE @]

\* An answer is a function from the places in it; those without id or name are dropped.
Parsed(answer) == [p \in {q \in DOMAIN answer : world[q].named} |-> answer[p]]

Add(answer) ==
  /\ acc' = [p \in Places |-> IF p \in DOMAIN answer THEN Filled(acc[p], answer[p]) ELSE acc[p]]
  /\ told' = [p \in Places |-> told[p] \cup {answer[q] : q \in {p} \cap DOMAIN answer}]

\* The API picks at most PageCap of the places that match.
Pages(matching) ==
  {S \in SUBSET matching :
     Cardinality(S) = IF Cardinality(matching) <= PageCap THEN Cardinality(matching) ELSE PageCap}
Answers(matching) ==
  UNION {{[p \in S |-> Shown(p, omit[p])] : omit \in [S -> Omissions]} : S \in Pages(matching)}

-----------------------------------------------------------------------------
(* One area: resolve its centre, typed nearby calls, text queries.         *)

NextArea ==
  /\ at' = at + 1 /\ query' = 1 /\ pageNo' = 1
  /\ step' = IF at = Len(Areas) THEN "report" ELSE "resolve"

Resolve ==
  /\ step = "resolve"
  /\ resolved' = resolved \cup {Area}
  /\ calls' = [i \in DOMAIN IncludedTypes |-> [type |-> IncludedTypes[i], region |-> Region[Area], depth |-> 0]]
  /\ step' = "sweep"
  /\ UNCHANGED <<data, at, query, pageNo, gathered, acc, warned, quota, results, told>>

\* The call raises, or finds no place with coordinates.
Unresolved ==
  /\ step = "resolve"
  /\ warned' = warned \cup {<<Area, "unresolved">>}
  /\ NextArea
  /\ UNCHANGED <<data, calls, gathered, acc, resolved, quota, results, told>>

\* The circle as a grid of smaller ones.
Subdivide(call) ==
  [i \in DOMAIN Grid[call.region] |->
     [type |-> call.type, region |-> Grid[call.region][i], depth |-> call.depth + 1]]

MayDivide(call) == call.depth < MaxDepth

InReach(call) == {p \in Places : world[p].spot \in call.region /\ call.type \in world[p].types}

\* Mutant of Truncated: counts what survived parsing.
TruncatedParsed(answer) == Cardinality(DOMAIN Parsed(answer)) >= PageCap

\* Saturation is a property of what the API returned, not of what survived parsing.
Truncated(answer) == Cardinality(DOMAIN answer) >= PageCap

Nearby ==
  /\ step = "sweep" /\ calls # <<>>
  /\ LET call == Head(calls) IN
     \E answer \in Answers(InReach(call)) :
       /\ Add(Parsed(answer))
       /\ IF Truncated(answer) /\ MayDivide(call)
          THEN calls' = Subdivide(call) \o Tail(calls) /\ UNCHANGED warned
          ELSE /\ calls' = Tail(calls)
               /\ warned' = IF Truncated(answer) THEN warned \cup {<<Area, call.type>>} ELSE warned
  /\ UNCHANGED <<data, step, at, query, pageNo, gathered, resolved, quota, results>>

NearbyFails ==
  /\ step = "sweep" /\ calls # <<>>
  /\ warned' = warned \cup {<<Area, Head(calls).type>>}
  /\ calls' = Tail(calls)
  /\ UNCHANGED <<data, step, at, query, pageNo, gathered, acc, resolved, quota, results, told>>

NextQuery ==
  /\ gathered' = [p \in Places |-> Nil]
  /\ IF query < Len(Queries)
     THEN query' = query + 1 /\ pageNo' = 1 /\ UNCHANGED <<step, at>>
     ELSE NextArea
  /\ UNCHANGED calls

\* Text search biases to the circle and does not bound: only the query selects.
Matching == {p \in Places : Queries[query] \in world[p].finds /\ gathered[p] = Nil}

\* One page; the places become listings when the last page is in.
TextPage ==
  /\ step = "sweep" /\ calls = <<>>
  /\ \E answer \in Answers(Matching) :
       LET all == [p \in Places |-> IF p \in DOMAIN answer THEN answer[p] ELSE gathered[p]]
           found == [p \in {q \in Places : all[q] # Nil} |-> all[p]]
           more == DOMAIN answer # Matching
       IN IF more /\ pageNo < MaxPages
          THEN /\ gathered' = all /\ pageNo' = pageNo + 1
               /\ UNCHANGED <<step, at, calls, query, acc, told>>
          ELSE Add(Parsed(found)) /\ NextQuery
  /\ UNCHANGED <<data, resolved, warned, quota, results>>

TextFails ==
  /\ step = "sweep" /\ calls = <<>>
  /\ warned' = warned \cup {<<Area, Queries[query]>>}
  /\ NextQuery
  /\ UNCHANGED <<data, acc, resolved, quota, results, told>>

\* PlacesQuotaError: the sweep stops and reports what it has.
QuotaRunsOut ==
  /\ step \in {"resolve", "sweep"}
  /\ quota' = TRUE
  /\ warned' = warned \cup {<<Area, "quota">>}
  /\ step' = "report"
  /\ UNCHANGED <<data, walk, acc, resolved, results, told>>

-----------------------------------------------------------------------------
(* The verdicts.                                                           *)

\* classify_website: only a hostname that could be resolved is a site.
Kind(url) ==
  CASE url \in {"", "junk"} -> "none"
    [] url = "directory" -> "directory"
    [] url = "social" -> "social"
    [] url = "booking" -> "booking"
    [] OTHER -> "own"

MEDICAL_PLACE_TYPES == {"doctor", "dentist", "dental_clinic", "hospital", "medical_lab",
                        "physiotherapist", "chiropractor"}
AMBIGUOUS_PLACE_TYPES == {"medical_clinic", "health", "skin_care_clinic", "wellness_center"}
NON_MEDICAL_PLACE_TYPES ==
  {"pharmacy", "drugstore", "real_estate_agency", "church", "place_of_worship", "locality",
   "political", "community_center", "event_venue", "manufacturer", "clothing_store",
   "cosmetics_store", "pet_store", "store", "restaurant", "bar", "cafe", "gym", "beauty_salon",
   "hair_salon", "lodging", "school", "insurance_agency", "lawyer"}

\* medical_signal: the name outranks the types, a precise type the others, and a type
\* that settles the question the other way every loose one.
Tier(p) ==
  LET row == world[p]
      Typed(class) == row.types \cap class # {}
  IN CASE row.name = "vet"      -> IF config.vet THEN "confirmed" ELSE "excluded"
       [] row.name = "practice" -> "confirmed"
       [] OTHER ->
            IF Typed(MEDICAL_PLACE_TYPES) THEN "confirmed"
            ELSE IF /\ ~Typed(NON_MEDICAL_PLACE_TYPES)
                    /\ Typed(AMBIGUOUS_PLACE_TYPES) \/ (config.vet /\ "veterinary_care" \in row.types)
                 THEN "review" ELSE "excluded"

Bucket(kind) ==
  CASE kind \in {"none", "directory"} -> "no_website"
    [] kind = "social"  -> IF config.social THEN "no_website" ELSE "borderline"
    [] kind = "booking" -> IF config.booking THEN "no_website" ELSE "borderline"
    [] OTHER -> "has_website"

Inside(p) == \E a \in resolved : world[p].spot \in Region[a]

Verdict(p) ==
  IF acc[p] = Nil THEN "absent"
  ELSE IF ~config.closed /\ ~world[p].open THEN "closed"
  ELSE IF config.strict /\ ~acc[p].coords THEN "no_coords"
  ELSE IF config.strict /\ ~Inside(p) THEN "far"
  ELSE IF config.relevance /\ Tier(p) = "excluded" THEN "excluded"
  ELSE Bucket(Kind(acc[p].url))

Report ==
  /\ step = "report"
  /\ verdicts' = [p \in Places |-> Verdict(p)]
  /\ warned' = warned \cup {<<"report", v>> : v \in {"far", "no_coords", "excluded"} \cap {Verdict(p) : p \in Places}}
  /\ step' = "export"
  /\ UNCHANGED <<data, walk, acc, resolved, quota, leads, told>>

-----------------------------------------------------------------------------
(* The leads file: exclusions, then one row per phone number.              *)

\* Mutant of Digits: the international prefix stays.
DigitsRaw(phone) == phone

\* The national and the international form of a line compare equal.
Digits(phone) == [phone EXCEPT !.form = "national"]

SamePhone(p, q) ==
  /\ acc[p].phone # Nil /\ acc[q].phone # Nil
  /\ Digits(acc[p].phone) = Digits(acc[q].phone)

\* A confirmed listing before a doubtful one, then the one with more fields.
RicherThan(p, q) ==
  LET sure(x) == Tier(x) = "confirmed"
  IN IF sure(p) # sure(q) THEN sure(p) ELSE world[p].fields > world[q].fields

Source    == {p \in Places : verdicts[p] = "no_website" \/ (config.borderline /\ verdicts[p] = "borderline")}
Survivors == {p \in Source : ~world[p].barred}

\* dedupe_by_phone: equals are ranked by the order in which they were found.
Dedupe(S) ==
  {R \in SUBSET S :
     /\ \A p \in S : \E r \in R : r = p \/ (SamePhone(p, r) /\ ~RicherThan(p, r))
     /\ \A r, s \in R : r # s => ~SamePhone(r, s)}

Export ==
  /\ step = "export"
  /\ leads' \in Dedupe(Survivors)
  /\ step' = "done"
  /\ UNCHANGED <<data, walk, acc, resolved, warned, quota, verdicts, told>>

SweepNext == Resolve \/ Unresolved \/ Nearby \/ NearbyFails \/ TextPage \/ TextFails \/ QuotaRunsOut \/ Report \/ Export

SweepSpec == SweepInit /\ [][SweepNext]_sweepVars

-----------------------------------------------------------------------------
(* Properties.                                                             *)

\* Every variable keeps its type; at passes the last area when the sweep is over.
SweepTypeOK ==
  /\ world \in Worlds /\ config \in Configs
  /\ step \in {"resolve", "sweep", "report", "export", "done"}
  /\ at \in 1 .. Len(Areas) + 1 /\ (step \in {"resolve", "sweep"} => at <= Len(Areas))
  /\ calls \in Seq(Call) /\ query \in 1 .. Len(Queries) /\ pageNo \in 1 .. MaxPages
  /\ gathered \in [Places -> Listing \cup {Nil}] /\ acc \in [Places -> Listing \cup {Nil}]
  /\ resolved \subseteq AreaNames /\ quota \in BOOLEAN
  /\ verdicts \in [Places -> {"absent", "closed", "no_coords", "far", "excluded",
                            "no_website", "borderline", "has_website"}]
  /\ leads \subseteq Places /\ told \in [Places -> SUBSET Listing]

\* A practice of a swept type that stands inside a swept area is in the report, or
\* the report says why it may not be: the area was not resolved, the quota ran out,
\* or the calls for this type in this area failed or stayed full to the last depth.
\* A full page alone never hides a practice silently.
NoSilentMiss ==
  step \in {"export", "done"} =>
    \A a \in AreaNames, i \in DOMAIN IncludedTypes, p \in Places :
      world[p].named /\ world[p].spot \in Region[a] /\ IncludedTypes[i] \in world[p].types =>
        \/ verdicts[p] \notin {"absent", "far"}
        \/ quota
        \/ {<<a, "unresolved">>, <<a, IncludedTypes[i]>>} \cap warned # {}

\* A listing has a number, or a site, exactly when some answer that reached the
\* accumulator had one, in whatever order the passes met the place.
ContactKept ==
  \A p \in Places : acc[p] # Nil =>
    /\ acc[p].phone = Nil <=> \A l \in told[p] : l.phone = Nil
    /\ acc[p].url = "" <=> \A l \in told[p] : l.url = ""

\* The leads file calls no line twice, and every listing without a site that the
\* caller did not exclude is in it or shares its line with one that is.
EveryLineCalledOnce ==
  step = "done" =>
    /\ \A p, q \in leads : p # q /\ acc[p].phone # Nil /\ acc[q].phone # Nil
                             => acc[p].phone.line # acc[q].phone.line
    /\ \A p \in Places : verdicts[p] = "no_website" /\ ~world[p].barred =>
         \/ p \in leads
         \/ \E q \in leads : acc[q].phone # Nil /\ acc[p].phone # Nil
                            /\ acc[q].phone.line = acc[p].phone.line
=============================================================================
