---------------------------- MODULE MCPlaceSweep ----------------------------
(* PlaceSweep for TLC: two areas that overlap in one spot.  Two practices   *)
(* share a line in its two forms, one of them found by type and by query;   *)
(* the third place has no display name and can fill a page unseen.          *)
EXTENDS PlaceSweep, TLC

CONSTANTS p1, p2, p3

ThreePlaces == {p1, p2, p3}
TwoAreas == <<"Peraia", "Epivates">>
Circles == "Peraia" :> {1, 2} @@ "Epivates" :> {2, 3}
\* Two cells that share no spot but cover the circle together.
Cells == [r \in SUBSET (1 .. 4) |-> <<r \cap {1, 3}, r \cap {2, 4}>>]
Doctor == <<"doctor">>
OneQuery == <<"iatros">>

Row(spot, types, finds, named, name, url, phone) ==
  [spot |-> spot, types |-> types, finds |-> finds, named |-> named, name |-> name, url |-> url,
   phone |-> phone, open |-> TRUE, fields |-> spot, barred |-> FALSE]
National(l) == [line |-> l, form |-> "national"]
Abroad(l)   == [line |-> l, form |-> "international"]
Town(spot, url, shut) ==
  p1 :> Row(spot, {"doctor"}, {"iatros"}, TRUE, "other", url, National("l1")) @@
  p2 :> [Row(2, {"medical_clinic"}, {"iatros"}, TRUE, "practice", "directory", Abroad("l1")) EXCEPT !.open = ~shut] @@
  p3 :> Row(2, {"doctor"}, {}, FALSE, "other", "", Nil)
Towns == {Town(1, "", FALSE), Town(2, "own", FALSE), Town(1, "social", TRUE)}
Flags(strict, social) ==
  [social |-> social, booking |-> FALSE, closed |-> FALSE, vet |-> FALSE,
   relevance |-> TRUE, strict |-> strict, borderline |-> FALSE]
FlagSets == {Flags(TRUE, TRUE), Flags(FALSE, FALSE)}
Gaps == {{}, {"phone"}, {"url", "coords"}}
=============================================================================
