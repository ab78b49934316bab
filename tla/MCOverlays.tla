----------------------------- MODULE MCOverlays -----------------------------
(* Overlays for TLC: a price list without markup, which is read by its      *)
(* shape, and an article with two JSON-LD items, on a site that is          *)
(* redesigned once; an element of the old layout is recognised on the new,  *)
(* whose class names are no CSS identifiers.  Of what the jobs give, three  *)
(* have a selector that is no CSS.                                          *)
EXTENDS Overlays, TLC

Bare == [host |-> "site", plain |-> {1}, layout |-> 1, containers |-> 3, places |-> 0, jsonld |-> <<>>,
         articles |-> <<>>, tables |-> <<>>, lists |-> <<>>, opengraph |-> FALSE,
         microdata |-> <<>>, rdfa |-> <<>>, shaped |-> 0]
PriceList == [Bare EXCEPT !.shaped = 3]
Offer(title) == Record("offer", title)
Article ==
  [Bare EXCEPT !.jsonld = <<[broken |-> TRUE, items |-> <<>>],
                            [broken |-> FALSE, items |-> <<<<>>, <<Offer("a")>>, <<Offer("b"), Offer("a")>>>>]>>,
               !.articles = <<[long |-> TRUE, title |-> "a"]>>]
Menu == [Bare EXCEPT !.containers = 0, !.lists = <<[items |-> 5, nav |-> TRUE, links |-> TRUE]>>,
                     !.microdata = <<[nested |-> FALSE, props |-> TRUE]>>]
Site == {PriceList, Article, Menu}

Given(kind, at) == [kind |-> kind, container |-> TRUE, selector |-> [f \in Fields |-> at]]
Jobs == {Given("none", 1), Given("mappings", 1), Given("mappings", Unparsable),
         Given("overlay", 2), Given("overlay", Unparsable),
         [Given("mappings", 2) EXCEPT !.container = FALSE]}
Alike == [p \in Layouts \X Layouts |-> IF p = <<2, 1>> THEN 44 ELSE 45]

CONSTANTS c1, c2
TwoCallers == {c1, c2}
CallersAlike == Permutations(TwoCallers)
=============================================================================
