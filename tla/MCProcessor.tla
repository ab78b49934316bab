---------------------------- MODULE MCProcessor ----------------------------
(* Processor for TLC: two pages in a circle, on three sites.  The pages    *)
(* are each other's next page and nothing else; or the second is an        *)
(* ordinary link of the first as well, which was tracked by an earlier     *)
(* crawl and has changed since; or the second, which is new and may have a *)
(* record or none, leads back by an ordinary link.                         *)
EXTENDS Processor, TLC

CONSTANTS pA, pB

TwoPages == {pA, pB}
Page(n, l, v) == [next |-> n, links |-> l, shows |-> v]
NextOnly == pA :> Page(pB, {}, {None}) @@ pB :> Page(pA, {}, {None})
Changed  == pA :> Page(pB, {pB}, {2}) @@ pB :> Page(pA, {}, {None})
LinkBack == pA :> Page(pB, {pB}, {None}) @@ pB :> Page(None, {pA}, {2, None})
Circles  == {NextOnly, Changed, LinkBack}
Recrawl == {pA :> 1 @@ pB :> None}
=============================================================================
