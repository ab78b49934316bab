----------------------------- MODULE MCCutover -----------------------------
(* Cutover for TLC: three opportunities of two URLs in batches of two, a   *)
(* run, a dead letter and a domain of the old schema; two records and      *)
(* pages of one or two.                                                    *)
EXTENDS Cutover, TLC

CONSTANTS o1, o2, o3, r1, l1, d1, u1, u2

OrderDef == [t \in Moved |-> CASE t = "opportunities" -> <<o1, o2, o3>>
                               [] t = "runs"          -> <<r1>>
                               [] t = "dead_letters"  -> <<l1>>]
IdentDef == o1 :> u1 @@ o2 :> u1 @@ o3 :> u2 @@ r1 :> r1 @@ l1 :> l1
SourcesDef == {Moved \cup {"domain_profiles"}, {"domain_profiles"}}
DefectsDef == {{}, {o3}}
RequestsDef == {{}, {"opportunities", "domain_profiles"}, {"opportunitys"}}
ValuesDef == {[legacy |-> TRUE, preferred |-> "json_ld", extractor |-> None]}
=============================================================================
