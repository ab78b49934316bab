----------------------------- MODULE MCLlmProvider -----------------------------
\* Three processes that share Valkey: one with the models of the table, one with an
\* operator's model for overlays, one whose only model is the table's first for them;
\* beside them one with a local model and one whose key is missing.
EXTENDS LlmProvider, TLC

CONSTANTS a, b, d, l, n, c1, c2, g1, g2

SampleDef == (g1 :> "s1") @@ (g2 :> "s2")
Plain == [j \in AIJob |-> Unset]
With(name, configured, pin, override) ==
  [provider |-> name, configured |-> configured, pin |-> pin, override |-> override]
SettingsDef ==
  (l :> With("local", TRUE, Unset, Plain)) @@ (n :> With("openrouter", FALSE, Unset, Plain)) @@
  (a :> With("openrouter", TRUE, Unset, Plain)) @@
  (b :> With("gemini", TRUE, Unset, [Plain EXCEPT !["overlay"] = "operator", !["enrich"] = MODEL_ENRICH])) @@
  (d :> With("openrouter", TRUE, MODEL_OVERLAY, Plain))
AskedDef == {<<a, "overlay", g1>>, <<b, "overlay", g1>>, <<d, "overlay", g1>>, <<d, "overlay", g2>>,
             <<b, "enrich", g1>>, <<l, "overlay", g1>>, <<n, "overlay", g1>>}
Symmetric == Permutations({c1, c2})

\* bound: processes whose breaker remembers a failure at the same time (no process
\* reads another's breaker).
MaxFailing == 1
FewFail == Cardinality({p \in Processes : failure_count[p] > 0 \/ offline[p]}) <= MaxFailing
============================================================================
