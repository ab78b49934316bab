------------------------------- MODULE LlmModels -------------------------------
(***************************************************************************)
(* The table of models (ssot.py) and who may answer the request built from *)
(* it.  A model is its id; its prices, limits, prompts and what the        *)
(* request says about temperature, format and reasoning are left out.      *)
(***************************************************************************)
EXTENDS Naturals, Sequences

AIJob == {"overlay", "enrich", "heal", "generate", "search"}

MODEL_OVERLAY     == "glm-5.3-flash"
MODEL_ENRICH      == "deepseek-v4-flash"
MODEL_HEAL        == "ling-3.0-flash"
MODEL_GENERATE    == "deepseek-v4-flash"
MODEL_SEARCH      == "ling-3.0-flash"
FALLBACK_SOLAR    == "solar-pro4"
FALLBACK_DEEPSEEK == "deepseek-v4-flash"
FALLBACK_MINIMAX  == "minimax-m3"
FALLBACK_GLM      == "glm-5.3-flash"
FALLBACK_MIMO     == "mimo-v2.5"

\* The ids above and two that only operators name.
ModelIds == {"glm-5.3-flash", "deepseek-v4-flash", "ling-3.0-flash", "solar-pro4", "minimax-m3",
             "mimo-v2.5", "operator", "pinned"}
Unset == "unset"

JobProfile(model, fallbacks) == [model |-> model, fallbacks |-> fallbacks]

JOB_PROFILES ==
  [overlay  |-> JobProfile(MODEL_OVERLAY, <<FALLBACK_DEEPSEEK, FALLBACK_MINIMAX>>),
   enrich   |-> JobProfile(MODEL_ENRICH, <<FALLBACK_SOLAR, FALLBACK_GLM>>),
   heal     |-> JobProfile(MODEL_HEAL, <<FALLBACK_SOLAR, FALLBACK_MIMO>>),
   generate |-> JobProfile(MODEL_GENERATE, <<FALLBACK_SOLAR>>),
   search   |-> JobProfile(MODEL_SEARCH, <<FALLBACK_SOLAR>>)]

\* An operator's model for one job (AI_MODEL_<JOB>) drops the fallbacks, unless it is
\* the model the job has anyway.
ProfileFor(job, override) ==
  IF override \in {Unset, JOB_PROFILES[job].model} THEN JOB_PROFILES[job] ELSE JobProfile(override, <<>>)

\* generate with a time limit of its own keeps no fallbacks.
Timed(profile) == [profile EXCEPT !.fallbacks = <<>>]

InChain(profile) == {profile.model} \cup {profile.fallbacks[i] : i \in DOMAIN profile.fallbacks}

\* pin: one model the operator set for every job (_model_override).
ModelFor(profile, pin) == IF pin # Unset THEN pin ELSE profile.model

BuildPayload(profile, pin) ==
  [model |-> ModelFor(profile, pin),
   models |-> IF pin = Unset /\ profile.fallbacks # <<>> THEN InChain(profile) ELSE {}]

============================================================================
