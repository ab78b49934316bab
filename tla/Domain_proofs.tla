---------------------------- MODULE Domain_proofs ----------------------------
(***************************************************************************)
(* Proofs about what the system keeps of one domain.                       *)
(*                                                                         *)
(* Its profile: for every set of scrapers, every ceiling, latency and      *)
(* Retry-After, and every number of faults.  compute_next_delay never goes *)
(* below the delay it was given, so a process whose copy is still the row  *)
(* writes back nothing smaller, and it changes the tier to "http" only on  *)
(* evidence.                                                               *)
(*                                                                         *)
(* Its overlays: for every number of overlays, callers and redesigns, and  *)
(* every page.  A caller decides on a row and writes later; what it will   *)
(* activate was approved when it decided, and approvals are not undone.    *)
(* Two of them are ACTIVE together for one of three reasons, and a reason  *)
(* lasts as long as the pair.                                              *)
(*                                                                         *)
(* Its pages, for every page: a redesign changes what selectors hit and    *)
(* not what the markup stages read, a stage that finds nothing lets the    *)
(* next one try, and the deduplicator keeps the first record it is given.  *)
(***************************************************************************)
EXTENDS DomainProfile, Overlays, FiniteSetTheorems, TLAPS

(* compute_next_delay stays between the current delay and the ceiling.     *)
LEMMA NextDelayBounds ==
  ASSUME NEW current \in 0 .. MaxDelay, NEW target \in Nat, NEW ok \in BOOLEAN,
         NEW retryAfter \in Nat \cup {None}
  PROVE  /\ NextDelay(current, target, ok, retryAfter) \in 0 .. MaxDelay
         /\ NextDelay(current, target, ok, retryAfter) >= current
<1> DEFINE penalty == IF ok THEN 0 ELSE IF retryAfter = None THEN current * 2 ELSE retryAfter
           damped == Larger((current + target) \div 2, target)
<1>1. penalty \in Nat
  BY BoundsAssumption
<1>2. damped \in Nat
  BY BoundsAssumption DEF Larger
<1> HIDE DEF penalty, damped
<1>3. /\ Smaller(Larger(Larger(damped, penalty), current), MaxDelay) \in 0 .. MaxDelay
      /\ Smaller(Larger(Larger(damped, penalty), current), MaxDelay) >= current
  BY <1>1, <1>2, BoundsAssumption DEF Larger, Smaller
<1>4. NextDelay(current, target, ok, retryAfter)
        = Smaller(Larger(Larger(damped, penalty), current), MaxDelay)
  BY DEF NextDelay, damped, penalty
<1>5. QED
  BY <1>3, <1>4

(* A throttle observation leaves the row or writes a copy whose delay grew. *)
LEMMA ThrottleWrites ==
  ASSUME NEW w \in Workers, NEW ok \in BOOLEAN, copy[w] \in Profile, Throttle(w, ok)
  PROVE  /\ faults' \in {faults, faults + 1}
         /\ \/ row' = row
            \/ /\ row # None
               /\ row' \in Profile /\ row'.delay >= copy[w].delay /\ row'.tier = copy[w].tier
<1>1. PICK target \in Latencies, retryAfter \in RetryAfters \cup {None} :
        LET delay == NextDelay(copy[w].delay, target, ok, retryAfter)
        IN  IF delay = copy[w].delay
            THEN UNCHANGED <<row, faults>>
            ELSE TryUpdate([copy[w] EXCEPT !.delay = delay])
  BY DEF Throttle
<1> DEFINE delay == NextDelay(copy[w].delay, target, ok, retryAfter)
<1>2. copy[w].delay \in 0 .. MaxDelay
  BY DEF Profile
<1>3. delay \in 0 .. MaxDelay /\ delay >= copy[w].delay
  BY <1>2, NextDelayBounds, BoundsAssumption
<1> HIDE DEF delay
<1>4. /\ [copy[w] EXCEPT !.delay = delay] \in Profile
      /\ [copy[w] EXCEPT !.delay = delay].delay = delay
      /\ [copy[w] EXCEPT !.delay = delay].tier = copy[w].tier
  BY <1>3 DEF Profile
<1>5. IF delay = copy[w].delay
      THEN UNCHANGED <<row, faults>>
      ELSE TryUpdate([copy[w] EXCEPT !.delay = delay])
  BY <1>1 DEF delay
<1>6. QED
  BY <1>3, <1>4, <1>5 DEF TryUpdate, Update, Fault

LEMMA FreshType == Fresh \in Profile /\ None \notin Profile
BY BoundsAssumption DEF Fresh, Profile, Tiers

(* A job that starts its fetch holds the profile it was given.             *)
LEMMA StartFetchType ==
  ASSUME TypeOK, NEW w \in Workers, pc[w] = "idle", NEW profile \in Profile, StartFetch(w, profile)
  PROVE  /\ copy' \in [Processes -> Profile \cup {None}]
         /\ pc' \in [Processes -> {"idle", "turbo", "http", "served", "browser", "crawled", "read", "write"}]
         /\ \A p \in Processes : (copy'[p] = None) = (pc'[p] \in {"idle", "crawled", "read"})
<1> DEFINE label == IF w \in endpoints THEN "turbo" ELSE FetchTier(profile)
<1>1. label \in {"turbo", "http", "browser"}
  BY DEF FetchTier
<1> HIDE DEF label
<1>2. copy' = [copy EXCEPT ![w] = profile] /\ pc' = [pc EXCEPT ![w] = label]
  BY DEF StartFetch, Hold, Goto, label
<1>3. w \in Processes
  BY DEF Processes
<1>4. QED
  BY <1>1, <1>2, <1>3, FreshType DEF TypeOK

(* What a step of p leaves alone, once p holds c and awaits label.         *)
LEMMA MoveType ==
  ASSUME TypeOK, NEW p \in Processes, NEW c \in Profile \cup {None},
         NEW label \in {"idle", "turbo", "http", "served", "browser", "crawled", "read", "write"},
         (c = None) = (label \in {"idle", "crawled", "read"}),
         copy' = [copy EXCEPT ![p] = c], pc' = [pc EXCEPT ![p] = label]
  PROVE  /\ copy' \in [Processes -> Profile \cup {None}]
         /\ pc' \in [Processes -> {"idle", "turbo", "http", "served", "browser", "crawled", "read", "write"}]
         /\ \A q \in Processes : (copy'[q] = None) = (pc'[q] \in {"idle", "crawled", "read"})
BY DEF TypeOK

LEMMA ObserveType ==
  ASSUME TypeOK, NEW tier \in Tiers, TryObserve(tier)
  PROVE  seen' \in [Tiers -> 0 .. MinEvidence] /\ total' \in 0 .. MinTotal /\ faults' \in Nat
<1>1. Smaller(seen[tier] + 1, MinEvidence) \in 0 .. MinEvidence /\ Smaller(total + 1, MinTotal) \in 0 .. MinTotal
  BY BoundsAssumption DEF Smaller, TypeOK
<1>2. QED
  BY <1>1 DEF TryObserve, CreateObservation, Fault, TypeOK, evidence

-----------------------------------------------------------------------------
LEMMA TypeStep == TypeOK /\ [Next]_vars => TypeOK'
<1> SUFFICES ASSUME TypeOK, [Next]_vars PROVE TypeOK'
  OBVIOUS
<1> USE DEF memory, evidence
<1>0. Workers \subseteq Processes /\ Selector \in Processes /\ Existing \in Profile
  BY FreshType DEF Processes, Existing, TypeOK
<1>1. ASSUME NEW w \in Workers, Load(w) PROVE TypeOK'
  <2>1. StartFetch(w, Existing) /\ pc[w] = "idle"
    BY <1>1 DEF Load
  <2>2. QED
    BY <1>0, <1>1, <2>1, StartFetchType DEF Load, StartFetch, TypeOK
<1>2. ASSUME NEW w \in Workers, LoadFails(w) PROVE TypeOK'
  <2>1. StartFetch(w, Fresh) /\ pc[w] = "idle"
    BY <1>2 DEF LoadFails
  <2>2. QED
    BY <1>2, <2>1, FreshType, StartFetchType DEF LoadFails, Fault, StartFetch, TypeOK
<1>3. ASSUME NEW w \in Workers, Disallowed(w) PROVE TypeOK'
  BY <1>0, <1>3 DEF Disallowed, TypeOK
<1>4. ASSUME NEW w \in Workers, NEW ok \in BOOLEAN, Throttle(w, ok), copy[w] \in Profile
      PROVE row' \in Profile \cup {None} /\ faults' \in Nat
  BY <1>4, ThrottleWrites DEF TypeOK
<1>5. ASSUME NEW w \in Workers, TurboHit(w) PROVE TypeOK'
  <2>1. copy[w] \in Profile
    BY <1>0, <1>5 DEF TurboHit, TypeOK
  <2>2. row' \in Profile \cup {None} /\ faults' \in Nat
    BY <1>4, <1>5, <2>1 DEF TurboHit
  <2>3. QED
    BY <1>0, <1>5, <2>2, MoveType DEF TurboHit, Done, Hold, Goto, TypeOK
<1>6. ASSUME NEW w \in Workers, TurboMiss(w) PROVE TypeOK'
  <2>1. FetchTier(copy[w]) \in {"http", "browser"}
    BY DEF FetchTier
  <2>2. /\ pc' \in [Processes -> {"idle", "turbo", "http", "served", "browser", "crawled", "read", "write"}]
        /\ \A q \in Processes : (copy'[q] = None) = (pc'[q] \in {"idle", "crawled", "read"})
    BY <1>0, <1>6, <2>1 DEF TurboMiss, Goto, TypeOK
  <2>3. QED
    BY <1>6, <2>2 DEF TurboMiss, TypeOK
<1>7. ASSUME NEW w \in Workers, HttpHit(w) PROVE TypeOK'
  <2>1. seen' \in [Tiers -> 0 .. MinEvidence] /\ total' \in 0 .. MinTotal /\ faults' \in Nat
    BY <1>7, ObserveType DEF HttpHit, Tiers
  <2>2. /\ pc' \in [Processes -> {"idle", "turbo", "http", "served", "browser", "crawled", "read", "write"}]
        /\ \A q \in Processes : (copy'[q] = None) = (pc'[q] \in {"idle", "crawled", "read"})
    BY <1>0, <1>7 DEF HttpHit, Goto, TypeOK
  <2>3. QED
    BY <1>7, <2>1, <2>2 DEF HttpHit, TypeOK
<1>8. ASSUME NEW w \in Workers, HttpServed(w) PROVE TypeOK'
  <2>1. copy[w] \in Profile
    BY <1>0, <1>8 DEF HttpServed, TypeOK
  <2>2. row' \in Profile \cup {None} /\ faults' \in Nat
    BY <1>4, <1>8, <2>1 DEF HttpServed
  <2>3. QED
    BY <1>0, <1>8, <2>2, MoveType DEF HttpServed, Done, Hold, Goto, TypeOK
<1>9. ASSUME NEW w \in Workers, HttpMiss(w) PROVE TypeOK'
  <2>1. copy[w] \in Profile
    BY <1>0, <1>9 DEF HttpMiss, TypeOK
  <2>2. [copy[w] EXCEPT !.tier = "browser"] \in Profile
    BY <2>1 DEF Profile, Tiers
  <2>3. row' \in Profile \cup {None} /\ faults' \in Nat
    BY <1>9, <2>2 DEF HttpMiss, TryUpdate, Update, Fault, TypeOK
  <2>4. /\ pc' \in [Processes -> {"idle", "turbo", "http", "served", "browser", "crawled", "read", "write"}]
        /\ \A q \in Processes : (copy'[q] = None) = (pc'[q] \in {"idle", "crawled", "read"})
    BY <1>0, <1>9 DEF HttpMiss, Goto, TypeOK
  <2>5. QED
    BY <1>9, <2>3, <2>4 DEF HttpMiss, TypeOK
<1>10. ASSUME NEW w \in Workers, Crawl(w) PROVE TypeOK'
  <2>1. copy[w] \in Profile
    BY <1>0, <1>10 DEF Crawl, TypeOK
  <2>2. row' \in Profile \cup {None} /\ faults' \in Nat
    BY <1>4, <1>10, <2>1 DEF Crawl
  <2>3. endpoints' \subseteq Workers /\ misses' \in [Workers -> Nat]
    BY <1>10 DEF Crawl, TypeOK
  <2>4. QED
    BY <1>0, <1>10, <2>2, <2>3, MoveType DEF Crawl, Hold, Goto, TypeOK
<1>11. ASSUME NEW w \in Workers, CrawlBlocked(w) PROVE TypeOK'
  <2>1. copy[w] \in Profile
    BY <1>0, <1>11 DEF CrawlBlocked, TypeOK
  <2>2. row' \in Profile \cup {None} /\ faults' \in Nat
    BY <1>4, <1>11, <2>1 DEF CrawlBlocked
  <2>3. QED
    BY <1>0, <1>11, <2>2, MoveType DEF CrawlBlocked, Done, Hold, Goto, TypeOK
<1>12. ASSUME NEW w \in Workers, CrawlRaises(w) PROVE TypeOK'
  <2>1. /\ copy' \in [Processes -> Profile \cup {None}]
        /\ pc' \in [Processes -> {"idle", "turbo", "http", "served", "browser", "crawled", "read", "write"}]
        /\ \A q \in Processes : (copy'[q] = None) = (pc'[q] \in {"idle", "crawled", "read"})
    BY <1>0, <1>12, MoveType DEF CrawlRaises, Done, Hold, Goto
  <2>2. QED
    BY <1>12, <2>1 DEF CrawlRaises, TypeOK
<1>13. ASSUME NEW w \in Workers, ObserveBrowser(w) PROVE TypeOK'
  <2>1. seen' \in [Tiers -> 0 .. MinEvidence] /\ total' \in 0 .. MinTotal /\ faults' \in Nat
    BY <1>13, ObserveType DEF ObserveBrowser, Tiers
  <2>2. /\ pc' \in [Processes -> {"idle", "turbo", "http", "served", "browser", "crawled", "read", "write"}]
        /\ \A q \in Processes : (copy'[q] = None) = (pc'[q] \in {"idle", "crawled", "read"})
    BY <1>0, <1>13 DEF ObserveBrowser, Goto, TypeOK
  <2>3. QED
    BY <1>13, <2>1, <2>2 DEF ObserveBrowser, TypeOK
<1>14. ASSUME NEW w \in Workers, Kill(w) PROVE TypeOK'
  <2>1. /\ copy' \in [Processes -> Profile \cup {None}]
        /\ pc' \in [Processes -> {"idle", "turbo", "http", "served", "browser", "crawled", "read", "write"}]
        /\ \A q \in Processes : (copy'[q] = None) = (pc'[q] \in {"idle", "crawled", "read"})
    BY <1>0, <1>14, MoveType DEF Kill, Done, Hold, Goto
  <2>2. QED
    BY <1>14, <2>1 DEF Kill, Fault, TypeOK
<1>15. CASE Score
  <2>1. best' \in Tiers \cup {None}
    BY <1>15 DEF Score, BestTier, Tiers
  <2>2. /\ pc' \in [Processes -> {"idle", "turbo", "http", "served", "browser", "crawled", "read", "write"}]
        /\ \A q \in Processes : (copy'[q] = None) = (pc'[q] \in {"idle", "crawled", "read"})
    BY <1>0, <1>15 DEF Score, Goto, TypeOK
  <2>3. QED
    BY <1>15, <2>1, <2>2 DEF Score, TypeOK
<1>16. CASE ReadProfile
  <2>1. Existing \in Profile
    BY <1>0
  <2>0. Existing # None
    BY <2>1, FreshType
  <2>2. /\ copy' \in [Processes -> Profile \cup {None}]
        /\ pc' \in [Processes -> {"idle", "turbo", "http", "served", "browser", "crawled", "read", "write"}]
        /\ \A q \in Processes : (copy'[q] = None) = (pc'[q] \in {"idle", "crawled", "read"})
    <3>1. copy' = [copy EXCEPT ![Selector] = Existing] /\ pc' = [pc EXCEPT ![Selector] = "write"]
      BY <1>16 DEF ReadProfile, Hold, Goto
    <3>2. (Existing = None) = ("write" \in {"idle", "crawled", "read"})
      BY <2>0
    <3>3. QED
      BY <1>0, <2>1, <3>1, <3>2, MoveType
  <2>3. row' \in Profile \cup {None}
    BY <1>16, <2>1 DEF ReadProfile
  <2>4. /\ site' = site /\ seen' = seen /\ total' = total /\ best' = best /\ faults' = faults
        /\ endpoints' = endpoints /\ misses' = misses
    BY <1>16 DEF ReadProfile
  <2>5. QED
    BY <2>2, <2>3, <2>4 DEF TypeOK
<1>17. CASE WriteProfile
  <2>1. copy[Selector] \in Profile
    BY <1>0, <1>17 DEF WriteProfile, TypeOK
  <2>2. [copy[Selector] EXCEPT !.tier = IF best = None THEN @ ELSE best] \in Profile
    BY <2>1 DEF Profile, Tiers, TypeOK
  <2>3. row' \in Profile \cup {None}
    BY <1>17, <2>2 DEF WriteProfile, Update
  <2>4. QED
    BY <1>0, <1>17, <2>3, MoveType DEF WriteProfile, EndPass, Done, Hold, Goto, TypeOK
<1>18. CASE PassFails
  <2>1. /\ copy' \in [Processes -> Profile \cup {None}]
        /\ pc' \in [Processes -> {"idle", "turbo", "http", "served", "browser", "crawled", "read", "write"}]
        /\ \A q \in Processes : (copy'[q] = None) = (pc'[q] \in {"idle", "crawled", "read"})
    BY <1>0, <1>18, MoveType DEF PassFails, EndPass, Done, Hold, Goto
  <2>2. QED
    BY <1>18, <2>1 DEF PassFails, EndPass, Fault, TypeOK
<1>19. CASE WindowPasses
  BY <1>19, BoundsAssumption DEF WindowPasses, Fault, TypeOK, Tiers
<1>20. CASE UNCHANGED vars
  BY <1>20 DEF vars, TypeOK
<1>21. QED
  BY <1>1, <1>2, <1>3, <1>5, <1>6, <1>7, <1>8, <1>9, <1>10, <1>11, <1>12, <1>13, <1>14,
     <1>15, <1>16, <1>17, <1>18, <1>19, <1>20 DEF Next, Job, Turbo, Http, Browser, SelectorPass

(* Every variable keeps its type; the delay never exceeds the ceiling.     *)
THEOREM TypeCorrect == Spec => []TypeOK
<1>1. Init => TypeOK
  BY BoundsAssumption DEF Init, TypeOK, Tiers
<1>2. QED
  BY <1>1, TypeStep, PTL DEF Spec

-----------------------------------------------------------------------------
\* Only a replica that still has endpoints replays them.
TurboKnown == \A w \in Workers : pc[w] = "turbo" => w \in endpoints

MissesInv == TurboKnown /\ MissesOfKnownEndpoints

LEMMA MissesStep == TypeOK /\ MissesInv /\ [Next]_vars => MissesInv'
<1> SUFFICES ASSUME TypeOK, MissesInv, [Next]_vars PROVE MissesInv'
  OBVIOUS
<1> USE DEF memory, evidence
<1>0. Workers \subseteq Processes /\ Selector \in Processes /\ Selector \notin Workers
  BY ProcessesAssumption DEF Processes
<1>1. ASSUME NEW p \in Processes, NEW label,
             UNCHANGED memory, pc' = [pc EXCEPT ![p] = label],
             label = "turbo" => p \in endpoints
      PROVE MissesInv'
  BY <1>0, <1>1 DEF MissesInv, TurboKnown, MissesOfKnownEndpoints, TypeOK
<1>2. ASSUME UNCHANGED memory, UNCHANGED pc PROVE MissesInv'
  BY <1>2 DEF MissesInv, TurboKnown, MissesOfKnownEndpoints
<1>3. ASSUME NEW w \in Workers, NEW label, misses' = [misses EXCEPT ![w] = 0],
             endpoints' \in {endpoints, endpoints \cup {w}, endpoints \ {w}},
             pc' = [pc EXCEPT ![w] = label], label # "turbo"
      PROVE MissesInv'
  BY <1>0, <1>3 DEF MissesInv, TurboKnown, MissesOfKnownEndpoints, TypeOK
<1>4. ASSUME NEW w \in Workers, Load(w) \/ LoadFails(w) PROVE MissesInv'
  <2> DEFINE label(profile) == IF w \in endpoints THEN "turbo" ELSE FetchTier(profile)
  <2>1. \E profile : pc' = [pc EXCEPT ![w] = label(profile)] /\ UNCHANGED memory
    BY <1>4 DEF Load, LoadFails, StartFetch, Goto
  <2>2. \A profile : label(profile) = "turbo" => w \in endpoints
    BY DEF FetchTier
  <2> HIDE DEF label
  <2>3. QED
    BY <1>0, <1>1, <2>1, <2>2
<1>5. ASSUME NEW w \in Workers, TurboHit(w) PROVE MissesInv'
  BY <1>3, <1>5 DEF TurboHit, Done, Goto
<1>6. ASSUME NEW w \in Workers, TurboMiss(w) PROVE MissesInv'
  <2> DEFINE label == FetchTier(copy[w])
  <2>1. label # "turbo"
    BY DEF FetchTier
  <2>2. pc' = [pc EXCEPT ![w] = label]
    BY <1>6 DEF TurboMiss, Goto
  <2> HIDE DEF label
  <2>3. w \in endpoints /\ TurboKnown'
    BY <1>0, <1>6, <2>1, <2>2 DEF TurboMiss, MissesInv, TurboKnown, TypeOK
  <2>4. MissesOfKnownEndpoints'
    <3>1. CASE misses[w] + 1 >= MissThreshold
      BY <1>6, <3>1 DEF TurboMiss, MissesInv, MissesOfKnownEndpoints, TypeOK
    <3>2. CASE ~(misses[w] + 1 >= MissThreshold)
      BY <1>6, <2>3, <3>2, BoundsAssumption DEF TurboMiss, MissesInv, MissesOfKnownEndpoints, TypeOK
    <3>3. QED
      BY <3>1, <3>2
  <2>5. QED
    BY <2>3, <2>4 DEF MissesInv
<1>7. ASSUME NEW w \in Workers, Crawl(w) PROVE MissesInv'
  BY <1>0, <1>1, <1>3, <1>7 DEF Crawl, Goto
<1>8. ASSUME NEW w \in Workers, Kill(w) PROVE MissesInv'
  BY <1>3, <1>8 DEF Kill, Done, Goto
<1>9. ASSUME NEW w \in Workers,
             HttpHit(w) \/ HttpServed(w) \/ HttpMiss(w) \/ CrawlBlocked(w) \/ CrawlRaises(w) \/ ObserveBrowser(w)
      PROVE MissesInv'
  BY <1>0, <1>1, <1>9 DEF HttpHit, HttpServed, HttpMiss, CrawlBlocked, CrawlRaises, ObserveBrowser, Done, Goto
<1>10. CASE SelectorPass \/ PassFails
  BY <1>0, <1>1, <1>10 DEF SelectorPass, Score, ReadProfile, WriteProfile, PassFails, EndPass, Done, Goto
<1>11. CASE WindowPasses \/ (\E w \in Workers : Disallowed(w)) \/ UNCHANGED vars
  BY <1>2, <1>11 DEF WindowPasses, Disallowed, vars
<1>12. QED
  BY <1>4, <1>5, <1>6, <1>7, <1>8, <1>9, <1>10, <1>11 DEF Next, Job, Turbo, Http, Browser

(* Turbo mode never counts misses of endpoints it has given up.            *)
THEOREM MissesKnown == Spec => []MissesOfKnownEndpoints
<1>1. Init => MissesInv
  BY DEF Init, MissesInv, TurboKnown, MissesOfKnownEndpoints, Processes
<1>2. MissesInv => MissesOfKnownEndpoints
  BY DEF MissesInv
<1>3. QED
  BY <1>1, <1>2, TypeCorrect, MissesStep, PTL DEF Spec

-----------------------------------------------------------------------------
\* The claim of LearningLostOnlyByStaleCopy about one step.
Kept ==
  row # None =>
    /\ row'.delay < row.delay => \E p \in Processes : WritesStaleCopy(p)
    /\ row.tier = "browser" /\ row'.tier = "http" =>
         (\E p \in Processes : WritesStaleCopy(p)) \/ (pc[Selector] = "write" /\ best = "http")

LEMMA KeptStep == TypeOK /\ [Next]_vars => Kept
<1> SUFFICES ASSUME TypeOK, [Next]_vars, row # None PROVE Kept
  BY DEF Kept
<1>0. Workers \subseteq Processes /\ Selector \in Processes /\ row \in Profile /\ Existing = row
  BY DEF Processes, Existing, TypeOK
<1>1. ASSUME row' = row PROVE Kept
  BY <1>0, <1>1 DEF Kept, Profile
<1>2. ASSUME NEW p \in Processes, WritesStaleCopy(p) PROVE Kept
  BY <1>2 DEF Kept
\* A process that steps and whose copy is the row.
<1>3. ASSUME NEW w \in Workers, NEW ok \in BOOLEAN, Throttle(w, ok), copy[w] \in Profile, pc'[w] # pc[w]
      PROVE Kept
  <2>1. CASE copy[w] = row
    <3>1. row' = row \/ (row'.delay >= row.delay /\ row'.tier = row.tier /\ row' \in Profile)
      BY <1>3, <2>1, ThrottleWrites
    <3>2. QED
      BY <1>0, <1>1, <3>1 DEF Kept, Profile
  <2>2. CASE copy[w] # row
    BY <1>0, <1>2, <1>3, <2>2 DEF WritesStaleCopy
  <2>3. QED
    BY <2>1, <2>2
<1>4. ASSUME NEW w \in Workers, TurboHit(w) \/ HttpServed(w) \/ Crawl(w) \/ CrawlBlocked(w) PROVE Kept
  <2>1. copy[w] \in Profile
    BY <1>0, <1>4 DEF TurboHit, HttpServed, Crawl, CrawlBlocked, TypeOK
  <2>2. pc'[w] # pc[w]
    BY <1>0, <1>4 DEF TurboHit, HttpServed, Crawl, CrawlBlocked, Done, Goto, TypeOK
  <2>3. \E ok \in BOOLEAN : Throttle(w, ok)
    BY <1>4 DEF TurboHit, HttpServed, Crawl, CrawlBlocked
  <2>4. QED
    BY <1>3, <2>1, <2>2, <2>3
<1>5. ASSUME NEW w \in Workers, HttpMiss(w) PROVE Kept
  <2>1. copy[w] \in Profile /\ pc'[w] # pc[w]
    BY <1>0, <1>5 DEF HttpMiss, Goto, TypeOK
  <2>2. row' = row \/ row' = [copy[w] EXCEPT !.tier = "browser"]
    BY <1>5 DEF HttpMiss, TryUpdate, Update
  <2>3. CASE copy[w] = row
    <3>1. row'.delay = row.delay /\ (row' = row \/ row'.tier = "browser")
      BY <1>0, <2>2, <2>3 DEF Profile
    <3>2. QED
      BY <1>0, <1>1, <3>1 DEF Kept, Profile
  <2>4. CASE copy[w] # row
    BY <1>0, <1>2, <2>1, <2>4 DEF WritesStaleCopy
  <2>5. QED
    BY <2>3, <2>4
<1>6. CASE WriteProfile
  <2>1. /\ copy[Selector] \in Profile /\ pc'[Selector] # pc[Selector] /\ pc[Selector] = "write"
        /\ row' = [copy[Selector] EXCEPT !.tier = IF best = None THEN @ ELSE best]
    BY <1>0, <1>6 DEF WriteProfile, Update, EndPass, Done, Goto, TypeOK
  <2>2. CASE copy[Selector] = row
    <3>1. row'.delay = row.delay /\ row'.tier = IF best = None THEN row.tier ELSE best
      BY <1>0, <2>1, <2>2 DEF Profile
    <3>2. QED
      BY <1>0, <2>1, <3>1 DEF Kept, Profile
  <2>3. CASE copy[Selector] # row
    BY <1>0, <1>2, <2>1, <2>3 DEF WritesStaleCopy
  <2>4. QED
    BY <2>2, <2>3
<1>7. ASSUME NEW w \in Workers,
             \/ Load(w) \/ LoadFails(w) \/ Disallowed(w) \/ TurboMiss(w) \/ HttpHit(w)
             \/ CrawlRaises(w) \/ ObserveBrowser(w) \/ Kill(w)
      PROVE row' = row
  BY <1>0, <1>7 DEF Load, LoadFails, Disallowed, TurboMiss, HttpHit, CrawlRaises, ObserveBrowser, Kill
<1>8. CASE Score \/ ReadProfile \/ PassFails \/ WindowPasses \/ UNCHANGED vars
  BY <1>0, <1>1, <1>8 DEF Score, ReadProfile, PassFails, WindowPasses, vars
<1>9. QED
  BY <1>1, <1>4, <1>5, <1>6, <1>7, <1>8 DEF Next, Job, Turbo, Http, Browser, SelectorPass

(* For any number of scrapers, what was learned about a domain is lost     *)
(* only by a stale copy, or by evidence for plain HTTP.                    *)
THEOREM LearningKept == Spec => LearningLostOnlyByStaleCopy
<1>1. TypeOK /\ [Next]_vars =>
        [row # None =>
           /\ row'.delay < row.delay => \E p \in Processes : WritesStaleCopy(p)
           /\ row.tier = "browser" /\ row'.tier = "http" =>
                (\E p \in Processes : WritesStaleCopy(p)) \/ (pc[Selector] = "write" /\ best = "http")
        ]_vars
  BY KeptStep DEF Kept
<1>2. QED
  BY <1>1, TypeCorrect, PTL DEF Spec, LearningLostOnlyByStaleCopy

-----------------------------------------------------------------------------
(* Overlays: every number of overlays, callers and redesigns, every page,  *)
(* every way the callers' writes interleave and break off.                 *)

(* A nonempty set of naturals has a least element.                         *)
LEMMA LeastNatural ==
  ASSUME NEW S, S # {}, S \subseteq Nat
  PROVE  \E x \in S : \A y \in S : x <= y
<1>1. PICK x \in S : \A y \in S : ~ (<<y, x>> \in OpToRel(<, Nat))
  BY NatLessThanWellFounded, WFMin
<1>2. \A y \in S : ~ (y < x)
  BY <1>1 DEF OpToRel
<1>3. QED
  BY <1>2

(* Overlays are created one after the other.                               *)
InOrder == \A i \in Known, j \in Ids : j < i => j \in Known

(* A row the processor is about to insert is a candidate, and the overlay  *)
(* it was relocated from had been approved.                                *)
Drafted ==
  visit # Nil => /\ visit.state = "CANDIDATE"
                 /\ visit.rollback # Nil => visit.rollback \in Known \cap approved

(* So had the rollback target of every row.                                *)
TargetsApproved == \A i \in Known : store[i].rollback # Nil => store[i].rollback \in approved

(* A caller retires an overlay that exists, and activates an approved one. *)
CallsDecided ==
  \A c \in Callers :
    /\ calls[c].pc = "swap" => calls[c].rollback \in Known
    /\ calls[c].pc \in {"ACTIVE", "promote", "retire", "swap", "activate"} => calls[c].id \in approved

OverlaysInv ==
  /\ OverlaysTypeOK /\ InOrder /\ Drafted /\ TargetsApproved /\ CallsDecided /\ ActiveWasApproved

CallSteps == States \cup {"idle", "promote", "retire", "swap", "activate"}

(* Setting a state changes that one column.                                *)
LEMMA StateSet ==
  ASSUME OverlaysTypeOK, NEW id \in Known, NEW s \in States, SetState(id, s)
  PROVE  /\ store' \in [Ids -> Overlay \cup {Nil}]
         /\ Known' = Known
         /\ \A i \in Known : store'[i].rollback = store[i].rollback
         /\ Active' = IF s = "ACTIVE" THEN Active \cup {id} ELSE Active \ {id}
<1>1. /\ store \in [Ids -> Overlay \cup {Nil}] /\ store[id] \in Overlay
      /\ store' = [store EXCEPT ![id].state = s] /\ id \in Ids
  BY DEF OverlaysTypeOK, SetState, Known
<1>2. [store[id] EXCEPT !.state = s] \in Overlay
  BY <1>1 DEF Overlay
<1>3. /\ store' = [store EXCEPT ![id] = [store[id] EXCEPT !.state = s]]
      /\ store'[id] = [store[id] EXCEPT !.state = s]
  BY <1>1
<1>4. store' \in [Ids -> Overlay \cup {Nil}]
  BY <1>1, <1>2, <1>3
<1>5. store'[id].state = s /\ store'[id].rollback = store[id].rollback /\ store'[id] # Nil
  BY <1>1, <1>2, <1>3, OverlayAssumption DEF Overlay
<1>6. \A i \in Ids \ {id} : store'[i] = store[i]
  BY <1>1
<1>7. Known' = Known
  BY <1>5, <1>6 DEF Known
<1>8. Active' = IF s = "ACTIVE" THEN Active \cup {id} ELSE Active \ {id}
  BY <1>5, <1>6, <1>7 DEF Active, Known
<1>9. QED
  BY <1>4, <1>5, <1>6, <1>7, <1>8 DEF Known

(* A candidate is created under the next number and serves nothing.        *)
LEMMA Created ==
  ASSUME OverlaysTypeOK, InOrder, NEW new \in Overlay, new.state = "CANDIDATE", Known # Ids, Create(new)
  PROVE  \E id \in Ids \ Known :
           /\ store' = [store EXCEPT ![id] = new]
           /\ store' \in [Ids -> Overlay \cup {Nil}]
           /\ Known' = Known \cup {id} /\ Active' = Active
           /\ \A j \in Ids : j < id => j \in Known
           /\ \A i \in Known : i < id /\ store'[i] = store[i]
<1> DEFINE P(i) == i \in Ids /\ i \notin Known /\ \A j \in Ids \ Known : i <= j
           id == CHOOSE i \in Ids : i \notin Known /\ \A j \in Ids \ Known : i <= j
<1>1. \E i \in Ids : i \notin Known /\ \A j \in Ids \ Known : i <= j
  <2>1. Ids \ Known # {} /\ Ids \ Known \subseteq Nat
    BY OverlayAssumption DEF Ids, Known
  <2>2. QED
    BY <2>1, LeastNatural
<1>2. P(id)
  BY <1>1
<1>3. store' = [store EXCEPT ![id] = new]
  BY DEF Create
<1> HIDE DEF id
<1>4. /\ store \in [Ids -> Overlay \cup {Nil}] /\ store' \in [Ids -> Overlay \cup {Nil}]
      /\ store'[id] = new /\ store[id] = Nil /\ new # Nil
      /\ \A i \in Ids \ {id} : store'[i] = store[i]
  BY <1>2, <1>3, OverlayAssumption DEF OverlaysTypeOK, Known
<1>5. Known' = Known \cup {id}
  BY <1>2, <1>4 DEF Known
<1>6. Active' = Active
  BY <1>2, <1>4, <1>5 DEF Active, Known
<1>7. ASSUME NEW j \in Ids, j < id PROVE j \in Known
  BY <1>2, <1>7, OverlayAssumption DEF Ids
<1>8. ASSUME NEW i \in Known PROVE i < id /\ store'[i] = store[i]
  BY <1>2, <1>4, OverlayAssumption DEF Ids, Known, InOrder
<1>9. QED
  BY <1>2, <1>3, <1>4, <1>5, <1>6, <1>7, <1>8

(* One caller moves, the others wait.                                      *)
LEMMA CallMoves ==
  ASSUME OverlaysTypeOK, NEW c \in Callers, NEW step \in CallSteps,
         NEW id \in Ids \cup {Nil}, NEW other \in Ids \cup {Nil},
         calls' = [calls EXCEPT ![c] = [pc |-> step, id |-> id, rollback |-> other]]
  PROVE  /\ calls' \in [Callers -> [pc : CallSteps, id : Ids \cup {Nil}, rollback : Ids \cup {Nil}]]
         /\ calls'[c] = [pc |-> step, id |-> id, rollback |-> other]
         /\ \A d \in Callers \ {c} : calls'[d] = calls[d]
  BY DEF OverlaysTypeOK, CallSteps

LEMMA CallReturns ==
  ASSUME OverlaysTypeOK, NEW c \in Callers, Returns(c)
  PROVE  /\ calls' \in [Callers -> [pc : CallSteps, id : Ids \cup {Nil}, rollback : Ids \cup {Nil}]]
         /\ calls'[c].pc = "idle"
         /\ \A d \in Callers \ {c} : calls'[d] = calls[d]
  BY DEF OverlaysTypeOK, CallSteps, Returns, NoCall

(* What is remembered of the pairs is of the rows.                         *)
LEMMA PairsType ==
  ASSUME OverlaysTypeOK, NEW id \in Known, NEW other
  PROVE  /\ left \subseteq LeftPairs /\ Strangers(id, other) \subseteq LeftPairs
         /\ \A S : S \subseteq LeftPairs => Still(S) \subseteq LeftPairs
         /\ other \in Active => [pair |-> {id, other}, why |-> "cut short"] \in LeftPairs
<1>1. Active \subseteq Ids /\ id \in Ids
  BY DEF Active, Known
<1>2. \A j \in Active : [pair |-> {id, j}, why |-> "stranger"] \in LeftPairs
                        /\ [pair |-> {id, j}, why |-> "cut short"] \in LeftPairs
  BY <1>1 DEF LeftPairs
<1>3. Strangers(id, other) \subseteq LeftPairs
  BY <1>2 DEF Strangers
<1> QED
  BY <1>2, <1>3 DEF Still, OverlaysTypeOK

(* What one call writes into the store leaves the invariant, if the calls  *)
(* and the approvals do.                                                   *)
StoreKept ==
  /\ store' \in [Ids -> Overlay \cup {Nil}]
  /\ Known' = Known
  /\ \A i \in Known : store'[i].rollback = store[i].rollback
CallsKept ==
  /\ calls' \in [Callers -> [pc : CallSteps, id : Ids \cup {Nil}, rollback : Ids \cup {Nil}]]
  /\ \A c \in Callers : calls'[c].pc # "idle" => calls'[c].id \in Known
  /\ \A c \in Callers :
       /\ calls'[c].pc = "swap" => calls'[c].rollback \in Known
       /\ calls'[c].pc \in {"ACTIVE", "promote", "retire", "swap", "activate"} => calls'[c].id \in approved'

LEMMA CallerStep ==
  ASSUME OverlaysInv, StoreKept, CallsKept, visit' = visit, layout' = layout, shifts' = shifts,
         approved' \subseteq Known, approved \subseteq approved', left' \subseteq LeftPairs,
         Active' \subseteq approved'
  PROVE  OverlaysInv'
<1>1. /\ store' \in [Ids -> Overlay \cup {Nil}] /\ visit' \in Overlay \cup {Nil}
      /\ layout' \in Layouts /\ shifts' \in 0 .. MaxShifts
      /\ approved' \subseteq Known' /\ left' \subseteq LeftPairs
  BY DEF OverlaysInv, OverlaysTypeOK, StoreKept
<1>2. /\ \A i \in Known' : store'[i].rollback # Nil => store'[i].rollback \in Known' /\ store'[i].rollback < i
      /\ TargetsApproved'
  BY DEF OverlaysInv, OverlaysTypeOK, TargetsApproved, StoreKept
<1>3. OverlaysTypeOK'
  BY <1>1, <1>2 DEF OverlaysTypeOK, StoreKept, CallsKept, CallSteps
<1>4. InOrder' /\ Drafted' /\ CallsDecided'
  BY DEF OverlaysInv, InOrder, Drafted, CallsDecided, StoreKept, CallsKept
<1>5. QED
  BY <1>2, <1>3, <1>4 DEF OverlaysInv, ActiveWasApproved

(* Callers that decide: only their own step changes, and what they are     *)
(* about to activate is approved.                                          *)
LEMMA DecideStep ==
  ASSUME OverlaysInv, NEW c \in Callers, NEW step \in CallSteps, NEW id \in Known,
         NEW other \in Ids \cup {Nil}, Step(c, step, id, other),
         step = "swap" => other \in Known,
         step \in {"ACTIVE", "promote", "retire", "swap", "activate"} => id \in approved',
         approved' = approved \/ approved' = approved \cup {id},
         UNCHANGED <<store, visit, layout, shifts, left>>
  PROVE  OverlaysInv'
<1>1. OverlaysTypeOK /\ id \in Ids /\ approved \subseteq Known /\ left \subseteq LeftPairs
  BY DEF OverlaysInv, OverlaysTypeOK, Known
<1>2. /\ calls' \in [Callers -> [pc : CallSteps, id : Ids \cup {Nil}, rollback : Ids \cup {Nil}]]
      /\ calls'[c] = [pc |-> step, id |-> id, rollback |-> other]
      /\ \A d \in Callers \ {c} : calls'[d] = calls[d]
  BY <1>1, CallMoves DEF Step
<1>3. Known' = Known /\ Active' = Active /\ StoreKept
  BY <1>1 DEF Known, Active, StoreKept, OverlaysTypeOK
<1>4. approved \subseteq approved' /\ approved' \subseteq Known
  BY <1>1
<1>5. CallsKept
  BY <1>2, <1>4 DEF OverlaysInv, OverlaysTypeOK, CallsDecided, CallsKept
<1>6. Active' \subseteq approved'
  BY <1>3, <1>4 DEF OverlaysInv, ActiveWasApproved
<1>7. QED
  BY <1>1, <1>3, <1>4, <1>5, <1>6, CallerStep

(* Callers that return.                                                    *)
LEMMA ReturnStep ==
  ASSUME OverlaysInv, NEW c \in Callers, StoreKept, Active' \subseteq approved, left' \subseteq LeftPairs,
         Returns(c), UNCHANGED <<visit, layout, shifts, approved>>
  PROVE  OverlaysInv'
<1>1. OverlaysTypeOK /\ approved \subseteq Known
  BY DEF OverlaysInv, OverlaysTypeOK
<1>2. CallsKept
  BY <1>1, CallReturns DEF OverlaysInv, OverlaysTypeOK, CallsDecided, CallsKept
<1>3. QED
  BY <1>1, <1>2, CallerStep

(* Callers that go on to their second write.                               *)
LEMMA GoOnStep ==
  ASSUME OverlaysInv, NEW c \in Callers, StoreKept, Active' \subseteq approved, left' \subseteq LeftPairs,
         NEW step \in {"retire", "activate"}, calls[c].pc \in {"promote", "swap"},
         calls' = [calls EXCEPT ![c].pc = step], UNCHANGED <<visit, layout, shifts, approved>>
  PROVE  OverlaysInv'
<1>1. /\ OverlaysTypeOK /\ approved \subseteq Known
      /\ calls \in [Callers -> [pc : CallSteps, id : Ids \cup {Nil}, rollback : Ids \cup {Nil}]]
  BY DEF OverlaysInv, OverlaysTypeOK, CallSteps
<1>2. /\ calls' \in [Callers -> [pc : CallSteps, id : Ids \cup {Nil}, rollback : Ids \cup {Nil}]]
      /\ calls'[c].pc = step /\ calls'[c].id = calls[c].id
      /\ \A d \in Callers \ {c} : calls'[d] = calls[d]
  BY <1>1 DEF CallSteps
<1>3. CallsKept
  BY <1>1, <1>2 DEF OverlaysInv, OverlaysTypeOK, CallsDecided, CallsKept
<1>4. QED
  BY <1>1, <1>3, CallerStep

(* A new candidate disturbs nothing.                                       *)
LEMMA CreateStep ==
  ASSUME OverlaysInv, NEW new \in Overlay, new.state = "CANDIDATE", Known # Ids, Create(new),
         new.rollback # Nil => new.rollback \in Known \cap approved,
         visit' \in {visit, Nil}, UNCHANGED <<calls, layout, shifts, approved, left>>
  PROVE  OverlaysInv'
<1>1. OverlaysTypeOK /\ InOrder
  BY DEF OverlaysInv
<1>2. PICK id \in Ids \ Known :
           /\ store' = [store EXCEPT ![id] = new]
           /\ store' \in [Ids -> Overlay \cup {Nil}]
           /\ Known' = Known \cup {id} /\ Active' = Active
           /\ \A j \in Ids : j < id => j \in Known
           /\ \A i \in Known : i < id /\ store'[i] = store[i]
  BY <1>1, Created
<1>3. store'[id] = new
  BY <1>1, <1>2 DEF OverlaysTypeOK
<1>4. \A i \in Known' : store'[i].rollback # Nil =>
        store'[i].rollback \in Known' /\ store'[i].rollback < i /\ store'[i].rollback \in approved
  <2>1. ASSUME NEW i \in Known, store'[i].rollback # Nil
        PROVE  store'[i].rollback \in Known' /\ store'[i].rollback < i /\ store'[i].rollback \in approved
    BY <1>2, <2>1 DEF OverlaysInv, OverlaysTypeOK, TargetsApproved
  <2>2. new.rollback # Nil => new.rollback \in Known' /\ new.rollback < id /\ new.rollback \in approved
    BY <1>2
  <2>3. QED
    BY <1>2, <1>3, <2>1, <2>2
<1>5. OverlaysTypeOK'
  BY <1>1, <1>2, <1>4 DEF OverlaysTypeOK
<1>6. InOrder'
  <2>1. ASSUME NEW i \in Known', NEW j \in Ids, j < i PROVE j \in Known'
    BY <1>1, <1>2, <2>1 DEF InOrder
  <2>2. QED
    BY <2>1 DEF InOrder
<1>7. Drafted' /\ TargetsApproved' /\ CallsDecided' /\ ActiveWasApproved'
  BY <1>2, <1>4 DEF OverlaysInv, Drafted, TargetsApproved, CallsDecided, ActiveWasApproved
<1>8. QED
  BY <1>5, <1>6, <1>7 DEF OverlaysInv

(* What is captured of a page is a selector, whether CSS or not.           *)
LEMMA SynthesisIsCandidate ==
  ASSUME NEW page, page.layout \in Layouts
  PROVE  /\ Captured(page) \in Selectors
         /\ Synthesis(page) \in Overlay /\ Synthesis(page).state = "CANDIDATE" /\ Synthesis(page).rollback = Nil
<1>1. Captured(page) \in Selectors
  BY DEF Captured, Selectors
<1>2. (page.layout \in page.plain) \in BOOLEAN
  OBVIOUS
<1> QED
  BY <1>1, <1>2 DEF Synthesis, Overlay, States

(* What a visit proposes is a candidate; the source of a relocation is the *)
(* ACTIVE overlay it was relocated from.                                   *)
LEMMA ProposalIsCandidate ==
  ASSUME OverlaysInv, Visit
  PROVE  visit' \in Overlay /\ visit'.state = "CANDIDATE"
         /\ (visit'.rollback # Nil => visit'.rollback \in Active)
<1>1. PICK p \in Pages, g \in Givens, id \in GetActive :
        visit' = IF Proposal(Today(p), g, Row(id)) = "relocation"
                 THEN Relocation(id, Row(id), Today(p)) ELSE Synthesis(Today(p))
  BY DEF Visit
<1>2. Today(p).layout \in Layouts
  BY OverlayAssumption DEF Today, OverlaysInv, OverlaysTypeOK
<1>3. Synthesis(Today(p)) \in Overlay /\ Synthesis(Today(p)).state = "CANDIDATE"
      /\ Synthesis(Today(p)).rollback = Nil
  BY <1>2, SynthesisIsCandidate
<1>4. Proposal(Today(p), g, Row(id)) = "relocation" => Row(id) # Nil
  BY DEF Proposal
<1>5. ASSUME Row(id) # Nil
      PROVE  /\ Relocation(id, Row(id), Today(p)) \in Overlay /\ id \in Active
             /\ Relocation(id, Row(id), Today(p)).state = "CANDIDATE"
             /\ Relocation(id, Row(id), Today(p)).rollback = id
  <2>1. id \in Active
    BY <1>5 DEF GetActive, Row
  <2>2. Row(id) \in Overlay /\ id \in Ids
    BY <1>5, <2>1 DEF Row, Active, Known, OverlaysInv, OverlaysTypeOK
  <2>3. [f \in Fields |-> IF f \in Relocated(Today(p), Row(id)) THEN Captured(Today(p)) ELSE Row(id).selector[f]]
          \in [Fields -> Selectors]
    BY <1>2, <2>2, SynthesisIsCandidate DEF Overlay
  <2>4. QED
    BY <2>1, <2>2, <2>3 DEF Relocation, Overlay, States
<1>6. QED
  BY <1>1, <1>3, <1>4, <1>5

LEMMA OverlaysInvInit == OverlaysInit => OverlaysInv
<1> SUFFICES ASSUME OverlaysInit PROVE OverlaysInv
  OBVIOUS
<1>1. Known = {} /\ Active = {}
  BY DEF OverlaysInit, Known, Active
<1>2. layout \in Layouts
  BY LeastNatural, OverlayAssumption DEF OverlaysInit
<1>3. calls \in [Callers -> [pc : CallSteps, id : Ids \cup {Nil}, rollback : Ids \cup {Nil}]]
      /\ \A c \in Callers : calls[c].pc = "idle"
  BY DEF OverlaysInit, NoCall, CallSteps
<1>4. OverlaysTypeOK
  <2>1. store \in [Ids -> Overlay \cup {Nil}] /\ visit \in Overlay \cup {Nil}
    BY DEF OverlaysInit
  <2>2. shifts \in 0 .. MaxShifts /\ approved \subseteq Known
    BY OverlayAssumption DEF OverlaysInit
  <2>3. left \subseteq LeftPairs
    BY DEF OverlaysInit
  <2>4. QED
    BY <1>1, <1>2, <1>3, <2>1, <2>2, <2>3 DEF OverlaysTypeOK, CallSteps, LeftPairs
<1>5. InOrder /\ Drafted /\ TargetsApproved /\ CallsDecided /\ ActiveWasApproved
  BY <1>1, <1>3 DEF InOrder, Drafted, TargetsApproved, CallsDecided, ActiveWasApproved, OverlaysInit
<1>6. QED
  BY <1>4, <1>5 DEF OverlaysInv

LEMMA OverlaysInvStep == OverlaysInv /\ [OverlaysNext]_overlaysVars => OverlaysInv'
<1> SUFFICES ASSUME OverlaysInv, [OverlaysNext]_overlaysVars PROVE OverlaysInv'
  OBVIOUS
<1>0. OverlaysTypeOK /\ InOrder /\ Active \subseteq approved /\ approved \subseteq Known
      /\ left \subseteq LeftPairs /\ Active \subseteq Known /\ Known \subseteq Ids
  BY DEF OverlaysInv, OverlaysTypeOK, ActiveWasApproved, Active, Known
<1>1. ASSUME NEW c \in Callers, calls[c].pc # "idle"
      PROVE  calls[c].id \in Known /\ calls[c].pc \in CallSteps /\ calls[c].rollback \in Ids \cup {Nil}
  BY <1>0, <1>1 DEF OverlaysTypeOK, CallSteps
<1>2. ASSUME NEW c \in Callers, calls[c].pc \in {"ACTIVE", "promote", "retire", "swap", "activate"}
      PROVE  calls[c].id \in approved
  BY <1>2 DEF OverlaysInv, CallsDecided
<1>3. ASSUME NEW id \in Known, NEW s \in States, SetState(id, s), s = "ACTIVE" => id \in approved
      PROVE  StoreKept /\ Active' \subseteq approved
  BY <1>0, <1>3, StateSet DEF StoreKept
<1>4. ASSUME UNCHANGED store PROVE StoreKept /\ Active' \subseteq approved
  BY <1>0, <1>4 DEF StoreKept, OverlaysTypeOK, Known, Active
<1>5. CASE Visit
  <2>1. Known' = Known /\ Active' = Active /\ OverlaysTypeOK'
    BY <1>0, <1>5, ProposalIsCandidate DEF Visit, Known, Active, OverlaysTypeOK
  <2>2. Drafted'
    BY <1>0, <1>5, <2>1, ProposalIsCandidate DEF Drafted, Visit
  <2>3. InOrder' /\ TargetsApproved' /\ CallsDecided' /\ ActiveWasApproved'
    BY <1>5, <2>1 DEF OverlaysInv, InOrder, TargetsApproved, CallsDecided, ActiveWasApproved, Visit
  <2>4. QED
    BY <2>1, <2>2, <2>3 DEF OverlaysInv
<1>6. CASE Propose
  <2>1. CASE Known # Ids /\ Create(visit)
    <3>1. visit \in Overlay /\ visit.state = "CANDIDATE"
          /\ (visit.rollback # Nil => visit.rollback \in Known \cap approved)
      BY <1>6 DEF Propose, OverlaysInv, OverlaysTypeOK, Drafted
    <3>2. QED
      BY <1>6, <2>1, <3>1, CreateStep DEF Propose
  <2>2. CASE UNCHANGED store
    <3>1. Known' = Known /\ Active' = Active
      BY <2>2 DEF Known, Active
    <3>2. QED
      BY <1>6, <2>2, <3>1 DEF Propose, OverlaysInv, OverlaysTypeOK, InOrder, Drafted, TargetsApproved,
                             CallsDecided, ActiveWasApproved
  <2>3. QED
    BY <1>6, <2>1, <2>2 DEF Propose
<1>7. CASE Redesign
  <2>1. layout' \in Layouts /\ shifts' \in 0 .. MaxShifts
    BY <1>0, <1>7, OverlayAssumption DEF Redesign, OverlaysTypeOK
  <2>2. Known' = Known /\ Active' = Active
    BY <1>7 DEF Redesign, Known, Active
  <2>3. QED
    BY <1>7, <2>1, <2>2 DEF Redesign, OverlaysInv, OverlaysTypeOK, InOrder, Drafted, TargetsApproved,
                           CallsDecided, ActiveWasApproved
<1>8. CASE Evaluate
  <2>1. PICK p \in Pages : Create(Synthesis(Today(p))) /\ Known # Ids
    BY <1>8 DEF Evaluate
  <2>2. Today(p).layout \in Layouts
    BY <1>0, OverlayAssumption DEF Today, OverlaysTypeOK
  <2>3. Synthesis(Today(p)) \in Overlay /\ Synthesis(Today(p)).state = "CANDIDATE"
        /\ Synthesis(Today(p)).rollback = Nil
    BY <2>2, SynthesisIsCandidate
  <2>4. QED
    BY <1>8, <2>1, <2>3, CreateStep DEF Evaluate
<1>9. ASSUME NEW c \in Callers, PromoteReads(c) PROVE OverlaysInv'
  <2>1. PICK id \in Known, to \in Targets, human \in BOOLEAN :
          /\ MayMove(store[id].state, to, human)
          /\ IF store[id].state = "SHADOW" THEN Step(c, "promote", id, store[id].rollback)
             ELSE Step(c, to, id, Nil)
          /\ approved' = IF human /\ to = "ACTIVE" THEN approved \cup {id} ELSE approved
    BY <1>9 DEF PromoteReads
  <2>2. to \in States /\ store[id].rollback \in Ids \cup {Nil}
    BY <1>0, OverlayAssumption DEF OverlaysTypeOK, Overlay, Known
  <2>3. to = "ACTIVE" => id \in approved'
    BY <2>1 DEF MayMove
  <2>4. CASE store[id].state = "SHADOW"
    <3>1. to = "ACTIVE"
      BY <2>1, <2>4 DEF MayMove
    <3>2. Step(c, "promote", id, store[id].rollback)
      BY <2>1, <2>4
    <3>3. QED
      BY <1>9, <2>1, <2>2, <2>3, <3>1, <3>2, DecideStep DEF PromoteReads, CallSteps
  <2>5. CASE store[id].state # "SHADOW"
    <3>1. Step(c, to, id, Nil)
      BY <2>1, <2>5
    <3>2. to \in CallSteps /\ to \notin {"promote", "retire", "swap", "activate"}
      BY <2>2 DEF CallSteps, States
    <3>3. QED
      BY <1>9, <2>1, <2>3, <3>1, <3>2, DecideStep DEF PromoteReads
  <2>6. QED
    BY <2>4, <2>5
<1>21. ASSUME NEW c \in Callers, calls[c].pc # "idle"
       PROVE  /\ left \subseteq LeftPairs
              /\ \A other : Strangers(calls[c].id, other) \subseteq LeftPairs
              /\ \A S : S \subseteq LeftPairs => Still(S) \subseteq LeftPairs
              /\ calls[c].rollback \in Active =>
                   [pair |-> {calls[c].id, calls[c].rollback}, why |-> "cut short"] \in LeftPairs
  BY <1>0, <1>1, <1>21, PairsType
<1>10. ASSUME NEW c \in Callers, Moves(c) PROVE OverlaysInv'
  <2>1. StoreKept /\ Active' \subseteq approved
    BY <1>1, <1>2, <1>3, <1>10 DEF Moves, States
  <2>2. left' \subseteq LeftPairs
    BY <1>10, <1>21 DEF Moves, States
  <2>3. QED
    BY <1>0, <1>10, <2>1, <2>2, ReturnStep DEF Moves
<1>11. ASSUME NEW c \in Callers, Promotes(c) PROVE OverlaysInv'
  <2>1. StoreKept /\ Active' \subseteq approved
    BY <1>1, <1>2, <1>3, <1>11 DEF Promotes, States
  <2>2. left' \subseteq LeftPairs
    BY <1>11, <1>21 DEF Promotes
  <2>3. CASE calls[c].rollback = Nil
    BY <1>11, <2>1, <2>2, <2>3, ReturnStep DEF Promotes
  <2>4. CASE calls[c].rollback # Nil
    BY <1>11, <2>1, <2>2, <2>4, GoOnStep DEF Promotes
  <2>5. QED
    BY <2>3, <2>4
<1>12. ASSUME NEW c \in Callers, Retires(c) PROVE OverlaysInv'
  <2>1. StoreKept /\ Active' \subseteq approved
    BY <1>3, <1>4, <1>12 DEF Retires, States
  <2>2. left' \subseteq LeftPairs
    BY <1>12, <1>21 DEF Retires
  <2>3. QED
    BY <1>0, <1>12, <2>1, <2>2, ReturnStep DEF Retires
<1>13. ASSUME NEW c \in Callers, CallDies(c) PROVE OverlaysInv'
  <2>1. left' \subseteq LeftPairs
    BY <1>13, <1>21 DEF CallDies
  <2>2. QED
    BY <1>0, <1>4, <1>13, <2>1, ReturnStep DEF CallDies
<1>14. ASSUME NEW c \in Callers, ToShadow(c) PROVE OverlaysInv'
  BY <1>14, DecideStep DEF ToShadow, CallSteps, States
<1>15. ASSUME NEW c \in Callers, ShadowReads(c) PROVE OverlaysInv'
  <2>1. PICK id \in Known, old \in GetActive :
          approved' = approved \cup {id} /\ Step(c, IF old = Nil THEN "activate" ELSE "swap", id, old)
    BY <1>15 DEF ShadowReads
  <2>2. old \in Ids \cup {Nil} /\ (old # Nil => old \in Known)
    BY <1>0 DEF GetActive
  <2>3. CASE old = Nil
    BY <1>15, <2>1, <2>2, <2>3, DecideStep DEF ShadowReads, CallSteps
  <2>4. CASE old # Nil
    BY <1>15, <2>1, <2>2, <2>4, DecideStep DEF ShadowReads, CallSteps
  <2>5. QED
    BY <2>3, <2>4
<1>16. ASSUME NEW c \in Callers, RollbackReads(c) PROVE OverlaysInv'
  <2>1. PICK id \in Active : store[id].rollback # Nil /\ Step(c, "swap", store[id].rollback, id)
    BY <1>16 DEF RollbackReads
  <2>2. store[id].rollback \in Known /\ store[id].rollback \in approved /\ id \in Known /\ id \in Ids
    BY <1>0, <2>1 DEF OverlaysInv, OverlaysTypeOK, TargetsApproved
  <2>3. QED
    BY <1>16, <2>1, <2>2, DecideStep DEF RollbackReads, CallSteps
<1>17. ASSUME NEW c \in Callers, Swaps(c) PROVE OverlaysInv'
  <2>1. calls[c].rollback \in Known
    BY <1>17 DEF Swaps, OverlaysInv, CallsDecided
  <2>2. StoreKept /\ Active' \subseteq approved
    BY <1>3, <1>17, <2>1 DEF Swaps, States
  <2>3. left' \subseteq LeftPairs
    BY <1>17, <1>21 DEF Swaps
  <2>4. QED
    BY <1>0, <1>17, <2>2, <2>3, GoOnStep DEF Swaps
<1>18. ASSUME NEW c \in Callers, Activates(c) PROVE OverlaysInv'
  <2>1. StoreKept /\ Active' \subseteq approved
    BY <1>2, <1>3, <1>4, <1>18 DEF Activates, States
  <2>2. left' \subseteq LeftPairs
    BY <1>18, <1>21 DEF Activates
  <2>3. QED
    BY <1>0, <1>18, <2>1, <2>2, ReturnStep DEF Activates
<1>19. CASE UNCHANGED overlaysVars
  <2>1. Known' = Known /\ Active' = Active
    BY <1>19 DEF overlaysVars, Known, Active
  <2>2. QED
    BY <1>19, <2>1 DEF overlaysVars, OverlaysInv, OverlaysTypeOK, InOrder, Drafted, TargetsApproved,
                      CallsDecided, ActiveWasApproved
<1>20. QED
  BY <1>5, <1>6, <1>7, <1>8, <1>9, <1>10, <1>11, <1>12, <1>13, <1>14, <1>15, <1>16, <1>17, <1>18, <1>19
     DEF OverlaysNext

(* The rows of a domain and the calls on them keep their types, and no row *)
(* names a younger one as its rollback target, for every number of         *)
(* overlays and callers.                                                   *)
THEOREM OverlaysTyped == OverlaysSpec => []OverlaysTypeOK
<1>1. OverlaysSpec => []OverlaysInv
  BY OverlaysInvInit, OverlaysInvStep, PTL DEF OverlaysSpec
<1>2. OverlaysInv => OverlaysTypeOK
  BY DEF OverlaysInv
<1>3. QED
  BY <1>1, <1>2, PTL

(* What the pipeline proposed never serves a page unapproved, though       *)
(* promotions, evaluations and rollbacks interleave, work on rows read     *)
(* earlier and break off between their writes.                             *)
THEOREM NothingUnapprovedIsServed == OverlaysSpec => []ActiveWasApproved
<1>1. OverlaysSpec => []OverlaysInv
  BY OverlaysInvInit, OverlaysInvStep, PTL DEF OverlaysSpec
<1>2. OverlaysInv => ActiveWasApproved
  BY DEF OverlaysInv
<1>3. QED
  BY <1>1, <1>2, PTL

-----------------------------------------------------------------------------
(* Two ACTIVE overlays.                                                    *)

Retiring(i, j) == \E c \in Callers : calls[c].pc = "retire" /\ {calls[c].id, calls[c].rollback} = {i, j}
Recorded(i, j) == \E p \in left : p.pair = {i, j}

(* A pair that stays ACTIVE keeps its cause if no promotion ends.          *)
LEMMA PairStays ==
  ASSUME TwoActiveHaveACause, NEW i \in Active \cap Active', NEW j \in Active \cap Active', i # j,
         \A c \in Callers : calls[c].pc = "retire" => calls'[c] = calls[c],
         left' = left \/ \E new : left' = Still(left \cup new)
  PROVE  Retiring(i, j)' \/ Recorded(i, j)'
<1>1. Retiring(i, j) \/ Recorded(i, j)
  BY DEF TwoActiveHaveACause, Retiring, Recorded
<1>2. Retiring(i, j) => Retiring(i, j)'
  BY DEF Retiring
<1>3. Recorded(i, j) => Recorded(i, j)'
  <2>1. ASSUME NEW p \in left, p.pair = {i, j} PROVE p \in left'
    BY <2>1 DEF Still
  <2> QED
    BY <2>1 DEF Recorded
<1> QED
  BY <1>1, <1>2, <1>3

(* One that becomes ACTIVE beside another one has a cause.                 *)
LEMMA PairMade ==
  ASSUME NEW i \in Active' \ Active, NEW j \in Active \cap Active', NEW retires, NEW old,
         left' = Still(old \cup Strangers(i, retires)), j # retires
  PROVE  Recorded(i, j)'
<1> DEFINE p == [pair |-> {i, j}, why |-> "stranger"]
<1>1. p \in Strangers(i, retires)
  BY DEF Strangers
<1>2. p.pair = {i, j} /\ p.pair \subseteq Active'
  OBVIOUS
<1> HIDE DEF p
<1>3. p \in left'
  BY <1>1, <1>2 DEF Still
<1> QED
  BY <1>2, <1>3 DEF Recorded

LEMMA PairStep == OverlaysInv /\ TwoActiveHaveACause /\ [OverlaysNext]_overlaysVars => TwoActiveHaveACause'
<1> SUFFICES ASSUME OverlaysInv, TwoActiveHaveACause, [OverlaysNext]_overlaysVars,
                    NEW i \in Active', NEW j \in Active', i # j
             PROVE  Retiring(i, j)' \/ Recorded(i, j)'
  BY DEF TwoActiveHaveACause, Retiring, Recorded
<1>0. OverlaysTypeOK /\ InOrder /\ Active \subseteq Known
  BY DEF OverlaysInv, Active
<1>1. UNCHANGED store => Active' = Active
  BY DEF Active, Known
<1>2. CASE Visit \/ Redesign \/ UNCHANGED overlaysVars
  BY <1>1, <1>2, PairStays DEF Visit, Redesign, overlaysVars
<1>3. CASE Propose \/ Evaluate
  <2>1. ASSUME NEW new \in Overlay, new.state = "CANDIDATE", Known # Ids, Create(new) PROVE Active' = Active
    BY <1>0, <2>1, Created
  <2>2. Propose => Active' = Active
    BY <1>1, <2>1 DEF Propose, Drafted, OverlaysInv, OverlaysTypeOK
  <2>3. ASSUME Evaluate PROVE Active' = Active
    <3>1. PICK p \in Pages : Create(Synthesis(Today(p))) /\ Known # Ids
      BY <2>3 DEF Evaluate
    <3>2. Today(p).layout \in Layouts
      BY <1>0, OverlayAssumption DEF Today, OverlaysTypeOK
    <3>3. Synthesis(Today(p)) \in Overlay /\ Synthesis(Today(p)).state = "CANDIDATE"
      BY <3>2, SynthesisIsCandidate
    <3>4. QED
      BY <2>1, <3>1, <3>3
  <2>4. Active' = Active /\ UNCHANGED <<calls, left>>
    BY <1>3, <2>2, <2>3 DEF Propose, Evaluate
  <2>5. QED
    BY <2>4, PairStays
<1>4. ASSUME NEW c \in Callers, \A d \in Callers \ {c} : calls'[d] = calls[d], calls[c].pc # "retire",
             i \in Active, j \in Active, left' = left \/ \E new : left' = Still(left \cup new)
      PROVE  Retiring(i, j)' \/ Recorded(i, j)'
  BY <1>4, PairStays
<1>5. ASSUME NEW c \in Callers, PromoteReads(c) \/ ToShadow(c) \/ ShadowReads(c) \/ RollbackReads(c)
      PROVE  Retiring(i, j)' \/ Recorded(i, j)'
  <2>1. calls[c].pc = "idle" /\ UNCHANGED <<store, left>>
    BY <1>5 DEF PromoteReads, ToShadow, ShadowReads, RollbackReads
  <2>2. \A d \in Callers \ {c} : calls'[d] = calls[d]
    BY <1>0, <1>5 DEF PromoteReads, ToShadow, ShadowReads, RollbackReads, Step, OverlaysTypeOK
  <2>3. QED
    BY <1>1, <1>4, <2>1, <2>2
<1>6. ASSUME NEW c \in Callers, Returns(c) \/ \E step : calls' = [calls EXCEPT ![c].pc = step]
      PROVE  \A d \in Callers \ {c} : calls'[d] = calls[d]
  BY <1>0, <1>6 DEF Returns, OverlaysTypeOK
<1>7. ASSUME NEW c \in Callers, calls[c].pc # "idle"
      PROVE  calls[c].id \in Known
  BY <1>0, <1>7 DEF OverlaysTypeOK
<1>8. ASSUME NEW id \in Known, NEW s \in States, SetState(id, s)
      PROVE  Active' = IF s = "ACTIVE" THEN Active \cup {id} ELSE Active \ {id}
  BY <1>0, <1>8, StateSet
<1>9. ASSUME NEW id, NEW retires, NEW c \in Callers, \A d \in Callers \ {c} : calls'[d] = calls[d],
             calls[c].pc # "retire", Active' = Active \cup {id},
             left' = Still(left \cup Strangers(id, retires)),
             retires \in {i, j} => calls'[c].pc = "retire" /\ {calls'[c].id, calls'[c].rollback} = {id, retires}
      PROVE  Retiring(i, j)' \/ Recorded(i, j)'
  <2>1. CASE i \in Active /\ j \in Active
    BY <1>4, <1>9, <2>1
  <2>2. CASE i \notin Active
    <3>1. i = id /\ j \in Active
      BY <1>9, <2>2
    <3>2. CASE j = retires
      BY <1>9, <3>1, <3>2 DEF Retiring
    <3>3. CASE j # retires
      BY <1>9, <2>2, <3>1, <3>3, PairMade
    <3>4. QED
      BY <3>2, <3>3
  <2>3. CASE j \notin Active
    <3>1. j = id /\ i \in Active
      BY <1>9, <2>3
    <3>2. Retiring(j, i)' \/ Recorded(j, i)' => Retiring(i, j)' \/ Recorded(i, j)'
      BY DEF Retiring, Recorded
    <3>3. CASE i = retires
      BY <1>9, <3>1, <3>3 DEF Retiring
    <3>4. CASE i # retires
      BY <1>9, <2>3, <3>1, <3>2, <3>4, PairMade
    <3>5. QED
      BY <3>3, <3>4
  <2>4. QED
    BY <2>1, <2>2, <2>3
<1>10. ASSUME NEW c \in Callers, Moves(c) PROVE Retiring(i, j)' \/ Recorded(i, j)'
  <2>1. Active' = IF calls[c].pc = "ACTIVE" THEN Active \cup {calls[c].id} ELSE Active \ {calls[c].id}
    BY <1>7, <1>8, <1>10 DEF Moves, States
  <2>2. calls[c].pc # "retire" /\ \A d \in Callers \ {c} : calls'[d] = calls[d]
    BY <1>6, <1>10 DEF Moves, States
  <2>3. CASE calls[c].pc = "ACTIVE"
    <3>1. left' = Still(left \cup Strangers(calls[c].id, Nil))
      BY <1>10, <2>3 DEF Moves
    <3>2. Nil \notin {i, j}
      BY <1>0, <1>7, <1>10, <2>1, <2>3, OverlayAssumption DEF Known, Moves, States
    <3>3. QED
      BY <1>9, <2>1, <2>2, <2>3, <3>1, <3>2
  <2>4. CASE calls[c].pc # "ACTIVE"
    <3>1. \E new : left' = Still(left \cup new)
      BY <1>10 DEF Moves
    <3>2. QED
      BY <1>4, <2>1, <2>2, <2>4, <3>1
  <2>5. QED
    BY <2>3, <2>4
<1>11. ASSUME NEW c \in Callers, Promotes(c) PROVE Retiring(i, j)' \/ Recorded(i, j)'
  <2>1. Active' = Active \cup {calls[c].id} /\ calls[c].id \in Known
    BY <1>7, <1>8, <1>11 DEF Promotes, States
  <2>2. calls[c].pc # "retire" /\ \A d \in Callers \ {c} : calls'[d] = calls[d]
    BY <1>6, <1>11 DEF Promotes
  <2>3. left' = Still(left \cup Strangers(calls[c].id, calls[c].rollback))
    BY <1>11 DEF Promotes
  <2>4. ASSUME calls[c].rollback \in {i, j} PROVE calls'[c].pc = "retire" /\ {calls'[c].id, calls'[c].rollback} = {calls[c].id, calls[c].rollback}
    <3>1. calls[c].rollback # Nil
      BY <1>0, <2>1, <2>4, OverlayAssumption DEF Known
    <3>2. calls'[c].pc = "retire" /\ calls'[c].id = calls[c].id /\ calls'[c].rollback = calls[c].rollback
      BY <1>0, <1>11, <3>1 DEF Promotes, OverlaysTypeOK
    <3>3. QED
      BY <3>2
  <2>5. QED
    BY <1>9, <2>1, <2>2, <2>3, <2>4
<1>12. ASSUME NEW c \in Callers, Retires(c) PROVE Retiring(i, j)' \/ Recorded(i, j)'
  <2>1. Active' = Active \ {calls[c].rollback}
    <3>1. CASE calls[c].rollback \in Known
      BY <1>8, <1>12, <3>1 DEF Retires, States
    <3>2. CASE calls[c].rollback \notin Known
      BY <1>0, <1>1, <1>12, <3>2 DEF Retires
    <3>3. QED
      BY <3>1, <3>2
  <2>2. i \in Active /\ j \in Active /\ calls[c].rollback \notin {i, j}
    BY <2>1
  <2>3. \A d \in Callers \ {c} : calls'[d] = calls[d]
    BY <1>6, <1>12 DEF Retires
  <2>4. Retiring(i, j) => Retiring(i, j)'
    BY <2>2, <2>3 DEF Retiring
  <2>5. \A p \in left : p.pair = {i, j} => p \in left'
    BY <1>12 DEF Retires, Still
  <2>6. Retiring(i, j) \/ Recorded(i, j)
    BY <2>2 DEF TwoActiveHaveACause, Retiring, Recorded
  <2>7. QED
    BY <2>4, <2>5, <2>6 DEF Recorded
<1>13. ASSUME NEW c \in Callers, CallDies(c) PROVE Retiring(i, j)' \/ Recorded(i, j)'
  <2>1. i \in Active /\ j \in Active
    BY <1>1, <1>13 DEF CallDies
  <2>2. \A d \in Callers \ {c} : calls'[d] = calls[d]
    BY <1>6, <1>13 DEF CallDies
  <2>3. left \subseteq left'
    BY <1>13 DEF CallDies
  <2>4. ASSUME calls[c].pc = "retire", {calls[c].id, calls[c].rollback} = {i, j} PROVE Recorded(i, j)'
    <3>1. [pair |-> {calls[c].id, calls[c].rollback}, why |-> "cut short"] \in left'
      BY <1>13, <2>1, <2>4 DEF CallDies
    <3>2. QED
      BY <2>4, <3>1 DEF Recorded
  <2>5. Retiring(i, j) \/ Recorded(i, j)
    BY <2>1 DEF TwoActiveHaveACause, Retiring, Recorded
  <2>6. QED
    BY <2>2, <2>3, <2>4, <2>5 DEF Retiring, Recorded
<1>14. ASSUME NEW c \in Callers, Swaps(c) PROVE Retiring(i, j)' \/ Recorded(i, j)'
  <2>1. calls[c].rollback \in Known
    BY <1>14 DEF Swaps, OverlaysInv, CallsDecided
  <2>2. Active' \subseteq Active
    BY <1>8, <1>14, <2>1 DEF Swaps, States
  <2>3. \E new : left' = Still(left \cup new)
    <3>1. left' = Still(left \cup {})
      BY <1>14 DEF Swaps
    <3>2. QED
      BY <3>1
  <2>4. QED
    BY <1>4, <1>6, <1>14, <2>2, <2>3 DEF Swaps
<1>15. ASSUME NEW c \in Callers, Activates(c) PROVE Retiring(i, j)' \/ Recorded(i, j)'
  <2>1. Active' = Active \cup {calls[c].id} /\ calls[c].id \in Known
    BY <1>7, <1>8, <1>15 DEF Activates, States
  <2>2. calls[c].pc # "retire" /\ \A d \in Callers \ {c} : calls'[d] = calls[d]
    BY <1>6, <1>15 DEF Activates
  <2>3. left' = Still(left \cup Strangers(calls[c].id, Nil))
    BY <1>15 DEF Activates
  <2>4. Nil \notin {i, j}
    BY <1>0, <2>1, OverlayAssumption DEF Known
  <2>5. QED
    BY <1>9, <2>1, <2>2, <2>3, <2>4
<1>16. QED
  BY <1>2, <1>3, <1>5, <1>10, <1>11, <1>12, <1>13, <1>14, <1>15 DEF OverlaysNext

(* Any two ACTIVE overlays of a domain have a cause that lasts as long as  *)
(* both are: a promotion between its two writes, one killed there, or a    *)
(* call that was not going to retire the other when it activated the one.  *)
(* No other interleaving of promotions, moves, evaluations, rollbacks and  *)
(* restarts leads there, and a promotion that ends retires its target.     *)
THEOREM TwoActiveOverlaysHaveACause == OverlaysSpec => []TwoActiveHaveACause
<1>1. OverlaysSpec => []OverlaysInv
  BY OverlaysInvInit, OverlaysInvStep, PTL DEF OverlaysSpec
<1>2. OverlaysInit => TwoActiveHaveACause
  BY DEF OverlaysInit, TwoActiveHaveACause, Active, Known
<1>3. QED
  BY <1>1, <1>2, PairStep, PTL DEF OverlaysSpec

-----------------------------------------------------------------------------
(* The deduplicator keeps a record of every page that yields one.          *)

(* Up to any position there is a choice of records to keep in which a      *)
(* record is kept just when it clashes with none kept before it.           *)
LEMMA KeptExist ==
  ASSUME NEW Clash, NEW n \in Nat
  PROVE  \E K \in SUBSET (1 .. n) :
           \A i \in 1 .. n : i \in K <=> \A j \in K : j < i => <<j, i>> \notin Clash
<1> DEFINE Fixed(m, K) == \A i \in 1 .. m : i \in K <=> \A j \in K : j < i => <<j, i>> \notin Clash
           Exists(m) == \E K \in SUBSET (1 .. m) : Fixed(m, K)
           Bad == {m \in Nat : ~Exists(m)}
<1>1. ASSUME NEW m \in Nat, m # 0, Exists(m - 1) PROVE Exists(m)
  <2>1. PICK K \in SUBSET (1 .. m - 1) : Fixed(m - 1, K)
    BY <1>1
  <2> DEFINE L == IF \A j \in K : <<j, m>> \notin Clash THEN K \cup {m} ELSE K
  <2>2. L \in SUBSET (1 .. m) /\ (m \in L <=> \A j \in K : <<j, m>> \notin Clash)
    BY <1>1, <2>1
  <2>3. \A j \in L : j # m => j \in K
    OBVIOUS
  <2>4. \A j \in K : j \in L /\ j < m
    BY <1>1, <2>1
  <2> HIDE DEF L
  <2>5. ASSUME NEW i \in 1 .. m
        PROVE  i \in L <=> \A j \in L : j < i => <<j, i>> \notin Clash
    <3>1. CASE i = m
      BY <3>1, <2>2, <2>3, <2>4
    <3>2. CASE i # m
      <4>1. i \in 1 .. m - 1 /\ ~ (m < i)
        BY <3>2, <1>1
      <4>2. i \in K <=> \A j \in K : j < i => <<j, i>> \notin Clash
        BY <4>1, <2>1
      <4> QED
        BY <4>1, <4>2, <3>2, <2>3, <2>4
    <3> QED
      BY <3>1, <3>2
  <2>6. Fixed(m, L)
    BY <2>5
  <2> QED
    BY <2>2, <2>6
<1>2. Exists(0)
  <2>1. {} \in SUBSET (1 .. 0) /\ 1 .. 0 = {}
    OBVIOUS
  <2> QED
    BY <2>1
<1>3. Exists(n)
  <2> HIDE DEF Exists
  <2>1. SUFFICES ASSUME Bad # {} PROVE FALSE
    OBVIOUS
  <2>2. PICK m \in Bad : \A k \in Bad : m <= k
    BY <2>1, LeastNatural
  <2>3. m \in Nat /\ m # 0 /\ ~Exists(m)
    BY <1>2
  <2>4. m - 1 \in Nat /\ ~ (m <= m - 1)
    BY <2>3
  <2>5. Exists(m - 1)
    BY <2>2, <2>4
  <2> QED
    BY <2>3, <2>5, <1>1
<1> QED
  BY <1>3

LEMMA SomethingIsKept ==
  ASSUME NEW R, NEW records \in Seq(R), records # <<>>
  PROVE  Dedupe(records) # {}
<1> DEFINE Same(r, t) == Key(r) = Key(t) \/ Near(r, t)
           n == Len(records)
           Clash == {p \in (1 .. n) \X (1 .. n) : Same(records[p[1]], records[p[2]])}
           Fixed(K) == K = {i \in DOMAIN records : \A j \in K : j < i => ~Same(records[j], records[i])}
           kept == CHOOSE K \in SUBSET DOMAIN records : Fixed(K)
<1>1. n \in Nat /\ DOMAIN records = 1 .. n /\ 1 \in 1 .. n
  OBVIOUS
<1> HIDE DEF n, Clash
<1>2. PICK K \in SUBSET (1 .. n) :
        \A i \in 1 .. n : i \in K <=> \A j \in K : j < i => <<j, i>> \notin Clash
  BY <1>1, KeptExist
<1>3. \A i \in 1 .. n, j \in K : <<j, i>> \notin Clash <=> ~Same(records[j], records[i])
  BY DEF Clash
<1>4. Dedupe(records) = {records[i] : i \in kept}
  BY DEF Dedupe
<1> HIDE DEF Same
<1>5. K = {i \in 1 .. n : \A j \in K : j < i => ~Same(records[j], records[i])}
  BY <1>2, <1>3
<1>6. Fixed(K)
  BY <1>5, <1>1
<1>7. kept \in SUBSET DOMAIN records /\ Fixed(kept)
  <2> HIDE DEF Kept
  <2> QED BY <1>6, <1>1
<1>8. kept # {}
  <2> HIDE DEF kept
  <2> QED BY <1>7, <1>1
<1> HIDE DEF kept
<1> QED
  BY <1>4, <1>8
-----------------------------------------------------------------------------
(* The stages yield sequences.                                             *)

LEMMA FlattenedIsSeq ==
  ASSUME NEW R, NEW seqs \in Seq(Seq(R))
  PROVE  FlattenSeq(seqs) \in Seq(R)
<1> DEFINE n == Len(seqs)
           Prefix(m, f) == f = [i \in 1 .. m |-> IF i = 1 THEN seqs[i] ELSE f[i - 1] \o seqs[i]]
           Exists(m) == \E f : Prefix(m, f)
           flatten == CHOOSE f : Prefix(n, f)
<1>1. n \in Nat /\ \A i \in 1 .. n : seqs[i] \in Seq(R)
  OBVIOUS
<1>2. CASE n = 0
  BY <1>2 DEF FlattenSeq
<1>3. CASE n # 0
  <2>1. FlattenSeq(seqs) = flatten[n]
    BY <1>3 DEF FlattenSeq
  <2> HIDE DEF n
  <2>2. Exists(1)
    <3> DEFINE f == [i \in 1 .. 1 |-> seqs[i]]
    <3>1. \A i \in 1 .. 1 : f[i] = IF i = 1 THEN seqs[i] ELSE f[i - 1] \o seqs[i]
      OBVIOUS
    <3>2. f = [i \in 1 .. 1 |-> f[i]]
      OBVIOUS
    <3> HIDE DEF f
    <3>3. Prefix(1, f)
      BY <3>1, <3>2
    <3> QED
      BY <3>3
  <2>3. ASSUME NEW m \in Nat, m > 1, Exists(m - 1) PROVE Exists(m)
    <3>1. PICK f : Prefix(m - 1, f)
      BY <2>3
    <3>0. \A i \in 1 .. m - 1 : f[i] = IF i = 1 THEN seqs[i] ELSE f[i - 1] \o seqs[i]
      BY <3>1
    <3> DEFINE g == [i \in 1 .. m |-> IF i < m THEN f[i] ELSE f[m - 1] \o seqs[m]]
    <3>2. \A i \in 1 .. m : g[i] = IF i = 1 THEN seqs[i] ELSE g[i - 1] \o seqs[i]
      <4> TAKE i \in 1 .. m
      <4>1. CASE i = m
        BY <4>1, <2>3
      <4>2. CASE i # m
        <5>1. i \in 1 .. m - 1 /\ i < m /\ i - 1 < m
          BY <4>2, <2>3
        <5>2. f[i] = IF i = 1 THEN seqs[i] ELSE f[i - 1] \o seqs[i]
          BY <5>1, <3>0
        <5>3. g[i] = f[i] /\ (i # 1 => g[i - 1] = f[i - 1])
          BY <5>1
        <5> HIDE DEF g
        <5> QED
          BY <5>2, <5>3
      <4> QED
        BY <4>1, <4>2
    <3>3. Prefix(m, g)
      <4>1. g = [i \in 1 .. m |-> g[i]]
        OBVIOUS
      <4> HIDE DEF g
      <4> QED
        BY <4>1, <3>2
    <3> QED
      BY <3>3
  <2>4. Exists(n)
    <3> HIDE DEF Exists
    <3> DEFINE Bad == {m \in Nat \ {0} : ~Exists(m)}
    <3>1. SUFFICES ASSUME Bad # {} PROVE FALSE
      BY <1>1, <1>3
    <3>2. PICK m \in Bad : \A k \in Bad : m <= k
      BY <3>1, LeastNatural
    <3>3. m \in Nat /\ m > 1 /\ ~Exists(m)
      BY <2>2
    <3>4. m - 1 \in Nat \ {0} /\ ~ (m <= m - 1)
      BY <3>3
    <3>5. Exists(m - 1)
      BY <3>2, <3>4
    <3> QED
      BY <3>3, <3>5, <2>3
  <2>5. Prefix(n, flatten)
    BY <2>4
  <2> HIDE DEF flatten
  <2>6. \A i \in 1 .. n : flatten[i] = IF i = 1 THEN seqs[i] ELSE flatten[i - 1] \o seqs[i]
    BY <2>5
  <2> DEFINE Odd == {i \in 1 .. n : flatten[i] \notin Seq(R)}
  <2>7. Odd = {}
    <3>1. SUFFICES ASSUME Odd # {} PROVE FALSE
      OBVIOUS
    <3>9. Odd \subseteq Nat
      BY <1>1
    <3>2. PICK m \in Odd : \A k \in Odd : m <= k
      BY <3>9, <3>1, LeastNatural
    <3>3. CASE m = 1
      BY <3>2, <3>3, <2>6, <1>1
    <3>4. CASE m # 1
      <4>1. m - 1 \in 1 .. n /\ ~ (m <= m - 1)
        BY <3>4, <1>1
      <4>2. flatten[m - 1] \in Seq(R)
        BY <4>1, <3>2
      <4>3. flatten[m] = flatten[m - 1] \o seqs[m]
        BY <3>4, <2>6
      <4>4. seqs[m] \in Seq(R)
        BY <1>1
      <4>5. flatten[m - 1] \o seqs[m] \in Seq(R)
        BY <4>2, <4>4
      <4> QED
        BY <4>3, <4>5
    <3> QED
      BY <3>3, <3>4
  <2> QED
    BY <2>1, <2>7, <1>1, <1>3
<1> QED
  BY <1>2, <1>3

Kinds == {"generic", "place", "article", "table", "list", "structured", "opengraph", "content_addressed"}
Yield == Records \cup {Record(t, x) : t \in Kinds, x \in Texts}

LEMMA Repeated ==
  ASSUME NEW k \in Kinds, NEW n \in Nat
  PROVE  [i \in 1 .. n |-> Record(k, Nil)] \in Seq(Yield) /\ <<Record(k, Nil)>> \in Seq(Yield)
<1>1. Record(k, Nil) \in Yield
  BY DEF Yield, Texts
<1> HIDE DEF Yield
<1> QED
  BY <1>1

LEMMA ElementOf ==
  ASSUME NEW S, NEW s \in Seq(S), NEW i
  PROVE  /\ i \in DOMAIN s => s[i] \in S
         /\ i \in 1 .. Len(s) => s[i] \in S
OBVIOUS

LEMMA JsonLdIsSeq ==
  ASSUME NEW page \in Page PROVE JsonLd(page) \in Seq(Yield)
<1> DEFINE Block(b) == IF page.jsonld[b].broken THEN <<>> ELSE FlattenSeq(page.jsonld[b].items)
           Blocks   == [broken : BOOLEAN, items : Seq(Seq(Records))]
<1>1. page.jsonld \in Seq(Blocks)
  BY DEF Page
<1>2. ASSUME NEW b \in 1 .. Len(page.jsonld) PROVE Block(b) \in Seq(Records)
  <2>1. page.jsonld[b] \in Blocks
    <3> HIDE DEF Blocks
    <3> QED
      BY <1>1, ElementOf
  <2>2. page.jsonld[b].items \in Seq(Seq(Records))
    BY <2>1
  <2>3. FlattenSeq(page.jsonld[b].items) \in Seq(Records)
    BY <2>2, FlattenedIsSeq
  <2> QED
    BY <2>3
<1> HIDE DEF Block
<1>3. [b \in 1 .. Len(page.jsonld) |-> Block(b)] \in Seq(Seq(Records))
  BY <1>1, <1>2
<1>4. FlattenSeq([b \in 1 .. Len(page.jsonld) |-> Block(b)]) \in Seq(Records)
  BY <1>3, FlattenedIsSeq
<1>5. JsonLd(page) \in Seq(Records)
  BY <1>4 DEF JsonLd, Block
<1>6. Records \subseteq Yield
  BY DEF Yield
<1> HIDE DEF Yield
<1> QED
  BY <1>5, <1>6

LEMMA SemanticIsSeq ==
  ASSUME NEW page \in Page PROVE SemanticHtml(page) \in Seq(Yield)
<1> DEFINE Articles == [i \in DOMAIN page.articles |->
                          IF page.articles[i].long THEN <<Record("article", page.articles[i].title)>> ELSE <<>>]
           Tables   == [i \in DOMAIN page.tables |->
                          IF page.tables[i].cells > 0 THEN <<Record("table", Nil)>> ELSE <<>>]
           Lists    == [i \in DOMAIN page.lists |->
                          IF page.lists[i].items >= 3 /\ ~page.lists[i].nav /\ ~page.lists[i].links
                          THEN <<Record("list", Nil)>> ELSE <<>>]
<1>1. Articles \in Seq(Seq(Yield))
  <2> DEFINE Elements == [long : BOOLEAN, title : Texts]
  <2>1. page.articles \in Seq(Elements)
    BY DEF Page
  <2>2. ASSUME NEW i \in DOMAIN page.articles PROVE Record("article", page.articles[i].title) \in Yield
    <3>1. page.articles[i] \in Elements
      <4> HIDE DEF Elements
      <4> QED
        BY <2>1, ElementOf
    <3>2. page.articles[i].title \in Texts
      BY <3>1
    <3>3. "article" \in Kinds
      BY DEF Kinds
    <3> QED
      BY <3>2, <3>3 DEF Yield
  <2>3. ASSUME NEW i \in DOMAIN page.articles PROVE Articles[i] \in Seq(Yield)
    BY <2>2
  <2> HIDE DEF Yield
  <2>4. DOMAIN page.articles = 1 .. Len(page.articles) /\ Len(page.articles) \in Nat
    BY <2>1
  <2>5. Articles = [i \in 1 .. Len(page.articles) |-> Articles[i]]
    BY <2>4
  <2> HIDE DEF Articles
  <2> QED
    BY <2>3, <2>4, <2>5
<1>2. Tables \in Seq(Seq(Yield))
  <2>1. page.tables \in Seq([cells : Nat])
    BY DEF Page
  <2>2. <<Record("table", Nil)>> \in Seq(Yield)
    BY Repeated DEF Kinds
  <2>3. DOMAIN page.tables = 1 .. Len(page.tables) /\ Len(page.tables) \in Nat
    BY <2>1
  <2> HIDE DEF Yield
  <2> QED
    BY <2>2, <2>3
<1>3. Lists \in Seq(Seq(Yield))
  <2>1. page.lists \in Seq([items : Nat, nav : BOOLEAN, links : BOOLEAN])
    BY DEF Page
  <2>2. <<Record("list", Nil)>> \in Seq(Yield)
    BY Repeated DEF Kinds
  <2>3. DOMAIN page.lists = 1 .. Len(page.lists) /\ Len(page.lists) \in Nat
    BY <2>1
  <2> HIDE DEF Yield
  <2> QED
    BY <2>2, <2>3
<1>4. SemanticHtml(page) = FlattenSeq(Articles \o Tables \o Lists)
  BY DEF SemanticHtml
<1> HIDE DEF Articles, Tables, Lists
<1>5. Articles \o Tables \in Seq(Seq(Yield))
  BY <1>1, <1>2
<1>6. Articles \o Tables \o Lists \in Seq(Seq(Yield))
  BY <1>3, <1>5
<1> QED
  BY <1>4, <1>6, FlattenedIsSeq

LEMMA ScopedIsSeq ==
  ASSUME NEW scopes \in Seq([nested : BOOLEAN, props : BOOLEAN]) PROVE ScopedProps(scopes) \in Seq(Yield)
<1> DEFINE Scope(i) == IF ~scopes[i].nested /\ scopes[i].props THEN <<Record("structured", Nil)>> ELSE <<>>
<1>1. <<Record("structured", Nil)>> \in Seq(Yield)
  BY Repeated DEF Kinds
<1>2. DOMAIN scopes = 1 .. Len(scopes) /\ Len(scopes) \in Nat
  OBVIOUS
<1>3. \A i \in DOMAIN scopes : Scope(i) \in Seq(Yield)
  BY <1>1
<1> HIDE DEF Scope
<1>4. [i \in DOMAIN scopes |-> Scope(i)] \in Seq(Seq(Yield))
  BY <1>2, <1>3
<1>5. FlattenSeq([i \in DOMAIN scopes |-> Scope(i)]) \in Seq(Yield)
  BY <1>4, FlattenedIsSeq
<1> QED
  BY <1>5 DEF ScopedProps, Scope

LEMMA MarkupIsSeq ==
  ASSUME NEW page \in Page PROVE Markup(page) \in Seq(Yield)
<1>1. StructuredMarkup(page) \in Seq(Yield)
  <2>1. ScopedProps(page.microdata) \in Seq(Yield) /\ ScopedProps(page.rdfa) \in Seq(Yield)
    BY ScopedIsSeq DEF Page
  <2>2. <<Record("opengraph", Nil)>> \in Seq(Yield)
    BY Repeated DEF Kinds
  <2> QED
    BY <2>1, <2>2 DEF StructuredMarkup
<1>2. ContentAddressed(page) \in Seq(Yield)
  <2>1. page.shaped \in Nat
    BY DEF Page
  <2>2. [i \in 1 .. page.shaped |-> Record("content_addressed", Nil)] \in Seq(Yield)
    BY <2>1, Repeated DEF Kinds
  <2> QED
    BY <2>2 DEF ContentAddressed
<1> QED
  BY <1>1, <1>2, JsonLdIsSeq, SemanticIsSeq DEF Markup

(* The stages before the markup yield sequences, whatever overlay there is. *)
LEMMA BeforeMarkup ==
  ASSUME NEW page \in Page, NEW given, NEW active
  PROVE  ByJob(page, given) \in Seq(Yield) /\ ByOverlay(page, given, active) \in Seq(Yield)
<1>1. page.containers \in Nat /\ page.places \in Nat
  BY DEF Page
<1>2. /\ [i \in 1 .. page.containers |-> Record("generic", Nil)] \in Seq(Yield)
      /\ <<Record("generic", Nil)>> \in Seq(Yield)
  BY <1>1, Repeated DEF Kinds
<1>3. [i \in 1 .. page.places |-> Record("place", Nil)] \in Seq(Yield)
  BY <1>1, Repeated DEF Kinds
<1>4. <<>> \in Seq(Yield)
  OBVIOUS
<1>5. ByJob(page, given) \in Seq(Yield)
  BY <1>2, <1>3, <1>4 DEF ByJob, Override, Maps
<1>6. ByOverlay(page, given, active) \in Seq(Yield)
  BY <1>2, <1>4 DEF ByOverlay, ApplyOverlayDict, ApplyFieldMappings
<1> QED
  BY <1>5, <1>6

(* A redesign changes what selectors hit, not what the markup says.        *)
LEMMA MarkupStays ==
  ASSUME NEW page \in Page, NEW l \in Layouts
  PROVE  LET today == [page EXCEPT !.layout = l] IN today \in Page /\ Markup(today) = Markup(page)
<1> DEFINE today == [page EXCEPT !.layout = l]
<1>1. today \in Page
  BY DEF Page
<1>2. /\ today.jsonld = page.jsonld /\ today.articles = page.articles /\ today.tables = page.tables
      /\ today.lists = page.lists /\ today.opengraph = page.opengraph /\ today.microdata = page.microdata
      /\ today.rdfa = page.rdfa /\ today.shaped = page.shaped
  BY DEF Page
<1> HIDE DEF today
<1>3. JsonLd(today) = JsonLd(page) /\ SemanticHtml(today) = SemanticHtml(page)
  BY <1>2 DEF JsonLd, SemanticHtml
<1>4. StructuredMarkup(today) = StructuredMarkup(page) /\ ContentAddressed(today) = ContentAddressed(page)
  BY <1>2 DEF StructuredMarkup, ContentAddressed
<1>5. Markup(today) = Markup(page)
  BY <1>3, <1>4 DEF Markup
<1> QED
  BY <1>1, <1>5 DEF today

(* A stage fails only on a selector that is no CSS.                        *)
LEMMA FailsOnlyUnparsable ==
  ASSUME NEW page, NEW given, NEW active, Fails(page, given, active),
         given.kind \in {"none", "mappings", "overlay"}
  PROVE  LET used == IF given.kind = "none" THEN active ELSE given
         IN /\ used # Nil \/ given.kind # "none"
            /\ ~used.container \/ (given.kind # "mappings" /\ Unparsable \in Range(used.selector))
<1>1. CASE given.kind = "mappings"
  BY <1>1 DEF Fails
<1>2. CASE given.kind = "overlay"
  BY <1>2 DEF Fails, Raises, Range
<1>3. CASE given.kind = "none"
  BY <1>3 DEF Fails, Raises, Range
<1> QED
  BY <1>1, <1>2, <1>3

LEMMA SomethingIsFound ==
  ASSUME NEW page \in Page, NEW given, NEW active, Markup(page) # <<>>, ~Fails(page, given, active)
  PROVE  Process(page, given, active) # {}
<1>1. Extract(page, given, active) \in Seq(Yield) /\ Extract(page, given, active) # <<>>
  BY BeforeMarkup, MarkupIsSeq DEF Extract
<1> QED
  BY <1>1, SomethingIsKept DEF Process

(* An overlay whose selectors miss hides nothing: a page its markup stages *)
(* can read yields a record that survives the deduplicator, unless the     *)
(* overlay applied to it holds a selector that is no CSS (_try_overlay,    *)
(* the fall-through of DeterministicExtractionPipeline.extract, process).  *)
THEOREM MarkupIsNotHiddenByAMiss == OverlaysSpec => []MissHidesNothing
<1>1. OverlaysTypeOK => MissHidesNothing
  <2> SUFFICES ASSUME OverlaysTypeOK, NEW p \in Pages, NEW g \in Givens, NEW id \in GetActive, Markup(p) # <<>>,
                      LET used == IF g.kind = "none" THEN Row(id) ELSE g
                      IN used # Nil =>
                           used.container /\ (g.kind = "mappings" \/ Unparsable \notin Range(used.selector))
               PROVE  Process(Today(p), g, Row(id)) # {}
    BY DEF MissHidesNothing
  <2>1. p \in Page /\ layout \in Layouts
    BY OverlayAssumption DEF OverlaysTypeOK
  <2>2. Today(p) \in Page /\ Markup(Today(p)) = Markup(p)
    BY <2>1, MarkupStays DEF Today
  <2>3. g.kind \in {"none", "mappings", "overlay"} /\ g # Nil
    BY GivensAssumption
  <2>4. ~Fails(Today(p), g, Row(id))
    BY <2>3, FailsOnlyUnparsable
  <2> QED
    BY <2>2, <2>4, SomethingIsFound
<1> QED
  BY <1>1, OverlaysTyped, PTL
=============================================================================
