------------------------- MODULE SharedStore_proofs -------------------------
(***************************************************************************)
(* Proofs about the two components whose processes share a store in        *)
(* Valkey: Gateway (the daily counters) and LlmProvider (the overlays).    *)
(*                                                                         *)
(* Gateway, for every number of processes, requests, keys, addresses, days *)
(* and starts, and for every limit.                                        *)
(*                                                                         *)
(* The argument for the quota: what the lives of processes that count      *)
(* alone may still let through today is a set, Slack, of one element per   *)
(* request.  Each such life brings Limit requests; a request that its own  *)
(* counter lets through takes one element away; a process that goes down   *)
(* takes its elements with it.  So what was let through and what may still *)
(* be let through stay within the shared counter and Limit per such life   *)
(* (QuotaInv).  The shared counter passes the limit only by requests that  *)
(* were between its reading and its increment together (SharedInv).        *)
(*                                                                         *)
(* LlmProvider, for every number of processes, calls and pages, every      *)
(* choice of models and every size of caches, semaphore and retry budget.  *)
(*                                                                         *)
(* The argument for the overlays: an entry of either cache level fits every *)
(* page and process its key stands for (Fits).  A fresh answer does: the   *)
(* key holds the first model of a chain, which tells the whole chain       *)
(* except to a process that is pinned to that very model (WritersByModel,  *)
(* from the table of models); what is promoted from one level to the       *)
(* other, or moved to the end of the list, still does.                     *)
(***************************************************************************)
EXTENDS Gateway, LlmProvider, FiniteSetTheorems, TLAPS

Call == [pc : {"idle", "limit", "get", "incr", "mint"}, node : Nodes \cup {None},
         prefix : QuotaPrefixes \cup {None}, day : Days, source : {"table", "memory", None},
         revoked : BOOLEAN]

Types ==
  /\ day \in Days /\ starts \in Nat /\ life \in [Nodes -> 0 .. starts]
  /\ up \subseteq Nodes /\ linked \subseteq up
  /\ memory \in [Nodes -> SUBSET Keys] /\ api_keys \in [Keys -> KeyStates]
  /\ local \in [Nodes -> [QuotaPrefixes -> [Days -> Nat]]]
  /\ shared \in [QuotaPrefixes -> [Days -> Nat]]
  /\ call \in [Requests -> Call]
  /\ admitted \in [QuotaPrefixes -> Nat] /\ alone \in [QuotaPrefixes -> SUBSET (0 .. starts)]

\* A request in flight is served by a process that is up, and counts for no later day.
CallInv ==
  \A r \in Requests : call[r].pc # "idle" =>
    call[r].node \in up /\ call[r].prefix \in QuotaPrefixes /\ call[r].day <= day

LocalInv == \A n \in Nodes, p \in QuotaPrefixes, d \in Days : local[n][p][d] <= Limit[p]

\* No two processes that are up have the same life.
LifeInv == \A m, n \in up : life[m] = life[n] => m = n

\* The requests a life that counts alone may still let through today.
Slack(p) ==
  {x \in up \X (1 .. Limit[p]) : life[x[1]] \in alone[p] /\ local[x[1]][p][day] < x[2]}

QuotaInv ==
  \A p \in QuotaPrefixes :
    admitted[p] + Cardinality(Slack(p)) <= shared[p][day] + Limit[p] * Cardinality(alone[p])

\* The requests that have read the counter of today and not raised it yet.
Raising(p) == {r \in Requests : call[r].pc = "incr" /\ call[r].prefix = p /\ call[r].day = day}

SharedInv ==
  \A p \in QuotaPrefixes :
    /\ shared[p][day] + Cardinality(Raising(p)) <= Limit[p] + Cardinality(Requests) - 1
    /\ \A d \in Days : d > day => shared[p][d] = 0

Inv == Types /\ CallInv /\ LocalInv /\ LifeInv /\ QuotaInv /\ SharedInv

-----------------------------------------------------------------------------
(* Counting.                                                               *)

LEMMA Numbers ==
  /\ Days \subseteq Nat /\ 1 \in Days /\ MaxDay \in Nat
  /\ \A p \in QuotaPrefixes : Limit[p] \in Nat /\ Limit[p] > 0
  /\ Cardinality(Requests) \in Nat
<1>1. MaxDay \in Nat /\ MaxDay > 0 /\ IsFiniteSet(Requests)
  BY GatewayAssumption
<1>2. \A p \in QuotaPrefixes : Limit[p] \in Nat /\ Limit[p] > 0
  BY GatewayAssumption
<1> QED
  BY <1>1, <1>2, FS_CardinalityType DEF Days

LEMMA SlackFinite ==
  ASSUME Types, NEW p \in QuotaPrefixes
  PROVE  IsFiniteSet(Slack(p)) /\ Cardinality(Slack(p)) \in Nat
<1>1. IsFiniteSet(up)
  BY GatewayAssumption, FS_Subset DEF Types
<1>2. IsFiniteSet(1 .. Limit[p])
  BY Numbers, FS_Interval
<1>3. IsFiniteSet(up \X (1 .. Limit[p]))
  BY <1>1, <1>2, FS_Product
<1>4. Slack(p) \subseteq up \X (1 .. Limit[p])
  BY DEF Slack
<1>5. IsFiniteSet(Slack(p))
  BY <1>3, <1>4, FS_Subset
<1> QED
  BY <1>5, FS_CardinalityType

LEMMA AloneFinite ==
  ASSUME Types, NEW p \in QuotaPrefixes
  PROVE  IsFiniteSet(alone[p]) /\ Cardinality(alone[p]) \in Nat
<1>1. alone[p] \subseteq 0 .. starts /\ starts \in Nat
  BY DEF Types
<1>2. IsFiniteSet(0 .. starts)
  BY <1>1, FS_Interval
<1>3. IsFiniteSet(alone[p])
  BY <1>1, <1>2, FS_Subset
<1> QED
  BY <1>3, FS_CardinalityType

LEMMA RaisingFinite ==
  ASSUME NEW p
  PROVE  /\ IsFiniteSet(Raising(p)) /\ Cardinality(Raising(p)) \in Nat
         /\ Cardinality(Raising(p)) <= Cardinality(Requests)
<1>1. Raising(p) \subseteq Requests /\ IsFiniteSet(Requests)
  BY GatewayAssumption DEF Raising
<1>2. IsFiniteSet(Raising(p)) /\ Cardinality(Raising(p)) <= Cardinality(Requests)
  BY <1>1, FS_Subset
<1> QED
  BY <1>2, FS_CardinalityType

\* The requests a new life may let through after its first.
LEMMA FreshSlack ==
  ASSUME NEW n, NEW a \in Nat, NEW b \in Nat, a <= b
  PROVE  LET T == {<<n, i>> : i \in a + 1 .. b} IN IsFiniteSet(T) /\ Cardinality(T) \in Nat /\ Cardinality(T) <= b - a
<1> DEFINE S == a + 1 .. b
           T == {<<n, i>> : i \in S}
           f == [i \in S |-> <<n, i>>]
<1>1. IsFiniteSet(S) /\ Cardinality(S) = b - a
  <2>1. a + 1 \in Int /\ b \in Int
    OBVIOUS
  <2>2. IsFiniteSet(S) /\ Cardinality(S) = IF a + 1 > b THEN 0 ELSE b - (a + 1) + 1
    BY <2>1, FS_Interval
  <2> QED
    BY <2>2
<1>2. f \in Surjection(S, T)
  <2>1. f \in [S -> T]
    OBVIOUS
  <2>2. \A t \in T : \E i \in S : f[i] = t
    OBVIOUS
  <2> QED
    BY <2>1, <2>2, Zenon DEF Surjection
<1> HIDE DEF S, f
<1>3. IsFiniteSet(T) /\ Cardinality(T) <= Cardinality(S)
  <2> HIDE DEF T
  <2> QED BY <1>1, <1>2, FS_Surjection
<1>4. Cardinality(T) \in Nat
  <2> HIDE DEF T
  <2> QED BY <1>3, FS_CardinalityType
<1> QED
  BY <1>1, <1>3, <1>4 DEF S

-----------------------------------------------------------------------------
(* Types, and what calls may be.                                           *)

\* The record of request r becomes c.
Moved(r, c) == call' = [call EXCEPT ![r] = c]

LEMMA Records ==
  ASSUME Types, CallInv, NEW r \in Requests
  PROVE  /\ Idle \in Call /\ Idle.pc = "idle"
         /\ call[r] \in Call
         /\ call[r].pc # "idle" => AfterGrant(r) \in Call /\ call[r].node \in Nodes
         /\ AfterGrant(r) = Idle \/ AfterGrant(r) = [call[r] EXCEPT !.pc = "mint"]
<1>1. Idle \in Call /\ Idle.pc = "idle"
  BY Numbers DEF Idle, Call
<1>2. call[r] \in Call
  BY DEF Types
<1>3. [call[r] EXCEPT !.pc = "mint"] \in Call
  BY <1>2 DEF Call
<1>4. call[r].pc # "idle" => call[r].node \in Nodes
  BY DEF CallInv, Types
<1> QED
  BY <1>1, <1>2, <1>3, <1>4 DEF AfterGrant

\* What a request's own process decides: it is refused, or let through and counted.
LEMMA LocalDecision ==
  ASSUME Types, CallInv, NEW r \in Requests, call[r].pc # "idle", CheckLocal(r),
         NEW n, n = call[r].node, NEW p, p = call[r].prefix
  PROVE  /\ n \in Nodes /\ n \in up /\ p \in QuotaPrefixes
         /\ \/ Moved(r, Idle) /\ UNCHANGED <<local, admitted, alone>>
            \/ /\ Moved(r, AfterGrant(r)) /\ local[n][p][day] < Limit[p]
               /\ local' = [local EXCEPT ![n] = [Kept(n) EXCEPT ![p][day] = @ + 1]]
               /\ admitted' = [admitted EXCEPT ![p] = @ + 1]
               /\ alone' = [alone EXCEPT ![p] = @ \cup {life[n]}]
<1>1. n \in Nodes /\ n \in up /\ p \in QuotaPrefixes
  BY DEF CallInv, Types
<1>2. local[n][p][day] \in Nat /\ Limit[p] \in Nat
  BY <1>1, Numbers DEF Types
<1> QED
  BY <1>1, <1>2 DEF CheckLocal, Spent, Admit, Moved

LEMMA KeptTypes ==
  ASSUME Types, NEW n \in Nodes
  PROVE  /\ Kept(n) \in [QuotaPrefixes -> [Days -> Nat]]
         /\ \A p \in QuotaPrefixes : Kept(n)[p][day] = local[n][p][day]
         /\ \A p \in QuotaPrefixes, d \in Days : Kept(n)[p][d] <= local[n][p][d]
<1>1. local[n] \in [QuotaPrefixes -> [Days -> Nat]] /\ day \in Days /\ 0 \in Nat
  BY DEF Types
<1> DEFINE today == [p \in QuotaPrefixes |-> [d \in Days |-> IF d = day THEN local[n][p][d] ELSE 0]]
<1>2. /\ today \in [QuotaPrefixes -> [Days -> Nat]]
      /\ \A p \in QuotaPrefixes : today[p][day] = local[n][p][day]
      /\ \A p \in QuotaPrefixes, d \in Days : today[p][d] <= local[n][p][d]
  BY <1>1
<1>3. Kept(n) = local[n] \/ Kept(n) = today
  BY DEF Kept
<1> HIDE DEF today
<1>4. \A p \in QuotaPrefixes, d \in Days : local[n][p][d] <= local[n][p][d]
  BY <1>1
<1> QED
  BY <1>1, <1>2, <1>3, <1>4

\* The counters after a request is let through.
LEMMA Counted ==
  ASSUME Types, LocalInv, NEW n \in Nodes, NEW p \in QuotaPrefixes, local[n][p][day] < Limit[p],
         local' = [local EXCEPT ![n] = [Kept(n) EXCEPT ![p][day] = @ + 1]]
  PROVE  /\ local' \in [Nodes -> [QuotaPrefixes -> [Days -> Nat]]]
         /\ local'[n][p][day] = local[n][p][day] + 1
         /\ \A q \in QuotaPrefixes \ {p} : local'[n][q][day] = local[n][q][day]
         /\ \A m \in Nodes \ {n} : local'[m] = local[m]
         /\ \A m \in Nodes, q \in QuotaPrefixes, d \in Days : local'[m][q][d] <= Limit[q]
<1>1. /\ local \in [Nodes -> [QuotaPrefixes -> [Days -> Nat]]] /\ day \in Days
      /\ Kept(n) \in [QuotaPrefixes -> [Days -> Nat]]
      /\ \A q \in QuotaPrefixes : Kept(n)[q][day] = local[n][q][day]
      /\ \A q \in QuotaPrefixes, d \in Days : Kept(n)[q][d] <= local[n][q][d]
  BY KeptTypes DEF Types
<1> DEFINE new == [Kept(n) EXCEPT ![p][day] = @ + 1]
<1>2. /\ new \in [QuotaPrefixes -> [Days -> Nat]]
      /\ new[p][day] = Kept(n)[p][day] + 1
      /\ \A q \in QuotaPrefixes, d \in Days : q # p \/ d # day => new[q][d] = Kept(n)[q][d]
  BY <1>1
<1>3. local' = [local EXCEPT ![n] = new]
  OBVIOUS
<1> HIDE DEF new
<1>4. local'[n] = new /\ \A m \in Nodes \ {n} : local'[m] = local[m]
  BY <1>1, <1>3
<1>5. ASSUME NEW q \in QuotaPrefixes, NEW d \in Days PROVE new[q][d] <= Limit[q]
  <2>1. /\ Kept(n)[q][d] \in Nat /\ local[n][q][d] \in Nat /\ Limit[q] \in Nat
        /\ Kept(n)[q][d] <= local[n][q][d] /\ local[n][q][d] <= Limit[q]
    BY <1>1, Numbers DEF LocalInv
  <2>2. CASE q = p /\ d = day
    BY <1>1, <1>2, <2>1, <2>2
  <2>3. CASE q # p \/ d # day
    BY <1>2, <2>1, <2>3
  <2> QED
    BY <2>2, <2>3
<1>6. local' \in [Nodes -> [QuotaPrefixes -> [Days -> Nat]]]
  BY <1>1, <1>2, <1>3
<1> QED
  BY <1>1, <1>2, <1>4, <1>5, <1>6 DEF LocalInv

LEMMA LocalKeepsTypes ==
  ASSUME Types, CallInv, LocalInv, NEW r \in Requests, call[r].pc # "idle", CheckLocal(r),
         UNCHANGED <<day, starts, life, up>>
  PROVE  /\ local' \in [Nodes -> [QuotaPrefixes -> [Days -> Nat]]]
         /\ admitted' \in [QuotaPrefixes -> Nat] /\ alone' \in [QuotaPrefixes -> SUBSET (0 .. starts')]
         /\ call' \in [Requests -> Call] /\ CallInv' /\ LocalInv'
<1> DEFINE n == call[r].node
           p == call[r].prefix
<1>1. /\ n \in Nodes /\ n \in up /\ p \in QuotaPrefixes
      /\ \/ Moved(r, Idle) /\ UNCHANGED <<local, admitted, alone>>
         \/ /\ Moved(r, AfterGrant(r)) /\ local[n][p][day] < Limit[p]
            /\ local' = [local EXCEPT ![n] = [Kept(n) EXCEPT ![p][day] = @ + 1]]
            /\ admitted' = [admitted EXCEPT ![p] = @ + 1]
            /\ alone' = [alone EXCEPT ![p] = @ \cup {life[n]}]
  BY LocalDecision, ZenonT(40)
<1> HIDE DEF n, p
<1>2. call' \in [Requests -> Call] /\ CallInv'
  <2>1. PICK c \in Call : Moved(r, c) /\ (c = Idle \/ c = [call[r] EXCEPT !.pc = "mint"])
    BY <1>1, Records
  <2>2. call \in [Requests -> Call]
    BY DEF Types
  <2>3. c.pc # "idle" => c.node = call[r].node /\ c.prefix = call[r].prefix /\ c.day = call[r].day
    BY <2>1, Records DEF Call
  <2> QED
    BY <2>1, <2>2, <2>3 DEF Moved, CallInv
<1>3. CASE UNCHANGED <<local, admitted, alone>>
  BY <1>2, <1>3 DEF Types, LocalInv
<1>4. CASE /\ local[n][p][day] < Limit[p]
           /\ local' = [local EXCEPT ![n] = [Kept(n) EXCEPT ![p][day] = @ + 1]]
           /\ admitted' = [admitted EXCEPT ![p] = @ + 1]
           /\ alone' = [alone EXCEPT ![p] = @ \cup {life[n]}]
  <2>1. local' \in [Nodes -> [QuotaPrefixes -> [Days -> Nat]]] /\ LocalInv'
    BY <1>1, <1>4, Counted DEF LocalInv
  <2>2. life[n] \in 0 .. starts
    BY <1>1 DEF Types
  <2>3. alone' \in [QuotaPrefixes -> SUBSET (0 .. starts')]
    BY <1>1, <1>4, <2>2 DEF Types
  <2>4. admitted' \in [QuotaPrefixes -> Nat]
    BY <1>1, <1>4 DEF Types
  <2> QED
    BY <1>2, <2>1, <2>3, <2>4
<1> QED
  BY <1>1, <1>3, <1>4

\* The part of the invariant that does not count.
Base == Types /\ CallInv /\ LocalInv /\ LifeInv

LEMMA BaseInit == Init => Base
<1> SUFFICES ASSUME Init PROVE Base
  OBVIOUS
<1>1. NoCounts \in [QuotaPrefixes -> [Days -> Nat]] /\ \A p \in QuotaPrefixes, d \in Days : NoCounts[p][d] = 0
  BY DEF NoCounts
<1>2. Idle \in Call /\ Idle.pc = "idle"
  BY Numbers DEF Idle, Call
<1>3. Types
  BY <1>1, <1>2, Numbers, GatewayAssumption DEF Init, Types, KeyStates
<1>4. CallInv /\ LifeInv
  BY <1>2 DEF Init, CallInv, LifeInv
<1>5. LocalInv
  <2>1. \A n \in Nodes, p \in QuotaPrefixes, d \in Days : local[n][p][d] = 0
    BY <1>1 DEF Init
  <2> SUFFICES ASSUME NEW n \in Nodes, NEW p \in QuotaPrefixes, NEW d \in Days PROVE local[n][p][d] <= Limit[p]
    BY DEF LocalInv
  <2> QED
    BY <2>1, Numbers
<1> QED
  BY <1>3, <1>4, <1>5 DEF Base

LEMMA BaseInitialize ==
  ASSUME Base, NEW n \in Nodes, Initialize(n)
  PROVE  Base'
<1>1. /\ n \notin up /\ starts' = starts + 1 /\ life' = [life EXCEPT ![n] = starts + 1] /\ up' = up \cup {n}
      /\ linked' \subseteq linked \cup {n}
      /\ UNCHANGED <<day, memory, api_keys, local, shared, admitted, alone, call>>
  BY DEF Initialize, keyVars
<1>2. starts \in Nat /\ life \in [Nodes -> 0 .. starts] /\ up \subseteq Nodes /\ linked \subseteq up
  BY DEF Base, Types
<1>3. starts' \in Nat /\ life' \in [Nodes -> 0 .. starts'] /\ 0 .. starts \subseteq 0 .. starts'
  BY <1>1, <1>2
<1>4. Types'
  <2>1. alone' \in [QuotaPrefixes -> SUBSET (0 .. starts')]
    BY <1>1, <1>3 DEF Base, Types
  <2> QED
    BY <1>1, <1>2, <1>3, <2>1 DEF Base, Types
<1>5. LifeInv'
  <2>1. life'[n] = starts + 1 /\ \A m \in up : m # n /\ life'[m] = life[m] /\ life[m] \in 0 .. starts
    BY <1>1, <1>2
  <2>2. \A m \in up : life'[m] # life'[n]
    BY <1>2, <2>1
  <2> QED
    BY <1>1, <2>1, <2>2 DEF Base, LifeInv
<1>6. CallInv' /\ LocalInv'
  BY <1>1 DEF Base, CallInv, LocalInv
<1> QED
  BY <1>4, <1>5, <1>6 DEF Base

LEMMA BaseClose ==
  ASSUME Base, NEW n \in Nodes, Close(n)
  PROVE  Base'
<1>0. NoCounts \in [QuotaPrefixes -> [Days -> Nat]] /\ \A p \in QuotaPrefixes, d \in Days : NoCounts[p][d] = 0
  BY DEF NoCounts
<1>1. Idle \in Call /\ Idle.pc = "idle"
  BY Numbers DEF Idle, Call
<1>2. /\ call' \in [Requests -> Call]
      /\ \A r \in Requests : call'[r].pc # "idle" => call'[r] = call[r] /\ call[r].node # n
  BY <1>1 DEF Close, Base, Types
<1>3. Types'
  BY <1>0, <1>2 DEF Close, Base, Types
<1>4. CallInv'
  BY <1>2 DEF Close, Base, CallInv
<1>5. LocalInv'
  <2>1. \A m \in Nodes, p \in QuotaPrefixes, d \in Days : local'[m][p][d] = local[m][p][d] \/ local'[m][p][d] = 0
    BY <1>0 DEF Close, Base, Types
  <2> SUFFICES ASSUME NEW m \in Nodes, NEW p \in QuotaPrefixes, NEW d \in Days PROVE local'[m][p][d] <= Limit[p]
    BY DEF LocalInv
  <2>2. local[m][p][d] <= Limit[p]
    BY DEF Base, LocalInv
  <2> QED
    BY <2>1, <2>2, Numbers
<1>6. LifeInv'
  BY DEF Close, Base, LifeInv, Types
<1> QED
  BY <1>3, <1>4, <1>5, <1>6 DEF Base

LEMMA BaseMidnight ==
  ASSUME Base, Midnight
  PROVE  Base'
<1>1. day' \in Days /\ day' = day + 1 /\ day \in Nat
  BY Numbers DEF Midnight, Base, Types, Days
<1>2. shared' \in [QuotaPrefixes -> [Days -> Nat]]
  BY DEF Midnight, Base, Types
<1>3. Types'
  BY <1>1, <1>2 DEF Midnight, Base, Types, keyVars
<1>4. CallInv'
  <2>1. \A r \in Requests : call[r].day \in Nat
    BY Numbers DEF Base, Types, Call
  <2> QED
    BY <1>1, <2>1 DEF Midnight, Base, CallInv
<1>5. LocalInv' /\ LifeInv'
  BY DEF Midnight, Base, LocalInv, LifeInv
<1> QED
  BY <1>3, <1>4, <1>5 DEF Base

\* A request that begins.
LEMMA BaseBegins ==
  ASSUME Base, NEW r \in Requests, RegisterApiKey(r) \/ VerifyApiKey(r)
  PROVE  Base'
<1>1. PICK c \in Call : Moved(r, c) /\ c.node \in up /\ c.prefix \in QuotaPrefixes /\ c.day = 1
  <2>1. CASE RegisterApiKey(r)
    <3>1. PICK n \in up, ip \in Ips : Moved(r, [Idle EXCEPT !.pc = "limit", !.node = n, !.prefix = ip])
      BY <2>1 DEF RegisterApiKey, Moved
    <3>2. [Idle EXCEPT !.pc = "limit", !.node = n, !.prefix = ip] \in Call
      BY Numbers DEF Idle, Call, Base, Types, QuotaPrefixes
    <3> QED
      BY <3>1, <3>2 DEF Idle, QuotaPrefixes
  <2>2. CASE VerifyApiKey(r)
    <3>1. PICK n \in up, k \in Keys, raises \in BOOLEAN :
            Moved(r, [Idle EXCEPT !.pc = "limit", !.node = n, !.prefix = k,
                                  !.source = IF raises THEN "memory" ELSE "table",
                                  !.revoked = Row(k) = "revoked"])
      BY <2>2 DEF VerifyApiKey, Moved
    <3> DEFINE e == [Idle EXCEPT !.pc = "limit", !.node = n, !.prefix = k,
                                 !.source = IF raises THEN "memory" ELSE "table",
                                 !.revoked = Row(k) = "revoked"]
    <3>2. e \in Call
      BY Numbers DEF Idle, Call, Base, Types, QuotaPrefixes
    <3>3. e.node = n /\ e.prefix = k /\ e.day = 1 /\ Moved(r, e)
      BY <3>1 DEF Idle
    <3> HIDE DEF e
    <3> QED
      BY <3>2, <3>3 DEF QuotaPrefixes
  <2> QED
    BY <2>1, <2>2
<1>2. UNCHANGED <<day, starts, life, up, linked, memory, api_keys, local, shared, admitted, alone>>
  BY DEF RegisterApiKey, VerifyApiKey, keyVars, countVars
<1>3. call' \in [Requests -> Call]
  BY <1>1 DEF Base, Types, Moved
<1>4. Types' /\ LocalInv' /\ LifeInv'
  BY <1>2, <1>3 DEF Base, Types, LocalInv, LifeInv
<1>5. CallInv'
  <2>1. 1 <= day
    BY Numbers DEF Base, Types, Days
  <2> QED
    BY <1>1, <1>2, <2>1 DEF Base, Types, CallInv, Moved
<1> QED
  BY <1>4, <1>5 DEF Base

LEMMA BaseHandle ==
  ASSUME Base, NEW r \in Requests, CheckRateLimit(r) \/ ValkeyError(r)
  PROVE  Base'
<1>1. call[r].pc # "idle"
  BY DEF CheckRateLimit, ValkeyError
<1>2. CASE CheckLocal(r)
  <2>1. /\ UNCHANGED <<day, starts, life, up, memory, api_keys>>
        /\ linked' \subseteq linked /\ shared' \in [QuotaPrefixes -> [Days -> Nat]]
    <3>1. CASE CheckRateLimit(r)
      BY <3>1 DEF CheckRateLimit, keyVars, Base, Types
    <3>2. CASE ValkeyError(r)
      BY <3>2 DEF ValkeyError, keyVars, Base, Types, CallInv, Call
    <3> QED
      BY <3>1, <3>2
  <2>2. /\ local' \in [Nodes -> [QuotaPrefixes -> [Days -> Nat]]]
        /\ admitted' \in [QuotaPrefixes -> Nat] /\ alone' \in [QuotaPrefixes -> SUBSET (0 .. starts')]
        /\ call' \in [Requests -> Call] /\ CallInv' /\ LocalInv'
    BY <1>1, <1>2, <2>1, LocalKeepsTypes DEF Base
  <2>3. Types'
    BY <2>1, <2>2 DEF Base, Types
  <2>4. LifeInv'
    BY <2>1 DEF Base, LifeInv
  <2> QED
    BY <2>2, <2>3, <2>4 DEF Base
<1>3. CASE ~CheckLocal(r)
  <2>1. /\ Moved(r, [call[r] EXCEPT !.pc = "get", !.day = day])
        /\ UNCHANGED <<day, starts, life, up, linked, memory, api_keys, local, shared, admitted, alone>>
    BY <1>3 DEF CheckRateLimit, ValkeyError, keyVars, Moved
  <2>2. [call[r] EXCEPT !.pc = "get", !.day = day] \in Call
    BY DEF Base, Types, Call
  <2>3. Types' /\ LocalInv' /\ LifeInv'
    BY <2>1, <2>2 DEF Base, Types, LocalInv, LifeInv, Moved
  <2>4. CallInv'
    <3>1. day <= day
      BY Numbers DEF Base, Types
    <3> QED
      BY <1>1, <2>1, <3>1 DEF Base, Types, CallInv, Moved, Call
  <2> QED
    BY <2>3, <2>4 DEF Base
<1> QED
  BY <1>2, <1>3

LEMMA BaseShared ==
  ASSUME Base, NEW r \in Requests, Get(r) \/ Incr(r) \/ GenerateApiKey(r)
  PROVE  Base'
<1>1. call[r].pc # "idle" /\ call[r] \in Call /\ call \in [Requests -> Call]
  BY DEF Get, Incr, GenerateApiKey, Base, Types
<1>2. PICK c \in Call :
        /\ Moved(r, c)
        /\ c.pc # "idle" => c.node = call[r].node /\ c.prefix = call[r].prefix /\ c.day = call[r].day
  <2>1. /\ Idle \in Call /\ Idle.pc = "idle" /\ AfterGrant(r) \in Call
        /\ AfterGrant(r) = Idle \/ AfterGrant(r) = [call[r] EXCEPT !.pc = "mint"]
    BY <1>1, Records DEF Base
  <2>2. [call[r] EXCEPT !.pc = "incr"] \in Call
    BY <1>1 DEF Call
  <2>3. CASE Get(r)
    BY <2>1, <2>2, <2>3, <1>1 DEF Get, Moved, Call
  <2>4. CASE Incr(r)
    BY <2>1, <2>4, <1>1 DEF Incr, Moved, Call
  <2>5. CASE GenerateApiKey(r)
    BY <2>1, <2>5 DEF GenerateApiKey, Moved
  <2> QED
    BY <2>3, <2>4, <2>5
<1>3. UNCHANGED <<day, starts, life, up, linked, local, alone>>
  BY DEF Get, Incr, GenerateApiKey, keyVars, countVars
<1>4. /\ memory' \in [Nodes -> SUBSET Keys] /\ api_keys' \in [Keys -> KeyStates]
      /\ shared' \in [QuotaPrefixes -> [Days -> Nat]] /\ admitted' \in [QuotaPrefixes -> Nat]
  <2>1. CASE Get(r)
    BY <2>1 DEF Get, Base, Types, keyVars, countVars
  <2>2. CASE Incr(r)
    <3>1. call[r].prefix \in QuotaPrefixes /\ call[r].day \in Days
      BY <1>1 DEF Base, CallInv, Call
    <3>2. shared' \in [QuotaPrefixes -> [Days -> Nat]]
      BY <2>2, <3>1 DEF Incr, Base, Types
    <3>3. admitted' \in [QuotaPrefixes -> Nat]
      BY <2>2, <3>1 DEF Incr, Admit, Base, Types
    <3> QED
      BY <2>2, <3>2, <3>3 DEF Incr, Base, Types, keyVars
  <2>3. CASE GenerateApiKey(r)
    <3>1. PICK k \in Keys, raises, commits \in BOOLEAN :
            /\ IF commits THEN CreateKey(k) ELSE UNCHANGED api_keys
            /\ memory' = IF raises THEN memory ELSE [memory EXCEPT ![call[r].node] = @ \cup {k}]
      BY <2>3 DEF GenerateApiKey
    <3>2. memory' \in [Nodes -> SUBSET Keys] /\ api_keys' \in [Keys -> KeyStates]
      BY <3>1 DEF CreateKey, KeyStates, Base, Types
    <3> QED
      BY <2>3, <3>2 DEF GenerateApiKey, Base, Types, countVars
  <2> QED
    BY <2>1, <2>2, <2>3
<1>5. Types' /\ LocalInv' /\ LifeInv'
  BY <1>1, <1>2, <1>3, <1>4 DEF Base, Types, LocalInv, LifeInv, Moved
<1>6. CallInv'
  BY <1>1, <1>2, <1>3 DEF Base, Types, CallInv, Moved
<1> QED
  BY <1>5, <1>6 DEF Base

LEMMA BaseStep == Base /\ [Next]_vars => Base'
<1> SUFFICES ASSUME Base, [Next]_vars PROVE Base'
  OBVIOUS
<1>1. ASSUME NEW n \in Nodes, Initialize(n) \/ Close(n) PROVE Base'
  BY <1>1, BaseInitialize, BaseClose
<1>2. ASSUME NEW r \in Requests, Handle(r) PROVE Base'
  BY <1>2, BaseBegins, BaseHandle, BaseShared DEF Handle
<1>3. ASSUME NEW k \in Keys, CliGenerate(k) \/ RevokeKey(k) PROVE Base'
  <2>1. api_keys' \in [Keys -> KeyStates]
    BY <1>3 DEF CliGenerate, RevokeKey, CreateKey, SetInactive, Base, Types, KeyStates
  <2> QED
    BY <1>3, <2>1 DEF CliGenerate, RevokeKey, countVars, Base, Types, CallInv, LocalInv, LifeInv
<1>4. CASE Midnight
  BY <1>4, BaseMidnight
<1>5. CASE UNCHANGED vars
  BY <1>5 DEF vars, keyVars, countVars, Base, Types, CallInv, LocalInv, LifeInv
<1> QED
  BY <1>1, <1>2, <1>3, <1>4, <1>5 DEF Next

-----------------------------------------------------------------------------
(* What was let through.                                                   *)

Within(p) == admitted[p] + Cardinality(Slack(p)) <= shared[p][day] + Limit[p] * Cardinality(alone[p])

\* A prefix that a step leaves alone, or whose slack or shared counter it moves in the safe direction.
LEMMA WithinKept ==
  ASSUME Types, Types', NEW p \in QuotaPrefixes, Within(p), Slack(p)' \subseteq Slack(p),
         admitted'[p] = admitted[p], alone'[p] = alone[p], shared'[p][day'] >= shared[p][day]
  PROVE  Within(p)'
<1>1. IsFiniteSet(Slack(p)) /\ Cardinality(Slack(p)) \in Nat /\ Cardinality(Slack(p)') \in Nat
  BY SlackFinite, FS_Subset, FS_CardinalityType
<1>2. Cardinality(Slack(p)') <= Cardinality(Slack(p))
  BY <1>1, FS_Subset
<1> DEFINE bound == Limit[p] * Cardinality(alone[p])
<1>3. bound \in Nat /\ admitted[p] \in Nat /\ shared[p][day] \in Nat /\ shared'[p][day'] \in Nat
  BY Numbers, AloneFinite DEF Types
<1>4. admitted[p] + Cardinality(Slack(p)) <= shared[p][day] + bound
  BY DEF Within
<1>5. Within(p)' <=> admitted'[p] + Cardinality(Slack(p)') <= shared'[p][day'] + bound
  BY DEF Within
<1> HIDE DEF bound
<1> QED
  BY <1>1, <1>2, <1>3, <1>4, <1>5

\* The life of n counts alone already: its slack loses the request let through.
LEMMA WithinCounted ==
  ASSUME Types, NEW n \in up, NEW p \in QuotaPrefixes, Within(p), UNCHANGED <<day, life, up>>,
         local[n][p][day] \in Nat, local[n][p][day] < Limit[p],
         local'[n][p][day] = local[n][p][day] + 1,
         \A m \in Nodes \ {n} : local'[m] = local[m],
         admitted'[p] = admitted[p] + 1, alone'[p] = alone[p], life[n] \in alone[p],
         shared'[p][day] \in Nat, shared'[p][day] >= shared[p][day]
  PROVE  Within(p)'
<1> DEFINE x == <<n, local[n][p][day] + 1>>
<1>1. Limit[p] \in Nat
  BY Numbers
<1>2. x \in Slack(p)
  BY <1>1 DEF Slack
<1>3. Slack(p)' = Slack(p) \ {x}
  <2>1. \A m \in up \ {n} : local'[m] = local[m]
    BY DEF Types
  <2>2. ASSUME NEW m \in up, NEW i \in 1 .. Limit[p]
        PROVE  local'[m][p][day] < i <=> local[m][p][day] < i /\ <<m, i>> # x
    <3>1. CASE m = n
      BY <3>1, <1>1
    <3>2. CASE m # n
      BY <3>2, <2>1
    <3> QED BY <3>1, <3>2
  <2> HIDE DEF x
  <2> QED
    BY <2>2 DEF Slack
<1> HIDE DEF x
<1>4. IsFiniteSet(Slack(p)) /\ Cardinality(Slack(p)) \in Nat
  BY SlackFinite
<1>5. Cardinality(Slack(p)') = Cardinality(Slack(p)) - 1
  BY <1>2, <1>3, <1>4, FS_RemoveElement
<1> DEFINE bound == Limit[p] * Cardinality(alone[p])
<1>6. bound \in Nat /\ admitted[p] \in Nat /\ shared[p][day] \in Nat
  BY <1>1, AloneFinite DEF Types
<1>7. admitted[p] + Cardinality(Slack(p)) <= shared[p][day] + bound
  BY DEF Within
<1>8. Within(p)' <=> admitted'[p] + Cardinality(Slack(p)') <= shared'[p][day] + bound
  BY DEF Within
<1> HIDE DEF bound
<1> QED
  BY <1>4, <1>5, <1>6, <1>7, <1>8

\* The life of n counts alone from now on: it brings the limit of p with it.
LEMMA WithinFresh ==
  ASSUME Types, LifeInv, NEW n \in up, NEW p \in QuotaPrefixes, Within(p), UNCHANGED <<day, life, up>>,
         local[n][p][day] \in Nat, local[n][p][day] < Limit[p],
         local'[n][p][day] = local[n][p][day] + 1,
         \A m \in Nodes \ {n} : local'[m] = local[m],
         admitted'[p] = admitted[p] + 1, life[n] \notin alone[p], alone'[p] = alone[p] \cup {life[n]},
         shared'[p][day] \in Nat, shared'[p][day] >= shared[p][day]
  PROVE  Within(p)'
<1> DEFINE a == local[n][p][day] + 1
           T == {<<n, i>> : i \in a + 1 .. Limit[p]}
<1>1. Limit[p] \in Nat /\ a \in Nat /\ a <= Limit[p] /\ a >= 1
  BY Numbers
<1>2. Slack(p)' = Slack(p) \cup T
  <2>1. \A m \in up \ {n} : local'[m] = local[m] /\ (life[m] \in alone'[p] <=> life[m] \in alone[p])
    BY DEF Types, LifeInv
  <2>2. \A y \in T : y \in up \X (1 .. Limit[p]) /\ y[1] = n /\ a < y[2]
    BY <1>1
  <2>3. \A y \in up \X (1 .. Limit[p]) : y[1] = n /\ a < y[2] => y \in T
    BY <1>1
  <2>4. local'[n][p][day] = a /\ life[n] \in alone'[p]
    OBVIOUS
  <2> HIDE DEF T, a
  <2>5. \A y \in up \X (1 .. Limit[p]) : y \in Slack(p)' <=> y \in Slack(p) \cup T
    <3> SUFFICES ASSUME NEW m \in up, NEW i \in 1 .. Limit[p]
                 PROVE  <<m, i>> \in Slack(p)' <=> <<m, i>> \in Slack(p) \cup T
      OBVIOUS
    <3>1. /\ <<m, i>> \in Slack(p) <=> life[m] \in alone[p] /\ local[m][p][day] < i
          /\ <<m, i>> \in Slack(p)' <=> life[m] \in alone'[p] /\ local'[m][p][day] < i
      BY DEF Slack
    <3>2. <<m, i>> \in T <=> m = n /\ a < i
      BY <2>2, <2>3
    <3>3. CASE m = n
      BY <3>1, <3>2, <3>3, <2>4
    <3>4. CASE m # n
      BY <3>1, <3>2, <3>4, <2>1
    <3> QED BY <3>3, <3>4
  <2>6. Slack(p) \subseteq up \X (1 .. Limit[p]) /\ Slack(p)' \subseteq up \X (1 .. Limit[p])
    BY DEF Slack
  <2> QED
    BY <2>2, <2>5, <2>6
<1>3. IsFiniteSet(T) /\ Cardinality(T) \in Nat /\ Cardinality(T) <= Limit[p] - a
  <2> HIDE DEF a
  <2> QED BY <1>1, FreshSlack
<1>4. IsFiniteSet(Slack(p)) /\ Cardinality(Slack(p)) \in Nat
  BY SlackFinite
<1> HIDE DEF T
<1>5. Cardinality(Slack(p)') <= Cardinality(Slack(p)) + Cardinality(T) /\ Cardinality(Slack(p)') \in Nat
  <2>1. IsFiniteSet(Slack(p) \cap T) /\ Cardinality(Slack(p) \cap T) \in Nat
    BY <1>4, FS_Subset, FS_CardinalityType
  <2>2. /\ IsFiniteSet(Slack(p) \cup T)
        /\ Cardinality(Slack(p) \cup T) = Cardinality(Slack(p)) + Cardinality(T) - Cardinality(Slack(p) \cap T)
    BY <1>3, <1>4, FS_Union
  <2>3. Cardinality(Slack(p) \cup T) \in Nat
    BY <2>2, FS_CardinalityType
  <2> QED
    BY <1>2, <1>3, <1>4, <2>1, <2>2, <2>3
<1>6. IsFiniteSet(alone[p]) /\ Cardinality(alone[p]) \in Nat
  BY AloneFinite
<1>7. Cardinality(alone'[p]) = Cardinality(alone[p]) + 1
  BY <1>6, FS_AddElement, ZenonT(40)
<1> DEFINE bound == Limit[p] * Cardinality(alone[p])
<1>8. bound \in Nat /\ Limit[p] * (Cardinality(alone[p]) + 1) = bound + Limit[p]
  BY <1>1, <1>6
<1>9. admitted[p] \in Nat /\ shared[p][day] \in Nat
  BY DEF Types
<1>10. admitted[p] + Cardinality(Slack(p)) <= shared[p][day] + bound
  BY DEF Within
<1>11. Within(p)' <=> admitted'[p] + Cardinality(Slack(p)') <= shared'[p][day] + Limit[p] * Cardinality(alone'[p])
  BY DEF Within
<1> HIDE DEF bound, a
<1>12. Limit[p] * Cardinality(alone'[p]) = bound + Limit[p]
  BY <1>7, <1>8
<1> QED
  BY <1>1, <1>3, <1>4, <1>5, <1>8, <1>9, <1>10, <1>11, <1>12

\* The decision of the fallback counter.
LEMMA LocalQuota ==
  ASSUME Base, Base', QuotaInv, NEW r \in Requests, call[r].pc # "idle", CheckLocal(r),
         UNCHANGED <<day, starts, life, up>>,
         \A p \in QuotaPrefixes : shared'[p][day] >= shared[p][day]
  PROVE  QuotaInv'
<1> DEFINE n == call[r].node
           p == call[r].prefix
<1>1. /\ n \in Nodes /\ n \in up /\ p \in QuotaPrefixes
      /\ \/ Moved(r, Idle) /\ UNCHANGED <<local, admitted, alone>>
         \/ /\ Moved(r, AfterGrant(r)) /\ local[n][p][day] < Limit[p]
            /\ local' = [local EXCEPT ![n] = [Kept(n) EXCEPT ![p][day] = @ + 1]]
            /\ admitted' = [admitted EXCEPT ![p] = @ + 1]
            /\ alone' = [alone EXCEPT ![p] = @ \cup {life[n]}]
  BY LocalDecision, ZenonT(40) DEF Base
<1> HIDE DEF n, p
<1> SUFFICES ASSUME NEW q \in QuotaPrefixes PROVE Within(q)'
  BY DEF QuotaInv, Within
<1>2. Within(q) /\ Types /\ Types' /\ LifeInv /\ LocalInv
  BY DEF QuotaInv, Within, Base
<1>3. CASE UNCHANGED <<local, admitted, alone>>
  <2>1. Slack(q)' = Slack(q)
    BY <1>3 DEF Slack
  <2> QED
    BY <1>2, <1>3, <2>1, WithinKept
<1>4. CASE /\ local[n][p][day] < Limit[p]
           /\ local' = [local EXCEPT ![n] = [Kept(n) EXCEPT ![p][day] = @ + 1]]
           /\ admitted' = [admitted EXCEPT ![p] = @ + 1]
           /\ alone' = [alone EXCEPT ![p] = @ \cup {life[n]}]
  <2>1. /\ local'[n][p][day] = local[n][p][day] + 1
        /\ \A s \in QuotaPrefixes \ {p} : local'[n][s][day] = local[n][s][day]
        /\ \A m \in Nodes \ {n} : local'[m] = local[m]
    BY <1>1, <1>2, <1>4, Counted, ZenonT(40)
  <2>2. CASE q # p
    <3>1. admitted'[q] = admitted[q] /\ alone'[q] = alone[q]
      BY <1>2, <1>4, <2>2 DEF Types
    <3>2. \A m \in up : local'[m][q][day] = local[m][q][day]
      BY <1>2, <2>1, <2>2 DEF Types
    <3>3. Slack(q)' = Slack(q)
      BY <3>1, <3>2 DEF Slack
    <3> QED
      BY <1>2, <3>1, <3>3, WithinKept
  <2>3. CASE q = p
    <3>1. /\ admitted'[p] = admitted[p] + 1 /\ alone'[p] = alone[p] \cup {life[n]}
          /\ local[n][p][day] \in Nat /\ shared'[p][day] \in Nat
      BY <1>1, <1>2, <1>4 DEF Types
    <3>2. CASE life[n] \in alone[p]
      <4>1. alone'[p] = alone[p]
        BY <3>1, <3>2
      <4> QED
        BY <1>1, <1>2, <1>4, <2>1, <2>3, <3>1, <3>2, <4>1, WithinCounted
    <3>3. CASE life[n] \notin alone[p]
      BY <1>1, <1>2, <1>4, <2>1, <2>3, <3>1, <3>3, WithinFresh
    <3> QED BY <3>2, <3>3
  <2> QED BY <2>2, <2>3
<1> QED
  BY <1>1, <1>3, <1>4

LEMMA QuotaStep == Base /\ Base' /\ QuotaInv /\ [Next]_vars => QuotaInv'
<1> SUFFICES ASSUME Base, Base', QuotaInv, [Next]_vars PROVE QuotaInv'
  OBVIOUS
<1>0. Types /\ Types' /\ \A p \in QuotaPrefixes : Within(p)
  BY DEF Base, QuotaInv, Within
<1> DEFINE Steady(p) == /\ Slack(p)' \subseteq Slack(p) /\ admitted'[p] = admitted[p] /\ alone'[p] = alone[p]
                      /\ shared'[p][day'] >= shared[p][day]
<1>1. ASSUME \A p \in QuotaPrefixes : Steady(p) PROVE QuotaInv'
  BY <1>0, <1>1, WithinKept DEF QuotaInv, Within
<1>2. \A p \in QuotaPrefixes : shared[p][day] \in Nat /\ shared[p][day] >= shared[p][day]
  BY <1>0 DEF Types
<1>3. ASSUME NEW n \in Nodes, Initialize(n) PROVE QuotaInv'
  <2>1. /\ n \notin up /\ life' = [life EXCEPT ![n] = starts + 1] /\ up' = up \cup {n}
        /\ UNCHANGED <<day, local, shared, admitted, alone>>
    BY <1>3 DEF Initialize
  <2>2. \A p \in QuotaPrefixes : starts + 1 \notin alone[p]
    BY <1>0 DEF Types
  <2>3. \A m \in up : m # n /\ life'[m] = life[m] /\ life'[n] = starts + 1
    BY <1>0, <2>1 DEF Types
  <2>4. life'[n] = starts + 1
    BY <1>0, <2>1 DEF Types
  <2>5. \A p \in QuotaPrefixes : Slack(p)' \subseteq Slack(p)
    BY <2>1, <2>2, <2>3, <2>4 DEF Slack
  <2> QED
    BY <1>1, <1>2, <2>1, <2>5
<1>4. ASSUME NEW n \in Nodes, Close(n) PROVE QuotaInv'
  <2>1. /\ up' = up \ {n} /\ life' = [life EXCEPT ![n] = 0] /\ local' = [local EXCEPT ![n] = NoCounts]
        /\ UNCHANGED <<day, shared, admitted, alone>>
    BY <1>4 DEF Close
  <2>2. \A m \in up' : m \in up /\ life'[m] = life[m] /\ local'[m] = local[m]
    BY <1>0, <2>1 DEF Types
  <2>3. \A p \in QuotaPrefixes : Slack(p)' \subseteq Slack(p)
    BY <2>1, <2>2 DEF Slack
  <2> QED
    BY <1>1, <1>2, <2>1, <2>3
<1>5. ASSUME NEW r \in Requests, Handle(r) PROVE QuotaInv'
  <2>1. CASE \/ RegisterApiKey(r) \/ VerifyApiKey(r) \/ Get(r) \/ GenerateApiKey(r)
             \/ CheckRateLimit(r) /\ ~CheckLocal(r)
    <3>1. UNCHANGED <<day, life, up, local, shared, admitted, alone>>
      BY <2>1 DEF RegisterApiKey, VerifyApiKey, Get, GenerateApiKey, CheckRateLimit, keyVars, countVars
    <3>2. \A p \in QuotaPrefixes : Slack(p)' = Slack(p)
      BY <3>1 DEF Slack
    <3> QED
      BY <1>1, <1>2, <3>1, <3>2
  <2>2. CASE CheckRateLimit(r) /\ CheckLocal(r)
    <3>1. call[r].pc # "idle" /\ UNCHANGED <<day, starts, life, up, shared>>
      BY <2>2 DEF CheckRateLimit
    <3> QED
      BY <1>2, <2>2, <3>1, LocalQuota
  <2>3. CASE ValkeyError(r)
    <3>1. call[r].pc # "idle" /\ CheckLocal(r) /\ UNCHANGED <<day, starts, life, up>>
      BY <2>3 DEF ValkeyError
    <3>2. \/ shared' = shared
          \/ shared' = [shared EXCEPT ![call[r].prefix][call[r].day] = @ + 1]
      BY <2>3 DEF ValkeyError
    <3>3. \A p \in QuotaPrefixes : shared'[p][day] >= shared[p][day]
      <4>1. call[r].prefix \in QuotaPrefixes /\ call[r].day \in Days
        BY <3>1 DEF Base, CallInv, Types, Call
      <4>2. shared \in [QuotaPrefixes -> [Days -> Nat]] /\ day \in Days
        BY <1>0 DEF Types
      <4>3. CASE shared' = [shared EXCEPT ![call[r].prefix][call[r].day] = @ + 1]
        <5>1. \A p \in QuotaPrefixes : shared'[p][day] = shared[p][day] \/ shared'[p][day] = shared[p][day] + 1
          BY <4>1, <4>2, <4>3
        <5> QED
          BY <1>2, <5>1
      <4> QED
        BY <1>2, <3>2, <4>3
    <3> QED
      BY <3>1, <3>3, LocalQuota
  <2>4. CASE Incr(r)
    <3> DEFINE p == call[r].prefix
               d == call[r].day
    <3>1. /\ shared' = [shared EXCEPT ![p][d] = @ + 1]
          /\ admitted' = IF d = day THEN [admitted EXCEPT ![p] = @ + 1] ELSE admitted
          /\ UNCHANGED <<day, life, up, local, alone>>
      BY <2>4 DEF Incr, Admit
    <3>2. p \in QuotaPrefixes /\ d \in Days
      BY <2>4 DEF Incr, Base, CallInv, Types, Call
    <3> HIDE DEF p, d
    <3>3. \A q \in QuotaPrefixes : Slack(q)' = Slack(q)
      BY <3>1 DEF Slack
    <3> SUFFICES ASSUME NEW q \in QuotaPrefixes PROVE Within(q)'
      BY DEF QuotaInv, Within
    <3>4. CASE q = p /\ d = day
      <4>1. shared'[q][day] = shared[q][day] + 1 /\ admitted'[q] = admitted[q] + 1
        BY <1>0, <3>1, <3>2, <3>4 DEF Types
      <4> DEFINE bound == Limit[q] * Cardinality(alone[q])
      <4>2. /\ bound \in Nat /\ admitted[q] \in Nat /\ shared[q][day] \in Nat
            /\ Cardinality(Slack(q)) \in Nat
        BY <1>0, Numbers, AloneFinite, SlackFinite DEF Types
      <4>3. admitted[q] + Cardinality(Slack(q)) <= shared[q][day] + bound
        BY <1>0 DEF Within
      <4>4. Within(q)' <=> admitted'[q] + Cardinality(Slack(q)) <= shared'[q][day] + bound
        BY <3>1, <3>3 DEF Within
      <4> HIDE DEF bound
      <4> QED
        BY <4>1, <4>2, <4>3, <4>4
    <3>5. CASE q # p \/ d # day
      <4>1. shared'[q][day] = shared[q][day] /\ admitted'[q] = admitted[q]
        BY <1>0, <3>1, <3>2, <3>5 DEF Types
      <4> QED
        BY <1>0, <1>2, <3>1, <3>3, <4>1, WithinKept
    <3> QED BY <3>4, <3>5
  <2> QED
    BY <1>5, <2>1, <2>2, <2>3, <2>4 DEF Handle
<1>6. ASSUME NEW k \in Keys, CliGenerate(k) \/ RevokeKey(k) PROVE QuotaInv'
  <2>1. UNCHANGED <<day, life, up, local, shared, admitted, alone>>
    BY <1>6 DEF CliGenerate, RevokeKey, countVars
  <2>2. \A p \in QuotaPrefixes : Slack(p)' = Slack(p)
    BY <2>1 DEF Slack
  <2> QED
    BY <1>1, <1>2, <2>1, <2>2
<1>7. CASE Midnight
  <2>1. admitted' = [p \in QuotaPrefixes |-> 0] /\ alone' = [p \in QuotaPrefixes |-> {}]
    BY <1>7 DEF Midnight
  <2> SUFFICES ASSUME NEW p \in QuotaPrefixes PROVE Within(p)'
    BY DEF QuotaInv, Within
  <2>2. Slack(p)' = {}
    BY <2>1 DEF Slack
  <2>3. Cardinality({}) = 0 /\ Limit[p] * 0 = 0
    BY FS_EmptySet, Numbers
  <2>4. shared'[p][day'] \in Nat
    BY <1>0 DEF Types
  <2> QED
    BY <2>1, <2>2, <2>3, <2>4 DEF Within
<1>8. CASE UNCHANGED vars
  <2>1. UNCHANGED <<day, life, up, local, shared, admitted, alone>>
    BY <1>8 DEF vars, countVars
  <2>2. \A p \in QuotaPrefixes : Slack(p)' = Slack(p)
    BY <2>1 DEF Slack
  <2> QED
    BY <1>1, <1>2, <2>1, <2>2
<1> QED
  BY <1>3, <1>4, <1>5, <1>6, <1>7, <1>8 DEF Next

-----------------------------------------------------------------------------
(* The shared counter.                                                     *)

\* No request comes to be raising, and the counters stay.
LEMMA SharedKept ==
  ASSUME Types, SharedInv, UNCHANGED <<day, shared>>, \A p \in QuotaPrefixes : Raising(p)' \subseteq Raising(p)
  PROVE  SharedInv'
<1> SUFFICES ASSUME NEW p \in QuotaPrefixes
             PROVE  shared[p][day] + Cardinality(Raising(p)') <= Limit[p] + Cardinality(Requests) - 1
  BY DEF SharedInv
<1>1. /\ IsFiniteSet(Raising(p)) /\ Cardinality(Raising(p)) \in Nat
      /\ Cardinality(Raising(p)') \in Nat /\ Cardinality(Raising(p)') <= Cardinality(Raising(p))
  BY RaisingFinite, FS_Subset, FS_CardinalityType
<1>2. shared[p][day] \in Nat /\ Limit[p] \in Nat /\ Cardinality(Requests) \in Nat
  BY Numbers DEF Types
<1>3. shared[p][day] + Cardinality(Raising(p)) <= Limit[p] + Cardinality(Requests) - 1
  BY DEF SharedInv
<1> QED
  BY <1>1, <1>2, <1>3

\* The request r stops raising, whether it made its increment or not.
LEMMA SharedMoved ==
  ASSUME Types, CallInv, SharedInv, NEW r \in Requests, NEW c \in Call, Moved(r, c), c.pc # "incr",
         day' = day,
         \/ shared' = shared
         \/ /\ call[r].pc = "incr"
            /\ shared' = [shared EXCEPT ![call[r].prefix][call[r].day] = @ + 1]
  PROVE  SharedInv'
<1>1. \A p \in QuotaPrefixes : Raising(p)' = Raising(p) \ {r}
  BY DEF Types, Moved, Raising
<1>2. CASE shared' = shared
  BY <1>1, <1>2, SharedKept
<1>3. CASE /\ call[r].pc = "incr"
           /\ shared' = [shared EXCEPT ![call[r].prefix][call[r].day] = @ + 1]
  <2> DEFINE q == call[r].prefix
             d == call[r].day
  <2>1. q \in QuotaPrefixes /\ d \in Days /\ d <= day /\ day \in Days /\ Days \subseteq Nat
    BY <1>3, Numbers DEF CallInv, Types, Call
  <2>2. shared' = [shared EXCEPT ![q][d] = @ + 1] /\ shared \in [QuotaPrefixes -> [Days -> Nat]]
    BY <1>3 DEF Types
  <2>3. \A p \in QuotaPrefixes : r \in Raising(p) <=> p = q /\ d = day
    BY <1>3 DEF Raising
  <2> HIDE DEF q, d
  <2>4. \A p \in QuotaPrefixes, e \in Days : shared'[p][e] = IF p = q /\ e = d THEN shared[p][e] + 1 ELSE shared[p][e]
    BY <2>1, <2>2
  <2> SUFFICES ASSUME NEW p \in QuotaPrefixes
               PROVE  /\ shared'[p][day] + Cardinality(Raising(p)') <= Limit[p] + Cardinality(Requests) - 1
                      /\ \A e \in Days : e > day => shared'[p][e] = 0
    BY DEF SharedInv
  <2>5. \A e \in Days : e > day => shared'[p][e] = 0
    <3>1. \A e \in Days : e > day => e # d /\ shared[p][e] = 0
      BY <2>1 DEF SharedInv
    <3> QED
      BY <2>4, <3>1
  <2>6. /\ IsFiniteSet(Raising(p)) /\ Cardinality(Raising(p)) \in Nat
        /\ shared[p][day] \in Nat /\ Limit[p] \in Nat /\ Cardinality(Requests) \in Nat
        /\ shared[p][day] + Cardinality(Raising(p)) <= Limit[p] + Cardinality(Requests) - 1
    BY RaisingFinite, Numbers DEF SharedInv, Types
  <2>7. CASE p = q /\ d = day
    <3>1. shared'[p][day] = shared[p][day] + 1
      BY <2>1, <2>4, <2>7
    <3>2. Cardinality(Raising(p)') = Cardinality(Raising(p)) - 1
      BY <1>1, <2>3, <2>6, <2>7, FS_RemoveElement
    <3> QED
      BY <2>5, <2>6, <3>1, <3>2
  <2>8. CASE p # q \/ d # day
    <3>1. shared'[p][day] = shared[p][day]
      BY <2>1, <2>4, <2>8
    <3>2. Raising(p)' = Raising(p)
      BY <1>1, <2>3, <2>8
    <3> QED
      BY <2>5, <2>6, <3>1, <3>2
  <2> QED
    BY <2>7, <2>8
<1> QED
  BY <1>2, <1>3

LEMMA SharedStep == Base /\ SharedInv /\ [Next]_vars => SharedInv'
<1> SUFFICES ASSUME Base, SharedInv, [Next]_vars PROVE SharedInv'
  OBVIOUS
<1>0. Types /\ CallInv
  BY DEF Base
<1>1. ASSUME NEW n \in Nodes, Initialize(n) \/ Close(n) PROVE SharedInv'
  <2>1. Idle.pc # "incr"
    BY DEF Idle
  <2>2. \A r \in Requests : call'[r] = call[r] \/ call'[r] = Idle
    BY <1>1 DEF Initialize, Close
  <2>3. UNCHANGED <<day, shared>>
    BY <1>1 DEF Initialize, Close
  <2>4. \A p \in QuotaPrefixes : Raising(p)' \subseteq Raising(p)
    BY <2>1, <2>2, <2>3 DEF Raising
  <2> QED
    BY <1>0, <2>3, <2>4, SharedKept
<1>2. ASSUME NEW r \in Requests, Handle(r) PROVE SharedInv'
  <2>0. /\ Idle \in Call /\ Idle.pc = "idle"
        /\ call[r].pc # "idle" => AfterGrant(r) \in Call /\ AfterGrant(r).pc # "incr"
    <3>1. call[r].pc # "idle" => AfterGrant(r) = Idle \/ AfterGrant(r) = [call[r] EXCEPT !.pc = "mint"]
      BY <1>0, Records
    <3> QED
      BY <1>0, <3>1, Records DEF Types, Call
  <2>1. CASE RegisterApiKey(r) \/ VerifyApiKey(r)
    <3>1. call[r].pc = "idle" /\ UNCHANGED <<day, shared>>
      BY <2>1 DEF RegisterApiKey, VerifyApiKey, countVars
    <3>2. /\ call'[r].pc = "limit"
          /\ \A s \in Requests \ {r} : call'[s] = call[s]
      <4>1. CASE RegisterApiKey(r)
        BY <1>0, <4>1 DEF RegisterApiKey, Idle, Types
      <4>2. CASE VerifyApiKey(r)
        <5>1. PICK n \in up, k \in Keys, raises \in BOOLEAN :
                call' = [call EXCEPT ![r] = [Idle EXCEPT !.pc = "limit", !.node = n, !.prefix = k,
                                  !.source = IF raises THEN "memory" ELSE "table",
                                  !.revoked = Row(k) = "revoked"]]
          BY <4>2 DEF VerifyApiKey
        <5> DEFINE e == [Idle EXCEPT !.pc = "limit", !.node = n, !.prefix = k,
                                  !.source = IF raises THEN "memory" ELSE "table",
                                  !.revoked = Row(k) = "revoked"]
        <5>2. e.pc = "limit" /\ call' = [call EXCEPT ![r] = e]
          BY <5>1 DEF Idle
        <5> HIDE DEF e
        <5> QED
          BY <1>0, <5>2 DEF Types
      <4> QED
        BY <2>1, <4>1, <4>2
    <3>3. \A p \in QuotaPrefixes : Raising(p)' \subseteq Raising(p)
      BY <3>1, <3>2 DEF Raising
    <3> QED
      BY <1>0, <3>1, <3>3, SharedKept
  <2>2. CASE GenerateApiKey(r)
    <3>1. Moved(r, Idle) /\ UNCHANGED <<day, shared>>
      BY <2>2 DEF GenerateApiKey, Moved, countVars
    <3> QED
      BY <1>0, <2>0, <3>1, SharedMoved
  <2>3. CASE CheckRateLimit(r)
    <3>1. call[r].pc = "limit" /\ UNCHANGED <<day, shared>>
      BY <2>3 DEF CheckRateLimit
    <3>2. CASE CheckLocal(r)
      <4>1. Moved(r, Idle) \/ Moved(r, AfterGrant(r))
        BY <3>2 DEF CheckLocal, Moved
      <4> QED
        BY <1>0, <2>0, <3>1, <4>1, SharedMoved
    <3>3. CASE ~CheckLocal(r)
      <4>1. Moved(r, [call[r] EXCEPT !.pc = "get", !.day = day])
        BY <2>3, <3>3 DEF CheckRateLimit, Moved
      <4>2. [call[r] EXCEPT !.pc = "get", !.day = day] \in Call
        BY <1>0 DEF Types, Call
      <4>3. [call[r] EXCEPT !.pc = "get", !.day = day].pc # "incr"
        BY <1>0 DEF Types, Call
      <4> QED
        BY <1>0, <3>1, <4>1, <4>2, <4>3, SharedMoved
    <3> QED BY <3>2, <3>3
  <2>4. CASE Get(r)
    <3> DEFINE q == call[r].prefix
               d == call[r].day
    <3>1. /\ call[r].pc = "get" /\ UNCHANGED <<day, shared>>
          /\ \/ Moved(r, Idle)
             \/ Moved(r, [call[r] EXCEPT !.pc = "incr"]) /\ shared[q][d] < Limit[q]
      BY <2>4 DEF Get, Moved, countVars
    <3>2. CASE Moved(r, Idle)
      BY <1>0, <2>0, <3>1, <3>2, SharedMoved
    <3>3. CASE Moved(r, [call[r] EXCEPT !.pc = "incr"]) /\ shared[q][d] < Limit[q]
      <4>1. /\ \A s \in Requests \ {r} : call'[s] = call[s]
            /\ call'[r].prefix = q /\ call'[r].day = d
        BY <1>0, <3>3 DEF Moved, Types, Call
      <4> HIDE DEF q, d
      <4>2. ASSUME NEW p \in QuotaPrefixes, ~(p = q /\ d = day) PROVE Raising(p)' \subseteq Raising(p)
        <5> SUFFICES ASSUME NEW s, s \in Raising(p)' PROVE s \in Raising(p)
          BY Zenon
        <5>1. s \in Requests /\ call'[s].pc = "incr" /\ call'[s].prefix = p /\ call'[s].day = day
          BY <3>1 DEF Raising
        <5>2. s # r
          BY <4>1, <4>2, <5>1
        <5> QED
          BY <4>1, <5>1, <5>2 DEF Raising
      <4> SUFFICES ASSUME NEW p \in QuotaPrefixes
                   PROVE  shared[p][day] + Cardinality(Raising(p)') <= Limit[p] + Cardinality(Requests) - 1
        BY <3>1 DEF SharedInv
      <4>3. /\ IsFiniteSet(Raising(p)) /\ Cardinality(Raising(p)) \in Nat
            /\ shared[p][day] \in Nat /\ Limit[p] \in Nat /\ Cardinality(Requests) \in Nat
            /\ shared[p][day] + Cardinality(Raising(p)) <= Limit[p] + Cardinality(Requests) - 1
        BY <1>0, RaisingFinite, Numbers DEF SharedInv, Types
      <4>4. CASE Raising(p)' \subseteq Raising(p)
        <5>1. Cardinality(Raising(p)') \in Nat /\ Cardinality(Raising(p)') <= Cardinality(Raising(p))
          BY <4>3, <4>4, FS_Subset, FS_CardinalityType
        <5> QED
          BY <4>3, <5>1
      <4>5. CASE p = q /\ d = day
        <5>1. Raising(p)' \subseteq Requests /\ IsFiniteSet(Requests)
          BY GatewayAssumption DEF Raising
        <5>2. Cardinality(Raising(p)') \in Nat /\ Cardinality(Raising(p)') <= Cardinality(Requests)
          BY <5>1, FS_Subset, FS_CardinalityType
        <5> QED
          BY <3>3, <4>3, <4>5, <5>2
      <4> QED BY <4>2, <4>4, <4>5
    <3> QED BY <3>1, <3>2, <3>3
  <2>5. CASE Incr(r)
    <3>1. /\ Moved(r, AfterGrant(r)) /\ call[r].pc = "incr" /\ day' = day
          /\ shared' = [shared EXCEPT ![call[r].prefix][call[r].day] = @ + 1]
      BY <2>5 DEF Incr, Moved
    <3> QED
      BY <1>0, <2>0, <3>1, SharedMoved
  <2>6. CASE ValkeyError(r)
    <3>1. /\ call[r].pc # "idle" /\ day' = day /\ CheckLocal(r)
          /\ \/ shared' = shared
             \/ /\ call[r].pc = "incr"
                /\ shared' = [shared EXCEPT ![call[r].prefix][call[r].day] = @ + 1]
      BY <2>6 DEF ValkeyError
    <3>2. Moved(r, Idle) \/ Moved(r, AfterGrant(r))
      BY <3>1 DEF CheckLocal, Moved
    <3>3. CASE Moved(r, Idle)
      BY <1>0, <2>0, <3>1, <3>3, SharedMoved
    <3>4. CASE Moved(r, AfterGrant(r))
      BY <1>0, <2>0, <3>1, <3>4, SharedMoved
    <3> QED BY <3>2, <3>3, <3>4
  <2> QED
    BY <1>2, <2>1, <2>2, <2>3, <2>4, <2>5, <2>6 DEF Handle
<1>3. CASE Midnight
  <2>1. day' = day + 1 /\ day' \in Days /\ day \in Nat /\ Days \subseteq Nat
    BY <1>0, <1>3, Numbers DEF Midnight, Types, Days
  <2>2. \A p \in QuotaPrefixes, e \in Days : e # day => shared'[p][e] = shared[p][e]
    BY <1>0, <1>3 DEF Midnight, Types
  <2>3. \A p \in QuotaPrefixes, e \in Days : e >= day' => shared'[p][e] = 0
    <3> SUFFICES ASSUME NEW p \in QuotaPrefixes, NEW e \in Days, e >= day' PROVE shared'[p][e] = 0
      OBVIOUS
    <3>1. e > day /\ e # day
      BY <2>1
    <3> QED
      BY <2>2, <3>1 DEF SharedInv
  <2> SUFFICES ASSUME NEW p \in QuotaPrefixes
               PROVE  /\ shared'[p][day'] + Cardinality(Raising(p)') <= Limit[p] + Cardinality(Requests) - 1
                      /\ \A e \in Days : e > day' => shared'[p][e] = 0
    BY DEF SharedInv
  <2>4. Raising(p)' \subseteq Requests /\ IsFiniteSet(Requests)
    BY GatewayAssumption DEF Raising
  <2>5. /\ Cardinality(Raising(p)') \in Nat /\ Cardinality(Raising(p)') <= Cardinality(Requests)
        /\ Limit[p] \in Nat /\ Limit[p] > 0 /\ Cardinality(Requests) \in Nat
    BY <2>4, Numbers, FS_Subset, FS_CardinalityType
  <2>6. shared'[p][day'] = 0
    BY <2>1, <2>3
  <2>7. \A e \in Days : e > day' => shared'[p][e] = 0
    BY <2>1, <2>3
  <2> QED
    BY <2>5, <2>6, <2>7
<1>4. CASE \/ \E k \in Keys : CliGenerate(k) \/ RevokeKey(k)
           \/ UNCHANGED vars
  <2>1. UNCHANGED <<day, shared, call>>
    BY <1>4 DEF CliGenerate, RevokeKey, vars, countVars
  <2>2. \A p \in QuotaPrefixes : Raising(p)' = Raising(p)
    BY <2>1 DEF Raising
  <2> QED
    BY <1>0, <2>1, <2>2, SharedKept
<1> QED
  BY <1>1, <1>2, <1>3, <1>4 DEF Next

LEMMA CountsInit == Init => QuotaInv /\ SharedInv
<1> SUFFICES ASSUME Init PROVE QuotaInv /\ SharedInv
  OBVIOUS
<1>1. Base /\ Types
  BY BaseInit DEF Base
<1>2. day = 1 /\ \A p \in QuotaPrefixes : admitted[p] = 0 /\ alone[p] = {} /\ \A d \in Days : shared[p][d] = 0
  BY DEF Init, NoCounts
<1>3. \A r \in Requests : call[r].pc = "idle"
  BY DEF Init, Idle
<1>4. \A p \in QuotaPrefixes : Slack(p) = {} /\ Raising(p) = {}
  BY <1>2, <1>3 DEF Slack, Raising
<1>5. Cardinality({}) = 0 /\ \A p \in QuotaPrefixes : Limit[p] * 0 = 0
  BY FS_EmptySet, Numbers
<1>6. \A p \in QuotaPrefixes : shared[p][day] = 0 /\ Limit[p] > 0 /\ Limit[p] \in Nat
  BY <1>2, Numbers
<1>7. QuotaInv
  <2> SUFFICES ASSUME NEW p \in QuotaPrefixes
               PROVE  admitted[p] + Cardinality(Slack(p)) <= shared[p][day] + Limit[p] * Cardinality(alone[p])
    BY DEF QuotaInv
  <2>1. admitted[p] = 0 /\ Cardinality(Slack(p)) = 0 /\ Cardinality(alone[p]) = 0
    BY <1>2, <1>4, <1>5
  <2> QED
    BY <1>5, <1>6, <2>1
<1>8. SharedInv
  <2>1. Cardinality(Requests) \in Nat
    BY Numbers
  <2> SUFFICES ASSUME NEW p \in QuotaPrefixes
               PROVE  shared[p][day] + Cardinality(Raising(p)) <= Limit[p] + Cardinality(Requests) - 1
    BY <1>2 DEF SharedInv
  <2>2. Cardinality(Raising(p)) = 0
    BY <1>4, <1>5
  <2> QED
    BY <1>6, <2>1, <2>2
<1> QED
  BY <1>7, <1>8

-----------------------------------------------------------------------------
(* Every variable keeps its type, and no counter in the memory of a process *)
(* passes the limit: the full map that is cut back to the counters of today *)
(* loses none of them.                                                      *)
THEOREM TypeCorrect == Spec => []TypeOK
<1>1. Init => Base
  BY BaseInit
<1>2. Base /\ [Next]_vars => Base'
  BY BaseStep
<1>3. Base => TypeOK
  <2> SUFFICES ASSUME Base PROVE TypeOK
    OBVIOUS
  <2>1. \A p \in QuotaPrefixes, d \in Days :
          shared[p][d] \in Nat /\ \A n \in Nodes : local[n][p][d] \in 0 .. Limit[p]
    BY Numbers DEF Base, Types, LocalInv
  <2>2. \A r \in Requests :
          /\ call[r].pc \in {"idle", "limit", "get", "incr", "mint"}
          /\ call[r].day \in Days /\ call[r].source \in {"table", "memory", None}
          /\ call[r].pc # "idle" => call[r].node \in up /\ call[r].prefix \in QuotaPrefixes
    BY DEF Base, Types, CallInv, Call
  <2> QED
    BY <2>1, <2>2 DEF Base, Types, TypeOK
<1> QED
  BY <1>1, <1>2, <1>3, PTL DEF Spec

(* verify_api_key, check_registration_rate_limit: whatever requests         *)
(* interleave, whatever calls to Valkey fail, made or not, and however      *)
(* processes restart, a key gets through a day at most its limit once by    *)
(* the shared counter, exceeded by the requests that overlap, and once more *)
(* per process life that counts alone.                                      *)
THEOREM QuotaIsBounded == Spec => []QuotaHolds
<1> DEFINE I == Base /\ QuotaInv /\ SharedInv
<1>1. Init => I
  BY BaseInit, CountsInit
<1>2. I /\ [Next]_vars => I'
  BY BaseStep, QuotaStep, SharedStep
<1>3. I => QuotaHolds
  <2> SUFFICES ASSUME Base, QuotaInv, SharedInv, NEW p \in QuotaPrefixes
               PROVE  admitted[p] <= Limit[p] * (1 + Cardinality(alone[p])) + Cardinality(Requests) - 1
    BY DEF QuotaHolds
  <2>1. /\ Cardinality(alone[p]) \in Nat /\ Cardinality(Slack(p)) \in Nat /\ Cardinality(Raising(p)) \in Nat
        /\ Limit[p] \in Nat /\ Cardinality(Requests) \in Nat
        /\ admitted[p] \in Nat /\ shared[p][day] \in Nat
    BY AloneFinite, SlackFinite, RaisingFinite, Numbers DEF Base, Types
  <2> DEFINE bound == Limit[p] * Cardinality(alone[p])
  <2>2. bound \in Nat /\ Limit[p] * (1 + Cardinality(alone[p])) = Limit[p] + bound
    BY <2>1
  <2>3. admitted[p] + Cardinality(Slack(p)) <= shared[p][day] + bound
    BY DEF QuotaInv
  <2>4. shared[p][day] + Cardinality(Raising(p)) <= Limit[p] + Cardinality(Requests) - 1
    BY DEF SharedInv
  <2> HIDE DEF bound
  <2> QED
    BY <2>1, <2>2, <2>3, <2>4
<1> QED
  BY <1>1, <1>2, <1>3, PTL DEF Spec

-----------------------------------------------------------------------------
\* A call that was let in with a revoked key is a call in flight.
RevokedInFlight == \A r \in Requests : call[r].revoked => call[r].pc # "idle"

(* validate_key: whatever processes, requests and the command line do, a    *)
(* key revoked before it was looked up is served only by the process that   *)
(* minted it, and only when the look-up in the table raised.                *)
THEOREM RevocationIsFinal == Spec => []RevocationHolds
<1> DEFINE I == Base /\ RevokedInFlight /\ RevocationHolds
<1>1. Init => I
  BY BaseInit DEF Init, Idle, RevokedInFlight, RevocationHolds
<1>2. I /\ [Next]_vars => I'
  <2> SUFFICES ASSUME Base, RevokedInFlight, RevocationHolds, [Next]_vars
               PROVE  RevokedInFlight' /\ RevocationHolds'
    BY BaseStep
  <2>0. Types /\ CallInv /\ Idle.revoked = FALSE
    BY DEF Base, Idle
  \* Calls keep what was found when the key was looked up; copies only come.
  <2>1. ASSUME \A n \in up : memory[n] \subseteq memory'[n],
               \A r \in Requests : \/ call'[r].revoked = FALSE
                                   \/ /\ call[r].revoked => call'[r].pc # "idle" /\ call[r].node \in up
                                      /\ call'[r].revoked = call[r].revoked /\ call'[r].source = call[r].source
                                      /\ call'[r].node = call[r].node /\ call'[r].prefix = call[r].prefix
        PROVE  RevokedInFlight' /\ RevocationHolds'
    BY <2>1 DEF RevokedInFlight, RevocationHolds
  <2>2. \A r \in Requests : call[r].revoked \in BOOLEAN /\ (call[r].revoked => call[r].pc # "idle" /\ call[r].node \in up)
    BY <2>0 DEF RevokedInFlight, CallInv, Types, Call
  <2>3. ASSUME NEW n \in Nodes, Close(n) PROVE RevokedInFlight' /\ RevocationHolds'
    <3>1. /\ \A m \in Nodes \ {n} : memory'[m] = memory[m]
          /\ \A r \in Requests : call'[r] = IF call[r].node = n THEN Idle ELSE call[r]
      BY <2>0, <2>3 DEF Close, Types
    <3>2. up \subseteq Nodes
      BY <2>0 DEF Types
    <3> SUFFICES ASSUME NEW r \in Requests, call'[r].revoked
                 PROVE  /\ call'[r].pc # "idle" /\ call'[r].source = "memory"
                        /\ call'[r].prefix \in memory'[call'[r].node]
      BY DEF RevokedInFlight, RevocationHolds
    <3>3. call'[r] = call[r] /\ call[r].node # n
      BY <2>0, <3>1
    <3> QED
      BY <2>2, <3>1, <3>2, <3>3 DEF RevocationHolds
  <2>4. ASSUME NEW r \in Requests, Handle(r) PROVE RevokedInFlight' /\ RevocationHolds'
    <3>1. CASE VerifyApiKey(r)
      <4>1. PICK n \in up, k \in Keys, raises \in BOOLEAN :
              /\ ValidateKey(n, k, raises)
              /\ call' = [call EXCEPT ![r] = [Idle EXCEPT !.pc = "limit", !.node = n, !.prefix = k,
                                        !.source = IF raises THEN "memory" ELSE "table",
                                        !.revoked = Row(k) = "revoked"]]
        BY <3>1 DEF VerifyApiKey
      <4> DEFINE e == [Idle EXCEPT !.pc = "limit", !.node = n, !.prefix = k,
                                   !.source = IF raises THEN "memory" ELSE "table",
                                   !.revoked = Row(k) = "revoked"]
      <4>2. e.pc = "limit" /\ (e.revoked => e.source = "memory" /\ e.prefix \in memory[e.node])
        BY <4>1 DEF ValidateKey, Idle
      <4>3. call' = [call EXCEPT ![r] = e] /\ memory' = memory
        BY <3>1, <4>1 DEF VerifyApiKey, keyVars
      <4> HIDE DEF e
      <4>4. call'[r] = e /\ \A s \in Requests \ {r} : call'[s] = call[s]
        BY <2>0, <4>3 DEF Types
      <4> QED
        BY <4>2, <4>3, <4>4 DEF RevokedInFlight, RevocationHolds
    <3>2. CASE ~VerifyApiKey(r)
      <4>1. \A n \in up : memory[n] \subseteq memory'[n]
        <5>1. CASE GenerateApiKey(r)
          BY <2>0, <5>1 DEF GenerateApiKey, Types
        <5>2. CASE ~GenerateApiKey(r)
          BY <2>4, <3>2, <5>2
          DEF Handle, RegisterApiKey, CheckRateLimit, Get, Incr, ValkeyError, keyVars
        <5> QED BY <5>1, <5>2
      <4>2. PICK c \in Call :
              /\ Moved(r, c)
              /\ \/ c.revoked = FALSE
                 \/ /\ c.pc # "idle"
                    /\ c.revoked = call[r].revoked /\ c.source = call[r].source
                    /\ c.node = call[r].node /\ c.prefix = call[r].prefix
        <5>0. Idle \in Call /\ call[r] \in Call
          BY <2>0, Records DEF Types
        <5>1. CASE RegisterApiKey(r)
          <6>1. PICK n \in up, ip \in Ips : Moved(r, [Idle EXCEPT !.pc = "limit", !.node = n, !.prefix = ip])
            BY <5>1 DEF RegisterApiKey, Moved
          <6>2. [Idle EXCEPT !.pc = "limit", !.node = n, !.prefix = ip] \in Call
            BY <2>0, Numbers DEF Idle, Call, Types, QuotaPrefixes
          <6> QED
            BY <6>1, <6>2 DEF Idle
        <5>2. CASE Moved(r, Idle)
          BY <2>0, <5>0, <5>2
        <5>3. CASE Moved(r, [call[r] EXCEPT !.pc = "mint"])
          BY <5>0, <5>3 DEF Call
        <5>4. CASE Moved(r, [call[r] EXCEPT !.pc = "incr"])
          BY <5>0, <5>4 DEF Call
        <5>5. CASE Moved(r, [call[r] EXCEPT !.pc = "get", !.day = day])
          <6> DEFINE c == [call[r] EXCEPT !.pc = "get", !.day = day]
          <6>1. /\ c \in Call /\ c.pc # "idle"
                /\ c.revoked = call[r].revoked /\ c.source = call[r].source
                /\ c.node = call[r].node /\ c.prefix = call[r].prefix
            BY <2>0, <5>0 DEF Call, Types
          <6> HIDE DEF c
          <6> QED
            BY <5>5, <6>1 DEF c
        <5>6. Moved(r, AfterGrant(r)) => Moved(r, Idle) \/ Moved(r, [call[r] EXCEPT !.pc = "mint"])
          BY DEF AfterGrant
        <5>7. CheckLocal(r) => Moved(r, Idle) \/ Moved(r, AfterGrant(r))
          BY DEF CheckLocal, Moved
        <5>8. \/ RegisterApiKey(r) \/ Moved(r, Idle) \/ Moved(r, AfterGrant(r))
              \/ Moved(r, [call[r] EXCEPT !.pc = "incr"])
              \/ Moved(r, [call[r] EXCEPT !.pc = "get", !.day = day])
          BY <2>4, <3>2, <5>7 DEF Handle, CheckRateLimit, Get, Incr, ValkeyError, GenerateApiKey, Moved
        <5> QED
          BY <5>1, <5>2, <5>3, <5>4, <5>5, <5>6, <5>8
      <4>3. call'[r] = c /\ \A s \in Requests \ {r} : call'[s] = call[s]
        BY <2>0, <4>2 DEF Types, Moved
      <4> QED
        BY <2>1, <2>2, <4>1, <4>2, <4>3
    <3> QED BY <3>1, <3>2
  <2>5. CASE \/ \E n \in Nodes : Initialize(n)
             \/ \E k \in Keys : CliGenerate(k) \/ RevokeKey(k)
             \/ Midnight \/ UNCHANGED vars
    <3>1. UNCHANGED <<memory, call>>
      BY <2>5 DEF Initialize, CliGenerate, RevokeKey, Midnight, vars, keyVars
    <3> QED
      BY <3>1 DEF RevokedInFlight, RevocationHolds
  <2> QED
    BY <2>3, <2>4, <2>5 DEF Next
<1>3. I => RevocationHolds
  OBVIOUS
<1> QED
  BY <1>1, <1>2, <1>3, PTL DEF Spec

-----------------------------------------------------------------------------
(***************************************************************************)
(* The table of models.                                                    *)
(***************************************************************************)

\* The request for an overlay: whom it asks first, and who may answer it.
LEMMA OverlayProfile ==
  ASSUME NEW p \in Processes
  PROVE  LET pin == Settings[p].pin
             own == Settings[p].override["overlay"]
             asked == IF own \in {Unset, MODEL_OVERLAY} THEN MODEL_OVERLAY ELSE own IN
         /\ Payload[p]["overlay"].model = IF pin # Unset THEN pin ELSE asked
         /\ Served[p]["overlay"] =
              IF pin = Unset /\ own \in {Unset, MODEL_OVERLAY} THEN InChain(JOB_PROFILES["overlay"])
              ELSE {Payload[p]["overlay"].model}
<1> DEFINE pin == Settings[p].pin
           own == Settings[p].override["overlay"]
           prof == ProfileFor("overlay", own)
           base == JOB_PROFILES["overlay"]
<1>1. Profile(p, "overlay") = prof /\ "overlay" \in Jobs
  BY DEF Profile, Jobs, AIJob
<1>2. /\ Payload[p]["overlay"] = BuildPayload(prof, pin)
      /\ Served[p]["overlay"] = IF BuildPayload(prof, pin).models = {} THEN {BuildPayload(prof, pin).model}
                                ELSE BuildPayload(prof, pin).models
  BY <1>1 DEF Payload, Served
<1>3. /\ BuildPayload(prof, pin).model = IF pin # Unset THEN pin ELSE prof.model
      /\ BuildPayload(prof, pin).models = IF pin = Unset /\ prof.fallbacks # <<>> THEN InChain(prof) ELSE {}
  BY DEF BuildPayload, ModelFor
<1>4. base.model = MODEL_OVERLAY /\ base.fallbacks # <<>> /\ base.model \in InChain(base)
  BY DEF JOB_PROFILES, JobProfile, InChain
<1>5. CASE own \in {Unset, MODEL_OVERLAY}
  <2>1. prof = base
    BY <1>4, <1>5 DEF ProfileFor
  <2> HIDE DEF prof, base
  <2>2. InChain(prof) # {}
    BY <1>4, <2>1
  <2>3. QED
    BY <1>2, <1>3, <1>4, <1>5, <2>1, <2>2 DEF base
<1>6. CASE own \notin {Unset, MODEL_OVERLAY}
  <2>1. prof.model = own /\ prof.fallbacks = <<>>
    BY <1>4, <1>6 DEF ProfileFor, JobProfile
  <2> HIDE DEF prof, base
  <2>2. QED
    BY <1>2, <1>3, <1>6, <2>1
<1>7. QED
  BY <1>5, <1>6

LEMMA OverlayModels ==
  InChain(JOB_PROFILES["overlay"]) \subseteq ModelIds /\ MODEL_OVERLAY \in ModelIds
<1> DEFINE base == JOB_PROFILES["overlay"]
<1>1. base.model = MODEL_OVERLAY /\ base.fallbacks = <<FALLBACK_DEEPSEEK, FALLBACK_MINIMAX>>
  BY DEF JOB_PROFILES, JobProfile
<1>2. \A i \in DOMAIN base.fallbacks : base.fallbacks[i] \in {FALLBACK_DEEPSEEK, FALLBACK_MINIMAX}
  BY <1>1
<1>3. {MODEL_OVERLAY, FALLBACK_DEEPSEEK, FALLBACK_MINIMAX} \subseteq ModelIds
  BY DEF MODEL_OVERLAY, FALLBACK_DEEPSEEK, FALLBACK_MINIMAX, ModelIds
<1>4. QED
  BY <1>1, <1>2, <1>3 DEF InChain

LEMMA ServedAreNames ==
  ASSUME NEW p \in Processes
  PROVE  Payload[p]["overlay"].model \in ModelIds /\ Served[p]["overlay"] \subseteq ModelIds
<1>1. Settings[p].pin \in ModelIds \cup {Unset} /\ Settings[p].override["overlay"] \in ModelIds \cup {Unset}
  BY LlmAssumption DEF Setting, AIJob
<1>2. QED
  BY <1>1, OverlayModels, OverlayProfile

\* The model in a key tells whose overlays the processes that share the key may be handed.
LEMMA WritersByModel ==
  ASSUME NEW p \in Processes
  PROVE  /\ Writers(p) = IF Payload[p]["overlay"].model = MODEL_OVERLAY THEN InChain(JOB_PROFILES["overlay"])
                         ELSE {Payload[p]["overlay"].model}
         /\ Served[p]["overlay"] \subseteq Writers(p) /\ Writers(p) \subseteq ModelIds
<1> DEFINE pin == Settings[p].pin
           own == Settings[p].override["overlay"]
           model == Payload[p]["overlay"].model
           served == Served[p]["overlay"]
           chain == InChain(JOB_PROFILES["overlay"])
<1>1. MODEL_OVERLAY \in chain
  BY DEF JOB_PROFILES, JobProfile, InChain
<1>2. /\ model = IF pin # Unset THEN pin ELSE IF own \in {Unset, MODEL_OVERLAY} THEN MODEL_OVERLAY ELSE own
      /\ served = IF pin = Unset /\ own \in {Unset, MODEL_OVERLAY} THEN chain ELSE {model}
  BY OverlayProfile
<1>3. Writers(p) = IF pin = MODEL_OVERLAY THEN chain ELSE served
  BY DEF Writers
<1>4. MODEL_OVERLAY # Unset
  BY DEF MODEL_OVERLAY, Unset
<1>5. chain \subseteq ModelIds /\ served \subseteq ModelIds
  BY OverlayModels, ServedAreNames
<1> HIDE DEF pin, own, model, served, chain
<1>6. Writers(p) = IF model = MODEL_OVERLAY THEN chain ELSE {model}
  BY <1>2, <1>3, <1>4
<1>7. served \subseteq Writers(p)
  BY <1>1, <1>2, <1>3, <1>4
<1>8. Writers(p) \subseteq ModelIds
  BY <1>3, <1>5
<1>9. QED
  BY <1>6, <1>7, <1>8 DEF model, served, chain

(***************************************************************************)
(* The cache in memory.                                                    *)
(***************************************************************************)

Entry == [key : CacheKeys, value : Overlay]

Distinct(s) == \A i, j \in DOMAIN s : s[i].key = s[j].key => i = j

LEMMA WithoutKey ==
  ASSUME NEW E, NEW s \in Seq(E), Distinct(s), NEW key
  PROVE  /\ Without(s, key) \in Seq(E) /\ Distinct(Without(s, key))
         /\ Len(Without(s, key)) <= Len(s)
         /\ (\E i \in DOMAIN s : s[i].key = key) => Len(Without(s, key)) < Len(s)
         /\ \A i \in DOMAIN Without(s, key) : /\ Without(s, key)[i].key # key
                                              /\ \E j \in DOMAIN s : Without(s, key)[i] = s[j]
<1> DEFINE at == {i \in DOMAIN s : s[i].key = key}
<1>1. CASE at = {}
  <2>1. Without(s, key) = s
    BY <1>1 DEF Without
  <2>2. \A i \in DOMAIN s : s[i].key # key
    BY <1>1
  <2>3. QED
    BY <2>1, <2>2
<1>2. CASE at # {}
  <2> DEFINE k == CHOOSE i \in at : TRUE
             t == RemoveAt(s, k)
             n == Len(s)
  <2>1. k \in at
    BY <1>2
  <2>2. Without(s, key) = t
    BY <1>2 DEF Without
  <2> HIDE DEF k
  <2>3. k \in 1 .. n /\ s[k].key = key /\ n \in Nat /\ DOMAIN s = 1 .. n
    BY <2>1
  <2>4. /\ SubSeq(s, 1, k - 1) \in Seq(E) /\ Len(SubSeq(s, 1, k - 1)) = k - 1
        /\ \A i \in 1 .. (k - 1) : SubSeq(s, 1, k - 1)[i] = s[i]
    BY <2>3
  <2>5. /\ SubSeq(s, k + 1, n) \in Seq(E) /\ Len(SubSeq(s, k + 1, n)) = n - k
        /\ \A i \in 1 .. (n - k) : SubSeq(s, k + 1, n)[i] = s[k + i]
    BY <2>3
  <2> DEFINE a == SubSeq(s, 1, k - 1)
             b == SubSeq(s, k + 1, n)
  <2>6. t = a \o b
    BY DEF RemoveAt
  <2> HIDE DEF a, b, t, n
  <2>7. /\ a \in Seq(E) /\ Len(a) = k - 1 /\ \A i \in 1 .. (k - 1) : a[i] = s[i]
        /\ b \in Seq(E) /\ Len(b) = n - k /\ \A i \in 1 .. (n - k) : b[i] = s[k + i]
    BY <2>4, <2>5 DEF a, b
  <2>8. t \in Seq(E) /\ Len(t) = n - 1 /\ DOMAIN t = 1 .. (n - 1)
    <3>0. a \in Seq(E) /\ b \in Seq(E)
      BY <2>7
    <3>1. a \o b \in Seq(E) /\ Len(a \o b) = Len(a) + Len(b) /\ DOMAIN (a \o b) = 1 .. Len(a) + Len(b)
      BY ONLY <3>0
    <3>2. Len(a) + Len(b) = n - 1
      BY <2>3, <2>7
    <3>3. QED
      BY <2>6, <3>1, <3>2
  <2>9. ASSUME NEW i \in DOMAIN t
        PROVE  t[i] = s[IF i < k THEN i ELSE i + 1]
    <3>1. CASE i < k
      BY <2>3, <2>6, <2>7, <2>8, <3>1
    <3>2. CASE i >= k
      <4>1. t[i] = b[i - (k - 1)]
        BY <2>3, <2>6, <2>7, <2>8, <3>2
      <4>2. i - (k - 1) \in 1 .. (n - k) /\ k + (i - (k - 1)) = i + 1
        BY <2>3, <2>8, <3>2
      <4>3. b[i - (k - 1)] = s[k + (i - (k - 1))]
        BY <2>7, <4>2
      <4>4. QED
        BY <2>3, <2>8, <3>2, <4>1, <4>2, <4>3
    <3>3. QED
      BY <2>3, <2>8, <3>1, <3>2
  <2>10. ASSUME NEW i \in DOMAIN t
         PROVE  \E j \in DOMAIN s : t[i] = s[j] /\ j # k
    <3> DEFINE m == IF i < k THEN i ELSE i + 1
    <3>1. m \in DOMAIN s /\ m # k
      BY <2>3, <2>8
    <3>2. t[i] = s[m]
      BY <2>9
    <3> HIDE DEF m
    <3>3. QED
      BY <3>1, <3>2
  <2>11. Distinct(t)
    <3>1. SUFFICES ASSUME NEW i \in DOMAIN t, NEW j \in DOMAIN t, t[i].key = t[j].key
                   PROVE  i = j
      BY DEF Distinct
    <3> DEFINE x(m) == IF m < k THEN m ELSE m + 1
    <3>2. x(i) \in DOMAIN s /\ x(j) \in DOMAIN s /\ s[x(i)].key = s[x(j)].key
      BY <2>3, <2>8, <2>9, <3>1
    <3>3. x(i) = x(j)
      BY <3>2 DEF Distinct
    <3>4. QED
      BY <2>3, <2>8, <3>3
  <2>12. \A i \in DOMAIN t : t[i].key # key
    BY <2>3, <2>10 DEF Distinct
  <2>13. QED
    BY <2>2, <2>3, <2>8, <2>10, <2>11, <2>12 DEF n
<1>3. QED
  BY <1>1, <1>2

LEMMA EntryAdded ==
  ASSUME NEW E, NEW s \in Seq(E), Distinct(s), NEW e \in E
  PROVE  LET t == Append(Without(s, e.key), e) IN
         /\ t \in Seq(E) /\ Distinct(t) /\ Len(t) <= Len(s) + 1 /\ Len(t) > 0
         /\ (\E i \in DOMAIN s : s[i].key = e.key) => Len(t) <= Len(s)
         /\ \A i \in DOMAIN t : t[i] = e \/ \E j \in DOMAIN s : t[i] = s[j]
<1> DEFINE w == Without(s, e.key)
           t == Append(w, e)
           n == Len(w)
<1>1. /\ w \in Seq(E) /\ Distinct(w) /\ n <= Len(s)
      /\ (\E i \in DOMAIN s : s[i].key = e.key) => n < Len(s)
      /\ \A i \in DOMAIN w : w[i].key # e.key /\ \E j \in DOMAIN s : w[i] = s[j]
  BY WithoutKey
<1> HIDE DEF w
<1>2. /\ t \in Seq(E) /\ Len(t) = n + 1 /\ n \in Nat /\ Len(s) \in Nat
      /\ DOMAIN t = 1 .. n + 1 /\ DOMAIN w = 1 .. n /\ t[n + 1] = e
      /\ \A i \in 1 .. n : t[i] = w[i]
  BY <1>1
<1> HIDE DEF t, n
<1>3. \A i \in DOMAIN t : i \in DOMAIN w \/ i = n + 1
  BY <1>2
<1>4. Distinct(t)
  BY <1>1, <1>2, <1>3 DEF Distinct
<1>5. \A i \in DOMAIN t : t[i] = e \/ \E j \in DOMAIN s : t[i] = s[j]
  BY <1>1, <1>2, <1>3
<1>6. QED
  BY <1>1, <1>2, <1>4, <1>5 DEF t, w, n

LEMMA TailDistinct ==
  ASSUME NEW E, NEW t \in Seq(E), Distinct(t), Len(t) > 0
  PROVE  /\ Tail(t) \in Seq(E) /\ Distinct(Tail(t)) /\ Len(Tail(t)) = Len(t) - 1
         /\ \A i \in DOMAIN Tail(t) : \E j \in DOMAIN t : Tail(t)[i] = t[j]
<1> DEFINE u == Tail(t)
           n == Len(t)
<1>1. /\ u \in Seq(E) /\ Len(u) = n - 1 /\ n \in Nat /\ DOMAIN t = 1 .. n /\ DOMAIN u = 1 .. n - 1
      /\ \A i \in 1 .. n - 1 : u[i] = t[i + 1]
  OBVIOUS
<1> HIDE DEF u, n
<1>2. \A i \in DOMAIN u : i + 1 \in DOMAIN t /\ u[i] = t[i + 1]
  BY <1>1
<1>3. Distinct(u)
  <2>1. SUFFICES ASSUME NEW i \in DOMAIN u, NEW j \in DOMAIN u, u[i].key = u[j].key
                 PROVE  i = j
    BY DEF Distinct
  <2>2. i + 1 \in DOMAIN t /\ j + 1 \in DOMAIN t /\ t[i + 1].key = t[j + 1].key
    BY <1>2, <2>1
  <2>3. i + 1 = j + 1
    BY <2>2 DEF Distinct
  <2>4. i \in Int /\ j \in Int
    BY <1>1
  <2>5. QED
    BY <2>3, <2>4
<1>4. QED
  BY <1>1, <1>2, <1>3 DEF u, n

(***************************************************************************)
(* The invariant.                                                          *)
(***************************************************************************)

\* An entry may be handed to every process and page its key stands for.
Fits(key, value) ==
  \A v \in Asked : v[2] = "overlay" /\ key = MakeKey(v[1], v[3]) =>
    value.sample = Sample[v[3]] /\ value.by \in Writers(v[1])

LruInv ==
  /\ lru \in [Processes -> Seq(Entry)]
  /\ \A p \in Processes :
       /\ Len(lru[p]) <= result_cache_maxsize /\ Distinct(lru[p])
       /\ \A i \in DOMAIN lru[p] : Fits(lru[p][i].key, lru[p][i].value)

ValkeyInv ==
  /\ valkey \in [CacheKeys -> Overlay \cup {Missing}]
  /\ \A key \in CacheKeys : valkey[key] # Missing => Fits(key, valkey[key])

BreakerInv ==
  /\ provider \in [Processes -> Providers]
  /\ failure_count \in [Processes -> 0 .. breaker_threshold] /\ offline \in [Processes -> BOOLEAN]

\* What is known of a call by where it stands.
Stands(x) ==
  /\ x.pc \in {"idle"} <=> x.job = "none"
  /\ x.pc # "idle" => <<x.process, x.job, x.page>> \in Asked
  /\ x.pc \in {"lookup", "store"} => x.job = "overlay"
  /\ x.pc \in {"lookup", "queued", "post", "sleep", "store"} => provider[x.process] = "openrouter"
  /\ x.pc = "local" => provider[x.process] = "local"
  /\ x.pc = "sleep" => x.attempt < max_retries
  /\ x.answer # Missing => x.pc \in {"store", "done"}

\* Its answer is of its page and of a model whose overlays it may be handed.
Answers(x) ==
  x.job = "overlay" /\ x.answer # Missing =>
    /\ x.answer.sample = Sample[x.page]
    /\ x.answer.by \in IF provider[x.process] = "local" THEN {"local"} ELSE Writers(x.process)

CallsInv ==
  /\ inflight \in [Calls -> CallState]
  /\ \A c \in Calls : Stands(inflight[c]) /\ Answers(inflight[c])

SlotsInv == \A p \in Processes : Cardinality(Posting(p)) <= max_concurrency

ProviderInv == LruInv /\ ValkeyInv /\ BreakerInv /\ CallsInv /\ SlotsInv

LEMMA AskedParts ==
  ASSUME NEW v \in Asked
  PROVE  v[1] \in Processes /\ v[2] \in Jobs /\ v[3] \in Pages /\ v = <<v[1], v[2], v[3]>>
BY LlmAssumption

LEMMA KeyIsKept ==
  ASSUME NEW p, NEW page, <<p, "overlay", page>> \in Asked
  PROVE  MakeKey(p, page) \in CacheKeys /\ p \in Processes /\ page \in Pages
<1> DEFINE v == <<p, "overlay", page>>
<1>1. v \in {w \in Asked : w[2] = "overlay"} /\ v[1] = p /\ v[3] = page
  OBVIOUS
<1> HIDE DEF v
<1>2. MakeKey(v[1], v[3]) \in CacheKeys /\ v[1] \in Processes /\ v[3] \in Pages
  BY <1>1, AskedParts DEF CacheKeys
<1>3. QED
  BY <1>1, <1>2

\* What fits a key was written for its page, by a model the process that asks may meet.
LEMMA FitsThePage ==
  ASSUME NEW p, NEW page, <<p, "overlay", page>> \in Asked, NEW value, Fits(MakeKey(p, page), value)
  PROVE  value.sample = Sample[page] /\ value.by \in Writers(p)
<1> DEFINE v == <<p, "overlay", page>>
<1>1. v \in Asked /\ v[1] = p /\ v[2] = "overlay" /\ v[3] = page
  OBVIOUS
<1> HIDE DEF v
<1>2. QED
  BY <1>1 DEF Fits

\* An answer fits every key that equals its own.
LEMMA FreshFits ==
  ASSUME NEW p, NEW page, <<p, "overlay", page>> \in Asked, NEW m \in Writers(p)
  PROVE  /\ [by |-> m, sample |-> Sample[page]] \in Overlay
         /\ Fits(MakeKey(p, page), [by |-> m, sample |-> Sample[page]])
<1>1. p \in Processes /\ page \in Pages
  BY KeyIsKept
<1>2. m \in ModelIds /\ Sample[page] \in Samples
  BY <1>1, WritersByModel DEF Samples
<1>3. ASSUME NEW v \in Asked, v[2] = "overlay", MakeKey(p, page) = MakeKey(v[1], v[3])
      PROVE  Sample[page] = Sample[v[3]] /\ m \in Writers(v[1])
  <2>1. v[1] \in Processes
    BY AskedParts
  <2>2. Payload[p]["overlay"].model = Payload[v[1]]["overlay"].model /\ Sample[page] = Sample[v[3]]
    BY <1>3 DEF MakeKey
  <2>3. QED
    BY <1>1, <2>1, <2>2, WritersByModel
<1>4. QED
  BY <1>2, <1>3 DEF Overlay, Fits

LEMMA CallMoves ==
  ASSUME CallsInv, SlotsInv, UNCHANGED provider, NEW c \in Calls, NEW x \in CallState,
         inflight' = [inflight EXCEPT ![c] = x], Stands(x), Answers(x),
         x.pc \in {"post", "sleep"} => \/ Cardinality(Posting(x.process)) < max_concurrency
                                       \/ c \in Posting(x.process)
  PROVE  CallsInv' /\ SlotsInv'
<1>1. /\ inflight' \in [Calls -> CallState]
      /\ \A d \in Calls : inflight'[d] = IF d = c THEN x ELSE inflight[d]
  BY DEF CallsInv
<1>2. ASSUME NEW d \in Calls
      PROVE  Stands(inflight[d])' /\ Answers(inflight[d])'
  <2>1. Stands(inflight'[d]) /\ Answers(inflight'[d])
    BY <1>1 DEF CallsInv
  <2>2. QED
    BY <2>1 DEF Stands, Answers
<1>3. ASSUME NEW p \in Processes
      PROVE  Cardinality(Posting(p)') <= max_concurrency
  <2>1. IsFiniteSet(Posting(p)) /\ Cardinality(Posting(p)) \in Nat /\ Cardinality(Posting(p)) <= max_concurrency
    <3>1. Posting(p) \subseteq Calls
      BY DEF Posting
    <3>2. QED
      BY <3>1, LlmAssumption, FS_Subset, FS_CardinalityType DEF SlotsInv
  <2>2. max_concurrency \in Nat
    BY LlmAssumption
  <2>3. Posting(p)' \subseteq Posting(p) \cup {c}
    BY <1>1 DEF Posting
  <2>4. CASE c \notin Posting(p)' \/ c \in Posting(p)
    <3>1. Posting(p)' \subseteq Posting(p)
      BY <2>3, <2>4
    <3>2. Cardinality(Posting(p)') <= Cardinality(Posting(p)) /\ Cardinality(Posting(p)') \in Nat
      BY <2>1, <3>1, FS_Subset, FS_CardinalityType
    <3>3. QED
      BY <2>1, <2>2, <3>2
  <2>5. CASE c \in Posting(p)' /\ c \notin Posting(p)
    <3>1. x.process = p /\ x.pc \in {"post", "sleep"}
      BY <1>1, <2>5 DEF Posting
    <3>2. Cardinality(Posting(p)) < max_concurrency
      BY <2>5, <3>1
    <3>3. Posting(p)' = Posting(p) \cup {c} \/ Posting(p)' \subseteq Posting(p) \cup {c}
      BY <2>3
    <3>4. IsFiniteSet(Posting(p) \cup {c}) /\ Cardinality(Posting(p) \cup {c}) = Cardinality(Posting(p)) + 1
      BY <2>1, <2>5, FS_AddElement
    <3>5. Cardinality(Posting(p)') <= Cardinality(Posting(p) \cup {c}) /\ Cardinality(Posting(p)') \in Nat
      BY <2>3, <3>4, FS_Subset, FS_CardinalityType
    <3>6. QED
      BY <2>1, <2>2, <3>2, <3>4, <3>5
  <2>6. QED
    BY <2>4, <2>5
<1>4. QED
  BY <1>1, <1>2, <1>3 DEF CallsInv, SlotsInv

\* A step that touches no call.
LEMMA CallsRest ==
  ASSUME CallsInv, SlotsInv, UNCHANGED <<provider, inflight>>
  PROVE  CallsInv' /\ SlotsInv'
BY DEF CallsInv, SlotsInv, Posting, Stands, Answers

\* The list of one process is replaced by one as sound.
LEMMA LruMoves ==
  ASSUME LruInv, NEW p \in Processes, NEW t \in Seq(Entry), lru' = [lru EXCEPT ![p] = t],
         Len(t) <= result_cache_maxsize, Distinct(t), \A i \in DOMAIN t : Fits(t[i].key, t[i].value)
  PROVE  LruInv'
<1>1. lru' \in [Processes -> Seq(Entry)] /\ \A q \in Processes : lru'[q] = IF q = p THEN t ELSE lru[q]
  BY DEF LruInv
<1>2. ASSUME NEW q \in Processes
      PROVE  /\ Len(lru'[q]) <= result_cache_maxsize /\ Distinct(lru'[q])
             /\ \A i \in DOMAIN lru'[q] : Fits(lru'[q][i].key, lru'[q][i].value)
  BY <1>1 DEF LruInv
<1>3. QED
  BY <1>1, <1>2 DEF LruInv, Distinct

LEMMA PutKeepsLru ==
  ASSUME LruInv, NEW p \in Processes, NEW e \in Entry, Fits(e.key, e.value), Put(p, e)
  PROVE  LruInv'
<1> DEFINE s == lru[p]
           t == Append(Without(s, e.key), e)
           u == IF Len(t) > result_cache_maxsize THEN Tail(t) ELSE t
<1>1. /\ s \in Seq(Entry) /\ Len(s) <= result_cache_maxsize /\ Distinct(s)
      /\ \A i \in DOMAIN s : Fits(s[i].key, s[i].value)
  BY DEF LruInv
<1>2. lru' = [lru EXCEPT ![p] = u]
  BY DEF Put
<1> HIDE DEF s
<1>3. /\ t \in Seq(Entry) /\ Distinct(t) /\ Len(t) <= Len(s) + 1 /\ Len(t) > 0
      /\ \A i \in DOMAIN t : t[i] = e \/ \E j \in DOMAIN s : t[i] = s[j]
  BY <1>1, EntryAdded
<1> HIDE DEF t
<1>4. \A i \in DOMAIN t : Fits(t[i].key, t[i].value)
  BY <1>1, <1>3
<1>5. result_cache_maxsize \in Nat /\ Len(s) \in Nat /\ Len(t) \in Nat
  BY <1>1, <1>3, LlmAssumption
<1>6. /\ Tail(t) \in Seq(Entry) /\ Distinct(Tail(t)) /\ Len(Tail(t)) = Len(t) - 1
      /\ \A i \in DOMAIN Tail(t) : \E j \in DOMAIN t : Tail(t)[i] = t[j]
  BY <1>3, TailDistinct
<1> DEFINE r == Tail(t)
<1>7. u = IF Len(t) > result_cache_maxsize THEN r ELSE t
  OBVIOUS
<1>8. r \in Seq(Entry) /\ Distinct(r) /\ Len(r) = Len(t) - 1 /\ \A i \in DOMAIN r : Fits(r[i].key, r[i].value)
  <2> HIDE DEF r
  <2>1. \A i \in DOMAIN r : \E j \in DOMAIN t : r[i] = t[j]
    BY <1>6 DEF r
  <2>2. \A i \in DOMAIN r : Fits(r[i].key, r[i].value)
    BY <1>4, <2>1
  <2>3. QED
    BY <1>6, <2>2 DEF r
<1> HIDE DEF r, u
<1>9. CASE Len(t) > result_cache_maxsize
  <2>1. Len(r) <= result_cache_maxsize
    BY <1>1, <1>3, <1>5, <1>8
  <2>2. QED
    BY <1>2, <1>7, <1>8, <1>9, <2>1, LruMoves
<1>10. CASE ~(Len(t) > result_cache_maxsize)
  <2>1. Len(t) <= result_cache_maxsize
    BY <1>5, <1>10
  <2>2. QED
    BY <1>2, <1>3, <1>4, <1>7, <1>10, <2>1, LruMoves
<1>11. QED
  BY <1>9, <1>10

LEMMA TouchKeepsLru ==
  ASSUME LruInv, NEW p \in Processes, NEW m \in DOMAIN lru[p], NEW e \in Entry, e = lru[p][m], Touch(p, e)
  PROVE  LruInv'
<1> DEFINE s == lru[p]
           t == Append(Without(s, e.key), e)
<1>1. /\ s \in Seq(Entry) /\ Len(s) <= result_cache_maxsize /\ Distinct(s)
      /\ \A i \in DOMAIN s : Fits(s[i].key, s[i].value)
  BY DEF LruInv
<1>2. lru' = [lru EXCEPT ![p] = t]
  BY DEF Touch
<1>3. m \in DOMAIN s /\ e = s[m]
  OBVIOUS
<1> HIDE DEF s
<1>5. /\ t \in Seq(Entry) /\ Distinct(t) /\ Len(t) > 0
      /\ (\E i \in DOMAIN s : s[i].key = e.key) => Len(t) <= Len(s)
      /\ \A i \in DOMAIN t : t[i] = e \/ \E j \in DOMAIN s : t[i] = s[j]
  <2>0. e \in Entry
    OBVIOUS
  <2>1. /\ t \in Seq(Entry) /\ Distinct(t) /\ Len(t) <= Len(s) + 1 /\ Len(t) > 0
        /\ \A i \in DOMAIN t : t[i] = e \/ \E j \in DOMAIN s : t[i] = s[j]
    BY ONLY <1>1, <2>0, EntryAdded
  <2>2. (\E i \in DOMAIN s : s[i].key = e.key) => Len(t) <= Len(s)
    BY <1>1, EntryAdded
  <2>3. QED
    BY <2>1, <2>2
<1>6. \E i \in DOMAIN s : s[i].key = e.key
  BY <1>3
<1> HIDE DEF t
<1>7. \A j \in DOMAIN t : Fits(t[j].key, t[j].value)
  BY <1>1, <1>3, <1>5
<1>8. Len(t) <= result_cache_maxsize
  <2>1. Len(t) \in Nat /\ Len(s) \in Nat /\ result_cache_maxsize \in Nat /\ Len(t) <= Len(s)
    BY <1>1, <1>5, <1>6, LlmAssumption
  <2>2. QED
    BY <1>1, <2>1
<1>9. QED
  BY <1>2, <1>5, <1>7, <1>8, LruMoves

LEMMA FailureCounts ==
  ASSUME BreakerInv, NEW p \in Processes, RecordFailure(p), UNCHANGED provider
  PROVE  BreakerInv'
<1> DEFINE count == IF failure_count[p] < breaker_threshold THEN failure_count[p] + 1 ELSE breaker_threshold
<1>1. count \in 0 .. breaker_threshold
  BY LlmAssumption DEF BreakerInv
<1>2. /\ failure_count' = [failure_count EXCEPT ![p] = count]
      /\ offline' = [offline EXCEPT ![p] = TRUE] \/ offline' = offline
  BY DEF RecordFailure
<1> HIDE DEF count
<1>3. failure_count' \in [Processes -> 0 .. breaker_threshold]
  BY <1>1, <1>2 DEF BreakerInv
<1>4. offline' \in [Processes -> BOOLEAN]
  BY <1>2 DEF BreakerInv
<1>5. QED
  BY <1>3, <1>4 DEF BreakerInv

LEMMA SuccessCounts ==
  ASSUME BreakerInv, NEW p \in Processes, RecordSuccess(p), UNCHANGED provider
  PROVE  BreakerInv'
<1>1. failure_count' = [failure_count EXCEPT ![p] = 0] /\ 0 \in 0 .. breaker_threshold /\ offline' = offline
  BY LlmAssumption DEF RecordSuccess
<1>2. QED
  BY <1>1 DEF BreakerInv

LEMMA BreakerRests ==
  ASSUME BreakerInv, UNCHANGED <<provider, breakerVars>>
  PROVE  BreakerInv'
BY DEF BreakerInv, breakerVars

LEMMA LruRests ==
  ASSUME LruInv, UNCHANGED lru
  PROVE  LruInv'
BY DEF LruInv, Distinct

LEMMA ValkeyRests ==
  ASSUME ValkeyInv, UNCHANGED valkey
  PROVE  ValkeyInv'
BY DEF ValkeyInv

LEMMA Begins ==
  ASSUME ProviderInv, NEW c \in Calls, inflight[c].pc = "idle", Ask(c)
  PROVE  ProviderInv'
<1>1. PICK v \in Asked :
        LET p == v[1]
            job == v[2]
            page == v[3] IN
        \/ /\ provider[p] = "noop"
           /\ inflight' = [inflight EXCEPT ![c] = At("done", p, job, page, Missing)] /\ UNCHANGED lru
        \/ /\ provider[p] = "local"
           /\ inflight' = [inflight EXCEPT ![c] = At("local", p, job, page, Missing)] /\ UNCHANGED lru
        \/ /\ provider[p] = "openrouter" /\ job # "overlay"
           /\ StartCall(c, p, job, page) /\ UNCHANGED lru
        \/ /\ provider[p] = "openrouter" /\ job = "overlay" /\ Held(p, MakeKey(p, page)) = {}
           /\ inflight' = [inflight EXCEPT ![c] = At("lookup", p, job, page, Missing)] /\ UNCHANGED lru
        \/ /\ provider[p] = "openrouter" /\ job = "overlay"
           /\ \E e \in Held(p, MakeKey(p, page)) :
                /\ Touch(p, e)
                /\ inflight' = [inflight EXCEPT ![c] = At("done", p, job, page, e.value)]
  BY DEF Ask
<1> DEFINE p == v[1]
           job == v[2]
           page == v[3]
           at(pc, answer) == At(pc, p, job, page, answer)
<1>2. p \in Processes /\ job \in Jobs /\ page \in Pages /\ v = <<p, job, page>> /\ job # "none"
  BY AskedParts DEF Jobs, AIJob
<1>3. UNCHANGED <<provider, breakerVars, valkey>>
  BY DEF Ask
<1>4. PICK pc \in {"done", "local", "queued", "lookup"}, answer \in Overlay \cup {Missing} :
        /\ inflight' = [inflight EXCEPT ![c] = at(pc, answer)]
        /\ answer # Missing => /\ pc = "done" /\ job = "overlay" /\ provider[p] = "openrouter"
                               /\ Fits(MakeKey(p, page), answer)
        /\ pc = "lookup" => job = "overlay"
        /\ pc \in {"lookup", "queued"} => provider[p] = "openrouter"
        /\ pc = "local" => provider[p] = "local"
        /\ LruInv'
  <2>1. CASE /\ provider[p] = "noop"
             /\ inflight' = [inflight EXCEPT ![c] = at("done", Missing)] /\ UNCHANGED lru
    BY <2>1, LruRests DEF ProviderInv
  <2>2. CASE /\ provider[p] = "local"
             /\ inflight' = [inflight EXCEPT ![c] = at("local", Missing)] /\ UNCHANGED lru
    BY <2>2, LruRests DEF ProviderInv
  <2>3. CASE provider[p] = "openrouter" /\ job # "overlay" /\ StartCall(c, p, job, page) /\ UNCHANGED lru
    <3>1. PICK pc \in {"done", "queued"} : inflight' = [inflight EXCEPT ![c] = at(pc, Missing)]
      BY <2>3 DEF StartCall, At
    <3>2. QED
      BY <2>3, <3>1, LruRests DEF ProviderInv
  <2>4. CASE /\ provider[p] = "openrouter" /\ job = "overlay"
             /\ inflight' = [inflight EXCEPT ![c] = at("lookup", Missing)] /\ UNCHANGED lru
    BY <2>4, LruRests DEF ProviderInv
  <2>5. CASE /\ provider[p] = "openrouter" /\ job = "overlay"
             /\ \E e \in Held(p, MakeKey(p, page)) :
                  Touch(p, e) /\ inflight' = [inflight EXCEPT ![c] = at("done", e.value)]
    <3>1. PICK e \in Held(p, MakeKey(p, page)) :
            Touch(p, e) /\ inflight' = [inflight EXCEPT ![c] = at("done", e.value)]
      BY <2>5
    <3>2. PICK m \in DOMAIN lru[p] : e = lru[p][m] /\ e.key = MakeKey(p, page)
      BY <3>1 DEF Held, ToSet
    <3>3. e \in Entry /\ Fits(e.key, e.value)
      BY <1>2, <3>2 DEF ProviderInv, LruInv
    <3>4. LruInv'
      BY <1>2, <3>1, <3>2, <3>3, TouchKeepsLru DEF ProviderInv
    <3>5. e.value \in Overlay
      BY <3>3 DEF Entry
    <3>6. QED
      BY <2>5, <3>1, <3>2, <3>3, <3>4, <3>5
  <2>6. QED
    BY <1>1, <2>1, <2>2, <2>3, <2>4, <2>5
<1> DEFINE x == at(pc, answer)
<1>5. /\ x.pc = pc /\ x.process = p /\ x.job = job /\ x.page = page /\ x.attempt = 0 /\ x.answer = answer
      /\ x \in CallState
  <2>1. 0 \in 0 .. max_retries
    BY LlmAssumption
  <2>2. QED
    BY <1>2, <2>1 DEF At, CallState
<1>6. inflight' = [inflight EXCEPT ![c] = x]
  BY <1>4
<1> HIDE DEF x, at, p, job, page
<1>7. Stands(x)
  BY <1>2, <1>4, <1>5 DEF Stands
<1>8. Answers(x)
  <2>1. SUFFICES ASSUME job = "overlay", answer # Missing
                 PROVE  answer.sample = Sample[page] /\ answer.by \in Writers(p) /\ provider[p] = "openrouter"
    BY <1>5 DEF Answers
  <2>2. <<p, "overlay", page>> \in Asked
    BY <1>2, <2>1
  <2>3. QED
    BY <1>4, <2>1, <2>2, FitsThePage
<1>9. CallsInv' /\ SlotsInv'
  BY <1>3, <1>4, <1>5, <1>6, <1>7, <1>8, CallMoves DEF ProviderInv
<1>10. QED
  BY <1>3, <1>4, <1>9, BreakerRests, ValkeyRests DEF ProviderInv

\* What is known of a call in flight.
LEMMA InFlight ==
  ASSUME CallsInv, NEW c \in Calls, inflight[c].pc # "idle"
  PROVE  /\ inflight[c] \in CallState /\ Stands(inflight[c]) /\ Answers(inflight[c])
         /\ <<inflight[c].process, inflight[c].job, inflight[c].page>> \in Asked
         /\ inflight[c].process \in Processes /\ inflight[c].job \in Jobs /\ inflight[c].page \in Pages
<1>1. inflight[c] \in CallState /\ Stands(inflight[c]) /\ Answers(inflight[c])
  BY DEF CallsInv
<1>2. <<inflight[c].process, inflight[c].job, inflight[c].page>> \in Asked
  BY <1>1 DEF Stands
<1>3. QED
  BY <1>1, <1>2, AskedParts

\* A call is answered, or gets no answer.
LEMMA AnswerComes ==
  ASSUME CallsInv, SlotsInv, UNCHANGED provider, NEW c \in Calls, inflight[c].pc # "idle",
         NEW pc \in {"store", "done"}, NEW answer \in Overlay \cup {Missing}, AnsweredAt(c, pc, answer),
         pc = "store" => inflight[c].job = "overlay" /\ provider[inflight[c].process] = "openrouter",
         inflight[c].job = "overlay" /\ answer # Missing =>
           /\ answer.sample = Sample[inflight[c].page]
           /\ answer.by \in IF provider[inflight[c].process] = "local" THEN {"local"}
                            ELSE Writers(inflight[c].process)
  PROVE  CallsInv' /\ SlotsInv'
<1> DEFINE y == inflight[c]
           x == At(pc, y.process, y.job, y.page, answer)
<1>1. /\ <<y.process, y.job, y.page>> \in Asked
      /\ y.process \in Processes /\ y.job \in Jobs /\ y.page \in Pages
  BY InFlight
<1>2. /\ x.pc = pc /\ x.process = y.process /\ x.job = y.job /\ x.page = y.page /\ x.answer = answer
      /\ x \in CallState
  <2>1. 0 \in 0 .. max_retries
    BY LlmAssumption
  <2>2. QED
    BY <1>1, <2>1 DEF At, CallState
<1>3. inflight' = [inflight EXCEPT ![c] = x]
  BY DEF AnsweredAt, CallsInv
<1>4. y.job # "none"
  BY <1>1 DEF Jobs, AIJob
<1> HIDE DEF x
<1>5. Stands(x)
  BY <1>1, <1>2, <1>4 DEF Stands
<1>6. Answers(x)
  BY <1>2 DEF Answers
<1>7. QED
  BY <1>2, <1>3, <1>5, <1>6, CallMoves

LEMMA LookupKeeps ==
  ASSUME ProviderInv, NEW c \in Calls, Lookup(c)
  PROVE  ProviderInv'
<1> DEFINE p == inflight[c].process
           page == inflight[c].page
           key == MakeKey(p, page)
<1>1. inflight[c].pc = "lookup" /\ UNCHANGED <<provider, breakerVars, valkey>>
  BY DEF Lookup
<1>2. /\ inflight[c].job = "overlay" /\ provider[p] = "openrouter"
      /\ <<p, "overlay", page>> \in Asked /\ p \in Processes /\ page \in Pages
  BY <1>1, InFlight DEF ProviderInv, Stands
<1>3. key \in CacheKeys
  BY <1>2, KeyIsKept
<1>4. LruInv' /\ CallsInv' /\ SlotsInv'
  <2>1. CASE /\ valkey[key] # Missing
             /\ Put(p, [key |-> key, value |-> valkey[key]]) /\ Answered(c, valkey[key])
    <3>1. valkey[key] \in Overlay /\ Fits(key, valkey[key])
      BY <1>3, <2>1 DEF ProviderInv, ValkeyInv
    <3> DEFINE e == [key |-> key, value |-> valkey[key]]
    <3>2. e \in Entry /\ e.key = key /\ e.value = valkey[key] /\ Put(p, e)
      BY <1>3, <2>1, <3>1 DEF Entry
    <3> HIDE DEF e, key, p
    <3>3. LruInv'
      BY <1>2, <3>1, <3>2, PutKeepsLru DEF ProviderInv
    <3>4. valkey[key].sample = Sample[page] /\ valkey[key].by \in Writers(p)
      BY <1>2, <3>1, FitsThePage DEF key
    <3>5. AnsweredAt(c, "done", valkey[key])
      BY <2>1 DEF Answered
    <3>6. CallsInv' /\ SlotsInv'
      BY <1>1, <1>2, <3>1, <3>4, <3>5, AnswerComes DEF ProviderInv, p
    <3>7. QED
      BY <3>3, <3>6
  <2>2. CASE StartCall(c, p, "overlay", page) /\ UNCHANGED lru
    <3>1. PICK pc \in {"done", "queued"} : inflight' = [inflight EXCEPT ![c] = At(pc, p, "overlay", page, Missing)]
      BY <2>2 DEF StartCall
    <3> DEFINE x == At(pc, p, "overlay", page, Missing)
    <3>2. /\ x.pc = pc /\ x.process = p /\ x.job = "overlay" /\ x.page = page /\ x.answer = Missing
          /\ x \in CallState
      <4>1. 0 \in 0 .. max_retries /\ "overlay" \in Jobs
        BY LlmAssumption DEF Jobs, AIJob
      <4>2. QED
        BY <1>2, <4>1 DEF At, CallState
    <3>3. inflight' = [inflight EXCEPT ![c] = x]
      BY <3>1
    <3> HIDE DEF x, p
    <3>4. Stands(x) /\ Answers(x)
      BY <1>2, <3>2 DEF Stands, Answers
    <3>5. CallsInv' /\ SlotsInv'
      BY <1>1, <3>2, <3>3, <3>4, CallMoves DEF ProviderInv
    <3>6. QED
      BY <2>2, <3>5, LruRests DEF ProviderInv
  <2>3. QED
    BY <2>1, <2>2 DEF Lookup
<1>5. QED
  BY <1>1, <1>4, BreakerRests, ValkeyRests DEF ProviderInv

\* The call goes on towards the next attempt.
LEMMA AttemptComes ==
  ASSUME CallsInv, SlotsInv, UNCHANGED provider, NEW c \in Calls,
         inflight[c].pc \in {"queued", "post", "sleep"},
         NEW pc \in {"post", "sleep"}, NEW n \in 0 .. max_retries, pc = "sleep" => n < max_retries,
         inflight' = [inflight EXCEPT ![c] = [@ EXCEPT !.pc = pc, !.attempt = n]],
         inflight[c].pc = "queued" => Cardinality(Posting(inflight[c].process)) < max_concurrency
  PROVE  CallsInv' /\ SlotsInv'
<1> DEFINE y == inflight[c]
           x == [y EXCEPT !.pc = pc, !.attempt = n]
<1>1. /\ y \in CallState /\ Stands(y) /\ Answers(y) /\ y.process \in Processes
  BY InFlight
<1>2. /\ x.pc = pc /\ x.process = y.process /\ x.job = y.job /\ x.page = y.page /\ x.answer = y.answer
      /\ x.attempt = n /\ x \in CallState
  BY <1>1 DEF CallState
<1>3. inflight' = [inflight EXCEPT ![c] = x]
  BY DEF CallsInv
<1>4. y.pc # "queued" => c \in Posting(y.process)
  BY DEF Posting
<1> HIDE DEF x
<1>5. Stands(x)
  BY <1>1, <1>2 DEF Stands
<1>6. Answers(x)
  BY <1>1, <1>2 DEF Answers
<1>7. QED
  BY <1>2, <1>3, <1>4, <1>5, <1>6, CallMoves

LEMMA EnterKeeps ==
  ASSUME ProviderInv, NEW c \in Calls, Enter(c)
  PROVE  ProviderInv'
<1>1. /\ inflight[c].pc = "queued" /\ Cardinality(Posting(inflight[c].process)) < max_concurrency
      /\ inflight' = [inflight EXCEPT ![c] = [@ EXCEPT !.pc = "post", !.attempt = 1]]
      /\ UNCHANGED <<provider, breakerVars, cacheVars>>
  BY DEF Enter, ProviderInv, CallsInv, CallState
<1>2. 1 \in 0 .. max_retries
  BY LlmAssumption
<1>3. CallsInv' /\ SlotsInv'
  BY <1>1, <1>2, AttemptComes DEF ProviderInv
<1>4. QED
  BY <1>1, <1>3, BreakerRests, ValkeyRests, LruRests DEF ProviderInv, cacheVars

LEMMA SleepKeeps ==
  ASSUME ProviderInv, NEW c \in Calls, Sleep(c)
  PROVE  ProviderInv'
<1> DEFINE n == inflight[c].attempt + 1
<1>1. /\ inflight[c].pc = "sleep"
      /\ inflight' = [inflight EXCEPT ![c] = [@ EXCEPT !.pc = "post", !.attempt = n]]
      /\ UNCHANGED <<provider, breakerVars, cacheVars>>
  BY DEF Sleep, ProviderInv, CallsInv, CallState
<1>2. n \in 0 .. max_retries
  <2>1. inflight[c].attempt < max_retries /\ inflight[c].attempt \in 0 .. max_retries
    BY <1>1, InFlight DEF ProviderInv, Stands, CallState
  <2>2. QED
    BY <2>1, LlmAssumption
<1> HIDE DEF n
<1>3. CallsInv' /\ SlotsInv'
  BY <1>1, <1>2, AttemptComes DEF ProviderInv
<1>4. QED
  BY <1>1, <1>3, BreakerRests, ValkeyRests, LruRests DEF ProviderInv, cacheVars

LEMMA GivesUp ==
  ASSUME ProviderInv, NEW c \in Calls, inflight[c].pc = "post",
         Answered(c, Missing), RecordFailure(inflight[c].process), UNCHANGED <<provider, cacheVars>>
  PROVE  ProviderInv'
<1>1. inflight[c].process \in Processes
  BY InFlight DEF ProviderInv
<1>2. CallsInv' /\ SlotsInv'
  BY AnswerComes DEF ProviderInv, Answered
<1>3. QED
  BY <1>1, <1>2, FailureCounts, ValkeyRests, LruRests DEF ProviderInv, cacheVars

LEMMA PostFailsKeeps ==
  ASSUME ProviderInv, NEW c \in Calls, PostFails(c)
  PROVE  ProviderInv'
<1>1. inflight[c].pc = "post" /\ UNCHANGED <<provider, cacheVars>>
  BY DEF PostFails
<1>2. CASE Retries(c)
  <2> DEFINE n == inflight[c].attempt
  <2>1. inflight[c] \in CallState
    BY <1>1, InFlight DEF ProviderInv
  <2>2. n \in 0 .. max_retries /\ n < max_retries
    BY <1>2, <2>1 DEF Retries, CallState
  <2>3. inflight' = [inflight EXCEPT ![c] = [@ EXCEPT !.pc = "sleep", !.attempt = n]] /\ UNCHANGED breakerVars
    BY <1>2, <2>1 DEF PostFails, Goto, CallState, ProviderInv, CallsInv
  <2> HIDE DEF n
  <2>4. CallsInv' /\ SlotsInv'
    BY <1>1, <2>2, <2>3, AttemptComes DEF ProviderInv
  <2>5. QED
    BY <1>1, <2>3, <2>4, BreakerRests, ValkeyRests, LruRests DEF ProviderInv, cacheVars
<1>3. CASE ~Retries(c)
  BY <1>1, <1>3, GivesUp DEF PostFails
<1>4. QED
  BY <1>2, <1>3

LEMMA PostAnswersKeeps ==
  ASSUME ProviderInv, NEW c \in Calls, PostAnswers(c)
  PROVE  ProviderInv'
<1> DEFINE p == inflight[c].process
           page == inflight[c].page
<1>1. inflight[c].pc = "post" /\ RecordSuccess(p) /\ UNCHANGED <<provider, valkey>>
  BY DEF PostAnswers
<1>2. /\ provider[p] = "openrouter" /\ p \in Processes /\ page \in Pages
      /\ <<p, inflight[c].job, page>> \in Asked
  BY <1>1, InFlight DEF ProviderInv, Stands
<1>3. LruInv' /\ CallsInv' /\ SlotsInv'
  <2>1. CASE Answered(c, Missing) /\ UNCHANGED lru
    <3>1. AnsweredAt(c, "done", Missing)
      BY <2>1 DEF Answered
    <3>2. CallsInv' /\ SlotsInv'
      BY <1>1, <3>1, AnswerComes DEF ProviderInv
    <3>3. QED
      BY <2>1, <3>2, LruRests DEF ProviderInv
  <2>2. CASE /\ inflight[c].job = "overlay"
             /\ \E m \in Served[p][inflight[c].job] :
                  LET value == [by |-> m, sample |-> Sample[page]] IN
                  Put(p, [key |-> MakeKey(p, page), value |-> value]) /\ AnsweredAt(c, "store", value)
    <3>1. PICK m \in Served[p]["overlay"] :
            LET value == [by |-> m, sample |-> Sample[page]] IN
            Put(p, [key |-> MakeKey(p, page), value |-> value]) /\ AnsweredAt(c, "store", value)
      BY <2>2
    <3> DEFINE value == [by |-> m, sample |-> Sample[page]]
               key == MakeKey(p, page)
               e == [key |-> key, value |-> value]
    <3>2. value \in Overlay /\ Fits(key, value) /\ key \in CacheKeys /\ m \in Writers(p)
      BY <1>2, <2>2, FreshFits, KeyIsKept, WritersByModel
    <3>3. value.by = m /\ value.sample = Sample[page] /\ AnsweredAt(c, "store", value)
      BY <3>1
    <3> HIDE DEF value, key
    <3>4. e \in Entry /\ e.key = key /\ e.value = value
      BY <3>2 DEF Entry
    <3>5. Put(p, e)
      BY <3>1 DEF key, value
    <3> HIDE DEF e
    <3>6. LruInv'
      BY <1>2, <3>2, <3>4, <3>5, PutKeepsLru DEF ProviderInv
    <3>7. CallsInv' /\ SlotsInv'
      BY <1>1, <1>2, <2>2, <3>2, <3>3, AnswerComes DEF ProviderInv
    <3>8. QED
      BY <3>6, <3>7
  <2>3. QED
    BY <2>1, <2>2 DEF PostAnswers
<1>4. QED
  BY <1>1, <1>2, <1>3, SuccessCounts, ValkeyRests DEF ProviderInv

LEMMA StoreKeeps ==
  ASSUME ProviderInv, NEW c \in Calls, Store(c)
  PROVE  ProviderInv'
<1> DEFINE y == inflight[c]
           key == MakeKey(y.process, y.page)
           x == [y EXCEPT !.pc = "done"]
<1>1. /\ y.pc = "store" /\ inflight' = [inflight EXCEPT ![c] = x] /\ UNCHANGED <<provider, breakerVars, lru>>
      /\ valkey' = [valkey EXCEPT ![key] = y.answer] \/ valkey' = valkey
  BY DEF Store, Goto, ProviderInv, CallsInv, CallState
<1>2. /\ y \in CallState /\ Stands(y) /\ Answers(y)
      /\ y.job = "overlay" /\ provider[y.process] = "openrouter" /\ <<y.process, "overlay", y.page>> \in Asked
      /\ y.process \in Processes /\ y.page \in Pages
  BY <1>1, InFlight DEF ProviderInv, Stands
<1>3. /\ x.pc = "done" /\ x.process = y.process /\ x.job = y.job /\ x.page = y.page /\ x.answer = y.answer
      /\ x.attempt = y.attempt /\ x \in CallState
  BY <1>2 DEF CallState
<1> HIDE DEF x
<1>4. Stands(x) /\ Answers(x)
  BY <1>2, <1>3 DEF Stands, Answers
<1>5. CallsInv' /\ SlotsInv'
  BY <1>1, <1>3, <1>4, CallMoves DEF ProviderInv
<1>6. ValkeyInv'
  <2>1. CASE valkey' = [valkey EXCEPT ![key] = y.answer]
    <3>1. y.answer \in Overlay \cup {Missing} /\ key \in CacheKeys
      BY <1>2, KeyIsKept DEF CallState
    <3>2. y.answer # Missing => Fits(key, y.answer)
      <4>1. SUFFICES ASSUME y.answer # Missing
                     PROVE  Fits(key, y.answer)
        OBVIOUS
      <4>2. y.answer.sample = Sample[y.page] /\ y.answer.by \in Writers(y.process)
        BY <1>2, <4>1 DEF Answers
      <4> DEFINE m == y.answer.by
      <4>3. y.answer = [by |-> m, sample |-> Sample[y.page]]
        BY <3>1, <4>1, <4>2 DEF Overlay
      <4> HIDE DEF m
      <4>4. m \in Writers(y.process)
        BY <4>2 DEF m
      <4>5. Fits(key, [by |-> m, sample |-> Sample[y.page]])
        BY <1>2, <4>4, FreshFits
      <4>6. QED
        BY <4>3, <4>5
    <3> HIDE DEF key
    <3>3. /\ valkey' \in [CacheKeys -> Overlay \cup {Missing}]
          /\ \A k \in CacheKeys : valkey'[k] = IF k = key THEN y.answer ELSE valkey[k]
      BY <2>1, <3>1 DEF ProviderInv, ValkeyInv
    <3>4. \A k \in CacheKeys : valkey'[k] # Missing => Fits(k, valkey'[k])
      BY <3>2, <3>3 DEF ProviderInv, ValkeyInv
    <3>5. QED
      BY <3>3, <3>4 DEF ValkeyInv
  <2>2. CASE valkey' = valkey
    BY <2>2, ValkeyRests DEF ProviderInv
  <2>3. QED
    BY <1>1, <2>1, <2>2
<1>7. QED
  BY <1>1, <1>5, <1>6, BreakerRests, LruRests DEF ProviderInv

LEMMA LocalKeeps ==
  ASSUME ProviderInv, NEW c \in Calls, LocalGenerate(c)
  PROVE  ProviderInv'
<1> DEFINE y == inflight[c]
           value == [by |-> "local", sample |-> Sample[y.page]]
<1>1. y.pc = "local" /\ UNCHANGED <<provider, breakerVars, cacheVars>>
  BY DEF LocalGenerate
<1>2. provider[y.process] = "local" /\ y.page \in Pages
  BY <1>1, InFlight DEF ProviderInv, Stands
<1>3. value \in Overlay /\ value.by = "local" /\ value.sample = Sample[y.page]
  BY <1>2 DEF Overlay, Samples
<1>4. AnsweredAt(c, "done", Missing) \/ AnsweredAt(c, "done", value)
  BY DEF LocalGenerate, Answered
<1> HIDE DEF value
<1>5. CallsInv' /\ SlotsInv'
  <2>1. CASE AnsweredAt(c, "done", Missing)
    BY <1>1, <2>1, AnswerComes DEF ProviderInv
  <2>2. CASE AnsweredAt(c, "done", value)
    BY <1>1, <1>2, <1>3, <2>2, AnswerComes DEF ProviderInv
  <2>3. QED
    BY <1>4, <2>1, <2>2
<1>6. QED
  BY <1>1, <1>5, BreakerRests, ValkeyRests, LruRests DEF ProviderInv, cacheVars

LEMMA NoCallStands ==
  /\ NoCall \in CallState /\ Stands(NoCall) /\ Answers(NoCall) /\ NoCall.pc = "idle"
<1>1. 0 \in 0 .. max_retries
  BY LlmAssumption
<1>2. NoCall \in CallState
  BY <1>1 DEF NoCall, At, CallState
<1>3. /\ NoCall.pc = "idle" /\ NoCall.job = "none" /\ NoCall.answer = Missing
  BY DEF NoCall, At
<1>4. QED
  BY <1>2, <1>3 DEF Stands, Answers

LEMMA ReturnKeeps ==
  ASSUME ProviderInv, NEW c \in Calls, Return(c)
  PROVE  ProviderInv'
<1>1. inflight' = [inflight EXCEPT ![c] = NoCall] /\ UNCHANGED <<provider, breakerVars, cacheVars>>
  BY DEF Return
<1>2. CallsInv' /\ SlotsInv'
  BY <1>1, NoCallStands, CallMoves DEF ProviderInv
<1>3. QED
  BY <1>1, <1>2, BreakerRests, ValkeyRests, LruRests DEF ProviderInv, cacheVars

LEMMA CoolDownKeeps ==
  ASSUME ProviderInv, NEW p \in Processes, CoolDown(p)
  PROVE  ProviderInv'
<1>1. offline' = [offline EXCEPT ![p] = FALSE] /\ UNCHANGED <<provider, failure_count, cacheVars, inflight>>
  BY DEF CoolDown
<1>2. BreakerInv'
  BY <1>1 DEF ProviderInv, BreakerInv
<1>3. QED
  BY <1>1, <1>2, CallsRest, ValkeyRests, LruRests DEF ProviderInv, cacheVars

LEMMA ExpireKeeps ==
  ASSUME ProviderInv, NEW key \in CacheKeys, Expire(key)
  PROVE  ProviderInv'
<1>1. valkey' = [valkey EXCEPT ![key] = Missing] /\ UNCHANGED <<provider, breakerVars, lru, inflight>>
  BY DEF Expire
<1>2. /\ valkey' \in [CacheKeys -> Overlay \cup {Missing}]
      /\ \A k \in CacheKeys : valkey'[k] = IF k = key THEN Missing ELSE valkey[k]
  BY <1>1 DEF ProviderInv, ValkeyInv
<1>3. ValkeyInv'
  BY <1>2 DEF ProviderInv, ValkeyInv
<1>4. QED
  BY <1>1, <1>3, CallsRest, BreakerRests, LruRests DEF ProviderInv

LEMMA ProviderInvInit == ProviderInit => ProviderInv
<1> SUFFICES ASSUME ProviderInit
             PROVE  ProviderInv
  OBVIOUS
<1>1. LruInv
  <2>1. \A p \in Processes : lru[p] = <<>>
    BY DEF ProviderInit
  <2>2. lru \in [Processes -> Seq(Entry)]
    BY DEF ProviderInit
  <2>3. Len(<<>>) <= result_cache_maxsize /\ DOMAIN <<>> = {}
    BY LlmAssumption
  <2>4. QED
    BY <2>1, <2>2, <2>3 DEF LruInv, Distinct
<1>2. ValkeyInv
  BY DEF ProviderInit, ValkeyInv
<1>3. BreakerInv
  <2>1. 0 \in 0 .. breaker_threshold
    BY LlmAssumption
  <2>2. \A s : CreateAiProvider(s) \in Providers
    BY DEF CreateAiProvider, Providers
  <2>3. QED
    BY <2>1, <2>2 DEF ProviderInit, BreakerInv
<1>4. CallsInv
  BY NoCallStands DEF ProviderInit, CallsInv
<1>5. SlotsInv
  <2>1. \A p \in Processes : Posting(p) = {}
    BY NoCallStands DEF ProviderInit, Posting
  <2>2. QED
    BY <2>1, LlmAssumption, FS_EmptySet DEF SlotsInv
<1>6. QED
  BY <1>1, <1>2, <1>3, <1>4, <1>5 DEF ProviderInv

LEMMA ProviderInvStep == ProviderInv /\ [ProviderNext]_providerVars => ProviderInv'
<1> SUFFICES ASSUME ProviderInv, [ProviderNext]_providerVars
             PROVE  ProviderInv'
  OBVIOUS
<1>1. ASSUME NEW c \in Calls, Ask(c) PROVE ProviderInv'
  BY <1>1, Begins DEF Ask
<1>2. ASSUME NEW c \in Calls, Advance(c) PROVE ProviderInv'
  <2>1. CASE Lookup(c)
    BY <2>1, LookupKeeps
  <2>2. CASE Enter(c)
    BY <2>2, EnterKeeps
  <2>3. CASE PostFails(c)
    BY <2>3, PostFailsKeeps
  <2>4. CASE PostRefused(c)
    BY <2>4, GivesUp DEF PostRefused
  <2>5. CASE Sleep(c)
    BY <2>5, SleepKeeps
  <2>6. CASE PostAnswers(c)
    BY <2>6, PostAnswersKeeps
  <2>7. CASE Store(c)
    BY <2>7, StoreKeeps
  <2>8. CASE LocalGenerate(c)
    BY <2>8, LocalKeeps
  <2>9. CASE Return(c)
    BY <2>9, ReturnKeeps
  <2>10. QED
    BY <1>2, <2>1, <2>2, <2>3, <2>4, <2>5, <2>6, <2>7, <2>8, <2>9 DEF Advance
<1>3. ASSUME NEW p \in Processes, CoolDown(p) PROVE ProviderInv'
  BY <1>3, CoolDownKeeps
<1>4. ASSUME NEW key \in CacheKeys, Expire(key) PROVE ProviderInv'
  BY <1>4, ExpireKeeps
<1>5. CASE UNCHANGED providerVars
  BY <1>5, CallsRest, BreakerRests, LruRests, ValkeyRests DEF ProviderInv, providerVars, breakerVars
<1>6. QED
  BY <1>1, <1>2, <1>3, <1>4, <1>5 DEF ProviderNext

LEMMA ProviderInvAlways == ProviderSpec => []ProviderInv
BY ProviderInvInit, ProviderInvStep, PTL DEF ProviderSpec

(* The breaker, the two cache levels and the calls in flight keep their    *)
(* types; a list in memory holds a key once and keeps its size, and no     *)
(* more calls post than the semaphore lets in, retries included, for every *)
(* number of processes and calls.                                          *)
THEOREM ProviderTyped == ProviderSpec => []ProviderTypeOK
<1>1. ProviderInv => ProviderTypeOK
  BY DEF ProviderInv, LruInv, ValkeyInv, BreakerInv, CallsInv, SlotsInv, ProviderTypeOK, Distinct, Entry
<1>2. QED
  BY <1>1, ProviderInvAlways, PTL

(* An overlay handed out was written for the sample that was asked about,  *)
(* whichever process put it into the shared store: by a model the asking   *)
(* process lets answer, or, if an operator pinned the process to the model *)
(* the job has anyway, by any model of that job's chain, whose key it      *)
(* shares (generate_overlay and _model_for).                               *)
THEOREM NoOverlayCrosses == ProviderSpec => []OverlayIsOfItsPage
<1>1. ProviderInv => OverlayIsOfItsPage
  BY DEF ProviderInv, CallsInv, Answers, OverlayIsOfItsPage
<1>2. QED
  BY <1>1, ProviderInvAlways, PTL

=============================================================================
