-------------------------------- MODULE Gateway --------------------------------
(***************************************************************************)
(* API keys and daily quotas of the gateway: ApiKeyManager in each API     *)
(* process, the key table they share with the command line, and the        *)
(* counters in Valkey with their fallback in the memory of a process.      *)
(*                                                                         *)
(* A step is the code between two awaits of one request.  Hashing, e-mail  *)
(* addresses and response headers are left out; so are requests without a  *)
(* usable header, which touch nothing, the demo key of development, and    *)
(* expires_at, which no caller sets.                                       *)
(***************************************************************************)
EXTENDS Integers, FiniteSets

CONSTANTS
  Nodes,     \* API processes
  Requests,  \* requests that may be in flight together
  Keys,      \* keys that may be minted
  Ips,       \* callers of POST /auth/register
  Limit,     \* TIER_LIMITS of a key's tier, REGISTRATION_IP_LIMIT of an address
  MaxCounters, \* 1024: local counters kept before other days' are dropped
  MaxStarts, \* bound: starts of processes
  MaxDay,    \* bound: days
  None

QuotaPrefixes == Keys \cup Ips
Days == 1 .. MaxDay
KeyStates == {"absent", "active", "revoked"}

ASSUME GatewayAssumption ==
  /\ Limit \in [QuotaPrefixes -> Nat \ {0}] /\ Keys \cap Ips = {} /\ None \notin Nodes \cup QuotaPrefixes
  /\ IsFiniteSet(Nodes) /\ IsFiniteSet(Requests) /\ IsFiniteSet(QuotaPrefixes)
  /\ MaxCounters \in Nat /\ MaxStarts \in Nat /\ MaxDay \in Nat \ {0}

VARIABLES
  day,
  starts,    \* how many lives of processes have begun
  life,      \* node -> the number of its present life
  up,        \* nodes that serve
  linked,    \* nodes whose manager still holds a Valkey client
  memory,    \* node -> _keys_by_hash
  local,     \* node -> _local_counts, by prefix and day
  api_keys,  \* the table: key -> absent, active or revoked
  shared,    \* Valkey: prefix -> day -> count
  call,      \* request -> where it stands
  admitted,  \* ghost: requests let through today, by prefix
  alone      \* ghost: process lives that let a request through today by their own count

keyVars == <<memory, api_keys>>
countVars == <<linked, local, shared, admitted, alone>>
vars == <<day, starts, life, up, keyVars, countVars, call>>

Idle == [pc |-> "idle", node |-> None, prefix |-> None, day |-> 1, source |-> None, revoked |-> FALSE]
NoCounts == [p \in QuotaPrefixes |-> [d \in Days |-> 0]]

Init ==
  /\ day = 1 /\ starts = 0 /\ life = [n \in Nodes |-> 0] /\ up = {} /\ linked = {}
  /\ memory = [n \in Nodes |-> {}] /\ local = [n \in Nodes |-> NoCounts]
  /\ api_keys = [k \in Keys |-> "absent"] /\ shared = NoCounts
  /\ call = [r \in Requests |-> Idle]
  /\ admitted = [p \in QuotaPrefixes |-> 0] /\ alone = [p \in QuotaPrefixes |-> {}]

----------------------------------------------------------------------------
\* Processes and days.

\* A failing ping leaves the process with its own counters for life.
Initialize(n) ==
  /\ n \notin up /\ starts < MaxStarts
  /\ starts' = starts + 1 /\ life' = [life EXCEPT ![n] = starts'] /\ up' = up \cup {n}
  /\ \E pong \in BOOLEAN : linked' = IF pong THEN linked \cup {n} ELSE linked
  /\ UNCHANGED <<day, keyVars, local, shared, admitted, alone, call>>

\* Shutdown or kill: what lives in memory is gone, requests in flight with it.
Close(n) ==
  /\ n \in up
  /\ up' = up \ {n} /\ linked' = linked \ {n}
  /\ memory' = [memory EXCEPT ![n] = {}] /\ local' = [local EXCEPT ![n] = NoCounts]
  /\ call' = [r \in Requests |-> IF call[r].node = n THEN Idle ELSE call[r]] /\ life' = [life EXCEPT ![n] = 0]
  /\ UNCHANGED <<day, starts, api_keys, shared, admitted, alone>>

\* EXPIREAT drops the counters of the day that ends.
Midnight ==
  /\ day < MaxDay /\ day' = day + 1
  /\ shared' = [p \in QuotaPrefixes |-> [shared[p] EXCEPT ![day] = 0]]
  /\ admitted' = [p \in QuotaPrefixes |-> 0] /\ alone' = [p \in QuotaPrefixes |-> {}]
  /\ UNCHANGED <<starts, life, up, keyVars, linked, local, call>>

----------------------------------------------------------------------------
\* Keys: verify_api_key up to the quota, minting, revoking.

\* verify_admin_key has let the caller in and the tier exists.
RegisterApiKey(r) ==
  /\ call[r].pc = "idle"
  /\ \E n \in up, ip \in Ips :
       call' = [call EXCEPT ![r] = [Idle EXCEPT !.pc = "limit", !.node = n, !.prefix = ip]]
  /\ UNCHANGED <<day, starts, life, up, keyVars, countVars>>

\* The statements of the key table.
Row(k) == api_keys[k]
CreateKey(k) == Row(k) = "absent" /\ api_keys' = [api_keys EXCEPT ![k] = "active"]
SetInactive(k) == api_keys' = [api_keys EXCEPT ![k] = "revoked"]

\* The table decides; memory is asked only when the lookup raises.
\* Mutant of ValidateKey: a key the table does not have active is looked up in memory.
ValidateKeyFallsThrough(n, k, raises) == Row(k) = "active" \/ k \in memory[n]
ValidateKey(n, k, raises) == IF raises THEN k \in memory[n] ELSE Row(k) = "active"

\* An unknown or revoked key ends the request here.
VerifyApiKey(r) ==
  /\ call[r].pc = "idle"
  /\ \E n \in up, k \in Keys, raises \in BOOLEAN :
       /\ ValidateKey(n, k, raises)
       /\ call' = [call EXCEPT ![r] = [Idle EXCEPT !.pc = "limit", !.node = n, !.prefix = k,
                                  !.source = IF raises THEN "memory" ELSE "table",
                                  !.revoked = Row(k) = "revoked"]]
  /\ UNCHANGED <<day, starts, life, up, keyVars, countVars>>

\* The row is inserted before the copy is kept; an insert that raises may have committed.
GenerateApiKey(r) ==
  /\ call[r].pc = "mint"
  /\ \E k \in Keys, raises, commits \in BOOLEAN :
       /\ Row(k) = "absent" /\ (raises \/ commits)
       /\ IF commits THEN CreateKey(k) ELSE UNCHANGED api_keys
       /\ memory' = IF raises THEN memory ELSE [memory EXCEPT ![call[r].node] = @ \cup {k}]
  /\ call' = [call EXCEPT ![r] = Idle]
  /\ UNCHANGED <<day, starts, life, up, countVars>>

\* The command line is a process of its own: it writes the table and no copy.
CliGenerate(k) ==
  /\ CreateKey(k)
  /\ UNCHANGED <<day, starts, life, up, memory, countVars, call>>

RevokeKey(k) ==
  /\ Row(k) = "active" /\ SetInactive(k)
  /\ UNCHANGED <<day, starts, life, up, memory, countVars, call>>

----------------------------------------------------------------------------
\* The quota: _check_rate_limit and its single-node fallback.

\* A request granted after midnight on the count of the day before is of no day.
Admit(p, d) == admitted' = IF d = day THEN [admitted EXCEPT ![p] = @ + 1] ELSE admitted

\* What follows a grant: the endpoint, or for a registration the new key.
AfterGrant(r) == IF call[r].prefix \in Ips /\ \E k \in Keys : Row(k) = "absent"
                 THEN [call[r] EXCEPT !.pc = "mint"] ELSE Idle

Counters(n) == {c \in QuotaPrefixes \X Days : local[n][c[1]][c[2]] > 0}

\* Mutant of Kept: a full map is emptied.
KeptNone(n) == IF Cardinality(Counters(n)) > MaxCounters THEN NoCounts ELSE local[n]
Kept(n) ==
  IF Cardinality(Counters(n)) <= MaxCounters THEN local[n]
  ELSE [p \in QuotaPrefixes |-> [d \in Days |-> IF d = day THEN local[n][p][d] ELSE 0]]

\* Mutant of Spent: the request that finds the limit reached passes.
SpentLate(n, p) == local[n][p][day] > Limit[p]
Spent(n, p) == local[n][p][day] >= Limit[p]

CheckLocal(r) ==
  LET n == call[r].node
      p == call[r].prefix IN
  IF Spent(n, p)
  THEN /\ call' = [call EXCEPT ![r] = Idle]
       /\ UNCHANGED <<local, admitted, alone>>
  ELSE /\ local' = [local EXCEPT ![n] = [Kept(n) EXCEPT ![p][day] = @ + 1]]
       /\ Admit(p, day) /\ alone' = [alone EXCEPT ![p] = @ \cup {life[n]}]
       /\ call' = [call EXCEPT ![r] = AfterGrant(r)]

CheckRateLimit(r) ==
  /\ call[r].pc = "limit"
  /\ IF call[r].node \in linked
     THEN /\ call' = [call EXCEPT ![r].pc = "get", ![r].day = day]
          /\ UNCHANGED <<local, admitted, alone>>
     ELSE CheckLocal(r)
  /\ UNCHANGED <<day, starts, life, up, keyVars, linked, shared>>

Get(r) ==
  /\ call[r].pc = "get"
  /\ call' = [call EXCEPT ![r] = IF shared[@.prefix][@.day] < Limit[@.prefix] THEN [@ EXCEPT !.pc = "incr"] ELSE Idle]
  /\ UNCHANGED <<day, starts, life, up, keyVars, countVars>>

\* The pipeline needs the client the manager still has.
Incr(r) ==
  LET p == call[r].prefix
      d == call[r].day IN
  /\ call[r].pc = "incr" /\ call[r].node \in linked
  /\ shared' = [shared EXCEPT ![p][d] = @ + 1]
  /\ Admit(p, d) /\ call' = [call EXCEPT ![r] = AfterGrant(r)]
  /\ UNCHANGED <<day, starts, life, up, keyVars, linked, local, alone>>

\* A call raises, or the client is gone because another request's call raised.
\* The increment may have been made.
ValkeyError(r) ==
  /\ call[r].pc \in {"get", "incr"}
  /\ linked' = linked \ {call[r].node}
  /\ \E made \in BOOLEAN :
       /\ made => call[r].pc = "incr" /\ call[r].node \in linked
       /\ shared' = IF made THEN [shared EXCEPT ![call[r].prefix][call[r].day] = @ + 1] ELSE shared
  /\ CheckLocal(r)
  /\ UNCHANGED <<day, starts, life, up, keyVars>>

----------------------------------------------------------------------------
Handle(r) ==
  \/ VerifyApiKey(r) \/ RegisterApiKey(r) \/ CheckRateLimit(r)
  \/ Get(r) \/ Incr(r) \/ ValkeyError(r) \/ GenerateApiKey(r)

Next ==
  \/ \E n \in Nodes : Initialize(n) \/ Close(n)
  \/ \E r \in Requests : Handle(r)
  \/ \E k \in Keys : CliGenerate(k) \/ RevokeKey(k)
  \/ Midnight

Spec == Init /\ [][Next]_vars

----------------------------------------------------------------------------
\* Every variable keeps its type; a counter in memory never passes the limit of its key.
TypeOK ==
  /\ day \in Days /\ life \in [Nodes -> 0 .. starts] /\ linked \subseteq up /\ up \subseteq Nodes
  /\ memory \in [Nodes -> SUBSET Keys] /\ api_keys \in [Keys -> KeyStates]
  /\ \A p \in QuotaPrefixes, d \in Days :
       shared[p][d] \in Nat /\ \A n \in Nodes : local[n][p][d] \in 0 .. Limit[p]
  /\ \A r \in Requests :
       /\ call[r].pc \in {"idle", "limit", "get", "incr", "mint"}
       /\ call[r].day \in Days /\ call[r].source \in {"table", "memory", None}
       /\ call[r].pc # "idle" => call[r].node \in up /\ call[r].prefix \in QuotaPrefixes

(* check_rate_limit and check_registration_rate_limit read the counter and  *)
(* raise it in two calls, and fall back to a counter of their own when a    *)
(* call fails.  Even so a key, or an address that mints keys, gets through  *)
(* a day at most its limit once by the shared counter, exceeded by the      *)
(* requests that overlap, and once more per process life that counts alone. *)
QuotaHolds ==
  \A p \in QuotaPrefixes :
    admitted[p] <= Limit[p] * (1 + Cardinality(alone[p])) + Cardinality(Requests) - 1

(* validate_key: a key revoked before it was looked up is let through only  *)
(* when the lookup raised and the process that serves the request minted    *)
(* the key itself; no restart, no other process and no command line brings  *)
(* it back.                                                                 *)
RevocationHolds ==
  \A r \in Requests :
    call[r].revoked => call[r].source = "memory" /\ call[r].prefix \in memory[call[r].node]

============================================================================
