---------------------------- MODULE ResponseCache ----------------------------
(***************************************************************************)
(* The Redis response cache: GETs that cacheResponse fills and serves, and *)
(* the mutations that invalidate it once they have committed.  A filled    *)
(* entry is written after the answer was computed, a mutation deletes keys *)
(* one by one, and nothing orders the two; only the entry's TTL bounds how *)
(* long a response that lost the race is served.                           *)
(*                                                                         *)
(* Every mutation changes what every cached list may show (an order takes  *)
(* stock, an edit renames an ordered product), so a response is known by   *)
(* the number of mutations that had committed when it was read.            *)
(***************************************************************************)
EXTENDS Naturals, Sequences, FiniteSets

CONSTANTS
    Reads,          \* GET requests
    Mutations,      \* order and product mutations
    Keys,           \* cache keys: namespace, scope and URL
    Namespaces,
    NamespaceOf,    \* the namespace of a key
    KeyOf,          \* the key of a GET
    GroupOf,        \* the namespaces a mutation invalidates, in order
    Absent          \* no entry

ASSUME CacheAssumption ==
    /\ IsFiniteSet(Mutations)
    /\ NamespaceOf \in [Keys -> Namespaces]
    /\ KeyOf \in [Reads -> Keys]
    /\ GroupOf \in [Mutations -> Seq(Namespaces)]
    /\ Absent \notin Nat

\* CACHE_INVALIDATION_GROUPS: the group of a mutation names every namespace
\* whose lists it may change.
ASSUME GroupAssumption ==
    \A m \in Mutations, k \in Keys :
        \E i \in DOMAIN GroupOf[m] : GroupOf[m][i] = NamespaceOf[k]

VARIABLES
    version,    \* committed mutations
    cache,      \* what Redis holds under each key
    redisReady, \* the flag of isRedisReady
    rpc,        \* where each GET is
    seen,       \* what it read or was served
    filling,    \* GETs whose setCache is under way
    mustSee,    \* mutations known to be over when a GET was sent
    mpc,        \* where each mutation is
    todo,       \* namespaces it still has to invalidate
    keys,       \* keys it collected and has not deleted yet
    committedAt,\* the version it made
    overtaken,  \* keys filled with a response older than a committed mutation
    disturbed   \* a Redis call or an invalidation was skipped or failed

reading == <<rpc, seen, filling, mustSee>>
mutating == <<mpc, todo, keys, committedAt>>
history == <<overtaken, disturbed>>
vars == <<version, cache, redisReady, reading, mutating, history>>

Init ==
    /\ version = 0
    /\ cache = [k \in Keys |-> Absent]
    /\ redisReady = TRUE
    /\ rpc = [r \in Reads |-> "idle"]
    /\ seen = [r \in Reads |-> Absent]
    /\ filling = {}
    /\ mustSee = [r \in Reads |-> 0]
    /\ mpc = [m \in Mutations |-> "idle"]
    /\ todo = [m \in Mutations |-> <<>>]
    /\ keys = [m \in Mutations |-> {}]
    /\ committedAt = [m \in Mutations |-> 0]
    /\ overtaken = {}
    /\ disturbed = FALSE

------------------------------------------------------------------------------
(* cacheResponse *)

Over == {m \in Mutations : mpc[m] = "answered"}

\* A GET arrives: every mutation already answered is one its sender may know.
Get(r) ==
    /\ rpc[r] = "idle"
    /\ rpc' = [rpc EXCEPT ![r] = "lookup"]
    /\ \E v \in {0} \cup {committedAt[m] : m \in Over} :
          /\ \A m \in Over : committedAt[m] <= v
          /\ mustSee' = [mustSee EXCEPT ![r] = v]
    /\ UNCHANGED <<version, cache, redisReady, seen, filling, mutating, history>>

\* getCache finds an entry, which is the answer.
Hit(r) ==
    /\ rpc[r] = "lookup"
    /\ redisReady
    /\ cache[KeyOf[r]] # Absent
    /\ seen' = [seen EXCEPT ![r] = cache[KeyOf[r]]]
    /\ rpc' = [rpc EXCEPT ![r] = "answered"]
    /\ UNCHANGED <<version, cache, redisReady, filling, mustSee, mutating, history>>

\* No entry, or Redis is not ready.
Miss(r) ==
    /\ rpc[r] = "lookup"
    /\ redisReady => cache[KeyOf[r]] = Absent
    /\ rpc' = [rpc EXCEPT ![r] = "query"]
    /\ UNCHANGED <<version, cache, redisReady, seen, filling, mustSee, mutating, history>>

\* GET fails and counts as a miss.
GetCacheFails(r) ==
    /\ rpc[r] = "lookup"
    /\ rpc' = [rpc EXCEPT ![r] = "query"]
    /\ UNCHANGED <<version, cache, redisReady, seen, filling, mustSee, mutating, history>>

\* listProducts, listOrders: the SELECT reads the committed rows.
Query(r) ==
    /\ rpc[r] = "query"
    /\ seen' = [seen EXCEPT ![r] = version]
    /\ rpc' = [rpc EXCEPT ![r] = "respond"]
    /\ UNCHANGED <<version, cache, redisReady, filling, mustSee, mutating, history>>

\* A response of status 400 and more is not cached.
QueryFails(r) ==
    /\ rpc[r] = "query"
    /\ rpc' = [rpc EXCEPT ![r] = "failed"]
    /\ UNCHANGED <<version, cache, redisReady, seen, filling, mustSee, mutating, history>>

\* res.json as the middleware wrapped it: setCache is started, unless Redis
\* is not ready, and the response sent without waiting for it.
Respond(r) ==
    /\ rpc[r] = "respond"
    /\ filling' = IF redisReady THEN filling \cup {r} ELSE filling
    /\ rpc' = [rpc EXCEPT ![r] = "answered"]
    /\ UNCHANGED <<version, cache, redisReady, seen, mustSee, mutating, history>>

setCache(r) ==
    /\ r \in filling
    /\ cache' = [cache EXCEPT ![KeyOf[r]] = seen[r]]
    /\ filling' = filling \ {r}
    /\ overtaken' = IF seen[r] < version THEN overtaken \cup {KeyOf[r]} ELSE overtaken
    /\ UNCHANGED <<version, redisReady, rpc, seen, mustSee, mutating, disturbed>>

setCacheFails(r) ==
    /\ r \in filling
    /\ filling' = filling \ {r}
    /\ UNCHANGED <<version, cache, redisReady, rpc, seen, mustSee, mutating, history>>

------------------------------------------------------------------------------
(* A mutation's controller: the transaction, then invalidateCache *)

KeysMatching(n) == {k \in Keys : NamespaceOf[k] = n /\ cache[k] # Absent}

\* Mutant of CommitMutation: a repeated request is carried out again.
CommitMutationAgain(m) ==
    /\ mpc[m] \in {"idle", "answered"}
    /\ version' = version + 1
    /\ committedAt' = [committedAt EXCEPT ![m] = version + 1]
    /\ mpc' = [mpc EXCEPT ![m] = "committed"]
    /\ UNCHANGED <<cache, redisReady, reading, todo, keys, history>>

CommitMutation(m) ==
    /\ mpc[m] = "idle"
    /\ version' = version + 1
    /\ committedAt' = [committedAt EXCEPT ![m] = version + 1]
    /\ mpc' = [mpc EXCEPT ![m] = "committed"]
    /\ UNCHANGED <<cache, redisReady, reading, todo, keys, history>>

\* Whatever throws between the commit and invalidateCache (the lost
\* acknowledgement of the commit, the read-back of an order) skips it, and so
\* does a process that dies there.
FailBeforeInvalidate(m) ==
    /\ mpc[m] = "committed"
    /\ mpc' = [mpc EXCEPT ![m] = "answered"]
    /\ disturbed' = TRUE
    /\ UNCHANGED <<version, cache, redisReady, reading, todo, keys, committedAt, overtaken>>

\* deleteCache does nothing while Redis is not ready.
SkipInvalidate(m) ==
    /\ mpc[m] = "committed"
    /\ ~redisReady
    /\ mpc' = [mpc EXCEPT ![m] = "answered"]
    /\ disturbed' = TRUE
    /\ UNCHANGED <<version, cache, redisReady, reading, todo, keys, committedAt, overtaken>>

Invalidate(m) ==
    /\ mpc[m] = "committed"
    /\ redisReady
    /\ mpc' = [mpc EXCEPT ![m] = "scan"]
    /\ todo' = [todo EXCEPT ![m] = GroupOf[m]]
    /\ UNCHANGED <<version, cache, redisReady, reading, keys, committedAt, history>>

\* collectKeysMatching: SCAN, and KEYS if SCAN returned nothing.  Neither asks
\* isRedisReady: while Redis is away the client keeps the command, and the
\* controller waits for its answer.
Scan(m) ==
    /\ mpc[m] = "scan"
    /\ todo[m] # <<>>
    /\ redisReady
    /\ keys' = [keys EXCEPT ![m] = KeysMatching(Head(todo[m]))]
    /\ mpc' = [mpc EXCEPT ![m] = IF keys'[m] = {} THEN "fallback" ELSE "delete"]
    /\ UNCHANGED <<version, cache, redisReady, reading, todo, committedAt, history>>

KeysFallback(m) ==
    /\ mpc[m] = "fallback"
    /\ redisReady
    /\ keys' = [keys EXCEPT ![m] = KeysMatching(Head(todo[m]))]
    /\ mpc' = [mpc EXCEPT ![m] = "delete"]
    /\ UNCHANGED <<version, cache, redisReady, reading, todo, committedAt, history>>

\* SCAN or KEYS throws, as when the connection breaks before its answer,
\* through deleteCache into the controller's catch.
ScanFails(m) ==
    /\ mpc[m] = "fallback" \/ (mpc[m] = "scan" /\ todo[m] # <<>>)
    /\ mpc' = [mpc EXCEPT ![m] = "answered"]
    /\ disturbed' = TRUE
    /\ UNCHANGED <<version, cache, redisReady, reading, todo, keys, committedAt, overtaken>>

\* Mutant of Delete: the DEL waits for Redis to come back.
DeleteWaiting(m, k) ==
    /\ mpc[m] = "delete"
    /\ k \in keys[m]
    /\ redisReady
    /\ keys' = [keys EXCEPT ![m] = @ \ {k}]
    /\ cache' = [cache EXCEPT ![k] = Absent]
    /\ UNCHANGED <<version, redisReady, reading, mpc, todo, committedAt, history>>

\* deleteCacheKey: one DEL, skipped without Redis.
Delete(m, k) ==
    /\ mpc[m] = "delete"
    /\ k \in keys[m]
    /\ keys' = [keys EXCEPT ![m] = @ \ {k}]
    /\ IF redisReady THEN cache' = [cache EXCEPT ![k] = Absent] /\ UNCHANGED disturbed
                     ELSE disturbed' = TRUE /\ UNCHANGED cache
    /\ UNCHANGED <<version, redisReady, reading, mpc, todo, committedAt, overtaken>>

\* A DEL that fails is ignored.
DeleteFails(m, k) ==
    /\ mpc[m] = "delete"
    /\ k \in keys[m]
    /\ keys' = [keys EXCEPT ![m] = @ \ {k}]
    /\ disturbed' = TRUE
    /\ UNCHANGED <<version, cache, redisReady, reading, mpc, todo, committedAt, overtaken>>

\* Mutant of NextNamespace: deleteCache returns after the first namespace.
StopAfterNamespace(m) ==
    /\ mpc[m] = "delete"
    /\ keys[m] = {}
    /\ todo' = [todo EXCEPT ![m] = <<>>]
    /\ mpc' = [mpc EXCEPT ![m] = "scan"]
    /\ UNCHANGED <<version, cache, redisReady, reading, keys, committedAt, history>>

NextNamespace(m) ==
    /\ mpc[m] = "delete"
    /\ keys[m] = {}
    /\ todo' = [todo EXCEPT ![m] = Tail(@)]
    /\ mpc' = [mpc EXCEPT ![m] = "scan"]
    /\ UNCHANGED <<version, cache, redisReady, reading, keys, committedAt, history>>

RespondMutated(m) ==
    /\ mpc[m] = "scan"
    /\ todo[m] = <<>>
    /\ mpc' = [mpc EXCEPT ![m] = "answered"]
    /\ UNCHANGED <<version, cache, redisReady, reading, todo, keys, committedAt, history>>

------------------------------------------------------------------------------
(* Redis *)

\* The client's error and ready events.  The entries outlive the connection.
RedisError ==
    /\ redisReady
    /\ redisReady' = FALSE
    /\ UNCHANGED <<version, cache, reading, mutating, history>>

RedisReady ==
    /\ ~redisReady
    /\ redisReady' = TRUE
    /\ UNCHANGED <<version, cache, reading, mutating, history>>

\* Mutant of Expire: the entry is set without a TTL.
ExpireNever(k) == FALSE

\* The entry's expiryInSeconds have passed.
Expire(k) ==
    /\ cache[k] # Absent
    /\ cache' = [cache EXCEPT ![k] = Absent]
    /\ UNCHANGED <<version, redisReady, reading, mutating, history>>

ReadStep(r) == Hit(r) \/ Miss(r) \/ Query(r) \/ Respond(r)

\* What the controller does on its own once it was called.
MutationStep(m) ==
    \/ SkipInvalidate(m) \/ Invalidate(m) \/ Scan(m) \/ KeysFallback(m)
    \/ (\E k \in Keys : Delete(m, k)) \/ NextNamespace(m) \/ RespondMutated(m)

Next ==
    \/ \E r \in Reads :
          \/ Get(r) \/ ReadStep(r) \/ setCache(r)
          \/ GetCacheFails(r) \/ QueryFails(r) \/ setCacheFails(r)
    \/ \E m \in Mutations :
          \/ CommitMutation(m) \/ MutationStep(m)
          \/ FailBeforeInvalidate(m) \/ ScanFails(m)
          \/ \E k \in Keys : DeleteFails(m, k)
    \/ RedisError \/ RedisReady
    \/ \E k \in Keys : Expire(k)

\* Handlers run on, a started SET ends, and Redis expires entries.  Redis may
\* stay down for ever and requests need not come.  A SCAN or KEYS that waited
\* is sent whenever Redis is back, and then answered or rejected: it does not
\* outlast outage after outage.
Fairness ==
    /\ \A r \in Reads : WF_vars(ReadStep(r)) /\ WF_vars(setCache(r))
    /\ \A m \in Mutations : SF_vars(MutationStep(m))
    /\ \A k \in Keys : WF_vars(Expire(k))

Spec == Init /\ [][Next]_vars /\ Fairness

------------------------------------------------------------------------------
(* Properties *)

TypeOK ==
    /\ version \in 0..Cardinality(Mutations)
    /\ cache \in [Keys -> Nat \cup {Absent}]
    /\ redisReady \in BOOLEAN
    /\ rpc \in [Reads -> {"idle", "lookup", "query", "respond", "answered", "failed"}]
    /\ seen \in [Reads -> Nat \cup {Absent}]
    /\ filling \subseteq Reads
    /\ mustSee \in [Reads -> 0..Cardinality(Mutations)]
    /\ mpc \in [Mutations -> {"idle", "committed", "scan", "fallback", "delete", "answered"}]
    /\ todo \in [Mutations -> Seq(Namespaces)]
    /\ keys \in [Mutations -> SUBSET Keys]
    /\ committedAt \in [Mutations -> 0..Cardinality(Mutations)]
    /\ overtaken \subseteq Keys
    /\ disturbed \in BOOLEAN

(* Who has seen a mutation answered is served its effect, unless an answer  *)
(* computed before the mutation was stored after it, or Redis failed: the   *)
(* one-by-one deletion misses nothing else.                                 *)
StaleOnlyWhenOvertaken ==
    \A r \in Reads :
        rpc[r] = "answered" /\ seen[r] < mustSee[r] =>
            KeyOf[r] \in overtaken \/ disturbed

\* deleteCache was called with Redis ready and met an outage at a SCAN or KEYS.
ScanWaits(m) ==
    ~redisReady /\ (mpc[m] = "fallback" \/ (mpc[m] = "scan" /\ todo[m] # <<>>))

(* A mutation that committed is answered, unless Redis never comes back     *)
(* from the outage at which its SCAN or KEYS waits: whatever else Redis     *)
(* does, fail while keys are deleted or come and go, does not hold it up.   *)
AnsweredUnlessScanWaits ==
    \A m \in Mutations :
        mpc[m] = "committed" ~> (mpc[m] = "answered" \/ []ScanWaits(m))

(* A stale response leaves the cache in the end, whatever race or failure   *)
(* put it there.                                                            *)
CacheConverges ==
    <>[](\A k \in Keys : cache[k] # Absent => cache[k] = version)
==============================================================================
