------------------------ MODULE ResponseCache_proofs ------------------------
(***************************************************************************)
(* Proofs about ResponseCache, for any number of reads, mutations, keys    *)
(* and namespaces: only an overtaking fill or a failure makes a later read *)
(* stale, late fills run out, and an invalidation ends.                    *)
(***************************************************************************)
EXTENDS ResponseCache, FiniteSetTheorems, TLAPS

Started == {m \in Mutations : mpc[m] # "idle"}
CountInv == version = Cardinality(Started)

(* Mutation m has not come past key k yet: it has not begun, k's namespace  *)
(* is still to be scanned, or k is among the keys about to be deleted.      *)
Ahead(m, k) ==
    \/ mpc[m] = "committed"
    \/ /\ mpc[m] \in {"scan", "fallback"}
       /\ \E i \in 1..Len(todo[m]) : todo[m][i] = NamespaceOf[k]
    \/ /\ mpc[m] = "delete"
       /\ \/ k \in keys[m]
          \/ \E i \in 2..Len(todo[m]) : todo[m][i] = NamespaceOf[k]

(* An entry older than a mutation still has that mutation's deletion ahead  *)
(* of it, or is excused.                                                    *)
EntryInv ==
    \A k \in Keys, m \in Mutations :
        cache[k] # Absent /\ cache[k] < committedAt[m] =>
            k \in overtaken \/ disturbed \/ Ahead(m, k)

MutationInv ==
    \A m \in Mutations :
        /\ committedAt[m] <= version
        /\ mpc[m] = "idle" => committedAt[m] = 0
        /\ mpc[m] \in {"fallback", "delete"} => todo[m] # <<>>

ReadInv ==
    /\ \A k \in Keys : cache[k] # Absent => cache[k] <= version
    /\ \A r \in Reads :
          /\ mustSee[r] = 0 \/ \E m \in Mutations : /\ mpc[m] = "answered"
                                                    /\ committedAt[m] = mustSee[r]
          /\ rpc[r] = "respond" => seen[r] # Absent /\ mustSee[r] <= seen[r]
          /\ rpc[r] = "answered" => seen[r] # Absent
          /\ seen[r] # Absent => seen[r] <= version
          /\ r \in filling => rpc[r] = "answered"

IInv == TypeOK /\ CountInv /\ MutationInv /\ EntryInv /\ ReadInv /\ StaleOnlyWhenOvertaken

------------------------------------------------------------------------------
(* What a step leaves alone *)

LEMMA CardinalityMutations == Cardinality(Mutations) \in Nat
  BY FS_CardinalityType, CacheAssumption

(* A step of a read that fills nothing keeps what is known of mutations.    *)
LEMMA ReadsKeepMutations ==
    ASSUME IInv, UNCHANGED <<version, cache, mutating, history>>
    PROVE  CountInv' /\ MutationInv' /\ EntryInv'
  BY DEF IInv, CountInv, Started, MutationInv, EntryInv, Ahead, mutating, history

(* A step that stores nothing, forgets no failure and leaves the answered   *)
(* mutations answered keeps what is known of reads.                         *)
LEMMA MutationsKeepReads ==
    ASSUME IInv, UNCHANGED reading, overtaken' = overtaken, disturbed => disturbed',
           version' \in Nat, version <= version',
           \A k \in Keys : cache'[k] \in {cache[k], Absent},
           \A m \in Mutations : mpc[m] = "answered" =>
               mpc'[m] = "answered" /\ committedAt'[m] = committedAt[m]
    PROVE  ReadInv' /\ StaleOnlyWhenOvertaken'
  <1> USE CacheAssumption DEF IInv, TypeOK
  <1>1. StaleOnlyWhenOvertaken'
    BY DEF StaleOnlyWhenOvertaken, reading
  <1>2. \A k \in Keys : cache'[k] # Absent => cache'[k] <= version'
    BY DEF ReadInv
  <1>3. ASSUME NEW r \in Reads
        PROVE  mustSee'[r] = 0 \/ \E m \in Mutations : /\ mpc'[m] = "answered"
                                                       /\ committedAt'[m] = mustSee'[r]
    BY DEF ReadInv, reading
  <1>4. ASSUME NEW r \in Reads
        PROVE  /\ rpc'[r] = "respond" => seen'[r] # Absent /\ mustSee'[r] <= seen'[r]
               /\ rpc'[r] = "answered" => seen'[r] # Absent
               /\ seen'[r] # Absent => seen'[r] <= version'
               /\ r \in filling' => rpc'[r] = "answered"
    BY DEF ReadInv, reading
  <1> QED
    BY <1>1, <1>2, <1>3, <1>4 DEF ReadInv

(* The number of mutations under way changes only with a commit.            *)
LEMMA CountKept ==
    ASSUME IInv, version' = version,
           \A m \in Mutations : mpc'[m] = "idle" <=> mpc[m] = "idle"
    PROVE  CountInv'
  <1>1. Started' = Started
    BY DEF Started
  <1> QED
    BY <1>1 DEF IInv, CountInv

------------------------------------------------------------------------------
(* The reads *)

LEMMA GetKeeps ==
    ASSUME IInv, NEW r \in Reads, Get(r)
    PROVE  IInv'
  <1> USE CacheAssumption
  <1>1. PICK v \in {0} \cup {committedAt[m] : m \in Over} :
           mustSee' = [mustSee EXCEPT ![r] = v]
    BY DEF Get
  <1>2. v = 0 \/ \E m \in Mutations : mpc[m] = "answered" /\ committedAt[m] = v
    BY DEF Over
  <1>3. TypeOK'
    <2>1. v \in 0..Cardinality(Mutations)
      BY <1>2, CardinalityMutations DEF IInv, TypeOK
    <2> QED
      BY <1>1, <2>1 DEF IInv, TypeOK, Get, mutating, history
  <1>4. CountInv' /\ MutationInv' /\ EntryInv'
    BY ReadsKeepMutations DEF Get
  <1>5. ReadInv'
    BY <1>1, <1>2 DEF IInv, TypeOK, ReadInv, Get, mutating
  <1>6. StaleOnlyWhenOvertaken'
    BY <1>1 DEF IInv, TypeOK, StaleOnlyWhenOvertaken, Get, history
  <1> QED
    BY <1>3, <1>4, <1>5, <1>6 DEF IInv

(* A hit is a response older than an answered mutation only if the mutation *)
(* has come past the key without deleting it, which EntryInv excuses.       *)
LEMMA HitKeeps ==
    ASSUME IInv, NEW r \in Reads, Hit(r)
    PROVE  IInv'
  <1> USE CacheAssumption
  <1>1. TypeOK'
    BY DEF IInv, TypeOK, Hit, mutating, history
  <1>2. CountInv' /\ MutationInv' /\ EntryInv'
    BY ReadsKeepMutations DEF Hit
  <1>3. ReadInv'
    <2>1. KeyOf[r] \in Keys /\ cache[KeyOf[r]] <= version
      BY DEF IInv, ReadInv, Hit
    <2> QED
      BY <2>1 DEF IInv, TypeOK, ReadInv, Hit, mutating
  <1>4. ASSUME cache[KeyOf[r]] < mustSee[r]
        PROVE  KeyOf[r] \in overtaken \/ disturbed
    <2>0. KeyOf[r] \in Keys /\ mustSee[r] \in Nat
      BY CardinalityMutations DEF IInv, TypeOK
    <2>1. cache[KeyOf[r]] \in Nat /\ mustSee[r] # 0
      BY <1>4, <2>0 DEF IInv, TypeOK, Hit
    <2>2. PICK m \in Mutations : mpc[m] = "answered" /\ committedAt[m] = mustSee[r]
      BY <2>1 DEF IInv, ReadInv
    <2>3. ~ Ahead(m, KeyOf[r])
      BY <2>2 DEF Ahead
    <2> QED
      BY <1>4, <2>0, <2>1, <2>2, <2>3 DEF IInv, EntryInv, Hit
  <1>5. StaleOnlyWhenOvertaken'
    BY <1>4 DEF IInv, TypeOK, StaleOnlyWhenOvertaken, Hit, history
  <1> QED
    BY <1>1, <1>2, <1>3, <1>5 DEF IInv

LEMMA MissKeeps ==
    ASSUME IInv, NEW r \in Reads, Miss(r) \/ GetCacheFails(r) \/ QueryFails(r)
    PROVE  IInv'
  <1> USE CacheAssumption
  <1>1. PICK at \in {"query", "failed"} : rpc' = [rpc EXCEPT ![r] = at]
    BY DEF Miss, GetCacheFails, QueryFails
  <1>2. /\ UNCHANGED <<version, cache, redisReady, seen, filling, mustSee, mutating, history>>
        /\ rpc[r] \in {"lookup", "query"}
    BY DEF Miss, GetCacheFails, QueryFails
  <1>3. TypeOK'
    BY <1>1, <1>2 DEF IInv, TypeOK, mutating, history
  <1>4. CountInv' /\ MutationInv' /\ EntryInv'
    BY <1>2, ReadsKeepMutations
  <1>5. ReadInv'
    BY <1>1, <1>2 DEF IInv, TypeOK, ReadInv, mutating
  <1>6. StaleOnlyWhenOvertaken'
    BY <1>1, <1>2 DEF IInv, TypeOK, StaleOnlyWhenOvertaken, history
  <1> QED
    BY <1>3, <1>4, <1>5, <1>6 DEF IInv

(* A query sees every mutation that committed before it.                    *)
LEMMA QueryKeeps ==
    ASSUME IInv, NEW r \in Reads, Query(r)
    PROVE  IInv'
  <1> USE CacheAssumption
  <1>1. TypeOK'
    <2>1. version \in Nat
      BY DEF IInv, TypeOK
    <2> QED
      BY <2>1 DEF IInv, TypeOK, Query, mutating, history
  <1>2. CountInv' /\ MutationInv' /\ EntryInv'
    BY ReadsKeepMutations DEF Query
  <1>3. version \in Nat /\ mustSee[r] <= version
    <2>1. version \in Nat
      BY DEF IInv, TypeOK
    <2>2. CASE mustSee[r] = 0
      BY <2>1, <2>2
    <2>3. CASE mustSee[r] # 0
      BY <2>1, <2>3 DEF IInv, ReadInv, MutationInv
    <2> QED
      BY <2>1, <2>2, <2>3
  <1>4. ReadInv'
    BY <1>3 DEF IInv, TypeOK, ReadInv, Query, mutating
  <1>5. StaleOnlyWhenOvertaken'
    BY DEF IInv, TypeOK, StaleOnlyWhenOvertaken, Query, history
  <1> QED
    BY <1>1, <1>2, <1>4, <1>5 DEF IInv

LEMMA RespondKeeps ==
    ASSUME IInv, NEW r \in Reads, Respond(r)
    PROVE  IInv'
  <1> USE CacheAssumption
  <1>0. /\ filling' = filling \cup {r} \/ filling' = filling
        /\ seen[r] \in Nat /\ mustSee[r] <= seen[r]
    BY DEF Respond, IInv, TypeOK, ReadInv
  <1>1. TypeOK'
    BY <1>0 DEF IInv, TypeOK, Respond, mutating, history
  <1>2. CountInv' /\ MutationInv' /\ EntryInv'
    BY ReadsKeepMutations DEF Respond
  <1>3. ReadInv'
    BY <1>0 DEF IInv, TypeOK, ReadInv, Respond, mutating
  <1>4. StaleOnlyWhenOvertaken'
    BY <1>0 DEF IInv, TypeOK, StaleOnlyWhenOvertaken, Respond, history
  <1> QED
    BY <1>1, <1>2, <1>3, <1>4 DEF IInv

(* The fill that lost the race marks its key as overtaken.                  *)
LEMMA setCacheKeeps ==
    ASSUME IInv, NEW r \in Reads, setCache(r)
    PROVE  IInv'
  <1> USE CacheAssumption
  <1> DEFINE k == KeyOf[r]
  <1>0. /\ k \in Keys /\ seen[r] \in Nat /\ seen[r] <= version /\ version \in Nat
        /\ cache' = [cache EXCEPT ![k] = seen[r]]
        /\ overtaken \subseteq overtaken'
        /\ overtaken' \subseteq overtaken \cup {k}
        /\ seen[r] < version => k \in overtaken'
    BY DEF IInv, TypeOK, ReadInv, setCache
  <1> HIDE DEF k
  <1>1. TypeOK'
    BY <1>0 DEF IInv, TypeOK, setCache, mutating
  <1>2. CountInv' /\ MutationInv'
    BY DEF IInv, CountInv, Started, MutationInv, setCache, mutating
  <1>3. EntryInv'
    <2> SUFFICES ASSUME NEW q \in Keys, NEW m \in Mutations,
                        cache'[q] # Absent, cache'[q] < committedAt'[m]
                 PROVE  q \in overtaken' \/ disturbed' \/ Ahead(m, q)'
      BY DEF EntryInv
    <2>1. committedAt' = committedAt /\ disturbed' = disturbed
      BY DEF setCache, mutating
    <2>2. Ahead(m, q)' <=> Ahead(m, q)
      BY DEF Ahead, setCache, mutating
    <2>3. CASE q = k
      <3>1. cache'[q] = seen[r]
        BY <1>0, <2>3 DEF IInv, TypeOK
      <3>2. committedAt[m] \in Nat /\ committedAt[m] <= version
        BY CardinalityMutations DEF IInv, TypeOK, MutationInv
      <3> QED
        BY <1>0, <2>1, <2>3, <3>1, <3>2
    <2>4. CASE q # k
      BY <1>0, <2>1, <2>2, <2>4 DEF IInv, TypeOK, EntryInv
    <2> QED
      BY <2>3, <2>4
  <1>4. ReadInv'
    <2>1. \A q \in Keys : cache'[q] # Absent => cache'[q] <= version'
      BY <1>0 DEF IInv, TypeOK, ReadInv, setCache
    <2>2. filling' \subseteq filling /\ UNCHANGED <<version, rpc, seen, mustSee, mpc, committedAt>>
      BY DEF setCache, mutating
    <2> QED
      BY <2>1, <2>2 DEF IInv, ReadInv
  <1>5. StaleOnlyWhenOvertaken'
    BY <1>0 DEF IInv, StaleOnlyWhenOvertaken, setCache
  <1> QED
    BY <1>1, <1>2, <1>3, <1>4, <1>5 DEF IInv

LEMMA setCacheFailsKeeps ==
    ASSUME IInv, NEW r \in Reads, setCacheFails(r)
    PROVE  IInv'
  <1>1. TypeOK'
    BY DEF IInv, TypeOK, setCacheFails, mutating, history
  <1>2. CountInv' /\ MutationInv' /\ EntryInv'
    BY ReadsKeepMutations DEF setCacheFails
  <1>3. ReadInv' /\ StaleOnlyWhenOvertaken'
    BY DEF IInv, ReadInv, StaleOnlyWhenOvertaken, setCacheFails, mutating, history
  <1> QED
    BY <1>1, <1>2, <1>3 DEF IInv

------------------------------------------------------------------------------
(* The mutations *)

(* A mutation commits once, so there are never more commits than mutations. *)
LEMMA CommitMutationKeeps ==
    ASSUME IInv, NEW m \in Mutations, CommitMutation(m)
    PROVE  IInv'
  <1> USE CacheAssumption
  <1>0. version \in Nat /\ version' = version + 1
    BY CardinalityMutations DEF IInv, TypeOK, CommitMutation
  <1>1. CountInv' /\ version' <= Cardinality(Mutations)
    <2>1. Started' = Started \cup {m} /\ m \notin Started
      BY DEF CommitMutation, Started, IInv, TypeOK
    <2>2. IsFiniteSet(Started) /\ Started' \subseteq Mutations
      BY FS_Subset DEF Started
    <2>3. Cardinality(Started') = Cardinality(Started) + 1
      BY <2>1, <2>2, FS_AddElement
    <2>4. Cardinality(Started') <= Cardinality(Mutations)
      BY <2>2, FS_Subset
    <2> QED
      BY <2>3, <2>4, <1>0 DEF IInv, CountInv
  <1>2. TypeOK'
    <2>1. version' \in 0..Cardinality(Mutations)
      BY <1>0, <1>1, CardinalityMutations
    <2> QED
      BY <1>0, <2>1 DEF IInv, TypeOK, CommitMutation, reading, history
  <1>3. MutationInv'
    <2>1. \A n \in Mutations : committedAt[n] \in Nat /\ committedAt[n] <= version
      BY CardinalityMutations DEF IInv, TypeOK, MutationInv
    <2> QED
      BY <1>0, <2>1 DEF IInv, TypeOK, MutationInv, CommitMutation
  <1>4. EntryInv'
    <2> SUFFICES ASSUME NEW k \in Keys, NEW n \in Mutations,
                        cache'[k] # Absent, cache'[k] < committedAt'[n]
                 PROVE  k \in overtaken' \/ disturbed' \/ Ahead(n, k)'
      BY DEF EntryInv
    <2>1. CASE n = m
      BY <2>1 DEF IInv, TypeOK, CommitMutation, Ahead
    <2>2. CASE n # m
      <3>1. committedAt'[n] = committedAt[n] /\ UNCHANGED <<cache, overtaken, disturbed>>
        BY <2>2 DEF IInv, TypeOK, CommitMutation, history
      <3>2. Ahead(n, k) => Ahead(n, k)'
        BY <2>2 DEF IInv, TypeOK, CommitMutation, Ahead
      <3> QED
        BY <3>1, <3>2 DEF IInv, EntryInv
    <2> QED
      BY <2>1, <2>2
  <1>5. ReadInv' /\ StaleOnlyWhenOvertaken'
    <2>1. \A n \in Mutations : mpc[n] = "answered" =>
              mpc'[n] = "answered" /\ committedAt'[n] = committedAt[n]
      BY DEF IInv, TypeOK, CommitMutation
    <2> QED
      BY <1>0, <2>1, MutationsKeepReads DEF CommitMutation, history
  <1> QED
    BY <1>1, <1>2, <1>3, <1>4, <1>5 DEF IInv

(* A mutation that moves on after its commit keeps the invariant if no      *)
(* entry still in the cache falls behind it, unless a failure is recorded.  *)
LEMMA MutationMoves ==
    ASSUME IInv, NEW m \in Mutations, TypeOK',
           UNCHANGED <<version, reading, committedAt, overtaken>>, disturbed => disturbed',
           mpc[m] \notin {"idle", "answered"}, mpc'[m] # "idle",
           mpc'[m] \in {"fallback", "delete"} => todo'[m] # <<>>,
           \A n \in Mutations \ {m} :
               mpc'[n] = mpc[n] /\ todo'[n] = todo[n] /\ keys'[n] = keys[n],
           \A k \in Keys : cache'[k] \in {cache[k], Absent},
           \A k \in Keys : cache'[k] # Absent /\ Ahead(m, k) => disturbed' \/ Ahead(m, k)'
    PROVE  IInv'
  <1>1. CountInv'
    BY CountKept
  <1>2. MutationInv'
    BY DEF IInv, MutationInv
  <1>3. EntryInv'
    <2> SUFFICES ASSUME NEW k \in Keys, NEW n \in Mutations,
                        cache'[k] # Absent, cache'[k] < committedAt'[n]
                 PROVE  k \in overtaken' \/ disturbed' \/ Ahead(n, k)'
      BY DEF EntryInv
    <2>1. k \in overtaken \/ disturbed \/ Ahead(n, k)
      BY DEF IInv, EntryInv
    <2>2. CASE n = m
      BY <2>1, <2>2
    <2>3. CASE n # m
      BY <2>1, <2>3 DEF Ahead
    <2> QED
      BY <2>2, <2>3
  <1>4. ReadInv' /\ StaleOnlyWhenOvertaken'
    <2>1. version \in Nat
      BY CardinalityMutations DEF IInv, TypeOK
    <2> QED
      BY <2>1, MutationsKeepReads
  <1> QED
    BY <1>1, <1>2, <1>3, <1>4 DEF IInv

LEMMA GiveUpKeeps ==
    ASSUME IInv, NEW m \in Mutations,
           FailBeforeInvalidate(m) \/ SkipInvalidate(m) \/ ScanFails(m)
    PROVE  IInv'
  <1>1. /\ mpc[m] \in {"committed", "scan", "fallback"}
        /\ mpc' = [mpc EXCEPT ![m] = "answered"]
        /\ disturbed' = TRUE
        /\ UNCHANGED <<version, cache, redisReady, reading, todo, keys, committedAt, overtaken>>
    BY DEF FailBeforeInvalidate, SkipInvalidate, ScanFails
  <1>2. TypeOK'
    BY <1>1 DEF IInv, TypeOK, reading
  <1> QED
    BY <1>1, <1>2, MutationMoves DEF IInv, TypeOK

(* The group names the namespace of every key.                              *)
LEMMA InvalidateKeeps ==
    ASSUME IInv, NEW m \in Mutations, Invalidate(m)
    PROVE  IInv'
  <1>1. TypeOK'
    BY CacheAssumption DEF IInv, TypeOK, Invalidate, reading, history
  <1>2. /\ mpc[m] = "committed" /\ mpc'[m] = "scan" /\ todo'[m] = GroupOf[m]
        /\ \A n \in Mutations \ {m} :
               mpc'[n] = mpc[n] /\ todo'[n] = todo[n] /\ keys'[n] = keys[n]
    BY DEF IInv, TypeOK, Invalidate
  <1>3. \A k \in Keys : Ahead(m, k)'
    <2>1. DOMAIN GroupOf[m] = 1..Len(GroupOf[m])
      BY CacheAssumption
    <2> QED
      BY <1>2, <2>1, GroupAssumption DEF Ahead
  <1> QED
    BY <1>1, <1>2, <1>3, MutationMoves DEF Invalidate, history

(* Every entry of the namespace being scanned is collected.                 *)
LEMMA ScanKeeps ==
    ASSUME IInv, NEW m \in Mutations, Scan(m) \/ KeysFallback(m)
    PROVE  IInv'
  <1>1. /\ mpc[m] \in {"scan", "fallback"}
        /\ todo[m] # <<>> /\ todo[m] \in Seq(Namespaces)
        /\ keys' = [keys EXCEPT ![m] = KeysMatching(Head(todo[m]))]
        /\ UNCHANGED <<version, cache, redisReady, reading, todo, committedAt, history>>
    BY DEF Scan, KeysFallback, IInv, TypeOK, MutationInv
  <1>2. PICK at \in {"fallback", "delete"} : mpc' = [mpc EXCEPT ![m] = at]
    BY DEF Scan, KeysFallback
  <1>3. TypeOK'
    BY <1>1, <1>2 DEF IInv, TypeOK, KeysMatching, reading, history
  <1>4. /\ mpc'[m] = at /\ keys'[m] = KeysMatching(Head(todo[m]))
        /\ \A n \in Mutations \ {m} :
               mpc'[n] = mpc[n] /\ todo'[n] = todo[n] /\ keys'[n] = keys[n]
    BY <1>1, <1>2 DEF IInv, TypeOK
  <1>5. ASSUME NEW k \in Keys, cache[k] # Absent, Ahead(m, k)
        PROVE  Ahead(m, k)'
    <2>1. PICK i \in 1..Len(todo[m]) : todo[m][i] = NamespaceOf[k]
      BY <1>1, <1>5 DEF Ahead
    <2>2. CASE at = "fallback"
      BY <1>1, <1>4, <2>1, <2>2 DEF Ahead
    <2>3. CASE at = "delete" /\ i = 1
      <3>1. Head(todo[m]) = NamespaceOf[k]
        BY <1>1, <2>1, <2>3
      <3> QED
        BY <1>4, <1>5, <2>3, <3>1 DEF Ahead, KeysMatching
    <2>4. CASE at = "delete" /\ i # 1
      <3>1. i \in 2..Len(todo[m])
        BY <1>1, <2>1, <2>4
      <3> QED
        BY <1>1, <1>4, <2>1, <2>4, <3>1 DEF Ahead
    <2> QED
      BY <2>2, <2>3, <2>4
  <1> QED
    BY <1>1, <1>3, <1>4, <1>5, MutationMoves DEF history

(* A key leaves the collected keys only with its entry, or with a failure.  *)
LEMMA DeleteKeeps ==
    ASSUME IInv, NEW m \in Mutations, NEW q \in Keys, Delete(m, q) \/ DeleteFails(m, q)
    PROVE  IInv'
  <1>1. /\ mpc[m] = "delete"
        /\ keys' = [keys EXCEPT ![m] = @ \ {q}]
        /\ UNCHANGED <<version, redisReady, reading, mpc, todo, committedAt, overtaken>>
        /\ \/ cache' = [cache EXCEPT ![q] = Absent] /\ UNCHANGED disturbed
           \/ cache' = cache /\ disturbed' = TRUE
    BY DEF Delete, DeleteFails
  <1>2. TypeOK'
    BY <1>1 DEF IInv, TypeOK, reading
  <1>3. /\ keys'[m] = keys[m] \ {q}
        /\ \A n \in Mutations \ {m} : keys'[n] = keys[n]
        /\ \A k \in Keys : cache'[k] \in {cache[k], Absent}
        /\ cache'[q] = Absent \/ disturbed'
    BY <1>1 DEF IInv, TypeOK
  <1>4. ASSUME NEW k \in Keys, cache'[k] # Absent, Ahead(m, k)
        PROVE  disturbed' \/ Ahead(m, k)'
    BY <1>1, <1>3, <1>4 DEF Ahead
  <1>5. mpc'[m] \in {"fallback", "delete"} => todo'[m] # <<>>
    BY <1>1 DEF IInv, MutationInv
  <1> QED
    BY <1>1, <1>2, <1>3, <1>4, <1>5, MutationMoves

(* The namespaces after the first are all that is still ahead of a mutation *)
(* whose collected keys are deleted.                                        *)
LEMMA NextNamespaceKeeps ==
    ASSUME IInv, NEW m \in Mutations, NextNamespace(m)
    PROVE  IInv'
  <1>1. /\ mpc[m] = "delete" /\ keys[m] = {}
        /\ todo[m] # <<>> /\ todo[m] \in Seq(Namespaces)
        /\ mpc'[m] = "scan" /\ todo'[m] = Tail(todo[m])
        /\ \A n \in Mutations \ {m} :
               mpc'[n] = mpc[n] /\ todo'[n] = todo[n] /\ keys'[n] = keys[n]
    BY DEF NextNamespace, IInv, TypeOK, MutationInv
  <1>2. TypeOK'
    BY <1>1 DEF IInv, TypeOK, NextNamespace, reading, history
  <1>3. ASSUME NEW k \in Keys, Ahead(m, k)
        PROVE  Ahead(m, k)'
    <2>1. PICK i \in 2..Len(todo[m]) : todo[m][i] = NamespaceOf[k]
      BY <1>1, <1>3 DEF Ahead
    <2>2. i - 1 \in 1..Len(todo'[m]) /\ todo'[m][i - 1] = NamespaceOf[k]
      BY <1>1, <2>1
    <2> QED
      BY <1>1, <2>2 DEF Ahead
  <1> QED
    BY <1>1, <1>2, <1>3, MutationMoves DEF NextNamespace, history

LEMMA RespondMutatedKeeps ==
    ASSUME IInv, NEW m \in Mutations, RespondMutated(m)
    PROVE  IInv'
  <1>1. TypeOK'
    BY DEF IInv, TypeOK, RespondMutated, reading, history
  <1>2. /\ mpc[m] = "scan" /\ mpc'[m] = "answered" /\ todo[m] = <<>>
        /\ \A n \in Mutations \ {m} :
               mpc'[n] = mpc[n] /\ todo'[n] = todo[n] /\ keys'[n] = keys[n]
    BY DEF IInv, TypeOK, RespondMutated
  <1>3. \A k \in Keys : ~ Ahead(m, k)
    BY <1>2 DEF Ahead
  <1> QED
    BY <1>1, <1>2, <1>3, MutationMoves DEF RespondMutated, history

------------------------------------------------------------------------------
(* Redis *)

LEMMA RedisKeeps ==
    ASSUME IInv, RedisError \/ RedisReady \/ UNCHANGED vars \/ (\E k \in Keys : Expire(k))
    PROVE  IInv'
  <1>1. /\ UNCHANGED <<version, reading, mutating, history>>
        /\ redisReady' \in BOOLEAN
        /\ cache' \in [Keys -> Nat \cup {Absent}]
        /\ \A q \in Keys : cache'[q] \in {cache[q], Absent}
    BY DEF RedisError, RedisReady, Expire, vars, IInv, TypeOK
  <1>2. TypeOK'
    BY <1>1 DEF IInv, TypeOK, reading, mutating, history
  <1>3. CountInv' /\ MutationInv'
    BY <1>1 DEF IInv, CountInv, Started, MutationInv, mutating
  <1>4. EntryInv'
    BY <1>1 DEF IInv, EntryInv, Ahead, mutating, history
  <1>5. ReadInv' /\ StaleOnlyWhenOvertaken'
    <2>1. version \in Nat
      BY CardinalityMutations DEF IInv, TypeOK
    <2> QED
      BY <1>1, <2>1, MutationsKeepReads DEF mutating, history
  <1> QED
    BY <1>2, <1>3, <1>4, <1>5 DEF IInv

------------------------------------------------------------------------------
(* The theorems *)

LEMMA InitInvariant == Init => IInv
  <1> SUFFICES ASSUME Init PROVE IInv
    OBVIOUS
  <1> USE CacheAssumption, CardinalityMutations
  <1>1. TypeOK
    <2>1. 0 \in 0..Cardinality(Mutations) /\ <<>> \in Seq(Namespaces)
      OBVIOUS
    <2>2. /\ todo \in [Mutations -> Seq(Namespaces)]
          /\ keys \in [Mutations -> SUBSET Keys]
          /\ committedAt \in [Mutations -> 0..Cardinality(Mutations)]
          /\ mustSee \in [Reads -> 0..Cardinality(Mutations)]
      BY <2>1 DEF Init
    <2> QED
      BY <2>1, <2>2 DEF Init, TypeOK
  <1>2. CountInv
    <2>1. Started = {}
      BY DEF Init, Started
    <2> QED
      BY <2>1, FS_EmptySet DEF Init, CountInv
  <1>3. MutationInv /\ EntryInv
    BY DEF Init, MutationInv, EntryInv
  <1>4. ReadInv /\ StaleOnlyWhenOvertaken
    BY DEF Init, ReadInv, StaleOnlyWhenOvertaken
  <1> QED
    BY <1>1, <1>2, <1>3, <1>4 DEF IInv

LEMMA StepInvariant == IInv /\ [Next]_vars => IInv'
  <1> SUFFICES ASSUME IInv, [Next]_vars PROVE IInv'
    OBVIOUS
  <1>1. CASE \E r \in Reads :
                \/ Get(r) \/ ReadStep(r) \/ setCache(r)
                \/ GetCacheFails(r) \/ QueryFails(r) \/ setCacheFails(r)
    BY <1>1, GetKeeps, HitKeeps, MissKeeps, QueryKeeps, RespondKeeps,
       setCacheKeeps, setCacheFailsKeeps DEF ReadStep
  <1>2. CASE \E m \in Mutations :
                \/ CommitMutation(m) \/ MutationStep(m)
                \/ FailBeforeInvalidate(m) \/ ScanFails(m)
                \/ \E k \in Keys : DeleteFails(m, k)
    BY <1>2, CommitMutationKeeps, GiveUpKeeps, InvalidateKeeps, ScanKeeps, DeleteKeeps,
       NextNamespaceKeeps, RespondMutatedKeeps DEF MutationStep
  <1>3. CASE RedisError \/ RedisReady \/ UNCHANGED vars \/ \E k \in Keys : Expire(k)
    BY <1>3, RedisKeeps
  <1> QED
    BY <1>1, <1>2, <1>3 DEF Next

(* The invariant holds in every reachable state, whatever the number of     *)
(* GETs, mutations, keys and namespaces.                                    *)
THEOREM Invariance == Spec => []IInv
  BY InitInvariant, StepInvariant, PTL DEF Spec

(* The cache holds versions, and no mutation is counted twice.              *)
THEOREM TypeCorrect == Spec => []TypeOK
  <1>1. IInv => TypeOK
    BY DEF IInv
  <1> QED
    BY <1>1, Invariance, PTL

(* deleteCache, deleting key by key while GETs fill and Redis fails, makes  *)
(* a later GET see an answered mutation except after an overtaking fill or  *)
(* a recorded failure.                                                      *)
THEOREM StaleReadsExcused == Spec => []StaleOnlyWhenOvertaken
  <1>1. IInv => StaleOnlyWhenOvertaken
    BY DEF IInv
  <1> QED
    BY <1>1, Invariance, PTL

------------------------------------------------------------------------------
(* Why stale entries leave the cache for good *)

Stale(k) == cache[k] # Absent /\ cache[k] # version

\* GETs that may still store a response that is no longer current.
LateFills == {r \in Reads : (rpc[r] = "respond" \/ r \in filling) /\ seen[r] # version}

LateFillsRunOut ==
    [][version' = version =>
          /\ LateFills' \subseteq LateFills
          /\ \A k \in Keys : Stale(k)' /\ ~Stale(k) =>
                \E r \in LateFills \ LateFills' : KeyOf[r] = k]_vars

(* Nothing but a setCache stores a response, and nothing but the SELECT,    *)
(* which reads the current version, makes one that a GET may store.         *)
LEMMA FillsRunOut ==
    ASSUME IInv, Next, version' = version
    PROVE  /\ LateFills' \subseteq LateFills
           /\ \A k \in Keys : Stale(k)' /\ ~Stale(k) =>
                 \E r \in LateFills \ LateFills' : KeyOf[r] = k
  <1> USE CacheAssumption
  <1> DEFINE Goal == /\ LateFills' \subseteq LateFills
                     /\ \A k \in Keys : Stale(k)' /\ ~Stale(k) =>
                           \E r \in LateFills \ LateFills' : KeyOf[r] = k
  <1>0. /\ rpc \in [Reads -> {"idle", "lookup", "query", "respond", "answered", "failed"}]
        /\ seen \in [Reads -> Nat \cup {Absent}] /\ filling \subseteq Reads
        /\ cache \in [Keys -> Nat \cup {Absent}]
        /\ \A r \in filling : rpc[r] = "answered"
    BY DEF IInv, TypeOK, ReadInv
  <1>1. ASSUME UNCHANGED reading, \A k \in Keys : cache'[k] \in {cache[k], Absent}
        PROVE  Goal
    BY <1>1 DEF reading, LateFills, Stale
  <1>2. ASSUME NEW r \in Reads, UNCHANGED cache,
               \A q \in Reads \ {r} : rpc'[q] = rpc[q] /\ seen'[q] = seen[q],
               filling' \in {filling, filling \cup {r}},
               r \in LateFills' => r \in LateFills
        PROVE  Goal
    BY <1>2 DEF LateFills, Stale
  <1>3. ASSUME NEW r \in Reads,
               Get(r) \/ ReadStep(r) \/ GetCacheFails(r) \/ QueryFails(r)
        PROVE  Goal
    <2>1. /\ UNCHANGED cache /\ filling' \in {filling, filling \cup {r}}
          /\ \A q \in Reads \ {r} : rpc'[q] = rpc[q] /\ seen'[q] = seen[q]
      BY <1>0, <1>3 DEF Get, ReadStep, Hit, Miss, GetCacheFails, Query, QueryFails, Respond
    <2>2. r \in LateFills' => r \in LateFills
      <3>1. CASE Get(r) \/ Hit(r) \/ Miss(r) \/ GetCacheFails(r) \/ QueryFails(r)
        BY <1>0, <3>1 DEF Get, Hit, Miss, GetCacheFails, QueryFails, LateFills
      <3>2. CASE Query(r)
        BY <1>0, <3>2 DEF Query, LateFills
      <3>3. CASE Respond(r)
        BY <1>0, <3>3 DEF Respond, LateFills
      <3> QED
        BY <1>3, <3>1, <3>2, <3>3 DEF ReadStep
    <2> QED
      BY <1>2, <2>1, <2>2
  <1>4. ASSUME NEW r \in Reads, setCache(r) \/ setCacheFails(r)
        PROVE  Goal
    <2>1. /\ UNCHANGED <<rpc, seen>> /\ filling' = filling \ {r} /\ r \in filling
          /\ \A k \in Keys \ {KeyOf[r]} : cache'[k] = cache[k]
          /\ cache'[KeyOf[r]] \in {cache[KeyOf[r]], seen[r]}
      BY <1>0, <1>4 DEF setCache, setCacheFails
    <2>2. LateFills' \subseteq LateFills /\ r \notin LateFills'
      BY <1>0, <2>1 DEF LateFills
    <2>3. ASSUME NEW k \in Keys, Stale(k)', ~Stale(k)
          PROVE  k = KeyOf[r] /\ r \in LateFills
      BY <1>0, <2>1, <2>3 DEF Stale, LateFills
    <2> QED
      BY <2>2, <2>3
  <1>5. ASSUME NEW m \in Mutations,
               \/ CommitMutation(m) \/ MutationStep(m)
               \/ FailBeforeInvalidate(m) \/ ScanFails(m)
               \/ \E k \in Keys : DeleteFails(m, k)
        PROVE  Goal
    <2>1. UNCHANGED reading /\ \A k \in Keys : cache'[k] \in {cache[k], Absent}
      BY <1>0, <1>5 DEF CommitMutation, MutationStep, FailBeforeInvalidate, ScanFails,
             DeleteFails, SkipInvalidate, Invalidate, Scan, KeysFallback, Delete,
             NextNamespace, RespondMutated
    <2> QED
      BY <1>1, <2>1
  <1>6. ASSUME RedisError \/ RedisReady \/ \E k \in Keys : Expire(k)
        PROVE  Goal
    <2>1. UNCHANGED reading /\ \A k \in Keys : cache'[k] \in {cache[k], Absent}
      BY <1>0, <1>6 DEF RedisError, RedisReady, Expire
    <2> QED
      BY <1>1, <2>1
  <1> QED
    BY <1>3, <1>4, <1>5, <1>6 DEF Next

(* Once the mutations are over, each stale entry is the work of one GET     *)
(* that had read before the last of them, and there are no new ones: with   *)
(* the entries' TTL that is why the cache converges.                        *)
THEOREM LateFillsDwindle == Spec => LateFillsRunOut
  <1>1. IInv /\ [Next]_vars =>
           [version' = version =>
               /\ LateFills' \subseteq LateFills
               /\ \A k \in Keys : Stale(k)' /\ ~Stale(k) =>
                     \E r \in LateFills \ LateFills' : KeyOf[r] = k]_vars
    BY FillsRunOut
  <1> QED
    BY <1>1, Invariance, PTL DEF Spec, LateFillsRunOut

------------------------------------------------------------------------------
(* Why an invalidation ends *)

\* What a mutation has left, in lexicographic order: namespaces to invalidate,
\* the part of deleteCache it is at, keys to delete.
NamespacesLeft(m) ==
    CASE mpc[m] \in {"idle", "committed"} -> Len(GroupOf[m]) + 1
      [] mpc[m] = "answered" -> 0
      [] OTHER -> Len(todo[m])
PartsLeft(m) ==
    CASE mpc[m] = "scan" -> 3
      [] mpc[m] = "fallback" -> 2
      [] mpc[m] \in {"delete", "idle"} -> 1
      [] OTHER -> 0
KeysLeft(m) == IF mpc[m] = "delete" THEN Cardinality(keys[m]) ELSE 0

LessLeft(m) ==
    \/ NamespacesLeft(m)' < NamespacesLeft(m)
    \/ /\ NamespacesLeft(m)' = NamespacesLeft(m)
       /\ \/ PartsLeft(m)' < PartsLeft(m)
          \/ PartsLeft(m)' = PartsLeft(m) /\ KeysLeft(m)' < KeysLeft(m)

InvalidationsRunOut ==
    [][\A m \in Mutations : UNCHANGED <<mpc[m], todo[m], keys[m]>> \/ LessLeft(m)]_vars

(* Only so many entries are there, so a scan collects only so many keys.    *)
FewEntries ==
    /\ IsFiniteSet({k \in Keys : cache[k] # Absent})
    /\ \A m \in Mutations : IsFiniteSet(keys[m])

LEMMA NextFewEntries == IInv /\ FewEntries /\ [Next]_vars => FewEntries'
  <1> SUFFICES ASSUME IInv, FewEntries, [Next]_vars PROVE FewEntries'
    OBVIOUS
  <1> USE CacheAssumption
  <1> DEFINE Entries == {k \in Keys : cache[k] # Absent}
  <1>0. /\ cache \in [Keys -> Nat \cup {Absent}] /\ keys \in [Mutations -> SUBSET Keys]
        /\ filling \subseteq Reads
    BY DEF IInv, TypeOK
  <1>1. IsFiniteSet(Entries')
    <2>1. \/ Entries' \subseteq Entries
          \/ \E q \in Keys : Entries' \subseteq Entries \cup {q}
      <3>1. \/ \A k \in Keys : cache'[k] \in {cache[k], Absent}
            \/ \E r \in filling : \A k \in Keys \ {KeyOf[r]} : cache'[k] = cache[k]
        BY <1>0 DEF Next, vars, ReadStep, Get, Hit, Miss, Query, Respond, setCache,
             GetCacheFails, QueryFails, setCacheFails, CommitMutation, MutationStep,
             FailBeforeInvalidate, ScanFails, DeleteFails, SkipInvalidate, Invalidate, Scan,
             KeysFallback, Delete, NextNamespace, RespondMutated, RedisError, RedisReady, Expire
      <3>2. CASE \A k \in Keys : cache'[k] \in {cache[k], Absent}
        BY <3>2
      <3>3. CASE \E r \in filling : \A k \in Keys \ {KeyOf[r]} : cache'[k] = cache[k]
        BY <1>0, <3>3
      <3> QED
        BY <3>1, <3>2, <3>3
    <2>2. IsFiniteSet(Entries)
      BY DEF FewEntries
    <2> HIDE DEF Entries
    <2>3. \A q \in Keys : IsFiniteSet(Entries \cup {q})
      BY <2>2, FS_AddElement
    <2> QED
      BY <2>1, <2>2, <2>3, FS_Subset
  <1>2. ASSUME NEW m \in Mutations
        PROVE  IsFiniteSet(keys'[m])
    <2>1. CASE UNCHANGED keys
      BY <2>1 DEF FewEntries
    <2>2. ASSUME NEW n \in Mutations, Scan(n) \/ KeysFallback(n)
          PROVE  IsFiniteSet(keys'[m])
      <3>1. keys'[m] = keys[m] \/ \E s : keys'[m] = KeysMatching(s)
        BY <1>0, <2>2 DEF Scan, KeysFallback
      <3>2. \A s : KeysMatching(s) \subseteq Entries
        BY DEF KeysMatching
      <3> QED
        BY <3>1, <3>2, FS_Subset DEF FewEntries
    <2>3. ASSUME NEW n \in Mutations, NEW k \in Keys, Delete(n, k) \/ DeleteFails(n, k)
          PROVE  IsFiniteSet(keys'[m])
      <3>1. keys'[m] \subseteq keys[m]
        BY <1>0, <2>3 DEF Delete, DeleteFails
      <3> QED
        BY <3>1, FS_Subset DEF FewEntries
    <2> QED
      BY <2>1, <2>2, <2>3
         DEF Next, vars, mutating, ReadStep, Get, Hit, Miss, Query, Respond, setCache,
             GetCacheFails, QueryFails, setCacheFails, CommitMutation, MutationStep,
             FailBeforeInvalidate, ScanFails, SkipInvalidate, Invalidate, NextNamespace,
             RespondMutated, RedisError, RedisReady, Expire
  <1> QED
    BY <1>1, <1>2 DEF FewEntries

(* What a mutation does next leaves it less to do, whatever is stored       *)
(* meanwhile under the namespaces it deletes.                               *)
LEMMA MutationsRunOut ==
    ASSUME IInv, FewEntries, FewEntries', Next, NEW m \in Mutations
    PROVE  UNCHANGED <<mpc[m], todo[m], keys[m]>> \/ LessLeft(m)
  <1> USE CacheAssumption
  <1>0. /\ mpc \in [Mutations -> {"idle", "committed", "scan", "fallback", "delete", "answered"}]
        /\ todo \in [Mutations -> Seq(Namespaces)] /\ keys \in [Mutations -> SUBSET Keys]
        /\ mpc[m] \in {"fallback", "delete"} => todo[m] # <<>>
        /\ Len(GroupOf[m]) \in Nat /\ Len(todo[m]) \in Nat
        /\ todo[m] # <<>> => Len(todo[m]) > 0
    BY DEF IInv, TypeOK, MutationInv
  <1>1. CASE UNCHANGED mutating
    BY <1>1 DEF mutating
  <1>2. ASSUME NEW n \in Mutations \ {m},
               \/ CommitMutation(n) \/ MutationStep(n)
               \/ FailBeforeInvalidate(n) \/ ScanFails(n)
               \/ \E k \in Keys : DeleteFails(n, k)
        PROVE  UNCHANGED <<mpc[m], todo[m], keys[m]>>
    BY <1>0, <1>2 DEF CommitMutation, MutationStep, FailBeforeInvalidate, ScanFails,
             DeleteFails, SkipInvalidate, Invalidate, Scan, KeysFallback, Delete,
             NextNamespace, RespondMutated
  <1>3. CASE CommitMutation(m)
    <2>1. mpc[m] = "idle" /\ mpc'[m] = "committed"
      BY <1>0, <1>3 DEF CommitMutation
    <2> QED
      BY <1>0, <2>1 DEF LessLeft, NamespacesLeft, PartsLeft
  <1>4. CASE FailBeforeInvalidate(m) \/ SkipInvalidate(m) \/ ScanFails(m) \/ RespondMutated(m)
    <2>1. /\ mpc'[m] = "answered" /\ mpc[m] \in {"committed", "scan", "fallback"}
          /\ UNCHANGED todo
      BY <1>0, <1>4 DEF FailBeforeInvalidate, SkipInvalidate, ScanFails, RespondMutated
    <2> QED
      BY <1>0, <2>1 DEF LessLeft, NamespacesLeft, PartsLeft
  <1>5. CASE Invalidate(m)
    <2>1. mpc[m] = "committed" /\ mpc'[m] = "scan" /\ todo'[m] = GroupOf[m]
      BY <1>0, <1>5 DEF Invalidate
    <2> QED
      BY <1>0, <2>1 DEF LessLeft, NamespacesLeft
  <1>6. CASE Scan(m) \/ KeysFallback(m)
    <2>1. /\ UNCHANGED todo
          /\ \/ mpc[m] = "scan" /\ mpc'[m] \in {"fallback", "delete"}
             \/ mpc[m] = "fallback" /\ mpc'[m] = "delete"
      BY <1>0, <1>6 DEF Scan, KeysFallback
    <2> QED
      BY <1>0, <2>1 DEF LessLeft, NamespacesLeft, PartsLeft
  <1>7. ASSUME NEW k \in Keys, Delete(m, k) \/ DeleteFails(m, k)
        PROVE  LessLeft(m)
    <2>1. /\ mpc[m] = "delete" /\ UNCHANGED <<mpc, todo>>
          /\ k \in keys[m] /\ keys'[m] = keys[m] \ {k}
      BY <1>0, <1>7 DEF Delete, DeleteFails
    <2>2. /\ Cardinality(keys'[m]) = Cardinality(keys[m]) - 1
          /\ Cardinality(keys[m]) \in Nat
      <3>1. IsFiniteSet(keys[m])
        BY DEF FewEntries
      <3>2. Cardinality(keys[m] \ {k}) = Cardinality(keys[m]) - 1
        BY <2>1, <3>1, FS_RemoveElement
      <3> QED
        BY <2>1, <3>1, <3>2, FS_CardinalityType
    <2> QED
      BY <1>0, <2>1, <2>2 DEF LessLeft, NamespacesLeft, PartsLeft, KeysLeft
  <1>8. CASE NextNamespace(m)
    <2>1. /\ mpc[m] = "delete" /\ mpc'[m] = "scan"
          /\ todo[m] # <<>> /\ todo[m] \in Seq(Namespaces) /\ todo'[m] = Tail(todo[m])
      BY <1>0, <1>8 DEF NextNamespace
    <2>2. Len(todo'[m]) = Len(todo[m]) - 1
      BY <2>1
    <2>3. NamespacesLeft(m) = Len(todo[m]) /\ NamespacesLeft(m)' = Len(todo'[m])
      BY <2>1 DEF NamespacesLeft
    <2>4. NamespacesLeft(m)' < NamespacesLeft(m)
      BY <1>0, <2>2, <2>3
    <2> QED
      BY <2>4 DEF LessLeft
  <1> QED
    BY <1>1, <1>2, <1>3, <1>4, <1>5, <1>6, <1>7, <1>8
       DEF Next, MutationStep, ReadStep, Get, Hit, Miss, Query, Respond, setCache,
           GetCacheFails, QueryFails, setCacheFails, RedisError, RedisReady, Expire

(* No number of GETs that fill the cache meanwhile, and no outage of Redis, *)
(* gives a mutation more to invalidate than it has: every step of its own   *)
(* leaves less, so what can put its answer off for ever is only a step that *)
(* is not taken, a SCAN or KEYS that waits for Redis.  The keys it collects *)
(* are finitely many, so the order has no infinite descent.                 *)
THEOREM InvalidationsEnd == Spec => []FewEntries /\ InvalidationsRunOut
  <1>1. Init => FewEntries
    <2>1. ASSUME Init PROVE {k \in Keys : cache[k] # Absent} = {}
      BY <2>1 DEF Init
    <2> QED
      BY <2>1, FS_EmptySet DEF Init, FewEntries
  <1>2. IInv /\ FewEntries /\ [Next]_vars => FewEntries'
    BY NextFewEntries
  <1>3. IInv /\ FewEntries /\ FewEntries' /\ [Next]_vars =>
           [\A m \in Mutations : UNCHANGED <<mpc[m], todo[m], keys[m]>> \/ LessLeft(m)]_vars
    BY MutationsRunOut
  <1> QED
    BY <1>1, <1>2, <1>3, Invariance, PTL DEF Spec, InvalidationsRunOut

==============================================================================
