----------------------- MODULE StockTransactions_proofs -----------------------
(***************************************************************************)
(* Proofs about StockTransactions, for any number of requests, products,   *)
(* items, edits and connections: the row-lock discipline is an inductive   *)
(* invariant, no set of requests ever waits in a circle, refusals and      *)
(* success answers are truthful, the transactions implement the atomic     *)
(* ledger of module Inventory, every unit of stock is accounted for, and   *)
(* waiting for locks and connections ends.                                 *)
(***************************************************************************)
EXTENDS StockTransactions, FiniteSetTheorems, WellFoundedInduction, TLAPS

(* The inductive invariant.  SnapshotCurrent alone is not inductive: that   *)
(* a row is still locked at the end needs LockInv, that what is written is  *)
(* within what was read needs PhaseInv, that a written stock is not         *)
(* negative needs CheckedInv.                                               *)
IInv == TypeOK /\ TransactionInv /\ SnapshotCurrent /\ LocksAscend

------------------------------------------------------------------------------
(* Sums over finite sets *)

(* A nonempty set of numbers has a least one.                               *)
LEMMA NatMin ==
    ASSUME NEW S \in SUBSET Nat, S # {}
    PROVE  \E m \in S : \A n \in S : m <= n
  <1> DEFINE Less == {ss \in Nat \X Nat : ss[1] < ss[2]}
  <1>1. IsWellFoundedOn(Less, Nat)
    BY Zenon, NatLessThanWellFounded DEF OpToRel
  <1>2. \E m \in S : \A n \in S : <<n, m>> \notin Less
    <2> HIDE DEF Less
    <2> QED BY <1>1, WFMin
  <1>3. \A m \in Nat, n \in Nat : n < m => <<n, m>> \in Less
    OBVIOUS
  <1>4. PICK m \in S : \A n \in S : <<n, m>> \notin Less
    BY <1>2
  <1>5. \A n \in S : ~(n < m)
    BY <1>3, <1>4
  <1>6. \A n \in S : n \in Nat /\ m \in Nat
    OBVIOUS
  <1> HIDE DEF Less
  <1> QED
    BY <1>5, <1>6

(* Among some subsets of a finite set one is minimal: induction on finite   *)
(* sets, in a form that needs no operator parameter.                        *)
LEMMA MinimalSubset ==
    ASSUME NEW S, IsFiniteSet(S), NEW B \in SUBSET (SUBSET S), B # {}
    PROVE  \E T \in B : \A x \in T : T \ {x} \notin B
  <1> DEFINE Sizes == {Cardinality(T) : T \in B}
  <1>1. \A T \in B : IsFiniteSet(T) /\ Cardinality(T) \in Nat
    BY FS_Subset, FS_CardinalityType
  <1>2. PICK n \in Sizes : \A m \in Sizes : n <= m
    <2>1. Sizes \in SUBSET Nat /\ Sizes # {}
      BY <1>1
    <2> HIDE DEF Sizes
    <2> QED BY <2>1, NatMin
  <1>3. PICK T \in B : n = Cardinality(T)
    OBVIOUS
  <1>4. ASSUME NEW x \in T, T \ {x} \in B PROVE FALSE
    <2>1. Cardinality(T \ {x}) = Cardinality(T) - 1
      BY <1>1, FS_RemoveElement
    <2>2. Cardinality(T) <= Cardinality(T \ {x})
      BY <1>2, <1>3, <1>4
    <2> QED BY <1>1, <2>1, <2>2
  <1> QED
    BY <1>4

(* A sum by recursion: the picked element, then the rest.                   *)
Pick(S) == CHOOSE x \in S : TRUE
Sums(f, S, sum) ==
    sum = [T \in SUBSET S |-> IF T = {} THEN 0 ELSE f[Pick(T)] + sum[T \ {Pick(T)}]]
Partial(f, S) == CHOOSE sum : Sums(f, S, sum)

(* A sum is the value at S of a function defined by recursion on the        *)
(* subsets of S.                                                            *)
LEMMA SumIsPartial ==
    ASSUME NEW f, NEW S
    PROVE  SumFunctionOnSet(f, S) = Partial(f, S)[S]
  BY Zenon DEF SumFunctionOnSet, FoldFunctionOnSet, MapThenFoldSet, Partial, Sums, Pick

(* The element a sum takes first is one of the set.                         *)
LEMMA PickIn == ASSUME NEW S, S # {} PROVE Pick(S) \in S
  BY Zenon DEF Pick

(* What such a function says of a set T does not depend on the larger set   *)
(* it is defined on.                                                        *)
LEMMA SumsUnique ==
    ASSUME NEW f, NEW S, IsFiniteSet(S), NEW T \in SUBSET S,
           NEW a, Sums(f, S, a), NEW b, Sums(f, T, b)
    PROVE  a[T] = b[T]
  <1> DEFINE Bad == {U \in SUBSET T : a[U] # b[U]}
  <1>1. SUFFICES ASSUME Bad # {} PROVE FALSE
    OBVIOUS
  <1>2. PICK U \in Bad : \A x \in U : U \ {x} \notin Bad
    <2>1. IsFiniteSet(T) /\ Bad \in SUBSET (SUBSET T)
      BY FS_Subset
    <2> HIDE DEF Bad
    <2> QED BY <1>1, <2>1, MinimalSubset
  <1>3. a[U] = IF U = {} THEN 0 ELSE f[Pick(U)] + a[U \ {Pick(U)}]
    <2>1. U \in SUBSET S
      OBVIOUS
    <2> HIDE DEF Bad
    <2> QED BY Zenon, <2>1 DEF Sums
  <1>4. b[U] = IF U = {} THEN 0 ELSE f[Pick(U)] + b[U \ {Pick(U)}]
    <2>1. U \in SUBSET T
      OBVIOUS
    <2> HIDE DEF Bad
    <2> QED BY Zenon, <2>1 DEF Sums
  <1>5. U # {} => a[U \ {Pick(U)}] = b[U \ {Pick(U)}]
    BY <1>2, PickIn
  <1> QED
    BY <1>3, <1>4, <1>5

(* Such a function exists: take a minimal set for which none does.          *)
LEMMA SumsExist ==
    ASSUME NEW f, NEW S, IsFiniteSet(S)
    PROVE  Sums(f, S, Partial(f, S))
  <1> DEFINE Defined(T) == \E sum : Sums(f, T, sum)
             Bad == {T \in SUBSET S : \E U \in SUBSET T : ~Defined(U)}
  <1>1. \A T : Defined(T) => Sums(f, T, Partial(f, T))
    BY Zenon DEF Partial
  <1>2. SUFFICES ASSUME Bad # {} PROVE FALSE
    BY <1>1
  <1>3. PICK T \in Bad : \A x \in T : T \ {x} \notin Bad
    <2>1. Bad \in SUBSET (SUBSET S)
      OBVIOUS
    <2> HIDE DEF Bad
    <2> QED BY <1>2, <2>1, MinimalSubset
  <1>4. ASSUME NEW U \in SUBSET T, U # T PROVE Sums(f, U, Partial(f, U)) /\ IsFiniteSet(U)
    <2>1. PICK x \in T : x \notin U
      BY <1>4
    <2>2. T \ {x} \in SUBSET S /\ U \in SUBSET (T \ {x})
      BY <2>1
    <2>3. IsFiniteSet(U)
      BY <2>2, FS_Subset
    <2>4. Defined(U)
      BY Zenon, <1>3, <2>2
    <2> QED BY <1>1, <2>3, <2>4
  <1> DEFINE sum == [U \in SUBSET T |->
                        IF U = {} THEN 0
                        ELSE f[Pick(U)] + Partial(f, U \ {Pick(U)})[U \ {Pick(U)}]]
  <1>5. ASSUME NEW U \in SUBSET T, U # {} PROVE sum[U \ {Pick(U)}] = Partial(f, U \ {Pick(U)})[U \ {Pick(U)}]
    <2> DEFINE V == U \ {Pick(U)}
    <2>1. V \in SUBSET T /\ V # T
      BY <1>5, PickIn
    <2>2. Sums(f, V, Partial(f, V)) /\ IsFiniteSet(V)
      BY <1>4, <2>1
    <2>3. Partial(f, V)[V] = IF V = {} THEN 0 ELSE f[Pick(V)] + Partial(f, V)[V \ {Pick(V)}]
      <3> HIDE DEF V
      <3>1. V \in SUBSET V
        OBVIOUS
      <3> QED BY Zenon, <2>2, <3>1 DEF Sums
    <2>4. V # {} => Partial(f, V)[V \ {Pick(V)}] = Partial(f, V \ {Pick(V)})[V \ {Pick(V)}]
      <3> DEFINE W == V \ {Pick(V)}
      <3>1. SUFFICES ASSUME V # {} PROVE Partial(f, V)[W] = Partial(f, W)[W]
        OBVIOUS
      <3>2. W \in SUBSET T /\ W # T /\ W \in SUBSET V
        BY <2>1, <3>1, PickIn
      <3>3. Sums(f, W, Partial(f, W))
        BY <1>4, <3>2
      <3> HIDE DEF V, W
      <3> QED BY <2>2, <3>2, <3>3, SumsUnique
    <2>5. sum[V] = IF V = {} THEN 0 ELSE f[Pick(V)] + Partial(f, V \ {Pick(V)})[V \ {Pick(V)}]
      <3> HIDE DEF V
      <3> QED BY Zenon, <2>1
    <2> HIDE DEF V, sum
    <2>6. sum[V] = Partial(f, V)[V]
      BY Zenon, <2>3, <2>4, <2>5
    <2> QED BY <2>6 DEF V
  <1>6. Sums(f, T, sum)
    <2>1. \A U \in SUBSET T : (IF U = {} THEN 0 ELSE f[Pick(U)] + Partial(f, U \ {Pick(U)})[U \ {Pick(U)}])
             = (IF U = {} THEN 0 ELSE f[Pick(U)] + sum[U \ {Pick(U)}])
      <3> HIDE DEF sum
      <3> QED BY Zenon, <1>5
    <2>2. sum = [U \in SUBSET T |-> IF U = {} THEN 0 ELSE f[Pick(U)] + sum[U \ {Pick(U)}]]
      BY Zenon, <2>1
    <2> HIDE DEF sum
    <2> QED BY Zenon, <2>2 DEF Sums
  <1>7. \A U \in SUBSET T : Defined(U)
    <2>1. ASSUME NEW U \in SUBSET T, U # T PROVE Defined(U)
      BY <1>4, <2>1
    <2> QED BY <1>6, <2>1
  <1> QED
    BY <1>3, <1>7

(* A sum over a finite set satisfies the equation it is defined by.         *)
LEMMA SumEquation ==
    ASSUME NEW f, NEW S, IsFiniteSet(S)
    PROVE  SumFunctionOnSet(f, S) =
              IF S = {} THEN 0 ELSE f[Pick(S)] + SumFunctionOnSet(f, S \ {Pick(S)})
  <1> DEFINE T == S \ {Pick(S)}
  <1>1. IsFiniteSet(T) /\ T \in SUBSET S /\ S \in SUBSET S
    BY FS_RemoveElement
  <1>2. Sums(f, S, Partial(f, S)) /\ Sums(f, T, Partial(f, T))
    BY <1>1, SumsExist
  <1>3. Partial(f, S)[S] = IF S = {} THEN 0 ELSE f[Pick(S)] + Partial(f, S)[T]
    <2> HIDE DEF T
    <2>1. Partial(f, S)[S] = IF S = {} THEN 0 ELSE f[Pick(S)] + Partial(f, S)[S \ {Pick(S)}]
      BY Zenon, <1>1, <1>2 DEF Sums
    <2> QED BY <2>1 DEF T
  <1>4. Partial(f, S)[T] = Partial(f, T)[T]
    BY <1>1, <1>2, SumsUnique
  <1>5. SumFunctionOnSet(f, S) = Partial(f, S)[S] /\ SumFunctionOnSet(f, T) = Partial(f, T)[T]
    BY SumIsPartial
  <1> HIDE DEF T
  <1>6. SumFunctionOnSet(f, S) = IF S = {} THEN 0 ELSE f[Pick(S)] + SumFunctionOnSet(f, T)
    BY Zenon, <1>3, <1>4, <1>5
  <1> QED
    BY <1>6 DEF T

(* Nothing adds up to zero.                                                 *)
LEMMA SumEmpty ==
    ASSUME NEW f
    PROVE  SumFunctionOnSet(f, {}) = 0
  BY Zenon, SumEquation, FS_EmptySet

(* Quantities and prices add up to a natural number.                        *)
LEMMA SumNat ==
    ASSUME NEW f, NEW S, IsFiniteSet(S), \A x \in S : f[x] \in Nat
    PROVE  SumFunctionOnSet(f, S) \in Nat
  <1> DEFINE Bad == {T \in SUBSET S : SumFunctionOnSet(f, T) \notin Nat}
  <1>1. SUFFICES ASSUME Bad # {} PROVE FALSE
    OBVIOUS
  <1>2. PICK T \in Bad : \A x \in T : T \ {x} \notin Bad
    <2>1. Bad \in SUBSET (SUBSET S)
      OBVIOUS
    <2> HIDE DEF Bad
    <2> QED BY <1>1, <2>1, MinimalSubset
  <1>3. T # {}
    BY SumEmpty
  <1>4. Pick(T) \in T /\ IsFiniteSet(T)
    BY <1>3, PickIn, FS_Subset
  <1>5. SumFunctionOnSet(f, T) = f[Pick(T)] + SumFunctionOnSet(f, T \ {Pick(T)})
    <2> HIDE DEF Bad
    <2> QED BY Zenon, <1>3, <1>4, SumEquation
  <1>6. SumFunctionOnSet(f, T \ {Pick(T)}) \in Nat /\ f[Pick(T)] \in Nat
    BY <1>2, <1>4
  <1> QED
    BY <1>5, <1>6

(* Any element may be taken out of a sum, not only the one picked first.    *)
LEMMA SumRemove ==
    ASSUME NEW f, NEW S, IsFiniteSet(S), \A x \in S : f[x] \in Nat, NEW y \in S
    PROVE  SumFunctionOnSet(f, S) = f[y] + SumFunctionOnSet(f, S \ {y})
  <1> DEFINE Sum(T) == SumFunctionOnSet(f, T)
             Good(T) == \A x \in T : Sum(T) = f[x] + Sum(T \ {x})
             Bad == {T \in SUBSET S : ~Good(T)}
  <1>1. SUFFICES ASSUME Bad # {} PROVE FALSE
    OBVIOUS
  <1>2. PICK T \in Bad : \A x \in T : T \ {x} \notin Bad
    <2>1. Bad \in SUBSET (SUBSET S)
      OBVIOUS
    <2> HIDE DEF Bad
    <2> QED BY <1>1, <2>1, MinimalSubset
  <1>3. PICK x \in T : Sum(T) # f[x] + Sum(T \ {x})
    OBVIOUS
  <1> DEFINE p == Pick(T)
  <1>4. p \in T
    BY PickIn
  <1>5. Sum(T) = f[p] + Sum(T \ {p})
    <2>1. T # {} /\ IsFiniteSet(T)
      BY FS_Subset
    <2> HIDE DEF Bad
    <2> QED BY Zenon, <2>1, SumEquation
  <1>6. x # p
    BY <1>3, <1>5
  <1>7. Sum(T \ {p}) = f[x] + Sum((T \ {p}) \ {x})
    <2>1. Good(T \ {p})
      BY <1>2, <1>4
    <2> QED BY <1>4, <1>6, <2>1
  <1>8. Sum(T \ {x}) = f[p] + Sum((T \ {x}) \ {p})
    <2>1. Good(T \ {x})
      BY <1>2
    <2> QED BY <1>4, <1>6, <2>1
  <1>9. (T \ {x}) \ {p} = (T \ {p}) \ {x}
    OBVIOUS
  <1>10. Sum((T \ {p}) \ {x}) \in Nat /\ f[x] \in Nat /\ f[p] \in Nat
    <2>1. IsFiniteSet((T \ {p}) \ {x})
      BY FS_Subset
    <2>2. \A z \in (T \ {p}) \ {x} : f[z] \in Nat
      OBVIOUS
    <2>3. Sum((T \ {p}) \ {x}) \in Nat
      BY <2>1, <2>2, SumNat
    <2> QED BY <1>4, <2>3
  <1> HIDE DEF Sum, p, Bad
  <1> QED
    BY <1>3, <1>5, <1>7, <1>8, <1>9, <1>10

(* Only the values on the set matter.                                       *)
LEMMA SumCongruence ==
    ASSUME NEW f, NEW g, NEW S, IsFiniteSet(S), \A x \in S : f[x] = g[x]
    PROVE  SumFunctionOnSet(f, S) = SumFunctionOnSet(g, S)
  <1> DEFINE Bad == {T \in SUBSET S : SumFunctionOnSet(f, T) # SumFunctionOnSet(g, T)}
  <1>1. SUFFICES ASSUME Bad # {} PROVE FALSE
    OBVIOUS
  <1>2. PICK T \in Bad : \A x \in T : T \ {x} \notin Bad
    <2>1. Bad \in SUBSET (SUBSET S)
      OBVIOUS
    <2> HIDE DEF Bad
    <2> QED BY <1>1, <2>1, MinimalSubset
  <1>3. T # {}
    BY SumEmpty
  <1>4. Pick(T) \in T /\ IsFiniteSet(T)
    BY <1>3, PickIn, FS_Subset
  <1>5. /\ SumFunctionOnSet(f, T) = f[Pick(T)] + SumFunctionOnSet(f, T \ {Pick(T)})
        /\ SumFunctionOnSet(g, T) = g[Pick(T)] + SumFunctionOnSet(g, T \ {Pick(T)})
    <2> HIDE DEF Bad
    <2> QED BY Zenon, <1>3, <1>4, SumEquation
  <1>6. /\ SumFunctionOnSet(f, T \ {Pick(T)}) = SumFunctionOnSet(g, T \ {Pick(T)})
        /\ f[Pick(T)] = g[Pick(T)]
    BY <1>2, <1>4
  <1> QED
    BY <1>5, <1>6

(* A new element adds its value.                                            *)
LEMMA SumAdd ==
    ASSUME NEW f, NEW S, IsFiniteSet(S), NEW y, y \notin S, \A x \in S \cup {y} : f[x] \in Nat
    PROVE  SumFunctionOnSet(f, S \cup {y}) = f[y] + SumFunctionOnSet(f, S)
  <1>1. IsFiniteSet(S \cup {y}) /\ (S \cup {y}) \ {y} = S
    BY FS_AddElement
  <1> QED BY <1>1, SumRemove

(* Something positive adds up to something positive.                        *)
LEMMA SumPositive ==
    ASSUME NEW f, NEW S, IsFiniteSet(S), \A x \in S : f[x] \in Nat \ {0}, S # {}
    PROVE  SumFunctionOnSet(f, S) \in Nat \ {0}
  <1>1. PICK x \in S : TRUE
    OBVIOUS
  <1>2. SumFunctionOnSet(f, S) = f[x] + SumFunctionOnSet(f, S \ {x})
    BY SumRemove
  <1>3. SumFunctionOnSet(f, S \ {x}) \in Nat
    BY FS_RemoveElement, SumNat
  <1> QED
    BY <1>2, <1>3

(* Of two sums, the one with no larger and one smaller value is smaller.    *)
LEMMA SumLess ==
    ASSUME NEW f, NEW g, NEW S, IsFiniteSet(S),
           \A x \in S : f[x] \in Nat /\ g[x] \in Nat /\ f[x] <= g[x],
           NEW y \in S, f[y] < g[y]
    PROVE  SumFunctionOnSet(f, S) < SumFunctionOnSet(g, S)
  <1> DEFINE Bad == {T \in SUBSET S : ~(SumFunctionOnSet(f, T) <= SumFunctionOnSet(g, T))}
  <1>1. \A T \in SUBSET S : IsFiniteSet(T)
    BY FS_Subset
  <1>2. \A T \in SUBSET S : SumFunctionOnSet(f, T) \in Nat /\ SumFunctionOnSet(g, T) \in Nat
    BY <1>1, SumNat
  <1>3. Bad = {}
    <2>1. SUFFICES ASSUME Bad # {} PROVE FALSE
      OBVIOUS
    <2>2. PICK T \in Bad : \A x \in T : T \ {x} \notin Bad
      <3>1. Bad \in SUBSET (SUBSET S)
        OBVIOUS
      <3> HIDE DEF Bad
      <3> QED BY <2>1, <3>1, MinimalSubset
    <2>3. T # {}
      BY SumEmpty
    <2>4. PICK x \in T : TRUE
      BY <2>3
    <2>5. /\ SumFunctionOnSet(f, T) = f[x] + SumFunctionOnSet(f, T \ {x})
          /\ SumFunctionOnSet(g, T) = g[x] + SumFunctionOnSet(g, T \ {x})
      <3>1. IsFiniteSet(T) /\ \A z \in T : f[z] \in Nat /\ g[z] \in Nat
        BY <1>1
      <3> HIDE DEF Bad
      <3> QED BY <3>1, SumRemove
    <2>6. SumFunctionOnSet(f, T \ {x}) <= SumFunctionOnSet(g, T \ {x})
      BY <2>2
    <2>7. T \ {x} \in SUBSET S /\ T \in SUBSET S /\ x \in S
      OBVIOUS
    <2>8. ~(SumFunctionOnSet(f, T) <= SumFunctionOnSet(g, T))
      OBVIOUS
    <2> HIDE DEF Bad
    <2> QED
      BY <1>2, <2>5, <2>6, <2>7, <2>8
  <1>4. S \ {y} \in SUBSET S
    OBVIOUS
  <1>5. SumFunctionOnSet(f, S \ {y}) <= SumFunctionOnSet(g, S \ {y})
    BY <1>3, <1>4
  <1>6. /\ SumFunctionOnSet(f, S) = f[y] + SumFunctionOnSet(f, S \ {y})
        /\ SumFunctionOnSet(g, S) = g[y] + SumFunctionOnSet(g, S \ {y})
    BY SumRemove
  <1> HIDE DEF Bad
  <1> QED
    BY <1>2, <1>4, <1>5, <1>6

(* Zeros add up to zero.                                                    *)
LEMMA SumZero ==
    ASSUME NEW f, NEW S, IsFiniteSet(S), \A x \in S : f[x] = 0
    PROVE  SumFunctionOnSet(f, S) = 0
  <1> DEFINE Bad == {T \in SUBSET S : SumFunctionOnSet(f, T) # 0}
  <1>1. SUFFICES ASSUME Bad # {} PROVE FALSE
    OBVIOUS
  <1>2. PICK T \in Bad : \A x \in T : T \ {x} \notin Bad
    <2>1. Bad \in SUBSET (SUBSET S)
      OBVIOUS
    <2> HIDE DEF Bad
    <2> QED BY <1>1, <2>1, MinimalSubset
  <1>3. T # {}
    BY SumEmpty
  <1>4. Pick(T) \in T /\ IsFiniteSet(T)
    BY <1>3, PickIn, FS_Subset
  <1>5. SumFunctionOnSet(f, T) = f[Pick(T)] + SumFunctionOnSet(f, T \ {Pick(T)})
    <2> HIDE DEF Bad
    <2> QED BY Zenon, <1>3, <1>4, SumEquation
  <1>6. SumFunctionOnSet(f, T \ {Pick(T)}) = 0 /\ f[Pick(T)] = 0
    BY <1>2, <1>4
  <1> QED
    BY <1>5, <1>6

(* Adding up group by group is adding up.                                   *)
LEMMA SumByGroups ==
    ASSUME NEW f, NEW key, NEW S, IsFiniteSet(S), NEW K, IsFiniteSet(K),
           \A x \in S : f[x] \in Nat /\ key[x] \in K
    PROVE  SumFunctionOnSet([k \in K |-> SumFunctionOnSet(f, {x \in S : key[x] = k})], K)
             = SumFunctionOnSet(f, S)
  <1> DEFINE Group(T, k) == {x \in T : key[x] = k}
             Groups(T) == [k \in K |-> SumFunctionOnSet(f, Group(T, k))]
             Bad == {T \in SUBSET S : SumFunctionOnSet(Groups(T), K) # SumFunctionOnSet(f, T)}
  <1>1. SUFFICES ASSUME Bad # {} PROVE FALSE
    OBVIOUS
  <1>2. PICK T \in Bad : \A x \in T : T \ {x} \notin Bad
    <2>1. Bad \in SUBSET (SUBSET S)
      OBVIOUS
    <2> HIDE DEF Bad
    <2> QED BY <1>1, <2>1, MinimalSubset
  <1>3. T \in SUBSET S /\ IsFiniteSet(T)
    BY FS_Subset
  <1>4. T # {}
    <2>1. SUFFICES ASSUME T = {} PROVE FALSE
      OBVIOUS
    <2>2. \A k \in K : Groups(T)[k] = 0
      <3>1. \A k : Group(T, k) = {}
        BY <2>1
      <3> QED BY <3>1, SumEmpty
    <2>3. SumFunctionOnSet(Groups(T), K) = 0
      <3> HIDE DEF Groups
      <3> QED BY <2>2, SumZero
    <2> QED BY <2>1, <2>3, SumEmpty
  <1>5. PICK x \in T : TRUE
    BY <1>4
  <1> DEFINE R == T \ {x}
             k == key[x]
  <1>6. R \in SUBSET S /\ IsFiniteSet(R) /\ k \in K /\ x \in S
    BY <1>3, FS_RemoveElement
  <1>7. \A U \in SUBSET S : \A h : IsFiniteSet(Group(U, h))
    BY FS_Subset
  <1>8. \A U \in SUBSET S, h \in K : Groups(U)[h] \in Nat
    <2>1. SUFFICES ASSUME NEW U \in SUBSET S, NEW h \in K
                   PROVE  SumFunctionOnSet(f, Group(U, h)) \in Nat
      OBVIOUS
    <2>2. \A y \in Group(U, h) : f[y] \in Nat
      OBVIOUS
    <2> HIDE DEF Group
    <2> QED BY <1>7, <2>2, SumNat
  <1>9. Groups(T)[k] = f[x] + Groups(R)[k]
    <2>1. x \in Group(T, k) /\ Group(T, k) \ {x} = Group(R, k)
      OBVIOUS
    <2>2. \A y \in Group(T, k) : f[y] \in Nat
      OBVIOUS
    <2>3. IsFiniteSet(Group(T, k))
      BY <1>3, <1>7
    <2>4. SumFunctionOnSet(f, Group(T, k)) = f[x] + SumFunctionOnSet(f, Group(R, k))
      <3> HIDE DEF Group, k, R
      <3> QED BY <2>1, <2>2, <2>3, SumRemove
    <2> HIDE DEF k, R, Group
    <2> QED BY <1>6, <2>4
  <1>10. \A h \in K \ {k} : Groups(T)[h] = Groups(R)[h]
    <2>1. \A h \in K \ {k} : Group(T, h) = Group(R, h)
      OBVIOUS
    <2> QED BY <2>1
  <1>11. SumFunctionOnSet(Groups(R), K) = SumFunctionOnSet(f, R)
    BY <1>2, <1>6
  <1>12. SumFunctionOnSet(f, T) = f[x] + SumFunctionOnSet(f, R)
    <2>1. \A y \in T : f[y] \in Nat
      BY <1>3
    <2> HIDE DEF Bad
    <2> QED BY <1>3, <2>1, SumRemove
  <1>13. f[x] \in Nat
    BY <1>6
  <1> HIDE DEF Groups, k, R
  <1>14. /\ SumFunctionOnSet(Groups(T), K) = Groups(T)[k] + SumFunctionOnSet(Groups(T), K \ {k})
         /\ SumFunctionOnSet(Groups(R), K) = Groups(R)[k] + SumFunctionOnSet(Groups(R), K \ {k})
    <2>1. \A h \in K : Groups(T)[h] \in Nat /\ Groups(R)[h] \in Nat
      BY <1>3, <1>6, <1>8
    <2> HIDE DEF Bad
    <2> QED BY <1>6, <2>1, SumRemove
  <1>15. /\ IsFiniteSet(K \ {k})
         /\ SumFunctionOnSet(Groups(T), K \ {k}) = SumFunctionOnSet(Groups(R), K \ {k})
    <2>1. IsFiniteSet(K \ {k})
      BY FS_RemoveElement
    <2> QED BY <1>10, <2>1, SumCongruence
  <1>16. Groups(R)[k] \in Nat /\ SumFunctionOnSet(Groups(R), K \ {k}) \in Nat
    <2>1. \A h \in K \ {k} : Groups(R)[h] \in Nat
      BY <1>6, <1>8
    <2> QED BY <1>6, <1>8, <1>15, <2>1, SumNat
  <1>17. SumFunctionOnSet(Groups(T), K) # SumFunctionOnSet(f, T)
    OBVIOUS
  <1> HIDE DEF Bad
  <1> QED
    BY <1>9, <1>11, <1>12, <1>13, <1>14, <1>15, <1>16, <1>17

------------------------------------------------------------------------------
(* Baskets and totals *)

(* An item list is finite and every quantity in it is a number.             *)
LEMMA ItemsAreFinite ==
    ASSUME NEW items \in Seq(CreateOrderItemInput)
    PROVE  /\ IsFiniteSet(DOMAIN items)
           /\ \A i \in DOMAIN items : items[i] \in CreateOrderItemInput /\ Quantities(items)[i] \in Nat \ {0}
           /\ \A p : /\ IsFiniteSet(ItemsOf(items, p))
                     /\ ItemsOf(items, p) \subseteq DOMAIN items
  <1>1. DOMAIN items = 1..Len(items) /\ Len(items) \in Nat
    OBVIOUS
  <1>2. IsFiniteSet(1..Len(items))
    BY <1>1, FS_Interval
  <1>3. \A i \in DOMAIN items : items[i] \in CreateOrderItemInput
    OBVIOUS
  <1>4. \A p : ItemsOf(items, p) \in SUBSET DOMAIN items
    BY DEF ItemsOf
  <1>5. \A p : IsFiniteSet(ItemsOf(items, p))
    BY <1>1, <1>2, <1>4, FS_Subset
  <1> QED
    BY <1>1, <1>2, <1>3, <1>4, <1>5 DEF Quantities, CreateOrderItemInput

(* What a validated body merges to is a basket, and not an empty one.       *)
LEMMA MergedIsBasket ==
    ASSUME NEW items \in ItemLists
    PROVE  IsBasket(mergeOrderItems(items)) /\ DOMAIN mergeOrderItems(items) # {}
  <1> DEFINE merged == mergeOrderItems(items)
  <1>1. items \in Seq(CreateOrderItemInput) /\ items # <<>>
    BY ItemListsAssumption DEF CreateOrderItemInput
  <1>2. DOMAIN merged = {items[i].productId : i \in DOMAIN items}
    BY DEF mergeOrderItems
  <1>3. DOMAIN merged \subseteq ProductIds
    <2>1. \A i \in DOMAIN items : items[i] \in CreateOrderItemInput
      BY <1>1, ItemsAreFinite
    <2>2. \A i \in DOMAIN items : items[i].productId \in ProductIds
      BY <2>1 DEF CreateOrderItemInput
    <2> HIDE DEF merged
    <2> QED
      BY <1>2, <2>2
  <1>4. ASSUME NEW p \in DOMAIN merged PROVE merged[p] \in Nat \ {0}
    <2>1. PICK i \in DOMAIN items : items[i].productId = p
      BY <1>2
    <2> DEFINE S == ItemsOf(items, p)
               f == Quantities(items)
    <2>2. i \in S /\ IsFiniteSet(S) /\ \A j \in S : f[j] \in Nat \ {0}
      BY <1>1, <2>1, ItemsAreFinite DEF ItemsOf
    <2>3. IsFiniteSet(S \ {i})
      BY <2>2, FS_RemoveElement
    <2> HIDE DEF S, f
    <2>4. SumFunctionOnSet(f, S) = f[i] + SumFunctionOnSet(f, S \ {i})
      BY <2>2, SumRemove
    <2>5. SumFunctionOnSet(f, S \ {i}) \in Nat
      BY <2>2, <2>3, SumNat
    <2>6. merged[p] = SumFunctionOnSet(f, S)
      BY <1>2 DEF mergeOrderItems, S, f
    <2> QED
      BY <2>2, <2>4, <2>5, <2>6
  <1>5. merged = [p \in DOMAIN merged |-> merged[p]]
    BY <1>2 DEF mergeOrderItems
  <1>6. DOMAIN merged # {}
    <2>1. 1 \in DOMAIN items
      BY <1>1
    <2> QED BY <1>2, <2>1
  <1> HIDE DEF merged
  <1>7. IsBasket(merged)
    BY <1>3, <1>4, <1>5 DEF IsBasket
  <1> QED
    BY <1>6, <1>7 DEF merged

(* The merge is what the loop of mergeOrderItems computes: it starts with an *)
(* empty map, and each further item is added to what its product had.       *)
THEOREM MergeStep ==
    ASSUME NEW items \in Seq(CreateOrderItemInput), NEW item \in CreateOrderItemInput
    PROVE  /\ mergeOrderItems(<<>>) = NoRows
           /\ LET merged == mergeOrderItems(items)
                  p == item.productId
                  had == IF p \in DOMAIN merged THEN merged[p] ELSE 0
              IN mergeOrderItems(Append(items, item)) = AddRow(merged, p, had + item.quantity)
  <1> DEFINE more == Append(items, item)
             n == Len(items) + 1
             merged == mergeOrderItems(items)
             p == item.productId
             had == IF p \in DOMAIN merged THEN merged[p] ELSE 0
             f == Quantities(items)
             g == Quantities(more)
             Total(h, q, l) == SumFunctionOnSet(h, ItemsOf(l, q))
  <1>1. /\ more \in Seq(CreateOrderItemInput) /\ n \in Nat
        /\ DOMAIN more = DOMAIN items \cup {n} /\ n \notin DOMAIN items
        /\ more[n] = item /\ \A i \in DOMAIN items : more[i] = items[i]
    OBVIOUS
  <1>2. /\ DOMAIN merged = {items[i].productId : i \in DOMAIN items}
        /\ DOMAIN mergeOrderItems(more) = DOMAIN merged \cup {p}
    <2>1. DOMAIN mergeOrderItems(more) = {more[i].productId : i \in DOMAIN more}
      BY DEF mergeOrderItems
    <2>2. DOMAIN merged = {items[i].productId : i \in DOMAIN items}
      BY DEF mergeOrderItems
    <2> HIDE DEF more, merged, n
    <2> QED BY <1>1, <2>1, <2>2
  <1>3. g[n] = item.quantity /\ \A i \in DOMAIN items : g[i] = f[i]
    <2> HIDE DEF more, n
    <2> QED BY <1>1 DEF Quantities
  <1>4. \A q : /\ ItemsOf(more, q) = IF q = p THEN ItemsOf(items, q) \cup {n} ELSE ItemsOf(items, q)
               /\ n \notin ItemsOf(items, q)
    <2> HIDE DEF more, n
    <2> QED BY <1>1 DEF ItemsOf
  <1>5. \A q : IsFiniteSet(ItemsOf(items, q)) /\ ItemsOf(items, q) \subseteq DOMAIN items
    BY ItemsAreFinite
  <1>6. \A q : Total(g, q, items) = Total(f, q, items)
    <2> SUFFICES ASSUME NEW q PROVE Total(g, q, items) = Total(f, q, items)
      OBVIOUS
    <2>1. \A i \in ItemsOf(items, q) : g[i] = f[i]
      BY <1>3, <1>5
    <2> HIDE DEF f, g
    <2> QED BY <1>5, <2>1, SumCongruence
  <1>7. Total(g, p, more) = item.quantity + Total(f, p, items)
    <2> DEFINE S == ItemsOf(items, p)
    <2>1. \A i \in S \cup {n} : g[i] \in Nat
      BY <1>1, <1>3, <1>5, ItemsAreFinite DEF CreateOrderItemInput
    <2>2. IsFiniteSet(S) /\ n \notin S
      BY <1>4, <1>5
    <2> HIDE DEF f, g, S, n
    <2>3. SumFunctionOnSet(g, S \cup {n}) = g[n] + SumFunctionOnSet(g, S)
      BY <2>1, <2>2, SumAdd
    <2> QED BY <1>3, <1>4, <1>6, <2>3 DEF S
  <1>8. \A q \in DOMAIN merged : merged[q] = Total(f, q, items)
    BY <1>2 DEF mergeOrderItems
  <1>9. \A q : q \notin DOMAIN merged => Total(f, q, items) = 0
    <2>1. \A q : q \notin DOMAIN merged => ItemsOf(items, q) = {}
      BY <1>2 DEF ItemsOf
    <2> QED BY <2>1, SumEmpty
  <1>10. had = Total(f, p, items) /\ had \in Nat
    <2>1. Total(f, p, items) \in Nat
      <3>1. \A i \in ItemsOf(items, p) : f[i] \in Nat
        BY <1>5, ItemsAreFinite
      <3> HIDE DEF f
      <3> QED BY <1>5, <3>1, SumNat
    <2> HIDE DEF Total, merged
    <2> QED BY <1>8, <1>9, <2>1
  <1>11. \A q \in DOMAIN merged \ {p} : Total(g, q, more) = merged[q]
    <2> HIDE DEF merged, more, f, g, n
    <2> QED BY <1>4, <1>6, <1>8
  <1>12. mergeOrderItems(more) = [q \in DOMAIN merged \cup {p} |-> Total(g, q, more)]
    <2>1. mergeOrderItems(more) = [q \in {more[i].productId : i \in DOMAIN more} |-> Total(g, q, more)]
      BY DEF mergeOrderItems
    <2> HIDE DEF more, merged, Total, g
    <2>2. DOMAIN mergeOrderItems(more) = {more[i].productId : i \in DOMAIN more}
      BY <2>1
    <2> QED BY <1>2, <2>1, <2>2
  <1>13. mergeOrderItems(more) = AddRow(merged, p, had + item.quantity)
    <2>1. Total(g, p, more) = had + item.quantity
      <3>1. item.quantity \in Nat
        BY DEF CreateOrderItemInput
      <3> HIDE DEF Total, had
      <3> QED BY <1>7, <1>10, <3>1
    <2> HIDE DEF Total, had, merged, p, more
    <2> QED BY <1>11, <1>12, <2>1 DEF AddRow
  <1>14. mergeOrderItems(<<>>) = NoRows
    <2>1. {<<>>[i].productId : i \in DOMAIN <<>>} = {}
      OBVIOUS
    <2>2. DOMAIN mergeOrderItems(<<>>) = {}
      BY <2>1 DEF mergeOrderItems
    <2> QED BY <2>1 DEF mergeOrderItems, NoRows
  <1> QED
    BY <1>13, <1>14

(* Merging neither loses nor invents units: the basket asks for as many as  *)
(* the items of the body did.                                               *)
THEOREM MergeConservesUnits ==
    ASSUME NEW items \in Seq(CreateOrderItemInput)
    PROVE  SumFunction(mergeOrderItems(items)) = SumFunction(Quantities(items))
  <1> DEFINE key == [i \in DOMAIN items |-> items[i].productId]
             K == {items[i].productId : i \in DOMAIN items}
             f == Quantities(items)
             S == DOMAIN items
  <1>1. IsFiniteSet(S) /\ \A i \in S : items[i] \in CreateOrderItemInput /\ f[i] \in Nat
    BY ItemsAreFinite
  <1>2. IsFiniteSet(K)
    <2>1. IsFiniteSet(1..ProductCount)
      BY ProductCountAssumption, FS_Interval
    <2>2. K \in SUBSET (1..ProductCount)
      BY <1>1 DEF CreateOrderItemInput, ProductIds
    <2> HIDE DEF K
    <2> QED BY <2>1, <2>2, FS_Subset
  <1>3. \A i \in S : key[i] \in K
    OBVIOUS
  <1>4. SumFunctionOnSet([k \in K |-> SumFunctionOnSet(f, {i \in S : key[i] = k})], K)
           = SumFunctionOnSet(f, S)
    <2> HIDE DEF f, S, K, key
    <2> QED BY <1>1, <1>2, <1>3, SumByGroups
  <1>5. \A k : {i \in S : key[i] = k} = ItemsOf(items, k)
    BY DEF ItemsOf
  <1>6. mergeOrderItems(items) = [k \in K |-> SumFunctionOnSet(f, {i \in S : key[i] = k})]
    <2>1. mergeOrderItems(items) = [k \in K |-> SumFunctionOnSet(f, ItemsOf(items, k))]
      BY DEF mergeOrderItems
    <2> HIDE DEF f, K, key, S
    <2> QED BY Zenon, <1>5, <2>1
  <1>7. DOMAIN mergeOrderItems(items) = K /\ DOMAIN Quantities(items) = S
    BY DEF mergeOrderItems, Quantities
  <1> HIDE DEF K, S, key
  <1> QED
    BY <1>4, <1>6, <1>7 DEF SumFunction

(* An order of something has a total of at least one cent.                  *)
LEMMA TotalIsPositive ==
    ASSUME NEW lines, IsFiniteSet(DOMAIN lines), DOMAIN lines # {},
           \A p \in DOMAIN lines : lines[p] \in [quantity : Nat \ {0}, price : Nat \ {0}]
    PROVE  totalAmount(lines) \in Nat \ {0}
  <1> DEFINE due == [p \in DOMAIN lines |-> lines[p].price * lines[p].quantity]
  <1>1. \A m, n \in Nat \ {0} : m * n \in Nat \ {0}
    OBVIOUS
  <1>2. \A p \in DOMAIN lines : due[p] \in Nat \ {0}
    BY <1>1
  <1>3. DOMAIN due = DOMAIN lines
    OBVIOUS
  <1>4. totalAmount(lines) = SumFunctionOnSet(due, DOMAIN lines)
    BY <1>3 DEF totalAmount, SumFunction
  <1> HIDE DEF due
  <1> QED
    BY <1>2, <1>4, SumPositive

------------------------------------------------------------------------------
(* Data *)

(* toFixed(2) of a price that is not negative is a number of cents.         *)
LEMMA ToFixed2Nat ==
    ASSUME NEW mills \in Nat
    PROVE  toFixed2(mills) \in Nat
  BY DEF toFixed2

(* A validated edit turns a row into a row: price at least one cent, stock  *)
(* not negative.                                                            *)
LEMMA EditedIsRow ==
    ASSUME NEW row \in Row, NEW e \in Edit, PassesValidation(e)
    PROVE  Edited(row, e) \in Row
  <1>1. e.price # Undefined => toFixed2(e.price) \in Nat \ {0}
    BY ToFixed2Nat, UndefinedAssumption DEF Edit, PassesValidation
  <1>2. QED
    BY <1>1, UndefinedAssumption DEF Edited, Edit, Row, Given

(* Every row a request wants is a product's.                                *)
LEMMA TargetsAreProducts ==
    ASSUME TypeOK
    PROVE  \A r \in Requests : Targets(r) \subseteq ProductIds
  <1>1. \A e \in Edits : e.id \in ProductIds
    BY EditsAssumption DEF Edit
  <1> QED
    BY <1>1 DEF TypeOK, Targets, IsBasket, Requests

(* What an order will insert depends only on its basket and locked rows.    *)
LEMMA SameLines ==
    ASSUME NEW o \in OrderRequests,
           basket'[o] = basket[o], lockedProducts'[o] = lockedProducts[o]
    PROVE  Lines(o, Targets(o))' = Lines(o, Targets(o))
  BY DEF Lines, Line, Targets

(* A called order asks for something, and for finitely many products.       *)
LEMMA BasketsAreFinite ==
    ASSUME IInv, NEW o \in OrderRequests, pc[o] # "idle"
    PROVE  IsFiniteSet(DOMAIN basket[o]) /\ DOMAIN basket[o] # {}
  <1>1. IsFiniteSet(ProductIds)
    BY ProductCountAssumption, FS_Interval DEF ProductIds
  <1>2. DOMAIN basket[o] \in SUBSET ProductIds
    BY DEF IInv, TypeOK, IsBasket
  <1>3. DOMAIN basket[o] # {}
    BY MergedIsBasket DEF IInv, TransactionInv, HistoryInv
  <1> QED
    BY <1>1, <1>2, <1>3, FS_Subset

(* Writing back "read minus ordered" leaves a row: the check made when the  *)
(* row was read still holds of the row in the table.                        *)
LEMMA WrittenIsRow ==
    ASSUME IInv, NEW r \in Requests, pc[r] = "writing",
           NEW p \in Targets(r)
    PROVE  WrittenRow(r, p) \in Row
  <1>1. p \in DOMAIN lockedProducts[r] /\ p \in ProductIds
    BY TargetsAreProducts DEF IInv, TransactionInv, PhaseInv, ToLock
  <1>2. lockedProducts[r][p] \in Row /\ lockedProducts[r][p] = product[p]
    BY <1>1 DEF IInv, TypeOK, SnapshotCurrent
  <1>3. CASE r \in OrderRequests
    <2>1. basket[r][p] \in Nat
      BY <1>1, <1>3 DEF IInv, TypeOK, IsBasket, Targets
    <2>2. lockedProducts[r][p].stockQuantity >= basket[r][p]
      BY <1>1, <1>3 DEF IInv, TransactionInv, CheckedInv
    <2> QED BY <1>2, <1>3, <2>1, <2>2 DEF WrittenRow, Row
  <1>4. CASE r \notin OrderRequests
    <2>1. PassesValidation(edit[r]) /\ edit[r] \in Edit
      BY <1>4, EditsAssumption DEF IInv, TypeOK, TransactionInv, CheckedInv, Requests
    <2> QED BY <1>2, <1>4, <2>1, EditedIsRow DEF WrittenRow
  <1> QED BY <1>3, <1>4

(* A transaction writes only rows it has locked.                            *)
LEMMA WritesLocked ==
    ASSUME IInv, NEW r \in Requests, pc[r] = "writing", NEW p \in updated[r]
    PROVE  p \in Targets(r) /\ p \in ProductIds /\ lock[p] = r
  <1>1. p \in Targets(r) /\ p \in DOMAIN lockedProducts[r]
    BY DEF IInv, TransactionInv, PhaseInv, ToLock
  <1> QED BY <1>1, TargetsAreProducts DEF IInv, SnapshotCurrent

------------------------------------------------------------------------------
(* The inductive invariant, action by action *)

(* No transaction is open when the server starts.                           *)
LEMMA InitIInv == Init => IInv
  <1> SUFFICES ASSUME Init PROVE IInv
    OBVIOUS
  <1> USE RequestsAssumption DEF Init, NoRows, Requests
  <1>1. TypeOK
    BY InitialProductAssumption DEF TypeOK, IsBasket, Targets
  <1>2. PhaseInv
    BY DEF PhaseInv, InTransaction
  <1>3. LockInv
    BY DEF LockInv
  <1>4. CheckedInv
    BY DEF CheckedInv
  <1>5. HistoryInv
    BY DEF HistoryInv
  <1>6. SnapshotCurrent
    BY DEF SnapshotCurrent
  <1>7. LocksAscend
    BY DEF LocksAscend
  <1> QED
    BY <1>1, <1>2, <1>3, <1>4, <1>5, <1>6, <1>7 DEF IInv, TransactionInv

(* A call fixes the basket of a request that holds nothing.                 *)
LEMMA CallOrderInv ==
    ASSUME IInv, NEW r \in OrderRequests, NEW items \in ItemLists, CallOrder(r, items)
    PROVE  IInv'
  <1> USE RequestsAssumption
      DEF CallOrder, tables, call, tx,
          IInv, TransactionInv, Requests
  <1>1. TypeOK'
    <2>1. \A s \in Requests : s # r => Targets(s)' = Targets(s)
      BY DEF Targets, TypeOK
    <2>2. DOMAIN lockedProducts[r] = {}
      BY DEF PhaseInv, InTransaction
    <2>3. DOMAIN basket' = OrderRequests /\ \A o \in OrderRequests : IsBasket(basket'[o])
      BY MergedIsBasket DEF TypeOK
    <2>4. \A s \in Requests : DOMAIN lockedProducts[s] \subseteq Targets(s)'
      BY <2>1, <2>2 DEF TypeOK
    <2> QED
      BY <2>3, <2>4 DEF TypeOK
  <1>2. PhaseInv'
    BY DEF TypeOK, PhaseInv, InTransaction, Targets, ToLock, ToWrite
  <1>3. LockInv'
    BY DEF TypeOK, LockInv, InTransaction, PhaseInv
  <1>4. CheckedInv'
    <2>1. \A o \in OrderRequests : pc[o] \in {"locking", "writing"} =>
             (pc'[o] = "writing" => Lines(o, Targets(o))' = Lines(o, Targets(o)))
      BY SameLines DEF TypeOK
    <2> QED
      BY <2>1 DEF TypeOK, CheckedInv, PhaseInv, InTransaction
  <1>5. HistoryInv'
    BY DEF TypeOK, HistoryInv
  <1>6. SnapshotCurrent'
    BY DEF TypeOK, SnapshotCurrent, PhaseInv, InTransaction
  <1>7. LocksAscend'
    BY DEF TypeOK, LocksAscend, LockInv, InTransaction, ToLock, Targets
  <1> QED
    BY <1>1, <1>2, <1>3, <1>4, <1>5, <1>6, <1>7

(* A called edit holds nothing.                                             *)
LEMMA CallEditInv ==
    ASSUME IInv, NEW r \in EditRequests, CallEdit(r)
    PROVE  IInv'
  <1> USE RequestsAssumption
      DEF CallEdit, tables, call, tx,
          IInv, TransactionInv, Requests
  <1>1. TypeOK'
    BY DEF TypeOK, Targets, ToWrite
  <1>2. PhaseInv'
    BY DEF TypeOK, PhaseInv, InTransaction, Targets, ToLock, ToWrite
  <1>3. LockInv'
    BY DEF TypeOK, LockInv, InTransaction, PhaseInv
  <1>4. CheckedInv'
    <2>1. \A o \in OrderRequests : pc[o] \in {"locking", "writing"} =>
             (pc'[o] = "writing" => Lines(o, Targets(o))' = Lines(o, Targets(o)))
      BY SameLines DEF TypeOK
    <2> QED
      BY <2>1 DEF TypeOK, CheckedInv, PhaseInv, InTransaction
  <1>5. HistoryInv'
    BY DEF TypeOK, HistoryInv
  <1>6. SnapshotCurrent'
    BY DEF TypeOK, SnapshotCurrent, PhaseInv, InTransaction
  <1>7. LocksAscend'
    BY DEF TypeOK, LocksAscend, LockInv, InTransaction, ToLock, Targets
  <1> QED
    BY <1>1, <1>2, <1>3, <1>4, <1>5, <1>6, <1>7

(* A new transaction has locked and written nothing.                        *)
LEMMA BeginTransactionInv ==
    ASSUME IInv, NEW r \in Requests, BeginTransaction(r)
    PROVE  IInv'
  <1> USE RequestsAssumption
      DEF BeginTransaction, tables, call, tx,
          IInv, TransactionInv, Requests
  <1>1. TypeOK'
    BY DEF TypeOK, Targets, ToWrite
  <1>2. PhaseInv'
    BY DEF TypeOK, PhaseInv, InTransaction, Targets, ToLock, ToWrite
  <1>3. LockInv'
    BY DEF TypeOK, LockInv, InTransaction, PhaseInv
  <1>4. CheckedInv'
    <2>1. \A o \in OrderRequests : pc[o] \in {"locking", "writing"} =>
             (pc'[o] = "writing" => Lines(o, Targets(o))' = Lines(o, Targets(o)))
      BY SameLines DEF TypeOK
    <2> QED
      BY <2>1 DEF TypeOK, CheckedInv, PhaseInv, InTransaction
  <1>5. HistoryInv'
    BY DEF TypeOK, HistoryInv
  <1>6. SnapshotCurrent'
    BY DEF TypeOK, SnapshotCurrent, PhaseInv, InTransaction
  <1>7. LocksAscend'
    BY DEF TypeOK, LocksAscend, LockInv, InTransaction, ToLock, Targets
  <1> QED
    BY <1>1, <1>2, <1>3, <1>4, <1>5, <1>6, <1>7

(* Without a connection nothing is locked.                                  *)
LEMMA BeginFailsInv ==
    ASSUME IInv, NEW r \in Requests, BeginFails(r)
    PROVE  IInv'
  <1> USE RequestsAssumption
      DEF BeginFails, tables, call, tx,
          IInv, TransactionInv, Requests
  <1>1. TypeOK'
    BY DEF TypeOK, Targets, ToWrite
  <1>2. PhaseInv'
    BY DEF TypeOK, PhaseInv, InTransaction, Targets, ToLock, ToWrite
  <1>3. LockInv'
    BY DEF TypeOK, LockInv, InTransaction, PhaseInv
  <1>4. CheckedInv'
    <2>1. \A o \in OrderRequests : pc[o] \in {"locking", "writing"} =>
             (pc'[o] = "writing" => Lines(o, Targets(o))' = Lines(o, Targets(o)))
      BY SameLines DEF TypeOK
    <2> QED
      BY <2>1 DEF TypeOK, CheckedInv, PhaseInv, InTransaction
  <1>5. HistoryInv'
    BY DEF TypeOK, HistoryInv
  <1>6. SnapshotCurrent'
    BY DEF TypeOK, SnapshotCurrent, PhaseInv, InTransaction
  <1>7. LocksAscend'
    BY DEF TypeOK, LocksAscend, LockInv, InTransaction, ToLock, Targets
  <1> QED
    BY <1>1, <1>2, <1>3, <1>4, <1>5, <1>6, <1>7

(* The row is read under the lock just granted, the lowest still wanted.    *)
LEMMA LockProductInv ==
    ASSUME IInv, NEW r \in Requests, NEW p \in ProductIds, LockProduct(r, p)
    PROVE  IInv'
  <1> USE RequestsAssumption
      DEF LockProduct, Lock, IsNext, AddRow, tables, call, tx,
          IInv, TransactionInv, Requests
  <1>1. TypeOK'
    <2>1. Targets(r)' = Targets(r)
      BY DEF Targets
    <2>2. p \in Targets(r)
      BY DEF ToLock
    <2>3. product[p] \in Row
      BY DEF TypeOK
    <2>4. DOMAIN lockedProducts' = Requests /\ \A s \in Requests :
             DOMAIN lockedProducts'[s] \subseteq Targets(s)'
      BY <2>1, <2>2 DEF TypeOK, Targets
    <2>5. \A s \in Requests : lockedProducts'[s] \in [DOMAIN lockedProducts'[s] -> Row]
      BY <2>3 DEF TypeOK
    <2> QED
      BY <2>4, <2>5 DEF TypeOK
  <1>2. PhaseInv'
    BY DEF TypeOK, PhaseInv, InTransaction, Targets, ToLock, ToWrite
  <1>3. LockInv'
    BY DEF TypeOK, LockInv, InTransaction, PhaseInv
  <1>4. CheckedInv'
    <2>1. \A o \in OrderRequests : pc[o] = "writing" =>
             Lines(o, Targets(o))' = Lines(o, Targets(o))
      BY SameLines DEF TypeOK
    <2>2. \A s \in Requests : pc'[s] \in {"locking", "writing"} =>
             \A q \in DOMAIN lockedProducts'[s] :
                /\ ~lockedProducts'[s][q].isDeleted
                /\ s \in OrderRequests =>
                      lockedProducts'[s][q].stockQuantity >= basket'[s][q]
      BY DEF TypeOK, CheckedInv, PhaseInv
    <2> QED
      BY <2>1, <2>2 DEF TypeOK, CheckedInv, PhaseInv, InTransaction
  <1>5. HistoryInv'
    BY DEF TypeOK, HistoryInv
  <1>6. SnapshotCurrent'
    BY DEF TypeOK, SnapshotCurrent, PhaseInv, InTransaction
  <1>7. LocksAscend'
    <2>1. \A s \in Requests \ {r} :
             /\ pc'[s] = pc[s] /\ ToLock(s)' = ToLock(s)
             /\ \A q \in ProductIds : lock'[q] = s => lock[q] = s
      BY DEF TypeOK, ToLock, Targets
    <2>2. \A q \in ToLock(r)' : q \in ToLock(r) /\ q # p
      BY DEF TypeOK, ToLock, Targets
    <2>3. \A q \in ToLock(r) : q \in ProductIds
      BY TargetsAreProducts DEF ToLock
    <2>4. \A q \in ProductIds : lock'[q] = r => lock[q] = r \/ q = p
      BY DEF TypeOK
    <2>5. \A q \in ToLock(r)' : p < q
      BY <2>2, <2>3 DEF ProductIds
    <2> QED
      BY <2>1, <2>2, <2>4, <2>5 DEF LocksAscend
  <1> QED
    BY <1>1, <1>2, <1>3, <1>4, <1>5, <1>6, <1>7

(* A refused request keeps its locks until its rollback.                    *)
LEMMA RefuseNotFoundInv ==
    ASSUME IInv, NEW r \in Requests, NEW p \in ProductIds, RefuseNotFound(r, p)
    PROVE  IInv'
  <1> USE RequestsAssumption
      DEF RefuseNotFound, Lock, IsNext, Throw, tables, call, tx,
          IInv, TransactionInv, Requests
  <1>1. TypeOK'
    BY DEF TypeOK, Targets, ToWrite
  <1>2. PhaseInv'
    BY DEF TypeOK, PhaseInv, InTransaction, Targets, ToLock, ToWrite
  <1>3. LockInv'
    BY DEF TypeOK, LockInv, InTransaction, PhaseInv
  <1>4. CheckedInv'
    <2>1. \A o \in OrderRequests : pc[o] \in {"locking", "writing"} =>
             (pc'[o] = "writing" => Lines(o, Targets(o))' = Lines(o, Targets(o)))
      BY SameLines DEF TypeOK
    <2> QED
      BY <2>1 DEF TypeOK, CheckedInv, PhaseInv, InTransaction
  <1>5. HistoryInv'
    BY DEF TypeOK, HistoryInv
  <1>6. SnapshotCurrent'
    BY DEF TypeOK, SnapshotCurrent, PhaseInv, InTransaction
  <1>7. LocksAscend'
    BY DEF TypeOK, LocksAscend, LockInv, InTransaction, ToLock, Targets
  <1> QED
    BY <1>1, <1>2, <1>3, <1>4, <1>5, <1>6, <1>7

(* A refused order keeps its locks until its rollback.                      *)
LEMMA RefuseShortInv ==
    ASSUME IInv, NEW r \in OrderRequests, NEW p \in ProductIds, RefuseShort(r, p)
    PROVE  IInv'
  <1> USE RequestsAssumption
      DEF RefuseShort, Lock, IsNext, Throw, tables, call, tx,
          IInv, TransactionInv, Requests
  <1>1. TypeOK'
    BY DEF TypeOK, Targets, ToWrite
  <1>2. PhaseInv'
    BY DEF TypeOK, PhaseInv, InTransaction, Targets, ToLock, ToWrite
  <1>3. LockInv'
    BY DEF TypeOK, LockInv, InTransaction, PhaseInv
  <1>4. CheckedInv'
    <2>1. \A o \in OrderRequests : pc[o] \in {"locking", "writing"} =>
             (pc'[o] = "writing" => Lines(o, Targets(o))' = Lines(o, Targets(o)))
      BY SameLines DEF TypeOK
    <2> QED
      BY <2>1 DEF TypeOK, CheckedInv, PhaseInv, InTransaction
  <1>5. HistoryInv'
    BY DEF TypeOK, HistoryInv
  <1>6. SnapshotCurrent'
    BY DEF TypeOK, SnapshotCurrent, PhaseInv, InTransaction
  <1>7. LocksAscend'
    BY DEF TypeOK, LocksAscend, LockInv, InTransaction, ToLock, Targets
  <1> QED
    BY <1>1, <1>2, <1>3, <1>4, <1>5, <1>6, <1>7

(* A failing statement leaves the locks to the rollback.                    *)
LEMMA StatementFailsInv ==
    ASSUME IInv, NEW r \in Requests, StatementFails(r)
    PROVE  IInv'
  <1> USE RequestsAssumption
      DEF StatementFails, Throw, tables, call, tx,
          IInv, TransactionInv, Requests
  <1>1. TypeOK'
    BY DEF TypeOK, Targets, ToWrite
  <1>2. PhaseInv'
    BY DEF TypeOK, PhaseInv, InTransaction, Targets, ToLock, ToWrite
  <1>3. LockInv'
    BY DEF TypeOK, LockInv, InTransaction, PhaseInv
  <1>4. CheckedInv'
    <2>1. \A o \in OrderRequests : pc[o] \in {"locking", "writing"} =>
             (pc'[o] = "writing" => Lines(o, Targets(o))' = Lines(o, Targets(o)))
      BY SameLines DEF TypeOK
    <2> QED
      BY <2>1 DEF TypeOK, CheckedInv, PhaseInv, InTransaction
  <1>5. HistoryInv'
    BY DEF TypeOK, HistoryInv
  <1>6. SnapshotCurrent'
    BY DEF TypeOK, SnapshotCurrent, PhaseInv, InTransaction
  <1>7. LocksAscend'
    BY DEF TypeOK, LocksAscend, LockInv, InTransaction, ToLock, Targets
  <1> QED
    BY <1>1, <1>2, <1>3, <1>4, <1>5, <1>6, <1>7

(* A rollback frees its own locks and no other.                             *)
LEMMA RollbackInv ==
    ASSUME IInv, NEW r \in Requests, Rollback(r)
    PROVE  IInv'
  <1> USE RequestsAssumption
      DEF Rollback, ReleaseLocks, ForgetTx, NoRows, tables, call, tx,
          IInv, TransactionInv, Requests
  <1>1. TypeOK'
    BY DEF TypeOK, Targets, ToWrite
  <1>2. PhaseInv'
    BY DEF TypeOK, PhaseInv, InTransaction, Targets, ToLock, ToWrite
  <1>3. LockInv'
    BY DEF TypeOK, LockInv, InTransaction, PhaseInv
  <1>4. CheckedInv'
    <2>1. \A o \in OrderRequests : pc[o] \in {"locking", "writing"} =>
             (pc'[o] = "writing" => Lines(o, Targets(o))' = Lines(o, Targets(o)))
      BY SameLines DEF TypeOK
    <2> QED
      BY <2>1 DEF TypeOK, CheckedInv, PhaseInv, InTransaction
  <1>5. HistoryInv'
    BY DEF TypeOK, HistoryInv
  <1>6. SnapshotCurrent'
    <2>1. \A s \in Requests : pc'[s] \in {"locking", "writing"} =>
             s # r /\ pc'[s] = pc[s] /\ lockedProducts'[s] = lockedProducts[s]
      BY DEF TypeOK
    <2>2. \A s \in Requests, p \in ProductIds : s # r /\ lock[p] = s => lock'[p] = s
      OBVIOUS
    <2>3. \A s \in Requests : DOMAIN lockedProducts[s] \subseteq ProductIds
      BY TargetsAreProducts DEF TypeOK
    <2> QED
      BY <2>1, <2>2, <2>3 DEF SnapshotCurrent
  <1>7. LocksAscend'
    BY DEF TypeOK, LocksAscend, LockInv, InTransaction, ToLock, Targets
  <1> QED
    BY <1>1, <1>2, <1>3, <1>4, <1>5, <1>6, <1>7

(* The total is that of the rows locked.                                    *)
LEMMA InsertOrderInv ==
    ASSUME IInv, NEW r \in OrderRequests, InsertOrder(r)
    PROVE  IInv'
  <1> USE RequestsAssumption
      DEF InsertOrder, Throw, tables, call, tx,
          IInv, TransactionInv, Requests
  <1>1. TypeOK'
    <2>1. /\ pc' \in [Requests -> {"idle", "waiting", "locking", "writing", "rollback",
                                  "answered"}]
          /\ outcome' \in [Requests -> {"none", "OK", "PRODUCT_NOT_FOUND",
                                       "INSUFFICIENT_STOCK", "FAILED", "LOST"}]
          /\ createdOrder' \in [Requests -> BOOLEAN]
      <3>1. \/ /\ pc' = [pc EXCEPT ![r] = "writing"] /\ outcome' = outcome
               /\ createdOrder' = [createdOrder EXCEPT ![r] = TRUE]
            \/ /\ pc' = [pc EXCEPT ![r] = "rollback"]
               /\ outcome' = [outcome EXCEPT ![r] = "FAILED"]
               /\ createdOrder' = createdOrder
        OBVIOUS
      <3>2. /\ pc \in [Requests -> {"idle", "waiting", "locking", "writing", "rollback",
                                   "answered"}]
            /\ outcome \in [Requests -> {"none", "OK", "PRODUCT_NOT_FOUND",
                                        "INSUFFICIENT_STOCK", "FAILED", "LOST"}]
            /\ createdOrder \in [Requests -> BOOLEAN]
        BY DEF TypeOK
      <3> QED
        BY <3>1, <3>2
    <2>2. /\ UNCHANGED <<product, orders, lock, basket, edit, lockedProducts, updated, inserted>>
          /\ \A s \in Requests : Targets(s)' = Targets(s)
      BY DEF Targets
    <2> QED
      BY <2>1, <2>2 DEF TypeOK
  <1>2. PhaseInv'
    <2>1. CASE totalAmount(Lines(r, Targets(r))) <= MaxTotal
      <3>1. updated[r] = {} /\ inserted[r] = {}
        BY DEF PhaseInv, InTransaction
      <3>2. /\ pc' = [pc EXCEPT ![r] = "writing"]
            /\ createdOrder' = [createdOrder EXCEPT ![r] = TRUE]
        BY <2>1
      <3>3. ToLock(r)' = {}
        BY DEF ToLock, Targets
      <3>4. /\ updated'[r] = {} /\ inserted'[r] = {}
            /\ createdOrder'[r] = TRUE /\ pc'[r] = "writing"
        BY <3>1, <3>2 DEF TypeOK
      <3>5. \A s \in Requests \ {r} :
               /\ pc'[s] = pc[s] /\ createdOrder'[s] = createdOrder[s]
               /\ ToLock(s)' = ToLock(s) /\ Targets(s)' = Targets(s)
        BY <3>2 DEF TypeOK, ToLock, Targets
      <3>6. /\ \A s \in Requests : DOMAIN lockedProducts'[s] = DOMAIN lockedProducts[s]
            /\ UNCHANGED <<updated, inserted>>
        OBVIOUS
      <3>7. \A s \in Requests \ {r} :
               /\ ~InTransaction(s)' => DOMAIN lockedProducts'[s] = {}
               /\ pc'[s] \notin {"writing", "rollback"} =>
                     ~createdOrder'[s] /\ updated'[s] = {} /\ inserted'[s] = {}
               /\ pc'[s] = "writing" =>
                     /\ ToLock(s)' = {}
                     /\ createdOrder'[s] = (s \in OrderRequests)
                     /\ inserted'[s] \subseteq updated'[s]
                     /\ updated'[s] \subseteq Targets(s)'
        BY <3>5, <3>6 DEF PhaseInv, InTransaction
      <3>8. InTransaction(r)' /\ r \in OrderRequests
        BY <3>4 DEF InTransaction
      <3> QED
        BY <3>3, <3>4, <3>7, <3>8 DEF PhaseInv
    <2>2. CASE ~(totalAmount(Lines(r, Targets(r))) <= MaxTotal)
      BY <2>2 DEF TypeOK, PhaseInv, InTransaction, Targets, ToLock, ToWrite
    <2> QED
      BY <2>1, <2>2
  <1>3. LockInv'
    BY DEF TypeOK, LockInv, InTransaction, PhaseInv
  <1>4. CheckedInv'
    <2>1. \A o \in OrderRequests : pc[o] \in {"locking", "writing"} =>
             (pc'[o] = "writing" => Lines(o, Targets(o))' = Lines(o, Targets(o)))
      BY SameLines DEF TypeOK
    <2> QED
      BY <2>1 DEF TypeOK, CheckedInv, PhaseInv, InTransaction
  <1>5. HistoryInv'
    BY DEF TypeOK, HistoryInv
  <1>6. SnapshotCurrent'
    BY DEF TypeOK, SnapshotCurrent, PhaseInv, InTransaction
  <1>7. LocksAscend'
    BY DEF TypeOK, LocksAscend, LockInv, InTransaction, ToLock, Targets
  <1> QED
    BY <1>1, <1>2, <1>3, <1>4, <1>5, <1>6, <1>7

(* The written stock stays invisible and within the locked rows.            *)
LEMMA UpdateStockInv ==
    ASSUME IInv, NEW r \in OrderRequests, NEW p \in ProductIds, UpdateStock(r, p)
    PROVE  IInv'
  <1> USE RequestsAssumption
      DEF UpdateStock, IsNext, tables, call, tx,
          IInv, TransactionInv, Requests
  <1>1. TypeOK'
    BY DEF TypeOK, Targets, ToWrite
  <1>2. PhaseInv'
    BY DEF TypeOK, PhaseInv, InTransaction, Targets, ToLock, ToWrite
  <1>3. LockInv'
    BY DEF TypeOK, LockInv, InTransaction, PhaseInv
  <1>4. CheckedInv'
    <2>1. \A o \in OrderRequests : pc[o] \in {"locking", "writing"} =>
             (pc'[o] = "writing" => Lines(o, Targets(o))' = Lines(o, Targets(o)))
      BY SameLines DEF TypeOK
    <2> QED
      BY <2>1 DEF TypeOK, CheckedInv, PhaseInv, InTransaction
  <1>5. HistoryInv'
    BY DEF TypeOK, HistoryInv
  <1>6. SnapshotCurrent'
    BY DEF TypeOK, SnapshotCurrent, PhaseInv, InTransaction
  <1>7. LocksAscend'
    BY DEF TypeOK, LocksAscend, LockInv, InTransaction, ToLock, Targets
  <1> QED
    BY <1>1, <1>2, <1>3, <1>4, <1>5, <1>6, <1>7

(* An item follows the stock update of its product.                         *)
LEMMA InsertItemInv ==
    ASSUME IInv, NEW r \in OrderRequests, NEW p \in ProductIds, InsertItem(r, p)
    PROVE  IInv'
  <1> USE RequestsAssumption
      DEF InsertItem, IsNext, tables, call, tx,
          IInv, TransactionInv, Requests
  <1>1. TypeOK'
    BY DEF TypeOK, Targets, ToWrite
  <1>2. PhaseInv'
    BY DEF TypeOK, PhaseInv, InTransaction, Targets, ToLock, ToWrite
  <1>3. LockInv'
    BY DEF TypeOK, LockInv, InTransaction, PhaseInv
  <1>4. CheckedInv'
    <2>1. \A o \in OrderRequests : pc[o] \in {"locking", "writing"} =>
             (pc'[o] = "writing" => Lines(o, Targets(o))' = Lines(o, Targets(o)))
      BY SameLines DEF TypeOK
    <2> QED
      BY <2>1 DEF TypeOK, CheckedInv, PhaseInv, InTransaction
  <1>5. HistoryInv'
    BY DEF TypeOK, HistoryInv
  <1>6. SnapshotCurrent'
    BY DEF TypeOK, SnapshotCurrent, PhaseInv, InTransaction
  <1>7. LocksAscend'
    BY DEF TypeOK, LocksAscend, LockInv, InTransaction, ToLock, Targets
  <1> QED
    BY <1>1, <1>2, <1>3, <1>4, <1>5, <1>6, <1>7

(* An edit is saved only after the validators accepted it.                  *)
LEMMA SaveEditInv ==
    ASSUME IInv, NEW r \in EditRequests, SaveEdit(r)
    PROVE  IInv'
  <1> USE RequestsAssumption
      DEF SaveEdit, Throw, tables, call, tx,
          IInv, TransactionInv, Requests
  <1>1. TypeOK'
    <2>1. updated' \in [Requests -> SUBSET ProductIds]
      BY TargetsAreProducts DEF TypeOK
    <2> QED
      BY <2>1 DEF TypeOK, Targets
  <1>2. PhaseInv'
    BY DEF TypeOK, PhaseInv, InTransaction, Targets, ToLock, ToWrite
  <1>3. LockInv'
    BY DEF TypeOK, LockInv, InTransaction, PhaseInv
  <1>4. CheckedInv'
    <2>1. \A o \in OrderRequests : pc[o] \in {"locking", "writing"} =>
             (pc'[o] = "writing" => Lines(o, Targets(o))' = Lines(o, Targets(o)))
      BY SameLines DEF TypeOK
    <2> QED
      BY <2>1 DEF TypeOK, CheckedInv, PhaseInv, InTransaction
  <1>5. HistoryInv'
    BY DEF TypeOK, HistoryInv
  <1>6. SnapshotCurrent'
    BY DEF TypeOK, SnapshotCurrent, PhaseInv, InTransaction
  <1>7. LocksAscend'
    BY DEF TypeOK, LocksAscend, LockInv, InTransaction, ToLock, Targets
  <1> QED
    BY <1>1, <1>2, <1>3, <1>4, <1>5, <1>6, <1>7

(* A commit publishes only rows it holds, so no other snapshot goes stale.  *)
LEMMA CommitInv ==
    ASSUME IInv, NEW r \in Requests, NEW acknowledged \in BOOLEAN, Commit(r, acknowledged)
    PROVE  IInv'
  <1> USE RequestsAssumption DEF ReleaseLocks, ForgetTx, NoRows, call, tables
  <1>w. pc[r] = "writing" BY DEF Commit
  <1>0. \A s \in Requests : s # r =>
           /\ pc'[s] = pc[s] /\ outcome'[s] = outcome[s] /\ lockedProducts'[s] = lockedProducts[s]
           /\ createdOrder'[s] = createdOrder[s] /\ updated'[s] = updated[s]
           /\ inserted'[s] = inserted[s]
           /\ Targets(s)' = Targets(s)
    BY DEF Commit, IInv, TypeOK, Targets
  <1>a. /\ pc'[r] = "answered" /\ outcome'[r] \in {"OK", "FAILED"}
        /\ DOMAIN lockedProducts'[r] = {} /\ createdOrder'[r] = FALSE
        /\ updated'[r] = {} /\ inserted'[r] = {}
    BY DEF Commit, IInv, TypeOK
  <1>b. \A p \in ProductIds : p \notin updated[r] => product'[p] = product[p]
    BY DEF Commit
  <1>c. \A s \in Requests \ {r}, p \in ProductIds : lock[p] = s <=> lock'[p] = s
    BY DEF Commit
  <1>d. \A p \in ProductIds : lock'[p] # r
    BY DEF Commit
  <1>1. TypeOK'
    <2>1. product' \in [ProductIds -> Row]
      BY <1>w, WrittenIsRow, WritesLocked DEF Commit, IInv, TypeOK
    <2>2. \A o \in orders' :
          /\ o.request \in OrderRequests
          /\ o.totalAmount \in 1..MaxTotal
          /\ o.items \in [DOMAIN o.items -> [quantity : Nat \ {0}, price : Nat \ {0}]]
      <3>1. CASE createdOrder[r]
        <4>1. r \in OrderRequests /\ inserted[r] \subseteq Targets(r) /\ Targets(r) = DOMAIN lockedProducts[r]
          BY <1>w, <3>1 DEF IInv, TransactionInv, PhaseInv, ToLock, TypeOK
        <4>2. \A p \in Targets(r) : Line(r, p) \in [quantity : Nat \ {0}, price : Nat \ {0}]
          BY <4>1 DEF IInv, TypeOK, Line, IsBasket, Targets, Row
        <4>3. totalAmount(Lines(r, Targets(r))) \in 1..MaxTotal
          <5>1. totalAmount(Lines(r, Targets(r))) <= MaxTotal
            BY <1>w, <4>1 DEF IInv, TransactionInv, CheckedInv
          <5>2. IsFiniteSet(Targets(r)) /\ Targets(r) # {}
            BY <1>w, <4>1, BasketsAreFinite DEF Targets
          <5>3. totalAmount(Lines(r, Targets(r))) \in Nat \ {0}
            <6>1. DOMAIN Lines(r, Targets(r)) = Targets(r)
              BY DEF Lines
            <6>2. \A p \in Targets(r) : Lines(r, Targets(r))[p] = Line(r, p)
              BY DEF Lines
            <6> QED BY <4>2, <5>2, <6>1, <6>2, TotalIsPositive
          <5> QED BY <5>1, <5>3, MaxTotalAssumption
        <4>4. Lines(r, inserted[r]) \in [inserted[r] -> [quantity : Nat \ {0}, price : Nat \ {0}]]
          BY <4>1, <4>2 DEF Lines
        <4> QED BY <3>1, <4>1, <4>3, <4>4 DEF Commit, IInv, TypeOK
      <3> QED BY <3>1 DEF Commit, IInv, TypeOK
    <2>3. lock' \in [ProductIds -> Requests \cup {NoOwner}]
      BY DEF Commit, IInv, TypeOK
    <2>4. /\ pc' \in [Requests -> {"idle", "waiting", "locking", "writing", "rollback", "answered"}]
          /\ outcome' \in [Requests -> {"none", "OK", "PRODUCT_NOT_FOUND", "INSUFFICIENT_STOCK",
                                 "FAILED", "LOST"}]
      BY DEF Commit, IInv, TypeOK
    <2>5. /\ DOMAIN lockedProducts' = Requests
          /\ \A s \in Requests :
                /\ DOMAIN lockedProducts'[s] \subseteq Targets(s)'
                /\ lockedProducts'[s] \in [DOMAIN lockedProducts'[s] -> Row]
      BY <1>0, <1>a DEF Commit, IInv, TypeOK
    <2>6. /\ createdOrder' \in [Requests -> BOOLEAN]
    /\ updated' \in [Requests -> SUBSET ProductIds]
    /\ inserted' \in [Requests -> SUBSET ProductIds]
      BY DEF Commit, IInv, TypeOK
    <2>7. UNCHANGED <<basket, edit>>
      BY DEF Commit
    <2> QED BY <2>1, <2>2, <2>3, <2>4, <2>5, <2>6, <2>7 DEF IInv, TypeOK
  <1>2. PhaseInv'
    BY <1>0, <1>a DEF IInv, TransactionInv, PhaseInv, InTransaction, ToLock
  <1>3. LockInv'
    BY <1>0, <1>c, <1>d DEF IInv, TransactionInv, LockInv, InTransaction
  <1>4. CheckedInv'
    <2>1. \A o \in OrderRequests : o # r => Lines(o, Targets(o))' = Lines(o, Targets(o))
      BY <1>0, SameLines DEF Commit, Requests
    <2>2. UNCHANGED <<basket, edit>>
      BY DEF Commit
    <2> QED BY <1>0, <1>a, <2>1, <2>2 DEF IInv, TransactionInv, CheckedInv, Requests
  <1>5. HistoryInv'
    <2>1. \/ orders' = orders
          \/ /\ r \in OrderRequests
             /\ \E o : /\ o.request = r /\ o.totalAmount = totalAmount(o.items)
                      /\ orders' = orders \cup {o}
      <3>1. CASE createdOrder[r]
        <4>1. r \in OrderRequests
          BY <1>w, <3>1 DEF IInv, TransactionInv, PhaseInv
        <4>2. Targets(r) = inserted[r]
          BY <1>w, <4>1 DEF Commit, ToWrite, IInv, TransactionInv, PhaseInv, Requests
        <4> QED BY <3>1, <4>1, <4>2 DEF Commit
      <3> QED BY <3>1 DEF Commit
    <2>2. UNCHANGED <<basket, edit>>
      BY DEF Commit
    <2> QED BY <1>w, <1>0, <1>a, <2>1, <2>2 DEF IInv, TypeOK, TransactionInv, HistoryInv, Requests
  <1>6. SnapshotCurrent'
    <2> SUFFICES ASSUME NEW s \in Requests, pc'[s] \in {"locking", "writing"},
                        NEW p \in DOMAIN lockedProducts'[s]
                 PROVE  lock'[p] = s /\ lockedProducts'[s][p] = product'[p]
      BY DEF SnapshotCurrent
    <2>1. s # r /\ p \in DOMAIN lockedProducts[s] /\ p \in ProductIds
      BY <1>0, <1>a, TargetsAreProducts DEF IInv, TypeOK
    <2>2. lock[p] = s /\ lockedProducts[s][p] = product[p]
      BY <1>0, <2>1 DEF IInv, SnapshotCurrent
    <2>3. p \notin updated[r]
      BY <1>w, <2>1, <2>2, WritesLocked
    <2> QED BY <1>0, <1>b, <1>c, <2>1, <2>2, <2>3
  <1>7. LocksAscend'
    BY <1>0, <1>a, <1>c DEF IInv, LocksAscend, ToLock
  <1> QED BY <1>1, <1>2, <1>3, <1>4, <1>5, <1>6, <1>7 DEF IInv, TransactionInv

(* A crash leaves nothing locked and nothing uncommitted.                   *)
LEMMA CrashInv ==
    ASSUME IInv, Crash
    PROVE  IInv'
  <1> USE RequestsAssumption
      DEF Crash, InFlight, NoRows, tables, call, tx, IInv, TransactionInv, Requests
  <1>1. TypeOK'
    BY DEF TypeOK, Targets
  <1>2. /\ \A q \in Requests : /\ DOMAIN lockedProducts'[q] = {} /\ ~createdOrder'[q]
                              /\ updated'[q] = {} /\ inserted'[q] = {}
                              /\ pc'[q] \notin {"locking", "writing", "rollback"}
        /\ \A p \in ProductIds : lock'[p] \notin Requests
    BY DEF TypeOK
  <1>3. PhaseInv'
    BY <1>2 DEF PhaseInv
  <1>4. LockInv'
    BY <1>2 DEF LockInv
  <1>5. CheckedInv'
    BY <1>2 DEF CheckedInv
  <1>6. HistoryInv'
    BY DEF TypeOK, HistoryInv
  <1>7. SnapshotCurrent' /\ LocksAscend'
    BY DEF TypeOK, SnapshotCurrent, LocksAscend
  <1> QED
    BY <1>1, <1>3, <1>4, <1>5, <1>6, <1>7

(* Every step keeps the inductive invariant.                                *)
LEMMA NextIInv == IInv /\ [Next]_vars => IInv'
  <1> SUFFICES ASSUME IInv, [Next]_vars PROVE IInv'
    OBVIOUS
  <1>1. CASE UNCHANGED vars
    BY <1>1 DEF vars, tables, call, tx, IInv, TypeOK, TransactionInv, PhaseInv, LockInv,
                CheckedInv, HistoryInv, SnapshotCurrent, LocksAscend, InTransaction,
                Targets, ToLock, Lines, Line
  <1>2. ASSUME NEW o \in OrderRequests, NEW items \in ItemLists, CallOrder(o, items)
        PROVE  IInv'
    BY <1>2, CallOrderInv
  <1>3. ASSUME NEW e \in EditRequests, CallEdit(e)
        PROVE  IInv'
    BY <1>3, CallEditInv
  <1>4. ASSUME NEW r \in Requests, Step(r)
        PROVE  IInv'
    BY <1>4, BeginTransactionInv, LockProductInv, RefuseNotFoundInv, RefuseShortInv,
       UpdateStockInv, InsertItemInv, InsertOrderInv, SaveEditInv, CommitInv, RollbackInv
       DEF Step, OrderStep
  <1>5. ASSUME NEW r \in Requests, BeginFails(r) \/ StatementFails(r) \/ Commit(r, FALSE)
        PROVE  IInv'
    BY <1>5, BeginFailsInv, StatementFailsInv, CommitInv
  <1>6. CASE Crash
    BY <1>6, CrashInv
  <1> QED
    BY <1>1, <1>2, <1>3, <1>4, <1>5, <1>6 DEF Next

(* The lock discipline holds throughout every execution.                    *)
THEOREM Invariance == Spec => []IInv
  <1>1. Init => IInv
    BY InitIInv
  <1>2. IInv /\ [Next]_vars => IInv'
    BY NextIInv
  <1> QED
    BY <1>1, <1>2, PTL DEF Spec

(* Rows stay rows: in particular no committed stock is ever negative and no *)
(* committed total exceeds what the column holds.                           *)
THEOREM TypeCorrect == Spec => []TypeOK
  <1>1. IInv => TypeOK
    BY DEF IInv
  <1> QED
    BY <1>1, Invariance, PTL

(* createOrder may write the absolute stock it computed from an earlier     *)
(* read: the row it read is locked by it and unchanged until it commits.    *)
THEOREM NoLostUpdate == Spec => []SnapshotCurrent
  <1>1. IInv => SnapshotCurrent
    BY DEF IInv
  <1> QED
    BY <1>1, Invariance, PTL

(* Whatever is about to be committed was found present, in stock and within *)
(* the total's range under the transaction's own locks, and an order is in  *)
(* the tables only once its request is over.                                *)
THEOREM TransactionsChecked == Spec => []TransactionInv
  <1>1. IInv => TransactionInv
    BY DEF IInv
  <1> QED
    BY <1>1, Invariance, PTL

(* Row locks are taken in ascending order.                                  *)
THEOREM LocksAscending == Spec => []LocksAscend
  <1>1. IInv => LocksAscend
    BY DEF IInv
  <1> QED
    BY <1>1, Invariance, PTL

------------------------------------------------------------------------------
(* No deadlock *)

(* A nonempty set of products has a last one in lock order.                 *)
LEMMA ProductMax ==
    ASSUME NEW W \in SUBSET ProductIds, W # {}
    PROVE  \E m \in W : \A q \in W : q <= m
  <1> DEFINE Gaps == {ProductCount - p : p \in W}
  <1>1. Gaps \in SUBSET Nat /\ Gaps # {}
    <2>1. PICK p : p \in W
      OBVIOUS
    <2>2. ProductCount - p \in Gaps
      BY <2>1
    <2>3. \A q \in W : ProductCount - q \in Nat
      BY ProductCountAssumption DEF ProductIds
    <2> QED BY <2>2, <2>3
  <1>2. PICK g \in Gaps : \A h \in Gaps : g <= h
    <2> HIDE DEF Gaps
    <2> QED BY <1>1, NatMin
  <1>3. PICK m \in W : g = ProductCount - m
    OBVIOUS
  <1>4. \A q \in W : q \in Nat /\ g <= ProductCount - q
    BY <1>2 DEF ProductIds
  <1> QED
    BY <1>3, <1>4, ProductCountAssumption DEF ProductIds

(* If requests waited in a circle, the one holding the last product waited  *)
(* for would hold a row above the one it waits for.                         *)
LEMMA AscendingLocksNeverCycle ==
    ASSUME TypeOK, LockInv, LocksAscend
    PROVE  NoDeadlock
  <1> SUFFICES ASSUME NEW S \in (SUBSET Requests) \ {{}},
                      \A r \in S : \E s \in S : WaitsFor(r, s)
               PROVE  FALSE
    BY DEF NoDeadlock
  <1> DEFINE W == {p \in ProductIds : \E r \in S : pc[r] = "locking" /\ IsNext(p, ToLock(r))}
  <1>1. \A r \in S : \E s \in S : WaitsFor(r, s)
    OBVIOUS
  <1>2. \A r \in S, s \in S : WaitsFor(r, s) =>
           \E p \in W : pc[r] = "locking" /\ IsNext(p, ToLock(r)) /\ lock[p] = s
    BY DEF WaitsFor
  <1>3. W \in SUBSET ProductIds /\ W # {}
    <2>1. PICK r : r \in S
      OBVIOUS
    <2>2. PICK s \in S : WaitsFor(r, s)
      BY <1>1, <2>1
    <2>3. PICK p \in W : lock[p] = s
      BY <1>2, <2>1, <2>2
    <2> QED BY <2>3
  <1>4. PICK m \in W : \A q \in W : q <= m
    <2> HIDE DEF W
    <2> QED BY <1>3, ProductMax
  <1>5. PICK r \in S : pc[r] = "locking" /\ IsNext(m, ToLock(r))
    OBVIOUS
  <1>6. PICK s \in S : WaitsFor(r, s)
    BY <1>1
  <1>7. lock[m] = s
    <2>1. PICK p \in W : IsNext(p, ToLock(r)) /\ lock[p] = s
      BY <1>2, <1>6
    <2>2. p \in ProductIds /\ m \in ProductIds /\ p <= m /\ m <= p
      BY <1>4, <1>5, <2>1 DEF IsNext
    <2> QED BY <2>1, <2>2 DEF ProductIds
  <1>8. PICK q \in W : pc[s] = "locking" /\ IsNext(q, ToLock(s))
    <2> HIDE DEF W
    <2> QED BY <1>1, <1>2
  <1>9. m < q
    BY <1>7, <1>8 DEF LocksAscend, IsNext
  <1>10. m \in Int /\ q \in Int
    BY DEF ProductIds
  <1> QED
    BY <1>4, <1>9, <1>10

(* Sorted locking keeps orders and edits free of deadlock, however many run *)
(* at once.                                                                 *)
THEOREM DeadlockFree == Spec => []NoDeadlock
  <1>1. IInv => NoDeadlock
    BY AscendingLocksNeverCycle DEF IInv, TransactionInv
  <1> QED
    BY <1>1, Invariance, PTL

(* Whoever waits for nobody while it is open is not blocked; with nobody    *)
(* open there is a connection.                                              *)
LEMMA SomebodyGoesOn ==
    ASSUME IInv, NoDeadlock
    PROVE  NeverAllBlocked
  <1> SUFFICES ASSUME NEW r \in Requests, InFlight(r)
               PROVE  \E s \in Requests : InFlight(s) /\ ~Blocked(s)
    BY DEF NeverAllBlocked
  <1>1. CASE Open = {}
    <2>1. pc[r] = "waiting"
      BY <1>1 DEF Open, InTransaction, InFlight, IInv, TypeOK
    <2>2. Cardinality(Open) = 0
      BY <1>1, FS_EmptySet
    <2> QED
      BY <2>1, <2>2, PoolSizeAssumption DEF Blocked
  <1>2. CASE Open # {}
    <2>1. Open \in (SUBSET Requests) \ {{}}
      BY <1>2 DEF Open
    <2>2. PICK s \in Open : \A t \in Open : ~WaitsFor(s, t)
      BY <2>1 DEF NoDeadlock
    <2>3. s \in Requests /\ InFlight(s) /\ pc[s] # "waiting"
      BY DEF Open, InTransaction, InFlight
    <2>4. ASSUME NEW p \in ProductIds, pc[s] = "locking", IsNext(p, ToLock(s)), lock[p] # NoOwner
          PROVE  FALSE
      <3>1. lock[p] \in Open
        BY <2>4 DEF IInv, TypeOK, TransactionInv, LockInv, Open
      <3> QED
        BY <2>2, <2>4, <3>1 DEF WaitsFor
    <2> QED
      BY <2>3, <2>4 DEF Blocked
  <1> QED
    BY <1>1, <1>2

(* The pool cannot run dry for good: while requests are in flight, one of   *)
(* them needs neither a connection nor a row that another one has.          *)
THEOREM NotAllBlocked == Spec => []NeverAllBlocked
  <1>1. IInv /\ NoDeadlock => NeverAllBlocked
    BY SomebodyGoesOn
  <1> QED
    BY <1>1, Invariance, DeadlockFree, PTL

------------------------------------------------------------------------------
(* The transactions implement the ledger *)

(* Only a commit changes the tables.                                        *)
LEMMA OnlyCommitWrites ==
    ASSUME IInv, Next
    PROVE  \/ UNCHANGED tables
           \/ \E r \in Requests, acknowledged \in BOOLEAN : Commit(r, acknowledged)
  BY RequestsAssumption DEF Next, Step, OrderStep, CallOrder, CallEdit, BeginTransaction, BeginFails, LockProduct,
     RefuseNotFound, RefuseShort, StatementFails, Rollback, InsertOrder, UpdateStock,
     InsertItem, SaveEdit, Crash, tables, Requests

(* An answered request stays answered as it was.                            *)
LEMMA AnswersAreFinal ==
    ASSUME IInv, Next, NEW r \in Requests, pc[r] = "answered"
    PROVE  pc'[r] = "answered" /\ outcome'[r] = outcome[r]
  BY RequestsAssumption DEF Next, Step, OrderStep, CallOrder, CallEdit, BeginTransaction, BeginFails, LockProduct, Lock, Throw, InFlight,
     RefuseNotFound, RefuseShort, StatementFails, Rollback, InsertOrder, UpdateStock, Commit, 
     InsertItem, SaveEdit, Crash, Requests, IInv, TypeOK

(* Once called, a request asks for the same to its end.                     *)
LEMMA CallsAreFixed ==
    ASSUME IInv, Next
    PROVE  /\ \A o \in OrderRequests : pc[o] # "idle" => basket'[o] = basket[o]
           /\ edit' = edit
  BY RequestsAssumption DEF Next, Step, OrderStep, CallOrder, CallEdit, BeginTransaction, BeginFails, LockProduct,
     RefuseNotFound, RefuseShort, StatementFails, Rollback, InsertOrder, UpdateStock, Commit, 
     InsertItem, SaveEdit, Crash, call, Requests, IInv, TypeOK

(* The commit of an order is the ledger's PlaceOrder.                       *)
LEMMA CommittedOrder ==
    ASSUME IInv, NEW r \in OrderRequests, NEW acknowledged \in BOOLEAN, Commit(r, acknowledged)
    PROVE  /\ product' = [p \in ProductIds |->
                             IF p \in DOMAIN basket[r]
                             THEN [product[p] EXCEPT !.stockQuantity = @ - basket[r][p]]
                             ELSE product[p]]
           /\ orders' = orders \cup {[request |-> r,
                                      totalAmount |-> totalAmount(Ledger!Priced(basket[r])),
                                      items |-> Ledger!Priced(basket[r])]}
           /\ totalAmount(Ledger!Priced(basket[r])) <= MaxTotal
           /\ Ledger!Available(basket[r])
  <1>1. /\ pc[r] = "writing" /\ createdOrder[r] = TRUE /\ r \in Requests
        /\ Targets(r) = DOMAIN basket[r] /\ DOMAIN lockedProducts[r] = Targets(r)
        /\ updated[r] = Targets(r) /\ inserted[r] = Targets(r)
    <2>1. /\ pc[r] = "writing" /\ r \in Requests /\ r \notin EditRequests
          /\ Targets(r) \ inserted[r] = {}
      BY RequestsAssumption DEF Commit, Requests, ToWrite
    <2>2. /\ Targets(r) \ DOMAIN lockedProducts[r] = {} /\ createdOrder[r] = TRUE
          /\ inserted[r] \subseteq updated[r] /\ updated[r] \subseteq Targets(r)
      BY <2>1 DEF IInv, TransactionInv, PhaseInv, ToLock
    <2>3. DOMAIN lockedProducts[r] \subseteq Targets(r) /\ Targets(r) = DOMAIN basket[r]
      BY <2>1 DEF IInv, TypeOK, Targets
    <2> QED
      BY <2>1, <2>2, <2>3
  <1>2. \A p \in DOMAIN basket[r] : lockedProducts[r][p] = product[p] /\ p \in ProductIds
    BY <1>1, TargetsAreProducts DEF IInv, SnapshotCurrent
  <1>3. Lines(r, Targets(r)) = Ledger!Priced(basket[r])
    BY <1>1, <1>2 DEF Lines, Line, Ledger!Priced
  <1>4. \A p \in DOMAIN basket[r] : WrittenRow(r, p) = [product[p] EXCEPT !.stockQuantity = @ - basket[r][p]]
    BY <1>1, <1>2 DEF WrittenRow, IInv, TypeOK, Row
  <1>5. product' = [p \in ProductIds |->
                             IF p \in DOMAIN basket[r]
                             THEN [product[p] EXCEPT !.stockQuantity = @ - basket[r][p]]
                             ELSE product[p]]
     BY <1>1, <1>4 DEF Commit
  <1>6. orders' = orders \cup {[request |-> r,
                                      totalAmount |-> totalAmount(Ledger!Priced(basket[r])),
                                      items |-> Ledger!Priced(basket[r])]}
     BY <1>1, <1>3 DEF Commit
  <1>7. totalAmount(Ledger!Priced(basket[r])) <= MaxTotal
    BY <1>1, <1>3 DEF IInv, TransactionInv, CheckedInv
  <1>8. Ledger!Available(basket[r])
    BY <1>1, <1>2 DEF Ledger!Available, IInv, TransactionInv, CheckedInv
  <1> QED BY <1>5, <1>6, <1>7, <1>8

(* The commit of an edit is the ledger's EditProduct.                       *)
LEMMA CommittedEdit ==
    ASSUME IInv, NEW r \in EditRequests, NEW acknowledged \in BOOLEAN, Commit(r, acknowledged)
    PROVE  Ledger!EditProduct(edit[r])
  <1>1. r \in Requests /\ r \notin OrderRequests /\ Targets(r) = {edit[r].id}
    BY RequestsAssumption DEF Requests, Targets
  <1>2. pc[r] = "writing" /\ updated[r] # {}
    BY <1>1 DEF Commit
  <1>3. /\ createdOrder[r] = FALSE /\ DOMAIN lockedProducts[r] = Targets(r)
        /\ updated[r] = Targets(r)
    BY <1>1, <1>2 DEF IInv, TransactionInv, PhaseInv, TypeOK, ToLock
  <1>4. edit[r].id \in ProductIds /\ lockedProducts[r][edit[r].id] = product[edit[r].id]
    BY <1>1, <1>2, <1>3, TargetsAreProducts DEF IInv, SnapshotCurrent
  <1>5. ~product[edit[r].id].isDeleted /\ PassesValidation(edit[r])
    BY <1>1, <1>2, <1>3, <1>4 DEF IInv, TransactionInv, CheckedInv
  <1>6. WrittenRow(r, edit[r].id) = Edited(product[edit[r].id], edit[r])
    BY <1>1, <1>4 DEF WrittenRow
  <1>7. product' = [p \in ProductIds |-> IF p = edit[r].id
                                         THEN Edited(product[edit[r].id], edit[r])
                                         ELSE product[p]]
    BY <1>1, <1>3, <1>6 DEF Commit
  <1>8. product' = [product EXCEPT ![edit[r].id] = Edited(product[edit[r].id], edit[r])]
    BY <1>4, <1>7 DEF IInv, TypeOK
  <1>9. orders' = orders
    BY <1>3 DEF Commit
  <1> QED BY <1>5, <1>8, <1>9 DEF Ledger!EditProduct

(* Every step is a step of the ledger or leaves it unchanged.               *)
LEMMA RefineStep ==
    ASSUME IInv, [Next]_vars
    PROVE  [Ledger!Next]_(Ledger!vars)
  <1>1. CASE UNCHANGED tables
    BY <1>1 DEF tables, Ledger!vars
  <1>2. ASSUME NEW r \in OrderRequests, NEW acknowledged \in BOOLEAN, Commit(r, acknowledged)
        PROVE  Ledger!Next
    <2>1. PICK items \in ItemLists : basket[r] = mergeOrderItems(items)
      BY <1>2 DEF Commit, IInv, TransactionInv, HistoryInv
    <2>2. \A o \in orders : o.request # r
      BY <1>2 DEF Commit, IInv, TransactionInv, HistoryInv
    <2>3. Ledger!PlaceOrder(r, basket[r])
      BY <1>2, <2>2, CommittedOrder DEF Ledger!PlaceOrder
    <2> QED BY <2>1, <2>3 DEF Ledger!Next
  <1>3. ASSUME NEW r \in EditRequests, NEW acknowledged \in BOOLEAN, Commit(r, acknowledged)
        PROVE  Ledger!Next
    <2>1. edit[r] \in Edits
      BY DEF IInv, TypeOK
    <2> QED BY <1>3, <2>1, CommittedEdit DEF Ledger!Next
  <1> QED BY <1>1, <1>2, <1>3, OnlyCommitWrites DEF vars, Requests

(* The transactions implement the atomic ledger.                            *)
THEOREM Implementation == Spec => ImplementsInventory
  <1>1. Init => Ledger!Init
    BY DEF Init, Ledger!Init
  <1>2. IInv /\ [Next]_vars => [Ledger!Next]_(Ledger!vars)
    BY RefineStep
  <1> QED
    BY <1>1, <1>2, Invariance, PTL DEF Spec, ImplementsInventory, Ledger!Spec

------------------------------------------------------------------------------
(* Truthful answers *)

(* The refusal for stock is given only over a row that is short.            *)
LEMMA OnlyShortageRefuses ==
    ASSUME IInv, Next, NEW o \in OrderRequests,
           outcome'[o] = "INSUFFICIENT_STOCK", outcome[o] # "INSUFFICIENT_STOCK"
    PROVE  /\ pc[o] = "locking"
           /\ \E p \in DOMAIN basket[o] : product[p].stockQuantity < basket[o][p]
  <1> USE DEF Requests
  <1>1. \A r \in Requests : outcome' # [outcome EXCEPT ![r] = "FAILED"]
    BY DEF IInv, TypeOK
  <1>2. \A r \in Requests : outcome' # [outcome EXCEPT ![r] = "OK"]
    BY DEF IInv, TypeOK
  <1>3. \A r \in Requests : outcome' # [outcome EXCEPT ![r] = "PRODUCT_NOT_FOUND"]
    BY DEF IInv, TypeOK
  <1>4. outcome' # outcome
    OBVIOUS
  <1>5. ~Crash
    BY DEF Crash
  <1>6. \E r \in OrderRequests, p \in ProductIds : RefuseShort(r, p)
    BY <1>1, <1>2, <1>3, <1>4, <1>5
       DEF Next, Step, OrderStep, CallOrder, CallEdit, BeginTransaction, BeginFails,
           LockProduct, Throw, RefuseNotFound, StatementFails, Rollback, InsertOrder,
           UpdateStock, InsertItem, SaveEdit, Commit
  <1>7. PICK r \in OrderRequests, p \in ProductIds : RefuseShort(r, p)
    BY <1>6
  <1>8. r = o
    BY <1>7 DEF RefuseShort, Throw, IInv, TypeOK
  <1> QED
    BY <1>7, <1>8 DEF RefuseShort, Lock, IsNext, ToLock, Targets

(* Committed orders only lower stock, so a refusal stays justified.         *)
LEMMA JustifiedStep ==
    ASSUME IInv, RefusalJustified, [Next]_vars
    PROVE  RefusalJustified'
  <1>1. CASE UNCHANGED vars
    BY <1>1 DEF vars, tables, call, RefusalJustified, MayHaveSetStock
  <1>2. CASE Next
    <2>1. \A p \in ProductIds : MayHaveSetStock(p) => MayHaveSetStock(p)'
      BY <1>2, AnswersAreFinal, CallsAreFixed DEF MayHaveSetStock, Requests
    <2>2. ASSUME NEW p \in ProductIds, NEW n \in Nat,
                 product[p].stockQuantity < n \/ MayHaveSetStock(p)
          PROVE  product'[p].stockQuantity < n \/ MayHaveSetStock(p)'
      <3>1. CASE UNCHANGED tables
        BY <2>1, <2>2, <3>1 DEF tables
      <3>2. ASSUME NEW r \in OrderRequests, NEW acknowledged \in BOOLEAN, Commit(r, acknowledged)
            PROVE  product'[p].stockQuantity < n \/ MayHaveSetStock(p)'
        <4>1. product[p].stockQuantity \in Nat /\ product[p] \in Row
          BY DEF IInv, TypeOK, Row
        <4>2. \A q \in DOMAIN basket[r] : basket[r][q] \in Nat
          BY DEF IInv, TypeOK, IsBasket
        <4>3. product'[p].stockQuantity <= product[p].stockQuantity
          BY <3>2, <4>1, <4>2, CommittedOrder DEF Row
        <4>4. product'[p].stockQuantity \in Int
          BY <3>2, <4>1, <4>2, CommittedOrder DEF Row
        <4> QED BY <2>1, <2>2, <4>1, <4>3, <4>4
      <3>3. ASSUME NEW r \in EditRequests, NEW acknowledged \in BOOLEAN, Commit(r, acknowledged)
            PROVE  product'[p].stockQuantity < n \/ MayHaveSetStock(p)'
        <4>1. product' = [product EXCEPT ![edit[r].id] = Edited(product[edit[r].id], edit[r])]
          BY <3>3, CommittedEdit DEF Ledger!EditProduct
        <4>2. CASE p = edit[r].id /\ edit[r].stockQuantity # Undefined
          <5>1. edit'[r] = edit[r] /\ pc'[r] = "answered"
            BY <3>3 DEF Commit, call, IInv, TypeOK, Requests
          <5> QED BY <4>2, <5>1 DEF MayHaveSetStock
        <4>3. CASE p # edit[r].id \/ edit[r].stockQuantity = Undefined
          <5>1. product'[p].stockQuantity = product[p].stockQuantity
            BY <4>1, <4>3 DEF Edited, Given, IInv, TypeOK
          <5> QED BY <2>1, <2>2, <5>1
        <4> QED BY <4>2, <4>3
      <3> QED BY <1>2, <3>1, <3>2, <3>3, OnlyCommitWrites DEF Requests
    <2>3. ASSUME NEW o \in OrderRequests, outcome'[o] = "INSUFFICIENT_STOCK"
          PROVE  /\ basket'[o] = basket[o]
                 /\ \/ outcome[o] = "INSUFFICIENT_STOCK"
                    \/ \E p \in DOMAIN basket[o] : product[p].stockQuantity < basket[o][p]
      <3>1. pc[o] # "idle"
        BY <1>2, <2>3, OnlyShortageRefuses DEF IInv, TransactionInv, HistoryInv, Requests
      <3> QED
        BY <1>2, <2>3, <3>1, OnlyShortageRefuses, CallsAreFixed
    <2> SUFFICES ASSUME NEW o \in OrderRequests, outcome'[o] = "INSUFFICIENT_STOCK"
                 PROVE  \E p \in DOMAIN basket'[o] :
                           product'[p].stockQuantity < basket'[o][p] \/ MayHaveSetStock(p)'
      BY DEF RefusalJustified
    <2>4. PICK p \in DOMAIN basket[o] :
             product[p].stockQuantity < basket[o][p] \/ MayHaveSetStock(p)
      BY <2>3 DEF RefusalJustified
    <2>5. p \in ProductIds /\ basket[o][p] \in Nat
      BY DEF IInv, TypeOK, IsBasket
    <2> QED
      BY <2>2, <2>3, <2>4, <2>5
  <1> QED BY <1>1, <1>2

(* A success answer comes with the commit, a refusal without one.           *)
LEMMA TruthfulStep ==
    ASSUME IInv, OutcomeTruthful, [Next]_vars
    PROVE  OutcomeTruthful'
  <1>1. CASE UNCHANGED vars
    BY <1>1 DEF vars, tables, call, OutcomeTruthful
  <1>2. CASE Next
    <2> SUFFICES ASSUME NEW r \in OrderRequests
                 PROVE  /\ outcome'[r] = "OK" =>
                              \E o \in orders' :
                                 /\ o.request = r
                                 /\ DOMAIN o.items = DOMAIN basket'[r]
                                 /\ \A p \in DOMAIN basket'[r] :
                                       o.items[p].quantity = basket'[r][p]
                        /\ outcome'[r] \in {"PRODUCT_NOT_FOUND", "INSUFFICIENT_STOCK"} =>
                              \A o \in orders' : o.request # r
      BY DEF OutcomeTruthful
    <2>1. orders \subseteq orders'
      BY <1>2, OnlyCommitWrites DEF tables, Commit
    <2>2. CASE pc[r] = "answered"
      <3>1. outcome'[r] = outcome[r] /\ basket'[r] = basket[r]
        BY <1>2, <2>2, AnswersAreFinal, CallsAreFixed DEF Requests
      <3>2. \A o \in orders' \ orders : o.request # r
        BY <1>2, <2>2, OnlyCommitWrites DEF tables, Commit
      <3> QED
        BY <2>1, <3>1, <3>2 DEF OutcomeTruthful
    <2>3. CASE pc[r] # "answered" /\ \E acknowledged \in BOOLEAN : Commit(r, acknowledged)
      <3>1. PICK acknowledged \in BOOLEAN : Commit(r, acknowledged)
        BY <2>3
      <3>2. outcome'[r] \in {"OK", "FAILED"} /\ basket'[r] = basket[r]
        BY <3>1 DEF Commit, call, IInv, TypeOK, Requests
      <3>3. [request |-> r, totalAmount |-> totalAmount(Ledger!Priced(basket[r])),
             items |-> Ledger!Priced(basket[r])] \in orders'
        BY <3>1, CommittedOrder
      <3> QED
        BY <3>2, <3>3 DEF Ledger!Priced
    <2>4. CASE pc[r] # "answered" /\ ~\E acknowledged \in BOOLEAN : Commit(r, acknowledged)
      <3>1. outcome'[r] # "OK"
        <4>1. outcome[r] # "OK"
          BY <2>4 DEF IInv, TransactionInv, HistoryInv, Requests
        <4>2. SUFFICES ASSUME outcome'[r] = "OK" PROVE FALSE
          OBVIOUS
        <4>3. /\ outcome' # outcome
              /\ ~Crash
              /\ \A s \in Requests, error \in {"FAILED", "PRODUCT_NOT_FOUND", "INSUFFICIENT_STOCK"} :
                    outcome' # [outcome EXCEPT ![s] = error]
          BY <4>1, <4>2 DEF Crash, IInv, TypeOK, Requests
        <4>4. \E s \in Requests, acknowledged \in BOOLEAN : Commit(s, acknowledged)
          BY <1>2, <4>3
             DEF Next, Step, OrderStep, CallOrder, CallEdit, BeginTransaction, BeginFails,
                 LockProduct, Throw, RefuseNotFound, RefuseShort, StatementFails, Rollback,
                 InsertOrder, UpdateStock, InsertItem, SaveEdit, Requests
        <4> QED
          <5>1. PICK s \in Requests, acknowledged \in BOOLEAN : Commit(s, acknowledged)
            BY <4>4
          <5>2. s # r
            BY <2>4, <5>1
          <5> QED
            BY <4>1, <4>2, <5>1, <5>2 DEF Commit, IInv, TypeOK, Requests
      <3>2. \A o \in orders' : o.request # r
        <4>1. \A o \in orders : o.request # r
          BY <2>4 DEF IInv, TransactionInv, HistoryInv
        <4> QED
          BY <1>2, <2>4, <4>1, OnlyCommitWrites DEF tables, Commit
      <3> QED
        BY <3>1, <3>2
    <2> QED
      BY <2>2, <2>3, <2>4
  <1> QED BY <1>1, <1>2

(* Whoever was refused for stock could not have been served, unless an      *)
(* admin set the stock since.                                               *)
THEOREM RefusalsJustified == Spec => []RefusalJustified
  <1>1. Init => RefusalJustified
    BY DEF Init, RefusalJustified, Requests
  <1>2. IInv /\ RefusalJustified /\ [Next]_vars => RefusalJustified'
    BY JustifiedStep
  <1> QED
    BY <1>1, <1>2, Invariance, PTL DEF Spec

(* A 201 means the order is in the tables as asked; a 404 or 409 means it   *)
(* is not.                                                                  *)
THEOREM AnswersTruthful == Spec => []OutcomeTruthful
  <1>1. Init => OutcomeTruthful
    BY DEF Init, OutcomeTruthful, Requests
  <1>2. IInv /\ OutcomeTruthful /\ [Next]_vars => OutcomeTruthful'
    BY TruthfulStep
  <1> QED
    BY <1>1, <1>2, Invariance, PTL DEF Spec

------------------------------------------------------------------------------
(* Units *)

(* The units of finitely many orders are a number.                          *)
LEMMA UnitsAreNat ==
    ASSUME IInv, IsFiniteSet(orders), NEW p \in ProductIds
    PROVE  UnitsOrdered(p) \in Nat
  <1> DEFINE f == [x \in orders |-> UnitsIn(x, p)]
  <1>1. (\A x \in orders : f[x] \in Nat) /\ DOMAIN f = orders
    BY DEF UnitsIn, IInv, TypeOK
  <1>2. SumFunctionOnSet(f, orders) \in Nat
    <2> HIDE DEF f
    <2> QED BY <1>1, SumNat
  <1> QED
    BY <1>1, <1>2 DEF UnitsOrdered, SumFunction

(* One more order adds its units.                                           *)
LEMMA UnitsOfOneMore ==
    ASSUME IInv, IsFiniteSet(orders), NEW o, o \notin orders, orders' = orders \cup {o},
           NEW p \in ProductIds, UnitsIn(o, p) \in Nat
    PROVE  UnitsOrdered(p)' = UnitsOrdered(p) + UnitsIn(o, p)
  <1> DEFINE f == [x \in orders |-> UnitsIn(x, p)]
             g == [x \in orders \cup {o} |-> UnitsIn(x, p)]
  <1>1. \A x \in orders : UnitsIn(x, p) \in Nat
    BY DEF UnitsIn, IInv, TypeOK
  <1>2. SumFunctionOnSet(g, orders \cup {o}) = g[o] + SumFunctionOnSet(g, orders)
    <2>1. \A x \in orders \cup {o} : g[x] \in Nat
      BY <1>1
    <2> HIDE DEF g
    <2> QED BY <2>1, SumAdd
  <1>3. SumFunctionOnSet(g, orders) = SumFunctionOnSet(f, orders)
    <2>1. \A x \in orders : g[x] = f[x]
      OBVIOUS
    <2> HIDE DEF f, g
    <2> QED BY <2>1, SumCongruence
  <1>4. SumFunctionOnSet(f, orders) \in Nat
    <2>1. \A x \in orders : f[x] \in Nat
      BY <1>1
    <2> HIDE DEF f
    <2> QED BY <2>1, SumNat
  <1>5. UnitsOrdered(p) = SumFunctionOnSet(f, orders)
    BY DEF UnitsOrdered, SumFunction
  <1>6. UnitsOrdered(p)' = SumFunctionOnSet(g, orders \cup {o})
    <2>1. UnitsOrdered(p)' = SumFunction([x \in orders' |-> UnitsIn(x, p)])
      BY DEF UnitsOrdered, UnitsIn
    <2>2. UnitsOrdered(p)' = SumFunction(g)
      BY <2>1
    <2> QED BY <2>2 DEF SumFunction
  <1>7. g[o] = UnitsIn(o, p)
    OBVIOUS
  <1> HIDE DEF f, g
  <1> QED
    BY <1>2, <1>3, <1>4, <1>5, <1>6, <1>7

(* The sum says something only while it has finitely many orders.           *)
AccountInv == IsFiniteSet(orders) /\ StockAccounted

(* An order moves units from the shelf into the order, an edit that leaves  *)
(* the stock alone moves none, and nothing else touches either.             *)
LEMMA AccountedStep ==
    ASSUME IInv, AccountInv, [Next]_vars
    PROVE  AccountInv'
  <1> USE DEF AccountInv
  <1>1. CASE UNCHANGED vars
    BY <1>1 DEF vars, tables, call, StockAccounted, MayHaveSetStock, UnitsOrdered
  <1>2. CASE Next
    <2>1. \A p \in ProductIds : MayHaveSetStock(p) => MayHaveSetStock(p)'
      BY <1>2, AnswersAreFinal, CallsAreFixed DEF MayHaveSetStock, Requests
    <2>2. CASE UNCHANGED tables
      <3>1. product' = product /\ orders' = orders /\ \A p \in ProductIds : UnitsOrdered(p)' = UnitsOrdered(p)
        BY <2>2 DEF tables, UnitsOrdered
      <3> QED BY <2>1, <3>1 DEF StockAccounted
    <2>3. ASSUME NEW r \in OrderRequests, NEW acknowledged \in BOOLEAN, Commit(r, acknowledged)
          PROVE  IsFiniteSet(orders') /\ StockAccounted'
      <3> DEFINE o == [request |-> r,
                       totalAmount |-> totalAmount(Ledger!Priced(basket[r])),
                       items |-> Ledger!Priced(basket[r])]
      <3>1. orders' = orders \cup {o} /\ o \notin orders
        <4>1. \A x \in orders : x.request # r
          BY <2>3 DEF Commit, IInv, TransactionInv, HistoryInv
        <4> QED BY <2>3, <4>1, CommittedOrder
      <3>2. IsFiniteSet(orders')
        <4> HIDE DEF o
        <4> QED BY <3>1, FS_AddElement
      <3>3. \A p \in DOMAIN basket[r] : basket[r][p] \in Nat
        BY DEF IInv, TypeOK, IsBasket
      <3>4. \A p \in ProductIds :
               UnitsIn(o, p) = IF p \in DOMAIN basket[r] THEN basket[r][p] ELSE 0
        BY DEF UnitsIn, Ledger!Priced
      <3>5. \A p \in ProductIds : UnitsIn(o, p) \in Nat
        BY <3>3, <3>4
      <3> HIDE DEF o
      <3>6. \A p \in ProductIds : /\ UnitsOrdered(p)' = UnitsOrdered(p) + UnitsIn(o, p)
                                  /\ UnitsOrdered(p) \in Nat
        BY <3>1, <3>5, UnitsAreNat, UnitsOfOneMore
      <3>7. \A p \in ProductIds :
               product'[p].stockQuantity = product[p].stockQuantity - UnitsIn(o, p)
        BY <2>3, <3>3, <3>4, CommittedOrder DEF IInv, TypeOK, Row
      <3>8. \A p \in ProductIds : product[p].stockQuantity \in Nat
        BY DEF IInv, TypeOK, Row
      <3> QED
        BY <2>1, <3>2, <3>5, <3>6, <3>7, <3>8 DEF StockAccounted
    <2>4. ASSUME NEW r \in EditRequests, NEW acknowledged \in BOOLEAN, Commit(r, acknowledged)
          PROVE  IsFiniteSet(orders') /\ StockAccounted'
      <3>1. /\ product' = [product EXCEPT ![edit[r].id] = Edited(product[edit[r].id], edit[r])]
            /\ orders' = orders
        BY <2>4, CommittedEdit DEF Ledger!EditProduct
      <3>2. edit'[r] = edit[r] /\ pc'[r] = "answered"
        BY <2>4 DEF Commit, call, IInv, TypeOK, Requests
      <3>3. \A p \in ProductIds : p = edit[r].id /\ edit[r].stockQuantity # Undefined => MayHaveSetStock(p)'
        BY <3>2 DEF MayHaveSetStock
      <3>4. \A p \in ProductIds :
               p # edit[r].id \/ edit[r].stockQuantity = Undefined =>
                  product'[p].stockQuantity = product[p].stockQuantity
        BY <3>1 DEF Edited, Given, IInv, TypeOK
      <3>5. \A p \in ProductIds : UnitsOrdered(p)' = UnitsOrdered(p)
        BY <3>1 DEF UnitsOrdered
      <3> QED
        BY <2>1, <3>1, <3>3, <3>4, <3>5 DEF StockAccounted
    <2> QED
      BY <1>2, <2>2, <2>3, <2>4, OnlyCommitWrites DEF Requests
  <1> QED BY <1>1, <1>2

(* The accounts are balanced at the start, and by every step.               *)
LEMMA AccountInvariance == Spec => []AccountInv
  <1>1. Init => AccountInv
    <2> SUFFICES ASSUME Init PROVE AccountInv
      OBVIOUS
    <2>1. IsFiniteSet(orders)
      BY FS_EmptySet DEF Init
    <2>2. \A p \in ProductIds : UnitsOrdered(p) = 0
      <3>1. orders = {}
        BY DEF Init
      <3> QED BY <3>1, SumEmpty DEF UnitsOrdered, SumFunction
    <2>3. \A p \in ProductIds : product[p].stockQuantity = InitialProduct[p].stockQuantity
                                /\ InitialProduct[p].stockQuantity \in Nat
      BY InitialProductAssumption DEF Init, Row
    <2> QED BY <2>1, <2>2, <2>3 DEF AccountInv, StockAccounted
  <1>2. IInv /\ AccountInv /\ [Next]_vars => AccountInv'
    BY AccountedStep
  <1> QED
    BY <1>1, <1>2, Invariance, PTL DEF Spec

(* Whatever fails, is lost or crashes: unless an admin set the stock, units *)
(* on the shelf and units in orders add up to the units there were.         *)
THEOREM UnitsAccounted == Spec => []StockAccounted
  <1>1. AccountInv => StockAccounted
    BY DEF AccountInv
  <1> QED
    BY <1>1, AccountInvariance, PTL

(* What was ordered of a product was there to be ordered.                   *)
NeverOversold ==
    \A p \in ProductIds : ~MayHaveSetStock(p) =>
        UnitsOrdered(p) <= InitialProduct[p].stockQuantity

(* However many orders race for it, no more units of a product are ordered  *)
(* than there were, unless an admin set the stock.                          *)
THEOREM NothingOversold == Spec => []NeverOversold
  <1>1. IInv /\ AccountInv => NeverOversold
    <2> SUFFICES ASSUME IInv, AccountInv, NEW p \in ProductIds, ~MayHaveSetStock(p)
                 PROVE  UnitsOrdered(p) <= InitialProduct[p].stockQuantity
      BY DEF NeverOversold
    <2>1. UnitsOrdered(p) \in Nat
      BY UnitsAreNat DEF AccountInv
    <2>2. product[p].stockQuantity \in Nat
      BY DEF IInv, TypeOK, Row
    <2>3. product[p].stockQuantity + UnitsOrdered(p) = InitialProduct[p].stockQuantity
      BY DEF AccountInv, StockAccounted
    <2> QED BY <2>1, <2>2, <2>3
  <1> QED
    BY <1>1, Invariance, AccountInvariance, PTL

------------------------------------------------------------------------------
(* No request goes on for ever *)

(* The most steps r can still take.                                         *)
StepsLeft(r) ==
    CASE pc[r] = "idle" -> 3 * ProductCount + 5
      [] pc[r] = "waiting" -> 3 * ProductCount + 4
      [] pc[r] = "locking" -> 2 * ProductCount + 3 + Cardinality(ToLock(r))
      [] pc[r] = "writing" ->
            2 + Cardinality(Targets(r) \ updated[r]) + Cardinality(ToWrite(r))
      [] pc[r] = "rollback" -> 1
      [] pc[r] = "answered" -> 0
TotalStepsLeft == SumFunction([r \in Requests |-> StepsLeft(r)])

(* No request goes round in circles: every step, a failure or a crash too,  *)
(* uses up one of finitely many.                                            *)
EveryStepCounts == [][TotalStepsLeft' < TotalStepsLeft]_vars

(* What is left to lock and to write is finite, and no more than there are  *)
(* products.                                                                *)
LEMMA TargetsAreFew ==
    ASSUME TypeOK, NEW r \in Requests, NEW S \in SUBSET Targets(r)
    PROVE  /\ IsFiniteSet(S)
           /\ Cardinality(S) \in Nat
           /\ Cardinality(S) <= ProductCount
  <1>1. IsFiniteSet(ProductIds) /\ Cardinality(ProductIds) = ProductCount
    BY ProductCountAssumption, FS_Interval DEF ProductIds
  <1>2. S \in SUBSET ProductIds
    BY TargetsAreProducts
  <1> QED
    BY <1>1, <1>2, FS_Subset, FS_CardinalityType

(* Every request has finitely many steps left.                              *)
StepsAreFinite == \A r \in Requests : StepsLeft(r) \in Nat
(* What is left to lock and to write is finite, and so are the steps.       *)
LEMMA StepsLeftIsNat == TypeOK => StepsAreFinite
  <1> SUFFICES ASSUME TypeOK, NEW r \in Requests
               PROVE  StepsLeft(r) \in Nat
    BY DEF StepsAreFinite
  <1>1. /\ ToLock(r) \in SUBSET Targets(r) /\ ToWrite(r) \in SUBSET Targets(r)
        /\ Targets(r) \ updated[r] \in SUBSET Targets(r)
    BY DEF ToLock, ToWrite
  <1>2. /\ Cardinality(ToLock(r)) \in Nat /\ Cardinality(ToWrite(r)) \in Nat
        /\ Cardinality(Targets(r) \ updated[r]) \in Nat
    BY <1>1, TargetsAreFew
  <1>3. pc[r] \in {"idle", "waiting", "locking", "writing", "rollback", "answered"}
    BY DEF TypeOK
  <1> QED
    BY <1>2, <1>3, ProductCountAssumption DEF StepsLeft

(* If no request gets more steps and one gets fewer, fewer are left.        *)
LEMMA FewerSteps ==
    ASSUME TypeOK, TypeOK', \A s \in Requests : StepsLeft(s)' <= StepsLeft(s),
           NEW r \in Requests, StepsLeft(r)' < StepsLeft(r)
    PROVE  TotalStepsLeft' < TotalStepsLeft
  <1> DEFINE g == [s \in Requests |-> StepsLeft(s)]
             f == [s \in Requests |-> StepsLeft(s)']
  <1>1. \A s \in Requests : StepsLeft(s) \in Nat
    BY StepsLeftIsNat DEF StepsAreFinite
  <1>2. \A s \in Requests : StepsLeft(s)' \in Nat
    <2>1. StepsAreFinite'
      BY StepsLeftIsNat, PTL
    <2> QED BY <2>1 DEF StepsAreFinite
  <1>3. /\ IsFiniteSet(Requests)
        /\ \A s \in Requests : f[s] \in Nat /\ g[s] \in Nat /\ f[s] <= g[s]
        /\ f[r] < g[r]
    BY <1>1, <1>2, RequestsAssumption
  <1>4. TotalStepsLeft = SumFunctionOnSet(g, Requests)
    BY DEF TotalStepsLeft, SumFunction
  <1>5. TotalStepsLeft' = SumFunctionOnSet(f, Requests)
    <2>1. TotalStepsLeft' = SumFunction(f)
      BY DEF TotalStepsLeft
    <2> QED BY <2>1 DEF SumFunction
  <1> HIDE DEF f, g
  <1> QED
    BY <1>3, <1>4, <1>5, SumLess

(* Nothing but r's own state changes.                                       *)
OthersStay(r) ==
    \A s \in Requests \ {r} :
        /\ pc'[s] = pc[s] /\ lockedProducts'[s] = lockedProducts[s]
        /\ updated'[s] = updated[s] /\ inserted'[s] = inserted[s]
        /\ Targets(s)' = Targets(s)

(* A step of one request that uses up one of its own uses up one of all.    *)
LEMMA OneStepCounts ==
    ASSUME TypeOK, TypeOK', NEW r \in Requests, OthersStay(r), StepsLeft(r)' < StepsLeft(r)
    PROVE  TotalStepsLeft' < TotalStepsLeft
  <1>1. \A s \in Requests : StepsLeft(s) \in Nat
    BY StepsLeftIsNat DEF StepsAreFinite
  <1>2. \A s \in Requests \ {r} : StepsLeft(s)' = StepsLeft(s)
    BY DEF OthersStay, StepsLeft, ToLock, ToWrite
  <1>3. StepsLeft(r)' \in Nat
    <2>1. StepsAreFinite'
      BY StepsLeftIsNat, PTL
    <2> QED BY <2>1 DEF StepsAreFinite
  <1> QED
    BY <1>1, <1>2, <1>3, FewerSteps

(* The steps left by phase, as numbers.                                     *)
LEMMA StepsByPhase ==
    ASSUME TypeOK, NEW r \in Requests
    PROVE  /\ pc[r] = "idle" => StepsLeft(r) = 3 * ProductCount + 5
           /\ pc[r] = "waiting" => StepsLeft(r) = 3 * ProductCount + 4
           /\ pc[r] = "locking" => /\ StepsLeft(r) = 2 * ProductCount + 3 + Cardinality(ToLock(r))
                                   /\ StepsLeft(r) >= 2 * ProductCount + 3
           /\ pc[r] = "writing" =>
                 /\ StepsLeft(r) = 2 + Cardinality(Targets(r) \ updated[r]) + Cardinality(ToWrite(r))
                 /\ StepsLeft(r) >= 2
           /\ pc[r] = "rollback" => StepsLeft(r) = 1
           /\ pc[r] = "answered" => StepsLeft(r) = 0
           /\ Cardinality(ToLock(r)) \in 0..ProductCount /\ IsFiniteSet(ToLock(r))
           /\ Cardinality(ToWrite(r)) \in 0..ProductCount /\ IsFiniteSet(ToWrite(r))
           /\ Cardinality(Targets(r) \ updated[r]) \in 0..ProductCount
           /\ IsFiniteSet(Targets(r) \ updated[r])
  <1>1. /\ ToLock(r) \in SUBSET Targets(r) /\ ToWrite(r) \in SUBSET Targets(r)
        /\ Targets(r) \ updated[r] \in SUBSET Targets(r)
    BY DEF ToLock, ToWrite
  <1>2. \A S \in SUBSET Targets(r) : IsFiniteSet(S) /\ Cardinality(S) \in 0..ProductCount
    BY TargetsAreFew, ProductCountAssumption
  <1> QED
    BY <1>1, <1>2, ProductCountAssumption DEF StepsLeft

(* Every step of one request uses up one of its own.                        *)
LEMMA EveryActionCounts ==
    ASSUME IInv, TypeOK', NEW r \in Requests,
           \/ r \in OrderRequests /\ \E items \in ItemLists : CallOrder(r, items)
           \/ r \in EditRequests /\ CallEdit(r)
           \/ Step(r) \/ BeginFails(r) \/ StatementFails(r) \/ Commit(r, FALSE)
    PROVE  OthersStay(r) /\ StepsLeft(r)' < StepsLeft(r)
  <1> DEFINE n == Cardinality(ToLock(r))
             u == Cardinality(Targets(r) \ updated[r])
             w == Cardinality(ToWrite(r))
  <1>0. TypeOK /\ ProductCount \in Nat
    BY ProductCountAssumption DEF IInv
  <1>a. /\ n \in 0..ProductCount /\ IsFiniteSet(ToLock(r))
        /\ w \in 0..ProductCount /\ IsFiniteSet(ToWrite(r))
        /\ u \in 0..ProductCount /\ IsFiniteSet(Targets(r) \ updated[r])
    BY <1>0, StepsByPhase
  <1>b. /\ pc[r] = "waiting" => StepsLeft(r) = 3 * ProductCount + 4
        /\ pc[r] = "locking" => StepsLeft(r) = 2 * ProductCount + 3 + n
        /\ pc[r] = "writing" => StepsLeft(r) = 2 + u + w
        /\ pc[r] = "rollback" => StepsLeft(r) = 1
    BY <1>0, StepsByPhase
  <1>1. ASSUME NEW o \in OrderRequests, o = r, NEW items \in ItemLists, CallOrder(o, items)
        PROVE  OthersStay(r) /\ StepsLeft(r)' < StepsLeft(r)
    <2>1. pc[r] = "idle" /\ pc'[r] = "waiting"
      BY <1>0, <1>1 DEF CallOrder, TypeOK
    <2>2. StepsLeft(r)' = 3 * ProductCount + 4
      BY <2>1 DEF StepsLeft
    <2>3. StepsLeft(r) = 3 * ProductCount + 5
      BY <2>1 DEF StepsLeft
    <2>4. OthersStay(r)
      BY <1>0, <1>1 DEF CallOrder, OthersStay, Targets, tx, TypeOK
    <2> QED BY <1>0, <2>2, <2>3, <2>4
  <1>2. ASSUME r \in EditRequests, CallEdit(r)
        PROVE  OthersStay(r) /\ StepsLeft(r)' < StepsLeft(r)
    <2>1. pc[r] = "idle" /\ pc'[r] = "waiting"
      BY <1>0, <1>2 DEF CallEdit, TypeOK
    <2>2. StepsLeft(r)' = 3 * ProductCount + 4
      BY <2>1 DEF StepsLeft
    <2>3. StepsLeft(r) = 3 * ProductCount + 5
      BY <2>1 DEF StepsLeft
    <2>4. OthersStay(r)
      BY <1>0, <1>2 DEF CallEdit, OthersStay, Targets, tx, call, TypeOK
    <2> QED BY <1>0, <2>2, <2>3, <2>4
  <1>3. ASSUME BeginTransaction(r)
        PROVE  OthersStay(r) /\ StepsLeft(r)' < StepsLeft(r)
    <2>1. pc[r] = "waiting" /\ pc'[r] = "locking" /\ ToLock(r)' = ToLock(r)
      BY <1>0, <1>3 DEF BeginTransaction, TypeOK, ToLock, Targets, tx, call
    <2>2. StepsLeft(r)' = 2 * ProductCount + 3 + Cardinality(ToLock(r))
      BY <2>1 DEF StepsLeft
    <2>3. OthersStay(r)
      BY <1>0, <1>3 DEF BeginTransaction, OthersStay, Targets, tx, call, TypeOK
    <2> QED BY <1>0, <1>a, <1>b, <2>1, <2>2, <2>3
  <1>4. ASSUME NEW p \in ProductIds, LockProduct(r, p)
        PROVE  OthersStay(r) /\ StepsLeft(r)' < StepsLeft(r)
    <2>1. pc[r] = "locking" /\ pc' = pc /\ p \in ToLock(r) /\ UNCHANGED <<basket, edit, updated, inserted>>
      BY <1>4 DEF LockProduct, Lock, IsNext, call
    <2>2. ToLock(r)' = ToLock(r) \ {p}
      BY <1>0, <1>4, <2>1 DEF LockProduct, AddRow, ToLock, Targets, TypeOK
    <2>3. Cardinality(ToLock(r) \ {p}) = Cardinality(ToLock(r)) - 1
      BY <1>0, <2>1, <1>a, FS_RemoveElement
    <2>4. StepsLeft(r)' = 2 * ProductCount + 3 + Cardinality(ToLock(r) \ {p})
      BY <2>1, <2>2 DEF StepsLeft
    <2>5. OthersStay(r)
      BY <1>0, <1>4, <2>1 DEF LockProduct, OthersStay, Targets, TypeOK
    <2> QED BY <1>0, <1>a, <1>b, <2>1, <2>3, <2>4, <2>5
  <1>5. ASSUME BeginFails(r) \/ StatementFails(r) \/ Rollback(r)
               \/ (\E p \in ProductIds : RefuseNotFound(r, p) \/ RefuseShort(r, p))
               \/ (\E acknowledged \in BOOLEAN : Commit(r, acknowledged))
        PROVE  OthersStay(r) /\ StepsLeft(r)' < StepsLeft(r)
    <2>1. \/ pc[r] = "waiting" /\ pc'[r] = "answered"
          \/ pc[r] \in {"locking", "writing"} /\ pc'[r] = "rollback"
          \/ pc[r] = "rollback" /\ pc'[r] = "answered"
          \/ pc[r] = "writing" /\ pc'[r] = "answered"
      BY <1>0, <1>5 DEF BeginFails, StatementFails, Rollback, RefuseNotFound, RefuseShort, Lock,
         Throw, Commit, TypeOK
    <2>2. /\ pc'[r] = "answered" => StepsLeft(r)' = 0
          /\ pc'[r] = "rollback" => StepsLeft(r)' = 1
      BY DEF StepsLeft
    <2>3. OthersStay(r)
      <3>1. UNCHANGED <<basket, edit>>
        BY <1>5 DEF BeginFails, StatementFails, Rollback, RefuseNotFound, RefuseShort, Commit,
           tx, call
      <3>2. \A s \in Requests : Targets(s)' = Targets(s)
        BY <3>1 DEF Targets
      <3>3. CASE Rollback(r) \/ \E acknowledged \in BOOLEAN : Commit(r, acknowledged)
        BY <1>0, <3>2, <3>3 DEF Rollback, Commit, ForgetTx, OthersStay, TypeOK
      <3>4. CASE BeginFails(r) \/ StatementFails(r)
                 \/ \E p \in ProductIds : RefuseNotFound(r, p) \/ RefuseShort(r, p)
        BY <1>0, <3>2, <3>4 DEF BeginFails, StatementFails, RefuseNotFound, RefuseShort, Throw,
           OthersStay, tx, TypeOK
      <3> QED BY <1>5, <3>3, <3>4
    <2> QED BY <1>0, <1>a, <1>b, <2>1, <2>2, <2>3
  <1>6. ASSUME (r \in OrderRequests /\ InsertOrder(r)) \/ (r \in EditRequests /\ SaveEdit(r))
        PROVE  OthersStay(r) /\ StepsLeft(r)' < StepsLeft(r)
    <2>1. pc[r] = "locking" /\ pc'[r] \in {"writing", "rollback"}
      BY <1>0, <1>6 DEF InsertOrder, SaveEdit, Throw, TypeOK
    <2> DEFINE uu == Cardinality(Targets(r)' \ updated'[r])
               ww == Cardinality(ToWrite(r)')
    <2>2. StepsLeft(r)' <= 2 * ProductCount + 2
      <3>1. /\ uu \in 0..ProductCount
            /\ ww \in 0..ProductCount
        <4>1. ToWrite(r)' \in SUBSET Targets(r) /\ Targets(r)' \ updated'[r] \in SUBSET Targets(r)
          BY <1>0, <1>6 DEF InsertOrder, SaveEdit, ToWrite, Targets, call
        <4>2. \A S \in SUBSET Targets(r) : Cardinality(S) \in 0..ProductCount
          BY <1>0, TargetsAreFew
        <4> QED BY <4>1, <4>2
      <3>2. CASE pc'[r] = "writing"
        <4>1. StepsLeft(r)' = 2 + uu + ww
          BY <3>2 DEF StepsLeft
        <4> HIDE DEF uu, ww
        <4> QED BY <1>0, <3>1, <4>1
      <3>3. CASE pc'[r] = "rollback"
        <4>1. StepsLeft(r)' = 1
          BY <3>3 DEF StepsLeft
        <4> QED BY <1>0, <4>1
      <3> QED BY <2>1, <3>2, <3>3
    <2>3. OthersStay(r)
      <3>1. /\ UNCHANGED <<basket, edit, lockedProducts, inserted>>
            /\ \A q \in Requests \ {r} : pc'[q] = pc[q] /\ updated'[q] = updated[q]
        BY <1>0, <1>6 DEF InsertOrder, SaveEdit, Throw, call, TypeOK
      <3> QED
        BY <3>1 DEF OthersStay, Targets
    <2>4. StepsLeft(r)' \in Nat
      <3>1. StepsAreFinite'
        BY StepsLeftIsNat, PTL
      <3> QED BY <3>1 DEF StepsAreFinite
    <2>5. StepsLeft(r) = 2 * ProductCount + 3 + n
      BY <1>0, <1>a, <1>b, <2>1
    <2> HIDE DEF n
    <2> QED BY <1>0, <1>a, <2>2, <2>3, <2>4, <2>5
  <1>7. ASSUME r \in OrderRequests, NEW p \in ProductIds, UpdateStock(r, p) \/ InsertItem(r, p)
        PROVE  OthersStay(r) /\ StepsLeft(r)' < StepsLeft(r)
    <2>1. pc[r] = "writing" /\ pc' = pc /\ UNCHANGED <<basket, edit, lockedProducts>>
      BY <1>7 DEF UpdateStock, InsertItem, call
    <2>2. OthersStay(r)
      BY <1>0, <1>7, <2>1 DEF UpdateStock, InsertItem, OthersStay, Targets, TypeOK
    <2>3. StepsLeft(r)' = 2 + Cardinality((Targets(r) \ updated[r])') + Cardinality(ToWrite(r)')
      BY <2>1 DEF StepsLeft
    <2>6. StepsLeft(r) = 2 + u + w
      BY <1>b, <2>1
    <2>4. CASE UpdateStock(r, p)
      <3>1. /\ (Targets(r) \ updated[r])' = (Targets(r) \ updated[r]) \ {p} /\ ToWrite(r)' = ToWrite(r)
            /\ p \in Targets(r) \ updated[r]
        BY <1>0, <2>1, <2>4 DEF UpdateStock, Targets, ToWrite, IsNext, TypeOK
      <3>2. Cardinality((Targets(r) \ updated[r]) \ {p}) = Cardinality(Targets(r) \ updated[r]) - 1
        BY <1>a, <3>1, FS_RemoveElement
      <3>3. StepsLeft(r)' = 2 + (u - 1) + w
        BY <2>3, <3>1, <3>2
      <3> HIDE DEF u, w
      <3> QED BY <1>a, <2>2, <2>6, <3>3
    <2>5. CASE InsertItem(r, p)
      <3>1. /\ (Targets(r) \ updated[r])' = (Targets(r) \ updated[r]) /\ ToWrite(r)' = ToWrite(r) \ {p}
            /\ p \in ToWrite(r)
        BY <1>0, <2>1, <2>5 DEF InsertItem, Targets, ToWrite, IsNext, TypeOK
      <3>2. Cardinality(ToWrite(r) \ {p}) = Cardinality(ToWrite(r)) - 1
        BY <1>a, <3>1, FS_RemoveElement
      <3>3. StepsLeft(r)' = 2 + u + (w - 1)
        BY <2>3, <3>1, <3>2
      <3> HIDE DEF u, w
      <3> QED BY <1>a, <2>2, <2>6, <3>3
    <2> QED BY <1>7, <2>4, <2>5
  <1>8. CASE Step(r)
    <2>1. CASE Commit(r, TRUE)
      BY <1>5, <2>1
    <2>2. CASE \E p \in ProductIds : LockProduct(r, p) \/ RefuseNotFound(r, p)
      BY <1>4, <1>5, <2>2
    <2>3. CASE r \in OrderRequests /\ OrderStep(r)
      <3>1. CASE InsertOrder(r)
        BY <1>6, <2>3, <3>1
      <3>2. ASSUME NEW p \in ProductIds, RefuseShort(r, p)
            PROVE  OthersStay(r) /\ StepsLeft(r)' < StepsLeft(r)
        BY <1>5, <3>2
      <3>3. ASSUME NEW p \in ProductIds, UpdateStock(r, p) \/ InsertItem(r, p)
            PROVE  OthersStay(r) /\ StepsLeft(r)' < StepsLeft(r)
        BY <1>7, <2>3, <3>3
      <3> QED BY <2>3, <3>1, <3>2, <3>3 DEF OrderStep
    <2>4. CASE r \in EditRequests /\ SaveEdit(r)
      BY <1>6, <2>4
    <2> QED
      BY <1>3, <1>5, <1>8, <2>1, <2>2, <2>3, <2>4 DEF Step
  <1>9. CASE Commit(r, FALSE)
    BY <1>5, <1>9
  <1> QED
    BY <1>1, <1>2, <1>5, <1>8, <1>9

(* A crash ends every request that is in flight, and there is one.          *)
LEMMA CrashCounts ==
    ASSUME IInv, TypeOK', Crash
    PROVE  TotalStepsLeft' < TotalStepsLeft
  <1>1. TypeOK
    BY DEF IInv
  <1>2. \A r \in Requests : InFlight(r) => StepsLeft(r)' = 0 /\ StepsLeft(r) >= 1
    <2> SUFFICES ASSUME NEW r \in Requests, InFlight(r)
                 PROVE  StepsLeft(r)' = 0 /\ StepsLeft(r) >= 1
      OBVIOUS
    <2>1. pc'[r] = "answered"
      BY DEF Crash
    <2>2. pc[r] \in {"waiting", "locking", "writing", "rollback"}
      BY <1>1 DEF TypeOK, InFlight
    <2>3. StepsLeft(r)' = 0
      BY <2>1 DEF StepsLeft
    <2>4. StepsLeft(r) \in Nat
      BY <1>1, StepsLeftIsNat DEF StepsAreFinite
    <2>5. StepsLeft(r) # 0
      <3>1. /\ Cardinality(ToLock(r)) \in Nat /\ Cardinality(ToWrite(r)) \in Nat
            /\ Cardinality(Targets(r) \ updated[r]) \in Nat
        BY <1>1, StepsByPhase
      <3> QED BY <2>2, <3>1, ProductCountAssumption DEF StepsLeft
    <2> QED BY <2>3, <2>4, <2>5
  <1>3. \A r \in Requests : ~InFlight(r) => StepsLeft(r)' = StepsLeft(r)
    BY <1>1 DEF Crash, InFlight, StepsLeft, TypeOK
  <1>4. \A r \in Requests : StepsLeft(r) \in Nat
    BY <1>1, StepsLeftIsNat DEF StepsAreFinite
  <1>5. \A r \in Requests : StepsLeft(r)' <= StepsLeft(r)
    BY <1>2, <1>3, <1>4
  <1>6. PICK r \in Requests : InFlight(r)
    BY DEF Crash
  <1>7. StepsLeft(r)' < StepsLeft(r)
    BY <1>2, <1>4, <1>6
  <1> QED BY <1>1, <1>5, <1>7, FewerSteps

(* So does every step of the system.                                        *)
LEMMA NextCounts ==
    ASSUME IInv, TypeOK', Next
    PROVE  TotalStepsLeft' < TotalStepsLeft
  <1>1. CASE Crash
    BY <1>1, CrashCounts
  <1>2. ASSUME NEW r \in Requests,
               \/ r \in OrderRequests /\ \E items \in ItemLists : CallOrder(r, items)
               \/ r \in EditRequests /\ CallEdit(r)
               \/ Step(r) \/ BeginFails(r) \/ StatementFails(r) \/ Commit(r, FALSE)
        PROVE  TotalStepsLeft' < TotalStepsLeft
    BY <1>2, EveryActionCounts, OneStepCounts DEF IInv
  <1> QED
    BY <1>1, <1>2 DEF Next, Requests

(* A request has at most three steps a product and five more: whatever      *)
(* fails, no request is retried, waits its turn twice or writes a row again *)
(* without end.  With NotAllBlocked: as long as some request is in flight,  *)
(* one that is not blocked can move, and they move finitely often.          *)
THEOREM StepsRunOut == Spec => EveryStepCounts
  <1>1. IInv /\ TypeOK' /\ [Next]_vars => [TotalStepsLeft' < TotalStepsLeft]_vars
    BY NextCounts
  <1>2. IInv => TypeOK
    BY DEF IInv
  <1> QED
    BY <1>1, <1>2, Invariance, PTL DEF Spec, EveryStepCounts
==============================================================================
