------------------------ MODULE ProductCatalog_proofs ------------------------
(***************************************************************************)
(* Proofs about ProductCatalog, for any number of creations and SKUs: the  *)
(* unique index never refuses, a deadlock has a winner, the answers are    *)
(* those of Catalog, and waiting ends.                                     *)
(***************************************************************************)
EXTENDS ProductCatalog, TLAPS

(* What a transaction has locked, by how far it is.                         *)
LocksInv ==
    \A c \in Creations :
        /\ pc[c] \in {"idle", "finding", "created", "answered"} => holds[c] = "nothing"
        /\ pc[c] = "inserting" => holds[c] = "gap"
        /\ pc[c] = "inserted" => holds[c] = "inserted"

(* An inserted row is valid and alone in its SKU; a committed one belongs   *)
(* to a creation of that SKU that is past its commit.                       *)
RowsInv ==
    /\ \A c \in Creations : holds[c] = "inserted" =>
          PassesValidation(c) /\ product[sku[c]] = NoProduct
    /\ \A c, d \in Creations :
          holds[c] = "inserted" /\ holds[d] = "inserted" /\ sku[c] = sku[d] => c = d
    /\ \A k \in Skus : product[k] \in Creations =>
          /\ sku[product[k]] = k
          /\ pc[product[k]] \in {"created", "throwing", "answered"}

(* What a creation answers, or is about to, is true of the products.        *)
OutcomeInv ==
    \A c \in Creations :
        /\ pc[c] \notin {"throwing", "answered"} => outcome[c] = "none"
        /\ outcome[c] = "CREATED" => pc[c] = "answered"
        /\ pc[c] = "created" \/ outcome[c] = "CREATED" => product[sku[c]] = c
        /\ outcome[c] = "SKU_ALREADY_EXISTS" => product[sku[c]] \notin {NoProduct, c}

IInv == TypeOK /\ LocksInv /\ RowsInv /\ OutcomeInv /\ UniqueIndexUnused /\ RivalWins

(* A gap lock covers its own SKU, whatever is in the index.                 *)
LEMMA CoversOwn ==
    ASSUME NEW c \in Creations, sku[c] \in Skus, holds[c] \in {"gap", "inserted"}
    PROVE  Covers(c, sku[c])
  <1>1. sku[c] \in Int
    BY SkusAssumption DEF Skus
  <1> QED
    BY <1>1 DEF Covers, Between, Skus

(* Nobody has called.                                                       *)
LEMMA InitIInv == Init => IInv
  BY ProductsAssumption, FaultsAssumption
     DEF Init, IInv, TypeOK, LocksInv, RowsInv, OutcomeInv, UniqueIndexUnused, Indexed,
         RivalWins

(* A call changes nothing but its own place.                                *)
LEMMA CallInv ==
    ASSUME IInv, NEW c \in Creations, Call(c)
    PROVE  IInv'
  <1> USE ProductsAssumption DEF Call, Go, request, IInv
  <1>1. TypeOK'
    BY DEF TypeOK, PassesValidation
  <1>2. LocksInv'
    BY DEF TypeOK, LocksInv
  <1>3. RowsInv'
    BY DEF TypeOK, RowsInv, LocksInv, PassesValidation
  <1>4. OutcomeInv'
    BY DEF TypeOK, OutcomeInv
  <1>5. UniqueIndexUnused'
    BY DEF TypeOK, UniqueIndexUnused, Indexed
  <1>6. RivalWins'
    BY DEF TypeOK, RivalWins, OnItsWay, PassesValidation
  <1> QED
    BY <1>1, <1>2, <1>3, <1>4, <1>5, <1>6

(* A lookup finds a committed row of another, or no row at all.             *)
LEMMA FindSkuInv ==
    ASSUME IInv, NEW c \in Creations, FindSku(c)
    PROVE  IInv'
  <1> USE ProductsAssumption DEF FindSku, Found, Throw, Go, Hold, request, IInv
  <1>1. TypeOK'
    BY DEF TypeOK, PassesValidation
  <1>2. LocksInv'
    BY DEF TypeOK, LocksInv
  <1>3. RowsInv'
    BY DEF TypeOK, RowsInv, LocksInv, PassesValidation
  <1>4. OutcomeInv'
    BY DEF TypeOK, OutcomeInv, RowsInv
  <1>5. UniqueIndexUnused'
    BY DEF TypeOK, UniqueIndexUnused, Indexed, RowLocked, LocksInv
  <1>6. RivalWins'
    BY DEF TypeOK, RivalWins, OnItsWay, OutcomeInv, PassesValidation
  <1> QED
    BY <1>1, <1>2, <1>3, <1>4, <1>5, <1>6

(* An INSERT goes into an SKU that no gap lock of another covers.           *)
LEMMA InsertInv ==
    ASSUME IInv, NEW c \in Creations, Insert(c)
    PROVE  IInv'
  <1> USE ProductsAssumption DEF Insert, InsertIf, Throw, Go, Hold, request, IInv
  <1>0. product[sku[c]] = NoProduct
    BY DEF UniqueIndexUnused, Indexed
  <1>1. TypeOK'
    BY DEF TypeOK, PassesValidation
  <1>2. LocksInv'
    BY DEF TypeOK, LocksInv
  <1>3. RowsInv'
    BY <1>0 DEF TypeOK, RowsInv, LocksInv, PassesValidation, UniqueIndexUnused, Indexed
  <1>4. OutcomeInv'
    BY DEF TypeOK, OutcomeInv
  <1>5. UniqueIndexUnused'
    <2>1. ASSUME NEW d \in Creations, d # c, pc[d] = "inserting", PassesValidation(c)
          PROVE  sku[c] # sku[d]
      <3>1. Covers(d, sku[d])
        BY <2>1, CoversOwn DEF TypeOK, LocksInv
      <3> QED
        BY <2>1, <3>1 DEF Waits
    <2>2. ASSUME NEW d \in Creations, pc'[d] = "inserting"
          PROVE  d # c /\ pc[d] = "inserting"
      BY <2>2 DEF TypeOK
    <2> QED
      BY <2>1, <2>2 DEF TypeOK, UniqueIndexUnused, Indexed
  <1>6. RivalWins'
    BY <1>0 DEF TypeOK, RivalWins, OnItsWay, PassesValidation, OutcomeInv
  <1> QED
    BY <1>1, <1>2, <1>3, <1>4, <1>5, <1>6

(* The victim of a deadlock leaves a rival that may go on.                  *)
LEMMA DeadlockInv ==
    ASSUME IInv, NEW c \in Creations, Deadlock(c)
    PROVE  IInv'
  <1> USE ProductsAssumption DEF Throw, Go, Hold, request, IInv
  <1>0. PICK d \in Creations : Waits(c, d) /\ Waits(d, c)
    BY DEF Deadlock
  <1>1. pc[c] = "inserting" /\ c # d /\ pc[d] = "inserting" /\ PassesValidation(d)
    BY <1>0 DEF Waits
  <1> USE <1>1 DEF Deadlock
  <1>2. TypeOK'
    BY DEF TypeOK, PassesValidation
  <1>3. LocksInv'
    BY DEF TypeOK, LocksInv
  <1>4. RowsInv'
    BY DEF TypeOK, RowsInv, LocksInv, PassesValidation
  <1>5. OutcomeInv'
    BY DEF TypeOK, OutcomeInv
  <1>6. UniqueIndexUnused'
    BY DEF TypeOK, UniqueIndexUnused, Indexed
  <1>7. RivalWins'
    <2>1. OnItsWay(d)' /\ PassesValidation(d)'
      BY DEF TypeOK, OnItsWay, PassesValidation
    <2> QED
      BY <2>1 DEF RivalWins
  <1> QED
    BY <1>2, <1>3, <1>4, <1>5, <1>6, <1>7

(* A commit puts the product where nobody else has or wants one.            *)
LEMMA CommitInv ==
    ASSUME IInv, NEW c \in Creations, NEW acknowledged \in BOOLEAN, Commit(c, acknowledged)
    PROVE  IInv'
  <1> USE ProductsAssumption, FaultsAssumption
      DEF Commit, Throw, Go, Hold, Fault, request, IInv
  <1>0. /\ holds[c] = "inserted" /\ PassesValidation(c)
        /\ sku[c] \in Skus /\ product[sku[c]] = NoProduct
        /\ \A d \in Creations : pc[d] = "inserting" => sku[d] # sku[c]
    BY DEF TypeOK, LocksInv, RowsInv, UniqueIndexUnused, Indexed
  <1>1. TypeOK'
    BY <1>0 DEF TypeOK, PassesValidation
  <1>2. LocksInv'
    BY DEF TypeOK, LocksInv
  <1>3. RowsInv'
    BY <1>0 DEF TypeOK, RowsInv, LocksInv, PassesValidation
  <1>4. OutcomeInv'
    BY <1>0 DEF TypeOK, OutcomeInv
  <1>5. UniqueIndexUnused'
    BY <1>0 DEF TypeOK, UniqueIndexUnused, Indexed
  <1>6. RivalWins'
    BY DEF TypeOK, RivalWins, OnItsWay, PassesValidation, OutcomeInv
  <1> QED
    BY <1>1, <1>2, <1>3, <1>4, <1>5, <1>6

(* A statement that fails is a fault.                                       *)
LEMMA StatementFailsInv ==
    ASSUME IInv, NEW c \in Creations, StatementFails(c)
    PROVE  IInv'
  <1> USE ProductsAssumption, FaultsAssumption
      DEF StatementFails, Throw, Go, Fault, request, IInv
  <1>1. TypeOK'
    BY DEF TypeOK, PassesValidation
  <1>2. LocksInv'
    BY DEF TypeOK, LocksInv
  <1>3. RowsInv'
    BY DEF TypeOK, RowsInv, LocksInv, PassesValidation
  <1>4. OutcomeInv'
    BY DEF TypeOK, OutcomeInv
  <1>5. UniqueIndexUnused'
    BY DEF TypeOK, UniqueIndexUnused, Indexed
  <1>6. RivalWins'
    BY DEF TypeOK, RivalWins
  <1> QED
    BY <1>1, <1>2, <1>3, <1>4, <1>5, <1>6

(* A rollback gives the locks back.                                         *)
LEMMA RollbackInv ==
    ASSUME IInv, NEW c \in Creations, Rollback(c)
    PROVE  IInv'
  <1> USE ProductsAssumption DEF Rollback, Go, Hold, request, IInv
  <1>1. TypeOK'
    BY DEF TypeOK, PassesValidation
  <1>2. LocksInv'
    BY DEF TypeOK, LocksInv
  <1>3. RowsInv'
    BY DEF TypeOK, RowsInv, LocksInv, PassesValidation
  <1>4. OutcomeInv'
    BY DEF TypeOK, OutcomeInv
  <1>5. UniqueIndexUnused'
    BY DEF TypeOK, UniqueIndexUnused, Indexed
  <1>6. RivalWins'
    BY DEF TypeOK, RivalWins, OnItsWay, PassesValidation
  <1> QED
    BY <1>1, <1>2, <1>3, <1>4, <1>5, <1>6

(* A 201 is about a product that is there.                                  *)
LEMMA RespondInv ==
    ASSUME IInv, NEW c \in Creations, NEW invalidated \in BOOLEAN, Respond(c, invalidated)
    PROVE  IInv'
  <1> USE ProductsAssumption, FaultsAssumption DEF Respond, Go, Fault, request, IInv
  <1>1. TypeOK'
    BY DEF TypeOK, PassesValidation
  <1>2. LocksInv'
    BY DEF TypeOK, LocksInv
  <1>3. RowsInv'
    BY DEF TypeOK, RowsInv, LocksInv, PassesValidation
  <1>4. OutcomeInv'
    BY DEF TypeOK, OutcomeInv
  <1>5. UniqueIndexUnused'
    BY DEF TypeOK, UniqueIndexUnused, Indexed
  <1>6. RivalWins'
    BY DEF TypeOK, RivalWins, OnItsWay, PassesValidation
  <1> QED
    BY <1>1, <1>2, <1>3, <1>4, <1>5, <1>6

(* A crash rolls back all that is not committed.                            *)
LEMMA CrashInv ==
    ASSUME IInv, Crash
    PROVE  IInv'
  <1> USE ProductsAssumption, FaultsAssumption DEF Crash, Fault, request, IInv
  <1>1. TypeOK'
    BY DEF TypeOK, PassesValidation
  <1>2. LocksInv'
    BY DEF TypeOK, LocksInv
  <1>3. RowsInv'
    BY DEF TypeOK, RowsInv
  <1>4. OutcomeInv'
    BY DEF TypeOK, OutcomeInv
  <1>5. UniqueIndexUnused'
    BY DEF TypeOK, UniqueIndexUnused
  <1>6. RivalWins'
    BY DEF TypeOK, RivalWins
  <1> QED
    BY <1>1, <1>2, <1>3, <1>4, <1>5, <1>6

(* Nothing happens.                                                         *)
LEMMA StutterInv ==
    ASSUME IInv, UNCHANGED vars
    PROVE  IInv'
  BY DEF vars, request, IInv, TypeOK, LocksInv, RowsInv, OutcomeInv, UniqueIndexUnused,
         Indexed, RivalWins, OnItsWay, PassesValidation

(* The invariant is inductive.                                              *)
LEMMA NextIInv == IInv /\ [Next]_vars => IInv'
  BY CallInv, FindSkuInv, InsertInv, DeadlockInv, CommitInv, StatementFailsInv, RollbackInv,
     RespondInv, CrashInv, StutterInv
     DEF Next, Step

------------------------------------------------------------------------------
(* Locks, rows and outcomes fit together throughout.                        *)
THEOREM Invariance == Spec => []IInv
  BY InitIInv, NextIInv, PTL DEF Spec

(* Creations stay within their types, and no product costs 0.00.            *)
THEOREM TypeCorrect == Spec => []TypeOK
  <1>1. IInv => TypeOK
    BY DEF IInv
  <1> QED
    BY <1>1, Invariance, PTL

(* The lookup FOR UPDATE alone keeps SKUs unique.                           *)
THEOREM LookupSuffices == Spec => []UniqueIndexUnused
  <1>1. IInv => UniqueIndexUnused
    BY DEF IInv
  <1> QED
    BY <1>1, Invariance, PTL

(* A deadlock never fails every creation, however many wait for each other. *)
THEOREM DeadlockHasWinner == Spec => []RivalWins
  <1>1. IInv => RivalWins
    BY DEF IInv
  <1> QED
    BY <1>1, Invariance, PTL

------------------------------------------------------------------------------
(* Waiting *)

(* If the one c waits for waits for anyone, it waits for c: neither SKU is  *)
(* in the index, so each gap covers the other's SKU.  A circle of more than *)
(* two holds a circle of two, which is what InnoDB has to find.             *)
LEMMA CirclesArePairs ==
    ASSUME IInv, NEW c \in Creations, NEW d \in Creations, NEW e \in Creations,
           Waits(c, d), Waits(d, e)
    PROVE  Waits(d, c)
  <1>1. sku[c] \in Int /\ sku[d] \in Int /\ Skus \subseteq Int
    BY SkusAssumption DEF IInv, TypeOK, Skus
  <1>2. c # d /\ pc[d] = "inserting" /\ PassesValidation(d)
    BY DEF Waits
  <1>3. pc[c] = "inserting" /\ holds[c] = "gap"
    BY DEF Waits, IInv, LocksInv
  <1>4. ~Indexed(sku[c]) /\ ~Indexed(sku[d])
    BY <1>2, <1>3 DEF IInv, UniqueIndexUnused
  <1>5. \A j \in Skus : Between(j, sku[c], sku[d]) => ~Indexed(j)
    BY DEF Waits, Covers
  <1>6. \A j \in Skus : Between(j, sku[d], sku[c]) => j = sku[d] \/ Between(j, sku[c], sku[d])
    BY <1>1 DEF Between
  <1>7. \A j \in Skus : Between(j, sku[d], sku[c]) => ~Indexed(j)
    BY <1>4, <1>5, <1>6
  <1> QED
    BY <1>2, <1>3, <1>7 DEF Waits, Covers

(* The rows and gaps others wait for belong to creations that do not wait,  *)
(* or wait in a circle.                                                     *)
LEMMA SomebodyGoesOn ==
    ASSUME IInv
    PROVE  NeverAllBlocked
  <1> SUFFICES ASSUME NEW c \in Creations, pc[c] \notin {"idle", "answered"}, Blocked(c)
               PROVE  \E d \in Creations : pc[d] \notin {"idle", "answered"} /\ ~Blocked(d)
    BY DEF NeverAllBlocked
  <1>1. CASE pc[c] = "finding" /\ RowLocked(c)
    <2>1. PICK d \in Creations : holds[d] \in {"row", "inserted"}
      BY <1>1 DEF RowLocked
    <2>2. pc[d] \in {"inserted", "throwing"}
      BY <2>1 DEF IInv, TypeOK, LocksInv
    <2> QED
      BY <2>2 DEF Blocked, Waits
  <1>2. CASE \E d \in Creations : Waits(c, d)
    <2>1. PICK d \in Creations : Waits(c, d)
      BY <1>2
    <2>2. ~Waits(d, c)
      BY <2>1 DEF Blocked, Waits
    <2>3. \A e \in Creations : ~Waits(d, e)
      BY <2>1, <2>2, CirclesArePairs
    <2>4. pc[d] \in {"inserting", "inserted", "throwing"}
      BY <2>1 DEF Waits, Covers, IInv, TypeOK, LocksInv
    <2> QED
      BY <2>3, <2>4 DEF Blocked
  <1> QED
    BY <1>1, <1>2 DEF Blocked

(* Creations never all wait: the deadlock InnoDB detects is the only one    *)
(* there is.                                                                *)
THEOREM NotAllBlocked == Spec => []NeverAllBlocked
  <1>1. IInv => NeverAllBlocked
    BY SomebodyGoesOn
  <1> QED
    BY <1>1, Invariance, PTL

------------------------------------------------------------------------------
(* The refinement *)

(* A step that answers nobody and commits nothing is none of Catalog's.     *)
LEMMA StutterOfPromise ==
    ASSUME UNCHANGED <<product, sku>>, \A c \in Creations : Answered(c)' = Answered(c)
    PROVE  UNCHANGED Promise!vars
  BY DEF Promise!vars

(* Every step of the transactions is one of Catalog or none.                *)
LEMMA StepRefines ==
    ASSUME IInv, [Next]_vars
    PROVE  [Promise!Next]_(Promise!vars)
  <1> USE DEF IInv, Go, Hold, Throw, request
  <1>1. ASSUME NEW c \in Creations, NEW acknowledged \in BOOLEAN, Commit(c, acknowledged)
        PROVE  Promise!Create(c)
    <2>1. \A d \in Creations : Answered(d)' = Answered(d)
      BY <1>1 DEF Commit, Answered, TypeOK
    <2>2. Answered(c) = "none" /\ product[sku[c]] = NoProduct
      BY <1>1 DEF Commit, Answered, LocksInv, RowsInv
    <2> QED
      BY <1>1, <2>1, <2>2 DEF Commit, Promise!Create
  <1>2. ASSUME NEW c \in Creations, Rollback(c)
        PROVE  Promise!AnswerExists(c) \/ UNCHANGED Promise!vars
    <2>1. \A d \in Creations \ {c} : Answered(d)' = Answered(d)
      BY <1>2 DEF Rollback, Answered, TypeOK
    <2>2. Answered(c) = "none"
      BY <1>2 DEF Rollback, Answered
    <2>3. CASE outcome[c] = "SKU_ALREADY_EXISTS"
      <3>1. Answered(c)' = "exists" /\ product[sku[c]] \notin {NoProduct, c}
        BY <1>2, <2>3 DEF Rollback, Answered, OutcomeInv, TypeOK
      <3>2. [d \in Creations |-> Answered(d)]' =
               [[d \in Creations |-> Answered(d)] EXCEPT ![c] = "exists"]
        BY <2>1, <3>1
      <3> QED
        BY <1>2, <2>2, <3>1, <3>2 DEF Rollback, Promise!AnswerExists, Promise!Answer
    <2>4. CASE outcome[c] # "SKU_ALREADY_EXISTS"
      <3>1. Answered(c)' = "none"
        BY <1>2, <2>4 DEF Rollback, Answered, OutcomeInv, TypeOK
      <3> QED
        BY <1>2, <2>1, <2>2, <3>1, StutterOfPromise DEF Rollback
    <2> QED
      BY <2>3, <2>4
  <1>3. ASSUME NEW c \in Creations, NEW invalidated \in BOOLEAN, Respond(c, invalidated)
        PROVE  Promise!AnswerCreated(c) \/ UNCHANGED Promise!vars
    <2>1. \A d \in Creations \ {c} : Answered(d)' = Answered(d)
      BY <1>3 DEF Respond, Answered, TypeOK
    <2>2. Answered(c) = "none" /\ product[sku[c]] = c
      BY <1>3 DEF Respond, Answered, OutcomeInv
    <2>3. CASE invalidated
      <3>1. Answered(c)' = "created"
        BY <1>3, <2>3 DEF Respond, Answered, TypeOK
      <3>2. [d \in Creations |-> Answered(d)]' =
               [[d \in Creations |-> Answered(d)] EXCEPT ![c] = "created"]
        BY <2>1, <3>1
      <3> QED
        BY <1>3, <2>2, <3>2 DEF Respond, Promise!AnswerCreated, Promise!Answer
    <2>4. CASE ~invalidated
      <3>1. Answered(c)' = "none"
        BY <1>3, <2>4 DEF Respond, Answered, TypeOK
      <3> QED
        BY <1>3, <2>1, <2>2, <3>1, StutterOfPromise DEF Respond
    <2> QED
      BY <2>3, <2>4
  <1>4. ASSUME NEW c \in Creations,
               Call(c) \/ FindSku(c) \/ Insert(c) \/ Deadlock(c) \/ StatementFails(c)
        PROVE  UNCHANGED Promise!vars
    <2>1. \A d \in Creations : Answered(d)' = Answered(d)
      BY <1>4 DEF Call, FindSku, Found, Insert, InsertIf, Deadlock, StatementFails, Waits,
                  Answered, TypeOK
    <2> QED
      BY <1>4, <2>1, StutterOfPromise
         DEF Call, FindSku, Found, Insert, InsertIf, Deadlock, StatementFails
  <1>5. ASSUME Crash
        PROVE  UNCHANGED Promise!vars
    <2>1. \A d \in Creations : Answered(d)' = Answered(d)
      BY <1>5 DEF Crash, Answered, TypeOK
    <2> QED
      BY <1>5, <2>1, StutterOfPromise DEF Crash
  <1>6. ASSUME UNCHANGED vars
        PROVE  UNCHANGED Promise!vars
    BY <1>6 DEF vars, Answered, Promise!vars
  <1> QED
    BY <1>1, <1>2, <1>3, <1>4, <1>5, <1>6 DEF Next, Step, Promise!Next

(* 201 and 409 are truthful: the transactions implement Catalog.            *)
THEOREM CatalogImplemented == Spec => ImplementsCatalog
  <1>1. Init => Promise!Init
    BY DEF Init, Promise!Init, Answered
  <1>2. IInv /\ [Next]_vars => [Promise!Next]_(Promise!vars)
    BY StepRefines
  <1> QED
    BY <1>1, <1>2, Invariance, PTL DEF Spec, ImplementsCatalog, Promise!Spec

------------------------------------------------------------------------------
(* Why waiting ends *)

StepsLeft(c) ==
    CASE pc[c] = "idle" -> 5
      [] pc[c] = "finding" -> 4
      [] pc[c] = "inserting" -> 3
      [] pc[c] = "inserted" -> 2
      [] pc[c] \in {"created", "throwing"} -> 1
      [] OTHER -> 0

EveryStepCounts ==
    [][/\ \A c \in Creations : StepsLeft(c)' <= StepsLeft(c)
       /\ faults' > faults \/ \E c \in Creations : StepsLeft(c)' < StepsLeft(c)]_vars

(* No step takes a creation back: none is retried, by the code or after a   *)
(* deadlock.  With NotAllBlocked, waiting ends after finitely many steps.   *)
THEOREM StepsRunOut == Spec => EveryStepCounts
  <1> DEFINE Counts ==
               /\ \A c \in Creations : StepsLeft(c)' <= StepsLeft(c)
               /\ faults' > faults \/ \E c \in Creations : StepsLeft(c)' < StepsLeft(c)
  <1>1. IInv /\ [Next]_vars => [Counts]_vars
    <2> SUFFICES ASSUME IInv, Next PROVE Counts
      OBVIOUS
    <2>0. /\ pc \in [Creations -> {"idle", "finding", "inserting", "inserted", "created",
                                  "throwing", "answered"}]
          /\ faults \in Nat
      BY FaultsAssumption DEF IInv, TypeOK
    <2>1. ASSUME NEW c \in Creations, StepsLeft(c)' < StepsLeft(c),
                 \A d \in Creations \ {c} : pc'[d] = pc[d]
          PROVE  Counts
      <3>1. \A d \in Creations \ {c} : StepsLeft(d)' = StepsLeft(d)
        BY <2>1 DEF StepsLeft
      <3>2. \A d \in Creations : StepsLeft(d) \in Nat /\ StepsLeft(d)' \in Nat
        BY DEF StepsLeft
      <3> QED
        BY <2>1, <3>1, <3>2
    <2>2. ASSUME NEW c \in Creations,
                 \/ Call(c) \/ Step(c) \/ Deadlock(c)
                 \/ StatementFails(c) \/ Commit(c, FALSE) \/ Respond(c, FALSE)
          PROVE  Counts
      <3>1. PICK to : pc' = [pc EXCEPT ![c] = to]
        BY <2>2 DEF Call, Step, FindSku, Found, Insert, InsertIf, Rollback, Commit, Respond,
               Deadlock, StatementFails, Go, Throw
      <3>2. \/ pc[c] = "idle" /\ to = "finding"
            \/ pc[c] = "finding" /\ to \in {"inserting", "throwing"}
            \/ pc[c] = "inserting" /\ to \in {"inserted", "throwing"}
            \/ pc[c] = "inserted" /\ to \in {"created", "throwing"}
            \/ pc[c] \in {"created", "throwing"} /\ to = "answered"
        BY <2>0, <2>2, <3>1 DEF Call, Step, FindSku, Found, Insert, InsertIf, Rollback, Commit,
               Respond, Deadlock, StatementFails, Go, Throw, Waits
      <3>3. pc'[c] = to /\ \A d \in Creations \ {c} : pc'[d] = pc[d]
        BY <2>0, <3>1
      <3>4. StepsLeft(c)' < StepsLeft(c)
        BY <3>2, <3>3 DEF StepsLeft
      <3> QED
        BY <2>1, <3>3, <3>4
    <2>3. CASE Crash
      <3>1. faults' > faults /\ \A c \in Creations : pc'[c] \in {pc[c], "answered"}
        BY <2>0, <2>3 DEF Crash, Fault
      <3>2. \A c \in Creations : StepsLeft(c)' <= StepsLeft(c)
        BY <2>0, <3>1 DEF StepsLeft
      <3> QED
        BY <3>1, <3>2
    <2> QED
      BY <2>2, <2>3 DEF Next
  <1> QED
    BY <1>1, Invariance, PTL DEF Spec, EveryStepCounts

==============================================================================
