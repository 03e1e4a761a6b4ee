---------------------------- MODULE ProductCatalog ----------------------------
(***************************************************************************)
(* createProduct: a transaction that looks its SKU up FOR UPDATE and       *)
(* inserts the product when there is none, on InnoDB at REPEATABLE READ.   *)
(* The lookup locks the row it finds; when it finds none, it locks the gap *)
(* of the index around the SKU.  Gap locks exclude no gap lock, only the   *)
(* INSERTs of others, of any SKU in the gap; so two creations that both    *)
(* found nothing wait for each other, and InnoDB rolls one of them back.   *)
(***************************************************************************)
EXTENDS Integers

CONSTANTS
    Creations,      \* POST /products requests
    LastSku,        \* number of SKUs, numbered in index order
    Prices,         \* prices the requests carry, in mills
    NoProduct,      \* an SKU without a product
    OldProduct,     \* one with a product of earlier
    MaxFaults       \* bound on failing statements and lost acknowledgements

Skus == 1..LastSku

ASSUME SkusAssumption == LastSku \in Nat
ASSUME PricesAssumption == Prices \subseteq Nat
ASSUME ProductsAssumption ==
    NoProduct # OldProduct /\ NoProduct \notin Creations /\ OldProduct \notin Creations
ASSUME FaultsAssumption == MaxFaults \in Nat

VARIABLES
    product,    \* committed: whose product has each SKU
    sku, price, \* what each request asks for
    pc,         \* how far it is
    outcome,    \* what it answers, or is about to
    holds,      \* what its transaction has locked: nothing, the row it found,
                \* the gap around its SKU, or also the row it inserted there
    faults      \* faults so far

request == <<sku, price>>
vars == <<product, request, pc, outcome, holds, faults>>

Init ==
    /\ product \in [Skus -> {NoProduct, OldProduct}]
    /\ sku \in [Creations -> Skus]
    /\ price \in [Creations -> Prices]
    /\ pc = [c \in Creations |-> "idle"]
    /\ outcome = [c \in Creations |-> "none"]
    /\ holds = [c \in Creations |-> "nothing"]
    /\ faults = 0

Fault == faults < MaxFaults /\ faults' = faults + 1

Go(c, to) == pc' = [pc EXCEPT ![c] = to]

\* An exception; the transaction, if there is one, is about to be rolled back.
Throw(c, error) == Go(c, "throwing") /\ outcome' = [outcome EXCEPT ![c] = error]

Hold(c, what) == holds' = [holds EXCEPT ![c] = what]

\* The model's validator on price.toFixed(2): at least 0.01.
PassesValidation(c) == (price[c] + 5) \div 10 >= 1

------------------------------------------------------------------------------
(* Locks *)

\* An SKU in the index: committed, or inserted by an open transaction.
Indexed(k) == product[k] # NoProduct \/ \E c \in Creations : holds[c] = "inserted" /\ sku[c] = k

Between(j, k, l) == (k <= j /\ j < l) \/ (l < j /\ j <= k)

\* Mutant of Covers: findOne without LOCK.UPDATE.
CoversNothing(c, k) == FALSE

\* The gap lock of c covers k: no SKU from k on in the index before c's own.
Covers(c, k) ==
    /\ holds[c] \in {"gap", "inserted"}
    /\ \A j \in Skus : Between(j, k, sku[c]) => ~Indexed(j)

\* c waits for d with the intention to insert into a gap that d has locked.
Waits(c, d) ==
    /\ c # d
    /\ pc[c] = "inserting" /\ PassesValidation(c)
    /\ Covers(d, sku[c])

\* The row of c's SKU is locked: inserted and not committed, or found by
\* another creation whose transaction is not over.
RowLocked(c) ==
    \E d \in Creations \ {c} : sku[d] = sku[c] /\ holds[d] \in {"row", "inserted"}

------------------------------------------------------------------------------
(* createProduct *)

Call(c) ==
    /\ pc[c] = "idle"
    /\ Go(c, "finding")
    /\ UNCHANGED <<product, request, outcome, holds, faults>>

\* Product.findOne FOR UPDATE, and the 409; a soft-deleted product counts.
Found(c, there) ==
    /\ pc[c] = "finding"
    /\ IF there
       THEN Throw(c, "SKU_ALREADY_EXISTS") /\ Hold(c, "row")
       ELSE Go(c, "inserting") /\ Hold(c, "gap") /\ UNCHANGED outcome
    /\ UNCHANGED <<product, request, faults>>

\* Mutant of FindSku: a row that is not committed counts, without waiting.
FindSkuUncommitted(c) == Found(c, Indexed(sku[c]))

FindSku(c) == ~RowLocked(c) /\ Found(c, product[sku[c]] # NoProduct)

\* Product.create: the INSERT, which the unique index makes fail when the
\* SKU is there.
InsertIf(c, valid) ==
    /\ pc[c] = "inserting"
    /\ \A d \in Creations : ~Waits(c, d)
    /\ IF valid /\ product[sku[c]] = NoProduct
       THEN Go(c, "inserted") /\ Hold(c, "inserted") /\ UNCHANGED outcome
       ELSE Throw(c, "FAILED") /\ UNCHANGED holds
    /\ UNCHANGED <<product, request, faults>>

\* Mutant of Insert: the row is written without the model's validators.
InsertUnvalidated(c) == InsertIf(c, TRUE)

\* Mutant of Insert: it gives up at once instead of waiting.
InsertNoWait(c) ==
    /\ pc[c] = "inserting"
    /\ IF PassesValidation(c) /\ \A d \in Creations : ~Waits(c, d)
       THEN Go(c, "inserted") /\ Hold(c, "inserted") /\ UNCHANGED outcome
       ELSE Throw(c, "FAILED") /\ UNCHANGED holds
    /\ UNCHANGED <<product, request, faults>>

Insert(c) == InsertIf(c, PassesValidation(c))

\* InnoDB finds a circle, and this is the victim: it is rolled back at once.
Deadlock(c) ==
    /\ \E d \in Creations : Waits(c, d) /\ Waits(d, c)
    /\ Throw(c, "FAILED")
    /\ Hold(c, "nothing")
    /\ UNCHANGED <<product, request, faults>>

\* COMMIT is durable; its acknowledgement may be lost.
Commit(c, acknowledged) ==
    /\ pc[c] = "inserted"
    /\ product' = [product EXCEPT ![sku[c]] = c]
    /\ Hold(c, "nothing")
    /\ IF acknowledged
       THEN Go(c, "created") /\ UNCHANGED <<outcome, faults>>
       ELSE Throw(c, "FAILED") /\ Fault
    /\ UNCHANGED request

\* A statement fails or waits too long; the locks stay until the rollback.
StatementFails(c) ==
    /\ pc[c] \in {"finding", "inserting", "inserted"}
    /\ Throw(c, "FAILED")
    /\ Fault
    /\ UNCHANGED <<product, request, holds>>

\* Mutant of Rollback: the exception reaches nobody who answers.
RollbackUnanswered(c) ==
    /\ pc[c] = "throwing"
    /\ Go(c, "lost")
    /\ Hold(c, "nothing")
    /\ UNCHANGED <<product, request, outcome, faults>>

\* Mutant of Rollback: the transaction is abandoned, its locks stay.
RollbackKeepingLocks(c) ==
    /\ pc[c] = "throwing"
    /\ Go(c, "answered")
    /\ UNCHANGED <<product, request, outcome, holds, faults>>

\* The wrapper rolls back and throws on; the controller answers.
Rollback(c) ==
    /\ pc[c] = "throwing"
    /\ Go(c, "answered")
    /\ Hold(c, "nothing")
    /\ UNCHANGED <<product, request, outcome, faults>>

\* After invalidateCache the controller answers 201; if that threw, 500.
Respond(c, invalidated) ==
    /\ pc[c] = "created"
    /\ Go(c, "answered")
    /\ outcome' = [outcome EXCEPT ![c] = IF invalidated THEN "CREATED" ELSE "FAILED"]
    /\ IF invalidated THEN UNCHANGED faults ELSE Fault
    /\ UNCHANGED <<product, request, holds>>

\* The server dies: MySQL rolls back, clients hear nothing.
Crash ==
    /\ Fault
    /\ pc' = [c \in Creations |-> IF pc[c] = "idle" THEN "idle" ELSE "answered"]
    /\ outcome' = [c \in Creations |->
                      IF pc[c] \in {"idle", "answered"} THEN outcome[c] ELSE "FAILED"]
    /\ holds' = [c \in Creations |-> "nothing"]
    /\ UNCHANGED <<product, request>>

Step(c) ==
    \/ FindSku(c) \/ Insert(c) \/ Rollback(c)
    \/ Commit(c, TRUE) \/ Respond(c, TRUE)

Next ==
    \/ \E c \in Creations :
          \/ Call(c) \/ Step(c) \/ Deadlock(c)
          \/ StatementFails(c) \/ Commit(c, FALSE) \/ Respond(c, FALSE)
    \/ Crash

\* Requests that were called go on, and InnoDB ends circles.
Fairness ==
    /\ \A c \in Creations : WF_vars(Step(c))
    /\ WF_vars(\E c \in Creations : Deadlock(c))

Spec == Init /\ [][Next]_vars /\ Fairness

------------------------------------------------------------------------------
(* Properties *)

\* Types; and no product is stored at a price of 0.00, though a price below
\* half a cent passes the validation of the request.
TypeOK ==
    /\ product \in [Skus -> Creations \cup {NoProduct, OldProduct}]
    /\ sku \in [Creations -> Skus]
    /\ price \in [Creations -> Prices]
    /\ pc \in [Creations -> {"idle", "finding", "inserting", "inserted", "created",
                             "throwing", "answered"}]
    /\ outcome \in [Creations -> {"none", "CREATED", "SKU_ALREADY_EXISTS", "FAILED"}]
    /\ holds \in [Creations -> {"nothing", "row", "gap", "inserted"}]
    /\ faults \in 0..MaxFaults
    /\ \A k \in Skus : product[k] \in Creations => PassesValidation(product[k])

\* The lookup FOR UPDATE is enough: between it and the INSERT nobody puts
\* the SKU into the index, so the unique index never has to refuse, which
\* would be a 500.  (A rival may still get one as the loser of a deadlock.)
UniqueIndexUnused ==
    \A c \in Creations : pc[c] = "inserting" => ~Indexed(sku[c])

\* Deadlocks fail creations, also of different SKUs, but never all of them:
\* when nothing else fails, a failed creation with a valid price had a rival
\* that is created or still on its way.
OnItsWay(c) == pc[c] \in {"inserting", "inserted", "created"} \/ outcome[c] = "CREATED"
RivalWins ==
    faults = 0 /\ (\E c \in Creations : outcome[c] = "FAILED" /\ PassesValidation(c)) =>
        \E d \in Creations : OnItsWay(d) /\ PassesValidation(d)

\* Nothing c can do until another creation does something: it waits for a
\* row, or for gaps without being in a circle that InnoDB ends.
Blocked(c) ==
    \/ pc[c] = "finding" /\ RowLocked(c)
    \/ /\ \E d \in Creations : Waits(c, d)
       /\ ~\E d \in Creations : Waits(c, d) /\ Waits(d, c)

\* Circles of two are all the circles there are: while creations are on
\* their way, one of them can go on or be rolled back.
NeverAllBlocked ==
    (\E c \in Creations : pc[c] \notin {"idle", "answered"}) =>
        \E c \in Creations : pc[c] \notin {"idle", "answered"} /\ ~Blocked(c)

\* What creations do to the products and what they are told implements
\* Catalog, with a commit as the creation: 201 and 409 are truthful.
Answered(c) ==
    IF pc[c] = "answered" /\ outcome[c] = "CREATED" THEN "created"
    ELSE IF pc[c] = "answered" /\ outcome[c] = "SKU_ALREADY_EXISTS" THEN "exists"
    ELSE "none"

Promise == INSTANCE Catalog WITH
               Creations <- Creations,
               Skus <- Skus,
               NoProduct <- NoProduct,
               OldProduct <- OldProduct,
               product <- product,
               sku <- sku,
               answer <- [c \in Creations |-> Answered(c)]

ImplementsCatalog == Promise!Spec

\* Every creation is answered: waiting for a row or a gap ends, by a commit,
\* a rollback, or the deadlock that InnoDB finds.
EveryCreationAnswered ==
    \A c \in Creations : pc[c] = "finding" ~> pc[c] = "answered"
==============================================================================
