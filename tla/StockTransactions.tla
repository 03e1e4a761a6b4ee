-------------------------- MODULE StockTransactions --------------------------
(***************************************************************************)
(* The requests that move stock, as the database sees them: createOrder of *)
(* Order.service, updateProduct and softDeleteProduct of Product.service.  *)
(* Each runs one transaction on one pooled connection; SELECT ... FOR      *)
(* UPDATE takes a row lock that is held to the end of the transaction, and *)
(* what a transaction wrote is visible to others only once it committed.   *)
(*                                                                         *)
(* A request is one handler call.  It may fail at any statement (a lost    *)
(* connection, a lock-wait or pool timeout), and the server process may    *)
(* die with every request it is running.                                   *)
(***************************************************************************)
EXTENDS OrderData

CONSTANTS
    OrderRequests,  \* POST /orders requests
    EditRequests,   \* PUT and DELETE /products/:id requests
    PoolSize,       \* connections in the sequelize pool
    NoOwner         \* owner of an unlocked row

Requests == OrderRequests \cup EditRequests

ASSUME RequestsAssumption ==
    /\ IsFiniteSet(Requests)
    /\ OrderRequests \cap EditRequests = {}
    /\ NoOwner \notin Requests
ASSUME PoolSizeAssumption == PoolSize \in Nat \ {0}

VARIABLES
    product,        \* committed product rows
    orders,         \* committed orders with their items
    lock,           \* owner of each product row lock
    pc,             \* where each request is
    outcome,        \* what it answers, or is about to
    basket,         \* an order's merged items
    edit,           \* an edit's call
    lockedProducts, \* rows the open transaction read FOR UPDATE
    createdOrder,   \* the open transaction inserted the order header
    updated,        \* products whose row the open transaction wrote
    inserted        \* products whose order item it inserted

tx == <<lockedProducts, createdOrder, updated, inserted>>
call == <<basket, edit>>
tables == <<product, orders>>
vars == <<tables, lock, pc, outcome, call, tx>>

NoRows == [p \in {} |-> p]   \* nothing locked, nothing asked for
AddRow(rows, p, row) ==
    [q \in DOMAIN rows \cup {p} |-> IF q = p THEN row ELSE rows[q]]

InTransaction(r) == pc[r] \in {"locking", "writing", "rollback"}
InFlight(r) == pc[r] \notin {"idle", "answered"}
Open == {r \in Requests : InTransaction(r)}

Init ==
    /\ product = InitialProduct
    /\ orders = {}
    /\ lock = [p \in ProductIds |-> NoOwner]
    /\ pc = [r \in Requests |-> "idle"]
    /\ outcome = [r \in Requests |-> "none"]
    /\ basket = [o \in OrderRequests |-> NoRows]
    /\ edit \in [EditRequests -> Edits]
    /\ lockedProducts = [r \in Requests |-> NoRows]
    /\ createdOrder = [r \in Requests |-> FALSE]
    /\ updated = [r \in Requests |-> {}]
    /\ inserted = [r \in Requests |-> {}]

------------------------------------------------------------------------------
(* Helpers *)

\* Products the request reads FOR UPDATE, in ascending order.
Targets(r) == IF r \in OrderRequests THEN DOMAIN basket[r] ELSE {edit[r].id}

\* Mutant of ToWrite: OrderItem.create is forgotten.
ToWriteWithoutItems(r) == Targets(r) \ updated[r]

ToLock(r) == Targets(r) \ DOMAIN lockedProducts[r]
ToWrite(r) == Targets(r) \ inserted[r]

\* The order line of product p, priced from the locked row.
Line(o, p) == [quantity |-> basket[o][p], price |-> lockedProducts[o][p].price]
Lines(o, S) == [p \in S |-> Line(o, p)]

\* The row of p as the transaction of r wrote it: an order writes the
\* absolute stock it computed from the row it had read.
WrittenRow(r, p) ==
    IF r \in OrderRequests
    THEN [product[p] EXCEPT
             !.stockQuantity = lockedProducts[r][p].stockQuantity - basket[r][p]]
    ELSE Edited(lockedProducts[r][p], edit[r])

\* The end of a transaction: its locks go, and what it kept with them.
ReleaseLocks(r) ==
    lock' = [p \in ProductIds |-> IF lock[p] = r THEN NoOwner ELSE lock[p]]
ForgetTx(r) ==
    /\ lockedProducts' = [lockedProducts EXCEPT ![r] = NoRows]
    /\ createdOrder' = [createdOrder EXCEPT ![r] = FALSE]
    /\ updated' = [updated EXCEPT ![r] = {}]
    /\ inserted' = [inserted EXCEPT ![r] = {}]

\* An exception inside the transaction callback.
Throw(r, error) ==
    /\ pc' = [pc EXCEPT ![r] = "rollback"]
    /\ outcome' = [outcome EXCEPT ![r] = error]

\* Mutant of Lock: findOne without LOCK.UPDATE reads past another's lock.
LockWithoutForUpdate(r, p) ==
    /\ pc[r] = "locking"
    /\ IsNext(p, ToLock(r))
    /\ lock' = [lock EXCEPT ![p] = r]

\* SELECT ... WHERE id = p FOR UPDATE: the row lock is granted.
Lock(r, p) ==
    /\ pc[r] = "locking"
    /\ IsNext(p, ToLock(r))
    /\ lock[p] = NoOwner
    /\ lock' = [lock EXCEPT ![p] = r]

------------------------------------------------------------------------------
(* Every request *)

\* A validated order request reaches createOrder, which merges its items.
CallOrder(o, items) ==
    /\ pc[o] = "idle"
    /\ basket' = [basket EXCEPT ![o] = mergeOrderItems(items)]
    /\ pc' = [pc EXCEPT ![o] = "waiting"]
    /\ UNCHANGED <<tables, lock, outcome, edit, tx>>

CallEdit(e) ==
    /\ pc[e] = "idle"
    /\ pc' = [pc EXCEPT ![e] = "waiting"]
    /\ UNCHANGED <<tables, lock, outcome, call, tx>>

\* runInTransaction: a connection from the pool, then START TRANSACTION.
BeginTransaction(r) ==
    /\ pc[r] = "waiting"
    /\ Cardinality(Open) < PoolSize
    /\ pc' = [pc EXCEPT ![r] = "locking"]
    /\ UNCHANGED <<tables, lock, outcome, call, tx>>

\* No connection within the acquire timeout, or none can be opened.
BeginFails(r) ==
    /\ pc[r] = "waiting"
    /\ pc' = [pc EXCEPT ![r] = "answered"]
    /\ outcome' = [outcome EXCEPT ![r] = "FAILED"]
    /\ UNCHANGED <<tables, lock, call, tx>>

\* Mutant of LockProduct: the stock is not compared with the quantity.
LockProductUnchecked(r, p) ==
    /\ Lock(r, p)
    /\ ~product[p].isDeleted
    /\ lockedProducts' = [lockedProducts EXCEPT ![r] = AddRow(@, p, product[p])]
    /\ UNCHANGED <<tables, pc, outcome, call, createdOrder, updated, inserted>>

LockProduct(r, p) ==
    /\ Lock(r, p)
    /\ ~product[p].isDeleted
    /\ r \in OrderRequests => product[p].stockQuantity >= basket[r][p]
    /\ lockedProducts' = [lockedProducts EXCEPT ![r] = AddRow(@, p, product[p])]
    /\ UNCHANGED <<tables, pc, outcome, call, createdOrder, updated, inserted>>

\* No row with isDeleted = false.
RefuseNotFound(r, p) ==
    /\ Lock(r, p)
    /\ product[p].isDeleted
    /\ Throw(r, "PRODUCT_NOT_FOUND")
    /\ UNCHANGED <<tables, call, tx>>

\* Mutant of RefuseShort: an order for the last units is refused.
RefuseLastUnits(o, p) ==
    /\ Lock(o, p)
    /\ ~product[p].isDeleted
    /\ product[p].stockQuantity <= basket[o][p]
    /\ Throw(o, "INSUFFICIENT_STOCK")
    /\ UNCHANGED <<tables, call, tx>>

RefuseShort(o, p) ==
    /\ Lock(o, p)
    /\ ~product[p].isDeleted
    /\ product[p].stockQuantity < basket[o][p]
    /\ Throw(o, "INSUFFICIENT_STOCK")
    /\ UNCHANGED <<tables, call, tx>>

\* Any statement of an open transaction fails, the commit included.
StatementFails(r) ==
    /\ pc[r] \in {"locking", "writing"}
    /\ Throw(r, "FAILED")
    /\ UNCHANGED <<tables, lock, call, tx>>

\* Mutant of Rollback: the transaction is abandoned, its locks stay.
RollbackKeepingLocks(r) ==
    /\ pc[r] = "rollback"
    /\ pc' = [pc EXCEPT ![r] = "answered"]
    /\ ForgetTx(r)
    /\ UNCHANGED <<tables, lock, outcome, call>>

Rollback(r) ==
    /\ pc[r] = "rollback"
    /\ pc' = [pc EXCEPT ![r] = "answered"]
    /\ ReleaseLocks(r)
    /\ ForgetTx(r)
    /\ UNCHANGED <<tables, outcome, call>>

\* COMMIT is durable in the database.  The acknowledgement may still be lost,
\* and then the transaction wrapper throws as if the commit had failed.
Commit(r, acknowledged) ==
    /\ pc[r] = "writing"
    /\ \/ r \in OrderRequests /\ ToWrite(r) = {}
       \/ r \in EditRequests /\ updated[r] # {}
    /\ product' = [p \in ProductIds |-> IF p \in updated[r] THEN WrittenRow(r, p)
                                                            ELSE product[p]]
    /\ orders' = IF createdOrder[r]
                 THEN orders \cup {[request |-> r,
                                    totalAmount |-> totalAmount(Lines(r, Targets(r))),
                                    items |-> Lines(r, inserted[r])]}
                 ELSE orders
    /\ outcome' = [outcome EXCEPT ![r] = IF acknowledged THEN "OK" ELSE "FAILED"]
    /\ pc' = [pc EXCEPT ![r] = "answered"]
    /\ ReleaseLocks(r)
    /\ ForgetTx(r)
    /\ UNCHANGED call

------------------------------------------------------------------------------
(* createOrder *)

\* Order.create, once every product is locked; a total the DECIMAL(10,2)
\* column cannot hold makes the INSERT fail.
InsertOrder(o) ==
    /\ pc[o] = "locking"
    /\ ToLock(o) = {}
    /\ IF totalAmount(Lines(o, Targets(o))) <= MaxTotal
       THEN /\ createdOrder' = [createdOrder EXCEPT ![o] = TRUE]
            /\ pc' = [pc EXCEPT ![o] = "writing"]
            /\ UNCHANGED outcome
       ELSE /\ Throw(o, "FAILED")
            /\ UNCHANGED createdOrder
    /\ UNCHANGED <<tables, lock, call, lockedProducts, updated, inserted>>

\* Mutant of UpdateStock: Product.update without { transaction }.
UpdateStockAutocommitted(o, p) ==
    /\ pc[o] = "writing"
    /\ IsNext(p, ToWrite(o))
    /\ p \notin updated[o]
    /\ updated' = [updated EXCEPT ![o] = @ \cup {p}]
    /\ product' = [product EXCEPT ![p] = WrittenRow(o, p)]
    /\ UNCHANGED <<orders, lock, pc, outcome, call, lockedProducts, createdOrder, inserted>>

\* Product.update and OrderItem.create, product by product.
UpdateStock(o, p) ==
    /\ pc[o] = "writing"
    /\ IsNext(p, ToWrite(o))
    /\ p \notin updated[o]
    /\ updated' = [updated EXCEPT ![o] = @ \cup {p}]
    /\ UNCHANGED <<tables, lock, pc, outcome, call, lockedProducts, createdOrder, inserted>>

\* Mutant of InsertItem: the item is written before the stock.
InsertItemFirst(o, p) ==
    /\ pc[o] = "writing"
    /\ IsNext(p, ToWrite(o))
    /\ inserted' = [inserted EXCEPT ![o] = @ \cup {p}]
    /\ UNCHANGED <<tables, lock, pc, outcome, call, lockedProducts, createdOrder, updated>>

InsertItem(o, p) ==
    /\ pc[o] = "writing"
    /\ IsNext(p, ToWrite(o))
    /\ p \in updated[o]
    /\ inserted' = [inserted EXCEPT ![o] = @ \cup {p}]
    /\ UNCHANGED <<tables, lock, pc, outcome, call, lockedProducts, createdOrder, updated>>

------------------------------------------------------------------------------
(* updateProduct and softDeleteProduct *)

\* instance.update on the locked row: the model's validators, then UPDATE.
SaveEdit(e) ==
    /\ pc[e] = "locking"
    /\ ToLock(e) = {}
    /\ IF PassesValidation(edit[e])
       THEN /\ updated' = [updated EXCEPT ![e] = Targets(e)]
            /\ pc' = [pc EXCEPT ![e] = "writing"]
            /\ UNCHANGED outcome
       ELSE /\ Throw(e, "FAILED")
            /\ UNCHANGED updated
    /\ UNCHANGED <<tables, lock, call, lockedProducts, createdOrder, inserted>>

------------------------------------------------------------------------------
(* The server process dies: MySQL rolls every open transaction back. *)
Crash ==
    /\ \E r \in Requests : InFlight(r)
    /\ pc' = [r \in Requests |-> IF InFlight(r) THEN "answered" ELSE pc[r]]
    /\ outcome' = [r \in Requests |-> IF InFlight(r) THEN "LOST" ELSE outcome[r]]
    /\ lock' = [p \in ProductIds |-> NoOwner]
    /\ lockedProducts' = [r \in Requests |-> NoRows]
    /\ createdOrder' = [r \in Requests |-> FALSE]
    /\ updated' = [r \in Requests |-> {}]
    /\ inserted' = [r \in Requests |-> {}]
    /\ UNCHANGED <<tables, call>>

OrderStep(o) ==
    \/ \E p \in ProductIds : RefuseShort(o, p) \/ UpdateStock(o, p) \/ InsertItem(o, p)
    \/ InsertOrder(o)

Step(r) ==
    \/ BeginTransaction(r)
    \/ \E p \in ProductIds : LockProduct(r, p) \/ RefuseNotFound(r, p)
    \/ r \in OrderRequests /\ OrderStep(r)
    \/ r \in EditRequests /\ SaveEdit(r)
    \/ Commit(r, TRUE)
    \/ Rollback(r)

Next ==
    \/ \E o \in OrderRequests, items \in ItemLists : CallOrder(o, items)
    \/ \E e \in EditRequests : CallEdit(e)
    \/ \E r \in Requests : Step(r)
    \/ \E r \in Requests : BeginFails(r) \/ StatementFails(r) \/ Commit(r, FALSE)
    \/ Crash

\* A request that was called goes on: its connection, its lock and its next
\* statement come, each within a timeout.  Calls and faults need not happen.
Fairness == \A r \in Requests : WF_vars(Step(r))

Spec == Init /\ [][Next]_vars /\ Fairness

------------------------------------------------------------------------------
(* Properties *)

TypeOK ==
    /\ product \in [ProductIds -> Row]
    /\ \A o \in orders :
          /\ o.request \in OrderRequests
          /\ o.totalAmount \in 1..MaxTotal
          /\ o.items \in [DOMAIN o.items -> [quantity : Nat \ {0}, price : Nat \ {0}]]
    /\ lock \in [ProductIds -> Requests \cup {NoOwner}]
    /\ pc \in [Requests -> {"idle", "waiting", "locking", "writing", "rollback", "answered"}]
    /\ outcome \in [Requests -> {"none", "OK", "PRODUCT_NOT_FOUND", "INSUFFICIENT_STOCK",
                                 "FAILED", "LOST"}]
    /\ DOMAIN basket = OrderRequests /\ \A o \in OrderRequests : IsBasket(basket[o])
    /\ edit \in [EditRequests -> Edits]
    /\ DOMAIN lockedProducts = Requests
    /\ \A r \in Requests :
          /\ DOMAIN lockedProducts[r] \subseteq Targets(r)
          /\ lockedProducts[r] \in [DOMAIN lockedProducts[r] -> Row]
    /\ createdOrder \in [Requests -> BOOLEAN]
    /\ updated \in [Requests -> SUBSET ProductIds]
    /\ inserted \in [Requests -> SUBSET ProductIds]

(* How far a transaction has come: what it may hold and have written by     *)
(* phase, and that everything it may commit was checked under its locks.    *)
PhaseInv ==
    \A r \in Requests :
        /\ ~InTransaction(r) => DOMAIN lockedProducts[r] = {}
        /\ pc[r] \notin {"writing", "rollback"} =>
              ~createdOrder[r] /\ updated[r] = {} /\ inserted[r] = {}
        /\ pc[r] = "writing" =>
              /\ ToLock(r) = {}
              /\ createdOrder[r] = (r \in OrderRequests)
              /\ inserted[r] \subseteq updated[r]
              /\ updated[r] \subseteq Targets(r)

LockInv ==
    \A p \in ProductIds, r \in Requests : lock[p] = r =>
        /\ InTransaction(r)
        /\ pc[r] # "rollback" => p \in DOMAIN lockedProducts[r]

CheckedInv ==
    /\ \A r \in Requests : pc[r] \in {"locking", "writing"} =>
          \A p \in DOMAIN lockedProducts[r] :
              /\ ~lockedProducts[r][p].isDeleted
              /\ r \in OrderRequests =>
                    lockedProducts[r][p].stockQuantity >= basket[r][p]
    /\ \A o \in OrderRequests : pc[o] = "writing" =>
          totalAmount(Lines(o, Targets(o))) <= MaxTotal
    /\ \A e \in EditRequests : pc[e] = "writing" => PassesValidation(edit[e])

\* A merged basket, once called; an order in the tables only once its request
\* is over, and its header bills the items it has.
HistoryInv ==
    /\ \A o \in OrderRequests : pc[o] # "idle" =>
          \E items \in ItemLists : basket[o] = mergeOrderItems(items)
    /\ \A o \in orders : /\ pc[o.request] = "answered"
                         /\ outcome[o.request] \in {"OK", "FAILED"}
                         /\ o.totalAmount = totalAmount(o.items)
    /\ \A r \in Requests :
          /\ outcome[r] \in {"PRODUCT_NOT_FOUND", "INSUFFICIENT_STOCK"} =>
                pc[r] \in {"rollback", "answered"}
          /\ outcome[r] = "OK" => pc[r] = "answered"

TransactionInv == PhaseInv /\ LockInv /\ CheckedInv /\ HistoryInv

(* The absolute stock an order writes was computed from a row read earlier  *)
(* in the transaction.  Up to its end, every row it read is still locked by *)
(* it and still what the table holds, so no update is lost.                 *)
SnapshotCurrent ==
    \A r \in Requests : pc[r] \in {"locking", "writing"} =>
        \A p \in DOMAIN lockedProducts[r] :
            lock[p] = r /\ lockedProducts[r][p] = product[p]

(* Sorting the merged items before locking orders the row locks: whoever    *)
(* still wants a row holds only lower ones.                                 *)
LocksAscend ==
    \A r \in Requests : pc[r] = "locking" =>
        \A p \in ProductIds, q \in ToLock(r) : lock[p] = r => p < q

WaitsFor(r, s) ==
    /\ pc[r] = "locking"
    /\ \E p \in ProductIds : IsNext(p, ToLock(r)) /\ lock[p] = s

(* No set of requests waits on each other for row locks, so InnoDB never    *)
(* has to pick a deadlock victim among orders and edits.                    *)
NoDeadlock ==
    \A S \in (SUBSET Requests) \ {{}} :
        \E r \in S : \A s \in S : ~WaitsFor(r, s)

\* Nothing r can do until another request does something: every connection
\* is taken, or the row it reads next is locked.
Blocked(r) ==
    \/ pc[r] = "waiting" /\ Cardinality(Open) >= PoolSize
    \/ /\ pc[r] = "locking"
       /\ \E p \in ProductIds : IsNext(p, ToLock(r)) /\ lock[p] # NoOwner

(* Requests wait for connections while those who have one wait for rows;    *)
(* however small the pool, this never stops them all.                       *)
NeverAllBlocked ==
    (\E r \in Requests : InFlight(r)) =>
        \E r \in Requests : InFlight(r) /\ ~Blocked(r)

MayHaveSetStock(p) ==
    \E e \in EditRequests : /\ edit[e].id = p
                            /\ edit[e].stockQuantity # Undefined
                            /\ pc[e] = "answered"

UnitsIn(o, p) == IF p \in DOMAIN o.items THEN o.items[p].quantity ELSE 0
UnitsOrdered(p) == SumFunction([o \in orders |-> UnitsIn(o, p)])

(* Nothing is oversold or leaked by failures, lost commits and crashes:     *)
(* unless an admin set the stock, units on the shelf and units in orders    *)
(* add up to the units there were (the claim of the stock race tests).      *)
StockAccounted ==
    \A p \in ProductIds : ~MayHaveSetStock(p) =>
        product[p].stockQuantity + UnitsOrdered(p) = InitialProduct[p].stockQuantity

(* An order refused for stock met committed stock, not another              *)
(* transaction's intermediate one: unless an admin set the stock since,     *)
(* some product of it is still short.                                       *)
RefusalJustified ==
    \A o \in OrderRequests : outcome[o] = "INSUFFICIENT_STOCK" =>
        \E p \in DOMAIN basket[o] :
            product[p].stockQuantity < basket[o][p] \/ MayHaveSetStock(p)

(* A success answer means the order is in the tables with every item asked  *)
(* for; a refusal means there is no order.  Only a 500 leaves it open.      *)
OutcomeTruthful ==
    \A r \in OrderRequests :
        /\ outcome[r] = "OK" =>
              \E o \in orders : /\ o.request = r
                                /\ DOMAIN o.items = DOMAIN basket[r]
                                /\ \A p \in DOMAIN basket[r] :
                                      o.items[p].quantity = basket[r][p]
        /\ outcome[r] \in {"PRODUCT_NOT_FOUND", "INSUFFICIENT_STOCK"} =>
              \A o \in orders : o.request # r

(* Every transaction is one atomic step of the ledger: an order is placed   *)
(* at the prices and stock of its commit, an edit applies to the row of its *)
(* commit, and aborted work leaves no trace.                                *)
Ledger == INSTANCE Inventory
ImplementsInventory == Ledger!Spec

(* Every handler call ends in an answer, whatever locks it had to wait for. *)
EveryCallAnswered ==
    \A r \in Requests : InFlight(r) ~> pc[r] = "answered"
==============================================================================
