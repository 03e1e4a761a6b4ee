------------------------------ MODULE OrderData ------------------------------
(***************************************************************************)
(* The data every stock-moving request works on: product rows, the item    *)
(* list of POST /orders and its merge, the fields of an admin edit, prices *)
(* and totals.  Money is in integer cents; a price arrives from a client   *)
(* in mills (tenths of a cent) and is rounded by toFixed(2).  A missing    *)
(* row and a soft-deleted row are one case here: every transaction looks a *)
(* product up with isDeleted = false and treats both alike.                *)
(***************************************************************************)
EXTENDS Integers, Sequences, FiniteSetsExt

CONSTANTS
    ProductCount,   \* number of product rows
    ItemLists,      \* validated bodies of POST /orders
    Edits,          \* validated PUT and DELETE calls on /products/:id
    InitialProduct, \* the products table at the start
    MaxTotal,       \* largest value of the DECIMAL(10,2) total, in cents
    Undefined       \* a field the request body does not carry

\* The rows' ids, numbered in localeCompare order.
ProductIds == 1..ProductCount

Row == [price : Nat \ {0}, stockQuantity : Nat, isDeleted : BOOLEAN]

Edit == [id : ProductIds,
         price : Nat \cup {Undefined},          \* in mills
         stockQuantity : Nat \cup {Undefined},
         isDeleted : {TRUE, Undefined}]         \* TRUE: a soft delete

(***************************************************************************)
(* A basket: what a list of items asks for, as a function from product ids *)
(* to quantities.                                                          *)
(***************************************************************************)
CreateOrderItemInput == [productId : ProductIds, quantity : Nat \ {0}]

IsBasket(b) == /\ DOMAIN b \subseteq ProductIds
               /\ b \in [DOMAIN b -> Nat \ {0}]

Quantities(items) == [i \in DOMAIN items |-> items[i].quantity]
ItemsOf(items, p) == {i \in DOMAIN items : items[i].productId = p}

mergeOrderItems(items) ==
    [p \in {items[i].productId : i \in DOMAIN items} |->
        SumFunctionOnSet(Quantities(items), ItemsOf(items, p))]

\* Mutant of IsNext: the merged items are not sorted.
IsNextUnsorted(p, todo) == p \in todo

\* The next id a loop over ids sorted by localeCompare takes from todo.
IsNext(p, todo) == p \in todo /\ \A q \in todo : p <= q

totalAmount(lines) ==
    SumFunction([p \in DOMAIN lines |-> lines[p].price * lines[p].quantity])

(***************************************************************************)
(* An edit: instance.update with the fields the body carries.              *)
(***************************************************************************)
toFixed2(mills) == (mills + 5) \div 10

Given(new, old) == IF new = Undefined THEN old ELSE new

Edited(row, e) ==
    [price |-> IF e.price = Undefined THEN row.price ELSE toFixed2(e.price),
     stockQuantity |-> Given(e.stockQuantity, row.stockQuantity),
     isDeleted |-> Given(e.isDeleted, row.isDeleted)]

\* The model's validator on price: at least 0.01 after rounding.
PassesValidation(e) == e.price # Undefined => toFixed2(e.price) >= 1

ASSUME ProductCountAssumption == ProductCount \in Nat
ASSUME UndefinedAssumption == Undefined \notin Nat /\ Undefined \notin BOOLEAN
ASSUME InitialProductAssumption == InitialProduct \in [ProductIds -> Row]
ASSUME MaxTotalAssumption == MaxTotal \in Nat
ASSUME EditsAssumption == Edits \subseteq Edit
\* Joi: at least one item, each quantity an integer from 1.
ASSUME ItemListsAssumption ==
    ItemLists \subseteq Seq(CreateOrderItemInput) \ {<<>>}
==============================================================================
