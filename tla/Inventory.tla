------------------------------ MODULE Inventory ------------------------------
(***************************************************************************)
(* What the order and product services promise: a stock ledger in which an *)
(* order is placed in one step, entirely or not at all, at the prices and  *)
(* against the stock of that instant, and a product is edited in one step. *)
(* StockTransactions implements it with row locks and transactions.        *)
(***************************************************************************)
EXTENDS Integers

CONSTANTS
    ProductIds,             \* ids of product rows
    InitialProduct,         \* the rows at the start
    OrderRequests,          \* POST /orders requests; each places one order at most
    ItemLists,              \* what an order request may ask for
    Edits,                  \* the calls that edit a product
    MaxTotal,               \* largest total an order may have
    mergeOrderItems(_),     \* the basket of a list of items: quantities by product
    totalAmount(_),         \* the total of priced order lines
    Edited(_, _),           \* a row after an edit
    PassesValidation(_)     \* whether the model accepts an edit

VARIABLES
    product,    \* product rows, by id
    orders      \* orders with their items

vars == <<product, orders>>

Init == product = InitialProduct /\ orders = {}

Available(basket) ==
    \A p \in DOMAIN basket :
        ~product[p].isDeleted /\ product[p].stockQuantity >= basket[p]

Priced(basket) ==
    [p \in DOMAIN basket |->
        [quantity |-> basket[p], price |-> product[p].price]]

PlaceOrder(r, basket) ==
    /\ \A o \in orders : o.request # r
    /\ Available(basket)
    /\ totalAmount(Priced(basket)) <= MaxTotal
    /\ product' = [p \in ProductIds |->
                      IF p \in DOMAIN basket
                      THEN [product[p] EXCEPT !.stockQuantity = @ - basket[p]]
                      ELSE product[p]]
    /\ orders' = orders \cup
                    {[request |-> r,
                      totalAmount |-> totalAmount(Priced(basket)),
                      items |-> Priced(basket)]}

EditProduct(e) ==
    /\ ~product[e.id].isDeleted
    /\ PassesValidation(e)
    /\ product' = [product EXCEPT ![e.id] = Edited(product[e.id], e)]
    /\ UNCHANGED orders

Next == \/ \E r \in OrderRequests, items \in ItemLists :
              PlaceOrder(r, mergeOrderItems(items))
        \/ \E e \in Edits : EditProduct(e)

Spec == Init /\ [][Next]_vars
==============================================================================
