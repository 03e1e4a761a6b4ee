------------------------- MODULE MCStockTransactions -------------------------
(***************************************************************************)
(* Small instances of StockTransactions.  Stock is scarce, so that orders  *)
(* refuse one another; one basket asks for the products in descending      *)
(* order and one repeats a product.                                        *)
(***************************************************************************)
EXTENDS StockTransactions, TLC

CONSTANTS o1, o2, o3, e1

MCInitialProduct ==
    <<[price |-> 3, stockQuantity |-> 2, isDeleted |-> FALSE],
      [price |-> 5, stockQuantity |-> 1, isDeleted |-> FALSE]>>

Item(p, n) == [productId |-> p, quantity |-> n]
MCItemLists ==
    {<<Item(2, 1), Item(1, 1)>>,
     <<Item(1, 1), Item(1, 1)>>,    \* repeats a product
     <<Item(1, 1)>>}

Keep == [price |-> Undefined, stockQuantity |-> Undefined, isDeleted |-> Undefined]
On(p, fields) == [id |-> p] @@ fields
MCEdits ==
    {On(1, [Keep EXCEPT !.price = 41, !.stockQuantity = 3]),
     On(2, [Keep EXCEPT !.price = 1]),       \* 0.001 rounds to 0.00: rejected
     On(2, [Keep EXCEPT !.isDeleted = TRUE])}

\* A total of 8 (one of each at the first prices) fits; 9 does not.
MCMaxTotal == 8

Symmetry == Permutations(OrderRequests)
==============================================================================
