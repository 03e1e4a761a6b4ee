--------------------------- MODULE MCProductCatalog ---------------------------
(***************************************************************************)
(* Three creations of any of three SKUs, so that three may want one SKU,   *)
(* or three SKUs of one gap; and one of them may carry a price of 0.004.   *)
(***************************************************************************)
EXTENDS ProductCatalog

CONSTANTS c1, c2, c3

MCCreations == {c1, c2, c3}
MCPrices == {4, 10}

MCInit ==
    /\ Init
    /\ \A c \in Creations : price[c] = 4 => c = c1

MCSpec == MCInit /\ [][Next]_vars /\ Fairness
==============================================================================
