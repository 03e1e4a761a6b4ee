--------------------------- MODULE MCResponseCache ---------------------------
(***************************************************************************)
(* Two reads of one list, so that one may be served what the other filled, *)
(* and two mutations that invalidate the namespaces in opposite orders.    *)
(***************************************************************************)
EXTENDS ResponseCache

CONSTANTS r1, r2, m1, m2, products, orders

MCNamespaceOf == [k \in Keys |-> k]
MCKeyOf == [r \in Reads |-> products]
MCGroupOf == [m \in Mutations |-> IF m = m1 THEN <<products, orders>>
                                            ELSE <<orders, products>>]
==============================================================================
