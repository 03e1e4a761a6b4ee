---------------------------- MODULE MCOrderServer ----------------------------
(***************************************************************************)
(* Four migrations, orders first, on a new database and on one with        *)
(* legacy tables; the second process may meet a migrated one.              *)
(***************************************************************************)
EXTENDS OrderServer

CONSTANT o1

MCOrders == {o1}

MCInit ==
    /\ Init
    /\ recorded = {}
    /\ \A m \in Migrations : m > 2 => tables[m] = "missing"
    /\ tables[1] = tables[2] /\ tables[1] # "current"

MCSpec == MCInit /\ [][Next]_vars /\ Fairness
==============================================================================
