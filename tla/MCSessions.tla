------------------------------ MODULE MCSessions ------------------------------
(***************************************************************************)
(* Any calls of the account's routes, interchangeable but for their order. *)
(***************************************************************************)
EXTENDS Sessions, TLC

MCSymmetry == Permutations(Requests)
==============================================================================
