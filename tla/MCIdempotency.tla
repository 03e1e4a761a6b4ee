---------------------------- MODULE MCIdempotency ----------------------------
(***************************************************************************)
(* A client that retries under one key, once with another body.  Keys      *)
(* share nothing but the process that may crash, so one key is enough.     *)
(***************************************************************************)
EXTENDS Idempotency, TLC

CONSTANTS a1, a2, a3, k1, b1, b2

MCKeyOf == [a \in Attempts |-> k1]
MCBodyOf == [a \in Attempts |-> IF a = a3 THEN b2 ELSE b1]
==============================================================================
