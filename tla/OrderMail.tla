------------------------------- MODULE OrderMail -------------------------------
(***************************************************************************)
(* What the order email promises: only a committed order is mailed about;  *)
(* it is confirmed or abandoned, once and for all, and not confirmed       *)
(* before a mail went out; and the mails about it are bounded.  It does    *)
(* not promise that every order is mailed, nor that it is mailed once.     *)
(* OrderJobs implements it with a queue, retries and stalled jobs.         *)
(***************************************************************************)
EXTENDS Naturals

CONSTANTS
    Orders,     \* orders that may be committed
    MaxMails    \* no order is mailed about more often

VARIABLES
    fate,   \* of each order's email
    mails   \* how often each order was mailed about

vars == <<fate, mails>>

Init ==
    /\ fate = [o \in Orders |-> "none"]
    /\ mails = [o \in Orders |-> 0]

Become(o, f) == fate' = [fate EXCEPT ![o] = f] /\ UNCHANGED mails

Place(o) == fate[o] = "none" /\ Become(o, "open")
Confirm(o) == fate[o] = "open" /\ mails[o] > 0 /\ Become(o, "confirmed")

\* A server that ends abandons all it had not handed over.
Abandon(gone) ==
    /\ \A o \in gone : fate[o] = "open"
    /\ fate' = [o \in Orders |-> IF o \in gone THEN "abandoned" ELSE fate[o]]
    /\ UNCHANGED mails

\* A run that lost its job may still send.
Mail(o) ==
    /\ fate[o] # "none"
    /\ mails[o] < MaxMails
    /\ mails' = [mails EXCEPT ![o] = @ + 1]
    /\ UNCHANGED fate

Next ==
    \/ \E o \in Orders : Place(o) \/ Mail(o) \/ Confirm(o)
    \/ \E gone \in SUBSET Orders : Abandon(gone)

Spec == Init /\ [][Next]_vars
==============================================================================
