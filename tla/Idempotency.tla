----------------------------- MODULE Idempotency -----------------------------
(***************************************************************************)
(* POST /orders behind the Idempotency-Key header: the middleware          *)
(* requireIdempotencyKey, the service it calls and the order controller it *)
(* guards.  A client may send any number of attempts under one key, in     *)
(* sequence or at once; the row of idempotency_keys, unique per scope and  *)
(* key, is all that connects them.                                         *)
(*                                                                         *)
(* An attempt looks the key up, inserts a "processing" row if there is no  *)
(* active one, and only then runs the handler.  The answer is sent while   *)
(* the write that stores it in the row is still under way.                 *)
(***************************************************************************)
EXTENDS Naturals, FiniteSets

CONSTANTS
    Attempts,   \* POST requests clients send
    Keys,       \* scope and Idempotency-Key pairs
    Bodies,     \* request bodies; hashRequestBody is taken to be injective
    KeyOf,      \* the key an attempt carries
    BodyOf,     \* and its body
    None        \* no row, no answer

ASSUME AttemptsAssumption == /\ KeyOf \in [Attempts -> Keys]
                             /\ BodyOf \in [Attempts -> Bodies]

HandlerAnswers == {"CREATED", "REFUSED", "ORDER_CREATE_FAILED"}
Answers == HandlerAnswers \cup
           {"IDEMPOTENCY_CONFLICT", "IDEMPOTENCY_IN_PROGRESS", "INTERNAL_ERROR"}
ASSUME NoneAssumption == None \notin Answers \cup Bodies

VARIABLES
    record,     \* the row of each key
    pc,         \* where each attempt is
    answer,     \* what it was answered
    resolved,   \* how resolveIdempotency let it through: new or replay
    ordered,    \* attempts whose order transaction committed
    completing, \* attempts whose completeIdempotency write is under way
    earlier,    \* attempts already answered when this one was sent
    disturbed   \* keys under which a query, a write or the process failed

vars == <<record, pc, answer, resolved, ordered, completing, earlier, disturbed>>

NoRecord == [status |-> "none", requestHash |-> None, answer |-> None, expired |-> FALSE]
Exists(k) == record[k].status # "none"
Active(k) == Exists(k) /\ ~record[k].expired    \* expiresAt > now

Peers(a) == {b \in Attempts : KeyOf[b] = KeyOf[a]}
Running(a) == pc[a] \notin {"idle", "answered", "lost"}
Handling(a) == pc[a] \in {"handling", "committed", "invalidating"}

Init ==
    /\ record = [k \in Keys |-> NoRecord]
    /\ pc = [a \in Attempts |-> "idle"]
    /\ answer = [a \in Attempts |-> None]
    /\ resolved = [a \in Attempts |-> "no"]
    /\ ordered = {}
    /\ completing = {}
    /\ earlier = [a \in Attempts |-> {}]
    /\ disturbed = {}

------------------------------------------------------------------------------
(* resolveIdempotency *)

Goto(a, label) == pc' = [pc EXCEPT ![a] = label]
Answer(a, what) == Goto(a, "answered") /\ answer' = [answer EXCEPT ![a] = what]

\* Mutant of Judge: the request hash is not compared.
JudgeIgnoringHash(a) ==
    LET row == record[KeyOf[a]]
    IN  \/ /\ row.status = "processing"
           /\ Answer(a, "IDEMPOTENCY_IN_PROGRESS")
           /\ UNCHANGED resolved
        \/ /\ row.status = "completed"
           /\ Answer(a, row.answer)
           /\ resolved' = [resolved EXCEPT ![a] = "replay"]

\* What an active row means to an attempt that found it: the same three ways
\* out on the first lookup and on the one after a lost race.
Judge(a) ==
    LET row == record[KeyOf[a]]
    IN  \/ /\ row.requestHash # BodyOf[a]
           /\ Answer(a, "IDEMPOTENCY_CONFLICT")
           /\ UNCHANGED resolved
        \/ /\ row.requestHash = BodyOf[a]
           /\ row.status = "processing"
           /\ Answer(a, "IDEMPOTENCY_IN_PROGRESS")
           /\ UNCHANGED resolved
        \/ /\ row.requestHash = BodyOf[a]
           /\ row.status = "completed"
           /\ Answer(a, row.answer)
           /\ resolved' = [resolved EXCEPT ![a] = "replay"]

Send(a) ==
    /\ pc[a] = "idle"
    /\ Goto(a, "lookup")
    /\ earlier' = [earlier EXCEPT ![a] = {b \in Attempts : pc[b] = "answered"}]
    /\ UNCHANGED <<record, answer, resolved, ordered, completing, disturbed>>

FindExisting(a) ==
    /\ pc[a] = "lookup"
    /\ \/ Active(KeyOf[a]) /\ Judge(a)
       \/ ~Active(KeyOf[a]) /\ Goto(a, "create") /\ UNCHANGED <<answer, resolved>>
    /\ UNCHANGED <<record, ordered, completing, earlier, disturbed>>

\* Mutants of CreateRecord: there is no unique index, or the INSERT takes over
\* an expired row.
CreateRecordUnindexed(a) ==
    /\ pc[a] = "create"
    /\ record' = [record EXCEPT ![KeyOf[a]] =
                    [status |-> "processing", requestHash |-> BodyOf[a],
                     answer |-> None, expired |-> FALSE]]
    /\ resolved' = [resolved EXCEPT ![a] = "new"]
    /\ Goto(a, "handling")
    /\ UNCHANGED <<answer, ordered, completing, earlier, disturbed>>

CreateRecordOverExpired(a) == ~Active(KeyOf[a]) /\ CreateRecordUnindexed(a)

\* The INSERT meets the unique index on scope and key, which knows nothing
\* of expiresAt.
CreateRecord(a) ==
    LET k == KeyOf[a]
    IN  /\ pc[a] = "create"
        /\ \/ /\ ~Exists(k)
              /\ record' = [record EXCEPT ![k] =
                              [status |-> "processing", requestHash |-> BodyOf[a],
                               answer |-> None, expired |-> FALSE]]
              /\ resolved' = [resolved EXCEPT ![a] = "new"]
              /\ Goto(a, "handling")
           \/ /\ Exists(k)
              /\ Goto(a, "refetch")
              /\ UNCHANGED <<record, resolved>>
        /\ UNCHANGED <<answer, ordered, completing, earlier, disturbed>>

\* Mutant of FindRaced: a row that is not active is looked up for ever.
FindRacedOrWait(a) ==
    /\ pc[a] = "refetch"
    /\ Active(KeyOf[a])
    /\ Judge(a)
    /\ UNCHANGED <<record, ordered, completing, earlier, disturbed>>

FindRaced(a) ==
    /\ pc[a] = "refetch"
    /\ \/ Active(KeyOf[a]) /\ Judge(a)
       \/ ~Active(KeyOf[a]) /\ Answer(a, "INTERNAL_ERROR") /\ UNCHANGED resolved
    /\ UNCHANGED <<record, ordered, completing, earlier, disturbed>>

\* A query of resolveIdempotency fails, the INSERT without effect.
ResolveFails(a) ==
    /\ pc[a] \in {"lookup", "create", "refetch"}
    /\ Answer(a, "INTERNAL_ERROR")
    /\ disturbed' = disturbed \cup {KeyOf[a]}
    /\ UNCHANGED <<record, resolved, ordered, completing, earlier>>

\* The INSERT is durable but its acknowledgement is lost.
CreateUnacknowledged(a) ==
    LET k == KeyOf[a]
    IN  /\ pc[a] = "create"
        /\ ~Exists(k)
        /\ record' = [record EXCEPT ![k] =
                        [status |-> "processing", requestHash |-> BodyOf[a],
                         answer |-> None, expired |-> FALSE]]
        /\ Answer(a, "INTERNAL_ERROR")
        /\ disturbed' = disturbed \cup {k}
        /\ UNCHANGED <<resolved, ordered, completing, earlier>>

------------------------------------------------------------------------------
(* The handler, and res.json as the middleware wrapped it *)

\* Mutant of Respond: only a success is stored.
RespondStoringSuccess(a, what) ==
    /\ Answer(a, what)
    /\ completing' = IF what = "CREATED" THEN completing \cup {a} ELSE completing

\* captureResponse starts completeIdempotency and does not wait for it.
Respond(a, what) ==
    /\ Answer(a, what)
    /\ completing' = completing \cup {a}

\* The transaction of createOrder committed (StockTransactions has its steps).
OrderCommits(a) ==
    /\ pc[a] = "handling"
    /\ ordered' = ordered \cup {a}
    /\ Goto(a, "committed")
    /\ UNCHANGED <<record, answer, resolved, completing, earlier, disturbed>>

\* A 400 of validation, a 404 or 409 of the service, or a 500 of the
\* transaction: the order is not in the tables.
OrderRejected(a, what) ==
    /\ pc[a] = "handling"
    /\ what \in {"REFUSED", "ORDER_CREATE_FAILED"}
    /\ Respond(a, what)
    /\ UNCHANGED <<record, resolved, ordered, earlier, disturbed>>

\* findByPk reads the order back for the answer.
ReadBack(a) ==
    /\ pc[a] = "committed"
    /\ Goto(a, "invalidating")
    /\ UNCHANGED <<record, answer, resolved, ordered, completing, earlier, disturbed>>

\* Mutant of RespondCreated: the transaction is not awaited.
RespondCreatedEarly(a) ==
    /\ pc[a] \in {"handling", "invalidating"}
    /\ Respond(a, "CREATED")
    /\ UNCHANGED <<record, resolved, ordered, earlier, disturbed>>

\* invalidateCache, then the 201.
RespondCreated(a) ==
    /\ pc[a] = "invalidating"
    /\ Respond(a, "CREATED")
    /\ UNCHANGED <<record, resolved, ordered, earlier, disturbed>>

\* The read-back or the cache scan throws after the commit: the controller's
\* catch answers as if the order had failed.
FailAfterCommit(a) ==
    /\ pc[a] \in {"committed", "invalidating"}
    /\ Respond(a, "ORDER_CREATE_FAILED")
    /\ UNCHANGED <<record, resolved, ordered, earlier, disturbed>>

\* Mutant of CompleteIdempotency: a failed order leaves a status of its own.
CompleteMarkingFailures(a) ==
    /\ a \in completing
    /\ record' = [record EXCEPT
                    ![KeyOf[a]].status = IF answer[a] = "ORDER_CREATE_FAILED"
                                         THEN "failed" ELSE "completed",
                    ![KeyOf[a]].answer = answer[a]]
    /\ completing' = completing \ {a}
    /\ UNCHANGED <<pc, answer, resolved, ordered, earlier, disturbed>>

CompleteIdempotency(a) ==
    /\ a \in completing
    /\ record' = [record EXCEPT ![KeyOf[a]].status = "completed",
                                ![KeyOf[a]].answer = answer[a]]
    /\ completing' = completing \ {a}
    /\ UNCHANGED <<pc, answer, resolved, ordered, earlier, disturbed>>

\* Logged and otherwise ignored.
CompleteFails(a) ==
    /\ a \in completing
    /\ completing' = completing \ {a}
    /\ disturbed' = disturbed \cup {KeyOf[a]}
    /\ UNCHANGED <<record, pc, answer, resolved, ordered, earlier>>

------------------------------------------------------------------------------
(* Time and crashes *)

\* 24 hours pass: long after every attempt under the key is over.  The row is
\* never deleted.
Expire(k) ==
    /\ Active(k)
    /\ \A a \in Attempts : KeyOf[a] = k => ~Running(a) /\ a \notin completing
    /\ record' = [record EXCEPT ![k].expired = TRUE]
    /\ UNCHANGED <<pc, answer, resolved, ordered, completing, earlier, disturbed>>

\* The server process dies with what it was doing; committed rows stay.
Crash ==
    /\ completing # {} \/ \E a \in Attempts : Running(a)
    /\ pc' = [a \in Attempts |-> IF Running(a) THEN "lost" ELSE pc[a]]
    /\ disturbed' = disturbed \cup {KeyOf[a] : a \in {b \in Attempts : Running(b) \/ b \in completing}}
    /\ completing' = {}
    /\ UNCHANGED <<record, answer, resolved, ordered, earlier>>

Step(a) ==
    \/ FindExisting(a) \/ CreateRecord(a) \/ FindRaced(a)
    \/ OrderCommits(a) \/ (\E what \in Answers : OrderRejected(a, what))
    \/ ReadBack(a) \/ RespondCreated(a)

Complete(a) == CompleteIdempotency(a)

Fault(a) ==
    \/ ResolveFails(a) \/ CreateUnacknowledged(a)
    \/ FailAfterCommit(a) \/ CompleteFails(a)

Next ==
    \/ \E a \in Attempts : Send(a) \/ Step(a) \/ Complete(a) \/ Fault(a)
    \/ \E k \in Keys : Expire(k)
    \/ Crash

\* A running handler goes on and a started write ends.
Fairness == \A a \in Attempts : WF_vars(Step(a)) /\ WF_vars(Complete(a))

Spec == Init /\ [][Next]_vars /\ Fairness

------------------------------------------------------------------------------
(* Properties *)

Record == [status : {"none", "processing", "completed"},
           requestHash : Bodies \cup {None},
           answer : Answers \cup {None},
           expired : BOOLEAN]

TypeOK ==
    /\ record \in [Keys -> Record]
    /\ pc \in [Attempts -> {"idle", "lookup", "create", "refetch", "handling",
                            "committed", "invalidating", "answered", "lost"}]
    /\ answer \in [Attempts -> Answers \cup {None}]
    /\ resolved \in [Attempts -> {"no", "new", "replay"}]
    /\ ordered \subseteq Attempts
    /\ completing \subseteq Attempts
    /\ earlier \in [Attempts -> SUBSET Attempts]
    /\ disturbed \subseteq Keys

(* However often and however concurrently a client retries under one key,   *)
(* through crashes, failed writes and even the key's expiry, one order at   *)
(* most is placed.                                                          *)
AtMostOneOrder == \A a, b \in ordered : KeyOf[a] = KeyOf[b] => a = b

(* A replayed answer is the answer that the one attempt which ran the       *)
(* handler, with the same body, was given.                                  *)
ReplayFaithful ==
    \A a \in Attempts : resolved[a] = "replay" =>
        \E b \in Attempts :
            /\ resolved[b] = "new" /\ pc[b] = "answered"
            /\ KeyOf[b] = KeyOf[a] /\ BodyOf[b] = BodyOf[a]
            /\ answer[a] = answer[b]

(* Whoever is told 201 has an order with the body it sent.                  *)
CreatedMeansOrdered ==
    \A a \in Attempts : answer[a] = "CREATED" =>
        \E b \in ordered : KeyOf[b] = KeyOf[a] /\ BodyOf[b] = BodyOf[a]

(* A stored answer is what every later retry sees: no late write replaces   *)
(* it, and the row keeps the body it was created for.                       *)
StoredAnswerFinal ==
    [][\A k \in Keys : record[k].status = "completed" =>
          /\ record'[k].status = "completed"
          /\ record'[k].answer = record[k].answer
          /\ record'[k].requestHash = record[k].requestHash]_vars

(* Every attempt ends.                                                      *)
EveryAttemptEnds == \A a \in Attempts : Running(a) ~> ~Running(a)

(* Where nothing failed, a key does not stay "in progress": its row gets    *)
(* the answer.                                                              *)
EveryKeyCompletes ==
    \A k \in Keys :
        record[k].status = "processing" ~>
            (record[k].status = "completed" \/ k \in disturbed)

(* Claimed by tests/idempotency/idempotency.api.test.ts:65, a retry sent    *)
(* after a 201 is answered 201.  It may meet the row while the write that   *)
(* completes it is still under way.                                         *)
RetryAfterCreatedReplays ==
    \A a \in Attempts, b \in Attempts :
        (/\ b \in earlier[a] /\ answer[b] = "CREATED"
         /\ KeyOf[a] = KeyOf[b] /\ BodyOf[a] = BodyOf[b])
        => answer[a] # "IDEMPOTENCY_IN_PROGRESS"

(* Claimed by the message of the service (idempotency.service.ts:69), a     *)
(* request with this key is still being processed.  After a crash no        *)
(* process knows of the row any more.                                       *)
InProgressIsTrue ==
    [][\A a \in Attempts :
          answer[a] # answer'[a] /\ answer'[a] = "IDEMPOTENCY_IN_PROGRESS" =>
              \E b \in Peers(a) \ {a} : Handling(b) \/ b \in completing]_vars

(* Claimed by README.md:31, retries are safe.  A retry after the expiry     *)
(* runs into the row it no longer sees and is answered 500, though nothing  *)
(* failed.                                                                  *)
RetryNeedsNoFault ==
    \A a \in Attempts : answer[a] = "INTERNAL_ERROR" => KeyOf[a] \in disturbed

(* Claimed by the error code of the controller (Order.controller.ts:40),    *)
(* creating the order failed.  It also answers a failure after the commit.  *)
FailedMeansNotOrdered ==
    \A a \in ordered : answer[a] # "ORDER_CREATE_FAILED"
==============================================================================
