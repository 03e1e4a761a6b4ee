-------------------------- MODULE Idempotency_proofs --------------------------
(***************************************************************************)
(* Proofs about Idempotency, for any number of attempts, keys and bodies:  *)
(* at most one order per key, faithful replays, final stored answers, what *)
(* a row in progress means, and why an attempt ends.                       *)
(***************************************************************************)
EXTENDS Idempotency, TLAPS

(* The attempt that inserted the row of a key is the only one that may run  *)
(* the handler, for as long as the row exists, and rows are never deleted.  *)
OwnerInv ==
    /\ \A a \in Attempts : resolved[a] = "new" =>
          Exists(KeyOf[a]) /\ record[KeyOf[a]].requestHash = BodyOf[a]
    /\ \A a, b \in Attempts :
          resolved[a] = "new" /\ resolved[b] = "new" /\ KeyOf[a] = KeyOf[b] => a = b
    /\ \A a \in Attempts : Handling(a) \/ a \in completing \/ a \in ordered =>
          resolved[a] = "new"
    /\ \A a \in Attempts : pc[a] \in {"idle", "lookup", "create", "refetch"} =>
          resolved[a] = "no"

(* The row turns from "processing" to "completed" once, with its owner's    *)
(* answer.                                                                  *)
RowInv ==
    /\ \A a \in Attempts : Handling(a) \/ a \in completing =>
          record[KeyOf[a]].status = "processing"
    /\ \A k \in Keys : record[k].status = "completed" =>
          \E b \in Attempts :
              /\ resolved[b] = "new" /\ pc[b] = "answered"
              /\ KeyOf[b] = k /\ BodyOf[b] = record[k].requestHash
              /\ answer[b] = record[k].answer

AnswerInv ==
    /\ \A a \in completing : pc[a] = "answered"
    /\ \A a \in Attempts :
          /\ pc[a] = "answered" <=> answer[a] # None
          /\ resolved[a] = "no" => answer[a] \notin HandlerAnswers
          /\ pc[a] \in {"committed", "invalidating"} => a \in ordered
          /\ resolved[a] = "new" /\ answer[a] = "CREATED" => a \in ordered

IInv == TypeOK /\ OwnerInv /\ RowInv /\ AnswerInv /\ ReplayFaithful

(* No attempt has been sent.                                                *)
LEMMA InitIInv == Init => IInv
  BY AttemptsAssumption, NoneAssumption
     DEF Init, IInv, TypeOK, OwnerInv, RowInv, AnswerInv, ReplayFaithful,
         NoRecord, Record, Exists, Handling, HandlerAnswers, Answers

(* A new attempt knows nothing.                                             *)
LEMMA SendInv ==
    ASSUME IInv, NEW a \in Attempts, Send(a)
    PROVE  IInv'
  <1> USE AttemptsAssumption, NoneAssumption
      DEF Send, Goto, Answer, IInv, Answers, HandlerAnswers
  <1>1. TypeOK'
    BY DEF TypeOK, Record
  <1>2. OwnerInv'
    BY DEF TypeOK, OwnerInv, Exists, Handling, Record
  <1>3. RowInv'
    BY DEF TypeOK, RowInv, OwnerInv, Exists, Handling, Record, AnswerInv
  <1>4. AnswerInv'
    BY DEF TypeOK, AnswerInv, OwnerInv, RowInv, Handling, Record
  <1>5. ReplayFaithful'
    BY DEF TypeOK, ReplayFaithful, AnswerInv, RowInv, OwnerInv, Exists, Handling
  <1> QED
    BY <1>1, <1>2, <1>3, <1>4, <1>5

(* A refusal changes no row; a replay takes the stored answer.              *)
LEMMA JudgeInv ==
    ASSUME IInv, NEW a \in Attempts, Judge(a), pc[a] \in {"lookup", "refetch"},
           Active(KeyOf[a]), UNCHANGED <<record, ordered, completing, earlier, disturbed>>
    PROVE  IInv'
  <1> USE AttemptsAssumption, NoneAssumption
      DEF Judge, Active, Goto, Answer, IInv, Answers, HandlerAnswers
  <1>1. TypeOK'
    <2>1. record[KeyOf[a]].answer \in Answers \cup {None}
      BY DEF TypeOK, Record
    <2> QED
      BY <2>1 DEF TypeOK
  <1>2. OwnerInv'
    BY DEF TypeOK, OwnerInv, Exists, Handling, Record
  <1>3. RowInv'
    <2>1. \A b \in Attempts \ {a} : /\ pc'[b] = pc[b] /\ answer'[b] = answer[b]
                                   /\ resolved'[b] = resolved[b]
      BY DEF TypeOK
    <2>2. ~Handling(a)' /\ a \notin completing' /\ resolved[a] # "new"
      BY DEF TypeOK, Handling, OwnerInv, AnswerInv
    <2> QED
      BY <2>1, <2>2 DEF RowInv, Handling
  <1>4. AnswerInv'
    BY DEF TypeOK, AnswerInv, OwnerInv, RowInv, Handling, Record
  <1>5. ReplayFaithful'
    BY DEF TypeOK, ReplayFaithful, AnswerInv, RowInv, OwnerInv, Exists, Handling
  <1> QED
    BY <1>1, <1>2, <1>3, <1>4, <1>5

(* The attempt that inserts the row becomes its owner.                      *)
LEMMA CreateRecordInv ==
    ASSUME IInv, NEW a \in Attempts, CreateRecord(a)
    PROVE  IInv'
  <1> USE AttemptsAssumption, NoneAssumption
      DEF CreateRecord, Goto, Answer, IInv, Answers, HandlerAnswers
  <1>1. CASE ~Exists(KeyOf[a])
    <2>0. /\ record' = [record EXCEPT ![KeyOf[a]] =
                          [status |-> "processing", requestHash |-> BodyOf[a],
                           answer |-> None, expired |-> FALSE]]
          /\ resolved' = [resolved EXCEPT ![a] = "new"]
          /\ pc' = [pc EXCEPT ![a] = "handling"]
          /\ UNCHANGED <<answer, ordered, completing, earlier, disturbed>>
      BY <1>1
    <2>1. TypeOK'
      BY <1>1, <2>0 DEF TypeOK, Record
    <2>2. OwnerInv'
      BY <1>1, <2>0 DEF TypeOK, OwnerInv, Exists, Handling, Record
    <2>3. RowInv'
      BY <1>1, <2>0 DEF TypeOK, RowInv, OwnerInv, Exists, Handling, Record, AnswerInv
    <2>4. AnswerInv'
      BY <1>1, <2>0 DEF TypeOK, AnswerInv, OwnerInv, RowInv, Handling, Record
    <2>5. ReplayFaithful'
      BY <1>1, <2>0 DEF TypeOK, ReplayFaithful, AnswerInv, RowInv, OwnerInv, Exists, Handling
    <2> QED
      BY <2>1, <2>2, <2>3, <2>4, <2>5
  <1>2. CASE Exists(KeyOf[a])
    <2>1. TypeOK'
      BY <1>2 DEF TypeOK, Record
    <2>2. OwnerInv'
      BY <1>2 DEF TypeOK, OwnerInv, Exists, Handling, Record
    <2>3. RowInv'
      BY <1>2 DEF TypeOK, RowInv, OwnerInv, Exists, Handling, Record, AnswerInv
    <2>4. AnswerInv'
      BY <1>2 DEF TypeOK, AnswerInv, OwnerInv, RowInv, Handling, Record
    <2>5. ReplayFaithful'
      BY <1>2 DEF TypeOK, ReplayFaithful, AnswerInv, RowInv, OwnerInv, Exists, Handling
    <2> QED
      BY <2>1, <2>2, <2>3, <2>4, <2>5
  <1> QED
    BY <1>1, <1>2

(* The first lookup.                                                        *)
LEMMA FindExistingInv ==
    ASSUME IInv, NEW a \in Attempts, FindExisting(a)
    PROVE  IInv'
  <1> USE AttemptsAssumption, NoneAssumption
      DEF FindExisting, Goto, Answer, IInv, Answers, HandlerAnswers
  <1>1. CASE Active(KeyOf[a]) /\ Judge(a)
    BY <1>1, JudgeInv
  <1>2. CASE ~Active(KeyOf[a])
    <2>1. TypeOK'
      BY <1>2 DEF TypeOK, Record
    <2>2. OwnerInv'
      BY <1>2 DEF TypeOK, OwnerInv, Exists, Handling, Record
    <2>3. RowInv'
      BY <1>2 DEF TypeOK, RowInv, OwnerInv, Exists, Handling, Record, AnswerInv
    <2>4. AnswerInv'
      BY <1>2 DEF TypeOK, AnswerInv, OwnerInv, RowInv, Handling, Record
    <2>5. ReplayFaithful'
      BY <1>2 DEF TypeOK, ReplayFaithful, AnswerInv, RowInv, OwnerInv, Exists, Handling
    <2> QED
      BY <2>1, <2>2, <2>3, <2>4, <2>5
  <1> QED
    BY <1>1, <1>2

(* The lookup after a lost race.                                            *)
LEMMA FindRacedInv ==
    ASSUME IInv, NEW a \in Attempts, FindRaced(a)
    PROVE  IInv'
  <1> USE AttemptsAssumption, NoneAssumption
      DEF FindRaced, Goto, Answer, IInv, Answers, HandlerAnswers
  <1>1. CASE Active(KeyOf[a]) /\ Judge(a)
    BY <1>1, JudgeInv
  <1>2. CASE ~Active(KeyOf[a])
    <2>0. /\ pc' = [pc EXCEPT ![a] = "answered"]
          /\ answer' = [answer EXCEPT ![a] = "INTERNAL_ERROR"]
          /\ UNCHANGED <<record, resolved, ordered, completing, earlier, disturbed>>
      BY <1>2
    <2>1. TypeOK'
      BY <1>2, <2>0 DEF TypeOK, Record
    <2>2. OwnerInv'
      BY <1>2, <2>0 DEF TypeOK, OwnerInv, Exists, Handling, Record
    <2>3. RowInv'
      BY <1>2, <2>0 DEF TypeOK, RowInv, OwnerInv, Exists, Handling, Record, AnswerInv
    <2>4. AnswerInv'
      BY <1>2, <2>0 DEF TypeOK, AnswerInv, OwnerInv, RowInv, Handling, Record
    <2>5. ReplayFaithful'
      BY <1>2, <2>0 DEF TypeOK, ReplayFaithful, AnswerInv, RowInv, OwnerInv, Exists, Handling
    <2> QED
      BY <2>1, <2>2, <2>3, <2>4, <2>5
  <1> QED
    BY <1>1, <1>2

(* A failed query leaves the rows alone.                                    *)
LEMMA ResolveFailsInv ==
    ASSUME IInv, NEW a \in Attempts, ResolveFails(a)
    PROVE  IInv'
  <1> USE AttemptsAssumption, NoneAssumption
      DEF ResolveFails, Goto, Answer, IInv, Answers, HandlerAnswers
  <1>1. TypeOK'
    BY DEF TypeOK, Record
  <1>2. OwnerInv'
    BY DEF TypeOK, OwnerInv, Exists, Handling, Record
  <1>3. RowInv'
    BY DEF TypeOK, RowInv, OwnerInv, Exists, Handling, Record, AnswerInv
  <1>4. AnswerInv'
    BY DEF TypeOK, AnswerInv, OwnerInv, RowInv, Handling, Record
  <1>5. ReplayFaithful'
    BY DEF TypeOK, ReplayFaithful, AnswerInv, RowInv, OwnerInv, Exists, Handling
  <1> QED
    BY <1>1, <1>2, <1>3, <1>4, <1>5

(* A row without owner runs no handler.                                     *)
LEMMA CreateUnacknowledgedInv ==
    ASSUME IInv, NEW a \in Attempts, CreateUnacknowledged(a)
    PROVE  IInv'
  <1> USE AttemptsAssumption, NoneAssumption
      DEF CreateUnacknowledged, Goto, Answer, IInv, Answers, HandlerAnswers
  <1>1. TypeOK'
    BY DEF TypeOK, Record
  <1>2. OwnerInv'
    BY DEF TypeOK, OwnerInv, Exists, Handling, Record
  <1>3. RowInv'
    BY DEF TypeOK, RowInv, OwnerInv, Exists, Handling, Record, AnswerInv
  <1>4. AnswerInv'
    BY DEF TypeOK, AnswerInv, OwnerInv, RowInv, Handling, Record
  <1>5. ReplayFaithful'
    BY DEF TypeOK, ReplayFaithful, AnswerInv, RowInv, OwnerInv, Exists, Handling
  <1> QED
    BY <1>1, <1>2, <1>3, <1>4, <1>5

(* The owner's order.                                                       *)
LEMMA OrderCommitsInv ==
    ASSUME IInv, NEW a \in Attempts, OrderCommits(a)
    PROVE  IInv'
  <1> USE AttemptsAssumption, NoneAssumption
      DEF OrderCommits, Goto, Answer, IInv, Answers, HandlerAnswers
  <1>1. TypeOK'
    BY DEF TypeOK, Record
  <1>2. OwnerInv'
    BY DEF TypeOK, OwnerInv, Exists, Handling, Record
  <1>3. RowInv'
    BY DEF TypeOK, RowInv, OwnerInv, Exists, Handling, Record, AnswerInv
  <1>4. AnswerInv'
    BY DEF TypeOK, AnswerInv, OwnerInv, RowInv, Handling, Record
  <1>5. ReplayFaithful'
    BY DEF TypeOK, ReplayFaithful, AnswerInv, RowInv, OwnerInv, Exists, Handling
  <1> QED
    BY <1>1, <1>2, <1>3, <1>4, <1>5

(* The owner answers without an order.                                      *)
LEMMA OrderRejectedInv ==
    ASSUME IInv, NEW a \in Attempts, NEW what \in Answers, OrderRejected(a, what)
    PROVE  IInv'
  <1> USE AttemptsAssumption, NoneAssumption
      DEF OrderRejected, Respond, Goto, Answer, IInv, Answers, HandlerAnswers
  <1>1. TypeOK'
    BY DEF TypeOK, Record
  <1>2. OwnerInv'
    BY DEF TypeOK, OwnerInv, Exists, Handling, Record
  <1>3. RowInv'
    BY DEF TypeOK, RowInv, OwnerInv, Exists, Handling, Record, AnswerInv
  <1>4. AnswerInv'
    BY DEF TypeOK, AnswerInv, OwnerInv, RowInv, Handling, Record
  <1>5. ReplayFaithful'
    BY DEF TypeOK, ReplayFaithful, AnswerInv, RowInv, OwnerInv, Exists, Handling
  <1> QED
    BY <1>1, <1>2, <1>3, <1>4, <1>5

(* Still the owner.                                                         *)
LEMMA ReadBackInv ==
    ASSUME IInv, NEW a \in Attempts, ReadBack(a)
    PROVE  IInv'
  <1> USE AttemptsAssumption, NoneAssumption
      DEF ReadBack, Goto, Answer, IInv, Answers, HandlerAnswers
  <1>1. TypeOK'
    BY DEF TypeOK, Record
  <1>2. OwnerInv'
    BY DEF TypeOK, OwnerInv, Exists, Handling, Record
  <1>3. RowInv'
    BY DEF TypeOK, RowInv, OwnerInv, Exists, Handling, Record, AnswerInv
  <1>4. AnswerInv'
    BY DEF TypeOK, AnswerInv, OwnerInv, RowInv, Handling, Record
  <1>5. ReplayFaithful'
    BY DEF TypeOK, ReplayFaithful, AnswerInv, RowInv, OwnerInv, Exists, Handling
  <1> QED
    BY <1>1, <1>2, <1>3, <1>4, <1>5

(* The owner answers after its order.                                       *)
LEMMA RespondCreatedInv ==
    ASSUME IInv, NEW a \in Attempts, RespondCreated(a)
    PROVE  IInv'
  <1> USE AttemptsAssumption, NoneAssumption
      DEF RespondCreated, Respond, Goto, Answer, IInv, Answers, HandlerAnswers
  <1>1. TypeOK'
    BY DEF TypeOK, Record
  <1>2. OwnerInv'
    BY DEF TypeOK, OwnerInv, Exists, Handling, Record
  <1>3. RowInv'
    BY DEF TypeOK, RowInv, OwnerInv, Exists, Handling, Record, AnswerInv
  <1>4. AnswerInv'
    BY DEF TypeOK, AnswerInv, OwnerInv, RowInv, Handling, Record
  <1>5. ReplayFaithful'
    BY DEF TypeOK, ReplayFaithful, AnswerInv, RowInv, OwnerInv, Exists, Handling
  <1> QED
    BY <1>1, <1>2, <1>3, <1>4, <1>5

(* The owner fails after its order.                                         *)
LEMMA FailAfterCommitInv ==
    ASSUME IInv, NEW a \in Attempts, FailAfterCommit(a)
    PROVE  IInv'
  <1> USE AttemptsAssumption, NoneAssumption
      DEF FailAfterCommit, Respond, Goto, Answer, IInv, Answers, HandlerAnswers
  <1>1. TypeOK'
    BY DEF TypeOK, Record
  <1>2. OwnerInv'
    BY DEF TypeOK, OwnerInv, Exists, Handling, Record
  <1>3. RowInv'
    BY DEF TypeOK, RowInv, OwnerInv, Exists, Handling, Record, AnswerInv
  <1>4. AnswerInv'
    BY DEF TypeOK, AnswerInv, OwnerInv, RowInv, Handling, Record
  <1>5. ReplayFaithful'
    BY DEF TypeOK, ReplayFaithful, AnswerInv, RowInv, OwnerInv, Exists, Handling
  <1> QED
    BY <1>1, <1>2, <1>3, <1>4, <1>5

(* The owner's answer is stored.                                            *)
LEMMA CompleteIdempotencyInv ==
    ASSUME IInv, NEW a \in Attempts, CompleteIdempotency(a)
    PROVE  IInv'
  <1> USE AttemptsAssumption, NoneAssumption
      DEF CompleteIdempotency, Goto, Answer, IInv, Answers, HandlerAnswers
  <1>1. TypeOK'
    <2>1. record[KeyOf[a]] \in Record /\ answer[a] \in Answers \cup {None}
      BY DEF TypeOK
    <2>2. record' = [record EXCEPT ![KeyOf[a]] =
                       [record[KeyOf[a]] EXCEPT !.status = "completed", !.answer = answer[a]]]
      BY DEF TypeOK
    <2>3. [record[KeyOf[a]] EXCEPT !.status = "completed", !.answer = answer[a]] \in Record
      BY <2>1 DEF Record
    <2> QED
      BY <2>2, <2>3 DEF TypeOK
  <1>2. OwnerInv'
    BY DEF TypeOK, OwnerInv, Exists, Handling, Record
  <1>3. RowInv'
    BY DEF TypeOK, RowInv, OwnerInv, Exists, Handling, Record, AnswerInv
  <1>4. AnswerInv'
    BY DEF TypeOK, AnswerInv, OwnerInv, RowInv, Handling, Record
  <1>5. ReplayFaithful'
    BY DEF TypeOK, ReplayFaithful, AnswerInv, RowInv, OwnerInv, Exists, Handling
  <1> QED
    BY <1>1, <1>2, <1>3, <1>4, <1>5

(* The row stays as it was.                                                 *)
LEMMA CompleteFailsInv ==
    ASSUME IInv, NEW a \in Attempts, CompleteFails(a)
    PROVE  IInv'
  <1> USE AttemptsAssumption, NoneAssumption
      DEF CompleteFails, Goto, Answer, IInv, Answers, HandlerAnswers
  <1>1. TypeOK'
    BY DEF TypeOK, Record
  <1>2. OwnerInv'
    BY DEF TypeOK, OwnerInv, Exists, Handling, Record
  <1>3. RowInv'
    BY DEF TypeOK, RowInv, OwnerInv, Exists, Handling, Record, AnswerInv
  <1>4. AnswerInv'
    BY DEF TypeOK, AnswerInv, OwnerInv, RowInv, Handling, Record
  <1>5. ReplayFaithful'
    BY DEF TypeOK, ReplayFaithful, AnswerInv, RowInv, OwnerInv, Exists, Handling
  <1> QED
    BY <1>1, <1>2, <1>3, <1>4, <1>5

(* Expiry does not delete the row.                                          *)
LEMMA ExpireInv ==
    ASSUME IInv, NEW k \in Keys, Expire(k)
    PROVE  IInv'
  <1> USE AttemptsAssumption, NoneAssumption
      DEF Expire, IInv, Answers, HandlerAnswers
  <1>1. TypeOK'
    <2>1. record' \in [Keys -> Record]
      <3>1. record' = [record EXCEPT ![k] = [record[k] EXCEPT !.expired = TRUE]]
        OBVIOUS
      <3>2. record[k] \in Record => [record[k] EXCEPT !.expired = TRUE] \in Record
        BY DEF Record
      <3> QED
        BY <3>1, <3>2 DEF TypeOK
    <2> QED
      BY <2>1 DEF TypeOK
  <1>2. OwnerInv'
    BY DEF TypeOK, OwnerInv, Exists, Handling, Record
  <1>3. RowInv'
    BY DEF TypeOK, RowInv, Handling, Record
  <1>4. AnswerInv' /\ ReplayFaithful'
    BY DEF TypeOK, AnswerInv, ReplayFaithful
  <1> QED
    BY <1>1, <1>2, <1>3, <1>4

(* A crash ends handlers and writes; rows and answers stay.                 *)
LEMMA CrashInv ==
    ASSUME IInv, Crash
    PROVE  IInv'
  <1> USE AttemptsAssumption, NoneAssumption
      DEF Crash, Running, IInv, Answers, HandlerAnswers
  <1>1. TypeOK'
    BY DEF TypeOK
  <1>2. OwnerInv'
    BY DEF TypeOK, OwnerInv, Exists, Handling
  <1>3. RowInv'
    BY DEF TypeOK, RowInv, Handling
  <1>4. AnswerInv' /\ ReplayFaithful'
    BY DEF TypeOK, AnswerInv, ReplayFaithful
  <1> QED
    BY <1>1, <1>2, <1>3, <1>4

(* Every step keeps the inductive invariant.                                *)
LEMMA NextIInv == IInv /\ [Next]_vars => IInv'
  <1> SUFFICES ASSUME IInv, [Next]_vars PROVE IInv'
    OBVIOUS
  <1>1. CASE UNCHANGED vars
    BY <1>1 DEF vars, IInv, TypeOK, OwnerInv, RowInv, AnswerInv, ReplayFaithful,
                Exists, Handling
  <1>2. ASSUME NEW a \in Attempts, Send(a) \/ Step(a) \/ Complete(a) \/ Fault(a)
        PROVE  IInv'
    BY <1>2, SendInv, FindExistingInv, CreateRecordInv, FindRacedInv, OrderCommitsInv,
       OrderRejectedInv, ReadBackInv, RespondCreatedInv, CompleteIdempotencyInv,
       ResolveFailsInv, CreateUnacknowledgedInv, FailAfterCommitInv, CompleteFailsInv
       DEF Step, Complete, Fault
  <1>3. ASSUME NEW k \in Keys, Expire(k)
        PROVE  IInv'
    BY <1>3, ExpireInv
  <1>4. CASE Crash
    BY <1>4, CrashInv
  <1> QED
    BY <1>1, <1>2, <1>3, <1>4 DEF Next

------------------------------------------------------------------------------
(* The invariant of rows, owners and answers holds throughout.              *)
THEOREM Invariance == Spec => []IInv
  <1>1. Init => IInv
    BY InitIInv
  <1>2. IInv /\ [Next]_vars => IInv'
    BY NextIInv
  <1> QED
    BY <1>1, <1>2, PTL DEF Spec

(* Rows, answers and program points stay within their types.                *)
THEOREM TypeCorrect == Spec => []TypeOK
  <1>1. IInv => TypeOK
    BY DEF IInv
  <1> QED
    BY <1>1, Invariance, PTL

(* Retries under one key never place a second order, whatever fails.        *)
THEOREM OneOrderPerKey == Spec => []AtMostOneOrder
  <1>1. IInv => AtMostOneOrder
    BY DEF IInv, OwnerInv, TypeOK, AtMostOneOrder
  <1> QED
    BY <1>1, Invariance, PTL

(* A replay repeats what the owner of the key was answered.                 *)
THEOREM ReplaysFaithful == Spec => []ReplayFaithful
  <1>1. IInv => ReplayFaithful
    BY DEF IInv
  <1> QED
    BY <1>1, Invariance, PTL

(* A 201, first-hand or replayed, means the order exists.                   *)
THEOREM CreatedIsOrdered == Spec => []CreatedMeansOrdered
  <1>1. IInv => CreatedMeansOrdered
    <2> SUFFICES ASSUME IInv, NEW a \in Attempts, answer[a] = "CREATED"
                 PROVE  \E b \in ordered : KeyOf[b] = KeyOf[a] /\ BodyOf[b] = BodyOf[a]
      BY DEF CreatedMeansOrdered
    <2>1. resolved[a] \in {"new", "replay"}
      BY DEF IInv, TypeOK, AnswerInv, HandlerAnswers
    <2>2. CASE resolved[a] = "new"
      BY <2>2 DEF IInv, AnswerInv
    <2>3. CASE resolved[a] = "replay"
      BY <2>3 DEF IInv, AnswerInv, ReplayFaithful
    <2> QED
      BY <2>1, <2>2, <2>3
  <1> QED
    BY <1>1, Invariance, PTL

(* The first completion of a row is the last.                               *)
THEOREM StoredAnswersFinal == Spec => StoredAnswerFinal
  <1> DEFINE Kept == \A k \in Keys : record[k].status = "completed" =>
                        /\ record'[k].status = "completed"
                        /\ record'[k].answer = record[k].answer
                        /\ record'[k].requestHash = record[k].requestHash
  <1>1. IInv /\ [Next]_vars => [Kept]_vars
    <2> SUFFICES ASSUME IInv, Next PROVE Kept
      OBVIOUS
    <2>1. CASE UNCHANGED record
      BY <2>1
    <2>2. ASSUME NEW a \in Attempts, CreateRecord(a) \/ CreateUnacknowledged(a), record' # record
          PROVE  Kept
      BY <2>2, AttemptsAssumption DEF CreateRecord, CreateUnacknowledged, Exists, IInv, TypeOK
    <2>3. ASSUME NEW a \in Attempts, CompleteIdempotency(a)
          PROVE  Kept
      BY <2>3, AttemptsAssumption DEF CompleteIdempotency, IInv, TypeOK, RowInv
    <2>4. ASSUME NEW k \in Keys, Expire(k)
          PROVE  Kept
      BY <2>4 DEF Expire, IInv, TypeOK, Record
    <2> QED
      BY <2>1, <2>2, <2>3, <2>4
         DEF Next, Step, Complete, Fault, Send, FindExisting, FindRaced, ResolveFails,
             OrderCommits, OrderRejected, ReadBack, RespondCreated, FailAfterCommit,
             CompleteFails, Crash
  <1> QED
    BY <1>1, Invariance, PTL DEF Spec, StoredAnswerFinal

------------------------------------------------------------------------------
(* What is true of the claims that a run refutes *)

(* An undisturbed row that is in progress has its attempt: the handler runs *)
(* or the write that completes the row is under way.  Who lost the race for *)
(* the row looks it up again, and rows are never deleted.  What an owner is *)
(* answered comes from the handler.                                         *)
ProcessingInv ==
    /\ \A k \in Keys : record[k].status = "processing" =>
          \/ k \in disturbed
          \/ \E a \in Attempts : KeyOf[a] = k /\ (Handling(a) \/ a \in completing)
    /\ \A k \in Keys : record[k].expired => Exists(k)
    /\ \A a \in Attempts : pc[a] = "refetch" => Exists(KeyOf[a])
    /\ \A a \in Attempts : resolved[a] = "new" => answer[a] \in HandlerAnswers \cup {None}

ErrorsExplained ==
    \A a \in Attempts : answer[a] = "INTERNAL_ERROR" =>
        KeyOf[a] \in disturbed \/ record[KeyOf[a]].expired

InProgressExplained ==
    [][\A a \in Attempts :
          answer[a] # answer'[a] /\ answer'[a] = "IDEMPOTENCY_IN_PROGRESS" =>
              \/ KeyOf[a] \in disturbed
              \/ \E b \in Peers(a) \ {a} : Handling(b) \/ b \in completing]_vars

PInv == ProcessingInv /\ ErrorsExplained

(* An attempt that does not handle yet goes on: rows stay as they are, and  *)
(* a row that is there but not active has expired.                          *)
LEMMA LookupKeepsProcessing ==
    ASSUME IInv, PInv, NEW a \in Attempts, Send(a) \/ FindExisting(a) \/ FindRaced(a)
    PROVE  PInv'
  <1> USE AttemptsAssumption, NoneAssumption DEF Send, FindExisting, FindRaced, IInv
  <1>1. /\ UNCHANGED <<record, completing, disturbed>>
        /\ pc[a] \in {"idle", "lookup", "refetch"}
        /\ pc'[a] \in {"lookup", "create", "answered"}
        /\ resolved'[a] # "new"
        /\ \A b \in Attempts \ {a} :
               pc'[b] = pc[b] /\ answer'[b] = answer[b] /\ resolved'[b] = resolved[b]
    BY DEF Goto, Answer, Judge, TypeOK, OwnerInv
  <1>2. ProcessingInv'
    BY <1>1 DEF PInv, ProcessingInv, Handling, Exists
  <1>3. ASSUME answer'[a] = "INTERNAL_ERROR"
        PROVE  KeyOf[a] \in disturbed \/ record[KeyOf[a]].expired
    <2>1. answer[a] = None
      BY <1>1 DEF AnswerInv, TypeOK
    <2>2. CASE Judge(a)
      <3>1. PICK b \in Attempts : resolved[b] = "new" /\ answer[b] = answer'[a]
        BY <1>3, <2>2 DEF Judge, Answer, TypeOK, RowInv
      <3> QED
        BY <1>3, <3>1 DEF PInv, ProcessingInv, HandlerAnswers, Answers
    <2>3. CASE pc[a] = "refetch" /\ ~Active(KeyOf[a])
      BY <2>3 DEF PInv, ProcessingInv, Active
    <2>4. Judge(a) \/ (pc[a] = "refetch" /\ ~Active(KeyOf[a])) \/ answer' = answer
      OBVIOUS
    <2> QED
      BY <1>3, <2>1, <2>2, <2>3, <2>4 DEF Answers
  <1>4. ErrorsExplained'
    BY <1>1, <1>3 DEF PInv, ErrorsExplained
  <1> QED
    BY <1>2, <1>4 DEF PInv

(* The row that is made belongs to the attempt that made it, or the loss of *)
(* the acknowledgement is on record.                                        *)
LEMMA CreateKeepsProcessing ==
    ASSUME IInv, PInv, NEW a \in Attempts, CreateRecord(a) \/ CreateUnacknowledged(a)
    PROVE  PInv'
  <1> USE AttemptsAssumption, NoneAssumption
      DEF CreateRecord, CreateUnacknowledged, Goto, Answer, IInv, TypeOK
  <1>1. \A k \in Keys \ {KeyOf[a]} : record'[k] = record[k]
    OBVIOUS
  <1>2. /\ pc'[a] = "handling" \/ KeyOf[a] \in disturbed'
           \/ (pc'[a] = "refetch" /\ record' = record /\ Exists(KeyOf[a]))
        /\ pc'[a] \in {"handling", "refetch", "answered"}
        /\ resolved'[a] = "new" => answer'[a] = None
    BY DEF AnswerInv, OwnerInv
  <1>3. /\ ~Handling(a) /\ completing' = completing /\ disturbed \subseteq disturbed'
        /\ \A b \in Attempts \ {a} :
               pc'[b] = pc[b] /\ answer'[b] = answer[b] /\ resolved'[b] = resolved[b]
    BY DEF Handling
  <1>4. \A k \in Keys : Exists(k) => record'[k] = record[k]
    BY DEF Exists
  <1>5. ProcessingInv'
    <2>1. ASSUME NEW k \in Keys, record'[k].status = "processing"
          PROVE  \/ k \in disturbed'
                 \/ \E b \in Attempts : KeyOf[b] = k /\ (Handling(b)' \/ b \in completing')
      <3>1. CASE k = KeyOf[a] /\ (pc'[a] = "handling" \/ k \in disturbed')
        BY <3>1 DEF Handling
      <3>2. CASE record'[k] = record[k]
        BY <2>1, <3>2, <1>3 DEF PInv, ProcessingInv, Handling
      <3> QED
        BY <1>1, <1>2, <3>1, <3>2
    <2>2. \A b \in Attempts : pc'[b] = "refetch" => Exists(KeyOf[b])'
      BY <1>2, <1>3, <1>4 DEF PInv, ProcessingInv, Exists
    <2>3. \A b \in Attempts : resolved'[b] = "new" => answer'[b] \in HandlerAnswers \cup {None}
      BY <1>2, <1>3 DEF PInv, ProcessingInv
    <2>4. \A k \in Keys : record'[k].expired => Exists(k)'
      BY <1>1 DEF PInv, ProcessingInv, Exists
    <2> QED
      BY <2>1, <2>2, <2>3, <2>4 DEF ProcessingInv
  <1>6. ErrorsExplained'
    <2>1. \A k \in Keys : record[k].expired => record'[k].expired
      BY <1>4 DEF PInv, ProcessingInv
    <2>2. answer'[a] = "INTERNAL_ERROR" => KeyOf[a] \in disturbed'
      BY DEF AnswerInv, Answers
    <2> QED
      BY <1>3, <2>1, <2>2 DEF PInv, ErrorsExplained
  <1> QED
    BY <1>5, <1>6 DEF PInv

(* The owner goes on handling, or starts to complete its row; its answer is *)
(* not a failure of resolveIdempotency.                                     *)
LEMMA HandleKeepsProcessing ==
    ASSUME IInv, PInv, NEW a \in Attempts,
           \/ OrderCommits(a) \/ ReadBack(a) \/ RespondCreated(a) \/ FailAfterCommit(a)
           \/ \E what \in Answers : OrderRejected(a, what)
    PROVE  PInv'
  <1> USE AttemptsAssumption, NoneAssumption
      DEF OrderCommits, ReadBack, RespondCreated, FailAfterCommit, OrderRejected, Respond,
          Goto, Answer, IInv, TypeOK
  <1>1. /\ UNCHANGED <<record, resolved, disturbed>>
        /\ completing \subseteq completing'
        /\ \A b \in Attempts \ {a} : pc'[b] = pc[b] /\ answer'[b] = answer[b]
    OBVIOUS
  <1>2. /\ pc'[a] \in {"committed", "invalidating"} \/ a \in completing'
        /\ pc'[a] # "refetch"
        /\ answer'[a] = answer[a] \/ answer'[a] \in HandlerAnswers
    BY DEF HandlerAnswers
  <1>3. ProcessingInv'
    BY <1>1, <1>2 DEF PInv, ProcessingInv, Handling, Exists
  <1>4. ErrorsExplained'
    BY <1>1, <1>2 DEF PInv, ErrorsExplained, HandlerAnswers
  <1> QED
    BY <1>3, <1>4 DEF PInv

(* The write that completes a row ends; if it fails, that is on record.     *)
LEMMA CompleteKeepsProcessing ==
    ASSUME IInv, PInv, NEW a \in Attempts, CompleteIdempotency(a) \/ CompleteFails(a)
    PROVE  PInv'
  <1> USE AttemptsAssumption
      DEF CompleteIdempotency, CompleteFails, IInv, TypeOK
  <1>1. /\ UNCHANGED <<pc, answer, resolved>>
        /\ completing' = completing \ {a} /\ disturbed \subseteq disturbed'
        /\ \A k \in Keys : /\ record'[k].expired = record[k].expired
                           /\ Exists(k) => Exists(k)'
        /\ \A k \in Keys \ {KeyOf[a]} : record'[k] = record[k]
        /\ KeyOf[a] \in disturbed' \/ record'[KeyOf[a]].status = "completed"
    <2>1. CASE CompleteFails(a)
      BY <2>1 DEF Exists
    <2>2. CASE CompleteIdempotency(a)
      <3>1. /\ KeyOf[a] \in Keys
            /\ record'[KeyOf[a]].status = "completed"
            /\ record'[KeyOf[a]].expired = record[KeyOf[a]].expired
            /\ \A k \in Keys \ {KeyOf[a]} : record'[k] = record[k]
        BY <2>2 DEF Record
      <3> QED
        BY <2>2, <3>1 DEF Exists
    <2> QED
      BY <2>1, <2>2
  <1>2. ProcessingInv'
    BY <1>1 DEF PInv, ProcessingInv, Handling
  <1>3. ErrorsExplained'
    BY <1>1 DEF PInv, ErrorsExplained
  <1> QED
    BY <1>2, <1>3 DEF PInv

(* A failure of resolveIdempotency, and what a crash leaves behind, is on   *)
(* record.                                                                  *)
LEMMA FaultKeepsProcessing ==
    ASSUME IInv, PInv, Crash \/ \E a \in Attempts : ResolveFails(a)
    PROVE  PInv'
  <1> USE AttemptsAssumption, NoneAssumption DEF IInv, TypeOK
  <1>1. CASE Crash
    <2>1. /\ UNCHANGED <<record, answer, resolved>> /\ disturbed \subseteq disturbed'
          /\ \A a \in Attempts : /\ pc'[a] = "refetch" => pc[a] = "refetch"
                                 /\ Handling(a) \/ a \in completing => KeyOf[a] \in disturbed'
      BY <1>1 DEF Crash, Running, Handling
    <2> QED
      BY <2>1 DEF PInv, ProcessingInv, ErrorsExplained, Exists
  <1>2. ASSUME NEW a \in Attempts, ResolveFails(a)
        PROVE  PInv'
    <2>1. /\ UNCHANGED <<record, resolved, completing>> /\ disturbed \subseteq disturbed'
          /\ KeyOf[a] \in disturbed' /\ ~Handling(a) /\ pc'[a] = "answered"
          /\ resolved[a] # "new"
          /\ \A b \in Attempts \ {a} : pc'[b] = pc[b] /\ answer'[b] = answer[b]
      BY <1>2 DEF ResolveFails, Answer, Goto, Handling, OwnerInv
    <2>2. ProcessingInv'
      BY <2>1 DEF PInv, ProcessingInv, Handling, Exists
    <2>3. ErrorsExplained'
      BY <2>1 DEF PInv, ErrorsExplained
    <2> QED
      BY <2>2, <2>3 DEF PInv
  <1> QED
    BY <1>1, <1>2

(* A row expires when nobody is handling it any more.                       *)
LEMMA ExpireKeepsProcessing ==
    ASSUME IInv, PInv, NEW k \in Keys, Expire(k)
    PROVE  PInv'
  <1>1. /\ UNCHANGED <<pc, answer, resolved, completing, disturbed>>
        /\ \A q \in Keys : /\ record'[q].status = record[q].status
                           /\ record[q].expired => record'[q].expired
                           /\ record'[q].expired => record[q].expired \/ Exists(q)
    BY DEF Expire, Active, IInv, TypeOK, Record
  <1>2. ProcessingInv'
    BY <1>1, AttemptsAssumption DEF PInv, ProcessingInv, Handling, Exists
  <1>3. ErrorsExplained'
    BY <1>1, AttemptsAssumption DEF PInv, ErrorsExplained
  <1> QED
    BY <1>2, <1>3 DEF PInv

(* Every step keeps rows in progress explained.                             *)
LEMMA NextPInv == IInv /\ PInv /\ [Next]_vars => PInv'
  <1> SUFFICES ASSUME IInv, PInv, [Next]_vars PROVE PInv'
    OBVIOUS
  <1>1. CASE UNCHANGED vars
    BY <1>1 DEF vars, PInv, ProcessingInv, ErrorsExplained, Exists, Handling
  <1>2. ASSUME NEW a \in Attempts, Send(a) \/ Step(a) \/ Complete(a) \/ Fault(a)
        PROVE  PInv'
    BY <1>2, LookupKeepsProcessing, CreateKeepsProcessing, HandleKeepsProcessing,
       CompleteKeepsProcessing, FaultKeepsProcessing DEF Step, Complete, Fault
  <1>3. ASSUME NEW k \in Keys, Expire(k)
        PROVE  PInv'
    BY <1>3, ExpireKeepsProcessing
  <1>4. CASE Crash
    BY <1>4, FaultKeepsProcessing
  <1> QED
    BY <1>1, <1>2, <1>3, <1>4 DEF Next

(* A row stays "processing" without anybody who works on it only after a    *)
(* failure under its key, and only a failure or an expired row makes        *)
(* resolveIdempotency answer 500.                                           *)
THEOREM StuckRowsExplained == Spec => []PInv
  <1>1. Init => PInv
    BY AttemptsAssumption, NoneAssumption
       DEF Init, PInv, ProcessingInv, ErrorsExplained, NoRecord, Exists, Answers
  <1>2. IInv /\ PInv /\ [Next]_vars => PInv'
    BY NextPInv
  <1> QED
    BY <1>1, <1>2, Invariance, PTL DEF Spec

(* "Still being processed" (idempotency.service.ts:69) is true when it is   *)
(* said, unless something failed under the key before.                      *)
THEOREM InProgressTruthful == Spec => InProgressExplained
  <1> DEFINE Told == \A a \in Attempts :
               answer[a] # answer'[a] /\ answer'[a] = "IDEMPOTENCY_IN_PROGRESS" =>
                   \/ KeyOf[a] \in disturbed
                   \/ \E b \in Peers(a) \ {a} : Handling(b) \/ b \in completing
  <1>1. IInv /\ PInv /\ [Next]_vars => [Told]_vars
    <2> SUFFICES ASSUME IInv, PInv, Next, NEW a \in Attempts,
                        answer[a] # answer'[a], answer'[a] = "IDEMPOTENCY_IN_PROGRESS"
                 PROVE  \/ KeyOf[a] \in disturbed
                        \/ \E b \in Peers(a) \ {a} : Handling(b) \/ b \in completing
      OBVIOUS
    <2>1. FindExisting(a) \/ FindRaced(a)
      <3>1. PICK b \in Attempts : Step(b) \/ Fault(b)
        BY DEF Next, Send, Complete, CompleteIdempotency, Expire, Crash
      <3>2. \A c \in Attempts \ {b} : answer'[c] = answer[c]
        BY <3>1 DEF Step, Fault, FindExisting, CreateRecord, FindRaced, ResolveFails,
             CreateUnacknowledged, OrderCommits, OrderRejected, ReadBack, RespondCreated,
             FailAfterCommit, CompleteFails, Respond, Answer, Judge, IInv, TypeOK
      <3>3. Step(a) \/ Fault(a)
        BY <3>1, <3>2
      <3> QED
        BY <3>3 DEF Step, Fault, CreateRecord, ResolveFails, CreateUnacknowledged,
             OrderCommits, OrderRejected, ReadBack, RespondCreated, FailAfterCommit,
             CompleteFails, Respond, Answer, Judge, IInv, TypeOK
    <2>2. Judge(a)
      BY <2>1 DEF FindExisting, FindRaced, Answer, IInv, TypeOK
    <2>3. KeyOf[a] \in Keys /\ record[KeyOf[a]].status = "processing"
      <3>1. CASE answer'[a] = record[KeyOf[a]].answer /\ record[KeyOf[a]].status = "completed"
        <4>1. PICK b \in Attempts : resolved[b] = "new" /\ answer[b] = answer'[a]
          BY <3>1, AttemptsAssumption DEF IInv, RowInv
        <4> QED
          BY <4>1, NoneAssumption DEF PInv, ProcessingInv, HandlerAnswers, Answers
      <3> QED
        BY <2>2, <3>1, AttemptsAssumption DEF Judge, Answer, IInv, TypeOK
    <2>4. ~Handling(a) /\ a \notin completing
      BY <2>1 DEF FindExisting, FindRaced, Handling, IInv, AnswerInv
    <2> QED
      BY <2>3, <2>4 DEF PInv, ProcessingInv, Peers
  <1> QED
    BY <1>1, Invariance, StuckRowsExplained, PTL DEF Spec, InProgressExplained

------------------------------------------------------------------------------
(* Why an attempt ends *)

StepsLeft(a) ==
    CASE pc[a] = "idle" -> 6
      [] pc[a] = "lookup" -> 5
      [] pc[a] = "create" -> 4
      [] pc[a] \in {"refetch", "handling"} -> 3
      [] pc[a] = "committed" -> 2
      [] pc[a] = "invalidating" -> 1
      [] OTHER -> 0

EveryStepCounts ==
    [][\A a \in Attempts :
          /\ pc'[a] = pc[a] \/ StepsLeft(a)' < StepsLeft(a)
          /\ a \in completing' \ completing => Handling(a) /\ pc'[a] = "answered"]_vars

(* The lookup after a lost race is the last one: no attempt goes back to an *)
(* earlier step, whatever the others do to its row, and the write that      *)
(* completes a row is started once, by the answer of its owner.             *)
THEOREM StepsRunOut == Spec => EveryStepCounts
  <1> DEFINE Counts(a) ==
               /\ pc'[a] = pc[a] \/ StepsLeft(a)' < StepsLeft(a)
               /\ a \in completing' \ completing => Handling(a) /\ pc'[a] = "answered"
  <1>1. IInv /\ [Next]_vars => [\A a \in Attempts : Counts(a)]_vars
    <2> SUFFICES ASSUME IInv, Next PROVE \A a \in Attempts : Counts(a)
      OBVIOUS
    <2>0. pc \in [Attempts -> {"idle", "lookup", "create", "refetch", "handling",
                              "committed", "invalidating", "answered", "lost"}]
      BY DEF IInv, TypeOK
    <2>1. ASSUME NEW b \in Attempts, Send(b) \/ Step(b) \/ Complete(b) \/ Fault(b)
          PROVE  \A a \in Attempts : Counts(a)
      <3>1. \A a \in Attempts \ {b} :
               pc'[a] = pc[a] /\ a \notin completing' \ completing
        BY <2>0, <2>1 DEF Send, Step, Complete, Fault, FindExisting, CreateRecord, FindRaced,
             ResolveFails, CreateUnacknowledged, OrderCommits, OrderRejected, ReadBack,
             RespondCreated, FailAfterCommit, CompleteIdempotency, CompleteFails, Respond,
             Answer, Goto, Judge
      <3>2. CASE pc'[b] = pc[b] /\ completing' \subseteq completing
        BY <3>1, <3>2
      <3>3. CASE Send(b) \/ FindExisting(b) \/ CreateRecord(b) \/ FindRaced(b)
                 \/ ResolveFails(b) \/ CreateUnacknowledged(b)
        <4>1. /\ UNCHANGED completing
              /\ \/ pc[b] = "idle" /\ pc'[b] = "lookup"
                 \/ pc[b] = "lookup" /\ pc'[b] \in {"create", "answered"}
                 \/ pc[b] = "create" /\ pc'[b] \in {"handling", "refetch", "answered"}
                 \/ pc[b] = "refetch" /\ pc'[b] = "answered"
          BY <2>0, <3>3 DEF Send, FindExisting, CreateRecord, FindRaced, ResolveFails,
               CreateUnacknowledged, Answer, Goto, Judge
        <4>2. StepsLeft(b)' < StepsLeft(b)
          BY <4>1 DEF StepsLeft
        <4> QED
          BY <3>1, <4>1, <4>2
      <3>4. CASE \/ OrderCommits(b) \/ ReadBack(b) \/ RespondCreated(b) \/ FailAfterCommit(b)
                 \/ \E what \in Answers : OrderRejected(b, what)
        <4>1. /\ completing' \in {completing, completing \cup {b}} /\ Handling(b)
              /\ \/ pc[b] = "handling" /\ pc'[b] = "committed" /\ UNCHANGED completing
                 \/ pc[b] = "committed" /\ pc'[b] = "invalidating" /\ UNCHANGED completing
                 \/ pc'[b] = "answered"
          BY <2>0, <3>4 DEF OrderCommits, ReadBack, RespondCreated, FailAfterCommit,
               OrderRejected, Respond, Answer, Goto, Handling
        <4>2. StepsLeft(b)' < StepsLeft(b)
          BY <4>1 DEF StepsLeft, Handling
        <4> QED
          BY <3>1, <4>1, <4>2
      <3> QED
        BY <2>1, <3>2, <3>3, <3>4
           DEF Step, Complete, Fault, CompleteIdempotency, CompleteFails
    <2>2. ASSUME NEW k \in Keys, Expire(k)
          PROVE  \A a \in Attempts : Counts(a)
      BY <2>2 DEF Expire
    <2>3. CASE Crash
      <3>1. /\ completing' = {}
            /\ \A a \in Attempts : pc'[a] = pc[a] \/ (Running(a) /\ pc'[a] = "lost")
        BY <2>0, <2>3 DEF Crash
      <3>2. \A a \in Attempts : Running(a) /\ pc'[a] = "lost" => StepsLeft(a)' < StepsLeft(a)
        BY <2>0 DEF Running, StepsLeft
      <3> QED
        BY <3>1, <3>2
    <2> QED
      BY <2>1, <2>2, <2>3 DEF Next
  <1> QED
    BY <1>1, Invariance, PTL DEF Spec, EveryStepCounts

==============================================================================
