-------------------------- MODULE OrderJobs_proofs --------------------------
(***************************************************************************)
(* Proofs about OrderJobs, for any number of orders and servers, attempts  *)
(* and stalls: the mails about an order are bounded, the queue implements  *)
(* OrderMail, and no job is run without end.                               *)
(***************************************************************************)
EXTENDS OrderJobs, FiniteSetTheorems, TLAPS

(* A lock is on an active job, a run is of a job, and a job is of an order  *)
(* that its server tried to queue.                                          *)
LinksInv ==
    /\ \A o \in Orders : lock[o] # NoServer => job[o] = "active"
    /\ \A s \in Servers : current[s] = NoOrder <=> stage[s] = "idle"
    /\ \A s \in Servers : current[s] # NoOrder => job[current[s]] # "none"
    /\ \A o \in Orders : notice[o] \in {"none", "committed", "skipped"} => job[o] = "none"
    /\ \A s \in Servers : stage[s] = "returned" => mails[current[s]] > 0

(* Attempts and stalls left.                                                *)
CountsInv ==
    \A o \in Orders :
        /\ job[o] = "none" => attemptsMade[o] = 0 /\ stalledCounter[o] = 0
        /\ job[o] # "failed" => attemptsMade[o] < MaxAttempts /\ stalledCounter[o] <= MaxStalled
        /\ attemptsMade[o] + stalledCounter[o] <= MaxAttempts + MaxStalled

(* Each run of a job sends at most once, and each but the last was paid for *)
(* by a failed attempt or a stall.                                          *)
Processing(o) == {s \in Servers : current[s] = o /\ stage[s] = "processing"}
LastRun(o) == IF job[o] \in {"active", "completed"} THEN 1 ELSE 0
MailsInv ==
    \A o \in Orders :
        mails[o] + Cardinality(Processing(o)) <= attemptsMade[o] + stalledCounter[o] + LastRun(o)

JInv == JobsTypeOK /\ LinksInv /\ CountsInv /\ MailsInv

(* Runs are counted.                                                        *)
LEMMA RunsCounted ==
    ASSUME NEW S \in SUBSET Servers
    PROVE  /\ Cardinality(S) \in Nat
           /\ \A s \in Servers \ S : Cardinality(S \cup {s}) = Cardinality(S) + 1
           /\ \A s \in S : Cardinality(S \ {s}) = Cardinality(S) - 1
           /\ \A T \in SUBSET S : Cardinality(T) <= Cardinality(S) /\ Cardinality(T) \in Nat
  <1>1. IsFiniteSet(Servers)
    BY ServersAssumption, FS_Interval DEF Servers
  <1>2. IsFiniteSet(S)
    BY <1>1, FS_Subset
  <1> QED
    BY <1>2, FS_CardinalityType, FS_AddElement, FS_RemoveElement, FS_Subset

(* A server is somebody.                                                    *)
LEMMA ServersNumbered == NoServer \notin Servers
  BY ServersAssumption DEF NoServer, Servers

(* Nothing has happened.                                                    *)
LEMMA InitJInv == JobsInit => JInv
  <1> SUFFICES ASSUME JobsInit PROVE JInv
    OBVIOUS
  <1> USE OrdersAssumption, AttemptsAssumption, StalledAssumption, FaultsAssumption
      DEF JobsInit
  <1>1. JobsTypeOK
    BY DEF JobsTypeOK
  <1>2. LinksInv /\ CountsInv
    BY DEF LinksInv, CountsInv
  <1>3. MailsInv
    <2>1. \A o \in Orders : Processing(o) = {}
      BY DEF Processing
    <2> QED
      BY <2>1, FS_EmptySet DEF MailsInv, LastRun
  <1> QED
    BY <1>1, <1>2, <1>3 DEF JInv

(* Steps that change neither jobs, nor runs, nor mails.                     *)
LEMMA AsideInv ==
    ASSUME JInv, UNCHANGED <<job, attemptsMade, stalledCounter, lock, current, stage, mails>>,
           JobsTypeOK',
           \A o \in Orders : notice'[o] \in {"none", "committed", "skipped"} =>
                                notice[o] \in {"none", "committed", "skipped"}
    PROVE  JInv'
  <1>1. LinksInv' /\ CountsInv'
    BY DEF JInv, LinksInv, CountsInv
  <1>2. MailsInv'
    BY DEF JInv, MailsInv, Processing, LastRun
  <1> QED
    BY <1>1, <1>2 DEF JInv

(* The server of an order, up to queue.add.                                 *)
LEMMA NoticeInv ==
    ASSUME JInv, NEW o \in Orders,
           \/ \E s \in Servers : CommitOrder(o, s)
           \/ CommitUnheard(o) \/ QueueOrderCreatedJob(o) \/ AddFails(o) \/ AddRejected(o)
    PROVE  JInv'
  <1>1. JobsTypeOK'
    BY FaultsAssumption
       DEF JInv, JobsTypeOK, CommitOrder, CommitUnheard, QueueOrderCreatedJob, AddFails,
           AddRejected, Notice, Fault, jobs, runs
  <1>2. \A p \in Orders : notice'[p] \in {"none", "committed", "skipped"} =>
                             notice[p] \in {"none", "committed", "skipped"}
    BY DEF JInv, JobsTypeOK, CommitOrder, CommitUnheard, QueueOrderCreatedJob, AddFails,
           AddRejected, Notice
  <1> QED
    BY <1>1, <1>2, AsideInv
       DEF CommitOrder, CommitUnheard, QueueOrderCreatedJob, AddFails, AddRejected, jobs, runs

(* Redis, clients, and workers that start or close.                         *)
LEMMA ServiceInv ==
    ASSUME JInv,
           \/ RedisStep
           \/ \E s \in Servers :
                 \/ \E connected \in BOOLEAN : ConnectRedis(s, connected)
                 \/ CloseWorker(s) \/ WorkerClosed(s) \/ QueueClosed(s) \/ DisconnectRedis(s)
    PROVE  JInv'
  <1> USE DEF RedisStep, RedisDown, RedisBack, ClientEvent, ConnectRedis, CloseWorker,
              WorkerClosed, QueueClosed, DisconnectRedis, jobs, runs, jobsVars
  <1>1. JobsTypeOK'
    <2>1. CASE RedisStep
      <3>1. CASE RedisDown \/ RedisBack
        <4>1. faults' \in 0..MaxFaults
          BY <3>1, FaultsAssumption DEF JInv, JobsTypeOK, Fault
        <4>2. redisUp' \in BOOLEAN
          BY <3>1
        <4>3. UNCHANGED <<notice, home, job, attemptsMade, stalledCounter, lock, worker, current,
                          stage, closing, client, mails>>
          BY <3>1
        <4> QED
          BY <4>1, <4>2, <4>3 DEF JInv, JobsTypeOK
      <3>2. ASSUME NEW s \in Servers, ClientEvent(s)
            PROVE  JobsTypeOK'
        BY <3>2 DEF JInv, JobsTypeOK
      <3> QED
        BY <2>1, <3>1, <3>2
    <2>2. ASSUME NEW s \in Servers,
                 \/ \E connected \in BOOLEAN : ConnectRedis(s, connected)
                 \/ DisconnectRedis(s) \/ QueueClosed(s)
          PROVE  JobsTypeOK'
      BY <2>2 DEF JInv, JobsTypeOK
    <2>3. ASSUME NEW s \in Servers, CloseWorker(s) \/ WorkerClosed(s)
          PROVE  JobsTypeOK'
      BY <2>3 DEF JInv, JobsTypeOK
    <2> QED
      BY <2>1, <2>2, <2>3
  <1>2. UNCHANGED <<job, attemptsMade, stalledCounter, lock, current, stage, mails, notice>>
    OBVIOUS
  <1> QED
    BY <1>1, <1>2, AsideInv

(* A job is added once, however often the command arrives.                  *)
LEMMA AddJobInv ==
    ASSUME JInv, NEW o \in Orders, NEW answered \in BOOLEAN, AddJob(o, answered)
    PROVE  JInv'
  <1> USE DEF AddJob, Notice, runs, JInv
  <1>1. JobsTypeOK'
    BY FaultsAssumption DEF JobsTypeOK, Fault
  <1> USE DEF JobsTypeOK
  <1>2. LinksInv'
    BY ServersNumbered DEF LinksInv
  <1>3. CountsInv'
    BY AttemptsAssumption, StalledAssumption DEF CountsInv
  <1>4. MailsInv'
    BY DEF MailsInv, Processing, LastRun
  <1> QED
    BY <1>1, <1>2, <1>3, <1>4

(* A run begins.                                                            *)
LEMMA TakeJobInv ==
    ASSUME JInv, NEW s \in Servers, NEW o \in Orders, TakeJob(s, o)
    PROVE  JInv'
  <1> USE OrdersAssumption DEF TakeJob, Run, JInv
  <1>1. JobsTypeOK'
    BY DEF JobsTypeOK
  <1> USE DEF JobsTypeOK
  <1>2. LinksInv'
    BY DEF LinksInv
  <1>3. CountsInv'
    BY DEF CountsInv
  <1>4. MailsInv'
    <2>1. /\ s \notin Processing(o) /\ Processing(o)' = Processing(o) \cup {s}
          /\ \A p \in Orders \ {o} : Processing(p)' = Processing(p)
      BY DEF Processing
    <2>0. Processing(o) \in SUBSET Servers
      BY DEF Processing
    <2>2. /\ Cardinality(Processing(o)') = Cardinality(Processing(o)) + 1
          /\ Cardinality(Processing(o)) \in Nat
      BY <2>0, <2>1, RunsCounted
    <2>3. /\ LastRun(o) = 0 /\ LastRun(o)' = 1
          /\ \A p \in Orders \ {o} : LastRun(p)' = LastRun(p)
      BY DEF LastRun
    <2>4. mails[o] + Cardinality(Processing(o)') <= attemptsMade[o] + stalledCounter[o] + 1
      BY <2>2, <2>3 DEF MailsInv
    <2> QED
      BY <2>1, <2>3, <2>4 DEF MailsInv
  <1> QED
    BY <1>1, <1>2, <1>3, <1>4

(* A run that sends is one of those counted.                                *)
LEMMA RoomForMail ==
    ASSUME JInv, NEW s \in Servers, Running(s, "processing")
    PROVE  /\ current[s] \in Orders
           /\ mails[current[s]] < MaxAttempts + MaxStalled
           /\ Cardinality(Processing(current[s])) \in Nat
           /\ Cardinality(Processing(current[s]) \ {s}) = Cardinality(Processing(current[s])) - 1
  <1> USE DEF JInv, JobsTypeOK, Running
  <1>1. s \in Processing(current[s]) /\ current[s] \in Orders
    BY DEF Processing
  <1>2. /\ Cardinality(Processing(current[s]) \ {s}) \in Nat
        /\ Cardinality(Processing(current[s])) \in Nat
        /\ Cardinality(Processing(current[s]) \ {s}) = Cardinality(Processing(current[s])) - 1
    BY <1>1, RunsCounted DEF Processing
  <1>3. attemptsMade[current[s]] + stalledCounter[current[s]] + LastRun(current[s])
          <= MaxAttempts + MaxStalled
    BY <1>1, AttemptsAssumption, StalledAssumption DEF CountsInv, LastRun
  <1>4. mails[current[s]] + Cardinality(Processing(current[s]))
          <= attemptsMade[current[s]] + stalledCounter[current[s]] + LastRun(current[s])
    BY <1>1 DEF MailsInv
  <1>5. LastRun(current[s]) \in Nat
    BY DEF LastRun
  <1> QED
    BY <1>1, <1>2, <1>3, <1>4, <1>5, AttemptsAssumption, StalledAssumption

(* A run sends at most once.                                                *)
LEMMA ProcessInv ==
    ASSUME JInv, NEW s \in Servers, NEW accepted \in BOOLEAN, NEW known \in BOOLEAN,
           ProcessOrderCreatedJob(s, accepted, known)
    PROVE  JInv'
  <1> USE OrdersAssumption, AttemptsAssumption, StalledAssumption
      DEF ProcessOrderCreatedJob, Run, Running, jobs, JInv
  <1>0. PICK o \in Orders : o = current[s]
    BY RoomForMail
  <1>1. /\ mails[o] < MaxAttempts + MaxStalled
        /\ Cardinality(Processing(o)) \in Nat
        /\ Cardinality(Processing(o) \ {s}) = Cardinality(Processing(o)) - 1
    BY <1>0, RoomForMail
  <1>2. /\ mails[o] \in Nat
        /\ mails'[o] \in {mails[o], mails[o] + 1}
        /\ \A p \in Orders \ {o} : mails'[p] = mails[p]
        /\ stage'[s] = "returned" => mails'[o] = mails[o] + 1
        /\ mails' \in [Orders -> 0..(MaxAttempts + MaxStalled)]
    BY <1>0, <1>1 DEF JobsTypeOK
  <1>3. JobsTypeOK'
    BY <1>0, <1>2 DEF JobsTypeOK
  <1>4. LinksInv'
    <2>1. \A p \in Orders : mails[p] > 0 => mails'[p] > 0
      BY <1>2
    <2> QED
      BY <1>0, <1>2, <2>1 DEF LinksInv, JobsTypeOK
  <1>5. CountsInv'
    BY DEF CountsInv
  <1>6. MailsInv'
    <2>1. /\ Processing(o)' = Processing(o) \ {s}
          /\ \A p \in Orders \ {o} : Processing(p)' = Processing(p)
      BY <1>0 DEF Processing, JobsTypeOK
    <2>2. \A p \in Orders : LastRun(p)' = LastRun(p) /\ LastRun(p) \in Nat
      BY DEF LastRun
    <2>3. attemptsMade[o] \in Nat /\ stalledCounter[o] \in Nat
      BY DEF JobsTypeOK
    <2>4. mails[o] + Cardinality(Processing(o))
            <= attemptsMade[o] + stalledCounter[o] + LastRun(o)
      BY DEF MailsInv
    <2>5. mails'[o] + Cardinality(Processing(o) \ {s})
            <= attemptsMade[o] + stalledCounter[o] + LastRun(o)
      BY <1>1, <1>2, <2>2, <2>3, <2>4
    <2> QED
      BY <1>2, <2>1, <2>2, <2>5 DEF MailsInv
  <1> QED
    BY <1>3, <1>4, <1>5, <1>6

(* Runs that are over no longer count.                                      *)
LEMMA SameProcessing ==
    ASSUME JInv, NEW s \in Servers, stage[s] \in {"returned", "threw"}, Run(s, NoOrder, "idle")
    PROVE  \A o \in Orders : Processing(o)' = Processing(o)
  BY OrdersAssumption DEF JInv, JobsTypeOK, Run, Processing

(* The end of a run is the end of the attempt that it counted for.          *)
LEMMA FinishInv ==
    ASSUME JInv, NEW s \in Servers, NEW o \in Orders, CompleteJob(s, o) \/ FailJob(s, o)
    PROVE  JInv'
  <1> USE OrdersAssumption, AttemptsAssumption, StalledAssumption
      DEF CompleteJob, FailJob, Finish, Run, JInv
  <1>0. job[o] = "active" /\ attemptsMade[o] < MaxAttempts /\ stalledCounter[o] <= MaxStalled
    BY ServersNumbered DEF LinksInv, CountsInv
  <1>1. JobsTypeOK'
    BY <1>0 DEF JobsTypeOK
  <1> USE DEF JobsTypeOK
  <1>2. LinksInv'
    BY <1>0 DEF LinksInv
  <1>3. CountsInv'
    BY <1>0 DEF CountsInv
  <1>4. MailsInv'
    <2>1. \A p \in Orders : Processing(p)' = Processing(p)
      BY SameProcessing
    <2>2. \A p \in Orders :
             attemptsMade'[p] + stalledCounter'[p] + LastRun(p)' =
                attemptsMade[p] + stalledCounter[p] + LastRun(p)
      BY <1>0 DEF LastRun
    <2> QED
      BY <2>1, <2>2 DEF MailsInv
  <1> QED
    BY <1>1, <1>2, <1>3, <1>4

(* A run that lost its job goes away.                                       *)
LEMMA DropRunInv ==
    ASSUME JInv, NEW s \in Servers, DropRun(s)
    PROVE  JInv'
  <1> USE OrdersAssumption DEF DropRun, Run, jobs, JInv
  <1>1. JobsTypeOK'
    BY DEF JobsTypeOK
  <1>2. \A p \in Orders : Processing(p)' = Processing(p)
    BY SameProcessing
  <1> USE DEF JobsTypeOK
  <1>3. LinksInv' /\ CountsInv'
    BY DEF LinksInv, CountsInv
  <1>4. MailsInv'
    BY <1>2 DEF MailsInv, LastRun
  <1> QED
    BY <1>1, <1>3, <1>4

(* What the queue does by itself; a stall pays for the run that it ends.    *)
LEMMA QueueStepInv ==
    ASSUME JInv, NEW o \in Orders, QueueStep(o)
    PROVE  JInv'
  <1> USE AttemptsAssumption, StalledAssumption
      DEF QueueStep, PromoteJob, ExpireLock, StallJob, runs, JInv
  <1>1. JobsTypeOK'
    <2>1. job[o] = "active" => stalledCounter[o] \in 0..MaxStalled
      BY DEF JobsTypeOK, CountsInv
    <2>2. CASE StallJob(o)
      <3>1. stalledCounter' \in [Orders -> 0..(MaxStalled + 1)]
        BY <2>1, <2>2 DEF JobsTypeOK
      <3> QED
        BY <2>2, <3>1 DEF JobsTypeOK
    <2>3. CASE PromoteJob(o) \/ ExpireLock(o)
      BY <2>3 DEF JobsTypeOK
    <2> QED
      BY <2>2, <2>3
  <1> USE DEF JobsTypeOK
  <1>2. LinksInv'
    BY DEF LinksInv
  <1>3. CountsInv'
    BY DEF CountsInv
  <1>4. MailsInv'
    <2>1. \A p \in Orders : Processing(p)' = Processing(p)
      BY DEF Processing
    <2>2. \A p \in Orders :
             attemptsMade'[p] + stalledCounter'[p] + LastRun(p)' =
                attemptsMade[p] + stalledCounter[p] + LastRun(p)
      BY DEF LastRun
    <2> QED
      BY <2>1, <2>2 DEF MailsInv
  <1> QED
    BY <1>1, <1>2, <1>3, <1>4

(* Runs that die send no more.                                              *)
LEMMA ProcessesEndInv ==
    ASSUME JInv, NEW gone \in SUBSET Servers, ProcessesEnd(gone)
    PROVE  JInv'
  <1> USE OrdersAssumption DEF ProcessesEnd, jobs, JInv
  <1>1. JobsTypeOK'
    BY DEF JobsTypeOK
  <1> USE DEF JobsTypeOK
  <1>2. LinksInv' /\ CountsInv'
    BY DEF LinksInv, CountsInv
  <1>3. MailsInv'
    <2> SUFFICES ASSUME NEW o \in Orders
                 PROVE  mails[o] + Cardinality(Processing(o)')
                           <= attemptsMade[o] + stalledCounter[o] + LastRun(o)'
      BY DEF MailsInv
    <2>1. Processing(o)' \subseteq Processing(o) /\ LastRun(o)' = LastRun(o)
      BY DEF Processing, LastRun
    <2>2. /\ Cardinality(Processing(o)') <= Cardinality(Processing(o))
          /\ Cardinality(Processing(o)) \in Nat /\ Cardinality(Processing(o)') \in Nat
      BY <2>1, RunsCounted DEF Processing
    <2>3. mails[o] + Cardinality(Processing(o)) <= attemptsMade[o] + stalledCounter[o] + LastRun(o)
      BY DEF MailsInv
    <2>4. LastRun(o) \in Nat
      BY DEF LastRun
    <2> QED
      BY <2>1, <2>2, <2>3, <2>4
  <1> QED
    BY <1>1, <1>2, <1>3

(* The invariant is inductive.                                              *)
LEMMA NextJInv == JInv /\ [JobsNext]_jobsVars => JInv'
  <1> SUFFICES ASSUME JInv, [JobsNext]_jobsVars PROVE JInv'
    OBVIOUS
  <1>1. CASE JobsStep
    BY <1>1, NoticeInv, AddJobInv, TakeJobInv, ProcessInv, FinishInv, DropRunInv, QueueStepInv,
       ServiceInv
       DEF JobsStep, OrderStep, RunStep
  <1>2. CASE ServerStep
    BY <1>2, NoticeInv, ServiceInv, ProcessesEndInv DEF ServerStep
  <1>3. CASE UNCHANGED jobsVars
    <2>1. JobsTypeOK'
      BY <1>3 DEF JInv, JobsTypeOK, jobsVars, jobs, runs
    <2> QED
      BY <1>3, <2>1, AsideInv DEF jobsVars, jobs, runs
  <1> QED
    BY <1>1, <1>2, <1>3 DEF JobsNext

------------------------------------------------------------------------------
(* Links, counts and mails fit together throughout.                         *)
THEOREM JobsInvariance == JobsSpec => []JInv
  BY InitJInv, NextJInv, PTL DEF JobsSpec

(* Jobs stay within their types, attempts and stalls, and an order is       *)
(* mailed about at most MaxAttempts + MaxStalled times.                     *)
THEOREM JobsTypeCorrect == JobsSpec => []JobsTypeOK
  <1>1. JInv => JobsTypeOK
    BY DEF JInv
  <1> QED
    BY <1>1, JobsInvariance, PTL

------------------------------------------------------------------------------
(* The refinement *)

(* A step that changes no fate and sends nothing is none of OrderMail's.    *)
LEMMA StutterOfMail ==
    ASSUME UNCHANGED mails, \A o \in Orders : Fate(o)' = Fate(o)
    PROVE  UNCHANGED Mail!vars
  BY DEF Mail!vars

(* A step in which fates end badly is Abandon.                              *)
LEMMA AbandonOfMail ==
    ASSUME UNCHANGED mails,
           \A o \in Orders : Fate(o)' = Fate(o) \/ (Fate(o) = "open" /\ Fate(o)' = "abandoned")
    PROVE  Mail!Next
  <1> DEFINE gone == {o \in Orders : Fate(o) = "open" /\ Fate(o)' = "abandoned"}
  <1>1. gone \in SUBSET Orders
    OBVIOUS
  <1>2. \A o \in Orders : Fate(o)' = IF o \in gone THEN "abandoned" ELSE Fate(o)
    OBVIOUS
  <1>3. \A o \in gone : Fate(o) = "open"
    OBVIOUS
  <1> HIDE DEF gone
  <1>4. Mail!Abandon(gone)
    BY <1>1, <1>2, <1>3 DEF Mail!Abandon
  <1> QED
    BY <1>1, <1>4 DEF Mail!Next

(* Every step of the jobs is one of OrderMail or none.                      *)
LEMMA StepRefinesMail ==
    ASSUME JInv, [JobsNext]_jobsVars
    PROVE  [Mail!Next]_(Mail!vars)
  <1> USE DEF JInv, Notice, Run, jobs, runs
  <1>1. ASSUME NEW o \in Orders, NEW s \in Servers, CommitOrder(o, s)
        PROVE  Mail!Next
    <2>1. Fate(o) = "none" /\ Fate(o)' = "open"
      BY <1>1 DEF CommitOrder, Fate, LinksInv, JobsTypeOK
    <2>2. \A p \in Orders \ {o} : Fate(p)' = Fate(p)
      BY <1>1 DEF CommitOrder, Fate, JobsTypeOK
    <2>3. [p \in Orders |-> Fate(p)]' = [[p \in Orders |-> Fate(p)] EXCEPT ![o] = "open"]
      BY <2>1, <2>2
    <2>4. Mail!Place(o)
      BY <1>1, <2>1, <2>3 DEF CommitOrder, Mail!Place, Mail!Become
    <2> QED
      BY <2>4 DEF Mail!Next
  <1>2. ASSUME NEW o \in Orders,
               CommitUnheard(o) \/ QueueOrderCreatedJob(o) \/ AddFails(o) \/ AddRejected(o)
        PROVE  Mail!Next
    <2>1. \A p \in Orders : Fate(p)' = Fate(p) \/ (Fate(p) = "open" /\ Fate(p)' = "abandoned")
      BY <1>2 DEF CommitUnheard, QueueOrderCreatedJob, AddFails, AddRejected, Fate, LinksInv,
                  JobsTypeOK
    <2> QED
      BY <1>2, <2>1, AbandonOfMail DEF CommitUnheard, QueueOrderCreatedJob, AddFails, AddRejected
  <1>3. ASSUME NEW o \in Orders, NEW answered \in BOOLEAN, AddJob(o, answered)
        PROVE  UNCHANGED Mail!vars
    <2>1. \A p \in Orders : Fate(p)' = Fate(p)
      BY <1>3 DEF AddJob, Fate, JobsTypeOK
    <2> QED
      BY <1>3, <2>1, StutterOfMail DEF AddJob
  <1>4. ASSUME NEW s \in Servers, NEW accepted \in BOOLEAN, NEW known \in BOOLEAN,
               ProcessOrderCreatedJob(s, accepted, known)
        PROVE  [Mail!Next]_(Mail!vars)
    <2>1. \A p \in Orders : Fate(p)' = Fate(p)
      BY <1>4 DEF ProcessOrderCreatedJob, Fate
    <2>2. CASE ~accepted
      <3>1. UNCHANGED mails
        BY <1>4, <2>2 DEF ProcessOrderCreatedJob, JobsTypeOK
      <3> QED
        BY <2>1, <3>1, StutterOfMail
    <2>3. CASE accepted
      <3>1. current[s] \in Orders /\ mails[current[s]] < MaxAttempts + MaxStalled
        BY <1>4, RoomForMail DEF ProcessOrderCreatedJob
      <3>2. Fate(current[s]) # "none"
        BY <1>4, <3>1, OrdersAssumption DEF ProcessOrderCreatedJob, Running, Fate, LinksInv
      <3>3. [p \in Orders |-> Fate(p)]' = [p \in Orders |-> Fate(p)]
        BY <2>1
      <3>4. mails' = [mails EXCEPT ![current[s]] = @ + 1]
        BY <1>4, <2>3 DEF ProcessOrderCreatedJob
      <3>5. Mail!Mail(current[s])
        BY <3>1, <3>2, <3>3, <3>4 DEF Mail!Mail
      <3> QED
        BY <3>1, <3>5 DEF Mail!Next
    <2> QED
      BY <2>2, <2>3
  <1>5. ASSUME NEW s \in Servers, NEW o \in Orders, CompleteJob(s, o)
        PROVE  Mail!Next
    <2>1. job[o] = "active" /\ mails[o] > 0
      BY <1>5, ServersNumbered DEF CompleteJob, Finish, LinksInv
    <2>2. Fate(o) = "open" /\ Fate(o)' = "confirmed"
      BY <1>5, <2>1 DEF CompleteJob, Fate, LinksInv, JobsTypeOK
    <2>3. \A p \in Orders \ {o} : Fate(p)' = Fate(p)
      BY <1>5 DEF CompleteJob, Fate, JobsTypeOK
    <2>4. [p \in Orders |-> Fate(p)]' = [[p \in Orders |-> Fate(p)] EXCEPT ![o] = "confirmed"]
      BY <2>2, <2>3
    <2>5. Mail!Confirm(o)
      BY <1>5, <2>1, <2>2, <2>4 DEF CompleteJob, Mail!Confirm, Mail!Become
    <2> QED
      BY <2>5 DEF Mail!Next
  <1>6. ASSUME NEW s \in Servers, NEW o \in Orders, FailJob(s, o)
        PROVE  Mail!Next
    <2>1. job[o] = "active"
      BY <1>6, ServersNumbered DEF FailJob, Finish, LinksInv
    <2>2. \A p \in Orders : Fate(p)' = Fate(p) \/ (Fate(p) = "open" /\ Fate(p)' = "abandoned")
      BY <1>6, <2>1 DEF FailJob, Fate, LinksInv, JobsTypeOK
    <2> QED
      BY <1>6, <2>2, AbandonOfMail DEF FailJob
  <1>7. ASSUME NEW o \in Orders, QueueStep(o)
        PROVE  Mail!Next
    <2>1. \A p \in Orders : Fate(p)' = Fate(p) \/ (Fate(p) = "open" /\ Fate(p)' = "abandoned")
      BY <1>7 DEF QueueStep, PromoteJob, ExpireLock, StallJob, Fate, LinksInv, JobsTypeOK
    <2> QED
      BY <1>7, <2>1, AbandonOfMail DEF QueueStep, PromoteJob, ExpireLock, StallJob
  <1>8. ASSUME NEW gone \in SUBSET Servers, ProcessesEnd(gone)
        PROVE  Mail!Next
    <2>1. \A p \in Orders : Fate(p)' = Fate(p) \/ (Fate(p) = "open" /\ Fate(p)' = "abandoned")
      BY <1>8 DEF ProcessesEnd, Fate, JobsTypeOK
    <2> QED
      BY <1>8, <2>1, AbandonOfMail DEF ProcessesEnd
  <1>9. ASSUME UNCHANGED <<job, notice, mails>>
        PROVE  UNCHANGED Mail!vars
    <2>1. \A o \in Orders : Fate(o)' = Fate(o)
      BY <1>9 DEF Fate
    <2> QED
      BY <1>9, <2>1, StutterOfMail
  <1>10. ASSUME NEW s \in Servers, DropRun(s) \/ CloseWorker(s) \/ WorkerClosed(s) \/ QueueClosed(s)
                                   \/ DisconnectRedis(s)
                                   \/ \E connected \in BOOLEAN : ConnectRedis(s, connected)
         PROVE  UNCHANGED Mail!vars
    BY <1>9, <1>10
       DEF DropRun, CloseWorker, WorkerClosed, QueueClosed, DisconnectRedis, ConnectRedis, jobsVars
  <1>11. ASSUME RedisStep
         PROVE  UNCHANGED Mail!vars
    BY <1>9, <1>11 DEF RedisStep, RedisDown, RedisBack, ClientEvent
  <1>12. ASSUME NEW s \in Servers, NEW o \in Orders, TakeJob(s, o)
         PROVE  UNCHANGED Mail!vars
    <2>1. \A p \in Orders : Fate(p)' = Fate(p)
      BY <1>12 DEF TakeJob, Fate, JobsTypeOK
    <2> QED
      BY <1>12, <2>1, StutterOfMail DEF TakeJob
  <1>13. ASSUME JobsStep
         PROVE  [Mail!Next]_(Mail!vars)
    <2>1. ASSUME NEW o \in Orders, OrderStep(o) \/ QueueStep(o)
          PROVE  [Mail!Next]_(Mail!vars)
      <3>1. CASE \E answered \in BOOLEAN : AddJob(o, answered)
        BY <1>3, <3>1
      <3>2. CASE CommitUnheard(o) \/ QueueOrderCreatedJob(o) \/ AddFails(o) \/ AddRejected(o)
        BY <1>2, <3>2
      <3>3. CASE QueueStep(o)
        BY <1>7, <3>3
      <3> QED
        BY <2>1, <3>1, <3>2, <3>3 DEF OrderStep
    <2>2. ASSUME NEW s \in Servers, RunStep(s)
          PROVE  [Mail!Next]_(Mail!vars)
      <3>1. CASE \E accepted, known \in BOOLEAN : ProcessOrderCreatedJob(s, accepted, known)
        BY <1>4, <3>1
      <3>2. CASE \E o \in Orders : CompleteJob(s, o) \/ FailJob(s, o)
        BY <1>5, <1>6, <3>2
      <3>3. CASE \E o \in Orders : TakeJob(s, o)
        BY <1>12, <3>3
      <3>4. CASE DropRun(s)
        BY <1>10, <3>4
      <3> QED
        BY <2>2, <3>1, <3>2, <3>3, <3>4 DEF RunStep
    <2> QED
      BY <1>11, <1>13, <2>1, <2>2 DEF JobsStep
  <1>14. ASSUME ServerStep
         PROVE  [Mail!Next]_(Mail!vars)
    BY <1>1, <1>8, <1>10, <1>14 DEF ServerStep
  <1>15. ASSUME UNCHANGED jobsVars
         PROVE  UNCHANGED Mail!vars
    BY <1>9, <1>15 DEF jobsVars
  <1> QED
    BY <1>13, <1>14, <1>15 DEF JobsNext

(* Attempts, stalls, deaths and outages are hidden: the queue implements    *)
(* the promise of OrderMail.                                                *)
THEOREM MailImplemented == JobsSpec => Mail!Spec
  <1>1. JobsInit => Mail!Init
    BY DEF JobsInit, Mail!Init, Fate
  <1>2. JInv /\ [JobsNext]_jobsVars => [Mail!Next]_(Mail!vars)
    BY StepRefinesMail
  <1> QED
    BY <1>1, <1>2, JobsInvariance, PTL DEF JobsSpec, Mail!Spec

------------------------------------------------------------------------------
(* Why a queued job settles *)

RunsLeft(o) == (MaxAttempts - attemptsMade[o]) + (MaxStalled + 1 - stalledCounter[o])

\* A job is delayed, waiting and active before a run ends, in this order.
JobLeft(o) ==
    CASE job[o] = "delayed" -> 3 * RunsLeft(o) + 2
      [] job[o] = "waiting" -> 3 * RunsLeft(o) + 1
      [] job[o] = "active" -> 3 * RunsLeft(o)
      [] OTHER -> 0

JobsRunOut ==
    [][\A o \in Orders :
          \/ UNCHANGED <<job[o], attemptsMade[o], stalledCounter[o]>>
          \/ job[o] = "none"
          \/ JobLeft(o)' < JobLeft(o)]_jobsVars

(* What is done to a queued job brings it nearer to its end: a failed       *)
(* attempt and a stall are paid for, a repeated queue.add changes nothing.  *)
LEMMA JobStepsCount ==
    ASSUME JInv, JInv', JobsNext, NEW o \in Orders
    PROVE  \/ UNCHANGED <<job[o], attemptsMade[o], stalledCounter[o]>>
           \/ job[o] = "none"
           \/ JobLeft(o)' < JobLeft(o)
  <1> USE OrdersAssumption, AttemptsAssumption, StalledAssumption
  <1> DEFINE Rest == UNCHANGED <<job[o], attemptsMade[o], stalledCounter[o]>>
  <1>0. /\ job \in [Orders -> {"none", "waiting", "delayed", "active", "completed", "failed"}]
        /\ attemptsMade \in [Orders -> Nat] /\ stalledCounter \in [Orders -> Nat]
        /\ job[o] \in {"waiting", "delayed", "active"} =>
              attemptsMade[o] < MaxAttempts /\ stalledCounter[o] <= MaxStalled
    BY DEF JInv, JobsTypeOK, CountsInv
  <1>1. RunsLeft(o) \in Int /\ (job[o] \in {"waiting", "delayed", "active"} => RunsLeft(o) >= 2)
    BY <1>0 DEF RunsLeft
  <1>2. CASE UNCHANGED <<job, attemptsMade, stalledCounter>>
    BY <1>2
  <1>3. ASSUME NEW p \in Orders, NEW answered \in BOOLEAN, AddJob(p, answered)
        PROVE  Rest \/ job[o] = "none"
    BY <1>0, <1>3 DEF AddJob
  <1>4. ASSUME NEW s \in Servers, NEW p \in Orders, TakeJob(s, p)
        PROVE  Rest \/ JobLeft(o)' < JobLeft(o)
    <2>1. CASE o # p
      BY <1>0, <1>4, <2>1 DEF TakeJob
    <2>2. CASE o = p
      <3>1. /\ job[o] = "waiting" /\ job'[o] = "active"
            /\ UNCHANGED <<attemptsMade, stalledCounter>>
        BY <1>0, <1>4, <2>2 DEF TakeJob
      <3>2. RunsLeft(o)' = RunsLeft(o)
        BY <3>1 DEF RunsLeft
      <3> QED
        BY <1>1, <3>1, <3>2 DEF JobLeft
    <2> QED
      BY <2>1, <2>2
  <1>5. ASSUME NEW s \in Servers, NEW p \in Orders, CompleteJob(s, p) \/ FailJob(s, p)
        PROVE  Rest \/ JobLeft(o)' < JobLeft(o)
    <2>1. CASE o # p
      BY <1>0, <1>5, <2>1 DEF CompleteJob, FailJob
    <2>2. CASE o = p
      <3>1. job[o] = "active"
        BY <1>5, <2>2, ServersNumbered DEF CompleteJob, FailJob, Finish, JInv, LinksInv
      <3>2. \/ job'[o] \in {"completed", "failed"}
            \/ /\ job'[o] = "delayed"
               /\ attemptsMade'[o] = attemptsMade[o] + 1 /\ UNCHANGED stalledCounter
        BY <1>0, <1>5, <2>2 DEF CompleteJob, FailJob
      <3>3. CASE job'[o] \in {"completed", "failed"}
        BY <1>1, <3>1, <3>3 DEF JobLeft
      <3>4. CASE job'[o] = "delayed"
        <4>1. RunsLeft(o)' = RunsLeft(o) - 1
          BY <1>0, <3>2, <3>4 DEF RunsLeft
        <4> QED
          BY <1>1, <3>1, <3>4, <4>1 DEF JobLeft
      <3> QED
        BY <3>2, <3>3, <3>4
    <2> QED
      BY <2>1, <2>2
  <1>6. ASSUME NEW p \in Orders, PromoteJob(p) \/ StallJob(p)
        PROVE  Rest \/ JobLeft(o)' < JobLeft(o)
    <2>1. CASE o # p
      BY <1>0, <1>6, <2>1 DEF PromoteJob, StallJob
    <2>2. CASE o = p /\ PromoteJob(p)
      <3>1. /\ job[o] = "delayed" /\ job'[o] = "waiting"
            /\ UNCHANGED <<attemptsMade, stalledCounter>>
        BY <1>0, <2>2 DEF PromoteJob
      <3>2. RunsLeft(o)' = RunsLeft(o)
        BY <3>1 DEF RunsLeft
      <3> QED
        BY <1>1, <3>1, <3>2 DEF JobLeft
    <2>3. CASE o = p /\ StallJob(p)
      <3>1. /\ job[o] = "active" /\ job'[o] \in {"waiting", "failed"}
            /\ stalledCounter'[o] = stalledCounter[o] + 1 /\ UNCHANGED attemptsMade
        BY <1>0, <2>3 DEF StallJob
      <3>2. RunsLeft(o)' = RunsLeft(o) - 1
        BY <1>0, <3>1 DEF RunsLeft
      <3> QED
        BY <1>1, <3>1, <3>2 DEF JobLeft
    <2> QED
      BY <1>6, <2>1, <2>2, <2>3
  <1> QED
    BY <1>2, <1>3, <1>4, <1>5, <1>6
       DEF JobsNext, JobsStep, ServerStep, OrderStep, RunStep, QueueStep, RedisStep,
           CommitUnheard, QueueOrderCreatedJob, AddFails, AddRejected, ProcessOrderCreatedJob,
           DropRun, ExpireLock, RedisDown, RedisBack, ClientEvent, CommitOrder, ConnectRedis,
           CloseWorker, WorkerClosed, QueueClosed, DisconnectRedis, ProcessesEnd, jobs, jobsVars

(* Whatever servers come, die or lose Redis, and however often queue.add is *)
(* sent again, a queued job is run at most as often as its attempts and     *)
(* stalls allow and then is settled for good.                               *)
THEOREM JobsEnd == JobsSpec => JobsRunOut
  <1>1. JInv /\ JInv' /\ [JobsNext]_jobsVars =>
           [\A o \in Orders :
               \/ UNCHANGED <<job[o], attemptsMade[o], stalledCounter[o]>>
               \/ job[o] = "none"
               \/ JobLeft(o)' < JobLeft(o)]_jobsVars
    BY JobStepsCount
  <1> QED
    BY <1>1, JobsInvariance, PTL DEF JobsSpec, JobsRunOut

==============================================================================
