------------------------------ MODULE OrderJobs ------------------------------
(***************************************************************************)
(* The email about an order: queueOrderCreatedJob, started by createOrder  *)
(* after the commit and not waited for; the BullMQ queue in Redis; the     *)
(* worker of each server process, which runs one job at a time; and        *)
(* processOrderCreatedJob.  A job is taken under a lock that its worker    *)
(* keeps renewing; when the lock is lost the job has stalled and is given  *)
(* to another run, while the first may still be going on.                  *)
(*                                                                         *)
(* Servers come and go by the actions ConnectRedis, CloseWorker, ... which *)
(* OrderServer joins with the steps of Lifecycle.                          *)
(***************************************************************************)
EXTENDS ServerData

VARIABLES
    notice,         \* what became of an order's notification at its server
    home,           \* the server an order was sent to
    job,            \* the state of the job order-email-<orderId>
    attemptsMade,   \* attempts that failed
    stalledCounter, \* how often it stalled
    lock,           \* whose lock on the job is in Redis
    worker,         \* the BullMQ worker of each server
    current,        \* the job it runs
    stage,          \* how far the handler is
    closing,        \* servers that have called close of their orderQueue
    client,         \* the server's Redis client: closed, ready, in error or quitting
    redisUp,        \* whether Redis can be reached
    mails,          \* how often each order was mailed about
    faults          \* faults so far

jobs == <<job, attemptsMade, stalledCounter, lock>>
runs == <<worker, current, stage>>
jobsVars == <<notice, home, jobs, runs, closing, client, redisUp, mails, faults>>

JobsInit ==
    /\ notice = [o \in Orders |-> "none"]
    /\ home = [o \in Orders |-> NoServer]
    /\ job = [o \in Orders |-> "none"]
    /\ attemptsMade = [o \in Orders |-> 0]
    /\ stalledCounter = [o \in Orders |-> 0]
    /\ lock = [o \in Orders |-> NoServer]
    /\ worker = [s \in Servers |-> "off"]
    /\ current = [s \in Servers |-> NoOrder]
    /\ stage = [s \in Servers |-> "idle"]
    /\ closing = {}
    /\ client = [s \in Servers |-> "closed"]
    /\ redisUp = TRUE
    /\ mails = [o \in Orders |-> 0]
    /\ faults = 0

Fault == faults < MaxFaults /\ faults' = faults + 1

------------------------------------------------------------------------------
(* The server of an order *)

Notice(o, n) == notice' = [notice EXCEPT ![o] = n]

\* The order is durable; its server has not heard of it yet.
CommitOrder(o, s) ==
    /\ notice[o] = "none"
    /\ Notice(o, "committed")
    /\ home' = [home EXCEPT ![o] = s]
    /\ UNCHANGED <<jobs, runs, closing, client, redisUp, mails, faults>>

\* The acknowledgement of the commit is lost: runInTransaction throws.
CommitUnheard(o) ==
    /\ notice[o] = "committed"
    /\ Notice(o, "lost")
    /\ Fault
    /\ UNCHANGED <<home, jobs, runs, closing, client, redisUp, mails>>

\* queueOrderCreatedJob up to its await: isRedisReady, or the job is skipped.
QueueOrderCreatedJob(o) ==
    /\ notice[o] = "committed"
    /\ Notice(o, IF client[home[o]] = "ready" THEN "adding" ELSE "skipped")
    /\ UNCHANGED <<home, jobs, runs, closing, client, redisUp, mails, faults>>

\* Mutant of AddJob: without jobId every delivery of the command is a new job.
AddJobAnonymous(o, answered) ==
    /\ notice[o] = "adding"
    /\ redisUp
    /\ Notice(o, IF answered THEN "added" ELSE "adding")
    /\ job' = [job EXCEPT ![o] = "waiting"]
    /\ attemptsMade' = [attemptsMade EXCEPT ![o] = 0]
    /\ stalledCounter' = [stalledCounter EXCEPT ![o] = 0]
    /\ IF answered THEN UNCHANGED faults ELSE Fault
    /\ UNCHANGED <<home, lock, runs, closing, client, redisUp, mails>>

\* Redis executes queue.add; a job that has the id already is left alone.
\* Without an answer the Redis client sends the command again.
AddJob(o, answered) ==
    /\ notice[o] = "adding"
    /\ redisUp
    /\ Notice(o, IF answered THEN "added" ELSE "adding")
    /\ job' = [job EXCEPT ![o] = IF @ = "none" THEN "waiting" ELSE @]
    /\ IF answered THEN UNCHANGED faults ELSE Fault
    /\ UNCHANGED <<home, attemptsMade, stalledCounter, lock, runs, closing, client,
                   redisUp, mails>>

\* queue.add rejects, for want of Redis; the catch only logs.
AddFails(o) ==
    /\ notice[o] = "adding"
    /\ Notice(o, "lost")
    /\ Fault
    /\ UNCHANGED <<home, jobs, runs, closing, client, redisUp, mails>>

\* queue.add rejects because its queue is closing or closed: until close has
\* returned, getOrderQueue hands out that queue, to later orders too.  An add
\* whose command was sent before, or whose queue was made just after the
\* close, is still executed (AddJob).
AddRejected(o) ==
    /\ notice[o] = "adding"
    /\ home[o] \in closing
    /\ Notice(o, "lost")
    /\ UNCHANGED <<home, jobs, runs, closing, client, redisUp, mails, faults>>

------------------------------------------------------------------------------
(* A worker *)

Run(s, o, at) ==
    /\ current' = [current EXCEPT ![s] = o]
    /\ stage' = [stage EXCEPT ![s] = at]
Running(s, at) == current[s] # NoOrder /\ stage[s] = at

TakeJob(s, o) ==
    /\ worker[s] = "on" /\ current[s] = NoOrder
    /\ redisUp /\ job[o] = "waiting"
    /\ job' = [job EXCEPT ![o] = "active"]
    /\ lock' = [lock EXCEPT ![o] = s]
    /\ Run(s, o, "processing")
    /\ UNCHANGED <<notice, home, attemptsMade, stalledCounter, worker, closing, client,
                   redisUp, mails, faults>>

\* processOrderCreatedJob.  A missing user or order, a failing query and a
\* SendMail that answers false make it throw; SendMail also answers false
\* when it never learned that the mail was accepted.
ProcessOrderCreatedJob(s, accepted, known) ==
    /\ Running(s, "processing")
    /\ mails' = [mails EXCEPT ![current[s]] = IF accepted THEN @ + 1 ELSE @]
    /\ Run(s, current[s], IF accepted /\ known THEN "returned" ELSE "threw")
    /\ UNCHANGED <<notice, home, jobs, worker, closing, client, redisUp, faults>>

\* The end of a run is recorded in Redis, by whoever still holds the lock.
Finish(s, o) ==
    /\ current[s] = o /\ o # NoOrder
    /\ redisUp
    /\ lock[o] = s
    /\ lock' = [lock EXCEPT ![o] = NoServer]
    /\ Run(s, NoOrder, "idle")

CompleteJob(s, o) ==
    /\ stage[s] = "returned"
    /\ Finish(s, o)
    /\ job' = [job EXCEPT ![o] = "completed"]
    /\ UNCHANGED <<notice, home, attemptsMade, stalledCounter, worker, closing, client,
                   redisUp, mails, faults>>

\* Mutant of FailJob: one attempt too many.
FailJobOnceMore(s, o) ==
    /\ stage[s] = "threw"
    /\ Finish(s, o)
    /\ attemptsMade' = [attemptsMade EXCEPT ![o] = @ + 1]
    /\ job' = [job EXCEPT ![o] =
                  IF attemptsMade[o] < MaxAttempts THEN "delayed" ELSE "failed"]
    /\ UNCHANGED <<notice, home, stalledCounter, worker, closing, client, redisUp,
                   mails, faults>>

\* Mutant of FailJob: a job option sets no number of attempts that ends.
FailJobForever(s, o) ==
    /\ stage[s] = "threw"
    /\ Finish(s, o)
    /\ attemptsMade' = [attemptsMade EXCEPT ![o] = IF @ + 1 < MaxAttempts THEN @ + 1 ELSE @]
    /\ job' = [job EXCEPT ![o] = "delayed"]
    /\ UNCHANGED <<notice, home, stalledCounter, worker, closing, client, redisUp,
                   mails, faults>>

\* A handler that threw: retried after a delay, up to MaxAttempts.
FailJob(s, o) ==
    /\ stage[s] = "threw"
    /\ Finish(s, o)
    /\ attemptsMade' = [attemptsMade EXCEPT ![o] = @ + 1]
    /\ job' = [job EXCEPT ![o] =
                  IF attemptsMade[o] + 1 < MaxAttempts THEN "delayed" ELSE "failed"]
    /\ UNCHANGED <<notice, home, stalledCounter, worker, closing, client, redisUp,
                   mails, faults>>

\* A run that lost its lock cannot record its end.
DropRun(s) ==
    /\ stage[s] \in {"returned", "threw"}
    /\ redisUp
    /\ current[s] # NoOrder /\ lock[current[s]] # s
    /\ Run(s, NoOrder, "idle")
    /\ UNCHANGED <<notice, home, jobs, worker, closing, client, redisUp, mails, faults>>

------------------------------------------------------------------------------
(* The queue *)

Served == redisUp /\ \E s \in Servers : worker[s] = "on"

\* The backoff of a failed attempt is over.
PromoteJob(o) ==
    /\ Served /\ job[o] = "delayed"
    /\ job' = [job EXCEPT ![o] = "waiting"]
    /\ UNCHANGED <<notice, home, attemptsMade, stalledCounter, lock, runs, closing,
                   client, redisUp, mails, faults>>

\* Nobody renews the lock: its run died, or cannot reach Redis.
ExpireLock(o) ==
    /\ lock[o] # NoServer
    /\ current[lock[o]] # o \/ ~redisUp
    /\ lock' = [lock EXCEPT ![o] = NoServer]
    /\ UNCHANGED <<notice, home, job, attemptsMade, stalledCounter, runs, closing,
                   client, redisUp, mails, faults>>

\* The stalled check of a running worker finds the job without a lock.
StallJob(o) ==
    /\ Served /\ job[o] = "active" /\ lock[o] = NoServer
    /\ stalledCounter' = [stalledCounter EXCEPT ![o] = @ + 1]
    /\ job' = [job EXCEPT ![o] =
                  IF stalledCounter[o] < MaxStalled THEN "waiting" ELSE "failed"]
    /\ UNCHANGED <<notice, home, attemptsMade, lock, runs, closing, client, redisUp,
                   mails, faults>>

------------------------------------------------------------------------------
(* Redis, and each server's client *)

RedisDown ==
    /\ redisUp
    /\ redisUp' = FALSE
    /\ Fault
    /\ UNCHANGED <<notice, home, jobs, runs, closing, client, mails>>

RedisBack ==
    /\ ~redisUp
    /\ redisUp' = TRUE
    /\ UNCHANGED <<notice, home, jobs, runs, closing, client, mails, faults>>

\* The error and ready events of an open client.
ClientEvent(s) ==
    /\ client[s] = IF redisUp THEN "error" ELSE "ready"
    /\ client' = [client EXCEPT ![s] = IF redisUp THEN "ready" ELSE "error"]
    /\ UNCHANGED <<notice, home, jobs, runs, closing, redisUp, mails, faults>>

------------------------------------------------------------------------------
(* A server starts, closes and ends *)

\* connectRedis; the worker is started when it succeeds.
ConnectRedis(s, connected) ==
    /\ connected = redisUp
    /\ client[s] = "closed" /\ worker[s] = "off"
    /\ client' = IF connected THEN [client EXCEPT ![s] = "ready"] ELSE client
    /\ worker' = IF connected THEN [worker EXCEPT ![s] = "on"] ELSE worker
    /\ UNCHANGED <<notice, home, jobs, current, stage, closing, redisUp, mails, faults>>

\* worker.close: no further job is taken ...
CloseWorker(s) ==
    /\ worker' = [worker EXCEPT ![s] = IF @ = "on" THEN "closing" ELSE @]
    /\ UNCHANGED <<notice, home, jobs, current, stage, closing, client, redisUp,
                   mails, faults>>

\* Mutant of WorkerClosed: the worker is closed by force.
WorkerClosedByForce(s) ==
    /\ worker' = [worker EXCEPT ![s] = "off"]
    /\ Run(s, NoOrder, "idle")
    /\ closing' = closing \cup {s}
    /\ UNCHANGED <<notice, home, jobs, client, redisUp, mails, faults>>

\* ... and it returns when the running one is over; then closeOrderQueue
\* calls close of the queue ...
WorkerClosed(s) ==
    /\ current[s] = NoOrder
    /\ worker' = [worker EXCEPT ![s] = "off"]
    /\ closing' = closing \cup {s}
    /\ UNCHANGED <<notice, home, jobs, current, stage, client, redisUp, mails, faults>>

\* ... which returns whatever adds are under way.  disconnectRedis calls quit
\* of an open client, and that is the end of isOpen.
QueueClosed(s) ==
    /\ client' = [client EXCEPT ![s] = IF @ = "closed" THEN @ ELSE "quitting"]
    /\ UNCHANGED <<notice, home, jobs, runs, closing, redisUp, mails, faults>>

\* quit is answered by Redis.
DisconnectRedis(s) ==
    /\ client[s] = "closed" \/ redisUp
    /\ client' = [client EXCEPT ![s] = "closed"]
    /\ UNCHANGED <<notice, home, jobs, runs, closing, redisUp, mails, faults>>

\* The processes in gone exit: what they had in memory is gone, Redis keeps
\* the jobs and, for a while, the locks.
ProcessesEnd(gone) ==
    /\ notice' = [o \in Orders |->
                     IF home[o] \in gone /\ notice[o] \in {"committed", "adding"}
                     THEN "lost" ELSE notice[o]]
    /\ worker' = [s \in Servers |-> IF s \in gone THEN "off" ELSE worker[s]]
    /\ current' = [s \in Servers |-> IF s \in gone THEN NoOrder ELSE current[s]]
    /\ stage' = [s \in Servers |-> IF s \in gone THEN "idle" ELSE stage[s]]
    /\ closing' = closing \ gone
    /\ client' = [s \in Servers |-> IF s \in gone THEN "closed" ELSE client[s]]
    /\ UNCHANGED <<home, jobs, redisUp, mails, faults>>

------------------------------------------------------------------------------
(* The jobs by themselves, whatever the servers do *)

OrderStep(o) ==
    \/ CommitUnheard(o) \/ QueueOrderCreatedJob(o) \/ AddFails(o) \/ AddRejected(o)
    \/ \E answered \in BOOLEAN : AddJob(o, answered)

RunStep(s) ==
    \/ \E accepted, known \in BOOLEAN : ProcessOrderCreatedJob(s, accepted, known)
    \/ \E o \in Orders : TakeJob(s, o) \/ CompleteJob(s, o) \/ FailJob(s, o)
    \/ DropRun(s)

QueueStep(o) == PromoteJob(o) \/ ExpireLock(o) \/ StallJob(o)

RedisStep == RedisDown \/ RedisBack \/ \E s \in Servers : ClientEvent(s)

JobsStep ==
    \/ \E o \in Orders : OrderStep(o) \/ QueueStep(o)
    \/ \E s \in Servers : RunStep(s)
    \/ RedisStep

\* What servers do to them.
ServerStep ==
    \/ \E s \in Servers :
          \/ \E o \in Orders : CommitOrder(o, s)
          \/ \E connected \in BOOLEAN : ConnectRedis(s, connected)
          \/ CloseWorker(s) \/ WorkerClosed(s) \/ QueueClosed(s) \/ DisconnectRedis(s)
    \/ \E gone \in SUBSET Servers : ProcessesEnd(gone)

JobsNext == JobsStep \/ ServerStep

JobsSpec == JobsInit /\ [][JobsNext]_jobsVars

------------------------------------------------------------------------------
(* What it promises *)

JobsTypeOK ==
    /\ notice \in [Orders -> {"none", "committed", "adding", "added", "skipped", "lost"}]
    /\ home \in [Orders -> Servers \cup {NoServer}]
    /\ job \in [Orders -> {"none", "waiting", "delayed", "active", "completed", "failed"}]
    /\ attemptsMade \in [Orders -> 0..MaxAttempts]
    /\ stalledCounter \in [Orders -> 0..(MaxStalled + 1)]
    /\ lock \in [Orders -> Servers \cup {NoServer}]
    /\ worker \in [Servers -> {"off", "on", "closing"}]
    /\ current \in [Servers -> Orders \cup {NoOrder}]
    /\ stage \in [Servers -> {"idle", "processing", "returned", "threw"}]
    /\ closing \subseteq Servers
    /\ client \in [Servers -> {"closed", "ready", "error", "quitting"}]
    /\ redisUp \in BOOLEAN
    /\ mails \in [Orders -> 0..(MaxAttempts + MaxStalled)]
    /\ faults \in 0..MaxFaults

\* What became of the email, as OrderMail sees it.
Fate(o) ==
    IF notice[o] = "none" THEN "none"
    ELSE IF job[o] = "completed" THEN "confirmed"
    ELSE IF job[o] = "failed" \/ (job[o] = "none" /\ notice[o] \in {"skipped", "lost"})
    THEN "abandoned"
    ELSE "open"

Mail == INSTANCE OrderMail WITH
            MaxMails <- MaxAttempts + MaxStalled,
            fate <- [o \in Orders |-> Fate(o)],
            mails <- mails
==============================================================================
