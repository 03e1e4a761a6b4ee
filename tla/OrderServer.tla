----------------------------- MODULE OrderServer -----------------------------
(***************************************************************************)
(* Servers and the email jobs together: Lifecycle says when a process      *)
(* takes orders, runs its worker, closes what it opened and dies; and      *)
(* OrderJobs what that does to orders being placed and to jobs.  A joint   *)
(* step is a step of each.                                                 *)
(***************************************************************************)
EXTENDS OrderJobs, Lifecycle

vars == <<jobsVars, serverVars>>

Init == JobsInit /\ ServerInit

------------------------------------------------------------------------------
(* Joint steps *)

\* A request that came while the server listened commits its order; during
\* the shutdown its handler goes on, and sequelize.close waits for it.
PlaceOrder(o, s) ==
    /\ phase[s] \in Stopping \cup {"listening"}
    /\ CommitOrder(o, s)
    /\ UNCHANGED serverVars

\* The worker runs from here on, before the migrations and before listen.
ConnectRedisOrWarn(s) == RedisTried(s) /\ \E connected \in BOOLEAN : ConnectRedis(s, connected)

\* Mutant of CloseServer: Redis is disconnected before the worker and the
\* queue are closed.
CloseServerRedisFirst(s) ==
    \/ CloseHttp(s) /\ QueueClosed(s)
    \/ StopWorker(s) /\ DisconnectRedis(s)
    \/ CloseQueue(s) /\ CloseWorker(s)
    \/ CloseRedis(s) /\ WorkerClosed(s)

\* closeInfrastructure: each step is the answer to one await and the call of
\* the next, stopOrderWorker, closeOrderQueue, disconnectRedis.
CloseServer(s) ==
    \/ CloseHttp(s) /\ CloseWorker(s)
    \/ StopWorker(s) /\ WorkerClosed(s)
    \/ CloseQueue(s) /\ QueueClosed(s)
    \/ CloseRedis(s) /\ DisconnectRedis(s)

Exit(s) == ClosePool(s) /\ ProcessesEnd({s})

Die(s) == (ForceExit(s) \/ Fail(s) \/ Kill(s)) /\ ProcessesEnd({s})

TakePort(s) == \E killed \in SUBSET PortOwners : FreePort(s, killed) /\ ProcessesEnd(killed)

\* Steps a process takes by itself on its way to listening.
StartStep(s) ==
    /\ MigrateStep(s) \/ Listen(s) \/ AddressInUse(s)
    /\ UNCHANGED jobsVars

\* A process is started, by hand or because of restart: unless-stopped.
Boot(s) == StartServer(s) /\ UNCHANGED jobsVars

Terminate(s) == Signal(s) /\ UNCHANGED jobsVars

JobsAlone == JobsStep /\ UNCHANGED serverVars

Next ==
    \/ JobsAlone
    \/ \E s \in Servers :
          \/ \E o \in Orders : PlaceOrder(o, s)
          \/ Boot(s) \/ ConnectRedisOrWarn(s) \/ StartStep(s) \/ TakePort(s)
          \/ Terminate(s) \/ CloseServer(s) \/ Exit(s) \/ Die(s)

\* Workers and the queue's timers go on, and Redis comes back.  No fairness
\* for boots, signals, requests and faults.
Fairness ==
    /\ \A s \in Servers : WF_vars(RunStep(s) /\ UNCHANGED serverVars)
    /\ \A o \in Orders : WF_vars(QueueStep(o) /\ UNCHANGED serverVars)
    /\ WF_vars(RedisBack /\ UNCHANGED serverVars)

Spec == Init /\ [][Next]_vars /\ Fairness

------------------------------------------------------------------------------
(* Properties *)

TypeOK == JobsTypeOK /\ ServerTypeOK

\* The queue with its attempts, stalls, deaths and outages implements the
\* promise of OrderMail: no mail without a committed order, none confirmed
\* unless one was sent, each settled once, and at most MaxAttempts +
\* MaxStalled mails (jobId, attempts, and stalled jobs of the queue).
ImplementsOrderMail == Mail!Spec

\* Without an outage or a lost answer, an order placed at a server that
\* serves, or that still waits for its worker, gets its job.  What is lost is
\* explained by the process: its end, or how far its shutdown was.  queue.add
\* is rejected from the call of closeOrderQueue on, and queueOrderCreatedJob
\* skips the job from the call of quit on, not before.
LossExplained ==
    \A o \in Orders : faults = 0 =>
        /\ notice[o] = "skipped" => phase[home[o]] \in {"disconnecting", "closingPool", "ended"}
        /\ notice[o] = "lost" =>
              phase[home[o]] \in {"closingQueue", "disconnecting", "closingPool", "ended"}

\* What cuts a job in the middle, so that it may be run, and mailed, twice:
\* an outage, or a process that did not end by a complete graceful shutdown
\* (the forced exit, a failure, freePort).
CutOff == faults > 0 \/ \E s \in Servers : ended[s] = "cut"

\* A graceful shutdown that completes leaves no job behind: worker.close is
\* awaited before the connections are closed, so a job only stalls when
\* something was cut off.
StalledMeansCutOff == (\E o \in Orders : stalledCounter[o] > 0) => CutOff

\* A queued job is completed or failed, whichever servers come and go, if
\* from some time on there is always one whose worker runs.
QueuedJobSettles ==
    <>[](\E s \in Servers : worker[s] = "on") =>
        \A o \in Orders : [](job[o] # "none" => <>(job[o] \in {"completed", "failed"}))
==============================================================================
