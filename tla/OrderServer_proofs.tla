-------------------------- MODULE OrderServer_proofs --------------------------
(***************************************************************************)
(* Proofs about OrderServer.  A joint step is a step of the jobs and a     *)
(* step of the servers, so what was proved of each holds of both together; *)
(* and about the two together: which orders lose their email, and which    *)
(* jobs stall.                                                             *)
(***************************************************************************)
EXTENDS OrderServer, OrderJobs_proofs, Lifecycle_proofs

------------------------------------------------------------------------------
(* The parts *)

(* A joint step is a step of each part, or none.                            *)
LEMMA StepOfParts == [Next]_vars => [JobsNext]_jobsVars /\ [ServerNext]_serverVars
  <1> SUFFICES ASSUME [Next]_vars PROVE [JobsNext]_jobsVars /\ [ServerNext]_serverVars
    OBVIOUS
  <1>1. CASE UNCHANGED vars
    BY <1>1 DEF vars
  <1>2. CASE JobsAlone
    BY <1>2 DEF JobsAlone, JobsNext
  <1>3. ASSUME NEW s \in Servers, NEW o \in Orders, PlaceOrder(o, s)
        PROVE  [JobsNext]_jobsVars /\ [ServerNext]_serverVars
    BY <1>3 DEF PlaceOrder, JobsNext, ServerStep
  <1>4. ASSUME NEW s \in Servers, Boot(s) \/ StartStep(s) \/ Terminate(s)
        PROVE  [JobsNext]_jobsVars /\ [ServerNext]_serverVars
    BY <1>4 DEF Boot, StartStep, Terminate, ServerNext
  <1>5. ASSUME NEW s \in Servers, ConnectRedisOrWarn(s)
        PROVE  [JobsNext]_jobsVars /\ [ServerNext]_serverVars
    BY <1>5 DEF ConnectRedisOrWarn, JobsNext, ServerStep, ServerNext
  <1>6. ASSUME NEW s \in Servers, CloseServer(s)
        PROVE  [JobsNext]_jobsVars /\ [ServerNext]_serverVars
    BY <1>6 DEF CloseServer, JobsNext, ServerStep, ServerNext
  <1>7. ASSUME NEW s \in Servers, Exit(s) \/ Die(s)
        PROVE  [JobsNext]_jobsVars /\ [ServerNext]_serverVars
    <2>1. {s} \in SUBSET Servers
      OBVIOUS
    <2> QED
      BY <1>7, <2>1 DEF Exit, Die, JobsNext, ServerStep, ServerNext
  <1>8. ASSUME NEW s \in Servers, TakePort(s)
        PROVE  [JobsNext]_jobsVars /\ [ServerNext]_serverVars
    <2>1. PICK killed \in SUBSET PortOwners : FreePort(s, killed) /\ ProcessesEnd(killed)
      BY <1>8 DEF TakePort
    <2>2. killed \in SUBSET Servers
      BY DEF PortOwners
    <2> QED
      BY <2>1, <2>2 DEF JobsNext, ServerStep, ServerNext
  <1> QED
    BY <1>1, <1>2, <1>3, <1>4, <1>5, <1>6, <1>7, <1>8 DEF Next

(* The composition implements each of its parts.                            *)
THEOREM PartsImplemented == Spec => JobsSpec /\ ServerSpec
  BY StepOfParts, PTL DEF Spec, Init, JobsSpec, ServerSpec

(* Jobs and servers stay within their types.                                *)
THEOREM TypeCorrect == Spec => []TypeOK
  <1>1. JobsTypeOK /\ ServerTypeOK <=> TypeOK
    BY DEF TypeOK
  <1> QED
    BY <1>1, PartsImplemented, JobsTypeCorrect, ServersTypeCorrect, PTL

(* However the servers start, stop and die, the promise of OrderMail holds. *)
THEOREM OrderMailImplemented == Spec => ImplementsOrderMail
  BY PartsImplemented, MailImplemented DEF ImplementsOrderMail

(* Whatever the jobs do, who takes requests has its schema.                 *)
THEOREM SchemaAlwaysServed == Spec => []SchemaServed
  BY PartsImplemented, SchemaIsServed

(* Whatever the jobs do, a start is bounded.                                *)
THEOREM StartAlwaysBounded == Spec => StartsBounded
  BY PartsImplemented, StartIsBounded

(* Servers that come, go and die never make a queued job run without end.   *)
THEOREM QueuedJobsEnd == Spec => JobsRunOut
  BY PartsImplemented, JobsEnd, PTL

------------------------------------------------------------------------------
(* The two together *)

Connected == {"planning", "migrating", "freeing", "binding", "listening", "closingHttp",
              "stoppingWorker", "closingQueue"}

(* Without a fault Redis is there for every server until it calls quit.     *)
RedisInv ==
    faults = 0 => redisUp /\ \A s \in Servers : phase[s] \in Connected => client[s] = "ready"

(* An order is of a server that listened.                                   *)
PlacedInv ==
    \A o \in Orders : notice[o] # "none" =>
        home[o] \in Servers /\ phase[home[o]] \in Stopping \cup {"listening", "ended"}

(* Past worker.close no job runs; only then the queue is closed; and a      *)
(* process is cut off once.                                                 *)
StoppedInv ==
    \A s \in Servers :
        /\ phase[s] \in {"closingQueue", "disconnecting", "closingPool"} =>
              worker[s] = "off" /\ current[s] = NoOrder
        /\ s \in closing => phase[s] \in {"closingQueue", "disconnecting", "closingPool"}
        /\ ended[s] = "cut" => phase[s] = "ended"

(* Unless something was cut off, whoever has the lock runs the job.         *)
HeldInv ==
    ~CutOff =>
        \A o \in Orders :
            /\ stalledCounter[o] = 0
            /\ job[o] = "active" => lock[o] \in Servers /\ current[lock[o]] = o

OInv == RedisInv /\ PlacedInv /\ StoppedInv /\ HeldInv /\ LossExplained

(* No order, no server.                                                     *)
LEMMA InitOInv == Init => OInv
  BY DEF Init, JobsInit, ServerInit, OInv, RedisInv, Connected, PlacedInv, StoppedInv, HeldInv,
         CutOff, LossExplained

(* An order that is placed is placed with a server that listened.           *)
LEMMA PlaceOrderOInv ==
    ASSUME OInv, JInv, NEW s \in Servers, NEW o \in Orders, PlaceOrder(o, s)
    PROVE  OInv'
  <1> USE DEF PlaceOrder, CommitOrder, Notice, OInv, JInv, JobsTypeOK, jobs, runs, serverVars
  <1>1. RedisInv'
    BY DEF RedisInv
  <1>2. PlacedInv'
    BY DEF PlacedInv
  <1>3. StoppedInv' /\ HeldInv'
    BY DEF StoppedInv, HeldInv, CutOff
  <1>4. LossExplained'
    BY DEF LossExplained
  <1> QED
    BY <1>1, <1>2, <1>3, <1>4

(* Without a fault a job is rejected only by a queue that is being closed,  *)
(* and skipped only from the call of quit on.                               *)
LEMMA OrderStepOInv ==
    ASSUME OInv, JInv, NEW o \in Orders, OrderStep(o), UNCHANGED serverVars
    PROVE  OInv'
  <1> USE FaultsAssumption
      DEF OrderStep, CommitUnheard, QueueOrderCreatedJob, AddFails, AddRejected, AddJob, Notice,
          Fault, OInv, JInv, JobsTypeOK, jobs, runs, serverVars
  <1>1. /\ faults \in Nat /\ faults' \in Nat /\ (faults' = 0 => faults = 0)
        /\ UNCHANGED <<home, closing, client, redisUp, lock, stalledCounter, worker, current,
                       phase, ended>>
        /\ \A p \in Orders : job'[p] = "active" => job[p] = "active"
        /\ \A p \in Orders : notice'[p] # "none" => notice[p] # "none"
    BY DEF JInv, LinksInv
  <1>2. RedisInv'
    BY <1>1 DEF RedisInv
  <1>3. PlacedInv'
    BY <1>1 DEF PlacedInv
  <1>4. StoppedInv'
    BY <1>1 DEF StoppedInv
  <1>5. HeldInv'
    BY <1>1 DEF HeldInv, CutOff
  <1>6. LossExplained'
    <2>1. \A p \in Orders \ {o} : notice'[p] = notice[p]
      OBVIOUS
    <2>2. faults' = 0 /\ notice'[o] = "skipped" => client[home[o]] # "ready" /\ notice[o] # "none"
      OBVIOUS
    <2>3. faults' = 0 /\ notice'[o] = "lost" => home[o] \in closing /\ notice[o] # "none"
      BY <1>1
    <2>4. faults' = 0 /\ notice'[o] = "skipped" =>
             phase[home[o]] \in {"disconnecting", "closingPool", "ended"}
      BY <1>1, <2>2 DEF RedisInv, PlacedInv, Connected, Stopping
    <2>5. faults' = 0 /\ notice'[o] = "lost" =>
             phase[home[o]] \in {"closingQueue", "disconnecting", "closingPool", "ended"}
      BY <2>3 DEF PlacedInv, StoppedInv
    <2> QED
      BY <1>1, <2>1, <2>4, <2>5 DEF LossExplained
  <1> QED
    BY <1>2, <1>3, <1>4, <1>5, <1>6

(* A run begins with its lock, and ends with it.                            *)
LEMMA RunStepOInv ==
    ASSUME OInv, JInv, NEW s \in Servers, RunStep(s), UNCHANGED serverVars
    PROVE  OInv'
  <1> USE OrdersAssumption
      DEF RunStep, ProcessOrderCreatedJob, TakeJob, CompleteJob, FailJob, DropRun, Finish, Run,
          Running, jobs, OInv, serverVars
  <1>1. UNCHANGED <<faults, redisUp, closing, client, notice, home, worker, phase, ended,
                  stalledCounter>>
    OBVIOUS
  <1>2. RedisInv' /\ PlacedInv' /\ LossExplained'
    BY <1>1 DEF RedisInv, PlacedInv, LossExplained
  <1>3. StoppedInv'
    BY <1>1 DEF StoppedInv, JInv, JobsTypeOK
  <1>4. HeldInv'
    <2> SUFFICES ASSUME ~CutOff PROVE HeldInv'
      BY <1>1 DEF HeldInv, CutOff
    <2> USE DEF JInv, JobsTypeOK
    <2>1. ASSUME NEW o \in Orders, TakeJob(s, o) PROVE HeldInv'
      <3>1. lock'[o] = s /\ current'[s] = o
        BY <2>1
      <3>2. ASSUME NEW p \in Orders \ {o}, job'[p] = "active"
            PROVE  lock'[p] \in Servers /\ current'[lock'[p]] = p
        <4>1. job[p] = "active" /\ lock'[p] = lock[p]
          BY <2>1, <3>2
        <4>2. lock[p] \in Servers /\ current[lock[p]] = p
          BY <4>1 DEF HeldInv
        <4>3. lock[p] # s
          BY <2>1, <4>2
        <4> QED
          BY <2>1, <4>1, <4>2, <4>3
      <3> QED
        BY <1>1, <3>1, <3>2 DEF HeldInv
    <2>2. ASSUME NEW o \in Orders, CompleteJob(s, o) \/ FailJob(s, o) PROVE HeldInv'
      BY <2>2 DEF HeldInv
    <2>3. ASSUME NEW accepted \in BOOLEAN, NEW known \in BOOLEAN,
                 ProcessOrderCreatedJob(s, accepted, known)
          PROVE  HeldInv'
      BY <2>3 DEF HeldInv
    <2>4. CASE DropRun(s)
      BY <2>4 DEF HeldInv
    <2> QED
      BY <2>1, <2>2, <2>3, <2>4 DEF RunStep
  <1> QED
    BY <1>2, <1>3, <1>4

(* A job whose holder runs it does not stall.                               *)
LEMMA QueueStepOInv ==
    ASSUME OInv, JInv, NEW o \in Orders, QueueStep(o), UNCHANGED serverVars
    PROVE  OInv'
  <1> USE DEF QueueStep, PromoteJob, ExpireLock, StallJob, runs, OInv, serverVars
  <1>1. UNCHANGED <<faults, redisUp, closing, client, notice, home, worker, current, phase, ended>>
    OBVIOUS
  <1>2. RedisInv' /\ PlacedInv' /\ LossExplained' /\ StoppedInv'
    BY <1>1 DEF RedisInv, PlacedInv, LossExplained, StoppedInv
  <1>3. HeldInv'
    <2> SUFFICES ASSUME ~CutOff PROVE HeldInv'
      BY <1>1 DEF HeldInv, CutOff
    <2>1. redisUp
      BY FaultsAssumption DEF CutOff, RedisInv, JInv, JobsTypeOK
    <2>2. PromoteJob(o)
      BY <2>1, ServersNumbered DEF HeldInv, JInv, LinksInv
    <2> QED
      BY <1>1, <2>2 DEF HeldInv, JInv, JobsTypeOK
  <1> QED
    BY <1>2, <1>3

(* An outage is a fault.                                                    *)
LEMMA RedisStepOInv ==
    ASSUME OInv, JInv, RedisStep, UNCHANGED serverVars
    PROVE  OInv'
  <1> USE FaultsAssumption
      DEF RedisStep, RedisDown, RedisBack, ClientEvent, Fault, jobs, runs, OInv, serverVars
  <1>1. /\ faults \in Nat /\ (faults' = 0 => faults = 0 /\ ~RedisDown)
        /\ UNCHANGED <<notice, home, job, stalledCounter, lock, worker, current, closing, phase,
                       ended>>
    BY DEF JInv, JobsTypeOK
  <1>2. RedisInv'
    <2> SUFFICES ASSUME faults' = 0 PROVE RedisInv'
      BY DEF RedisInv
    <2>1. redisUp /\ redisUp' /\ \A t \in Servers : client[t] = "ready" => client'[t] = "ready"
      BY <1>1 DEF RedisInv, JInv, JobsTypeOK
    <2> QED
      BY <1>1, <2>1 DEF RedisInv
  <1>3. PlacedInv' /\ StoppedInv'
    BY <1>1 DEF PlacedInv, StoppedInv
  <1>4. HeldInv'
    BY <1>1 DEF HeldInv, CutOff, JInv, JobsTypeOK
  <1>5. LossExplained'
    BY <1>1 DEF LossExplained
  <1> QED
    BY <1>2, <1>3, <1>4, <1>5

(* Steps of a start after Redis was tried, and the first signal.            *)
LEMMA MovesOInv ==
    ASSUME OInv, SInv, NEW s \in Servers, Boot(s) \/ StartStep(s) \/ Terminate(s)
    PROVE  OInv'
  <1>1. /\ UNCHANGED jobsVars /\ UNCHANGED ended
        /\ \A t \in Servers \ {s} : phase'[t] = phase[t]
        /\ \/ phase[s] = "off" /\ phase'[s] = "connecting"
           \/ phase[s] \in Connected /\ phase'[s] \in {"migrating", "freeing", "listening"}
           \/ phase[s] = "listening" /\ phase'[s] = "closingHttp"
        /\ phase[s] = "listening" => phase'[s] \in {"listening", "closingHttp"}
        /\ phase[s] \notin Stopping \cup {"ended"}
    BY DEF Boot, StartStep, Terminate, StartServer, MigrateStep, ReadPending, MigrationsDone,
           CheckTable, RecheckTable, DescribeTable, Ask, DropItems, DropTable, Drop, CreateTable,
           AddIndex, RecordMigration, Migrating, StepTo, Listen, AddressInUse, Signal, Proceed,
           Move, database, Connected, Stopping, SInv, ServerTypeOK
  <1> USE <1>1 DEF OInv, jobsVars, jobs, runs
  <1>2. RedisInv'
    BY DEF RedisInv, Connected
  <1>3. PlacedInv'
    BY DEF PlacedInv, Connected, Stopping
  <1>4. StoppedInv' /\ HeldInv'
    BY DEF StoppedInv, HeldInv, CutOff, Stopping
  <1>5. LossExplained'
    BY DEF LossExplained, PlacedInv, Connected, Stopping
  <1> QED
    BY <1>2, <1>3, <1>4, <1>5

(* Without a fault connectRedis succeeds.                                   *)
LEMMA ConnectOInv ==
    ASSUME OInv, JInv, SInv, NEW s \in Servers, ConnectRedisOrWarn(s)
    PROVE  OInv'
  <1> USE DEF ConnectRedisOrWarn, RedisTried, ConnectRedis, Proceed, Move, jobs, OInv, JInv, SInv,
              JobsTypeOK, ServerTypeOK
  <1>1. RedisInv'
    BY DEF RedisInv
  <1>2. PlacedInv'
    BY DEF PlacedInv, Stopping
  <1>3. StoppedInv'
    BY DEF StoppedInv
  <1>4. HeldInv'
    BY DEF HeldInv, CutOff
  <1>5. LossExplained'
    BY DEF LossExplained, PlacedInv, Stopping
  <1> QED
    BY <1>1, <1>2, <1>3, <1>4, <1>5

(* The graceful shutdown, await by await.                                   *)
LEMMA CloseServerOInv ==
    ASSUME OInv, JInv, SInv, NEW s \in Servers, CloseServer(s)
    PROVE  OInv'
  <1> USE DEF CloseServer, CloseHttp, StopWorker, CloseQueue, CloseRedis, CloseWorker, WorkerClosed,
              QueueClosed, DisconnectRedis, Proceed, Move, jobsVars, jobs, runs, OInv, JInv, SInv,
              JobsTypeOK, ServerTypeOK
  <1>1. RedisInv'
    BY DEF RedisInv, Connected
  <1>2. PlacedInv'
    BY DEF PlacedInv, Stopping
  <1>3. StoppedInv'
    BY DEF StoppedInv
  <1>4. HeldInv'
    BY DEF HeldInv, CutOff
  <1>5. LossExplained'
    BY DEF LossExplained, PlacedInv, Stopping
  <1> QED
    BY <1>1, <1>2, <1>3, <1>4, <1>5

(* Processes that end, cut off or with no job left.                         *)
LEMMA EndOInv ==
    ASSUME OInv, JInv, SInv, NEW gone \in SUBSET Servers, NEW how \in {"clean", "cut"},
           ProcessesEnd(gone), EndAll(gone, how),
           phase' \in [Servers -> Starting \cup Stopping \cup {"off", "listening", "ended"}],
           \A t \in gone : phase'[t] = "ended" /\ phase[t] # "ended",
           \A t \in Servers \ gone :
              phase'[t] = phase[t] \/ (phase[t] = "freeing" /\ phase'[t] = "binding"),
           how = "clean" => \A t \in gone : current[t] = NoOrder
    PROVE  OInv'
  <1> USE DEF ProcessesEnd, EndAll, Reset, jobs, OInv, JInv, SInv, JobsTypeOK, ServerTypeOK
  <1>1. RedisInv'
    BY DEF RedisInv, Connected
  <1>2. PlacedInv'
    BY DEF PlacedInv, Stopping
  <1>3. StoppedInv'
    BY DEF StoppedInv
  <1>4. HeldInv'
    <2> SUFFICES ASSUME ~CutOff' PROVE HeldInv'
      BY DEF HeldInv
    <2>1. how = "cut" => gone = {}
      BY DEF CutOff
    <2>2. current' = current
      BY <2>1
    <2>3. ~CutOff
      BY DEF CutOff, StoppedInv
    <2> QED
      BY <2>2, <2>3 DEF HeldInv
  <1>5. LossExplained'
    BY DEF LossExplained, PlacedInv, Stopping
  <1> QED
    BY <1>1, <1>2, <1>3, <1>4, <1>5

(* The ways in which a process ends.                                        *)
LEMMA EndsOInv ==
    ASSUME OInv, JInv, SInv, NEW s \in Servers, Exit(s) \/ Die(s) \/ TakePort(s)
    PROVE  OInv'
  <1>1. CASE Exit(s) \/ Die(s)
    <2>1. PICK how \in {"clean", "cut"} :
             EndOf(s, how) /\ ProcessesEnd({s}) /\ (how = "clean" => phase[s] = "closingPool")
      BY <1>1 DEF Exit, Die, ClosePool, ForceExit, Fail, Kill
    <2>2. phase[s] # "ended"
      BY <1>1 DEF Exit, Die, ClosePool, ForceExit, Fail, Kill, Alive, Starting, Stopping
    <2>3. /\ phase' \in [Servers -> Starting \cup Stopping \cup {"off", "listening", "ended"}]
          /\ phase'[s] = "ended" /\ \A t \in Servers \ {s} : phase'[t] = phase[t]
      BY <2>1 DEF EndOf, Reset, SInv, ServerTypeOK
    <2>4. how = "clean" => current[s] = NoOrder
      BY <2>1 DEF OInv, StoppedInv
    <2>5. EndAll({s}, how) /\ {s} \in SUBSET Servers
      BY <2>1 DEF EndOf
    <2> QED
      BY <2>1, <2>2, <2>3, <2>4, <2>5, EndOInv
  <1>2. CASE TakePort(s)
    <2>1. PICK killed \in SUBSET PortOwners : FreePort(s, killed) /\ ProcessesEnd(killed)
      BY <1>2 DEF TakePort
    <2>2. killed \in SUBSET Servers /\ s \notin killed
      BY <2>1 DEF FreePort, PortOwners
    <2>3. /\ phase' \in [Servers -> Starting \cup Stopping \cup {"off", "listening", "ended"}]
          /\ \A t \in killed : phase'[t] = "ended" /\ phase[t] # "ended"
          /\ \A t \in Servers \ killed :
                phase'[t] = phase[t] \/ (phase[t] = "freeing" /\ phase'[t] = "binding")
      BY <2>1, <2>2 DEF FreePort, PortOwners, Reset, Starting, SInv, ServerTypeOK
    <2>4. EndAll(killed, "cut")
      BY <2>1 DEF FreePort
    <2> QED
      BY <2>1, <2>2, <2>3, <2>4, EndOInv
  <1> QED
    BY <1>1, <1>2

(* The joint invariant is inductive.                                        *)
LEMMA NextOInv == OInv /\ JInv /\ SInv /\ [Next]_vars => OInv'
  <1> SUFFICES ASSUME OInv, JInv, SInv, [Next]_vars PROVE OInv'
    OBVIOUS
  <1>1. CASE JobsAlone
    BY <1>1, OrderStepOInv, RunStepOInv, QueueStepOInv, RedisStepOInv DEF JobsAlone, JobsStep
  <1>2. CASE UNCHANGED vars
    BY <1>2 DEF vars, jobsVars, serverVars, jobs, runs, OInv, RedisInv, PlacedInv, StoppedInv,
                HeldInv, CutOff, LossExplained
  <1>3. CASE \E s \in Servers :
                \/ \E o \in Orders : PlaceOrder(o, s)
                \/ Boot(s) \/ ConnectRedisOrWarn(s) \/ StartStep(s) \/ TakePort(s)
                \/ Terminate(s) \/ CloseServer(s) \/ Exit(s) \/ Die(s)
    BY <1>3, PlaceOrderOInv, MovesOInv, ConnectOInv, CloseServerOInv, EndsOInv
  <1> QED
    BY <1>1, <1>2, <1>3 DEF Next

(* Throughout, without a fault a process can use Redis until it calls quit, *)
(* its queue is closed only when its worker has stopped, and who has the    *)
(* lock of a job runs it.                                                   *)
THEOREM Invariance == Spec => []OInv
  <1>1. Init => OInv
    BY InitOInv
  <1>2. OInv /\ JInv /\ SInv /\ [Next]_vars => OInv'
    BY NextOInv
  <1> QED
    BY <1>1, <1>2, PartsImplemented, JobsInvariance, ServersInvariance, PTL DEF Spec

(* Without a fault, an order stays without its job only when its process    *)
(* ended, had called quit, or had called closeOrderQueue before queue.add   *)
(* was over.                                                                *)
THEOREM LossIsExplained == Spec => []LossExplained
  <1>1. OInv => LossExplained
    BY DEF OInv
  <1> QED
    BY <1>1, Invariance, PTL

(* Without a fault and a process cut off, no job stalls and none is run     *)
(* twice for it.                                                            *)
THEOREM StallIsCutOff == Spec => []StalledMeansCutOff
  <1>1. OInv /\ JInv => StalledMeansCutOff
    BY DEF OInv, HeldInv, StalledMeansCutOff, JInv, JobsTypeOK
  <1> QED
    BY <1>1, Invariance, PartsImplemented, JobsInvariance, PTL
==============================================================================
