------------------------------ MODULE Lifecycle ------------------------------
(***************************************************************************)
(* Server processes that start (startServer), migrate the database they    *)
(* share, take over the port, and stop (gracefulShutdown, a forced exit, a *)
(* kill).  A process starts once: a restart is another process.            *)
(*                                                                         *)
(* Tables are known by the migration that creates them.  The one of the    *)
(* last migration stands for its indexes, all taken for one of orders; the *)
(* second index of idempotency_keys is part of the first.                  *)
(***************************************************************************)
EXTENDS ServerData

VARIABLES
    phase,      \* how far each process is
    ended,      \* how it ended: by a complete graceful shutdown, or cut off
    attempt,    \* the attempt of listen it is at
    tables,     \* missing, legacy, half made or current
    recorded,   \* SequelizeMeta
    pending,    \* what a process still has to migrate
    step,       \* how far it is with the first of them
    overlapped, \* history: processes that migrated while another one did,
    raced,      \* whether such a process dropped a table,
    halved      \* whether one ended between a table and its unique index

history == <<overlapped, raced, halved>>
database == <<tables, recorded, pending, step, history>>
serverVars == <<phase, ended, attempt, database>>

Starting == {"connecting", "planning", "migrating", "freeing", "binding"}
Stopping == {"closingHttp", "stoppingWorker", "closingQueue", "disconnecting", "closingPool"}
Alive(s) == phase[s] \in Starting \cup Stopping \cup {"listening"}

\* A database has the tables of the migrations it records, and may have the
\* others, orders and order_items also in their legacy form.
ServerInit ==
    /\ phase = [s \in Servers |-> "off"]
    /\ ended = [s \in Servers |-> "no"]
    /\ attempt = [s \in Servers |-> 0]
    /\ recorded \in {1..m : m \in 0..LastMigration}
    /\ tables \in [Migrations -> {"missing", "legacy", "current"}]
    /\ \A m \in recorded : tables[m] = "current"
    /\ \A m \in Migrations : tables[m] = "legacy" =>
          m \in {LegacyMigration, LegacyMigration + 1} /\ tables[LegacyMigration] = "legacy"
    /\ tables[LastMigration] = "current" => tables[LegacyMigration] # "missing"
    /\ pending = [s \in Servers |-> {}]
    /\ step = [s \in Servers |-> "check"]
    /\ overlapped = {}
    /\ raced = FALSE
    /\ halved = FALSE

Move(s, from, to) == phase[s] = from /\ phase' = [phase EXCEPT ![s] = to]
Proceed(s, from, to) == Move(s, from, to) /\ UNCHANGED <<ended, attempt, database>>

------------------------------------------------------------------------------
(* Start *)

\* loadEnv, createApp and conn.
StartServer(s) ==
    /\ \A t \in Servers : t < s => phase[t] # "off"
    /\ Proceed(s, "off", "connecting")

\* connectRedisOrWarn, whatever its answer.
RedisTried(s) == Proceed(s, "connecting", "planning")

Migrators == {s \in Servers : phase[s] = "migrating"}

\* migrator.up reads once what is pending.
ReadPending(s) ==
    /\ Move(s, "planning", "migrating")
    /\ pending' = [pending EXCEPT ![s] = Migrations \ recorded]
    /\ step' = [step EXCEPT ![s] = "check"]
    /\ overlapped' = IF Migrators = {} THEN overlapped ELSE overlapped \cup Migrators \cup {s}
    /\ UNCHANGED <<ended, attempt, tables, recorded, raced, halved>>

\* Migrations run in the order of their names.
Migrating(s, m, at) ==
    /\ phase[s] = "migrating" /\ step[s] = at
    /\ m \in pending[s]
    /\ \A n \in pending[s] : m <= n

StepTo(s, at) ==
    /\ step' = [step EXCEPT ![s] = at]
    /\ UNCHANGED <<phase, ended, attempt, pending>>

\* A query of the database, and the step its answer leads to.
Ask(s, m, at, next) ==
    /\ Migrating(s, m, at)
    /\ StepTo(s, next)
    /\ UNCHANGED <<tables, recorded, history>>

\* The table that a migration asks about; the indexes are those of orders.
Subject(m) == IF m = LastMigration THEN LegacyMigration ELSE m
Exists(m) == tables[Subject(m)] # "missing"
AsksTwice(m) == m \in {LegacyMigration, LastMigration}

\* Mutant of CheckTable: a table that exists is taken for the right one.
CheckTableExists(s, m) ==
    Ask(s, m, "check", IF tables[m] = "missing" THEN "create" ELSE "record")

\* tableExists; no indexes on a missing table.
CheckTable(s, m) ==
    Ask(s, m, "check",
        IF Exists(m) THEN IF AsksTwice(m) THEN "recheck" ELSE "record"
        ELSE IF m = LastMigration THEN "record" ELSE "create")

\* columnExists and indexExists call it once more.  When the table has gone
\* since, there is no column, and the migration of orders is over; or there
\* is no index, and it is added.
RecheckTable(s, m) ==
    Ask(s, m, "recheck",
        IF Exists(m) THEN "describe" ELSE IF m = LegacyMigration THEN "record" ELSE "create")

\* Their second query, which throws on a table that is not there.
DescribeTable(s, m) ==
    /\ Exists(m)
    /\ Ask(s, m, "describe",
           IF m = LegacyMigration /\ tables[m] = "legacy" THEN "dropItems"
           ELSE IF m = LastMigration /\ tables[m] = "missing" THEN "create"
           ELSE "record")

\* Drops a table, whatever it has become since it was described.
Drop(s, m, at, next, gone) ==
    /\ Migrating(s, m, at)
    /\ StepTo(s, next)
    /\ tables' = [n \in Migrations |-> IF n \in gone THEN "missing" ELSE tables[n]]
    /\ raced' = (raced \/ s \in overlapped)
    /\ UNCHANGED <<recorded, overlapped, halved>>

DropItems(s, m) == Drop(s, m, "dropItems", "dropTable", {LegacyMigration + 1})

\* The indexes go with the table.
DropTable(s, m) == Drop(s, m, "dropTable", "create", {m, LastMigration})

\* CREATE TABLE IF NOT EXISTS.  order_items refers to orders, and an index
\* that is there cannot be added; idempotency_keys gets its unique index by
\* another statement.
CreateTable(s, m) ==
    /\ Migrating(s, m, "create")
    /\ m = LegacyMigration + 1 => tables[LegacyMigration] # "missing"
    /\ m = LastMigration => tables[m] = "missing" /\ tables[LegacyMigration] # "missing"
    /\ StepTo(s, IF m = IndexedMigration THEN "index" ELSE "record")
    /\ tables' = [tables EXCEPT ![m] = IF @ # "missing" THEN @
                                       ELSE IF m = IndexedMigration THEN "half" ELSE "current"]
    /\ UNCHANGED <<recorded, history>>

AddIndex(s, m) ==
    /\ Migrating(s, m, "index")
    /\ tables[m] = "half"
    /\ StepTo(s, "record")
    /\ tables' = [tables EXCEPT ![m] = "current"]
    /\ UNCHANGED <<recorded, history>>

\* The name is the primary key of SequelizeMeta.
RecordMigration(s, m) ==
    /\ Migrating(s, m, "record")
    /\ m \notin recorded
    /\ recorded' = recorded \cup {m}
    /\ pending' = [pending EXCEPT ![s] = @ \ {m}]
    /\ step' = [step EXCEPT ![s] = "check"]
    /\ UNCHANGED <<phase, ended, attempt, tables, history>>

MigrationsDone(s) ==
    /\ Move(s, "migrating", "freeing")
    /\ pending[s] = {}
    /\ attempt' = [attempt EXCEPT ![s] = 1]
    /\ UNCHANGED <<ended, database>>

MigrateStep(s) ==
    \/ ReadPending(s) \/ MigrationsDone(s)
    \/ \E m \in Migrations :
          \/ CheckTable(s, m) \/ RecheckTable(s, m) \/ DescribeTable(s, m)
          \/ DropItems(s, m) \/ DropTable(s, m)
          \/ CreateTable(s, m) \/ AddIndex(s, m) \/ RecordMigration(s, m)

\* The processes that listen on the port.
PortOwners == {s \in Servers : phase[s] = "listening"}

\* Processes end; a function of theirs goes back to its first value.
Reset(f, gone, v) == [t \in Servers |-> IF t \in gone THEN v ELSE f[t]]
EndAll(gone, how) ==
    /\ ended' = Reset(ended, gone, how)
    /\ attempt' = Reset(attempt, gone, 0)
    /\ pending' = Reset(pending, gone, {})
    /\ step' = Reset(step, gone, "check")
    /\ halved' = (halved \/ \E s \in gone : step[s] = "index")
    /\ UNCHANGED <<tables, recorded, overlapped, raced>>

\* freePort kills whom it finds and is allowed to kill.
FreePort(s, killed) ==
    /\ phase[s] = "freeing"
    /\ killed \subseteq PortOwners
    /\ phase' = [Reset(phase, killed, "ended") EXCEPT ![s] = "binding"]
    /\ EndAll(killed, "cut")

\* listen, and the shutdown handlers are registered.
Listen(s) ==
    /\ PortOwners = {}
    /\ Move(s, "binding", "listening")
    /\ attempt' = [attempt EXCEPT ![s] = 0]
    /\ UNCHANGED <<ended, database>>

\* Mutant of AddressInUse: the attempts are not counted.
AddressInUseForever(s) ==
    /\ PortOwners # {}
    /\ Proceed(s, "binding", "freeing")

\* EADDRINUSE: another attempt, MaxBinds in all.
AddressInUse(s) ==
    /\ PortOwners # {}
    /\ attempt[s] < MaxBinds
    /\ Move(s, "binding", "freeing")
    /\ attempt' = [attempt EXCEPT ![s] = @ + 1]
    /\ UNCHANGED <<ended, database>>

------------------------------------------------------------------------------
(* Stop *)

\* The first SIGTERM or SIGINT: connections are cut and the port is free.
Signal(s) == Proceed(s, "listening", "closingHttp")

CloseHttp(s) == Proceed(s, "closingHttp", "stoppingWorker")
StopWorker(s) == Proceed(s, "stoppingWorker", "closingQueue")
CloseQueue(s) == Proceed(s, "closingQueue", "disconnecting")
CloseRedis(s) == Proceed(s, "disconnecting", "closingPool")

EndOf(s, how) == phase' = Reset(phase, {s}, "ended") /\ EndAll({s}, how)

ClosePool(s) == phase[s] = "closingPool" /\ EndOf(s, "clean")

\* The timer of two seconds.
ForceExit(s) == phase[s] \in Stopping /\ EndOf(s, "cut")

\* Something on the way throws, in the start or in the shutdown: exit(1).
Fail(s) == phase[s] \in Starting \cup Stopping /\ EndOf(s, "cut")

\* SIGKILL; a signal before the handlers are registered; a second SIGTERM.
Kill(s) == Alive(s) /\ EndOf(s, "cut")

------------------------------------------------------------------------------
ServerNext ==
    \E s \in Servers :
        \/ StartServer(s) \/ RedisTried(s) \/ MigrateStep(s)
        \/ \E killed \in SUBSET PortOwners : FreePort(s, killed)
        \/ Listen(s) \/ AddressInUse(s)
        \/ Signal(s) \/ CloseHttp(s) \/ StopWorker(s) \/ CloseQueue(s) \/ CloseRedis(s)
        \/ ClosePool(s) \/ ForceExit(s) \/ Fail(s) \/ Kill(s)

ServerSpec == ServerInit /\ [][ServerNext]_serverVars

ServerTypeOK ==
    /\ phase \in [Servers -> Starting \cup Stopping \cup {"off", "listening", "ended"}]
    /\ ended \in [Servers -> {"no", "clean", "cut"}]
    /\ attempt \in [Servers -> 0..MaxBinds]
    /\ tables \in [Migrations -> {"missing", "legacy", "half", "current"}]
    /\ recorded \in SUBSET Migrations
    /\ pending \in [Servers -> SUBSET Migrations]
    /\ step \in [Servers -> {"check", "recheck", "describe", "dropItems", "dropTable",
                             "create", "index", "record"}]
    /\ overlapped \subseteq Servers
    /\ raced \in BOOLEAN
    /\ halved \in BOOLEAN
    /\ Cardinality(PortOwners) <= 1

\* The tables that a migration drops, and the indexes that go with them.
Dropped == {LegacyMigration, LegacyMigration + 1, LastMigration}

\* A server that takes requests has every migration recorded and no legacy
\* table, however many processes migrate at once and die in the middle.  A
\* table is missing, though recorded, only when processes that migrated at
\* the same time dropped one, and only orders, order_items and the indexes
\* can be; and only idempotency_keys can lack its unique index, when a
\* process ended between the two statements or migrations overlapped
\* (runMigrations, and the checks of the migrations).
SchemaServed ==
    \A s \in Servers : phase[s] = "listening" =>
        \A m \in Migrations :
            /\ m \in recorded
            /\ tables[m] # "legacy"
            /\ tables[m] = "missing" => raced /\ m \in Dropped
            /\ tables[m] = "half" => m = IndexedMigration /\ (halved \/ overlapped # {})

\* How much of a start is left.
StepsLeft(at) ==
    CASE at = "check" -> 7 [] at = "recheck" -> 6 [] at = "describe" -> 5
      [] at = "dropItems" -> 4 [] at = "dropTable" -> 3
      [] at = "create" -> 2 [] at = "index" -> 1 [] OTHER -> 0
BindsLeft(s) == 2 * (MaxBinds - attempt[s])
StartLeft(s) ==
    CASE phase[s] = "connecting" -> 2 * MaxBinds + 8 * LastMigration + 10
      [] phase[s] = "planning" -> 2 * MaxBinds + 8 * LastMigration + 9
      [] phase[s] = "migrating" ->
            2 * MaxBinds + 8 * Cardinality(pending[s]) + StepsLeft(step[s]) + 1
      [] phase[s] = "freeing" -> BindsLeft(s) + 2
      [] phase[s] = "binding" -> BindsLeft(s) + 1
      [] OTHER -> 0

\* A start is bounded: each of its steps leaves less to do, whatever other
\* processes do to the database and the port, so it cannot retry a port for
\* ever or migrate in a circle (listen, runMigrations).
StartsBounded ==
    [][\A s \in Servers :
          phase[s] \in Starting =>
             \/ UNCHANGED <<phase[s], attempt[s], pending[s], step[s]>>
             \/ StartLeft(s)' < StartLeft(s)]_serverVars
==============================================================================
