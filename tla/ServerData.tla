------------------------------ MODULE ServerData ------------------------------
(***************************************************************************)
(* What the server processes, the orders they serve and the job queue they *)
(* share are made of, with the bounds of the code.                         *)
(***************************************************************************)
EXTENDS Naturals, FiniteSets

CONSTANTS
    LastServer,         \* number of server processes; a restart is another process
    Orders,             \* POST /orders requests that commit an order
    NoOrder,            \* nothing
    MaxAttempts,        \* DEFAULT_JOB_OPTIONS.attempts, 5 in the code
    MaxStalled,         \* how often BullMQ takes a stalled job up again, by default 1
    MaxFaults,          \* bound on outages, lost acknowledgements, failed adds
    MaxBinds,           \* maxAttempts of listen, 3 in the code
    LastMigration,      \* number of migrations, in the order of their names
    LegacyMigration,    \* the one that may find and replace a legacy table
    IndexedMigration    \* the one that makes a table and then its unique index

\* Processes, numbered in the order in which they start.
Servers == 1..LastServer
NoServer == 0

Migrations == 1..LastMigration

ASSUME ServersAssumption == LastServer \in Nat
ASSUME OrdersAssumption == NoOrder \notin Orders
ASSUME AttemptsAssumption == MaxAttempts \in Nat \ {0}
ASSUME StalledAssumption == MaxStalled \in Nat
ASSUME FaultsAssumption == MaxFaults \in Nat
ASSUME BindsAssumption == MaxBinds \in Nat \ {0}
\* Migration LegacyMigration creates orders, the next one order_items, a
\* later one is IndexedMigration, and the last one only adds indexes.
ASSUME MigrationsAssumption ==
    /\ LastMigration \in Nat /\ LegacyMigration \in Nat \ {0} /\ IndexedMigration \in Nat
    /\ LegacyMigration + 1 < IndexedMigration /\ IndexedMigration < LastMigration
==============================================================================
