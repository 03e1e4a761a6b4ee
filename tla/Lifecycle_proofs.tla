-------------------------- MODULE Lifecycle_proofs --------------------------
(***************************************************************************)
(* Proofs about Lifecycle, for any number of processes, migrations and     *)
(* attempts at the port: one process listens at a time and it has its      *)
(* schema; and a start is bounded.                                         *)
(***************************************************************************)
EXTENDS Lifecycle, FiniteSetTheorems, TLAPS

Begun == {"off", "ended", "connecting", "planning", "migrating"}

Replacing == {s \in Servers : step[s] \in {"dropItems", "dropTable"}}

(* What a process has not to migrate is recorded, in the order of names;    *)
(* past its migrations, all is.                                             *)
MigratorsInv ==
    /\ \A s \in Servers : step[s] # "check" => phase[s] = "migrating" /\ pending[s] # {}
    /\ \A s \in Servers : phase[s] = "migrating" => Migrations \ pending[s] \subseteq recorded
    /\ \A s \in Replacing :
          LegacyMigration \in pending[s] /\ \A n \in pending[s] : LegacyMigration <= n
    /\ \A m \in recorded : \A n \in Migrations : n <= m => n \in recorded
    /\ \A s \in Servers : phase[s] \notin Begun => recorded = Migrations

(* A process that migrates alone is the only one to record.                 *)
OverlapInv ==
    /\ \A s, t \in Migrators : s # t => s \in overlapped
    /\ \A s \in Migrators : s \notin overlapped => pending[s] \cap recorded = {}

(* Which tables may be legacy or half made; none that is recorded, or about *)
(* to be, is legacy.                                                        *)
TablesInv ==
    /\ \A m \in Migrations : tables[m] = "legacy" =>
          m \in {LegacyMigration, LegacyMigration + 1} /\ tables[LegacyMigration] = "legacy"
    /\ \A m \in Migrations : tables[m] = "half" => m = IndexedMigration
    /\ \A s \in Servers : step[s] = "dropTable" => tables[LegacyMigration + 1] # "legacy"
    /\ \A s \in Servers, m \in Migrations :
          Migrating(s, m, "create") \/ Migrating(s, m, "record") => tables[m] # "legacy"
    /\ \A m \in recorded : tables[m] # "legacy"

(* A table may be missing although it is recorded, or about to be.          *)
Lost(m) == tables[m] = "missing" => raced /\ m \in Dropped

(* As long as no table was dropped in a race, what is recorded or about to  *)
(* be is there, and so is an orders table that was found.                   *)
ExistInv ==
    /\ \A m \in recorded : Lost(m)
    /\ \A s \in Servers, m \in Migrations : Migrating(s, m, "record") => Lost(m)
    /\ \A s \in Servers : Migrating(s, LegacyMigration, "recheck") => Lost(LegacyMigration)

(* A half-made table is being finished by the process that made it, unless  *)
(* that process ended or was not alone.                                     *)
HalfInv ==
    ~halved /\ overlapped = {} /\ tables[IndexedMigration] = "half" =>
        \E s \in Servers : Migrating(s, IndexedMigration, "index")

OnePortOwner == \A s, t \in PortOwners : s = t

SInv ==
    /\ ServerTypeOK /\ OnePortOwner
    /\ MigratorsInv /\ OverlapInv /\ TablesInv /\ ExistInv /\ HalfInv

(* The migrations that the code tells apart.                                *)
LEMMA MigrationsOrdered ==
    /\ Migrations \subseteq Nat
    /\ LegacyMigration \in Migrations /\ LegacyMigration + 1 \in Migrations
    /\ IndexedMigration \in Migrations /\ LastMigration \in Migrations
    /\ LegacyMigration + 1 # LegacyMigration
    /\ IndexedMigration \notin {LegacyMigration, LegacyMigration + 1, LastMigration}
    /\ LastMigration \notin {LegacyMigration, LegacyMigration + 1}
    /\ LegacyMigration < LegacyMigration + 1 /\ LegacyMigration < LastMigration
  BY MigrationsAssumption DEF Migrations

(* A set without two elements is small.                                     *)
LEMMA AtMostOneElement ==
    ASSUME NEW S, \A x, y \in S : x = y
    PROVE  Cardinality(S) <= 1
  <1>1. CASE S = {}
    BY <1>1, FS_EmptySet
  <1>2. CASE S # {}
    <2>1. PICK x \in S : S = {x}
      BY <1>2
    <2> QED
      BY <2>1, FS_Singleton
  <1> QED
    BY <1>1, <1>2

(* No process has started, and records are truthful.                        *)
LEMMA InitSInv == ServerInit => SInv
  <1> SUFFICES ASSUME ServerInit PROVE SInv
    OBVIOUS
  <1>1. OnePortOwner /\ PortOwners = {}
    BY DEF ServerInit, OnePortOwner, PortOwners
  <1>2. Cardinality(PortOwners) <= 1
    BY <1>1, AtMostOneElement
  <1>3. /\ recorded \in SUBSET Migrations
        /\ \A m \in recorded, n \in Migrations : n <= m => n \in recorded
    <2>1. PICK k \in 0..LastMigration : recorded = 1..k
      BY DEF ServerInit
    <2> QED
      BY <2>1, MigrationsAssumption DEF Migrations
  <1>4. ServerTypeOK
    <2>1. /\ phase = [s \in Servers |-> "off"] /\ ended = [s \in Servers |-> "no"]
          /\ attempt = [s \in Servers |-> 0] /\ 0 \in 0..MaxBinds
          /\ pending = [s \in Servers |-> {}] /\ step = [s \in Servers |-> "check"]
          /\ overlapped = {} /\ raced = FALSE /\ halved = FALSE
      BY BindsAssumption DEF ServerInit
    <2>2. tables \in [Migrations -> {"missing", "legacy", "half", "current"}]
      BY DEF ServerInit
    <2> QED
      BY <1>2, <1>3, <2>1, <2>2 DEF ServerTypeOK
  <1>5. MigratorsInv
    BY <1>3 DEF ServerInit, MigratorsInv, Replacing, Begun
  <1>6. OverlapInv
    BY DEF ServerInit, OverlapInv, Migrators
  <1>7. TablesInv /\ ExistInv /\ HalfInv
    BY MigrationsOrdered DEF ServerInit, TablesInv, ExistInv, HalfInv, Lost, Migrating
  <1> QED
    BY <1>1, <1>4, <1>5, <1>6, <1>7 DEF SInv

(* A process that goes on from one place to another, neither of which is    *)
(* migrating, listening or the start of what comes after the migrations.    *)
LEMMA ProceedInv ==
    ASSUME SInv, NEW s \in Servers, NEW from, NEW to, Proceed(s, from, to),
           from \in Begun <=> to \in Begun, from # "migrating", to # "migrating",
           to \in Starting \cup Stopping, phase'[s] # "listening"
    PROVE  SInv'
  <1> USE DEF Proceed, Move, database, history, SInv
  <1>0. PortOwners' \subseteq PortOwners
    BY DEF PortOwners, ServerTypeOK
  <1>1. OnePortOwner'
    BY <1>0 DEF OnePortOwner
  <1>2. Cardinality(PortOwners') <= 1
    BY <1>1, AtMostOneElement DEF OnePortOwner
  <1>3. ServerTypeOK'
    BY <1>2 DEF ServerTypeOK
  <1>4. MigratorsInv'
    BY DEF ServerTypeOK, MigratorsInv, Replacing, Begun
  <1>5. OverlapInv' /\ TablesInv' /\ ExistInv' /\ HalfInv'
    BY DEF ServerTypeOK, OverlapInv, Migrators, TablesInv, ExistInv, HalfInv, Lost, Migrating
  <1> QED
    BY <1>1, <1>3, <1>4, <1>5

(* A migrator begins with all that is not recorded.                         *)
LEMMA ReadPendingInv ==
    ASSUME SInv, NEW s \in Servers, ReadPending(s)
    PROVE  SInv'
  <1> USE DEF ReadPending, Move, SInv
  <1>0. PortOwners' = PortOwners
    BY DEF PortOwners, ServerTypeOK
  <1>1. OnePortOwner'
    BY <1>0 DEF OnePortOwner
  <1>2. ServerTypeOK'
    BY <1>0 DEF ServerTypeOK, Starting, Migrators
  <1>3. MigratorsInv'
    BY DEF ServerTypeOK, MigratorsInv, Replacing, Begun
  <1>4. OverlapInv'
    <2>1. Migrators' = Migrators \cup {s}
      BY DEF Migrators, ServerTypeOK
    <2>2. \A t \in Migrators : t # s /\ pending'[t] = pending[t]
      BY DEF Migrators, ServerTypeOK
    <2>3. pending'[s] \cap recorded = {}
      BY DEF ServerTypeOK
    <2> QED
      BY <2>1, <2>2, <2>3 DEF OverlapInv
  <1>5. \A t \in Servers, m \in Migrations :
           /\ \A at \in {"recheck", "create", "record"} :
                 Migrating(t, m, at)' => Migrating(t, m, at)
           /\ Migrating(t, m, "index") => Migrating(t, m, "index")'
    BY DEF ServerTypeOK, Migrating
  <1>6. overlapped' = {} => overlapped = {}
    OBVIOUS
  <1>7. TablesInv' /\ ExistInv' /\ HalfInv'
    BY <1>5, <1>6, MigrationsOrdered DEF ServerTypeOK, TablesInv, ExistInv, HalfInv, Lost
  <1> QED
    BY <1>1, <1>2, <1>3, <1>4, <1>7

(* A step of a migration leaves the rest of the servers alone.              *)
LEMMA StepToTypes ==
    ASSUME SInv, NEW s \in Servers, NEW at, StepTo(s, at),
           at \in {"check", "recheck", "describe", "dropItems", "dropTable", "create", "index",
                  "record"},
           tables' \in [Migrations -> {"missing", "legacy", "half", "current"}],
           UNCHANGED <<recorded, overlapped, halved>>, raced' \in BOOLEAN
    PROVE  ServerTypeOK' /\ OnePortOwner' /\ OverlapInv'
  <1>1. PortOwners' = PortOwners /\ Migrators' = Migrators
    BY DEF StepTo, PortOwners, Migrators
  <1> QED
    BY <1>1 DEF StepTo, SInv, ServerTypeOK, OnePortOwner, OverlapInv

(* An answer sends its process to drop, to create, or to record.            *)
LEMMA AskInv ==
    ASSUME SInv, NEW s \in Servers, NEW m \in Migrations, NEW at, NEW next, Ask(s, m, at, next),
           at \in {"check", "recheck", "describe"},
           next \in {"recheck", "describe", "dropItems", "create", "record"},
           next = "dropItems" => m = LegacyMigration,
           next \in {"create", "record"} => tables[m] # "legacy",
           next = "record" => Lost(m),
           next = "recheck" /\ m = LegacyMigration => Lost(m)
    PROVE  SInv'
  <1> USE MigrationsOrdered DEF Ask, StepTo, history, SInv
  <1>1. ServerTypeOK' /\ OnePortOwner' /\ OverlapInv'
    BY StepToTypes DEF ServerTypeOK
  <1> USE DEF ServerTypeOK
  <1>2. \A t \in Servers : t # s => step'[t] = step[t]
    OBVIOUS
  <1>3. step'[s] = next /\ step[s] = at /\ pending[s] # {} /\ phase[s] = "migrating"
    BY DEF Migrating
  <1>4. \A t \in Replacing' : t \in Replacing \/ (t = s /\ next = "dropItems")
    BY <1>2, <1>3 DEF Replacing
  <1>5. MigratorsInv'
    BY <1>2, <1>3, <1>4 DEF MigratorsInv, Migrating, Begun
  <1>6. \A t \in Servers, n \in Migrations, x \in {"recheck", "create", "record"} :
           Migrating(t, n, x)' => Migrating(t, n, x) \/ (t = s /\ n = m /\ x = next)
    BY <1>2, <1>3 DEF Migrating
  <1>7. \A t \in Servers, n \in Migrations : Migrating(t, n, "index") => Migrating(t, n, "index")'
    BY <1>2, <1>3 DEF Migrating
  <1>8. TablesInv'
    BY <1>2, <1>3, <1>6 DEF TablesInv
  <1>9. ExistInv'
    BY <1>6 DEF ExistInv, Lost
  <1>10. HalfInv'
    BY <1>7 DEF HalfInv
  <1> QED
    BY <1>1, <1>5, <1>8, <1>9, <1>10

(* What comes before the migration a process is at is recorded.             *)
LEMMA EarlierRecorded ==
    ASSUME SInv, NEW s \in Servers, NEW m \in Migrations, NEW at, Migrating(s, m, at)
    PROVE  \A n \in Migrations : n < m => n \in recorded
  BY MigrationsOrdered DEF SInv, MigratorsInv, ServerTypeOK, Migrating

(* A table that is taken for the right one is not legacy: the legacy orders *)
(* would have been replaced, and order_items with it.                       *)
LEMMA CheckTableInv ==
    ASSUME SInv, NEW s \in Servers, NEW m \in Migrations, CheckTable(s, m)
    PROVE  SInv'
  <1> DEFINE next == IF Exists(m) THEN IF AsksTwice(m) THEN "recheck" ELSE "record"
                     ELSE IF m = LastMigration THEN "record" ELSE "create"
  <1> USE MigrationsOrdered DEF Exists, AsksTwice, Subject
  <1>1. Ask(s, m, "check", next)
    BY DEF CheckTable
  <1>2. \A n \in Migrations : n < m => n \in recorded
    BY <1>1, EarlierRecorded DEF Ask
  <1>3. m # LegacyMigration /\ tables[m] = "legacy" => FALSE
    BY <1>2 DEF SInv, TablesInv
  <1>4. next \in {"create", "record"} => tables[m] # "legacy"
    BY <1>3
  <1>5. next = "record" => Lost(m)
    <2>1. CASE m = LastMigration
      BY <1>2, <2>1 DEF SInv, ExistInv, Lost, Dropped
    <2>2. CASE m # LastMigration
      BY <2>2 DEF Lost
    <2> QED
      BY <2>1, <2>2
  <1>6. next = "recheck" /\ m = LegacyMigration => Lost(m)
    BY DEF Lost
  <1>7. next \in {"recheck", "create", "record"}
    OBVIOUS
  <1> HIDE DEF next
  <1> QED
    BY <1>1, <1>4, <1>5, <1>6, <1>7, AskInv

(* An orders table that has gone since was dropped in a race.               *)
LEMMA RecheckTableInv ==
    ASSUME SInv, NEW s \in Servers, NEW m \in Migrations, RecheckTable(s, m)
    PROVE  SInv'
  <1> DEFINE next == IF Exists(m) THEN "describe"
                     ELSE IF m = LegacyMigration THEN "record" ELSE "create"
  <1> USE MigrationsOrdered DEF Exists, Subject
  <1>1. Ask(s, m, "recheck", next)
    BY DEF RecheckTable
  <1>2. next = "record" => Lost(m) /\ tables[m] # "legacy"
    BY <1>1 DEF SInv, ExistInv, Ask
  <1>3. next = "create" => tables[m] # "legacy"
    <2>1. ASSUME next = "create", tables[m] = "legacy"
          PROVE  FALSE
      <3>1. tables[LegacyMigration] = "legacy"
        BY <2>1 DEF SInv, TablesInv
      <3> QED
        BY <2>1, <3>1
    <2> QED
      BY <2>1
  <1>4. next \in {"describe", "create", "record"}
    OBVIOUS
  <1> HIDE DEF next
  <1> QED
    BY <1>1, <1>2, <1>3, <1>4, AskInv

(* Only a legacy orders table is dropped.                                   *)
LEMMA DescribeTableInv ==
    ASSUME SInv, NEW s \in Servers, NEW m \in Migrations, DescribeTable(s, m)
    PROVE  SInv'
  <1> DEFINE next == IF m = LegacyMigration /\ tables[m] = "legacy" THEN "dropItems"
                     ELSE IF m = LastMigration /\ tables[m] = "missing" THEN "create"
                     ELSE "record"
  <1> USE MigrationsOrdered DEF Exists, Subject
  <1>1. Ask(s, m, "describe", next) /\ Exists(m)
    BY DEF DescribeTable
  <1>2. \A n \in Migrations : n < m => n \in recorded
    BY <1>1, EarlierRecorded DEF Ask
  <1>3. m # LegacyMigration /\ tables[m] = "legacy" => FALSE
    BY <1>2 DEF SInv, TablesInv
  <1>4. next \in {"create", "record"} => tables[m] # "legacy"
    BY <1>3
  <1>5. next = "record" => Lost(m)
    BY <1>1 DEF Lost
  <1>6. next = "dropItems" => m = LegacyMigration
    OBVIOUS
  <1>7. next \in {"dropItems", "create", "record"}
    OBVIOUS
  <1> HIDE DEF next
  <1> QED
    BY <1>1, <1>4, <1>5, <1>6, <1>7, AskInv

(* A process that migrates alone and drops tables has recorded none, and no *)
(* other is about to.                                                       *)
LEMMA AloneDrops ==
    ASSUME SInv, NEW s \in Replacing, s \notin overlapped
    PROVE  /\ \A m \in Dropped : m \notin recorded
           /\ \A t \in Servers, m \in Migrations, at \in {"recheck", "record"} :
                 ~Migrating(t, m, at)
  <1> USE MigrationsOrdered DEF SInv, ServerTypeOK
  <1>1. s \in Migrators /\ LegacyMigration \in pending[s]
    BY DEF Replacing, Migrators, MigratorsInv
  <1>2. LegacyMigration \notin recorded
    BY <1>1 DEF OverlapInv
  <1>3. \A m \in Dropped : m \notin recorded
    BY <1>2 DEF Dropped, MigratorsInv
  <1>4. \A t \in Migrators : t = s
    BY <1>1 DEF OverlapInv
  <1> QED
    BY <1>3, <1>4 DEF Migrating, Migrators, Replacing

(* The legacy tables go: order_items, then orders with its indexes.         *)
LEMMA DropInv ==
    ASSUME SInv, NEW s \in Servers, NEW m \in Migrations, DropItems(s, m) \/ DropTable(s, m)
    PROVE  SInv'
  <1>1. PICK at \in {"dropItems", "dropTable"}, next \in {"dropTable", "create"},
             gone \in SUBSET Migrations :
           /\ Drop(s, m, at, next, gone)
           /\ \/ next = "dropTable" /\ gone = {LegacyMigration + 1}
              \/ at = "dropTable" /\ next = "create" /\ gone = {m, LastMigration}
    BY MigrationsOrdered DEF DropItems, DropTable
  <1>2. \A n \in Migrations : tables'[n] = IF n \in gone THEN "missing" ELSE tables[n]
    <2>1. tables' = [n \in Migrations |-> IF n \in gone THEN "missing" ELSE tables[n]]
      BY <1>1 DEF Drop
    <2> QED
      BY <2>1
  <1> USE <1>1, MigrationsOrdered DEF Drop, StepTo, SInv
  <1>3. ServerTypeOK' /\ OnePortOwner' /\ OverlapInv'
    <2>1. tables' \in [Migrations -> {"missing", "legacy", "half", "current"}] /\ raced' \in BOOLEAN
      BY DEF ServerTypeOK
    <2> QED
      BY <2>1, StepToTypes
  <1>4. s \in Replacing /\ Replacing' \subseteq Replacing
    BY DEF Replacing, Migrating, ServerTypeOK
  <1>5. m = LegacyMigration /\ gone \subseteq Dropped
    BY <1>4 DEF Migrating, MigratorsInv, ServerTypeOK, Dropped
  <1> USE DEF ServerTypeOK
  <1>6. MigratorsInv'
    BY <1>4 DEF MigratorsInv, Migrating, Begun
  <1>7. TablesInv'
    <2>1. \A t \in Servers, n \in Migrations, x \in {"create", "record"} :
             Migrating(t, n, x)' => Migrating(t, n, x) \/ (n = m /\ gone = {m, LastMigration})
      BY DEF Migrating
    <2>2. \A t \in Servers : step'[t] = "dropTable" =>
             step[t] = "dropTable" \/ gone = {LegacyMigration + 1}
      OBVIOUS
    <2> HIDE <1>1 DEF Drop
    <2>3. \A n \in Migrations : tables'[n] = "legacy" =>
             n \in {LegacyMigration, LegacyMigration + 1} /\ tables'[LegacyMigration] = "legacy"
      <3>1. gone = {m, LastMigration} => tables[LegacyMigration + 1] # "legacy"
        BY <1>1 DEF Drop, Migrating, TablesInv
      <3>2. gone = {LegacyMigration + 1} => tables'[LegacyMigration] = tables[LegacyMigration]
        BY <1>2
      <3> QED
        BY <1>1, <1>2, <1>5, <3>1, <3>2 DEF TablesInv
    <2>4. \A t \in Servers : step'[t] = "dropTable" => tables'[LegacyMigration + 1] # "legacy"
      BY <1>2, <2>2 DEF TablesInv
    <2>5. \A t \in Servers, n \in Migrations :
             Migrating(t, n, "create")' \/ Migrating(t, n, "record")' => tables'[n] # "legacy"
      BY <1>2, <2>1 DEF TablesInv
    <2>6. \A n \in recorded' : tables'[n] # "legacy"
      BY <1>1, <1>2 DEF TablesInv, Drop
    <2>7. \A n \in Migrations : tables'[n] = "half" => n = IndexedMigration
      BY <1>2 DEF TablesInv
    <2> QED
      BY <2>3, <2>4, <2>5, <2>6, <2>7 DEF TablesInv
  <1>8. \A t \in Servers, n \in Migrations :
           /\ \A x \in {"recheck", "record"} : Migrating(t, n, x)' => Migrating(t, n, x)
           /\ Migrating(t, n, "index") => Migrating(t, n, "index")'
    BY DEF Migrating
  <1>9. ExistInv'
    <2>1. CASE s \in overlapped
      BY <1>5, <1>2, <1>8, <2>1 DEF ExistInv, Lost
    <2>2. CASE s \notin overlapped
      BY <1>4, <1>5, <1>2, <1>8, <2>2, AloneDrops DEF ExistInv, Lost
    <2> QED
      BY <2>1, <2>2
  <1>10. HalfInv'
    BY <1>2, <1>8 DEF HalfInv
  <1> QED
    BY <1>3, <1>6, <1>7, <1>9, <1>10

(* A table that is missing is created, at once or but for its index.        *)
LEMMA CreateTableInv ==
    ASSUME SInv, NEW s \in Servers, NEW m \in Migrations, CreateTable(s, m)
    PROVE  SInv'
  <1> USE MigrationsOrdered DEF CreateTable, StepTo, history, SInv
  <1>1. ServerTypeOK' /\ OnePortOwner' /\ OverlapInv'
    BY StepToTypes DEF ServerTypeOK
  <1>2. Replacing' = Replacing
    BY DEF Replacing, Migrating, ServerTypeOK
  <1> USE DEF ServerTypeOK
  <1>3. MigratorsInv'
    BY <1>2 DEF MigratorsInv, Migrating, Begun
  <1>4. TablesInv'
    BY DEF TablesInv, Migrating
  <1>5. /\ \A n \in Migrations : tables[n] # "missing" => tables'[n] = tables[n]
        /\ \A n \in Migrations \ {m} : tables'[n] = tables[n]
        /\ tables'[m] # "missing"
    OBVIOUS
  <1>6. \A t \in Servers, n \in Migrations, x \in {"recheck", "record"} :
           Migrating(t, n, x)' => Migrating(t, n, x) \/ n = m
    BY DEF Migrating
  <1>7. ExistInv'
    BY <1>5, <1>6 DEF ExistInv, Lost
  <1>8. HalfInv'
    <2>1. CASE m = IndexedMigration
      <3>1. Migrating(s, m, "index")'
        BY <2>1 DEF Migrating
      <3> QED
        BY <2>1, <3>1 DEF HalfInv
    <2>2. CASE m # IndexedMigration
      <3>1. \A t \in Servers : Migrating(t, IndexedMigration, "index") =>
                               Migrating(t, IndexedMigration, "index")'
        BY DEF Migrating
      <3> QED
        BY <1>5, <2>2, <3>1 DEF HalfInv
    <2> QED
      BY <2>1, <2>2
  <1> QED
    BY <1>1, <1>3, <1>4, <1>7, <1>8

(* The index makes the table whole.                                         *)
LEMMA AddIndexInv ==
    ASSUME SInv, NEW s \in Servers, NEW m \in Migrations, AddIndex(s, m)
    PROVE  SInv'
  <1> USE MigrationsOrdered DEF AddIndex, StepTo, history, SInv
  <1>1. ServerTypeOK' /\ OnePortOwner' /\ OverlapInv'
    BY StepToTypes DEF ServerTypeOK
  <1>2. Replacing' = Replacing
    BY DEF Replacing, Migrating, ServerTypeOK
  <1> USE DEF ServerTypeOK
  <1>3. MigratorsInv'
    BY <1>2 DEF MigratorsInv, Migrating, Begun
  <1>4. TablesInv'
    BY DEF TablesInv, Migrating
  <1>5. \A t \in Servers, n \in Migrations, x \in {"recheck", "record"} :
           Migrating(t, n, x)' => Migrating(t, n, x) \/ n = m
    BY DEF Migrating
  <1>6. ExistInv' /\ HalfInv'
    BY <1>5 DEF ExistInv, HalfInv, Lost, TablesInv
  <1> QED
    BY <1>1, <1>3, <1>4, <1>6

(* A migration is recorded after all before it.                             *)
LEMMA RecordMigrationInv ==
    ASSUME SInv, NEW s \in Servers, NEW m \in Migrations, RecordMigration(s, m)
    PROVE  SInv'
  <1> USE MigrationsOrdered DEF RecordMigration, history, SInv
  <1>1. OnePortOwner' /\ PortOwners' = PortOwners
    BY DEF PortOwners, OnePortOwner
  <1>2. ServerTypeOK'
    BY <1>1 DEF ServerTypeOK
  <1> USE DEF ServerTypeOK
  <1>3. Replacing' = Replacing
    BY DEF Replacing, Migrating
  <1>4. MigratorsInv'
    <2>1. \A n \in Migrations : n <= m => n \in recorded'
      BY DEF Migrating, MigratorsInv
    <2> QED
      BY <1>3, <2>1 DEF MigratorsInv, Migrating, Replacing, Begun
  <1>5. TablesInv'
    BY DEF TablesInv, Migrating
  <1>6. OverlapInv'
    BY DEF OverlapInv, Migrators, Migrating
  <1>7. \A t \in Servers, n \in Migrations :
           /\ \A x \in {"recheck", "record"} : Migrating(t, n, x)' => Migrating(t, n, x)
           /\ Migrating(t, n, "index") => Migrating(t, n, "index")'
    BY DEF Migrating
  <1>8. ExistInv' /\ HalfInv'
    BY <1>7 DEF ExistInv, HalfInv, Lost
  <1> QED
    BY <1>1, <1>2, <1>4, <1>5, <1>6, <1>8

(* A migrator that has nothing left found or made all records.              *)
LEMMA MigrationsDoneInv ==
    ASSUME SInv, NEW s \in Servers, MigrationsDone(s)
    PROVE  SInv'
  <1> USE BindsAssumption DEF MigrationsDone, Move, database, history, SInv
  <1>1. OnePortOwner' /\ PortOwners' = PortOwners
    BY DEF PortOwners, OnePortOwner, ServerTypeOK
  <1>2. ServerTypeOK'
    BY <1>1 DEF ServerTypeOK, Starting
  <1> USE DEF ServerTypeOK
  <1>3. recorded = Migrations /\ s \notin Replacing
    BY DEF MigratorsInv, Replacing
  <1>4. MigratorsInv'
    BY <1>3 DEF MigratorsInv, Replacing, Begun
  <1>5. OverlapInv' /\ TablesInv' /\ ExistInv' /\ HalfInv'
    BY DEF OverlapInv, Migrators, TablesInv, ExistInv, HalfInv, Lost, Migrating
  <1> QED
    BY <1>1, <1>2, <1>4, <1>5

(* Processes that end leave what they did to the database.                  *)
LEMMA EndAllInv ==
    ASSUME SInv, NEW gone \in SUBSET Servers, NEW how \in {"clean", "cut"}, EndAll(gone, how),
           phase' \in [Servers -> Starting \cup Stopping \cup {"off", "listening", "ended"}],
           \A t \in gone : phase'[t] = "ended",
           \A t \in Servers \ gone :
              \/ phase'[t] = phase[t]
              \/ phase[t] \notin Begun /\ phase'[t] \notin Begun \cup {"listening"}
    PROVE  SInv'
  <1> USE DEF EndAll, Reset, SInv
  <1>1. PortOwners' \subseteq PortOwners
    BY DEF PortOwners
  <1>2. OnePortOwner'
    BY <1>1 DEF OnePortOwner
  <1>3. Cardinality(PortOwners') <= 1
    BY <1>2, AtMostOneElement DEF OnePortOwner
  <1>4. ServerTypeOK'
    BY <1>3, BindsAssumption DEF ServerTypeOK
  <1>5. Replacing' \subseteq Replacing /\ Replacing' \cap gone = {}
    BY DEF Replacing
  <1> USE DEF ServerTypeOK
  <1>6. \A t \in Servers \ gone :
           /\ step'[t] = step[t] /\ pending'[t] = pending[t]
           /\ phase[t] = "migrating" <=> phase'[t] = "migrating"
    BY DEF Begun
  <1>7. \A t \in gone : step'[t] = "check" /\ phase'[t] # "migrating" /\ phase'[t] \in Begun
    BY DEF Begun
  <1>8. MigratorsInv'
    BY <1>5, <1>6, <1>7 DEF MigratorsInv, Replacing
  <1>9. \A t \in Servers, m \in Migrations, at \in {"recheck", "create", "record"} :
           Migrating(t, m, at)' => Migrating(t, m, at)
    BY <1>6, <1>7 DEF Migrating
  <1>10. TablesInv' /\ ExistInv'
    BY <1>6, <1>7, <1>9, MigrationsOrdered DEF TablesInv, ExistInv, Lost
  <1>11. OverlapInv'
    <2>1. Migrators' \subseteq Migrators /\ Migrators' \cap gone = {}
      BY <1>6, <1>7 DEF Migrators
    <2> QED
      BY <1>6, <2>1 DEF OverlapInv, Migrators
  <1>12. HalfInv'
    <2>1. \A t \in Servers : Migrating(t, IndexedMigration, "index") /\ ~halved' =>
                             Migrating(t, IndexedMigration, "index")'
      BY <1>6 DEF Migrating
    <2> QED
      BY <2>1 DEF HalfInv
  <1> QED
    BY <1>2, <1>4, <1>8, <1>10, <1>11, <1>12

(* freePort ends processes that listened.                                   *)
LEMMA FreePortInv ==
    ASSUME SInv, NEW s \in Servers, NEW killed \in SUBSET PortOwners, FreePort(s, killed)
    PROVE  SInv'
  <1>1. killed \in SUBSET Servers /\ s \notin killed
    BY DEF FreePort, PortOwners
  <1>2. phase' \in [Servers -> Starting \cup Stopping \cup {"off", "listening", "ended"}]
    BY DEF FreePort, Reset, SInv, ServerTypeOK, Starting
  <1>3. /\ \A t \in killed : phase'[t] = "ended"
        /\ \A t \in Servers \ killed :
              \/ phase'[t] = phase[t]
              \/ phase[t] \notin Begun /\ phase'[t] \notin Begun \cup {"listening"}
    BY <1>1 DEF FreePort, Reset, Begun, SInv, ServerTypeOK
  <1> QED
    BY <1>1, <1>2, <1>3, EndAllInv DEF FreePort

(* A process ends.                                                          *)
LEMMA EndOfInv ==
    ASSUME SInv, NEW s \in Servers, NEW how \in {"clean", "cut"}, EndOf(s, how)
    PROVE  SInv'
  <1>1. phase' \in [Servers -> Starting \cup Stopping \cup {"off", "listening", "ended"}]
    BY DEF EndOf, Reset, SInv, ServerTypeOK
  <1>2. /\ \A t \in {s} : phase'[t] = "ended"
        /\ \A t \in Servers \ {s} : phase'[t] = phase[t]
    BY DEF EndOf, Reset
  <1> QED
    BY <1>1, <1>2, EndAllInv DEF EndOf

(* A process listens when no other does.                                    *)
LEMMA ListenInv ==
    ASSUME SInv, NEW s \in Servers, Listen(s)
    PROVE  SInv'
  <1> USE DEF Listen, Move, database, history, SInv
  <1>1. \A t \in PortOwners' : t = s
    BY DEF PortOwners, ServerTypeOK
  <1>2. OnePortOwner'
    BY <1>1 DEF OnePortOwner
  <1>3. Cardinality(PortOwners') <= 1
    BY <1>2, AtMostOneElement DEF OnePortOwner
  <1>4. ServerTypeOK'
    BY <1>3, BindsAssumption DEF ServerTypeOK
  <1>5. MigratorsInv'
    BY DEF ServerTypeOK, MigratorsInv, Replacing, Begun
  <1>6. OverlapInv' /\ TablesInv' /\ ExistInv' /\ HalfInv'
    BY DEF ServerTypeOK, OverlapInv, Migrators, TablesInv, ExistInv, HalfInv, Lost, Migrating
  <1> QED
    BY <1>2, <1>4, <1>5, <1>6

(* Another attempt at the port, of those there are.                         *)
LEMMA AddressInUseInv ==
    ASSUME SInv, NEW s \in Servers, AddressInUse(s)
    PROVE  SInv'
  <1> USE DEF AddressInUse, Move, database, history, SInv
  <1>1. PortOwners' = PortOwners
    BY DEF PortOwners, ServerTypeOK
  <1>2. OnePortOwner'
    BY <1>1 DEF OnePortOwner
  <1>3. ServerTypeOK'
    BY <1>1, BindsAssumption DEF ServerTypeOK, Starting
  <1>4. MigratorsInv'
    BY DEF ServerTypeOK, MigratorsInv, Replacing, Begun
  <1>5. OverlapInv' /\ TablesInv' /\ ExistInv' /\ HalfInv'
    BY DEF ServerTypeOK, OverlapInv, Migrators, TablesInv, ExistInv, HalfInv, Lost, Migrating
  <1> QED
    BY <1>2, <1>3, <1>4, <1>5

(* Nothing happens to the servers.                                          *)
LEMMA StutterSInv ==
    ASSUME SInv, UNCHANGED serverVars
    PROVE  SInv'
  <1> USE DEF serverVars, database, history, SInv
  <1>1. PortOwners' = PortOwners /\ Replacing' = Replacing /\ Migrators' = Migrators
    BY DEF PortOwners, Replacing, Migrators
  <1>2. ServerTypeOK' /\ OnePortOwner'
    BY <1>1 DEF ServerTypeOK, OnePortOwner
  <1>3. MigratorsInv' /\ OverlapInv' /\ TablesInv' /\ ExistInv' /\ HalfInv'
    BY <1>1 DEF MigratorsInv, OverlapInv, TablesInv, ExistInv, HalfInv, Lost, Migrating
  <1> QED
    BY <1>2, <1>3

(* The places that the steps without a lemma of their own join.             *)
LEMMA MovesInv ==
    ASSUME SInv, NEW s \in Servers,
           \/ StartServer(s) \/ RedisTried(s) \/ Signal(s) \/ CloseHttp(s)
           \/ StopWorker(s) \/ CloseQueue(s) \/ CloseRedis(s)
    PROVE  SInv'
  <1>1. \A from \in {"off", "connecting", "listening", "closingHttp", "stoppingWorker",
                     "closingQueue", "disconnecting"},
           to \in (Starting \cup Stopping) \ {"migrating", "freeing", "binding"} :
              Proceed(s, from, to) /\ (from \in Begun <=> to \in Begun) => SInv'
    <2> TAKE from \in {"off", "connecting", "listening", "closingHttp", "stoppingWorker",
                       "closingQueue", "disconnecting"},
             to \in (Starting \cup Stopping) \ {"migrating", "freeing", "binding"}
    <2> HAVE Proceed(s, from, to) /\ (from \in Begun <=> to \in Begun)
    <2>1. phase'[s] # "listening"
      BY DEF Proceed, Move, SInv, ServerTypeOK, Starting, Stopping
    <2> QED
      BY <2>1, ProceedInv
  <1> QED
    BY <1>1 DEF StartServer, RedisTried, Signal, CloseHttp, StopWorker, CloseQueue, CloseRedis,
                Begun, Starting, Stopping

(* The invariant is inductive.                                              *)
LEMMA NextSInv == SInv /\ [ServerNext]_serverVars => SInv'
  <1> SUFFICES ASSUME SInv, [ServerNext]_serverVars PROVE SInv'
    OBVIOUS
  <1>1. ASSUME NEW s \in Servers, MigrateStep(s)
        PROVE  SInv'
    BY <1>1, ReadPendingInv, MigrationsDoneInv, CheckTableInv, RecheckTableInv,
       DescribeTableInv, DropInv, CreateTableInv, AddIndexInv, RecordMigrationInv
       DEF MigrateStep
  <1>2. ASSUME NEW s \in Servers, ClosePool(s) \/ ForceExit(s) \/ Fail(s) \/ Kill(s)
        PROVE  SInv'
    BY <1>2, EndOfInv DEF ClosePool, ForceExit, Fail, Kill
  <1> QED
    BY <1>1, <1>2, FreePortInv, ListenInv, AddressInUseInv, MovesInv, StutterSInv DEF ServerNext

------------------------------------------------------------------------------
(* Throughout, what processes are at, what is recorded and what the tables  *)
(* are agree: a process that migrates alone is the only one to record, and  *)
(* a table that is recorded, or about to be, is there and is not legacy,    *)
(* unless overlapping migrations dropped it.                                *)
THEOREM ServersInvariance == ServerSpec => []SInv
  BY InitSInv, NextSInv, PTL DEF ServerSpec

(* Processes stay within their types, and at most one listens.              *)
THEOREM ServersTypeCorrect == ServerSpec => []ServerTypeOK
  <1>1. SInv => ServerTypeOK
    BY DEF SInv
  <1> QED
    BY <1>1, ServersInvariance, PTL

(* A server that takes requests has every migration recorded and no legacy  *)
(* table; what else its schema lacks was dropped in a race, or is the       *)
(* unique index of idempotency_keys after a death or an overlap.            *)
THEOREM SchemaIsServed == ServerSpec => []SchemaServed
  <1>1. SInv => SchemaServed
    <2> SUFFICES ASSUME SInv, NEW s \in Servers, phase[s] = "listening", NEW m \in Migrations
                 PROVE  /\ m \in recorded /\ tables[m] # "legacy"
                        /\ tables[m] = "missing" => raced /\ m \in Dropped
                        /\ tables[m] = "half" =>
                              m = IndexedMigration /\ (halved \/ overlapped # {})
      BY DEF SchemaServed
    <2> USE DEF SInv
    <2>1. recorded = Migrations
      BY DEF MigratorsInv, Begun
    <2>2. tables[m] # "legacy" /\ (tables[m] = "missing" => raced /\ m \in Dropped)
      BY <2>1 DEF TablesInv, ExistInv, Lost
    <2>3. \A t \in Migrators : t \notin overlapped => pending[t] \cap Migrations = {}
      BY <2>1 DEF OverlapInv
    <2>4. overlapped = {} => \A t \in Servers : ~Migrating(t, IndexedMigration, "index")
      BY <2>3, MigrationsOrdered DEF Migrating, Migrators
    <2> QED
      BY <2>1, <2>2, <2>4 DEF TablesInv, HalfInv
  <1> QED
    BY <1>1, ServersInvariance, PTL

------------------------------------------------------------------------------
(* A start is bounded *)

(* What is pending is counted.                                              *)
LEMMA PendingCounted ==
    ASSUME NEW S \in SUBSET Migrations
    PROVE  /\ Cardinality(S) \in 0..LastMigration
           /\ \A m \in S : Cardinality(S \ {m}) = Cardinality(S) - 1
           /\ S # {} => Cardinality(S) > 0
  <1>1. IsFiniteSet(Migrations) /\ Cardinality(Migrations) = LastMigration
    BY MigrationsAssumption, FS_Interval DEF Migrations
  <1>2. IsFiniteSet(S) /\ Cardinality(S) <= LastMigration /\ Cardinality(S) \in Nat
    BY <1>1, FS_Subset, FS_CardinalityType
  <1> QED
    BY <1>2, FS_RemoveElement, FS_EmptySet, MigrationsAssumption

(* Steps are counted.                                                       *)
LEMMA StepsCounted ==
    /\ StepsLeft("check") = 7 /\ StepsLeft("recheck") = 6 /\ StepsLeft("describe") = 5
    /\ StepsLeft("dropItems") = 4 /\ StepsLeft("dropTable") = 3
    /\ StepsLeft("create") = 2 /\ StepsLeft("index") = 1 /\ StepsLeft("record") = 0
  BY DEF StepsLeft

(* What is left of a start, place by place.                                 *)
LEMMA LeftByPhase ==
    ASSUME NEW s \in Servers
    PROVE  /\ phase[s] = "connecting" => StartLeft(s) = 2 * MaxBinds + 8 * LastMigration + 10
           /\ phase[s] = "planning" => StartLeft(s) = 2 * MaxBinds + 8 * LastMigration + 9
           /\ phase[s] = "migrating" => StartLeft(s) =
                 2 * MaxBinds + 8 * Cardinality(pending[s]) + StepsLeft(step[s]) + 1
           /\ phase[s] = "freeing" => StartLeft(s) = 2 * (MaxBinds - attempt[s]) + 2
           /\ phase[s] = "binding" => StartLeft(s) = 2 * (MaxBinds - attempt[s]) + 1
           /\ phase[s] \notin Starting => StartLeft(s) = 0
  BY DEF StartLeft, BindsLeft, Starting

(* The same after a step.                                                   *)
LEMMA LeftByPhaseNext ==
    ASSUME NEW s \in Servers
    PROVE  /\ phase'[s] = "planning" => StartLeft(s)' = 2 * MaxBinds + 8 * LastMigration + 9
           /\ phase'[s] = "migrating" => StartLeft(s)' =
                 2 * MaxBinds + 8 * Cardinality(pending'[s]) + StepsLeft(step'[s]) + 1
           /\ phase'[s] = "freeing" => StartLeft(s)' = 2 * (MaxBinds - attempt'[s]) + 2
           /\ phase'[s] = "binding" => StartLeft(s)' = 2 * (MaxBinds - attempt'[s]) + 1
           /\ phase'[s] \notin Starting => StartLeft(s)' = 0
  BY DEF StartLeft, BindsLeft, Starting

(* There is something left of a start that goes on.                         *)
LEMMA SomethingLeft ==
    ASSUME SInv, NEW s \in Servers
    PROVE  /\ StartLeft(s) \in Nat
           /\ phase[s] \in Starting => StartLeft(s) > 0
  <1>1. Cardinality(pending[s]) \in Nat /\ attempt[s] \in 0..MaxBinds /\ StepsLeft(step[s]) \in Nat
    BY PendingCounted, StepsCounted, MigrationsAssumption DEF SInv, ServerTypeOK
  <1> QED
    BY <1>1, LeftByPhase, BindsAssumption, MigrationsAssumption DEF Starting

Bounded(s) ==
    phase[s] \in Starting =>
       \/ UNCHANGED <<phase[s], attempt[s], pending[s], step[s]>>
       \/ StartLeft(s)' < StartLeft(s)

(* Processes that end, and those that do nothing, retry nothing.            *)
LEMMA EndAllBounded ==
    ASSUME SInv, NEW s \in Servers, NEW gone \in SUBSET Servers, NEW how, EndAll(gone, how),
           s \in gone => phase'[s] = "ended",
           s \notin gone => phase'[s] = phase[s]
    PROVE  Bounded(s)
  <1>1. CASE s \in gone
    BY <1>1, SomethingLeft, LeftByPhaseNext DEF Bounded, Starting
  <1>2. CASE s \notin gone
    BY <1>2 DEF Bounded, EndAll, Reset
  <1> QED
    BY <1>1, <1>2

(* Each step of a migration brings it forward.                              *)
LEMMA MigrateBounded ==
    ASSUME SInv, NEW s \in Servers, MigrateStep(s)
    PROVE  StartLeft(s)' < StartLeft(s)
  <1> USE BindsAssumption, MigrationsAssumption, LeftByPhase, LeftByPhaseNext, StepsCounted
      DEF SInv, ServerTypeOK
  <1>1. CASE ReadPending(s)
    <2>1. /\ Cardinality(pending'[s]) \in 0..LastMigration
          /\ phase'[s] = "migrating" /\ step'[s] = "check"
      BY <1>1, PendingCounted DEF ReadPending, Move
    <2> QED
      BY <1>1, <2>1 DEF ReadPending, Move
  <1>2. CASE MigrationsDone(s)
    <2>1. Cardinality(pending[s]) = 0
      BY <1>2, FS_EmptySet DEF MigrationsDone
    <2>2. StepsLeft(step[s]) \in Nat
      BY StepsCounted
    <2>3. phase[s] = "migrating" /\ phase'[s] = "freeing" /\ attempt'[s] = 1
      BY <1>2 DEF MigrationsDone, Move
    <2>4. StartLeft(s)' = 2 * (MaxBinds - 1) + 2
      BY <2>3
    <2>5. StartLeft(s) = 2 * MaxBinds + 8 * 0 + StepsLeft(step[s]) + 1
      BY <2>1, <2>3
    <2> QED
      BY <2>2, <2>4, <2>5
  <1>3. ASSUME NEW m \in Migrations, RecordMigration(s, m)
        PROVE  StartLeft(s)' < StartLeft(s)
    <2>1. Cardinality(pending'[s]) = Cardinality(pending[s]) - 1 /\ Cardinality(pending[s]) \in Nat
      BY <1>3, PendingCounted DEF RecordMigration, Migrating
    <2> QED
      BY <1>3, <2>1 DEF RecordMigration, Migrating
  <1>4. ASSUME NEW m \in Migrations,
               \/ CheckTable(s, m) \/ RecheckTable(s, m) \/ DescribeTable(s, m)
               \/ DropItems(s, m) \/ DropTable(s, m) \/ CreateTable(s, m) \/ AddIndex(s, m)
        PROVE  StartLeft(s)' < StartLeft(s)
    <2>1. Cardinality(pending[s]) \in Nat
      BY PendingCounted
    <2>2. /\ phase[s] = "migrating" /\ UNCHANGED <<phase, pending>>
          /\ StepsLeft(step'[s]) < StepsLeft(step[s])
          /\ StepsLeft(step[s]) \in Nat /\ StepsLeft(step'[s]) \in Nat
      BY <1>4 DEF CheckTable, RecheckTable, DescribeTable, Ask, DropItems, DropTable, Drop,
                  CreateTable, AddIndex, Migrating, StepTo
    <2> QED
      BY <2>1, <2>2
  <1> QED
    BY <1>1, <1>2, <1>3, <1>4 DEF MigrateStep

(* A step of one process does not set another back.                         *)
LEMMA OthersUnmoved ==
    ASSUME SInv, NEW s \in Servers, NEW t \in Servers \ {s},
           \/ StartServer(s) \/ RedisTried(s) \/ MigrateStep(s) \/ Listen(s) \/ AddressInUse(s)
           \/ Signal(s) \/ CloseHttp(s) \/ StopWorker(s) \/ CloseQueue(s) \/ CloseRedis(s)
    PROVE  UNCHANGED <<phase[t], attempt[t], pending[t], step[t]>>
  BY DEF SInv, ServerTypeOK, StartServer, RedisTried, MigrateStep, ReadPending, MigrationsDone,
         CheckTable, RecheckTable, DescribeTable, Ask, DropItems, DropTable, Drop, CreateTable,
         AddIndex, RecordMigration, StepTo, Migrating, Listen, AddressInUse, Signal, CloseHttp,
         StopWorker, CloseQueue, CloseRedis, Proceed, Move, database

(* No step of any process sets a start back.                                *)
LEMMA NextBounded ==
    ASSUME SInv, [ServerNext]_serverVars, NEW s \in Servers
    PROVE  Bounded(s)
  <1> USE BindsAssumption, MigrationsAssumption
  <1>1. ASSUME StartServer(s) \/ RedisTried(s) \/ Listen(s) \/ AddressInUse(s)
               \/ Signal(s) \/ CloseHttp(s) \/ StopWorker(s) \/ CloseQueue(s) \/ CloseRedis(s)
        PROVE  Bounded(s)
    BY <1>1, LeftByPhase, LeftByPhaseNext
       DEF Bounded, StartServer, RedisTried, Listen, AddressInUse, Signal, CloseHttp, StopWorker,
           CloseQueue, CloseRedis, Proceed, Move, SInv, ServerTypeOK, Starting
  <1>2. ASSUME MigrateStep(s)
        PROVE  Bounded(s)
    BY <1>2, MigrateBounded DEF Bounded
  <1>3. ASSUME NEW t \in Servers, ClosePool(t) \/ ForceExit(t) \/ Fail(t) \/ Kill(t)
        PROVE  Bounded(s)
    <2>1. PICK how \in {"clean", "cut"} : EndOf(t, how)
      BY <1>3 DEF ClosePool, ForceExit, Fail, Kill
    <2> QED
      BY <2>1, EndAllBounded DEF EndOf, Reset
  <1>4. ASSUME NEW t \in Servers, NEW killed \in SUBSET PortOwners, FreePort(t, killed)
        PROVE  Bounded(s)
    <2>1. CASE s = t
      <3>1. /\ phase[s] = "freeing" /\ phase'[s] = "binding" /\ attempt'[s] = attempt[s]
            /\ attempt[s] \in 0..MaxBinds
        BY <1>4, <2>1 DEF FreePort, EndAll, Reset, PortOwners, SInv, ServerTypeOK
      <3> QED
        BY <3>1, LeftByPhase, LeftByPhaseNext DEF Bounded
    <2>2. CASE s # t
      BY <1>4, <2>2, EndAllBounded DEF FreePort, Reset, PortOwners, SInv, ServerTypeOK
    <2> QED
      BY <2>1, <2>2
  <1>5. ASSUME UNCHANGED serverVars
        PROVE  Bounded(s)
    BY <1>5 DEF Bounded, serverVars, database
  <1> QED
    BY <1>1, <1>2, <1>3, <1>4, <1>5, OthersUnmoved DEF ServerNext, Bounded

(* No start retries the port for ever or migrates in a circle.              *)
THEOREM StartIsBounded == ServerSpec => StartsBounded
  <1>1. SInv /\ [ServerNext]_serverVars =>
           [\A s \in Servers :
               phase[s] \in Starting =>
                  \/ UNCHANGED <<phase[s], attempt[s], pending[s], step[s]>>
                  \/ StartLeft(s)' < StartLeft(s)]_serverVars
    BY NextBounded DEF Bounded
  <1> QED
    BY <1>1, ServersInvariance, PTL DEF ServerSpec, StartsBounded
==============================================================================
