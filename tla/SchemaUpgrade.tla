---------------------------- MODULE SchemaUpgrade ---------------------------
(***************************************************************************)
(* runMigrations, by a server and a CLI command that open the same         *)
(* database at the same time: the ledger is read, an exact copy of the     *)
(* database file is made, then each pending migration is one transaction.  *)
(* A write-ahead log holds what is committed but not yet in the file.      *)
(***************************************************************************)
EXTENDS Integers, FiniteSets

CONSTANTS
  Migrators,           \* processes that open the database
  Latest,              \* the last migration of this version
  RowBound,            \* bound: rows committed after an upgrade
  UpgradeCrashBound

VARIABLES
  applied,     \* how often each migration has been applied
  rows,        \* rows committed
  file,        \* what the database file holds, without its log
  copies,      \* the pre-upgrade-*.bak files
  migrator,    \* what each process is doing
  initial,     \* the database as the upgrade found it
  upgradeCrashes

upgradeVars == <<applied, rows, file, copies, migrator, initial, upgradeCrashes>>

Migrations == 1..Latest
Databases == [applied : [Migrations -> 0..Cardinality(Migrators)], rows : 0..RowBound]
Database == [applied |-> applied, rows |-> rows]
Away == [phase |-> "away", pending |-> {}]

UpgradeTypeOK ==
  /\ Database \in Databases /\ file \in Databases /\ initial \in Databases
  /\ copies \subseteq Databases
  /\ migrator \in [Migrators ->
       [phase : {"away", "checkpoint", "copy", "migrate", "transaction", "serving"},
        pending : SUBSET Migrations]]
  /\ upgradeCrashes \in 0..UpgradeCrashBound

\* Some version of the database; its last rows may be in the log only.
UpgradeInit ==
  /\ \E version \in 0..Latest : applied = [m \in Migrations |-> IF m <= version THEN 1 ELSE 0]
  /\ rows = IF applied[1] = 0 THEN 0 ELSE 1
  /\ \E r \in 0..rows : file = [applied |-> applied, rows |-> r]
  /\ copies = {}
  /\ migrator = [p \in Migrators |-> Away]
  /\ initial = Database
  /\ upgradeCrashes = 0

-----------------------------------------------------------------------------
Recorded == {m \in Migrations : applied[m] > 0}
InTransaction == {p \in Migrators : migrator[p].phase = "transaction"}
Phase(p, phase) == migrator' = [migrator EXCEPT ![p].phase = phase]

\* The ledger is read; a database that has one and lags behind is copied first.
ReadLedger(p) ==
  LET pending == Migrations \ Recorded IN
  /\ migrator[p].phase = "away"
  /\ migrator' = [migrator EXCEPT ![p] =
       [phase |-> IF Recorded # {} /\ pending # {} THEN "checkpoint" ELSE "migrate",
        pending |-> pending]]
  /\ UNCHANGED <<applied, rows, file, copies, initial, upgradeCrashes>>

\* Seeded fault: the log is not written into the file before the copy.
CopyWithoutLog(p) ==
  /\ migrator[p].phase = "checkpoint" /\ Phase(p, "copy")
  /\ UNCHANGED <<applied, rows, file, copies, initial, upgradeCrashes>>

\* wal_checkpoint(TRUNCATE) does nothing, and says so unheard, while another
\* process is in a transaction.
Checkpoint(p) ==
  /\ migrator[p].phase = "checkpoint" /\ Phase(p, "copy")
  /\ file' = IF InTransaction = {} THEN Database ELSE file
  /\ UNCHANGED <<applied, rows, copies, initial, upgradeCrashes>>
Copy(p) ==
  /\ migrator[p].phase = "copy" /\ Phase(p, "migrate")
  /\ copies' = copies \cup {file}
  /\ UNCHANGED <<applied, rows, file, initial, upgradeCrashes>>

\* BEGIN IMMEDIATE waits for the transaction of another process.
BeginMigration(p) ==
  /\ migrator[p].phase = "migrate" /\ migrator[p].pending # {} /\ InTransaction = {}
  /\ Phase(p, "transaction")
  /\ UNCHANGED <<applied, rows, file, copies, initial, upgradeCrashes>>

NextOf(p) == CHOOSE m \in migrator[p].pending : \A n \in migrator[p].pending : m <= n

\* The migration and its ledger row are one transaction; the row of a migration
\* another process applied meanwhile violates the key, and all is rolled back.
Migrate(p) ==
  /\ migrator[p].phase = "transaction"
  /\ NextOf(p) \notin Recorded
  /\ applied' = [applied EXCEPT ![NextOf(p)] = 1]
  /\ migrator' = [migrator EXCEPT ![p].phase = "migrate", ![p].pending = @ \ {NextOf(p)}]
  /\ file' \in {file, [applied |-> applied', rows |-> rows]}
  /\ UNCHANGED <<rows, copies, initial, upgradeCrashes>>
RolledBack(p) ==
  /\ migrator[p].phase = "transaction"
  /\ migrator' = [migrator EXCEPT ![p] = Away]
  /\ \/ NextOf(p) \in Recorded /\ UNCHANGED upgradeCrashes
     \/ upgradeCrashes < UpgradeCrashBound /\ upgradeCrashes' = upgradeCrashes + 1
  /\ UNCHANGED <<applied, rows, file, copies, initial>>

\* The process is up; it commits rows.
Serve(p) ==
  /\ migrator[p].phase = "migrate" /\ migrator[p].pending = {}
  /\ Phase(p, "serving")
  /\ UNCHANGED <<applied, rows, file, copies, initial, upgradeCrashes>>
CommitRow(p) ==
  /\ migrator[p].phase = "serving" /\ InTransaction = {} /\ rows < RowBound
  /\ rows' = rows + 1
  /\ UNCHANGED <<applied, file, copies, migrator, initial, upgradeCrashes>>
Exit(p) ==
  /\ migrator[p].phase # "away"
  /\ \/ migrator[p].phase = "serving" /\ UNCHANGED upgradeCrashes
     \/ upgradeCrashes < UpgradeCrashBound /\ upgradeCrashes' = upgradeCrashes + 1
  /\ migrator' = [migrator EXCEPT ![p] = Away]
  /\ UNCHANGED <<applied, rows, file, copies, initial>>

UpgradeNext ==
  \E p \in Migrators :
    \/ ReadLedger(p) \/ Checkpoint(p) \/ Copy(p) \/ BeginMigration(p) \/ Migrate(p)
    \/ RolledBack(p) \/ Serve(p) \/ CommitRow(p) \/ Exit(p)

UpgradeSpec == UpgradeInit /\ [][UpgradeNext]_upgradeVars

-----------------------------------------------------------------------------
\* Whoever starts while another process is upgrading, and whoever crashes: each
\* migration is applied once and in order, and from the first one on there is a
\* copy of the database as it was before, rows still in the log included.
UpgradeIsRecoverable ==
  /\ \A m \in Migrations : applied[m] <= 1 /\ (m > 1 => applied[m] <= applied[m - 1])
  /\ (initial.applied[1] = 1 /\ applied # initial.applied) => initial \in copies
=============================================================================
