-------------------------- MODULE StorageMigration --------------------------
(* The opening of the SQLite store by prepareSQLiteDatabase: the migration   *)
(* lock, the runtime leases, the recovery of an interrupted migration, and   *)
(* the migration on a staging copy (native/shared/storage/sqliteDatabase.ts, *)
(* the versions of sqliteMigrations.ts).                                     *)
(*                                                                           *)
(* Processes of different builds share one directory.  A step is one change  *)
(* of the directory or of the database; a process may crash between any two, *)
(* and a check or a file operation may fail.  A process that crashed leaves  *)
(* its lock behind; its lease counts no more, for cleanupDeadRuntimeLeases   *)
(* removes it before it is looked at.  A process identifier is not reused.   *)
EXTENDS Integers, FiniteSets

CONSTANTS
    Processes,
    Builds,             \* the schema versions of the installed builds
    MaxWrites,          \* bound: writes made over all connections
    MaxFaults,          \* bound: crashes and failures
    ConcurrentReclaims, \* whether two processes may reclaim a lock at once
    None,
    Dead                \* the owner of a lock whose process has crashed

ASSUME StorageConstants ==
    /\ Builds \subseteq Nat \ {0}
    /\ Builds # {}
    /\ MaxWrites \in Nat
    /\ MaxFaults \in Nat
    /\ ConcurrentReclaims \in BOOLEAN
    /\ None \notin Processes
    /\ Dead \notin Processes
    /\ None # Dead

VARIABLES
    db, backup, staging,    \* the three files: None, or a version and its rows
    wal,                    \* the rows in db's write-ahead log
    trusted,                \* whether db was validated under its name
    lock,                   \* the lock file: None, or its owner
    lockWritten,            \* whether its record is complete
    leases,                 \* the connections that hold a lease
    pc, build,              \* each process: where it is, which build it runs
    orphans,                \* the connections whose file is no longer db
    committed,              \* history: the writes acknowledged
    faults                  \* history: crashes and failures so far

files == <<db, backup, staging, wal, trusted>>
locks == <<lock, lockWritten>>
vars == <<files, locks, leases, pc, build, orphans, committed, faults>>

Writes == 1..MaxWrites
File == [version : Builds, rows : SUBSET Writes]

ASSUME NoneIsNoFile == None \notin File

(* Where a process is in withMigrationLock, and in what it guards.           *)
Guarded ==
    {"recover", "restoreOld", "open", "copy", "migrate", "retire", "promote",
     "validate", "dropBackup", "rollback", "restore", "lease", "unlock", "release"}
Places == {"idle", "lock", "writeLock", "reclaim", "running"} \union Guarded

TypeOK ==
    /\ db \in File \union {None}
    /\ backup \in File \union {None}
    /\ staging \in File \union {None}
    /\ wal \subseteq Writes
    /\ trusted \in BOOLEAN
    /\ lock \in Processes \union {None, Dead}
    /\ lockWritten \in BOOLEAN
    /\ leases \subseteq Processes
    /\ pc \in [Processes -> Places]
    /\ build \in [Processes -> Builds]
    /\ orphans \subseteq Processes
    /\ committed \subseteq Writes
    /\ faults \in 0..MaxFaults

(* An empty directory; the store is created by the first build to start.     *)
Init ==
    /\ db = None
    /\ backup = None
    /\ staging = None
    /\ wal = {}
    /\ trusted = FALSE
    /\ lock = None
    /\ lockWritten = FALSE
    /\ leases = {}
    /\ pc = [p \in Processes |-> "idle"]
    /\ build \in [Processes -> Builds]
    /\ orphans = {}
    /\ committed = {}
    /\ faults = 0

Goto(p, place) == pc' = [pc EXCEPT ![p] = place]

Fault == faults < MaxFaults /\ faults' = faults + 1

-----------------------------------------------------------------------------
(* withMigrationLock.                                                        *)

Start(p, b) ==
    /\ pc[p] = "idle"
    /\ build' = [build EXCEPT ![p] = b]
    /\ Goto(p, "lock")
    /\ UNCHANGED <<files, locks, leases, orphans, committed, faults>>

(* createOwnershipFile: the file exists before its record does.              *)
CreateLock(p) ==
    /\ pc[p] = "lock"
    /\ lock = None
    /\ lock' = p
    /\ lockWritten' = FALSE
    /\ Goto(p, "writeLock")
    /\ UNCHANGED <<files, leases, build, orphans, committed, faults>>

WriteLock(p) ==
    /\ pc[p] = "writeLock"
    /\ lockWritten' = (lock = p \/ lockWritten)
    /\ Goto(p, "recover")
    /\ UNCHANGED <<files, lock, leases, build, orphans, committed, faults>>

\* Mutant: a record that is old enough is taken for abandoned.
AbandonedByAge == lock = Dead \/ (lock # None /\ lockWritten)

(* A record whose process is gone, or an incomplete one that has aged past   *)
(* the threshold; the process that is writing its record is not that slow.   *)
Abandoned == lock = Dead

(* The record is read, and judged, before the file is removed.               *)
JudgeLock(p) ==
    /\ pc[p] = "lock"
    /\ Abandoned
    /\ ConcurrentReclaims \/ \A q \in Processes : pc[q] # "reclaim"
    /\ Goto(p, "reclaim")
    /\ UNCHANGED <<files, locks, leases, build, orphans, committed, faults>>

(* rmSync takes the file that has the name now.                              *)
RemoveLock(p) ==
    /\ pc[p] = "reclaim"
    /\ lock' = None
    /\ lockWritten' = FALSE
    /\ Goto(p, "lock")
    /\ UNCHANGED <<files, leases, build, orphans, committed, faults>>

(* The owner is alive until the deadline.                                    *)
LockTimesOut(p) ==
    /\ pc[p] = "lock"
    /\ lock \in Processes
    /\ Goto(p, "idle")
    /\ UNCHANGED <<files, locks, leases, build, orphans, committed, faults>>

ReleaseLock(p) ==
    /\ pc[p] \in {"unlock", "release"}
    /\ IF lock = p
       THEN lock' = None /\ lockWritten' = FALSE
       ELSE UNCHANGED locks
    /\ Goto(p, IF pc[p] = "unlock" THEN "running" ELSE "idle")
    /\ UNCHANGED <<files, leases, build, orphans, committed, faults>>

-----------------------------------------------------------------------------
(* recoverInterruptedMigration, after the leases of the dead are removed.    *)

(* assertNoActiveRuntimeLeases looks for these.                              *)
Active == leases

(* Connections to a file that loses the name db go on writing to it.         *)
Detach == orphans' = orphans \union leases

InspectPromoted(p) ==
    IF db.version > build[p] THEN "future"
    ELSE IF db.version = build[p] THEN "current" ELSE "invalid"

RenameBackup ==
    /\ db' = backup
    /\ backup' = None
    /\ trusted' = TRUE
    /\ Detach

\* Mutant: what an interrupted migration left in staging stays.
RecoverNothingKeeping(p) ==
    /\ pc[p] = "recover"
    /\ backup = None \/ (db # None /\ InspectPromoted(p) = "future")
    /\ Goto(p, "open")
    /\ UNCHANGED <<files, locks, leases, build, orphans, committed, faults>>

(* Nothing to recover from, or the recovery material is a newer build's.     *)
RecoverNothing(p) ==
    /\ pc[p] = "recover"
    /\ \/ /\ backup = None
          /\ staging' = None
       \/ /\ backup # None /\ db # None
          /\ InspectPromoted(p) = "future"
          /\ UNCHANGED staging
    /\ Goto(p, "open")
    /\ UNCHANGED <<db, backup, wal, trusted, locks, leases, build, orphans, committed, faults>>

(* The crash came between the two renames.                                   *)
RecoverBackup(p) ==
    /\ pc[p] = "recover"
    /\ backup # None /\ db = None
    /\ RenameBackup
    /\ wal' = {}
    /\ staging' = None
    /\ Goto(p, "open")
    /\ UNCHANGED <<locks, leases, build, committed, faults>>

(* The crash came after the promotion.                                       *)
RecoverPromoted(p) ==
    /\ pc[p] = "recover"
    /\ backup # None /\ db # None
    /\ InspectPromoted(p) = "current"
    /\ backup' = None
    /\ trusted' = TRUE
    /\ staging' = None
    /\ Goto(p, "open")
    /\ UNCHANGED <<db, wal, locks, leases, build, orphans, committed, faults>>

(* What was promoted is not what this build wants, or its inspection fails.  *)
RecoverInvalid(p) ==
    /\ pc[p] = "recover"
    /\ backup # None /\ db # None
    /\ \/ InspectPromoted(p) = "invalid" /\ UNCHANGED faults
       \/ Fault
    /\ IF Active # {}
       THEN Goto(p, "release") /\ UNCHANGED <<db, wal>>
       ELSE Goto(p, "restoreOld") /\ db' = None /\ wal' = {}
    /\ UNCHANGED <<backup, staging, trusted, locks, leases, build, orphans, committed>>

RestoreOld(p) ==
    /\ pc[p] = "restoreOld"
    /\ RenameBackup
    /\ staging' = None
    /\ Goto(p, "open")
    /\ UNCHANGED <<wal, locks, leases, build, committed, faults>>

-----------------------------------------------------------------------------
(* prepareSQLiteDatabase on what the recovery left.                          *)

Refuse(p) ==
    /\ pc[p] = "open"
    /\ \/ db # None /\ db.version > build[p]
       \/ (db # None => db.version < build[p]) /\ Active # {}
    /\ Goto(p, "release")
    /\ UNCHANGED <<files, locks, leases, build, orphans, committed, faults>>

OpenCurrent(p) ==
    /\ pc[p] = "open"
    /\ db # None
    /\ db.version = build[p]
    /\ trusted' = TRUE
    /\ Goto(p, "lease")
    /\ UNCHANGED <<db, backup, staging, wal, locks, leases, build, orphans, committed, faults>>

\* Mutant: the log is not checkpointed before the file is copied.
OpenOldUncheckpointed(p) ==
    /\ pc[p] = "open"
    /\ db # None
    /\ db.version < build[p]
    /\ Active = {}
    /\ Goto(p, "copy")
    /\ UNCHANGED <<db, wal, backup, staging, trusted, locks, leases, build, orphans, committed, faults>>

(* checkpointForMigration, BEGIN EXCLUSIVE, assertNoPendingWal.              *)
OpenOld(p) ==
    /\ pc[p] = "open"
    /\ db # None
    /\ db.version < build[p]
    /\ Active = {}
    /\ db' = [db EXCEPT !.rows = @ \union wal]
    /\ wal' = {}
    /\ Goto(p, "copy")
    /\ UNCHANGED <<backup, staging, trusted, locks, leases, build, orphans, committed, faults>>

OpenNew(p) ==
    /\ pc[p] = "open"
    /\ db = None
    /\ Active = {}
    /\ Goto(p, "migrate")
    /\ UNCHANGED <<files, locks, leases, build, orphans, committed, faults>>

-----------------------------------------------------------------------------
(* migrateOnStagingCopy.                                                     *)

(* COPYFILE_EXCL: a file left in its way makes the copy fail.                *)
CopyToStaging(p) ==
    /\ pc[p] = "copy"
    /\ IF staging = None
       THEN staging' = db /\ Goto(p, "migrate")
       ELSE UNCHANGED staging /\ Goto(p, "restore")
    /\ UNCHANGED <<db, backup, wal, trusted, locks, leases, build, orphans, committed, faults>>

(* migrateSQLiteDatabase; then the source is released and its sidecars go.   *)
Migrate(p) ==
    /\ pc[p] = "migrate"
    /\ staging' = [version |-> build[p], rows |-> IF staging = None THEN {} ELSE staging.rows]
    /\ wal' = {}
    /\ Goto(p, IF db = None THEN "promote" ELSE "retire")
    /\ UNCHANGED <<db, backup, trusted, locks, leases, build, orphans, committed, faults>>

Retire(p) ==
    /\ pc[p] = "retire"
    /\ backup' = db
    /\ db' = None
    /\ trusted' = FALSE
    /\ Detach
    /\ Goto(p, "promote")
    /\ UNCHANGED <<staging, wal, locks, leases, build, committed, faults>>

Promote(p) ==
    /\ pc[p] = "promote"
    /\ staging # None
    /\ db' = staging
    /\ staging' = None
    /\ trusted' = FALSE
    /\ Goto(p, "validate")
    /\ UNCHANGED <<backup, wal, locks, leases, build, orphans, committed, faults>>

\* Mutant: the backup goes as soon as the staged copy has its place.
ValidateLast(p) ==
    /\ pc[p] = "validate"
    /\ backup' = None
    /\ Goto(p, "dropBackup")
    /\ UNCHANGED <<db, staging, wal, trusted, locks, leases, build, orphans, committed, faults>>

(* The promoted file is opened under its name and checked.                   *)
Validate(p) ==
    /\ pc[p] = "validate"
    /\ trusted' = TRUE
    /\ Goto(p, "dropBackup")
    /\ UNCHANGED <<db, backup, staging, wal, locks, leases, build, orphans, committed, faults>>

DropBackup(p) ==
    /\ pc[p] = "dropBackup"
    /\ backup' = None
    /\ Goto(p, "lease")
    /\ UNCHANGED <<db, staging, wal, trusted, locks, leases, build, orphans, committed, faults>>

(* The inner catch after a promotion, then the rename it shares with the     *)
(* outer one.                                                                *)
Rollback(p) ==
    /\ pc[p] = "rollback"
    /\ db' = None
    /\ wal' = {}
    /\ trusted' = FALSE
    /\ Goto(p, "restore")
    /\ UNCHANGED <<backup, staging, locks, leases, build, orphans, committed, faults>>

Restore(p) ==
    /\ pc[p] = "restore"
    /\ staging' = None
    /\ IF backup # None /\ db = None
       THEN RenameBackup
       ELSE UNCHANGED <<db, backup, trusted, orphans>>
    /\ Goto(p, "release")
    /\ UNCHANGED <<wal, locks, leases, build, committed, faults>>

(* A check or a file operation fails: the catch blocks, by what was done.    *)
Caught(place) ==
    CASE place \in {"validate", "dropBackup"} -> "rollback"
      [] place \in {"copy", "migrate", "retire", "promote"} -> "restore"
      [] OTHER -> "release"

Fail(p) ==
    /\ pc[p] \in Guarded \ {"unlock", "release"}
    /\ Fault
    /\ Goto(p, Caught(pc[p]))
    /\ UNCHANGED <<files, locks, leases, build, orphans, committed>>

-----------------------------------------------------------------------------
(* A connection: its lease is taken before the lock is released.             *)

TakeLease(p) ==
    /\ pc[p] = "lease"
    /\ leases' = leases \union {p}
    /\ Goto(p, "unlock")
    /\ UNCHANGED <<files, locks, build, orphans, committed, faults>>

Write(p) ==
    /\ pc[p] = "running"
    /\ \E w \in Writes :
          /\ w = Cardinality(committed) + 1
          /\ committed' = committed \union {w}
          /\ wal' = IF p \in orphans THEN wal ELSE wal \union {w}
    /\ UNCHANGED <<db, backup, staging, trusted, locks, leases, pc, build, orphans, faults>>

(* SQLite moves the log into the file when it likes, and when the last       *)
(* connection closes.                                                        *)
Checkpoint ==
    /\ db # None
    /\ db' = [db EXCEPT !.rows = @ \union wal]
    /\ wal' = {}

AutoCheckpoint(p) ==
    /\ pc[p] = "running"
    /\ p \notin orphans
    /\ Checkpoint
    /\ UNCHANGED <<backup, staging, trusted, locks, leases, pc, build, orphans, committed, faults>>

Close(p) ==
    /\ pc[p] = "running"
    /\ IF leases = {p} /\ p \notin orphans THEN Checkpoint ELSE UNCHANGED <<db, wal>>
    /\ leases' = leases \ {p}
    /\ orphans' = orphans \ {p}
    /\ Goto(p, "idle")
    /\ UNCHANGED <<backup, staging, trusted, locks, build, committed, faults>>

Crash(p) ==
    /\ pc[p] # "idle"
    /\ Fault
    /\ lock' = IF lock = p THEN Dead ELSE lock
    /\ leases' = leases \ {p}
    /\ orphans' = orphans \ {p}
    /\ Goto(p, "idle")
    /\ UNCHANGED <<files, lockWritten, build, committed>>

-----------------------------------------------------------------------------
Lock(p) ==
    CreateLock(p) \/ WriteLock(p) \/ JudgeLock(p) \/ RemoveLock(p) \/ ReleaseLock(p)

Recover(p) ==
    \/ RecoverNothing(p) \/ RecoverBackup(p) \/ RecoverPromoted(p)
    \/ RecoverInvalid(p) \/ RestoreOld(p)

Open(p) == Refuse(p) \/ OpenCurrent(p) \/ OpenOld(p) \/ OpenNew(p)

MigrateOnStagingCopy(p) ==
    \/ CopyToStaging(p) \/ Migrate(p) \/ Retire(p) \/ Promote(p) \/ Validate(p)
    \/ DropBackup(p) \/ Rollback(p) \/ Restore(p)

Prepare(p) == Lock(p) \/ Recover(p) \/ Open(p) \/ MigrateOnStagingCopy(p) \/ TakeLease(p)

Next ==
    \E p \in Processes :
        \/ \E b \in Builds : Start(p, b)
        \/ LockTimesOut(p)
        \/ Prepare(p)
        \/ Fail(p)
        \/ Write(p) \/ AutoCheckpoint(p) \/ Close(p)
        \/ Crash(p)

Spec == Init /\ [][Next]_vars

(* A process that has started goes on; nothing is assumed of starts, writes, *)
(* closes, crashes and failures.                                             *)
FairSpec == Spec /\ \A p \in Processes : WF_vars(Prepare(p))

-----------------------------------------------------------------------------
(* Whatever crashed or failed and whichever builds ran, the file the next    *)
(* start will go by holds every write that was acknowledged: the database    *)
(* with its log, and the backup for as long as there is one, since a start   *)
(* may choose either.                                                        *)
NothingLost ==
    /\ db # None => committed \subseteq db.rows \union wal
    /\ backup # None => committed \subseteq backup.rows
    /\ committed # {} => db # None \/ backup # None

(* While a promoted database is not validated under its name, the original   *)
(* is there to go back to.                                                   *)
OriginalKept == committed # {} /\ ~trusted => backup # None

(* At most one live process is between withMigrationLock's acquisition and   *)
(* its release.                                                              *)
LockExclusive ==
    \A p, q \in Processes :
        pc[p] \in Guarded /\ pc[q] \in Guarded => p = q

(* "A live owner is never displaced": a complete lock file of a live process *)
(* is removed by nobody but its owner.                                       *)
LiveOwnerKept ==
    [][\A p \in Processes :
        lock = p /\ lockWritten /\ lock' # p =>
            \/ lock' = Dead
            \/ pc[p] \in {"unlock", "release"} /\ pc'[p] # pc[p]]_vars

(* A start that meets no newer schema, no live process and no further fault   *)
(* ends with a connection, whatever crash it has to recover from.             *)
Newest(p) == \A b \in Builds : b <= build[p]
OtherAlive(p) == \E q \in Processes \ {p} : pc[q] # "idle"
StartSucceeds ==
    \A p \in Processes :
        pc[p] = "lock" /\ Newest(p) /\ faults = MaxFaults ~> pc[p] = "running" \/ OtherAlive(p)

=============================================================================
