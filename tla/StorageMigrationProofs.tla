------------------------ MODULE StorageMigrationProofs ------------------------
(***************************************************************************)
(* Proofs about StorageMigration, for any number of processes, builds,     *)
(* writes, crashes and failures, when no two processes reclaim one         *)
(* abandoned lock at once (the run storage_reclaim shows what they do).    *)
(***************************************************************************)
EXTENDS StorageMigration, TLAPS

\* The lock file names the live process that is inside the lock, and a record that
\* is being reclaimed is that of a crashed one.
LockInv ==
    /\ \A p \in Processes : lock = p <=> pc[p] \in Guarded \union {"writeLock"}
    /\ \A p \in Processes : pc[p] = "reclaim" => lock = Dead
    /\ \A p, q \in Processes : pc[p] = "reclaim" /\ pc[q] = "reclaim" => p = q

\* A lease is held from its creation to the close; a store that is in use has one
\* file, validated under its name.
LeaseInv ==
    /\ leases = {p \in Processes : pc[p] \in {"unlock", "running"}}
    /\ leases # {} => db # None /\ backup = None /\ trusted
    /\ orphans = {}

\* The places where nobody may hold a lease.
Quiet == {"restoreOld", "copy", "migrate", "retire", "promote", "validate",
          "dropBackup", "rollback", "restore"}

RestorePoint == committed # {} => backup # None

Staged == staging # None /\ committed \subseteq staging.rows

\* What the directory holds when a process is at a place inside the lock.
At(place, b) ==
    CASE place = "restoreOld" -> db = None /\ backup # None
      [] place = "open" ->
            /\ backup # None => db # None /\ db.version > b
            /\ backup = None => staging = None
      [] place = "copy" -> db # None /\ backup = None /\ wal = {}
      [] place = "migrate" ->
            /\ backup = None
            /\ IF db = None THEN staging = None ELSE Staged /\ wal = {}
      [] place = "retire" -> db # None /\ backup = None /\ wal = {} /\ Staged
      [] place = "promote" -> db = None /\ Staged /\ RestorePoint
      [] place = "validate" -> db # None /\ RestorePoint
      [] place = "dropBackup" -> db # None /\ trusted /\ RestorePoint
      [] place = "rollback" -> RestorePoint
      [] place = "lease" -> db # None /\ backup = None /\ trusted
      [] OTHER -> TRUE

PlaceInv ==
    \A p \in Processes :
        /\ At(pc[p], build[p])
        /\ pc[p] \in Quiet => leases = {}

IInv ==
    /\ TypeOK
    /\ LockInv
    /\ LeaseInv
    /\ PlaceInv
    /\ NothingLost
    /\ OriginalKept
    /\ db = None => wal = {}

LEMMA InitIInv == Init => IInv
  <1> SUFFICES ASSUME Init PROVE IInv
    OBVIOUS
  <1> USE StorageConstants
  <1>1. TypeOK
    <2>1. /\ trusted \in BOOLEAN /\ lockWritten \in BOOLEAN
          /\ build \in [Processes -> Builds]
      BY Zenon DEF Init
    <2>2. faults \in 0..MaxFaults
      BY DEF Init
    <2>3. pc \in [Processes -> Places]
      BY DEF Init, Places
    <2> QED
      BY <2>1, <2>2, <2>3 DEF Init, TypeOK
  <1>2. LockInv
    BY DEF Init, LockInv, Guarded
  <1>3. LeaseInv
    BY DEF Init, LeaseInv
  <1>4. PlaceInv
    BY DEF Init, PlaceInv, At, Quiet
  <1>5. NothingLost /\ OriginalKept /\ wal = {}
    BY DEF Init, NothingLost, OriginalKept
  <1> QED
    BY <1>1, <1>2, <1>3, <1>4, <1>5 DEF IInv

-----------------------------------------------------------------------------
\* Only one process is inside the lock: the others are at places where the
\* directory is not their business.
Outside == {"idle", "lock", "reclaim", "running"}

LEMMA OthersOutside ==
  ASSUME IInv, NEW p \in Processes, pc[p] \in Guarded \union {"writeLock"}
  PROVE  \A q \in Processes : q # p => pc[q] \in Outside
  BY DEF IInv, TypeOK, LockInv, Places, Outside

\* A step inside the lock that neither takes nor leaves a lease, up to what the
\* directory holds after it.
LEMMA InsideStep ==
  ASSUME IInv, NEW p \in Processes, NEW place \in Guarded,
         pc[p] \in Guarded \ {"unlock"}, place # "unlock",
         Goto(p, place), UNCHANGED <<locks, leases, build>>
  PROVE  /\ LockInv'
         /\ pc' \in [Processes -> Places]
         /\ leases' = {q \in Processes : pc'[q] \in {"unlock", "running"}}
         /\ At(place, build[p])' /\ (place \in Quiet => leases = {}) => PlaceInv'
  <1>1. \A q \in Processes : q # p => pc[q] \in Outside
    BY OthersOutside
  <1>2. pc' = [pc EXCEPT ![p] = place] /\ pc \in [Processes -> Places]
    BY DEF Goto, IInv, TypeOK
  <1>3. pc' \in [Processes -> Places]
    BY <1>2 DEF Places
  <1>4. LockInv'
    BY <1>2, StorageConstants DEF IInv, LockInv, Guarded, locks
  <1>5. leases' = {q \in Processes : pc'[q] \in {"unlock", "running"}}
    BY <1>2 DEF IInv, LeaseInv, Guarded
  <1>6. ASSUME At(place, build[p])', place \in Quiet => leases = {}
        PROVE  PlaceInv'
    <2> SUFFICES ASSUME NEW q \in Processes
                 PROVE  At(pc[q], build[q])' /\ (pc'[q] \in Quiet => leases' = {})
      BY DEF PlaceInv
    <2>1. CASE q = p
      BY <1>2, <1>6, <2>1
    <2>2. CASE q # p
      BY <1>1, <1>2, <2>2 DEF Outside, Quiet, At
    <2> QED
      BY <2>1, <2>2
  <1> QED
    BY <1>3, <1>4, <1>5, <1>6

-----------------------------------------------------------------------------
(* The lock.                                                                 *)

\* What a step outside the guarded places has to show: the directory is as it was.
LEMMA SameFiles ==
  ASSUME IInv, UNCHANGED <<files, committed>>
  PROVE  NothingLost' /\ OriginalKept' /\ (db' = None => wal' = {})
  BY DEF IInv, NothingLost, OriginalKept, files

\* A process comes to a place that promises nothing; the directory is as it was.
LEMMA SamePlaces ==
  ASSUME IInv, NEW p \in Processes,
         \A q \in Processes : q # p => pc'[q] = pc[q] /\ build'[q] = build[q],
         pc'[p] \in {"idle", "lock", "writeLock", "reclaim", "recover", "running"},
         leases' = leases, UNCHANGED <<files, committed>>
  PROVE  PlaceInv'
  <1> SUFFICES ASSUME NEW q \in Processes
               PROVE  At(pc[q], build[q])' /\ (pc'[q] \in Quiet => leases' = {})
    BY DEF PlaceInv
  <1>1. CASE q = p
    BY <1>1 DEF At, Quiet
  <1>2. CASE q # p
    <2>1. At(pc[q], build[q]) /\ (pc[q] \in Quiet => leases = {})
      BY DEF IInv, PlaceInv
    <2>2. pc'[q] = pc[q] /\ build'[q] = build[q]
      BY <1>2
    <2> QED
      BY <2>1, <2>2 DEF At, RestorePoint, Staged, files
  <1> QED
    BY <1>1, <1>2

LEMMA StartStep ==
  ASSUME IInv, NEW p \in Processes, NEW b \in Builds, Start(p, b)
  PROVE  IInv'
  <1>1. pc' = [pc EXCEPT ![p] = "lock"] /\ build' = [build EXCEPT ![p] = b]
    BY DEF Start, Goto
  <1>2. TypeOK'
    BY <1>1 DEF Start, IInv, TypeOK, Places, files, locks
  <1>3. LockInv'
    BY <1>1 DEF Start, IInv, TypeOK, LockInv, Guarded, locks
  <1>4. LeaseInv'
    BY <1>1 DEF Start, IInv, TypeOK, LeaseInv, files
  <1>5. PlaceInv'
    BY <1>1, SamePlaces DEF Start, IInv, TypeOK, files
  <1> QED
    BY <1>2, <1>3, <1>4, <1>5, SameFiles DEF IInv, Start

LEMMA CreateLockStep ==
  ASSUME IInv, NEW p \in Processes, CreateLock(p)
  PROVE  IInv'
  <1>1. pc' = [pc EXCEPT ![p] = "writeLock"] /\ lock = None /\ lock' = p
    BY DEF CreateLock, Goto
  <1>2. TypeOK'
    BY <1>1 DEF CreateLock, IInv, TypeOK, Places, files
  <1>3. LockInv'
    BY <1>1, StorageConstants DEF CreateLock, IInv, TypeOK, LockInv
  <1>4. LeaseInv'
    BY <1>1 DEF CreateLock, IInv, TypeOK, LeaseInv, files
  <1>5. PlaceInv'
    BY <1>1, SamePlaces DEF CreateLock, IInv, TypeOK, files
  <1> QED
    BY <1>2, <1>3, <1>4, <1>5, SameFiles DEF IInv, CreateLock

LEMMA WriteLockStep ==
  ASSUME IInv, NEW p \in Processes, WriteLock(p)
  PROVE  IInv'
  <1>1. pc' = [pc EXCEPT ![p] = "recover"] /\ pc[p] = "writeLock" /\ lock = p
    BY DEF WriteLock, Goto, IInv, LockInv
  <1>2. TypeOK'
    BY <1>1 DEF WriteLock, IInv, TypeOK, Places, Guarded, files
  <1>3. LockInv'
    BY <1>1 DEF WriteLock, IInv, TypeOK, LockInv, Guarded
  <1>4. LeaseInv'
    BY <1>1 DEF WriteLock, IInv, TypeOK, LeaseInv, files
  <1>5. PlaceInv'
    BY <1>1, SamePlaces DEF WriteLock, IInv, TypeOK, files
  <1> QED
    BY <1>2, <1>3, <1>4, <1>5, SameFiles DEF IInv, WriteLock

\* A lock is judged by one process at a time.
LEMMA JudgeLockStep ==
  ASSUME IInv, ~ConcurrentReclaims, NEW p \in Processes, JudgeLock(p)
  PROVE  IInv'
  <1>1. /\ pc' = [pc EXCEPT ![p] = "reclaim"] /\ pc[p] = "lock" /\ lock = Dead
        /\ \A q \in Processes : pc[q] # "reclaim"
    BY DEF JudgeLock, Goto, Abandoned
  <1>2. TypeOK'
    BY <1>1 DEF JudgeLock, IInv, TypeOK, Places, files, locks
  <1>3. LockInv'
    BY <1>1 DEF JudgeLock, IInv, TypeOK, LockInv, Guarded, locks
  <1>4. LeaseInv'
    BY <1>1 DEF JudgeLock, IInv, TypeOK, LeaseInv, files
  <1>5. PlaceInv'
    BY <1>1, SamePlaces DEF JudgeLock, IInv, TypeOK, files
  <1> QED
    BY <1>2, <1>3, <1>4, <1>5, SameFiles DEF IInv, JudgeLock

LEMMA RemoveLockStep ==
  ASSUME IInv, NEW p \in Processes, RemoveLock(p)
  PROVE  IInv'
  <1>1. /\ pc' = [pc EXCEPT ![p] = "lock"] /\ pc[p] = "reclaim"
        /\ lock = Dead /\ lock' = None
    BY DEF RemoveLock, Goto, IInv, LockInv
  <1>2. TypeOK'
    BY <1>1 DEF RemoveLock, IInv, TypeOK, Places, files
  <1>3. LockInv'
    BY <1>1, StorageConstants DEF IInv, TypeOK, LockInv, Guarded
  <1>4. LeaseInv'
    BY <1>1 DEF RemoveLock, IInv, TypeOK, LeaseInv, files
  <1>5. PlaceInv'
    BY <1>1, SamePlaces DEF RemoveLock, IInv, TypeOK, files
  <1> QED
    BY <1>2, <1>3, <1>4, <1>5, SameFiles DEF IInv, RemoveLock

LEMMA LockTimesOutStep ==
  ASSUME IInv, NEW p \in Processes, LockTimesOut(p)
  PROVE  IInv'
  <1>1. pc' = [pc EXCEPT ![p] = "idle"] /\ pc[p] = "lock"
    BY DEF LockTimesOut, Goto
  <1>2. TypeOK'
    BY <1>1 DEF LockTimesOut, IInv, TypeOK, Places, files, locks
  <1>3. LockInv'
    BY <1>1 DEF LockTimesOut, IInv, TypeOK, LockInv, Guarded, locks
  <1>4. LeaseInv'
    BY <1>1 DEF LockTimesOut, IInv, TypeOK, LeaseInv, files
  <1>5. PlaceInv'
    BY <1>1, SamePlaces DEF LockTimesOut, IInv, TypeOK, files
  <1> QED
    BY <1>2, <1>3, <1>4, <1>5, SameFiles DEF IInv, LockTimesOut

LEMMA ReleaseLockStep ==
  ASSUME IInv, NEW p \in Processes, ReleaseLock(p)
  PROVE  IInv'
  <1>1. lock = p /\ lock' = None /\ lockWritten' = FALSE
    BY DEF ReleaseLock, IInv, LockInv, Guarded
  <1>2. pc' = [pc EXCEPT ![p] = IF pc[p] = "unlock" THEN "running" ELSE "idle"]
    BY DEF ReleaseLock, Goto
  <1>3. TypeOK'
    BY <1>1, <1>2 DEF ReleaseLock, IInv, TypeOK, Places, files
  <1>4. LockInv'
    BY <1>1, <1>2, StorageConstants DEF ReleaseLock, IInv, TypeOK, LockInv, Guarded
  <1>5. LeaseInv'
    BY <1>2 DEF ReleaseLock, IInv, TypeOK, LeaseInv, files
  <1>6. PlaceInv'
    BY <1>2, SamePlaces DEF ReleaseLock, IInv, TypeOK, files
  <1> QED
    BY <1>3, <1>4, <1>5, <1>6, SameFiles DEF IInv, ReleaseLock

-----------------------------------------------------------------------------
(* Inside the lock.                                                          *)

LEMMA RecoverNothingStep ==
  ASSUME IInv, NEW p \in Processes, RecoverNothing(p)
  PROVE  IInv'
  <1> USE NoneIsNoFile DEF At, Quiet
  <1>1. /\ pc[p] = "recover" /\ "recover" \in Guarded \ {"unlock"} /\ "open" \in Guarded \ {"unlock"}
        /\ Goto(p, "open") /\ UNCHANGED <<locks, leases, build>>
        /\ At("recover", build[p]) /\ ("recover" \in Quiet => leases = {})
    BY DEF RecoverNothing, IInv, PlaceInv, Guarded, InspectPromoted
  <1>2. /\ LockInv' /\ pc' \in [Processes -> Places]
        /\ leases' = {q \in Processes : pc'[q] \in {"unlock", "running"}}
        /\ At("open", build[p])' /\ ("open" \in Quiet => leases = {}) => PlaceInv'
    BY <1>1, InsideStep
  <1>3. TypeOK'
    BY <1>1, <1>2 DEF RecoverNothing, IInv, TypeOK, File, files, locks, InspectPromoted
  <1>4. NothingLost' /\ OriginalKept' /\ (db' = None => wal' = {})
    BY <1>1 DEF RecoverNothing, IInv, TypeOK, LeaseInv, NothingLost, OriginalKept, RestorePoint, Staged, File, files, InspectPromoted
  <1>5. LeaseInv'
    BY <1>1, <1>2 DEF RecoverNothing, IInv, TypeOK, LeaseInv, files, InspectPromoted
  <1>6. At("open", build[p])' /\ ("open" \in Quiet => leases = {})
    BY <1>1 DEF RecoverNothing, IInv, TypeOK, LeaseInv, NothingLost, RestorePoint, Staged, File, files, InspectPromoted
  <1> QED
    BY <1>2, <1>3, <1>4, <1>5, <1>6 DEF IInv

LEMMA RecoverBackupStep ==
  ASSUME IInv, NEW p \in Processes, RecoverBackup(p)
  PROVE  IInv'
  <1> USE NoneIsNoFile DEF At, Quiet
  <1>1. /\ pc[p] = "recover" /\ "recover" \in Guarded \ {"unlock"} /\ "open" \in Guarded \ {"unlock"}
        /\ Goto(p, "open") /\ UNCHANGED <<locks, leases, build>>
        /\ At("recover", build[p]) /\ ("recover" \in Quiet => leases = {})
    BY DEF RecoverBackup, IInv, PlaceInv, Guarded, RenameBackup, Detach
  <1>2. /\ LockInv' /\ pc' \in [Processes -> Places]
        /\ leases' = {q \in Processes : pc'[q] \in {"unlock", "running"}}
        /\ At("open", build[p])' /\ ("open" \in Quiet => leases = {}) => PlaceInv'
    BY <1>1, InsideStep
  <1>3. TypeOK'
    BY <1>1, <1>2 DEF RecoverBackup, IInv, TypeOK, File, files, locks, RenameBackup, Detach
  <1>4. NothingLost' /\ OriginalKept' /\ (db' = None => wal' = {})
    BY <1>1 DEF RecoverBackup, IInv, TypeOK, LeaseInv, NothingLost, OriginalKept, RestorePoint, Staged, File, files, RenameBackup, Detach
  <1>5. LeaseInv'
    BY <1>1, <1>2 DEF RecoverBackup, IInv, TypeOK, LeaseInv, files, RenameBackup, Detach
  <1>6. At("open", build[p])' /\ ("open" \in Quiet => leases = {})
    BY <1>1 DEF RecoverBackup, IInv, TypeOK, LeaseInv, NothingLost, RestorePoint, Staged, File, files, RenameBackup, Detach
  <1> QED
    BY <1>2, <1>3, <1>4, <1>5, <1>6 DEF IInv

LEMMA RecoverPromotedStep ==
  ASSUME IInv, NEW p \in Processes, RecoverPromoted(p)
  PROVE  IInv'
  <1> USE NoneIsNoFile DEF At, Quiet
  <1>1. /\ pc[p] = "recover" /\ "recover" \in Guarded \ {"unlock"} /\ "open" \in Guarded \ {"unlock"}
        /\ Goto(p, "open") /\ UNCHANGED <<locks, leases, build>>
        /\ At("recover", build[p]) /\ ("recover" \in Quiet => leases = {})
    BY DEF RecoverPromoted, IInv, PlaceInv, Guarded, InspectPromoted
  <1>2. /\ LockInv' /\ pc' \in [Processes -> Places]
        /\ leases' = {q \in Processes : pc'[q] \in {"unlock", "running"}}
        /\ At("open", build[p])' /\ ("open" \in Quiet => leases = {}) => PlaceInv'
    BY <1>1, InsideStep
  <1>3. TypeOK'
    BY <1>1, <1>2 DEF RecoverPromoted, IInv, TypeOK, File, files, locks, InspectPromoted
  <1>4. NothingLost' /\ OriginalKept' /\ (db' = None => wal' = {})
    BY <1>1 DEF RecoverPromoted, IInv, TypeOK, LeaseInv, NothingLost, OriginalKept, RestorePoint, Staged, File, files, InspectPromoted
  <1>5. LeaseInv'
    BY <1>1, <1>2 DEF RecoverPromoted, IInv, TypeOK, LeaseInv, files, InspectPromoted
  <1>6. At("open", build[p])' /\ ("open" \in Quiet => leases = {})
    BY <1>1 DEF RecoverPromoted, IInv, TypeOK, LeaseInv, NothingLost, RestorePoint, Staged, File, files, InspectPromoted
  <1> QED
    BY <1>2, <1>3, <1>4, <1>5, <1>6 DEF IInv

LEMMA RestoreOldStep ==
  ASSUME IInv, NEW p \in Processes, RestoreOld(p)
  PROVE  IInv'
  <1> USE NoneIsNoFile DEF At, Quiet
  <1>1. /\ pc[p] = "restoreOld" /\ "restoreOld" \in Guarded \ {"unlock"} /\ "open" \in Guarded \ {"unlock"}
        /\ Goto(p, "open") /\ UNCHANGED <<locks, leases, build>>
        /\ At("restoreOld", build[p]) /\ ("restoreOld" \in Quiet => leases = {})
    BY DEF RestoreOld, IInv, PlaceInv, Guarded, RenameBackup, Detach
  <1>2. /\ LockInv' /\ pc' \in [Processes -> Places]
        /\ leases' = {q \in Processes : pc'[q] \in {"unlock", "running"}}
        /\ At("open", build[p])' /\ ("open" \in Quiet => leases = {}) => PlaceInv'
    BY <1>1, InsideStep
  <1>3. TypeOK'
    BY <1>1, <1>2 DEF RestoreOld, IInv, TypeOK, File, files, locks, RenameBackup, Detach
  <1>4. NothingLost' /\ OriginalKept' /\ (db' = None => wal' = {})
    BY <1>1 DEF RestoreOld, IInv, TypeOK, LeaseInv, NothingLost, OriginalKept, RestorePoint, Staged, File, files, RenameBackup, Detach
  <1>5. LeaseInv'
    BY <1>1, <1>2 DEF RestoreOld, IInv, TypeOK, LeaseInv, files, RenameBackup, Detach
  <1>6. At("open", build[p])' /\ ("open" \in Quiet => leases = {})
    BY <1>1 DEF RestoreOld, IInv, TypeOK, LeaseInv, NothingLost, RestorePoint, Staged, File, files, RenameBackup, Detach
  <1> QED
    BY <1>2, <1>3, <1>4, <1>5, <1>6 DEF IInv

LEMMA RefuseStep ==
  ASSUME IInv, NEW p \in Processes, Refuse(p)
  PROVE  IInv'
  <1> USE NoneIsNoFile DEF At, Quiet
  <1>1. /\ pc[p] = "open" /\ "open" \in Guarded \ {"unlock"} /\ "release" \in Guarded \ {"unlock"}
        /\ Goto(p, "release") /\ UNCHANGED <<locks, leases, build>>
        /\ At("open", build[p]) /\ ("open" \in Quiet => leases = {})
    BY DEF Refuse, IInv, PlaceInv, Guarded
  <1>2. /\ LockInv' /\ pc' \in [Processes -> Places]
        /\ leases' = {q \in Processes : pc'[q] \in {"unlock", "running"}}
        /\ At("release", build[p])' /\ ("release" \in Quiet => leases = {}) => PlaceInv'
    BY <1>1, InsideStep
  <1>3. TypeOK'
    BY <1>1, <1>2 DEF Refuse, IInv, TypeOK, File, files, locks
  <1>4. NothingLost' /\ OriginalKept' /\ (db' = None => wal' = {})
    BY <1>1 DEF Refuse, IInv, TypeOK, LeaseInv, NothingLost, OriginalKept, RestorePoint, Staged, File, files
  <1>5. LeaseInv'
    BY <1>1, <1>2 DEF Refuse, IInv, TypeOK, LeaseInv, files
  <1>6. At("release", build[p])' /\ ("release" \in Quiet => leases = {})
    BY <1>1 DEF Refuse, IInv, TypeOK, LeaseInv, NothingLost, RestorePoint, Staged, File, files
  <1> QED
    BY <1>2, <1>3, <1>4, <1>5, <1>6 DEF IInv

LEMMA OpenCurrentStep ==
  ASSUME IInv, NEW p \in Processes, OpenCurrent(p)
  PROVE  IInv'
  <1> USE NoneIsNoFile DEF At, Quiet
  <1>1. /\ pc[p] = "open" /\ "open" \in Guarded \ {"unlock"} /\ "lease" \in Guarded \ {"unlock"}
        /\ Goto(p, "lease") /\ UNCHANGED <<locks, leases, build>>
        /\ At("open", build[p]) /\ ("open" \in Quiet => leases = {})
    BY DEF OpenCurrent, IInv, PlaceInv, Guarded
  <1>2. /\ LockInv' /\ pc' \in [Processes -> Places]
        /\ leases' = {q \in Processes : pc'[q] \in {"unlock", "running"}}
        /\ At("lease", build[p])' /\ ("lease" \in Quiet => leases = {}) => PlaceInv'
    BY <1>1, InsideStep
  <1>3. TypeOK'
    BY <1>1, <1>2 DEF OpenCurrent, IInv, TypeOK, File, files, locks
  <1>4. NothingLost' /\ OriginalKept' /\ (db' = None => wal' = {})
    BY <1>1 DEF OpenCurrent, IInv, TypeOK, LeaseInv, NothingLost, OriginalKept, RestorePoint, Staged, File, files
  <1>5. LeaseInv'
    BY <1>1, <1>2 DEF OpenCurrent, IInv, TypeOK, LeaseInv, files
  <1>6. At("lease", build[p])' /\ ("lease" \in Quiet => leases = {})
    BY <1>1, StorageConstants DEF OpenCurrent, IInv, TypeOK, LeaseInv, NothingLost, RestorePoint, Staged, File, files
  <1> QED
    BY <1>2, <1>3, <1>4, <1>5, <1>6 DEF IInv

LEMMA OpenOldStep ==
  ASSUME IInv, NEW p \in Processes, OpenOld(p)
  PROVE  IInv'
  <1> USE NoneIsNoFile DEF At, Quiet
  <1>1. /\ pc[p] = "open" /\ "open" \in Guarded \ {"unlock"} /\ "copy" \in Guarded \ {"unlock"}
        /\ Goto(p, "copy") /\ UNCHANGED <<locks, leases, build>>
        /\ At("open", build[p]) /\ ("open" \in Quiet => leases = {})
    BY DEF OpenOld, IInv, PlaceInv, Guarded, Active
  <1>2. /\ LockInv' /\ pc' \in [Processes -> Places]
        /\ leases' = {q \in Processes : pc'[q] \in {"unlock", "running"}}
        /\ At("copy", build[p])' /\ ("copy" \in Quiet => leases = {}) => PlaceInv'
    BY <1>1, InsideStep
  <1>3. TypeOK'
    BY <1>1, <1>2 DEF OpenOld, IInv, TypeOK, File, files, locks, Active
  <1>4. NothingLost' /\ OriginalKept' /\ (db' = None => wal' = {})
    BY <1>1 DEF OpenOld, IInv, TypeOK, LeaseInv, NothingLost, OriginalKept, RestorePoint, Staged, File, files, Active
  <1>5. LeaseInv'
    BY <1>1, <1>2 DEF OpenOld, IInv, TypeOK, LeaseInv, files, Active
  <1>6. At("copy", build[p])' /\ ("copy" \in Quiet => leases = {})
    BY <1>1, StorageConstants DEF OpenOld, IInv, TypeOK, LeaseInv, NothingLost, RestorePoint, Staged, File, files, Active
  <1> QED
    BY <1>2, <1>3, <1>4, <1>5, <1>6 DEF IInv

LEMMA OpenNewStep ==
  ASSUME IInv, NEW p \in Processes, OpenNew(p)
  PROVE  IInv'
  <1> USE NoneIsNoFile DEF At, Quiet
  <1>1. /\ pc[p] = "open" /\ "open" \in Guarded \ {"unlock"} /\ "migrate" \in Guarded \ {"unlock"}
        /\ Goto(p, "migrate") /\ UNCHANGED <<locks, leases, build>>
        /\ At("open", build[p]) /\ ("open" \in Quiet => leases = {})
    BY DEF OpenNew, IInv, PlaceInv, Guarded, Active
  <1>2. /\ LockInv' /\ pc' \in [Processes -> Places]
        /\ leases' = {q \in Processes : pc'[q] \in {"unlock", "running"}}
        /\ At("migrate", build[p])' /\ ("migrate" \in Quiet => leases = {}) => PlaceInv'
    BY <1>1, InsideStep
  <1>3. TypeOK'
    BY <1>1, <1>2 DEF OpenNew, IInv, TypeOK, File, files, locks, Active
  <1>4. NothingLost' /\ OriginalKept' /\ (db' = None => wal' = {})
    BY <1>1 DEF OpenNew, IInv, TypeOK, LeaseInv, NothingLost, OriginalKept, RestorePoint, Staged, File, files, Active
  <1>5. LeaseInv'
    BY <1>1, <1>2 DEF OpenNew, IInv, TypeOK, LeaseInv, files, Active
  <1>6. At("migrate", build[p])' /\ ("migrate" \in Quiet => leases = {})
    BY <1>1 DEF OpenNew, IInv, TypeOK, LeaseInv, NothingLost, RestorePoint, Staged, File, files, Active
  <1> QED
    BY <1>2, <1>3, <1>4, <1>5, <1>6 DEF IInv

LEMMA RetireStep ==
  ASSUME IInv, NEW p \in Processes, Retire(p)
  PROVE  IInv'
  <1> USE NoneIsNoFile DEF At, Quiet
  <1>1. /\ pc[p] = "retire" /\ "retire" \in Guarded \ {"unlock"} /\ "promote" \in Guarded \ {"unlock"}
        /\ Goto(p, "promote") /\ UNCHANGED <<locks, leases, build>>
        /\ At("retire", build[p]) /\ ("retire" \in Quiet => leases = {})
    BY DEF Retire, IInv, PlaceInv, Guarded, Detach
  <1>2. /\ LockInv' /\ pc' \in [Processes -> Places]
        /\ leases' = {q \in Processes : pc'[q] \in {"unlock", "running"}}
        /\ At("promote", build[p])' /\ ("promote" \in Quiet => leases = {}) => PlaceInv'
    BY <1>1, InsideStep
  <1>3. TypeOK'
    BY <1>1, <1>2 DEF Retire, IInv, TypeOK, File, files, locks, Detach
  <1>4. NothingLost' /\ OriginalKept' /\ (db' = None => wal' = {})
    BY <1>1 DEF Retire, IInv, TypeOK, LeaseInv, NothingLost, OriginalKept, RestorePoint, Staged, File, files, Detach
  <1>5. LeaseInv'
    BY <1>1, <1>2 DEF Retire, IInv, TypeOK, LeaseInv, files, Detach
  <1>6. At("promote", build[p])' /\ ("promote" \in Quiet => leases = {})
    BY <1>1 DEF Retire, IInv, TypeOK, LeaseInv, NothingLost, RestorePoint, Staged, File, files, Detach
  <1> QED
    BY <1>2, <1>3, <1>4, <1>5, <1>6 DEF IInv

LEMMA PromoteStep ==
  ASSUME IInv, NEW p \in Processes, Promote(p)
  PROVE  IInv'
  <1> USE NoneIsNoFile DEF At, Quiet
  <1>1. /\ pc[p] = "promote" /\ "promote" \in Guarded \ {"unlock"} /\ "validate" \in Guarded \ {"unlock"}
        /\ Goto(p, "validate") /\ UNCHANGED <<locks, leases, build>>
        /\ At("promote", build[p]) /\ ("promote" \in Quiet => leases = {})
    BY DEF Promote, IInv, PlaceInv, Guarded
  <1>2. /\ LockInv' /\ pc' \in [Processes -> Places]
        /\ leases' = {q \in Processes : pc'[q] \in {"unlock", "running"}}
        /\ At("validate", build[p])' /\ ("validate" \in Quiet => leases = {}) => PlaceInv'
    BY <1>1, InsideStep
  <1>3. TypeOK'
    BY <1>1, <1>2 DEF Promote, IInv, TypeOK, File, files, locks
  <1>4. NothingLost' /\ OriginalKept' /\ (db' = None => wal' = {})
    BY <1>1 DEF Promote, IInv, TypeOK, LeaseInv, NothingLost, OriginalKept, RestorePoint, Staged, File, files
  <1>5. LeaseInv'
    BY <1>1, <1>2 DEF Promote, IInv, TypeOK, LeaseInv, files
  <1>6. At("validate", build[p])' /\ ("validate" \in Quiet => leases = {})
    BY <1>1 DEF Promote, IInv, TypeOK, LeaseInv, NothingLost, RestorePoint, Staged, File, files
  <1> QED
    BY <1>2, <1>3, <1>4, <1>5, <1>6 DEF IInv

LEMMA ValidateStep ==
  ASSUME IInv, NEW p \in Processes, Validate(p)
  PROVE  IInv'
  <1> USE NoneIsNoFile DEF At, Quiet
  <1>1. /\ pc[p] = "validate" /\ "validate" \in Guarded \ {"unlock"} /\ "dropBackup" \in Guarded \ {"unlock"}
        /\ Goto(p, "dropBackup") /\ UNCHANGED <<locks, leases, build>>
        /\ At("validate", build[p]) /\ ("validate" \in Quiet => leases = {})
    BY DEF Validate, IInv, PlaceInv, Guarded
  <1>2. /\ LockInv' /\ pc' \in [Processes -> Places]
        /\ leases' = {q \in Processes : pc'[q] \in {"unlock", "running"}}
        /\ At("dropBackup", build[p])' /\ ("dropBackup" \in Quiet => leases = {}) => PlaceInv'
    BY <1>1, InsideStep
  <1>3. TypeOK'
    BY <1>1, <1>2 DEF Validate, IInv, TypeOK, File, files, locks
  <1>4. NothingLost' /\ OriginalKept' /\ (db' = None => wal' = {})
    BY <1>1 DEF Validate, IInv, TypeOK, LeaseInv, NothingLost, OriginalKept, RestorePoint, Staged, File, files
  <1>5. LeaseInv'
    BY <1>1, <1>2 DEF Validate, IInv, TypeOK, LeaseInv, files
  <1>6. At("dropBackup", build[p])' /\ ("dropBackup" \in Quiet => leases = {})
    BY <1>1 DEF Validate, IInv, TypeOK, LeaseInv, NothingLost, RestorePoint, Staged, File, files
  <1> QED
    BY <1>2, <1>3, <1>4, <1>5, <1>6 DEF IInv

LEMMA DropBackupStep ==
  ASSUME IInv, NEW p \in Processes, DropBackup(p)
  PROVE  IInv'
  <1> USE NoneIsNoFile DEF At, Quiet
  <1>1. /\ pc[p] = "dropBackup" /\ "dropBackup" \in Guarded \ {"unlock"} /\ "lease" \in Guarded \ {"unlock"}
        /\ Goto(p, "lease") /\ UNCHANGED <<locks, leases, build>>
        /\ At("dropBackup", build[p]) /\ ("dropBackup" \in Quiet => leases = {})
    BY DEF DropBackup, IInv, PlaceInv, Guarded
  <1>2. /\ LockInv' /\ pc' \in [Processes -> Places]
        /\ leases' = {q \in Processes : pc'[q] \in {"unlock", "running"}}
        /\ At("lease", build[p])' /\ ("lease" \in Quiet => leases = {}) => PlaceInv'
    BY <1>1, InsideStep
  <1>3. TypeOK'
    BY <1>1, <1>2 DEF DropBackup, IInv, TypeOK, File, files, locks
  <1>4. NothingLost' /\ OriginalKept' /\ (db' = None => wal' = {})
    BY <1>1 DEF DropBackup, IInv, TypeOK, LeaseInv, NothingLost, OriginalKept, RestorePoint, Staged, File, files
  <1>5. LeaseInv'
    BY <1>1, <1>2 DEF DropBackup, IInv, TypeOK, LeaseInv, files
  <1>6. At("lease", build[p])' /\ ("lease" \in Quiet => leases = {})
    BY <1>1 DEF DropBackup, IInv, TypeOK, LeaseInv, NothingLost, RestorePoint, Staged, File, files
  <1> QED
    BY <1>2, <1>3, <1>4, <1>5, <1>6 DEF IInv

LEMMA RollbackStep ==
  ASSUME IInv, NEW p \in Processes, Rollback(p)
  PROVE  IInv'
  <1> USE NoneIsNoFile DEF At, Quiet
  <1>1. /\ pc[p] = "rollback" /\ "rollback" \in Guarded \ {"unlock"} /\ "restore" \in Guarded \ {"unlock"}
        /\ Goto(p, "restore") /\ UNCHANGED <<locks, leases, build>>
        /\ At("rollback", build[p]) /\ ("rollback" \in Quiet => leases = {})
    BY DEF Rollback, IInv, PlaceInv, Guarded
  <1>2. /\ LockInv' /\ pc' \in [Processes -> Places]
        /\ leases' = {q \in Processes : pc'[q] \in {"unlock", "running"}}
        /\ At("restore", build[p])' /\ ("restore" \in Quiet => leases = {}) => PlaceInv'
    BY <1>1, InsideStep
  <1>3. TypeOK'
    BY <1>1, <1>2 DEF Rollback, IInv, TypeOK, File, files, locks
  <1>4. NothingLost' /\ OriginalKept' /\ (db' = None => wal' = {})
    BY <1>1 DEF Rollback, IInv, TypeOK, LeaseInv, NothingLost, OriginalKept, RestorePoint, Staged, File, files
  <1>5. LeaseInv'
    BY <1>1, <1>2 DEF Rollback, IInv, TypeOK, LeaseInv, files
  <1>6. At("restore", build[p])' /\ ("restore" \in Quiet => leases = {})
    BY <1>1 DEF Rollback, IInv, TypeOK, LeaseInv, NothingLost, RestorePoint, Staged, File, files
  <1> QED
    BY <1>2, <1>3, <1>4, <1>5, <1>6 DEF IInv

LEMMA RestoreStep ==
  ASSUME IInv, NEW p \in Processes, Restore(p)
  PROVE  IInv'
  <1> USE NoneIsNoFile DEF At, Quiet
  <1>1. /\ pc[p] = "restore" /\ "restore" \in Guarded \ {"unlock"} /\ "release" \in Guarded \ {"unlock"}
        /\ Goto(p, "release") /\ UNCHANGED <<locks, leases, build>>
        /\ At("restore", build[p]) /\ ("restore" \in Quiet => leases = {})
    BY DEF Restore, IInv, PlaceInv, Guarded, RenameBackup, Detach
  <1>2. /\ LockInv' /\ pc' \in [Processes -> Places]
        /\ leases' = {q \in Processes : pc'[q] \in {"unlock", "running"}}
        /\ At("release", build[p])' /\ ("release" \in Quiet => leases = {}) => PlaceInv'
    BY <1>1, InsideStep
  <1>3. TypeOK'
    BY <1>1, <1>2 DEF Restore, IInv, TypeOK, File, files, locks, RenameBackup, Detach
  <1>4. NothingLost' /\ OriginalKept' /\ (db' = None => wal' = {})
    BY <1>1 DEF Restore, IInv, TypeOK, LeaseInv, NothingLost, OriginalKept, RestorePoint, Staged, File, files, RenameBackup, Detach
  <1>5. LeaseInv'
    BY <1>1, <1>2 DEF Restore, IInv, TypeOK, LeaseInv, files, RenameBackup, Detach
  <1>6. At("release", build[p])' /\ ("release" \in Quiet => leases = {})
    BY <1>1 DEF Restore, IInv, TypeOK, LeaseInv, NothingLost, RestorePoint, Staged, File, files, RenameBackup, Detach
  <1> QED
    BY <1>2, <1>3, <1>4, <1>5, <1>6 DEF IInv

\* Two places follow these, by what the step finds.
LEMMA RecoverInvalidStep ==
  ASSUME IInv, NEW p \in Processes, RecoverInvalid(p)
  PROVE  IInv'
  <1> USE NoneIsNoFile DEF At, Quiet
  <1>1. /\ pc[p] = "recover" /\ "recover" \in Guarded \ {"unlock"}
        /\ UNCHANGED <<locks, leases, build, backup, staging, trusted, orphans, committed>>
        /\ backup # None /\ db # None
    BY DEF RecoverInvalid, Guarded
  <1>2. faults' \in 0..MaxFaults
    BY StorageConstants DEF RecoverInvalid, Fault, IInv, TypeOK
  <1>3. leases = {}
    BY <1>1 DEF IInv, LeaseInv
  <1>4. Goto(p, "restoreOld") /\ db' = None /\ wal' = {}
    BY <1>3 DEF RecoverInvalid, Active
  <1>5. /\ LockInv' /\ pc' \in [Processes -> Places]
        /\ leases' = {q \in Processes : pc'[q] \in {"unlock", "running"}}
        /\ PlaceInv'
    <2>1. "restoreOld" \in Guarded
      BY DEF Guarded
    <2> QED
      BY <1>1, <1>3, <1>4, <2>1, InsideStep
  <1>6. TypeOK'
    BY <1>1, <1>2, <1>4, <1>5 DEF IInv, TypeOK, locks
  <1>7. NothingLost' /\ OriginalKept' /\ LeaseInv'
    BY <1>1, <1>3, <1>4, <1>5 DEF IInv, LeaseInv, NothingLost, OriginalKept
  <1> QED
    BY <1>4, <1>5, <1>6, <1>7 DEF IInv

LEMMA CopyToStagingStep ==
  ASSUME IInv, NEW p \in Processes, CopyToStaging(p)
  PROVE  IInv'
  <1> USE NoneIsNoFile DEF At, Quiet
  <1>1. /\ pc[p] = "copy" /\ "copy" \in Guarded \ {"unlock"}
        /\ UNCHANGED <<db, backup, wal, trusted, locks, leases, build, orphans, committed, faults>>
        /\ db # None /\ backup = None /\ wal = {} /\ leases = {}
    BY DEF CopyToStaging, Guarded, IInv, PlaceInv
  <1> PICK place \in Guarded \ {"unlock"} :
          place = IF staging = None THEN "migrate" ELSE "restore"
    BY DEF Guarded
  <1>2. Goto(p, place) /\ staging' \in {staging, db}
        /\ (staging = None => staging' = db)
    BY DEF CopyToStaging
  <1>3. /\ LockInv' /\ pc' \in [Processes -> Places]
        /\ leases' = {q \in Processes : pc'[q] \in {"unlock", "running"}}
        /\ At(place, build[p])' /\ (place \in Quiet => leases = {}) => PlaceInv'
    BY <1>1, <1>2, InsideStep
  <1>4. At(place, build[p])'
    <2>1. CASE staging = None
      BY <1>1, <1>2, <2>1 DEF IInv, NothingLost, Staged
    <2>2. CASE staging # None
      BY <2>2
    <2> QED
      BY <2>1, <2>2
  <1>5. TypeOK'
    BY <1>1, <1>2, <1>3 DEF IInv, TypeOK, locks
  <1>6. NothingLost' /\ OriginalKept' /\ LeaseInv' /\ (db' = None => wal' = {})
    BY <1>1, <1>2, <1>3 DEF IInv, LeaseInv, NothingLost, OriginalKept
  <1> QED
    BY <1>1, <1>3, <1>4, <1>5, <1>6 DEF IInv

LEMMA MigrateStep ==
  ASSUME IInv, NEW p \in Processes, Migrate(p)
  PROVE  IInv'
  <1> USE NoneIsNoFile DEF At, Quiet
  <1>1. /\ pc[p] = "migrate" /\ "migrate" \in Guarded \ {"unlock"}
        /\ UNCHANGED <<db, backup, trusted, locks, leases, build, orphans, committed, faults>>
        /\ At("migrate", build[p]) /\ leases = {}
    BY DEF Migrate, Guarded, IInv, PlaceInv
  <1> PICK place \in Guarded \ {"unlock"} :
          place = IF db = None THEN "promote" ELSE "retire"
    BY DEF Guarded
  <1>2. /\ Goto(p, place) /\ wal' = {}
        /\ staging' = [version |-> build[p], rows |-> IF staging = None THEN {} ELSE staging.rows]
    BY DEF Migrate
  <1>3. staging' \in File /\ staging' # None /\ committed \subseteq staging'.rows
    <2>1. build[p] \in Builds
      BY DEF IInv, TypeOK
    <2>2. staging' \in File
      BY <1>2, <2>1 DEF IInv, TypeOK, File
    <2>3. CASE staging = None
      BY <1>1, <1>2, <2>2, <2>3 DEF IInv, NothingLost, Staged
    <2>4. CASE staging # None
      BY <1>1, <1>2, <2>2, <2>4 DEF Staged
    <2> QED
      BY <2>2, <2>3, <2>4
  <1>4. /\ LockInv' /\ pc' \in [Processes -> Places]
        /\ leases' = {q \in Processes : pc'[q] \in {"unlock", "running"}}
        /\ At(place, build[p])' /\ (place \in Quiet => leases = {}) => PlaceInv'
    BY <1>1, <1>2, InsideStep
  <1>5. At(place, build[p])'
    BY <1>1, <1>2, <1>3 DEF IInv, NothingLost, Staged, RestorePoint
  <1>6. TypeOK'
    BY <1>1, <1>2, <1>3, <1>4 DEF IInv, TypeOK, locks
  <1>7. NothingLost' /\ OriginalKept' /\ LeaseInv'
    BY <1>1, <1>2, <1>4 DEF IInv, LeaseInv, NothingLost, OriginalKept, Staged
  <1> QED
    BY <1>1, <1>2, <1>4, <1>5, <1>6, <1>7 DEF IInv

\* A failure at any place leaves the directory to the catch block of that place.
LEMMA FailStep ==
  ASSUME IInv, NEW p \in Processes, Fail(p)
  PROVE  IInv'
  <1> PICK place \in Guarded \ {"unlock"} : place = Caught(pc[p])
    BY DEF Caught, Guarded
  <1>1. /\ pc[p] \in Guarded \ {"unlock"} /\ Goto(p, place)
        /\ UNCHANGED <<files, locks, leases, build, orphans, committed>>
    BY DEF Fail
  <1>2. faults' \in 0..MaxFaults
    BY StorageConstants DEF Fail, Fault, IInv, TypeOK
  <1>3. At(place, build[p])' /\ (place \in Quiet => leases = {})
    <2>1. At(pc[p], build[p]) /\ (pc[p] \in Quiet => leases = {})
      BY DEF IInv, PlaceInv
    <2>2. CASE pc[p] \in {"validate", "dropBackup"}
      BY <1>1, <2>1, <2>2 DEF Caught, At, Quiet, RestorePoint, files
    <2>3. CASE pc[p] \in {"copy", "migrate", "retire", "promote"}
      BY <1>1, <2>1, <2>3 DEF Caught, At, Quiet
    <2>4. CASE pc[p] \notin {"validate", "dropBackup", "copy", "migrate", "retire", "promote"}
      BY <1>1, <2>1, <2>4 DEF Caught, At, Quiet
    <2> QED
      BY <2>2, <2>3, <2>4
  <1>4. /\ LockInv' /\ pc' \in [Processes -> Places]
        /\ leases' = {q \in Processes : pc'[q] \in {"unlock", "running"}}
        /\ PlaceInv'
    BY <1>1, <1>3, InsideStep
  <1>5. TypeOK' /\ LeaseInv'
    BY <1>1, <1>2, <1>4 DEF IInv, TypeOK, LeaseInv, files, locks
  <1> QED
    BY <1>1, <1>4, <1>5, SameFiles DEF IInv

-----------------------------------------------------------------------------
(* The connections.                                                          *)

LEMMA TakeLeaseStep ==
  ASSUME IInv, NEW p \in Processes, TakeLease(p)
  PROVE  IInv'
  <1>1. /\ pc[p] = "lease" /\ pc' = [pc EXCEPT ![p] = "unlock"]
        /\ leases' = leases \union {p}
        /\ UNCHANGED <<files, locks, build, orphans, committed, faults>>
    BY DEF TakeLease, Goto
  <1>2. At("lease", build[p])
    BY <1>1 DEF IInv, PlaceInv
  <1>3. \A q \in Processes : q # p => pc[q] \in Outside
    BY <1>1, OthersOutside DEF Guarded
  <1>4. TypeOK'
    BY <1>1 DEF IInv, TypeOK, Places, Guarded, files, locks
  <1>5. LockInv'
    BY <1>1 DEF IInv, TypeOK, LockInv, Guarded, locks
  <1>6. LeaseInv'
    BY <1>1, <1>2 DEF IInv, TypeOK, LeaseInv, At, files
  <1>7. PlaceInv'
    <2> SUFFICES ASSUME NEW q \in Processes
                 PROVE  At(pc[q], build[q])' /\ (pc'[q] \in Quiet => leases' = {})
      BY DEF PlaceInv
    <2>1. pc'[q] \in Outside \union {"unlock"}
      BY <1>1, <1>3 DEF IInv, TypeOK
    <2> QED
      BY <2>1 DEF Outside, At, Quiet
  <1> QED
    BY <1>1, <1>4, <1>5, <1>6, <1>7, SameFiles DEF IInv

\* While somebody is connected nobody is at a place that needs the store to itself.
LEMMA WriteStep ==
  ASSUME IInv, NEW p \in Processes, Write(p)
  PROVE  IInv'
  <1>1. PICK w \in Writes :
          /\ pc[p] = "running"
          /\ committed' = committed \union {w}
          /\ wal' = wal \union {w}
          /\ UNCHANGED <<db, backup, staging, trusted, locks, leases, pc, build, orphans, faults>>
    BY DEF Write, IInv, LeaseInv
  <1>2. leases # {} /\ db # None /\ backup = None /\ trusted
    BY <1>1 DEF IInv, LeaseInv
  <1>3. TypeOK' /\ LockInv' /\ LeaseInv'
    BY <1>1 DEF IInv, TypeOK, LockInv, LeaseInv, locks
  <1>4. PlaceInv'
    BY <1>1, <1>2 DEF IInv, PlaceInv, At, Quiet
  <1>5. NothingLost' /\ OriginalKept'
    BY <1>1, <1>2 DEF IInv, NothingLost, OriginalKept
  <1> QED
    BY <1>1, <1>2, <1>3, <1>4, <1>5 DEF IInv

\* The log becomes part of the file.
LEMMA CheckpointStep ==
  ASSUME IInv, Checkpoint
  PROVE  /\ db' \in File /\ db' # None /\ wal' = {}
         /\ db'.version = db.version
         /\ db'.rows = db.rows \union wal
  BY NoneIsNoFile DEF Checkpoint, IInv, TypeOK, File

LEMMA AutoCheckpointStep ==
  ASSUME IInv, NEW p \in Processes, AutoCheckpoint(p)
  PROVE  IInv'
  <1>1. /\ pc[p] = "running"
        /\ UNCHANGED <<backup, staging, trusted, locks, leases, pc, build, orphans, committed, faults>>
    BY DEF AutoCheckpoint
  <1>2. leases # {} /\ db # None /\ backup = None /\ trusted
    BY <1>1 DEF IInv, LeaseInv
  <1>3. /\ db' \in File /\ db' # None /\ wal' = {}
        /\ db'.version = db.version
        /\ db'.rows = db.rows \union wal
    BY CheckpointStep DEF AutoCheckpoint
  <1>4. TypeOK' /\ LockInv' /\ LeaseInv'
    BY <1>1, <1>3 DEF IInv, TypeOK, LockInv, LeaseInv, locks
  <1>5. PlaceInv'
    BY <1>1, <1>2, <1>3 DEF IInv, PlaceInv, At, Quiet
  <1>6. NothingLost' /\ OriginalKept'
    BY <1>1, <1>2, <1>3 DEF IInv, NothingLost, OriginalKept
  <1> QED
    BY <1>3, <1>4, <1>5, <1>6 DEF IInv

LEMMA CloseStep ==
  ASSUME IInv, NEW p \in Processes, Close(p)
  PROVE  IInv'
  <1>1. /\ pc[p] = "running" /\ pc' = [pc EXCEPT ![p] = "idle"]
        /\ leases' = leases \ {p} /\ orphans' = orphans \ {p}
        /\ UNCHANGED <<backup, staging, trusted, locks, build, committed, faults>>
    BY DEF Close, Goto
  <1>2. p \in leases /\ db # None /\ backup = None /\ trusted
    BY <1>1 DEF IInv, LeaseInv
  <1>3. /\ db' \in File /\ db' # None /\ wal' \subseteq wal
        /\ db'.version = db.version
        /\ db.rows \union wal \subseteq db'.rows \union wal'
    <2>1. CASE Checkpoint
      BY <2>1, CheckpointStep
    <2>2. CASE UNCHANGED <<db, wal>>
      BY <1>2, <2>2 DEF IInv, TypeOK
    <2> QED
      BY <2>1, <2>2 DEF Close
  <1>4. TypeOK'
    BY <1>1, <1>3 DEF IInv, TypeOK, Places, locks
  <1>5. LockInv' /\ LeaseInv'
    BY <1>1, <1>2, <1>3 DEF IInv, TypeOK, LockInv, LeaseInv, Guarded, locks
  <1>6. PlaceInv'
    <2> SUFFICES ASSUME NEW q \in Processes
                 PROVE  At(pc[q], build[q])' /\ (pc'[q] \in Quiet => leases' = {})
      BY DEF PlaceInv
    <2>1. CASE q = p
      BY <1>1, <2>1 DEF IInv, TypeOK, At, Quiet
    <2>2. CASE q # p
      <3>1. pc'[q] = pc[q] /\ build'[q] = build[q]
        BY <1>1, <2>2 DEF IInv, TypeOK
      <3>2. At(pc[q], build[q]) /\ pc[q] \notin Quiet
        BY <1>2 DEF IInv, PlaceInv
      <3> QED
        BY <1>1, <1>2, <1>3, <3>1, <3>2 DEF At, Quiet
    <2> QED
      BY <2>1, <2>2
  <1>7. NothingLost' /\ OriginalKept'
    BY <1>1, <1>2, <1>3 DEF IInv, NothingLost, OriginalKept
  <1> QED
    BY <1>3, <1>4, <1>5, <1>6, <1>7 DEF IInv

LEMMA CrashStep ==
  ASSUME IInv, NEW p \in Processes, Crash(p)
  PROVE  IInv'
  <1>1. /\ pc' = [pc EXCEPT ![p] = "idle"]
        /\ lock' = IF lock = p THEN Dead ELSE lock
        /\ leases' = leases \ {p} /\ orphans' = orphans \ {p}
        /\ UNCHANGED <<files, lockWritten, build, committed>>
    BY DEF Crash, Goto
  <1>2. faults' \in 0..MaxFaults
    BY StorageConstants DEF Crash, Fault, IInv, TypeOK
  <1>3. TypeOK'
    BY <1>1, <1>2 DEF IInv, TypeOK, Places, files
  <1>4. LockInv'
    BY <1>1, StorageConstants DEF IInv, TypeOK, LockInv, Guarded
  <1>5. LeaseInv'
    BY <1>1 DEF IInv, TypeOK, LeaseInv, files
  <1>6. PlaceInv'
    <2> SUFFICES ASSUME NEW q \in Processes
                 PROVE  At(pc[q], build[q])' /\ (pc'[q] \in Quiet => leases' = {})
      BY DEF PlaceInv
    <2>1. CASE q = p
      BY <1>1, <2>1 DEF IInv, TypeOK, At, Quiet
    <2>2. CASE q # p
      <3>1. pc'[q] = pc[q] /\ build'[q] = build[q]
        BY <1>1, <2>2 DEF IInv, TypeOK
      <3>2. At(pc[q], build[q]) /\ (pc[q] \in Quiet => leases = {})
        BY DEF IInv, PlaceInv
      <3> QED
        BY <1>1, <3>1, <3>2 DEF At, RestorePoint, Staged, files
    <2> QED
      BY <2>1, <2>2
  <1> QED
    BY <1>1, <1>3, <1>4, <1>5, <1>6, SameFiles DEF IInv

-----------------------------------------------------------------------------
LEMMA NextIInv ==
  ASSUME ~ConcurrentReclaims, IInv, [Next]_vars
  PROVE  IInv'
  <1>1. CASE UNCHANGED vars
    <2>1. TypeOK' /\ LockInv' /\ LeaseInv'
      BY <1>1 DEF vars, files, locks, IInv, TypeOK, LockInv, LeaseInv
    <2>2. PlaceInv'
      BY <1>1 DEF vars, files, locks, IInv, PlaceInv, At, RestorePoint, Staged
    <2> QED
      BY <1>1, <2>1, <2>2, SameFiles DEF IInv, vars
  <1>2. ASSUME NEW p \in Processes, \E b \in Builds : Start(p, b)
        PROVE  IInv'
    BY <1>2, StartStep
  <1>3. ASSUME NEW p \in Processes, Lock(p)
        PROVE  IInv'
    BY <1>3, CreateLockStep, WriteLockStep, JudgeLockStep, RemoveLockStep, ReleaseLockStep
    DEF Lock
  <1>4. ASSUME NEW p \in Processes, Recover(p)
        PROVE  IInv'
    BY <1>4, RecoverNothingStep, RecoverBackupStep, RecoverPromotedStep,
       RecoverInvalidStep, RestoreOldStep DEF Recover
  <1>5. ASSUME NEW p \in Processes, Open(p)
        PROVE  IInv'
    BY <1>5, RefuseStep, OpenCurrentStep, OpenOldStep, OpenNewStep DEF Open
  <1>6. ASSUME NEW p \in Processes, MigrateOnStagingCopy(p)
        PROVE  IInv'
    BY <1>6, CopyToStagingStep, MigrateStep, RetireStep, PromoteStep, ValidateStep,
       DropBackupStep, RollbackStep, RestoreStep DEF MigrateOnStagingCopy
  <1>7. ASSUME NEW p \in Processes,
               LockTimesOut(p) \/ TakeLease(p) \/ Fail(p) \/ Write(p)
               \/ AutoCheckpoint(p) \/ Close(p) \/ Crash(p)
        PROVE  IInv'
    BY <1>7, LockTimesOutStep, TakeLeaseStep, FailStep, WriteStep, AutoCheckpointStep,
       CloseStep, CrashStep
  <1> QED
    BY <1>1, <1>2, <1>3, <1>4, <1>5, <1>6, <1>7 DEF Next, Prepare

\* What a process finds in the directory at every place inside the lock is what the
\* steps before it left there, whatever crashed in between.
THEOREM StorageInvariant == ~ConcurrentReclaims => (Spec => []IInv)
  <1> SUFFICES ASSUME ~ConcurrentReclaims PROVE Spec => []IInv
    OBVIOUS
  <1>1. Init => IInv
    BY InitIInv
  <1>2. IInv /\ [Next]_vars => IInv'
    BY NextIInv
  <1> QED
    BY <1>1, <1>2, PTL DEF Spec

\* Every variable keeps its type.
THEOREM StorageTypeCorrect == ~ConcurrentReclaims => (Spec => []TypeOK)
  <1> SUFFICES ASSUME ~ConcurrentReclaims PROVE Spec => []TypeOK
    OBVIOUS
  <1>1. IInv => TypeOK
    BY DEF IInv
  <1> QED
    BY <1>1, StorageInvariant, PTL

\* However often a migration or its recovery is cut short, and whichever builds
\* start, the file the next start goes by holds every acknowledged write.
THEOREM WritesSurvive == ~ConcurrentReclaims => (Spec => []NothingLost)
  <1> SUFFICES ASSUME ~ConcurrentReclaims PROVE Spec => []NothingLost
    OBVIOUS
  <1>1. IInv => NothingLost
    BY DEF IInv
  <1> QED
    BY <1>1, StorageInvariant, PTL

\* migrateOnStagingCopy gives the backup up only after the promoted file has been
\* validated under its name.
THEOREM BackupUntilValidated == ~ConcurrentReclaims => (Spec => []OriginalKept)
  <1> SUFFICES ASSUME ~ConcurrentReclaims PROVE Spec => []OriginalKept
    OBVIOUS
  <1>1. IInv => OriginalKept
    BY DEF IInv
  <1> QED
    BY <1>1, StorageInvariant, PTL

\* withMigrationLock lets one process in at a time.
THEOREM OneInsideLock == ~ConcurrentReclaims => (Spec => []LockExclusive)
  <1> SUFFICES ASSUME ~ConcurrentReclaims PROVE Spec => []LockExclusive
    OBVIOUS
  <1>1. IInv => LockExclusive
    BY DEF IInv, LockInv, LockExclusive
  <1> QED
    BY <1>1, StorageInvariant, PTL

\* One step from a state of the invariant never takes a live owner's lock file.
LEMMA OwnerKeptStep ==
  ASSUME IInv, [Next]_vars, NEW p \in Processes, lock = p, lock' # p
  PROVE  lock' = Dead \/ (pc[p] \in {"unlock", "release"} /\ pc'[p] # pc[p])
  <1>1. p # None /\ p # Dead
    BY StorageConstants
  <1>2. PICK q \in Processes : CreateLock(q) \/ RemoveLock(q) \/ ReleaseLock(q) \/ Crash(q)
    <2>1. lock' # lock
      OBVIOUS
    <2>2. PICK q \in Processes :
            \/ \E b \in Builds : Start(q, b)
            \/ LockTimesOut(q) \/ Lock(q) \/ Recover(q) \/ Open(q)
            \/ MigrateOnStagingCopy(q) \/ TakeLease(q) \/ Fail(q)
            \/ Write(q) \/ AutoCheckpoint(q) \/ Close(q) \/ Crash(q)
      BY <2>1 DEF Next, Prepare, vars, locks
    <2>3. ~Recover(q)
      BY <2>1 DEF Recover, RecoverNothing, RecoverBackup, RecoverPromoted,
         RecoverInvalid, RestoreOld, locks
    <2>4. ~Open(q)
      BY <2>1 DEF Open, Refuse, OpenCurrent, OpenOld, OpenNew, locks
    <2>5. ~MigrateOnStagingCopy(q)
      BY <2>1 DEF MigrateOnStagingCopy, CopyToStaging, Migrate, Retire, Promote, Validate,
         DropBackup, Rollback, Restore, locks
    <2>6. ~WriteLock(q) /\ ~JudgeLock(q)
      BY <2>1 DEF WriteLock, JudgeLock, locks
    <2>7. ~(\E b \in Builds : Start(q, b)) /\ ~LockTimesOut(q) /\ ~TakeLease(q) /\ ~Fail(q)
      BY <2>1 DEF Start, LockTimesOut, TakeLease, Fail, locks
    <2>8. ~Write(q) /\ ~AutoCheckpoint(q) /\ ~Close(q)
      BY <2>1 DEF Write, AutoCheckpoint, Close, locks
    <2> QED
      BY <2>2, <2>3, <2>4, <2>5, <2>6, <2>7, <2>8 DEF Lock
  <1>3. ~CreateLock(q)
    BY <1>1 DEF CreateLock
  <1>4. ~RemoveLock(q)
    BY <1>1 DEF RemoveLock, IInv, LockInv
  <1>5. CASE ReleaseLock(q)
    BY <1>5 DEF ReleaseLock, Goto, IInv, TypeOK, locks
  <1>6. CASE Crash(q)
    BY <1>6 DEF Crash
  <1> QED
    BY <1>2, <1>3, <1>4, <1>5, <1>6

\* "A live owner is never displaced" holds when reclaims do not overlap: only the
\* owner's release or its crash ends its hold of the lock file.
THEOREM LiveOwnerNotDisplaced == ~ConcurrentReclaims => (Spec => LiveOwnerKept)
  <1> SUFFICES ASSUME ~ConcurrentReclaims PROVE Spec => LiveOwnerKept
    OBVIOUS
  <1> DEFINE Kept ==
        \A p \in Processes :
          lock = p /\ lockWritten /\ lock' # p =>
              \/ lock' = Dead
              \/ pc[p] \in {"unlock", "release"} /\ pc'[p] # pc[p]
  <1>1. IInv /\ [Next]_vars => [Kept]_vars
    BY OwnerKeptStep
  <1> QED
    BY <1>1, StorageInvariant, PTL DEF Spec, LiveOwnerKept

=============================================================================
