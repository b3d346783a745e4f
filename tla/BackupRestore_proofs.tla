------------------------ MODULE BackupRestore_proofs ------------------------
(***************************************************************************)
(* Theorems about the two copies of stored data, each of which implements  *)
(* Archive: backup and restore, for any entries, any other servers and any *)
(* number of failures, losses of power and damages, and the export, for    *)
(* any pages, projects and writers.                                        *)
(***************************************************************************)
EXTENDS BackupRestore, Export, FiniteSetTheorems, TLAPS

Stored == [catalog : (SUBSET Files) \union {NoCatalog}, files : SUBSET Files]

Undoing == {"rollback", "undone"}
(* Where the tool holds all locks.                                         *)
Exclusive == {"copy"} \union Restoring \union Undoing
Installing == {"metrics", "blobs", "catalog", "data", "verify"}

BackupTypes ==
  /\ shown \in Stored /\ disk \in Stored /\ copied \in Stored /\ found \in Stored
  /\ solid \subseteq Files /\ stuck \subseteq Files /\ unlisted \subseteq Files
  /\ up \subseteq Servers /\ locked \subseteq Roots /\ removed \subseteq Roots
  /\ tool \in {"idle", "backup", "sealed", "publishing", "restore"} \union Exclusive
  /\ committed \subseteq Files \union {"catalog"} /\ bad \subseteq Files \union {"catalog"}
  /\ bundle \in Bundles \union {NoBundle}
  /\ treeSynced \in BOOLEAN /\ posted \in BOOLEAN /\ mishaps \in Nat

(* A root belongs to the tool or to a server; the tool has all it needs.   *)
RootsAreOwned ==
  /\ \A s \in up : RootsOf[s] \intersect locked = {}
  /\ tool \in Exclusive => locked = Roots
  /\ Main \in up => shown.catalog # NoCatalog

(* What either catalog names is there, whole, before and after a loss of   *)
(* power.                                                                  *)
EntriesLast ==
  \A c \in {shown.catalog, disk.catalog} :
    c # NoCatalog => c \subseteq shown.files \intersect disk.files \intersect solid

(* The bundle and what will be one.                                        *)
BundleIsOneMoment ==
  /\ bundle # NoBundle => bundle.whole /\ bundle.catalog \subseteq bundle.files
  /\ tool \in {"backup", "copy", "sealed"} => bundle = NoBundle
  /\ tool \in {"backup", "copy"} => shown.catalog # NoCatalog
  /\ tool = "copy" => copied.catalog = shown.catalog
  /\ tool \in {"sealed", "publishing"} =>
       copied.catalog # NoCatalog /\ copied.catalog \subseteq copied.files /\ treeSynced
  /\ tool = "publishing" =>
       bundle # NoBundle /\ ~posted /\ bundle.catalog = copied.catalog

(* How far a restore has come.                                             *)
RestoreIsStaged ==
  /\ tool \in {"restore"} \union Restoring \union Undoing => bundle # NoBundle
  /\ tool \in Restoring =>
       /\ copied.files \subseteq bundle.files \intersect solid
       /\ removed = {} /\ committed \ {"catalog"} \subseteq shown.files
  /\ tool = "restore" => copied.files = {} /\ removed = {}
  /\ tool \in {"restore", "stage"} => committed = {}
  /\ tool \in Installing =>
       copied.files = bundle.files /\ copied.catalog = bundle.catalog /\ treeSynced
  /\ tool \in {"metrics", "blobs", "catalog"} => "catalog" \notin committed
  /\ tool \in Installing \ {"metrics"} =>
       copied.files \intersect MetricFiles \subseteq committed \intersect disk.files
  /\ tool \in Installing \ {"metrics", "blobs"} =>
       copied.files \intersect BlobFiles \subseteq committed \intersect disk.files

(* What is in the roots during a restore and its rollback is what it has   *)
(* committed, what could not be removed, and on disk what was there before *)
(* or has been removed and not synced.                                     *)
RestoreIsUndoable ==
  tool \in Restoring \union Undoing =>
    /\ shown.catalog # NoCatalog => "catalog" \in committed
    /\ shown.files \subseteq committed \union stuck
    /\ disk.files \subseteq
         found.files \union stuck \union committed \union {f \in Files : RootOf(f) \in removed}
    /\ disk.catalog \in {NoCatalog, found.catalog} \/ "catalog" \in committed
                                                   \/ "data" \in removed
    /\ found.catalog \in {NoCatalog, {}}
    /\ \A a, b \in removed : a = b
    /\ tool = "undone" => committed = {} /\ removed = {}

BackupInv ==
  /\ BackupTypes /\ RootsAreOwned /\ EntriesLast /\ BundleIsOneMoment
  /\ RestoreIsStaged /\ RestoreIsUndoable
-----------------------------------------------------------------------------
(* Facts about the constants and about records.                            *)
LEMMA RootFacts ==
  /\ RootsOf \in [Servers -> SUBSET Roots] /\ Main \in Servers /\ RootsOf[Main] = Roots
  /\ RootOf("catalog") = "data" /\ "catalog" \notin Files
  /\ \A f \in MetricFiles : RootOf(f) = "metrics" /\ f \in Files
  /\ \A f \in BlobFiles : RootOf(f) = "blobs" /\ f \in Files /\ f \notin MetricFiles
  /\ NoCatalog \notin SUBSET Files /\ NoBundle \notin Bundles /\ NoBundle \notin SUBSET Files
  /\ Files = MetricFiles \union BlobFiles
BY RootsAssumption DEF RootOf, Files

LEMMA NothingTyped == Nothing \in Stored /\ Nothing.catalog = NoCatalog /\ Nothing.files = {}
BY DEF Nothing, Stored

LEMMA StoredUpdate ==
  ASSUME NEW x \in Stored, NEW c \in (SUBSET Files) \union {NoCatalog}, NEW e \in SUBSET Files,
         NEW y, y = [x EXCEPT !.files = e, !.catalog = c]
  PROVE  y \in Stored /\ y.catalog = c /\ y.files = e
BY DEF Stored

LEMMA InitialBackup == BackupInit => BackupInv
<1> SUFFICES ASSUME BackupInit PROVE BackupInv
  OBVIOUS
<1>1. BackupTypes
  BY RootsAssumption, NothingTyped DEF BackupInit, BackupTypes, Stored
<1> QED
  BY <1>1, RootFacts
  DEF BackupInit, BackupInv, RootsAreOwned, EntriesLast, BundleIsOneMoment, RestoreIsStaged,
      RestoreIsUndoable, Exclusive, Restoring, Undoing, Installing
-----------------------------------------------------------------------------
(* The servers.  While the tool holds all locks, none of them owns a root. *)
LEMMA StartServerStep ==
  ASSUME BackupInv, StartServer PROVE BackupInv'
<1> USE RootFacts DEF BackupInv
<1>1. tool \in Exclusive => UNCHANGED <<shown, disk>>
  BY DEF RootsAreOwned, StartServer, Roots, BackupTypes
<1>2. BackupTypes'
  BY DEF BackupTypes, Stored, StartServer, work, noted, archived
<1>3. RootsAreOwned' /\ EntriesLast'
  BY DEF BackupTypes, Stored, RootsAreOwned, EntriesLast, StartServer
<1>4. /\ shown'.files = shown.files
      /\ shown.catalog # NoCatalog => UNCHANGED shown
      /\ UNCHANGED <<work, archived, locked, tool, mishaps>>
  BY DEF StartServer, BackupTypes, Stored
<1>5. BundleIsOneMoment'
  <2>1. tool = "copy" => UNCHANGED shown
    BY <1>1 DEF Exclusive
  <2>2. shown.catalog # NoCatalog => shown'.catalog # NoCatalog
    BY <1>4
  <2>3. UNCHANGED <<copied, treeSynced, bundle, posted, tool>>
    BY <1>4 DEF work, archived
  <2> QED
    BY <2>1, <2>2, <2>3 DEF BundleIsOneMoment
<1>6. RestoreIsStaged'
  <2>1. UNCHANGED <<copied, treeSynced, committed, removed, bundle, tool, solid>>
    BY <1>4 DEF work, archived, StartServer
  <2>2. tool \in Installing => UNCHANGED disk
    BY <1>1 DEF Installing, Exclusive, Restoring
  <2> QED
    BY <1>4, <2>1, <2>2 DEF RestoreIsStaged
<1>7. RestoreIsUndoable'
  BY <1>1, <1>4 DEF RestoreIsUndoable, StartServer, work, noted, Restoring, Undoing, Exclusive
<1> QED
  BY <1>2, <1>3, <1>5, <1>6, <1>7

LEMMA WriteEntryStep ==
  ASSUME BackupInv, WriteEntry PROVE BackupInv'
<1> USE RootFacts DEF BackupInv
<1>1. PICK s \in up, f \in Files \ shown.files :
        /\ RootOf(f) \in RootsOf[s]
        /\ shown' = [shown EXCEPT !.files = @ \union {f},
                     !.catalog = IF s = Main THEN @ \union {f} ELSE @]
        /\ disk' = [disk EXCEPT !.files = @ \union {f},
                   !.catalog = IF s = Main THEN shown'.catalog ELSE @]
        /\ solid' = solid \union {f}
  BY DEF WriteEntry
<1>2. tool \notin Exclusive
  <2>1. s \in Servers /\ RootsOf[s] \subseteq Roots /\ RootsOf[s] \intersect locked = {}
    BY DEF BackupTypes, RootsAreOwned
  <2> QED
    BY <1>1, <2>1 DEF RootsAreOwned
<1>3. s = Main => shown.catalog \in SUBSET Files /\ shown.catalog # NoCatalog
  BY DEF BackupTypes, RootsAreOwned, Stored
<1>4. /\ shown' \in Stored /\ shown'.files = shown.files \union {f}
      /\ shown'.catalog = IF s = Main THEN shown.catalog \union {f} ELSE shown.catalog
  <2> DEFINE c == IF s = Main THEN shown.catalog \union {f} ELSE shown.catalog
             e == shown.files \union {f}
  <2>1. c \in (SUBSET Files) \union {NoCatalog} /\ e \in SUBSET Files /\ shown \in Stored
    BY <1>3 DEF BackupTypes, Stored
  <2>2. shown' = [shown EXCEPT !.files = e, !.catalog = c]
    BY <1>1
  <2> HIDE DEF c, e
  <2>3. shown' \in Stored /\ shown'.catalog = c /\ shown'.files = e
    BY <2>1, <2>2 DEF Stored
  <2> QED
    BY <2>3 DEF c, e
<1>5. /\ disk' \in Stored /\ disk'.files = disk.files \union {f}
      /\ disk'.catalog = IF s = Main THEN shown'.catalog ELSE disk.catalog
  <2> DEFINE c == IF s = Main THEN shown'.catalog ELSE disk.catalog
             e == disk.files \union {f}
  <2>1. c \in (SUBSET Files) \union {NoCatalog} /\ e \in SUBSET Files /\ disk \in Stored
    BY <1>4 DEF BackupTypes, Stored
  <2>2. disk' = [disk EXCEPT !.files = e, !.catalog = c]
    BY <1>1
  <2> HIDE DEF c, e
  <2>3. disk' \in Stored /\ disk'.catalog = c /\ disk'.files = e
    BY <2>1, <2>2 DEF Stored
  <2> QED
    BY <2>3 DEF c, e
<1>6. BackupTypes'
  BY <1>1, <1>4, <1>5 DEF BackupTypes, WriteEntry, work, noted, archived
<1>7. EntriesLast'
  BY <1>1, <1>3, <1>4, <1>5 DEF EntriesLast
<1>8. shown.catalog # NoCatalog => shown'.catalog # NoCatalog
  BY <1>3, <1>4
<1> QED
  BY <1>2, <1>6, <1>7, <1>8
  DEF RootsAreOwned, BundleIsOneMoment, RestoreIsStaged, RestoreIsUndoable, Exclusive,
      Restoring, Undoing, Installing, WriteEntry, work, noted, archived

LEMMA RetireEntryStep ==
  ASSUME BackupInv, RetireEntry PROVE BackupInv'
<1> USE RootFacts DEF BackupInv
<1>1. PICK f \in Files, rest \in SUBSET shown.files :
        /\ Main \in up /\ shown.files \ {f} \subseteq rest
        /\ shown' = [catalog |-> shown.catalog \ {f}, files |-> rest]
        /\ disk' = [disk EXCEPT !.catalog = shown'.catalog]
  BY DEF RetireEntry
<1>2. shown.catalog \in SUBSET Files /\ shown.catalog # NoCatalog /\ shown.files \in SUBSET Files
  BY <1>1 DEF BackupTypes, RootsAreOwned, Stored
<1>3. tool \notin Exclusive
  BY <1>1 DEF RootsAreOwned, Roots
<1>4. shown' \in Stored /\ shown'.catalog \in SUBSET Files /\ shown'.catalog # NoCatalog
  BY <1>1, <1>2 DEF Stored
<1>5. disk' \in Stored /\ disk'.catalog = shown'.catalog /\ disk'.files = disk.files
  BY <1>1, <1>4 DEF BackupTypes, Stored
<1>6. EntriesLast'
  BY <1>1, <1>2, <1>4, <1>5 DEF EntriesLast, RetireEntry
<1> QED
  BY <1>3, <1>4, <1>5, <1>6
  DEF BackupTypes, RootsAreOwned, BundleIsOneMoment, RestoreIsStaged, RestoreIsUndoable,
      Exclusive, Restoring, Undoing, Installing, RetireEntry, work, noted, archived

LEMMA OtherServerSteps ==
  ASSUME BackupInv,
         StopServer \/ EmptyRoots \/ LockRoot
  PROVE  BackupInv'
<1> USE RootFacts, NothingTyped
    DEF BackupInv, BackupTypes, RootsAreOwned, EntriesLast, BundleIsOneMoment,
        RestoreIsStaged, RestoreIsUndoable, Stored, Bundles, Exclusive, Restoring, Undoing,
        Installing, storage, work, noted, archived
<1>1. CASE StopServer
  <2>1. BackupTypes'
    BY <1>1 DEF StopServer
  <2> QED
    BY <1>1, <2>1 DEF StopServer
<1>2. CASE EmptyRoots
  <2>1. BackupTypes'
    BY <1>2 DEF EmptyRoots, Nothing
  <2> QED
    BY <1>2, <2>1 DEF EmptyRoots, Nothing
<1>3. CASE LockRoot
  <2>1. BackupTypes'
    BY <1>3 DEF LockRoot
  <2> QED
    BY <1>3, <2>1 DEF LockRoot
<1> QED
  BY <1>1, <1>2, <1>3

-----------------------------------------------------------------------------
(* Backup.                                                                 *)
LEMMA CopySteps ==
  ASSUME BackupInv,
         StartBackup \/ SnapshotCatalog \/ CopyEntry \/ SealBundle \/
         SyncParent
  PROVE  BackupInv'
<1> USE RootFacts, NothingTyped
    DEF BackupInv, BackupTypes, RootsAreOwned, EntriesLast, BundleIsOneMoment,
        RestoreIsStaged, RestoreIsUndoable, Stored, Bundles, Exclusive, Restoring, Undoing,
        Installing, storage, work, noted, archived
<1>1. CASE StartBackup
  <2>1. BackupTypes'
    BY <1>1 DEF StartBackup, Clean
  <2> QED
    BY <1>1, <2>1 DEF StartBackup, Clean
<1>2. CASE SnapshotCatalog
  <2>1. BackupTypes'
    BY <1>2 DEF SnapshotCatalog, LocksComplete
  <2> QED
    BY <1>2, <2>1 DEF SnapshotCatalog, LocksComplete
<1>3. CASE CopyEntry
  <2>1. BackupTypes'
    BY <1>3 DEF CopyEntry
  <2> QED
    BY <1>3, <2>1 DEF CopyEntry
<1>4. CASE SealBundle
  <2>1. BackupTypes'
    BY <1>4 DEF SealBundle
  <2> QED
    BY <1>4, <2>1 DEF SealBundle
<1>5. CASE SyncParent
  <2>1. BackupTypes'
    BY <1>5 DEF SyncParent, Clean
  <2> QED
    BY <1>5, <2>1 DEF SyncParent, Clean
<1> QED
  BY <1>1, <1>2, <1>3, <1>4, <1>5

LEMMA PublishBundleStep ==
  ASSUME BackupInv, PublishBundle PROVE BackupInv'
<1> USE RootFacts DEF BackupInv
<1>1. /\ bundle' \in Bundles /\ bundle'.whole
      /\ bundle'.catalog = copied.catalog /\ bundle'.files = copied.files
  BY DEF PublishBundle, Bundles, BackupTypes, Stored, BundleIsOneMoment
<1>2. tool' = "publishing" /\ ~posted' /\ tool = "sealed" /\ bundle' # NoBundle
  BY <1>1 DEF PublishBundle
<1>3. BackupTypes'
  BY <1>1, <1>2 DEF BackupTypes, PublishBundle, storage, work, noted
<1>4. BundleIsOneMoment'
  BY <1>1, <1>2 DEF BundleIsOneMoment, PublishBundle, storage, work, noted
<1> QED
  BY <1>2, <1>3, <1>4
  DEF RootsAreOwned, EntriesLast, RestoreIsStaged, RestoreIsUndoable, Exclusive, Restoring,
      Undoing, Installing, PublishBundle, storage, work, noted

-----------------------------------------------------------------------------
(* Restore.                                                                *)
LEMMA StageSteps ==
  ASSUME BackupInv,
         StartRestore \/ Stage \/ StageEntry \/ EndRestore
  PROVE  BackupInv'
<1> USE RootFacts, NothingTyped
    DEF BackupInv, BackupTypes, RootsAreOwned, EntriesLast, BundleIsOneMoment,
        RestoreIsStaged, RestoreIsUndoable, Stored, Bundles, Exclusive, Restoring, Undoing,
        Installing, storage, work, noted, archived
<1>1. CASE StartRestore
  <2>1. BackupTypes'
    BY <1>1 DEF StartRestore, Clean
  <2> QED
    BY <1>1, <2>1 DEF StartRestore, Clean
<1>2. CASE Stage
  <2>1. BackupTypes'
    BY <1>2 DEF Stage, LocksComplete, RootsEmpty, Nothing
  <2> QED
    BY <1>2, <2>1 DEF Stage, LocksComplete, RootsEmpty, Nothing
<1>3. CASE StageEntry
  <2>1. BackupTypes'
    BY <1>3 DEF StageEntry, CopyFromBundle, Listed
  <2> QED
    BY <1>3, <2>1 DEF StageEntry, CopyFromBundle, Listed
<1>4. CASE EndRestore
  <2>1. BackupTypes'
    BY <1>4 DEF EndRestore, Clean
  <2> QED
    BY <1>4, <2>1 DEF EndRestore, Clean
<1> QED
  BY <1>1, <1>2, <1>3, <1>4

(* Counting the entries shows that all were staged.                        *)
LEMMA SyncStagingStep ==
  ASSUME BackupInv, SyncStaging PROVE BackupInv'
<1> USE RootFacts DEF BackupInv
<1>1. bundle \in Bundles /\ copied.files \subseteq bundle.files
  BY DEF RestoreIsStaged, SyncStaging, BackupTypes, Restoring
<1>2. IsFiniteSet(bundle.files)
  BY <1>1, FS_Subset, RootsAssumption DEF Bundles
<1>3. copied.files = bundle.files
  BY <1>1, <1>2, FS_Subset DEF SyncStaging, AllStaged
<1>4. copied' = [copied EXCEPT !.catalog = bundle.catalog] /\ treeSynced'
  BY DEF SyncStaging
<1>5. copied' \in Stored /\ copied'.files = bundle.files /\ copied'.catalog = bundle.catalog
  BY <1>1, <1>3, <1>4 DEF BackupTypes, Stored, Bundles
<1>6. BackupTypes'
  BY <1>5 DEF BackupTypes, SyncStaging, storage, noted, archived, Exclusive, Restoring
<1> QED
  BY <1>5, <1>6
  DEF BackupTypes, RootsAreOwned, EntriesLast, BundleIsOneMoment, RestoreIsStaged,
      RestoreIsUndoable, Exclusive, Restoring, Undoing, Installing, SyncStaging, storage,
      noted, archived

LEMMA InstallSteps ==
  ASSUME BackupInv,
         InstallEntries \/ SyncInstalled \/ InstallCatalog \/ SyncCatalog
  PROVE  BackupInv'
<1> USE RootFacts, NothingTyped
    DEF BackupInv, BackupTypes, RootsAreOwned, EntriesLast, BundleIsOneMoment,
        RestoreIsStaged, RestoreIsUndoable, Stored, Bundles, Exclusive, Restoring, Undoing,
        Installing, storage, work, noted, archived
<1>1. CASE InstallEntries
  <2>1. BackupTypes'
    BY <1>1 DEF InstallEntries, InstallEntry, EntriesOf
  <2> QED
    BY <1>1, <2>1 DEF InstallEntries, InstallEntry, EntriesOf
<1>2. CASE SyncInstalled
  <2>1. BackupTypes'
    BY <1>2 DEF SyncInstalled, SyncRoot, EntriesOf
  <2> QED
    BY <1>2, <2>1 DEF SyncInstalled, SyncRoot, EntriesOf
<1>3. CASE InstallCatalog
  <2>1. BackupTypes'
    BY <1>3 DEF InstallCatalog, Roots
  <2> QED
    BY <1>3, <2>1 DEF InstallCatalog, Roots
<1>4. CASE SyncCatalog
  <2>1. BackupTypes'
    BY <1>4 DEF SyncCatalog, SyncRoot
  <2> QED
    BY <1>4, <2>1 DEF SyncCatalog, SyncRoot
<1> QED
  BY <1>1, <1>2, <1>3, <1>4

-----------------------------------------------------------------------------
(* Failures.                                                               *)
LEMMA QuitStep ==
  ASSUME BackupInv, Quit, mishaps' \in Nat PROVE BackupInv'
<1> USE RootFacts, NothingTyped
    DEF BackupInv, BackupTypes, RootsAreOwned, EntriesLast, BundleIsOneMoment,
        RestoreIsStaged, RestoreIsUndoable, Stored, Bundles, Exclusive, Restoring, Undoing,
        Installing, storage, work, noted, archived
<1>1. BackupTypes'
  BY DEF Quit, Clean
<1> QED
  BY <1>1 DEF Quit, Clean

LEMMA RollbackStep ==
  ASSUME BackupInv, tool \in Restoring, tool' = "rollback", mishaps' \in Nat,
         UNCHANGED <<storage, work, archived, locked>>
  PROVE  BackupInv'
<1> USE RootFacts, NothingTyped
    DEF BackupInv, BackupTypes, RootsAreOwned, EntriesLast, BundleIsOneMoment,
        RestoreIsStaged, RestoreIsUndoable, Stored, Bundles, Exclusive, Restoring, Undoing,
        Installing, storage, work, noted, archived
<1>1. BackupTypes'
  OBVIOUS
<1> QED
  BY <1>1

LEMMA FailStep ==
  ASSUME BackupInv, Fail \/ Refuse PROVE BackupInv'
<1>1. mishaps' \in Nat
  BY DEF BackupInv, BackupTypes, Fail, Refuse
<1> QED
  BY <1>1, QuitStep, RollbackStep DEF Fail, Refuse, Restoring

(* The catalog goes first and for good, so that what goes after it has no  *)
(* name left.                                                              *)
LEMMA UndoStep ==
  ASSUME BackupInv, Undo PROVE BackupInv'
<1> USE RootFacts DEF BackupInv
<1>1. PICK x \in committed :
        /\ IsNext(x) /\ solid' = solid \ {x}
        /\ committed' = committed \ {x} /\ removed' = {RootOf(x)}
        /\ \/ /\ shown' = IF x = "catalog" THEN [shown EXCEPT !.catalog = NoCatalog]
                          ELSE [shown EXCEPT !.files = @ \ {x}]
              /\ UNCHANGED <<stuck, mishaps>>
           \/ /\ x # "catalog" /\ mishaps' = mishaps + 1
              /\ stuck' = stuck \union {x} /\ UNCHANGED shown
  BY DEF Undo
<1>2. /\ tool = "rollback" /\ removed = {} /\ Main \notin up
      /\ UNCHANGED <<disk, up, archived, locked, tool, copied, treeSynced, found>>
  BY DEF Undo, RootsAreOwned, Exclusive, Undoing, Roots
<1>3. /\ shown' \in Stored /\ shown'.files \subseteq shown.files
      /\ shown.files \ {x} \subseteq shown'.files
      /\ x \in shown'.files => x = "catalog" \/ x \in stuck'
      /\ shown'.catalog = IF x = "catalog" THEN NoCatalog ELSE shown.catalog
  BY <1>1 DEF BackupTypes, Stored
<1>4. x # "catalog" => x \in Files /\ "catalog" \notin committed
  <2> SUFFICES ASSUME x # "catalog", "catalog" \in committed PROVE FALSE
    BY <1>1 DEF BackupTypes
  <2>1. x \in Files /\ RootOf(x) # "data"
    BY <1>1 DEF BackupTypes
  <2>2. Rank("catalog") = 3 /\ Rank(x) \in {1, 2}
    BY <2>1 DEF Rank
  <2> QED
    BY <1>1, <2>2 DEF IsNext
<1>5. BackupTypes'
  <2>1. RootOf(x) \in Roots
    BY DEF RootOf, Roots
  <2>2. mishaps' \in Nat /\ stuck' \subseteq Files
    BY <1>1, <1>4 DEF BackupTypes
  <2> QED
    BY <1>1, <1>2, <1>3, <2>1, <2>2 DEF BackupTypes, archived
<1>6. EntriesLast'
  <2>1. x # "catalog" => shown.catalog = NoCatalog /\ disk.catalog \in {NoCatalog, {}}
    BY <1>2, <1>4 DEF RestoreIsUndoable, Undoing
  <2>2. x = "catalog" => solid' = solid /\ shown'.files = shown.files
    BY <1>1, <1>3 DEF BackupTypes, Stored
  <2>3. CASE x = "catalog"
    BY <1>2, <1>3, <2>2, <2>3 DEF EntriesLast
  <2>4. CASE x # "catalog"
    BY <1>2, <1>3, <2>1, <2>4 DEF EntriesLast
  <2> QED
    BY <2>3, <2>4
<1>7. RestoreIsUndoable'
  <2>1. shown'.catalog # NoCatalog => "catalog" \in committed'
    BY <1>1, <1>2, <1>3, <1>4 DEF RestoreIsUndoable, Undoing
  <2>2. shown'.files \subseteq committed' \union stuck'
    BY <1>1, <1>2, <1>3 DEF RestoreIsUndoable, Undoing, BackupTypes, Stored
  <2>3. disk.files \subseteq
          found.files \union stuck' \union committed' \union {f \in Files : RootOf(f) \in removed'}
    BY <1>1, <1>2 DEF RestoreIsUndoable, Undoing, BackupTypes, Stored
  <2>4. \/ disk.catalog \in {NoCatalog, found.catalog} \/ "catalog" \in committed'
        \/ "data" \in removed'
    BY <1>1, <1>2 DEF RestoreIsUndoable, Undoing
  <2> QED
    BY <1>1, <1>2, <2>1, <2>2, <2>3, <2>4 DEF RestoreIsUndoable, Undoing
<1> QED
  BY <1>2, <1>5, <1>6, <1>7
  DEF RootsAreOwned, BundleIsOneMoment, RestoreIsStaged, Exclusive, Restoring, Undoing,
      Installing, archived

LEMMA SyncRemovalStep ==
  ASSUME BackupInv, SyncRemoval \/ Undone PROVE BackupInv'
<1> USE RootFacts, NothingTyped
    DEF BackupInv, BackupTypes, RootsAreOwned, EntriesLast, BundleIsOneMoment,
        RestoreIsStaged, RestoreIsUndoable, Stored, Bundles, Exclusive, Restoring, Undoing,
        Installing, storage, work, noted, archived
<1>1. BackupTypes'
  BY DEF SyncRemoval, SyncRoot, Undone
<1> QED
  BY <1>1 DEF SyncRemoval, SyncRoot, Undone

LEMMA EndFailedStep ==
  ASSUME BackupInv, EndFailed PROVE BackupInv'
<1> USE RootFacts, NothingTyped
    DEF BackupInv, BackupTypes, RootsAreOwned, EntriesLast, BundleIsOneMoment,
        RestoreIsStaged, RestoreIsUndoable, Stored, Bundles, Exclusive, Restoring, Undoing,
        Installing, storage, work, noted, archived
<1>1. mishaps' \in Nat
  BY DEF EndFailed
<1>2. BackupTypes'
  BY <1>1 DEF EndFailed, Clean
<1> QED
  BY <1>2 DEF EndFailed, Clean

(* Whatever of a rename or removal reaches the disk: the entries of either *)
(* catalog are among those that are there before and after.                *)
LEMMA PowerLossStep ==
  ASSUME BackupInv, PowerLoss PROVE BackupInv'
<1> USE RootFacts, NothingTyped DEF BackupInv
<1>1. PICK files \in SUBSET (shown.files \union disk.files),
           catalog \in {shown.catalog, disk.catalog} :
        /\ shown.files \intersect disk.files \subseteq files
        /\ shown' = [catalog |-> catalog, files |-> files \intersect solid]
  BY DEF PowerLoss
<1>2. shown' \in Stored /\ disk' = shown'
  BY <1>1 DEF PowerLoss, BackupTypes, Stored
<1>3. EntriesLast'
  BY <1>1, <1>2 DEF EntriesLast, PowerLoss
<1>4. /\ bundle' \in Bundles \union {NoBundle}
      /\ bundle' # NoBundle => bundle'.whole /\ bundle'.catalog \subseteq bundle'.files
  BY DEF PowerLoss, BackupTypes, BundleIsOneMoment
<1>5. /\ up' = {} /\ locked' = {} /\ tool' = "idle" /\ Clean /\ mishaps' \in Nat
      /\ posted' \in BOOLEAN /\ UNCHANGED <<solid, bad, unlisted>>
  BY DEF PowerLoss, BackupTypes
<1>6. BackupTypes'
  BY <1>2, <1>4, <1>5 DEF BackupTypes, Clean
<1> QED
  BY <1>3, <1>4, <1>5, <1>6
  DEF RootsAreOwned, BundleIsOneMoment, RestoreIsStaged, RestoreIsUndoable, Exclusive,
      Restoring, Undoing, Installing

LEMMA DamageBundleStep ==
  ASSUME BackupInv, DamageBundle PROVE BackupInv'
<1> USE RootFacts, NothingTyped
    DEF BackupInv, BackupTypes, RootsAreOwned, EntriesLast, BundleIsOneMoment,
        RestoreIsStaged, RestoreIsUndoable, Stored, Bundles, Exclusive, Restoring, Undoing,
        Installing, storage, work, noted, archived
<1>1. BackupTypes'
  BY DEF DamageBundle
<1> QED
  BY <1>1 DEF DamageBundle
-----------------------------------------------------------------------------
LEMMA BackupStep == BackupInv /\ [BackupNext]_backupVars => BackupInv'
<1> SUFFICES ASSUME BackupInv, [BackupNext]_backupVars PROVE BackupInv'
  OBVIOUS
<1>1. CASE UNCHANGED backupVars
  BY <1>1
  DEF BackupInv, BackupTypes, RootsAreOwned, EntriesLast, BundleIsOneMoment, RestoreIsStaged,
      RestoreIsUndoable, backupVars, storage, work, noted, archived
<1>2. CASE StartServer \/ StopServer \/ WriteEntry \/ RetireEntry \/ EmptyRoots \/ LockRoot
  BY <1>2, StartServerStep, WriteEntryStep, RetireEntryStep, OtherServerSteps
<1>3. CASE \/ StartBackup \/ SnapshotCatalog \/ CopyEntry \/ SealBundle \/ PublishBundle
           \/ SyncParent
  BY <1>3, CopySteps, PublishBundleStep
<1>4. CASE \/ StartRestore \/ Stage \/ StageEntry \/ SyncStaging \/ EndRestore
           \/ InstallEntries \/ SyncInstalled \/ InstallCatalog \/ SyncCatalog
  BY <1>4, StageSteps, SyncStagingStep, InstallSteps
<1>5. CASE \/ Fail \/ Refuse \/ Undo \/ SyncRemoval \/ Undone \/ EndFailed \/ PowerLoss
           \/ DamageBundle
  BY <1>5, FailStep, UndoStep, SyncRemovalStep, EndFailedStep, PowerLossStep,
     DamageBundleStep
<1> QED
  BY <1>1, <1>2, <1>3, <1>4, <1>5 DEF BackupNext

(* Types, and the invariant behind all that follows.                       *)
THEOREM BackupInvariance == BackupSpec => []BackupInv
BY InitialBackup, BackupStep, PTL DEF BackupSpec

(* No failure, power loss or concurrent start makes the catalog name an    *)
(* entry that is not there whole.                                          *)
THEOREM CatalogIsSound == BackupSpec => []CatalogNamesFiles
<1>1. BackupInv => CatalogNamesFiles
  BY DEF BackupInv, EntriesLast, CatalogNamesFiles
<1> QED
  BY <1>1, BackupInvariance, PTL

(* A rollback that comes to its end has undone the restore, on disk too.   *)
THEOREM RollbackIsComplete == BackupSpec => []FailedRestoreIsUndone
<1>1. BackupInv => FailedRestoreIsUndone
  BY DEF BackupInv, RestoreIsUndoable, FailedRestoreIsUndone, Undoing
<1> QED
  BY <1>1, BackupInvariance, PTL
-----------------------------------------------------------------------------
(***************************************************************************)
(* What servers and operators see of all this is module Archive.           *)
(***************************************************************************)
(* By the invariant the contents of a store are what its catalog names.    *)
Seen ==
  /\ Contents(shown) = shown.catalog
  /\ Published = IF bundle = NoBundle THEN NoBundle ELSE bundle.catalog
  /\ bundle # NoBundle => bundle.catalog \in SUBSET Files

LEMMA ContentsAreCatalog == BackupInv => Seen
BY DEF BackupInv, BackupTypes, EntriesLast, BundleIsOneMoment, Seen, Contents, Published,
       Bundles

LEMMA ServerStepsSeen ==
  ASSUME BackupInv, Seen, Seen', Captured' = Captured, UNCHANGED bundle,
         StartServer \/ StopServer \/ WriteEntry \/ RetireEntry \/ EmptyRoots
  PROVE  [Promise!Next]_(Promise!vars)
<1> USE DEF Promise!Next, Promise!vars, Seen
<1>1. shown \in Stored /\ disk \in Stored
  BY DEF BackupInv, BackupTypes
<1>2. Main \in up => shown.catalog \in SUBSET Files
  BY <1>1 DEF BackupInv, RootsAreOwned, Stored
<1>3. CASE StartServer
  <2>1. PICK s \in Servers \ up :
          /\ up' = up \union {s}
          /\ IF s = Main /\ shown.catalog = NoCatalog
               THEN /\ shown' = [shown EXCEPT !.catalog = {}]
                    /\ disk' = [disk EXCEPT !.catalog = {}]
               ELSE UNCHANGED <<shown, disk>>
    BY <1>3 DEF StartServer
  <2>2. CASE s = Main
    BY <1>1, <2>1, <2>2 DEF Promise!Start, Stored
  <2>3. CASE s # Main
    BY <2>1, <2>3
  <2> QED
    BY <2>2, <2>3
<1>4. CASE StopServer
  BY <1>4 DEF StopServer, Promise!Stop
<1>5. CASE WriteEntry
  <2>1. PICK s \in up, f \in Files :
          /\ up' = up
          /\ shown'.catalog = IF s = Main THEN shown.catalog \union {f} ELSE shown.catalog
          /\ disk'.catalog = IF s = Main THEN shown'.catalog ELSE disk.catalog
    BY <1>1, <1>5 DEF WriteEntry, Stored
  <2>2. CASE s = Main
    <3>1. shown'.catalog \in SUBSET Files /\ shown'.catalog # NoCatalog
      BY <1>2, <2>1, <2>2, RootFacts
    <3> QED
      BY <2>1, <2>2, <3>1 DEF Promise!Change
  <2>3. CASE s # Main
    BY <2>1, <2>3
  <2> QED
    BY <2>2, <2>3
<1>6. CASE RetireEntry
  <2>1. PICK f \in Files :
          /\ Main \in up /\ up' = up
          /\ shown'.catalog = shown.catalog \ {f} /\ disk'.catalog = shown'.catalog
    BY <1>1, <1>6, RootFacts DEF RetireEntry, Stored
  <2>2. shown'.catalog \in SUBSET Files /\ shown'.catalog # NoCatalog
    BY <1>2, <2>1, RootFacts
  <2> QED
    BY <2>1, <2>2 DEF Promise!Change
<1>7. CASE EmptyRoots
  BY <1>7, NothingTyped DEF EmptyRoots, Promise!Clear
<1> QED
  BY <1>3, <1>4, <1>5, <1>6, <1>7

LEMMA BackupStepsSeen ==
  ASSUME BackupInv, Seen, Seen', UNCHANGED storage,
         \/ StartBackup \/ SnapshotCatalog \/ CopyEntry \/ SealBundle \/ PublishBundle
         \/ SyncParent \/ Quit
  PROVE  [Promise!Next]_(Promise!vars)
<1> USE RootFacts DEF Promise!Next, Promise!vars, Seen, storage
<1>1. copied \in Stored
  BY DEF BackupInv, BackupTypes
<1>2. CASE SnapshotCatalog
  <2>1. /\ Captured' = shown.catalog /\ shown.catalog # NoCatalog
        /\ UNCHANGED Published
    BY <1>1, <1>2 DEF SnapshotCatalog, Captured, archived, BackupInv, BundleIsOneMoment, Stored
  <2> QED
    BY <2>1 DEF Promise!Capture
<1>3. CASE PublishBundle
  <2>1. /\ tool = "sealed" /\ bundle = NoBundle /\ copied.catalog \in SUBSET Files
        /\ bundle'.catalog = copied.catalog /\ bundle' # NoBundle
        /\ tool' = "publishing" /\ copied' = copied
    <3>1. /\ bundle' \in Bundles /\ bundle'.catalog = copied.catalog
          /\ copied.catalog \in SUBSET Files
      BY <1>1, <1>3 DEF PublishBundle, BackupInv, BackupTypes, BundleIsOneMoment, Stored, Bundles
    <3> QED
      BY <1>3, <3>1 DEF PublishBundle, work, BackupInv, BundleIsOneMoment
  <2>2. Captured = copied.catalog /\ UNCHANGED Captured
    BY <2>1 DEF Captured
  <2> QED
    BY <2>1, <2>2 DEF Promise!Publish
<1>4. CASE SyncParent
  <2>1. Captured # NoBundle /\ Captured' = NoBundle /\ UNCHANGED Published
    BY <1>1, <1>4 DEF SyncParent, Captured, BackupInv, BundleIsOneMoment, Stored
  <2> QED
    BY <2>1 DEF Promise!Forget
<1>5. CASE Quit
  <2>1. UNCHANGED <<bundle, posted>> /\ tool' = "idle"
    BY <1>5 DEF Quit, archived
  <2>2. CASE tool \in {"copy", "sealed"}
    <3>1. Captured # NoBundle /\ Captured' = NoBundle
      BY <1>1, <2>1, <2>2 DEF Captured, BackupInv, BundleIsOneMoment, Stored
    <3> QED
      BY <2>1, <3>1 DEF Promise!Forget
  <2>3. CASE tool \notin {"copy", "sealed"}
    <3>1. UNCHANGED Captured
      BY <2>1, <2>3 DEF Captured, BackupInv, BundleIsOneMoment
    <3> QED
      BY <2>1, <3>1
  <2> QED
    BY <2>2, <2>3
<1>6. CASE StartBackup \/ CopyEntry \/ SealBundle
  <2>1. UNCHANGED <<bundle, Captured>>
    BY <1>1, <1>6
    DEF StartBackup, CopyEntry, SealBundle, Captured, archived, Stored
  <2> QED
    BY <2>1
<1> QED
  BY <1>2, <1>3, <1>4, <1>5, <1>6

(* A restore is seen when it puts the catalog in its place, and again when *)
(* that has reached the disk; its rollback when the catalog goes.          *)
LEMMA RestoreStepsSeen ==
  ASSUME BackupInv, Seen, Seen', UNCHANGED <<bundle, Captured, up>>,
         \/ Stage \/ StageEntry \/ SyncStaging \/ InstallEntries \/ SyncInstalled
         \/ InstallCatalog \/ SyncCatalog \/ Undo \/ SyncRemoval
  PROVE  [Promise!Next]_(Promise!vars)
<1> USE RootFacts DEF Promise!Next, Promise!vars, Seen
<1>1. shown \in Stored /\ disk \in Stored /\ copied \in Stored
  BY DEF BackupInv, BackupTypes
<1>2. Main \notin up
  <2>1. tool \in Exclusive \/ (Stage /\ locked = Roots)
    BY DEF StageEntry, SyncStaging, InstallEntries, SyncInstalled, InstallCatalog,
           SyncCatalog, Undo, SyncRemoval, Exclusive, Restoring, Undoing, Stage, LocksComplete
  <2> QED
    BY <2>1 DEF BackupInv, RootsAreOwned, Roots
<1>3. CASE InstallCatalog
  <2>1. /\ shown.catalog = NoCatalog /\ bundle # NoBundle
        /\ copied.catalog = bundle.catalog
    BY <1>3 DEF InstallCatalog, BackupInv, RestoreIsStaged, RestoreIsUndoable, Restoring,
                Installing
  <2>2. shown'.catalog = copied.catalog /\ UNCHANGED disk
    BY <1>1, <1>3 DEF InstallCatalog, Stored
  <2> QED
    BY <1>2, <2>1, <2>2 DEF Promise!Recover
<1>4. CASE SyncCatalog \/ SyncInstalled \/ SyncRemoval
  <2>1. UNCHANGED shown /\ disk'.catalog \in {shown.catalog, disk.catalog}
    BY <1>4 DEF SyncCatalog, SyncInstalled, SyncRemoval, SyncRoot
  <2> QED
    BY <2>1 DEF Promise!Settle
<1>5. CASE Undo
  <2>1. UNCHANGED disk /\ shown'.catalog \in {shown.catalog, NoCatalog}
    BY <1>1, <1>5 DEF Undo, Stored
  <2> QED
    BY <1>2, <2>1 DEF Promise!Clear
<1>6. CASE Stage \/ StageEntry \/ SyncStaging \/ InstallEntries
  <2>1. UNCHANGED disk /\ shown'.catalog = shown.catalog
    BY <1>1, <1>6
    DEF Stage, StageEntry, CopyFromBundle, SyncStaging, InstallEntries, InstallEntry,
        storage, Stored
  <2> QED
    BY <2>1
<1> QED
  BY <1>3, <1>4, <1>5, <1>6

LEMMA PowerLossSeen ==
  ASSUME BackupInv, Seen, Seen', PowerLoss
  PROVE  [Promise!Next]_(Promise!vars)
<1>1. bundle' \in {bundle, NoBundle} /\ (posted => bundle' = bundle)
  BY DEF PowerLoss, BackupInv, BundleIsOneMoment
<1>2. /\ shown'.catalog \in {shown.catalog, disk.catalog} /\ disk' = shown'
      /\ up' = {} /\ tool' = "idle" /\ posted' = (bundle' # NoBundle)
  BY DEF PowerLoss
<1>3. Captured' = NoBundle
  BY <1>2 DEF Captured
<1>4. Captured = NoBundle => bundle' = bundle
  <2>1. tool \in {"copy", "sealed", "publishing"} => copied.catalog # NoBundle
    BY RootFacts DEF BackupInv, BackupTypes, BundleIsOneMoment, Stored
  <2>2. bundle # NoBundle => bundle.catalog # NoBundle
    BY RootFacts DEF Seen
  <2> QED
    BY <1>1, <2>1, <2>2 DEF Captured
<1>5. Published' \in IF Captured = NoBundle THEN {Published} ELSE {Published, NoBundle}
  BY <1>1, <1>4 DEF Seen
<1> QED
  BY <1>2, <1>3, <1>5 DEF Promise!Next, Promise!Crash, Seen

LEMMA StepSeen ==
  ASSUME BackupInv, BackupInv', [BackupNext]_backupVars
  PROVE  [Promise!Next]_(Promise!vars)
<1>1. Seen /\ Seen'
  BY ContentsAreCatalog, PTL
<1>2. CASE UNCHANGED backupVars
  BY <1>2
  DEF Promise!vars, backupVars, storage, work, archived, Captured, Published, Contents
<1>3. CASE StartServer \/ StopServer \/ WriteEntry \/ RetireEntry \/ EmptyRoots
  <2>1. UNCHANGED <<tool, copied, bundle, posted>>
    BY <1>3 DEF StartServer, StopServer, WriteEntry, RetireEntry, EmptyRoots, work, archived
  <2>2. UNCHANGED Captured
    BY <2>1 DEF Captured
  <2> QED
    BY <1>1, <1>3, <2>1, <2>2, ServerStepsSeen
<1>4. CASE \/ StartBackup \/ SnapshotCatalog \/ CopyEntry \/ SealBundle \/ PublishBundle
           \/ SyncParent
  <2>1. UNCHANGED storage
    BY <1>4 DEF StartBackup, SnapshotCatalog, CopyEntry, SealBundle, PublishBundle, SyncParent
  <2> QED
    BY <1>1, <1>4, <2>1, BackupStepsSeen
<1>5. CASE \/ Stage \/ StageEntry \/ SyncStaging \/ InstallEntries \/ SyncInstalled
           \/ InstallCatalog \/ SyncCatalog \/ Undo \/ SyncRemoval
  <2>1. /\ UNCHANGED <<bundle, posted, up>>
        /\ tool \notin {"copy", "sealed", "publishing"}
        /\ tool' \notin {"copy", "sealed", "publishing"}
    BY <1>5
    DEF Stage, StageEntry, CopyFromBundle, SyncStaging, InstallEntries, SyncInstalled,
        InstallCatalog, SyncCatalog, Undo, SyncRemoval, storage, archived
  <2>2. UNCHANGED Captured
    BY <2>1 DEF Captured
  <2> QED
    BY <1>1, <1>5, <2>1, <2>2, RestoreStepsSeen
<1>6. CASE Fail \/ Refuse
  <2>1. CASE Quit
    <3>1. UNCHANGED storage
      BY <2>1 DEF Quit
    <3> QED
      BY <1>1, <2>1, <3>1, BackupStepsSeen
  <2>2. CASE ~Quit
    <3>1. /\ tool \in Restoring /\ tool' = "rollback"
          /\ UNCHANGED <<storage, work, archived>>
      BY <1>6, <2>2 DEF Fail, Refuse, Restoring
    <3> QED
      BY <3>1 DEF Promise!vars, storage, work, archived, Captured, Published, Contents,
                  Restoring
  <2> QED
    BY <2>1, <2>2
<1>7. CASE LockRoot \/ StartRestore \/ EndRestore \/ Undone \/ EndFailed \/ DamageBundle
  <2>1. UNCHANGED <<storage, bundle, posted>>
    BY <1>7 DEF LockRoot, StartRestore, EndRestore, Undone, EndFailed, DamageBundle, archived
  <2>2. UNCHANGED Captured
    BY <1>7, <2>1
    DEF LockRoot, StartRestore, EndRestore, Undone, EndFailed, DamageBundle, work, Captured
  <2> QED
    BY <2>1, <2>2 DEF Promise!vars, storage, Published, Contents
<1>8. CASE PowerLoss
  BY <1>1, <1>8, PowerLossSeen
<1> QED
  BY <1>2, <1>3, <1>4, <1>5, <1>6, <1>7, <1>8 DEF BackupNext

(* Backup and restore implement the archive: what is published is the      *)
(* state of one moment, also beside servers that start and stop and if the *)
(* power fails, and a restore puts back that state in one step.            *)
THEOREM BackupRefinement == BackupSpec => RestoresWhatWasBackedUp
<1>1. BackupInit => Promise!Init
  BY DEF BackupInit, Promise!Init, Contents, Captured, Published
<1>2. BackupInv /\ BackupInv' /\ [BackupNext]_backupVars => [Promise!Next]_(Promise!vars)
  BY StepSeen
<1> QED
  BY <1>1, <1>2, BackupInvariance, PTL DEF BackupSpec, RestoresWhatWasBackedUp, Promise!Spec

(***************************************************************************)
(* Export.                                                                 *)
(***************************************************************************)
(* The runs there may be, and the entries of a page of a listing.          *)
RunRecords == [state : {"running", "finished"}, points : Nat, records : Nat]
Entries(list) == [index : Nat, summary : {list[i] : i \in 1 .. Len(list)}]

(* Where an exporter reads, and where it has read everything.              *)
Reading == {"artifacts", "runs", "points", "records"}
Ending == {"confirmed", "synced", "publishing"}

(* The project and what it was when the token was read.                    *)
ExportTypes ==
  /\ aliases \in Seq({0, 1}) /\ history \in Seq(RunRecords)
  /\ token \in Nat /\ started \in Nat /\ started <= token
  /\ step \in {"idle"} \union Reading \union Ending

(* How much of a listing is still to be read, the oldest of it.            *)
Unread(list) == IF before = 0 THEN Len(list) ELSE before + Len(page) - 1

(* The page and the cursor lie in a listing that has not changed.          *)
PageIn(list) ==
  /\ before \in Nat /\ page \in Seq(Entries(list))
  /\ before = 0 => page = <<>>
  /\ Unread(list) <= Len(list)
  /\ \A j \in 1 .. Len(page) : page[j].index = before + Len(page) - j

(* A whole listing, and what of it has been read.                          *)
AllOf(list) == {<<i, list[i]>> : i \in 1 .. Len(list)}
ReadOf(list) == {<<i, list[i]>> : i \in Unread(list) + 1 .. Len(list)}

(* What has been read while the project is the one of the beginning.       *)
ReadSoFar ==
  /\ opened = ProjectContents
  /\ step = "artifacts" =>
       PageIn(aliases) /\ part = [artifacts |-> ReadOf(aliases), runs |-> {}]
  /\ step # "artifacts" =>
       /\ PageIn(history) /\ reading \in RunRecords
       /\ part = [artifacts |-> AllOf(aliases), runs |-> ReadOf(history)]
  /\ step \in {"points", "records"} =>
       page # <<>> /\ reading.state = history[Unread(history)].state
  /\ step = "records" => reading.points = history[Unread(history)].points

(* What an export has come to, also when the project has changed since.    *)
ExportHolds ==
  /\ step # "idle" => opened \in Projects
  /\ step \in Ending => part = opened
  /\ step \in {"synced", "publishing"} => flushed
  /\ exported # NoExport => exported \in [contents : Projects, whole : {TRUE}]
  /\ step \in Reading \union {"confirmed", "synced"} => exported = NoExport
  /\ step = "publishing" => exported # NoExport /\ exported.contents = opened
  /\ kept \in BOOLEAN
  /\ kept => exported # NoExport /\ step = "idle"

(* Together: an inductive invariant.                                       *)
ExportInv ==
  /\ ExportTypes /\ ExportHolds
  /\ step \in Reading /\ token = started => ReadSoFar

(* A project is one.                                                       *)
LEMMA ContentsTyped == ExportTypes => ProjectContents \in Projects
<1> SUFFICES ASSUME ExportTypes PROVE ProjectContents \in Projects
  OBVIOUS
<1>1. \A i \in DOMAIN aliases : <<i, aliases[i]>> \in Nat \X {0, 1}
  BY DEF ExportTypes
<1>2. \A i \in DOMAIN history : <<i, history[i]>> \in Nat \X RunRecords
  BY DEF ExportTypes
<1> QED
  BY <1>1, <1>2 DEF ProjectContents, Projects, RunRecords

(* The project in the beginning, with no export of it.                     *)
LEMMA ProjectStarts == ExportInit => ExportInv
<1> SUFFICES ASSUME ExportInit PROVE ExportInv
  OBVIOUS
<1>1. aliases \in Seq({0, 1})
  <2>1. aliases \in [1 .. FirstArtifacts -> {0, 1}]
    BY DEF ExportInit
  <2> QED
    BY <2>1, ExportAssumption
<1>2. history \in Seq(RunRecords)
  <2>1. history \in [1 .. FirstRuns -> RunRecords]
    BY DEF ExportInit, Run, RunRecords
  <2> QED
    BY <2>1, ExportAssumption
<1>3. ExportTypes
  BY <1>1, <1>2 DEF ExportInit, ExportTypes
<1>4. ExportHolds
  BY DEF ExportInit, ExportHolds, Reading, Ending
<1> QED
  BY <1>3, <1>4 DEF ExportInit, ExportInv, Reading

(* What writers do shows in the token, and in nothing an exporter has.     *)
LEMMA WritersKeep ==
  ASSUME ExportInv, CreateArtifact \/ CreateRun \/ LogToRun \/ FinishRun
  PROVE  ExportInv'
<1>1. /\ token' = token + 1
      /\ UNCHANGED <<step, before, page, reading, started, opened, part, flushed,
                     exported, kept>>
  BY DEF CreateArtifact, CreateRun, LogToRun, FinishRun, Mutate, exporter, cursor, locals,
         published
<1>2. aliases \in Seq({0, 1}) /\ history \in Seq(RunRecords)
  BY DEF ExportInv, ExportTypes
<1>3. aliases' \in Seq({0, 1})
  <2>1. CASE CreateArtifact
    <3>1. Append(aliases, 0) \in Seq({0, 1})
      BY <1>2
    <3>2. [i \in DOMAIN aliases |-> 0] \in Seq({0, 1})
      <4>1. [i \in DOMAIN aliases |-> 0] \in [1 .. Len(aliases) -> {0, 1}]
        BY <1>2
      <4> QED
        BY <1>2, <4>1
    <3>3. Append([i \in DOMAIN aliases |-> 0], 1) \in Seq({0, 1})
      BY <3>2
    <3> QED
      BY <2>1, <3>1, <3>3 DEF CreateArtifact
  <2>2. CASE ~CreateArtifact
    BY <1>2, <2>2 DEF CreateRun, LogToRun, FinishRun
  <2> QED
    BY <2>1, <2>2
<1>4. history' \in Seq(RunRecords)
  <2>1. CASE CreateRun
    <3>1. Run("running", 0, 0) \in RunRecords
      BY DEF Run, RunRecords
    <3> QED
      BY <1>2, <2>1, <3>1 DEF CreateRun
  <2>2. CASE ~CreateRun
    <3>1. PICK i \in DOMAIN history :
            \E r \in {[history[i] EXCEPT !.points = @ + 1],
                      [history[i] EXCEPT !.records = @ + 1],
                      [history[i] EXCEPT !.state = "finished"]} :
              history' = [history EXCEPT ![i] = r]
      BY <2>2 DEF CreateArtifact, LogToRun, FinishRun
    <3>2. history[i] \in RunRecords
      BY <1>2
    <3>3. {[history[i] EXCEPT !.points = @ + 1], [history[i] EXCEPT !.records = @ + 1],
           [history[i] EXCEPT !.state = "finished"]} \subseteq RunRecords
      BY <3>2 DEF RunRecords
    <3>4. PICK r \in RunRecords : history' = [history EXCEPT ![i] = r]
      BY <3>1, <3>3
    <3> QED
      BY <1>2, <3>4
  <2> QED
    BY <2>1, <2>2
<1>5. ExportTypes'
  BY <1>1, <1>3, <1>4 DEF ExportInv, ExportTypes
<1>6. ExportHolds'
  BY <1>1 DEF ExportInv, ExportHolds
<1>7. ~(token = started)'
  BY <1>1 DEF ExportInv, ExportTypes
<1> QED
  BY <1>5, <1>6, <1>7 DEF ExportInv

(* A page continues the listing where the one before it ended.             *)
LEMMA PageContinues ==
  ASSUME NEW S, NEW list \in Seq(S), PageIn(list), ListPage(list)
  PROVE  /\ before' \in Nat /\ before' # 0 /\ page' \in Seq(Entries(list))
         /\ before' + Len(page') - 1 = Unread(list)
         /\ \A j \in 1 .. Len(page') : page'[j].index = before' + Len(page') - j
<1>1. PICK older : older = IF before = 0 THEN Len(list) + 1 ELSE before
  OBVIOUS
<1>2. PICK n : n = IF older - 1 < PageSize THEN older - 1 ELSE PageSize
  OBVIOUS
<1>3. /\ page = <<>> /\ before # 1 /\ before' = older - n
      /\ page' = [i \in 1 .. n |-> [index |-> older - i, summary |-> list[older - i]]]
  BY <1>1, <1>2 DEF ListPage
<1>4. before \in Nat /\ Len(list) \in Nat /\ Unread(list) <= Len(list)
  BY DEF PageIn
<1>5. older \in Nat /\ 1 <= older /\ older - 1 <= Len(list) /\ Unread(list) = older - 1
  BY <1>1, <1>3, <1>4 DEF Unread
<1>6. n \in Nat /\ n <= older - 1
  BY <1>2, <1>5, ExportAssumption
<1>7. \A i \in 1 .. n : [index |-> older - i, summary |-> list[older - i]] \in Entries(list)
  <2> TAKE i \in 1 .. n
  <2>1. older - i \in 1 .. Len(list) /\ older - i \in Nat
    BY <1>4, <1>5, <1>6
  <2> QED
    BY <2>1 DEF Entries
<1>8. page' \in Seq(Entries(list)) /\ Len(page') = n
  <2>1. page' \in [1 .. n -> Entries(list)]
    BY <1>3, <1>7
  <2> QED
    BY <1>6, <2>1
<1>9. \A j \in 1 .. n : page'[j].index = older - j
  BY <1>3
<1>10. before' \in Nat /\ before' # 0
  BY <1>3, <1>5, <1>6
<1>11. before' + Len(page') - 1 = Unread(list)
  BY <1>3, <1>5, <1>6, <1>8
<1>12. \A j \in 1 .. Len(page') : page'[j].index = before' + Len(page') - j
  BY <1>3, <1>5, <1>6, <1>8, <1>9
<1> QED
  BY <1>8, <1>10, <1>11, <1>12

(* To read the entry at the head of a page is to read the newest that was  *)
(* still to be read.                                                       *)
LEMMA EntryContinues ==
  ASSUME NEW S, NEW list \in Seq(S), PageIn(list), page # <<>>
  PROVE  /\ Head(page).index = Unread(list) /\ Unread(list) \in 1 .. Len(list)
         /\ before # 0 /\ Tail(page) \in Seq(Entries(list))
         /\ before + Len(Tail(page)) - 1 = Unread(list) - 1
         /\ \A j \in 1 .. Len(Tail(page)) :
              Tail(page)[j].index = before + Len(Tail(page)) - j
         /\ ReadOf(list) \union {<<Unread(list), list[Unread(list)]>>} =
              {<<i, list[i]>> : i \in Unread(list) .. Len(list)}
<1>1. /\ page \in Seq(Entries(list)) /\ before \in Nat /\ before # 0
      /\ Unread(list) <= Len(list) /\ Len(list) \in Nat
      /\ \A j \in 1 .. Len(page) : page[j].index = before + Len(page) - j
  BY DEF PageIn
<1>2. Len(page) \in Nat /\ 1 <= Len(page) /\ Head(page) = page[1]
  BY <1>1
<1>3. Unread(list) = before + Len(page) - 1
  BY <1>1 DEF Unread
<1>4. /\ Tail(page) \in Seq(Entries(list)) /\ Len(Tail(page)) = Len(page) - 1
      /\ \A j \in 1 .. Len(page) - 1 : Tail(page)[j] = page[j + 1]
  BY <1>1, <1>2
<1>5. Unread(list) \in 1 .. Len(list) /\ Head(page).index = Unread(list)
  BY <1>1, <1>2, <1>3
<1>6. \A j \in 1 .. Len(Tail(page)) : Tail(page)[j].index = before + Len(Tail(page)) - j
  <2> TAKE j \in 1 .. Len(Tail(page))
  <2>1. j \in 1 .. Len(page) - 1 /\ j + 1 \in 1 .. Len(page)
    BY <1>2, <1>4
  <2>2. Tail(page)[j].index = before + Len(page) - (j + 1)
    BY <1>1, <1>4, <2>1
  <2> QED
    BY <1>1, <1>2, <1>4, <2>1, <2>2
<1>7. \A i : i \in Unread(list) .. Len(list) <=>
               i = Unread(list) \/ i \in Unread(list) + 1 .. Len(list)
  BY <1>1, <1>5
<1>8. ReadOf(list) \union {<<Unread(list), list[Unread(list)]>>} =
        {<<i, list[i]>> : i \in Unread(list) .. Len(list)}
  BY <1>7, Zenon DEF ReadOf
<1> QED
  BY <1>1, <1>2, <1>3, <1>4, <1>5, <1>6, <1>8

(* At the beginning of a listing nothing of it has been read.              *)
LEMMA ListingStarts ==
  ASSUME NEW S, NEW list \in Seq(S), NewCursor
  PROVE  /\ before' = 0 /\ page' = <<>> /\ reading' \in RunRecords
         /\ {<<i, list[i]>> : i \in Len(list) + 1 .. Len(list)} = {}
<1>1. Run("finished", 0, 0) \in RunRecords
  BY DEF Run, RunRecords
<1>2. Len(list) + 1 .. Len(list) = {}
  OBVIOUS
<1> QED
  BY <1>1, <1>2 DEF NewCursor

(* With the first token the project of that moment is noted.               *)
LEMMA OpenKeeps == ASSUME ExportInv, OpenExport PROVE ExportInv'
<1>1. /\ aliases \in Seq({0, 1}) /\ history \in Seq(RunRecords)
      /\ token \in Nat /\ started' = token /\ step' = "artifacts" /\ exported = NoExport
      /\ UNCHANGED <<aliases, history, token, exported, kept>>
      /\ opened' = ProjectContents /\ part' = EmptyBundle
  BY DEF ExportInv, ExportTypes, OpenExport, project, published
<1>2. ExportTypes'
  BY <1>1 DEF ExportTypes, Reading
<1>3. ExportHolds'
  <2>1. ProjectContents \in Projects
    BY ContentsTyped DEF ExportInv
  <2>2. ~kept /\ kept \in BOOLEAN
    BY DEF ExportInv, ExportHolds, OpenExport
  <2> QED
    BY <1>1, <2>1, <2>2 DEF ExportHolds, Reading, Ending
<1>4. /\ before' = 0 /\ page' = <<>>
      /\ {<<i, aliases[i]>> : i \in Len(aliases) + 1 .. Len(aliases)} = {}
  BY <1>1, ListingStarts DEF OpenExport
<1>5. PageIn(aliases)'
  BY <1>1, <1>4 DEF PageIn, Unread
<1>6. ReadOf(aliases)' = {}
  BY <1>1, <1>4 DEF ReadOf, Unread
<1>7. ReadSoFar'
  BY <1>1, <1>5, <1>6 DEF ReadSoFar, EmptyBundle, ProjectContents
<1> QED
  BY <1>2, <1>3, <1>7 DEF ExportInv

(* Steps of an export that reads disturb only what has been read so far.   *)
LEMMA ReadingKeeps ==
  ASSUME ExportInv, step \in Reading, step' \in Reading,
         UNCHANGED <<project, started, opened, published, aborts>>
  PROVE  ExportTypes' /\ ExportHolds'
<1>1. UNCHANGED <<aliases, history, token, started, opened, exported, kept>>
  BY DEF project, published
<1>2. ExportTypes'
  BY <1>1 DEF ExportInv, ExportTypes
<1>3. ExportHolds'
  <2>1. step # "idle" /\ step' \notin Ending /\ step' # "idle"
    BY DEF Reading, Ending
  <2> QED
    BY <1>1, <2>1 DEF ExportInv, ExportHolds, Ending
<1> QED
  BY <1>2, <1>3

(* A page of artifacts: nothing more has been read yet.                    *)
LEMMA ListArtifactsKeeps == ASSUME ExportInv, ListArtifacts PROVE ExportInv'
<1>1. /\ step = "artifacts" /\ UNCHANGED <<project, step, reading, locals, published, aborts>>
      /\ ListPage(aliases)
  BY DEF ListArtifacts, ListPage
<1>2. UNCHANGED <<aliases, history, token, started, opened, part>>
  BY <1>1 DEF project, locals
<1>3. ExportTypes' /\ ExportHolds'
  BY <1>1, <1>2, ReadingKeeps DEF Reading
<1>4. ASSUME token = started PROVE ReadSoFar'
  <2>1. ReadSoFar /\ PageIn(aliases) /\ aliases \in Seq({0, 1})
    BY <1>1, <1>4 DEF ExportInv, ReadSoFar, Reading, ExportTypes
  <2>2. /\ before' \in Nat /\ before' # 0 /\ page' \in Seq(Entries(aliases))
        /\ before' + Len(page') - 1 = Unread(aliases)
        /\ \A j \in 1 .. Len(page') : page'[j].index = before' + Len(page') - j
    BY <1>1, <2>1, PageContinues
  <2>3. Unread(aliases)' = Unread(aliases)
    BY <1>2, <2>2 DEF Unread
  <2>4. PageIn(aliases)'
    BY <1>2, <2>1, <2>2, <2>3 DEF PageIn, Entries
  <2>5. ReadOf(aliases)' = ReadOf(aliases)
    BY <1>2, <2>3 DEF ReadOf
  <2> QED
    BY <1>1, <1>2, <2>1, <2>4, <2>5 DEF ReadSoFar, ProjectContents
<1> QED
  BY <1>2, <1>3, <1>4 DEF ExportInv

(* A page of runs: nothing more has been read yet.                         *)
LEMMA ListRunsKeeps == ASSUME ExportInv, ListRuns PROVE ExportInv'
<1>1. /\ step = "runs" /\ UNCHANGED <<project, step, reading, locals, published, aborts>>
      /\ ListPage(history)
  BY DEF ListRuns, ListPage
<1>2. UNCHANGED <<aliases, history, token, started, opened, part>>
  BY <1>1 DEF project, locals
<1>3. ExportTypes' /\ ExportHolds'
  BY <1>1, <1>2, ReadingKeeps DEF Reading
<1>4. ASSUME token = started PROVE ReadSoFar'
  <2>1. ReadSoFar /\ PageIn(history) /\ history \in Seq(RunRecords)
    BY <1>1, <1>4 DEF ExportInv, ReadSoFar, Reading, ExportTypes
  <2>2. /\ before' \in Nat /\ before' # 0 /\ page' \in Seq(Entries(history))
        /\ before' + Len(page') - 1 = Unread(history)
        /\ \A j \in 1 .. Len(page') : page'[j].index = before' + Len(page') - j
    BY <1>1, <2>1, PageContinues
  <2>3. Unread(history)' = Unread(history)
    BY <1>2, <2>2 DEF Unread
  <2>4. PageIn(history)'
    BY <1>2, <2>1, <2>2, <2>3 DEF PageIn, Entries
  <2>5. ReadOf(history)' = ReadOf(history) /\ AllOf(aliases)' = AllOf(aliases)
    BY <1>2, <2>3 DEF ReadOf, AllOf
  <2> QED
    BY <1>1, <1>2, <2>1, <2>4, <2>5 DEF ReadSoFar, ProjectContents
<1> QED
  BY <1>2, <1>3, <1>4 DEF ExportInv

(* The newest artifact that was still to be read is read.                  *)
LEMMA ArtifactKeeps == ASSUME ExportInv, ExportArtifact PROVE ExportInv'
<1>1. /\ step = "artifacts" /\ page # <<>> /\ page' = Tail(page)
      /\ part' = [part EXCEPT !.artifacts =
                    @ \union {<<Head(page).index, aliases[Head(page).index]>>}]
      /\ UNCHANGED <<project, step, before, reading, started, opened, flushed, published,
                     aborts>>
  BY DEF ExportArtifact
<1>2. UNCHANGED <<aliases, history, token, started, opened>>
  BY <1>1 DEF project
<1>3. ExportTypes' /\ ExportHolds'
  BY <1>1, <1>2, ReadingKeeps DEF Reading
<1>4. ASSUME token = started PROVE ReadSoFar'
  <2>1. /\ PageIn(aliases) /\ aliases \in Seq({0, 1})
        /\ opened = ProjectContents /\ part = [artifacts |-> ReadOf(aliases), runs |-> {}]
    BY <1>1, <1>4 DEF ExportInv, ReadSoFar, Reading, ExportTypes
  <2>2. /\ Head(page).index = Unread(aliases) /\ Unread(aliases) \in 1 .. Len(aliases)
        /\ before # 0 /\ Tail(page) \in Seq(Entries(aliases))
        /\ before + Len(Tail(page)) - 1 = Unread(aliases) - 1
        /\ \A j \in 1 .. Len(Tail(page)) :
              Tail(page)[j].index = before + Len(Tail(page)) - j
        /\ ReadOf(aliases) \union {<<Unread(aliases), aliases[Unread(aliases)]>>} =
             {<<i, aliases[i]>> : i \in Unread(aliases) .. Len(aliases)}
    BY <1>1, <2>1, EntryContinues
  <2>3. Unread(aliases)' = Unread(aliases) - 1
    BY <1>1, <1>2, <2>2 DEF Unread
  <2>4. Len(aliases) \in Nat /\ (Unread(aliases) - 1) + 1 = Unread(aliases)
    BY <2>1, <2>2
  <2>5. PageIn(aliases)'
    BY <1>1, <1>2, <2>1, <2>2, <2>3, <2>4 DEF PageIn, Entries
  <2>6. ReadOf(aliases)' = {<<i, aliases[i]>> : i \in Unread(aliases) .. Len(aliases)}
    BY <1>2, <2>3, <2>4 DEF ReadOf
  <2>7. part' = [artifacts |-> ReadOf(aliases)', runs |-> {}]
    BY <1>1, <2>1, <2>2, <2>6
  <2>8. opened' = ProjectContents' /\ step' = "artifacts"
    BY <1>1, <1>2, <2>1 DEF ProjectContents
  <2> QED
    BY <2>5, <2>7, <2>8 DEF ReadSoFar
<1> QED
  BY <1>2, <1>3, <1>4 DEF ExportInv

(* When no page is left, all of a listing has been read.                   *)
LEMMA ListingEnds ==
  ASSUME NEW S, NEW list \in Seq(S), PagesRead
  PROVE  ReadOf(list) = AllOf(list)
<1>1. Unread(list) + 1 = 1
  BY DEF PagesRead, Unread
<1> QED
  BY <1>1 DEF ReadOf, AllOf

(* All artifacts have been read, the runs are next.                        *)
LEMMA ArtifactsListedKeeps == ASSUME ExportInv, ArtifactsListed PROVE ExportInv'
<1>1. /\ step = "artifacts" /\ PagesRead /\ step' = "runs" /\ NewCursor
      /\ UNCHANGED <<project, locals, published, aborts>>
  BY DEF ArtifactsListed
<1>2. UNCHANGED <<aliases, history, token, started, opened, part>>
  BY <1>1 DEF project, locals
<1>3. ExportTypes' /\ ExportHolds'
  BY <1>1, <1>2, ReadingKeeps DEF Reading
<1>4. ASSUME token = started PROVE ReadSoFar'
  <2>1. /\ aliases \in Seq({0, 1}) /\ history \in Seq(RunRecords)
        /\ opened = ProjectContents /\ part = [artifacts |-> ReadOf(aliases), runs |-> {}]
    BY <1>1, <1>4 DEF ExportInv, ReadSoFar, Reading, ExportTypes
  <2>2. /\ before' = 0 /\ page' = <<>> /\ reading' \in RunRecords
        /\ {<<i, history[i]>> : i \in Len(history) + 1 .. Len(history)} = {}
    BY <1>1, <2>1, ListingStarts
  <2>3. ReadOf(aliases) = AllOf(aliases)
    BY <1>1, <2>1, ListingEnds
  <2>4. PageIn(history)'
    BY <1>2, <2>1, <2>2 DEF PageIn, Unread
  <2>5. ReadOf(history)' = {} /\ AllOf(aliases)' = AllOf(aliases)
    BY <1>2, <2>2 DEF ReadOf, Unread, AllOf
  <2> QED
    BY <1>1, <1>2, <2>1, <2>2, <2>3, <2>4, <2>5 DEF ReadSoFar, ProjectContents
<1> QED
  BY <1>2, <1>3, <1>4 DEF ExportInv

(* The run at the head of the page, while nothing has changed.             *)
LEMMA RunAtHand ==
  ASSUME ExportInv, step \in {"runs", "points", "records"}, page # <<>>, token = started
  PROVE  /\ ReadSoFar /\ PageIn(history) /\ Head(page).index = Unread(history)
         /\ Unread(history) \in DOMAIN history /\ history[Unread(history)] \in RunRecords
<1>1. ReadSoFar /\ PageIn(history) /\ history \in Seq(RunRecords)
  BY DEF ExportInv, ReadSoFar, Reading, ExportTypes
<1>2. Head(page).index = Unread(history) /\ Unread(history) \in 1 .. Len(history)
  BY <1>1, EntryContinues
<1> QED
  BY <1>1, <1>2

(* Reading the detail and the points of a run leaves the listing alone.    *)
LEMMA DetailKeeps == ASSUME ExportInv, RunDetail \/ ExportPoints PROVE ExportInv'
<1>1. /\ step \in {"runs", "points"} /\ step' \in {"points", "records"}
      /\ UNCHANGED <<project, before, page, locals, published, aborts>>
  BY DEF RunDetail, ExportPoints
<1>2. UNCHANGED <<aliases, history, token, started, opened, part, before, page>>
  BY <1>1 DEF project, locals
<1>3. ExportTypes' /\ ExportHolds'
  BY <1>1, <1>2, ReadingKeeps DEF Reading
<1>4. ASSUME token = started PROVE ReadSoFar'
  <2>1. page # <<>>
    BY <1>1, <1>4 DEF RunDetail, ExportPoints, ExportInv, ReadSoFar, Reading
  <2>2. /\ ReadSoFar /\ PageIn(history) /\ Head(page).index = Unread(history)
        /\ history[Unread(history)] \in RunRecords
    BY <1>1, <1>4, <2>1, RunAtHand
  <2>3. PICK run : run = history[Unread(history)]
    OBVIOUS
  <2>4. /\ run \in RunRecords /\ reading \in RunRecords
        /\ step = "points" => reading.state = run.state
    BY <1>1, <2>2, <2>3 DEF ReadSoFar
  <2>5. /\ reading' \in RunRecords /\ reading'.state = run.state
        /\ step' = "records" => reading'.points = run.points
    <3>1. CASE RunDetail
      <4>1. reading' = [reading EXCEPT !.state = run.state] /\ step' = "points"
        BY <2>2, <2>3, <3>1 DEF RunDetail
      <4> QED
        BY <2>4, <4>1 DEF RunRecords
    <3>2. CASE ExportPoints
      <4>1. reading' = [reading EXCEPT !.points = run.points] /\ step = "points"
        BY <2>2, <2>3, <3>2 DEF ExportPoints
      <4> QED
        BY <2>4, <4>1 DEF RunRecords
    <3> QED
      BY <3>1, <3>2
  <2>6. PageIn(history)' /\ Unread(history)' = Unread(history)
    BY <1>2, <2>2 DEF PageIn, Unread, Entries
  <2>7. ReadOf(history)' = ReadOf(history) /\ AllOf(aliases)' = AllOf(aliases)
    BY <1>2, <2>6 DEF ReadOf, AllOf
  <2>8. opened' = ProjectContents' /\ step' # "artifacts"
    BY <1>1, <1>2, <2>2 DEF ReadSoFar, ProjectContents
  <2>9. part' = [artifacts |-> AllOf(aliases)', runs |-> ReadOf(history)']
    BY <1>1, <1>2, <2>2, <2>7 DEF ReadSoFar
  <2>10. history[Unread(history)]' = run
    BY <1>2, <2>3, <2>6
  <2> QED
    BY <1>2, <2>1, <2>5, <2>6, <2>8, <2>9, <2>10 DEF ReadSoFar
<1> QED
  BY <1>2, <1>3, <1>4 DEF ExportInv

(* The newest run that was still to be read is whole.                      *)
LEMMA RecordsKeep == ASSUME ExportInv, ExportRecords PROVE ExportInv'
<1> DEFINE i == Head(page).index
<1>1. /\ step = "records" /\ page' = Tail(page) /\ step' = "runs"
      /\ part' = [part EXCEPT !.runs =
                    @ \union {<<i, [reading EXCEPT !.records = history[i].records]>>}]
      /\ UNCHANGED <<project, before, reading, started, opened, flushed, published, aborts>>
  BY DEF ExportRecords
<1>2. UNCHANGED <<aliases, history, token, started, opened, before, reading>>
  BY <1>1 DEF project
<1>3. ExportTypes' /\ ExportHolds'
  BY <1>1, <1>2, ReadingKeeps DEF Reading
<1>4. ASSUME token = started PROVE ReadSoFar'
  <2>1. page # <<>>
    BY <1>1, <1>4 DEF ExportInv, ReadSoFar, Reading
  <2>2. /\ ReadSoFar /\ PageIn(history) /\ i = Unread(history)
        /\ history[Unread(history)] \in RunRecords /\ history \in Seq(RunRecords)
    BY <1>1, <1>4, <2>1, RunAtHand DEF ExportInv, ExportTypes
  <2>3. /\ Unread(history) \in 1 .. Len(history)
        /\ before # 0 /\ Tail(page) \in Seq(Entries(history))
        /\ before + Len(Tail(page)) - 1 = Unread(history) - 1
        /\ \A j \in 1 .. Len(Tail(page)) :
              Tail(page)[j].index = before + Len(Tail(page)) - j
        /\ ReadOf(history) \union {<<Unread(history), history[Unread(history)]>>} =
             {<<k, history[k]>> : k \in Unread(history) .. Len(history)}
    BY <2>1, <2>2, EntryContinues
  <2>4. [reading EXCEPT !.records = history[i].records] = history[Unread(history)]
    <3>1. PICK run : run = history[Unread(history)]
      OBVIOUS
    <3>2. /\ run \in RunRecords /\ reading \in RunRecords
          /\ reading.state = run.state /\ reading.points = run.points
      BY <1>1, <2>2, <3>1 DEF ReadSoFar
    <3>3. [reading EXCEPT !.records = run.records] = run
      BY <3>2 DEF RunRecords
    <3> QED
      BY <2>2, <3>1, <3>3
  <2>5. Unread(history)' = Unread(history) - 1
    BY <1>1, <1>2, <2>3 DEF Unread
  <2>6. Len(history) \in Nat /\ (Unread(history) - 1) + 1 = Unread(history)
    BY <2>2, <2>3
  <2>7. PageIn(history)'
    BY <1>1, <1>2, <2>2, <2>3, <2>5, <2>6 DEF PageIn, Entries
  <2>8. ReadOf(history)' = {<<k, history[k]>> : k \in Unread(history) .. Len(history)}
    BY <1>2, <2>5, <2>6 DEF ReadOf
  <2>9. part = [artifacts |-> AllOf(aliases), runs |-> ReadOf(history)]
    BY <1>1, <2>2 DEF ReadSoFar
  <2>10. part' = [artifacts |-> AllOf(aliases), runs |-> ReadOf(history)']
    BY <1>1, <2>2, <2>3, <2>4, <2>8, <2>9
  <2>11. AllOf(aliases)' = AllOf(aliases) /\ reading' \in RunRecords
    BY <1>1, <1>2, <2>2 DEF AllOf, ReadSoFar
  <2>12. opened' = ProjectContents' /\ step' = "runs"
    BY <1>1, <1>2, <2>2 DEF ReadSoFar, ProjectContents
  <2> QED
    BY <2>7, <2>10, <2>11, <2>12 DEF ReadSoFar
<1> QED
  BY <1>2, <1>3, <1>4 DEF ExportInv

(* If the token is the first, what has been read is what there was.        *)
LEMMA ConfirmKeeps == ASSUME ExportInv, ConfirmToken PROVE ExportInv'
<1>1. /\ step = "runs" /\ PagesRead /\ token = started /\ step' = "confirmed"
      /\ UNCHANGED <<project, cursor, locals, published, aborts>>
  BY DEF ConfirmToken
<1>2. UNCHANGED <<aliases, history, token, started, opened, part, exported, kept>>
  BY <1>1 DEF project, locals, published
<1>3. part = opened
  <2>1. /\ opened = ProjectContents /\ aliases \in Seq({0, 1}) /\ history \in Seq(RunRecords)
        /\ part = [artifacts |-> AllOf(aliases), runs |-> ReadOf(history)]
    BY <1>1 DEF ExportInv, ReadSoFar, Reading, ExportTypes
  <2>2. ReadOf(history) = AllOf(history)
    BY <1>1, <2>1, ListingEnds
  <2>3. DOMAIN aliases = 1 .. Len(aliases) /\ DOMAIN history = 1 .. Len(history)
    BY <2>1
  <2> QED
    BY <2>1, <2>2, <2>3 DEF AllOf, ProjectContents
<1>4. ExportTypes'
  BY <1>1, <1>2 DEF ExportInv, ExportTypes, Ending
<1>5. ExportHolds'
  BY <1>1, <1>2, <1>3 DEF ExportInv, ExportHolds, Reading, Ending
<1> QED
  BY <1>1, <1>4, <1>5 DEF ExportInv, Reading

(* What is flushed and published is what was confirmed.                    *)
LEMMA PublishKeeps ==
  ASSUME ExportInv, SyncExport \/ PublishExport PROVE ExportInv'
<1>1. /\ step \in {"confirmed", "synced"} /\ step' \in {"synced", "publishing"}
      /\ UNCHANGED <<aliases, history, token, started, opened, part>>
  BY DEF SyncExport, PublishExport, project, locals
<1>2. ExportTypes'
  BY <1>1 DEF ExportInv, ExportTypes, Ending
<1>3. opened \in Projects /\ part = opened /\ kept \in BOOLEAN /\ exported = NoExport /\ ~kept
  BY <1>1 DEF ExportInv, ExportHolds, Ending
<1>4. ExportHolds'
  <2>1. CASE SyncExport
    BY <1>1, <1>3, <2>1 DEF SyncExport, ExportHolds, Reading, Ending, published
  <2>2. CASE PublishExport
    <3>1. flushed = TRUE
      <4>1. flushed
        BY <2>2 DEF PublishExport, ExportInv, ExportHolds
      <4> QED
        BY <4>1
    <3>2. exported' = [contents |-> part, whole |-> TRUE]
      BY <2>2, <3>1 DEF PublishExport
    <3>3. exported' \in [contents : Projects, whole : {TRUE}] /\ exported'.contents = opened
      BY <1>3, <3>2
    <3>4. exported' # NoExport
      <4>1. [contents |-> part, whole |-> TRUE] \in [contents : Projects, whole : BOOLEAN]
        BY <1>3
      <4> QED
        BY <3>2, <4>1, NoExportAssumption
    <3>5. step' = "publishing" /\ kept' = FALSE /\ flushed' = TRUE
      BY <2>2, <3>1 DEF PublishExport, locals
    <3> QED
      BY <1>1, <1>3, <3>3, <3>4, <3>5 DEF ExportHolds, Reading, Ending
  <2> QED
    BY <2>1, <2>2
<1> QED
  BY <1>1, <1>2, <1>4 DEF ExportInv, Reading

(* However an export ends, a bundle that it has published stays whole.     *)
LEMMA EndKeeps ==
  ASSUME ExportInv, EndExport \/ RefuseExport \/ FailExport \/ LosePower
  PROVE  ExportInv'
<1>1. CloseExport /\ UNCHANGED <<aliases, history, token>>
  BY DEF EndExport, RefuseExport, FailExport, LosePower, project
<1>2. ExportTypes'
  BY <1>1 DEF CloseExport, ExportInv, ExportTypes
<1>3. exported' # NoExport => exported' = exported
  BY DEF EndExport, RefuseExport, FailExport, LosePower, published, ExportInv, ExportHolds
<1>4. kept' \in BOOLEAN /\ (kept' => exported' # NoExport)
  <2>1. kept \in BOOLEAN /\ (kept => exported # NoExport)
    BY DEF ExportInv, ExportHolds
  <2>2. CASE EndExport
    BY <2>2 DEF EndExport, ExportInv, ExportHolds
  <2>3. CASE RefuseExport \/ FailExport
    BY <2>1, <2>3 DEF RefuseExport, FailExport, published
  <2>4. CASE LosePower
    <3>1. kept' = (exported' # NoExport)
      BY <2>4 DEF LosePower
    <3> QED
      BY <3>1
  <2> QED
    BY <2>2, <2>3, <2>4
<1>5. ExportHolds'
  BY <1>1, <1>3, <1>4 DEF CloseExport, ExportInv, ExportHolds, Reading, Ending
<1> QED
  BY <1>1, <1>2, <1>5 DEF ExportInv, CloseExport, Reading

(* Every step of an export or of a writer keeps the invariant.             *)
LEMMA ExportStep == ASSUME ExportInv, [ExportNext]_exportVars PROVE ExportInv'
<1>1. CASE CreateArtifact \/ CreateRun \/ LogToRun \/ FinishRun
  BY <1>1, WritersKeep
<1>2. CASE OpenExport
  BY <1>2, OpenKeeps
<1>3. CASE ListArtifacts
  BY <1>3, ListArtifactsKeeps
<1>4. CASE ExportArtifact
  BY <1>4, ArtifactKeeps
<1>5. CASE ArtifactsListed
  BY <1>5, ArtifactsListedKeeps
<1>6. CASE ListRuns
  BY <1>6, ListRunsKeeps
<1>7. CASE RunDetail \/ ExportPoints
  BY <1>7, DetailKeeps
<1>8. CASE ExportRecords
  BY <1>8, RecordsKeep
<1>9. CASE ConfirmToken
  BY <1>9, ConfirmKeeps
<1>10. CASE SyncExport \/ PublishExport
  BY <1>10, PublishKeeps
<1>11. CASE EndExport \/ RefuseExport \/ FailExport \/ LosePower
  BY <1>11, EndKeeps
<1>12. CASE UNCHANGED exportVars
  <2>1. UNCHANGED <<aliases, history, token, step, before, page, reading, started, opened,
                    part, flushed, exported, kept>>
    BY <1>12 DEF exportVars, project, exporter, cursor, locals, published
  <2>2. ExportTypes' /\ ExportHolds'
    BY <2>1 DEF ExportInv, ExportTypes, ExportHolds
  <2>3. ASSUME ReadSoFar PROVE ReadSoFar'
    <3>1. UNCHANGED <<Unread(history), Unread(aliases), AllOf(aliases), ProjectContents>>
      BY <2>1 DEF Unread, AllOf, ProjectContents
    <3>2. UNCHANGED <<ReadOf(aliases), ReadOf(history)>>
      BY <2>1, <3>1 DEF ReadOf
    <3>3. (PageIn(aliases) <=> PageIn(aliases)') /\ (PageIn(history) <=> PageIn(history)')
      BY <2>1, <3>1 DEF PageIn, Entries
    <3> QED
      BY <2>1, <2>3, <3>1, <3>2, <3>3 DEF ReadSoFar
  <2> QED
    BY <2>1, <2>2, <2>3 DEF ExportInv
<1> QED
  BY <1>1, <1>2, <1>3, <1>4, <1>5, <1>6, <1>7, <1>8, <1>9, <1>10, <1>11, <1>12
  DEF ExportNext

(* What an exporter has read lies between its cursor and the newest entry  *)
(* as long as the token is the first; what it ends with was confirmed by   *)
(* the token: an inductive invariant of an export and writers.             *)
THEOREM ExportInvariance == ExportSpec => []ExportInv
<1> QED
  BY ProjectStarts, ExportStep, PTL DEF ExportSpec
-----------------------------------------------------------------------------
(* What the archive sees of an export.                                     *)
UnderWay ==
  IF step # "idle" THEN opened
  ELSE IF exported # NoExport /\ ~kept THEN exported.contents ELSE NoExport
InPlace == IF exported = NoExport THEN NoExport ELSE exported.contents

(* Every step is one of the archive or none.                               *)
LEMMA ExportStepSeen ==
  ASSUME ExportInv, ExportInv', [ExportNext]_exportVars
  PROVE  [Bundle!Next]_(Bundle!vars)
<1>1. /\ ProjectContents \in Projects /\ ProjectContents' \in Projects
      /\ ProjectContents # NoExport /\ ProjectContents' # NoExport
  <2>1. ProjectContents \in Projects
    BY ContentsTyped DEF ExportInv
  <2>2. ProjectContents' \in Projects
    <3>1. ExportTypes' => (ProjectContents \in Projects)'
      BY ContentsTyped, PTL
    <3> QED
      BY <3>1 DEF ExportInv, Projects
  <2> QED
    BY <2>1, <2>2, NoExportAssumption
<1>2. /\ step # "idle" => opened \in Projects /\ opened # NoExport
      /\ exported # NoExport => exported.contents \in Projects /\ exported.contents # NoExport
      /\ exported' # NoExport =>
           exported'.contents \in Projects /\ exported'.contents # NoExport
      /\ kept => exported # NoExport /\ step = "idle"
      /\ step = "publishing" => exported # NoExport /\ exported.contents = opened
      /\ step \in Reading \union {"confirmed", "synced"} => exported = NoExport
  BY NoExportAssumption DEF ExportInv, ExportHolds
<1>3. CASE CreateArtifact \/ CreateRun \/ LogToRun \/ FinishRun
  <2>1. UNCHANGED <<step, opened, exported, kept>>
    BY <1>3 DEF CreateArtifact, CreateRun, LogToRun, FinishRun, Mutate, exporter, locals,
                published
  <2> QED
    BY <1>1, <2>1 DEF Bundle!Next, Bundle!Change
<1>4. CASE OpenExport
  <2>1. /\ step = "idle" /\ exported = NoExport /\ step' = "artifacts"
        /\ opened' = ProjectContents /\ UNCHANGED <<aliases, history, exported, kept>>
    BY <1>4 DEF OpenExport, project, published
  <2>2. UNCHANGED ProjectContents
    BY <2>1 DEF ProjectContents
  <2> QED
    BY <1>1, <2>1, <2>2 DEF Bundle!Next, Bundle!Capture
<1>5. CASE PublishExport
  <2>1. /\ step = "synced" /\ step' = "publishing" /\ exported'.contents = part
        /\ UNCHANGED <<aliases, history, opened>>
    BY <1>5 DEF PublishExport, project, locals
  <2>2. exported = NoExport /\ exported' # NoExport /\ part = opened /\ opened # NoExport
    BY <1>2, <2>1 DEF ExportInv, ExportHolds, Ending
  <2>3. UNCHANGED ProjectContents
    BY <2>1 DEF ProjectContents
  <2> QED
    BY <2>1, <2>2, <2>3 DEF Bundle!Next, Bundle!Publish
<1>6. CASE EndExport \/ RefuseExport \/ FailExport \/ LosePower
  <2>1. step' = "idle" /\ UNCHANGED <<aliases, history>>
    BY <1>6 DEF EndExport, RefuseExport, FailExport, LosePower, CloseExport, project
  <2>2. UNCHANGED ProjectContents
    BY <2>1 DEF ProjectContents
  <2>3. InPlace' \in {InPlace, NoExport} /\ (UnderWay = NoExport => InPlace' = InPlace)
    BY <1>2, <1>6, NoExportAssumption
    DEF EndExport, RefuseExport, FailExport, LosePower, published, InPlace, UnderWay,
        Reading, ExportInv, ExportHolds
  <2>4. UnderWay' \in {UnderWay, NoExport} /\ (UnderWay' # NoExport => InPlace' = InPlace)
    <3>1. CASE LosePower
      <4>1. kept' = (exported' # NoExport)
        BY <3>1 DEF LosePower
      <4> QED
        BY <2>1, <4>1 DEF UnderWay
    <3>2. CASE EndExport
      <4>1. kept' = TRUE
        BY <3>2 DEF EndExport
      <4> QED
        BY <2>1, <4>1 DEF UnderWay
    <3>3. CASE RefuseExport \/ FailExport
      <4>1. UNCHANGED <<exported, kept>> /\ step # "idle" /\ ~kept
        BY <1>2, <3>3 DEF RefuseExport, FailExport, published
      <4>2. exported # NoExport => exported.contents = opened
        BY <1>2, <4>1 DEF ExportInv, ExportTypes, Ending
      <4> QED
        BY <2>1, <4>1, <4>2 DEF UnderWay, InPlace
    <3> QED
      BY <1>6, <3>1, <3>2, <3>3
  <2> QED
    BY <2>2, <2>3, <2>4 DEF Bundle!Next, Bundle!Forget, Bundle!vars, InPlace, UnderWay
<1>7. CASE \/ ListArtifacts \/ ExportArtifact \/ ArtifactsListed \/ ListRuns \/ RunDetail
           \/ ExportPoints \/ ExportRecords \/ ConfirmToken \/ SyncExport
  <2>1. /\ UNCHANGED <<aliases, history, opened, exported, kept>>
        /\ step # "idle" /\ step' # "idle"
    BY <1>7
    DEF ListArtifacts, ExportArtifact, ArtifactsListed, ListRuns, ListPage, RunDetail,
        ExportPoints, ExportRecords, ConfirmToken, SyncExport, project, locals, published
  <2> QED
    BY <2>1 DEF Bundle!vars, ProjectContents
<1>8. CASE UNCHANGED exportVars
  BY <1>8 DEF exportVars, project, exporter, locals, published, Bundle!vars, ProjectContents
<1> QED
  BY <1>3, <1>4, <1>5, <1>6, <1>7, <1>8 DEF ExportNext

(* An export implements the archive: a bundle is the project as it was at  *)
(* one moment, however writers change it while it is read page by page,    *)
(* and however an export ends or the power fails.                          *)
THEOREM ExportRefinement == ExportSpec => ExportsOneMoment
<1>1. ExportInit => Bundle!Init
  <2> SUFFICES ASSUME ExportInit PROVE Bundle!Init
    OBVIOUS
  <2>1. ProjectContents \in Projects
    BY ProjectStarts, ContentsTyped DEF ExportInv
  <2> QED
    BY <2>1 DEF ExportInit, Bundle!Init
<1>2. ExportInv /\ ExportInv' /\ [ExportNext]_exportVars => [Bundle!Next]_(Bundle!vars)
  BY ExportStepSeen
<1> QED
  BY <1>1, <1>2, ExportInvariance, PTL DEF ExportSpec, ExportsOneMoment, Bundle!Spec
=============================================================================
