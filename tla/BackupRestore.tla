--------------------------- MODULE BackupRestore ---------------------------
(***************************************************************************)
(* backup.py: the physical backup of the three storage roots into a bundle *)
(* and its restore, beside the servers that own the roots and under power  *)
(* loss.  What it promises is module Archive.                              *)
(*                                                                         *)
(* A root is the set of its top-level entries.  The file system shows one  *)
(* state and another is on disk: a rename or a removal reaches the disk    *)
(* when the directory it took place in is synced, and on a power loss it   *)
(* may or may not have reached it before.  An entry is a tree of its own:  *)
(* it is solid once its tree has been synced.                              *)
(***************************************************************************)
EXTENDS Naturals, FiniteSets

CONSTANTS
  MetricFiles,  \* the entries of the metrics root
  BlobFiles,    \* the entries of the blobs root
  Servers,      \* the server of the three roots and others that share some
  RootsOf,      \* the roots a server is configured with
  Main,         \* the server of this catalog
  NoCatalog,
  NoBundle,
  MaxMishaps    \* bound: failures, losses of power and damage to the bundle

Files == MetricFiles \union BlobFiles
Bundles == [catalog : SUBSET Files, files : SUBSET Files, whole : BOOLEAN]
Roots == {"data", "metrics", "blobs"}

ASSUME RootsAssumption ==
  /\ MetricFiles \intersect BlobFiles = {} /\ "catalog" \notin Files
  /\ Main \in Servers /\ RootsOf \in [Servers -> SUBSET Roots]
  /\ RootsOf[Main] = Roots
  /\ \A named \in SUBSET Files : NoCatalog # named /\ NoBundle # named
  /\ IsFiniteSet(Files)
  /\ \A b \in Bundles : NoBundle # b
  /\ MaxMishaps \in Nat
  /\ \A s \in Servers \ {Main} : "data" \notin RootsOf[s]

VARIABLES
  shown,      \* what the file system shows: the catalog, by the entries it names, and the entries
  disk,       \* what is on disk for sure
  solid,      \* the entries whose trees are whole and on disk
  up,         \* the servers that run
  locked,     \* the roots whose lock the tool holds
  tool,       \* where the tool stands
  copied,     \* what is in its partial bundle or in its staging directories
  treeSynced, \* has _fsync_directory_tree run over it?
  committed,  \* what a restore has installed: entries and "catalog"
  removed,    \* the root a rollback has removed something from, not yet synced
  found,      \* bookkeeping: what was on disk when a restore began
  stuck,      \* bookkeeping: what its rollback could not remove
  bundle,     \* the published bundle
  posted,     \* has the directory it is in been synced?
  bad,        \* the entries of the bundle, or "catalog", that no longer read as written
  unlisted,   \* the entries whose inventory line is lost
  mishaps

storage == <<shown, disk, solid, up>>
noted == <<found, stuck>>
work == <<copied, treeSynced, committed, removed, noted>>
archived == <<bundle, posted, bad, unlisted>>
backupVars == <<storage, work, archived, locked, tool, mishaps>>

Nothing == [catalog |-> NoCatalog, files |-> {}]

BackupInit ==
  /\ shown = [catalog |-> {}, files |-> {}] /\ disk = shown /\ solid = {}
  /\ up = {} /\ locked = {} /\ tool = "idle"
  /\ copied = Nothing /\ treeSynced = FALSE /\ committed = {} /\ removed = {}
  /\ found = Nothing /\ stuck = {}
  /\ bundle = NoBundle /\ posted = FALSE /\ bad = {} /\ unlisted = {} /\ mishaps = 0

(***************************************************************************)
(* The servers.                                                            *)
(***************************************************************************)
(* acquire_storage_locks; Catalog::open creates a catalog.                 *)
StartServer ==
  /\ \E s \in Servers \ up :
       /\ RootsOf[s] \intersect (locked \union UNION {RootsOf[o] : o \in up}) = {}
       /\ up' = up \union {s}
       /\ IF s = Main /\ shown.catalog = NoCatalog
            THEN /\ shown' = [shown EXCEPT !.catalog = {}]
                 /\ disk' = [disk EXCEPT !.catalog = {}]
            ELSE UNCHANGED <<shown, disk>>
  /\ UNCHANGED <<solid, work, archived, locked, tool, mishaps>>

StopServer ==
  /\ \E s \in up : up' = up \ {s}
  /\ UNCHANGED <<shown, disk, solid, work, archived, locked, tool, mishaps>>

RootOf(f) == IF f = "catalog" THEN "data" ELSE IF f \in MetricFiles THEN "metrics" ELSE "blobs"

(* A server writes an entry and, if the catalog is its own, a row for it,  *)
(* in this order and durably; the commit syncs the catalog as it is.       *)
WriteEntry ==
  /\ \E s \in up, f \in Files \ shown.files :
       /\ RootOf(f) \in RootsOf[s]
       /\ shown' = [shown EXCEPT !.files = @ \union {f},
                    !.catalog = IF s = Main THEN @ \union {f} ELSE @]
       /\ disk' = [disk EXCEPT !.files = @ \union {f},
                  !.catalog = IF s = Main THEN shown'.catalog ELSE @]
       /\ solid' = solid \union {f}
  /\ UNCHANGED <<up, work, archived, locked, tool, mishaps>>

(* Compaction retires a segment; its file is removed then or later, and    *)
(* this is not synced.                                                     *)
RetireEntry ==
  /\ \E f \in MetricFiles \intersect shown.files :
       /\ Main \in up /\ f \in shown.catalog
       /\ \E rest \in {shown.files, shown.files \ {f}} :
            shown' = [catalog |-> shown.catalog \ {f}, files |-> rest]
       /\ disk' = [disk EXCEPT !.catalog = shown'.catalog]
       /\ UNCHANGED <<solid, up>>
  /\ UNCHANGED <<work, archived, locked, tool, mishaps>>

(* Before the next restore the roots are emptied by hand.                  *)
EmptyRoots ==
  /\ up = {} /\ tool = "idle"
  /\ shown' = Nothing /\ disk' = Nothing
  /\ UNCHANGED <<solid, up, work, archived, locked, tool, mishaps>>

(***************************************************************************)
(* The locks.  They are taken one by one; one that another process holds   *)
(* ends the command.                                                       *)
(***************************************************************************)
LocksComplete == locked = Roots

LockRoot ==
  /\ tool \in {"backup", "restore"} /\ ~LocksComplete
  /\ \E r \in Roots \ locked :
       /\ r \notin UNION {RootsOf[s] : s \in up}
       /\ locked' = locked \union {r}
  /\ UNCHANGED <<storage, work, archived, tool, mishaps>>

(***************************************************************************)
(* backup_storage.                                                         *)
(***************************************************************************)
Clean ==
  /\ copied' = Nothing /\ treeSynced' = FALSE /\ committed' = {} /\ removed' = {}
  /\ found' = Nothing /\ stuck' = {}

StartBackup ==
  /\ tool = "idle" /\ bundle = NoBundle /\ shown.catalog # NoCatalog
  /\ tool' = "backup" /\ Clean
  /\ UNCHANGED <<storage, archived, locked, mishaps>>

(* Mutant: the locks are held for the catalog only.                        *)
SnapshotUnlocked ==
  /\ tool = "backup" /\ LocksComplete
  /\ copied' = [copied EXCEPT !.catalog = shown.catalog]
  /\ tool' = "copy" /\ locked' = {}
  /\ UNCHANGED <<storage, archived, mishaps, treeSynced, committed, removed, noted>>

(* _backup_sqlite.                                                         *)
SnapshotCatalog ==
  /\ tool = "backup" /\ LocksComplete
  /\ copied' = [copied EXCEPT !.catalog = shown.catalog]
  /\ tool' = "copy"
  /\ UNCHANGED <<storage, archived, locked, mishaps, treeSynced, committed, removed, noted>>

CopyEntry ==
  /\ tool = "copy"
  /\ \E f \in shown.files \ copied.files :
       copied' = [copied EXCEPT !.files = @ \union {f}]
  /\ UNCHANGED <<storage, archived, locked, tool, mishaps, treeSynced, committed, removed, noted>>

(* Inventory, manifest and _fsync_directory_tree; the locks are released.  *)
SealBundle ==
  /\ tool = "copy" /\ shown.files \subseteq copied.files
  /\ treeSynced' = TRUE /\ locked' = {} /\ tool' = "sealed"
  /\ UNCHANGED <<storage, archived, mishaps, copied, committed, removed, noted>>

PublishBundle ==
  /\ tool = "sealed"
  /\ bundle' = [catalog |-> copied.catalog, files |-> copied.files, whole |-> treeSynced]
  /\ posted' = FALSE /\ bad' = {} /\ unlisted' = {}
  /\ tool' = "publishing"
  /\ UNCHANGED <<storage, work, locked, mishaps>>

SyncParent ==
  /\ tool = "publishing"
  /\ posted' = TRUE /\ tool' = "idle" /\ Clean
  /\ UNCHANGED <<storage, bundle, bad, unlisted, locked, mishaps>>

(***************************************************************************)
(* restore_storage.                                                        *)
(***************************************************************************)
(* _read_manifest comes before the locks.                                  *)
StartRestore ==
  /\ tool = "idle" /\ bundle # NoBundle
  /\ tool' = "restore" /\ Clean
  /\ UNCHANGED <<storage, archived, locked, mishaps>>

(* _require_empty_destination.                                             *)
RootsEmpty == shown = Nothing

Stage ==
  /\ tool = "restore" /\ LocksComplete /\ RootsEmpty
  /\ tool' = "stage" /\ found' = disk
  /\ UNCHANGED <<storage, copied, treeSynced, committed, removed, stuck, archived, locked,
                 mishaps>>

Listed == bundle.files \ unlisted

(* A copy is synced; it is whole if what was read is what was written.     *)
CopyFromBundle(f) ==
  /\ copied' = [copied EXCEPT !.files = @ \union {f}]
  /\ solid' = IF f \in bad THEN solid \ {f} ELSE solid \union {f}
  /\ UNCHANGED <<shown, disk, up, archived, locked, tool, mishaps, treeSynced, committed,
                 removed, noted>>

(* _copy_verified_bundle_file; a bad file fails the restore.               *)
StageEntry ==
  tool = "stage" /\ \E f \in Listed \ (copied.files \union bad) : CopyFromBundle(f)

(* The inventory is read to its end and its totals are the manifest's.     *)
AllStaged == copied.files = Listed /\ Cardinality(copied.files) = Cardinality(bundle.files)

SyncStaging ==
  /\ tool = "stage" /\ AllStaged /\ "catalog" \notin bad
  /\ copied' = [copied EXCEPT !.catalog = bundle.catalog]
  /\ treeSynced' = TRUE /\ tool' = "metrics"
  /\ UNCHANGED <<storage, archived, locked, mishaps, committed, removed, noted>>

(* os.replace of one entry into its root.                                  *)
InstallEntry(entries) ==
  \E f \in (copied.files \intersect entries) \ committed :
    /\ shown' = [shown EXCEPT !.files = @ \union {f}]
    /\ solid' = IF treeSynced THEN solid ELSE solid \ {f}
    /\ committed' = committed \union {f}

(* What _fsync_directory of a root makes durable.                          *)
SyncRoot(root) ==
  disk' = [catalog |-> IF root = "data" THEN shown.catalog ELSE disk.catalog,
           files |-> {f \in shown.files \union disk.files :
                        f \in IF RootOf(f) = root THEN shown.files ELSE disk.files}]

EntriesOf(root) == IF root = "metrics" THEN MetricFiles ELSE BlobFiles

InstallEntries ==
  /\ tool \in {"metrics", "blobs"} /\ InstallEntry(EntriesOf(tool))
  /\ UNCHANGED <<disk, up, archived, locked, tool, mishaps, copied, treeSynced, removed,
                 noted>>

SyncInstalled ==
  /\ tool \in {"metrics", "blobs"}
  /\ (copied.files \intersect EntriesOf(tool)) \subseteq committed
  /\ SyncRoot(tool)
  /\ tool' = IF tool = "metrics" THEN "blobs" ELSE "catalog"
  /\ UNCHANGED <<shown, solid, up, work, archived, locked, mishaps>>

InstallCatalog ==
  /\ tool = "catalog"
  /\ shown' = [shown EXCEPT !.catalog = copied.catalog]
  /\ committed' = committed \union {"catalog"} /\ tool' = "data"
  /\ UNCHANGED <<disk, solid, up, archived, locked, mishaps, copied, treeSynced, removed,
                 noted>>

SyncCatalog ==
  /\ tool = "data" /\ SyncRoot("data") /\ tool' = "verify"
  /\ UNCHANGED <<shown, solid, up, work, archived, locked, mishaps>>

(* The last _verify_sqlite; staging is removed, the locks are released.    *)
EndRestore ==
  /\ tool = "verify"
  /\ tool' = "idle" /\ locked' = {} /\ Clean
  /\ UNCHANGED <<storage, archived, mishaps>>

(***************************************************************************)
(* Commands that fail.                                                     *)
(***************************************************************************)
(* Before a restore has installed anything only the copy is removed, and   *)
(* after a backup is published not even that.                              *)
Quit ==
  /\ tool \in {"backup", "copy", "sealed", "publishing", "restore"}
  /\ tool' = "idle" /\ locked' = {} /\ Clean
  /\ UNCHANGED <<storage, archived>>

Restoring == {"stage", "metrics", "blobs", "catalog", "data", "verify"}

Fail ==
  /\ mishaps < MaxMishaps /\ mishaps' = mishaps + 1
  /\ \/ Quit
     \/ /\ tool \in Restoring /\ tool' = "rollback"
        /\ UNCHANGED <<storage, work, archived, locked>>

(* A lock is taken, the roots are not empty, the bundle is not as written. *)
Refuse ==
  /\ \/ /\ tool \in {"backup", "restore"}
        /\ (Roots \ locked) \intersect UNION {RootsOf[s] : s \in up} # {}
        /\ Quit
     \/ tool = "restore" /\ LocksComplete /\ ~RootsEmpty /\ Quit
     \/ /\ tool = "stage" /\ bad \union unlisted # {}
        /\ tool' = "rollback"
        /\ UNCHANGED <<storage, work, archived, locked>>
  /\ UNCHANGED mishaps

Rank(x) == CASE RootOf(x) = "data" -> 3 [] RootOf(x) = "blobs" -> 2 [] OTHER -> 1

(* Mutant: in any order.                                                   *)
AnyOrder(x) == x \in committed

(* What was installed is removed in the reverse order.                     *)
IsNext(x) == x \in committed /\ \A y \in committed : Rank(y) <= Rank(x)

(* Mutant: what is removed is not synced before the next.                  *)
UndoUnsynced ==
  /\ tool = "rollback"
  /\ \E x \in committed :
       /\ IsNext(x)
       /\ shown' = IF x = "catalog" THEN [shown EXCEPT !.catalog = NoCatalog]
                   ELSE [shown EXCEPT !.files = @ \ {x}]
       /\ solid' = solid \ {x}
       /\ committed' = committed \ {x} /\ removed' = {RootOf(x)}
  /\ UNCHANGED <<disk, up, archived, locked, tool, copied, treeSynced, noted, mishaps>>

(* Each removal is synced before the next.  A tree goes file by file;      *)
(* rmtree ignores what it cannot remove and leaves the rest.               *)
Undo ==
  /\ tool = "rollback" /\ removed = {}
  /\ \E x \in committed :
       /\ IsNext(x)
       /\ \/ /\ shown' = IF x = "catalog" THEN [shown EXCEPT !.catalog = NoCatalog]
                         ELSE [shown EXCEPT !.files = @ \ {x}]
             /\ UNCHANGED <<stuck, mishaps>>
          \/ /\ x # "catalog" /\ mishaps < MaxMishaps /\ mishaps' = mishaps + 1
             /\ stuck' = stuck \union {x} /\ UNCHANGED shown
       /\ solid' = solid \ {x}
       /\ committed' = committed \ {x} /\ removed' = {RootOf(x)}
  /\ UNCHANGED <<disk, up, archived, locked, tool, copied, treeSynced, found>>

SyncRemoval ==
  /\ tool = "rollback"
  /\ \E root \in removed : SyncRoot(root)
  /\ removed' = {}
  /\ UNCHANGED <<shown, solid, up, archived, locked, tool, mishaps, copied, treeSynced,
                 committed, noted>>

Undone ==
  /\ tool = "rollback" /\ committed = {} /\ removed = {}
  /\ tool' = "undone"
  /\ UNCHANGED <<storage, work, archived, locked, mishaps>>

(* The end of a restore that failed, or whose rollback did.                *)
EndFailed ==
  /\ \/ tool = "undone" /\ UNCHANGED mishaps
     \/ tool = "rollback" /\ mishaps < MaxMishaps /\ mishaps' = mishaps + 1
  /\ tool' = "idle" /\ locked' = {} /\ Clean
  /\ UNCHANGED <<storage, archived>>

(* Every process is gone, the locks with them.                             *)
PowerLoss ==
  /\ mishaps < MaxMishaps /\ mishaps' = mishaps + 1
  /\ \E files \in SUBSET (shown.files \union disk.files),
        catalog \in {shown.catalog, disk.catalog} :
       /\ shown.files \intersect disk.files \subseteq files
       /\ shown' = [catalog |-> catalog, files |-> files \intersect solid]
  /\ disk' = shown' /\ UNCHANGED solid
  /\ up' = {} /\ locked' = {} /\ tool' = "idle" /\ Clean
  /\ IF bundle = NoBundle THEN UNCHANGED bundle
     ELSE LET left == IF bundle.whole THEN bundle ELSE [bundle EXCEPT !.files = {}]
          IN bundle' \in IF posted THEN {left} ELSE {left, NoBundle}
  /\ posted' = (bundle' # NoBundle) /\ UNCHANGED <<bad, unlisted>>

(* The medium of the bundle loses something.                               *)
DamageBundle ==
  /\ mishaps < MaxMishaps /\ mishaps' = mishaps + 1
  /\ bundle # NoBundle
  /\ \E f \in bundle.files \union {"catalog"} :
       \/ bad' = bad \union {f} /\ UNCHANGED unlisted
       \/ f # "catalog" /\ unlisted' = unlisted \union {f} /\ UNCHANGED bad
  /\ UNCHANGED <<storage, work, bundle, posted, locked, tool>>

BackupNext ==
  \/ StartServer \/ StopServer \/ WriteEntry \/ RetireEntry \/ EmptyRoots
  \/ LockRoot \/ StartBackup \/ SnapshotCatalog \/ CopyEntry \/ SealBundle
  \/ PublishBundle \/ SyncParent
  \/ StartRestore \/ Stage \/ StageEntry \/ SyncStaging \/ InstallEntries
  \/ SyncInstalled \/ InstallCatalog \/ SyncCatalog \/ EndRestore
  \/ Fail \/ Refuse \/ Undo \/ SyncRemoval \/ Undone \/ EndFailed
  \/ PowerLoss \/ DamageBundle

BackupSpec == BackupInit /\ [][BackupNext]_backupVars
-----------------------------------------------------------------------------
(* The catalog never names an entry that is not there whole: not while a   *)
(* restore installs or undoes, not after the power was lost at any moment  *)
(* of it, and not while servers and tools start beside each other.         *)
CatalogNamesFiles ==
  shown.catalog # NoCatalog => shown.catalog \subseteq shown.files \intersect solid

(* A restore that failed, at whatever step, leaves the roots as empty as   *)
(* it found them, on disk as well, so that it can be tried again; but for  *)
(* the trees that could not be removed, which no catalog names.            *)
FailedRestoreIsUndone ==
  tool = "undone" =>
    /\ shown.catalog = NoCatalog /\ disk.catalog \in {NoCatalog, found.catalog}
    /\ shown.files \subseteq stuck /\ disk.files \subseteq found.files \union stuck

(* A backup is the state of one moment and a restore puts back that state, *)
(* in one step, as servers see it.                                         *)
Broken == {"catalog"}

Contents(state) ==
  IF state.catalog = NoCatalog \/ state.catalog \subseteq state.files
    THEN state.catalog ELSE Broken

Captured ==
  IF tool \in {"copy", "sealed", "publishing"} THEN copied.catalog
  ELSE IF bundle # NoBundle /\ ~posted THEN bundle.catalog ELSE NoBundle

Published == IF bundle = NoBundle THEN NoBundle ELSE Contents(bundle)

Promise == INSTANCE Archive WITH
  States <- SUBSET Files, Empty <- NoCatalog, None <- NoBundle,
  store <- Contents(shown), lasting <- disk.catalog, running <- Main \in up,
  captured <- Captured, archive <- Published

RestoresWhatWasBackedUp == Promise!Spec
=============================================================================
