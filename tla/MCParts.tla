------------------------------ MODULE MCParts ------------------------------
(* Six parts that share no state: the choice of segments to compact, the   *)
(* physical backup, the export, the preview of a run's metrics, the        *)
(* registry of artifacts and what requests wait for.  A behaviour is one   *)
(* of theirs.                                                              *)
EXTENDS CompactionPolicy, BackupRestore, Export,
        MetricPreview, ArtifactRegistry, RequestPaths

VARIABLE part_of_system

transfers == <<backupVars, exportVars>>
records == <<previewVars, registryVars>>
partVars == <<part_of_system, vars, transfers, records, requestVars>>

PartsInit ==
  /\ part_of_system \in
       {"policy", "backup", "export", "preview", "registry", "requests"}
  /\ Init /\ BackupInit /\ ExportInit
  /\ PreviewInit /\ RegistryInit /\ RequestsInit

PartsNext ==
  /\ UNCHANGED part_of_system
  /\ \/ part_of_system = "policy" /\ Next
          /\ UNCHANGED <<transfers, records, requestVars>>
     \/ part_of_system = "backup" /\ BackupNext
          /\ UNCHANGED <<vars, exportVars, records, requestVars>>
     \/ part_of_system = "export" /\ ExportNext
          /\ UNCHANGED <<vars, backupVars, records, requestVars>>
     \/ part_of_system = "preview" /\ PreviewNext
          /\ UNCHANGED <<vars, transfers, registryVars, requestVars>>
     \/ part_of_system = "registry" /\ RegistryNext
          /\ UNCHANGED <<vars, transfers, previewVars, requestVars>>
     \/ part_of_system = "requests" /\ RequestsNext
          /\ UNCHANGED <<vars, transfers, records>>

PartsSpec == PartsInit /\ [][PartsNext]_partVars

(* Beside the server there is one that shares only the blobs with it.      *)
OneSharesBlobs == [s \in Servers |-> IF s = Main THEN Roots ELSE {"blobs"}]

(* Every pool of the server has one worker.                                *)
OneEach == [p \in Pools |-> 1]

(* The number of the first point is read as it is, that of the second as   *)
(* another one which is kept; that of the third takes two readings.        *)
LoggedNumbers == <<"exact", "long", "longer">>
ReadNumbers == [n \in {"exact", "long", "longer"} |->
                  IF n = "longer" THEN "long" ELSE "exact"]

(* Requests do not differ.                                                 *)
Interchangeable == Permutations(Requests)
=============================================================================
