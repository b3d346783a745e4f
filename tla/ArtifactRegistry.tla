-------------------------- MODULE ArtifactRegistry --------------------------
(***************************************************************************)
(* Catalog::create_artifact: the versions and aliases of one collection.   *)
(* The SDK lets the catalog number its versions; the W&B importer gives    *)
(* each artifact the version it had, and its uploads run concurrently.     *)
(* Any request may come again, long after it was first handled.            *)
(***************************************************************************)
EXTENDS Naturals, FiniteSets

CONSTANTS
  Artifacts,   \* IDs
  Aliases,
  Runs,        \* that log to the collection
  MaxVersion   \* MAX_JSON_SAFE_INTEGER

ASSUME RegistryAssumption ==
  IsFiniteSet(Artifacts) /\ IsFiniteSet(Aliases) /\ MaxVersion \in Nat

Versions == 0 .. MaxVersion
NextVersion == MaxVersion + 1  \* a request that names no version
NoRequest == [run |-> {}, version |-> 0, aliases |-> {}]
NoVersion == MaxVersion + 2

Requested == [run : {{run} : run \in Runs},
              version : Versions \union {NextVersion}, aliases : SUBSET Aliases]

VARIABLES
  asked,     \* CreateArtifactRequest of each ID; an ID is used for one only
  version,   \* artifact_versions
  names,     \* artifact_aliases: an ID or none, as a set
  finished   \* the runs that have finished

registryVars == <<asked, version, names, finished>>

RegistryInit ==
  /\ asked = [a \in Artifacts |-> NoRequest]
  /\ version = [a \in Artifacts |-> NoVersion]
  /\ names = [alias \in Aliases |-> {}]
  /\ finished = {}

Registered == {a \in Artifacts : version[a] # NoVersion}
Taken == {version[a] : a \in Registered}

(* A client makes up an ID and a request, to send it once or many times.   *)
AskForArtifact(a) ==
  /\ asked[a] = NoRequest
  /\ \E r \in Requested : asked' = [asked EXCEPT ![a] = r]
  /\ UNCHANGED <<version, names, finished>>

NewVersion(a) ==
  IF asked[a].version # NextVersion
    THEN asked[a].version
    ELSE CHOOSE v \in 0 .. NextVersion :
           (\A w \in Taken : w < v) /\ (v = 0 \/ v - 1 \in Taken)

(* Mutant: whoever registers last takes its aliases.                       *)
NamesLatest(a) ==
  [alias \in Aliases |-> IF alias \in asked[a].aliases THEN {a} ELSE names[alias]]

(* An alias moves forward only.                                            *)
NamesWith(a) ==
  [alias \in Aliases |->
     IF alias \in asked[a].aliases /\ \A b \in names[alias] : version[b] < NewVersion(a)
       THEN {a} ELSE names[alias]]

(* create_artifact.  A repeated request changes nothing, one for a version *)
(* that is taken is refused, and so is one of a finished run.              *)
CreateVersion(a) ==
  /\ asked[a] # NoRequest /\ asked[a].run \intersect finished = {}
  /\ a \notin Registered
  /\ NewVersion(a) \in Versions \ Taken
  /\ version' = [version EXCEPT ![a] = NewVersion(a)]
  /\ names' = NamesWith(a)
  /\ UNCHANGED <<asked, finished>>

FinishWriter(run) ==
  /\ run \notin finished /\ finished' = finished \union {run}
  /\ UNCHANGED <<asked, version, names>>

RegistryNext ==
  \/ \E a \in Artifacts : AskForArtifact(a) \/ CreateVersion(a)
  \/ \E run \in Runs : FinishWriter(run)

RegistrySpec == RegistryInit /\ [][RegistryNext]_registryVars
-----------------------------------------------------------------------------
(* In whatever order uploads and retries register the versions, an alias   *)
(* names the newest of those that asked for it, and a version that did not *)
(* ask never bears one.                                                    *)
AliasesNameTheNewest ==
  \A alias \in Aliases :
    LET bearers == {a \in Registered : alias \in asked[a].aliases}
    IN names[alias] = {a \in bearers : \A b \in bearers : version[b] <= version[a]}
=============================================================================
