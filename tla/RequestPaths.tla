---------------------------- MODULE RequestPaths ----------------------------
(***************************************************************************)
(* What a request of the server waits for and holds on its way through the *)
(* handlers of lib.rs: the striped locks of mutations, the permits of the  *)
(* worker pools and the metric snapshot, which the compactor takes whole.  *)
(*                                                                         *)
(* A request is the rest of its path, stage by stage.  A stage is a pair of *)
(* its kind and, of a lock, its stripe.  Some wait for a resource, others  *)
(* are                                                                     *)
(*   Catalog  an await of the catalog,                                     *)
(*   Worker   a blocking job that owns the permits and the snapshot,       *)
(*   Release  the end of a job that returns its permit,                    *)
(*   Client   bytes that come from the client or go there.                 *)
(***************************************************************************)
EXTENDS Integers, Sequences, FiniteSets, SequencesExt, Selection

CONSTANTS
  Requests,       \* requests and tasks under way at a time
  AdmissionLimit, \* REQUEST_ADMISSION_LIMIT
  MutationLocks,  \* MUTATION_LOCKS
  Workers         \* INGEST_WORKERS and so on, by pool

Pools == {"ingest", "query", "artifact", "upload"}

(* The indices of mutation_locks, in ascending order.                      *)
StripeOrder == [i \in 1 .. MutationLocks |-> i - 1]
Stripes == 0 .. MutationLocks - 1

ASSUME RequestAssumption ==
  /\ IsFiniteSet(Requests) /\ AdmissionLimit \in Nat \ {0}
  /\ MutationLocks \in Nat \ {0}
  /\ Workers \in [Pools -> Nat \ {0}]

VARIABLES
  request,   \* what each request does
  compactor  \* "idle", "waiting" for the snapshot or "exclusive" with it

requestVars == <<request, compactor>>

Pool(p) == <<p, 0>>
Snapshot == <<"snapshot", 0>>
Lock(stripe) == <<"stripe", stripe>>
Catalog == <<"catalog", 0>>
Worker == <<"worker", 0>>
Release == <<"release", 0>>
Client == <<"client", 0>>

None == [kind |-> "none", path |-> <<>>, holds |-> {}, admitted |-> FALSE]

RequestsInit == request = [r \in Requests |-> None] /\ compactor = "idle"
-----------------------------------------------------------------------------
(* Mutant: the locks in the order the handler names them.                  *)
LocksAsGiven(stripes) == [i \in 1 .. Len(stripes) |-> Lock(stripes[i])]

(* acquire_mutation_locks: in ascending order, each once.                  *)
Locks(stripes) ==
  LET order == Only(StripeOrder, ToSet(stripes))
  IN [i \in 1 .. Len(order) |-> Lock(order[i])]

(* update_config, update_summary, finish_run and create_run of a new run.  *)
DocumentPath(run) == Locks(<<run>>) \o <<Catalog>>

(* create_run of a run there is, with next_run_position: its read takes    *)
(* nothing along, so it ends with the request like an await of the catalog. *)
ResumePath(run) ==
  Locks(<<run>>) \o <<Catalog, Pool("query"), Snapshot, Catalog>>

IngestPath(run) ==
  Locks(<<run>>) \o <<Catalog, Pool("ingest"), Worker, Release, Catalog>>

(* create_alert, create_rich_value, use_artifact.                          *)
RecordPath(run, id) == Locks(<<run, id>>) \o <<Catalog>>

ArtifactPath(run, id, name) ==
  <<Pool("artifact"), Worker, Release>>
    \o Locks(<<run, id, name>>) \o <<Catalog>>

(* history, sampled_history, chart_history and its query of many runs: one *)
(* page stands for all, as they are read under one lease.                  *)
QueryPath == <<Catalog, Pool("query"), Snapshot, Catalog, Worker>>

DownloadPath == <<Catalog, Pool("artifact"), Worker, Client>>

UploadPath == <<Pool("upload"), Client, Worker>>

Paths(kind) ==
  CASE kind = "document" -> {DocumentPath(run) : run \in Stripes}
    [] kind = "resume" -> {ResumePath(run) : run \in Stripes}
    [] kind = "ingest" -> {IngestPath(run) : run \in Stripes}
    [] kind = "record" -> {RecordPath(run, id) : run, id \in Stripes}
    [] kind = "artifact" ->
         {ArtifactPath(run, id, name) : run, id, name \in Stripes}
    [] kind = "query" -> {QueryPath}
    [] kind = "download" -> {DownloadPath}
    [] kind = "upload" -> {UploadPath}

Kinds == {"document", "resume", "ingest", "record", "artifact", "query",
          "download", "upload"}
-----------------------------------------------------------------------------
Active == {r \in Requests : request[r] # None}

(* admit_api_request: no request waits for its admission.                  *)
Admit(r) ==
  /\ r \notin Active
  /\ Cardinality({q \in Requests : request[q].admitted}) < AdmissionLimit
  /\ \E kind \in Kinds : \E path \in Paths(kind) :
       request' = [request EXCEPT ![r] =
                     [kind |-> kind, path |-> path, holds |-> {}, admitted |-> TRUE]]
  /\ UNCHANGED compactor

At(r, what) == request[r].path # <<>> /\ Head(request[r].path) = what

Step(r, holds) ==
  request' = [request EXCEPT ![r].path = Tail(@), ![r].holds = holds]

Capacity(resource) == IF resource[1] \in Pools THEN Workers[resource[1]] ELSE 1

(* The snapshot is a fair lock: a waiting writer goes before new readers.  *)
Available(resource) ==
  IF resource = Snapshot
    THEN compactor = "idle"
    ELSE Cardinality({q \in Requests : resource \in request[q].holds})
           < Capacity(resource)

Resources == {Pool(p) : p \in Pools} \union {Snapshot} \union {Lock(i) : i \in Stripes}

Acquire(r) ==
  /\ \E resource \in Resources :
       At(r, resource) /\ Available(resource)
         /\ Step(r, request[r].holds \union {resource})
  /\ UNCHANGED compactor

Held(r, kinds) == {resource \in request[r].holds : resource[1] \in kinds}

Work(r) ==
  /\ \/ (At(r, Catalog) \/ At(r, Worker) \/ At(r, Client))
          /\ Step(r, request[r].holds)
     \/ At(r, Release) /\ Step(r, request[r].holds \ Held(r, Pools))
  /\ UNCHANGED compactor

(* The end of the path; what is still held is dropped with the handler.    *)
Respond(r) ==
  /\ r \in Active /\ request[r].path = <<>>
  /\ request' = [request EXCEPT ![r] = None]
  /\ UNCHANGED compactor

(* What outlives the future of a handler: the task of a batch whose run is *)
(* locked, and a job of a worker with what it owns.                        *)
Survives(r) ==
  CASE request[r].kind = "ingest" /\ Held(r, {"stripe"}) # {} ->
         [request[r] EXCEPT !.admitted = FALSE]
    [] At(r, Worker) ->
         [request[r] EXCEPT !.path = <<Worker>>, !.admitted = FALSE,
                            !.holds = Held(r, Pools \union {"snapshot"})]
    [] OTHER -> None

HangUp(r) ==
  /\ request[r].admitted
  /\ request' = [request EXCEPT ![r] = Survives(r)]
  /\ UNCHANGED compactor
-----------------------------------------------------------------------------
(* compact_once, before it removes retired files and before it swaps rows. *)
WaitForSnapshot ==
  /\ compactor = "idle" /\ compactor' = "waiting"
  /\ UNCHANGED request

HoldSnapshot ==
  /\ compactor = "waiting"
  /\ \A r \in Requests : Snapshot \notin request[r].holds
  /\ compactor' = "exclusive" /\ UNCHANGED request

ReleaseSnapshot ==
  /\ compactor = "exclusive" /\ compactor' = "idle"
  /\ UNCHANGED request

RequestsNext ==
  \/ \E r \in Requests : Admit(r) \/ Acquire(r) \/ Work(r) \/ Respond(r) \/ HangUp(r)
  \/ WaitForSnapshot \/ HoldSnapshot \/ ReleaseSnapshot

RequestsSpec == RequestsInit /\ [][RequestsNext]_requestVars
-----------------------------------------------------------------------------
(* Only a client, or another transfer that waits for one, may hold these   *)
(* up.                                                                     *)
Transferring(r) ==
  At(r, Client) \/ At(r, Pool("artifact")) \/ At(r, Pool("upload"))

CanGoOn(r) ==
  /\ r \in Active /\ ~Transferring(r)
  /\ \A resource \in Resources : At(r, resource) => Available(resource)

(* No request holds, while it waits, what another waits for in a circle,   *)
(* and none that waits for a client holds what the rest of the server      *)
(* needs: as long as there are requests other than transfers, or the       *)
(* compactor waits, one of these goes on by itself.                        *)
NoCircularWait ==
  (\E r \in Active : ~Transferring(r)) \/ compactor # "idle" =>
    \/ \E r \in Requests : CanGoOn(r)
    \/ compactor = "exclusive"
    \/ compactor = "waiting" /\ \A r \in Requests : Snapshot \notin request[r].holds
=============================================================================
