------------------------------- MODULE Export -------------------------------
(***************************************************************************)
(* exporter.py: the export of one project through the API, page by page,   *)
(* while writers may change the project.  What it promises is module       *)
(* Archive, with the project as the store.                                 *)
(*                                                                         *)
(* The artifacts are versions of one collection: each is 1 if it holds the *)
(* collection's alias and 0 if not.  A run is its state and how many points *)
(* and how many other records (alerts, rich values, links) it has.  Blobs  *)
(* do not change and go with what names them.                              *)
(***************************************************************************)
EXTENDS Naturals, Sequences

CONSTANTS
  PageSize,      \* _PAGE_SIZE
  FirstArtifacts, \* how many artifacts and finished runs the project has
  FirstRuns,
  NoExport,
  MaxToken,      \* bound: mutations of the project
  MaxAborts      \* bound: exports that fail or are lost

ASSUME ExportAssumption ==
  /\ PageSize \in Nat \ {0} /\ FirstArtifacts \in Nat /\ FirstRuns \in Nat
  /\ MaxToken \in Nat /\ MaxAborts \in Nat

VARIABLES
  aliases,   \* the project: whether each artifact holds the alias, oldest first
  history,   \* the project: its runs, oldest first
  token,     \* the project: mutation_revision
  step,      \* where the exporter stands
  before,    \* the cursor: what is older is not listed yet; 0 before the first request
  page,      \* what is left of the page: indices and, of runs, states
  reading,   \* what has been read of the run under way
  started,   \* initial_mutation_token
  opened,    \* the project when that token was read (history variable)
  part,      \* what the partial bundle holds
  flushed,   \* has _sync_private_tree run over it?
  exported,  \* the published bundle
  kept,      \* has the directory it is in been synced?
  aborts

project == <<aliases, history, token>>
locals == <<started, opened, part, flushed>>
cursor == <<before, page, reading>>
exporter == <<step, cursor, locals>>
published == <<exported, kept>>
exportVars == <<project, exporter, published, aborts>>

EmptyBundle == [artifacts |-> {}, runs |-> {}]

Run(state, points, records) == [state |-> state, points |-> points, records |-> records]

ExportInit ==
  /\ aliases = [i \in 1 .. FirstArtifacts |-> IF i = FirstArtifacts THEN 1 ELSE 0]
  /\ history = [i \in 1 .. FirstRuns |-> Run("finished", 0, 0)]
  /\ token = 0
  /\ step = "idle" /\ before = 0 /\ page = <<>> /\ reading = Run("finished", 0, 0)
  /\ started = 0 /\ opened = NoExport
  /\ part = EmptyBundle /\ flushed = FALSE
  /\ exported = NoExport /\ kept = FALSE /\ aborts = 0

(***************************************************************************)
(* The writers.  Each mutation counts up the token in its transaction.     *)
(***************************************************************************)
Mutate ==
  /\ token < MaxToken /\ token' = token + 1
  /\ UNCHANGED <<exporter, published, aborts>>

Writable(i) == i \in DOMAIN history /\ history[i].state = "running"

(* A new version, linked to the run that made it, takes the alias from the *)
(* version that holds it, or has none.                                     *)
CreateArtifact ==
  /\ Mutate
  /\ aliases' \in {Append([i \in DOMAIN aliases |-> 0], 1), Append(aliases, 0)}
  /\ \E i \in DOMAIN history :
       Writable(i) /\ history' = [history EXCEPT ![i].records = @ + 1]

CreateRun ==
  /\ Mutate /\ UNCHANGED aliases
  /\ history' = Append(history, Run("running", 0, 0))

LogToRun ==
  /\ Mutate /\ UNCHANGED aliases
  /\ \E i \in DOMAIN history, what \in {"points", "records"} :
       Writable(i) /\ history' = [history EXCEPT ![i][what] = @ + 1]

(* A finished run stays finished.                                          *)
FinishRun ==
  /\ Mutate /\ UNCHANGED aliases
  /\ \E i \in DOMAIN history :
       Writable(i) /\ history' = [history EXCEPT ![i].state = "finished"]

(***************************************************************************)
(* export_project.                                                         *)
(***************************************************************************)
ProjectContents ==
  [artifacts |-> {<<i, aliases[i]>> : i \in DOMAIN aliases},
   runs |-> {<<i, history[i]>> : i \in DOMAIN history}]

NewCursor == before' = 0 /\ page' = <<>> /\ reading' = Run("finished", 0, 0)

(* _project_mutation_token, for the first time.                            *)
OpenExport ==
  /\ step = "idle" /\ exported = NoExport
  /\ started' = token /\ opened' = ProjectContents
  /\ part' = EmptyBundle /\ flushed' = FALSE
  /\ step' = "artifacts" /\ NewCursor
  /\ UNCHANGED <<project, published, aborts>>

(* A page of a listing, newest first, and the cursor to the next one.      *)
ListPage(list) ==
  LET older == IF before = 0 THEN Len(list) + 1 ELSE before
      n == IF older - 1 < PageSize THEN older - 1 ELSE PageSize
  IN /\ page = <<>> /\ before # 1
     /\ page' = [i \in 1 .. n |-> [index |-> older - i, summary |-> list[older - i]]]
     /\ before' = older - n
     /\ UNCHANGED <<project, step, reading, locals, published, aborts>>

PagesRead == page = <<>> /\ before = 1

ListArtifacts == step = "artifacts" /\ ListPage(aliases)

(* The detail of an artifact and the blobs it names.                       *)
ExportArtifact ==
  /\ step = "artifacts" /\ page # <<>>
  /\ LET i == Head(page).index
     IN part' = [part EXCEPT !.artifacts = @ \union {<<i, aliases[i]>>}]
  /\ page' = Tail(page)
  /\ UNCHANGED <<project, step, before, reading, started, opened, flushed, published,
                 aborts>>

ArtifactsListed ==
  /\ step = "artifacts" /\ PagesRead
  /\ step' = "runs" /\ NewCursor
  /\ UNCHANGED <<project, locals, published, aborts>>

ListRuns == step = "runs" /\ ListPage(history)

(* _finished_run_detail.                                                   *)
RunDetail ==
  /\ step = "runs" /\ page # <<>>
  /\ Head(page).summary.state = "finished"
  /\ history[Head(page).index].state = "finished"
  /\ reading' = [reading EXCEPT !.state = history[Head(page).index].state]
  /\ step' = "points"
  /\ UNCHANGED <<project, before, page, locals, published, aborts>>

(* _export_run: the metrics, then the alerts, rich values and links.       *)
ExportPoints ==
  /\ step = "points"
  /\ reading' = [reading EXCEPT !.points = history[Head(page).index].points]
  /\ step' = "records"
  /\ UNCHANGED <<project, before, page, locals, published, aborts>>

ExportRecords ==
  /\ step = "records"
  /\ LET i == Head(page).index
         run == [reading EXCEPT !.records = history[i].records]
     IN part' = [part EXCEPT !.runs = @ \union {<<i, run>>}]
  /\ page' = Tail(page) /\ step' = "runs"
  /\ UNCHANGED <<project, before, reading, started, opened, flushed, published, aborts>>

(* Mutant: the runs of the project are all finished, that is enough.       *)
ConfirmFinished ==
  /\ step = "runs" /\ PagesRead
  /\ \A i \in DOMAIN history : history[i].state = "finished"
  /\ step' = "confirmed"
  /\ UNCHANGED <<project, cursor, locals, published, aborts>>

(* The token again, after everything has been read.                        *)
ConfirmToken ==
  /\ step = "runs" /\ PagesRead /\ token = started
  /\ step' = "confirmed"
  /\ UNCHANGED <<project, cursor, locals, published, aborts>>

SyncExport ==
  /\ step = "confirmed"
  /\ flushed' = TRUE /\ step' = "synced"
  /\ UNCHANGED <<project, cursor, started, opened, part, published, aborts>>

PublishExport ==
  /\ step = "synced"
  /\ exported' = [contents |-> part, whole |-> flushed] /\ kept' = FALSE
  /\ step' = "publishing"
  /\ UNCHANGED <<project, cursor, locals, aborts>>

CloseExport ==
  /\ step' = "idle" /\ NewCursor
  /\ started' = 0 /\ opened' = NoExport /\ part' = EmptyBundle /\ flushed' = FALSE

EndExport ==
  /\ step = "publishing" /\ kept' = TRUE /\ CloseExport
  /\ UNCHANGED <<project, exported, aborts>>

(* The partial bundle is removed; one that is published stays.             *)
RefuseExport ==
  /\ \/ step = "runs" /\ PagesRead /\ token # started
     \/ /\ step = "runs" /\ page # <<>>
        /\ \/ Head(page).summary.state # "finished"
           \/ history[Head(page).index].state # "finished"
  /\ CloseExport
  /\ UNCHANGED <<project, published, aborts>>

FailExport ==
  /\ step # "idle" /\ aborts < MaxAborts /\ aborts' = aborts + 1
  /\ CloseExport
  /\ UNCHANGED <<project, published>>

(* The machine of the exporter loses power.                                *)
LosePower ==
  /\ aborts < MaxAborts /\ aborts' = aborts + 1
  /\ CloseExport
  /\ IF exported = NoExport THEN UNCHANGED exported
     ELSE LET left == IF exported.whole THEN exported
                      ELSE [exported EXCEPT !.contents = EmptyBundle]
          IN exported' \in IF kept THEN {left} ELSE {left, NoExport}
  /\ kept' = (exported' # NoExport)
  /\ UNCHANGED project

ExportNext ==
  \/ CreateArtifact \/ CreateRun \/ LogToRun \/ FinishRun
  \/ OpenExport \/ ListArtifacts \/ ExportArtifact \/ ArtifactsListed
  \/ ListRuns \/ RunDetail \/ ExportPoints \/ ExportRecords
  \/ ConfirmToken \/ SyncExport \/ PublishExport \/ EndExport
  \/ RefuseExport \/ FailExport \/ LosePower

ExportSpec == ExportInit /\ [][ExportNext]_exportVars
-----------------------------------------------------------------------------
(* A bundle is the project as it was at ONE moment, every artifact and run *)
(* of it, however writers changed it while it was read page by page, even  *)
(* if every run was finished again by the end; and once exported, it stays. *)
Projects ==
  [artifacts : SUBSET (Nat \X {0, 1}),
   runs : SUBSET (Nat \X [state : {"running", "finished"}, points : Nat, records : Nat])]

(* No bundle is neither a project nor a bundle.                            *)
ASSUME NoExportAssumption ==
  NoExport \notin Projects \union [contents : Projects, whole : BOOLEAN]

Bundle == INSTANCE Archive WITH
  States <- Projects, Empty <- NoExport, None <- NoExport,
  store <- ProjectContents, lasting <- ProjectContents, running <- TRUE,
  captured <- IF step # "idle" THEN opened
              ELSE IF exported # NoExport /\ ~kept THEN exported.contents ELSE NoExport,
  archive <- IF exported = NoExport THEN NoExport ELSE exported.contents

ExportsOneMoment == Bundle!Spec
=============================================================================
