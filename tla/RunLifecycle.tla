---------------------------- MODULE RunLifecycle ----------------------------
(***************************************************************************)
(* The life of a run between its spool and the server: create, resume,     *)
(* finish, reclaim and sync, as Run and sync_spool of                      *)
(* python/src/epochdeck/_run.py perform them, with processes that end at   *)
(* any point and answers that are lost.                                    *)
(*                                                                         *)
(* Records are counted, not told apart: how one is delivered is the matter *)
(* of Delivery.  Each metric record changes the derived summary, so the    *)
(* summary of the first n of them is n; other records do not show in it.   *)
(*                                                                         *)
(* The server's JSON parser may read another number than was written       *)
(* (serde_json without its feature float_roundtrip); Python's reads the    *)
(* same.  The server reads a value of the explicit summary in the request  *)
(* and each time it loads the document; those of the derived summary also  *)
(* with each batch, so that Served depends on how points were batched.  A  *)
(* server sees each number of points once: one function stands for the     *)
(* batches of one behaviour, and all functions for all of them.            *)
(***************************************************************************)
EXTENDS Naturals

CONSTANTS
  Explicit,    \* values of the explicit summary
  None,        \* no value was given
  MaxMetrics,  \* bound: metric records logged
  MaxOthers,   \* bound: other records logged
  Parsed,      \* what the server's parser makes of an explicit summary
  Served       \* how it answers with the derived summary of n records

ASSUME ExplicitAssumption == None \notin Explicit
ASSUME RecordAssumption == MaxMetrics \in Nat /\ MaxOthers \in Nat
ASSUME ParserAssumption ==
  /\ Parsed \in [Explicit -> Explicit]
  /\ Served \in [0 .. MaxMetrics -> Nat] /\ Served[0] = 0

Streams == {"metrics", "others"}   \* others: rich values, artifacts, alerts
MaxRecords == [s \in Streams |-> IF s = "metrics" THEN MaxMetrics ELSE MaxOthers]

VARIABLES
  \* the spool directory
  exists,     \* is there a run.json?
  finished, finishing, explicit, metric, offset,   \* its fields
  journal,    \* records in each journal
  ack,        \* how many of them are acknowledged
  \* the process
  proc,       \* where it stands
  mode,       \* "online" or "offline"
  summary,    \* _explicit_summary
  view,       \* _metric_summary
  reclaimed,  \* steps of reclaim_delivered taken
  outcome,    \* how the last finish or sync_spool came out
  \* the server
  state,      \* runs.state
  stored,     \* records of each kind
  kept,       \* run_documents.summary_json
  \* the network
  late,       \* finish requests whose client has gone
  updates,    \* the same of updates of the summary
  \* bookkeeping
  made        \* records ever logged

metadata == <<exists, finished, finishing, explicit, metric, offset>>
journals == <<journal, ack>>
process == <<proc, mode, summary, view, reclaimed, outcome>>
server == <<state, stored, kept>>
network == <<late, updates>>
vars == <<metadata, journals, process, server, network, made>>

Init ==
  /\ exists = FALSE /\ finished = FALSE /\ finishing = FALSE
  /\ explicit = None /\ metric = 0 /\ offset = 0
  /\ journal = [s \in Streams |-> 0] /\ ack = [s \in Streams |-> 0]
  /\ proc = "down" /\ mode = "offline" /\ summary = None /\ view = 0
  /\ reclaimed = 0 /\ outcome = "none"
  /\ state = "absent" /\ stored = [s \in Streams |-> 0] /\ kept = None
  /\ late = {} /\ updates = {} /\ made = [s \in Streams |-> 0]

(* Mutant: only the metrics are asked for.                                 *)
NoMetricsPending == ack["metrics"] >= journal["metrics"]

NothingPending == \A s \in Streams : ack[s] >= journal[s]

Over(new, old) == IF new = None THEN old ELSE new

(* An explicit summary as the server reads it.                             *)
Read(e) == IF e = None THEN None ELSE Parsed[e]

(* What recover_summary returns, and the server's side of it.              *)
Recovered == IF offset < journal["metrics"] THEN journal["metrics"] ELSE metric
ServerMetric == Served[stored["metrics"]]

(* The server answers with every value the spool expects.                  *)
Matches(e, m) ==
  /\ state = "finished"
  /\ e \in {None, Read(kept)}
  /\ m \in {0, ServerMetric}

(* Own values before those of an answer.                                   *)
MergedView == IF view = 0 THEN ServerMetric ELSE view

Die(how) ==
  /\ proc' = "down" /\ outcome' = how
  /\ summary' = None /\ view' = 0 /\ reclaimed' = 0
  /\ UNCHANGED mode

Move(place) == proc' = place /\ UNCHANGED <<mode, summary, view, reclaimed, outcome>>

(***************************************************************************)
(* Opening a run: _initialize_spool up to create_run.                      *)
(***************************************************************************)
Open ==
  /\ proc = "down"
  /\ ~finished
  /\ offset <= journal["metrics"]   \* else recover_summary raises
  /\ exists' = TRUE
  /\ metric' = Recovered /\ offset' = journal["metrics"]
  /\ view' = Recovered /\ summary' = explicit
  /\ \/ mode' = "offline" /\ proc' = "open"
     \/ mode' = "online" /\ proc' = "creating"
  /\ reclaimed' = 0 /\ outcome' = "none"
  /\ UNCHANGED <<finished, finishing, explicit, journals, server, network, made>>

(* create_run answers: the run is new or goes on.                          *)
Created ==
  /\ proc = "creating" /\ state # "finished"
  /\ state' = "running"
  /\ summary' = Over(summary, Read(kept))
  /\ view' = MergedView
  /\ explicit' = summary' /\ metric' = view' /\ finishing' = FALSE
  /\ proc' = "open"
  /\ UNCHANGED <<exists, finished, offset, journals, mode, reclaimed, outcome,
                 stored, kept, network, made>>

(* 409, and what tells that the finish of an earlier process took effect.  *)
CanConclude == finishing /\ NothingPending /\ Matches(summary, view)

Concluded ==
  /\ proc = "creating" /\ CanConclude
  /\ finished' = TRUE /\ finishing' = FALSE
  /\ explicit' = Read(kept) /\ metric' = ServerMetric /\ offset' = journal["metrics"]
  /\ Die("finished")
  /\ UNCHANGED <<exists, journals, server, network, made>>

NotCreated ==
  /\ proc = "creating"
  /\ \/ state = "finished" /\ ~CanConclude /\ UNCHANGED state
     \/ UNCHANGED state                          \* no answer, not handled
     \/ state = "absent" /\ state' = "running"   \* no answer, but handled
  /\ Die("failed")
  /\ UNCHANGED <<metadata, journals, stored, kept, network, made>>

(***************************************************************************)
(* Logging and delivery.                                                   *)
(***************************************************************************)
(* Mutant: the offset is saved without the summary it belongs to.          *)
CheckpointOffset ==
  /\ explicit' = summary' /\ metric' = metric
  /\ offset' = journal'["metrics"]

(* _checkpoint_summary.                                                    *)
CheckpointSummary ==
  /\ explicit' = summary' /\ metric' = view'
  /\ offset' = journal'["metrics"]

(* Now and then the log of a metric saves the summary as well.             *)
Log(s) ==
  /\ proc = "open" /\ made[s] < MaxRecords[s]
  /\ journal' = [journal EXCEPT ![s] = @ + 1]
  /\ made' = [made EXCEPT ![s] = @ + 1]
  /\ view' = IF s = "metrics" THEN journal'[s] ELSE view
  /\ UNCHANGED summary
  /\ \/ UNCHANGED <<explicit, metric, offset>>
     \/ s = "metrics" /\ CheckpointSummary
  /\ UNCHANGED <<exists, finished, finishing, ack, proc, mode, reclaimed, outcome,
                 server, network>>

(* update_summary of the catalog: of a run that is not finished, and only  *)
(* if it changes something.                                                *)
UpdateDocument(e) ==
  /\ state = "running"
  /\ kept' = IF Read(e) = Read(kept) THEN kept ELSE Over(Read(e), Read(kept))
  /\ UNCHANGED <<state, stored>>

(* _update_summary; online the request is answered, or it is refused or    *)
(* its answer lost, and it is handled late or never.                       *)
UpdateSummary ==
  /\ proc = "open"
  /\ \E e \in Explicit :
       /\ summary' = Over(e, summary)
       /\ \/ mode = "offline" /\ UNCHANGED <<view, server, updates>>
          \/ /\ mode = "online" /\ UpdateDocument(e)
             /\ view' = MergedView /\ UNCHANGED updates
          \/ /\ mode = "online" /\ updates' \in {updates, updates \union {e}}
             /\ UNCHANGED <<view, server>>
  /\ UNCHANGED journal /\ CheckpointSummary
  /\ UNCHANGED <<exists, finished, finishing, ack, proc, mode, reclaimed, outcome,
                 late, made>>

UpdateLate(e) ==
  /\ e \in updates
  /\ UpdateDocument(e)
  /\ updates' = updates \ {e}
  /\ UNCHANGED <<metadata, journals, process, late, made>>

Delivering ==
  \/ proc \in {"open", "stopping", "failed"} /\ mode = "online"
  \/ proc = "syncing"

(* Mutant: a repeated record is stored again.                              *)
StoreAgain(s) ==
  /\ Delivering /\ ack[s] < journal[s] /\ state = "running"
  /\ stored' = [stored EXCEPT ![s] = @ + 1]
  /\ UNCHANGED <<metadata, journals, process, state, kept, network, made>>

(* The server stores the next record.                                      *)
StoreRecord(s) ==
  /\ Delivering /\ ack[s] < journal[s]
  /\ state = "running" /\ stored[s] = ack[s]
  /\ stored' = [stored EXCEPT ![s] = @ + 1]
  /\ UNCHANGED <<metadata, journals, process, state, kept, network, made>>

(* It answers, also to a repetition; of a finished run to metrics only.    *)
Acknowledge(s) ==
  /\ Delivering /\ ack[s] < journal[s] /\ ack[s] < stored[s]
  /\ s = "metrics" \/ state = "running"
  /\ ack' = [ack EXCEPT ![s] = @ + 1]
  /\ UNCHANGED <<metadata, journal, process, server, network, made>>

(***************************************************************************)
(* Finishing.                                                              *)
(***************************************************************************)
(* finish up to the stop of the worker; it may be called again.            *)
Finish ==
  /\ proc \in {"open", "failed"}
  /\ \E e \in Explicit \union {None} : summary' = Over(e, summary)
  /\ UNCHANGED <<journal, view>>
  /\ CheckpointSummary /\ finishing' = TRUE
  /\ proc' = "stopping"
  /\ UNCHANGED <<exists, finished, ack, mode, reclaimed, outcome, server, network,
                 made>>

FinishOffline ==
  /\ proc = "stopping" /\ mode = "offline"
  /\ finished' = TRUE /\ finishing' = FALSE
  /\ Die("offline")
  /\ UNCHANGED <<exists, explicit, metric, offset, journals, server, network, made>>

(* Mutant: what the worker could not deliver does not matter.              *)
JoinAnyway ==
  /\ \/ proc = "stopping" /\ mode = "online" /\ Move("requesting")
     \/ proc = "syncing" /\ Move("syncRequesting")
  /\ UNCHANGED <<metadata, journals, server, network, made>>

(* The join of the worker: nothing may be left.                            *)
Join ==
  /\ NothingPending
  /\ \/ proc = "stopping" /\ mode = "online" /\ Move("requesting")
     \/ proc = "syncing" /\ Move("syncRequesting")
  /\ UNCHANGED <<metadata, journals, server, network, made>>

JoinFails ==
  /\ \/ proc = "stopping" /\ mode = "online" /\ Move("failed")
     \/ proc = "syncing" /\ Die("failed")
  /\ UNCHANGED <<metadata, journals, server, network, made>>

(* finish_run of the catalog, without and with its check.                  *)
Refused(e) == state = "finished" /\ e # None /\ Read(e) # Read(kept)

(* Mutant: a finished run can be finished again.                           *)
FinishRunAgain(e) ==
  /\ state' = "finished"
  /\ kept' = Over(Read(e), Read(kept))
  /\ UNCHANGED stored

FinishRun(e) ==
  /\ ~Refused(e)
  /\ state' = "finished"
  /\ kept' = IF state = "finished" THEN kept ELSE Over(Read(e), Read(kept))
  /\ UNCHANGED stored

(* The request carries, for the properties, what had been logged.          *)
Request == [explicit |-> summary, made |-> made]

Answered ==
  /\ proc = "requesting"
  /\ FinishRun(summary)
  /\ proc' = "answered" /\ summary' = Read(kept') /\ view' = ServerMetric
  /\ UNCHANGED <<metadata, journals, mode, reclaimed, outcome, network, made>>

(* A conflict, or no answer: then the request may be handled yet.          *)
Unanswered ==
  /\ proc \in {"requesting", "syncRequesting"}
  /\ \/ Refused(summary) /\ UNCHANGED late
     \/ late' = late \union {Request}
  /\ \/ proc = "requesting" /\ Move("failed")
     \/ proc = "syncRequesting" /\ Die("failed")
  /\ UNCHANGED <<metadata, journals, server, updates, made>>

HandleLate(q) ==
  /\ q \in late
  /\ FinishRun(q.explicit)
  /\ late' = late \ {q}
  /\ UNCHANGED <<metadata, journals, process, updates, made>>

DropLate(q) ==
  /\ q \in late
  /\ late' = late \ {q}
  /\ UNCHANGED <<metadata, journals, process, server, updates, made>>

CheckpointFinished ==
  /\ proc = "answered"
  /\ UNCHANGED <<journal, summary, view>> /\ CheckpointSummary
  /\ finished' = TRUE /\ finishing' = FALSE
  /\ proc' = "reclaiming"
  /\ UNCHANGED <<exists, ack, mode, reclaimed, outcome, server, network, made>>

(***************************************************************************)
(* reclaim_delivered, journal by journal, and the offset after it.         *)
(***************************************************************************)
Truncate(s) == journal' = [journal EXCEPT ![s] = 0] /\ UNCHANGED <<ack, offset>>
UnlinkAck(s) == ack' = [ack EXCEPT ![s] = 0] /\ UNCHANGED <<journal, offset>>
ResetOffset == offset' = 0 /\ UNCHANGED journals

Reclaim ==
  /\ proc = "reclaiming" /\ reclaimed < 5
  /\ reclaimed = 0 => NothingPending
  /\ \/ reclaimed = 0 /\ Truncate("metrics")
     \/ reclaimed = 1 /\ UnlinkAck("metrics")
     \/ reclaimed = 2 /\ Truncate("others")
     \/ reclaimed = 3 /\ UnlinkAck("others")
     \/ reclaimed = 4 /\ ResetOffset
  /\ reclaimed' = reclaimed + 1
  /\ UNCHANGED <<exists, finished, finishing, explicit, metric, proc, mode,
                 summary, view, outcome, server, network, made>>

(* It is through, or an OSError became a warning.                          *)
Complete ==
  /\ proc = "reclaiming"
  /\ Die("finished")
  /\ UNCHANGED <<metadata, journals, server, network, made>>

(* The process ends: close, a crash, or an exception nobody catches.  A    *)
(* request on its way may be handled yet.                                  *)
Stop ==
  /\ proc # "down"
  /\ late' = IF proc \in {"requesting", "syncRequesting"}
               THEN late \union {Request} ELSE late
  /\ Die("stopped")
  /\ UNCHANGED <<metadata, journals, server, updates, made>>

(***************************************************************************)
(* sync_spool.                                                             *)
(***************************************************************************)
SyncOpen ==
  /\ proc = "down"
  /\ exists /\ finished
  /\ offset <= journal["metrics"]
  /\ proc' = "syncCreating" /\ outcome' = "none"
  /\ summary' = explicit /\ view' = Recovered
  /\ UNCHANGED <<metadata, journals, mode, reclaimed, server, network, made>>

SyncCreate ==
  /\ proc = "syncCreating" /\ state # "finished"
  /\ state' = "running"
  /\ Move("syncing")
  /\ UNCHANGED <<metadata, journals, stored, kept, network, made>>

(* 409 from a run that has the expected summary.                           *)
SyncConclude ==
  /\ proc = "syncCreating" /\ Matches(summary, view)
  /\ Die("synced")
  /\ UNCHANGED <<metadata, journals, server, network, made>>

SyncFails ==
  /\ proc = "syncCreating"
  /\ \/ state = "finished" /\ ~Matches(summary, view) /\ UNCHANGED state
     \/ UNCHANGED state
     \/ state = "absent" /\ state' = "running"
  /\ Die("failed")
  /\ UNCHANGED <<metadata, journals, stored, kept, network, made>>

SyncAnswered ==
  /\ proc = "syncRequesting"
  /\ FinishRun(summary)
  /\ Die("synced")
  /\ UNCHANGED <<metadata, journals, network, made>>

Next ==
  \/ Open \/ Created \/ Concluded \/ NotCreated
  \/ \E s \in Streams : Log(s) \/ StoreRecord(s) \/ Acknowledge(s)
  \/ UpdateSummary \/ \E e \in Explicit : UpdateLate(e)
  \/ Finish \/ FinishOffline \/ Join \/ JoinFails
  \/ Answered \/ Unanswered \/ CheckpointFinished \/ Reclaim \/ Complete \/ Stop
  \/ \E q \in late : HandleLate(q) \/ DropLate(q)
  \/ SyncOpen \/ SyncCreate \/ SyncConclude \/ SyncFails \/ SyncAnswered

Spec == Init /\ [][Next]_vars
-----------------------------------------------------------------------------
(***************************************************************************)
(* Properties.                                                             *)
(***************************************************************************)
Counts == {c \in [Streams -> Nat] : \A s \in Streams : c[s] <= MaxRecords[s]}
Values == Explicit \union {None}
Summaries == (0 .. MaxMetrics) \union {Served[n] : n \in 0 .. MaxMetrics}

TypeOK ==
  /\ exists \in BOOLEAN /\ finished \in BOOLEAN /\ finishing \in BOOLEAN
  /\ explicit \in Values /\ metric \in Summaries /\ offset \in 0 .. MaxMetrics
  /\ journal \in Counts /\ ack \in Counts
  /\ proc \in {"down", "creating", "open", "stopping", "requesting", "failed",
              "answered", "reclaiming", "syncCreating", "syncing",
              "syncRequesting"}
  /\ mode \in {"online", "offline"}
  /\ summary \in Values /\ view \in Summaries /\ reclaimed \in 0 .. 5
  /\ outcome \in {"none", "failed", "offline", "finished", "stopped", "synced"}
  /\ state \in {"absent", "running", "finished"} /\ stored \in Counts
  /\ kept \in Values
  /\ late \subseteq [explicit : Values, made : Counts] /\ updates \subseteq Explicit
  /\ made \in Counts

(* A finish that returned, and one that a later process recognised, means  *)
(* that everything ever logged is on the server.                           *)
FinishedIsComplete == outcome = "finished" => stored = made

(* What is no longer in the spool is on the server (docs/operations.md:    *)
(* journals are retained until successful online finish), whenever the     *)
(* process that reclaims it stops.                                         *)
ReclaimedIsStored ==
  \A s \in Streams : journal[s] < made[s] => stored[s] = made[s]

(* A request to finish, also one that arrives late, comes from a process   *)
(* that had delivered all there was: it cuts off nothing logged before it. *)
RequestsAreCovered ==
  /\ \A q \in late : \A s \in Streams : q.made[s] <= stored[s]
  /\ proc \in {"requesting", "syncRequesting"} => stored = made

(* A finish took effect, of a process that had delivered all there was,    *)
(* with the summary it asked for, and its answer was lost.                 *)
FinishLost ==
  /\ finishing /\ NothingPending /\ state = "finished"
  /\ explicit = None \/ kept = Read(explicit)

NumbersAreKept ==
  /\ explicit = Read(explicit)
  /\ Served[journal["metrics"]] = journal["metrics"]

(* The next process recognises it (ADR 0003) if the server's parser keeps  *)
(* the numbers of both summaries, because spool and server derive the same *)
(* summary from the same records, whatever was saved, lost or repeated.    *)
LostFinishIsRecognised ==
  FinishLost /\ NumbersAreKept => Matches(explicit, Recovered)

(* A finished run does not change any more.                                *)
FinishedRunIsFixed == [][state = "finished" => UNCHANGED server]_vars

(***************************************************************************)
(* The inductive invariant behind these properties.                        *)
(***************************************************************************)
AllStored == \A s \in Streams : stored[s] = made[s]

(* Nothing is acknowledged before it is stored or stored before it is made.*)
AckedIsStored == \A s \in Streams : ack[s] <= stored[s] /\ stored[s] <= made[s]

(* A journal has all that was ever logged, unless it has been reclaimed.   *)
JournalsAreWhole ==
  \A s \in Streams :
    \/ journal[s] = made[s]
    \/ finished /\ journal[s] = 0 /\ stored[s] = made[s]

RunPlaces == {"creating", "open", "stopping", "requesting", "failed", "answered"}

PlacesAgree ==
  /\ proc \in RunPlaces => ~finished
  /\ proc \notin RunPlaces \union {"down"} => finished
  /\ proc # "down" => outcome = "none"
  /\ finishing => ~finished

(* From the join on, everything is stored, also when a request arrives late*)
FinishesAreCovered ==
  /\ proc \in {"requesting", "syncRequesting", "answered", "reclaiming"}
       => AllStored
  /\ outcome = "finished" => AllStored
  /\ \A q \in late : \A s \in Streams : q.made[s] <= stored[s]

(* The summary that was saved, with the tail behind its offset, and the one*)
(* in memory are those of the journal, until the server has answered.      *)
SummaryIsDerived ==
  ~finished =>
    /\ offset <= journal["metrics"]
    /\ offset = journal["metrics"] => metric = journal["metrics"]
    /\ proc \in RunPlaces \ {"answered"} => view = journal["metrics"]

(* At every point of every history of processes, answers and late requests *)
(* the spool, the server and the network agree in these respects.          *)
LifecycleInv ==
  /\ AckedIsStored /\ JournalsAreWhole /\ PlacesAgree
  /\ FinishesAreCovered /\ SummaryIsDerived

(* "epochdeck sync" uploads an offline spool: when it succeeds, the server *)
(* has all of it.                                                          *)
SyncIsComplete == outcome = "synced" => stored = made

(* ADR 0003: after a restart, a conflict followed by a matching finished   *)
(* run proves that a lost answer's finish took effect.  A process that     *)
(* opens such a run, whatever was logged in it, would conclude so; where   *)
(* the parser changes a number it does not.                                *)
LostFinishIsAlwaysRecognised ==
  proc = "creating" /\ FinishLost => CanConclude
=============================================================================
