------------------------------ MODULE Delivery ------------------------------
(***************************************************************************)
(* The metric journal of one run on its way to the server: Run._append_    *)
(* metrics and the _Spool of python/src/epochdeck/_run.py and _spool.py,   *)
(* the _DeliveryWorker of _delivery.py, the HTTP exchange between them and *)
(* the server, and the server's per-run log (module RunLog).               *)
(*                                                                         *)
(* Offsets in the code are byte offsets of record boundaries; here they    *)
(* count the complete lines of the journal.  Bytes after the last newline  *)
(* are the flag torn.  An atomic file replacement followed by an fsync of  *)
(* the directory is one step: a crash inside it is a crash before it.      *)
(***************************************************************************)
EXTENDS RunLog

CONSTANTS
  BatchLimit,   \* batch_size: points per ingest request
  TailLimit,    \* _SUMMARY_CHECKPOINT_RECORD_INTERVAL
  AppendFaults, \* how an append may fail in a process that goes on
  MaxLogs,      \* bound: log calls
  MaxCrashes    \* bound: process exits without warning

ASSUME LimitAssumption == BatchLimit \in Nat \ {0} /\ TailLimit \in Nat \ {0}
ASSUME FaultAssumption == AppendFaults \subseteq {"torn", "unreported"}
ASSUME BoundAssumption == MaxLogs \in Nat /\ MaxCrashes \in Nat

VARIABLES
  \* files of the spool directory
  journal,      \* events.jsonl: its complete lines
  torn,         \* events.jsonl: does it end in an incomplete line?
  ack,          \* ack: lines the server has confirmed
  delivery,     \* delivery.json
  checkpoint,   \* run.json: summary_event_offset
  \* the SDK process
  proc,         \* "down", "opened" (spool locked) or "running" (resumed)
  nextSeq,      \* Run._next_sequence
  tailRecords,  \* Run._summary_tail_records
  latest,       \* Run._latest_event_offset
  \* the delivery worker
  worker,       \* where _deliver_metrics stands
  request,      \* the batch it is delivering
  \* the HTTP exchanges
  wire,         \* the request of the live exchange, <<>> when there is none
  reply,        \* its response, on the way back
  stale,        \* requests the client gave up on that may still arrive
  \* bookkeeping
  logs,         \* log calls made so far; numbers the points
  returned,     \* the points whose log call returned normally
  crashes       \* crashes so far

files == <<journal, torn, ack, delivery, checkpoint>>
run == <<proc, nextSeq, tailRecords, latest>>
exchange == <<wire, reply, stale>>
history == <<logs, returned, crashes>>
vars == <<files, run, worker, request, exchange, history, serverVars>>

(***************************************************************************)
(* Lines.  Garbled is a line json.loads rejects or that joins two records. *)
(***************************************************************************)
Garbled == [seq |-> 0, id |-> 0]
Readable(line) == line.seq > 0

NoDelivery == [start |-> 0, end |-> 0, body |-> <<>>]
Delivering == delivery.end > ack

(* _pending: the acknowledged offset lies before the end of the file.      *)
Pending == ack < Len(journal) \/ torn

(* The line an append of point p completes: with an incomplete line before *)
(* it in the file, the two become one.                                     *)
Appended(p) == Append(journal, IF torn THEN Garbled ELSE p)

Init ==
  /\ journal = <<>> /\ torn = FALSE /\ ack = 0
  /\ delivery = NoDelivery /\ checkpoint = 0
  /\ proc = "down" /\ nextSeq = 1 /\ tailRecords = 0 /\ latest = 0
  /\ worker = "idle" /\ request = <<>>
  /\ wire = <<>> /\ reply = "none" /\ stale = {}
  /\ logs = 0 /\ returned = {} /\ crashes = 0
  /\ ServerInit

(***************************************************************************)
(* Opening and resuming a run.                                             *)
(***************************************************************************)

(* The checks of _recover_interrupted_append before it truncates.          *)
TailIsRecoverable ==
  /\ ack <= Len(journal)
  /\ Delivering => delivery.start = ack /\ delivery.end <= Len(journal)
  /\ checkpoint <= Len(journal)

(* The checks of recover_summary and last_point.                           *)
SummaryIsRecoverable ==
  /\ checkpoint <= Len(journal)
  /\ Len(journal) - checkpoint <= TailLimit
  /\ \A i \in checkpoint + 1 .. Len(journal) : Readable(journal[i])
  /\ journal # <<>> => Readable(journal[Len(journal)])

CanOpen == (torn => TailIsRecoverable) /\ SummaryIsRecoverable

(* Mutant: an incomplete tail is left in the file.                         *)
OpenUntruncated ==
  /\ proc = "down" /\ CanOpen
  /\ checkpoint' = Len(journal) /\ latest' = Len(journal)
  /\ nextSeq' = IF journal = <<>> THEN 1 ELSE journal[Len(journal)].seq + 1
  /\ tailRecords' = 0 /\ proc' = "opened"
  /\ UNCHANGED <<journal, torn, ack, delivery, worker, request, exchange,
                 history, serverVars>>

(* Mutant: the last complete line goes with the incomplete one.            *)
OpenTruncatingALine ==
  /\ proc = "down" /\ CanOpen
  /\ torn' = FALSE
  /\ journal' = IF torn /\ journal # <<>>
                  THEN SubSeq(journal, 1, Len(journal) - 1) ELSE journal
  /\ checkpoint' = Len(journal') /\ latest' = Len(journal')
  /\ nextSeq' = Len(journal') + 1
  /\ tailRecords' = 0 /\ proc' = "opened"
  /\ UNCHANGED <<ack, delivery, worker, request, exchange, history, serverVars>>

(* _Spool.__init__ and _initialize_spool up to write_metadata.             *)
OpenSpool ==
  /\ proc = "down"
  /\ CanOpen
  /\ torn' = FALSE
  /\ delivery' = IF torn /\ ~Delivering THEN NoDelivery ELSE delivery
  /\ checkpoint' = Len(journal)
  /\ latest' = Len(journal)
  /\ nextSeq' = IF journal = <<>> THEN 1 ELSE journal[Len(journal)].seq + 1
  /\ tailRecords' = 0
  /\ proc' = "opened"
  /\ UNCHANGED <<journal, ack, worker, request, exchange, history,
                 serverVars>>

(* Mutant: numbering goes on where the server is.                          *)
ResumeAtServer ==
  /\ proc = "opened"
  /\ CreateOrResume
  /\ nextSeq' = ServerNextSequence
  /\ checkpoint' = latest
  /\ proc' = "running"
  /\ UNCHANGED <<journal, torn, ack, delivery, tailRecords, latest, worker,
                 request, exchange, history>>

(* _initialize_spool: create_run and what it does with the response.       *)
Resume ==
  /\ proc = "opened"
  /\ CreateOrResume
  /\ nextSeq' = IF nextSeq >= ServerNextSequence
                  THEN nextSeq ELSE ServerNextSequence
  /\ checkpoint' = latest
  /\ proc' = "running"
  /\ UNCHANGED <<journal, torn, ack, delivery, tailRecords, latest, worker,
                 request, exchange, history>>

(* The process exits.  An append in progress may leave an incomplete line; *)
(* requests already written to the socket may still reach the server.      *)
Crash ==
  /\ proc # "down"
  /\ crashes < MaxCrashes
  /\ crashes' = crashes + 1
  /\ proc' = "down"
  /\ \/ torn' = torn
     \/ proc = "running" /\ worker # "unlinking" /\ torn' = TRUE
  /\ nextSeq' = 1 /\ tailRecords' = 0 /\ latest' = 0
  /\ worker' = "idle" /\ request' = <<>>
  /\ stale' = IF wire = <<>> THEN stale ELSE stale \union {wire}
  /\ wire' = <<>> /\ reply' = "none"
  /\ UNCHANGED <<journal, ack, delivery, checkpoint, logs, returned, serverVars>>

(***************************************************************************)
(* Logging.  The spool lock keeps an append out of _acknowledge.           *)
(***************************************************************************)
(* Mutant: no checkpoint is due, however long the tail.                    *)
CanLogUnbounded == proc = "running" /\ worker # "unlinking" /\ logs < MaxLogs

CanLog ==
  /\ proc = "running"
  /\ worker # "unlinking"
  /\ tailRecords < TailLimit   \* otherwise the log call checkpoints first
  /\ logs < MaxLogs

NextPoint == [seq |-> nextSeq, id |-> logs + 1]

(* _append_metrics: append, then count the point.                          *)
Log ==
  /\ CanLog
  /\ logs' = logs + 1
  /\ journal' = Appended(NextPoint)
  /\ torn' = FALSE
  /\ latest' = Len(journal')
  /\ tailRecords' = tailRecords + 1
  /\ nextSeq' = nextSeq + 1
  /\ returned' = returned \union {logs'}
  /\ UNCHANGED <<ack, delivery, checkpoint, proc, worker, request, exchange,
                 crashes, serverVars>>

(* The append raises (disk full, KeyboardInterrupt) and the process goes   *)
(* on: part of the line was written, or all of it.  Either way _append_    *)
(* metrics stops before it advances _next_sequence.                        *)
LogInterrupted ==
  /\ CanLog
  /\ logs' = logs + 1
  /\ \/ /\ "torn" \in AppendFaults
        /\ torn' = TRUE
        /\ UNCHANGED journal
     \/ /\ "unreported" \in AppendFaults
        /\ journal' = Appended(NextPoint)
        /\ torn' = FALSE
  /\ UNCHANGED <<ack, delivery, checkpoint, run, worker, request, exchange,
                 returned, crashes, serverVars>>

(* _checkpoint_summary: when due by records or bytes, or when the explicit *)
(* summary changes.                                                        *)
Checkpoint ==
  /\ proc = "running"
  /\ worker # "unlinking"
  /\ checkpoint' = latest
  /\ tailRecords' = 0
  /\ UNCHANGED <<journal, torn, ack, delivery, proc, nextSeq, latest, worker,
                 request, exchange, history, serverVars>>

(***************************************************************************)
(* The worker: _deliver_metrics.                                           *)
(***************************************************************************)

(* _read_record_batch may stop after n lines: at the limit, at the end of  *)
(* the file, or before a readable line that exceeds the byte budget.  An   *)
(* unreadable line within reach raises instead.                            *)
MayTake(n) ==
  /\ n <= BatchLimit
  /\ \A i \in ack + 1 .. ack + n : Readable(journal[i])
  /\ \/ n = BatchLimit
     \/ ack + n = Len(journal) /\ ~torn
     \/ ack + n < Len(journal) /\ Readable(journal[ack + n + 1])

(* read_batch without a delivery in progress (one that is already          *)
(* acknowledged is discarded): choose the points and persist the choice.   *)
SelectBatch ==
  /\ proc = "running" /\ worker = "idle"
  /\ Pending /\ ~Delivering
  /\ \E n \in 1 .. Len(journal) - ack :
       /\ MayTake(n)
       /\ request' = SubSeq(journal, ack + 1, ack + n)
       /\ delivery' = [start |-> ack, end |-> ack + n, body |-> request']
  /\ worker' = "selected"
  /\ UNCHANGED <<journal, torn, ack, checkpoint, run, exchange, history, serverVars>>

(* read_batch with one: the recorded range, which must have the recorded   *)
(* digest.                                                                 *)
ReplayBatch ==
  /\ proc = "running" /\ worker = "idle"
  /\ Delivering
  /\ delivery.start = ack /\ delivery.end <= Len(journal)
  /\ request' = SubSeq(journal, ack + 1, delivery.end)
  /\ request' = delivery.body
  /\ worker' = "selected"
  /\ UNCHANGED <<files, run, exchange, history, serverVars>>

(* Mutant: the response is not awaited.                                    *)
SendAndForget ==
  /\ worker = "selected"
  /\ wire' = request
  /\ worker' = "acking"
  /\ UNCHANGED <<files, run, request, reply, stale, history, serverVars>>

(* ingest_batch: the request is on its way.                                *)
SendBatch ==
  /\ worker = "selected"
  /\ wire' = request
  /\ worker' = "waiting"
  /\ UNCHANGED <<files, run, request, reply, stale, history, serverVars>>

(* Mutant: the error ends the worker.                                      *)
GiveUpForGood ==
  /\ worker = "waiting"
  /\ worker' = "ended"
  /\ stale' = IF wire = <<>> THEN stale ELSE stale \union {wire}
  /\ wire' = <<>> /\ reply' = "none" /\ request' = <<>>
  /\ UNCHANGED <<files, run, history, serverVars>>

(* The call fails without a response: connection lost or timed out, before *)
(* or after the server acted.  run() keeps the error and tries again.      *)
GiveUp ==
  /\ worker = "waiting"
  /\ worker' = "idle"
  /\ stale' = IF wire = <<>> THEN stale ELSE stale \union {wire}
  /\ wire' = <<>> /\ reply' = "none" /\ request' = <<>>
  /\ UNCHANGED <<files, run, history, serverVars>>

ReceiveOk ==
  /\ worker = "waiting" /\ reply = "ok"
  /\ worker' = "acking"
  /\ reply' = "none"
  /\ UNCHANGED <<files, run, request, wire, stale, history, serverVars>>

ReceiveError ==
  /\ worker = "waiting" /\ reply = "refused"
  /\ worker' = "idle"
  /\ reply' = "none" /\ request' = <<>>
  /\ UNCHANGED <<files, run, wire, stale, history, serverVars>>

(* Mutant: delivery.json goes before the ack file is written.              *)
UnlinkFirst ==
  /\ worker = "acking"
  /\ delivery' = NoDelivery
  /\ worker' = "unlinking"
  /\ UNCHANGED <<journal, torn, ack, checkpoint, run, request, exchange,
                 history, serverVars>>

(* _acknowledge, first half: replace the ack file.                         *)
WriteAck ==
  /\ worker = "acking"
  /\ delivery.end = ack + Len(request)
  /\ ack' = ack + Len(request)
  /\ worker' = "unlinking"
  /\ UNCHANGED <<journal, torn, delivery, checkpoint, run, request, exchange,
                 history, serverVars>>

(* _acknowledge, second half: unlink delivery.json.                        *)
UnlinkDelivery ==
  /\ worker = "unlinking"
  /\ delivery' = NoDelivery
  /\ worker' = "idle" /\ request' = <<>>
  /\ UNCHANGED <<journal, torn, ack, checkpoint, run, exchange, history, serverVars>>

(***************************************************************************)
(* The server answers the live exchange, or acts on a request whose client *)
(* has gone: ingest_batch runs to completion in a task of its own.         *)
(***************************************************************************)
ServerAnswers ==
  /\ wire # <<>>
  /\ \/ (AcceptBatch(wire) \/ AnswerDuplicate(wire)) /\ reply' = "ok"
     \/ RefuseBatch(wire) /\ reply' = "refused"
  /\ wire' = <<>>
  /\ UNCHANGED <<files, run, worker, request, stale, history>>

(* An element of stale stands for every copy the retries left behind, so   *)
(* handling one does not remove it.                                        *)
ServerHandlesStale ==
  /\ \E r \in stale : AcceptBatch(r) \/ AnswerDuplicate(r) \/ RefuseBatch(r)
  /\ UNCHANGED <<files, run, worker, request, exchange, history>>

DropStale ==
  /\ \E r \in stale : stale' = stale \ {r}
  /\ UNCHANGED <<files, run, worker, request, wire, reply, history, serverVars>>

Next ==
  \/ OpenSpool \/ Resume \/ Crash
  \/ Log \/ LogInterrupted \/ Checkpoint
  \/ SelectBatch \/ ReplayBatch \/ SendBatch \/ GiveUp
  \/ ReceiveOk \/ ReceiveError \/ WriteAck \/ UnlinkDelivery
  \/ ServerAnswers \/ ServerHandlesStale \/ DropStale

Spec == Init /\ [][Next]_vars

(* The worker retries for ever (run() sleeps at most 5 s between attempts),*)
(* a stopped process is started again, and an exchange repeated for ever   *)
(* is not lost every time.                                                 *)
Fairness ==
  /\ WF_vars(OpenSpool) /\ WF_vars(Resume)
  /\ WF_vars(SelectBatch) /\ WF_vars(ReplayBatch) /\ WF_vars(SendBatch)
  /\ WF_vars(WriteAck) /\ WF_vars(UnlinkDelivery)
  /\ SF_vars(ServerAnswers) /\ SF_vars(ReceiveOk)

FairSpec == Spec /\ Fairness
-----------------------------------------------------------------------------
(***************************************************************************)
(* Properties.                                                             *)
(***************************************************************************)
Request == Seq(Point)

(* The types of all variables of the composition.                          *)
FilesTyped ==
  /\ journal \in Request /\ torn \in BOOLEAN /\ ack \in Nat
  /\ delivery \in [start: Nat, end: Nat, body: Request]
  /\ checkpoint \in Nat

ProcessTyped ==
  /\ proc \in {"down", "opened", "running"}
  /\ nextSeq \in Nat /\ tailRecords \in 0 .. TailLimit /\ latest \in Nat
  /\ worker \in {"idle", "selected", "waiting", "acking", "unlinking"}
  /\ request \in Request

ExchangeTyped ==
  /\ wire \in Request /\ reply \in {"none", "ok", "refused"}
  /\ stale \in SUBSET Request

HistoryTyped == logs \in Nat /\ returned \in SUBSET Nat /\ crashes \in Nat

ServerTyped ==
  /\ runState \in {"absent", "running", "finished"}
  /\ batches \in SUBSET Request /\ stored \in Request

TypeOK ==
  FilesTyped /\ ProcessTyped /\ ExchangeTyped /\ HistoryTyped /\ ServerTyped

(* Exactly once in logical storage (ADR 0003): whatever is lost, repeated, *)
(* late or interrupted, the server holds a prefix of the journal, with no  *)
(* point twice, missing or out of order.                                   *)
StoredIsPrefix ==
  /\ Len(stored) <= Len(journal)
  /\ \A i \in 1 .. Len(stored) : stored[i] = journal[i]

(* The acknowledgement advances only after the server has the points: a    *)
(* point the spool would skip after a restart is on the server.            *)
AckedIsStored == ack <= Len(stored)

(* Appending new points cannot alter an in-flight batch (ADR 0003): a      *)
(* request the server has not registered yet, however old, is the batch    *)
(* delivery.json records, so a retry cannot conflict with it.              *)
OneBatchInFlight ==
  \A r \in stale \union ({wire} \ {<<>>}) :
    r \in batches \/ (Delivering /\ r = delivery.body)

(* No append has failed so far in a process that went on.                  *)
AppendsAreWhole == returned = 1 .. logs

(* No delivery is ever refused: the client's choice of batches is one the  *)
(* server accepts or knows.  A refused batch is retried for ever and blocks*)
(* every later point.                                                      *)
NothingRefused == AppendsAreWhole => reply # "refused"

(* A spool that a crash leaves behind can be opened again: an incomplete   *)
(* tail lies beyond the acknowledgement, the delivery in progress and the  *)
(* summary checkpoint, and the tail to summarise is within its bound.      *)
CanReopen == AppendsAreWhole /\ proc = "down" => CanOpen

(* A point whose log call returned is a line of its own of the journal and *)
(* stays one (ADR 0018: records returned successfully remain).             *)
LoggedIsReadable ==
  \A n \in returned : \E i \in 1 .. Len(journal) : journal[i].id = n

(* The same of a spool only crashes interrupt: an incomplete last line is  *)
(* that of a call that did not return.                                     *)
CrashesLoseNothing == AppendsAreWhole => LoggedIsReadable

(* Every point in the journal reaches the server in the end.               *)
EveryPointArrives ==
  []AppendsAreWhole =>
    \A n \in 1 .. MaxLogs : (Len(journal) >= n) ~> (Len(stored) >= n)

(* The composition promises no more than a log that is copied, in order,   *)
(* from one place to the other.                                            *)
Copy == INSTANCE ReliableCopy WITH source <- journal, copy <- stored
CopiesReliably == Copy!Spec
(***************************************************************************)
(* The inductive invariant behind the safety properties.  Between the      *)
(* selection of a batch and its acknowledgement the server is either still *)
(* at the acknowledged point or has exactly this one batch more; every     *)
(* registered batch lies in the stored part of the journal, and points are *)
(* distinct, so the next batch to be chosen is always new.                 *)
(***************************************************************************)
(* s is the part of the journal that follows line k. *)
FollowsLine(s, k) ==
  /\ k + Len(s) <= Len(journal)
  /\ \A i \in 1 .. Len(s) : s[i] = journal[k + i]

PointsAreDistinct ==
  \A i, j \in 1 .. Len(journal) :
    i # j /\ Readable(journal[i]) /\ Readable(journal[j])
      => journal[i].id # journal[j].id

PointsAreNumbered == \A i \in 1 .. Len(journal) : journal[i].id <= logs

BatchesAreStored ==
  \A b \in batches :
    /\ b # <<>>
    /\ \A i \in 1 .. Len(b) :
         Readable(b[i]) /\ \E k \in 1 .. Len(stored) : b[i] = journal[k]

DeliveryIsSlice ==
  Delivering =>
    /\ delivery.start = ack
    /\ delivery.end = ack + Len(delivery.body)
    /\ FollowsLine(delivery.body, ack)
    /\ \A i \in 1 .. Len(delivery.body) : Readable(delivery.body[i])

ServerIsAtBoundary ==
  \/ ~Delivering /\ Len(stored) = ack
  \/ Delivering /\ Len(stored) = ack /\ delivery.body \notin batches
  \/ Delivering /\ Len(stored) = delivery.end /\ delivery.body \in batches

WorkerHoldsDelivery ==
  /\ worker \in {"selected", "waiting", "acking"}
       => Delivering /\ request = delivery.body
  /\ worker = "acking" => request \in batches
  /\ worker = "unlinking" => ~Delivering
  /\ wire # <<>> => worker = "waiting" /\ wire = request
  /\ reply # "none" => worker = "waiting" /\ wire = <<>>
  /\ reply = "ok" => request \in batches
  /\ <<>> \notin stale

DeliveryInv ==
  /\ TypeOK
  /\ FollowsLine(stored, 0)
  /\ PointsAreDistinct /\ PointsAreNumbered
  /\ BatchesAreStored
  /\ DeliveryIsSlice
  /\ ServerIsAtBoundary
  /\ OneBatchInFlight
  /\ WorkerHoldsDelivery
=============================================================================
