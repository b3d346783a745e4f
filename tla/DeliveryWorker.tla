--------------------------- MODULE DeliveryWorker ---------------------------
(***************************************************************************)
(* The thread that delivers a run's four journals, and the threads that    *)
(* wake, stop and cancel it: _DeliveryWorker of python/src/epochdeck/      *)
(* _delivery.py with Run.log, Run.finish, Run.close and sync_spool of      *)
(* _run.py.  What a delivery does to the files and to the server is the    *)
(* matter of module Delivery; here it only succeeds or fails.              *)
(*                                                                         *)
(* The threads share three threading.Events, an exit lock and the OS lock  *)
(* of the spool.                                                           *)
(***************************************************************************)
EXTENDS Naturals, Sequences

CONSTANTS
  NumStreams,  \* journals; their numbers are their places in the turn
  CheckOrder,  \* the order in which _Spool.pending looks at them
  Loggers,     \* threads that log
  Owners,      \* who runs the worker: "run" (Run) or "sync" (sync_spool)
  MaxPending   \* bound: undelivered records of a stream

Streams == 0 .. NumStreams - 1

ASSUME StreamAssumption == NumStreams \in Nat \ {0}
ASSUME OrderAssumption ==
  /\ CheckOrder \in [1 .. NumStreams -> Streams]
  /\ \A s \in Streams : \E i \in 1 .. NumStreams : CheckOrder[i] = s
ASSUME OwnerAssumption == Owners \subseteq {"run", "sync"}
ASSUME PendingAssumption == MaxPending \in Nat

VARIABLES
  pending,    \* records (for metrics: batches) not acknowledged, by stream
  locked,     \* is the spool's OS lock held?
  \* events
  wake, stopping, cancelled,
  \* the worker
  place,      \* where run() stands
  scan,       \* how many streams the current look has passed
  cursor,     \* _delivery_cursor
  current,    \* the stream being delivered
  exited,     \* _exited
  \* the other threads
  owner,
  logger,     \* where each logging thread stands
  caller,     \* where the thread in finish, close or sync_spool stands
  phase,      \* _finishing and _closed
  outcome     \* how finish or sync_spool came out

events == <<wake, stopping, cancelled>>
worker == <<place, scan, cursor, current, exited>>
callers == <<owner, caller, phase, outcome>>
vars == <<pending, locked, events, worker, logger, callers>>

NothingPending == \A s \in Streams : pending[s] = 0

Init ==
  /\ owner \in Owners
  /\ pending \in [Streams -> 0 .. MaxPending]  \* what an earlier run left
  /\ locked = TRUE
  /\ wake \in BOOLEAN    \* _initialize_spool may notify at once
  /\ stopping = FALSE /\ cancelled = FALSE
  /\ place = "top" /\ scan = 0 /\ cursor = 0 /\ current = 0 /\ exited = FALSE
  /\ logger = [l \in Loggers |-> "ready"]
  /\ caller = IF owner = "sync" THEN "stopping" ELSE "idle"
  /\ phase = IF owner = "sync" THEN "finishing" ELSE "open"
  /\ outcome = "none"

(***************************************************************************)
(* Logging: log, alert, log_artifact, use_artifact and the system monitor. *)
(* The append is under the log lock, the notification is not.              *)
(***************************************************************************)
AppendRecord(l) ==
  /\ logger[l] = "ready" /\ phase = "open"
  /\ \E s \in Streams :
       /\ pending[s] < MaxPending
       /\ pending' = [pending EXCEPT ![s] = @ + 1]
  /\ logger' = [logger EXCEPT ![l] = "appended"]
  /\ UNCHANGED <<locked, events, worker, callers>>

Notify(l) ==
  /\ logger[l] = "appended"
  /\ wake' = TRUE
  /\ logger' = [logger EXCEPT ![l] = "ready"]
  /\ UNCHANGED <<pending, locked, stopping, cancelled, worker, callers>>

(***************************************************************************)
(* The worker.  A wait and the clear that follows it are one step: an      *)
(* event set between the two could as well have been set before.           *)
(***************************************************************************)
Goto(p) == place' = p /\ UNCHANGED <<cursor, current, exited>>

LoopTop ==
  /\ place = "top"
  /\ Goto(IF cancelled THEN "exiting" ELSE "checking")
  /\ scan' = 0
  /\ UNCHANGED <<pending, locked, events, logger, callers>>

(* _Spool.pending, one stream at a time.                                   *)
CheckStream ==
  /\ place = "checking"
  /\ IF pending[CheckOrder[scan + 1]] > 0
       THEN Goto("choosing") /\ scan' = 0
       ELSE IF scan + 1 < NumStreams
              THEN Goto("checking") /\ scan' = scan + 1
              ELSE Goto("drained") /\ scan' = 0
  /\ UNCHANGED <<pending, locked, events, logger, callers>>

(* It raises: after a while, from the top.                                 *)
CheckFails ==
  /\ place = "checking" /\ scan = 0
  /\ Goto("backoff")
  /\ UNCHANGED <<pending, locked, events, scan, logger, callers>>

Drained ==
  /\ place = "drained"
  /\ Goto(IF stopping THEN "exiting" ELSE "waiting")
  /\ UNCHANGED <<pending, locked, events, scan, logger, callers>>

WaitForWork ==
  /\ place = "waiting" /\ wake
  /\ wake' = FALSE
  /\ Goto("woken")
  /\ UNCHANGED <<pending, locked, stopping, cancelled, scan, logger, callers>>

Woken ==
  /\ place = "woken"
  /\ Goto(IF stopping THEN "gathered" ELSE "gathering")
  /\ UNCHANGED <<pending, locked, events, scan, logger, callers>>

(* The wait of flush_interval.                                             *)
Gather ==
  /\ place = "gathering"
  /\ wake' = FALSE
  /\ Goto("gathered")
  /\ UNCHANGED <<pending, locked, stopping, cancelled, scan, logger, callers>>

Gathered ==
  /\ place = "gathered"
  /\ Goto(IF cancelled THEN "exiting" ELSE "choosing")
  /\ UNCHANGED <<pending, locked, events, scan, logger, callers>>

(* Mutant: the turn does not pass on.                                      *)
ChooseInOrder ==
  /\ place = "choosing"
  /\ IF pending[scan] > 0
       THEN /\ current' = scan /\ scan' = 0 /\ cursor' = 0
            /\ place' = "delivering" /\ UNCHANGED exited
       ELSE IF scan + 1 < NumStreams
              THEN Goto("choosing") /\ scan' = scan + 1
              ELSE Goto("top") /\ scan' = 0
  /\ UNCHANGED <<pending, locked, events, logger, callers>>

(* _next_delivery, one stream at a time, beginning with the one whose turn *)
(* it is; the turn passes on before the delivery is tried.                 *)
ChooseStream ==
  LET s == (cursor + scan) % NumStreams
  IN /\ place = "choosing"
     /\ IF pending[s] > 0
          THEN /\ current' = s /\ scan' = 0
               /\ cursor' = (s + 1) % NumStreams
               /\ place' = "delivering" /\ UNCHANGED exited
          ELSE IF scan + 1 < NumStreams
                 THEN Goto("choosing") /\ scan' = scan + 1
                 ELSE Goto("top") /\ scan' = 0
     /\ UNCHANGED <<pending, locked, events, logger, callers>>

(* The journal is read and the HTTP calls are made.                        *)
DeliverOk ==
  /\ place = "delivering"
  /\ Goto("acking")
  /\ UNCHANGED <<pending, locked, events, scan, logger, callers>>

DeliverFails ==
  /\ place = "delivering"
  /\ Goto("backoff")
  /\ UNCHANGED <<pending, locked, events, scan, logger, callers>>

Acknowledge ==
  /\ place = "acking"
  /\ pending' = [pending EXCEPT ![current] = @ - 1]
  /\ Goto("top")
  /\ UNCHANGED <<locked, events, scan, logger, callers>>

(* The wait of retry_delay; what follows looks at _cancelled first.        *)
BackOff ==
  /\ place = "backoff"
  /\ wake' = FALSE
  /\ Goto("top")
  /\ UNCHANGED <<pending, locked, stopping, cancelled, scan, logger, callers>>

(* Mutant: the worker leaves the lock to its owner.                        *)
ExitLocked ==
  /\ place = "exiting"
  /\ exited' = TRUE
  /\ place' = "ended"
  /\ UNCHANGED <<pending, locked, events, scan, cursor, current, logger, callers>>

(* The finally clause of run, under the exit lock.                         *)
Exit ==
  /\ place = "exiting"
  /\ exited' = TRUE
  /\ locked' = IF cancelled THEN FALSE ELSE locked
  /\ place' = "ended"
  /\ UNCHANGED <<pending, events, scan, cursor, current, logger, callers>>

WorkerStep ==
  \/ LoopTop \/ CheckStream \/ CheckFails \/ Drained \/ WaitForWork \/ Woken
  \/ Gather \/ Gathered \/ ChooseStream \/ DeliverOk \/ DeliverFails
  \/ Acknowledge \/ BackOff \/ Exit

(***************************************************************************)
(* finish, close and sync_spool.                                           *)
(***************************************************************************)
(* finish up to the stop of the system monitor, which may raise.           *)
CallFinish ==
  /\ owner = "run" /\ caller = "idle" /\ phase # "closed"
  /\ phase' = "finishing"
  /\ caller' \in {"stopping", "idle"}
  /\ UNCHANGED <<pending, locked, events, worker, logger, owner, outcome>>

(* close likewise, again after it gave up if the program likes.             *)
CallClose ==
  /\ owner = "run" /\ caller = "idle"
  /\ phase' = "closed"
  /\ caller' \in {"cancelling", "idle"}
  /\ UNCHANGED <<pending, locked, events, worker, logger, owner, outcome>>

(* stop: two events, one after the other.                                  *)
SetStopping ==
  /\ caller = "stopping"
  /\ stopping' = TRUE
  /\ caller' = "stopNotify"
  /\ UNCHANGED <<pending, locked, wake, cancelled, worker, logger, owner, phase,
                 outcome>>

(* Mutant: stop sets its event and no more.                                *)
SetWakeOnCancel ==
  /\ \/ caller = "stopNotify" /\ caller' = "stopped" /\ UNCHANGED wake
     \/ caller = "cancelNotify" /\ caller' = "cancelled" /\ wake' = TRUE
     \/ caller = "cancelNotifyAgain" /\ caller' = "done" /\ wake' = TRUE
  /\ UNCHANGED <<pending, locked, stopping, cancelled, worker, logger, owner,
                 phase, outcome>>

SetWake ==
  /\ \/ caller = "stopNotify" /\ caller' = "stopped"
     \/ caller = "cancelNotify" /\ caller' = "cancelled"
     \/ caller = "cancelNotifyAgain" /\ caller' = "done"
  /\ wake' = TRUE
  /\ UNCHANGED <<pending, locked, stopping, cancelled, worker, logger, owner,
                 phase, outcome>>

(* After an unsuccessful join finish raises and sync_spool cancels.        *)
AfterFailure == IF owner = "run" THEN "idle" ELSE "cancelling"

(* Mutant: an ended worker is taken for a drained spool.                   *)
JoinStoppedTrusting ==
  /\ caller = "stopped"
  /\ \/ place = "ended" /\ caller' = "requesting" /\ UNCHANGED outcome
     \/ place # "ended" /\ caller' = AfterFailure /\ outcome' = "failed"
  /\ UNCHANGED <<pending, locked, events, worker, logger, owner, phase>>

(* join returns because the worker has ended or the time is up; a worker   *)
(* that is alive or a record that is pending is a failure.                 *)
JoinStopped ==
  /\ caller = "stopped"
  /\ \/ /\ place = "ended" /\ NothingPending
        /\ caller' = "requesting" /\ UNCHANGED outcome
     \/ /\ place # "ended" \/ ~NothingPending
        /\ caller' = AfterFailure /\ outcome' = "failed"
  /\ UNCHANGED <<pending, locked, events, worker, logger, owner, phase>>

(* finish_run, and on success what leads to close; sync_spool cancels in   *)
(* either case.                                                            *)
FinishRun ==
  /\ caller = "requesting"
  /\ \/ /\ outcome' = "finished"
        /\ phase' = "closed"
        /\ caller' = IF owner = "run" THEN "cancelling" ELSE "cancelAgain"
     \/ /\ outcome' = "failed"
        /\ caller' = IF owner = "run" THEN "idle" ELSE "cancelAgain"
        /\ UNCHANGED phase
  /\ UNCHANGED <<pending, locked, events, worker, logger, owner>>

(* cancel, under the exit lock; sync_spool ends with it.                   *)
Cancel ==
  /\ caller \in {"cancelling", "cancelAgain"}
  /\ cancelled' = TRUE
  /\ locked' = IF exited THEN FALSE ELSE locked
  /\ caller' = IF caller = "cancelling" THEN "cancelNotify" ELSE "cancelNotifyAgain"
  /\ UNCHANGED <<pending, wake, stopping, worker, logger, owner, phase, outcome>>

(* Mutant: close does not care for a worker that is still alive.           *)
CloseAnyway ==
  /\ caller = "cancelled"
  /\ caller' = IF owner = "sync" THEN "cancelAgain" ELSE "closing"
  /\ UNCHANGED <<pending, locked, events, worker, logger, owner, phase, outcome>>

(* The join after it: close gives up on a worker that is alive (it raises, *)
(* and may be called again), sync_spool does not care.                     *)
JoinCancelled ==
  /\ caller = "cancelled"
  /\ caller' = IF owner = "sync" THEN "cancelAgain"
                 ELSE IF place = "ended" THEN "closing" ELSE "idle"
  /\ UNCHANGED <<pending, locked, events, worker, logger, owner, phase, outcome>>

CloseSpool ==
  /\ caller = "closing"
  /\ locked' = FALSE
  /\ caller' = "done"
  /\ UNCHANGED <<pending, events, worker, logger, owner, phase, outcome>>

CallerStep ==
  \/ SetStopping \/ SetWake \/ JoinStopped \/ FinishRun \/ Cancel
  \/ JoinCancelled \/ CloseSpool

Next ==
  \/ \E l \in Loggers : AppendRecord(l) \/ Notify(l)
  \/ WorkerStep
  \/ CallFinish \/ CallClose \/ CallerStep

Spec == Init /\ [][Next]_vars

(* The threads are scheduled, every HTTP call ends by its timeout, and a   *)
(* look at the files does not fail every time.  The server may refuse a    *)
(* stream for ever, and a program need not call finish or close.           *)
Fairness ==
  /\ \A l \in Loggers : WF_vars(Notify(l))
  /\ WF_vars(WorkerStep) /\ WF_vars(CallerStep)
  /\ SF_vars(CheckStream)

FairSpec == Spec /\ Fairness
-----------------------------------------------------------------------------
(***************************************************************************)
(* Properties.                                                             *)
(***************************************************************************)
TypeOK ==
  /\ pending \in [Streams -> Nat] /\ locked \in BOOLEAN
  /\ wake \in BOOLEAN /\ stopping \in BOOLEAN /\ cancelled \in BOOLEAN
  /\ place \in {"top", "checking", "drained", "waiting", "woken", "gathering",
               "gathered", "choosing", "delivering", "acking", "backoff",
               "exiting", "ended"}
  /\ scan \in Streams /\ cursor \in Streams /\ current \in Streams
  /\ exited \in BOOLEAN
  /\ owner \in {"run", "sync"} /\ logger \in [Loggers -> {"ready", "appended"}]
  /\ caller \in {"idle", "stopping", "stopNotify", "stopped", "requesting",
                "cancelling", "cancelNotify", "cancelled", "closing",
                "cancelAgain", "cancelNotifyAgain", "done"}
  /\ phase \in {"open", "finishing", "closed"}
  /\ outcome \in {"none", "finished", "failed"}

(* ADR 0018: the lock is held through active delivery, including           *)
(* cancellation after a caller's timeout; whoever may still touch the      *)
(* files owns the spool.                                                   *)
OwnsWhileActive == (place # "ended" \/ phase = "open") => locked

(* A run that was finished on the server has delivered all its records,    *)
(* however the worker came to its end.                                     *)
FinishedIsDelivered == outcome = "finished" => NothingPending

(* python/README.md: finish still delivers pending data.  A worker that was*)
(* stopped, and not cancelled, has done so when it ends.                   *)
StopDelivers == place = "ended" /\ ~cancelled => NothingPending

(* No wake-up is lost and no stream is starved: a pending record is tried  *)
(* in the end, even if other streams keep coming and failing.              *)
NoStreamStarves ==
  \A s \in Streams :
    (pending[s] > 0)
      ~> ((place \in {"delivering", "acking"} /\ current = s)
             \/ cancelled \/ place = "ended")

(* Ownership is released in the end by whoever comes last, caller or       *)
(* worker.                                                                 *)
OwnershipEnds == (caller \in {"cancelNotify", "cancelNotifyAgain"}) ~> ~locked

(* A stop ends the worker once what is pending is delivered: that takes for*)
(* ever only if attempts fail for ever.                                    *)
StopEnds == []<>(place = "backoff") \/ (stopping ~> (place = "ended"))
=============================================================================
