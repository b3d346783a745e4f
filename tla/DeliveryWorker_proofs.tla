----------------------- MODULE DeliveryWorker_proofs -----------------------
(***************************************************************************)
(* Theorems about the delivery worker, for any number of streams, any      *)
(* order of looking at them and any number of logging threads.             *)
(***************************************************************************)
EXTENDS DeliveryWorker, TLAPS

(* Whether a stream number comes from a turn or from the order in which    *)
(* pending looks, it is one.                                               *)
LEMMA TurnIsStream ==
  ASSUME NEW n \in Nat
  PROVE  n % NumStreams \in Streams
BY StreamAssumption, SMT DEF Streams

LEMMA OrderIsStream ==
  ASSUME NEW n \in Streams
  PROVE  CheckOrder[n + 1] \in Streams
BY StreamAssumption, OrderAssumption, SMT DEF Streams

(* What is delivered is pending: an acknowledgement cannot make it less    *)
(* than nothing.                                                           *)
DeliveredIsPending ==
  place \in {"delivering", "acking"} => pending[current] > 0

TypeInv == TypeOK /\ DeliveredIsPending
-----------------------------------------------------------------------------
(* The threads' variables keep their types.                                *)
LEMMA TypeInit == Init => TypeInv
<1> SUFFICES ASSUME Init PROVE TypeInv
  OBVIOUS
<1>1. pending \in [Streams -> Nat]
  BY PendingAssumption, SMT DEF Init
<1>2. 0 \in Streams
  BY StreamAssumption, SMT DEF Streams
<1>3. owner \in {"run", "sync"}
  BY OwnerAssumption DEF Init
<1>4. /\ locked \in BOOLEAN /\ stopping \in BOOLEAN
      /\ cancelled \in BOOLEAN /\ exited \in BOOLEAN /\ wake \in BOOLEAN
  BY DEF Init
<1>5. /\ place = "top" /\ scan = 0 /\ cursor = 0 /\ current = 0
      /\ logger \in [Loggers -> {"ready", "appended"}]
      /\ caller \in {"idle", "stopping"} /\ phase \in {"open", "finishing"}
      /\ outcome = "none"
  BY DEF Init
<1>. QED
  BY <1>1, <1>2, <1>3, <1>4, <1>5 DEF TypeInv, TypeOK, DeliveredIsPending

LEMMA TypeWorker == TypeInv /\ WorkerStep => TypeInv'
<1> SUFFICES ASSUME TypeInv, WorkerStep PROVE TypeInv'
  OBVIOUS
<1> USE DEF TypeInv, TypeOK, DeliveredIsPending, Goto
<1>1. CASE CheckStream
  <2>1. /\ \/ place' \in {"choosing", "drained"} /\ scan' = 0
           \/ place' = "checking" /\ scan + 1 < NumStreams /\ scan' = scan + 1
        /\ UNCHANGED <<cursor, current, exited, pending, locked, events,
                       logger, callers>>
    BY <1>1, Zenon DEF CheckStream
  <2>. QED  BY <2>1, StreamAssumption, SMT DEF events, callers, Streams
<1>2. CASE ChooseStream
  <2> DEFINE s == (cursor + scan) % NumStreams
  <2>1. s \in Streams /\ (s + 1) % NumStreams \in Streams
    <3>1. cursor + scan \in Nat
      BY StreamAssumption, SMT DEF Streams
    <3>2. s \in Streams
      BY <3>1, TurnIsStream, Zenon
    <3>3. s + 1 \in Nat
      BY <3>2, StreamAssumption, SMT DEF Streams
    <3>. QED  BY <3>2, <3>3, TurnIsStream, Zenon
  <2>2. CASE pending[s] > 0
    <3>1. /\ current' = s /\ scan' = 0 /\ cursor' = (s + 1) % NumStreams
          /\ place' = "delivering"
          /\ UNCHANGED <<exited, pending, locked, events, logger, callers>>
      BY <1>2, <2>2 DEF ChooseStream
    <3> HIDE DEF s
    <3>. QED  BY <2>1, <2>2, <3>1, StreamAssumption, SMT DEF events, callers, Streams
  <2>3. CASE ~(pending[s] > 0)
    <3>1. /\ \/ place' = "choosing" /\ scan + 1 < NumStreams /\ scan' = scan + 1
             \/ place' = "top" /\ scan' = 0
          /\ UNCHANGED <<cursor, current, exited, pending, locked, events,
                         logger, callers>>
      BY <1>2, <2>3 DEF ChooseStream
    <3> HIDE DEF s
    <3>. QED  BY <3>1, StreamAssumption, SMT DEF events, callers, Streams
  <2>. QED  BY <2>2, <2>3
<1>3. CASE Acknowledge
  BY <1>3, SMT DEF Acknowledge, events, callers
<1>4. CASE LoopTop \/ CheckFails
  BY <1>4, StreamAssumption, SMT
  DEF LoopTop, CheckFails, events, callers, Streams
<1>5. CASE Drained \/ Woken \/ Gathered
  <2>1. /\ place' \in {"exiting", "waiting", "gathered", "gathering", "choosing"}
        /\ UNCHANGED <<cursor, current, exited, pending, locked, events, scan,
                       logger, callers>>
    BY <1>5, SMT DEF Drained, Woken, Gathered
  <2>. QED  BY <2>1, SMT DEF events, callers
<1>6. CASE WaitForWork \/ Gather \/ BackOff
  BY <1>6, Zenon DEF WaitForWork, Gather, BackOff, events, callers
<1>7. CASE DeliverOk \/ DeliverFails
  BY <1>7, Zenon DEF DeliverOk, DeliverFails, events, callers
<1>8. CASE Exit
  BY <1>8, Zenon DEF Exit, events, callers
<1>. QED
  BY <1>1, <1>2, <1>3, <1>4, <1>5, <1>6, <1>7, <1>8 DEF WorkerStep

(* Loggers and callers; neither moves the worker.                          *)
LEMMA TypeOthers ==
  TypeInv /\ (\/ \E l \in Loggers : AppendRecord(l) \/ Notify(l)
              \/ CallFinish \/ CallClose \/ CallerStep)
    => TypeInv'
<1> SUFFICES ASSUME TypeInv,
                    \/ \E l \in Loggers : AppendRecord(l) \/ Notify(l)
                    \/ CallFinish \/ CallClose \/ CallerStep
             PROVE  TypeInv'
  OBVIOUS
<1> USE DEF TypeInv, TypeOK, DeliveredIsPending
<1>1. ASSUME NEW l \in Loggers, AppendRecord(l) PROVE TypeInv'
  <2>1. PICK s \in Streams : pending' = [pending EXCEPT ![s] = @ + 1]
    BY <1>1 DEF AppendRecord
  <2>2. /\ pending' \in [Streams -> Nat]
        /\ \A t \in Streams : pending[t] > 0 => pending'[t] > 0
    BY <2>1, SMT
  <2>3. logger' \in [Loggers -> {"ready", "appended"}]
    BY <1>1 DEF AppendRecord
  <2>4. UNCHANGED <<locked, events, worker, callers>>
    BY <1>1 DEF AppendRecord
  <2>. QED  BY <2>2, <2>3, <2>4 DEF events, worker, callers
<1>2. ASSUME NEW l \in Loggers, Notify(l) PROVE TypeInv'
  <2>1. logger' \in [Loggers -> {"ready", "appended"}]
    BY <1>2 DEF Notify
  <2>2. wake' \in BOOLEAN /\ UNCHANGED <<pending, locked, stopping, cancelled, worker, callers>>
    BY <1>2, Zenon DEF Notify
  <2>. QED  BY <2>1, <2>2, SMT DEF worker, callers
<1>3. CASE CallFinish \/ CallClose
  <2>1. /\ phase' \in {"finishing", "closed"}
        /\ caller' \in {"idle", "stopping", "cancelling"}
        /\ UNCHANGED <<pending, locked, events, worker, logger, owner, outcome>>
    BY <1>3, SMT DEF CallFinish, CallClose
  <2>. QED  BY <2>1, SMT DEF events, worker
<1>4. CASE SetStopping \/ SetWake
  <2>1. caller' \in {"stopNotify", "stopped", "cancelled", "done"}
    BY <1>4, SMT DEF SetStopping, SetWake
  <2>2. wake' \in BOOLEAN /\ stopping' \in BOOLEAN
    BY <1>4, Zenon DEF SetStopping, SetWake
  <2>3. UNCHANGED <<pending, locked, cancelled, worker, logger, owner, phase,
                    outcome>>
    BY <1>4, Zenon DEF SetStopping, SetWake
  <2>. QED  BY <2>1, <2>2, <2>3, SMT DEF worker
<1>5. CASE JoinStopped \/ FinishRun
  BY <1>5, SMT DEF JoinStopped, FinishRun, AfterFailure, events, worker
<1>6. CASE Cancel
  <2>1. caller' \in {"cancelNotify", "cancelNotifyAgain"}
    BY <1>6, SMT DEF Cancel
  <2>2. locked' \in BOOLEAN
    BY <1>6, Zenon DEF Cancel
  <2>3. /\ cancelled' \in BOOLEAN
        /\ UNCHANGED <<pending, wake, stopping, worker, logger, owner, phase,
                       outcome>>
    BY <1>6, Zenon DEF Cancel
  <2>. QED  BY <2>1, <2>2, <2>3, SMT DEF worker
<1>7. CASE JoinCancelled
  BY <1>7, SMT DEF JoinCancelled, events, worker
<1>8. CASE CloseSpool
  <2>1. /\ locked' \in BOOLEAN /\ caller' = "done"
        /\ UNCHANGED <<pending, events, worker, logger, owner, phase, outcome>>
    BY <1>8, Zenon DEF CloseSpool
  <2>. QED  BY <2>1, SMT DEF events, worker
<1>. QED
  BY <1>1, <1>2, <1>3, <1>4, <1>5, <1>6, <1>7, <1>8 DEF CallerStep

(* The threads' variables keep their types, and what is delivered is       *)
(* pending, in every reachable state.                                      *)
THEOREM TypeCorrectness == Spec => []TypeOK
<1>1. TypeInv /\ UNCHANGED vars => TypeInv'
  BY DEF TypeInv, TypeOK, DeliveredIsPending, vars, events, worker, callers
<1>2. TypeInv /\ [Next]_vars => TypeInv'
  BY <1>1, TypeWorker, TypeOthers DEF Next
<1>3. TypeInv => TypeOK
  BY DEF TypeInv
<1>. QED  BY TypeInit, <1>2, <1>3, PTL DEF Spec
-----------------------------------------------------------------------------
(***************************************************************************)
(* Ownership.  Two threads may release the lock, and neither does so alone:*)
(* the worker does when it is cancelled already, the caller of cancel when *)
(* the worker has gone already.  close releases it once more, only after   *)
(* it has seen the worker end.  An open run has no caller in any of these. *)
(***************************************************************************)
LockInv ==
  /\ exited <=> place = "ended"
  /\ phase = "open" => caller = "idle" /\ ~cancelled
  /\ caller = "closing" => place = "ended"
  /\ OwnsWhileActive

LEMMA LockWorker == LockInv /\ WorkerStep => LockInv'
<1> SUFFICES ASSUME LockInv, WorkerStep PROVE LockInv'
  OBVIOUS
<1> USE DEF LockInv, OwnsWhileActive
<1>1. CASE Exit
  <2>1. place' = "ended" /\ exited' = TRUE /\ UNCHANGED callers /\ UNCHANGED cancelled
    BY <1>1 DEF Exit, events
  <2>2. phase' = "open" => locked'
    BY <1>1, Zenon DEF Exit, callers
  <2>. QED  BY <2>1, <2>2, Zenon DEF callers
<1>2. CASE ~Exit
  <2>1. /\ place # "ended" /\ place' # "ended"
        /\ UNCHANGED <<exited, locked, cancelled, callers>>
    BY <1>2, SMT
    DEF WorkerStep, LoopTop, CheckStream, CheckFails, Drained, WaitForWork,
        Woken, Gather, Gathered, ChooseStream, DeliverOk, DeliverFails,
        Acknowledge, BackOff, Goto, events
  <2>. QED  BY <2>1, SMT DEF callers
<1>. QED  BY <1>1, <1>2

LEMMA LockOthers ==
  LockInv /\ (\/ \E l \in Loggers : AppendRecord(l) \/ Notify(l)
              \/ CallFinish \/ CallClose \/ CallerStep)
    => LockInv'
<1> SUFFICES ASSUME LockInv,
                    \/ \E l \in Loggers : AppendRecord(l) \/ Notify(l)
                    \/ CallFinish \/ CallClose \/ CallerStep
             PROVE  LockInv'
  OBVIOUS
<1> USE DEF LockInv, OwnsWhileActive
<1>1. ASSUME NEW l \in Loggers, AppendRecord(l) \/ Notify(l) PROVE LockInv'
  BY <1>1, SMT DEF AppendRecord, Notify, events, worker, callers
<1>2. CASE CallFinish \/ CallClose
  BY <1>2, SMT DEF CallFinish, CallClose, events, worker
<1>3. CASE SetStopping \/ SetWake
  BY <1>3, SMT DEF SetStopping, SetWake, worker
<1>4. CASE JoinStopped \/ FinishRun
  BY <1>4, SMT DEF JoinStopped, FinishRun, AfterFailure, events, worker
<1>5. CASE Cancel
  BY <1>5, SMT DEF Cancel, worker
<1>6. CASE JoinCancelled \/ CloseSpool
  BY <1>6, SMT DEF JoinCancelled, CloseSpool, events, worker
<1>. QED
  BY <1>1, <1>2, <1>3, <1>4, <1>5, <1>6 DEF CallerStep

(* ADR 0018: nobody else can open the spool while the worker may still     *)
(* deliver from it or the run may still append to it, however the calls of *)
(* finish, close and cancel and the end of the worker interleave.          *)
THEOREM SpoolIsOwned == Spec => []OwnsWhileActive
<1>1. Init => LockInv
  BY DEF Init, LockInv, OwnsWhileActive
<1>2. LockInv /\ UNCHANGED vars => LockInv'
  BY DEF LockInv, OwnsWhileActive, vars, events, worker, callers
<1>3. LockInv /\ [Next]_vars => LockInv'
  BY <1>2, LockWorker, LockOthers DEF Next
<1>4. LockInv => OwnsWhileActive
  BY DEF LockInv
<1>. QED  BY <1>1, <1>3, <1>4, PTL DEF Spec
-----------------------------------------------------------------------------
(***************************************************************************)
(* Finishing.  A worker that has ended acknowledges nothing, and a run that*)
(* is not open logs nothing: what a caller sees once it has joined the     *)
(* worker stays so until the request is answered, and after.               *)
(***************************************************************************)
FinishInv ==
  (caller = "requesting" \/ outcome = "finished") =>
    place = "ended" /\ phase # "open" /\ NothingPending

LEMMA FinishStep == LockInv /\ FinishInv /\ [Next]_vars => FinishInv'
<1> SUFFICES ASSUME LockInv, FinishInv, [Next]_vars PROVE FinishInv'
  OBVIOUS
<1> USE DEF FinishInv, NothingPending
<1>1. ASSUME NEW l \in Loggers, AppendRecord(l) PROVE FinishInv'
  BY <1>1, SMT DEF AppendRecord, events, worker, callers
<1>2. ASSUME NEW l \in Loggers, Notify(l) PROVE FinishInv'
  BY <1>2, SMT DEF Notify, worker, callers
<1>3. CASE WorkerStep
  <2>1. place \in {"top", "checking", "drained", "waiting", "woken",
                  "gathering", "gathered", "choosing", "delivering", "acking",
                  "backoff", "exiting"}
    BY <1>3, Zenon
    DEF WorkerStep, LoopTop, CheckStream, CheckFails, Drained, WaitForWork,
        Woken, Gather, Gathered, ChooseStream, DeliverOk, DeliverFails,
        Acknowledge, BackOff, Exit
  <2>2. UNCHANGED callers
    BY <1>3, Zenon
    DEF WorkerStep, LoopTop, CheckStream, CheckFails, Drained, WaitForWork,
        Woken, Gather, Gathered, ChooseStream, DeliverOk, DeliverFails,
        Acknowledge, BackOff, Exit
  <2>. QED  BY <2>1, <2>2 DEF callers
<1>4. CASE CallFinish \/ CallClose
  BY <1>4, SMT DEF CallFinish, CallClose, events, worker
<1>5. CASE JoinStopped
  BY <1>5, SMT DEF JoinStopped, AfterFailure, LockInv, events, worker
<1>6. CASE FinishRun
  BY <1>6, SMT DEF FinishRun, events, worker
<1>7. CASE SetStopping \/ SetWake
  BY <1>7, SMT DEF SetStopping, SetWake, worker
<1>8. CASE Cancel
  BY <1>8, SMT DEF Cancel, worker
<1>9. CASE JoinCancelled
  BY <1>9, SMT DEF JoinCancelled, worker
<1>10. CASE CloseSpool
  BY <1>10, SMT DEF CloseSpool, worker
<1>11. CASE UNCHANGED vars
  BY <1>11 DEF vars, worker, callers
<1>. QED
  BY <1>1, <1>2, <1>3, <1>4, <1>5, <1>6, <1>7, <1>8, <1>9,
     <1>10, <1>11
  DEF Next, CallerStep

(* A run that the server was told is finished has no undelivered record,   *)
(* whatever the worker ended on and whatever was logged while it ended.    *)
THEOREM FinishIsComplete == Spec => []FinishedIsDelivered
<1>1. Init => LockInv /\ FinishInv
  BY DEF Init, LockInv, OwnsWhileActive, FinishInv
<1>2. LockInv /\ [Next]_vars => LockInv'
  <2>1. LockInv /\ UNCHANGED vars => LockInv'
    BY DEF LockInv, OwnsWhileActive, vars, events, worker, callers
  <2>. QED  BY <2>1, LockWorker, LockOthers DEF Next
<1>3. FinishInv => FinishedIsDelivered
  BY DEF FinishInv, FinishedIsDelivered
<1>. QED  BY <1>1, <1>2, <1>3, FinishStep, PTL DEF Spec
=============================================================================
