------------------------ MODULE RunLifecycle_proofs ------------------------
(***************************************************************************)
(* Theorems about the life of a run, for any number of records of either   *)
(* kind and any values of the explicit summary.                            *)
(***************************************************************************)
EXTENDS RunLifecycle, TLAPS

Inv == TypeOK /\ LifecycleInv
-----------------------------------------------------------------------------
(* Facts about counts.                                                     *)
LEMMA CountFacts ==
  ASSUME NEW c \in Counts, NEW s \in Streams
  PROVE  /\ c \in [Streams -> Nat]
         /\ c[s] \in Nat /\ MaxRecords[s] \in Nat /\ c[s] <= MaxRecords[s]
BY RecordAssumption, SMT DEF Counts, Streams, MaxRecords

LEMMA MetricBound == "metrics" \in Streams /\ MaxRecords["metrics"] = MaxMetrics
BY DEF Streams, MaxRecords

LEMMA CountUpdate ==
  ASSUME NEW c \in Counts, NEW s \in Streams, NEW n \in Nat, n <= MaxRecords[s]
  PROVE  [c EXCEPT ![s] = n] \in Counts
BY SMT DEF Counts

LEMMA NoneCounted == [s \in Streams |-> 0] \in Counts
BY RecordAssumption, SMT DEF Counts, Streams, MaxRecords

LEMMA MetricFacts ==
  ASSUME TypeOK
  PROVE  /\ journal["metrics"] \in 0 .. MaxMetrics
         /\ stored["metrics"] \in 0 .. MaxMetrics
         /\ 0 \in 0 .. MaxMetrics
         /\ journal["metrics"] \in Summaries /\ metric \in Summaries /\ 0 \in Summaries
         /\ Recovered \in Summaries /\ ServerMetric \in Summaries /\ MergedView \in Summaries
<1>1. journal["metrics"] \in 0 .. MaxMetrics /\ stored["metrics"] \in 0 .. MaxMetrics
  BY CountFacts, MetricBound, RecordAssumption DEF TypeOK
<1>2. 0 \in 0 .. MaxMetrics
  BY RecordAssumption
<1>. QED  BY <1>1, <1>2 DEF TypeOK, Recovered, ServerMetric, MergedView, Summaries

LEMMA OverTyped ==
  ASSUME NEW e \in Values, NEW f \in Values
  PROVE  Over(e, f) \in Values /\ Read(e) \in Values /\ Over(Read(e), Read(f)) \in Values
BY ParserAssumption DEF Over, Read, Values
-----------------------------------------------------------------------------
(* Types.                                                                  *)
LEMMA TypeInit == Init => TypeOK
<1> SUFFICES ASSUME Init PROVE TypeOK
  OBVIOUS
<1>1. journal \in Counts /\ ack \in Counts /\ stored \in Counts /\ made \in Counts
  BY NoneCounted DEF Init
<1>2. metric \in Summaries /\ offset \in 0 .. MaxMetrics /\ view \in Summaries
  BY RecordAssumption DEF Init, Summaries
<1>3. exists \in BOOLEAN /\ finished \in BOOLEAN /\ finishing \in BOOLEAN
  BY Zenon DEF Init
<1>4. reclaimed \in 0 .. 5 /\ late = {} /\ updates = {}
  BY DEF Init
<1>. QED  BY <1>1, <1>2, <1>3, <1>4 DEF Init, TypeOK, Values

(* Opening and creating.                                                   *)
LEMMA TypeOpening ==
  Inv /\ (Open \/ Created \/ Concluded \/ NotCreated) => TypeOK'
<1> SUFFICES ASSUME Inv, Open \/ Created \/ Concluded \/ NotCreated
             PROVE  TypeOK'
  OBVIOUS
<1> USE MetricFacts DEF Inv, TypeOK
<1>1. CASE Open
  BY <1>1, SMT DEF Open, journals, server, network, Values
<1>2. CASE Created
  <2>1. summary' \in Values /\ explicit' = summary'
    BY <1>2, OverTyped DEF Created
  <2>2. view' \in Summaries /\ metric' = view'
    BY <1>2 DEF Created
  <2>. QED  BY <1>2, <2>1, <2>2 DEF Created, journals, network
<1>3. CASE Concluded
  <2>1. explicit' \in Values /\ metric' \in Summaries /\ offset' \in 0 .. MaxMetrics
    BY <1>3, OverTyped DEF Concluded
  <2>2. /\ proc' = "down" /\ outcome' = "finished" /\ UNCHANGED mode
        /\ summary' \in Values /\ view' \in Summaries /\ reclaimed' \in 0 .. 5
    BY <1>3, SMT DEF Concluded, Die, Values
  <2>. QED  BY <1>3, <2>1, <2>2, Zenon DEF Concluded, journals, network, server
<1>4. CASE NotCreated
  BY <1>4, SMT DEF NotCreated, Die, metadata, network, journals, Values
<1>. QED  BY <1>1, <1>2, <1>3, <1>4

(* Logging and delivery.                                                   *)
LEMMA TypeRecords ==
  Inv /\ (\E s \in Streams : Log(s) \/ StoreRecord(s) \/ Acknowledge(s)) => TypeOK'
<1> SUFFICES ASSUME Inv, NEW s \in Streams,
                    Log(s) \/ StoreRecord(s) \/ Acknowledge(s)
             PROVE  TypeOK'
  OBVIOUS
<1> USE DEF Inv, TypeOK
<1>0. /\ journal[s] \in Nat /\ made[s] \in Nat /\ stored[s] \in Nat /\ ack[s] \in Nat
      /\ journal[s] <= MaxRecords[s] /\ MaxRecords[s] \in Nat
      /\ stored[s] <= made[s] /\ made[s] <= MaxRecords[s]
      /\ journal[s] <= made[s]
  BY CountFacts, SMT DEF LifecycleInv, AckedIsStored, JournalsAreWhole
<1>1. CASE Log(s)
  <2>1. journal' \in Counts /\ made' \in Counts
    <3>1. /\ journal[s] + 1 \in Nat /\ journal[s] + 1 <= MaxRecords[s]
          /\ made[s] + 1 \in Nat /\ made[s] + 1 <= MaxRecords[s]
      BY <1>0, <1>1, SMT DEF Log
    <3>2. /\ [journal EXCEPT ![s] = journal[s] + 1] \in Counts
          /\ [made EXCEPT ![s] = made[s] + 1] \in Counts
      BY <3>1, CountUpdate
    <3>. QED  BY <1>1, <3>2, Zenon DEF Log
  <2>2. journal'["metrics"] \in 0 .. MaxMetrics
    BY <2>1, CountFacts, MetricBound
  <2>3. view' \in Summaries
    BY <1>1, <2>2 DEF Log, Summaries
  <2>4. /\ explicit' \in Values /\ metric' \in Summaries
        /\ offset' \in 0 .. MaxMetrics
    BY <1>1, <2>2, <2>3 DEF Log, CheckpointSummary
  <2>. QED  BY <1>1, <2>1, <2>3, <2>4 DEF Log, server, network
<1>2. CASE StoreRecord(s)
  <2>1. stored' \in Counts
    <3>1. stored[s] + 1 \in Nat /\ stored[s] + 1 <= MaxRecords[s]
      BY <1>0, <1>2, SMT DEF StoreRecord
    <3>2. [stored EXCEPT ![s] = stored[s] + 1] \in Counts
      BY <3>1, CountUpdate
    <3>. QED  BY <1>2, <3>2, Zenon DEF StoreRecord
  <2>. QED  BY <1>2, <2>1 DEF StoreRecord, metadata, network, journals, process
<1>3. CASE Acknowledge(s)
  <2>1. ack' \in Counts
    <3>1. ack[s] + 1 \in Nat /\ ack[s] + 1 <= MaxRecords[s]
      BY <1>0, <1>3, SMT DEF Acknowledge
    <3>2. [ack EXCEPT ![s] = ack[s] + 1] \in Counts
      BY <3>1, CountUpdate
    <3>. QED  BY <1>3, <3>2, Zenon DEF Acknowledge
  <2>. QED  BY <1>3, <2>1 DEF Acknowledge, metadata, network, process, server
<1>. QED  BY <1>1, <1>2, <1>3

(* Updates of the summary.                                                 *)
LEMMA TypeUpdates ==
  Inv /\ (UpdateSummary \/ \E e \in Explicit : UpdateLate(e)) => TypeOK'
<1> SUFFICES ASSUME Inv, UpdateSummary \/ \E e \in Explicit : UpdateLate(e)
             PROVE  TypeOK'
  OBVIOUS
<1> USE MetricFacts DEF Inv, TypeOK
<1>0. ASSUME NEW e \in Explicit, UpdateDocument(e)
      PROVE  UNCHANGED <<state, stored>> /\ kept' \in Values
  BY <1>0, OverTyped DEF UpdateDocument, Values
<1>1. CASE UpdateSummary
  <2>1. PICK e \in Explicit :
          /\ summary' = Over(e, summary)
          /\ \/ UNCHANGED <<view, server, updates>>
             \/ UpdateDocument(e) /\ view' = MergedView /\ UNCHANGED updates
             \/ updates' \in {updates, updates \union {e}} /\ UNCHANGED <<view, server>>
    BY <1>1, Zenon DEF UpdateSummary
  <2>2. summary' \in Values /\ view' \in Summaries /\ updates' \subseteq Explicit
    BY <2>1, OverTyped DEF Values
  <2>3. state' = state /\ stored' = stored /\ kept' \in Values
    BY <1>0, <2>1 DEF server
  <2>4. explicit' \in Values /\ metric' \in Summaries /\ offset' \in 0 .. MaxMetrics
    BY <1>1, <2>2 DEF UpdateSummary, CheckpointSummary
  <2>. QED  BY <1>1, <2>2, <2>3, <2>4 DEF UpdateSummary
<1>2. ASSUME NEW e \in Explicit, UpdateLate(e) PROVE TypeOK'
  BY <1>0, <1>2 DEF UpdateLate, metadata, journals, process
<1>. QED  BY <1>1, <1>2

LEMMA RequestTyped ==
  TypeOK => Request \in [explicit : Values, made : Counts]
BY DEF TypeOK, Request

LEMMA FinishRunTyped ==
  ASSUME NEW e \in Values, TypeOK, FinishRun(e)
  PROVE  state' = "finished" /\ kept' \in Values /\ stored' \in Counts
BY OverTyped DEF TypeOK, FinishRun

(* Finishing.                                                              *)
LEMMA TypeFinishing ==
  Inv /\ (\/ Finish \/ FinishOffline \/ Join \/ JoinFails \/ Answered
          \/ Unanswered \/ CheckpointFinished) => TypeOK'
<1> SUFFICES ASSUME Inv, \/ Finish \/ FinishOffline \/ Join \/ JoinFails \/ Answered
                         \/ Unanswered \/ CheckpointFinished
             PROVE  TypeOK'
  OBVIOUS
<1> USE MetricFacts DEF Inv, TypeOK
<1>1. CASE Finish
  <2>1. summary' \in Values
    BY <1>1, OverTyped DEF Finish, Values
  <2>. QED  BY <1>1, <2>1, SMT DEF Finish, CheckpointSummary, server, network
<1>2. CASE FinishOffline
  <2>1. /\ proc' = "down" /\ outcome' = "offline" /\ UNCHANGED mode
        /\ summary' \in Values /\ view' \in Summaries /\ reclaimed' \in 0 .. 5
    BY <1>2, SMT DEF FinishOffline, Die, Values
  <2>. QED  BY <1>2, <2>1, Zenon DEF FinishOffline, journals, network, server
<1>3. CASE Join \/ JoinFails
  BY <1>3, SMT DEF Join, JoinFails, Move, Die, metadata, network, journals, server, Values
<1>4. CASE Answered
  <2>1. state' = "finished" /\ kept' \in Values /\ stored' \in Counts /\ UNCHANGED stored
    BY <1>4, FinishRunTyped DEF Answered, FinishRun
  <2>2. summary' \in Values /\ view' \in Summaries
    BY <1>4, <2>1, OverTyped DEF Answered
  <2>. QED  BY <1>4, <2>1, <2>2 DEF Answered, metadata, journals, network
<1>5. CASE Unanswered
  <2>1. late' \subseteq [explicit : Values, made : Counts]
    BY <1>5, RequestTyped DEF Unanswered
  <2>2. /\ proc' \in {"failed", "down"} /\ outcome' \in {outcome, "failed"}
        /\ summary' \in Values /\ view' \in Summaries /\ reclaimed' \in 0 .. 5
        /\ UNCHANGED mode
    BY <1>5, SMT DEF Unanswered, Move, Die, Values
  <2>. QED  BY <1>5, <2>1, <2>2 DEF Unanswered, metadata, network, journals, server
<1>6. CASE CheckpointFinished
  <2>1. explicit' \in Values /\ metric' \in Summaries /\ offset' \in 0 .. MaxMetrics
    BY <1>6, SMT DEF CheckpointFinished, CheckpointSummary
  <2>. QED  BY <1>6, <2>1, Zenon DEF CheckpointFinished, server, network
<1>. QED  BY <1>1, <1>2, <1>3, <1>4, <1>5, <1>6

(* Reclaiming, the end of a process and late requests.                     *)
LEMMA TypeEnding ==
  Inv /\ (\/ Reclaim \/ Complete \/ Stop
          \/ \E q \in late : HandleLate(q) \/ DropLate(q)) => TypeOK'
<1> SUFFICES ASSUME Inv, \/ Reclaim \/ Complete \/ Stop
                         \/ \E q \in late : HandleLate(q) \/ DropLate(q)
             PROVE  TypeOK'
  OBVIOUS
<1> USE MetricFacts DEF Inv, TypeOK
<1>1. CASE Reclaim
  <2>1. journal' \in Counts /\ ack' \in Counts /\ offset' \in 0 .. MaxMetrics
    <3>1. \A s \in Streams : /\ [journal EXCEPT ![s] = 0] \in Counts
                             /\ [ack EXCEPT ![s] = 0] \in Counts
      BY CountUpdate, CountFacts, SMT
    <3>. QED  BY <1>1, <3>1 DEF Reclaim, Truncate, UnlinkAck, ResetOffset, journals, network, Streams
  <2>2. reclaimed' \in 0 .. 5
    BY <1>1, SMT DEF Reclaim
  <2>. QED  BY <1>1, <2>1, <2>2 DEF Reclaim, server, network
<1>2. CASE Complete
  BY <1>2, SMT DEF Complete, Die, metadata, network, journals, server, Values
<1>3. CASE Stop
  <2>1. late' \subseteq [explicit : Values, made : Counts]
    BY <1>3, RequestTyped DEF Stop
  <2>. QED  BY <1>3, <2>1, SMT DEF Stop, Die, metadata, network, journals, server, Values
<1>4. ASSUME NEW q \in late, HandleLate(q) PROVE TypeOK'
  <2>1. state' = "finished" /\ kept' \in Values /\ stored' \in Counts
    BY <1>4, FinishRunTyped DEF HandleLate
  <2>. QED  BY <1>4, <2>1 DEF HandleLate, metadata, network, journals, process
<1>5. ASSUME NEW q \in late, DropLate(q) PROVE TypeOK'
  BY <1>5 DEF DropLate, metadata, network, journals, process, server
<1>. QED  BY <1>1, <1>2, <1>3, <1>4, <1>5

(* sync_spool.                                                             *)
LEMMA TypeSync ==
  Inv /\ (SyncOpen \/ SyncCreate \/ SyncConclude \/ SyncFails \/ SyncAnswered)
    => TypeOK'
<1> SUFFICES ASSUME Inv, SyncOpen \/ SyncCreate \/ SyncConclude \/ SyncFails
                           \/ SyncAnswered
             PROVE  TypeOK'
  OBVIOUS
<1> USE MetricFacts DEF Inv, TypeOK
<1>1. CASE SyncOpen
  BY <1>1 DEF SyncOpen, metadata, network, journals, server
<1>2. CASE SyncCreate \/ SyncConclude
  BY <1>2, SMT DEF SyncCreate, SyncConclude, Move, Die, metadata, network, journals, server, Values
<1>3. CASE SyncFails
  BY <1>3, SMT DEF SyncFails, Die, metadata, network, journals, Values
<1>4. CASE SyncAnswered
  <2>1. state' = "finished" /\ kept' \in Values /\ stored' \in Counts
    BY <1>4, FinishRunTyped DEF SyncAnswered
  <2>. QED  BY <1>4, <2>1, SMT DEF SyncAnswered, Die, metadata, network, journals, Values
<1>. QED  BY <1>1, <1>2, <1>3, <1>4

LEMMA TypeNext == Inv /\ [Next]_vars => TypeOK'
<1>1. Inv /\ UNCHANGED vars => TypeOK'
  BY DEF Inv, TypeOK, vars, network, metadata, journals, process, server
<1>. QED
  BY <1>1, TypeOpening, TypeRecords, TypeUpdates, TypeFinishing, TypeEnding, TypeSync
  DEF Next
-----------------------------------------------------------------------------
(* An update of the summary leaves everything else alone.                  *)
Updates == UpdateSummary \/ \E e \in Explicit : UpdateLate(e)

LEMMA UpdatesLeaveAlone ==
  Updates => UNCHANGED <<exists, finished, finishing, journals, proc, mode, reclaimed,
                         outcome, state, stored, late, made>>
<1>1. UpdateSummary => UNCHANGED <<exists, finished, finishing, journals, proc, mode,
                                   reclaimed, outcome, state, stored, late, made>>
  BY DEF UpdateSummary, UpdateDocument, CheckpointSummary, journals, server
<1>2. ASSUME NEW e \in Explicit
      PROVE  UpdateLate(e) => UNCHANGED <<exists, finished, finishing, journals, proc, mode,
                                          reclaimed, outcome, state, stored, late, made>>
  BY DEF UpdateLate, UpdateDocument, metadata, journals, process
<1>. QED  BY <1>1, <1>2 DEF Updates

(* What an action leaves alone of the counts.                              *)
CountsStay == UNCHANGED <<journal, ack, stored, made>>

Steps ==
  \/ Open \/ Created \/ Concluded \/ NotCreated \/ Updates
  \/ Finish \/ FinishOffline \/ Join \/ JoinFails
  \/ Answered \/ Unanswered \/ CheckpointFinished \/ Complete \/ Stop
  \/ \E q \in late : HandleLate(q) \/ DropLate(q)
  \/ SyncOpen \/ SyncCreate \/ SyncConclude \/ SyncFails \/ SyncAnswered
  \/ UNCHANGED vars

(* A step of a run is one of these, counts a record, or reclaims.          *)
LEMMA StepCases ==
  [Next]_vars <=> \/ Steps \/ Reclaim
                  \/ \E s \in Streams : Log(s) \/ StoreRecord(s) \/ Acknowledge(s)
BY DEF Next, Steps, Updates

LEMMA StepsLeaveCounts == Steps => CountsStay
<1> SUFFICES ASSUME Steps PROVE CountsStay
  OBVIOUS
<1> USE DEF CountsStay, journals, network, server, vars
<1>1. CASE Open \/ Created \/ Concluded \/ NotCreated \/ UNCHANGED vars
  BY <1>1 DEF Open, Created, Concluded, NotCreated
<1>2. CASE \/ Finish \/ FinishOffline \/ Join \/ JoinFails \/ Answered
           \/ Unanswered \/ CheckpointFinished
  BY <1>2 DEF Finish, FinishOffline, Join, JoinFails, Answered, Unanswered,
              CheckpointFinished, FinishRun
<1>3. CASE Complete \/ Stop \/ \E q \in late : HandleLate(q) \/ DropLate(q)
  BY <1>3 DEF Complete, Stop, HandleLate, DropLate, FinishRun
<1>4. CASE SyncOpen \/ SyncCreate \/ SyncConclude \/ SyncFails \/ SyncAnswered
  BY <1>4 DEF SyncOpen, SyncCreate, SyncConclude, SyncFails, SyncAnswered, FinishRun
<1>5. CASE Updates
  BY <1>5, UpdatesLeaveAlone
<1>. QED  BY <1>1, <1>2, <1>3, <1>4, <1>5 DEF Steps

(* What is finished in the spool stays so.                                 *)
LEMMA FinishedStays == [Next]_vars /\ finished => finished'
<1> SUFFICES ASSUME [Next]_vars, finished PROVE finished'
  OBVIOUS
<1> USE DEF metadata, network, vars
<1>1. CASE Open \/ Created \/ Concluded \/ NotCreated \/ UNCHANGED vars
  BY <1>1, Zenon DEF Open, Created, Concluded, NotCreated
<1>2. CASE \/ Finish \/ FinishOffline \/ Join \/ JoinFails \/ Answered
           \/ Unanswered \/ CheckpointFinished
  BY <1>2, Zenon DEF Finish, FinishOffline, Join, JoinFails, Answered, Unanswered,
              CheckpointFinished
<1>3. CASE \/ Complete \/ Stop \/ Reclaim
           \/ \E q \in late : HandleLate(q) \/ DropLate(q)
  BY <1>3, Zenon DEF Complete, Stop, Reclaim, HandleLate, DropLate
<1>4. CASE SyncOpen \/ SyncCreate \/ SyncConclude \/ SyncFails \/ SyncAnswered
  BY <1>4, Zenon DEF SyncOpen, SyncCreate, SyncConclude, SyncFails, SyncAnswered
<1>5. CASE \E s \in Streams : Log(s) \/ StoreRecord(s) \/ Acknowledge(s)
  BY <1>5, Zenon DEF Log, StoreRecord, Acknowledge
<1>6. CASE Updates
  BY <1>6, UpdatesLeaveAlone, Zenon
<1>. QED  BY <1>1, <1>2, <1>3, <1>4, <1>5, <1>6 DEF Next, Updates
-----------------------------------------------------------------------------
(* Where a process stands agrees with what run.json says.                  *)
LEMMA PlacesNext == Inv /\ [Next]_vars => PlacesAgree'
<1> SUFFICES ASSUME Inv, [Next]_vars PROVE PlacesAgree'
  OBVIOUS
<1> USE DEF Inv, LifecycleInv, PlacesAgree, RunPlaces, metadata, network, process, Move, Die
<1>1. CASE Open
  BY <1>1, SMT DEF Open
<1>2. CASE Created
  BY <1>2, SMT DEF Created
<1>3. CASE Concluded
  BY <1>3, SMT DEF Concluded
<1>4. CASE NotCreated
  BY <1>4, SMT DEF NotCreated
<1>5. CASE Finish
  BY <1>5, SMT DEF Finish
<1>6. CASE FinishOffline
  BY <1>6, SMT DEF FinishOffline
<1>7. CASE Join \/ JoinFails \/ Unanswered
  BY <1>7, SMT DEF Join, JoinFails, Unanswered
<1>8. CASE Answered \/ CheckpointFinished
  BY <1>8, SMT DEF Answered, CheckpointFinished
<1>9. CASE Complete \/ Stop \/ Reclaim
  BY <1>9, SMT DEF Complete, Stop, Reclaim
<1>10. CASE \E q \in late : HandleLate(q) \/ DropLate(q)
  BY <1>10, SMT DEF HandleLate, DropLate
<1>11. CASE SyncOpen
  BY <1>11, SMT DEF SyncOpen
<1>12. CASE SyncCreate \/ SyncConclude \/ SyncFails \/ SyncAnswered
  BY <1>12, SMT DEF SyncCreate, SyncConclude, SyncFails, SyncAnswered
<1>13. CASE \E s \in Streams : Log(s) \/ StoreRecord(s) \/ Acknowledge(s)
  BY <1>13, SMT DEF Log, StoreRecord, Acknowledge
<1>14. CASE UNCHANGED vars
  BY <1>14, SMT DEF vars, network
<1>15. CASE Updates
  BY <1>15, UpdatesLeaveAlone, SMT
<1>. QED  BY <1>1, <1>2, <1>3, <1>4, <1>5, <1>6, <1>7, <1>8, <1>9, <1>10, <1>11,
             <1>12, <1>13, <1>14, <1>15 DEF Next, Updates
-----------------------------------------------------------------------------
(* The counts: what is acknowledged is stored, what is stored was made, and*)
(* the journals hold everything until they are reclaimed.                  *)
LEMMA CountsKnown ==
  ASSUME Inv, NEW s \in Streams
  PROVE  /\ journal[s] \in Nat /\ ack[s] \in Nat /\ stored[s] \in Nat /\ made[s] \in Nat
         /\ ack[s] <= stored[s] /\ stored[s] <= made[s]
         /\ \/ journal[s] = made[s]
            \/ finished /\ journal[s] = 0 /\ stored[s] = made[s]
BY CountFacts DEF Inv, TypeOK, LifecycleInv, AckedIsStored, JournalsAreWhole

LEMMA CountsNext == Inv /\ [Next]_vars => AckedIsStored' /\ JournalsAreWhole'
<1> SUFFICES ASSUME Inv, [Next]_vars, NEW t \in Streams
             PROVE  /\ ack'[t] <= stored'[t] /\ stored'[t] <= made'[t]
                    /\ \/ journal'[t] = made'[t]
                       \/ finished' /\ journal'[t] = 0 /\ stored'[t] = made'[t]
  BY DEF AckedIsStored, JournalsAreWhole
<1>0. /\ journal \in [Streams -> Nat] /\ ack \in [Streams -> Nat]
      /\ stored \in [Streams -> Nat] /\ made \in [Streams -> Nat]
  BY CountFacts DEF Inv, TypeOK, Counts
<1>1. CASE Steps
  BY <1>1, StepsLeaveCounts, FinishedStays, CountsKnown DEF CountsStay
<1>2. ASSUME NEW s \in Streams, Log(s)
      PROVE  /\ journal'[t] = made'[t]
             /\ ack'[t] <= stored'[t] /\ stored'[t] <= made'[t]
  <2>1. ~finished
    BY <1>2 DEF Log, Inv, LifecycleInv, PlacesAgree, RunPlaces
  <2>2. journal[t] = made[t]
    BY <2>1, CountsKnown
  <2>. QED  BY <1>0, <1>2, <2>2, CountsKnown, SMT DEF Log, server, network
<1>3. ASSUME NEW s \in Streams, StoreRecord(s)
      PROVE  /\ ack'[t] <= stored'[t] /\ stored'[t] <= made'[t]
             /\ \/ journal'[t] = made'[t]
                \/ finished' /\ journal'[t] = 0 /\ stored'[t] = made'[t]
  <2>1. CASE t = s
    <3>1. journal[s] = made[s]
      BY <1>3, CountsKnown, SMT DEF StoreRecord
    <3>. QED  BY <1>0, <1>3, <2>1, <3>1, CountsKnown, SMT DEF StoreRecord, journals, network
  <2>2. CASE t # s
    BY <1>0, <1>3, <2>2, CountsKnown, FinishedStays, SMT DEF StoreRecord, journals, network
  <2>. QED  BY <2>1, <2>2
<1>4. ASSUME NEW s \in Streams, Acknowledge(s)
      PROVE  /\ ack'[t] <= stored'[t]
             /\ UNCHANGED <<journal, stored, made>>
  BY <1>0, <1>4, CountsKnown, SMT DEF Acknowledge, server, network
<1>5. CASE Reclaim
  <2>1. finished /\ stored[t] = made[t]
    BY <1>5 DEF Reclaim, Inv, LifecycleInv, PlacesAgree, RunPlaces,
                FinishesAreCovered, AllStored
  <2>2. finished' /\ UNCHANGED <<stored, made>>
    BY <2>1, <1>5, FinishedStays DEF Reclaim, server, network
  <2>3. /\ journal'[t] \in {journal[t], 0}
        /\ ack'[t] \in {ack[t], 0}
    BY <1>0, <1>5, SMT DEF Reclaim, Truncate, UnlinkAck, ResetOffset, journals, network
  <2>. QED  BY <2>1, <2>2, <2>3, CountsKnown, SMT
<1>. QED  BY <1>1, <1>2, <1>3, <1>4, <1>5, StepCases, CountsKnown, FinishedStays
-----------------------------------------------------------------------------
(* With nothing pending everything is stored: a journal that lacks records *)
(* was reclaimed, and then they had been stored before.                    *)
LEMMA DrainedIsStored == Inv /\ NothingPending => AllStored
<1> SUFFICES ASSUME Inv, NothingPending, NEW s \in Streams PROVE stored[s] = made[s]
  BY DEF AllStored
<1>1. ack[s] >= journal[s]
  BY DEF NothingPending
<1>. QED  BY <1>1, CountsKnown, SMT

(* The number of stored records never shrinks, and records are made by an  *)
(* open run only.                                                          *)
LEMMA StoredGrows ==
  ASSUME Inv, [Next]_vars, NEW t \in Streams
  PROVE  /\ stored'[t] >= stored[t]
         /\ proc # "open" => made' = made
<1>0. stored \in [Streams -> Nat]
  BY CountFacts DEF Inv, TypeOK, Counts
<1>1. CASE Steps
  BY <1>0, <1>1, StepsLeaveCounts, SMT DEF CountsStay
<1>2. CASE Reclaim
  BY <1>0, <1>2, SMT DEF Reclaim, server, network
<1>3. ASSUME NEW s \in Streams, Log(s) \/ StoreRecord(s) \/ Acknowledge(s)
      PROVE  stored'[t] >= stored[t] /\ (proc # "open" => made' = made)
  BY <1>0, <1>3, SMT DEF Log, StoreRecord, Acknowledge, server, network
<1>. QED  BY <1>1, <1>2, <1>3, StepCases

LEMMA StoredStays ==
  ASSUME Inv, [Next]_vars, proc # "open", AllStored PROVE AllStored'
<1> SUFFICES ASSUME NEW t \in Streams PROVE stored'[t] = made'[t]
  BY DEF AllStored
<1>1. stored'[t] >= stored[t] /\ made' = made
  BY StoredGrows
<1>2. stored'[t] <= made'[t]
  BY CountsNext DEF AckedIsStored
<1>3. stored'[t] \in Nat /\ made[t] \in Nat /\ stored[t] = made[t]
  BY TypeNext, CountFacts, CountsKnown DEF AllStored, TypeOK
<1>. QED  BY <1>1, <1>2, <1>3, SMT
-----------------------------------------------------------------------------
(* Finishing: everything is stored from the join on.                       *)
Past == {"requesting", "syncRequesting", "answered", "reclaiming"}

(* Only the join leads there, and only a conclusion or the end of          *)
(* reclaiming says finished.                                               *)
LEMMA OnlyJoinLeadsPast ==
  [Next]_vars /\ proc' \in Past /\ proc \notin Past => Join
<1> SUFFICES ASSUME [Next]_vars, proc' \in Past, proc \notin Past, ~Join
             PROVE  FALSE
  OBVIOUS
<1> USE DEF Past, process, network, Move, Die
<1>1. CASE Open \/ Created \/ Concluded \/ NotCreated
  BY <1>1, SMT DEF Open, Created, Concluded, NotCreated
<1>2. CASE \/ Finish \/ FinishOffline \/ JoinFails \/ Answered \/ Unanswered
           \/ CheckpointFinished
  BY <1>2, SMT DEF Finish, FinishOffline, JoinFails, Answered, Unanswered,
                   CheckpointFinished
<1>3. CASE \/ Complete \/ Stop \/ Reclaim
           \/ \E q \in late : HandleLate(q) \/ DropLate(q)
  BY <1>3, SMT DEF Complete, Stop, Reclaim, HandleLate, DropLate
<1>4. CASE SyncOpen \/ SyncCreate \/ SyncConclude \/ SyncFails \/ SyncAnswered
  BY <1>4, SMT DEF SyncOpen, SyncCreate, SyncConclude, SyncFails, SyncAnswered
<1>5. CASE \E s \in Streams : Log(s) \/ StoreRecord(s) \/ Acknowledge(s)
  BY <1>5, SMT DEF Log, StoreRecord, Acknowledge
<1>6. CASE UNCHANGED vars
  BY <1>6, SMT DEF vars, network
<1>7. CASE Updates
  BY <1>7, UpdatesLeaveAlone, SMT
<1>. QED  BY <1>1, <1>2, <1>3, <1>4, <1>5, <1>6, <1>7 DEF Next, Updates

LEMMA OnlyTheseFinish ==
  [Next]_vars /\ outcome' = "finished" /\ outcome # "finished" => Concluded \/ Complete
<1> SUFFICES ASSUME [Next]_vars, outcome' = "finished", outcome # "finished",
                    ~Concluded, ~Complete
             PROVE  FALSE
  OBVIOUS
<1> USE DEF process, network, Move, Die
<1>1. CASE Open \/ Created \/ NotCreated
  BY <1>1, SMT DEF Open, Created, NotCreated
<1>2. CASE \/ Finish \/ FinishOffline \/ Join \/ JoinFails \/ Answered
           \/ Unanswered \/ CheckpointFinished
  BY <1>2, SMT DEF Finish, FinishOffline, Join, JoinFails, Answered, Unanswered,
                   CheckpointFinished
<1>3. CASE Stop \/ Reclaim \/ \E q \in late : HandleLate(q) \/ DropLate(q)
  BY <1>3, SMT DEF Stop, Reclaim, HandleLate, DropLate
<1>4. CASE SyncOpen \/ SyncCreate \/ SyncConclude \/ SyncFails \/ SyncAnswered
  BY <1>4, SMT DEF SyncOpen, SyncCreate, SyncConclude, SyncFails, SyncAnswered
<1>5. CASE \E s \in Streams : Log(s) \/ StoreRecord(s) \/ Acknowledge(s)
  BY <1>5, SMT DEF Log, StoreRecord, Acknowledge
<1>6. CASE UNCHANGED vars
  BY <1>6, SMT DEF vars, network
<1>7. CASE Updates
  BY <1>7, UpdatesLeaveAlone, SMT
<1>. QED  BY <1>1, <1>2, <1>3, <1>4, <1>5, <1>6, <1>7 DEF Next, Updates

(* A request that arrives late was sent by a process past the join.        *)
LEMMA OnlyRequestsAreLate ==
  ASSUME [Next]_vars, NEW q \in late', q \notin late
  PROVE  proc \in {"requesting", "syncRequesting"} /\ q = Request
<1> USE DEF vars, network
<1>1. CASE Open \/ Created \/ Concluded \/ NotCreated \/ UNCHANGED vars
  BY <1>1, Zenon DEF Open, Created, Concluded, NotCreated
<1>2. CASE \/ Finish \/ FinishOffline \/ Join \/ JoinFails \/ Answered
           \/ CheckpointFinished
  BY <1>2, Zenon DEF Finish, FinishOffline, Join, JoinFails, Answered,
                     CheckpointFinished
<1>3. CASE Unanswered \/ Stop
  BY <1>3, SMT DEF Unanswered, Stop
<1>4. CASE Complete \/ Reclaim \/ \E r \in late : HandleLate(r) \/ DropLate(r)
  BY <1>4, SMT DEF Complete, Reclaim, HandleLate, DropLate
<1>5. CASE SyncOpen \/ SyncCreate \/ SyncConclude \/ SyncFails \/ SyncAnswered
  BY <1>5, Zenon DEF SyncOpen, SyncCreate, SyncConclude, SyncFails, SyncAnswered
<1>6. CASE \E s \in Streams : Log(s) \/ StoreRecord(s) \/ Acknowledge(s)
  BY <1>6, Zenon DEF Log, StoreRecord, Acknowledge
<1>7. CASE Updates
  BY <1>7, UpdatesLeaveAlone, SMT
<1>. QED  BY <1>1, <1>2, <1>3, <1>4, <1>5, <1>6, <1>7 DEF Next, Updates

LEMMA CoverNext == Inv /\ [Next]_vars => FinishesAreCovered'
<1> SUFFICES ASSUME Inv, [Next]_vars PROVE FinishesAreCovered'
  OBVIOUS
<1>0. FinishesAreCovered /\ PlacesAgree
  BY DEF Inv, LifecycleInv
<1>1. ASSUME proc' \in Past PROVE AllStored'
  <2>1. CASE proc \in Past
    BY <1>0, <2>1, StoredStays DEF Past, FinishesAreCovered
  <2>2. CASE proc \notin Past
    <3>1. Join
      BY <1>1, <2>2, OnlyJoinLeadsPast
    <3>2. NothingPending /\ proc # "open"
      BY <3>1 DEF Join
    <3>. QED  BY <3>2, DrainedIsStored, StoredStays
  <2>. QED  BY <2>1, <2>2
<1>2. ASSUME outcome' = "finished" PROVE AllStored'
  <2>1. CASE outcome = "finished"
    BY <1>0, <2>1, StoredStays DEF FinishesAreCovered, PlacesAgree
  <2>2. CASE Concluded
    BY <2>2, DrainedIsStored, StoredStays DEF Concluded, CanConclude
  <2>3. CASE Complete
    BY <1>0, <2>3, StoredStays DEF Complete, FinishesAreCovered
  <2>. QED  BY <1>2, <2>1, <2>2, <2>3, OnlyTheseFinish
<1>3. ASSUME NEW q \in late', NEW s \in Streams PROVE q.made[s] <= stored'[s]
  <2>0. stored'[s] \in Nat /\ stored[s] \in Nat /\ made[s] \in Nat /\ stored'[s] >= stored[s]
    BY StoredGrows, TypeNext, CountFacts, CountsKnown DEF TypeOK
  <2>1. CASE q \in late
    <3>1. q.made \in Counts
      BY <2>1 DEF Inv, TypeOK
    <3>2. q.made[s] \in Nat /\ q.made[s] <= stored[s]
      BY <1>0, <2>1, <3>1, CountFacts DEF FinishesAreCovered
    <3>. QED  BY <2>0, <3>2, SMT
  <2>2. CASE q \notin late
    <3>1. proc \in {"requesting", "syncRequesting"} /\ q.made = made
      BY <2>2, OnlyRequestsAreLate DEF Request
    <3>2. made[s] = stored[s]
      BY <1>0, <3>1 DEF FinishesAreCovered, AllStored
    <3>. QED  BY <2>0, <3>1, <3>2, SMT
  <2>. QED  BY <2>1, <2>2
<1>. QED  BY <1>1, <1>2, <1>3 DEF FinishesAreCovered, Past
-----------------------------------------------------------------------------
(* The summary is that of the journal.                                     *)
LEMMA SummaryNext == Inv /\ [Next]_vars => SummaryIsDerived'
<1> SUFFICES ASSUME Inv, [Next]_vars, ~finished'
             PROVE  /\ offset' <= journal'["metrics"]
                    /\ offset' = journal'["metrics"] => metric' = journal'["metrics"]
                    /\ proc' \in RunPlaces \ {"answered"} => view' = journal'["metrics"]
  BY DEF SummaryIsDerived
<1>0. /\ ~finished /\ SummaryIsDerived /\ PlacesAgree
      /\ journal["metrics"] \in Nat /\ offset \in Nat
      /\ offset <= journal["metrics"]
      /\ offset = journal["metrics"] => metric = journal["metrics"]
      /\ proc \in RunPlaces \ {"answered"} => view = journal["metrics"]
  BY FinishedStays, MetricFacts, RecordAssumption, SMT
  DEF Inv, TypeOK, LifecycleInv, SummaryIsDerived
<1>1. CASE Open
  <2>1. Recovered = journal["metrics"] /\ UNCHANGED journal
    BY <1>0, <1>1, SMT DEF Open, Recovered, journals, network
  <2>. QED  BY <1>0, <1>1, <2>1, SMT DEF Open
<1>2. CASE Created
  <2>1. view = journal["metrics"] /\ UNCHANGED <<journal, offset>>
    BY <1>0, <1>2, SMT DEF Created, RunPlaces, journals, network
  <2>2. journal["metrics"] = 0 => stored["metrics"] = 0
    BY <1>0, CountsKnown, MetricBound, SMT
  <2>3. view' = journal["metrics"] /\ metric' = view'
    BY <1>2, <2>1, <2>2, ParserAssumption DEF Created, ServerMetric, MergedView
  <2>. QED  BY <1>0, <2>1, <2>3, SMT
<1>3. CASE NotCreated \/ JoinFails \/ Join \/ Unanswered \/ Stop
  BY <1>0, <1>3, SMT
  DEF NotCreated, JoinFails, Join, Unanswered, Stop, Move, Die, metadata, network, journals, RunPlaces
<1>4. CASE Finish
  BY <1>0, <1>4, SMT DEF Finish, CheckpointSummary, RunPlaces
<1>5. CASE Answered
  BY <1>0, <1>5, SMT DEF Answered, FinishRun, metadata, journals
<1>6. ASSUME NEW q \in late, HandleLate(q) \/ DropLate(q)
      PROVE  UNCHANGED <<metadata, journals, process>>
  BY <1>6 DEF HandleLate, DropLate
<1>7. CASE Concluded \/ FinishOffline \/ CheckpointFinished
  BY <1>7, Zenon DEF Concluded, FinishOffline, CheckpointFinished
<1>8. CASE \/ Reclaim \/ Complete \/ SyncOpen \/ SyncCreate \/ SyncConclude
           \/ SyncFails \/ SyncAnswered
  BY <1>0, <1>8, SMT DEF Reclaim, Complete, SyncOpen, SyncCreate, SyncConclude,
                         SyncFails, SyncAnswered, PlacesAgree, RunPlaces
<1>9. ASSUME NEW s \in Streams, Log(s)
      PROVE  /\ offset' <= journal'["metrics"]
             /\ offset' = journal'["metrics"] => metric' = journal'["metrics"]
             /\ view' = journal'["metrics"]
  <2>0. journal \in [Streams -> Nat] /\ view = journal["metrics"]
    BY <1>0, <1>9, SMT DEF Inv, TypeOK, Counts, Log, RunPlaces
  <2>1. CASE s = "metrics"
    <3>1. journal'["metrics"] = journal["metrics"] + 1 /\ view' = journal'["metrics"]
      BY <1>9, <2>0, <2>1, SMT DEF Log
    <3>2. \/ UNCHANGED <<metric, offset>>
          \/ metric' = view' /\ offset' = journal'["metrics"]
      BY <1>9 DEF Log, CheckpointSummary
    <3>. QED  BY <1>0, <3>1, <3>2, SMT
  <2>2. CASE s # "metrics"
    BY <1>0, <1>9, <2>0, <2>2, SMT DEF Log
  <2>. QED  BY <2>1, <2>2
<1>10. ASSUME NEW s \in Streams, StoreRecord(s) \/ Acknowledge(s)
       PROVE  UNCHANGED <<metadata, journal, process>>
  BY <1>10 DEF StoreRecord, Acknowledge, journals, network
<1>11. CASE UNCHANGED vars
  BY <1>0, <1>11, SMT DEF vars, network, metadata, journals, process
<1>12. CASE UpdateSummary
  <2>1. view = journal["metrics"] /\ UNCHANGED <<journal, proc>>
    BY <1>0, <1>12, SMT DEF UpdateSummary, RunPlaces
  <2>2. journal["metrics"] = 0 => stored["metrics"] = 0
    BY <1>0, CountsKnown, MetricBound, SMT
  <2>3. MergedView = view
    BY <2>1, <2>2, ParserAssumption DEF ServerMetric, MergedView
  <2>4. view' = view
    BY <1>12, <2>3, Zenon DEF UpdateSummary
  <2>5. metric' = view' /\ offset' = journal'["metrics"]
    BY <1>12 DEF UpdateSummary, CheckpointSummary
  <2>. QED  BY <1>0, <2>1, <2>4, <2>5, SMT
<1>13. ASSUME NEW e \in Explicit, UpdateLate(e)
       PROVE  UNCHANGED <<metadata, journals, process>>
  BY <1>13 DEF UpdateLate
<1>. QED
  BY <1>0, <1>1, <1>2, <1>3, <1>4, <1>5, <1>6, <1>7, <1>8, <1>9, <1>10, <1>11, <1>12,
     <1>13
  DEF Next, metadata, network, journals, process
-----------------------------------------------------------------------------
LEMMA InvInit == Init => Inv
<1> SUFFICES ASSUME Init PROVE Inv
  OBVIOUS
<1>1. AckedIsStored /\ JournalsAreWhole
  BY SMT DEF Init, AckedIsStored, JournalsAreWhole, Streams
<1>2. PlacesAgree /\ FinishesAreCovered
  BY SMT DEF Init, PlacesAgree, FinishesAreCovered, RunPlaces
<1>3. SummaryIsDerived
  BY SMT DEF Init, SummaryIsDerived, RunPlaces, Streams
<1>. QED  BY <1>1, <1>2, <1>3, TypeInit DEF Inv, LifecycleInv

(* The inductive invariant of the lifecycle: acknowledged, stored and made *)
(* records, the journals, the process, run.json and late requests agree.   *)
THEOREM Invariance == Spec => [](TypeOK /\ LifecycleInv)
<1>1. Inv /\ [Next]_vars => Inv'
  BY TypeNext, PlacesNext, CountsNext, CoverNext, SummaryNext DEF Inv, LifecycleInv
<1>. QED  BY InvInit, <1>1, PTL DEF Spec, Inv

(* Counts of equal entries are equal.                                      *)
LEMMA StoredIsMade == TypeOK /\ AllStored => stored = made
BY DEF TypeOK, AllStored, Counts

(* A run that is reported finished has everything ever logged stored.      *)
THEOREM FinishIsComplete == Spec => []FinishedIsComplete
<1>1. TypeOK /\ LifecycleInv => FinishedIsComplete
  BY StoredIsMade DEF LifecycleInv, FinishesAreCovered, FinishedIsComplete
<1>. QED  BY Invariance, <1>1, PTL

(* What a spool has lost to reclaiming, the server has.                    *)
THEOREM ReclaimIsSafe == Spec => []ReclaimedIsStored
<1>1. TypeOK /\ LifecycleInv => ReclaimedIsStored
  BY CountFacts, SMT DEF TypeOK, LifecycleInv, JournalsAreWhole, ReclaimedIsStored
<1>. QED  BY Invariance, <1>1, PTL

(* A finish request, also a late one, cuts off nothing logged before it.   *)
THEOREM RequestsCutNothing == Spec => []RequestsAreCovered
<1>1. TypeOK /\ LifecycleInv => RequestsAreCovered
  BY StoredIsMade DEF LifecycleInv, FinishesAreCovered, RequestsAreCovered
<1>. QED  BY Invariance, <1>1, PTL

(* A finish whose answer was lost is recognised from what the spool and the*)
(* server say, if the server's parser keeps the numbers of the run.        *)
THEOREM LostFinishIsKnown == Spec => []LostFinishIsRecognised
<1>1. TypeOK /\ LifecycleInv => LostFinishIsRecognised
  <2> SUFFICES ASSUME TypeOK, LifecycleInv, FinishLost, NumbersAreKept
               PROVE  Matches(explicit, Recovered)
    BY DEF LostFinishIsRecognised
  <2>1. ~finished /\ Inv /\ NothingPending /\ state = "finished"
    BY DEF Inv, LifecycleInv, PlacesAgree, FinishLost
  <2>2. stored["metrics"] = journal["metrics"]
    BY <2>1, DrainedIsStored, CountsKnown, MetricBound, SMT DEF AllStored
  <2>3. offset \in Nat /\ journal["metrics"] \in Nat
    BY MetricFacts, RecordAssumption DEF TypeOK
  <2>4. Recovered = journal["metrics"]
    BY <2>1, <2>3, SMT DEF LifecycleInv, SummaryIsDerived, Recovered
  <2>5. Recovered = ServerMetric
    BY <2>2, <2>4 DEF NumbersAreKept, ServerMetric
  <2>6. explicit \in {None, Read(kept)}
    BY Zenon DEF FinishLost, NumbersAreKept
  <2>. QED  BY <2>1, <2>5, <2>6 DEF Matches
<1>. QED  BY Invariance, <1>1, PTL

(* Nothing a client sends changes a run that is finished.                  *)
THEOREM FinishedRunStays == Spec => FinishedRunIsFixed
<1>1. [Next]_vars => [state = "finished" => UNCHANGED server]_vars
  <2> SUFFICES ASSUME Next, state = "finished" PROVE UNCHANGED server
    OBVIOUS
  <2> USE DEF server, network
  <2>1. CASE Open \/ Created \/ Concluded \/ NotCreated
    BY <2>1, SMT DEF Open, Created, Concluded, NotCreated
  <2>2. CASE \E s \in Streams : Log(s) \/ StoreRecord(s) \/ Acknowledge(s)
    BY <2>2, SMT DEF Log, StoreRecord, Acknowledge
  <2>3. CASE \/ Finish \/ FinishOffline \/ Join \/ JoinFails \/ Answered
             \/ Unanswered \/ CheckpointFinished
    BY <2>3, SMT DEF Finish, FinishOffline, Join, JoinFails, Answered, Unanswered,
                     CheckpointFinished, FinishRun
  <2>4. CASE \/ Reclaim \/ Complete \/ Stop
             \/ \E q \in late : HandleLate(q) \/ DropLate(q)
    BY <2>4, SMT DEF Reclaim, Complete, Stop, HandleLate, DropLate, FinishRun
  <2>5. CASE SyncOpen \/ SyncCreate \/ SyncConclude \/ SyncFails \/ SyncAnswered
    BY <2>5, SMT DEF SyncOpen, SyncCreate, SyncConclude, SyncFails, SyncAnswered,
                     FinishRun
  <2>6. CASE Updates
    BY <2>6, SMT DEF Updates, UpdateSummary, UpdateLate, UpdateDocument
  <2>. QED  BY <2>1, <2>2, <2>3, <2>4, <2>5, <2>6 DEF Next, Updates
<1>. QED  BY <1>1, PTL DEF Spec, FinishedRunIsFixed
=============================================================================
