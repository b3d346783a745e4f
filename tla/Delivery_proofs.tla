--------------------------- MODULE Delivery_proofs ---------------------------
(***************************************************************************)
(* Proofs about Delivery for every batch limit, checkpoint interval, fault *)
(* set and bound: the inductive invariant, and from it the exactly-once    *)
(* properties and the refinement of ReliableCopy.                          *)
(***************************************************************************)
EXTENDS Delivery, TLAPS

-----------------------------------------------------------------------------
(* Facts about sequences, each proved once.                                *)

(* Appending an element keeps the others in place.                         *)
LEMMA AppendFacts ==
  ASSUME NEW S, NEW s \in Seq(S), NEW e \in S
  PROVE  /\ Append(s, e) \in Seq(S)
         /\ Len(Append(s, e)) = Len(s) + 1
         /\ \A i \in 1 .. Len(s) : Append(s, e)[i] = s[i]
         /\ Append(s, e)[Len(s) + 1] = e
  OBVIOUS

(* A slice of a sequence: its type, its length and its elements.           *)
LEMMA SliceFacts ==
  ASSUME NEW S, NEW s \in Seq(S), NEW m \in Nat, NEW n \in Nat,
         m + n <= Len(s)
  PROVE  /\ SubSeq(s, m + 1, m + n) \in Seq(S)
         /\ Len(SubSeq(s, m + 1, m + n)) = n
         /\ \A i \in 1 .. n : SubSeq(s, m + 1, m + n)[i] = s[m + i]
  OBVIOUS

(* Concatenation: its type, its length and its elements.                   *)
LEMMA ConcatFacts ==
  ASSUME NEW S, NEW s \in Seq(S), NEW t \in Seq(S)
  PROVE  /\ s \o t \in Seq(S)
         /\ Len(s \o t) = Len(s) + Len(t)
         /\ \A i \in 1 .. Len(s) : (s \o t)[i] = s[i]
         /\ \A i \in 1 .. Len(t) : (s \o t)[Len(s) + i] = t[i]
  OBVIOUS
-----------------------------------------------------------------------------
(* Type correctness.                                                       *)

LEMMA EmptyTyped == <<>> \in Request /\ <<>> \in Seq(Point)
  BY DEF Request

LEMMA NoDeliveryTyped ==
  NoDelivery \in [start: Nat, end: Nat, body: Request]
  BY EmptyTyped DEF NoDelivery

LEMMA LinesTyped ==
  ASSUME TypeOK PROVE Garbled \in Point /\ NextPoint \in Point
  BY DEF TypeOK, ProcessTyped, HistoryTyped, Garbled, NextPoint, Point

LEMMA InitTypeOK == Init => TypeOK
<1> SUFFICES ASSUME Init PROVE TypeOK
  OBVIOUS
<1>1. FilesTyped
  BY EmptyTyped, NoDeliveryTyped DEF Init, FilesTyped
<1>2. ProcessTyped
  BY EmptyTyped, LimitAssumption DEF Init, ProcessTyped
<1>3. ExchangeTyped /\ HistoryTyped /\ ServerTyped
  BY EmptyTyped DEF Init, ServerInit, ExchangeTyped, HistoryTyped, ServerTyped
<1> QED BY <1>1, <1>2, <1>3 DEF TypeOK

(* The sequence number of a point of a request.                            *)
LEMMA PointTyped ==
  ASSUME NEW s \in Request, NEW i \in 1 .. Len(s)
  PROVE  s[i] \in Point /\ s[i].seq \in Nat /\ s[i].id \in Nat
<1>1. s[i] \in Point
  BY DEF Request
<1> QED BY <1>1 DEF Point

LEMMA LastTyped ==
  ASSUME NEW s \in Request, s # <<>>
  PROVE  Len(s) \in 1 .. Len(s) /\ s[Len(s)].seq \in Nat
<1>1. Len(s) \in Nat \ {0}
  BY DEF Request
<1>2. Len(s) \in 1 .. Len(s)
  BY <1>1
<1> QED BY <1>2, PointTyped

LEMMA LenTyped ==
  ASSUME NEW s \in Request PROVE Len(s) \in Nat
  BY DEF Request

(* What the server does with a request of the right type.                  *)
LEMMA ServerStepTyped ==
  ASSUME ServerTyped, NEW r \in Request,
         AcceptBatch(r) \/ AnswerDuplicate(r) \/ RefuseBatch(r)
  PROVE  ServerTyped'
<1>1. stored \o r \in Request
  BY ConcatFacts DEF ServerTyped, Request
<1> QED BY <1>1 DEF ServerTyped, AcceptBatch, AnswerDuplicate, RefuseBatch,
                    serverVars

(* Every step keeps the types.                                             *)
LEMMA NextTypeOK == TypeOK /\ [Next]_vars => TypeOK'
<1> SUFFICES ASSUME FilesTyped, ProcessTyped, ExchangeTyped, HistoryTyped,
                    ServerTyped, [Next]_vars
             PROVE  /\ FilesTyped' /\ ProcessTyped' /\ ExchangeTyped'
                    /\ HistoryTyped' /\ ServerTyped'
  BY DEF TypeOK
<1>0. Len(journal) \in Nat /\ ack \in Nat /\ Len(request) \in Nat
  BY LenTyped DEF FilesTyped, ProcessTyped
<1>1. CASE OpenSpool
  <2>1. nextSeq' \in Nat
    BY <1>1, LastTyped DEF OpenSpool, FilesTyped
  <2>2. ProcessTyped'
    BY <1>0, <1>1, <2>1, LimitAssumption DEF OpenSpool, ProcessTyped
  <2>3. FilesTyped'
    BY <1>0, <1>1, NoDeliveryTyped DEF OpenSpool, FilesTyped
  <2> QED BY <1>1, <2>2, <2>3
          DEF OpenSpool, ExchangeTyped, HistoryTyped, ServerTyped, exchange,
              history, serverVars
<1>2. CASE Resume
  <2>1. ServerNextSequence \in Nat
    BY LastTyped DEF ServerNextSequence, ServerTyped
  <2>2. FilesTyped' /\ ProcessTyped'
    BY <1>2, <2>1 DEF Resume, FilesTyped, ProcessTyped
  <2> QED BY <1>2, <2>2
          DEF Resume, CreateOrResume, ExchangeTyped, HistoryTyped,
              ServerTyped, exchange, history
<1>3. CASE Crash
  <2>1. FilesTyped'
    BY <1>3 DEF Crash, FilesTyped
  <2>2. ProcessTyped'
    BY <1>3, EmptyTyped, LimitAssumption DEF Crash, ProcessTyped
  <2>3. ExchangeTyped'
    BY <1>3, EmptyTyped DEF Crash, ExchangeTyped
  <2> QED BY <1>3, <2>1, <2>2, <2>3
          DEF Crash, HistoryTyped, ServerTyped, serverVars
<1>4. CASE Log
  <2>1. Appended(NextPoint) \in Request
    BY LinesTyped, AppendFacts DEF Appended, Request, FilesTyped, TypeOK
  <2>2. journal' \in Request /\ Len(journal') \in Nat
    BY <1>4, <2>1, LenTyped DEF Log
  <2>3. FilesTyped'
    BY <1>4, <2>2 DEF Log, FilesTyped
  <2>4. ProcessTyped'
    BY <1>4, <2>2, LimitAssumption DEF Log, CanLog, ProcessTyped
  <2>5. HistoryTyped'
    BY <1>4 DEF Log, HistoryTyped
  <2> QED BY <1>4, <2>3, <2>4, <2>5
          DEF Log, ExchangeTyped, ServerTyped, exchange, serverVars
<1>5. CASE LogInterrupted
  <2>1. Appended(NextPoint) \in Request
    BY LinesTyped, AppendFacts DEF Appended, Request, FilesTyped, TypeOK
  <2>2. FilesTyped'
    BY <1>5, <2>1 DEF LogInterrupted, FilesTyped
  <2> QED BY <1>5, <2>2
          DEF LogInterrupted, ProcessTyped, HistoryTyped, ExchangeTyped,
              ServerTyped, run, exchange, serverVars
<1>6. CASE Checkpoint
  <2>1. FilesTyped' /\ ProcessTyped'
    BY <1>6, LimitAssumption DEF Checkpoint, FilesTyped, ProcessTyped
  <2> QED BY <1>6, <2>1
          DEF Checkpoint, HistoryTyped, ExchangeTyped, ServerTyped, exchange,
              history, serverVars
<1>7. CASE SelectBatch
  <2>1. PICK n \in 1 .. Len(journal) - ack :
           /\ request' = SubSeq(journal, ack + 1, ack + n)
           /\ delivery' = [start |-> ack, end |-> ack + n, body |-> request']
    BY <1>7 DEF SelectBatch
  <2>2. n \in Nat /\ ack + n <= Len(journal)
    BY <1>0
  <2>3. request' \in Request
    BY <1>0, <2>1, <2>2, SliceFacts DEF Request, FilesTyped
  <2>4. FilesTyped'
    BY <1>0, <1>7, <2>1, <2>2, <2>3 DEF SelectBatch, FilesTyped
  <2> QED BY <1>7, <2>3, <2>4
          DEF SelectBatch, ProcessTyped, HistoryTyped, ExchangeTyped,
              ServerTyped, run, exchange, history, serverVars
<1>8. CASE ReplayBatch \/ SendBatch \/ GiveUp \/ ReceiveOk \/ ReceiveError
  <2>1. FilesTyped' /\ HistoryTyped' /\ ServerTyped'
    BY <1>8
    DEF ReplayBatch, SendBatch, GiveUp, ReceiveOk, ReceiveError, FilesTyped,
        HistoryTyped, ServerTyped, files, history, serverVars
  <2>2. ProcessTyped'
    BY <1>8, EmptyTyped
    DEF ReplayBatch, SendBatch, GiveUp, ReceiveOk, ReceiveError,
        ProcessTyped, FilesTyped, run
  <2>3. ExchangeTyped'
    BY <1>8, EmptyTyped
    DEF ReplayBatch, SendBatch, GiveUp, ReceiveOk, ReceiveError,
        ExchangeTyped, ProcessTyped, exchange
  <2> QED BY <2>1, <2>2, <2>3
<1>9. CASE WriteAck
  BY <1>0, <1>9 DEF WriteAck, FilesTyped, ProcessTyped, HistoryTyped,
    ExchangeTyped, ServerTyped, run, exchange, history, serverVars
<1>10. CASE UnlinkDelivery
  BY <1>10, EmptyTyped, NoDeliveryTyped
  DEF UnlinkDelivery, FilesTyped, ProcessTyped, HistoryTyped, ExchangeTyped,
      ServerTyped, run, exchange, history, serverVars
<1>11. CASE ServerAnswers
  <2>1. ServerTyped'
    BY <1>11, ServerStepTyped DEF ServerAnswers, ExchangeTyped
  <2>2. ExchangeTyped'
    BY <1>11, EmptyTyped DEF ServerAnswers, ExchangeTyped
  <2> QED BY <1>11, <2>1, <2>2
          DEF ServerAnswers, FilesTyped, ProcessTyped, HistoryTyped, files,
              run, history
<1>12. CASE ServerHandlesStale \/ DropStale
  <2>1. ServerTyped'
    BY <1>12, ServerStepTyped
    DEF ServerHandlesStale, DropStale, ExchangeTyped, ServerTyped, serverVars
  <2> QED BY <1>12, <2>1
          DEF ServerHandlesStale, DropStale, FilesTyped, ProcessTyped,
              HistoryTyped, ExchangeTyped, files, run, exchange, history
<1>13. CASE UNCHANGED vars
  BY <1>13 DEF vars, files, run, exchange, history, serverVars, FilesTyped,
               ProcessTyped, ExchangeTyped, HistoryTyped, ServerTyped
<1> QED
  BY <1>1, <1>2, <1>3, <1>4, <1>5, <1>6, <1>7, <1>8, <1>9, <1>10, <1>11,
     <1>12, <1>13 DEF Next

(* All variables keep their types.                                         *)
THEOREM TypeCorrectness == Spec => []TypeOK
  BY InitTypeOK, NextTypeOK, PTL DEF Spec

-----------------------------------------------------------------------------
(* The inductive invariant.                                                *)

Facts ==
  /\ FollowsLine(stored, 0)
  /\ PointsAreDistinct /\ PointsAreNumbered
  /\ BatchesAreStored
  /\ DeliveryIsSlice
  /\ ServerIsAtBoundary
  /\ OneBatchInFlight
  /\ WorkerHoldsDelivery

(* The part of the state Facts speaks of.                                  *)
factVars ==
  <<journal, ack, delivery, worker, request, wire, reply, stale, batches,
    stored>>

LEMMA InitFacts == Init => Facts
  BY DEF Init, ServerInit, NoDelivery, Facts, FollowsLine, PointsAreDistinct,
         PointsAreNumbered, BatchesAreStored, DeliveryIsSlice,
         ServerIsAtBoundary, OneBatchInFlight, WorkerHoldsDelivery, Delivering

(* A step that leaves those variables alone preserves the facts.           *)
LEMMA QuietStep ==
  ASSUME TypeOK, Facts, UNCHANGED factVars, logs' \in Nat, logs <= logs'
  PROVE  Facts'
<1>1. PointsAreNumbered'
  <2>1. ASSUME NEW i \in 1 .. Len(journal) PROVE journal[i].id <= logs'
    <3>1. journal[i].id \in Nat /\ logs \in Nat /\ journal[i].id <= logs
      BY PointTyped DEF TypeOK, FilesTyped, HistoryTyped, Facts,
                        PointsAreNumbered
    <3> QED BY <3>1
  <2> QED BY <2>1 DEF PointsAreNumbered, factVars
<1> QED BY <1>1 DEF factVars, Facts, FollowsLine, PointsAreDistinct,
                    BatchesAreStored, DeliveryIsSlice, ServerIsAtBoundary,
                    OneBatchInFlight, WorkerHoldsDelivery, Delivering

(* Appending a line: none of the old lines moves, and the new one differs  *)
(* from each readable one.                                                 *)
LEMMA AppendPreservesFacts ==
  ASSUME TypeOK, Facts,
         journal' = Appended(NextPoint),
         logs' = logs + 1,
         UNCHANGED <<ack, delivery, worker, request, wire, reply, stale,
                     batches, stored>>
  PROVE  Facts'
<1> DEFINE line == IF torn THEN Garbled ELSE NextPoint
<1>0. /\ journal \in Request /\ Len(journal) \in Nat /\ ack \in Nat
      /\ logs \in Nat /\ stored \in Request /\ delivery.body \in Request
      /\ batches \in SUBSET Request
  BY LenTyped DEF TypeOK, FilesTyped, HistoryTyped, ServerTyped
<1>1. /\ line \in Point
      /\ line.id <= logs + 1
      /\ line.seq > 0 => line.id = logs + 1
  BY <1>0, LinesTyped DEF NextPoint, Garbled
<1>2. /\ Len(journal') = Len(journal) + 1
      /\ \A i \in 1 .. Len(journal) : journal'[i] = journal[i]
      /\ journal'[Len(journal) + 1] = line
  BY <1>0, <1>1, AppendFacts DEF Appended, Request
<1>3. ASSUME NEW s \in Request, NEW k \in Nat, FollowsLine(s, k)
      PROVE  /\ k + Len(s) <= Len(journal')
             /\ \A i \in 1 .. Len(s) : s[i] = journal'[k + i]
  <2>1. Len(s) \in Nat
    BY LenTyped
  <2>2. ASSUME NEW i \in 1 .. Len(s)
        PROVE  k + i \in 1 .. Len(journal) /\ s[i] = journal[k + i]
    BY <1>0, <1>3, <2>1 DEF FollowsLine
  <2> QED BY <1>0, <1>2, <1>3, <2>1, <2>2 DEF FollowsLine
<1>4. FollowsLine(stored, 0)'
  BY <1>0, <1>3 DEF Facts, FollowsLine
<1>5. PointsAreDistinct' /\ PointsAreNumbered'
  <2>1. ASSUME NEW i \in 1 .. Len(journal')
        PROVE  \/ i \in 1 .. Len(journal) /\ journal'[i] = journal[i]
                  /\ journal[i].id \in Nat /\ journal[i].id <= logs
               \/ i = Len(journal) + 1 /\ journal'[i] = line
    <3>1. i \in 1 .. Len(journal) \/ i = Len(journal) + 1
      BY <1>0, <1>2
    <3> QED BY <1>0, <1>2, <3>1, PointTyped DEF Facts, PointsAreNumbered
  <2>2. PointsAreNumbered'
    BY <1>0, <1>1, <2>1 DEF PointsAreNumbered
  <2>3. ASSUME NEW i \in 1 .. Len(journal'), NEW j \in 1 .. Len(journal'),
               i # j, journal'[i].seq > 0, journal'[j].seq > 0
        PROVE  journal'[i].id # journal'[j].id
    <3>1. CASE i \in 1 .. Len(journal) /\ j \in 1 .. Len(journal)
      BY <1>2, <2>3, <3>1 DEF Facts, PointsAreDistinct, Readable
    <3>2. CASE i = Len(journal) + 1 \/ j = Len(journal) + 1
      BY <1>0, <1>1, <1>2, <2>1, <2>3, <3>2
    <3> QED BY <2>1, <3>1, <3>2
  <2> QED BY <2>2, <2>3 DEF PointsAreDistinct, Readable
<1>6. BatchesAreStored'
  <2>1. \A k \in 1 .. Len(stored) : journal'[k] = journal[k]
    <3>1. Len(stored) \in Nat /\ Len(stored) <= Len(journal)
      BY <1>0, LenTyped DEF Facts, FollowsLine
    <3> QED BY <1>0, <1>2, <3>1
  <2> QED BY <2>1 DEF Facts, BatchesAreStored, Readable
<1>7. DeliveryIsSlice'
  BY <1>0, <1>3 DEF Facts, DeliveryIsSlice, Delivering, FollowsLine, Readable
<1>8. ServerIsAtBoundary' /\ OneBatchInFlight' /\ WorkerHoldsDelivery'
  BY DEF Facts, ServerIsAtBoundary, OneBatchInFlight, WorkerHoldsDelivery,
         Delivering
<1> QED BY <1>4, <1>5, <1>6, <1>7, <1>8 DEF Facts

(* Selecting a batch: the chosen points come after everything acknowledged,*)
(* which is everything the server has, so no registered batch is equal.    *)
LEMMA SelectPreservesFacts ==
  ASSUME TypeOK, Facts, SelectBatch
  PROVE  Facts'
<1>0. /\ journal \in Request /\ Len(journal) \in Nat /\ ack \in Nat
      /\ Len(stored) = ack /\ ~Delivering
  BY LenTyped DEF TypeOK, FilesTyped, Facts, ServerIsAtBoundary, SelectBatch
<1>1. PICK n \in 1 .. Len(journal) - ack :
         /\ MayTake(n)
         /\ request' = SubSeq(journal, ack + 1, ack + n)
         /\ delivery' = [start |-> ack, end |-> ack + n, body |-> request']
  BY DEF SelectBatch
<1>2. n \in Nat /\ 1 <= n /\ ack + n <= Len(journal)
  BY <1>0
<1>3. /\ request' \in Request
      /\ Len(request') = n
      /\ \A i \in 1 .. n : request'[i] = journal[ack + i]
  BY <1>0, <1>1, <1>2, SliceFacts DEF Request
<1>4. UNCHANGED <<journal, ack, wire, reply, stale, batches, stored, logs>>
      /\ worker = "idle" /\ worker' = "selected"
  BY DEF SelectBatch, exchange, serverVars, history
<1>5. \A i \in 1 .. n : Readable(request'[i])
  <2>1. ASSUME NEW i \in 1 .. n PROVE Readable(journal[ack + i])
    <3>1. ack + i \in ack + 1 .. ack + n
      BY <1>0, <1>2
    <3> QED BY <1>1, <3>1 DEF MayTake
  <2> QED BY <1>3, <2>1
<1>6. request' \notin batches
  <2> SUFFICES ASSUME request' \in batches PROVE FALSE
    OBVIOUS
  <2>1. 1 \in 1 .. n /\ 1 \in 1 .. Len(request')
    BY <1>2, <1>3
  <2>2. PICK k \in 1 .. Len(stored) : request'[1] = journal[k]
    BY <2>1 DEF Facts, BatchesAreStored
  <2>3. /\ k \in 1 .. Len(journal) /\ ack + 1 \in 1 .. Len(journal)
        /\ k # ack + 1
    BY <1>0, <1>2
  <2>4. journal[k] = journal[ack + 1] /\ Readable(journal[k])
    BY <1>3, <1>5, <2>1, <2>2
  <2> QED BY <2>3, <2>4 DEF Facts, PointsAreDistinct
<1>7. Delivering'
  BY <1>0, <1>1, <1>2, <1>4 DEF Delivering
<1>8. delivery'.start = ack /\ delivery'.end = ack + n
      /\ delivery'.body = request'
  BY <1>1
<1>9. FollowsLine(stored, 0)' /\ PointsAreDistinct' /\ PointsAreNumbered'
      /\ BatchesAreStored'
  BY <1>4 DEF Facts, FollowsLine, PointsAreDistinct, PointsAreNumbered,
              BatchesAreStored
<1>10. DeliveryIsSlice'
  BY <1>2, <1>3, <1>4, <1>5, <1>8 DEF DeliveryIsSlice, FollowsLine
<1>11. ServerIsAtBoundary'
  BY <1>0, <1>4, <1>6, <1>7, <1>8 DEF ServerIsAtBoundary
<1>12. OneBatchInFlight'
  BY <1>0, <1>4 DEF Facts, OneBatchInFlight
<1>13. WorkerHoldsDelivery'
  BY <1>4, <1>7, <1>8 DEF Facts, WorkerHoldsDelivery
<1> QED BY <1>9, <1>10, <1>11, <1>12, <1>13 DEF Facts

(* Replaying one: the recorded range still holds the recorded points.      *)
LEMMA ReplayPreservesFacts ==
  ASSUME TypeOK, Facts, ReplayBatch
  PROVE  Facts'
<1>1. UNCHANGED <<journal, ack, delivery, wire, reply, stale, batches,
                  stored, logs>>
      /\ worker = "idle" /\ worker' = "selected"
      /\ Delivering /\ request' = delivery.body
  BY DEF ReplayBatch, files, exchange, serverVars, history
<1>2. WorkerHoldsDelivery'
  BY <1>1 DEF Facts, WorkerHoldsDelivery, Delivering
<1> QED BY <1>1, <1>2
        DEF Facts, FollowsLine, PointsAreDistinct, PointsAreNumbered,
            BatchesAreStored, DeliveryIsSlice, ServerIsAtBoundary,
            OneBatchInFlight, Delivering

(* The client's side of the exchange: nothing but the position of the      *)
(* worker and the place of its request changes.                            *)
LEMMA ExchangePreservesFacts ==
  ASSUME TypeOK, Facts,
         \/ SendBatch \/ GiveUp \/ ReceiveOk \/ ReceiveError \/ DropStale
         \/ Crash
  PROVE  Facts'
<1>1. UNCHANGED <<journal, ack, delivery, batches, stored, logs>>
  BY DEF SendBatch, GiveUp, ReceiveOk, ReceiveError, DropStale, Crash, files,
         serverVars, history
<1>2. FollowsLine(stored, 0)' /\ PointsAreDistinct' /\ PointsAreNumbered'
      /\ BatchesAreStored' /\ DeliveryIsSlice' /\ ServerIsAtBoundary'
  BY <1>1 DEF Facts, FollowsLine, PointsAreDistinct, PointsAreNumbered,
              BatchesAreStored, DeliveryIsSlice, ServerIsAtBoundary,
              Delivering
<1>3. ASSUME NEW r \in stale' \union ({wire'} \ {<<>>})
      PROVE  \/ r \in stale \union ({wire} \ {<<>>})
             \/ Delivering /\ r = delivery.body
  <2>1. CASE SendBatch
    <3>1. wire' = request /\ stale' = stale
      BY <2>1 DEF SendBatch
    <3>2. Delivering /\ request = delivery.body
      BY <2>1 DEF SendBatch, Facts, WorkerHoldsDelivery
    <3> QED BY <1>3, <3>1, <3>2
  <2>2. CASE GiveUp \/ Crash
    <3>1. /\ wire' = <<>>
          /\ stale' = IF wire = <<>> THEN stale ELSE stale \union {wire}
      BY <2>2 DEF GiveUp, Crash
    <3> QED BY <1>3, <3>1
  <2>3. CASE ReceiveOk \/ ReceiveError \/ DropStale
    <3>1. wire' = wire /\ stale' \subseteq stale
      BY <2>3 DEF ReceiveOk, ReceiveError, DropStale
    <3> QED BY <1>3, <3>1
  <2> QED BY <2>1, <2>2, <2>3
<1>4. OneBatchInFlight'
  BY <1>1, <1>3 DEF Facts, OneBatchInFlight, Delivering
<1>5. WorkerHoldsDelivery'
  <2>1. CASE SendBatch
    BY <2>1, <1>1 DEF SendBatch, Facts, WorkerHoldsDelivery, Delivering
  <2>2. CASE GiveUp \/ Crash
    BY <2>2, <1>1 DEF GiveUp, Crash, Facts, WorkerHoldsDelivery, Delivering
  <2>3. CASE ReceiveOk \/ ReceiveError \/ DropStale
    BY <2>3, <1>1 DEF ReceiveOk, ReceiveError, DropStale, Facts,
                      WorkerHoldsDelivery, Delivering
  <2> QED BY <2>1, <2>2, <2>3
<1> QED BY <1>2, <1>4, <1>5 DEF Facts

(* Acknowledging: the batch is on the server, so the acknowledged part and *)
(* the stored part end at the same line.                                   *)
LEMMA AckPreservesFacts ==
  ASSUME TypeOK, Facts, WriteAck \/ UnlinkDelivery
  PROVE  Facts'
<1>0. ack \in Nat /\ Len(delivery.body) \in Nat
  BY LenTyped DEF TypeOK, FilesTyped
<1>1. UNCHANGED <<journal, wire, reply, stale, batches, stored, logs>>
  BY DEF WriteAck, UnlinkDelivery, exchange, history, serverVars
<1>2. FollowsLine(stored, 0)' /\ PointsAreDistinct' /\ PointsAreNumbered'
      /\ BatchesAreStored'
  BY <1>1 DEF Facts, FollowsLine, PointsAreDistinct, PointsAreNumbered,
              BatchesAreStored
<1>3. CASE WriteAck
  <2>1. /\ Delivering /\ request = delivery.body
        /\ request \in batches
        /\ worker = "acking" /\ worker' = "unlinking"
        /\ delivery' = delivery /\ request' = request
        /\ delivery.end = ack + Len(delivery.body)
    BY <1>3 DEF WriteAck, Facts, WorkerHoldsDelivery, DeliveryIsSlice
  <2>2. ack' = delivery.end
    BY <1>3, <2>1 DEF WriteAck
  <2>3. ~Delivering'
    BY <1>0, <2>1, <2>2 DEF Delivering
  <2>4. Len(stored) = delivery.end
    BY <1>0, <2>1 DEF Facts, ServerIsAtBoundary
  <2>5. ServerIsAtBoundary' /\ DeliveryIsSlice'
    BY <1>1, <2>2, <2>3, <2>4 DEF ServerIsAtBoundary, DeliveryIsSlice
  <2>6. OneBatchInFlight'
    BY <1>1, <2>1 DEF Facts, OneBatchInFlight
  <2>7. WorkerHoldsDelivery'
    BY <1>1, <2>1, <2>3 DEF Facts, WorkerHoldsDelivery
  <2> QED BY <1>2, <2>5, <2>6, <2>7 DEF Facts
<1>4. CASE UnlinkDelivery
  <2>1. /\ ~Delivering
        /\ worker = "unlinking" /\ worker' = "idle"
        /\ delivery' = NoDelivery /\ ack' = ack
    BY <1>4 DEF UnlinkDelivery, Facts, WorkerHoldsDelivery
  <2>2. ~Delivering'
    BY <1>0, <2>1 DEF Delivering, NoDelivery
  <2>3. ServerIsAtBoundary' /\ DeliveryIsSlice'
    BY <1>1, <2>1, <2>2 DEF Facts, ServerIsAtBoundary, DeliveryIsSlice
  <2>4. OneBatchInFlight'
    BY <1>1, <2>1 DEF Facts, OneBatchInFlight
  <2>5. WorkerHoldsDelivery'
    BY <1>1, <2>1, <2>2 DEF Facts, WorkerHoldsDelivery
  <2> QED BY <1>2, <2>3, <2>4, <2>5 DEF Facts
<1> QED BY <1>3, <1>4

(* The server accepts a request only when it is the recorded batch and the *)
(* server still is at the acknowledged line.                               *)
LEMMA AcceptPreservesFacts ==
  ASSUME TypeOK, Facts,
         NEW r \in stale \union ({wire} \ {<<>>}),
         AcceptBatch(r),
         UNCHANGED <<journal, ack, delivery, logs>>
  PROVE  /\ FollowsLine(stored, 0)' /\ PointsAreDistinct' /\ PointsAreNumbered'
         /\ BatchesAreStored' /\ DeliveryIsSlice' /\ ServerIsAtBoundary'
<1>0. /\ journal \in Request /\ stored \in Request /\ r \in Request
      /\ Len(journal) \in Nat /\ Len(stored) \in Nat /\ Len(r) \in Nat
      /\ ack \in Nat
  BY LenTyped DEF TypeOK, FilesTyped, ServerTyped, ExchangeTyped
<1>1. /\ r \notin batches
      /\ batches' = batches \union {r} /\ stored' = stored \o r
  BY DEF AcceptBatch, CanAccept, IsDuplicate
<1>2. Delivering /\ r = delivery.body
  BY <1>1 DEF Facts, OneBatchInFlight
<1>3. Len(stored) = ack
  BY <1>1, <1>2 DEF Facts, ServerIsAtBoundary
<1>4. /\ delivery.end = ack + Len(r)
      /\ ack + Len(r) <= Len(journal)
      /\ \A i \in 1 .. Len(r) : r[i] = journal[ack + i] /\ Readable(r[i])
  BY <1>2 DEF Facts, DeliveryIsSlice, FollowsLine
<1>5. /\ Len(stored') = ack + Len(r)
      /\ \A i \in 1 .. Len(stored) : stored'[i] = stored[i]
      /\ \A i \in 1 .. Len(r) : stored'[ack + i] = r[i]
  <2>1. stored \in Seq(Point) /\ r \in Seq(Point)
    BY <1>0 DEF Request
  <2>2. /\ Len(stored \o r) = Len(stored) + Len(r)
        /\ \A i \in 1 .. Len(stored) : (stored \o r)[i] = stored[i]
        /\ \A i \in 1 .. Len(r) : (stored \o r)[Len(stored) + i] = r[i]
    BY <2>1, ConcatFacts
  <2> QED BY <1>1, <1>3, <2>2
<1>6. FollowsLine(stored, 0)'
  <2>1. ASSUME NEW i \in 1 .. Len(stored') PROVE stored'[i] = journal[0 + i]
    <3>1. CASE i <= ack
      BY <1>0, <1>3, <1>5, <3>1 DEF Facts, FollowsLine
    <3>2. CASE i > ack
      <4>1. i - ack \in 1 .. Len(r) /\ ack + (i - ack) = i
        BY <1>0, <1>5, <3>2
      <4> QED BY <1>4, <1>5, <4>1
    <3> QED BY <1>0, <3>1, <3>2
  <2> QED BY <1>0, <1>4, <1>5, <2>1 DEF FollowsLine
<1>7. BatchesAreStored'
  <2>1. r # <<>>
    BY <1>0, <1>2, <1>4 DEF Delivering
  <2>2. ASSUME NEW i \in 1 .. Len(r)
        PROVE  Readable(r[i]) /\ \E k \in 1 .. Len(stored') : r[i] = journal[k]
    <3>1. ack + i \in 1 .. Len(stored')
      BY <1>0, <1>5
    <3> QED BY <1>4, <3>1
  <2>3. 1 .. Len(stored) \subseteq 1 .. Len(stored')
    BY <1>0, <1>3, <1>5
  <2> QED BY <1>1, <2>1, <2>2, <2>3 DEF Facts, BatchesAreStored
<1>8. ServerIsAtBoundary' /\ DeliveryIsSlice'
  BY <1>1, <1>2, <1>4, <1>5
  DEF Facts, ServerIsAtBoundary, DeliveryIsSlice, Delivering, FollowsLine
<1> QED BY <1>6, <1>7, <1>8 DEF Facts, PointsAreDistinct, PointsAreNumbered

(* The server's steps.                                                     *)
LEMMA ServerPreservesFacts ==
  ASSUME TypeOK, Facts, ServerAnswers \/ ServerHandlesStale
  PROVE  Facts'
<1> DEFINE Settled ==
      /\ FollowsLine(stored, 0)' /\ PointsAreDistinct' /\ PointsAreNumbered'
      /\ BatchesAreStored' /\ DeliveryIsSlice' /\ ServerIsAtBoundary'
<1>1. UNCHANGED <<journal, ack, delivery, logs, worker, request, stale>>
  BY DEF ServerAnswers, ServerHandlesStale, files, history, exchange
<1>2. PICK r \in stale \union ({wire} \ {<<>>}) :
         AcceptBatch(r) \/ AnswerDuplicate(r) \/ RefuseBatch(r)
  BY DEF ServerAnswers, ServerHandlesStale
<1>3. Settled
  <2>1. CASE AcceptBatch(r)
    BY <1>1, <2>1, AcceptPreservesFacts
  <2>2. CASE AnswerDuplicate(r) \/ RefuseBatch(r)
    BY <1>1, <2>2
    DEF AnswerDuplicate, RefuseBatch, serverVars, Facts, FollowsLine,
        PointsAreDistinct, PointsAreNumbered, BatchesAreStored,
        DeliveryIsSlice, ServerIsAtBoundary, Delivering
  <2> QED BY <1>2, <2>1, <2>2
<1>4. batches \subseteq batches'
  BY <1>2 DEF AcceptBatch, AnswerDuplicate, RefuseBatch, serverVars
<1>5. OneBatchInFlight'
  <2>1. wire' = wire \/ wire' = <<>>
    BY DEF ServerAnswers, ServerHandlesStale, exchange
  <2> QED BY <1>1, <1>4, <2>1 DEF Facts, OneBatchInFlight, Delivering
<1>6. WorkerHoldsDelivery'
  <2>1. CASE ServerAnswers
    <3>1. reply' = "ok" => wire \in batches'
      BY <2>1 DEF ServerAnswers, AcceptBatch, AnswerDuplicate, IsDuplicate,
                  RefuseBatch, serverVars
    <3> QED BY <1>1, <1>4, <2>1, <3>1
            DEF ServerAnswers, Facts, WorkerHoldsDelivery, Delivering
  <2>2. CASE ServerHandlesStale
    BY <1>1, <1>4, <2>2
    DEF ServerHandlesStale, exchange, Facts, WorkerHoldsDelivery, Delivering
  <2> QED BY <2>1, <2>2
<1> QED BY <1>3, <1>5, <1>6 DEF Facts

(* Opening the spool drops a record of a delivery that is over.            *)
LEMMA OpenPreservesFacts ==
  ASSUME TypeOK, Facts, OpenSpool
  PROVE  Facts'
<1>0. ack \in Nat /\ logs \in Nat
  BY DEF TypeOK, FilesTyped, HistoryTyped
<1>1. UNCHANGED <<journal, ack, worker, request, wire, reply, stale, batches,
                  stored, logs>>
  BY DEF OpenSpool, exchange, history, serverVars
<1>2. CASE Delivering \/ delivery' = delivery
  <2>1. UNCHANGED factVars
    BY <1>1, <1>2 DEF OpenSpool, factVars
  <2> QED BY <1>0, <1>1, <2>1, QuietStep
<1>3. CASE ~Delivering /\ delivery' = NoDelivery
  <2>1. ~Delivering'
    BY <1>0, <1>1, <1>3 DEF Delivering, NoDelivery
  <2>2. DeliveryIsSlice' /\ ServerIsAtBoundary'
    BY <1>1, <1>3, <2>1 DEF Facts, DeliveryIsSlice, ServerIsAtBoundary
  <2>3. OneBatchInFlight' /\ WorkerHoldsDelivery'
    BY <1>1, <1>3, <2>1 DEF Facts, OneBatchInFlight, WorkerHoldsDelivery
  <2> QED BY <1>1, <2>2, <2>3
          DEF Facts, FollowsLine, PointsAreDistinct, PointsAreNumbered,
              BatchesAreStored
<1> QED BY <1>2, <1>3 DEF OpenSpool

(* Every step preserves the facts.                                         *)
LEMMA NextFacts == TypeOK /\ Facts /\ [Next]_vars => Facts'
<1> SUFFICES ASSUME TypeOK, Facts, [Next]_vars PROVE Facts'
  OBVIOUS
<1>0. logs \in Nat
  BY DEF TypeOK, HistoryTyped
<1>1. CASE OpenSpool
  BY <1>1, OpenPreservesFacts
<1>2. CASE Resume \/ Checkpoint \/ UNCHANGED vars
  <2>1. UNCHANGED factVars /\ logs' = logs
    BY <1>2 DEF Resume, CreateOrResume, Checkpoint, factVars, vars, files, run,
                exchange, history, serverVars
  <2> QED BY <1>0, <2>1, QuietStep
<1>3. CASE Log
  BY <1>3, AppendPreservesFacts DEF Log, exchange, serverVars
<1>4. CASE LogInterrupted
  <2>1. UNCHANGED <<ack, delivery, worker, request, wire, reply, stale,
                    batches, stored>>
        /\ logs' = logs + 1
    BY <1>4 DEF LogInterrupted, exchange, serverVars
  <2>2. CASE journal' = journal
    BY <1>0, <2>1, <2>2, QuietStep DEF factVars
  <2>3. CASE journal' = Appended(NextPoint)
    BY <2>1, <2>3, AppendPreservesFacts
  <2> QED BY <1>4, <2>2, <2>3 DEF LogInterrupted
<1>5. CASE SelectBatch \/ ReplayBatch
  BY <1>5, SelectPreservesFacts, ReplayPreservesFacts
<1>6. CASE \/ SendBatch \/ GiveUp \/ ReceiveOk \/ ReceiveError \/ DropStale
           \/ Crash
  BY <1>6, ExchangePreservesFacts
<1>7. CASE WriteAck \/ UnlinkDelivery
  BY <1>7, AckPreservesFacts
<1>8. CASE ServerAnswers \/ ServerHandlesStale
  BY <1>8, ServerPreservesFacts
<1> QED
  BY <1>1, <1>2, <1>3, <1>4, <1>5, <1>6, <1>7, <1>8 DEF Next

LEMMA InvParts == DeliveryInv <=> TypeOK /\ Facts
  BY DEF DeliveryInv, Facts

(* The inductive invariant holds in every state.                           *)
THEOREM Invariance == Spec => []DeliveryInv
<1>1. Init => TypeOK /\ Facts
  BY InitTypeOK, InitFacts
<1>2. TypeOK /\ Facts /\ [Next]_vars => (TypeOK /\ Facts)'
  BY NextTypeOK, NextFacts
<1> QED BY <1>1, <1>2, InvParts, PTL DEF Spec

-----------------------------------------------------------------------------
(* What follows from it.                                                   *)

(* Exactly once: the server holds a prefix of the journal.                 *)
THEOREM ExactlyOnce == Spec => []StoredIsPrefix
<1>1. DeliveryInv => StoredIsPrefix
  <2> SUFFICES ASSUME DeliveryInv PROVE StoredIsPrefix
    OBVIOUS
  <2>1. Len(stored) \in Nat /\ FollowsLine(stored, 0)
    BY LenTyped DEF DeliveryInv, TypeOK, ServerTyped
  <2>2. 0 + Len(stored) = Len(stored)
        /\ \A i \in 1 .. Len(stored) : 0 + i = i
    BY <2>1
  <2> QED BY <2>1, <2>2 DEF FollowsLine, StoredIsPrefix
<1> QED BY <1>1, Invariance, PTL

(* Nothing is acknowledged that the server does not have.                  *)
THEOREM NothingSkipped == Spec => []AckedIsStored
<1>1. DeliveryInv => AckedIsStored
  <2> SUFFICES ASSUME DeliveryInv PROVE AckedIsStored
    OBVIOUS
  <2>1. ack \in Nat /\ delivery.end \in Nat
    BY DEF DeliveryInv, TypeOK, FilesTyped
  <2> QED BY <2>1
          DEF DeliveryInv, ServerIsAtBoundary, AckedIsStored, Delivering
<1> QED BY <1>1, Invariance, PTL

(* Any request that can still reach the server is the batch delivery.json  *)
(* records, or one the server has.                                         *)
THEOREM BatchesAreImmutable == Spec => []OneBatchInFlight
<1>1. DeliveryInv => OneBatchInFlight
  BY DEF DeliveryInv
<1> QED BY <1>1, Invariance, PTL

-----------------------------------------------------------------------------
(* While no append has failed.                                             *)

(* The journal holds one line for each log call, numbered like it.         *)
WholeLines ==
  /\ Len(journal) = logs
  /\ \A i \in 1 .. Len(journal) : journal[i] = [seq |-> i, id |-> i]
  /\ torn => proc = "down"

(* The process knows where the journal ends, and run.json is behind it by  *)
(* no more than the points counted since.                                  *)
ProcessIsInStep ==
  /\ checkpoint <= Len(journal) /\ Len(journal) <= checkpoint + TailLimit
  /\ proc # "down" => latest = Len(journal) /\ nextSeq = Len(journal) + 1
  /\ proc = "opened" => checkpoint = Len(journal)
  /\ proc = "running" => Len(journal) <= checkpoint + tailRecords

(* Batches are sent of a run the server has resumed.                       *)
RunIsOpen ==
  /\ worker # "idle" => proc = "running"
  /\ proc = "running" => runState = "running"
  /\ reply # "refused"

(* A log call that has not returned normally leaves a gap for good.        *)
WholeInv ==
  /\ returned \subseteq 1 .. logs /\ runState # "finished"
  /\ AppendsAreWhole => WholeLines /\ ProcessIsInStep /\ RunIsOpen

(* The server is no further than the journal, and its last point has the   *)
(* number of points stored.                                                *)
LEMMA ServerPosition ==
  ASSUME TypeOK, Facts, WholeLines
  PROVE  /\ Len(stored) \in Nat /\ Len(journal) \in Nat /\ Len(stored) <= Len(journal)
         /\ ServerNextSequence = Len(stored) + 1
         /\ stored # <<>> => stored[Len(stored)].seq = Len(stored)
<1>1. Len(stored) \in Nat /\ Len(journal) \in Nat
  BY LenTyped DEF TypeOK, ServerTyped, FilesTyped
<1>2. Len(stored) <= Len(journal) /\ \A i \in 1 .. Len(stored) : stored[i] = journal[i]
  BY <1>1 DEF Facts, FollowsLine
<1>3. stored # <<>> => Len(stored) \in 1 .. Len(stored)
  BY <1>1 DEF TypeOK, ServerTyped, Request
<1>4. stored # <<>> => stored[Len(stored)].seq = Len(stored)
  BY <1>1, <1>2, <1>3 DEF WholeLines
<1>5. stored = <<>> => Len(stored) = 0
  OBVIOUS
<1> QED
  BY <1>1, <1>2, <1>4, <1>5 DEF ServerNextSequence

(* The server refuses no batch of a journal without a garbled line: it is  *)
(* consecutive, and behind all registered ones or one of them.             *)
LEMMA BatchIsWelcome ==
  ASSUME TypeOK, Facts, WholeLines, RunIsOpen, wire # <<>>
  PROVE  ~RefuseBatch(wire)
<1> DEFINE body == delivery.body
<1>1. /\ wire = body /\ Delivering /\ proc = "running" /\ runState = "running"
      /\ body \in Request /\ ack \in Nat /\ Len(body) \in Nat /\ Len(body) >= 1
  <2>1. wire = body /\ Delivering /\ worker = "waiting"
    BY DEF Facts, WorkerHoldsDelivery
  <2>2. body \in Request /\ ack \in Nat
    BY DEF TypeOK, FilesTyped
  <2>3. Len(body) \in Nat /\ Len(body) >= 1
    BY <2>1, <2>2 DEF Request
  <2> QED
    BY <2>1, <2>2, <2>3 DEF RunIsOpen
<1>2. \A i \in 1 .. Len(body) : body[i] = journal[ack + i] /\ ack + i \in 1 .. Len(journal)
  <2>1. ack + Len(body) <= Len(journal) /\ Len(journal) \in Nat
    BY <1>1, LenTyped DEF Facts, DeliveryIsSlice, FollowsLine, TypeOK, FilesTyped
  <2>2. \A i \in 1 .. Len(body) : body[i] = journal[ack + i]
    BY <1>1 DEF Facts, DeliveryIsSlice, FollowsLine
  <2> QED
    BY <1>1, <2>1, <2>2
<1>3. \A i \in 1 .. Len(body) : body[i].seq = ack + i
  BY <1>2 DEF WholeLines
<1>4. Consecutive(body)
  <2>1. ASSUME NEW i \in 1 .. Len(body) - 1 PROVE body[i + 1].seq = body[i].seq + 1
    <3>1. i \in 1 .. Len(body) /\ i + 1 \in 1 .. Len(body)
      BY <1>1
    <3> QED
      BY <1>1, <1>3, <3>1
  <2> QED
    BY <2>1 DEF Consecutive
<1>5. CASE body \in batches
  BY <1>1, <1>4, <1>5 DEF RefuseBatch, IsDuplicate
<1>6. CASE body \notin batches
  <2>1. Len(stored) = ack
    BY <1>1, <1>6 DEF Facts, ServerIsAtBoundary
  <2>2. ASSUME NEW b \in batches PROVE BatchSequence(b) # BatchSequence(body)
    <3>1. b \in Request /\ b # <<>> /\ 1 \in 1 .. Len(b)
      BY DEF TypeOK, ServerTyped, Facts, BatchesAreStored, Request
    <3>2. PICK k \in 1 .. Len(stored) : b[1] = journal[k]
      BY <3>1 DEF Facts, BatchesAreStored
    <3>3. k \in 1 .. Len(journal)
      BY ServerPosition
    <3>4. b[1].seq = k /\ body[1].seq = ack + 1
      BY <1>1, <1>3, <3>2, <3>3 DEF WholeLines
    <3> QED
      BY <1>1, <2>1, <3>4 DEF BatchSequence
  <2>3. Continues(body)
    BY <1>1, <1>3, <2>1, ServerPosition DEF Continues, BatchSequence
  <2>4. CanAccept(body)
    BY <1>1, <1>4, <1>6, <2>2, <2>3 DEF CanAccept, IsDuplicate, ReusesSequence
  <2> QED
    BY <1>1, <2>4 DEF RefuseBatch
<1> QED
  BY <1>5, <1>6

LEMMA WholeInit == Init => WholeInv
  BY LimitAssumption DEF Init, ServerInit, WholeInv, WholeLines, ProcessIsInStep, RunIsOpen

(* One more point.                                                         *)
LEMMA LogKeepsWhole ==
  ASSUME TypeOK, Facts, WholeInv, Log PROVE WholeInv'
<1>1. /\ logs \in Nat /\ logs' = logs + 1 /\ returned' = returned \union {logs + 1}
      /\ proc = "running" /\ worker # "unlinking" /\ tailRecords < TailLimit
      /\ journal' = Appended(NextPoint) /\ torn' = FALSE /\ latest' = Len(journal')
      /\ tailRecords' = tailRecords + 1 /\ nextSeq' = nextSeq + 1
      /\ tailRecords \in Nat /\ checkpoint \in Nat /\ TailLimit \in Nat
      /\ UNCHANGED <<checkpoint, proc, worker, reply, runState>>
  BY LimitAssumption DEF Log, CanLog, exchange, serverVars, TypeOK, HistoryTyped,
                         ProcessTyped, FilesTyped
<1>2. returned' \subseteq 1 .. logs' /\ runState' # "finished"
  BY <1>1 DEF WholeInv
<1>3. ASSUME AppendsAreWhole' PROVE (WholeLines /\ ProcessIsInStep /\ RunIsOpen)'
  <2>1. AppendsAreWhole
    <3>1. logs + 1 \notin returned /\ returned \subseteq 1 .. logs
      BY <1>1 DEF WholeInv
    <3>2. returned \union {logs + 1} = 1 .. logs + 1
      BY <1>1, <1>3 DEF AppendsAreWhole
    <3>3. 1 .. logs \subseteq returned
      BY <1>1, <3>2
    <3> QED
      BY <3>1, <3>3 DEF AppendsAreWhole
  <2>2. WholeLines /\ ProcessIsInStep /\ RunIsOpen
    BY <2>1 DEF WholeInv
  <2>3. /\ journal \in Seq(Point) /\ NextPoint \in Point /\ Len(journal) \in Nat
        /\ journal' = Append(journal, NextPoint)
        /\ NextPoint = [seq |-> Len(journal) + 1, id |-> Len(journal) + 1]
    BY <1>1, <2>2, LinesTyped, LenTyped
       DEF Appended, WholeLines, ProcessIsInStep, NextPoint, TypeOK, FilesTyped, Request
  <2>4. /\ Len(journal') = Len(journal) + 1
        /\ \A i \in 1 .. Len(journal) : journal'[i] = journal[i]
        /\ journal'[Len(journal) + 1] = NextPoint
    BY <2>3, AppendFacts
  <2>5. \A i \in 1 .. Len(journal') : journal'[i] = [seq |-> i, id |-> i]
    <3>1. ASSUME NEW i \in 1 .. Len(journal') PROVE i \in 1 .. Len(journal) \/ i = Len(journal) + 1
      BY <2>3, <2>4
    <3> QED
      BY <2>2, <2>3, <2>4, <3>1 DEF WholeLines
  <2>6. WholeLines'
    BY <1>1, <2>2, <2>4, <2>5 DEF WholeLines
  <2>7. ProcessIsInStep'
    BY <1>1, <2>2, <2>3, <2>4 DEF ProcessIsInStep
  <2>8. RunIsOpen'
    BY <1>1, <2>2 DEF RunIsOpen
  <2> QED
    BY <2>6, <2>7, <2>8
<1> QED
  BY <1>2, <1>3 DEF WholeInv

(* Opening, resuming, checkpoints and crashes.                             *)
LEMMA ProcessKeepsWhole ==
  ASSUME TypeOK, Facts, WholeInv, OpenSpool \/ Resume \/ Crash \/ Checkpoint
  PROVE  WholeInv'
<1> USE DEF TypeOK, FilesTyped, ProcessTyped
<1>1. /\ UNCHANGED <<journal, logs, returned>> /\ Len(journal) \in Nat /\ ack \in Nat
      /\ AppendsAreWhole' = AppendsAreWhole
  BY LenTyped DEF OpenSpool, Resume, Crash, Checkpoint, history, AppendsAreWhole
<1>2. runState' # "finished"
  BY DEF WholeInv, OpenSpool, Resume, Crash, Checkpoint, serverVars, CreateOrResume
<1>3. ASSUME AppendsAreWhole PROVE (WholeLines /\ ProcessIsInStep /\ RunIsOpen)'
  <2>1. WholeLines /\ ProcessIsInStep /\ RunIsOpen
    BY <1>3 DEF WholeInv
  <2>2. CASE OpenSpool
    <3>1. journal # <<>> => journal[Len(journal)].seq = Len(journal) /\ Len(journal) >= 1
      <4>1. journal # <<>> => Len(journal) \in 1 .. Len(journal)
        BY <1>1 DEF Request
      <4> QED
        BY <2>1, <4>1 DEF WholeLines
    <3>2. nextSeq' = Len(journal) + 1
      <4>1. journal = <<>> => Len(journal) = 0
        OBVIOUS
      <4> QED
        BY <2>2, <3>1, <4>1 DEF OpenSpool
    <3>3. /\ proc' = "opened" /\ torn' = FALSE /\ checkpoint' = Len(journal)
          /\ latest' = Len(journal) /\ proc = "down"
          /\ UNCHANGED <<worker, reply, runState>>
      BY <2>2 DEF OpenSpool, exchange, serverVars
    <3> QED
      BY <1>1, <2>1, <3>2, <3>3, LimitAssumption DEF WholeLines, ProcessIsInStep, RunIsOpen
  <2>3. CASE Resume
    <3>1. nextSeq' = nextSeq
      BY <1>1, <2>1, <2>3, ServerPosition DEF Resume, ProcessIsInStep
    <3>2. /\ proc = "opened" /\ proc' = "running" /\ checkpoint' = latest /\ runState' = "running"
          /\ UNCHANGED <<torn, latest, tailRecords, worker, reply>>
      BY <2>3 DEF Resume, CreateOrResume, exchange
    <3> QED
      BY <1>1, <2>1, <3>1, <3>2, LimitAssumption DEF WholeLines, ProcessIsInStep, RunIsOpen
  <2>4. CASE Crash
    <3>1. /\ proc' = "down" /\ worker' = "idle" /\ reply' = "none"
          /\ UNCHANGED <<checkpoint, runState>>
      BY <2>4 DEF Crash, serverVars
    <3> QED
      BY <1>1, <2>1, <3>1 DEF WholeLines, ProcessIsInStep, RunIsOpen
  <2>5. CASE Checkpoint
    <3>1. /\ proc = "running" /\ proc' = "running" /\ checkpoint' = latest
          /\ UNCHANGED <<torn, nextSeq, latest, worker, reply, runState>>
      BY <2>5 DEF Checkpoint, exchange, serverVars
    <3>2. /\ checkpoint' = Len(journal) /\ nextSeq' = Len(journal) + 1
          /\ latest' = Len(journal) /\ tailRecords' = 0
      BY <2>1, <2>5, <3>1 DEF ProcessIsInStep, Checkpoint
    <3>3. WholeLines'
      BY <1>1, <2>1, <3>1 DEF WholeLines
    <3>4. ProcessIsInStep'
      BY <1>1, <3>1, <3>2, LimitAssumption DEF ProcessIsInStep
    <3>5. RunIsOpen'
      BY <2>1, <3>1 DEF RunIsOpen
    <3> QED
      BY <3>3, <3>4, <3>5
  <2> QED
    BY <2>2, <2>3, <2>4, <2>5
<1> QED
  BY <1>1, <1>2, <1>3 DEF WholeInv

(* Delivery and the server leave the journal and the process alone.        *)
LEMMA DeliveryKeepsWhole ==
  ASSUME TypeOK, Facts, WholeInv,
         UNCHANGED <<journal, torn, checkpoint, proc, nextSeq, tailRecords, latest,
                     logs, returned, runState>>,
         worker' # "idle" => worker # "idle" \/ proc = "running",
         AppendsAreWhole /\ WholeLines /\ RunIsOpen => reply' # "refused"
  PROVE  WholeInv'
  BY DEF WholeInv, AppendsAreWhole, WholeLines, ProcessIsInStep, RunIsOpen

LEMMA WholeNext == TypeOK /\ Facts /\ WholeInv /\ [Next]_vars => WholeInv'
<1> SUFFICES ASSUME TypeOK, Facts, WholeInv, [Next]_vars PROVE WholeInv'
  OBVIOUS
<1>1. CASE Log
  BY <1>1, LogKeepsWhole
<1>2. CASE LogInterrupted
  <2>1. /\ logs \in Nat /\ logs' = logs + 1 /\ returned' = returned /\ runState' = runState
    BY <1>2 DEF LogInterrupted, serverVars, TypeOK, HistoryTyped
  <2>2. returned \subseteq 1 .. logs
    BY DEF WholeInv
  <2>3. ~AppendsAreWhole'
    <3>1. logs + 1 \notin 1 .. logs /\ logs + 1 \in 1 .. logs + 1
      BY <2>1
    <3> QED
      BY <2>1, <2>2, <3>1 DEF AppendsAreWhole
  <2>4. returned' \subseteq 1 .. logs'
    BY <2>1, <2>2
  <2> QED
    BY <2>1, <2>3, <2>4 DEF WholeInv
<1>3. CASE OpenSpool \/ Resume \/ Crash \/ Checkpoint
  BY <1>3, ProcessKeepsWhole
<1>4. CASE SelectBatch \/ ReplayBatch \/ SendBatch \/ GiveUp
  <2>1. /\ UNCHANGED <<journal, torn, checkpoint, proc, nextSeq, tailRecords, latest,
                       logs, returned, runState>>
        /\ worker' # "idle" => worker # "idle" \/ proc = "running"
        /\ reply' \in {reply, "none"}
    BY <1>4 DEF SelectBatch, ReplayBatch, SendBatch, GiveUp, files, run, exchange, history,
                serverVars
  <2> QED
    BY <2>1, DeliveryKeepsWhole DEF RunIsOpen
<1>5. CASE ReceiveOk \/ ReceiveError \/ WriteAck \/ UnlinkDelivery
  <2>1. /\ UNCHANGED <<journal, torn, checkpoint, proc, nextSeq, tailRecords, latest,
                       logs, returned, runState>>
        /\ worker' # "idle" => worker # "idle"
        /\ reply' \in {reply, "none"}
    BY <1>5 DEF ReceiveOk, ReceiveError, WriteAck, UnlinkDelivery, files, run, exchange,
                history, serverVars
  <2> QED
    BY <2>1, DeliveryKeepsWhole DEF RunIsOpen
<1>6. CASE ServerAnswers
  <2>1. /\ UNCHANGED <<journal, torn, checkpoint, proc, nextSeq, tailRecords, latest,
                       logs, returned, runState, worker>>
        /\ wire # <<>> /\ (reply' = "ok" \/ RefuseBatch(wire))
    BY <1>6 DEF ServerAnswers, AcceptBatch, AnswerDuplicate, RefuseBatch, files, run,
                history, serverVars
  <2> QED
    BY <2>1, BatchIsWelcome, DeliveryKeepsWhole
<1>7. CASE ServerHandlesStale \/ DropStale
  <2>1. /\ UNCHANGED <<journal, torn, checkpoint, proc, nextSeq, tailRecords, latest,
                       logs, returned, runState, worker, reply>>
    BY <1>7 DEF ServerHandlesStale, DropStale, AcceptBatch, AnswerDuplicate, RefuseBatch,
                files, run, exchange, history, serverVars
  <2> QED
    BY <2>1, DeliveryKeepsWhole DEF RunIsOpen
<1>8. CASE UNCHANGED vars
  <2>1. UNCHANGED <<journal, torn, checkpoint, proc, nextSeq, tailRecords, latest,
                    logs, returned, runState, worker, reply>>
    BY <1>8 DEF vars, files, run, exchange, history, serverVars
  <2> QED
    BY <2>1, DeliveryKeepsWhole DEF RunIsOpen
<1> QED
  BY <1>1, <1>2, <1>3, <1>4, <1>5, <1>6, <1>7, <1>8 DEF Next

(* As long as every log call returns or dies with its process, the journal *)
(* has a line for each.                                                    *)
THEOREM JournalIsWhole == Spec => []WholeInv
<1>1. TypeOK /\ Facts /\ WholeInv /\ [Next]_vars => WholeInv'
  BY WholeNext
<1>2. DeliveryInv <=> TypeOK /\ Facts
  BY InvParts
<1> QED
  BY <1>1, <1>2, WholeInit, Invariance, PTL DEF Spec

(* No request is refused then, neither the first time nor when it is       *)
(* repeated, nor after a restart.                                          *)
THEOREM WholeJournalIsWelcome == Spec => []NothingRefused
<1>1. WholeInv => NothingRefused
  BY DEF WholeInv, RunIsOpen, NothingRefused
<1> QED
  BY <1>1, JournalIsWhole, PTL

(* And a log call that has returned has its line for good.                 *)
THEOREM ReturnedIsKept == Spec => []CrashesLoseNothing
<1>1. TypeOK /\ WholeInv => CrashesLoseNothing
  <2> SUFFICES ASSUME TypeOK, WholeInv, AppendsAreWhole, NEW n \in returned
      PROVE  \E i \in 1 .. Len(journal) : journal[i].id = n
    BY DEF CrashesLoseNothing, LoggedIsReadable
  <2>1. n \in 1 .. Len(journal) /\ journal[n] = [seq |-> n, id |-> n]
    BY DEF WholeInv, WholeLines
  <2> QED
    BY <2>1
<1> QED
  BY <1>1, TypeCorrectness, JournalIsWhole, PTL

(* A spool that a crash leaves behind passes every check of the next       *)
(* start: ADR 0018 truncates an incomplete tail only behind what has been  *)
(* acknowledged, is being delivered or is in the saved summary.            *)
THEOREM SpoolCanReopen == Spec => []CanReopen
<1>1. TypeOK /\ Facts /\ WholeInv => CanReopen
  <2> SUFFICES ASSUME TypeOK, Facts, WholeInv, AppendsAreWhole PROVE CanOpen
    BY DEF CanReopen
  <2>1. WholeLines /\ ProcessIsInStep
    BY DEF WholeInv
  <2>2. /\ Len(journal) \in Nat /\ ack \in Nat /\ checkpoint \in Nat /\ TailLimit \in Nat
        /\ Len(stored) \in Nat /\ Len(stored) <= Len(journal) /\ delivery.end \in Nat
    BY <2>1, ServerPosition, LimitAssumption DEF TypeOK, FilesTyped
  <2>3. \A i \in 1 .. Len(journal) : Readable(journal[i])
    BY <2>1 DEF WholeLines, Readable
  <2>4. ack <= Len(journal)
    BY <2>2 DEF Facts, ServerIsAtBoundary, Delivering
  <2>5. Delivering => delivery.start = ack /\ delivery.end <= Len(journal)
    BY <2>2 DEF Facts, DeliveryIsSlice, FollowsLine
  <2>6. SummaryIsRecoverable
    <3>1. \A i \in checkpoint + 1 .. Len(journal) : i \in 1 .. Len(journal)
      BY <2>2
    <3>2. journal # <<>> => Len(journal) \in 1 .. Len(journal)
      BY <2>2 DEF TypeOK, FilesTyped, Request
    <3> QED
      BY <2>1, <2>2, <2>3, <3>1, <3>2 DEF SummaryIsRecoverable, ProcessIsInStep
  <2>7. TailIsRecoverable
    BY <2>1, <2>4, <2>5 DEF TailIsRecoverable, ProcessIsInStep
  <2> QED
    BY <2>6, <2>7 DEF CanOpen
<1>2. DeliveryInv <=> TypeOK /\ Facts
  BY InvParts
<1> QED
  BY <1>1, <1>2, Invariance, JournalIsWhole, PTL
-----------------------------------------------------------------------------
(* Refinement: seen from outside, a log that is copied.                    *)

(* Two sequences of one length with the same elements are one sequence.    *)
LEMMA SameElements ==
  ASSUME NEW S, NEW s \in Seq(S), NEW t \in Seq(S), Len(s) = Len(t),
         \A i \in 1 .. Len(s) : s[i] = t[i]
  PROVE  s = t
  OBVIOUS

(* The part of a sequence before what was appended to it.                  *)
LEMMA PrefixOfAppend ==
  ASSUME NEW S, NEW s \in Seq(S), NEW e \in S
  PROVE  s = SubSeq(Append(s, e), 1, Len(s))
<1>1. Append(s, e) \in Seq(S) /\ Len(Append(s, e)) = Len(s) + 1
      /\ \A i \in 1 .. Len(s) : Append(s, e)[i] = s[i]
  BY AppendFacts
<1>2. Len(s) \in Nat /\ 0 + Len(s) <= Len(Append(s, e))
  BY <1>1
<1>3. /\ SubSeq(Append(s, e), 1, Len(s)) \in Seq(S)
      /\ Len(SubSeq(Append(s, e), 1, Len(s))) = Len(s)
      /\ \A i \in 1 .. Len(s) :
           SubSeq(Append(s, e), 1, Len(s))[i] = Append(s, e)[i]
  BY <1>1, <1>2
<1> QED BY <1>1, <1>3, SameElements

(* A journal line more is the source growing.                              *)
LEMMA AppendGrows ==
  ASSUME TypeOK, journal' = Appended(NextPoint)
  PROVE  Copy!Grow
<1>1. journal \in Seq(Point) /\ (IF torn THEN Garbled ELSE NextPoint) \in Point
  BY LinesTyped DEF TypeOK, FilesTyped, Request
<1>2. Len(journal') = Len(journal) + 1
      /\ journal = SubSeq(journal', 1, Len(journal))
  BY <1>1, AppendFacts, PrefixOfAppend DEF Appended
<1> QED BY <1>2 DEF Copy!Grow

(* A batch accepted is the copy advancing by the batch.                    *)
LEMMA AcceptAdvances ==
  ASSUME TypeOK, Facts,
         NEW r \in stale \union ({wire} \ {<<>>}),
         AcceptBatch(r),
         UNCHANGED <<journal, ack, delivery, logs>>
  PROVE  Copy!Advance
<1>0. /\ journal \in Seq(Point) /\ stored \in Seq(Point) /\ r \in Seq(Point)
      /\ Len(journal) \in Nat /\ Len(stored) \in Nat /\ Len(r) \in Nat
  BY LenTyped DEF TypeOK, FilesTyped, ServerTyped, ExchangeTyped, Request
<1>1. FollowsLine(stored, 0)' /\ journal' = journal
  BY AcceptPreservesFacts
<1>2. stored' = stored \o r /\ r \notin batches
  BY DEF AcceptBatch, CanAccept, IsDuplicate
<1>3. stored' \in Seq(Point) /\ Len(stored') = Len(stored) + Len(r)
  BY <1>0, <1>2, ConcatFacts
<1>4. Len(r) > 0
  BY <1>0, <1>2
  DEF Facts, OneBatchInFlight, DeliveryIsSlice, Delivering, TypeOK, FilesTyped
<1>5. Len(stored') <= Len(journal)
      /\ \A i \in 1 .. Len(stored') : stored'[i] = journal[i]
  BY <1>0, <1>1, <1>3 DEF FollowsLine
<1>6. /\ SubSeq(journal, 1, Len(stored')) \in Seq(Point)
      /\ Len(SubSeq(journal, 1, Len(stored'))) = Len(stored')
      /\ \A i \in 1 .. Len(stored') :
           SubSeq(journal, 1, Len(stored'))[i] = journal[i]
  BY <1>0, <1>3, <1>5
<1>7. stored' = SubSeq(journal, 1, Len(stored'))
  BY <1>3, <1>5, <1>6, SameElements
<1> QED BY <1>0, <1>3, <1>4, <1>5, <1>7 DEF Copy!Advance

(* Every step grows the source, advances the copy or changes neither.      *)
LEMMA NextCopies ==
  ASSUME TypeOK, Facts, [Next]_vars
  PROVE  [Copy!Next]_<<journal, stored>>
<1>1. CASE Log \/ (LogInterrupted /\ journal' # journal)
  <2>1. journal' = Appended(NextPoint) /\ UNCHANGED stored
    BY <1>1 DEF Log, LogInterrupted, serverVars
  <2> QED BY <2>1, AppendGrows DEF Copy!Next
<1>2. CASE ServerAnswers \/ ServerHandlesStale
  <2>1. UNCHANGED <<journal, ack, delivery, logs>>
    BY <1>2 DEF ServerAnswers, ServerHandlesStale, files, history
  <2>2. PICK r \in stale \union ({wire} \ {<<>>}) :
           AcceptBatch(r) \/ AnswerDuplicate(r) \/ RefuseBatch(r)
    BY <1>2 DEF ServerAnswers, ServerHandlesStale
  <2>3. CASE AcceptBatch(r)
    BY <2>1, <2>3, AcceptAdvances DEF Copy!Next
  <2>4. CASE AnswerDuplicate(r) \/ RefuseBatch(r)
    BY <2>1, <2>4 DEF AnswerDuplicate, RefuseBatch, serverVars
  <2> QED BY <2>2, <2>3, <2>4
<1>3. CASE UNCHANGED <<journal, stored>>
  BY <1>3
<1>4. \/ Log
      \/ LogInterrupted /\ journal' # journal
      \/ ServerAnswers \/ ServerHandlesStale
      \/ UNCHANGED <<journal, stored>>
  <2>1. CASE OpenSpool \/ Resume \/ Crash \/ Checkpoint \/ UNCHANGED vars
    BY <2>1 DEF OpenSpool, Resume, CreateOrResume, Crash, Checkpoint, vars,
                files, serverVars
  <2>2. CASE LogInterrupted
    BY <2>2 DEF LogInterrupted, serverVars
  <2>3. CASE SelectBatch \/ ReplayBatch \/ SendBatch \/ GiveUp
    BY <2>3 DEF SelectBatch, ReplayBatch, SendBatch, GiveUp, files, serverVars
  <2>4. CASE \/ ReceiveOk \/ ReceiveError \/ WriteAck \/ UnlinkDelivery
             \/ DropStale
    BY <2>4 DEF ReceiveOk, ReceiveError, WriteAck, UnlinkDelivery, DropStale,
                files, serverVars
  <2> QED BY <2>1, <2>2, <2>3, <2>4 DEF Next
<1> QED BY <1>1, <1>2, <1>3, <1>4

(* The composition of spool, worker, network and server implements the     *)
(* reliable copy of ADR 0003.                                              *)
THEOREM Refinement == Spec => CopiesReliably
<1>1. Init => Copy!Init
  BY DEF Init, ServerInit, Copy!Init
<1>2. DeliveryInv /\ [Next]_vars => [Copy!Next]_<<journal, stored>>
  BY InvParts, NextCopies
<1> QED BY <1>1, <1>2, Invariance, PTL DEF Spec, CopiesReliably, Copy!Spec

=============================================================================
