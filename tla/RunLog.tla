------------------------------- MODULE RunLog -------------------------------
(***************************************************************************)
(* What the server promises about the metric history of ONE run: the       *)
(* logical contents of the tables ingest_batches and metric_segments, as   *)
(* changed by Catalog::create_or_resume_run, Catalog::register_batch and   *)
(* Catalog::finish_run (one SQLite write transaction each).                *)
(*                                                                         *)
(* A point is its sequence number and an identity that stands for the rest *)
(* of its contents (step, timestamp, metrics).  A request is the sequence  *)
(* of points of one ingest batch.  Two requests are equal exactly when     *)
(* their digests are.                                                      *)
(***************************************************************************)
EXTENDS Naturals, Sequences

VARIABLES
  runState,  \* runs.state, or "absent" before the run was created
  batches,   \* the requests registered in ingest_batches
  stored     \* the points of the active metric_segments, by sequence

serverVars == <<runState, batches, stored>>

Point == [seq: Nat, id: Nat]

(* batch_sequence: the SDK always sends the sequence of the first point.   *)
BatchSequence(r) == r[1].seq

(* validate_batch: point sequences are consecutive within a batch.         *)
Consecutive(r) == \A i \in 1..Len(r) - 1 : r[i + 1].seq = r[i].seq + 1

(* batch_status and the head of register_batch.                            *)
IsDuplicate(r) == r \in batches

ReusesSequence(r) ==
  \E b \in batches : BatchSequence(b) = BatchSequence(r) /\ b # r

(* register_batch: the first segment may start anywhere, a later one starts*)
(* right after MAX(last_sequence).                                         *)
Continues(r) ==
  stored # <<>> => BatchSequence(r) = stored[Len(stored)].seq + 1

(* Mutant: the table of accepted batches is not consulted.                 *)
CanAcceptAgain(r) == Consecutive(r) /\ runState = "running"

CanAccept(r) ==
  /\ Consecutive(r)
  /\ ~IsDuplicate(r)
  /\ ~ReusesSequence(r)
  /\ runState = "running"
  /\ Continues(r)

(* The two 2xx outcomes of an ingest request and its refusal (400, 404 or  *)
(* 409).                                                                   *)
AcceptBatch(r) ==
  /\ CanAccept(r)
  /\ batches' = batches \union {r}
  /\ stored' = stored \o r
  /\ UNCHANGED runState

AnswerDuplicate(r) ==
  /\ Consecutive(r)
  /\ IsDuplicate(r)
  /\ UNCHANGED serverVars

RefuseBatch(r) ==
  /\ ~CanAccept(r)
  /\ ~(Consecutive(r) /\ IsDuplicate(r))
  /\ UNCHANGED serverVars

(* next_run_position: what a creation response tells a resuming client.    *)
ServerNextSequence ==
  IF stored = <<>> THEN 1 ELSE stored[Len(stored)].seq + 1

(* create_or_resume_run with resume = "allow".                             *)
CreateOrResume ==
  /\ runState # "finished"
  /\ runState' = "running"
  /\ UNCHANGED <<batches, stored>>

FinishRun ==
  /\ runState # "absent"
  /\ runState' = "finished"
  /\ UNCHANGED <<batches, stored>>

ServerInit ==
  /\ runState = "absent"
  /\ batches = {}
  /\ stored = <<>>

(***************************************************************************)
(* The server on its own, for any client: the requests are any sequences   *)
(* of points from the set Requests.                                        *)
(***************************************************************************)
ServerNext(Requests) ==
  \/ \E r \in Requests : AcceptBatch(r) \/ AnswerDuplicate(r) \/ RefuseBatch(r)
  \/ CreateOrResume
  \/ FinishRun
=============================================================================
