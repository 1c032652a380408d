------------------------------ MODULE Pipeline -----------------------------
(***************************************************************************)
(* The API's document service and the workers together: what Documents     *)
(* publishes is what Consumer reads.  A message of the log is an event,    *)
(* and a publish of a request is a publish of the producer to one of the   *)
(* partitions.                                                             *)
(***************************************************************************)
EXTENDS Documents, Sequences

CONSTANTS
  Partitions, Workers, Outcomes, MaxLog   \* as in Consumer

ASSUME WorkAssumption ==
  MaxLog \in Nat /\ None \notin Workers /\ Outcomes \subseteq {"ok", "error"}

VARIABLES
  log, committed, assigned, pos, hand, attempt, canceled, settled, calm,
  at                                      \* Consumer's pc

workVars == <<log, committed, assigned, pos, at, hand, attempt, canceled, settled, calm>>
pipelineVars == <<vars, workVars>>

Work == INSTANCE Consumer WITH Keys <- Event, pc <- at

----------------------------------------------------------------------------
PipelineInit == Init /\ Work!Init

Messages == {m \in Partitions \X (0..(MaxLog - 1)) : m[2] < Len(log[m[1]])}

\* Bound: MaxLog messages in all; no request is accepted that may be one more.
Publishers == {r \in Reqs : call[r].op \in {"complete", "delete"}}
Room == Cardinality(Messages) + Cardinality(Publishers) < MaxLog

ApiRequest == NewRequest /\ Room /\ UNCHANGED workVars

\* Mutant of Carry: the event of a delete is not sent.
CarryIngestOnly(r) ==
  IF pc[r] = "publishIngest"
  THEN \E p \in Partitions : Work!Publish(IngestEvent(call[r]), p)
  ELSE UNCHANGED workVars

\* Publish: the balancer takes any partition, whatever the key.
Carry(r) ==
  \/ pc[r] = "publishIngest" /\ \E p \in Partitions : Work!Publish(IngestEvent(call[r]), p)
  \/ pc[r] = "publishDelete" /\ \E p \in Partitions : Work!Publish(DeleteEvent(call[r]), p)
  \/ pc[r] \notin {"publishIngest", "publishDelete"} /\ UNCHANGED workVars

ApiStep(r) == Step(r) /\ Carry(r)

\* The faults of the API's side.
ApiFault ==
  \/ \E r \in Reqs : PublishUnacked(r) /\ Carry(r)
  \/ \E r \in Reqs : Abandon(r) /\ UNCHANGED workVars
  \/ \E f \in Files, o \in Owners : Expire(f, o) /\ UNCHANGED workVars

\* The workers and their group.
GroupStep == Work!GroupNext /\ UNCHANGED vars

ReliablePipelineNext == ApiRequest \/ (\E r \in Reqs : ApiStep(r)) \/ GroupStep

PipelineNext == ReliablePipelineNext \/ ApiFault

PipelineSpec == PipelineInit /\ [][PipelineNext]_pipelineVars

\* No call of the API fails but the dropped cleanup errors; workers fail, are
\* stopped and crash until that comes to an end.  Fairness: as in the parts.
ReliablePipelineSpec ==
  /\ PipelineInit /\ [][ReliablePipelineNext]_pipelineVars
  /\ \A r \in Reqs : WF_pipelineVars(ApiStep(r))
  /\ Work!Fairness

----------------------------------------------------------------------------
(* Properties.                                                             *)

\* The event at an offset of a partition.
EventAt(m) == log[m[1]][m[2] + 1]

\* The messages about a document.
About(d, type) == {m \in Messages : EventAt(m).type = type /\ EventAt(m).id = d}

\* The event a worker has in hand is still true: the row of an ingest event is
\* merged and its object is there, the row of a delete event is deleted.  It
\* may be read much later than it was published, and again after a crash.
HeldEventIsTrue ==
  \A w \in Workers :
    at[w] \in Work!Holding =>
      LET e == EventAt(Work!Msg(w))
      IN  IF e.type = "ingest"
          THEN docs[e.id].status = "merged" /\ merged[e.file][e.name] # {}
          ELSE docs[e.id].deleted

\* Every document that was merged has, in the end, an ingest event that a
\* worker settled, whatever happened to the workers on the way.
MergedIsSettled ==
  \A d \in DocIds :
    docs[d].status = "merged" ~> About(d, "ingest") \cap settled # {}

\* Every document that was deleted has, in the end, a delete event that a
\* worker settled.
DeletedIsSettled ==
  \A d \in DocIds :
    docs[d].deleted ~> About(d, "delete") \cap settled # {}
=============================================================================
