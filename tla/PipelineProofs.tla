--------------------------- MODULE PipelineProofs --------------------------
(* Theorems of Pipeline, for every number of users, files, documents,      *)
(* requests, partitions, workers and messages.                             *)
EXTENDS Pipeline, DocumentsLimits

\* What a worker holds is on the log.
InHand(w) ==
  at[w] \in Work!Holding =>
    /\ hand[w].part \in Partitions
    /\ hand[w].offset \in Nat
    /\ hand[w].offset < Len(log[hand[w].part])

WorkOK ==
  /\ log \in [Partitions -> Seq(Event)]
  /\ committed \in [Partitions -> Nat]
  /\ pos \in [Workers -> [Partitions -> Nat \cup {None}]]
  /\ at \in [Workers -> Work!At]
  /\ hand \in [Workers -> [part : Partitions \cup {None}, offset : Nat]]
  /\ \A w \in Workers : InHand(w)

\* Whatever the partitions hold was published.
LogOnTopic == \A p \in Partitions : \A i \in 1..Len(log[p]) : log[p][i] \in topic

----------------------------------------------------------------------------
(* A step of the pipeline, seen from either side.                          *)

\* What the API's side does to the log.
Published(key) == \E p \in Partitions : Work!Publish(key, p)

Sent ==
  \/ \E r \in Reqs :
       \/ pc[r] = "publishIngest" /\ Published(IngestEvent(call[r]))
                                  /\ topic' = topic \cup {IngestEvent(call[r])}
       \/ pc[r] = "publishDelete" /\ Published(DeleteEvent(call[r]))
                                  /\ topic' = topic \cup {DeleteEvent(call[r])}

\* A step of a request that publishes is one of the two publishing steps.
LEMMA StepSends ==
  ASSUME NEW r \in Reqs, Step(r) \/ PublishUnacked(r), Carry(r)
  PROVE  Sent \/ UNCHANGED workVars
  <1>1. CASE pc[r] = "publishIngest"
    <2>1. topic' = topic \cup {IngestEvent(call[r])}
      BY <1>1 DEF Step, PublishUnacked, CreateDocument, CreateConflict, PutPart, MarkPart,
          CheckPart, PartsIncomplete, ComposeMerged, ComposeMissingPart, MarkMerged,
          RemovePart, RemoveFails, Clear, ClearFails, PublishIngest, SoftDelete, PublishDelete
    <2> QED BY <1>1, <2>1 DEF Carry, Sent, Published
  <1>2. CASE pc[r] = "publishDelete"
    <2>1. topic' = topic \cup {DeleteEvent(call[r])}
      BY <1>2 DEF Step, PublishUnacked, CreateDocument, CreateConflict, PutPart, MarkPart,
          CheckPart, PartsIncomplete, ComposeMerged, ComposeMissingPart, MarkMerged,
          RemovePart, RemoveFails, Clear, ClearFails, PublishIngest, SoftDelete, PublishDelete
    <2> QED BY <1>2, <2>1 DEF Carry, Sent, Published
  <1>3. CASE pc[r] \notin {"publishIngest", "publishDelete"}
    BY <1>3 DEF Carry
  <1> QED BY <1>1, <1>2, <1>3

\* Every step of the pipeline is a step of the document service or leaves it
\* alone, and it publishes, or is a step of the workers, or leaves them alone.
LEMMA TwoSides ==
  ASSUME [PipelineNext]_pipelineVars
  PROVE  /\ [Next]_vars
         /\ Sent \/ Work!GroupNext \/ UNCHANGED workVars
  <1>1. CASE ApiRequest
    BY <1>1 DEF ApiRequest, Next
  <1>2. ASSUME NEW r \in Reqs, ApiStep(r) PROVE Next /\ (Sent \/ UNCHANGED workVars)
    BY <1>2, StepSends DEF ApiStep, Next
  <1>3. CASE GroupStep
    BY <1>3 DEF GroupStep
  <1>4. CASE ApiFault
    <2>1. ASSUME NEW r \in Reqs, PublishUnacked(r), Carry(r)
          PROVE  Next /\ (Sent \/ UNCHANGED workVars)
      BY <2>1, StepSends DEF Next, Fault
    <2> QED BY <1>4, <2>1 DEF ApiFault, Next, Fault
  <1>5. CASE UNCHANGED pipelineVars
    BY <1>5 DEF pipelineVars
  <1> QED BY <1>1, <1>2, <1>3, <1>4, <1>5 DEF PipelineNext, ReliablePipelineNext

\* The pipeline runs the document service as it is, every request, fault and
\* interleaving of it: what Documents promises still holds.
THEOREM RunsDocuments == PipelineSpec => Spec
  <1>1. PipelineInit => Init
    BY DEF PipelineInit
  <1>2. [PipelineNext]_pipelineVars => [Next]_vars
    BY TwoSides
  <1> QED BY <1>1, <1>2, PTL DEF PipelineSpec, Spec

\* A request that publishes sends an event about the row it read.
LEMMA SentIsEvent ==
  ASSUME Shape, Sent
  PROVE  \E key \in Event : Published(key) /\ key \in topic'
  <1>1. PICK r \in Reqs :
          \/ pc[r] = "publishIngest" /\ Published(IngestEvent(call[r]))
                                     /\ topic' = topic \cup {IngestEvent(call[r])}
          \/ pc[r] = "publishDelete" /\ Published(DeleteEvent(call[r]))
                                     /\ topic' = topic \cup {DeleteEvent(call[r])}
    BY DEF Sent
  <1>2. Attached(r)
    BY <1>1 DEF Shape, CallOK, CompleteAt, DeleteAt
  <1>3. IngestEvent(call[r]) \in Event /\ DeleteEvent(call[r]) \in Event
    BY <1>2 DEF Attached, IngestEvent, DeleteEvent, Event
  <1> QED BY <1>1, <1>3

\* It runs the worker as it is, with the service's events for its messages.
THEOREM RunsWorkers == PipelineSpec => Work!Spec
  <1>1. PipelineInit => Work!Init
    BY DEF PipelineInit
  <1>2. Shape /\ [PipelineNext]_pipelineVars => [Work!Next]_(Work!vars)
    <2> SUFFICES ASSUME Shape, [PipelineNext]_pipelineVars
         PROVE  [Work!Next]_(Work!vars)
      OBVIOUS
    <2>1. CASE Sent
      BY <2>1, SentIsEvent DEF Published, Work!Next
    <2>2. CASE UNCHANGED workVars
      BY <2>2 DEF workVars, Work!vars
    <2> QED BY TwoSides, <2>1, <2>2 DEF Work!Next
  <1>3. PipelineSpec => []Shape
    BY RunsDocuments, ShapeInvariant, PTL
  <1> QED BY <1>1, <1>2, <1>3, PTL DEF PipelineSpec, Work!Spec
----------------------------------------------------------------------------
(* What a worker has in hand.                                              *)

USE DEF Work!Offsets, Work!Holding, Work!At, Work!Goto

\* A publish appends an event to one partition and disturbs no worker.
LEMMA PublishKeeps ==
  ASSUME WorkOK, LogOnTopic, topic \subseteq topic',
         NEW key \in Event, key \in topic', Published(key)
  PROVE  WorkOK' /\ LogOnTopic'
  <1>1. PICK q \in Partitions : Work!Publish(key, q)
    BY DEF Published
  <1>2. /\ log' = [log EXCEPT ![q] = Append(log[q], key)]
        /\ UNCHANGED <<committed, pos, at, hand>>
    BY <1>1 DEF Work!Publish
  <1>3. log' \in [Partitions -> Seq(Event)]
    BY <1>2 DEF WorkOK
  <1>4. ASSUME NEW p \in Partitions
        PROVE  /\ Len(log[p]) <= Len(log'[p])
               /\ \A i \in 1..Len(log'[p]) : log'[p][i] \in topic'
    <2>1. log[p] \in Seq(Event) /\ \A i \in 1..Len(log[p]) : log[p][i] \in topic'
      BY DEF WorkOK, LogOnTopic
    <2>2. CASE p = q
      <3>1. log'[p] = Append(log[p], key)
        BY <1>2, <2>2 DEF WorkOK
      <3>2. /\ Len(log'[p]) = Len(log[p]) + 1
            /\ \A i \in 1..Len(log'[p]) :
                 log'[p][i] = IF i <= Len(log[p]) THEN log[p][i] ELSE key
        BY <2>1, <3>1
      <3> QED BY <2>1, <3>2
    <2>3. CASE p # q
      BY <1>2, <2>1, <2>3 DEF WorkOK
    <2> QED BY <2>2, <2>3
  <1>5. ASSUME NEW w \in Workers PROVE InHand(w)'
    <2>1. InHand(w)
      BY DEF WorkOK
    <2>2. CASE at[w] \in Work!Holding
      <3>1. /\ hand[w].part \in Partitions
            /\ hand[w].offset \in Nat
            /\ hand[w].offset < Len(log[hand[w].part])
        BY <2>1, <2>2 DEF InHand
      <3>2. Len(log[hand[w].part]) <= Len(log'[hand[w].part])
        BY <1>4, <3>1
      <3>3. Len(log'[hand[w].part]) \in Nat /\ Len(log[hand[w].part]) \in Nat
        BY <1>3, <3>1 DEF WorkOK
      <3> QED BY <1>2, <3>1, <3>2, <3>3 DEF InHand
    <2>3. CASE at[w] \notin Work!Holding
      BY <1>2, <2>3 DEF InHand
    <2> QED BY <2>2, <2>3
  <1>6. WorkOK'
    BY <1>2, <1>3, <1>5 DEF WorkOK
  <1>7. LogOnTopic'
    BY <1>4 DEF LogOnTopic
  <1> QED BY <1>6, <1>7

\* A worker goes on with what it has in hand, or with what is on the log.
LEMMA WorkerMoves ==
  ASSUME WorkOK, NEW w \in Workers, NEW a \in Work!At,
         NEW h \in [part : Partitions \cup {None}, offset : Nat],
         at' = [at EXCEPT ![w] = a], hand' = [hand EXCEPT ![w] = h],
         UNCHANGED log, committed' \in [Partitions -> Nat], pos' \in [Workers -> [Partitions -> Nat \cup {None}]],
         a \in Work!Holding => h.part \in Partitions /\ h.offset < Len(log[h.part])
  PROVE  WorkOK'
  <1>1. at' \in [Workers -> Work!At]
        /\ hand' \in [Workers -> [part : Partitions \cup {None}, offset : Nat]]
    BY DEF WorkOK
  <1>2. ASSUME NEW v \in Workers PROVE InHand(v)'
    <2>1. CASE v = w
      <3>1. at'[v] = a /\ hand'[v] = h /\ h.offset \in Nat
        BY <2>1 DEF WorkOK
      <3> QED BY <3>1 DEF InHand
    <2>2. CASE v # w
      <3>1. at'[v] = at[v] /\ hand'[v] = hand[v] /\ InHand(v)
        BY <2>2 DEF WorkOK
      <3> QED BY <3>1 DEF InHand
    <2> QED BY <2>1, <2>2
  <1> QED BY <1>1, <1>2 DEF WorkOK

\* A step of the workers or of their group leaves the log alone, and what a
\* worker then holds was fetched from it.
LEMMA GroupKeeps ==
  ASSUME WorkOK, Work!GroupNext
  PROVE  WorkOK' /\ UNCHANGED log
  <1> DEFINE Hands == [part : Partitions \cup {None}, offset : Nat]
  <1>a. /\ log \in [Partitions -> Seq(Event)]
        /\ committed \in [Partitions -> Nat]
        /\ pos \in [Workers -> [Partitions -> Nat \cup {None}]]
        /\ at \in [Workers -> Work!At]
        /\ hand \in [Workers -> Hands]
    BY DEF WorkOK
  <1>b. ASSUME NEW w \in Workers, at[w] \in Work!Holding
        PROVE  /\ hand[w] \in Hands /\ hand[w].part \in Partitions
               /\ hand[w].offset \in Nat /\ hand[w].offset < Len(log[hand[w].part])
    BY <1>b DEF WorkOK, InHand
  <1>c. Work!NoMessage \in Hands
    BY DEF Work!NoMessage
  <1>1. ASSUME NEW w \in Workers, NEW p \in Partitions, Work!FetchMessage(w, p)
        PROVE  WorkOK' /\ UNCHANGED log
    <2> DEFINE h == [part |-> p, offset |-> pos[w][p]]
    <2>1. /\ pos[w][p] # None /\ pos[w][p] < Len(log[p])
          /\ hand' = [hand EXCEPT ![w] = h]
          /\ pos' = [pos EXCEPT ![w][p] = pos[w][p] + 1]
          /\ at' = [at EXCEPT ![w] = "handle"]
          /\ UNCHANGED <<log, committed>>
      BY <1>1 DEF Work!FetchMessage
    <2>2. pos[w][p] \in Nat
      BY <1>a, <2>1
    <2>3. /\ pos' \in [Workers -> [Partitions -> Nat \cup {None}]]
          /\ committed' \in [Partitions -> Nat]
      BY <1>a, <2>1, <2>2
    <2>4. h \in Hands /\ h.part = p /\ h.offset = pos[w][p]
      BY <2>2
    <2> HIDE DEF h
    <2> QED BY <2>1, <2>3, <2>4, WorkerMoves
  <1>2. ASSUME NEW w \in Workers, at[w] \in Work!Holding, UNCHANGED <<log, committed, pos, hand>>,
               NEW a \in Work!At, at' = [at EXCEPT ![w] = a]
        PROVE  WorkOK' /\ UNCHANGED log
    <2>1. hand' = [hand EXCEPT ![w] = hand[w]]
      BY <1>2, <1>a
    <2> QED BY <1>a, <1>b, <1>2, <2>1, WorkerMoves
  <1>3. ASSUME NEW w \in Workers, Work!HandleOk(w) \/ Work!HandleError(w) \/ Work!Backoff(w)
                                  \/ Work!BackoffCanceled(w) \/ Work!DeadLetter(w)
        PROVE  WorkOK' /\ UNCHANGED log
    <2>1. /\ at[w] \in Work!Holding
          /\ UNCHANGED <<log, committed, pos, hand>>
          /\ \E a \in Work!At : at' = [at EXCEPT ![w] = a]
      BY <1>3 DEF Work!HandleOk, Work!HandleError, Work!Backoff, Work!BackoffCanceled, Work!DeadLetter, Work!GiveUp
    <2> QED BY <1>2, <2>1
  <1>4. ASSUME NEW w \in Workers, Work!Exit(w)
        PROVE  WorkOK' /\ UNCHANGED log
    <2>1. /\ at' = [at EXCEPT ![w] = "down"]
          /\ hand' = [hand EXCEPT ![w] = Work!NoMessage]
          /\ UNCHANGED <<log, committed>>
          /\ pos' = [pos EXCEPT ![w] = [p \in Partitions |-> None]]
      BY <1>4 DEF Work!Exit, Work!ReadsNothing
    <2>2. pos' \in [Workers -> [Partitions -> Nat \cup {None}]]
      BY <1>a, <2>1
    <2> QED BY <1>a, <1>c, <2>1, <2>2, WorkerMoves
  <1>5. ASSUME NEW w \in Workers, Work!CommitMessages(w) \/ Work!CommitFails(w)
        PROVE  WorkOK' /\ UNCHANGED log
    <2>1. /\ at[w] \in Work!Holding
          /\ at' = [at EXCEPT ![w] = "fetch"]
          /\ hand' = [hand EXCEPT ![w] = Work!NoMessage]
          /\ \/ committed' = [committed EXCEPT ![hand[w].part] = hand[w].offset + 1]
             \/ UNCHANGED committed
          /\ UNCHANGED <<log, pos>>
      BY <1>5 DEF Work!CommitMessages, Work!CommitFails
    <2>2. hand[w].offset + 1 \in Nat
      BY <1>b, <2>1
    <2>3. /\ committed \in [Partitions -> Nat]
          /\ pos' \in [Workers -> [Partitions -> Nat \cup {None}]]
      BY <1>a, <2>1
    <2>4. committed' \in [Partitions -> Nat]
      BY <2>1, <2>2, <2>3
    <2> QED BY <1>c, <2>3, <2>4, <2>1, WorkerMoves
  <1>6. ASSUME NEW w \in Workers, Work!Start(w)
        PROVE  WorkOK' /\ UNCHANGED log
    <2>1. /\ at' = [at EXCEPT ![w] = "fetch"]
          /\ UNCHANGED <<log, committed, pos, hand>>
      BY <1>6 DEF Work!Start
    <2>2. hand' = [hand EXCEPT ![w] = hand[w]] /\ hand[w] \in Hands
      BY <1>a, <2>1
    <2> QED BY <1>a, <2>1, <2>2, WorkerMoves
  <1>7. ASSUME NEW w \in Workers, NEW p \in Partitions, Work!Assign(p, w) \/ Work!Lose(p, w)
        PROVE  WorkOK' /\ UNCHANGED log
    <2>1. /\ \E k \in Nat \cup {None} : pos' = [pos EXCEPT ![w][p] = k]
          /\ UNCHANGED <<log, committed, at, hand>>
      BY <1>a, <1>7 DEF Work!Assign, Work!Lose
    <2>2. PICK k \in Nat \cup {None} : pos' = [pos EXCEPT ![w][p] = k]
      BY <2>1
    <2>3. [pos[w] EXCEPT ![p] = k] \in [Partitions -> Nat \cup {None}]
      BY <1>a
    <2>4. pos' \in [Workers -> [Partitions -> Nat \cup {None}]]
      BY <1>a, <2>2, <2>3
    <2> QED BY <2>1, <2>4 DEF WorkOK, InHand
  <1>8. ASSUME NEW w \in Workers, Work!Cancel(w)
        PROVE  WorkOK' /\ UNCHANGED log
    BY <1>8 DEF Work!Cancel, WorkOK, InHand
  <1>9. CASE Work!CalmDown
    BY <1>9 DEF Work!CalmDown, WorkOK, InHand
  <1>10. ASSUME NEW w \in Workers, Work!Fault(w)
         PROVE  WorkOK' /\ UNCHANGED log
    BY <1>4, <1>5, <1>8, <1>10
    DEF Work!Fault, Work!FetchFails, Work!DeadLetterFails, Work!Crash
  <1>11. ASSUME NEW w \in Workers, Work!RunStep(w)
         PROVE  WorkOK' /\ UNCHANGED log
    BY <1>1, <1>3, <1>4, <1>5, <1>11 DEF Work!RunStep, Work!FetchCanceled
  <1> QED BY <1>6, <1>7, <1>9, <1>10, <1>11 DEF Work!GroupNext

----------------------------------------------------------------------------
\* The inductive invariant of the composition: what is in hand is on the log,
\* and what is on the log is on the topic.
LEMMA WorkStep ==
  Shape /\ WorkOK /\ LogOnTopic /\ [PipelineNext]_pipelineVars => WorkOK' /\ LogOnTopic'
  <1> SUFFICES ASSUME Shape, WorkOK, LogOnTopic, [PipelineNext]_pipelineVars
       PROVE  WorkOK' /\ LogOnTopic'
    OBVIOUS
  <1>1. [Next]_vars /\ (Sent \/ Work!GroupNext \/ UNCHANGED workVars)
    BY TwoSides
  <1>2. topic \subseteq topic'
    BY <1>1, LogsKept
  <1>3. CASE Sent
    BY <1>2, <1>3, SentIsEvent, PublishKeeps
  <1>4. CASE Work!GroupNext
    BY <1>2, <1>4, GroupKeeps DEF LogOnTopic
  <1>5. CASE UNCHANGED workVars
    BY <1>2, <1>5 DEF workVars, WorkOK, InHand, LogOnTopic
  <1> QED BY <1>1, <1>3, <1>4, <1>5

\* In the beginning nobody has anything in hand, and there is nothing to have.
LEMMA InitWork == PipelineInit => WorkOK /\ LogOnTopic
  <1> SUFFICES ASSUME PipelineInit PROVE WorkOK /\ LogOnTopic
    OBVIOUS
  <1>1. Work!Init
    BY DEF PipelineInit
  <1>2. <<>> \in Seq(Event) /\ Len(<<>>) = 0
    OBVIOUS
  <1>3. \A p \in Partitions : log[p] = <<>>
    BY <1>1 DEF Work!Init
  <1>4. LogOnTopic
    BY <1>2, <1>3 DEF LogOnTopic
  <1> QED BY <1>1, <1>2, <1>4 DEF Work!Init, WorkOK, InHand, Work!NoMessage, Work!ReadsNothing

\* The worker is never handed an event that is not true, however late it reads
\* it and however often: an ingest event's row is merged and its object there,
\* a delete event's row is deleted.
THEOREM HeldEventsAreTrue == PipelineSpec => []HeldEventIsTrue
  <1>1. PipelineInit => WorkOK /\ LogOnTopic
    BY InitWork
  <1>2. PipelineSpec => []Inv
    BY RunsDocuments, Invariance, PTL
  <1>3. Inv => Shape
    BY DEF Inv
  <1>4. Inv /\ WorkOK /\ LogOnTopic => HeldEventIsTrue
    <2> SUFFICES ASSUME Inv, WorkOK, LogOnTopic, NEW w \in Workers, at[w] \in Work!Holding
         PROVE  LET e == EventAt(Work!Msg(w))
                IN  IF e.type = "ingest"
                    THEN docs[e.id].status = "merged" /\ merged[e.file][e.name] # {}
                    ELSE docs[e.id].deleted
      BY DEF HeldEventIsTrue
    <2> DEFINE e == log[hand[w].part][hand[w].offset + 1]
    <2>1. /\ hand[w].part \in Partitions
          /\ hand[w].offset + 1 \in 1..Len(log[hand[w].part])
      <3>1. /\ hand[w].part \in Partitions /\ hand[w].offset \in Nat
            /\ hand[w].offset < Len(log[hand[w].part])
        BY DEF WorkOK, InHand
      <3>2. log[hand[w].part] \in Seq(Event)
        BY <3>1 DEF WorkOK
      <3> QED BY <3>1, <3>2
    <2>2. e \in topic
      BY <2>1 DEF LogOnTopic
    <2>3. e.type \in {"ingest", "delete"}
      BY <2>2 DEF Inv, Shape, TypeOK, Event
    <2>4. IF e.type = "ingest"
          THEN docs[e.id].status = "merged" /\ merged[e.file][e.name] # {}
          ELSE docs[e.id].deleted
      BY <2>2, <2>3 DEF Inv, Promises, IngestEventBacked, DeleteEventBacked
    <2>5. EventAt(Work!Msg(w)) = e
      BY DEF EventAt, Work!Msg
    <2> HIDE DEF e
    <2> QED BY <2>4, <2>5
  <1> QED BY <1>1, <1>2, <1>3, <1>4, WorkStep, PTL DEF PipelineSpec

----------------------------------------------------------------------------
(* What was proved of the workers alone holds in the pipeline.             *)

WorkProofs == INSTANCE ConsumerProofs WITH Keys <- Event, pc <- at

\* WorkProofs speaks of the same workers as Work.
LEMMA SameWorkers == Work!Spec => WorkProofs!Spec
  BY PTL
  DEF Work!Spec, WorkProofs!Spec, Work!Init, WorkProofs!Init, Work!Next, WorkProofs!Next,
     Work!vars, WorkProofs!vars, Work!Publish, WorkProofs!Publish,
     Work!GroupNext, WorkProofs!GroupNext, Work!Start, WorkProofs!Start,
     Work!Assign, WorkProofs!Assign, Work!Lose, WorkProofs!Lose,
     Work!ReadsNothing, WorkProofs!ReadsNothing, Work!GiveUp, WorkProofs!GiveUp, Work!RunStep, WorkProofs!RunStep,
     Work!FetchMessage, WorkProofs!FetchMessage,
     Work!FetchCanceled, WorkProofs!FetchCanceled, Work!HandleOk, WorkProofs!HandleOk,
     Work!HandleError, WorkProofs!HandleError, Work!Backoff, WorkProofs!Backoff,
     Work!BackoffCanceled, WorkProofs!BackoffCanceled,
     Work!DeadLetter, WorkProofs!DeadLetter,
     Work!CommitMessages, WorkProofs!CommitMessages, Work!Fault, WorkProofs!Fault,
     Work!FetchFails, WorkProofs!FetchFails,
     Work!DeadLetterFails, WorkProofs!DeadLetterFails,
     Work!CommitFails, WorkProofs!CommitFails, Work!Cancel, WorkProofs!Cancel,
     Work!Crash, WorkProofs!Crash, Work!CalmDown, WorkProofs!CalmDown,
     Work!Exit, WorkProofs!Exit, Work!Goto, WorkProofs!Goto, Work!Msg, WorkProofs!Msg,
     Work!NoMessage, WorkProofs!NoMessage, Work!MaxAttempts, WorkProofs!MaxAttempts

\* The theorems of ConsumerProofs, for the pipeline's workers.
LEMMA WorkersKeep ==
  PipelineSpec => []WorkProofs!Inv /\ []WorkProofs!SettledPublished
  <1>1. PipelineSpec => WorkProofs!Spec
    BY RunsWorkers, SameWorkers, PTL
  <1>2. WorkProofs!Spec => []WorkProofs!Inv
    BY WorkProofs!Invariance, WorkAssumption
  <1>3. WorkProofs!Spec => []WorkProofs!SettledPublished
    BY WorkProofs!OnlyPublishedIsSettled, WorkAssumption
  <1> QED BY <1>1, <1>2, <1>3, PTL

\* The workers of the pipeline commit only past settled messages, work in order
\* and pass over nothing, whatever the API does at the same time.
THEOREM WorkersKeepPromises ==
  PipelineSpec => [](Work!AtLeastOnce /\ Work!InOrder /\ Work!NothingSkipped)
  <1>1. WorkProofs!Inv => Work!AtLeastOnce /\ Work!InOrder /\ Work!NothingSkipped
    BY DEF WorkProofs!Inv, WorkProofs!Promises, WorkProofs!AtLeastOnce, WorkProofs!InOrder,
           WorkProofs!NothingSkipped, WorkProofs!Holding, WorkProofs!Msg,
           Work!AtLeastOnce, Work!InOrder, Work!NothingSkipped, Work!Holding, Work!Msg
  <1> QED BY <1>1, WorkersKeep, PTL

\* They keep the promise of Delivery.
THEOREM PipelineDelivers == PipelineSpec => Work!DeliverySpec
  <1>1. PipelineSpec => WorkProofs!Spec
    BY RunsWorkers, SameWorkers, PTL
  <1>2. WorkProofs!Spec => WorkProofs!DeliverySpec
    BY WorkProofs!KeepsDelivery, WorkAssumption
  <1>3. WorkProofs!DeliverySpec => Work!DeliverySpec
    BY PTL
    DEF WorkProofs!DeliverySpec, Work!DeliverySpec,
        WorkProofs!Promise!Spec, Work!Promise!Spec,
        WorkProofs!Promise!Init, Work!Promise!Init,
        WorkProofs!Promise!Next, Work!Promise!Next,
        WorkProofs!Promise!vars, Work!Promise!vars,
        WorkProofs!Promise!Publish, Work!Promise!Publish,
        WorkProofs!Promise!Settle, Work!Promise!Settle,
        WorkProofs!Promise!Commit, Work!Promise!Commit
  <1> QED BY <1>1, <1>2, <1>3, PTL

----------------------------------------------------------------------------
(* From the API to the workers.                                            *)

\* What an event says is so.
Holds(e) ==
  IF e.type = "ingest"
  THEN docs[e.id].status = "merged" /\ merged[e.file][e.name] # {}
  ELSE docs[e.id].deleted

\* Whatever was published is on some partition's log, and stays there.
TopicOnLog == \A e \in topic : \E m \in Messages : EventAt(m) = e

\* A delete that was answered with success is there for the workers to read.
DeleteIsSent ==
  \A d \in DocIds : <<"delete", d>> \in acked => About(d, "delete") # {}

\* What the workers settled was an event, and what it says is so.
SettledIsTrue == \A m \in settled : m \in Messages /\ Holds(EventAt(m))

\* A completion that was answered with success is there for the workers to
\* read, once no call on the document is under way.
CompletionIsSent ==
  \A d \in DocIds :
    <<"complete", d>> \in acked =>
      About(d, "ingest") # {} \/ \E r \in Reqs : call[r].id = d

\* What changes the topic is a publish.
LEMMA TopicGrowsByPublish == [PipelineNext]_pipelineVars => Sent \/ UNCHANGED topic
  <1> SUFFICES ASSUME [PipelineNext]_pipelineVars, topic' # topic PROVE Sent
    OBVIOUS
  <1>1. ASSUME NEW r \in Reqs, Step(r) \/ PublishUnacked(r), Carry(r) PROVE Sent
    <2>1. \/ pc[r] = "publishIngest" /\ topic' = topic \cup {IngestEvent(call[r])}
          \/ pc[r] = "publishDelete" /\ topic' = topic \cup {DeleteEvent(call[r])}
      BY <1>1 DEF Step, PublishUnacked, CreateDocument, CreateConflict, PutPart, MarkPart,
          CheckPart, PartsIncomplete, ComposeMerged, ComposeMissingPart, MarkMerged,
          RemovePart, RemoveFails, Clear, ClearFails, PublishIngest, SoftDelete, PublishDelete
    <2> QED BY <1>1, <2>1 DEF Carry, Sent, Published
  <1>2. ASSUME ApiRequest PROVE UNCHANGED topic
    BY <1>2 DEF ApiRequest, NewRequest, InitiateUpload, UploadPart, CompleteUpload,
       DeleteDocument, CompleteMerged, Accept
  <1>3. ASSUME GroupStep \/ UNCHANGED pipelineVars PROVE UNCHANGED topic
    BY <1>3 DEF GroupStep, pipelineVars, vars
  <1>4. ASSUME ApiFault, ~\E r \in Reqs : PublishUnacked(r) /\ Carry(r) PROVE UNCHANGED topic
    BY <1>4 DEF ApiFault, Abandon, Expire
  <1> QED BY <1>1, <1>2, <1>3, <1>4 DEF PipelineNext, ReliablePipelineNext, ApiStep

\* A message stays where it is: the log is only ever appended to.
LEMMA MessagesStay ==
  ASSUME Shape, WorkOK, [PipelineNext]_pipelineVars
  PROVE  \A m \in Messages : m \in Messages' /\ EventAt(m)' = EventAt(m)
  <1> SUFFICES ASSUME NEW m \in Messages PROVE m \in Messages' /\ EventAt(m)' = EventAt(m)
    OBVIOUS
  <1>1. CASE UNCHANGED log
    BY <1>1 DEF Messages, EventAt
  <1>2. CASE Sent
    <2>1. PICK key \in Event : Published(key)
      BY <1>2, SentIsEvent
    <2>2. PICK q \in Partitions : log' = [log EXCEPT ![q] = Append(log[q], key)]
      BY <2>1 DEF Published, Work!Publish
    <2>3. m[1] \in Partitions /\ m[2] \in Nat /\ m[2] < Len(log[m[1]])
      BY DEF Messages
    <2>4. log[m[1]] \in Seq(Event)
      BY <2>3 DEF WorkOK
    <2>5. Len(log[m[1]]) <= Len(log'[m[1]]) /\ log'[m[1]][m[2] + 1] = log[m[1]][m[2] + 1]
      <3>1. CASE m[1] # q
        BY <2>2, <2>3, <2>4, <3>1 DEF WorkOK
      <3>2. CASE m[1] = q
        <4>1. log'[q] = Append(log[q], key)
          BY <2>2 DEF WorkOK
        <4> QED BY <2>3, <2>4, <3>2, <4>1
      <3> QED BY <3>1, <3>2
    <2>6. Len(log'[m[1]]) \in Nat
      <3>1. log'[m[1]] \in Seq(Event)
        BY <2>2, <2>3, <2>4 DEF WorkOK
      <3> QED BY <3>1
    <2>7. m[2] < Len(log'[m[1]])
      BY <2>3, <2>4, <2>5, <2>6
    <2> QED BY <2>5, <2>7 DEF Messages, EventAt
  <1> QED BY <1>1, <1>2, TwoSides, GroupKeeps DEF workVars

\* A publish puts the event on the log.
LEMMA PublishIsMessage ==
  ASSUME WorkOK, NEW key \in Event, Published(key)
  PROVE  \E m \in Messages' : EventAt(m)' = key
  <1>1. PICK q \in Partitions : /\ Len(log[q]) < MaxLog
                                /\ log' = [log EXCEPT ![q] = Append(log[q], key)]
    BY DEF Published, Work!Publish
  <1>2. log[q] \in Seq(Event) /\ log'[q] = Append(log[q], key)
    BY <1>1 DEF WorkOK
  <1>3. /\ Len(log[q]) \in 0..(MaxLog - 1)
        /\ Len(log[q]) < Len(log'[q])
        /\ log'[q][Len(log[q]) + 1] = key
    BY <1>1, <1>2, WorkAssumption
  <1>4. PICK m \in Partitions \X (0..(MaxLog - 1)) : m = <<q, Len(log[q])>>
    BY <1>3
  <1>5. m \in Messages' /\ EventAt(m)' = key
    BY <1>3, <1>4 DEF Messages, EventAt
  <1> QED BY <1>5

\* A publish that a request made has its message on a log, whatever partition
\* was chosen: what is on the topic is what the workers can read.
LEMMA TopicOnLogStep ==
  Shape /\ WorkOK /\ TopicOnLog /\ [PipelineNext]_pipelineVars => TopicOnLog'
  <1> SUFFICES ASSUME Shape, WorkOK, TopicOnLog, [PipelineNext]_pipelineVars,
                      NEW e \in topic'
               PROVE  \E m \in Messages' : EventAt(m)' = e
    BY DEF TopicOnLog
  <1>1. CASE e \in topic
    <2>1. PICK m \in Messages : EventAt(m) = e
      BY <1>1 DEF TopicOnLog
    <2> QED BY <2>1, MessagesStay
  <1>2. CASE e \notin topic
    <2>1. Sent
      BY <1>2, TopicGrowsByPublish
    <2>2. PICK r \in Reqs :
            \/ pc[r] = "publishIngest" /\ Published(IngestEvent(call[r]))
                                       /\ topic' = topic \cup {IngestEvent(call[r])}
            \/ pc[r] = "publishDelete" /\ Published(DeleteEvent(call[r]))
                                       /\ topic' = topic \cup {DeleteEvent(call[r])}
      BY <2>1 DEF Sent
    <2>3. Published(e)
      BY <1>2, <2>2
    <2>4. e \in Event
      BY <1>2, TwoSides, ShapeStep DEF Shape, TypeOK
    <2> QED BY <2>3, <2>4, PublishIsMessage
  <1> QED BY <1>1, <1>2

\* The invariant of the composition, in every behaviour of the pipeline.
LEMMA PipelineInvariance == PipelineSpec => [](Inv /\ WorkOK /\ LogOnTopic /\ TopicOnLog)
  <1>1. PipelineInit => WorkOK /\ LogOnTopic /\ TopicOnLog
    BY InitWork DEF PipelineInit, Init, TopicOnLog
  <1>2. PipelineSpec => []Inv
    BY RunsDocuments, Invariance, PTL
  <1>3. Inv => Shape
    BY DEF Inv
  <1> QED BY <1>1, <1>2, <1>3, WorkStep, TopicOnLogStep, PTL DEF PipelineSpec

\* A delete that was answered with success has its event on a log, although the
\* row and the event are written by two calls that may fail one by one.
THEOREM DeletesReachWorkers == PipelineSpec => []DeleteIsSent
  <1>1. Inv /\ TopicOnLog => DeleteIsSent
    <2> SUFFICES ASSUME Inv, TopicOnLog, NEW d \in DocIds, <<"delete", d>> \in acked
                 PROVE  About(d, "delete") # {}
      BY DEF DeleteIsSent
    <2>1. PICK e \in topic : e.type = "delete" /\ e.id = d
      BY DEF Inv, Promises, DeleteAcked
    <2>2. PICK m \in Messages : EventAt(m) = e
      BY DEF TopicOnLog
    <2> QED BY <2>1, <2>2 DEF About
  <1> QED BY <1>1, PipelineInvariance, PTL

\* When no call of the API fails, so has a completion, unless a request is
\* still under way on the document; the workers may fail all the same.
THEOREM CompletionsReachWorkers == ReliablePipelineSpec => []CompletionIsSent
  <1>1. ReliablePipelineSpec => PipelineSpec
    <2>1. [ReliablePipelineNext]_pipelineVars => [PipelineNext]_pipelineVars
      BY DEF PipelineNext
    <2> QED BY <2>1, PTL DEF ReliablePipelineSpec, PipelineSpec
  <1>2. [ReliablePipelineNext]_pipelineVars => [ReliableNext]_vars
    BY DEF ReliablePipelineNext, ApiRequest, ApiStep, GroupStep, ReliableNext, pipelineVars
  <1>3. PipelineInit => NotForgotten
    BY DEF PipelineInit, Init, NotForgotten, NoRow
  <1>4. Inv => Shape
    BY DEF Inv
  <1>5. ReliablePipelineSpec => []NotForgotten
    BY <1>1, <1>2, <1>3, <1>4, PipelineInvariance, NotForgottenStep, PTL DEF ReliablePipelineSpec
  <1>6. Inv /\ TopicOnLog /\ NotForgotten => CompletionIsSent
    <2> SUFFICES ASSUME Inv, TopicOnLog, NotForgotten, NEW d \in DocIds,
                        <<"complete", d>> \in acked, ~\E r \in Reqs : call[r].id = d
                 PROVE  About(d, "ingest") # {}
      BY DEF CompletionIsSent
    <2>1. PICK e \in topic : e.type = "ingest" /\ e.id = d
      BY DEF Inv, Promises, CompleteAcked, NotForgotten, Announced, UnderWay
    <2>2. PICK m \in Messages : EventAt(m) = e
      BY DEF TopicOnLog
    <2> QED BY <2>1, <2>2 DEF About
  <1> QED BY <1>1, <1>5, <1>6, PipelineInvariance, PTL

\* Whatever the workers handled or put on the dead letter topic was an event of
\* the API, and what it says is still so: a document that was ingested is
\* merged and has its object, one that was cleaned up is deleted.
THEOREM SettledWorkIsTrue == PipelineSpec => []SettledIsTrue
  <1>1. Inv /\ WorkOK /\ LogOnTopic /\ WorkProofs!Inv /\ WorkProofs!SettledPublished
        => SettledIsTrue
    <2> SUFFICES ASSUME Inv, WorkOK, LogOnTopic, WorkProofs!Inv, WorkProofs!SettledPublished,
                        NEW m \in settled
                 PROVE  m \in Messages /\ Holds(EventAt(m))
      BY DEF SettledIsTrue
    <2>1. /\ m \in Partitions \X (0..MaxLog)
          /\ \A p \in Partitions : Len(log[p]) <= MaxLog
      BY DEF WorkProofs!Inv, WorkProofs!Shape, WorkProofs!TypeOK, WorkProofs!Offsets
    <2>2. m[1] \in Partitions /\ m[2] \in 0..(Len(log[m[1]]) - 1)
      BY DEF WorkProofs!SettledPublished, WorkProofs!Published
    <2>3. log[m[1]] \in Seq(Event)
      BY <2>2 DEF WorkOK
    <2>4. m[2] \in 0..(MaxLog - 1) /\ m[2] < Len(log[m[1]]) /\ m[2] + 1 \in 1..Len(log[m[1]])
      BY <2>1, <2>2, <2>3, WorkAssumption
    <2>5. m \in Messages
      BY <2>1, <2>4 DEF Messages
    <2>6. EventAt(m) \in topic
      BY <2>2, <2>4 DEF LogOnTopic, EventAt
    <2>7. \A e \in topic : Holds(e)
      BY DEF Holds, Inv, Shape, TypeOK, Event, Promises, IngestEventBacked, DeleteEventBacked
    <2> QED BY <2>5, <2>6, <2>7
  <1> QED BY <1>1, PipelineInvariance, WorkersKeep, PTL
=============================================================================
