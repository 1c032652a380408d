------------------------------ MODULE Consumer -----------------------------
(***************************************************************************)
(* The worker process: the consumer loop over the ingest topic, with its   *)
(* retries, its dead letter topic, manual offset commits and shutdown; and *)
(* the producer's side of the topic.                                       *)
(*                                                                         *)
(* log, committed, assigned and pos are Kafka's and the group reader's.    *)
(* They are known from how the code uses them: a reader gets the messages  *)
(* of a partition in offset order from the offset that was committed when  *)
(* the partition was given to it; a partition that changes hands is read   *)
(* again by its new reader, while the old one may hold a message, and may  *)
(* fetch more of them, until it learns of the new generation.              *)
(***************************************************************************)
EXTENDS Integers, Sequences

CONSTANTS
  Partitions,   \* partitions of the topic
  Workers,      \* worker processes of the consumer group
  Keys,         \* message keys (the file's MD5)
  Outcomes,     \* what Handler.Handle may return: "ok", "error"
  MaxLog,       \* bound: messages published to a partition
  None          \* no worker

ASSUME MaxLogAssumption == MaxLog \in Nat
ASSUME NoneAssumption == None \notin Workers
ASSUME OutcomesAssumption == Outcomes \subseteq {"ok", "error"}

VARIABLES
  log,         \* per partition, the keys of its messages; offsets count from 0
  committed,   \* per partition, the group's committed offset
  assigned,    \* per partition, the worker the group gave it to
  pos,         \* per worker and partition, the offset its reader fetches next;
               \* None: it does not read the partition
  pc,          \* per worker, where Run is; "down": no process
  hand,        \* per worker, the message it holds
  attempt,     \* per worker, failed attempts of the retry loop it is in
  canceled,    \* per worker, whether the shutdown signal has come
  settled,     \* history: <<partition, offset>> handled with success or written
               \* to the dead letter topic
  calm         \* no further faults, signals or rebalances

vars == <<log, committed, assigned, pos, pc, hand, attempt, canceled, settled, calm>>

----------------------------------------------------------------------------
MaxAttempts == 3

Offsets == 0..MaxLog

Message == [part : Partitions, offset : Offsets]
NoMessage == [part |-> None, offset |-> 0]

At == {"down", "fetch", "handle", "backoff", "deadLetter", "commit"}

Holding == {"handle", "backoff", "deadLetter", "commit"}

ReadsNothing == [p \in Partitions |-> None]

Msg(w) == <<hand[w].part, hand[w].offset>>

Init ==
  /\ log = [p \in Partitions |-> <<>>]
  /\ committed = [p \in Partitions |-> 0]
  /\ assigned = [p \in Partitions |-> None]
  /\ pos = [w \in Workers |-> ReadsNothing]
  /\ pc = [w \in Workers |-> "down"]
  /\ hand = [w \in Workers |-> NoMessage]
  /\ attempt = [w \in Workers |-> 0]
  /\ canceled = [w \in Workers |-> FALSE]
  /\ settled = {}
  /\ calm = FALSE

Goto(w, at) == pc' = [pc EXCEPT ![w] = at]

\* Run returned or the process died: its partitions have no reader.
Exit(w) ==
  /\ Goto(w, "down")
  /\ hand' = [hand EXCEPT ![w] = NoMessage]
  /\ attempt' = [attempt EXCEPT ![w] = 0]
  /\ canceled' = [canceled EXCEPT ![w] = FALSE]
  /\ assigned' = [p \in Partitions |-> IF assigned[p] = w THEN None ELSE assigned[p]]
  /\ pos' = [pos EXCEPT ![w] = ReadsNothing]
  /\ UNCHANGED <<log, committed, calm>>

----------------------------------------------------------------------------
\* Publish: the LeastBytes balancer takes any partition, whatever the key.
Publish(key, p) ==
  /\ Len(log[p]) < MaxLog
  /\ log' = [log EXCEPT ![p] = Append(@, key)]
  /\ UNCHANGED <<committed, assigned, pos, pc, hand, attempt, canceled, settled, calm>>

\* A worker process starts and joins the group.
Start(w) ==
  /\ pc[w] = "down"
  /\ Goto(w, "fetch")
  /\ UNCHANGED <<log, committed, assigned, pos, hand, attempt, canceled, settled, calm>>

\* A partition gets a reader, or a rebalance gives it to another one, or to the
\* same one again.
Assign(p, w) ==
  /\ pc[w] # "down"
  /\ assigned[p] = None \/ ~calm
  /\ assigned' = [assigned EXCEPT ![p] = w]
  /\ pos' = [pos EXCEPT ![w][p] = committed[p]]
  /\ UNCHANGED <<log, committed, pc, hand, attempt, canceled, settled, calm>>

\* The reader of a worker that lost a partition learns of it and drops what it
\* has prefetched.
Lose(p, w) ==
  /\ assigned[p] # w
  /\ pos[w][p] # None
  /\ pos' = [pos EXCEPT ![w][p] = None]
  /\ UNCHANGED <<log, committed, assigned, pc, hand, attempt, canceled, settled, calm>>

----------------------------------------------------------------------------
(* Run, one action per call that waits or leaves the process.              *)

\* The reader hands out the next message of a partition it reads, whether or not
\* the group has given the partition to another worker by now.
FetchMessage(w, p) ==
  /\ pc[w] = "fetch"
  /\ pos[w][p] # None
  /\ pos[w][p] < Len(log[p])
  /\ hand' = [hand EXCEPT ![w] = [part |-> p, offset |-> pos[w][p]]]
  /\ pos' = [pos EXCEPT ![w][p] = @ + 1]
  /\ Goto(w, "handle")
  /\ UNCHANGED <<log, committed, assigned, attempt, canceled, settled, calm>>

\* Mutant of FetchCanceled: the error is logged and the loop goes on.
FetchCanceledGoesOn(w) ==
  /\ pc[w] = "fetch"
  /\ canceled[w]
  /\ UNCHANGED vars

FetchCanceled(w) ==
  /\ pc[w] = "fetch"
  /\ canceled[w]
  /\ Exit(w)
  /\ UNCHANGED settled

FetchFails(w) ==
  /\ pc[w] = "fetch"
  /\ ~calm
  /\ Exit(w)
  /\ UNCHANGED settled

HandleOk(w) ==
  /\ pc[w] = "handle"
  /\ "ok" \in Outcomes
  /\ settled' = settled \cup {Msg(w)}
  /\ attempt' = [attempt EXCEPT ![w] = 0]
  /\ Goto(w, "commit")
  /\ UNCHANGED <<log, committed, assigned, pos, hand, canceled, calm>>

\* Mutant of HandleError: the loop goes on with the next message and leaves this
\* one to a later delivery.
HandleErrorGoesOn(w) ==
  /\ pc[w] = "handle"
  /\ "error" \in Outcomes
  /\ hand' = [hand EXCEPT ![w] = NoMessage]
  /\ Goto(w, "fetch")
  /\ UNCHANGED <<log, committed, assigned, pos, attempt, canceled, settled, calm>>

HandleError(w) ==
  /\ pc[w] = "handle"
  /\ "error" \in Outcomes
  /\ attempt' = [attempt EXCEPT ![w] = @ + 1]
  /\ Goto(w, "backoff")
  /\ UNCHANGED <<log, committed, assigned, pos, hand, canceled, settled, calm>>

\* The retry loop ends without success.
GiveUp(w) == Goto(w, "deadLetter") /\ attempt' = [attempt EXCEPT ![w] = 0]

\* Mutants of Backoff: it retries for ever; it retries once too often.
BackoffForever(w) ==
  /\ pc[w] = "backoff"
  /\ Goto(w, "handle")
  /\ attempt' = [attempt EXCEPT ![w] = 0]
  /\ UNCHANGED <<log, committed, assigned, pos, hand, canceled, settled, calm>>

BackoffOnceMore(w) ==
  /\ pc[w] = "backoff"
  /\ IF attempt[w] <= MaxAttempts THEN Goto(w, "handle") /\ UNCHANGED attempt
                                   ELSE GiveUp(w)
  /\ UNCHANGED <<log, committed, assigned, pos, hand, canceled, settled, calm>>

\* The pause follows every failed attempt, the last one too.
Backoff(w) ==
  /\ pc[w] = "backoff"
  /\ IF attempt[w] < MaxAttempts THEN Goto(w, "handle") /\ UNCHANGED attempt
                                  ELSE GiveUp(w)
  /\ UNCHANGED <<log, committed, assigned, pos, hand, canceled, settled, calm>>

\* Mutant of BackoffCanceled: the message is dropped and committed.
BackoffCanceledSkips(w) ==
  /\ pc[w] = "backoff"
  /\ canceled[w]
  /\ Goto(w, "commit")
  /\ UNCHANGED <<log, committed, assigned, pos, hand, attempt, canceled, settled, calm>>

\* The signal comes during the pause: the context's error takes the place of
\* the handler's, and Run goes on to the dead letter.
BackoffCanceled(w) ==
  /\ pc[w] = "backoff"
  /\ canceled[w]
  /\ GiveUp(w)
  /\ UNCHANGED <<log, committed, assigned, pos, hand, canceled, settled, calm>>

DeadLetter(w) ==
  /\ pc[w] = "deadLetter"
  /\ settled' = settled \cup {Msg(w)}
  /\ Goto(w, "commit")
  /\ UNCHANGED <<log, committed, assigned, pos, hand, attempt, canceled, calm>>

\* Mutant of DeadLetterFails: the error is logged and the loop goes on.
DeadLetterFailsAndGoesOn(w) ==
  /\ pc[w] = "deadLetter"
  /\ canceled[w] \/ ~calm
  /\ Goto(w, "commit")
  /\ UNCHANGED <<log, committed, assigned, pos, hand, attempt, canceled, settled, calm>>

\* The write fails, or is written although the error says it is not: Run
\* returns without a commit.
DeadLetterFails(w) ==
  /\ pc[w] = "deadLetter"
  /\ canceled[w] \/ ~calm
  /\ settled' \in {settled, settled \cup {Msg(w)}}
  /\ Exit(w)

CommitMessages(w) ==
  /\ pc[w] = "commit"
  /\ committed' = [committed EXCEPT ![hand[w].part] = hand[w].offset + 1]
  /\ hand' = [hand EXCEPT ![w] = NoMessage]
  /\ Goto(w, "fetch")
  /\ UNCHANGED <<log, assigned, pos, attempt, canceled, settled, calm>>

\* The error is logged; the next message is fetched all the same.
CommitFails(w) ==
  /\ pc[w] = "commit"
  /\ canceled[w] \/ ~calm
  /\ hand' = [hand EXCEPT ![w] = NoMessage]
  /\ Goto(w, "fetch")
  /\ UNCHANGED <<log, committed, assigned, pos, attempt, canceled, settled, calm>>

----------------------------------------------------------------------------
\* SIGINT or SIGTERM.
Cancel(w) ==
  /\ pc[w] # "down"
  /\ ~canceled[w]
  /\ ~calm
  /\ canceled' = [canceled EXCEPT ![w] = TRUE]
  /\ UNCHANGED <<log, committed, assigned, pos, pc, hand, attempt, settled, calm>>

\* The process dies, or main stops waiting for Run after ten seconds.
Crash(w) ==
  /\ pc[w] # "down"
  /\ ~calm \/ canceled[w]
  /\ Exit(w)
  /\ UNCHANGED settled

CalmDown ==
  /\ ~calm
  /\ calm' = TRUE
  /\ UNCHANGED <<log, committed, assigned, pos, pc, hand, attempt, canceled, settled>>

RunStep(w) ==
  \/ \E p \in Partitions : FetchMessage(w, p)
  \/ FetchCanceled(w)
  \/ HandleOk(w) \/ HandleError(w)
  \/ Backoff(w) \/ BackoffCanceled(w)
  \/ DeadLetter(w)
  \/ CommitMessages(w)

Fault(w) == FetchFails(w) \/ DeadLetterFails(w) \/ CommitFails(w) \/ Cancel(w) \/ Crash(w)

\* What the workers and the group do; a Publish is the API's.
GroupNext ==
  \/ \E w \in Workers :
       \/ Start(w)
       \/ \E p \in Partitions : Assign(p, w) \/ Lose(p, w)
       \/ RunStep(w)
       \/ Fault(w)
  \/ CalmDown

Next == (\E key \in Keys, p \in Partitions : Publish(key, p)) \/ GroupNext

Spec == Init /\ [][Next]_vars

\* Fairness: the process supervisor restarts a worker, the group finds a
\* reader for a partition, Run goes on, and faults come to an end.
Fairness ==
  /\ \A w \in Workers : WF_vars(Start(w)) /\ WF_vars(RunStep(w))
  /\ \A p \in Partitions : WF_vars(assigned[p] = None /\ \E w \in Workers : Assign(p, w))
  /\ WF_vars(CalmDown)

FairSpec == Spec /\ Fairness

----------------------------------------------------------------------------
Promise == INSTANCE Delivery WITH
  published <- [p \in Partitions |-> Len(log[p])],
  settled   <- settled

\* Run, with its retries, dead letters, failed commits, shutdowns, crashes and
\* rebalances, keeps the promise of Delivery.
DeliverySpec == Promise!Spec

\* Every variable keeps its shape, and a worker counts at most three attempts.
TypeOK ==
  /\ log \in [Partitions -> Seq(Keys)]
  /\ \A p \in Partitions : Len(log[p]) <= MaxLog
  /\ committed \in [Partitions -> Offsets]
  /\ assigned \in [Partitions -> Workers \cup {None}]
  /\ pos \in [Workers -> [Partitions -> Offsets \cup {None}]]
  /\ pc \in [Workers -> At]
  /\ hand \in [Workers -> Message \cup {NoMessage}]
  /\ attempt \in [Workers -> 0..MaxAttempts]
  /\ canceled \in [Workers -> BOOLEAN]
  /\ settled \subseteq Partitions \X Offsets
  /\ calm \in BOOLEAN

\* At least once: an offset is committed only past messages that were handled
\* or are on the dead letter topic, whoever held them and whatever failed.
AtLeastOnce ==
  \A p \in Partitions : \A j \in 0..(committed[p] - 1) : <<p, j>> \in settled

\* A worker never works at a message of a partition while an earlier one of
\* that partition is not settled.
InOrder ==
  \A w \in Workers :
    pc[w] \in Holding => \A j \in 0..(hand[w].offset - 1) : <<hand[w].part, j>> \in settled

\* A reader passes over nothing: what lies before its position is settled, or
\* its worker has it in hand, also where two readers overlap on a partition.
NothingSkipped ==
  \A w \in Workers, p \in Partitions :
    pos[w][p] # None =>
      \A j \in 0..(pos[w][p] - 1) :
        <<p, j>> \in settled \/ (pc[w] \in Holding /\ Msg(w) = <<p, j>>)

\* The events of one file lie on one partition, so that they are read in the
\* order they were published: what the comment at Publish says of the key.
KeyKeepsPartition ==
  \A p, q \in Partitions : \A i \in 1..Len(log[p]), j \in 1..Len(log[q]) :
    log[p][i] = log[q][j] => p = q

\* Once faults come to an end, every message published is handled or dead-
\* lettered: none is forgotten and none blocks the ones behind it.
EventuallySettled ==
  \A p \in Partitions : \A k \in 0..(MaxLog - 1) :
    k < Len(log[p]) ~> <<p, k>> \in settled

\* A worker that got the signal stops.
StopsAfterSignal ==
  \A w \in Workers : canceled[w] ~> pc[w] = "down"
=============================================================================
