--------------------------- MODULE ConsumerProofs --------------------------
(* Theorems of Consumer, for every number of partitions, workers and       *)
(* messages.                                                               *)
EXTENDS Consumer, TLAPS

\* The group's offset and every reader's position stay within the log.
WithinLog ==
  /\ \A p \in Partitions : committed[p] <= Len(log[p])
  /\ \A w \in Workers, p \in Partitions :
       pos[w][p] # None => pos[w][p] <= Len(log[p])

\* What a worker knows of the message it holds: it is on the log, and it is
\* settled when it is committed.
Held(w) ==
  pc[w] \in Holding =>
    /\ hand[w] \in Message
    /\ hand[w].offset < Len(log[hand[w].part])
    /\ pc[w] = "commit" => Msg(w) \in settled

\* A message that is about to be tried has tries left, and a worker outside the
\* retry loop has none behind it.
Tries(w) ==
  /\ pc[w] = "handle" => attempt[w] < MaxAttempts
  /\ pc[w] \notin {"handle", "backoff"} => attempt[w] = 0

HandsOK == \A w \in Workers : Held(w) /\ Tries(w)

Shape == TypeOK /\ WithinLog /\ HandsOK

USE DEF At, Holding, Offsets, MaxAttempts

\* The initial state has the shape.
LEMMA InitShape == Init => Shape
  <1> SUFFICES ASSUME Init PROVE Shape
    OBVIOUS
  <1> USE MaxLogAssumption
  <1>1. <<>> \in Seq(Keys) /\ Len(<<>>) = 0
    OBVIOUS
  <1>2. \A p \in Partitions : Len(log[p]) <= MaxLog /\ 0 <= Len(log[p])
    <2> SUFFICES ASSUME NEW p \in Partitions PROVE Len(log[p]) <= MaxLog /\ 0 <= Len(log[p])
      OBVIOUS
    <2>1. log[p] = <<>>
      BY DEF Init
    <2>2. Len(log[p]) = 0
      BY <1>1, <2>1
    <2> QED BY <2>2
  <1>3. log \in [Partitions -> Seq(Keys)]
    BY <1>1 DEF Init
  <1>4. /\ committed \in [Partitions -> Offsets]
        /\ pos \in [Workers -> [Partitions -> Offsets \cup {None}]]
        /\ assigned \in [Partitions -> Workers \cup {None}]
    BY DEF Init, ReadsNothing
  <1>5. /\ pc \in [Workers -> At]
        /\ hand \in [Workers -> Message \cup {NoMessage}]
        /\ attempt \in [Workers -> 0..MaxAttempts]
        /\ canceled \in [Workers -> BOOLEAN]
    BY DEF Init
  <1>6. settled = {} /\ calm = FALSE
    BY DEF Init
  <1>7. TypeOK
    BY <1>2, <1>3, <1>4, <1>5, <1>6 DEF TypeOK
  <1>8. WithinLog
    BY <1>2 DEF Init, WithinLog, ReadsNothing
  <1>9. HandsOK
    BY DEF Init, HandsOK, Held, Tries
  <1> QED BY <1>7, <1>8, <1>9 DEF Shape

\* A worker that leaves the loop keeps the shape.
LEMMA ExitShape ==
  ASSUME Shape, NEW w \in Workers, Exit(w), settled' \subseteq Partitions \X Offsets,
         settled \subseteq settled'
  PROVE  Shape'
  <1> TypeOK /\ WithinLog /\ HandsOK
    BY DEF Shape
  <1>1. TypeOK'
    BY DEF Exit, Goto, TypeOK, NoMessage, ReadsNothing
  <1>2. WithinLog'
    BY DEF Exit, WithinLog, ReadsNothing, TypeOK
  <1>3. HandsOK'
    BY DEF Exit, Goto, HandsOK, Held, Tries, Msg, TypeOK
  <1> QED BY <1>1, <1>2, <1>3 DEF Shape

\* One step keeps the shape.
LEMMA ShapeStep == Shape /\ [Next]_vars => Shape'
  <1> SUFFICES ASSUME Shape, [Next]_vars PROVE Shape'
    OBVIOUS
  <1> TypeOK /\ WithinLog /\ HandsOK
    BY DEF Shape
  <1> USE MaxLogAssumption
  <1>1. ASSUME NEW key \in Keys, NEW p \in Partitions, Publish(key, p) PROVE Shape'
    <2>1. /\ log' = [log EXCEPT ![p] = Append(log[p], key)]
          /\ Len(Append(log[p], key)) = Len(log[p]) + 1
          /\ Append(log[p], key) \in Seq(Keys)
          /\ log[p] \in Seq(Keys)
      BY <1>1 DEF Publish, TypeOK
    <2>2. \A q \in Partitions : Len(log[q]) <= Len(log'[q]) /\ Len(log'[q]) <= MaxLog
      BY <1>1, <2>1 DEF Publish, TypeOK
    <2>3. TypeOK'
      BY <1>1, <2>1, <2>2 DEF Publish, TypeOK
    <2>4. WithinLog'
      <3>1. \A q \in Partitions : Len(log[q]) \in Nat /\ Len(log'[q]) \in Nat
        BY <2>3 DEF TypeOK
      <3> QED BY <1>1, <2>2, <3>1 DEF Publish, WithinLog, TypeOK
    <2>5. HandsOK'
      <3> SUFFICES ASSUME NEW w \in Workers, pc[w] \in Holding
                   PROVE  Held(w)'
        BY <1>1 DEF Publish, HandsOK, Held, Tries
      <3>1. hand[w] \in Message /\ hand[w].offset < Len(log[hand[w].part])
        BY DEF HandsOK, Held, Tries
      <3>2. hand[w].part \in Partitions /\ hand[w].offset \in Nat
        BY <3>1 DEF Message
      <3>3. hand[w].offset < Len(log'[hand[w].part])
        BY <2>2, <2>3, <3>1, <3>2 DEF TypeOK
      <3> QED BY <1>1, <3>1, <3>3 DEF Publish, HandsOK, Held, Tries, Msg
    <2> QED BY <2>3, <2>4, <2>5 DEF Shape
  <1>2. ASSUME NEW w \in Workers, Start(w) PROVE Shape'
    BY <1>2 DEF Start, Goto, Shape, TypeOK, WithinLog, HandsOK, Held, Tries, Msg
  <1>3. ASSUME NEW w \in Workers, NEW p \in Partitions, Assign(p, w) \/ Lose(p, w)
        PROVE  Shape'
    <2>1. UNCHANGED <<log, committed, pc, hand, attempt, canceled, settled, calm>>
      BY <1>3 DEF Assign, Lose
    <2>2. \E k \in Offsets \cup {None} :
            /\ pos' = [pos EXCEPT ![w][p] = k]
            /\ k # None => k <= Len(log[p])
      BY <1>3 DEF Assign, Lose, WithinLog, TypeOK
    <2>3. /\ pos' \in [Workers -> [Partitions -> Offsets \cup {None}]]
          /\ \A v \in Workers, q \in Partitions : pos'[v][q] # None => pos'[v][q] <= Len(log[q])
      BY <2>2 DEF WithinLog, TypeOK
    <2>4. assigned' \in [Partitions -> Workers \cup {None}]
      BY <1>3 DEF Assign, Lose, TypeOK
    <2>5. TypeOK'
      BY <2>1, <2>3, <2>4 DEF TypeOK
    <2>6. WithinLog'
      BY <2>1, <2>3 DEF WithinLog
    <2>7. HandsOK'
      BY <2>1 DEF HandsOK, Held, Tries, Msg
    <2> QED BY <2>5, <2>6, <2>7 DEF Shape
  <1>4. ASSUME NEW w \in Workers, NEW p \in Partitions, FetchMessage(w, p) PROVE Shape'
    <2>1. /\ pos[w][p] \in Nat /\ pos[w][p] < Len(log[p])
          /\ Len(log[p]) \in Nat /\ Len(log[p]) <= MaxLog
      BY <1>4 DEF FetchMessage, TypeOK
    <2>2. [part |-> p, offset |-> pos[w][p]] \in Message
      BY <2>1 DEF Message
    <2>3. pos' \in [Workers -> [Partitions -> Offsets \cup {None}]]
      BY <1>4, <2>1 DEF FetchMessage, TypeOK
    <2>4. hand' \in [Workers -> Message \cup {NoMessage}]
      BY <1>4, <2>2 DEF FetchMessage, TypeOK
    <2>5. TypeOK'
      BY <1>4, <2>3, <2>4 DEF FetchMessage, Goto, TypeOK
    <2>6. WithinLog'
      BY <1>4, <2>1 DEF FetchMessage, WithinLog, TypeOK
    <2>7. HandsOK'
      BY <1>4, <2>1, <2>2 DEF FetchMessage, Goto, HandsOK, Held, Tries, Msg, TypeOK
    <2> QED BY <2>5, <2>6, <2>7 DEF Shape
  <1>5. ASSUME NEW w \in Workers, FetchCanceled(w) \/ FetchFails(w) \/ Crash(w) PROVE Shape'
    BY <1>5, ExitShape DEF FetchCanceled, FetchFails, Crash, TypeOK
  <1>6. ASSUME NEW w \in Workers, pc[w] \in Holding
        PROVE  Msg(w) \in Partitions \X Offsets
    BY <1>6 DEF HandsOK, Held, Message, Msg
  <1>7. ASSUME NEW w \in Workers, HandleOk(w) PROVE Shape'
    <2>1. TypeOK'
      BY <1>6, <1>7 DEF HandleOk, Goto, TypeOK
    <2>2. HandsOK'
      BY <1>7 DEF HandleOk, Goto, HandsOK, Held, Tries, Msg, TypeOK
    <2> QED BY <1>7, <2>1, <2>2 DEF HandleOk, Shape, WithinLog
  <1>8. ASSUME NEW w \in Workers, HandleError(w) PROVE Shape'
    <2>1. attempt[w] \in 0..2
      BY <1>8 DEF HandleError, HandsOK, Held, Tries, TypeOK
    <2>2. TypeOK'
      BY <1>8, <2>1 DEF HandleError, Goto, TypeOK
    <2>3. HandsOK'
      BY <1>8 DEF HandleError, Goto, HandsOK, Held, Tries, Msg, TypeOK
    <2> QED BY <1>8, <2>2, <2>3 DEF HandleError, Shape, WithinLog
  <1>9. ASSUME NEW w \in Workers, Backoff(w) \/ BackoffCanceled(w) PROVE Shape'
    <2>1. /\ pc[w] = "backoff"
          /\ UNCHANGED <<log, committed, assigned, pos, hand, canceled, settled, calm>>
          /\ \/ Goto(w, "handle") /\ attempt[w] < MaxAttempts /\ UNCHANGED attempt
             \/ GiveUp(w)
      BY <1>9 DEF Backoff, BackoffCanceled
    <2>2. CASE Goto(w, "handle") /\ attempt[w] < MaxAttempts /\ UNCHANGED attempt
      <3>1. TypeOK'
        BY <2>1, <2>2 DEF Goto, TypeOK
      <3>2. HandsOK'
        BY <2>1, <2>2 DEF Goto, HandsOK, Held, Tries, Msg, TypeOK
      <3> QED BY <2>1, <3>1, <3>2 DEF Shape, WithinLog
    <2>3. CASE GiveUp(w)
      <3>1. TypeOK'
        BY <2>1, <2>3 DEF GiveUp, Goto, TypeOK
      <3>2. HandsOK'
        BY <2>1, <2>3 DEF GiveUp, Goto, HandsOK, Held, Tries, Msg, TypeOK
      <3> QED BY <2>1, <3>1, <3>2 DEF Shape, WithinLog
    <2> QED BY <2>1, <2>2, <2>3
  <1>10. ASSUME NEW w \in Workers, DeadLetter(w) PROVE Shape'
    <2>1. TypeOK'
      BY <1>6, <1>10 DEF DeadLetter, Goto, TypeOK
    <2>2. HandsOK'
      BY <1>10 DEF DeadLetter, Goto, HandsOK, Held, Tries, Msg, TypeOK
    <2> QED BY <1>10, <2>1, <2>2 DEF DeadLetter, Shape, WithinLog
  <1>11. ASSUME NEW w \in Workers, DeadLetterFails(w) PROVE Shape'
    <2>1. settled' \subseteq Partitions \X Offsets /\ settled \subseteq settled'
      BY <1>6, <1>11 DEF DeadLetterFails, TypeOK
    <2> QED BY <1>11, <2>1, ExitShape DEF DeadLetterFails
  <1>12. ASSUME NEW w \in Workers, CommitMessages(w) PROVE Shape'
    <2>1. /\ hand[w].part \in Partitions
          /\ hand[w].offset \in Nat
          /\ Len(log[hand[w].part]) \in Nat
          /\ hand[w].offset + 1 <= Len(log[hand[w].part])
          /\ Len(log[hand[w].part]) <= MaxLog
      BY <1>12 DEF CommitMessages, HandsOK, Held, Tries, Message, TypeOK
    <2>2. TypeOK'
      BY <1>12, <2>1 DEF CommitMessages, Goto, TypeOK
    <2>3. WithinLog'
      BY <1>12, <2>1 DEF CommitMessages, WithinLog, TypeOK
    <2>4. HandsOK'
      BY <1>12 DEF CommitMessages, Goto, HandsOK, Held, Tries, Msg, TypeOK
    <2> QED BY <2>2, <2>3, <2>4 DEF Shape
  <1>13. ASSUME NEW w \in Workers, CommitFails(w) PROVE Shape'
    BY <1>13 DEF CommitFails, Goto, Shape, TypeOK, WithinLog, HandsOK, Held, Tries, Msg
  <1>14. ASSUME NEW w \in Workers, Cancel(w) PROVE Shape'
    BY <1>14 DEF Cancel, Shape, TypeOK, WithinLog, HandsOK, Held, Tries, Msg
  <1>15. CASE CalmDown
    BY <1>15 DEF CalmDown, Shape, TypeOK, WithinLog, HandsOK, Held, Tries, Msg
  <1>16. CASE UNCHANGED vars
    BY <1>16 DEF vars, Shape, TypeOK, WithinLog, HandsOK, Held, Tries, Msg
  <1> QED
    BY <1>1, <1>2, <1>3, <1>4, <1>5, <1>7, <1>8, <1>9, <1>10, <1>11, <1>12, <1>13, <1>14,
       <1>15, <1>16
    DEF Next, GroupNext, RunStep, Fault

\* Every variable keeps its shape, and no message is tried a fourth time.
THEOREM TypeCorrect == Spec => []TypeOK
  <1>1. Shape => TypeOK
    BY DEF Shape
  <1> QED BY InitShape, ShapeStep, <1>1, PTL DEF Spec

----------------------------------------------------------------------------
\* The three promises hold each other up: a commit is sound because a worker
\* works in order, a fetch is in order because nothing was skipped, and a new
\* reader skips nothing because it starts at a sound commit.
Promises == AtLeastOnce /\ InOrder /\ NothingSkipped

Inv == Shape /\ Promises

\* The initial state keeps the promises.
LEMMA InitPromises == Init => Promises
  BY DEF Init, ReadsNothing, Promises, AtLeastOnce, InOrder, NothingSkipped

\* A step that leaves the offsets and the readers alone, settles no less, and
\* takes a message out of a worker's hand only when it is settled.
LEMMA KeepPromises ==
  ASSUME Promises, UNCHANGED <<committed, pos>>, settled \subseteq settled',
         \A w \in Workers :
           \/ pc[w] \in Holding /\ pc'[w] \in Holding /\ hand'[w] = hand[w]
           \/ pc[w] \notin Holding /\ pc'[w] \notin Holding
           \/ pc[w] \in Holding /\ pc'[w] \notin Holding /\ Msg(w) \in settled
  PROVE  Promises'
  <1>1. AtLeastOnce'
    BY DEF Promises, AtLeastOnce
  <1>2. InOrder'
    BY DEF Promises, InOrder
  <1>3. NothingSkipped'
    BY DEF Promises, NothingSkipped, Msg
  <1> QED BY <1>1, <1>2, <1>3 DEF Promises

\* A worker that leaves the loop, with whatever it holds, breaks no promise.
LEMMA ExitPromises ==
  ASSUME TypeOK, Promises, NEW w \in Workers, Exit(w), settled \subseteq settled'
  PROVE  Promises'
  <1>1. AtLeastOnce'
    BY DEF Exit, Promises, AtLeastOnce
  <1>2. \A v \in Workers : v # w => pc'[v] = pc[v] /\ hand'[v] = hand[v] /\ pos'[v] = pos[v]
    BY DEF Exit, Goto, TypeOK
  <1>3. pc'[w] = "down" /\ \A p \in Partitions : pos'[w][p] = None
    BY DEF Exit, Goto, ReadsNothing, TypeOK
  <1>4. InOrder'
    BY <1>2, <1>3 DEF Promises, InOrder
  <1>5. NothingSkipped'
    BY <1>2, <1>3 DEF Promises, NothingSkipped, Msg
  <1> QED BY <1>1, <1>4, <1>5 DEF Promises

\* One step keeps the promises.
LEMMA PromisesStep == Inv /\ [Next]_vars => Promises'
  <1> SUFFICES ASSUME Inv, [Next]_vars PROVE Promises'
    OBVIOUS
  <1> Shape /\ TypeOK /\ WithinLog /\ HandsOK /\ Promises
    BY DEF Inv, Shape
  <1>1. ASSUME UNCHANGED <<committed, pos, pc, hand, settled>>
        PROVE  Promises'
    BY <1>1 DEF Promises, AtLeastOnce, InOrder, NothingSkipped, Msg
  <1>2. ASSUME NEW key \in Keys, NEW p \in Partitions, Publish(key, p) PROVE Promises'
    BY <1>1, <1>2 DEF Publish
  <1>3. ASSUME NEW w \in Workers, Start(w) PROVE Promises'
    BY <1>3, KeepPromises DEF Start, Goto, TypeOK
  <1>4. ASSUME NEW w \in Workers, NEW p \in Partitions, Assign(p, w) \/ Lose(p, w)
        PROVE  Promises'
    <2>1. AtLeastOnce' /\ InOrder'
      BY <1>4 DEF Assign, Lose, Promises, AtLeastOnce, InOrder, Msg
    <2>2. NothingSkipped'
      <3> SUFFICES ASSUME NEW v \in Workers, NEW q \in Partitions, pos'[v][q] # None,
                          NEW j \in 0..(pos'[v][q] - 1), <<q, j>> \notin settled
                   PROVE  pc[v] \in Holding /\ hand[v].part = q /\ hand[v].offset = j
        BY <1>4 DEF NothingSkipped, Assign, Lose, Msg
      <3>1. CASE pos'[v][q] = pos[v][q]
        BY <3>1 DEF Promises, NothingSkipped, Msg
      <3>2. CASE pos'[v][q] # pos[v][q]
        <4>1. v = w /\ q = p /\ pos'[v][q] = committed[p]
          BY <1>4, <3>2 DEF Assign, Lose, TypeOK
        <4> QED BY <4>1 DEF Promises, AtLeastOnce
      <3> QED BY <3>1, <3>2
    <2> QED BY <2>1, <2>2 DEF Promises
  <1>5. ASSUME NEW w \in Workers, NEW p \in Partitions, FetchMessage(w, p) PROVE Promises'
    <2>1. AtLeastOnce'
      BY <1>5 DEF FetchMessage, Promises, AtLeastOnce
    <2>2. \A v \in Workers : v # w => pc'[v] = pc[v] /\ hand'[v] = hand[v] /\ pos'[v] = pos[v]
      BY <1>5 DEF FetchMessage, Goto, TypeOK
    <2>3. pc'[w] = "handle" /\ hand'[w] = [part |-> p, offset |-> pos[w][p]]
      BY <1>5 DEF FetchMessage, Goto, TypeOK
    <2>4. \A q \in Partitions : pos[w][q] # None =>
            \A j \in 0..(pos[w][q] - 1) : <<q, j>> \in settled
      BY <1>5 DEF FetchMessage, Promises, NothingSkipped
    <2>5. settled' = settled /\ pos[w][p] # None /\ pos[w][p] \in Nat
      BY <1>5 DEF FetchMessage, TypeOK
    <2>6. InOrder'
      BY <2>2, <2>3, <2>4, <2>5 DEF Promises, InOrder
    <2>7. NothingSkipped'
      <3> SUFFICES ASSUME NEW v \in Workers, NEW q \in Partitions, pos'[v][q] # None,
                          NEW j \in 0..(pos'[v][q] - 1), <<q, j>> \notin settled
                   PROVE  pc'[v] \in Holding /\ hand'[v].part = q /\ hand'[v].offset = j
        BY <2>5 DEF NothingSkipped, Msg
      <3>1. CASE v # w
        BY <2>2, <3>1 DEF Promises, NothingSkipped, Msg
      <3>2. CASE v = w
        <4>1. CASE q # p
          <5>1. pos'[w][q] = pos[w][q]
            BY <1>5, <4>1 DEF FetchMessage, TypeOK
          <5> QED BY <2>4, <3>2, <5>1
        <4>2. CASE q = p
          <5>1. pos'[w][p] = pos[w][p] + 1
            BY <1>5 DEF FetchMessage, TypeOK
          <5>2. j = pos[w][p]
            BY <2>4, <2>5, <3>2, <4>2, <5>1
          <5> QED BY <2>3, <3>2, <4>2, <5>2
        <4> QED BY <4>1, <4>2
      <3> QED BY <3>1, <3>2
    <2> QED BY <2>1, <2>6, <2>7 DEF Promises
  <1>6. ASSUME NEW w \in Workers, FetchCanceled(w) \/ FetchFails(w) \/ Crash(w)
        PROVE  Promises'
    BY <1>6, ExitPromises DEF FetchCanceled, FetchFails, Crash
  <1>7. ASSUME NEW w \in Workers,
               HandleOk(w) \/ HandleError(w) \/ Backoff(w) \/ BackoffCanceled(w) \/ DeadLetter(w)
        PROVE  Promises'
    <2>1. \A v \in Workers :
            \/ pc[v] \in Holding /\ pc'[v] \in Holding /\ hand'[v] = hand[v]
            \/ pc[v] \notin Holding /\ pc'[v] \notin Holding
      BY <1>7 DEF HandleOk, HandleError, Backoff, BackoffCanceled, DeadLetter, GiveUp, Goto, TypeOK
    <2>2. UNCHANGED <<committed, pos>> /\ settled \subseteq settled'
      BY <1>7 DEF HandleOk, HandleError, Backoff, BackoffCanceled, DeadLetter
    <2> QED BY <2>1, <2>2, KeepPromises
  <1>8. ASSUME NEW w \in Workers, DeadLetterFails(w) PROVE Promises'
    BY <1>8, ExitPromises DEF DeadLetterFails
  <1>9. ASSUME NEW w \in Workers, pc[w] = "commit", Goto(w, "fetch"),
               UNCHANGED <<pos, settled>>,
               hand' = [hand EXCEPT ![w] = NoMessage]
        PROVE  InOrder' /\ NothingSkipped'
    <2>1. \A v \in Workers : v # w => pc'[v] = pc[v] /\ hand'[v] = hand[v]
      BY <1>9 DEF Goto, TypeOK
    <2>2. pc'[w] = "fetch" /\ settled' = settled /\ Msg(w) \in settled
      BY <1>9 DEF Goto, TypeOK, HandsOK, Held, Tries
    <2>3. InOrder'
      BY <2>1, <2>2 DEF Promises, InOrder
    <2>4. NothingSkipped'
      BY <1>9, <2>1, <2>2 DEF Promises, NothingSkipped, Msg
    <2> QED BY <2>3, <2>4
  <1>10. ASSUME NEW w \in Workers, CommitMessages(w) PROVE Promises'
    <2>1. InOrder' /\ NothingSkipped'
      BY <1>9, <1>10 DEF CommitMessages
    <2>2. hand[w] \in Message /\ Msg(w) \in settled
      BY <1>10 DEF CommitMessages, HandsOK, Held, Tries
    <2>3. \A j \in 0..hand[w].offset : <<hand[w].part, j>> \in settled
      BY <1>10, <2>2 DEF CommitMessages, Promises, InOrder, Msg, Message
    <2>4. AtLeastOnce'
      <3> SUFFICES ASSUME NEW p \in Partitions, NEW j \in 0..(committed'[p] - 1)
                   PROVE  <<p, j>> \in settled
        BY <1>10 DEF CommitMessages, AtLeastOnce
      <3>1. CASE p = hand[w].part
        <4>1. committed'[p] = hand[w].offset + 1 /\ hand[w].offset \in Nat
          BY <1>10, <2>2, <3>1 DEF CommitMessages, TypeOK, Message
        <4> QED BY <2>3, <3>1, <4>1
      <3>2. CASE p # hand[w].part
        BY <1>10, <3>2 DEF CommitMessages, TypeOK, Promises, AtLeastOnce
      <3> QED BY <3>1, <3>2
    <2> QED BY <2>1, <2>4 DEF Promises
  <1>11. ASSUME NEW w \in Workers, CommitFails(w) PROVE Promises'
    <2>1. InOrder' /\ NothingSkipped'
      BY <1>9, <1>11 DEF CommitFails
    <2>2. AtLeastOnce'
      BY <1>11 DEF CommitFails, Promises, AtLeastOnce
    <2> QED BY <2>1, <2>2 DEF Promises
  <1>12. ASSUME NEW w \in Workers, Cancel(w) PROVE Promises'
    BY <1>1, <1>12 DEF Cancel
  <1>13. CASE CalmDown
    BY <1>1, <1>13 DEF CalmDown
  <1>14. CASE UNCHANGED vars
    BY <1>1, <1>14 DEF vars
  <1> QED
    BY <1>2, <1>3, <1>4, <1>5, <1>6, <1>7, <1>8, <1>10, <1>11, <1>12, <1>13, <1>14
    DEF Next, GroupNext, RunStep, Fault

\* The inductive invariant.
THEOREM Invariance == Spec => []Inv
  <1>1. Init => Inv
    BY InitShape, InitPromises DEF Inv
  <1>2. Inv /\ [Next]_vars => Inv'
    BY ShapeStep, PromisesStep DEF Inv
  <1> QED BY <1>1, <1>2, PTL DEF Spec

\* At least once: whatever failed, crashed or was reassigned, an offset is
\* committed only past messages that were handled or dead-lettered.
THEOREM CommitsAreBacked == Spec => []AtLeastOnce
  <1>1. Inv => AtLeastOnce
    BY DEF Inv, Promises
  <1> QED BY <1>1, Invariance, PTL

\* A worker never works ahead of an unsettled message of the same partition.
THEOREM WorksInOrder == Spec => []InOrder
  <1>1. Inv => InOrder
    BY DEF Inv, Promises
  <1> QED BY <1>1, Invariance, PTL

\* A reader passes over nothing, the old one of a partition that has changed
\* hands included: what lies before its position is settled or in its hand.
THEOREM NothingIsSkipped == Spec => []NothingSkipped
  <1>1. Inv => NothingSkipped
    BY DEF Inv, Promises
  <1> QED BY <1>1, Invariance, PTL

----------------------------------------------------------------------------
(* The refinement of Delivery.                                             *)

Published == [p \in Partitions |-> Len(log[p])]

\* A message in hand, and what a worker has settled before it.
LEMMA InHand ==
  ASSUME Inv, NEW w \in Workers, pc[w] \in Holding
  PROVE  \E p \in Partitions : \E k \in 0..(Published[p] - 1) :
           /\ hand[w].part = p /\ hand[w].offset = k
           /\ \A j \in 0..(k - 1) : <<p, j>> \in settled
           /\ pc[w] = "commit" => <<p, k>> \in settled
  <1>1. hand[w] \in Message /\ hand[w].offset < Len(log[hand[w].part])
    BY DEF Inv, Shape, HandsOK, Held, Tries
  <1>2. PICK p \in Partitions, k \in Nat : hand[w].part = p /\ hand[w].offset = k
    BY <1>1 DEF Message
  <1>3. k \in 0..(Published[p] - 1)
    BY <1>1, <1>2 DEF Published, Inv, Shape, TypeOK
  <1>4. \A j \in 0..(k - 1) : <<p, j>> \in settled
    BY <1>2 DEF Inv, Promises, InOrder
  <1>5. pc[w] = "commit" => <<p, k>> \in settled
    BY <1>2 DEF Inv, Shape, HandsOK, Held, Tries, Msg
  <1> QED BY <1>2, <1>3, <1>4, <1>5

\* The initial state is one of Delivery's.
LEMMA DeliveryInit == Init => Promise!Init
  <1> SUFFICES ASSUME Init PROVE Promise!Init
    OBVIOUS
  <1>1. Published = [p \in Partitions |-> 0]
    <2>1. \A p \in Partitions : log[p] = <<>>
      BY DEF Init
    <2> QED BY <2>1 DEF Published
  <1> QED BY <1>1 DEF Init, Promise!Init, Published

\* Every step is a step of Delivery or changes nothing Delivery sees.
LEMMA DeliveryStep == Inv /\ [Next]_vars => [Promise!Next]_(Promise!vars)
  <1> SUFFICES ASSUME Inv, [Next]_vars PROVE Promise!Next \/ UNCHANGED Promise!vars
    OBVIOUS
  <1> TypeOK
    BY DEF Inv, Shape
  <1>1. ASSUME UNCHANGED <<log, committed, settled>> PROVE UNCHANGED Promise!vars
    BY <1>1 DEF Promise!vars
  <1>2. ASSUME NEW key \in Keys, NEW p \in Partitions, Publish(key, p) PROVE Promise!Next
    <2>1. log' = [log EXCEPT ![p] = Append(log[p], key)] /\ Len(Append(log[p], key)) = Len(log[p]) + 1
      BY <1>2 DEF Publish, TypeOK
    <2>2. Published' = [Published EXCEPT ![p] = Published[p] + 1]
      BY <2>1 DEF Published, TypeOK
    <2>3. Promise!Publish(p)
      BY <1>2, <2>2 DEF Publish, Promise!Publish, Published
    <2> QED BY <2>3 DEF Promise!Next
  <1>3. ASSUME NEW w \in Workers, pc[w] \in Holding,
               settled' \in {settled, settled \cup {Msg(w)}},
               UNCHANGED <<log, committed>>
        PROVE  Promise!Next \/ UNCHANGED Promise!vars
    <2>1. PICK p \in Partitions : \E k \in 0..(Published[p] - 1) :
            /\ hand[w].part = p /\ hand[w].offset = k
            /\ \A j \in 0..(k - 1) : <<p, j>> \in settled
      BY <1>3, InHand
    <2>2. PICK k \in 0..(Published[p] - 1) :
            /\ hand[w].part = p /\ hand[w].offset = k
            /\ \A j \in 0..(k - 1) : <<p, j>> \in settled
      BY <2>1
    <2>3. CASE settled' = settled
      BY <1>3, <2>3 DEF Promise!vars
    <2>4. CASE settled' = settled \cup {Msg(w)}
      <3>1. settled' = settled \cup {<<p, k>>} /\ k < Published[p] /\ Published' = Published
        BY <1>3, <2>2, <2>4 DEF Msg, Published, TypeOK
      <3>2. Promise!Settle(p, k)
        BY <1>3, <2>2, <3>1 DEF Promise!Settle, Published
      <3> QED BY <2>2, <3>2 DEF Promise!Next, Published
    <2> QED BY <1>3, <2>3, <2>4
  <1>4. ASSUME NEW w \in Workers, HandleOk(w) \/ DeadLetter(w) \/ DeadLetterFails(w)
        PROVE  Promise!Next \/ UNCHANGED Promise!vars
    <2>1. pc[w] \in Holding /\ UNCHANGED <<log, committed>>
      BY <1>4 DEF HandleOk, DeadLetter, DeadLetterFails, Exit
    <2>2. settled' \in {settled, settled \cup {Msg(w)}}
      BY <1>4 DEF HandleOk, DeadLetter, DeadLetterFails, Exit
    <2> QED BY <1>3, <2>1, <2>2
  <1>5. ASSUME NEW w \in Workers, CommitMessages(w) PROVE Promise!Next
    <2>1. PICK p \in Partitions : \E k \in 0..(Published[p] - 1) :
            /\ hand[w].part = p /\ hand[w].offset = k
            /\ \A j \in 0..(k - 1) : <<p, j>> \in settled
            /\ <<p, k>> \in settled
      BY <1>5, InHand DEF CommitMessages
    <2>2. PICK k \in 0..(Published[p] - 1) :
            /\ hand[w].part = p /\ hand[w].offset = k
            /\ \A j \in 0..(k - 1) : <<p, j>> \in settled
            /\ <<p, k>> \in settled
      BY <2>1
    <2>3. \A j \in 0..k : <<p, j>> \in settled
      BY <2>2
    <2>4. /\ committed' = [committed EXCEPT ![p] = k + 1]
          /\ Published' = Published /\ settled' = settled
          /\ k < Published[p]
      BY <1>5, <2>2 DEF CommitMessages, Published, TypeOK
    <2>5. Promise!Commit(p, k)
      BY <2>3, <2>4 DEF Promise!Commit, Published
    <2> QED BY <2>2, <2>5 DEF Promise!Next, Published
  <1>6. ASSUME NEW w \in Workers, RunStep(w) \/ Fault(w)
        PROVE  Promise!Next \/ UNCHANGED Promise!vars
    <2>1. \/ HandleOk(w) \/ DeadLetter(w) \/ DeadLetterFails(w) \/ CommitMessages(w)
          \/ UNCHANGED <<log, committed, settled>>
      BY <1>6 DEF RunStep, Fault, FetchMessage, FetchCanceled, HandleError, Backoff,
                  BackoffCanceled, FetchFails, CommitFails, Cancel, Crash, Exit
    <2> QED BY <1>1, <1>4, <1>5, <2>1
  <1>7. ASSUME NEW w \in Workers, Start(w) \/ \E p \in Partitions : Assign(p, w) \/ Lose(p, w)
        PROVE  UNCHANGED Promise!vars
    BY <1>1, <1>7 DEF Start, Assign, Lose
  <1>8. CASE CalmDown \/ UNCHANGED vars
    BY <1>1, <1>8 DEF CalmDown, vars
  <1> QED BY <1>2, <1>6, <1>7, <1>8 DEF Next, GroupNext

\* The consumer loop keeps the promise of Delivery.
THEOREM KeepsDelivery == Spec => DeliverySpec
  BY DeliveryInit, DeliveryStep, Invariance, PTL DEF Spec, DeliverySpec, Promise!Spec

----------------------------------------------------------------------------
(* Consequences of the refinement.                                         *)

\* Nothing is settled that was not published.
SettledPublished ==
  \A m \in settled : m[1] \in Partitions /\ m[2] \in 0..(Published[m[1]] - 1)

\* Workers handle and dead-letter messages of the log and nothing else, after
\* crashes, rebalances and late commits too.
THEOREM OnlyPublishedIsSettled == Spec => []SettledPublished
  <1>1. Init => SettledPublished
    BY DEF Init, SettledPublished
  <1>2. Inv /\ SettledPublished /\ [Next]_vars => SettledPublished'
    <2> SUFFICES ASSUME Inv, SettledPublished, [Next]_vars, NEW m \in settled'
                 PROVE  m[1] \in Partitions /\ m[2] \in 0..(Published'[m[1]] - 1)
      BY DEF SettledPublished
    <2>1. Promise!Next \/ UNCHANGED Promise!vars
      BY DeliveryStep
    <2>2. \A p \in Partitions : Published[p] \in Nat
      BY DEF Published, Inv, Shape, TypeOK
    <2>3. ASSUME NEW p \in Partitions, Promise!Publish(p)
          PROVE  m[1] \in Partitions /\ m[2] \in 0..(Published'[m[1]] - 1)
      <3>1. settled' = settled /\ Published' = [Published EXCEPT ![p] = Published[p] + 1]
        BY <2>3 DEF Promise!Publish, Published
      <3>2. m[1] \in Partitions /\ m[2] \in 0..(Published[m[1]] - 1)
        BY <3>1 DEF SettledPublished
      <3>3. Published'[m[1]] \in {Published[m[1]], Published[m[1]] + 1}
        BY <3>1, <3>2 DEF Published
      <3> QED BY <2>2, <3>2, <3>3
    <2>4. ASSUME NEW p \in Partitions, NEW k \in 0..(Published[p] - 1),
                 Promise!Settle(p, k) \/ Promise!Commit(p, k)
          PROVE  m[1] \in Partitions /\ m[2] \in 0..(Published'[m[1]] - 1)
      <3>1. Published' = Published /\ settled' \in {settled, settled \cup {<<p, k>>}}
        BY <2>4 DEF Promise!Settle, Promise!Commit, Published
      <3> QED BY <2>4, <3>1 DEF SettledPublished
    <2>5. CASE UNCHANGED Promise!vars
      BY <2>5 DEF Promise!vars, Published, SettledPublished
    <2> QED BY <2>1, <2>3, <2>4, <2>5 DEF Promise!Next, Published
  <1> QED BY <1>1, <1>2, Invariance, PTL DEF Spec

----------------------------------------------------------------------------
(* How long a message can keep a worker: the safety half of                *)
(* EventuallySettled.                                                      *)

\* The steps a worker has left at most before it fetches again or stops: an
\* attempt is a call of the handler and a pause, then come the dead letter and
\* the commit.
Left(w) ==
  CASE pc[w] = "handle"     -> 2 * (MaxAttempts - attempt[w]) + 2
    [] pc[w] = "backoff"    -> 2 * (MaxAttempts - attempt[w]) + 3
    [] pc[w] = "deadLetter" -> 2
    [] pc[w] = "commit"     -> 1
    [] OTHER                -> 0

\* Every step of Run brings a worker nearer to the end of the message it holds,
\* and nothing that happens around it takes it further away.
AttemptsRunOut ==
  [][\A w \in Workers :
       pc[w] \in Holding => /\ RunStep(w) => Left(w)' < Left(w)
                            /\ Left(w)' <= Left(w)]_vars

\* What a step of a worker does to a message it holds.
LEMMA RunNearer ==
  ASSUME Shape, NEW w \in Workers, pc[w] \in Holding, RunStep(w) \/ Fault(w)
  PROVE  /\ Left(w)' \in Nat
         /\ (pc'[w] = pc[w] /\ attempt'[w] = attempt[w]) \/ Left(w)' < Left(w)
         /\ RunStep(w) => Left(w)' < Left(w)
  <1> DEFINE a == attempt[w]
  <1>1. TypeOK /\ a \in 0..3 /\ (pc[w] = "handle" => a < 3)
    BY DEF Shape, TypeOK, HandsOK, Held, Tries
  <1>2. Left(w) \in Nat /\ Left(w) > 0
    BY <1>1 DEF Left
  <1>3. ASSUME pc'[w] \in {"down", "fetch"} PROVE Left(w)' = 0
    BY <1>3 DEF Left
  <1>4. CASE HandleError(w)
    <2>1. pc[w] = "handle" /\ pc'[w] = "backoff" /\ attempt'[w] = a + 1
      BY <1>1, <1>4 DEF HandleError, Goto, TypeOK
    <2>2. Left(w) = 2 * (3 - a) + 2 /\ Left(w)' = 2 * (3 - (a + 1)) + 3
      BY <2>1 DEF Left
    <2> QED BY <1>1, <2>1, <2>2
  <1>5. CASE Backoff(w)
    <2>1. /\ pc[w] = "backoff"
          /\ a < 3 => pc'[w] = "handle" /\ attempt'[w] = a
          /\ ~(a < 3) => pc'[w] = "deadLetter"
      BY <1>1, <1>5 DEF Backoff, GiveUp, Goto, TypeOK
    <2>2. Left(w) = 2 * (3 - a) + 3
      BY <2>1 DEF Left
    <2>3. CASE a < 3
      <3>1. Left(w)' = 2 * (3 - a) + 2
        BY <2>1, <2>3 DEF Left
      <3> QED BY <1>1, <2>2, <3>1
    <2>4. CASE ~(a < 3)
      <3>1. Left(w)' = 2
        BY <2>1, <2>4 DEF Left
      <3> QED BY <1>1, <2>2, <3>1
    <2> QED BY <2>3, <2>4
  <1>6. CASE HandleOk(w) \/ BackoffCanceled(w) \/ DeadLetter(w)
    <2>1. \/ pc[w] = "handle" /\ pc'[w] = "commit"
          \/ pc[w] = "backoff" /\ pc'[w] = "deadLetter"
          \/ pc[w] = "deadLetter" /\ pc'[w] = "commit"
      BY <1>1, <1>6 DEF HandleOk, BackoffCanceled, DeadLetter, GiveUp, Goto, TypeOK
    <2> QED BY <1>1, <2>1 DEF Left
  <1>7. CASE CommitMessages(w) \/ CommitFails(w)
    <2>1. pc'[w] = "fetch"
      BY <1>1, <1>7 DEF CommitMessages, CommitFails, Goto, TypeOK
    <2> QED BY <1>2, <1>3, <2>1
  <1>8. CASE FetchFails(w) \/ DeadLetterFails(w) \/ Crash(w) \/ FetchCanceled(w)
    <2>1. pc'[w] = "down"
      BY <1>1, <1>8 DEF FetchFails, DeadLetterFails, Crash, FetchCanceled, Exit, Goto, TypeOK
    <2> QED BY <1>2, <1>3, <2>1
  <1>9. CASE Cancel(w)
    <2>1. pc' = pc /\ attempt' = attempt /\ ~RunStep(w)
      BY <1>9, <1>1 DEF Cancel, TypeOK, RunStep, FetchMessage, FetchCanceled, HandleOk,
         HandleError, Backoff, BackoffCanceled, DeadLetter, CommitMessages, Exit
    <2>2. Left(w)' = Left(w)
      BY <2>1 DEF Left
    <2> QED BY <1>2, <2>1, <2>2
  <1>10. ASSUME NEW p \in Partitions, FetchMessage(w, p) PROVE FALSE
    BY <1>10 DEF FetchMessage
  <1> QED BY <1>4, <1>5, <1>6, <1>7, <1>8, <1>9, <1>10 DEF RunStep, Fault

\* A message is never tried for ever: at most three calls of the handler, each
\* with its pause, one dead letter and one commit come between its fetch and
\* the next, whatever the handler returns and whatever happens meanwhile.
THEOREM MessagesTakeFewSteps == Spec => AttemptsRunOut
  <1> DEFINE Nearer == \A w \in Workers :
                         pc[w] \in Holding => /\ RunStep(w) => Left(w)' < Left(w)
                                              /\ Left(w)' <= Left(w)
  <1>1. Shape /\ [Next]_vars => [Nearer]_vars
    <2> SUFFICES ASSUME Shape, [Next]_vars, NEW w \in Workers, pc[w] \in Holding
                 PROVE  (RunStep(w) => Left(w)' < Left(w)) /\ Left(w)' <= Left(w)
      OBVIOUS
    <2>1. Left(w) \in Nat
      <3>1. attempt[w] \in 0..3
        BY DEF Shape, TypeOK
      <3> QED BY <3>1 DEF Left
    <2>2. CASE RunStep(w) \/ Fault(w)
      <3>1. pc'[w] = pc[w] /\ attempt'[w] = attempt[w] => Left(w)' = Left(w)
        BY DEF Left
      <3> QED BY <2>1, <2>2, <3>1, RunNearer
    <2>3. CASE pc'[w] = pc[w] /\ attempt'[w] = attempt[w] /\ ~RunStep(w)
      <3>1. Left(w)' = Left(w)
        BY <2>3 DEF Left
      <3> QED BY <2>1, <2>3, <3>1
    <2>4. ASSUME NEW v \in Workers, v # w, RunStep(v) \/ Fault(v)
          PROVE  pc'[w] = pc[w] /\ attempt'[w] = attempt[w]
      BY <2>4 DEF RunStep, Fault, FetchMessage, FetchCanceled, FetchFails, HandleOk, HandleError,
         Backoff, BackoffCanceled, DeadLetter, DeadLetterFails, CommitMessages, CommitFails,
         Cancel, Crash, Exit, GiveUp, Goto, Shape, TypeOK
    <2>5. ASSUME NEW v \in Workers, Start(v) \/ \E p \in Partitions : Assign(p, v) \/ Lose(p, v)
          PROVE  pc'[w] = pc[w] /\ attempt'[w] = attempt[w]
      BY <2>5 DEF Start, Assign, Lose, Goto, Shape, TypeOK
    <2>6. CASE (\E key \in Keys, p \in Partitions : Publish(key, p)) \/ CalmDown \/ UNCHANGED vars
      BY <2>2, <2>3, <2>6 DEF Publish, CalmDown, vars
    <2> QED BY <2>2, <2>3, <2>4, <2>5, <2>6 DEF Next, GroupNext
  <1>2. Inv => Shape
    BY DEF Inv
  <1> QED BY <1>1, <1>2, Invariance, PTL DEF Spec, AttemptsRunOut
=============================================================================
