-------------------------- MODULE DocumentsProgress ------------------------
(* How long a request of Documents can go on: the safety half of           *)
(* RequestsEnd, for every part count.                                      *)
EXTENDS DocumentsProofs

\* The store calls a request has left at most.  A completion of n parts reads n
\* bits, composes, marks the row, removes n parts, clears the bitmap and
\* publishes; call[r].i is the round of the loop it is in.
Left(r) ==
  LET n == call[r].n
      i == call[r].i
  IN  CASE pc[r] = "checkPart"     -> (n - i) + n + 4
        [] pc[r] = "compose"       -> n + 4
        [] pc[r] = "markMerged"    -> n + 3
        [] pc[r] = "removePart"    -> (n - i) + 2
        [] pc[r] = "clear"         -> 2
        [] pc[r] = "publishIngest" -> 1
        [] pc[r] = "putPart"       -> 2
        [] pc[r] = "markPart"      -> 1
        [] pc[r] = "create"        -> 1
        [] pc[r] = "softDelete"    -> 2
        [] pc[r] = "publishDelete" -> 1
        [] pc[r] = "idle"          -> 0

\* Every store call brings its request nearer to its end, and nothing anybody
\* does takes a request further away from it.
CallsRunOut ==
  [][\A r \in Reqs : /\ Step(r) => Left(r)' < Left(r)
                     /\ pc[r] # "idle" => Left(r)' <= Left(r)]_vars

\* A completion of n parts is never more than 2n + 4 store calls from its end,
\* any other request never more than two.
CallsBounded ==
  \A r \in Reqs :
    Left(r) \in 0..(IF pc[r] \in CompleteAt THEN 2 * call[r].n + 4 ELSE 2)

----------------------------------------------------------------------------
USE DEF At, InitiateAt, PartAt, CompleteAt, DeleteAt

\* What a request remembers while it goes through the parts.
LEMMA Rounds ==
  ASSUME Shape, NEW r \in Reqs
  PROVE  /\ pc[r] \in At /\ call[r] \in Call
         /\ call[r].n \in 0..MaxParts /\ call[r].i \in 0..MaxParts
         /\ pc[r] \in CompleteAt => call[r].n \in 1..MaxParts /\ call[r].i < call[r].n
  BY DEF Shape, TypeOK, CallOK, Call

\* The rank of a request is bounded by the part count it came with.
LEMMA LeftType ==
  ASSUME Shape, NEW r \in Reqs
  PROVE  /\ Left(r) \in Nat
         /\ Left(r) \in 0..(IF pc[r] \in CompleteAt THEN 2 * call[r].n + 4 ELSE 2)
  <1> DEFINE n == call[r].n
             i == call[r].i
  <1>1. /\ pc[r] \in At /\ n \in Nat /\ i \in Nat
        /\ pc[r] \in CompleteAt => i < n
    BY Rounds, MaxPartsAssumption
  <1>2. \/ pc[r] = "checkPart" /\ Left(r) = (n - i) + n + 4
        \/ pc[r] = "compose" /\ Left(r) = n + 4
        \/ pc[r] = "markMerged" /\ Left(r) = n + 3
        \/ pc[r] = "removePart" /\ Left(r) = (n - i) + 2
        \/ Left(r) \in {0, 1, 2}
    BY <1>1 DEF Left, n, i
  <1> HIDE DEF n, i
  <1>3. Left(r) \in Nat /\ Left(r) \in 0..(IF pc[r] \in CompleteAt THEN 2 * n + 4 ELSE 2)
    BY <1>1, <1>2
  <1> QED BY <1>3 DEF n

\* A round of a loop over the parts: the next one, or what comes after.
LEMMA Round ==
  ASSUME Shape, NEW r \in Reqs, NEW after \in At, LoopOrGoto(r, after)
  PROVE  /\ call'[r].n = call[r].n
         /\ \/ /\ call[r].i + 1 < call[r].n
               /\ pc'[r] = pc[r] /\ call'[r].i = call[r].i + 1
            \/ /\ ~(call[r].i + 1 < call[r].n)
               /\ pc'[r] = after /\ call'[r].i = 0
  <1>1. pc \in [Reqs -> At] /\ call \in [Reqs -> Call]
    BY DEF Shape, TypeOK
  <1>2. call[r] \in Call
    BY <1>1
  <1> QED BY <1>1, <1>2 DEF LoopOrGoto, Call

\* Every store call lowers the rank of its request.
LEMMA StepNearer ==
  ASSUME Shape, NEW r \in Reqs, Step(r)
  PROVE  Left(r)' \in Nat /\ Left(r)' < Left(r)
  <1> DEFINE n == call[r].n
             i == call[r].i
  <1>1. /\ n \in Nat /\ i \in Nat
        /\ pc[r] \in CompleteAt => i < n
        /\ TypeOK
    BY Rounds, MaxPartsAssumption DEF Shape
  <1>2. ASSUME Finish(r), pc[r] # "idle" PROVE Left(r)' \in Nat /\ Left(r)' < Left(r)
    <2>1. pc'[r] = "idle"
      BY <1>1, <1>2 DEF Finish, TypeOK
    <2>2. Left(r)' = 0
      BY <2>1 DEF Left
    <2>3. Left(r) > 0
      BY <1>1, <1>2, Rounds DEF Left
    <2> QED BY <2>2, <2>3, LeftType, MaxPartsAssumption
  <1>3. CASE \/ \E d \in DocIds : CreateDocument(r, d)
             \/ CreateConflict(r) \/ MarkPart(r) \/ PartsIncomplete(r) \/ ComposeMissingPart(r)
             \/ PublishIngest(r) \/ PublishDelete(r)
    BY <1>2, <1>3 DEF CreateDocument, CreateConflict, MarkPart, PartsIncomplete,
       ComposeMissingPart, PublishIngest, PublishDelete, Acknowledge
  <1>4. CASE PutPart(r) \/ ComposeMerged(r) \/ SoftDelete(r) \/ Clear(r) \/ ClearFails(r)
    <2>1. /\ call'[r] = call[r]
          /\ \/ pc[r] = "putPart" /\ pc'[r] = "markPart"
             \/ pc[r] = "compose" /\ pc'[r] = "markMerged"
             \/ pc[r] = "softDelete" /\ pc'[r] = "publishDelete"
             \/ pc[r] = "clear" /\ pc'[r] = "publishIngest"
      BY <1>1, <1>4 DEF PutPart, ComposeMerged, SoftDelete, Clear, ClearFails, Goto, TypeOK
    <2> QED BY <1>1, <2>1 DEF Left
  <1>5. CASE MarkMerged(r)
    <2>1. call'[r] = call[r] /\ pc[r] = "markMerged" /\ pc'[r] = "removePart"
      BY <1>1, <1>5 DEF MarkMerged, Goto, TypeOK
    <2>2. Left(r) = n + 3 /\ Left(r)' = (n - i) + 2
      BY <2>1 DEF Left
    <2> QED BY <1>1, <2>1, <2>2
  <1>6. CASE CheckPart(r)
    <2>1. pc[r] = "checkPart" /\ LoopOrGoto(r, "compose")
      BY <1>6 DEF CheckPart
    <2>2. Left(r) = (n - i) + n + 4
      BY <2>1 DEF Left
    <2>3. CASE i + 1 < n
      <3>1. call'[r].n = n /\ call'[r].i = i + 1 /\ pc'[r] = "checkPart"
        BY <2>1, <2>3, Round
      <3>2. Left(r)' = (n - (i + 1)) + n + 4
        BY <3>1 DEF Left
      <3> QED BY <1>1, <2>1, <2>2, <2>3, <3>2
    <2>4. CASE ~(i + 1 < n)
      <3>1. call'[r].n = n /\ pc'[r] = "compose"
        BY <2>1, <2>4, Round
      <3>2. Left(r)' = n + 4
        BY <3>1 DEF Left
      <3> QED BY <1>1, <2>1, <2>2, <3>2
    <2> QED BY <2>3, <2>4
  <1>7. CASE RemovePart(r)
    <2>1. pc[r] = "removePart" /\ LoopOrGoto(r, "clear")
      BY <1>7 DEF RemovePart
    <2>2. Left(r) = (n - i) + 2
      BY <2>1 DEF Left
    <2>3. CASE i + 1 < n
      <3>1. call'[r].n = n /\ call'[r].i = i + 1 /\ pc'[r] = "removePart"
        BY <2>1, <2>3, Round
      <3>2. Left(r)' = (n - (i + 1)) + 2
        BY <3>1 DEF Left
      <3> QED BY <1>1, <2>1, <2>2, <2>3, <3>2
    <2>4. CASE ~(i + 1 < n)
      <3>1. pc'[r] = "clear"
        BY <2>1, <2>4, Round
      <3>2. Left(r)' = 2
        BY <3>1 DEF Left
      <3> QED BY <1>1, <2>1, <2>2, <3>2
    <2> QED BY <2>3, <2>4
  <1>8. CASE RemoveFails(r)
    <2>1. pc[r] = "removePart" /\ pc'[r] = "clear"
      BY <1>1, <1>8 DEF RemoveFails, TypeOK
    <2>2. Left(r) = (n - i) + 2 /\ Left(r)' = 2
      BY <2>1 DEF Left
    <2> QED BY <1>1, <2>1, <2>2
  <1> QED BY <1>3, <1>4, <1>5, <1>6, <1>7, <1>8 DEF Step

\* A request in flight is left as it is, makes its store call, or is over.
LEMMA OnlyItsStep ==
  ASSUME TypeOK, [Next]_vars, NEW q \in Reqs, pc[q] # "idle"
  PROVE  \/ pc'[q] = pc[q] /\ call'[q] = call[q]
         \/ Step(q)
         \/ pc'[q] = "idle"
  <1>1. CASE NewRequest
    BY <1>1 DEF NewRequest, InitiateUpload, UploadPart, CompleteUpload, DeleteDocument,
       CompleteMerged, Accept, TypeOK
  <1>2. ASSUME NEW r \in Reqs, Step(r), r # q
        PROVE  pc'[q] = pc[q] /\ call'[q] = call[q]
    BY <1>2 DEF Step, TypeOK, CreateDocument, CreateConflict, PutPart, MarkPart, CheckPart,
       PartsIncomplete, ComposeMerged, ComposeMissingPart, MarkMerged, RemovePart, RemoveFails,
       Clear, ClearFails, PublishIngest, SoftDelete, PublishDelete, Acknowledge, Finish, Goto,
       LoopOrGoto
  <1>3. CASE Fault
    BY <1>3 DEF Fault, Abandon, PublishUnacked, Expire, Finish, TypeOK
  <1>4. CASE UNCHANGED vars
    BY <1>4 DEF vars
  <1> QED BY <1>1, <1>2, <1>3, <1>4 DEF Next

\* No request goes on for ever: the loops over the parts end, the errors the
\* cleanup drops do not start it over, and no call of another request sends
\* this one back.
THEOREM RequestsRunOut == Spec => CallsRunOut
  <1> DEFINE Nearer == \A r \in Reqs : /\ Step(r) => Left(r)' < Left(r)
                                       /\ pc[r] # "idle" => Left(r)' <= Left(r)
  <1>1. Shape /\ [Next]_vars => [Nearer]_vars
    <2> SUFFICES ASSUME Shape, [Next]_vars, NEW q \in Reqs
                 PROVE  /\ Step(q) => Left(q)' < Left(q)
                        /\ pc[q] # "idle" => Left(q)' <= Left(q)
      OBVIOUS
    <2> TypeOK
      BY DEF Shape
    <2>1. Left(q) \in Int /\ Left(q) >= 0
      BY LeftType, MaxPartsAssumption
    <2>2. CASE Step(q)
      <3>1. Left(q)' \in Nat /\ Left(q)' < Left(q)
        BY <2>2, StepNearer
      <3> QED BY <2>1, <3>1
    <2>3. CASE pc[q] = "idle" /\ ~Step(q)
      BY <2>3
    <2>4. CASE pc'[q] = pc[q] /\ call'[q] = call[q] /\ ~Step(q)
      <3>1. Left(q)' = Left(q)
        BY <2>4 DEF Left
      <3> QED BY <2>1, <2>4, <3>1
    <2>5. CASE pc'[q] = "idle" /\ ~Step(q)
      <3>1. Left(q)' = 0
        BY <2>5 DEF Left
      <3> QED BY <2>1, <2>5, <3>1
    <2> QED BY <2>4, <2>5, <2>2, <2>3, OnlyItsStep
  <1> QED BY <1>1, ShapeInvariant, PTL DEF Spec, CallsRunOut

\* With RequestsRunOut: a completion of n parts makes at most 2n + 4 store calls
\* from the first to its answer, any other request at most two.
THEOREM RequestsAreBounded == Spec => []CallsBounded
  <1>1. Shape => CallsBounded
    BY LeftType DEF CallsBounded
  <1> QED BY <1>1, ShapeInvariant, PTL
=============================================================================
