-------------------------- MODULE DocumentsProofs --------------------------
(* Theorems of Documents, for every number of users, files, documents,     *)
(* parts and requests in flight.                                           *)
EXTENDS Documents, TLAPS

\* The row a request read is still its row: same document, owner, file, name.
Attached(r) ==
  /\ call[r].id \in DocIds
  /\ call[r].owner \in Owners
  /\ call[r].file \in Files
  /\ call[r].name \in Names
  /\ Exists(call[r].id)
  /\ docs[call[r].id].file = call[r].file
  /\ docs[call[r].id].owner = call[r].owner
  /\ docs[call[r].id].name = call[r].name

\* What a request in flight remembers fits the store call it makes next.
CallOK ==
  \A r \in Reqs :
    /\ pc[r] = "create" => /\ call[r].owner \in Owners
                           /\ call[r].file \in Files
                           /\ call[r].name \in Names
    /\ pc[r] \in PartAt => /\ Attached(r)
                           /\ call[r].i \in Parts
                           /\ call[r].n \in 1..MaxParts
    /\ pc[r] \in CompleteAt => /\ Attached(r)
                               /\ call[r].op = "complete"
                               /\ call[r].n \in 1..MaxParts
                               /\ call[r].i < call[r].n
    /\ pc[r] \in DeleteAt => /\ Attached(r)
                             /\ call[r].op = "delete"

Shape == TypeOK /\ CallOK

USE DEF Parts, UploadStatus, At, InitiateAt, PartAt, CompleteAt, DeleteAt

\* The initial state has the shape.
LEMMA InitShape == Init => Shape
  BY MaxPartsAssumption DEF Init, Shape, TypeOK, CallOK, Call, NoCall, NoRow

\* The helpers every action ends in keep pc and call in shape.
LEMMA FinishType ==
  ASSUME TypeOK, NEW r \in Reqs, Finish(r)
  PROVE  pc' \in [Reqs -> At] /\ call' \in [Reqs -> Call]
  BY MaxPartsAssumption DEF TypeOK, Finish, NoCall, Call

\* Going on to the next store call keeps them.
LEMMA GotoType ==
  ASSUME TypeOK, NEW r \in Reqs, NEW at \in At, Goto(r, at)
  PROVE  pc' \in [Reqs -> At] /\ call' \in [Reqs -> Call]
  BY DEF TypeOK, Goto

\* Accepting a request keeps them.
LEMMA AcceptType ==
  ASSUME TypeOK, NEW r \in Reqs, NEW at \in At, NEW c \in Call, Accept(r, at, c)
  PROVE  TypeOK'
  BY DEF TypeOK, Accept

\* A round of a loop over the parts keeps them.
LEMMA LoopType ==
  ASSUME TypeOK, NEW r \in Reqs, NEW after \in At, LoopOrGoto(r, after)
  PROVE  pc' \in [Reqs -> At] /\ call' \in [Reqs -> Call]
  <1> DEFINE i == IF call[r].i + 1 < call[r].n THEN call[r].i + 1 ELSE 0
  <1>1. call[r] \in Call
    BY DEF TypeOK
  <1>2. i \in 0..MaxParts
    BY <1>1, MaxPartsAssumption DEF Call
  <1>3. [call[r] EXCEPT !.i = i] \in Call
    BY <1>1, <1>2 DEF Call
  <1>4. call' = [call EXCEPT ![r] = [call[r] EXCEPT !.i = i]]
    BY DEF LoopOrGoto
  <1>5. call' \in [Reqs -> Call]
    BY <1>3, <1>4 DEF TypeOK
  <1>6. pc' \in [Reqs -> At]
    BY DEF TypeOK, LoopOrGoto
  <1> QED BY <1>5, <1>6

\* What a request copies of a row it read is a well-formed call.
LEMMA RowCallType ==
  ASSUME TypeOK, NEW o \in Owners, NEW d \in DocIds, OwnedDocAny(o, d),
         NEW op \in {"part", "complete", "delete"},
         NEW n \in 0..MaxParts, NEW i \in 0..MaxParts
  PROVE  RowCall(op, o, d, n, i) \in Call
  <1>1. docs[d] \in Document
    BY DEF TypeOK, OwnedDocAny, Exists, NoRow
  <1> QED BY <1>1 DEF RowCall, Call, Document

\* One step keeps the shape.
LEMMA ShapeStep == Shape /\ [Next]_vars => Shape'
  <1> SUFFICES ASSUME Shape, [Next]_vars
       PROVE  Shape'
    OBVIOUS
  <1> USE MaxPartsAssumption
  <1> TypeOK /\ CallOK
    BY DEF Shape
  <1>1. ASSUME NEW r \in Reqs, NEW o \in Owners, NEW f \in Files, NEW nm \in Names, InitiateUpload(r, o, f, nm)
       PROVE  Shape'
    <2>1. [op |-> "initiate", owner |-> o, id |-> None, file |-> f, name |-> nm,
           n |-> 0, i |-> 0] \in Call
      BY DEF Call
    <2>2. TypeOK'
      BY <1>1, <2>1, AcceptType DEF InitiateUpload
    <2>3. CallOK'
      BY <1>1 DEF InitiateUpload, Accept, TypeOK, CallOK, Attached, Exists, NoCall
    <2> QED BY <2>2, <2>3 DEF Shape
  <1>2. ASSUME NEW o \in Owners, NEW d \in DocIds, CompleteMerged(o, d)
       PROVE  Shape'
    BY <1>2 DEF CompleteMerged, Shape, TypeOK, CallOK, Attached, Exists, Call, NoCall, NoRow, Document
  <1>3. ASSUME NEW r \in Reqs, NEW o \in Owners, NEW d \in DocIds, NEW i \in Parts, NEW n \in Counts, UploadPart(r, o, d, i, n)
       PROVE  Shape'
    <2>1. OwnedDocAny(o, d)
      BY <1>3 DEF UploadPart, OwnedDocAny, OwnedDoc
    <2>2. RowCall("part", o, d, n, i) \in Call
      BY <2>1, RowCallType, CountsAssumption
    <2>3. TypeOK'
      BY <1>3, <2>2, AcceptType DEF UploadPart
    <2>4. CallOK'
      BY <1>3, <2>1, CountsAssumption DEF UploadPart, Accept, RowCall, OwnedDocAny, Shape, TypeOK, CallOK, Attached, Exists, Call, NoCall, NoRow, Document
    <2> QED BY <2>3, <2>4 DEF Shape
  <1>4. ASSUME NEW r \in Reqs, NEW o \in Owners, NEW d \in DocIds, NEW n \in Counts, CompleteUpload(r, o, d, n)
       PROVE  Shape'
    <2>1. OwnedDocAny(o, d)
      BY <1>4 DEF CompleteUpload, OwnedDocAny, OwnedDoc
    <2>2. RowCall("complete", o, d, n, 0) \in Call
      BY <2>1, RowCallType, CountsAssumption
    <2>3. TypeOK'
      BY <1>4, <2>2, AcceptType DEF CompleteUpload
    <2>4. CallOK'
      BY <1>4, <2>1, CountsAssumption DEF CompleteUpload, Accept, RowCall, OwnedDocAny, Shape, TypeOK, CallOK, Attached, Exists, Call, NoCall, NoRow, Document
    <2> QED BY <2>3, <2>4 DEF Shape
  <1>5. ASSUME NEW r \in Reqs, NEW o \in Owners, NEW d \in DocIds, DeleteDocument(r, o, d)
       PROVE  Shape'
    <2>1. OwnedDocAny(o, d)
      BY <1>5 DEF DeleteDocument, OwnedDocAny
    <2>2. RowCall("delete", o, d, 0, 0) \in Call
      BY <2>1, RowCallType, CountsAssumption
    <2>3. TypeOK'
      BY <1>5, <2>2, AcceptType DEF DeleteDocument
    <2>4. CallOK'
      BY <1>5, <2>1, CountsAssumption DEF DeleteDocument, Accept, RowCall, OwnedDocAny, Shape, TypeOK, CallOK, Attached, Exists, Call, NoCall, NoRow, Document
    <2> QED BY <2>3, <2>4 DEF Shape
  <1>6. ASSUME NEW r \in Reqs, NEW d \in DocIds, CreateDocument(r, d)
       PROVE  Shape'
    <2>1. pc' \in [Reqs -> At] /\ call' \in [Reqs -> Call]
      BY <1>6, FinishType DEF CreateDocument
    <2>2. docs' \in [DocIds -> Document \cup {NoRow}]
      BY <1>6 DEF CreateDocument, Shape, TypeOK, CallOK, Attached, Exists, Call, NoCall, NoRow, Document
    <2>3. TypeOK'
      BY <1>6, <2>1, <2>2 DEF CreateDocument, TypeOK
    <2>4. CallOK'
      BY <1>6, NoneAssumption DEF CreateDocument, Finish, Shape, TypeOK, CallOK, Attached, Exists, Call, NoCall, NoRow, Document
    <2> QED BY <2>3, <2>4 DEF Shape
  <1>7. ASSUME NEW r \in Reqs, CreateConflict(r)
       PROVE  Shape'
    <2>1. pc' \in [Reqs -> At] /\ call' \in [Reqs -> Call]
      BY <1>7, FinishType DEF CreateConflict
    <2>3. TypeOK'
      BY <1>7, <2>1 DEF CreateConflict, TypeOK
    <2>4. CallOK'
      BY <1>7, NoneAssumption DEF CreateConflict, Finish, Shape, TypeOK, CallOK, Attached, Exists, Call, NoCall, NoRow, Document
    <2> QED BY <2>3, <2>4 DEF Shape
  <1>8. ASSUME NEW r \in Reqs, PutPart(r)
       PROVE  Shape'
    <2>1. pc' \in [Reqs -> At] /\ call' \in [Reqs -> Call]
      BY <1>8, GotoType DEF PutPart
    <2>2. parts' \in [Files -> [Parts -> 0..MaxParts]]
      BY <1>8 DEF PutPart, Shape, TypeOK, CallOK, Attached, Exists, Call, NoCall, NoRow, Document
    <2>3. TypeOK'
      BY <1>8, <2>1, <2>2 DEF PutPart, TypeOK
    <2>4. CallOK'
      BY <1>8, NoneAssumption DEF PutPart, Goto, Shape, TypeOK, CallOK, Attached, Exists, Call, NoCall, NoRow, Document
    <2> QED BY <2>3, <2>4 DEF Shape
  <1>9. ASSUME NEW r \in Reqs, MarkPart(r)
       PROVE  Shape'
    <2>1. pc' \in [Reqs -> At] /\ call' \in [Reqs -> Call]
      BY <1>9, FinishType DEF MarkPart
    <2>2. progress' \in [Files -> [Owners -> SUBSET Parts]]
      BY <1>9 DEF MarkPart, Shape, TypeOK, CallOK, Attached, Exists, Call, NoCall, NoRow, Document
    <2>3. TypeOK'
      BY <1>9, <2>1, <2>2 DEF MarkPart, TypeOK
    <2>4. CallOK'
      BY <1>9, NoneAssumption DEF MarkPart, Finish, Shape, TypeOK, CallOK, Attached, Exists, Call, NoCall, NoRow, Document
    <2> QED BY <2>3, <2>4 DEF Shape
  <1>10. ASSUME NEW r \in Reqs, CheckPart(r)
       PROVE  Shape'
    <2>1. pc' \in [Reqs -> At] /\ call' \in [Reqs -> Call]
      BY <1>10, LoopType DEF CheckPart
    <2>3. TypeOK'
      BY <1>10, <2>1 DEF CheckPart, TypeOK
    <2>4. CallOK'
      BY <1>10, NoneAssumption DEF CheckPart, LoopOrGoto, Shape, TypeOK, CallOK, Attached, Exists, Call, NoCall, NoRow, Document
    <2> QED BY <2>3, <2>4 DEF Shape
  <1>11. ASSUME NEW r \in Reqs, PartsIncomplete(r)
       PROVE  Shape'
    <2>1. pc' \in [Reqs -> At] /\ call' \in [Reqs -> Call]
      BY <1>11, FinishType DEF PartsIncomplete
    <2>3. TypeOK'
      BY <1>11, <2>1 DEF PartsIncomplete, TypeOK
    <2>4. CallOK'
      BY <1>11, NoneAssumption DEF PartsIncomplete, Finish, Shape, TypeOK, CallOK, Attached, Exists, Call, NoCall, NoRow, Document
    <2> QED BY <2>3, <2>4 DEF Shape
  <1>12. ASSUME NEW r \in Reqs, ComposeMerged(r)
       PROVE  Shape'
    <2>1. pc' \in [Reqs -> At] /\ call' \in [Reqs -> Call]
      BY <1>12, GotoType DEF ComposeMerged
    <2>2. merged' \in [Files -> [Names -> SUBSET (Parts \X (1..MaxParts))]]
      BY <1>12 DEF ComposeMerged, Shape, TypeOK, CallOK, Attached, Exists, Call, NoCall, NoRow, Document, Sources
    <2>3. TypeOK'
      BY <1>12, <2>1, <2>2 DEF ComposeMerged, TypeOK
    <2>4. CallOK'
      BY <1>12, NoneAssumption DEF ComposeMerged, Goto, Shape, TypeOK, CallOK, Attached, Exists, Call, NoCall, NoRow, Document
    <2> QED BY <2>3, <2>4 DEF Shape
  <1>13. ASSUME NEW r \in Reqs, ComposeMissingPart(r)
       PROVE  Shape'
    <2>1. pc' \in [Reqs -> At] /\ call' \in [Reqs -> Call]
      BY <1>13, FinishType DEF ComposeMissingPart
    <2>3. TypeOK'
      BY <1>13, <2>1 DEF ComposeMissingPart, TypeOK
    <2>4. CallOK'
      BY <1>13, NoneAssumption DEF ComposeMissingPart, Finish, Shape, TypeOK, CallOK, Attached, Exists, Call, NoCall, NoRow, Document
    <2> QED BY <2>3, <2>4 DEF Shape
  <1>14. ASSUME NEW r \in Reqs, MarkMerged(r)
       PROVE  Shape'
    <2>1. pc' \in [Reqs -> At] /\ call' \in [Reqs -> Call]
      BY <1>14, GotoType DEF MarkMerged
    <2>2. docs' \in [DocIds -> Document \cup {NoRow}]
      <3>1. docs[call[r].id] \in Document
        BY <1>14 DEF MarkMerged, TypeOK, CallOK, Attached, Exists, NoRow
      <3>2. [docs[call[r].id] EXCEPT !.status = "merged"] \in Document
        BY <3>1 DEF Document
      <3>3. docs' = [docs EXCEPT ![call[r].id] = [docs[call[r].id] EXCEPT !.status = "merged"]]
        BY <1>14 DEF MarkMerged
      <3> QED BY <3>2, <3>3 DEF TypeOK
    <2>3. TypeOK'
      BY <1>14, <2>1, <2>2 DEF MarkMerged, TypeOK
    <2>4. CallOK'
      BY <1>14, NoneAssumption DEF MarkMerged, Goto, Shape, TypeOK, CallOK, Attached, Exists, Call, NoCall, NoRow, Document
    <2> QED BY <2>3, <2>4 DEF Shape
  <1>15. ASSUME NEW r \in Reqs, RemovePart(r)
       PROVE  Shape'
    <2>1. pc' \in [Reqs -> At] /\ call' \in [Reqs -> Call]
      BY <1>15, LoopType DEF RemovePart
    <2>2. parts' \in [Files -> [Parts -> 0..MaxParts]]
      BY <1>15 DEF RemovePart, Shape, TypeOK, CallOK, Attached, Exists, Call, NoCall, NoRow, Document
    <2>3. TypeOK'
      BY <1>15, <2>1, <2>2 DEF RemovePart, TypeOK
    <2>4. CallOK'
      BY <1>15, NoneAssumption DEF RemovePart, LoopOrGoto, Shape, TypeOK, CallOK, Attached, Exists, Call, NoCall, NoRow, Document
    <2> QED BY <2>3, <2>4 DEF Shape
  <1>16. ASSUME NEW r \in Reqs, RemoveFails(r)
       PROVE  Shape'
    <2>1. [call[r] EXCEPT !.i = 0] \in Call
      <3>1. call[r] \in Call
        BY DEF TypeOK
      <3> QED BY <3>1 DEF Call
    <2>2. call' = [call EXCEPT ![r] = [call[r] EXCEPT !.i = 0]]
      BY <1>16 DEF RemoveFails
    <2>3. TypeOK'
      <3>1. call' \in [Reqs -> Call]
        BY <2>1, <2>2 DEF TypeOK
      <3>2. pc' \in [Reqs -> At]
        BY <1>16 DEF RemoveFails, TypeOK
      <3> QED BY <1>16, <3>1, <3>2 DEF RemoveFails, TypeOK
    <2>4. CallOK'
      BY <1>16 DEF RemoveFails, Shape, TypeOK, CallOK, Attached, Exists, Call, NoCall, NoRow, Document
    <2> QED BY <2>3, <2>4 DEF Shape
  <1>17. ASSUME NEW r \in Reqs, Clear(r)
       PROVE  Shape'
    <2>1. pc' \in [Reqs -> At] /\ call' \in [Reqs -> Call]
      BY <1>17, GotoType DEF Clear
    <2>2. progress' \in [Files -> [Owners -> SUBSET Parts]]
      BY <1>17 DEF Clear, Shape, TypeOK, CallOK, Attached, Exists, Call, NoCall, NoRow, Document
    <2>3. TypeOK'
      BY <1>17, <2>1, <2>2 DEF Clear, TypeOK
    <2>4. CallOK'
      BY <1>17, NoneAssumption DEF Clear, Goto, Shape, TypeOK, CallOK, Attached, Exists, Call, NoCall, NoRow, Document
    <2> QED BY <2>3, <2>4 DEF Shape
  <1>18. ASSUME NEW r \in Reqs, ClearFails(r)
       PROVE  Shape'
    <2>1. pc' \in [Reqs -> At] /\ call' \in [Reqs -> Call]
      BY <1>18, GotoType DEF ClearFails
    <2>3. TypeOK'
      BY <1>18, <2>1 DEF ClearFails, TypeOK
    <2>4. CallOK'
      BY <1>18, NoneAssumption DEF ClearFails, Goto, Shape, TypeOK, CallOK, Attached, Exists, Call, NoCall, NoRow, Document
    <2> QED BY <2>3, <2>4 DEF Shape
  <1>19. ASSUME NEW r \in Reqs, PublishIngest(r)
       PROVE  Shape'
    <2>1. pc' \in [Reqs -> At] /\ call' \in [Reqs -> Call]
      BY <1>19, FinishType DEF PublishIngest, Acknowledge
    <2>2. topic' \subseteq Event /\ acked' \subseteq {"complete", "delete"} \X DocIds
      BY <1>19 DEF PublishIngest, Shape, TypeOK, CallOK, Attached, Exists, Call, NoCall, NoRow, Document, Event, IngestEvent, DeleteEvent, Finish, Acknowledge
    <2>3. TypeOK'
      BY <1>19, <2>1, <2>2 DEF PublishIngest, TypeOK
    <2>4. CallOK'
      BY <1>19, NoneAssumption DEF PublishIngest, Acknowledge, Finish, Shape, TypeOK, CallOK, Attached, Exists, Call, NoCall, NoRow, Document
    <2> QED BY <2>3, <2>4 DEF Shape
  <1>20. ASSUME NEW r \in Reqs, SoftDelete(r)
       PROVE  Shape'
    <2>1. pc' \in [Reqs -> At] /\ call' \in [Reqs -> Call]
      BY <1>20, GotoType DEF SoftDelete
    <2>2. docs' \in [DocIds -> Document \cup {NoRow}]
      <3>1. docs[call[r].id] \in Document
        BY <1>20 DEF SoftDelete, TypeOK, CallOK, Attached, Exists, NoRow
      <3>2. [docs[call[r].id] EXCEPT !.deleted = TRUE] \in Document
        BY <3>1 DEF Document
      <3>3. docs' = [docs EXCEPT ![call[r].id] = [docs[call[r].id] EXCEPT !.deleted = TRUE]]
        BY <1>20 DEF SoftDelete
      <3> QED BY <3>2, <3>3 DEF TypeOK
    <2>3. TypeOK'
      BY <1>20, <2>1, <2>2 DEF SoftDelete, TypeOK
    <2>4. CallOK'
      BY <1>20, NoneAssumption DEF SoftDelete, Goto, Shape, TypeOK, CallOK, Attached, Exists, Call, NoCall, NoRow, Document
    <2> QED BY <2>3, <2>4 DEF Shape
  <1>21. ASSUME NEW r \in Reqs, PublishDelete(r)
       PROVE  Shape'
    <2>1. pc' \in [Reqs -> At] /\ call' \in [Reqs -> Call]
      BY <1>21, FinishType DEF PublishDelete, Acknowledge
    <2>2. topic' \subseteq Event /\ acked' \subseteq {"complete", "delete"} \X DocIds
      BY <1>21 DEF PublishDelete, Shape, TypeOK, CallOK, Attached, Exists, Call, NoCall, NoRow, Document, Event, IngestEvent, DeleteEvent, Finish, Acknowledge
    <2>3. TypeOK'
      BY <1>21, <2>1, <2>2 DEF PublishDelete, TypeOK
    <2>4. CallOK'
      BY <1>21, NoneAssumption DEF PublishDelete, Acknowledge, Finish, Shape, TypeOK, CallOK, Attached, Exists, Call, NoCall, NoRow, Document
    <2> QED BY <2>3, <2>4 DEF Shape
  <1>22. ASSUME NEW r \in Reqs, Abandon(r)
       PROVE  Shape'
    <2>1. pc' \in [Reqs -> At] /\ call' \in [Reqs -> Call]
      BY <1>22, FinishType DEF Abandon
    <2>3. TypeOK'
      BY <1>22, <2>1 DEF Abandon, TypeOK
    <2>4. CallOK'
      BY <1>22, NoneAssumption DEF Abandon, Finish, Shape, TypeOK, CallOK, Attached, Exists, Call, NoCall, NoRow, Document
    <2> QED BY <2>3, <2>4 DEF Shape
  <1>23. ASSUME NEW r \in Reqs, PublishUnacked(r)
       PROVE  Shape'
    <2>1. pc' \in [Reqs -> At] /\ call' \in [Reqs -> Call]
      BY <1>23, FinishType DEF PublishUnacked
    <2>2. topic' \subseteq Event /\ acked' \subseteq {"complete", "delete"} \X DocIds
      BY <1>23 DEF PublishUnacked, Shape, TypeOK, CallOK, Attached, Exists, Call, NoCall, NoRow, Document, Event, IngestEvent, DeleteEvent, Finish
    <2>3. TypeOK'
      BY <1>23, <2>1, <2>2 DEF PublishUnacked, TypeOK
    <2>4. CallOK'
      BY <1>23, NoneAssumption DEF PublishUnacked, Finish, Shape, TypeOK, CallOK, Attached, Exists, Call, NoCall, NoRow, Document
    <2> QED BY <2>3, <2>4 DEF Shape
  <1>24. ASSUME NEW f \in Files, NEW o \in Owners, Expire(f, o)
       PROVE  Shape'
    BY <1>24 DEF Expire, Shape, TypeOK, CallOK, Attached, Exists, Call, NoCall, NoRow, Document
  <1>25. CASE UNCHANGED vars
    BY <1>25 DEF vars, Shape, TypeOK, CallOK, Attached, Exists, Call, NoCall, NoRow, Document
  <1> QED
    BY <1>1, <1>2, <1>3, <1>4, <1>5, <1>6, <1>7, <1>8, <1>9, <1>10, <1>11, <1>12, <1>13, <1>14, <1>15, <1>16, <1>17, <1>18, <1>19, <1>20, <1>21, <1>22, <1>23, <1>24, <1>25
    DEF Next, NewRequest, Step, Fault

\* Every variable keeps its shape, and what a request in flight remembers
\* belongs to the row it read.
THEOREM ShapeInvariant == Spec => []Shape
  BY InitShape, ShapeStep, PTL DEF Spec

\* Every variable keeps its shape, with any number of users and requests.
THEOREM TypeCorrect == Spec => []TypeOK
  BY ShapeInvariant, PTL DEF Shape

----------------------------------------------------------------------------
(* What no step takes back.                                                *)

RowsKept ==
  \A d \in DocIds :
    Exists(d) => /\ Exists(d)'
                 /\ docs'[d].file = docs[d].file
                 /\ docs'[d].owner = docs[d].owner
                 /\ docs'[d].name = docs[d].name
                 /\ docs[d].status = "merged" => docs'[d].status = "merged"
                 /\ docs[d].deleted => docs'[d].deleted

ObjectsKept ==
  \A f \in Files, nm \in Names : merged[f][nm] # {} => merged'[f][nm] # {}

\* The steps that write a row, a merged object, an event or an answer; all
\* the others leave those alone.
Quiet == UNCHANGED <<docs, merged, topic, acked>>

Loud ==
  \/ \E o \in Owners, d \in DocIds : CompleteMerged(o, d)
  \/ \E r \in Reqs :
       \/ \E d \in DocIds : CreateDocument(r, d)
       \/ ComposeMerged(r) \/ MarkMerged(r) \/ PublishIngest(r)
       \/ SoftDelete(r) \/ PublishDelete(r) \/ PublishUnacked(r)

\* Every step is quiet or loud.
LEMMA QuietOrLoud == [Next]_vars => Quiet \/ Loud
  <1> SUFFICES ASSUME [Next]_vars PROVE Quiet \/ Loud
    OBVIOUS
  <1>1. CASE NewRequest
    BY <1>1 DEF NewRequest, Quiet, Loud, Accept,
                InitiateUpload, UploadPart, CompleteUpload, DeleteDocument
  <1>2. ASSUME NEW r \in Reqs, Step(r) PROVE Quiet \/ Loud
    <2>1. \/ CreateConflict(r) \/ PutPart(r) \/ MarkPart(r)
          \/ CheckPart(r) \/ PartsIncomplete(r) \/ ComposeMissingPart(r)
          \/ RemovePart(r) \/ RemoveFails(r) \/ Clear(r) \/ ClearFails(r)
          => Quiet
      BY DEF Quiet, CreateConflict, PutPart, MarkPart, CheckPart, PartsIncomplete,
             ComposeMissingPart, RemovePart, RemoveFails, Clear, ClearFails
    <2> QED BY <1>2, <2>1 DEF Step, Loud
  <1>3. CASE Fault
    BY <1>3 DEF Fault, Quiet, Loud, Abandon, Expire
  <1>4. CASE UNCHANGED vars
    BY <1>4 DEF vars, Quiet
  <1> QED BY <1>1, <1>2, <1>3, <1>4 DEF Next

\* Rows only move forward: no step removes one, gives it to another owner,
\* takes merged back or brings a deleted document back.
LEMMA RowsAreKept == Shape /\ [Next]_vars => RowsKept /\ ObjectsKept
  <1> SUFFICES ASSUME Shape, [Next]_vars PROVE RowsKept /\ ObjectsKept
    OBVIOUS
  <1> TypeOK /\ CallOK
    BY DEF Shape
  <1>1. CASE Quiet
    BY <1>1 DEF Quiet, RowsKept, ObjectsKept, Exists
  <1>2. ASSUME NEW r \in Reqs, NEW d \in DocIds, CreateDocument(r, d)
        PROVE  RowsKept /\ ObjectsKept
    BY <1>2 DEF CreateDocument, RowsKept, ObjectsKept, Exists, TypeOK
  <1>3. ASSUME NEW r \in Reqs, ComposeMerged(r)
        PROVE  RowsKept /\ ObjectsKept
    <2>1. RowsKept
      BY <1>3 DEF ComposeMerged, RowsKept, Exists
    <2>2. /\ call[r].n \in 1..MaxParts
          /\ call[r].file \in Files
          /\ call[r].name \in Names
      BY <1>3 DEF ComposeMerged, CallOK, Attached
    <2>3. 0 \in Sources(r)
      BY <2>2, MaxPartsAssumption DEF Sources
    <2>4. {<<i, parts[call[r].file][i]>> : i \in Sources(r)} # {}
      BY <2>3
    <2>5. ObjectsKept
      BY <1>3, <2>2, <2>4 DEF ComposeMerged, ObjectsKept, TypeOK
    <2> QED BY <2>1, <2>5
  <1>4. ASSUME NEW r \in Reqs, MarkMerged(r) \/ SoftDelete(r)
        PROVE  RowsKept /\ ObjectsKept
    <2>1. call[r].id \in DocIds /\ docs[call[r].id] \in Document
      BY <1>4 DEF MarkMerged, SoftDelete, CallOK, Attached, TypeOK, Exists, NoRow
    <2>2. CASE MarkMerged(r)
      BY <2>1, <2>2 DEF MarkMerged, RowsKept, ObjectsKept, Exists, TypeOK, Document
    <2>3. CASE SoftDelete(r)
      BY <2>1, <2>3 DEF SoftDelete, RowsKept, ObjectsKept, Exists, TypeOK, Document
    <2> QED BY <1>4, <2>2, <2>3
  <1>5. CASE docs' = docs /\ merged' = merged
    BY <1>5 DEF RowsKept, ObjectsKept, Exists
  <1>6. ASSUME NEW r \in Reqs, PublishIngest(r) \/ PublishDelete(r) \/ PublishUnacked(r)
        PROVE  docs' = docs /\ merged' = merged
    BY <1>6 DEF PublishIngest, PublishDelete, PublishUnacked
  <1>7. ASSUME NEW o \in Owners, NEW d \in DocIds, CompleteMerged(o, d)
        PROVE  docs' = docs /\ merged' = merged
    BY <1>7 DEF CompleteMerged
  <1> QED
    BY <1>1, <1>2, <1>3, <1>4, <1>5, <1>6, <1>7, QuietOrLoud DEF Loud

----------------------------------------------------------------------------
(* What the calls made so far guarantee to the next one.                   *)

\* Before the row is marked the object is there; before the parts are removed
\* and the event is published the row is marked; before the delete event is
\* published the row is hidden.
Backed(r) ==
  /\ pc[r] = "markMerged" => merged[call[r].file][call[r].name] # {}
  /\ pc[r] \in {"removePart", "clear", "publishIngest"} => docs[call[r].id].status = "merged"
  /\ pc[r] = "publishDelete" => docs[call[r].id].deleted

Backing == \A r \in Reqs : Backed(r)

\* The store call a request makes next, when it rests on an earlier one.
Resting == {"markMerged", "removePart", "clear", "publishIngest", "publishDelete"}

\* The steps that bring a request to such a call.
Bring(r) ==
  \/ ComposeMerged(r) \/ MarkMerged(r)
  \/ RemovePart(r) \/ RemoveFails(r) \/ Clear(r) \/ ClearFails(r)
  \/ SoftDelete(r)

Still(r) == pc'[r] = pc[r] /\ call'[r] = call[r]

\* After a step a request is where it was, or at a call where it relies on no
\* other store, or was brought there by a step of its own.
LEMMA StillOrBrought ==
  ASSUME Shape, [Next]_vars, NEW q \in Reqs
  PROVE  Still(q) \/ pc'[q] \notin Resting \/ Bring(q)
  <1> TypeOK
    BY DEF Shape
  <1>1. CASE NewRequest
    BY <1>1 DEF NewRequest, Still, Resting, Accept, TypeOK, CompleteMerged,
                InitiateUpload, UploadPart, CompleteUpload, DeleteDocument
  <1>2. ASSUME NEW r \in Reqs, Step(r)
        PROVE  Still(q) \/ pc'[q] \notin Resting \/ Bring(q)
    <2>1. CASE Bring(r)
      <3>1. q # r => Still(q)
        BY <2>1 DEF Still, TypeOK, Bring, ComposeMerged, MarkMerged, RemovePart,
                    RemoveFails, Clear, ClearFails, SoftDelete, Goto, LoopOrGoto
      <3> QED BY <2>1, <3>1
    <2>2. ASSUME NEW d \in DocIds, CreateDocument(r, d)
          PROVE  Still(q) \/ pc'[q] \notin Resting
      BY <2>2 DEF Still, Resting, TypeOK, CreateDocument, Finish
    <2>3. CASE \/ CreateConflict(r) \/ MarkPart(r) \/ PartsIncomplete(r)
               \/ ComposeMissingPart(r) \/ PublishIngest(r) \/ PublishDelete(r)
      BY <2>3 DEF Still, Resting, TypeOK, CreateConflict, MarkPart, PartsIncomplete,
                  ComposeMissingPart, PublishIngest, PublishDelete, Acknowledge, Finish
    <2>4. CASE PutPart(r) \/ CheckPart(r)
      BY <2>4 DEF Still, Resting, TypeOK, PutPart, CheckPart, Goto, LoopOrGoto
    <2> QED BY <1>2, <2>1, <2>2, <2>3, <2>4 DEF Step, Bring
  <1>3. CASE Fault
    BY <1>3 DEF Fault, Still, Resting, TypeOK, Abandon, PublishUnacked, Expire, Finish
  <1>4. CASE UNCHANGED vars
    BY <1>4 DEF vars, Still
  <1> QED BY <1>1, <1>2, <1>3, <1>4 DEF Next

\* One step keeps what requests in flight rely on.
LEMMA BackingStep == Shape /\ Backing /\ [Next]_vars => Backing'
  <1> SUFFICES ASSUME Shape, Backing, [Next]_vars, NEW q \in Reqs PROVE Backed(q)'
    BY DEF Backing
  <1> TypeOK /\ CallOK /\ Backed(q)
    BY DEF Shape, Backing
  <1>1. RowsKept /\ ObjectsKept
    BY RowsAreKept
  <1>2. CASE Still(q)
    BY <1>1, <1>2 DEF Still, Backed, CallOK, Attached, RowsKept, ObjectsKept
  <1>3. CASE pc'[q] \notin Resting
    BY <1>3 DEF Resting, Backed
  <1>4. CASE ComposeMerged(q)
    <2>1. /\ call[q].n \in 1..MaxParts
          /\ call[q].file \in Files
          /\ call[q].name \in Names
      BY <1>4 DEF ComposeMerged, CallOK, Attached
    <2>2. 0 \in Sources(q)
      BY <2>1, MaxPartsAssumption DEF Sources
    <2>3. {<<i, parts[call[q].file][i]>> : i \in Sources(q)} # {}
      BY <2>2
    <2>4. pc'[q] = "markMerged" /\ call'[q] = call[q]
      BY <1>4 DEF ComposeMerged, Goto, TypeOK
    <2>5. merged'[call[q].file][call[q].name] # {}
      BY <1>4, <2>1, <2>3 DEF ComposeMerged, TypeOK
    <2> QED BY <2>4, <2>5 DEF Backed
  <1>5. CASE MarkMerged(q)
    <2>1. call[q].id \in DocIds /\ docs[call[q].id] \in Document
      BY <1>5 DEF MarkMerged, CallOK, Attached, TypeOK, Exists, NoRow
    <2>2. pc'[q] = "removePart" /\ call'[q] = call[q]
      BY <1>5 DEF MarkMerged, Goto, TypeOK
    <2>3. docs'[call[q].id].status = "merged"
      BY <1>5, <2>1 DEF MarkMerged, TypeOK, Document
    <2> QED BY <2>2, <2>3 DEF Backed
  <1>6. CASE RemovePart(q) \/ RemoveFails(q) \/ Clear(q) \/ ClearFails(q)
    <2>1. docs[call[q].id].status = "merged" /\ docs' = docs
      BY <1>6 DEF RemovePart, RemoveFails, Clear, ClearFails, Backed
    <2>2. pc'[q] \in {"removePart", "clear", "publishIngest"}
      BY <1>6 DEF RemovePart, RemoveFails, Clear, ClearFails, LoopOrGoto, Goto, TypeOK
    <2>3. call[q] \in Call
      BY DEF TypeOK
    <2>4. call'[q].id = call[q].id
      BY <1>6, <2>3 DEF RemovePart, RemoveFails, Clear, ClearFails, LoopOrGoto, Goto, TypeOK, Call
    <2> QED BY <2>1, <2>2, <2>4 DEF Backed
  <1>7. CASE SoftDelete(q)
    <2>1. call[q].id \in DocIds /\ docs[call[q].id] \in Document
      BY <1>7 DEF SoftDelete, CallOK, Attached, TypeOK, Exists, NoRow
    <2>2. pc'[q] = "publishDelete" /\ call'[q] = call[q]
      BY <1>7 DEF SoftDelete, Goto, TypeOK
    <2>3. docs'[call[q].id].deleted
      BY <1>7, <2>1 DEF SoftDelete, TypeOK, Document
    <2> QED BY <2>2, <2>3 DEF Backed
  <1> QED
    BY <1>2, <1>3, <1>4, <1>5, <1>6, <1>7, StillOrBrought DEF Bring

----------------------------------------------------------------------------
(* Where a merged row, an event and an answer come from.                   *)

\* A row becomes merged only by MarkMerged of a request for it.
LEMMA NewlyMerged ==
  ASSUME Shape, [Next]_vars, NEW d \in DocIds,
         docs'[d].status = "merged", docs[d].status # "merged"
  PROVE  \E r \in Reqs : MarkMerged(r) /\ call[r].id = d
  <1> TypeOK /\ CallOK
    BY DEF Shape
  <1>1. ~Quiet
    BY DEF Quiet
  <1>2. ASSUME NEW r \in Reqs, NEW e \in DocIds, CreateDocument(r, e) PROVE FALSE
    BY <1>2 DEF CreateDocument, TypeOK
  <1>3. ASSUME NEW r \in Reqs, MarkMerged(r) PROVE call[r].id = d
    BY <1>3 DEF MarkMerged, TypeOK
  <1>4. ASSUME NEW r \in Reqs, SoftDelete(r) PROVE FALSE
    <2>1. call[r].id \in DocIds /\ docs[call[r].id] \in Document
      BY <1>4 DEF SoftDelete, CallOK, Attached, TypeOK, Exists, NoRow
    <2> QED BY <1>4, <2>1 DEF SoftDelete, TypeOK, Document
  <1>5. ASSUME NEW r \in Reqs,
               ComposeMerged(r) \/ PublishIngest(r) \/ PublishDelete(r) \/ PublishUnacked(r)
        PROVE  FALSE
    BY <1>5 DEF ComposeMerged, PublishIngest, PublishDelete, PublishUnacked
  <1>6. ASSUME NEW o \in Owners, NEW e \in DocIds, CompleteMerged(o, e) PROVE FALSE
    BY <1>6 DEF CompleteMerged
  <1> QED
    BY <1>1, <1>2, <1>3, <1>4, <1>5, <1>6, QuietOrLoud DEF Loud

\* An event reaches the topic only from a request at its publish call.
LEMMA NewEvent ==
  ASSUME [Next]_vars, NEW e \in topic', e \notin topic
  PROVE  \E r \in Reqs :
           \/ pc[r] = "publishIngest" /\ e = IngestEvent(call[r])
           \/ pc[r] = "publishDelete" /\ e = DeleteEvent(call[r])
  <1>1. ~Quiet
    BY DEF Quiet
  <1>2. ASSUME NEW r \in Reqs,
               \/ \E d \in DocIds : CreateDocument(r, d)
               \/ ComposeMerged(r) \/ MarkMerged(r) \/ SoftDelete(r)
        PROVE  FALSE
    BY <1>2 DEF CreateDocument, ComposeMerged, MarkMerged, SoftDelete
  <1>3. ASSUME NEW o \in Owners, NEW d \in DocIds, CompleteMerged(o, d) PROVE FALSE
    BY <1>3 DEF CompleteMerged
  <1>4. ASSUME NEW r \in Reqs, PublishIngest(r) \/ PublishDelete(r) \/ PublishUnacked(r)
        PROVE  \/ pc[r] = "publishIngest" /\ e = IngestEvent(call[r])
               \/ pc[r] = "publishDelete" /\ e = DeleteEvent(call[r])
    BY <1>4 DEF PublishIngest, PublishDelete, PublishUnacked
  <1> QED BY <1>1, <1>2, <1>3, <1>4, QuietOrLoud DEF Loud

\* A success is answered only by a publish or for a row that is merged.
LEMMA NewAnswer ==
  ASSUME Shape, [Next]_vars, NEW a \in acked', a \notin acked
  PROVE  \/ \E o \in Owners, d \in DocIds : CompleteMerged(o, d) /\ a = <<"complete", d>>
         \/ \E r \in Reqs : PublishIngest(r) /\ a = <<"complete", call[r].id>>
         \/ \E r \in Reqs : PublishDelete(r) /\ a = <<"delete", call[r].id>>
  <1> CallOK
    BY DEF Shape
  <1>1. ~Quiet
    BY DEF Quiet
  <1>2. ASSUME NEW r \in Reqs,
               \/ \E d \in DocIds : CreateDocument(r, d)
               \/ ComposeMerged(r) \/ MarkMerged(r) \/ SoftDelete(r) \/ PublishUnacked(r)
        PROVE  FALSE
    BY <1>2 DEF CreateDocument, ComposeMerged, MarkMerged, SoftDelete, PublishUnacked
  <1>3. ASSUME NEW o \in Owners, NEW d \in DocIds, CompleteMerged(o, d)
        PROVE  a = <<"complete", d>>
    BY <1>3 DEF CompleteMerged
  <1>4. ASSUME NEW r \in Reqs, PublishIngest(r) PROVE a = <<"complete", call[r].id>>
    BY <1>4 DEF PublishIngest, Acknowledge, CallOK
  <1>5. ASSUME NEW r \in Reqs, PublishDelete(r) PROVE a = <<"delete", call[r].id>>
    BY <1>5 DEF PublishDelete, Acknowledge, CallOK
  <1> QED BY <1>1, <1>2, <1>3, <1>4, <1>5, QuietOrLoud DEF Loud

\* Events and answers are never taken back.
LEMMA LogsKept == [Next]_vars => topic \subseteq topic' /\ acked \subseteq acked'
  <1> SUFFICES ASSUME [Next]_vars PROVE topic \subseteq topic' /\ acked \subseteq acked'
    OBVIOUS
  <1>1. CASE Quiet
    BY <1>1 DEF Quiet
  <1>2. CASE Loud
    BY <1>2 DEF Loud, CompleteMerged, CreateDocument, ComposeMerged, MarkMerged,
                PublishIngest, SoftDelete, PublishDelete, PublishUnacked, Acknowledge
  <1> QED BY <1>1, <1>2, QuietOrLoud

----------------------------------------------------------------------------
(* The safety properties, together with what they rest on.                 *)

Promises ==
  /\ RowUnique
  /\ MergedBacked
  /\ IngestEventBacked
  /\ DeleteEventBacked
  /\ DeleteAcked
  /\ CompleteAcked

Inv == Shape /\ Backing /\ Promises

\* The initial state satisfies the inductive invariant.
LEMMA InitInv == Init => Inv
  <1> SUFFICES ASSUME Init PROVE Inv
    OBVIOUS
  <1>1. Shape
    BY InitShape
  <1>2. Backing
    BY DEF Init, Backing, Backed
  <1>3. Promises
    BY DEF Init, Promises, RowUnique, MergedBacked, IngestEventBacked, DeleteEventBacked,
           DeleteAcked, CompleteAcked, Exists, NoRow
  <1> QED BY <1>1, <1>2, <1>3 DEF Inv

\* A deleted row is a row.
LEMMA DeletedExists ==
  ASSUME TypeOK, NEW d \in DocIds, docs[d].deleted
  PROVE  Exists(d)
  <1>1. docs[d] # NoRow
    <2> SUFFICES ASSUME docs[d] = NoRow PROVE FALSE
      OBVIOUS
    <2>1. NoRow.deleted = FALSE
      BY DEF NoRow
    <2> QED BY <2>1
  <1>2. docs[d] \in Document
    BY <1>1 DEF TypeOK
  <1> QED BY <1>2 DEF Document, Exists

\* One step keeps rows unique: Create looks at the key it takes.
LEMMA RowUniqueStep == Inv /\ [Next]_vars => RowUnique'
  <1> SUFFICES ASSUME Inv, [Next]_vars PROVE RowUnique'
    OBVIOUS
  <1> Shape /\ TypeOK /\ RowUnique
    BY DEF Inv, Shape, Promises
  <1>1. RowsKept
    BY RowsAreKept
  <1>2. CASE \A d \in DocIds : Exists(d)' => Exists(d)
    BY <1>1, <1>2 DEF RowUnique, RowsKept
  <1>3. ASSUME NEW r \in Reqs, NEW d \in DocIds, CreateDocument(r, d)
        PROVE  RowUnique'
    BY <1>3 DEF CreateDocument, RowUnique, KeyTaken, OwnedDocAny, Exists, TypeOK
  <1>4. ASSUME NEW r \in Reqs, MarkMerged(r) \/ SoftDelete(r)
        PROVE  \A d \in DocIds : Exists(d)' => Exists(d)
    <2>1. Exists(call[r].id)
      BY <1>4 DEF MarkMerged, SoftDelete, Shape, CallOK, Attached
    <2> QED BY <1>4, <2>1 DEF MarkMerged, SoftDelete, Exists, TypeOK
  <1>5. CASE docs' = docs
    BY <1>2, <1>5 DEF Exists
  <1>6. CASE Loud
    BY <1>2, <1>3, <1>4, <1>5, <1>6
    DEF Loud, CompleteMerged, ComposeMerged, PublishIngest, PublishDelete, PublishUnacked
  <1> QED BY <1>5, <1>6, QuietOrLoud DEF Quiet

\* One step keeps an object behind every merged row.
LEMMA MergedBackedStep == Inv /\ [Next]_vars => MergedBacked'
  <1> SUFFICES ASSUME Inv, [Next]_vars, NEW d \in DocIds, docs'[d].status = "merged"
               PROVE  merged'[docs'[d].file][docs'[d].name] # {}
    BY DEF MergedBacked
  <1> Shape /\ TypeOK /\ CallOK /\ Backing /\ MergedBacked
    BY DEF Inv, Shape, Promises
  <1>1. RowsKept /\ ObjectsKept
    BY RowsAreKept
  <1>2. CASE docs[d].status = "merged"
    <2>1. Exists(d) /\ docs[d] \in Document
      BY <1>2 DEF Exists, TypeOK, NoRow
    <2>2. docs'[d].file = docs[d].file /\ docs'[d].name = docs[d].name
      BY <1>1, <2>1 DEF RowsKept
    <2>3. merged[docs[d].file][docs[d].name] # {}
      BY <1>2 DEF MergedBacked
    <2> QED BY <1>1, <2>1, <2>2, <2>3 DEF ObjectsKept, Document
  <1>3. CASE docs[d].status # "merged"
    <2>1. PICK r \in Reqs : MarkMerged(r) /\ call[r].id = d
      BY <1>3, NewlyMerged
    <2>2. Attached(r)
      BY <2>1 DEF MarkMerged, CallOK
    <2>3. merged[call[r].file][call[r].name] # {}
      BY <2>1 DEF MarkMerged, Backing, Backed
    <2>4. docs'[d].file = call[r].file /\ docs'[d].name = call[r].name
      BY <1>1, <2>1, <2>2 DEF RowsKept, Attached
    <2> QED BY <1>1, <2>2, <2>3, <2>4 DEF ObjectsKept, Attached
  <1> QED BY <1>2, <1>3

\* One step keeps every ingest event true.
LEMMA IngestEventBackedStep == Inv /\ [Next]_vars => IngestEventBacked'
  <1> SUFFICES ASSUME Inv, [Next]_vars, NEW e \in topic', e.type = "ingest"
               PROVE  /\ docs'[e.id].status = "merged"
                      /\ docs'[e.id].file = e.file
                      /\ merged'[e.file][e.name] # {}
    BY DEF IngestEventBacked
  <1> Shape /\ TypeOK /\ CallOK /\ Backing /\ MergedBacked /\ IngestEventBacked
    BY DEF Inv, Shape, Promises
  <1>1. RowsKept /\ ObjectsKept
    BY RowsAreKept
  <1>2. SUFFICES /\ e.id \in DocIds /\ e.file \in Files /\ e.name \in Names
                 /\ docs[e.id].status = "merged"
                 /\ docs[e.id].file = e.file
                 /\ merged[e.file][e.name] # {}
    BY <1>1 DEF RowsKept, ObjectsKept, Exists
  <1>3. CASE e \in topic
    BY <1>3 DEF TypeOK, Event, IngestEventBacked
  <1>4. CASE e \notin topic
    <2>1. PICK r \in Reqs : pc[r] = "publishIngest" /\ e = IngestEvent(call[r])
      BY <1>4, NewEvent DEF DeleteEvent
    <2>2. Attached(r)
      BY <2>1 DEF CallOK
    <2>3. docs[call[r].id].status = "merged"
      BY <2>1 DEF Backing, Backed
    <2>4. merged[call[r].file][call[r].name] # {}
      BY <2>2, <2>3 DEF MergedBacked, Attached
    <2> QED BY <2>1, <2>2, <2>3, <2>4 DEF IngestEvent, Attached
  <1> QED BY <1>3, <1>4

\* One step keeps every delete event true.
LEMMA DeleteEventBackedStep == Inv /\ [Next]_vars => DeleteEventBacked'
  <1> SUFFICES ASSUME Inv, [Next]_vars, NEW e \in topic', e.type = "delete"
               PROVE  docs'[e.id].deleted
    BY DEF DeleteEventBacked
  <1> Shape /\ TypeOK /\ CallOK /\ Backing /\ DeleteEventBacked
    BY DEF Inv, Shape, Promises
  <1>1. RowsKept
    BY RowsAreKept
  <1>2. CASE e \in topic
    <2>1. e.id \in DocIds /\ docs[e.id].deleted
      BY <1>2 DEF TypeOK, Event, DeleteEventBacked
    <2>2. Exists(e.id)
      BY <2>1, DeletedExists
    <2> QED BY <1>1, <2>1, <2>2 DEF RowsKept
  <1>3. CASE e \notin topic
    <2>1. PICK r \in Reqs : pc[r] = "publishDelete" /\ e = DeleteEvent(call[r])
      BY <1>3, NewEvent DEF IngestEvent
    <2>2. Attached(r) /\ docs[call[r].id].deleted
      BY <2>1 DEF CallOK, Backing, Backed
    <2> QED BY <1>1, <2>1, <2>2 DEF DeleteEvent, Attached, RowsKept
  <1> QED BY <1>2, <1>3

\* One step keeps every answer to a delete true.
LEMMA DeleteAckedStep == Inv /\ [Next]_vars => DeleteAcked'
  <1> SUFFICES ASSUME Inv, [Next]_vars, NEW d \in DocIds, <<"delete", d>> \in acked'
               PROVE  /\ docs'[d].deleted
                      /\ \E e \in topic' : e.type = "delete" /\ e.id = d /\ e.file = docs'[d].file
    BY DEF DeleteAcked
  <1> Shape /\ TypeOK /\ CallOK /\ Backing /\ DeleteAcked
    BY DEF Inv, Shape, Promises
  <1>1. RowsKept /\ topic \subseteq topic'
    BY RowsAreKept, LogsKept
  <1>2. CASE <<"delete", d>> \in acked
    <2>1. /\ docs[d].deleted
          /\ \E e \in topic : e.type = "delete" /\ e.id = d /\ e.file = docs[d].file
      BY <1>2 DEF DeleteAcked
    <2>2. Exists(d)
      BY <2>1, DeletedExists
    <2> QED BY <1>1, <2>1, <2>2 DEF RowsKept
  <1>3. CASE <<"delete", d>> \notin acked
    <2>1. PICK r \in Reqs : PublishDelete(r) /\ call[r].id = d
      BY <1>3, NewAnswer
    <2>2. Attached(r) /\ docs[d].deleted
      BY <2>1 DEF PublishDelete, CallOK, Backing, Backed
    <2>3. DeleteEvent(call[r]) \in topic'
      BY <2>1 DEF PublishDelete
    <2>4. docs'[d].deleted /\ docs'[d].file = call[r].file
      BY <1>1, <2>1, <2>2 DEF RowsKept, Attached
    <2> QED BY <2>1, <2>3, <2>4 DEF DeleteEvent
  <1> QED BY <1>2, <1>3

\* One step keeps every answer to a completion true.
LEMMA CompleteAckedStep == Inv /\ [Next]_vars => CompleteAcked'
  <1> SUFFICES ASSUME Inv, [Next]_vars, NEW d \in DocIds, <<"complete", d>> \in acked'
               PROVE  docs'[d].status = "merged"
    BY DEF CompleteAcked
  <1> Shape /\ CallOK /\ Backing /\ CompleteAcked
    BY DEF Inv, Shape, Promises
  <1>1. RowsKept
    BY RowsAreKept
  <1>2. docs[d].status = "merged"
    <2>1. CASE <<"complete", d>> \in acked
      BY <2>1 DEF CompleteAcked
    <2>2. ASSUME NEW o \in Owners, CompleteMerged(o, d) PROVE docs[d].status = "merged"
      BY <2>2 DEF CompleteMerged
    <2>3. ASSUME NEW r \in Reqs, PublishIngest(r), call[r].id = d
          PROVE  docs[d].status = "merged"
      BY <2>3 DEF PublishIngest, Backing, Backed
    <2> QED BY <2>1, <2>2, <2>3, NewAnswer
  <1> QED BY <1>1, <1>2 DEF RowsKept, Exists

\* The inductive invariant.
THEOREM Invariance == Spec => []Inv
  <1>1. Inv /\ [Next]_vars => Inv'
    <2> SUFFICES ASSUME Inv, [Next]_vars PROVE Inv'
      OBVIOUS
    <2>1. Shape' /\ Backing'
      BY ShapeStep, BackingStep DEF Inv
    <2>2. Promises'
      BY RowUniqueStep, MergedBackedStep, IngestEventBackedStep, DeleteEventBackedStep,
         DeleteAckedStep, CompleteAckedStep DEF Promises
    <2> QED BY <2>1, <2>2 DEF Inv
  <1> QED BY InitInv, <1>1, PTL DEF Spec

\* At most one row per user and digest, deleted rows included.
THEOREM OneRowPerUpload == Spec => []RowUnique
  BY Invariance, PTL DEF Inv, Promises

\* A merged row always has its object in the object store.
THEOREM MergedRowHasObject == Spec => []MergedBacked
  BY Invariance, PTL DEF Inv, Promises

\* An ingest event on the topic names a merged row and an object that is there.
THEOREM IngestEventIsGood == Spec => []IngestEventBacked
  BY Invariance, PTL DEF Inv, Promises

\* A delete that was answered with success is done and announced.
THEOREM DeleteAnswerIsTrue == Spec => []DeleteAcked
  BY Invariance, PTL DEF Inv, Promises

----------------------------------------------------------------------------
(* Bits and part objects.                                                  *)

FileMerged(f) == \E d \in DocIds : docs[d].file = f /\ docs[d].status = "merged"

\* Between the two calls of UploadPart the object is there, unless a cleanup
\* of a merged document has taken it already.
MarkExplained ==
  \A r \in Reqs :
    pc[r] = "markPart" =>
      (parts[call[r].file][call[r].i] = 0 => FileMerged(call[r].file))

PartsInv == Shape /\ Backing /\ MarkExplained /\ PartsExplained

\* A part object goes away only by RemovePart.
LEMMA PartTaken ==
  ASSUME Shape, [Next]_vars, NEW f \in Files, NEW i \in Parts,
         parts'[f][i] = 0, parts[f][i] # 0
  PROVE  \E r \in Reqs : RemovePart(r) /\ call[r].file = f
  <1> TypeOK /\ CallOK
    BY DEF Shape
  <1>1. CASE NewRequest
    BY <1>1 DEF NewRequest, Accept, InitiateUpload, UploadPart, CompleteUpload,
                DeleteDocument, CompleteMerged
  <1>2. ASSUME NEW r \in Reqs, Step(r)
        PROVE  RemovePart(r) /\ call[r].file = f
    <2>1. CASE PutPart(r)
      BY <2>1, MaxPartsAssumption DEF PutPart, TypeOK, CallOK, Attached
    <2>2. CASE RemovePart(r)
      BY <2>2 DEF RemovePart, TypeOK
    <2>3. CASE parts' = parts
      BY <2>3
    <2> QED
      BY <1>2, <2>1, <2>2, <2>3
      DEF Step, CreateDocument, CreateConflict, MarkPart, CheckPart, PartsIncomplete,
          ComposeMerged, ComposeMissingPart, MarkMerged, RemoveFails, Clear, ClearFails,
          PublishIngest, SoftDelete, PublishDelete
  <1>3. CASE Fault
    BY <1>3 DEF Fault, Abandon, PublishUnacked, Expire
  <1>4. CASE UNCHANGED vars
    BY <1>4 DEF vars
  <1> QED BY <1>1, <1>2, <1>3, <1>4 DEF Next

\* A bit is set only by MarkPart.
LEMMA BitSet ==
  ASSUME Shape, [Next]_vars, NEW f \in Files, NEW o \in Owners,
         NEW i \in progress'[f][o], i \notin progress[f][o]
  PROVE  \E r \in Reqs : MarkPart(r) /\ call[r].file = f /\ call[r].i = i
  <1> TypeOK /\ CallOK
    BY DEF Shape
  <1>1. CASE NewRequest
    BY <1>1 DEF NewRequest, Accept, InitiateUpload, UploadPart, CompleteUpload,
                DeleteDocument, CompleteMerged
  <1>2. ASSUME NEW r \in Reqs, Step(r)
        PROVE  MarkPart(r) /\ call[r].file = f /\ call[r].i = i
    <2>1. CASE MarkPart(r)
      BY <2>1 DEF MarkPart, TypeOK, CallOK, Attached
    <2>2. CASE Clear(r)
      BY <2>2 DEF Clear, TypeOK, CallOK, Attached
    <2>3. CASE progress' = progress
      BY <2>3
    <2> QED
      BY <1>2, <2>1, <2>2, <2>3
      DEF Step, CreateDocument, CreateConflict, PutPart, CheckPart, PartsIncomplete,
          ComposeMerged, ComposeMissingPart, MarkMerged, RemovePart, RemoveFails, ClearFails,
          PublishIngest, SoftDelete, PublishDelete
  <1>3. CASE Fault
    <2>1. ASSUME NEW g \in Files, NEW p \in Owners, Expire(g, p) PROVE FALSE
      BY <2>1 DEF Expire, TypeOK
    <2> QED BY <1>3, <2>1 DEF Fault, Abandon, PublishUnacked
  <1>4. CASE UNCHANGED vars
    BY <1>4 DEF vars
  <1> QED BY <1>1, <1>2, <1>3, <1>4 DEF Next

\* A request is about to set a bit only after it stored the part.
LEMMA MarkStep ==
  ASSUME Shape, [Next]_vars, NEW q \in Reqs, pc'[q] = "markPart"
  PROVE  Still(q) \/ PutPart(q)
  <1> TypeOK
    BY DEF Shape
  <1>1. CASE NewRequest
    BY <1>1 DEF NewRequest, Still, Accept, TypeOK, CompleteMerged,
                InitiateUpload, UploadPart, CompleteUpload, DeleteDocument
  <1>2. ASSUME NEW r \in Reqs, Step(r)
        PROVE  Still(q) \/ PutPart(q)
    <2>1. q # r => Still(q)
      BY <1>2 DEF Step, Still, TypeOK, CreateDocument, CreateConflict, PutPart, MarkPart,
                  CheckPart, PartsIncomplete, ComposeMerged, ComposeMissingPart, MarkMerged,
                  RemovePart, RemoveFails, Clear, ClearFails, PublishIngest, SoftDelete,
                  PublishDelete, Acknowledge, Finish, Goto, LoopOrGoto
    <2>2. CASE q = r
      BY <1>2, <2>2
      DEF Step, TypeOK, CreateDocument, CreateConflict, MarkPart,
          CheckPart, PartsIncomplete, ComposeMerged, ComposeMissingPart, MarkMerged,
          RemovePart, RemoveFails, Clear, ClearFails, PublishIngest, SoftDelete,
          PublishDelete, Acknowledge, Finish, Goto, LoopOrGoto
    <2> QED BY <2>1, <2>2
  <1>3. CASE Fault
    BY <1>3 DEF Fault, Still, TypeOK, Abandon, PublishUnacked, Expire, Finish
  <1>4. CASE UNCHANGED vars
    BY <1>4 DEF vars, Still
  <1> QED BY <1>1, <1>2, <1>3, <1>4 DEF Next

\* One step keeps the invariant of parts and bits.
LEMMA PartsStep == PartsInv /\ [Next]_vars => PartsInv'
  <1> SUFFICES ASSUME PartsInv, [Next]_vars PROVE PartsInv'
    OBVIOUS
  <1> Shape /\ TypeOK /\ CallOK /\ Backing /\ MarkExplained /\ PartsExplained
    BY DEF PartsInv, Shape
  <1>1. Shape' /\ Backing'
    BY ShapeStep, BackingStep
  <1>2. \A f \in Files : FileMerged(f) => FileMerged(f)'
    BY RowsAreKept DEF RowsKept, FileMerged, Exists
  \* A part that is missing was missing before, or a merged document's
  \* cleanup has just taken it.
  <1>3. ASSUME NEW f \in Files, NEW i \in Parts, parts'[f][i] = 0,
               parts[f][i] = 0 => FileMerged(f)
        PROVE  FileMerged(f)'
    <2>1. CASE parts[f][i] = 0
      BY <1>2, <1>3, <2>1
    <2>2. CASE parts[f][i] # 0
      <3>1. PICK r \in Reqs : RemovePart(r) /\ call[r].file = f
        BY <1>3, <2>2, PartTaken
      <3>2. docs[call[r].id].status = "merged" /\ docs[call[r].id].file = f
            /\ call[r].id \in DocIds
        BY <3>1 DEF RemovePart, Backing, Backed, CallOK, Attached
      <3> QED BY <1>2, <3>2 DEF FileMerged
    <2> QED BY <2>1, <2>2
  <1>4. MarkExplained'
    <2> SUFFICES ASSUME NEW q \in Reqs, pc'[q] = "markPart",
                        parts'[call'[q].file][call'[q].i] = 0
                 PROVE  FileMerged(call[q].file)'
      BY DEF MarkExplained
    <2>1. call'[q].file \in Files /\ call'[q].i \in Parts
      BY <1>1 DEF Shape, CallOK, Attached
    <2>2. CASE Still(q)
      BY <1>3, <2>1, <2>2 DEF Still, MarkExplained
    <2>3. CASE PutPart(q)
      <3>1. /\ call'[q] = call[q]
            /\ call[q].n # 0
            /\ parts' = [parts EXCEPT ![call[q].file][call[q].i] = call[q].n]
        BY <2>3, MaxPartsAssumption DEF PutPart, Goto, CallOK
      <3> QED BY <2>1, <3>1 DEF TypeOK
    <2> QED BY <2>2, <2>3, MarkStep
  <1>5. PartsExplained'
    <2> SUFFICES ASSUME NEW f \in Files, NEW o \in Owners, NEW i \in progress'[f][o],
                        parts'[f][i] = 0
                 PROVE  FileMerged(f)'
      BY DEF PartsExplained, FileMerged
    <2>1. i \in Parts
      BY <1>1 DEF Shape, TypeOK
    <2>2. CASE i \in progress[f][o]
      BY <1>3, <2>1, <2>2 DEF PartsExplained, FileMerged
    <2>3. CASE i \notin progress[f][o]
      <3>1. PICK r \in Reqs : MarkPart(r) /\ call[r].file = f /\ call[r].i = i
        BY <2>3, BitSet
      <3> QED BY <1>3, <2>1, <3>1 DEF MarkPart, MarkExplained
    <2> QED BY <2>2, <2>3
  <1> QED BY <1>1, <1>4, <1>5 DEF PartsInv

\* A bit without its part object means that a document with that digest was
\* merged, whatever requests ran side by side.
THEOREM BitsAreExplained == Spec => []PartsExplained
  <1>1. Init => PartsInv
    BY InitInv DEF Inv, PartsInv, Init, MarkExplained, PartsExplained
  <1>2. PartsInv => PartsExplained
    BY DEF PartsInv
  <1> QED BY <1>1, <1>2, PartsStep, PTL DEF Spec

----------------------------------------------------------------------------
(* Steps.                                                                  *)

\* A row changes only by a step of a request of its owner.
THEOREM RowsChangeByOwner == Spec => OnlyOwnerWrites
  <1> DEFINE Writes == \A d \in DocIds :
               docs'[d] # docs[d] =>
                 \E r \in Reqs : pc[r] # "idle" /\ pc'[r] # pc[r]
                                 /\ call[r].owner = docs'[d].owner
  <1>1. Shape /\ [Next]_vars => [Writes]_vars
    <2> SUFFICES ASSUME Shape, [Next]_vars PROVE Writes
      OBVIOUS
    <2> TypeOK /\ CallOK
      BY DEF Shape
    <2>1. CASE docs' = docs
      BY <2>1
    <2>2. ASSUME NEW r \in Reqs, NEW e \in DocIds, CreateDocument(r, e)
          PROVE  Writes
      <3>1. pc[r] # "idle" /\ pc'[r] # pc[r]
        BY <2>2 DEF CreateDocument, Finish, TypeOK
      <3>2. \A d \in DocIds : docs'[d] # docs[d] => docs'[d].owner = call[r].owner
        BY <2>2 DEF CreateDocument, TypeOK
      <3> QED BY <3>1, <3>2
    <2>3. ASSUME NEW r \in Reqs, MarkMerged(r) \/ SoftDelete(r)
          PROVE  Writes
      <3>1. pc[r] # "idle" /\ pc'[r] # pc[r]
        BY <2>3 DEF MarkMerged, SoftDelete, Goto, TypeOK
      <3>2. Attached(r)
        BY <2>3 DEF MarkMerged, SoftDelete, CallOK
      <3>3. docs'[call[r].id].owner = call[r].owner
        BY <3>2, RowsAreKept DEF RowsKept, Attached
      <3>4. \A d \in DocIds : docs'[d] # docs[d] => d = call[r].id
        BY <2>3 DEF MarkMerged, SoftDelete, TypeOK
      <3> QED BY <3>1, <3>3, <3>4
    <2>4. CASE Loud
      BY <2>1, <2>2, <2>3, <2>4
      DEF Loud, CompleteMerged, ComposeMerged, PublishIngest, PublishDelete, PublishUnacked
    <2> QED BY <2>1, <2>4, QuietOrLoud DEF Quiet
  <1> QED BY <1>1, ShapeInvariant, PTL DEF Spec, OnlyOwnerWrites

----------------------------------------------------------------------------
(* The document service implements DocumentLife.                           *)

Phase == [d \in DocIds |-> docs[d].status]
Gone == {d \in DocIds : docs[d].deleted}

\* Publishing an event of a type adds its document to those of that type.
LEMMA EventIdsGrow ==
  ASSUME NEW t \in {"ingest", "delete"}, NEW e, e.type = t, topic' = topic \cup {e}
  PROVE  EventIds(t)' = EventIds(t) \cup {e.id}
  BY DEF EventIds

\* Publishing an event of one type adds none of the other.
LEMMA EventIdsStay ==
  ASSUME NEW t \in {"ingest", "delete"}, NEW e, e.type # t, topic' = topic \cup {e}
  PROVE  EventIds(t)' = EventIds(t)
  BY DEF EventIds

\* The initial state is one of DocumentLife's.
LEMMA LifeInit == Init => Life!Init
  BY DEF Init, Life!Init, NoRow, EventIds

\* Every step is a step of DocumentLife or changes nothing it sees.
LEMMA LifeStep == Inv /\ [Next]_vars => [Life!Next]_(Life!vars)
  <1> SUFFICES ASSUME Inv, [Next]_vars PROVE Life!Next \/ UNCHANGED Life!vars
    OBVIOUS
  <1> Shape /\ TypeOK /\ CallOK /\ Backing
    BY DEF Inv, Shape
  <1>1. CASE Quiet
    BY <1>1 DEF Quiet, Life!vars, EventIds
  <1>2. ASSUME NEW r \in Reqs, NEW d \in DocIds, CreateDocument(r, d)
        PROVE  Life!Begin(d)
    <2>1. docs[d] = NoRow
      BY <1>2 DEF CreateDocument, Exists, TypeOK, Document
    <2>2. Phase[d] = "absent" /\ Phase' = [Phase EXCEPT ![d] = "uploading"]
      <3>1. Phase[d] = "absent"
        BY <2>1 DEF Phase, NoRow
      <3>2. Phase' = [Phase EXCEPT ![d] = "uploading"]
        BY <1>2 DEF CreateDocument, Phase, TypeOK
      <3> QED BY <3>1, <3>2
    <2>3. Gone' = Gone
      BY <1>2, <2>1 DEF CreateDocument, Gone, NoRow, TypeOK
    <2>4. UNCHANGED <<topic, acked>>
      BY <1>2 DEF CreateDocument
    <2> QED BY <2>2, <2>3, <2>4 DEF Life!Begin, Phase, Gone, EventIds
  <1>3. ASSUME NEW r \in Reqs, MarkMerged(r)
        PROVE  Life!Next \/ UNCHANGED Life!vars
    <2>1. PICK d \in DocIds : d = call[r].id /\ docs[d] \in Document
      BY <1>3 DEF MarkMerged, CallOK, Attached, TypeOK, Exists, NoRow
    <2>2. Phase' = [Phase EXCEPT ![d] = "merged"]
      BY <1>3, <2>1 DEF MarkMerged, Phase, TypeOK, Document
    <2>3. Gone' = Gone
      BY <1>3, <2>1 DEF MarkMerged, Gone, TypeOK, Document
    <2>4. UNCHANGED <<topic, acked>>
      BY <1>3 DEF MarkMerged
    <2>5. CASE Phase[d] = "uploading"
      <3>1. Life!Merge(d)
        BY <2>2, <2>3, <2>4, <2>5 DEF Life!Merge, Phase, Gone, EventIds
      <3> QED BY <2>1, <3>1 DEF Life!Next
    <2>6. CASE Phase[d] = "merged"
      <3>1. Phase' = Phase
        BY <2>1, <2>2, <2>6 DEF Phase
      <3> QED BY <2>3, <2>4, <3>1 DEF Life!vars, Phase, Gone, EventIds
    <2> QED BY <2>1, <2>5, <2>6 DEF Phase, Document
  <1>4. ASSUME NEW r \in Reqs, SoftDelete(r)
        PROVE  Life!Next
    <2>1. PICK d \in DocIds : d = call[r].id /\ docs[d] \in Document
      BY <1>4 DEF SoftDelete, CallOK, Attached, TypeOK, Exists, NoRow
    <2>2. Phase[d] # "absent" /\ Phase' = Phase
      BY <1>4, <2>1 DEF SoftDelete, Phase, TypeOK, Document
    <2>3. Gone' = Gone \cup {d}
      BY <1>4, <2>1 DEF SoftDelete, Gone, TypeOK, Document
    <2>4. UNCHANGED <<topic, acked>>
      BY <1>4 DEF SoftDelete
    <2>5. Life!Remove(d)
      BY <2>2, <2>3, <2>4 DEF Life!Remove, Phase, Gone, EventIds
    <2> QED BY <2>1, <2>5 DEF Life!Next
  <1>5. ASSUME NEW r \in Reqs, pc[r] = "publishIngest",
               topic' = topic \cup {IngestEvent(call[r])},
               acked' \in {acked, acked \cup {<<"complete", call[r].id>>}},
               docs' = docs
        PROVE  Life!Next
    <2>1. PICK d \in DocIds : d = call[r].id /\ docs[d].status = "merged"
      BY <1>5 DEF CallOK, Attached, Backing, Backed
    <2>2. PICK e : e.type = "ingest" /\ e.id = d /\ topic' = topic \cup {e}
      BY <1>5, <2>1 DEF IngestEvent
    <2>3. /\ EventIds("ingest")' = EventIds("ingest") \cup {d}
          /\ EventIds("delete")' = EventIds("delete")
      BY <2>2, EventIdsGrow, EventIdsStay
    <2>4. Phase[d] = "merged" /\ Phase' = Phase /\ Gone' = Gone
      BY <1>5, <2>1 DEF Phase, Gone
    <2>5. Life!AskIngest(d)
      BY <1>5, <2>1, <2>3, <2>4 DEF Life!AskIngest, Phase, Gone
    <2> QED BY <2>1, <2>5 DEF Life!Next
  <1>6. ASSUME NEW r \in Reqs, pc[r] = "publishDelete",
               topic' = topic \cup {DeleteEvent(call[r])},
               acked' \in {acked, acked \cup {<<"delete", call[r].id>>}},
               docs' = docs
        PROVE  Life!Next
    <2>1. PICK d \in DocIds : d = call[r].id /\ docs[d].deleted
      BY <1>6 DEF CallOK, Attached, Backing, Backed
    <2>2. PICK e : e.type = "delete" /\ e.id = d /\ topic' = topic \cup {e}
      BY <1>6, <2>1 DEF DeleteEvent
    <2>3. /\ EventIds("delete")' = EventIds("delete") \cup {d}
          /\ EventIds("ingest")' = EventIds("ingest")
      BY <2>2, EventIdsGrow, EventIdsStay
    <2>4. d \in Gone /\ Phase' = Phase /\ Gone' = Gone
      BY <1>6, <2>1 DEF Phase, Gone
    <2>5. Life!AskCleanup(d)
      BY <1>6, <2>1, <2>3, <2>4 DEF Life!AskCleanup, Phase, Gone
    <2> QED BY <2>1, <2>5 DEF Life!Next
  <1>7. ASSUME NEW r \in Reqs, PublishIngest(r) PROVE Life!Next
    BY <1>5, <1>7 DEF PublishIngest, Acknowledge, CallOK
  <1>8. ASSUME NEW r \in Reqs, PublishDelete(r) PROVE Life!Next
    BY <1>6, <1>8 DEF PublishDelete, Acknowledge, CallOK
  <1>9. ASSUME NEW r \in Reqs, PublishUnacked(r) PROVE Life!Next
    BY <1>5, <1>6, <1>9 DEF PublishUnacked
  <1>10. ASSUME NEW r \in Reqs, ComposeMerged(r) PROVE UNCHANGED Life!vars
    BY <1>10 DEF ComposeMerged, Life!vars, EventIds
  <1>11. ASSUME NEW o \in Owners, NEW d \in DocIds, CompleteMerged(o, d)
         PROVE  Life!Next
    <2>1. Phase[d] = "merged" /\ d \notin Gone
      BY <1>11 DEF CompleteMerged, OwnedDoc, Phase, Gone
    <2>2. /\ UNCHANGED <<docs, topic>>
          /\ acked' = acked \cup {<<"complete", d>>}
      BY <1>11 DEF CompleteMerged
    <2>3. Life!AnswerMerged(d)
      BY <2>1, <2>2 DEF Life!AnswerMerged, Phase, Gone, EventIds
    <2> QED BY <2>3 DEF Life!Next
  <1>12. CASE Loud
    <2>1. ASSUME NEW r \in Reqs, NEW d \in DocIds, CreateDocument(r, d)
          PROVE  Life!Next
      BY <1>2, <2>1 DEF Life!Next
    <2> QED
      BY <1>12, <2>1, <1>3, <1>4, <1>7, <1>8, <1>9, <1>10, <1>11 DEF Loud
  <1> QED BY <1>1, <1>12, QuietOrLoud

\* The stores, written one after the other by requests that may stop anywhere,
\* together keep the promise of DocumentLife.
THEOREM ImplementsLife == Spec => LifeSpec
  BY LifeInit, LifeStep, Invariance, PTL DEF Spec, LifeSpec, Life!Spec
=============================================================================
