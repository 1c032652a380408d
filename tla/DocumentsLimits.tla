--------------------------- MODULE DocumentsLimits -------------------------
(* Theorems of Documents that hold within limits: one user of the files,   *)
(* no call that fails.                                                     *)
EXTENDS DocumentsProofs

\* One user at a time has the files.
OneOwner == \A o, p \in Owners : o = p

----------------------------------------------------------------------------
(* One user.                                                               *)

\* With one user, a part the client is told to skip has its object: only the
\* completion of the document itself takes part objects away, and there is one
\* document per digest.
THEOREM ResumeIsSound == OneOwner => (Spec => []ResumeSound)
  <1> SUFFICES ASSUME OneOwner PROVE Spec => []ResumeSound
    OBVIOUS
  <1>1. Inv /\ PartsExplained => ResumeSound
    <2> SUFFICES ASSUME Inv, PartsExplained, NEW d \in DocIds,
                        docs[d].status = "uploading",
                        NEW i \in progress[docs[d].file][docs[d].owner],
                        parts[docs[d].file][i] = 0
                 PROVE  FALSE
      BY DEF ResumeSound
    <2>1. docs[d] \in Document
      BY DEF Inv, Shape, TypeOK, NoRow
    <2>2. PICK e \in DocIds : docs[e].file = docs[d].file /\ docs[e].status = "merged"
      BY <2>1 DEF PartsExplained, Document
    <2>3. docs[e] \in Document
      BY <2>2 DEF Inv, Shape, TypeOK, NoRow
    <2>4. docs[e].owner = docs[d].owner
      BY <2>1, <2>3 DEF OneOwner, Document
    <2>5. Exists(d) /\ Exists(e)
      BY <2>2 DEF Exists
    <2>6. d = e
      BY <2>2, <2>4, <2>5 DEF Inv, Promises, RowUnique
    <2> QED BY <2>2, <2>6
  <1> QED BY <1>1, Invariance, BitsAreExplained, PTL

----------------------------------------------------------------------------
(* No call fails, but the cleanup calls whose errors are dropped.          *)

Announced(d) == \E e \in topic : e.type = "ingest" /\ e.id = d

\* A request for the document is past MarkMerged and has yet to publish.
ToPublish == {"removePart", "clear", "publishIngest"}
UnderWay(d) == \E r \in Reqs : call[r].id = d /\ pc[r] \in ToPublish

NotForgotten ==
  \A d \in DocIds : docs[d].status = "merged" => Announced(d) \/ UnderWay(d)

\* Without a fault nothing keeps a request that marked a row from its publish.
LEMMA PublishIsReached ==
  ASSUME Shape, [ReliableNext]_vars, NEW d \in DocIds, UnderWay(d)
  PROVE  UnderWay(d)' \/ Announced(d)'
  <1> TypeOK
    BY DEF Shape
  <1>1. PICK q \in Reqs : call[q].id = d /\ pc[q] \in ToPublish
    BY DEF UnderWay
  <1>2. CASE Still(q)
    BY <1>1, <1>2 DEF Still, UnderWay
  <1>3. CASE NewRequest
    <2>1. Still(q)
      BY <1>1, <1>3 DEF NewRequest, Still, ToPublish, Accept, TypeOK, CompleteMerged,
                InitiateUpload, UploadPart, CompleteUpload, DeleteDocument
    <2> QED BY <1>2, <2>1
  <1>4. ASSUME NEW r \in Reqs, Step(r) PROVE UnderWay(d)' \/ Announced(d)'
    <2>1. CASE q # r
      <3>1. Still(q)
        BY <1>4, <2>1
        DEF Step, Still, TypeOK, CreateDocument, CreateConflict, PutPart, MarkPart,
            CheckPart, PartsIncomplete, ComposeMerged, ComposeMissingPart, MarkMerged,
            RemovePart, RemoveFails, Clear, ClearFails, PublishIngest, SoftDelete,
            PublishDelete, Acknowledge, Finish, Goto, LoopOrGoto
      <3> QED BY <1>2, <3>1
    <2>2. CASE q = r
      <3>1. RemovePart(q) \/ RemoveFails(q) \/ Clear(q) \/ ClearFails(q) \/ PublishIngest(q)
        BY <1>1, <1>4, <2>2
        DEF ToPublish, Step, CreateDocument, CreateConflict, PutPart, MarkPart, CheckPart,
            PartsIncomplete, ComposeMerged, ComposeMissingPart, MarkMerged, SoftDelete,
            PublishDelete
      <3>2. RemovePart(q) \/ RemoveFails(q) \/ Clear(q) \/ ClearFails(q)
            => call'[q].id = call[q].id /\ pc'[q] \in ToPublish
        BY DEF ToPublish, TypeOK, Call, RemovePart, RemoveFails, Clear, ClearFails, Goto, LoopOrGoto
      <3>3. PublishIngest(q) => Announced(d)'
        <4> SUFFICES ASSUME PublishIngest(q) PROVE Announced(d)'
          OBVIOUS
        <4>1. IngestEvent(call[q]) \in topic'
          BY DEF PublishIngest
        <4>2. IngestEvent(call[q]).type = "ingest" /\ IngestEvent(call[q]).id = d
          BY <1>1 DEF IngestEvent
        <4> QED BY <4>1, <4>2 DEF Announced
      <3> QED BY <1>1, <3>1, <3>2, <3>3 DEF UnderWay
    <2> QED BY <2>1, <2>2
  <1>5. CASE UNCHANGED vars
    BY <1>2, <1>5 DEF vars, Still
  <1> QED BY <1>3, <1>4, <1>5 DEF ReliableNext

\* A merged row is announced, or a request is about to.
LEMMA NotForgottenStep ==
  Shape /\ NotForgotten /\ [ReliableNext]_vars => NotForgotten'
  <1> SUFFICES ASSUME Shape, NotForgotten, [ReliableNext]_vars, NEW d \in DocIds,
                      docs'[d].status = "merged"
               PROVE  Announced(d)' \/ UnderWay(d)'
    BY DEF NotForgotten
  <1>1. [Next]_vars
    BY DEF Next, ReliableNext
  <1>2. CASE docs[d].status = "merged"
    <2>1. Announced(d) => Announced(d)'
      BY <1>1, LogsKept DEF Announced
    <2> QED BY <1>2, <2>1, PublishIsReached DEF NotForgotten
  <1>3. CASE docs[d].status # "merged"
    <2>1. PICK r \in Reqs : MarkMerged(r) /\ call[r].id = d
      BY <1>1, <1>3, NewlyMerged
    <2> QED BY <2>1 DEF MarkMerged, Goto, UnderWay, ToPublish, Shape, TypeOK
  <1> QED BY <1>2, <1>3

\* What CompleteUpload acknowledged has its ingest event once no call on the
\* document is under way, as long as no call fails: the errors the cleanup
\* drops do no harm.
THEOREM CompletionIsPublished == ReliableSpec => []CompletePublished
  <1>1. Init => NotForgotten
    BY DEF Init, NotForgotten, NoRow
  <1>2. Inv /\ NotForgotten => CompletePublished
    BY DEF Inv, Promises, CompleteAcked, NotForgotten, CompletePublished, Announced, UnderWay
  <1>3. [ReliableNext]_vars => [Next]_vars
    BY DEF Next, ReliableNext
  <1>4. ReliableSpec => []Inv
    BY <1>3, Invariance, PTL DEF ReliableSpec, Spec
  <1>5. ReliableSpec => []Shape
    BY <1>4, PTL DEF Inv
  <1> QED BY <1>1, <1>2, <1>4, <1>5, NotForgottenStep, PTL DEF ReliableSpec
=============================================================================
