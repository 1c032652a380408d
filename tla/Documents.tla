----------------------------- MODULE Documents -----------------------------
(***************************************************************************)
(* The document service of the API process: multipart upload, completion   *)
(* and deletion, over the four stores it writes without a transaction      *)
(* across them.                                                            *)
(*                                                                         *)
(*   docs      the rows of MySQL table documents                           *)
(*   progress  the Redis bitmaps upload:{md5}:{owner}                      *)
(*   parts     the MinIO objects chunks/{md5}/{index}                      *)
(*   merged    the MinIO objects merged/{md5}/{fileName}                   *)
(*   topic     the events on the Kafka topic, a set: the producer's        *)
(*             balancer ignores the key, so no order between two events    *)
(*             is promised, and a second copy of one tells nothing new     *)
(*   pc, call  the requests in flight, one slot each, at the store call    *)
(*             they make next; a slot is reused without limit              *)
(*   acked     history: the calls answered with success                    *)
(*                                                                         *)
(* One action is one call to a store.  A request that is answered from its *)
(* first read without a write (a refused upload, an instant hit, a resume  *)
(* reply, a part of an already merged document) changes nothing and is a   *)
(* stuttering step.                                                        *)
(***************************************************************************)
EXTENDS Integers, FiniteSets

CONSTANTS
  Owners,     \* user ids
  Files,      \* MD5 digests, as the clients state them
  Names,      \* file names
  DocIds,     \* primary keys of documents
  Reqs,       \* slots for requests in flight
  MaxParts,   \* bound: the largest part count a client uses
  Counts,     \* the part counts clients cut a file into (the totalParts input)
  None        \* no value

ASSUME MaxPartsAssumption == MaxParts \in Nat \ {0}
ASSUME CountsAssumption == Counts \subseteq 1..MaxParts
ASSUME NoneAssumption ==
  None \notin Owners /\ None \notin Files /\ None \notin Names /\ None \notin DocIds

VARIABLES docs, progress, parts, merged, topic, pc, call, acked

vars == <<docs, progress, parts, merged, topic, pc, call, acked>>

----------------------------------------------------------------------------
Parts == 0..(MaxParts - 1)

UploadStatus == {"uploading", "merged"}

Document == [file : Files, owner : Owners, name : Names,
             status : UploadStatus, deleted : BOOLEAN]

NoRow == [file |-> None, owner |-> None, name |-> None,
          status |-> "absent", deleted |-> FALSE]

Event == [type : {"ingest", "delete"}, id : DocIds, file : Files, name : Names]

\* What a request in flight remembers: its arguments and the row it read.
Call == [op : {"none", "initiate", "part", "complete", "delete"},
         owner : Owners \cup {None}, id : DocIds \cup {None},
         file : Files \cup {None}, name : Names \cup {None},
         n : 0..MaxParts, i : 0..MaxParts]

NoCall == [op |-> "none", owner |-> None, id |-> None,
           file |-> None, name |-> None, n |-> 0, i |-> 0]

InitiateAt == {"create"}
PartAt     == {"putPart", "markPart"}
CompleteAt == {"checkPart", "compose", "markMerged", "removePart", "clear", "publishIngest"}
DeleteAt   == {"softDelete", "publishDelete"}
At == {"idle"} \cup InitiateAt \cup PartAt \cup CompleteAt \cup DeleteAt

Exists(d) == docs[d].status # "absent"

\* ownedDoc: a row that is not deleted and belongs to the caller.
OwnedDoc(o, d) == docs[d].owner = o /\ Exists(d) /\ ~docs[d].deleted

\* Mutant of OwnedDocAny: the owner is not compared.
OwnedDocAnyOfAnyone(o, d) == Exists(d)

\* ownedDocAny: deleted rows count too.
OwnedDocAny(o, d) == docs[d].owner = o /\ Exists(d)

\* GetByMD5AndOwner.
LiveRow(f, o) == \E d \in DocIds : docs[d].file = f /\ OwnedDoc(o, d)

\* Mutant of KeyTaken: deleted rows leave the unique key.
KeyTakenByLiveRow(f, o) == LiveRow(f, o)

\* The unique key uk_md5_owner, which has no deleted_at in it.
KeyTaken(f, o) == \E d \in DocIds : docs[d].file = f /\ OwnedDocAny(o, d)

IngestEvent(c) == [type |-> "ingest", id |-> c.id, file |-> c.file, name |-> c.name]
DeleteEvent(c) == [type |-> "delete", id |-> c.id, file |-> c.file, name |-> c.name]

RowCall(op, o, d, n, i) ==
  [op |-> op, owner |-> o, id |-> d,
   file |-> docs[d].file, name |-> docs[d].name, n |-> n, i |-> i]

----------------------------------------------------------------------------
Init ==
  /\ docs = [d \in DocIds |-> NoRow]
  /\ progress = [f \in Files |-> [o \in Owners |-> {}]]
  /\ parts = [f \in Files |-> [i \in Parts |-> 0]]
  /\ merged = [f \in Files |-> [nm \in Names |-> {}]]
  /\ topic = {}
  /\ pc = [r \in Reqs |-> "idle"]
  /\ call = [r \in Reqs |-> NoCall]
  /\ acked = {}

Accept(r, at, c) ==
  /\ pc[r] = "idle"
  /\ pc' = [pc EXCEPT ![r] = at]
  /\ call' = [call EXCEPT ![r] = c]
  /\ UNCHANGED <<docs, progress, parts, merged, topic, acked>>

Goto(r, at) == pc' = [pc EXCEPT ![r] = at] /\ UNCHANGED call

\* The next round of a loop over the parts, or what comes after the loop.
LoopOrGoto(r, after) ==
  LET i == call[r].i + 1
  IN  /\ pc' = [pc EXCEPT ![r] = IF i < call[r].n THEN @ ELSE after]
      /\ call' = [call EXCEPT ![r].i = IF i < call[r].n THEN i ELSE 0]

Finish(r) ==
  /\ pc' = [pc EXCEPT ![r] = "idle"]
  /\ call' = [call EXCEPT ![r] = NoCall]

Acknowledge(r) ==
  /\ Finish(r)
  /\ acked' = acked \cup {<<call[r].op, call[r].id>>}

----------------------------------------------------------------------------
(* InitiateUpload: look the row up; if there is none, create it.           *)

\* Mutant of InitiateUpload: the file name is not carried to the new row.
InitiateUploadNameless(r, o, f, nm) ==
  /\ ~LiveRow(f, o)
  /\ Accept(r, "create", [op |-> "initiate", owner |-> o, id |-> None,
                          file |-> f, name |-> None, n |-> 0, i |-> 0])

InitiateUpload(r, o, f, nm) ==
  /\ ~LiveRow(f, o)
  /\ Accept(r, "create", [op |-> "initiate", owner |-> o, id |-> None,
                          file |-> f, name |-> nm, n |-> 0, i |-> 0])

CreateDocument(r, d) ==
  /\ pc[r] = "create"
  /\ ~Exists(d)
  /\ ~KeyTaken(call[r].file, call[r].owner)
  /\ docs' = [docs EXCEPT ![d] =
                [file |-> call[r].file, owner |-> call[r].owner, name |-> call[r].name,
                 status |-> "uploading", deleted |-> FALSE]]
  /\ Finish(r)
  /\ UNCHANGED <<progress, parts, merged, topic, acked>>

CreateConflict(r) ==
  /\ pc[r] = "create"
  /\ KeyTaken(call[r].file, call[r].owner)
  /\ Finish(r)
  /\ UNCHANGED <<docs, progress, parts, merged, topic, acked>>

(* UploadPart: store the object, then set the bit.                         *)

UploadPart(r, o, d, i, n) ==
  /\ OwnedDoc(o, d)
  /\ docs[d].status # "merged"
  /\ i < n
  /\ Accept(r, "putPart", RowCall("part", o, d, n, i))

\* The object's bytes are told apart by the cut they come from: part i of n.
PutPart(r) ==
  /\ pc[r] = "putPart"
  /\ parts' = [parts EXCEPT ![call[r].file][call[r].i] = call[r].n]
  /\ Goto(r, "markPart")
  /\ UNCHANGED <<docs, progress, merged, topic, acked>>

MarkPart(r) ==
  /\ pc[r] = "markPart"
  /\ progress' = [progress EXCEPT ![call[r].file][call[r].owner] = @ \cup {call[r].i}]
  /\ Finish(r)
  /\ UNCHANGED <<docs, parts, merged, topic, acked>>

(* CompleteUpload: read the bits one by one, compose, mark the row, remove *)
(* the parts and the bitmap (errors ignored), publish.                     *)

CompleteUpload(r, o, d, n) ==
  /\ OwnedDoc(o, d)
  /\ docs[d].status # "merged"
  /\ Accept(r, "checkPart", RowCall("complete", o, d, n, 0))

\* A document that is merged already is answered with success at once.
CompleteMerged(o, d) ==
  /\ OwnedDoc(o, d)
  /\ docs[d].status = "merged"
  /\ acked' = acked \cup {<<"complete", d>>}
  /\ UNCHANGED <<docs, progress, parts, merged, topic, pc, call>>

\* Mutant of CheckPart: the row is marked without the merge.
CheckPartSkipsCompose(r) ==
  /\ pc[r] = "checkPart"
  /\ call[r].i \in progress[call[r].file][call[r].owner]
  /\ LoopOrGoto(r, "markMerged")
  /\ UNCHANGED <<docs, progress, parts, merged, topic, acked>>

CheckPart(r) ==
  /\ pc[r] = "checkPart"
  /\ call[r].i \in progress[call[r].file][call[r].owner]
  /\ LoopOrGoto(r, "compose")
  /\ UNCHANGED <<docs, progress, parts, merged, topic, acked>>

PartsIncomplete(r) ==
  /\ pc[r] = "checkPart"
  /\ call[r].i \notin progress[call[r].file][call[r].owner]
  /\ Finish(r)
  /\ UNCHANGED <<docs, progress, parts, merged, topic, acked>>

Sources(r) == 0..(call[r].n - 1)

\* Mutants of ComposeMerged: the cleanup comes before the row; the event comes
\* before the row.
ComposeMergedThen(r, at) ==
  /\ pc[r] = "compose"
  /\ \A i \in Sources(r) : parts[call[r].file][i] # 0
  /\ merged' = [merged EXCEPT ![call[r].file][call[r].name] =
                  {<<i, parts[call[r].file][i]>> : i \in Sources(r)}]
  /\ Goto(r, at)
  /\ UNCHANGED <<docs, progress, parts, topic, acked>>

ComposeMergedCleansFirst(r) == ComposeMergedThen(r, "removePart")

ComposeMergedPublishesFirst(r) == ComposeMergedThen(r, "publishIngest")

ComposeMerged(r) ==
  /\ pc[r] = "compose"
  /\ \A i \in Sources(r) : parts[call[r].file][i] # 0
  /\ merged' = [merged EXCEPT ![call[r].file][call[r].name] =
                  {<<i, parts[call[r].file][i]>> : i \in Sources(r)}]
  /\ Goto(r, "markMerged")
  /\ UNCHANGED <<docs, progress, parts, topic, acked>>

ComposeMissingPart(r) ==
  /\ pc[r] = "compose"
  /\ \E i \in Sources(r) : parts[call[r].file][i] = 0
  /\ Finish(r)
  /\ UNCHANGED <<docs, progress, parts, merged, topic, acked>>

\* Mutant of MarkMerged: it saves the whole row as it was read.
MarkMergedSavesRow(r) ==
  /\ pc[r] = "markMerged"
  /\ docs' = [docs EXCEPT ![call[r].id].status = "merged", ![call[r].id].deleted = FALSE]
  /\ Goto(r, "removePart")
  /\ UNCHANGED <<progress, parts, merged, topic, acked>>

\* The UPDATE has no condition on deleted_at.
MarkMerged(r) ==
  /\ pc[r] = "markMerged"
  /\ docs' = [docs EXCEPT ![call[r].id].status = "merged"]
  /\ Goto(r, "removePart")
  /\ UNCHANGED <<progress, parts, merged, topic, acked>>

RemovePart(r) ==
  /\ pc[r] = "removePart"
  /\ parts' = [parts EXCEPT ![call[r].file][call[r].i] = 0]
  /\ LoopOrGoto(r, "clear")
  /\ UNCHANGED <<docs, progress, merged, topic, acked>>

\* Mutant of RemoveFails: the loop starts over.
RemoveFailsAndRetries(r) ==
  /\ pc[r] = "removePart"
  /\ call' = [call EXCEPT ![r].i = 0]
  /\ UNCHANGED <<docs, progress, parts, merged, topic, pc, acked>>

\* RemoveParts stops at its first error, and its error is dropped.
RemoveFails(r) ==
  /\ pc[r] = "removePart"
  /\ pc' = [pc EXCEPT ![r] = "clear"]
  /\ call' = [call EXCEPT ![r].i = 0]
  /\ UNCHANGED <<docs, progress, parts, merged, topic, acked>>

Clear(r) ==
  /\ pc[r] = "clear"
  /\ progress' = [progress EXCEPT ![call[r].file][call[r].owner] = {}]
  /\ Goto(r, "publishIngest")
  /\ UNCHANGED <<docs, parts, merged, topic, acked>>

\* Mutant of ClearFails: the error is returned.
ClearFailsReturns(r) ==
  /\ pc[r] = "clear"
  /\ Finish(r)
  /\ UNCHANGED <<docs, progress, parts, merged, topic, acked>>

ClearFails(r) ==
  /\ pc[r] = "clear"
  /\ Goto(r, "publishIngest")
  /\ UNCHANGED <<docs, progress, parts, merged, topic, acked>>

PublishIngest(r) ==
  /\ pc[r] = "publishIngest"
  /\ topic' = topic \cup {IngestEvent(call[r])}
  /\ Acknowledge(r)
  /\ UNCHANGED <<docs, progress, parts, merged>>

(* DeleteDocument: read the row, deleted or not, mark it, publish.         *)

\* Mutant of DeleteDocument: a deleted row is answered at once, as
\* CompleteUpload does with a merged one.
DeleteDocumentOnce(r, o, d) ==
  /\ OwnedDocAny(o, d)
  /\ IF docs[d].deleted
     THEN /\ acked' = acked \cup {<<"delete", d>>}
          /\ UNCHANGED <<docs, progress, parts, merged, topic, pc, call>>
     ELSE Accept(r, "softDelete", RowCall("delete", o, d, 0, 0))

DeleteDocument(r, o, d) ==
  /\ OwnedDocAny(o, d)
  /\ Accept(r, "softDelete", RowCall("delete", o, d, 0, 0))

SoftDelete(r) ==
  /\ pc[r] = "softDelete"
  /\ docs' = [docs EXCEPT ![call[r].id].deleted = TRUE]
  /\ Goto(r, "publishDelete")
  /\ UNCHANGED <<progress, parts, merged, topic, acked>>

PublishDelete(r) ==
  /\ pc[r] = "publishDelete"
  /\ topic' = topic \cup {DeleteEvent(call[r])}
  /\ Acknowledge(r)
  /\ UNCHANGED <<docs, progress, parts, merged>>

----------------------------------------------------------------------------
(* Faults.                                                                 *)

\* A store call fails, the caller's context is cancelled, or the process
\* dies: the request makes no further call.  A call that took effect although
\* its answer was lost is that call's action followed by this one.
Abandon(r) ==
  /\ pc[r] # "idle"
  /\ Finish(r)
  /\ UNCHANGED <<docs, progress, parts, merged, topic, acked>>

\* The broker has the event, the request saw an error.
PublishUnacked(r) ==
  /\ \/ pc[r] = "publishIngest" /\ topic' = topic \cup {IngestEvent(call[r])}
     \/ pc[r] = "publishDelete" /\ topic' = topic \cup {DeleteEvent(call[r])}
  /\ Finish(r)
  /\ UNCHANGED <<docs, progress, parts, merged, acked>>

\* The bitmap's 24 hours pass.  They start again at every MarkPart; here they
\* may pass at any time.
Expire(f, o) ==
  /\ progress[f][o] # {}
  /\ progress' = [progress EXCEPT ![f][o] = {}]
  /\ UNCHANGED <<docs, parts, merged, topic, pc, call, acked>>

----------------------------------------------------------------------------
\* What the users ask for.
NewRequest ==
  \E o \in Owners :
    \/ \E r \in Reqs, f \in Files, nm \in Names : InitiateUpload(r, o, f, nm)
    \/ \E d \in DocIds :
         \/ CompleteMerged(o, d)
         \/ \E r \in Reqs :
              \/ \E i \in Parts, n \in Counts : UploadPart(r, o, d, i, n)
              \/ \E n \in Counts : CompleteUpload(r, o, d, n)
              \/ DeleteDocument(r, o, d)

\* The next store call of a request in flight.
Step(r) ==
  \/ \E d \in DocIds : CreateDocument(r, d)
  \/ CreateConflict(r)
  \/ PutPart(r) \/ MarkPart(r)
  \/ CheckPart(r) \/ PartsIncomplete(r)
  \/ ComposeMerged(r) \/ ComposeMissingPart(r)
  \/ MarkMerged(r)
  \/ RemovePart(r) \/ RemoveFails(r)
  \/ Clear(r) \/ ClearFails(r)
  \/ PublishIngest(r)
  \/ SoftDelete(r) \/ PublishDelete(r)

Fault ==
  \/ \E r \in Reqs : Abandon(r) \/ PublishUnacked(r)
  \/ \E f \in Files, o \in Owners : Expire(f, o)

Next == NewRequest \/ (\E r \in Reqs : Step(r)) \/ Fault

Spec == Init /\ [][Next]_vars

\* Without faults but for the two cleanup errors the code drops.  Fairness: a
\* request runs in a goroutine of its own, and its next store call is made.
ReliableNext == NewRequest \/ (\E r \in Reqs : Step(r))

ReliableSpec ==
  Init /\ [][ReliableNext]_vars /\ \A r \in Reqs : WF_vars(Step(r))

----------------------------------------------------------------------------
(* The promise these stores implement together.                            *)

EventIds(type) == {e.id : e \in {e \in topic : e.type = type}}

Life == INSTANCE DocumentLife WITH
  phase    <- [d \in DocIds |-> docs[d].status],
  gone     <- {d \in DocIds : docs[d].deleted},
  ingest   <- EventIds("ingest"),
  cleanup  <- EventIds("delete"),
  answered <- acked

\* Through every interleaving and fault, a document lives as DocumentLife
\* says: it is merged once, never reappears after a delete, and each event and
\* each answer comes after the row change it speaks of.
LifeSpec == Life!Spec

----------------------------------------------------------------------------
(* Properties.                                                             *)

\* Every variable keeps its shape: rows carry only what InitiateUpload and
\* MarkMerged wrote, and a request in flight is at a store call of its own
\* operation.
TypeOK ==
  /\ docs \in [DocIds -> Document \cup {NoRow}]
  /\ progress \in [Files -> [Owners -> SUBSET Parts]]
  /\ parts \in [Files -> [Parts -> 0..MaxParts]]
  /\ merged \in [Files -> [Names -> SUBSET (Parts \X (1..MaxParts))]]
  /\ topic \subseteq Event
  /\ pc \in [Reqs -> At]
  /\ call \in [Reqs -> Call]
  /\ acked \subseteq {"complete", "delete"} \X DocIds

\* Concurrent InitiateUploads of one user for one file never leave two rows,
\* deleted ones included: instant upload and resume always mean one document.
RowUnique ==
  \A d, e \in DocIds :
    (Exists(d) /\ Exists(e) /\ docs[d].file = docs[e].file /\ docs[d].owner = docs[e].owner)
      => d = e

\* A row says merged only when the merged object is in the object store,
\* whatever calls failed, crashed or ran side by side: an instant hit never
\* points at nothing.
MergedBacked ==
  \A d \in DocIds :
    docs[d].status = "merged" => merged[docs[d].file][docs[d].name] # {}

\* The worker that reads an ingest event finds the row merged and the object
\* the event names, however late the event is read.
IngestEventBacked ==
  \A e \in topic :
    e.type = "ingest" => /\ docs[e.id].status = "merged"
                         /\ docs[e.id].file = e.file
                         /\ merged[e.file][e.name] # {}

\* A delete event is on the topic only for a document no user can see any more.
DeleteEventBacked ==
  \A e \in topic : e.type = "delete" => docs[e.id].deleted

\* DeleteDocument answers success only when the row is hidden and the cleanup
\* event is on the topic: calling it again after a half-done delete is enough.
DeleteAcked ==
  \A d \in DocIds :
    <<"delete", d>> \in acked =>
      /\ docs[d].deleted
      /\ \E e \in topic : e.type = "delete" /\ e.id = d /\ e.file = docs[d].file

\* CompleteUpload answers success only for a merged document.
CompleteAcked ==
  \A d \in DocIds : <<"complete", d>> \in acked => docs[d].status = "merged"

\* A bit that is set has its part object, unless some user's document with
\* that digest was merged: only RemoveParts takes part objects away.
PartsExplained ==
  \A f \in Files, o \in Owners : \A i \in progress[f][o] :
    parts[f][i] = 0 => \E d \in DocIds : docs[d].file = f /\ docs[d].status = "merged"

\* What UploadedParts reports for an upload that is still open is there: the
\* part the client is told to skip has its object.  It holds while one user
\* at a time has the file; part keys carry no owner.
ResumeSound ==
  \A d \in DocIds :
    docs[d].status = "uploading" =>
      \A i \in progress[docs[d].file][docs[d].owner] : parts[docs[d].file][i] # 0

\* What CompleteUpload acknowledged has its ingest event, once no call on the
\* document is under way.
CompletePublished ==
  \A d \in DocIds :
    <<"complete", d>> \in acked =>
      \/ \E e \in topic : e.type = "ingest" /\ e.id = d
      \/ \E r \in Reqs : call[r].id = d

\* The parts are composed only once all of them are there: a merged object holds
\* the parts of one cut of the file, all of them.
MergedWhole ==
  \A f \in Files, nm \in Names :
    merged[f][nm] # {} =>
      \E n \in Counts : merged[f][nm] = {<<i, n>> : i \in 0..(n - 1)}

\* Only the owner's requests write a row: a step that changes one is a step of
\* a request of that row's owner.
OnlyOwnerWrites ==
  [][\A d \in DocIds :
       docs'[d] # docs[d] =>
         \E r \in Reqs : pc[r] # "idle" /\ pc'[r] # pc[r]
                         /\ call[r].owner = docs'[d].owner]_vars

\* Every request in flight is answered: no wait, no unbounded loop.
RequestsEnd == \A r \in Reqs : (pc[r] # "idle") ~> (pc[r] = "idle")
=============================================================================
