# ragkb in TLA+

ragkb is the backend of a knowledge base: users register, upload documents in
parts, and a worker reads the topic of finished documents to index them. An API
process and a worker process share MySQL, Redis, MinIO and Kafka. No
transaction spans two of these stores, so most of what can go wrong is a
sequence of calls that stopped half way, or two sequences that crossed.

This directory holds models of that code, the instances TLC checks, and proofs
that TLAPS checks.

| module | what it is | models |
|---|---|---|
| `Documents` | specification | upload, completion and deletion of documents over the four stores |
| `DocumentLife` | abstract specification | what the document service promises about one document |
| `DocumentsProofs`, `DocumentsLimits`, `DocumentsProgress` | proofs | `Documents`; the second what holds for one owner or without faults; the third how far a request is from its end |
| `Consumer` | specification | the worker's consumer loop, its retries, dead letters, commits, shutdown; the producer |
| `Delivery` | abstract specification | what the worker promises about messages |
| `ConsumerProofs` | proofs | `Consumer` |
| `Pipeline` | composition | `Documents` and `Consumer`: what the API publishes is what the workers read |
| `PipelineProofs` | proofs | `Pipeline` |
| `Accounts` | specification | registration and the default tenant, statement by statement |
| `DefaultTenant` | abstract specification | what accounts promise about a user's default tenant |
| `AccountsProofs` | proofs | `Accounts` |
| `Sessions` | specification | login, refresh and logout: tokens, their keys in Redis, a clock |
| `SessionsProofs` | proofs | `Sessions` |
| `Pages` | specification | the list of documents, read page by page while documents come and go |
| `PagesProofs` | proofs | `Pages` |
| `MCDocuments`, `MCConsumer`, `MCPipeline`, `MCAccounts`, `MCSessions`, `MCPages` | instances for TLC | |

`PROJECT.json` lists the runs, the source lines of every definition, the
hazards, the findings and the theorems.

## Inventory

### Document service (`service/document`, `handler/document`)

State: rows of `documents` in MySQL (one per user and digest, `upload_status`,
soft delete), a bitmap `upload:{md5}:{owner}` per upload in Redis with a TTL of
24 hours, part objects `chunks/{md5}/{i}` and merged objects
`merged/{md5}/{name}` in MinIO, events on a Kafka topic.

Operations: `InitiateUpload` (instant hit, resume, or a new row), `UploadPart`
(object, then bit), `CompleteUpload` (bits, compose, mark, clean up, publish),
`DeleteDocument` (mark, publish), and the reads `ListDocuments` and
`GetDocument`. `ListDocuments` corrects the page and the size it is asked for,
counts the user's rows, and takes a slice of them ordered by `created_at`.

Hard: each operation is a sequence of calls to different stores; a request can
be cut off between any two of them (an error, a cancelled context, the API's
ten-second shutdown, a crash); requests of one user race each other, and
requests of different users share objects because the object keys carry no
owner while the bitmap's key does. A page is the result of two queries without
a transaction, its order has ties (`created_at` is a `TIMESTAMP` of whole
seconds), its offset is counted from a row that changes while a client reads
on, and the answer repeats the size as it was asked for.

Correct when: one row per user and digest; a merged row has its object; an
event is sent only for what it says; an answer is given only for what was
done; parts reported as uploaded are there; a deleted document never comes
back; what was completed is ingested and what was deleted is announced; a
reader of all pages misses a document, or sees it twice, only when rows shifted
or the order has a tie.

### Kafka producer and consumer, worker process (`infra/kafka`, `cmd/worker`)

State: the log and the committed offset of each partition, which process reads
it, and in each worker the message in hand and the number of failed attempts.

Operations: `Publish`; `Run` with `FetchMessage`, `handleWithRetry`,
`sleepRetry`, `publishDLQ`, `CommitMessages`; start, signal, exit.

Hard: a crash or a failed commit after the message was handled; a partition
that moves to another worker while its old reader still works; a signal in the
middle of a retry; a dead letter topic that cannot be written; a handler that
always fails (the one wired today does).

Correct when: an offset is committed only past settled messages, a partition is
worked at in order, every message is settled in the end, a signalled worker
stops, and an event is still true when a worker, late or again, has it in hand.

### Registration and default tenant (`service/auth` Register, `service/user`)

State: `users`, `tenants`, `user_tenants` with its flag `is_primary`; row locks.

Operations: `Register` (a row in `users`, then a transaction for the private
tenant and its membership), `UpdatePrimaryTenant` (a transaction of one read
and two updates).

Hard: the first write of a registration is committed before the second
transaction begins; the default is moved by two updates; transactions wait for
each other's locks.

Correct when: never two defaults, never none after the first, a registration
answered with success is whole, and requests end.

### Login, refresh and logout (`service/auth`, `pkg/token`, `infra/redis`)

State: in Redis, a key `refresh:{jti}` per login with the refresh token's
lifetime; at the clients, signed access and refresh tokens nobody can take back.

Operations: `Login` (sign both tokens, save the key), `Refresh` (parse, look for
the key, sign an access token), `Logout` (parse, delete the key), and `JWTAuth`,
which accepts an access token by its signature and lifetime alone.

Hard: a refresh that found the key signs a token after the logout that deleted
it was answered; the token's lifetime and the key's start at different moments
in different processes; a save or a delete whose answer is lost; a logout with a
token that has expired is answered with success and deletes nothing.

Correct when: an answered logout ends the refreshes, and the access tokens one
lifetime later; a client that did not log out is not logged out before its
token expires; every session ends.

### Not modelled, or only in part

| part | why |
|---|---|
| API process, routing, middleware | a request is a slot that may be cut off at any call, and `JWTAuth` is `Authorized` of `Sessions`; JSON, status codes and logging are left out |
| `GetDocument`, `Me`, `MyTenants`, password hashing | a read, or a computation, that changes nothing and stands alone |
| upload limits and file types | checks of the arguments before anything is read; a refused upload is a stuttering step |
| `MarkIngest*`, `HardDelete`, `GetObject`, `RemoveObject` | nothing calls them |
| Ingest, search, chat services | empty skeletons; so are the Elasticsearch and Qdrant adapters and the tombstones DESIGN.md describes |
| Chunk and conversation domains | types without behaviour |
| Configuration, logging, client construction | read once at start, no state. By reading only: `config.go:90` says an empty list of extensions gets a default, while `bootstrap/api.go:56` makes an empty list refuse every file |

Components interact through the stores only: the API's document service
publishes to the topic the worker's consumer reads; the choice of a tenant for
an upload reads what registration wrote. `Documents` has the topic as a set of
events, `Consumer` has it as partitions with offsets and forgets what the events
say; `Pipeline` puts the two together. A user's id is all that `Sessions` hands
to the rest: a request that was let in belongs to some user.

## How the models correspond to the code

### Documents

One action is one call to a store. `pc[r]` names the call that request `r`
makes next and `call[r]` holds what the handler has in its local variables: its
arguments and the row it read at the start, which may be stale by then. A slot
of `Reqs` is used again once its request ended, so that the number of requests
is not bounded, only the number in flight at once.

| code | actions |
|---|---|
| `InitiateUpload` | `InitiateUpload` (the lookup), `CreateDocument`, `CreateConflict` |
| `UploadPart` | `UploadPart` (the lookup and the checks), `PutPart`, `MarkPart` |
| `CompleteUpload` | `CompleteUpload`, `CompleteMerged` (the early return), `CheckPart` and `PartsIncomplete` (one bit each), `ComposeMerged`, `ComposeMissingPart`, `MarkMerged`, `RemovePart`, `RemoveFails`, `Clear`, `ClearFails`, `PublishIngest` |
| `DeleteDocument` | `DeleteDocument`, `SoftDelete`, `PublishDelete` |
| any call that fails, a cancelled request, a dead process | `Abandon` |
| a publish that arrived although its answer was lost | `PublishUnacked` |
| the bitmap's TTL | `Expire` |

Abstractions, and what they cost:

- A request refused, or answered from its first read, writes nothing and is a
  stuttering step. The exception is `CompleteMerged`, whose answer is recorded
  because `CompletePublished` speaks of it.
- The bytes of a part are told apart by the count the file was cut into. A
  merged object is the set of the pieces it was composed of.
- `CheckPart` ends the request at the first bit that is missing. The code reads
  the other bits too before it refuses; the reads change nothing.
- `topic` is a set. The producer's balancer ignores the key, so there is no
  order between two events to keep, and a second copy of an event says nothing
  new. `Pipeline` keeps the copies, their partitions and their order.
- The TTL may run out at any time, though every `MarkPart` starts it again.
- The lookup of the tenant when an upload names none is `Default` of `Accounts`.

`DocumentLife` knows nothing of stores: a document begins, is merged once, may
be removed and does not come back; an ingest is asked for after the merge, a
cleanup after the removal, and an answer follows what it reports. `Life ==
INSTANCE DocumentLife WITH ...` reads its variables from the rows, the events
and the answers, and `LifeSpec` is checked and proved.

### Consumer

One action is one call of `Run` that waits or leaves the process. `log`,
`committed`, `assigned` and `pos` belong to Kafka and to the group reader and
are known from how the code uses them. A rebalance (`Assign`) may come at any
time. `pos` is kept per worker and partition: the new reader starts at the
committed offset, while the old one keeps the message it holds, may commit it
later, and hands out more of what it prefetched until its generation ends
(`Lose`).

`settled` is a history variable, the messages handled with success or written to
the dead letter topic. `Handle` is an input: it returns any member of
`Outcomes`. `Crash` also stands for `main` giving up after ten
seconds. `DeadLetterFails` lets the write arrive or not. `calm` ends the
faults, once, for the liveness properties.

`Delivery` is the promise: messages of a partition are settled in order, none
passed over, and a commit lies behind a settled prefix. It may go back, as a
late commit of a reader that lost its partition does.

### Pipeline

`Pipeline` extends `Documents` and takes `Work == INSTANCE Consumer WITH Keys <-
Event, pc <- at`: a message of the log *is* an event. `Carry` says that the two
actions that publish, and the publish whose answer is lost, also append to a
partition, any partition; every other step of the API leaves the log alone. The
workers' steps leave the API's variables alone. `Room` bounds the log: no
request is accepted that could publish a message too many. `RunsDocuments` and
`RunsWorkers` prove that each half still behaves as its own specification says,
so that every theorem about `Documents` and `Consumer` holds of the whole; the
proofs cite them there.

### Accounts

One action is one SQL statement. `cleared[r]` and `draft[r]` are the flags the
transaction of `r` has cleared and set; they become visible in `Commit`. `UPDATE ... WHERE
user_id = ?` locks the rows of that user until the transaction ends
(`locked`). `Abandon` is a failed statement, a cancelled context or a dead
process, with the rollback that follows; `CommitUnacked` is a commit whose
answer was lost. `Join` is an administrator who makes a user a member of a team,
which no code of this repository does and `UpdatePrimaryTenant` needs.

`LongNames` are the names for which `"PRIVATE_" + username` does not fit
`tenants.tag`, a `VARCHAR(64)`, although the handler accepts them.

`DefaultTenant` knows one value per user: none, then always one of the tenants
the user is a member of; it changes at once, and a caller is told so only after
it happened. `Default(u)` of `Accounts` is that value, what `GetPrimaryTag`
reads for an upload that names no tenant.

### Sessions

One action is one call to Redis; time (`Tick`) may pass between any two. `key`,
`refresh` and `access` are the time that is left, so that a clock that only ever
goes on needs no bound. A session is one login, named by its jti, a fresh UUID.

| code | actions |
|---|---|
| `Login` | `Login` (tokens signed), `Save` (key and answer), `SaveUnacked` |
| `Refresh` | `Refresh` (parsed), `KeyExists` or `KeyMissing`, `SignAccess` |
| `Logout` | `Logout` (parsed), `LogoutExpired` (not parsed, answered with success), `Revoke`, `RevokeUnacked` |
| `JWTAuth` | `Authorized` |
| a failed call, a cancelled request, a dead process | `Abandon` |
| Redis restarts without its data, or evicts | `Lose` |

The lookup of the user and the check of the password come before anything is
written and are part of the stuttering before `Login`; so is a token of the
wrong type. An access token names the user and not the session: `access[j]` are
the tokens that session `j` gave out, and a logout is about those. That a user
who is logged in twice stays logged in on the other device is the design.
Assumed of the environment: one clock for the API processes and Redis, and no
command that reaches Redis after its connection was given up.

### Pages

`Count` and `Find` are the two queries of `ListByOwner`. `Front(n)` is the set of
the first `n` rows in any order that `created_at DESC` allows, and each query may
pick another one, as a sort without a tie-breaker may. A row gets the second in
which its INSERT was built and may appear later than a row with a later second
(`Create` takes any `t` up to now). `drift` is a history variable: the rows that
came, less those that went, between the last answer's two queries. The client is
not in the repository; it asks for page after page until an answer holds fewer
items than the size that the answer states, or none.

## Runs

| run | instance | question |
|---|---|---|
| `documents_one_owner` | 1 user, 1 file cut into 1 part or 2, 2 document ids, 3 requests | do rows, objects, bits, events and answers stay consistent through every interleaving, fault, lost answer and expiry, and is `DocumentLife` kept? |
| `documents_two_owners` | 2 users, the same file of 2 parts, 2 requests | what still holds when users share the part and merged objects? |
| `documents_lost_ingest` | 1 user, 2 requests | finding |
| `documents_shared_parts` | 2 users, 2 requests | finding |
| `documents_partial_merge` | 1 user, 1 request, 1 part or 2 | finding |
| `consumer` | 1 partition, 2 workers, 2 messages, a handler that fails or not | is anything passed over or committed too early, is `Delivery` kept, is every message settled, and does a signalled worker stop? |
| `consumer_key_partition` | 2 partitions, 1 message each, 1 key | finding |
| `accounts_requests` | 2 names, one too long, 1 team, 2 requests | are defaults unique and kept, is a registration whole, is `DefaultTenant` kept, do requests end? |
| `accounts_long_name` | 1 name, too long | finding |
| `sessions` | 2 sessions, 2 requests, access tokens for 2 units of time, refresh tokens for 3 | what does a logout promise, what may a client count on, does every session end? |
| `pages` | 4 documents, 3 seconds, sizes 0, 2 and 3 where 1 is the default and 2 the largest | which documents can a reader of all pages miss or see twice, when does a total not fit its items? |
| `pipeline` | 1 user, 1 file, 1 document, 2 requests, 1 partition, 1 worker, 2 messages, a handler that always fails; the API's calls fail only in the cleanup | is an event in hand true, does every request end, is every completion published, is every merged and every deleted document's event settled? |

Which property holds where is part of the result. `ResumeSound` holds for one
user, for all that cleanups leave behind, because a document that was merged is
never uploaded again: the unique key counts deleted rows, and with a key that does
not (the property's mutant) the leftovers of the first upload meet the second. It
fails for two users. `CompletePublished` holds in `pipeline`, where only cleanup
calls fail, and is refuted where others may fail too. `PartsExplained` is what is left of
`ResumeSound` with several users: a bit without its object means that some
user's document with that digest was merged.

`LogoutFinal` and `AccessBounded` together say what a logout is: nothing is
refreshed after its answer by a request that came after it, while access tokens
live on, for one lifetime from the answer or, when a refresh was on its way, from
that refresh's end. `HonouredUntilExpiry` is the other side. It holds because
the key is saved after the token is signed; a key with a lifetime shorter by one
unit, or the access token's, breaks it.

`MissedOnlyWhenShifted` and `RepeatedOnlyWhenShifted` list every reason there is.
Two of them are of the code's making: `ORDER BY created_at DESC` without a
second column lets two documents of one second change places from page to page,
and a client that asks for more than 100 is served 20 and told it got what it
asked for.

`TotalMatchesItems` excuses nothing: an answer's total and its items differ by the
rows that came and went between the two queries (`drift`), to the row.

`HeldEventIsTrue` is about time: a worker may have an event in hand long after
its publish, again after a crash, and after the document was deleted. An ingest
event may then be about a document deleted by now, and the property does not
deny it: it promises the merged row and its object.

### Findings

- **An ingest event can be lost** (`documents_lost_ingest`). `CompleteUpload`
  that stops between `MarkMerged` and the publish is retried with success at the
  early return and the event is never sent.
- **Users share part objects** (`documents_shared_parts`). One user's
  completion removes the parts another user's bitmap reports as uploaded; the
  other user is told to skip them and the compose fails.
- **A user without a tenant** (`accounts_long_name`). `Register` commits the
  user before the tenant. When the second transaction fails, which it always
  does for names of 57 to 64 characters, the user stays, without a tenant, and a
  second `Register` is refused.
- **A piece of a file can be merged** (`documents_partial_merge`). The part count
  is not stored: `CompleteUpload` checks and composes as many parts as its own
  request states (`document.go:323`). With a count below the one the file was cut
  by, the row is marked merged, the object is a piece of the file, and the parts
  it was composed of are removed. `DESIGN.md:394` says that all parts have arrived
  before they are composed.
- **The key does not choose the partition** (`consumer_key_partition`). `LeastBytes`
  ignores it (`producer.go:23`), against the comment at line 28, so a delete event
  may be read before the ingest event of its file. A hash balancer would not be
  enough for that order: a delete that runs between `MarkMerged` and the publish
  of a completion publishes first.

One limit no comment speaks of: a signal during the pause after a failed attempt
sends the message to the dead letter topic with retries left (`consumer.go:98`).
And no property covers the size an answer of `ListDocuments` states, since no document
says which it should be; `MissedOnlyWhenShifted` has it among its reasons.

### Bounds, and why they are enough

- *Requests in flight.* Three slots for one user hold two racing completions
  and an upload, a delete or an initiation beside them. With two users two slots
  are one request of each, or two of one; a slot is used again, so that the
  histories are long all the same.
- *Parts.* Two parts are the least with a first and a last round of the loops
  over parts, a bit that is set beside one that is not, and a cleanup that stops
  half way. `MaxParts` bounds the part counts and `Counts` are those that
  clients state: one or two, request by request, in `documents_one_owner` and
  `documents_partial_merge`. With two users, and in `pipeline`, all state two,
  which keeps the instance small; the theorems are about any counts.
- *Documents.* Two ids for one user and one file are one more than the unique
  key allows; two ids for two users are one each.
- *Messages.* `MaxLog = 2` lets a message wait behind another; a partition that
  changes hands is read again from any offset there is. The log is bounded, so
  these instances, and `pipeline`, end when all is read and no worker is
  signalled: `CHECK_DEADLOCK FALSE` stands in their configurations only.
- *Attempts.* Three, as in the code.
- *Lifetimes.* Three and two units are the least for which a refresh token
  outlives an access token, a refreshed access token outlives the refresh token,
  and time can pass inside every gap between two calls. Sessions do not touch
  each other's keys; two of them are there to show that.
- *Pages.* Four documents make pages of one and of two, full and not, with a row
  before, on and behind each; three seconds allow ties and both orders beside
  them. The default size below the largest and one size above it are what
  `NormalSize` tells apart.
- *Pipeline.* One worker crashes, is restarted and reads again; two workers on
  one partition are `consumer`. Two messages are the ingest and the
  delete event of one document, or one of them twice.
- *Symmetry* is used in three runs without liveness, the two of documents that
  pass and `pages`: users, document ids and requests are never compared but for
  equality.

### Fairness

- `Documents!ReliableSpec`: weak fairness of each request's next store call. A
  request runs in a goroutine of its own and waits for nothing but the store.
  `CompletionIsPublished` is a theorem of it; `pipeline` asks for what must happen in
  the end under the same fairness.
- `Consumer!FairSpec`: the process supervisor starts a worker that is down, the
  group finds a reader for a partition without one, `Run` goes on, and faults
  come to an end (`CalmDown`). Nothing is assumed of what `Run` does next, or of
  the handler's outcome.
- `Accounts!FairSpec`: strong fairness of each request's next statement, since a
  statement may be enabled and disabled again and again by others' row locks,
  and InnoDB grants a lock in the order of the waits. Faults never end here.
- `Sessions!FairSpec`: weak fairness of time and of each request's next call.
  Requests run in goroutines of their own; faults may come for ever.
- `Pipeline!ReliablePipelineSpec`: the fairness of its two parts. The API's calls
  do not fail, but for the dropped cleanup errors, since `documents_lost_ingest`
  shows that an event can be lost otherwise; the workers fail, are signalled and
  crash until `CalmDown`.

## Proofs

All theorems hold for every value of the constants that satisfies the named
assumptions: any number of users, files, document ids, requests, parts,
partitions, workers and messages.

### DocumentsProofs

Assumptions: `MaxPartsAssumption` (at least one part), `CountsAssumption`,
`NoneAssumption`.

`Inv == Shape /\ Backing /\ Promises` is inductive.

- `Shape` is `TypeOK` with `CallOK`: a request past its lookup is *attached* to
  the row it read, that is, the row still has the owner, digest and name the
  request remembers. That is why a stale read does no harm: `MarkMerged` never
  changes the three, and nothing removes a row.
- `Backing` says what a request at a given call may rely on: the merged object
  is there before `MarkMerged`, the row is merged before the cleanup and the
  event, the row is deleted before its event.
- `Promises` are `RowUnique`, `MergedBacked`, `IngestEventBacked`,
  `DeleteEventBacked`, `DeleteAcked` and `CompleteAcked`. None is inductive
  alone: each needs `Backing` for the call that establishes it. No run lists
  `DeleteEventBacked` and `CompleteAcked`: `LifeSpec` implies them.

`RowsAreKept` (what rows and merged objects never lose), `StillOrBrought` (how a
request comes to a call), `NewlyMerged`, `NewEvent` and `NewAnswer` (which
action is behind a change) keep each case short. From `Inv`: `OneRowPerUpload`,
`MergedRowHasObject`, `IngestEventIsGood`, `DeleteAnswerIsTrue`.
`BitsAreExplained` has an inductive invariant of its own, with
`MarkExplained` for the moment between the two calls of `UploadPart`.
`RowsChangeByOwner` is an action property from `Shape`. `ImplementsLife` is the
refinement `Spec => Life!Spec`: the initial states map, and each step maps to a
step of `DocumentLife` or to a stutter, given `Inv`.

### DocumentsLimits

What holds only under a condition, with the condition in the theorem:
`ResumeIsSound` for one owner (`OneOwner`), from `PartsExplained`, since the only
other user whose completion could have removed a part is the same user, and that
one's row is merged. `CompletionIsPublished` of
`ReliableSpec`, from an invariant that every merged row without an event has a
completion on its way to the publish; `Abandon` would break it, and that is the
finding.

### DocumentsProgress

`Left(r)` is the number of store calls request `r` has in front of it at most: for
a completion of `n` parts that has read `i` bits, `n - i` more, the compose, the
mark, `n` removals, the clearing and the publish. `RequestsRunOut`: every call
makes it smaller, a failed removal as much as one that worked, and nothing
another request does makes it larger. `RequestsAreBounded`: a completion of `n`
parts makes at most `2n + 4` calls, every other request two. The lemmas are one
per kind of step: the request's own (`StepNearer`), and that a step moves no
other request (`OnlyItsStep`).

### PipelineProofs

Assumptions: those of `DocumentsProofs`, and `WorkAssumption`, which gives the
workers' constants what `ConsumerProofs` assumes of them.

`RunsDocuments` and `RunsWorkers` map each step of the composition to a step or a
stutter of its halves. `WorkProofs == INSTANCE ConsumerProofs WITH Keys <- Event,
pc <- at` brings the theorems about the workers over: `WorkersKeepPromises` and
`PipelineDelivers` are `Consumer`'s invariants and its refinement, of the composed
system. `TopicOnLog` and `LogOnTopic` tie the two views of the one Kafka topic, the
set `topic` of `Documents` and the partitions of `Consumer`; `TopicGrowsByPublish`
says that only the steps `Carry` gives a partition to change `topic`, `MessagesStay`
that a log only grows. What neither half says alone follows from the two together:

- `DeletesReachWorkers`, with `DeleteAcked`: an answered delete is a message for
  the workers, whatever fails on either side.
- `CompletionsReachWorkers`, with `CompleteAcked` and the invariant of
  `CompletionIsPublished`: the same of completions, of `ReliablePipelineSpec`, since
  `documents_lost_ingest` refutes it with faults. An answer from the early return
  may come before the event of the completion that is still on its way, and the
  property says so: once no call on the document is under way.
- `SettledWorkIsTrue`, with `OnlyPublishedIsSettled` of `ConsumerProofs`: whatever
  the workers are done with was an event, and what it says is so for good.

`HeldEventsAreTrue` needs the types of the workers'
variables (`WorkOK`), that whatever the partitions hold was published
(`LogOnTopic`), and `Inv` of `DocumentsProofs`, which `RunsDocuments` carries
over; `PipelineSpec`, with all faults of both sides, is its hypothesis. The run
`pipeline` has the workers' faults only, so that it can ask for liveness too.

### ConsumerProofs

Assumptions: `MaxLogAssumption`, `NoneAssumption`, `OutcomesAssumption`.

`Inv == Shape /\ Promises`, where `Promises` are `AtLeastOnce`, `InOrder` and
`NothingSkipped`. They support each other: a commit is safe because the
message in hand was settled in order, a message is fetched in order because
nothing before the reader's position was skipped, and a new reader starts well
because what was committed is settled. `NothingSkipped` is about every reader of a
partition, the one that lost it too, which is why what it prefetched does no harm.
`Shape` adds to the types that offsets lie within the log, that a message at the
commit is settled, and that one about to be tried has tries left (`Tries`). `KeepsDelivery` is the refinement `Spec => Promise!Spec`, and
`OnlyPublishedIsSettled` is proved through it, from the steps of `Delivery` alone.

`MessagesTakeFewSteps` is about one message in a worker's hand: `Left(w)` counts two
for each attempt that is left (the handler, the pause), one for the dead letter, one
for the commit. Each step of `Run` makes it smaller, and nothing around the worker
makes it larger, be it a signal, a rebalance or a publish. A crash takes the
message out of the hand, with `Left(w)` at 0.

### AccountsProofs

Assumptions: `LongNamesAssumption`, `TeamsAssumption`, `NoneAssumption`.

`Inv == Shape /\ Promises`. `Shape` is `TypeOK`, `CallOK`, `Members` (a default
is a membership) and `Locking`: a request past `ClearPrimary` holds the lock of
its user's rows and has cleared every default they hold. `Locking` is what makes
the two updates one: nobody else can commit to these rows until the request
ends, so that its commit takes away all the defaults there are and adds one. A
`ClearPrimary` outside the transaction, the mutant of `OnePrimary`, breaks it and
leaves two defaults. `OneDefaultTenant`, `RegistrationIsWhole` and
`DefaultIsKept` follow. `ImplementsDefault` is the refinement `Spec =>
Promise!Spec`: `Commit` is the one step that changes the default a reader sees,
and `OnePrimary` is why that default is one value.

`NoCircularWait`: a request that waits for a lock waits for one that does not wait,
since a transaction locks the rows of one user only, at the last statement that
can wait (`Locks`). With `StatementsAreFew`, that a request executes five
statements at most, this is why requests end under strong fairness. The locks are
those of the rows of one user. InnoDB also locks gaps of an index, where the rows
of different users may meet; such a deadlock ends one of the transactions with an
error, which is `Abandon`.

`EveryUserHasTenant` draws the border of the finding about `Register`: under
`LongNames = {}` and `ReliableSpec`, where no statement fails, every user has a
default or a registration under way that brings it. `accounts_long_name` shows that
one name too long is enough to lose it without any fault.

### SessionsProofs

Assumptions: `AccessTTLAssumption`, `RefreshTTLAssumption`, `NoneAssumption`.

`Inv == Shape /\ LogoutFinal /\ HonouredUntilExpiry /\ Waning`. `Shape` is
`TypeOK`, `CallOK` and `OnlyGiven` (a session whose login was not answered has no
token and no logout). `CallOK` carries the argument for the races: a refresh
that came after its session's logout finds no key, and a login in flight works at
a session no client knows, so that `Save` cannot bring one back. `Waning` says of every access token
that its time left and the time since the logout add up to at most a lifetime;
`AccessBounded` is its consequence, and it is inductive only because a refresh
that came early holds the time since the logout at 0. `TypeCorrect`,
`LogoutIsFinal`, `AccessEndsAfterLogout` and `TokensAreHonoured` follow.

`NothingProlongsASession` is about steps: no step gives a refresh token time back,
time takes from each, and a session that is `Closed` (its refresh token has run out,
no refresh is on its way) stays so while its access tokens only lose time. Every
session ends by this once time goes on and requests do. `RequestsRunOut` bounds
the requests: two steps for a refresh, one for a login or a logout.

### PagesProofs

Assumptions: `DocIdsAssumption` (finitely many documents), `SizesAssumption`,
`MaxSecondAssumption`.

`Ahead(d)` counts the rows newer than `d`. Without a tie, `d` is in the first `n`
rows if and only if `Ahead(d) < n` (`InFront`, `OutOfFront`), whichever order the
query picked. `MissedInv` keeps a document that was not seen yet behind the pages
read, `Ahead(d) >= Offset`, since only the deletion of a newer row makes
`Ahead(d)` smaller; `RepeatedInv` keeps one that was seen before the pages to
come, since only a newer row makes it larger. `AnswerInv` ties the total, with
`drift`, to the rows and the page to the number of documents. `FindItems` counts a page as the
difference of two fronts. `TypeCorrect`, `TotalsMatch`, `MissedForAReason` and
`RepeatedForAReason` follow.

`UndisturbedWalksAreExact` puts the last two together: when no row comes or goes, no
two share a second and the size is at most `MaxSize`, each document is on exactly
one page and a deleted one on none. `Witnessed`, that rows and what was seen are
accounted for by `stayed`, `made` and `removed`, is inductive for it. `WalksEnd`:
an answer that is not empty has a page no higher than the number of documents
there ever were, so that rows which shift cannot keep a client turning pages.

### Only model-checked

- Liveness: `RequestsEnd` (both modules),
  `EventuallySettled`, `StopsAfterSignal`, `SessionsEnd`, `MergedIsSettled`,
  `DeletedIsSettled`. That a fair action is enabled is a statement with ENABLED,
  which is out of the prover's reach. What such an argument needs besides is
  proved for most of them:

  | liveness property | what is proved of it |
  |---|---|
  | `RequestsEnd` of `Documents` | `RequestsRunOut`, `RequestsAreBounded` |
  | `RequestsEnd` of `Accounts` | `StatementsAreFew`, `NoCircularWait` |
  | `EventuallySettled` | `MessagesTakeFewSteps`, `NothingIsSkipped` |
  | `SessionsEnd` | `NothingProlongsASession`, `RequestsRunOut` of `SessionsProofs` |
  | `MergedIsSettled` | `CompletionIsPublished`, `CompletionsReachWorkers` |
  | `DeletedIsSettled` | `DeleteAnswerIsTrue`, `DeletesReachWorkers` |

- The findings: `UserHasTenant`, `CompletePublished` and `ResumeSound`, which are
  false in general (`EveryUserHasTenant`, `CompletionIsPublished` and `ResumeIsSound`
  say when they are true), `MergedWhole` and `KeyKeepsPartition`.
- No module uses a RECURSIVE operator or needs induction over data, which the
  installed provers cannot do.

## Plan

The order was: `Documents` with `DocumentLife`, because the document service is
where most can go wrong; `Consumer` with `Delivery`, which the events are for;
`Accounts`; then `Sessions`, `Pages`, `Pipeline`, `DefaultTenant`, and the proofs
of each.

What is left waits for code. The worker's handler is a placeholder; when the
ingest service exists, `MarkIngestProcessing`, `MarkIngestDone` and
`MarkIngestFailed` get callers, `Pipeline` gets a handler that reads the row, and
the questions are whether a redelivered ingest event, or one behind a delete
event, may index a deleted document. Search and chat have no code to model.
