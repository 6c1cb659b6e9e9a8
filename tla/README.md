# A verification model of PipelineGPT's backend

PipelineGPT (`src/backend`) answers questions about pipeline safety documents. A
FastAPI process serves requests, Celery workers ingest documents and refresh
dashboard insights, PostgreSQL keeps the rows and Redis keeps the semantic cache,
locks, progress and counters. Almost everything that is hard about it happens
*between* two statements: a request reads a row, calls a model for a minute and
writes the row; a worker commits, then removes a file, then acknowledges its
message; a lock expires while its owner is busy. The tests run one request at a
time. The modules here run them in every order, with crashes, redelivery and
failing services, and state what must hold all the same.

Everything is translated from the code in `src/backend/app`. `PROJECT.json` names,
for every definition that models code, the lines it stands for.

## 1. Inventory

| Component (source) | State it keeps | Operations | What is hard about it |
|---|---|---|---|
| **Document ingestion**: `routers/ingest.py`, `services/bulk_import.py`, `services/upload_store.py`, `tasks/celery_app.py` | rows of `documents` and `chunks`, staged files, the Celery queue | upload, import of a folder, task with retries, deletion | at-least-once delivery, late acknowledgement, soft and hard time limits, a deletion between any two steps, crashes between commit, file and queue |
| **Questions and review**: `routers/query.py`, `routers/review.py`, `services/hitl.py` | rows of `queries`, `responses`, `hitl_reviews` | ask, answer or hold, decide, read the history | steps that fail after the commit, two engineers deciding at once, a history read in three statements |
| **Semantic cache**: `services/semantic_cache.py` | Redis entries | look up, store, expire, invalidate in batches | retrieval and storing straddle a change of the corpus, the scan runs beside writers |
| **Insights refresh**: `services/insights_refresh.py`, `routers/health.py`, the batch task | Redis lock and progress hash, `insights_json` | start, batch, chain, finish; lazy fill by the dashboard | lock that expires within a batch, redelivered batches, documents that come and go, stale rows |
| **Accounts**: `routers/auth.py`, `routers/admin.py`, `middleware/auth.py` | rows of `users`, `invitations`; tokens | invite, accept, enrol, sign in, suspend, reset | everything is read in one statement and written in another, without locks |
| **Token budget and login guard**: `middleware/rate_limit.py` | Redis counters with a time to live | check, charge, lock out, claim a code | counters read before and written after a request, keys that expire by clocks of their own |
| **Parsing and chunking**: `ingest/*` | none | cut into windows, collect, number | boundaries of windows and overlaps, numbers counted three ways |
| **Retrieval, prompts, risk**: `services/retriever.py`, `services/llm.py`, `services/hitl.py` | none | rank fusion, confidence, classification | ties and gaps in rankings, rules about neighbouring blocks and enclosing sections; wording |
| **Audit log**: `services/audit_log.py`, `routers/audit.py` | append-only table | log, list by pages, export | writing it is a step that may fail after a commit; pages cut from a list that moves; rows of earlier releases |
| Health, statistics, configuration, start-up, logging, embedding | none that others depend on | reads | pure input/output |
| Migrations, provisioning and installation scripts | - | - | outside the running program |

How they interact: an upload stages a file, commits a row and queues a task
(`DocumentIngest`); the task's commit changes the corpus and then drops the cache
(`AnswerCache`); a query reads that cache, stores into it after its commit and may open a
review (`QueryReview`, where a change of the corpus appears as `DropFromCache`); the refresh
walks over the documents that ingestion completed and that an engineer may delete
(`InsightsRefresh`); every request first resolves its account (`Accounts`) and its budget
(`TokenBudget`); a sign-in passes the lockout (`LoginGuard`). Inside a task a loader makes
the chunks (`Chunker`); inside a question the answer is classified (`AnswerChecks`), which
is what `QueryReview` calls LOW or held. Rows of reviews, documents and audit events are
read by pages (`PagedLists`) while all of this goes on.

What makes each correct, in short: a document settles, exists once and has exactly
its chunks; an answer that must be reviewed is never shown before and a decision is
never overwritten; a finished invalidation leaves nothing old behind; a refresh
visits every document and gives its lock back; an invitation becomes one account
and an enrolled account can be signed in to; limits are overshot by no more than what
runs at once, and a lockout ends; no word of a document is lost to its chunks; an answer
escapes review only for all reasons together; turning pages loses rows only to movement.

## 2. Modules

| Module | Models | Abstract counterpart |
|---|---|---|
| `DocumentIngest` | ingestion pipeline | `KnowledgeBase`: a catalog of documents that are indexing, searchable, failed or removed |
| `QueryReview` | query request, review request, history request | `AnswerRelease`: how far an answer got: pending, answered, withheld, released, refused, failed, or lost to an error after its commit |
| `AnswerCache` | cache against changes of the corpus | - |
| `InsightsRefresh` | refresh runs, batches, dashboard fill | - |
| `Accounts` | invitations, enrolment, sign-in, administration | - |
| `LoginGuard`, `TokenBudget` | lockout, one-time codes; daily budget | - |
| `Chunker` | the loaders' loops from text to numbered chunks | - |
| `AnswerChecks` | the loops of the confidence estimate and of the risk classification | what the docstrings say, as definitions over the input |
| `PagedLists` | audit trail, review queue and documents by pages | - |
| `*_proofs` | theorems; `Guards_proofs` is about `LoginGuard` and `TokenBudget`, `Text_proofs` about `Chunker` and `AnswerChecks`, the others about the module they are named after | |
| `MC*` | small instances for TLC | |

Conventions. A process (a request, a worker, an import) is a record whose `pc` names
the step it takes next; its other fields are the values it has read and will use
later, which is where stale reads live. An action is one database transaction, one
statement, one Redis call or one file or queue operation, whatever can be
interrupted before or after. Faults are actions guarded by the constant `Faults`, so
each run says which may strike. Operators marked *Faulty* in a comment are plausible
bugs: they are no part of a specification, and replacing the operator below them by
them breaks the property that `PROJECT.json` pairs them with.

### DocumentIngest

`status` and `chunks` are the rows, `staged` the directory, `queue` the bag of
messages, `worker`, `upload` and `deleter` the processes.

* Upload (`CheckUpload`, `StageUpload`, `InsertDocument`, `Dispatch`): deduplication
  looks the content up, the file is staged, the row inserted and the task queued. The
  unique index on `sha256_hash` decides a race: `InsertDocument` needs
  `~HasContentOf`, the loser takes `UploadConflict` (500, file left behind) or, in an
  import, `ImportConflict` (file removed). An import (`CheckImport`) handles one file at
  a time and remembers the contents it did not skip in this run (`SeenInRun`).
* Task (`Deliver` ... `Acknowledge`): loading the row, PROCESSING together with the
  removal of old chunks, reading, embedding and storing together with COMPLETED,
  audit and invalidation, retry or clean-up, acknowledgement. What SQLAlchemy does is
  part of the actions: `MarkProcessing` writes a status only if it differs from the
  loaded one, and an update of a row that is gone raises (`MarkDeleted`).
* `SendRetry` publishes a *new* message and leaves the old one to be acknowledged
  later, which is what makes `crash_resent` interesting.
* `WorkerDies` puts the message back (acks_late, reject_on_worker_lost);
  `HardTimeLimit` loses it (Celery acknowledges a task it kills); `AwaitTimesOut` is the
  soft limit that surfaces outside the coroutine, whose `except Exception` does not see
  the cancellation.

Each fault is a constant: `crash` (during the task), `crash_ack` (after its last step),
`crash_resent` (after the retry was sent), `api_crash`, `audit`, `outage`, `slow_embed`,
`hard_limit`. The comment of each property names the ones it excludes.

### QueryReview

`asker` runs from the PROCESSING row through lookup, generation and the commit (one
transaction for response, review row and status) to the steps after it: store in the cache,
count tokens, audit, stream. An exception at any step ends in `MarkFailed`, which overwrites
whatever was committed; `spoiled` remembers the queries whose request failed after its
commit, and pc "gone" those whose request ended without writing anything. `LockReview` is
`SELECT ... FOR UPDATE`; `Decide` commits the decision with the status. The history reads
queries, responses and reviews in three statements. What classification looks at is reduced
to its result, LOW or HELD.

### AnswerCache

Queries scan keys, read entries, retrieve up to `Variants` times, store; changes of the
corpus commit and then invalidate: SCAN with deletion in batches of `Batch`, during which
new keys may or may not be met (`MeetNewKey`). `corpus` counts commits, `basis` is the
oldest corpus an answer rests on and `latest`, history, how the latest change that ended did
so: an invalidation that finished makes up for earlier ones that did not. A redelivered or
retried ingest first removes its chunks (`RetractChunks`), a change of the corpus of its
own, and need not get any further: an attempt may fail before its commit (`IngestFails`: the
file is gone or unreadable, the embedding or the database fails) or at its audit row
(`AuditFails`), again and again until the retries are used up, or meet the soft or the hard
time limit anywhere (`TimeIsUp`). A dead worker's task is delivered again, also one that had
ended and was not acknowledged (`ChangeCrashes`, `Mortal`). All queries here ask the same
question in one scope: every one could reuse every other's answer.

### InsightsRefresh

`TakeLock` ... `DispatchFirst` are the start request; `CheckLock` ... `Acknowledge` a batch:
the lock is compared and renewed once, documents after the cursor are loaded, refreshed one
commit at a time and counted, the successor is queued after `run_batch` returned, and a
batch that was not full marks the progress done and compares and deletes the lock in two
calls. `LoadMissing` and `FillMissing` are the dashboard's lazy fill. A document becomes
eligible when its ingest completes (`DocumentIngested`) and leaves when it is deleted or its
ingest runs again (`IngestBegins`: the task of a COMPLETED document was retried or
redelivered, and it is PROCESSING until that attempt completes, with new insights, or for
good). `gone` are the deleted ones, whose UPDATE raises under a batch that had loaded them.
`stayed`, the documents eligible ever since a run counted them, `visited`, and `abandoned`,
the runs a failure of which nothing takes up again, are history; `struck` records the kinds
of faults so far, so that a property can excuse what a fault undoes from the moment it
strikes.

### Accounts

A request slot runs any of: invite, accept, change a status, reset, set up or verify an
authenticator, sign in. `seen` is what it has read of a row; the ORM writes the columns
that differ from it (`SetStatus`, `ResetMFA`, `StoreSecret`). `device` is the user's
authenticator (external). `raced` records the three races that the code leaves open, so
that the properties say precisely what they cost. An enrolment races when it writes over a
secret (`StaleSecret`) or, storing a new one, over a flag (`StaleRow`) it had not read. The
second takes three requests: a setup that has read no secret and no flag, a verification of
an earlier setup, and an admin's reset that had loaded the row before it was verified and so
writes back the secret alone, since SQLAlchemy writes only what differs from the loaded
value. The first setup then stores its secret under a flag that says it was verified. The
run has two requests; the proof of `EnrolmentsCanSignIn` is what found this.

### LoginGuard and TokenBudget

A slot is a request, an action one Redis command or pipeline. Time passes in ticks of 30 s
for `LoginGuard`, the step of a one-time code, and in hours for `TokenBudget`; a code is
its step relative to now, so that the state stays finite while time goes on for ever. A key
that lives n ticks is gone at the n-th, the earliest moment it can be. A code that was
verified may wait up to `MaxDelay` ticks before it is claimed. `accepted` and `spent` are
history.

### Chunker, AnswerChecks

`Chunker` steps through the loops of the loaders: a block of the file, its windows, the
running numbers, the final numbering; the files of a zip are numbered each from 0
(`NextMember`) until the task numbers all chunks anew. A text is the number of its words.
`AnswerChecks` follows one call of `estimate_confidence` or `classify_risk`, one action per
turn of a loop: `CutLine` is a line of `_blocks`, `WeighPart` a block of the loop that
counts claims, `PickClause` a heading or clause of `_recommendation_clauses`, and `EndLoop`
goes from one loop to the next; `Score` and `Risk` are what is returned. A block (`parts`)
is its kind with its first and last line. A line or clause is a record of what the regular
expressions find in it; a line that cites several sources is a line with one citation.
Beside the loops stands what the docstrings promise, as quantified statements over the input
(`IsBacked`, `Recommends`): they speak of lines and know no blocks. The docstring says more
than the code does about lines that end in a colon; `IsOverlooked` names the claims for
which that matters. A section ends at the next heading of any level, in the code and here.
`MCText` makes each input an initial state.

### PagedLists

`stamped` are the rows that have a timestamp and `older` says which of two has the earlier
one; two rows of which neither is older share it. A row gets its timestamp (`Stamp`) before
it shows up (`Come`), leaves by a change of status, a deletion or a decision, and its id may
be used anew once nobody remembers it. A response is two statements, `Count` and `Fetch`,
with a snapshot each; `Listings` are all orders the ORDER BY allows, which for the audit trail
leaves ties open: a row is `Placed` if no other row the client is due has its timestamp. The
client that turns the pages and the engineer who keeps taking the first page of the queue are
external; `left` and `came` count, up to the number of rows, what moved while the client read.

## 3. Runs

| Run | Question | Instance |
|---|---|---|
| `ingest_faults` | Are documents unique, chunks in step with the status, files there for the messages, and does the pipeline implement `KnowledgeBase`? | three attempts at one content (one upload, two files of one import), two workers, one retry, two crashes, all faults but `crash_ack`, `crash_resent` |
| `ingest_redelivery` | Does somebody always hold the work and the file, and does every document settle? | an upload and an import of one content, two workers, one retry, two crashes anywhere, audit failures; fairness |
| `query_review` | Do decisions stand, is only LOW streamed or cached, do query and review rows agree, is a settled history safe, does every question settle, does it implement `AnswerRelease`? | two like questions, two engineers, one reader; generation, Redis and database failing at any step, clients that go away; fairness |
| `cache_invalidation` | Is an invalidation complete, when may a cached answer be stale, does an ingest that changed the corpus invalidate or fail for good in the end? | two queries of two retrievals, an ingest and a deletion, batches of two, two attempts, one crash, all faults; fairness |
| `refresh_batches` | Is every document visited that stays, are insights kept? | one run, three documents (one arrives and may be ingested again any number of times, one may be deleted, one has no insights), batches of one, two workers, a dashboard, one retry, failing batches or a worker death |
| `refresh_lock` | Does a refresh run alone, can its status be read, has it counted every document when it is done, does it give its lock back? | two starts, two workers, two documents of which one may be deleted, batches of two, one retry, any one kind of fault; fairness |
| `accounts` | Is an invitation accepted once, is one open at most, can who is enrolled sign in, does an admin remain? | one admin, one person invited as admin, two invitations, two secrets, two requests at once, one race |
| `guards` | By how much are the limits of failures and tokens overshot, is a code accepted once, does a lockout end? | one account and address, two requests at once, a limit of one failure for the email and of two for the address, a lockout of two ticks, one tick of delay; two questions of up to two tokens, a budget of three, days of three hours; fairness |
| `text` | Are chunks complete, overlapping and numbered; is the confidence the documented one but for colons, is a risky answer held? | files of up to three blocks of nine words, windows of four with an overlap of two; answers of up to four of 19 kinds of lines; up to three clauses |
| `listing` | What may a client that turns pages miss, does every review get its turn? | three rows, pages of one or two, every role and filter; fairness |

Two more runs refute what the repository says of itself (section 6).

Why the bounds are enough. Two processes of a kind are what every race here needs: the
interference is pairwise, since a row, a lock or a message has one writer that is
overtaken by another. One retry gives a first, a repeated and a last attempt; two crashes
let a recovery crash again. Batches of one or two documents or keys produce the full, the
partial and the empty batch, which is where `EndBatch` and `DeleteBatch` decide. Four
lines hold every rule about blocks with a block before, one after and one that must not
matter; windows of four words with an overlap of two meet every remainder within nine. The
theorems of section 5 remove the bounds for the core: `FinishedRunVisitedAll` is checked with
one run that meets arrivals, repeated ingests and deletions and proved for any number of runs
and for expiring locks, `DoneCountsEveryDocument` is checked with two runs and a deletion and
proved with everything that moves documents. Deletions alone use up the retries of a batch when
there is one more of them than retries; in the run a deletion joins a failure of another kind.
`CHECK_DEADLOCK FALSE`: a state in
which every request has ended and the queue is empty is a proper end.

Named bounds: `MaxDelay`, `MaxCost`, `MaxWords`, `MaxBlocks`, `MaxCrashes`, `MaxKinds`
(kinds of faults in one behaviour), `MaxRaces`, and the finite sets of ids. `MaxRetries`,
`BatchSize`, `MaxScan`, `Batch`, `Variants`, `MaxFill` and `MaxAttempts` are parameters of
the code with small values.

## 4. Fairness

* `DocumentIngest`: weak fairness of `Dispatch` for each upload (a request that is not
  killed queues its task) and of `TaskStep` for each worker (Celery's worker loop).
  Nobody must upload or delete, and no fault is fair. A task may fail every time, since
  `StoreFails` is one of its steps: `Settles` holds through `MaxRetries`.
* `QueryReview`: weak fairness of each query request's own steps; not of engineers or
  readers. A cancelled request and a database that stays away are excluded from
  `QuestionSettles` because the code does nothing about them; every other fault is in.
* `AnswerCache`: weak fairness of each change's steps, redelivery included. No failure is
  fair and none is excluded: an ingest may fail in any attempt, at any step.
* `InsightsRefresh`: weak fairness of each start request and of each worker. `LockIsGivenBack`
  excuses the runs in `abandoned`: a start request that failed, a batch whose retries are used
  up (deleted documents use them up too), one killed at the hard limit, a successor that could
  not be queued.
* `LoginGuard` (`GuardsSpec`): time passes and a request that has begun goes on. Nobody must
  sign in. `TokenBudget` has safety properties only.
* `Chunker`: the loop goes on.
* `PagedLists`: the engineer at the queue takes the first page whenever she has decided the
  last, and decides what she has. That is an assumption about people; what it shows is that
  the order of the queue starves nobody as long as they work.

## 5. Theorems

All are checked by TLAPS, for any sets of ids, any number of processes side by side and any
values of the parameters. What they assume of the constants is in the `ASSUME` of each
module (`ConstantsAssumption`, `LoginAssumption`, `BudgetAssumption`, `ChunkerAssumption`,
`ProblemsAssumption`, `PagedAssumption`), which TLC evaluates in the runs, and in the last
column here. A property that excuses a fault or a race does so in its own statement, by what
`struck`, `raced` or `spoiled` records, and the theorem then needs no assumption.

### Ingestion: `DocumentIngest_proofs`

| Theorem | Says | Assumes of the faults |
|---|---|---|
| `TypeCorrect` | `Spec => []TypeOK` | nothing |
| `ContentIsUnique` | `Spec => []UniqueContent` | nothing |
| `NothingIsForgotten` | `Spec => []NothingForgotten` | `NoLossFaults`: none that drops the task or its message (`api_crash`, `outage`, `slow_embed`, `hard_limit`) |
| `TicketIsUnique` | `Spec => []OneTicket` | no `crash_resent` |
| `ChunksAreStoredOnce` | `Spec => []ChunksMatchStatus` | no `crash_resent` |
| `QueuedFilesAreKept` | `Spec => []QueuedHasFile` | `NoFileFaults`: no `crash_ack`, `crash_resent` |
| `StagedFilesAreOwned` | `Spec => []StagedHasOwner` | `NoOrphanFaults`: no `api_crash`, `hard_limit` |
| `PipelineImplementsKnowledgeBase` | `Spec => ImplementsKnowledgeBase` | no `crash_resent` |

`ChunksMatchStatus` is not inductive: that storing adds the only copy rests
on nobody else storing. `OneTicket` supplies that: a document's task exists once, in the
queue or in one worker's hands, and not before it was queued. It is inductive as it
stands, but for a death between the retry and its acknowledgement, which is exactly the
fault excluded. With it, `RowFollowsTask` says what a worker may rely on in the row it
has marked (PROCESSING or deleted), which makes the chunks follow. `Lifetime` says that
rows and deletions come after the insert and an id is not used again: without it a deletion
could precede its document. `FileKept` strengthens `QueuedHasFile` to workers that still
need the file; a worker that has removed it and then dies is the excluded fault.
`StagedHasOwner` needs only that an idle worker answers for no document
(`IdleHasNoDocument`): each step passes the file on, from request to message to worker, back
to a message when a worker dies or retries, and to nobody only when it is gone. The
refinement maps `status`, `chunks` and `deleter` to one catalog; every action is a step of
`KnowledgeBase` or leaves the catalog alone, and the invariants exclude the value
`"corrupt"`.

### Questions and review: `QueryReview_proofs`

| Theorem | Says |
|---|---|
| `TypeCorrect` | `Spec => []TypeOK` |
| `DecisionsStand` | `Spec => []DecisionStands` |
| `StreamsAreSafe` | `Spec => []StreamIsSafe` |
| `StatusMatchesReviews` | `Spec => []StatusMatchesReview` |
| `SettledHistoriesAreSafe` | `Spec => []SettledHistoryIsSafe` |
| `QueriesImplementAnswerRelease` | `Spec => ImplementsAnswerRelease` |

All rest on one invariant, `QueryInv`, under all faults. `RowInv` ties the three rows of a
query to the `pc` of its request: no response before the commit, a review exactly for a held
response, and from then on the status that goes with the review (`Outcome`) unless the
request has failed since. `AnswerInv` follows an answer along its detour: whatever is in the
cache, was found there, is about to be stored or is a response to another query was generated
for its own query and classified LOW (`Free`). `ReviewInv` says that a locked review is open
and nobody else's, and a recorded decision stands. `ReaderInv` says which of the things a
history has read are still true: DELIVERED and FAILED are final, so what it reads later in
other statements must agree with them; the other statuses it may read promise nothing, and
need not. The refinement maps the rows of each query to its fate (`Fate`); the invariant
excludes `"corrupt"` and tells each step which fate it starts from.

### Semantic cache: `AnswerCache_proofs`

| Theorem | Says |
|---|---|
| `TypeCorrect` | `Spec => []TypeOK` |
| `InvalidationsAreComplete` | `Spec => []InvalidationIsComplete` |
| `CachedAnswersAreFresh` | `Spec => []AnswersAreFresh` |

`CacheInv`: an answer about to be stored is current or its query was overtaken (`QueryInv`);
what an invalidation found when it began and is still cached is among the keys it has yet to
delete, because a query stores once, and what is cached beside those is current if the change
was the latest (`ChangeInv`). Neither the batch size nor what SCAN returns of new keys matters.

### Insights refresh: `InsightsRefresh_proofs`

| Theorem | Says |
|---|---|
| `TypeCorrect` | `Spec => []TypeOK` |
| `FinishedRunsVisitAll` | `Spec => []FinishedRunVisitedAll` |
| `InsightsStay` | `Spec => InsightsAreKept` |
| `DoneCountsEverything` | `Spec => []DoneCountsEveryDocument` |
| `RefreshesAreAlone` | `Spec => []RefreshesAlone` |
| `StatusStaysReadable` | `Spec => []StatusIsReadable` |

`VisitInv` says of a cursor what it promises: the documents up to it that stayed were
visited and, as long as the progress is that of the run, counted (`Accounted`, `QueueInv`);
a batch extends this by the documents it has done with, and those it leaves out lie beyond a
full batch (`BatchInv`, `Follows`). It needs no lock, which is why a run visits everything
that stays whoever took its lock meanwhile. `RunInv` keeps messages and progress of a run
from existing before it dispatches. `OneTicket`, `LockHeld` and `ProgressHeld` hold until a
fault they name strikes: a run is in one message or one worker's hands, has the lock from
its start to its end, and the progress is its own while it does. That the first `BatchSize`
documents after a cursor lie before all others (`BatchIsFirst`) is a lemma about finite sets
of numbers, from the least-number principle.

### Accounts: `Accounts_proofs`

| Theorem | Says | Assumes |
|---|---|---|
| `TypeCorrect` | `Spec => []TypeOK` | nothing |
| `InvitationsMakeOneAccount` | `Spec => []OneInvitationAccepted` | nothing |
| `InvitationsAreSingle` | `Spec => []OneOpenInvitation` | nothing |
| `EnrolmentsCanSignIn` | `Spec => []EnrolledCanSignIn` | nothing |
| `AdminsStayActive` | `Spec => []SomeAdminIsActive` | there is an admin to begin with (`FirstAdmins # {}`; without one nobody can invite) |

`AccountsInv` says what each request may rely on between its statements (`RequestInv`: the
person of its invitation, the role of its admin, that the secret it verified is on the
device), and that without a race a person is invited by one request at a time
(`InvitedInv`). Accounts keep their role, devices their secrets and races stay noted
(`Frame`). An admin who suspends somebody is never the one suspended and was an admin when
the row was loaded: either that admin is still active, or the race is noted.

### Limits: `Guards_proofs`

| Theorem | Says | Assumes |
|---|---|---|
| `LoginFailuresAreBounded` | `Spec => []FailuresAreBounded` | nothing |
| `CodesAreSingleUse` | `Spec => []CodeAcceptedOnce` | `MaxDelay <= 1`: a code is claimed within a tick of 30 s of its verification |
| `BudgetOvershootIsBounded` | `BudgetSpec => []OvershootIsBounded` | nothing |

An attempt that is about to record its failure was counted by nobody when it
looked; so `FailureInv` counts, with the failures of a counter, every attempt that has
looked at it and may still add to it (`AtRisk`). An attempt joins them only below the
limit, and recording a failure moves one from the second number to the first. `BudgetInv`
does the same with the largest cost of the answers that are under way; it also needs that
the key outlives the day (`used > 0 => left + hour >= Hours`), without which the counter
would forget tokens the day has spent. `CodeInv` says that a claim outlives its code: with
four ticks to live it lasts until the code is three steps old, and a code verified at one
step of age, at most, and claimed within a tick is two. A request that takes longer
between the two is outside the theorem: for `MaxDelay = 2` the property is false.

### Text: `Text_proofs`

| Theorem | Says |
|---|---|
| `ChunkerTypeCorrect` | `ChunkerSpec => []ChunkerTypeOK` |
| `FilesAreChunkedWell` | when a file is done, `EveryWordIsInAChunk`, `WindowsOverlap` and `IndexesAreUnique` |
| `ChecksInvariant` | `CheckSpec => []ChecksInv`: types, the blocks cut and the claims and clauses counted so far |
| `ConfidenceFollowsTheDocstring` | `CheckSpec => []ConfidenceOverlooksOnlyColons` |
| `RiskyAnswersAreHeld` | `CheckSpec => []RiskyIsHeld` |

Of a file, for windows of any size with a smaller overlap (the code has 300 and 37 words), and
any number of blocks of any length. `ChainInv`: the windows of the current block cover it from
its first word to the end of the last window, each going on where the one before it ends less
the overlap, which is where the loop starts the next. `FileInv`: the chunks collected so far
cover the blocks before and are numbered as the loader leaves them. That the loop ends, the
other half of `EveryFileIsChunked`, is for TLC.

Of an answer, for any number of lines and clauses. The difficulty is that the code and the
docstring speak of different things: the code cuts blocks in one pass, each line looking
only at the last block, and then scores block after block; the docstring gives each line the
list or table it sits in, the block next to it and the section it stands in. `PartsFor`, the
invariant of the first loop (`PartsOfMore`), says that the blocks are in order, leave out
nothing but blank lines, hold lines of their kind and end where the next line could not go
on. That suffices, by no induction, since a block that could go on and does not contradicts
it: two lines are in one list or table of the docstring exactly when they are in one block of
that kind (`OneListIs`, `OneTableIs`, `BlockIs`), the next line that is not of the block and
has nothing but blank lines between begins the next block, or ends the one before
(`NextAfter`, `NextBefore`), and the cited heading above is the one the loop has noted
(`SectionIs`). So a claim counts as backed exactly when the docstring says so
(`SupportedIs`), except for the claims that only a cited item, row or bare citation ending in
a colon would back. `ConfidenceInv` adds that the tallies are the numbers of claims, and of
backed ones, up to the end of the last block that was weighed; each block adds claims that
are not among those before (`ClaimsOfMore`, `CountsAdd`), and after the last block no claim is
left (`AllClaims`). `RiskInv` says the same of clauses: what has been named, and whether the
nearest heading announces recommendations.

### Pages: `PagedLists_proofs`

| Theorem | Says |
|---|---|
| `PagedListsTypes` | `PagedSpec => [](PagedTypeOK /\ TimeIsAnOrder)` |
| `PagedListsMissOnlyMoved` | `PagedSpec => []MissedRowsMoved` |

For any finite set of rows, pages of any size and any filter. The place of a row (`Place`) is
the number of rows before it. In every listing the ORDER BY allows, a row whose timestamp no
other shares stands at its place (`ListedAtItsPlace`), so a page shows the rows whose
places it covers (`OnItsPage`). `PagesInv` bounds the rows that can still be lost:
`Passed`, the unseen rows whose place lies before the offset of the next page, are no more
than the rows that left. One that leaves moves every later row one place to the front, and
places differ, so at most one unseen row passes the offset (`RowLeaves`, `PlacesDiffer`); one
that comes only moves rows back (`RowsCome`). What is unseen when a client stops at a total
that was counted earlier came after the count; the second half of `PagesInv` says so.

### Only model-checked

Liveness, since fairness and ENABLED are out of the prover's reach: `Settles`,
`QuestionSettles`, `IngestInvalidates`, `LockIsGivenBack`, `FailuresAreForgotten`,
`EveryFileIsChunked` (its safety half is a theorem) and `EveryReviewGetsItsTurn`.

Every invariant and action property of every run that passes is a theorem.

## 6. Where the repository disagrees with itself

With a run each:

* `import_rerun`: "an interrupted import can simply be run again" (`bulk_import.py`). An
  import that dies between the commit and the dispatch leaves a PENDING row that makes
  every later import skip the file.
* `rejected_exposed`: "rejected ... and has been withheld". A usage counter that fails after
  the commit, and after an engineer has rejected the held answer meanwhile, makes the row
  FAILED, and the history shows its answer. (A decision taken after FAILED overwrites it with
  REJECTED, `hitl.py:151`, and the answer is withheld.)

Met while modelling, part of a model or excused by name in a property, without a run of
their own:

* "A document that exceeds it is marked failed instead of being retried" (`CHANGELOG.md:44`).
  A soft time limit that strikes during an await (`AwaitTimesOut`) ends the task and leaves
  the row PROCESSING: the cancelled coroutine sees `CancelledError`, which `except Exception`
  does not catch (`celery_app.py:70,198`). `NothingForgotten` excludes `slow_embed` for it.
* "Never expose an unreviewed or rejected answer to the asker" (`query.py:121`). Status and
  response are read by different statements: a history that reads PROCESSING, then the
  response of an answer held meanwhile, shows it. `SettledHistoryIsSafe` is about histories
  that found the query past PROCESSING.
* "Identity / security events — only ADMIN should see these" (`audit.py:19`):
  `USER_STATUS_CHANGED`, of category Security in `_EVENT_META`, is not in the set, and
  engineers see it. An admin-only type that an engineer asks for is an empty list by pages
  and an ignored filter in the export (`audit.py:167,208`).
* The audit trail is ordered by time alone: a row that shares its microsecond with another
  may be missed by a client that turns pages. A client that stops at `total` may miss as many
  rows as arrived between the count and the page (`MissedRowsMoved`).
* Attempts that run at once all pass the lockout and the budget: `FailuresAreBounded` and
  `OvershootIsBounded` say by how much.

* A worker that dies after removing the staged file and before the acknowledgement: the
  redelivered task removes the chunks, finds no file and makes a COMPLETED document FAILED
  (`crash_ack`; `celery_app.py:80`).
* A worker that dies between the retry message and its acknowledgement: two tasks of one
  document may store its chunks twice (`crash_resent`; `celery_app.py:79`).
* A query that retrieved before a change and stores after its invalidation caches an
  answer from the old corpus (`AnswersAreFresh`, `raced`; `query.py:333`).
* "The whole cache is dropped whenever the document corpus changes" (`semantic_cache.py:4-6`).
  A task that is repeated commits PROCESSING and no chunks first (`celery_app.py:147-150`), and
  the error path of the attempt does not invalidate (`celery_app.py:198-212`). One that then
  fails for good, because its retries are used up, its staged file is gone or a time limit
  strikes, leaves cached answers that cite chunks which are no longer there, until they expire
  or another change invalidates (`IngestInvalidates` says "or it fails for good").
* A COMPLETED document whose ingest is retried or redelivered while a refresh loads its batch is
  PROCESSING then and COMPLETED again at the end: the run neither visits nor counts it and
  reports that it is done (`insights_refresh.py:94-96,119`; `stayed` leaves it out of
  `FinishedRunVisitedAll` and `DoneCountsEveryDocument`). When that ingest completes it writes
  its insights anew, over those a refresh has stored, and `{}` when Claude fails
  (`celery_app.py:188-195`; `InsightsAreKept` names it).
* "a refresh whose worker died frees itself after LOCK_TTL_S" (`insights_refresh.py:6-7`),
  and so does every run nothing takes up again: four documents deleted under one batch use
  up its retries and leave the lock and a progress hash that says running
  (`celery_app.py:245-246`; `LockIsGivenBack`, `abandoned`).
* "a cited line ending in ":" covers the list or table after it" (`llm.py:266-268`). The code
  asks that the line be prose (`llm.py:301`): a cited list item, table row or bare citation that
  ends in a colon does not cover the list or table after it, and the score is lower than
  documented, never higher (`ConfidenceOverlooksOnlyColons`).
* The refresh lock lives an hour and is renewed only when a batch begins; a slow batch
  outlives it, and a second refresh runs beside the first (`RefreshesAlone`, `expiry`;
  `insights_refresh.py:92`).
* The progress hash expires under a run that is still going; counters recreate it without
  `run_id`, and the status request then raises (`insights_refresh.py:48,79,111`).
* The dashboard's lazy fill writes what it computed from rows read before several model
  calls, over insights stored since (`InsightsAreKept`; `health.py:100-113`).
* A client that disconnects cancels its stream and leaves the question PROCESSING
  (`query.py:225`; pc `"gone"`, which `QuestionSettles` excuses). An upload that loses the race
  for the unique index leaves its staged file (`ingest.py:123`; the last case of
  `StagedHasOwner`).
* Concurrent invitations, enrolments and suspensions (`raced` in `Accounts`). In particular an
  admin's reset that had loaded the account before it was enrolled clears the secret and leaves
  `mfa_enabled` set, and a setup under way then stores a secret under it that nobody has
  verified (`admin.py:155`, `auth.py:241`).

## 7. What is not modelled

Prompts, the regular expressions that find citations, figures and advice, the embedding
search, labels and metadata of chunks (wording, which no model tells apart); rank fusion
(a sort by sums); the audit export (one query and its formatting); statistics,
configuration, start-up, request logging, migrations and scripts. Within the modelled
parts: texts, names, tags, who asked, floating-point rounding of scores, times other than
expiry and order, and detail views. `chunk_count` is only displayed and has no variable: a
failed retry of a completed document shows its old count (`celery_app.py:183`).
`PROJECT.json` gives the reason for each component.

## 8. Plan

Order: what corrupts or loses data first, what is shown to the wrong reader next, then
what is only stale or stuck.

1. Done: `KnowledgeBase`, `DocumentIngest` and their proofs; `AnswerRelease`,
   `QueryReview`; `AnswerCache`; `InsightsRefresh`; `Accounts`; `LoginGuard`,
   `TokenBudget`; `Chunker`, `AnswerChecks`; `PagedLists`.
2. Theorems: done for the safety of every module.
3. A composition of `DocumentIngest` and `AnswerCache`, so that the corpus of the second
   is the set of chunks of the first.
