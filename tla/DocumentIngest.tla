--------------------------- MODULE DocumentIngest ---------------------------
(***************************************************************************)
(* From an upload to searchable passages: the upload endpoint and the bulk *)
(* importer stage a file, insert a PENDING document and queue a Celery     *)
(* task; a worker marks the document PROCESSING, reads and embeds the      *)
(* staged file and commits COMPLETED or FAILED; an engineer may delete the *)
(* document at any moment.  The queue delivers at least once               *)
(* (acks_late, reject_on_worker_lost), a failed attempt is retried by a    *)
(* new message, and each of upload, worker and deleter may die between two *)
(* of its steps.  Each action is one database transaction, one file        *)
(* operation or one queue operation of the code.                           *)
(*                                                                         *)
(* Left out: file names, tags and chunk text; the summary written with the *)
(* chunks; the audit rows (only that writing one may fail is modelled).    *)
(***************************************************************************)
EXTENDS Naturals

CONSTANTS
    Documents,   \* document ids; an upload attempt draws a new one (uuid4)
    Contents,    \* file contents, told apart by their SHA-256
    ContentOf,   \* the content each attempt uploads
    ImportRuns,  \* runs of the bulk importer
    Source,      \* where an attempt comes from: an import run or "api"
    Workers,     \* Celery worker processes
    MaxRetries,  \* max_retries of the task
    MaxCrashes,  \* bound: crashes of any process in one behaviour
    Faults,      \* which of FaultKinds may happen in the instance checked
    NoDocument

(***************************************************************************)
(* crash         a worker process dies while it works on a message         *)
(* crash_ack     ... after the last step of the task, before its ack       *)
(* crash_resent  ... after it sent the retry message, before its ack       *)
(* api_crash     an upload, import or delete request dies between two steps*)
(* audit         writing an audit row fails                                *)
(* outage        the database is gone when the worker changes a status     *)
(* slow_embed    the soft time limit strikes while the task awaits         *)
(* hard_limit    the hard time limit kills the task                        *)
(***************************************************************************)
FaultKinds == {"crash", "crash_ack", "crash_resent", "api_crash", "audit",
               "outage", "slow_embed", "hard_limit"}

Message == [doc : Documents, retries : 0 .. MaxRetries]

ASSUME ConstantsAssumption ==
    /\ ContentOf \in [Documents -> Contents]
    /\ Source \in [Documents -> ImportRuns \cup {"api"}]
    /\ "api" \notin ImportRuns
    /\ MaxRetries \in Nat
    /\ MaxCrashes \in Nat
    /\ Faults \subseteq FaultKinds
    /\ NoDocument \notin Documents

VARIABLES
    status,   \* documents.status; "none" when there is no row
    chunks,   \* copies of the document's chunks in the chunks table
    staged,   \* files in the staging directory, named by document id
    queue,    \* the Celery queue: a bag of messages
    worker,   \* what each worker process is doing
    upload,   \* progress of each upload attempt
    deleter,  \* progress of the request that deletes a document
    crashes   \* crashes so far

vars == <<status, chunks, staged, queue, worker, upload, deleter, crashes>>

DocStatus == {"PENDING", "PROCESSING", "COMPLETED", "FAILED"}

\* A worker's pc names the step it takes next.
WorkerSteps == {"idle", "mark", "ingest", "store", "failed", "publish",
                "retry", "discard", "resent", "ack"}

UploadSteps == {"new", "checked", "staged", "committed", "queued",
                "duplicate", "refused", "abandoned"}

WorkerState == [pc      : WorkerSteps,
                doc     : Documents \cup {NoDocument},
                retries : 0 .. MaxRetries,
                seen    : DocStatus \cup {"none"},
                cause   : {"none", "permanent", "transient"}]

Idle == [pc |-> "idle", doc |-> NoDocument, retries |-> 0,
         seen |-> "none", cause |-> "none"]

TypeOK ==
    /\ status \in [Documents -> DocStatus \cup {"none"}]
    /\ chunks \in [Documents -> Nat]
    /\ staged \in SUBSET Documents
    /\ queue \in [Message -> Nat]
    /\ worker \in [Workers -> WorkerState]
    /\ \A w \in Workers : worker[w].pc # "idle" => worker[w].doc \in Documents
    /\ upload \in [Documents -> UploadSteps]
    /\ deleter \in [Documents -> {"idle", "removing", "done"}]
    /\ crashes \in 0 .. MaxCrashes

Init ==
    /\ status = [d \in Documents |-> "none"]
    /\ chunks = [d \in Documents |-> 0]
    /\ staged = {}
    /\ queue = [m \in Message |-> 0]
    /\ worker = [w \in Workers |-> Idle]
    /\ upload = [d \in Documents |-> "new"]
    /\ deleter = [d \in Documents |-> "idle"]
    /\ crashes = 0

-----------------------------------------------------------------------------
(* Shared operations *)

Exists(d) == status[d] # "none"

\* The row the deduplication query and the unique index look for.
HasContentOf(d) == \E e \in Documents : Exists(e) /\ ContentOf[e] = ContentOf[d]

SaveFile(d) == staged' = staged \cup {d}

RemoveFile(d) == staged' = staged \ {d}

Send(m) == queue' = [queue EXCEPT ![m] = @ + 1]

Crash == crashes < MaxCrashes /\ crashes' = crashes + 1

-----------------------------------------------------------------------------
(* Uploads: the API endpoint and the bulk importer *)

IsImport(d) == Source[d] # "api"

\* An import run handles one file at a time, stops for good when it dies and
\* remembers the contents it has already taken in.
ImportTurn(d) ==
    \A e \in Documents \ {d} :
        Source[e] = Source[d] =>
            upload[e] \notin {"checked", "staged", "committed", "abandoned"}

SeenInRun(d) ==
    \E e \in Documents \ {d} :
        /\ Source[e] = Source[d]
        /\ ContentOf[e] = ContentOf[d]
        /\ upload[e] \notin {"new", "duplicate"}

UploadGoto(d, step) == upload' = [upload EXCEPT ![d] = step]

UnchangedByUpload == UNCHANGED <<chunks, worker, deleter>>

CheckUpload(d) ==
    /\ ~IsImport(d)
    /\ upload[d] = "new"
    /\ UploadGoto(d, IF HasContentOf(d) THEN "duplicate" ELSE "checked")
    /\ UNCHANGED <<status, staged, queue, crashes>> /\ UnchangedByUpload

CheckImport(d) ==
    /\ IsImport(d)
    /\ upload[d] = "new"
    /\ ImportTurn(d)
    /\ UploadGoto(d, IF SeenInRun(d) \/ HasContentOf(d) THEN "duplicate" ELSE "checked")
    /\ UNCHANGED <<status, staged, queue, crashes>> /\ UnchangedByUpload

StageUpload(d) ==
    /\ upload[d] = "checked"
    /\ SaveFile(d)
    /\ UploadGoto(d, "staged")
    /\ UNCHANGED <<status, queue, crashes>> /\ UnchangedByUpload

\* Faulty: no unique index on sha256_hash.
InsertDocumentAnyway(d) ==
    /\ upload[d] = "staged"
    /\ status' = [status EXCEPT ![d] = "PENDING"]
    /\ UploadGoto(d, "committed")
    /\ UNCHANGED <<staged, queue, crashes>> /\ UnchangedByUpload

InsertDocument(d) ==
    /\ upload[d] = "staged"
    /\ ~HasContentOf(d)
    /\ status' = [status EXCEPT ![d] = "PENDING"]
    /\ UploadGoto(d, "committed")
    /\ UNCHANGED <<staged, queue, crashes>> /\ UnchangedByUpload

\* Lost the race for the unique index.  The endpoint answers 500 and leaves
\* the staged file where it is ...
UploadConflict(d) ==
    /\ ~IsImport(d)
    /\ upload[d] = "staged"
    /\ HasContentOf(d)
    /\ UploadGoto(d, "refused")
    /\ UNCHANGED <<status, staged, queue, crashes>> /\ UnchangedByUpload

\* Faulty: the importer forgets the staged file too.
ImportConflictKeepingFile(d) ==
    /\ IsImport(d)
    /\ upload[d] = "staged"
    /\ HasContentOf(d)
    /\ UploadGoto(d, "refused")
    /\ UNCHANGED <<status, staged, queue, crashes>> /\ UnchangedByUpload

\* ... the importer removes it and reports a duplicate.
ImportConflict(d) ==
    /\ IsImport(d)
    /\ upload[d] = "staged"
    /\ HasContentOf(d)
    /\ RemoveFile(d)
    /\ UploadGoto(d, "refused")
    /\ UNCHANGED <<status, queue, crashes>> /\ UnchangedByUpload

Dispatch(d) ==
    /\ upload[d] = "committed"
    /\ Send([doc |-> d, retries |-> 0])
    /\ UploadGoto(d, "queued")
    /\ UNCHANGED <<status, staged, crashes>> /\ UnchangedByUpload

\* The request or the import run dies, or the broker refuses the message.
UploadCrash(d) ==
    /\ "api_crash" \in Faults
    /\ upload[d] \in {"staged", "committed"}
    /\ Crash
    /\ UploadGoto(d, "abandoned")
    /\ UNCHANGED <<status, staged, queue>> /\ UnchangedByUpload

-----------------------------------------------------------------------------
(* Deletion by an engineer or admin *)

DeleteDocument(d) ==
    /\ deleter[d] = "idle"
    /\ Exists(d)
    /\ status' = [status EXCEPT ![d] = "none"]
    /\ chunks' = [chunks EXCEPT ![d] = 0]
    /\ deleter' = [deleter EXCEPT ![d] = "removing"]
    /\ UNCHANGED <<staged, queue, worker, upload, crashes>>

RemoveDeletedFile(d) ==
    /\ deleter[d] = "removing"
    /\ RemoveFile(d)
    /\ deleter' = [deleter EXCEPT ![d] = "done"]
    /\ UNCHANGED <<status, chunks, queue, worker, upload, crashes>>

DeleteCrash(d) ==
    /\ "api_crash" \in Faults
    /\ deleter[d] = "removing"
    /\ Crash
    /\ deleter' = [deleter EXCEPT ![d] = "done"]
    /\ UNCHANGED <<status, chunks, staged, queue, worker, upload>>

-----------------------------------------------------------------------------
(* The Celery task *)

At(w, step) == worker[w].pc = step

Doc(w) == worker[w].doc

Held(w) == [doc |-> worker[w].doc, retries |-> worker[w].retries]

Goto(w, step) == worker' = [worker EXCEPT ![w].pc = step]

Fail(w, cause) ==
    worker' = [worker EXCEPT ![w].pc = "failed", ![w].cause = cause]

UnchangedByWorker == UNCHANGED <<upload, deleter>>

\* Faulty: a message another worker has taken is handed out again.
DeliverTwice(w, m) ==
    /\ At(w, "idle")
    /\ Exists(m.doc)
    /\ queue' = [queue EXCEPT ![m] = @ - 1]
    /\ worker' = [worker EXCEPT ![w] =
            [pc |-> "mark", doc |-> m.doc, retries |-> m.retries,
             seen |-> status[m.doc], cause |-> "none"]]
    /\ UNCHANGED <<status, chunks, staged, crashes>> /\ UnchangedByWorker

\* A worker takes a message and loads the document.  Without a row the task
\* returns at once, which still removes the staged file.
Deliver(w, m) ==
    /\ At(w, "idle")
    /\ queue[m] > 0
    /\ queue' = [queue EXCEPT ![m] = @ - 1]
    /\ worker' = [worker EXCEPT ![w] =
            [pc |-> IF Exists(m.doc) THEN "mark" ELSE "discard",
             doc |-> m.doc, retries |-> m.retries,
             seen |-> status[m.doc], cause |-> "none"]]
    /\ UNCHANGED <<status, chunks, staged, crashes>> /\ UnchangedByWorker

\* Faulty: a new attempt keeps the chunks of the previous one.
MarkKeepingChunks(w) ==
    /\ At(w, "mark")
    /\ Exists(Doc(w))
    /\ status' = [status EXCEPT ![Doc(w)] = "PROCESSING"]
    /\ worker' = [worker EXCEPT ![w].pc = "ingest", ![w].seen = "none"]
    /\ UNCHANGED <<chunks, staged, queue, crashes>> /\ UnchangedByWorker

\* One transaction: PROCESSING and no chunks.  The ORM writes the status only
\* if it differs from the one the task loaded.
MarkProcessing(w) ==
    /\ At(w, "mark")
    /\ Exists(Doc(w))
    /\ status' = [status EXCEPT ![Doc(w)] =
                    IF worker[w].seen = "PROCESSING" THEN @ ELSE "PROCESSING"]
    /\ chunks' = [chunks EXCEPT ![Doc(w)] = 0]
    /\ worker' = [worker EXCEPT ![w].pc = "ingest", ![w].seen = "none"]
    /\ UNCHANGED <<staged, queue, crashes>> /\ UnchangedByWorker

\* The row went away after it was loaded: an UPDATE of it raises, but with no
\* column to update the transaction commits nothing and the task goes on.
MarkDeleted(w) ==
    /\ At(w, "mark")
    /\ ~Exists(Doc(w))
    /\ worker' = [worker EXCEPT
            ![w].pc = IF worker[w].seen = "PROCESSING" THEN "ingest" ELSE "retry",
            ![w].seen = "none"]
    /\ UNCHANGED <<status, chunks, staged, queue, crashes>> /\ UnchangedByWorker

MarkOutage(w) ==
    /\ "outage" \in Faults
    /\ At(w, "mark")
    /\ worker' = [worker EXCEPT ![w].pc = "retry", ![w].seen = "none"]
    /\ UNCHANGED <<status, chunks, staged, queue, crashes>> /\ UnchangedByWorker

\* Every exception of the parser, the soft time limit included, becomes a
\* DocumentParseError, and so does a missing file.
ReadFile(w) ==
    /\ At(w, "ingest")
    /\ \/ /\ Doc(w) \in staged
          /\ Goto(w, "store")
       \/ Fail(w, "permanent")
    /\ UNCHANGED <<status, chunks, staged, queue, crashes>> /\ UnchangedByWorker

\* Embeds, then commits chunks and status in one transaction.
StoreChunks(w) ==
    /\ At(w, "store")
    /\ Exists(Doc(w))
    /\ status' = [status EXCEPT ![Doc(w)] = "COMPLETED"]
    /\ chunks' = [chunks EXCEPT ![Doc(w)] = @ + 1]
    /\ Goto(w, "publish")
    /\ UNCHANGED <<staged, queue, crashes>> /\ UnchangedByWorker

\* Embedding or the commit fails (also because the row is gone), or the soft
\* time limit strikes while the task's own code runs.
StoreFails(w) ==
    /\ At(w, "store")
    /\ \E cause \in {"transient", "permanent"} : Fail(w, cause)
    /\ UNCHANGED <<status, chunks, staged, queue, crashes>> /\ UnchangedByWorker

\* The soft time limit strikes while the task awaits: the exception leaves
\* the event loop, the cancelled coroutine runs no except clause, and the
\* task gives up without touching the row.
AwaitTimesOut(w) ==
    /\ "slow_embed" \in Faults
    /\ At(w, "store")
    /\ Goto(w, "discard")
    /\ UNCHANGED <<status, chunks, staged, queue, crashes>> /\ UnchangedByWorker

\* Faulty: only the audit row tells of the failure.
RecordNothing(w) ==
    /\ At(w, "failed")
    /\ worker' = [worker EXCEPT
            ![w].pc = IF worker[w].cause = "transient" THEN "retry" ELSE "discard",
            ![w].cause = "none"]
    /\ UNCHANGED <<status, chunks, staged, queue, crashes>> /\ UnchangedByWorker

\* Rolls back, sets FAILED if the row is still there, writes the audit row
\* and re-raises; an error in the audit replaces the original one.
RecordFailure(w) ==
    /\ At(w, "failed")
    /\ status' = [status EXCEPT ![Doc(w)] = IF Exists(Doc(w)) THEN "FAILED" ELSE @]
    /\ \E step \in {"retry", "discard"} :
         /\ \/ step = IF worker[w].cause = "transient" THEN "retry" ELSE "discard"
            \/ step = "retry" /\ "audit" \in Faults
         /\ worker' = [worker EXCEPT ![w].pc = step, ![w].cause = "none"]
    /\ UNCHANGED <<chunks, staged, queue, crashes>> /\ UnchangedByWorker

RecordOutage(w) ==
    /\ "outage" \in Faults
    /\ At(w, "failed")
    /\ worker' = [worker EXCEPT ![w].pc = "retry", ![w].cause = "none"]
    /\ UNCHANGED <<status, chunks, staged, queue, crashes>> /\ UnchangedByWorker

\* INGEST_COMPLETED and the cache invalidation, both after the commit.
Publish(w) ==
    /\ At(w, "publish")
    /\ \/ Goto(w, "discard")
       \/ "audit" \in Faults /\ Goto(w, "retry")
    /\ UNCHANGED <<status, chunks, staged, queue, crashes>> /\ UnchangedByWorker

\* Faulty: the staged file does not outlive the first failed attempt.
SendRetryWithoutFile(w) ==
    /\ At(w, "retry")
    /\ worker[w].retries < MaxRetries
    /\ Send([doc |-> Doc(w), retries |-> worker[w].retries + 1])
    /\ RemoveFile(Doc(w))
    /\ Goto(w, "resent")
    /\ UNCHANGED <<status, chunks, crashes>> /\ UnchangedByWorker

\* self.retry publishes a new message; the old one is acknowledged later.
SendRetry(w) ==
    /\ At(w, "retry")
    /\ worker[w].retries < MaxRetries
    /\ Send([doc |-> Doc(w), retries |-> worker[w].retries + 1])
    /\ Goto(w, "resent")
    /\ UNCHANGED <<status, chunks, staged, crashes>> /\ UnchangedByWorker

GiveUp(w) ==
    /\ At(w, "retry")
    /\ worker[w].retries = MaxRetries
    /\ Goto(w, "discard")
    /\ UNCHANGED <<status, chunks, staged, queue, crashes>> /\ UnchangedByWorker

DiscardFile(w) ==
    /\ At(w, "discard")
    /\ RemoveFile(Doc(w))
    /\ Goto(w, "ack")
    /\ UNCHANGED <<status, chunks, queue, crashes>> /\ UnchangedByWorker

Acknowledge(w) ==
    /\ worker[w].pc \in {"ack", "resent"}
    /\ worker' = [worker EXCEPT ![w] = Idle]
    /\ UNCHANGED <<status, chunks, staged, queue, crashes>> /\ UnchangedByWorker

CrashKind(step) ==
    CASE step = "ack" -> "crash_ack"
      [] step = "resent" -> "crash_resent"
      [] OTHER -> "crash"

\* Faulty: early acknowledgement; a message dies with its worker.
WorkerDiesWithMessage(w) ==
    /\ ~At(w, "idle")
    /\ CrashKind(worker[w].pc) \in Faults
    /\ Crash
    /\ worker' = [worker EXCEPT ![w] = Idle]
    /\ UNCHANGED <<status, chunks, staged, queue>> /\ UnchangedByWorker

\* The worker process dies and the unacknowledged message is queued again.
WorkerDies(w) ==
    /\ ~At(w, "idle")
    /\ CrashKind(worker[w].pc) \in Faults
    /\ Crash
    /\ Send(Held(w))
    /\ worker' = [worker EXCEPT ![w] = Idle]
    /\ UNCHANGED <<status, chunks, staged>> /\ UnchangedByWorker

\* Celery kills the process and acknowledges the message (acks_on_failure).
HardTimeLimit(w) ==
    /\ "hard_limit" \in Faults
    /\ worker[w].pc \in {"ingest", "store"}
    /\ worker' = [worker EXCEPT ![w] = Idle]
    /\ UNCHANGED <<status, chunks, staged, queue, crashes>> /\ UnchangedByWorker

-----------------------------------------------------------------------------
(* Specification *)

UploadStep(d) ==
    \/ CheckUpload(d) \/ CheckImport(d) \/ StageUpload(d) \/ InsertDocument(d)
    \/ UploadConflict(d) \/ ImportConflict(d) \/ Dispatch(d)

TaskStep(w) ==
    \/ \E m \in Message : Deliver(w, m)
    \/ MarkProcessing(w) \/ MarkDeleted(w) \/ ReadFile(w) \/ StoreChunks(w)
    \/ StoreFails(w) \/ RecordFailure(w) \/ Publish(w) \/ SendRetry(w)
    \/ GiveUp(w) \/ DiscardFile(w) \/ Acknowledge(w)

TaskFault(w) ==
    \/ MarkOutage(w) \/ AwaitTimesOut(w) \/ RecordOutage(w)
    \/ WorkerDies(w) \/ HardTimeLimit(w)

Next ==
    \/ \E d \in Documents :
        \/ UploadStep(d) \/ UploadCrash(d)
        \/ DeleteDocument(d) \/ RemoveDeletedFile(d) \/ DeleteCrash(d)
    \/ \E w \in Workers : TaskStep(w) \/ TaskFault(w)

Spec == Init /\ [][Next]_vars

(***************************************************************************)
(* A request that is not killed runs to its end, and a worker that holds a *)
(* message or finds one goes on.  No one is obliged to upload or to delete.*)
(***************************************************************************)
Fairness ==
    /\ \A d \in Documents : WF_vars(Dispatch(d))
    /\ \A w \in Workers : WF_vars(TaskStep(w))

FairSpec == Spec /\ Fairness

-----------------------------------------------------------------------------
(* Properties.  Each holds as long as the faults its comment names do not  *)
(* strike; which do in a run is said by its Faults.                        *)

Queued(d) == \E m \in Message : m.doc = d /\ queue[m] > 0

\* A task of d that is under way and has not yet settled it.
Processed(d) ==
    \E w \in Workers :
        Doc(w) = d /\ worker[w].pc \in {"mark", "ingest", "store", "failed"}

InHand(d) == upload[d] = "committed" \/ Queued(d) \/ Processed(d)

\* No two documents have the same content, although the deduplication query
\* and the insert are separate steps of concurrent uploads and imports.
UniqueContent ==
    \A d, e \in Documents :
        Exists(d) /\ Exists(e) /\ ContentOf[d] = ContentOf[e] => d = e

\* A document that is neither COMPLETED nor FAILED has somebody who will
\* settle it: its request about to queue the task, a message or a worker.
\* Deduplication turns its content away meanwhile, so a document nobody works
\* on could not even be uploaded again.  (No api_crash, outage, slow_embed or
\* hard_limit.)
NothingForgotten ==
    \A d \in Documents : status[d] \in {"PENDING", "PROCESSING"} => InHand(d)

\* A document is searchable if and only if it is COMPLETED, and then every
\* chunk is there once, whatever was retried or redelivered before.
\* (No crash_resent.)
ChunksMatchStatus ==
    \A d \in Documents : chunks[d] = IF status[d] = "COMPLETED" THEN 1 ELSE 0

\* A message that waits finds the file it needs: the staged file outlives
\* every attempt but the last.  (No crash_ack, crash_resent.)
QueuedHasFile ==
    \A m \in Message : queue[m] > 0 /\ Exists(m.doc) => m.doc \in staged

\* Every file left in the staging directory has an owner who will remove it,
\* except the one of an upload that lost the race for the unique index.
\* (No api_crash, hard_limit.)
StagedHasOwner ==
    \A d \in staged :
        \/ upload[d] \in {"staged", "committed"}
        \/ Queued(d)
        \/ \E w \in Workers : Doc(w) = d /\ worker[w].pc \notin {"ack", "resent"}
        \/ deleter[d] = "removing"
        \/ upload[d] = "refused" /\ ~IsImport(d)

\* Every document in the table ends COMPLETED, FAILED or deleted and stays so,
\* whatever fails and crashes on the way.  (Faults as for NothingForgotten.)
Settles ==
    \A d \in Documents :
        status[d] = "PENDING" ~> [](status[d] \in {"COMPLETED", "FAILED", "none"})

\* What the catalog of documents looks like from outside.
Catalog ==
    [d \in Documents |->
        CASE status[d] \in {"PENDING", "PROCESSING"} /\ chunks[d] = 0 -> "indexing"
          [] status[d] = "COMPLETED" /\ chunks[d] = 1 -> "searchable"
          [] status[d] = "FAILED" /\ chunks[d] = 0 -> "failed"
          [] ~Exists(d) /\ deleter[d] = "idle" -> "absent"
          [] ~Exists(d) /\ deleter[d] # "idle" -> "removed"
          [] OTHER -> "corrupt"]

KB == INSTANCE KnowledgeBase WITH catalog <- Catalog

\* The pipeline implements the knowledge base.  (No crash_resent.)
ImplementsKnowledgeBase == KB!Spec

-----------------------------------------------------------------------------
(* The inductive invariant                                                 *)

\* A worker that still answers for its message: once the retry is sent, the
\* new message does.
Active(w) == worker[w].pc \notin {"idle", "resent"}

\* A document's task exists once: in the queue or in one worker's hands, and
\* not before it was queued.  (No crash_resent.)
OneTicket ==
    /\ \A m \in Message : queue[m] <= 1
    /\ \A m, n \in Message : m.doc = n.doc /\ queue[m] > 0 /\ queue[n] > 0 => m = n
    /\ \A w \in Workers, m \in Message : Active(w) /\ m.doc = Doc(w) => queue[m] = 0
    /\ \A v, w \in Workers : Active(v) /\ Active(w) /\ Doc(v) = Doc(w) => v = w
    /\ \A m \in Message : queue[m] > 0 => upload[m.doc] = "queued"
    /\ \A w \in Workers : Active(w) => upload[Doc(w)] = "queued"

\* The row as the task left it, unless the document was deleted.
RowFollowsTask ==
    \A w \in Workers :
        /\ At(w, "mark") =>
             /\ worker[w].seen # "none"
             /\ status[Doc(w)] \in {worker[w].seen, "none"}
        /\ worker[w].pc \in {"ingest", "store", "failed"} =>
             status[Doc(w)] \in {"PROCESSING", "none"}

\* Rows and deletions come after the insert, and an id is not used again.
Lifetime ==
    \A d \in Documents :
        /\ upload[d] \in {"new", "checked", "staged"} => ~Exists(d) /\ deleter[d] = "idle"
        /\ deleter[d] # "idle" => ~Exists(d)

\* The staged file stays until the task has removed it or the document is
\* gone.  (No crash_ack, crash_resent.)
FileKept ==
    /\ \A d \in Documents :
        \/ upload[d] = "staged"
        \/ upload[d] = "committed" /\ Exists(d)
        => d \in staged
    /\ \A m \in Message : queue[m] > 0 /\ Exists(m.doc) => m.doc \in staged
    /\ \A w \in Workers :
        Active(w) /\ ~At(w, "ack") /\ Exists(Doc(w)) => Doc(w) \in staged

-----------------------------------------------------------------------------
(* What the repository says of the pipeline and a fault refutes            *)

\* "an interrupted import can simply be run again": a file the importer skips
\* as a duplicate is settled or in hand.  (Refuted by api_crash.)
InterruptedImportCanBeRunAgain ==
    \A d, e \in Documents :
        /\ upload[d] = "duplicate" /\ IsImport(d)
        /\ ContentOf[e] = ContentOf[d]
        /\ status[e] = "PENDING"
        => InHand(e)
=============================================================================
