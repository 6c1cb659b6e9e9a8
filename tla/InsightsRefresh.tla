-------------------------- MODULE InsightsRefresh --------------------------
(***************************************************************************)
(* The background refresh of the dashboard's document insights.  An        *)
(* engineer's request takes a Redis lock for a new run, resets the         *)
(* progress hash and queues the first batch; each batch is a Celery task   *)
(* that refreshes the next BatchSize documents in id order and queues its  *)
(* successor, and the last one marks the progress done and gives the lock  *)
(* back.  Documents are ingested, ingested again and deleted meanwhile,    *)
(* and a dashboard request fills in insights that are missing.  Each       *)
(* action is one transaction, one Redis call or one queue operation.       *)
(*                                                                         *)
(* Left out: what the insights say, the times in the progress hash, its    *)
(* total (which only caps what is displayed), the audit rows, and the      *)
(* status request, which only reads.                                       *)
(***************************************************************************)
EXTENDS Naturals, FiniteSets, FiniteSetsExt

CONSTANTS
    Runs,        \* run ids; every start draws a new one (uuid4)
    NumDocs,     \* documents are numbered in the order of their ids
    Arriving,    \* documents that are ingested later
    Repeated,    \* documents whose completed ingest may run again
    Deletable,   \* documents that may be deleted
    Unsummarised,\* documents without insights at first (NULL)
    Workers,     \* Celery worker processes
    Dashboards,  \* dashboard requests
    BatchSize,   \* BATCH_SIZE
    MaxFill,     \* documents filled in by one dashboard request
    MaxRetries,  \* max_retries of the task
    Faults,      \* which of FaultKinds may happen in the instance checked
    MaxKinds,    \* bound: kinds of faults in one behaviour
    NoRun

Docs == 1 .. NumDocs

\* batch     Redis, the database or a time limit breaks a batch off
\* crash     a worker process dies while it holds a message
\* start     a start request fails after it took the lock
\* expiry    LOCK_TTL_S goes by with no batch begun in it
\* forgotten PROGRESS_TTL_S goes by before the run has ended
\* Bound: each but "batch", which retries bound, strikes once in a behaviour.
FaultKinds == {"batch", "crash", "start", "expiry", "forgotten"}

ASSUME ConstantsAssumption ==
    /\ {NumDocs, BatchSize, MaxFill} \subseteq Nat \ {0}
    /\ {MaxRetries, MaxKinds} \subseteq Nat
    /\ Arriving \cup Repeated \cup Deletable \cup Unsummarised \subseteq Docs
    /\ Faults \subseteq FaultKinds
    /\ NoRun \notin Runs

VARIABLES
    eligible,   \* completed documents that were not ingested without summary
    gone,       \* documents whose row has been deleted
    insights,   \* insights_json: NULL, {} or something
    lock,       \* the run in LOCK_KEY
    progress,   \* the hash PROGRESS_KEY
    start,      \* progress of the request that starts each run
    queue,      \* the Celery queue: a bag of messages
    worker,     \* what each worker process is doing
    dashboard,  \* the documents each dashboard request is filling in
    stayed,     \* history: documents eligible since each run counted them
    visited,    \* history: documents each run has refreshed or failed to
    abandoned,  \* history: runs a failure of which nothing takes up again
    struck      \* history: the kinds of faults so far

docVars == <<eligible, gone, insights>>
history == <<stayed, visited, abandoned>>
vars == <<eligible, gone, insights, lock, progress, start, queue, worker, dashboard,
          stayed, visited, abandoned, struck>>

Message == [run : Runs, after : 0 .. NumDocs, retries : 0 .. MaxRetries]

\* A hash that lost its run_id is one that fields were added to after it
\* had expired.
Progress ==
    [run : Runs \cup {NoRun}, state : {"none", "running", "done"}, done : Nat, failed : Nat]

NoProgress == [run |-> NoRun, state |-> "none", done |-> 0, failed |-> 0]

StartSteps == {"new", "count", "clear", "begin", "dispatch", "end"}

WorkerSteps == {"idle", "check", "load", "refresh", "count", "send", "finish",
                "compare", "unlock", "report", "retry", "resent", "ack"}

WorkerState ==
    [pc : WorkerSteps, msg : Message \cup {NoRun}, batch : SUBSET Docs, todo : SUBSET Docs]

Idle == [pc |-> "idle", msg |-> NoRun, batch |-> {}, todo |-> {}]

TypeOK ==
    /\ eligible \subseteq Docs
    /\ gone \subseteq Docs
    /\ insights \in [Docs -> {"null", "empty", "found"}]
    /\ lock \in Runs \cup {NoRun}
    /\ progress \in Progress
    /\ start \in [Runs -> StartSteps]
    /\ queue \in [Message -> Nat]
    /\ worker \in [Workers -> WorkerState]
    /\ \A w \in Workers :
         /\ worker[w].pc # "idle" => worker[w].msg \in Message
         /\ worker[w].todo \subseteq worker[w].batch
         /\ worker[w].pc = "count" => worker[w].todo # {}
         /\ worker[w].pc = "send" => worker[w].batch # {}
    /\ dashboard \in [Dashboards -> [pc : {"idle", "fill", "end"}, docs : SUBSET Docs]]
    /\ stayed \in [Runs -> SUBSET Docs]
    /\ visited \in [Runs -> SUBSET Docs]
    /\ abandoned \subseteq Runs
    /\ struck \subseteq Faults

Init ==
    /\ eligible = Docs \ Arriving
    /\ gone = {}
    /\ insights = [d \in Docs |-> IF d \in Unsummarised \cup Arriving THEN "null" ELSE "found"]
    /\ lock = NoRun
    /\ progress = NoProgress
    /\ start = [r \in Runs |-> "new"]
    /\ queue = [m \in Message |-> 0]
    /\ worker = [w \in Workers |-> Idle]
    /\ dashboard = [g \in Dashboards |-> [pc |-> "idle", docs |-> {}]]
    /\ stayed = [r \in Runs |-> {}]
    /\ visited = [r \in Runs |-> {}]
    /\ abandoned = {}
    /\ struck = {}

Send(m) == queue' = [queue EXCEPT ![m] = @ + 1]

Strike(fault) ==
    /\ fault \in Faults \ (struck \ {"batch"})
    /\ struck' = struck \cup {fault}
    /\ Cardinality(struck') <= MaxKinds

-----------------------------------------------------------------------------
(* The request that starts a run *)

StartGoto(r, step) == start' = [start EXCEPT ![r] = step]

UnchangedByStart == UNCHANGED <<docVars, worker, dashboard, visited, abandoned, struck>>

\* Faulty: SET without NX.
TakeLockAnyway(r) ==
    /\ start[r] = "new"
    /\ lock' = r
    /\ StartGoto(r, "count")
    /\ UNCHANGED <<progress, queue, stayed>> /\ UnchangedByStart

\* SET NX EX; a run that is there already is reported instead.
TakeLock(r) ==
    /\ start[r] = "new"
    /\ IF lock = NoRun
       THEN lock' = r /\ StartGoto(r, "count")
       ELSE StartGoto(r, "end") /\ UNCHANGED lock
    /\ UNCHANGED <<progress, queue, stayed>> /\ UnchangedByStart

CountDocuments(r) ==
    /\ start[r] = "count"
    /\ stayed' = [stayed EXCEPT ![r] = eligible]
    /\ StartGoto(r, "clear")
    /\ UNCHANGED <<lock, progress, queue>> /\ UnchangedByStart

ClearProgress(r) ==
    /\ start[r] = "clear"
    /\ progress' = NoProgress
    /\ StartGoto(r, "begin")
    /\ UNCHANGED <<lock, queue, stayed>> /\ UnchangedByStart

BeginProgress(r) ==
    /\ start[r] = "begin"
    /\ progress' = [run |-> r, state |-> "running", done |-> 0, failed |-> 0]
    /\ StartGoto(r, "dispatch")
    /\ UNCHANGED <<lock, queue, stayed>> /\ UnchangedByStart

DispatchFirst(r) ==
    /\ start[r] = "dispatch"
    /\ Send([run |-> r, after |-> 0, retries |-> 0])
    /\ StartGoto(r, "end")
    /\ UNCHANGED <<lock, progress, stayed>> /\ UnchangedByStart

\* The lock stays until it expires.
StartFails(r) ==
    /\ Strike("start")
    /\ start[r] \in {"count", "clear", "begin", "dispatch"}
    /\ StartGoto(r, "end")
    /\ abandoned' = abandoned \cup {r}
    /\ UNCHANGED <<docVars, lock, progress, queue, worker, dashboard, stayed, visited>>

-----------------------------------------------------------------------------
(* A batch *)

At(w, step) == worker[w].pc = step

Msg(w) == worker[w].msg

Goto(w, step) == worker' = [worker EXCEPT ![w].pc = step]

\* The run will not go on: its lock stays until it expires.
Abandon(w) == abandoned' = abandoned \cup {Msg(w).run}

UnchangedByBatch ==
    UNCHANGED <<eligible, gone, start, dashboard, stayed, abandoned, struck>>

Deliver(w, m) ==
    /\ At(w, "idle")
    /\ queue[m] > 0
    /\ queue' = [queue EXCEPT ![m] = @ - 1]
    /\ worker' = [worker EXCEPT ![w] = [Idle EXCEPT !.pc = "check", !.msg = m]]
    /\ UNCHANGED <<insights, lock, progress, visited>> /\ UnchangedByBatch

\* Faulty: a batch goes on whoever has the lock.
SkipLockCheck(w) ==
    /\ At(w, "check")
    /\ Goto(w, "load")
    /\ UNCHANGED <<insights, lock, progress, queue, visited>> /\ UnchangedByBatch

\* The lock is looked at and renewed once, here: a run that has lost it stops.
CheckLock(w) ==
    /\ At(w, "check")
    /\ Goto(w, IF lock = Msg(w).run THEN "load" ELSE "ack")
    /\ UNCHANGED <<insights, lock, progress, queue, visited>> /\ UnchangedByBatch

\* ORDER BY id LIMIT BATCH_SIZE, from the cursor on.
NextBatch(after) ==
    LET rest == {d \in eligible : d > after} IN
    {d \in rest : Cardinality({e \in rest : e <= d}) <= BatchSize}

LoadBatch(w) ==
    /\ At(w, "load")
    /\ LET batch == NextBatch(Msg(w).after) IN
       worker' = [worker EXCEPT ![w].pc = "refresh", ![w].batch = batch, ![w].todo = batch]
    /\ UNCHANGED <<insights, lock, progress, queue, visited>> /\ UnchangedByBatch

Visit(w, d) == visited' = [visited EXCEPT ![Msg(w).run] = @ \cup {d}]

\* Insights are committed one document at a time, by its id: also those of one
\* that is being ingested again by now ...
RefreshDocument(w) ==
    /\ At(w, "refresh")
    /\ worker[w].todo # {}
    /\ LET d == Min(worker[w].todo) IN
       /\ d \notin gone
       /\ insights' = [insights EXCEPT ![d] = "found"]
       /\ Visit(w, d)
    /\ Goto(w, "count")
    /\ UNCHANGED <<lock, progress, queue>> /\ UnchangedByBatch

\* ... and counted afterwards.
CountDocument(w) ==
    /\ At(w, "count")
    /\ progress' = [progress EXCEPT !.done = @ + 1]
    /\ worker' = [worker EXCEPT ![w].pc = "refresh", ![w].todo = @ \ {Min(@)}]
    /\ UNCHANGED <<insights, lock, queue, visited>> /\ UnchangedByBatch

\* Faulty: what Claude failed to say replaces what it said before.
OverwriteInsights(w) ==
    /\ At(w, "refresh")
    /\ worker[w].todo # {}
    /\ insights' = [insights EXCEPT ![Min(worker[w].todo)] = "empty"]
    /\ progress' = [progress EXCEPT !.failed = @ + 1]
    /\ Visit(w, Min(worker[w].todo))
    /\ worker' = [worker EXCEPT ![w].todo = @ \ {Min(@)}]
    /\ UNCHANGED <<lock, queue>> /\ UnchangedByBatch

\* Claude fails or returns nothing: the previous insights are kept.
KeepInsights(w) ==
    /\ At(w, "refresh")
    /\ worker[w].todo # {}
    /\ progress' = [progress EXCEPT !.failed = @ + 1]
    /\ Visit(w, Min(worker[w].todo))
    /\ worker' = [worker EXCEPT ![w].todo = @ \ {Min(@)}]
    /\ UNCHANGED <<insights, lock, queue>> /\ UnchangedByBatch

\* The document was deleted after the batch was loaded: its UPDATE raises.
DocumentGone(w) ==
    /\ At(w, "refresh")
    /\ worker[w].todo # {} /\ Min(worker[w].todo) \in gone
    /\ Goto(w, "retry")
    /\ UNCHANGED <<insights, lock, progress, queue, visited>> /\ UnchangedByBatch

\* Faulty: a full batch is taken for the last one.
EndBatchEarly(w) ==
    /\ At(w, "refresh")
    /\ worker[w].todo = {}
    /\ Goto(w, IF Cardinality(worker[w].batch) > BatchSize THEN "send" ELSE "finish")
    /\ UNCHANGED <<insights, lock, progress, queue, visited>> /\ UnchangedByBatch

\* Faulty: an empty batch is taken for one that has a successor.
ContinueAfterAnyBatch(w) ==
    /\ At(w, "refresh")
    /\ worker[w].todo = {}
    /\ Goto(w, IF Cardinality(worker[w].batch) <= BatchSize THEN "send" ELSE "finish")
    /\ UNCHANGED <<insights, lock, progress, queue, visited>> /\ UnchangedByBatch

\* Only a batch that was not full is the last.
EndBatch(w) ==
    /\ At(w, "refresh")
    /\ worker[w].todo = {}
    /\ Goto(w, IF Cardinality(worker[w].batch) = BatchSize THEN "send" ELSE "finish")
    /\ UNCHANGED <<insights, lock, progress, queue, visited>> /\ UnchangedByBatch

\* After run_batch has returned the cursor.
SendNext(w) ==
    /\ At(w, "send")
    /\ Send([run |-> Msg(w).run, after |-> Max(worker[w].batch), retries |-> 0])
    /\ Goto(w, "ack")
    /\ UNCHANGED <<insights, lock, progress, visited>> /\ UnchangedByBatch

\* Whosever progress it is by now.
FinishProgress(w) ==
    /\ At(w, "finish")
    /\ progress' = [progress EXCEPT !.state = "done"]
    /\ Goto(w, "compare")
    /\ UNCHANGED <<insights, lock, queue, visited>> /\ UnchangedByBatch

CompareLock(w) ==
    /\ At(w, "compare")
    /\ Goto(w, IF lock = Msg(w).run THEN "unlock" ELSE "report")
    /\ UNCHANGED <<insights, lock, progress, queue, visited>> /\ UnchangedByBatch

\* Faulty: the lock is left to its time to live.
KeepLock(w) ==
    /\ At(w, "unlock")
    /\ Goto(w, "report")
    /\ UNCHANGED <<insights, lock, progress, queue, visited>> /\ UnchangedByBatch

\* DEL, whoever has the lock by now.
DropLock(w) ==
    /\ At(w, "unlock")
    /\ lock' = NoRun
    /\ Goto(w, "report")
    /\ UNCHANGED <<insights, progress, queue, visited>> /\ UnchangedByBatch

Readable == progress = NoProgress \/ progress.run # NoRun

\* Reads the progress for the audit row; a hash without run_id raises.
Report(w) ==
    /\ At(w, "report")
    /\ Goto(w, IF Readable THEN "ack" ELSE "retry")
    /\ UNCHANGED <<insights, lock, progress, queue, visited>> /\ UnchangedByBatch

BatchFails(w) ==
    /\ Strike("batch")
    /\ worker[w].pc \in {"check", "load", "refresh", "count", "finish",
                         "compare", "unlock", "report"}
    /\ Goto(w, "retry")
    /\ UNCHANGED <<docVars, lock, progress, start, queue, dashboard, history>>

\* The soft limit was swallowed as a failure of Claude and the hard one kills
\* the task, which acknowledges its message.
BatchKilled(w) ==
    /\ Strike("batch")
    /\ At(w, "refresh")
    /\ worker' = [worker EXCEPT ![w] = Idle]
    /\ Abandon(w)
    /\ UNCHANGED <<docVars, lock, progress, start, queue, dashboard, stayed, visited>>

\* The successor cannot be queued: that is outside what is retried.
SendFails(w) ==
    /\ Strike("batch")
    /\ At(w, "send")
    /\ Goto(w, "ack")
    /\ Abandon(w)
    /\ UNCHANGED <<docVars, lock, progress, start, queue, dashboard, stayed, visited>>

SendRetry(w) ==
    /\ At(w, "retry")
    /\ Msg(w).retries < MaxRetries
    /\ Send([Msg(w) EXCEPT !.retries = @ + 1])
    /\ Goto(w, "resent")
    /\ UNCHANGED <<insights, lock, progress, visited>> /\ UnchangedByBatch

\* Nothing gives the lock back.
GiveUp(w) ==
    /\ At(w, "retry")
    /\ Msg(w).retries = MaxRetries
    /\ Goto(w, "ack")
    /\ Abandon(w)
    /\ UNCHANGED <<docVars, lock, progress, start, queue, dashboard, stayed, visited, struck>>

Acknowledge(w) ==
    /\ worker[w].pc \in {"ack", "resent"}
    /\ worker' = [worker EXCEPT ![w] = Idle]
    /\ UNCHANGED <<insights, lock, progress, queue, visited>> /\ UnchangedByBatch

\* The unacknowledged message is queued again.
WorkerDies(w) ==
    /\ Strike("crash")
    /\ ~At(w, "idle")
    /\ Send(Msg(w))
    /\ worker' = [worker EXCEPT ![w] = Idle]
    /\ UNCHANGED <<docVars, lock, progress, start, dashboard, history>>

-----------------------------------------------------------------------------
(* Time, documents and the dashboard *)

UnchangedByOthers == UNCHANGED <<start, queue, worker, visited, abandoned>>

LockExpires ==
    /\ Strike("expiry")
    /\ lock # NoRun
    /\ lock' = NoRun
    /\ UNCHANGED <<docVars, progress, dashboard, stayed>> /\ UnchangedByOthers

\* Fields added to the hash once it is gone come without a time to live.
ProgressExpires ==
    /\ Strike("forgotten")
    /\ progress.run # NoRun
    /\ progress' = NoProgress
    /\ UNCHANGED <<docVars, lock, dashboard, stayed>> /\ UnchangedByOthers

\* Whatever takes a document out of a run's list, it may have come back since.
Leave(d) ==
    /\ eligible' = eligible \ {d}
    /\ stayed' = [r \in Runs |-> stayed[r] \ {d}]

\* A completed document's task is retried or delivered again: it is PROCESSING
\* once more, and stays so or FAILED if the attempt fails.
IngestBegins(d) ==
    /\ d \in Repeated \cap eligible
    /\ Leave(d)
    /\ UNCHANGED <<gone, insights, lock, progress, dashboard, struck>> /\ UnchangedByOthers

\* An ingest writes the insights with the status, {} where Claude failed.
DocumentIngested(d) ==
    /\ d \in (Arriving \cup Repeated) \ (eligible \cup gone)
    /\ eligible' = eligible \cup {d}
    /\ \E result \in {"found", "empty"} : insights' = [insights EXCEPT ![d] = result]
    /\ UNCHANGED <<gone, lock, progress, dashboard, stayed, struck>> /\ UnchangedByOthers

DocumentDeleted(d) ==
    /\ d \in Deletable \ gone
    /\ gone' = gone \cup {d}
    /\ Leave(d)
    /\ UNCHANGED <<insights, lock, progress, dashboard, struck>> /\ UnchangedByOthers

LoadMissing(g) ==
    /\ dashboard[g].pc = "idle"
    /\ \E docs \in SUBSET {d \in eligible : insights[d] = "null"} :
         /\ Cardinality(docs) = MaxFill \/ docs = {d \in eligible : insights[d] = "null"}
         /\ Cardinality(docs) <= MaxFill
         /\ dashboard' = [dashboard EXCEPT ![g] = [pc |-> "fill", docs |-> docs]]
    /\ UNCHANGED <<docVars, lock, progress, stayed, struck>> /\ UnchangedByOthers

\* One commit for all of them; {} where Claude failed.
FillMissing(g) ==
    /\ dashboard[g].pc = "fill"
    /\ IF dashboard[g].docs \cap gone = {}
       THEN \E found \in SUBSET dashboard[g].docs :
              insights' = [d \in Docs |->
                             IF d \in found THEN "found"
                             ELSE IF d \in dashboard[g].docs THEN "empty" ELSE insights[d]]
       ELSE UNCHANGED insights
    /\ dashboard' = [dashboard EXCEPT ![g] = [pc |-> "end", docs |-> {}]]
    /\ UNCHANGED <<eligible, gone, lock, progress, stayed, struck>> /\ UnchangedByOthers

-----------------------------------------------------------------------------
(* Specification *)

StartStep(r) ==
    CountDocuments(r) \/ ClearProgress(r) \/ BeginProgress(r) \/ DispatchFirst(r)

BatchStep(w) ==
    \/ \E m \in Message : Deliver(w, m)
    \/ CheckLock(w) \/ LoadBatch(w) \/ RefreshDocument(w) \/ CountDocument(w)
    \/ KeepInsights(w) \/ DocumentGone(w) \/ EndBatch(w) \/ SendNext(w)
    \/ FinishProgress(w) \/ CompareLock(w) \/ DropLock(w) \/ Report(w)
    \/ SendRetry(w) \/ GiveUp(w) \/ Acknowledge(w)

BatchFault(w) == BatchFails(w) \/ BatchKilled(w) \/ SendFails(w) \/ WorkerDies(w)

Next ==
    \/ \E r \in Runs : TakeLock(r) \/ StartStep(r) \/ StartFails(r)
    \/ \E w \in Workers : BatchStep(w) \/ BatchFault(w)
    \/ LockExpires \/ ProgressExpires
    \/ \E d \in Docs : IngestBegins(d) \/ DocumentIngested(d) \/ DocumentDeleted(d)
    \/ \E g \in Dashboards : LoadMissing(g) \/ FillMissing(g)

Spec == Init /\ [][Next]_vars

\* A start request that has the lock and a worker that has or finds a message
\* go on.
FairSpec ==
    /\ Spec
    /\ \A r \in Runs : WF_vars(StartStep(r))
    /\ \A w \in Workers : WF_vars(BatchStep(w))

-----------------------------------------------------------------------------
(* Properties.  What a fault undoes is excused from the moment it strikes.   *)

Undisturbed(faults) == struck \cap faults = {}

\* A worker in the middle of a batch.
Refreshing(w) ==
    worker[w].pc \in {"load", "refresh", "count", "send", "finish", "compare", "unlock"}

Alone == \A v, w \in Workers : Refreshing(v) /\ Refreshing(w) => v = w

\* A run that finds no more documents has refreshed, or tried to, every
\* document that has been eligible ever since the run counted them, whatever was
\* retried, redelivered, deleted or inserted between its batches and whoever took
\* its lock meanwhile.  (One whose ingest runs again while its batch is loaded may
\* be back at the end without a visit.)
FinishedRunVisitedAll ==
    \A w \in Workers :
        worker[w].pc \in {"finish", "compare", "unlock"} =>
            stayed[Msg(w).run] \subseteq visited[Msg(w).run]

\* No two workers are in a batch at once, of one run or of two, as long as no
\* lock expires and no batch is redelivered, whatever fails and is retried.
RefreshesAlone == Undisturbed({"expiry", "crash"}) => Alone

\* Progress that says done has counted at least every document that has been
\* eligible ever since the run counted them: a retried or redelivered batch may
\* count one again but none is left out, and no run marks the progress of another
\* done.  (A batch delivered twice may outlive its run and mark the progress of
\* the next one done, so a crash is excused when a second run has begun.)
DoneCountsEveryDocument ==
    /\ progress.state = "done" /\ progress.run # NoRun
    /\ Undisturbed({"expiry", "forgotten"})
    /\ Undisturbed({"crash"}) \/ \A r \in Runs \ {progress.run} : start[r] = "new"
    => progress.done + progress.failed >= Cardinality(stayed[progress.run])

\* A status request never finds a hash without run_id, which it cannot read:
\* counters are added only to the progress of a run that has begun, never to
\* the gap in which the next start has cleared it, as long as neither lock nor
\* hash expires and no batch is redelivered.
StatusIsReadable == Undisturbed({"expiry", "forgotten", "crash"}) => Readable

\* A run that has the lock gives it back in the end although its batches fail
\* and its workers die between any two steps, unless nothing takes a failure up
\* again: its start request fails, the retries of a batch are used up (also by
\* documents that are deleted under it), its task is killed at the hard limit or
\* its successor cannot be queued.
LockIsGivenBack ==
    \A r \in Runs : lock = r ~> lock # r \/ r \in abandoned

\* Insights once found are replaced by nothing only when the document's own
\* ingest runs again and completes, or through a dashboard request that had read
\* the document before it had any: the failures of Claude during a refresh,
\* retried or run twice, never take them away.
InsightsAreKept ==
    [][\A d \in Docs : insights[d] = "found" /\ insights'[d] # "found" =>
         \/ d \in eligible' \ eligible
         \/ \E g \in Dashboards : d \in dashboard[g].docs]_<<insights, eligible>>
=============================================================================
