---------------------------- MODULE AnswerCache ----------------------------
(***************************************************************************)
(* The semantic cache between the queries that fill it and the changes of  *)
(* the corpus that drop it.  A query looks for a cached answer, retrieves  *)
(* passages in several statements, answers and stores the answer; an       *)
(* ingest, a deletion or a change of tags commits and then invalidates the *)
(* cache.  Nothing orders the one against the other.  Each action is one   *)
(* transaction or one Redis call.                                          *)
(*                                                                         *)
(* The corpus is the number of changes committed so far.  All queries here *)
(* ask the same question in the same scope, so each may reuse the answer   *)
(* of every other.                                                         *)
(***************************************************************************)
EXTENDS Naturals, FiniteSets

CONSTANTS
    Queries,     \* query ids, which also name the cache entries
    Changes,     \* changes of the corpus
    Kind,        \* "ingest", "delete" or "tags" for each change
    Variants,    \* retrievals of a query: the question and its rephrasings
    Batch,       \* keys deleted at once by an invalidation
    MaxScan,     \* keys compared by a lookup
    MaxAttempts, \* attempts of an ingest task: 1 + max_retries
    MaxCrashes,  \* bound: crashes in one behaviour
    Faults       \* which of FaultKinds may happen in the instance checked

\* redis   Redis cannot be reached
\* ingest  an attempt of an ingest fails before its commit
\* audit   the audit row of an ingest cannot be written
\* limit   the soft or the hard time limit strikes an ingest task
\* crash   the process of a change dies after it changed the corpus
FaultKinds == {"redis", "ingest", "audit", "limit", "crash"}

ASSUME ConstantsAssumption ==
    /\ Kind \in [Changes -> {"ingest", "delete", "tags"}]
    /\ {Variants, Batch, MaxScan, MaxAttempts} \subseteq Nat \ {0}
    /\ MaxCrashes \in Nat
    /\ Faults \subseteq FaultKinds

VARIABLES
    corpus,   \* changes committed so far
    cache,    \* queries whose answer is cached
    basis,    \* the oldest corpus each query retrieved from
    asker,    \* progress of each query
    change,   \* progress of each change
    crashes,
    raced,    \* history: queries under way while the corpus changed
    latest    \* history: the change that committed last, in a set; at first {}

vars == <<corpus, cache, basis, asker, change, crashes, raced, latest>>

AskerState ==
    [pc : {"scan", "read", "retrieve", "store", "end"},
     keys : SUBSET Queries, retrieved : 0 .. Variants]

ChangeState ==
    [pc : {"start", "redo", "again", "audit", "invalidate", "delete", "done", "failed", "lost"},
     attempt : 1 .. MaxAttempts,
     before : SUBSET Queries,  \* the entries there when the invalidation began
     keys : SUBSET Queries]    \* those of its scan it has still to delete

TypeOK ==
    /\ corpus \in Nat
    /\ cache \subseteq Queries
    /\ basis \in [Queries -> Nat]
    /\ asker \in [Queries -> AskerState]
    /\ change \in [Changes -> ChangeState]
    /\ crashes \in 0 .. MaxCrashes
    /\ raced \subseteq Queries
    /\ latest \subseteq Changes

Init ==
    /\ corpus = 0
    /\ cache = {}
    /\ basis = [q \in Queries |-> 0]
    /\ asker = [q \in Queries |-> [pc |-> "scan", keys |-> {}, retrieved |-> 0]]
    /\ change = [c \in Changes |->
                  [pc |-> "start", attempt |-> 1, before |-> {}, keys |-> {}]]
    /\ crashes = 0
    /\ raced = {}
    /\ latest = {}

-----------------------------------------------------------------------------
(* Queries *)

UnchangedByQuery == UNCHANGED <<corpus, change, crashes, raced, latest>>

\* SCAN collects at most MaxScan keys.
ScanKeys(q) ==
    /\ asker[q].pc = "scan"
    /\ \E keys \in SUBSET cache :
         /\ keys = cache \/ Cardinality(keys) = MaxScan
         /\ asker' = [asker EXCEPT ![q].pc = "read", ![q].keys = keys]
    /\ UNCHANGED <<cache, basis>> /\ UnchangedByQuery

\* MGET; an entry that has gone since the scan is skipped, and a Redis error
\* at any point of the lookup is a miss.
ReadEntries(q) ==
    /\ asker[q].pc = "read"
    /\ LET found == asker[q].keys \cap cache IN
       \/ /\ found # {}
          /\ asker' = [asker EXCEPT ![q].pc = "end", ![q].keys = {}]
       \/ /\ found = {} \/ "redis" \in Faults
          /\ asker' = [asker EXCEPT ![q].pc = "retrieve", ![q].keys = {}]
    /\ UNCHANGED <<cache, basis>> /\ UnchangedByQuery

\* One retrieval; expansion may have found no rephrasing.
Retrieve(q) ==
    /\ asker[q].pc = "retrieve"
    /\ basis' = [basis EXCEPT ![q] = IF asker[q].retrieved = 0 THEN corpus ELSE @]
    /\ \E step \in {"retrieve", "store"} :
         /\ step = "retrieve" => asker[q].retrieved + 1 < Variants
         /\ asker' = [asker EXCEPT ![q].pc = step,
                                   ![q].retrieved = IF step = "store" THEN 0 ELSE @ + 1]
    /\ UNCHANGED cache /\ UnchangedByQuery

\* After generation and the commit.  A held answer is not stored, nor is one
\* when Redis fails.
Store(q) ==
    /\ asker[q].pc = "store"
    /\ cache' \in {cache, cache \cup {q}}
    /\ asker' = [asker EXCEPT ![q].pc = "end"]
    /\ UNCHANGED basis /\ UnchangedByQuery

\* The entry's time to live is over.
Expire(q) ==
    /\ q \in cache
    /\ cache' = cache \ {q}
    /\ UNCHANGED <<basis, asker>> /\ UnchangedByQuery

-----------------------------------------------------------------------------
(* Changes of the corpus *)

UnchangedByChange == UNCHANGED <<basis, asker>>

ChangeGoto(c, step) == change' = [change EXCEPT ![c].pc = step]

\* The change leaves its invalidation, if it was in one, unfinished.
BreakOff(c, step) == change' = [change EXCEPT ![c].pc = step, ![c].before = {}, ![c].keys = {}]

\* Queries that have retrieved and not yet stored may store something stale.
Commit(c) ==
    /\ corpus' = corpus + 1
    /\ latest' = {c}
    /\ raced' = raced \cup
         {q \in Queries : asker[q].pc = "store" \/ asker[q].retrieved > 0}

\* An ingest writes its audit row before it invalidates, the others after.
CommitChange(c) ==
    /\ change[c].pc \in {"start", "again"}
    /\ Commit(c)
    /\ ChangeGoto(c, IF Kind[c] = "ingest" THEN "audit" ELSE "invalidate")
    /\ UNCHANGED <<cache, crashes>> /\ UnchangedByChange

\* A repeated ingest first commits PROCESSING and no chunks, which changes the
\* corpus too.  Nothing invalidates the cache before the attempt has stored the
\* chunks again, which it may never do.
RetractChunks(c) ==
    /\ change[c].pc = "redo"
    /\ Commit(c)
    /\ ChangeGoto(c, "again")
    /\ UNCHANGED <<cache, crashes>> /\ UnchangedByChange

\* Nothing is stored.  The task is retried, or gives up for good: after its last
\* attempt, or at once if the staged file is gone or cannot be parsed.
IngestFails(c) ==
    /\ "ingest" \in Faults
    /\ Kind[c] = "ingest"
    /\ change[c].pc \in {"start", "again"}
    /\ \/ /\ change[c].attempt < MaxAttempts
          /\ change' = [change EXCEPT ![c].pc = IF @ = "again" THEN "redo" ELSE @,
                                      ![c].attempt = @ + 1]
       \/ ChangeGoto(c, "failed")
    /\ UNCHANGED <<corpus, cache, crashes, raced, latest>> /\ UnchangedByChange

\* Faulty: the ingest forgets the cache.
AuditOnly(c) ==
    /\ change[c].pc = "audit"
    /\ ChangeGoto(c, "done")
    /\ UNCHANGED <<corpus, cache, crashes, raced, latest>> /\ UnchangedByChange

AuditIngest(c) ==
    /\ change[c].pc = "audit"
    /\ ChangeGoto(c, "invalidate")
    /\ UNCHANGED <<corpus, cache, crashes, raced, latest>> /\ UnchangedByChange

\* Faulty: one attempt too many.
AuditFailsOnceMore(c) ==
    /\ "audit" \in Faults
    /\ change[c].pc = "audit"
    /\ IF change[c].attempt <= MaxAttempts
       THEN change' = [change EXCEPT ![c].pc = "redo", ![c].attempt = @ + 1]
       ELSE ChangeGoto(c, "failed")
    /\ UNCHANGED <<corpus, cache, crashes, raced, latest>> /\ UnchangedByChange

\* The task is retried or gives up for good.
AuditFails(c) ==
    /\ "audit" \in Faults
    /\ change[c].pc = "audit"
    /\ IF change[c].attempt < MaxAttempts
       THEN change' = [change EXCEPT ![c].pc = "redo", ![c].attempt = @ + 1]
       ELSE ChangeGoto(c, "failed")
    /\ UNCHANGED <<corpus, cache, crashes, raced, latest>> /\ UnchangedByChange

BeginInvalidation(c) ==
    /\ change[c].pc = "invalidate"
    /\ change' = [change EXCEPT ![c].pc = "delete", ![c].before = cache, ![c].keys = cache]
    /\ UNCHANGED <<corpus, cache, crashes, raced, latest>> /\ UnchangedByChange

\* A key that is added during a scan may turn up in it.
MeetNewKey(c) ==
    /\ change[c].pc = "delete"
    /\ \E q \in cache \ change[c].before : change' = [change EXCEPT ![c].keys = @ \cup {q}]
    /\ UNCHANGED <<corpus, cache, crashes, raced, latest>> /\ UnchangedByChange

\* Faulty: what is left in the last, smaller batch is not deleted.
DeleteFullBatches(c) ==
    /\ change[c].pc = "delete"
    /\ IF Cardinality(change[c].keys) < Batch
       THEN ChangeGoto(c, "done") /\ UNCHANGED cache
       ELSE \E batch \in SUBSET change[c].keys :
              /\ Cardinality(batch) = Batch
              /\ cache' = cache \ batch
              /\ change' = [change EXCEPT ![c].keys = @ \ batch]
    /\ UNCHANGED <<corpus, crashes, raced, latest>> /\ UnchangedByChange

DeleteBatch(c) ==
    /\ change[c].pc = "delete"
    /\ IF Cardinality(change[c].keys) < Batch
       THEN /\ cache' = cache \ change[c].keys
            /\ change' = [change EXCEPT ![c].pc = "done", ![c].keys = {}]
       ELSE \E batch \in SUBSET change[c].keys :
              /\ Cardinality(batch) = Batch
              /\ cache' = cache \ batch
              /\ change' = [change EXCEPT ![c].keys = @ \ batch]
    /\ UNCHANGED <<corpus, crashes, raced, latest>> /\ UnchangedByChange

\* Logged, and nothing tries again.
InvalidationFails(c) ==
    /\ "redis" \in Faults
    /\ change[c].pc \in {"invalidate", "delete"}
    /\ BreakOff(c, "failed")
    /\ UNCHANGED <<corpus, cache, crashes, raced, latest>> /\ UnchangedByChange

\* The task ends wherever it is and is not retried; in the invalidation the soft
\* limit is taken for an error of Redis.  An ingest whose document has been
\* deleted ends like this too, before it changes anything.
TimeIsUp(c) ==
    /\ "limit" \in Faults
    /\ Kind[c] = "ingest"
    /\ change[c].pc \notin {"done", "failed"}
    /\ BreakOff(c, "failed")
    /\ UNCHANGED <<corpus, cache, crashes, raced, latest>> /\ UnchangedByChange

\* What may die: an ingest until its message is acknowledged, which is after its
\* last step, another change until it has invalidated.
Mortal(c) ==
    IF Kind[c] = "ingest" THEN {"again", "audit", "invalidate", "delete", "done", "failed"}
                          ELSE {"invalidate", "delete"}

\* Faulty: the ingest task is not delivered again either.
ChangeIsLost(c) ==
    /\ "crash" \in Faults
    /\ change[c].pc \in Mortal(c)
    /\ crashes < MaxCrashes
    /\ crashes' = crashes + 1
    /\ BreakOff(c, "lost")
    /\ UNCHANGED <<corpus, cache, raced, latest>> /\ UnchangedByChange

\* A dead worker's ingest task is delivered again; a dead API process leaves
\* the cache as it is.
ChangeCrashes(c) ==
    /\ "crash" \in Faults
    /\ change[c].pc \in Mortal(c)
    /\ crashes < MaxCrashes
    /\ crashes' = crashes + 1
    /\ BreakOff(c, IF Kind[c] = "ingest" THEN "redo" ELSE "lost")
    /\ UNCHANGED <<corpus, cache, raced, latest>> /\ UnchangedByChange

-----------------------------------------------------------------------------
(* Specification *)

QueryStep(q) ==
    ScanKeys(q) \/ ReadEntries(q) \/ Retrieve(q) \/ Store(q) \/ Expire(q)

ChangeStep(c) ==
    \/ CommitChange(c) \/ RetractChunks(c) \/ AuditIngest(c)
    \/ BeginInvalidation(c) \/ DeleteBatch(c)

ChangeFault(c) ==
    \/ IngestFails(c) \/ AuditFails(c) \/ TimeIsUp(c)
    \/ InvalidationFails(c) \/ ChangeCrashes(c)

Next ==
    \/ \E q \in Queries : QueryStep(q)
    \/ \E c \in Changes : ChangeStep(c) \/ MeetNewKey(c) \/ ChangeFault(c)

Spec == Init /\ [][Next]_vars

\* A change that was asked for runs to its end unless it dies, and the message
\* of an ingest that died is delivered again.
FairSpec == Spec /\ \A c \in Changes : WF_vars(ChangeStep(c))

-----------------------------------------------------------------------------
(* Properties *)

\* Whatever is stored, expires or is deleted by another invalidation while one
\* scans and deletes in batches, once it is done no entry that was there when
\* it began is left.  (All faults.)
InvalidationIsComplete ==
    \A c \in Changes : change[c].pc = "done" => change[c].before \cap cache = {}

\* "The whole cache is dropped whenever the document corpus changes": once the
\* change that made the corpus what it is has invalidated, every cached answer
\* rests on that corpus, whatever else was stored, dropped and retried, and
\* even if the invalidation of an earlier change failed or died; only an
\* answer whose query had retrieved when the corpus changed and stored later
\* may be stale.
AnswersAreFresh ==
    (\E c \in latest : change[c].pc = "done") =>
        \A q \in cache : basis[q] = corpus \/ q \in raced

\* An ingest that has begun to change the corpus does not stay half done,
\* however often its worker dies: it stores its chunks and invalidates the cache,
\* or it fails for good.  Failing, it may leave the cache as it is although the
\* chunks of an earlier attempt are gone: a repeated attempt that fails until its
\* retries are used up, finds no readable file or meets a time limit never
\* invalidates, and neither does one that Redis or the audit table failed in the
\* end.  (All faults.)
IngestInvalidates ==
    \A c \in Changes :
        Kind[c] = "ingest" /\ change[c].pc # "start" ~> change[c].pc \in {"done", "failed"}
=============================================================================
