---------------------------- MODULE QueryReview ----------------------------
(***************************************************************************)
(* From a question to what the asker gets to read.  The query endpoint     *)
(* records the question, answers it from the semantic cache or generates   *)
(* and classifies an answer, and commits it as DELIVERED or, with a review *)
(* row, as UNDER_REVIEW; several more steps follow that commit before the  *)
(* answer or a notice is streamed.  Engineers decide reviews meanwhile,    *)
(* and the asker may read the history at any moment.  Each action is one   *)
(* transaction, one statement of a longer transaction or one Redis call.   *)
(*                                                                         *)
(* Left out: answer texts, citations and confidence (a risk level stands   *)
(* for all that classify_risk looks at), the audit rows (only that writing *)
(* one may fail), who asked, and the list of reviews, which only reads.    *)
(***************************************************************************)
EXTENDS Naturals

CONSTANTS
    Queries,    \* query ids; every question asked draws a new one (uuid4)
    Questions,  \* questions the cache tells apart: scope and similarity
    Asks,       \* the question of each query
    Reviewers,  \* requests of engineers to decide a review
    Readers,    \* requests for the query history
    Faults,     \* which of FaultKinds may happen in the instance checked
    NoQuery

(***************************************************************************)
(* generation  an error before the answer is committed (model, embedding,  *)
(*             database)                                                   *)
(* redis       Redis cannot be reached                                     *)
(* database    the database cannot be reached after that commit            *)
(* disconnect  the client goes away and the request is cancelled, or the   *)
(*             API process dies                                            *)
(***************************************************************************)
FaultKinds == {"generation", "redis", "database", "disconnect"}

ASSUME ConstantsAssumption ==
    /\ Asks \in [Queries -> Questions]
    /\ NoQuery \notin Queries
    /\ Faults \subseteq FaultKinds

VARIABLES
    status,    \* queries.status; "none" when there is no row
    response,  \* whose answer the response row carries; NoQuery without a row
    risk,      \* how the answer generated for a query was classified
    review,    \* the decision in the hitl_reviews row; "open" is NULL
    cache,     \* queries whose answer is in the semantic cache
    asker,     \* progress of each query request
    sent,      \* what each query request has streamed, error messages left out
    reviewer,  \* progress of each review request
    reader,    \* progress of each history request
    spoiled    \* history: queries whose request failed after it had committed
               \* their outcome

vars == <<status, response, risk, review, cache, asker, sent, reviewer, reader, spoiled>>

QueryStatus == {"PROCESSING", "UNDER_REVIEW", "DELIVERED", "REJECTED", "FAILED"}

Decisions == {"APPROVE", "EDIT", "REJECT"}

\* MEDIUM and HIGH answers are treated alike: hitl_required.
Risks == {"LOW", "HELD"}

\* An asker's pc names the step it takes next; one that is gone was cancelled,
\* or broke off without the database, and takes none.
AskerSteps == {"ask", "lookup", "hit", "generate", "commit", "store", "usage",
               "audit", "stream", "failing", "end", "gone"}

AskerState == [pc : AskerSteps, found : Queries \cup {NoQuery}]

ReviewerState ==
    [pc       : {"idle", "locked", "recorded", "answered", "refused"},
     query    : Queries \cup {NoQuery},
     decision : Decisions \cup {"none"}]

ReaderState ==
    [pc       : {"idle", "responses", "reviews", "shown"},
     query    : Queries \cup {NoQuery},
     status   : QueryStatus \cup {"none"},
     review   : Decisions \cup {"none", "open"}]

TypeOK ==
    /\ status \in [Queries -> QueryStatus \cup {"none"}]
    /\ response \in [Queries -> Queries \cup {NoQuery}]
    /\ risk \in [Queries -> Risks \cup {"none"}]
    /\ review \in [Queries -> Decisions \cup {"none", "open"}]
    /\ cache \in SUBSET Queries
    /\ asker \in [Queries -> AskerState]
    /\ \A q \in Queries : asker[q].pc = "hit" => asker[q].found \in Queries
    /\ sent \in [Queries -> SUBSET {"answer", "held"}]
    /\ reviewer \in [Reviewers -> ReviewerState]
    /\ \A r \in Reviewers :
         reviewer[r].pc \in {"locked", "recorded", "answered"} =>
             reviewer[r].query \in Queries
    /\ reader \in [Readers -> ReaderState]
    /\ \A h \in Readers : reader[h].pc # "idle" => reader[h].query \in Queries
    /\ spoiled \in SUBSET Queries

NotReading == [pc |-> "idle", query |-> NoQuery, status |-> "none", review |-> "none"]

Init ==
    /\ status = [q \in Queries |-> "none"]
    /\ response = [q \in Queries |-> NoQuery]
    /\ risk = [q \in Queries |-> "none"]
    /\ review = [q \in Queries |-> "none"]
    /\ cache = {}
    /\ asker = [q \in Queries |-> [pc |-> "ask", found |-> NoQuery]]
    /\ sent = [q \in Queries |-> {}]
    /\ reviewer = [r \in Reviewers |->
                    [pc |-> "idle", query |-> NoQuery, decision |-> "none"]]
    /\ reader = [h \in Readers |-> NotReading]
    /\ spoiled = {}

-----------------------------------------------------------------------------
(* The query request *)

At(q, step) == asker[q].pc = step

Goto(q, step) == asker' = [asker EXCEPT ![q].pc = step]

\* An answer that was generated for q itself and must be reviewed.
Held(q) == response[q] = q /\ risk[q] = "HELD"

SetStatus(q, new) == status' = [status EXCEPT ![q] = new]

UnchangedByAsker == UNCHANGED <<reviewer, reader, spoiled>>

Ask(q) ==
    /\ At(q, "ask")
    /\ SetStatus(q, "PROCESSING")
    /\ Goto(q, "lookup")
    /\ UNCHANGED <<response, risk, review, cache, sent>> /\ UnchangedByAsker

\* An error before there is a row leaves no row behind.
AskFails(q) ==
    /\ "generation" \in Faults
    /\ At(q, "ask")
    /\ Goto(q, "end")
    /\ UNCHANGED <<status, response, risk, review, cache, sent>> /\ UnchangedByAsker

LookupHit(q) ==
    /\ At(q, "lookup")
    /\ \E e \in cache :
         /\ Asks[e] = Asks[q]
         /\ asker' = [asker EXCEPT ![q] = [pc |-> "hit", found |-> e]]
    /\ UNCHANGED <<status, response, risk, review, cache, sent>> /\ UnchangedByAsker

\* Nothing similar is cached, or Redis does not answer.
LookupMiss(q) ==
    /\ At(q, "lookup")
    /\ "redis" \in Faults \/ \A e \in cache : Asks[e] # Asks[q]
    /\ Goto(q, "generate")
    /\ UNCHANGED <<status, response, risk, review, cache, sent>> /\ UnchangedByAsker

DeliverCached(q) ==
    /\ At(q, "hit")
    /\ response' = [response EXCEPT ![q] = asker[q].found]
    /\ SetStatus(q, "DELIVERED")
    /\ Goto(q, "audit")
    /\ UNCHANGED <<risk, review, cache, sent>> /\ UnchangedByAsker

\* Retrieval, generation and classification; an advising question, answer or
\* a low confidence make it HELD.
Generate(q) ==
    /\ At(q, "generate")
    /\ \E level \in Risks : risk' = [risk EXCEPT ![q] = level]
    /\ Goto(q, "commit")
    /\ UNCHANGED <<status, response, review, cache, sent>> /\ UnchangedByAsker

\* Faulty: held answers are cached like delivered ones.
HoldAndCache(q) ==
    /\ At(q, "commit")
    /\ risk[q] = "HELD"
    /\ response' = [response EXCEPT ![q] = q]
    /\ review' = [review EXCEPT ![q] = "open"]
    /\ SetStatus(q, "UNDER_REVIEW")
    /\ cache' = cache \cup {q}
    /\ Goto(q, "usage")
    /\ UNCHANGED <<risk, sent>> /\ UnchangedByAsker

\* Faulty: the open review is marked by a decision of its own.
HoldAsPending(q) ==
    /\ At(q, "commit")
    /\ risk[q] = "HELD"
    /\ response' = [response EXCEPT ![q] = q]
    /\ review' = [review EXCEPT ![q] = "PENDING"]
    /\ SetStatus(q, "UNDER_REVIEW")
    /\ Goto(q, "usage")
    /\ UNCHANGED <<risk, cache, sent>> /\ UnchangedByAsker

\* Response, review row and status are one transaction.
HoldForReview(q) ==
    /\ At(q, "commit")
    /\ risk[q] = "HELD"
    /\ response' = [response EXCEPT ![q] = q]
    /\ review' = [review EXCEPT ![q] = "open"]
    /\ SetStatus(q, "UNDER_REVIEW")
    /\ Goto(q, "usage")
    /\ UNCHANGED <<risk, cache, sent>> /\ UnchangedByAsker

Deliver(q) ==
    /\ At(q, "commit")
    /\ risk[q] = "LOW"
    /\ response' = [response EXCEPT ![q] = q]
    /\ SetStatus(q, "DELIVERED")
    /\ Goto(q, "store")
    /\ UNCHANGED <<risk, review, cache, sent>> /\ UnchangedByAsker

\* A failed write is only logged.
StoreInCache(q) ==
    /\ At(q, "store")
    /\ \/ cache' = cache \cup {q}
       \/ "redis" \in Faults /\ cache' = cache
    /\ Goto(q, "usage")
    /\ UNCHANGED <<status, response, risk, review, sent>> /\ UnchangedByAsker

\* Whatever is written after the commit may fail and take the except clause.
FailAfterCommit(q) == Goto(q, "failing") /\ spoiled' = spoiled \cup {q}

GoOn(q, step) == Goto(q, step) /\ UNCHANGED spoiled

\* The counter in Redis, or before it the refresh of the new review row.
RecordUsage(q) ==
    /\ At(q, "usage")
    /\ \/ GoOn(q, "audit")
       \/ "redis" \in Faults /\ FailAfterCommit(q)
       \/ "database" \in Faults /\ Held(q) /\ FailAfterCommit(q)
    /\ UNCHANGED <<status, response, risk, review, cache, sent, reviewer, reader>>

Audit(q) ==
    /\ At(q, "audit")
    /\ \/ GoOn(q, "stream")
       \/ "database" \in Faults /\ FailAfterCommit(q)
    /\ UNCHANGED <<status, response, risk, review, cache, sent, reviewer, reader>>

Stream(q) ==
    /\ At(q, "stream")
    /\ sent' = [sent EXCEPT ![q] = @ \cup {IF Held(q) THEN "held" ELSE "answer"}]
    /\ Goto(q, "end")
    /\ UNCHANGED <<status, response, risk, review, cache>> /\ UnchangedByAsker

GenerationFails(q) ==
    /\ "generation" \in Faults
    /\ asker[q].pc \in {"hit", "generate", "commit"}
    /\ Goto(q, "failing")
    /\ UNCHANGED <<status, response, risk, review, cache, sent>> /\ UnchangedByAsker

\* Faulty: after an error the row stays PROCESSING.
MarkNothing(q) ==
    /\ At(q, "failing")
    /\ Goto(q, "end")
    /\ UNCHANGED <<status, response, risk, review, cache, sent>> /\ UnchangedByAsker

\* Whatever failed and whatever was committed before, the row becomes FAILED.
MarkFailed(q) ==
    /\ At(q, "failing")
    /\ SetStatus(q, "FAILED")
    /\ Goto(q, "end")
    /\ UNCHANGED <<response, risk, review, cache, sent>> /\ UnchangedByAsker

\* The error path needs the database too; without it the stream breaks off.
MarkFails(q) ==
    /\ "database" \in Faults
    /\ At(q, "failing")
    /\ Goto(q, "gone")
    /\ UNCHANGED <<status, response, risk, review, cache, sent>> /\ UnchangedByAsker

\* A cancelled request runs none of its except clauses.
Disconnect(q) ==
    /\ "disconnect" \in Faults
    /\ asker[q].pc \notin {"ask", "end", "gone"}
    /\ Goto(q, "gone")
    /\ UNCHANGED <<status, response, risk, review, cache, sent>> /\ UnchangedByAsker

\* A cached answer expires, or a change of the corpus drops it.
DropFromCache(q) ==
    /\ cache' = cache \ {q}
    /\ UNCHANGED <<status, response, risk, review, asker, sent, reviewer, reader, spoiled>>

-----------------------------------------------------------------------------
(* Review requests *)

UnchangedByReviewer == UNCHANGED <<response, risk, cache, asker, sent, reader, spoiled>>

Locked(q) == \E r \in Reviewers : reviewer[r].pc = "locked" /\ reviewer[r].query = q

Found(r, q) ==
    reviewer' = [reviewer EXCEPT ![r] =
                  IF review[q] = "open" THEN [@ EXCEPT !.pc = "locked", !.query = q]
                  ELSE [@ EXCEPT !.pc = "refused"]]

\* Faulty: the review is read without FOR UPDATE.
ReadReview(r) ==
    /\ reviewer[r].pc = "idle"
    /\ \E q \in Queries : review[q] # "none" /\ Found(r, q)
    /\ UNCHANGED <<status, review>> /\ UnchangedByReviewer

\* SELECT ... FOR UPDATE waits for a concurrent decision to commit and then
\* reads the row anew; one that is decided is refused with a 409.
LockReview(r) ==
    /\ reviewer[r].pc = "idle"
    /\ \E q \in Queries : review[q] # "none" /\ ~Locked(q) /\ Found(r, q)
    /\ UNCHANGED <<status, review>> /\ UnchangedByReviewer

\* Faulty: the query's status is left to a later transaction.
DecideWithoutStatus(r) ==
    /\ reviewer[r].pc = "locked"
    /\ \E decision \in Decisions :
         /\ review' = [review EXCEPT ![reviewer[r].query] = decision]
         /\ reviewer' = [reviewer EXCEPT ![r].pc = "recorded", ![r].decision = decision]
    /\ UNCHANGED status /\ UnchangedByReviewer

\* Decision and status are one transaction, whose commit frees the row.
Decide(r) ==
    /\ reviewer[r].pc = "locked"
    /\ \E decision \in Decisions :
         /\ review' = [review EXCEPT ![reviewer[r].query] = decision]
         /\ SetStatus(reviewer[r].query,
                      IF decision = "REJECT" THEN "REJECTED" ELSE "DELIVERED")
         /\ reviewer' = [reviewer EXCEPT ![r].pc = "recorded", ![r].decision = decision]
    /\ UnchangedByReviewer

\* HITL_APPROVED, HITL_EDITED or HITL_REJECTED; without it the answer is 500
\* although the decision stands.
AuditDecision(r) ==
    /\ reviewer[r].pc = "recorded"
    /\ reviewer' = [reviewer EXCEPT ![r].pc = "answered"]
    /\ UNCHANGED <<status, review>> /\ UnchangedByReviewer

\* Without the database nothing is decided, or the decision stands unaudited.
ReviewFails(r) ==
    /\ "database" \in Faults
    /\ \/ /\ reviewer[r].pc = "locked"
          /\ reviewer' = [reviewer EXCEPT ![r].pc = "refused", ![r].query = NoQuery]
       \/ /\ reviewer[r].pc = "recorded"
          /\ reviewer' = [reviewer EXCEPT ![r].pc = "answered"]
    /\ UNCHANGED <<status, review>> /\ UnchangedByReviewer

-----------------------------------------------------------------------------
(* The history request: one statement each for the queries, their responses *)
(* and the reviews, in a READ COMMITTED transaction                         *)

UnchangedByReader ==
    UNCHANGED <<status, response, risk, review, cache, asker, sent, reviewer, spoiled>>

ReadQueries(h) ==
    /\ reader[h].pc = "idle"
    /\ \E q \in Queries :
         /\ status[q] # "none"
         /\ reader' = [reader EXCEPT ![h] =
                [pc |-> "responses", query |-> q, status |-> status[q], review |-> "none"]]
    /\ UnchangedByReader

\* A query without a response is not listed.
ReadResponses(h) ==
    /\ reader[h].pc = "responses"
    /\ reader' = [reader EXCEPT ![h] =
            IF response[reader[h].query] = NoQuery THEN NotReading ELSE [@ EXCEPT !.pc = "reviews"]]
    /\ UnchangedByReader

ReadReviews(h) ==
    /\ reader[h].pc = "reviews"
    /\ reader' = [reader EXCEPT ![h].pc = "shown", ![h].review = review[reader[h].query]]
    /\ UnchangedByReader

\* Faulty: a rejected answer is shown like a delivered one.
AnswerUnlessHeld(h) == IF reader[h].status = "UNDER_REVIEW" THEN "held" ELSE "answer"

\* answer_text in the history: the response's text or a notice.
VisibleAnswer(h) ==
    CASE reader[h].status = "UNDER_REVIEW" -> "held"
      [] reader[h].status = "REJECTED" -> "rejected"
      [] OTHER -> "answer"

ShowsAnswer(h) == reader[h].pc = "shown" /\ VisibleAnswer(h) = "answer"

-----------------------------------------------------------------------------
(* Specification *)

AskerStep(q) ==
    \/ LookupHit(q) \/ LookupMiss(q) \/ DeliverCached(q) \/ Generate(q)
    \/ HoldForReview(q) \/ Deliver(q) \/ StoreInCache(q) \/ RecordUsage(q)
    \/ Audit(q) \/ Stream(q) \/ MarkFailed(q)

AskerFault(q) ==
    AskFails(q) \/ GenerationFails(q) \/ MarkFails(q) \/ Disconnect(q)

ReviewerStep(r) == LockReview(r) \/ Decide(r) \/ AuditDecision(r) \/ ReviewFails(r)

ReaderStep(h) == ReadQueries(h) \/ ReadResponses(h) \/ ReadReviews(h)

Next ==
    \/ \E q \in Queries : Ask(q) \/ AskerStep(q) \/ AskerFault(q) \/ DropFromCache(q)
    \/ \E r \in Reviewers : ReviewerStep(r)
    \/ \E h \in Readers : ReaderStep(h)

Spec == Init /\ [][Next]_vars

\* A request that is not cancelled runs on.  Nobody is obliged to ask, to
\* review or to read.
FairSpec == Spec /\ \A q \in Queries : WF_vars(AskerStep(q))

-----------------------------------------------------------------------------
(* Properties *)

\* An engineer who was told that a decision was recorded, or whose request
\* recorded one, finds it in the review: of two engineers deciding at once
\* one gets the conflict.
DecisionStands ==
    \A r \in Reviewers :
        reviewer[r].pc \in {"recorded", "answered"} =>
            review[reviewer[r].query] = reviewer[r].decision

\* What goes out over the stream, at once or later from the cache, is only
\* ever an answer classified LOW.
StreamIsSafe ==
    \A q \in Queries :
        /\ "answer" \in sent[q] => response[q] # NoQuery /\ risk[response[q]] = "LOW"
        /\ q \in cache => risk[q] = "LOW"

\* The query row and the review row, written by different requests, agree;
\* only a failure after the commit, which marks the query FAILED over its
\* outcome, parts them.
StatusMatchesReview ==
    \A q \in Queries \ spoiled :
        /\ status[q] = "UNDER_REVIEW" <=> review[q] = "open"
        /\ status[q] = "REJECTED" <=> review[q] = "REJECT"
        /\ status[q] = "DELIVERED" =>
             review[q] \in {"APPROVE", "EDIT"} \/ risk[response[q]] = "LOW"

\* A history that found the query past PROCESSING shows an answer that was
\* held only if an engineer approved or edited it, although status, response
\* and review are read at three moments; queries that failed after their
\* commit excepted.
SettledHistoryIsSafe ==
    \A h \in Readers :
        LET q == reader[h].query IN
        ShowsAnswer(h) /\ reader[h].status # "PROCESSING" /\ Held(q) /\ q \notin spoiled =>
            reader[h].review \in {"APPROVE", "EDIT"}

\* Every question is answered, held or failed in the end, whatever failed on
\* the way; it stays PROCESSING only if its request was cancelled or broke off
\* for want of a database to write FAILED to.
QuestionSettles ==
    \A q \in Queries :
        status[q] = "PROCESSING" ~> status[q] # "PROCESSING" \/ asker[q].pc = "gone"

\* How far the answer to q got, as AnswerRelease sees it.
Fate(q) ==
    IF q \in spoiled THEN "lost"
    ELSE CASE status[q] = "none" -> "unasked"
           [] status[q] = "PROCESSING" -> "pending"
           [] status[q] = "FAILED" /\ response[q] = NoQuery -> "failed"
           [] status[q] = "DELIVERED" /\ response[q] # NoQuery /\ ~Held(q) -> "answered"
           [] status[q] = "UNDER_REVIEW" /\ Held(q) -> "withheld"
           [] status[q] = "DELIVERED" /\ Held(q) -> "released"
           [] status[q] = "REJECTED" /\ Held(q) -> "refused"
           [] OTHER -> "corrupt"

Release == [q \in Queries |-> Fate(q)]

AR == INSTANCE AnswerRelease WITH release <- Release

\* Queries and reviews implement the promise to the operator: a held answer
\* is released or refused only out of review, once, under all faults.
ImplementsAnswerRelease == AR!Spec

-----------------------------------------------------------------------------
(* What the repository says of a rejected answer and the code refutes       *)

\* "This answer was rejected by the reviewing engineer and has been withheld."
\* A failure of Redis after the commit refutes it if the query is marked FAILED
\* only after it was rejected.
RejectedIsWithheld ==
    \A q \in Queries : review[q] = "REJECT" => status[q] \in {"UNDER_REVIEW", "REJECTED"}
=============================================================================
