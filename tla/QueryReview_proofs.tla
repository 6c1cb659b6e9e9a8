------------------------- MODULE QueryReview_proofs -------------------------
(***************************************************************************)
(* Theorems about QueryReview, for any queries, questions, engineers and   *)
(* readers of the history, under all faults.                               *)
(***************************************************************************)
EXTENDS QueryReview, TLAPS

-----------------------------------------------------------------------------
(* Type correctness *)

\* The initial state is well typed.
LEMMA TypeInit == Init => TypeOK
  BY ConstantsAssumption
  DEF Init, TypeOK, AskerState, AskerSteps, ReviewerState, ReaderState, NotReading

\* The steps of a query request keep the types.
LEMMA TypeAsker ==
  ASSUME TypeOK, NEW q \in Queries,
         Ask(q) \/ AskerStep(q) \/ AskerFault(q) \/ DropFromCache(q)
  PROVE  TypeOK'
  <1> USE ConstantsAssumption DEF Goto, SetStatus, UnchangedByAsker, QueryStatus
  <1>0. asker[q] \in AskerState
    BY DEF TypeOK
  <1>1. CASE \E step \in AskerSteps \ {"hit"} : Goto(q, step)
    <2>1. /\ asker' \in [Queries -> AskerState]
          /\ \A p \in Queries : asker'[p].pc = "hit" => asker'[p].found \in Queries
      BY <1>1 DEF TypeOK, AskerState, AskerSteps
    <2>2. CASE Ask(q) \/ MarkFailed(q)
      BY <2>1, <2>2 DEF TypeOK, Ask, MarkFailed
    <2>3. CASE DeliverCached(q)
      BY <2>1, <2>3 DEF TypeOK, DeliverCached, At
    <2>4. CASE Generate(q)
      BY <2>1, <2>4 DEF TypeOK, Generate, Risks
    <2>5. CASE HoldForReview(q) \/ Deliver(q)
      BY <2>1, <2>5 DEF TypeOK, HoldForReview, Deliver
    <2>6. CASE StoreInCache(q)
      BY <2>1, <2>6 DEF TypeOK, StoreInCache
    <2>7. CASE RecordUsage(q) \/ Audit(q)
      BY <2>1, <2>7 DEF TypeOK, RecordUsage, Audit, GoOn, FailAfterCommit
    <2>8. CASE Stream(q)
      BY <2>1, <2>8 DEF TypeOK, Stream
    <2>9. CASE LookupMiss(q) \/ AskerFault(q)
      BY <2>1, <2>9 DEF TypeOK, LookupMiss, AskerFault, AskFails, GenerationFails,
         MarkFails, Disconnect
    <2>10. CASE LookupHit(q)
      BY <1>0, <1>1, <2>10 DEF LookupHit, TypeOK, AskerState, AskerSteps
    <2>11. CASE DropFromCache(q)
      BY <2>11 DEF TypeOK, DropFromCache
    <2>12. QED
      BY <2>2, <2>3, <2>4, <2>5, <2>6, <2>7, <2>8, <2>9, <2>10, <2>11 DEF AskerStep
  <1>2. CASE LookupHit(q)
    BY <1>2 DEF LookupHit, TypeOK, AskerState, AskerSteps
  <1>3. CASE DropFromCache(q)
    BY <1>3 DEF DropFromCache, TypeOK
  <1>4. QED
    BY <1>1, <1>2, <1>3
    DEF AskerStep, AskerFault, AskerSteps, Ask, LookupMiss, DeliverCached, Generate,
        HoldForReview, Deliver, StoreInCache, RecordUsage, Audit, Stream, MarkFailed,
        AskFails, GenerationFails, MarkFails, Disconnect, GoOn, FailAfterCommit

\* The steps of a review request keep the types.
LEMMA TypeReviewer ==
  ASSUME TypeOK, NEW r \in Reviewers, ReviewerStep(r)
  PROVE  TypeOK'
  <1> USE ConstantsAssumption DEF TypeOK, ReviewerState, UnchangedByReviewer
  <1>1. CASE LockReview(r)
    <2>1. PICK q \in Queries : review[q] # "none" /\ ~Locked(q) /\ Found(r, q)
      BY <1>1 DEF LockReview
    <2>2. CASE review[q] = "open"
      <3>1. reviewer' = [reviewer EXCEPT ![r].pc = "locked", ![r].query = q]
        BY <2>1, <2>2 DEF Found
      <3>2. reviewer[r] \in ReviewerState /\ reviewer \in [Reviewers -> ReviewerState]
        OBVIOUS
      <3>3. reviewer' \in [Reviewers -> ReviewerState]
        BY <3>1, <3>2
      <3>4. UNCHANGED <<status, response, risk, review, cache, asker, sent, reader, spoiled>>
        BY <1>1 DEF LockReview
      <3>5. \A s \in Reviewers : s # r => reviewer'[s] = reviewer[s]
        BY <3>1, <3>2
      <3>6. reviewer'[r].query = q
        BY <3>1, <3>2
      <3>7. QED
        BY <3>3, <3>4, <3>5, <3>6
    <2>3. CASE review[q] # "open"
      <3>1. reviewer' = [reviewer EXCEPT ![r].pc = "refused"]
        BY <2>1, <2>3 DEF Found
      <3>2. QED
        BY <1>1, <3>1 DEF LockReview
    <2>4. QED
      BY <2>2, <2>3
  <1>2. CASE Decide(r)
    <2>1. PICK decision \in Decisions :
            /\ review' = [review EXCEPT ![reviewer[r].query] = decision]
            /\ SetStatus(reviewer[r].query,
                         IF decision = "REJECT" THEN "REJECTED" ELSE "DELIVERED")
            /\ reviewer' = [reviewer EXCEPT ![r].pc = "recorded", ![r].decision = decision]
      BY <1>2 DEF Decide
    <2>2. status' \in [Queries -> QueryStatus \cup {"none"}]
      BY <2>1 DEF SetStatus, QueryStatus
    <2>3. review' \in [Queries -> Decisions \cup {"none", "open"}]
      BY <2>1
    <2>4. /\ reviewer' \in [Reviewers -> ReviewerState]
          /\ \A s \in Reviewers : s # r => reviewer'[s] = reviewer[s]
          /\ reviewer'[r].query = reviewer[r].query
      <3> DEFINE new == [reviewer[r] EXCEPT !.pc = "recorded", !.decision = decision]
      <3>1. reviewer[r] \in ReviewerState
        OBVIOUS
      <3>2. new \in ReviewerState /\ new.query = reviewer[r].query
        BY <3>1
      <3>3. reviewer' = [reviewer EXCEPT ![r] = new]
        BY <2>1
      <3> HIDE DEF new
      <3>4. QED
        BY <3>2, <3>3
    <2>5. reviewer[r].query \in Queries
      BY <1>2 DEF Decide
    <2>6. QED
      BY <1>2, <2>2, <2>3, <2>4, <2>5 DEF Decide
  <1>3. CASE AuditDecision(r) \/ ReviewFails(r)
    BY <1>3 DEF AuditDecision, ReviewFails
  <1>4. QED
    BY <1>1, <1>2, <1>3 DEF ReviewerStep

\* The steps of a history request keep the types.
LEMMA TypeReader ==
  ASSUME TypeOK, NEW h \in Readers, ReaderStep(h)
  PROVE  TypeOK'
  <1> USE ConstantsAssumption DEF TypeOK, ReaderState, UnchangedByReader
  <1>1. CASE ReadQueries(h)
    BY <1>1 DEF ReadQueries
  <1>2. CASE ReadResponses(h)
    BY <1>2 DEF ReadResponses, NotReading
  <1>3. CASE ReadReviews(h)
    <2>1. reader[h].query \in Queries
      BY <1>3 DEF ReadReviews
    <2>2. review[reader[h].query] \in Decisions \cup {"none", "open"}
      BY <2>1
    <2>3. /\ reader' \in [Readers -> ReaderState]
          /\ \A g \in Readers : g # h => reader'[g] = reader[g]
          /\ reader'[h].query = reader[h].query
      <3> DEFINE new == [reader[h] EXCEPT !.pc = "shown", !.review = review[reader[h].query]]
      <3>1. reader[h] \in ReaderState /\ reader \in [Readers -> ReaderState]
        OBVIOUS
      <3>2. new \in ReaderState /\ new.query = reader[h].query
        BY <2>2, <3>1
      <3>3. reader' = [reader EXCEPT ![h] = new]
        BY <1>3 DEF ReadReviews
      <3> HIDE DEF new
      <3>4. QED
        BY <3>1, <3>2, <3>3
    <2>4. QED
      BY <1>3, <2>1, <2>3 DEF ReadReviews
  <1>4. QED
    BY <1>1, <1>2, <1>3 DEF ReaderStep

\* Every step keeps the types.
LEMMA TypeStep == TypeOK /\ [Next]_vars => TypeOK'
  <1> SUFFICES ASSUME TypeOK, [Next]_vars PROVE TypeOK'
    OBVIOUS
  <1>1. CASE UNCHANGED vars
    BY <1>1 DEF vars, TypeOK
  <1>2. QED
    BY <1>1, TypeAsker, TypeReviewer, TypeReader DEF Next

\* Every reachable state is well typed.
THEOREM TypeCorrect == Spec => []TypeOK
  BY TypeInit, TypeStep, PTL DEF Spec

-----------------------------------------------------------------------------
(* The rows of a query *)

Uncommitted == {"lookup", "hit", "generate", "commit"}

Committed == {"store", "usage", "audit", "stream"}

\* The status that goes with a review of a query that has a response.
Outcome(decision) ==
    CASE decision = "open" -> "UNDER_REVIEW"
      [] decision = "REJECT" -> "REJECTED"
      [] OTHER -> "DELIVERED"

\* What the request of q may rely on in the rows of q: the response comes with
\* the commit, a review with a held response, and the status follows the review
\* from then on unless the request has failed since.
RowInv(q) ==
    /\ asker[q].pc = "ask" => status[q] = "none" /\ response[q] = NoQuery
    /\ asker[q].pc \in Uncommitted => status[q] = "PROCESSING" /\ response[q] = NoQuery
    /\ asker[q].pc \in Committed => response[q] # NoQuery /\ q \notin spoiled
    /\ response[q] = NoQuery =>
         /\ status[q] \in {"none", "PROCESSING", "FAILED"} /\ q \notin spoiled
         /\ asker[q].pc = "failing" => status[q] = "PROCESSING"
    /\ response[q] # NoQuery /\ q \notin spoiled =>
         asker[q].pc # "failing" /\ status[q] = Outcome(review[q])
    /\ status[q] = "FAILED" => asker[q].pc = "end"
    /\ review[q] # "none" <=> Held(q)

\* An answer that was generated for its query and classified LOW.
Free(e) == response[e] = e /\ risk[e] = "LOW"

\* Where answers come from: a response that is not the query's own, held one is
\* a free one, and so is all that is cached, found in the cache, about to be
\* stored or streamed as an answer.
AnswerInv(q) ==
    /\ response[q] # NoQuery => Free(response[q]) \/ Held(q)
    /\ asker[q].pc = "hit" => Free(asker[q].found)
    /\ asker[q].pc = "store" \/ q \in cache => Free(q)
    /\ "answer" \in sent[q] => response[q] # NoQuery /\ Free(response[q])

\* A locked review is open and nobody else's; a recorded decision stands.
ReviewInv(r) ==
    LET q == reviewer[r].query IN
    /\ reviewer[r].pc = "locked" =>
         /\ review[q] = "open"
         /\ \A s \in Reviewers \ {r} : reviewer[s].pc = "locked" => reviewer[s].query # q
    /\ reviewer[r].pc \in {"recorded", "answered"} =>
         q \in Queries /\ reviewer[r].decision \in Decisions /\ review[q] = reviewer[r].decision

\* What a history has read of a query still holds in the rows: FAILED without a
\* response, or DELIVERED with one that is approved if it was held.
ReaderInv(h) ==
    LET q == reader[h].query IN
    reader[h].pc # "idle" /\ q \notin spoiled =>
        /\ reader[h].status # "none"
        /\ reader[h].status = "FAILED" => response[q] = NoQuery /\ asker[q].pc = "end"
        /\ reader[h].status = "DELIVERED" =>
             /\ response[q] # NoQuery
             /\ Held(q) => review[q] \in {"APPROVE", "EDIT"}
             /\ Held(q) /\ reader[h].pc = "shown" => reader[h].review \in {"APPROVE", "EDIT"}

QueryInv ==
    /\ TypeOK
    /\ \A q \in Queries : RowInv(q) /\ AnswerInv(q)
    /\ \A r \in Reviewers : ReviewInv(r)
    /\ \A h \in Readers : ReaderInv(h)

AskerAction(q) == Ask(q) \/ AskerStep(q) \/ AskerFault(q) \/ DropFromCache(q)

\* The initial state satisfies it.
LEMMA QueryInit == Init => QueryInv
  BY TypeInit, ConstantsAssumption
  DEF Init, QueryInv, RowInv, AnswerInv, ReviewInv, ReaderInv, Free, Held, NotReading,
      Uncommitted, Committed

\* A query request leaves the rows of other queries and all other requests alone.
LEMMA AskerFrame ==
  ASSUME TypeOK, NEW p \in Queries, AskerAction(p)
  PROVE  /\ UNCHANGED <<reviewer, reader>>
         /\ \A q \in Queries \ {p} :
              /\ status'[q] = status[q] /\ response'[q] = response[q] /\ risk'[q] = risk[q]
              /\ review'[q] = review[q] /\ asker'[q] = asker[q] /\ sent'[q] = sent[q]
              /\ q \in cache' <=> q \in cache
              /\ q \in spoiled' <=> q \in spoiled
  BY DEF TypeOK, AskerAction, AskerStep, AskerFault, Ask, AskFails, LookupHit, LookupMiss,
     DeliverCached, Generate, HoldForReview, Deliver, StoreInCache, RecordUsage, Audit,
     Stream, MarkFailed, GenerationFails, MarkFails, Disconnect, DropFromCache, Goto,
     GoOn, FailAfterCommit, SetStatus, UnchangedByAsker

\* A response, once there, stays, and so does its classification.
LEMMA ResponseStays ==
  ASSUME QueryInv, NEW p \in Queries, AskerAction(p), NEW e \in Queries,
         response[e] # NoQuery
  PROVE  response'[e] = response[e] /\ risk'[e] = risk[e]
  <1>1. CASE e # p
    BY <1>1, AskerFrame DEF QueryInv
  <1>2. CASE e = p
    <2>1. RowInv(p) /\ TypeOK
      BY DEF QueryInv
    <2>2. asker[p].pc \notin {"ask", "lookup", "hit", "generate", "commit"}
      BY <1>2, <2>1 DEF RowInv, Uncommitted
    <2>3. QED
      BY <1>2, <2>1, <2>2
      DEF AskerAction, AskerStep, AskerFault, Ask, AskFails, LookupHit, LookupMiss,
          DeliverCached, Generate, HoldForReview, Deliver, StoreInCache, RecordUsage, Audit,
          Stream, MarkFailed, GenerationFails, MarkFails, Disconnect, DropFromCache, At
  <1>3. QED
    BY <1>1, <1>2

\* Free answers stay free.
LEMMA FreeStays ==
  ASSUME QueryInv, NEW p \in Queries, AskerAction(p), NEW e \in Queries, Free(e)
  PROVE  Free(e)'
  BY ResponseStays, ConstantsAssumption DEF Free

\* The request of q keeps what it relies on.
LEMMA RowStep ==
  ASSUME QueryInv, NEW q \in Queries, AskerAction(q)
  PROVE  RowInv(q)'
  <1>0. TypeOK /\ RowInv(q) /\ AnswerInv(q)
    BY DEF QueryInv
  <1> USE ConstantsAssumption
  <1>a. risk[q] \in Risks \cup {"none"} /\ asker[q].pc \in AskerSteps
    BY <1>0 DEF TypeOK, AskerState
  <1>1. CASE Ask(q)
    <2>1. /\ asker[q].pc = "ask" /\ asker'[q].pc = "lookup"
          /\ status'[q] = "PROCESSING"
          /\ response'[q] = response[q]
          /\ risk'[q] = risk[q]
          /\ review'[q] = review[q]
          /\ q \in spoiled' <=> q \in spoiled
      BY <1>0, <1>1 DEF Ask, At, Goto, SetStatus, UnchangedByAsker, TypeOK, AskerState
    <2>2. QED
      BY <1>0, <1>a, <2>1 DEF RowInv, Uncommitted, Committed, Held, Outcome, At, Risks
  <1>2. CASE AskFails(q)
    <2>1. /\ asker[q].pc = "ask" /\ asker'[q].pc = "end"
          /\ status'[q] = status[q]
          /\ response'[q] = response[q]
          /\ risk'[q] = risk[q]
          /\ review'[q] = review[q]
          /\ q \in spoiled' <=> q \in spoiled
      BY <1>0, <1>2 DEF AskFails, At, Goto, SetStatus, UnchangedByAsker, TypeOK, AskerState
    <2>2. QED
      BY <1>0, <1>a, <2>1 DEF RowInv, Uncommitted, Committed, Held, Outcome, At, Risks
  <1>3. CASE LookupHit(q) \/ LookupMiss(q)
    <2>1. /\ asker[q].pc = "lookup" /\ asker'[q].pc \in {"hit", "generate"}
          /\ status'[q] = status[q]
          /\ response'[q] = response[q]
          /\ risk'[q] = risk[q]
          /\ review'[q] = review[q]
          /\ q \in spoiled' <=> q \in spoiled
      BY <1>0, <1>3 DEF LookupHit, LookupMiss, At, Goto, SetStatus, UnchangedByAsker, TypeOK, AskerState
    <2>2. QED
      BY <1>0, <1>a, <2>1 DEF RowInv, Uncommitted, Committed, Held, Outcome, At, Risks
  <1>4. CASE DeliverCached(q)
    <2>1. asker[q].found \in Queries /\ Free(asker[q].found) /\ response[q] = NoQuery
      BY <1>0, <1>4 DEF DeliverCached, At, TypeOK, AnswerInv, RowInv, Uncommitted
    <2>2. asker[q].found # q
      BY <2>1 DEF Free
    <2>3. /\ asker[q].pc = "hit" /\ asker'[q].pc = "audit"
          /\ status'[q] = "DELIVERED"
          /\ response'[q] = asker[q].found
          /\ risk'[q] = risk[q]
          /\ review'[q] = review[q]
          /\ q \in spoiled' <=> q \in spoiled
      BY <1>0, <1>4 DEF DeliverCached, At, Goto, SetStatus, UnchangedByAsker, TypeOK, AskerState
    <2>4. QED
      BY <1>0, <2>1, <2>2, <2>3 DEF RowInv, Uncommitted, Committed, Held, Outcome
  <1>5. CASE Generate(q)
    <2>1. /\ asker[q].pc = "generate" /\ asker'[q].pc = "commit"
          /\ status'[q] = status[q]
          /\ response'[q] = response[q]
          /\ review'[q] = review[q]
          /\ q \in spoiled' <=> q \in spoiled
      BY <1>0, <1>5 DEF Generate, At, Goto, SetStatus, UnchangedByAsker, TypeOK, AskerState
    <2>2. QED
      BY <1>0, <1>a, <2>1 DEF RowInv, Uncommitted, Committed, Held, Outcome, At, Risks
  <1>6. CASE HoldForReview(q)
    <2>1. /\ asker[q].pc = "commit" /\ asker'[q].pc = "usage" /\ risk[q] = "HELD"
          /\ response'[q] = q /\ review'[q] = "open" /\ status'[q] = "UNDER_REVIEW"
          /\ risk'[q] = risk[q]
          /\ q \in spoiled' <=> q \in spoiled
      BY <1>0, <1>6 DEF HoldForReview, At, Goto, SetStatus, UnchangedByAsker, TypeOK, AskerState
    <2>2. QED
      BY <1>0, <1>a, <2>1 DEF RowInv, Uncommitted, Committed, Held, Outcome, At, Risks
  <1>7. CASE Deliver(q)
    <2>1. /\ asker[q].pc = "commit" /\ asker'[q].pc = "store" /\ risk[q] = "LOW"
          /\ response'[q] = q /\ status'[q] = "DELIVERED"
          /\ risk'[q] = risk[q]
          /\ review'[q] = review[q]
          /\ q \in spoiled' <=> q \in spoiled
      BY <1>0, <1>7 DEF Deliver, At, Goto, SetStatus, UnchangedByAsker, TypeOK, AskerState
    <2>2. QED
      BY <1>0, <1>a, <2>1 DEF RowInv, Uncommitted, Committed, Held, Outcome, At, Risks
  <1>8. CASE StoreInCache(q)
    <2>1. /\ asker[q].pc = "store" /\ asker'[q].pc = "usage"
          /\ status'[q] = status[q]
          /\ response'[q] = response[q]
          /\ risk'[q] = risk[q]
          /\ review'[q] = review[q]
          /\ q \in spoiled' <=> q \in spoiled
      BY <1>0, <1>8 DEF StoreInCache, At, Goto, SetStatus, UnchangedByAsker, TypeOK, AskerState
    <2>2. QED
      BY <1>0, <1>a, <2>1 DEF RowInv, Uncommitted, Committed, Held, Outcome, At, Risks
  <1>9. CASE RecordUsage(q) \/ Audit(q)
    <2>1. /\ asker[q].pc \in {"usage", "audit"}
          /\ \/ asker'[q].pc \in {"audit", "stream"} /\ (q \in spoiled' <=> q \in spoiled)
             \/ asker'[q].pc = "failing" /\ q \in spoiled'
          /\ status'[q] = status[q]
          /\ response'[q] = response[q]
          /\ risk'[q] = risk[q]
          /\ review'[q] = review[q]
      BY <1>0, <1>9 DEF RecordUsage, Audit, GoOn, FailAfterCommit, At, Goto, SetStatus, UnchangedByAsker, TypeOK, AskerState
    <2>2. QED
      BY <1>0, <1>a, <2>1 DEF RowInv, Uncommitted, Committed, Held, Outcome, At, Risks
  <1>10. CASE Stream(q)
    <2>1. /\ asker[q].pc = "stream" /\ asker'[q].pc = "end"
          /\ status'[q] = status[q]
          /\ response'[q] = response[q]
          /\ risk'[q] = risk[q]
          /\ review'[q] = review[q]
          /\ q \in spoiled' <=> q \in spoiled
      BY <1>0, <1>10 DEF Stream, At, Goto, SetStatus, UnchangedByAsker, TypeOK, AskerState
    <2>2. QED
      BY <1>0, <1>a, <2>1 DEF RowInv, Uncommitted, Committed, Held, Outcome, At, Risks
  <1>11. CASE GenerationFails(q)
    <2>1. /\ asker[q].pc \in {"hit", "generate", "commit"} /\ asker'[q].pc = "failing"
          /\ status'[q] = status[q]
          /\ response'[q] = response[q]
          /\ risk'[q] = risk[q]
          /\ review'[q] = review[q]
          /\ q \in spoiled' <=> q \in spoiled
      BY <1>0, <1>11 DEF GenerationFails, At, Goto, SetStatus, UnchangedByAsker, TypeOK, AskerState
    <2>2. QED
      BY <1>0, <1>a, <2>1 DEF RowInv, Uncommitted, Committed, Held, Outcome, At, Risks
  <1>12. CASE MarkFailed(q)
    <2>1. /\ asker[q].pc = "failing" /\ asker'[q].pc = "end"
          /\ status'[q] = "FAILED"
          /\ response'[q] = response[q]
          /\ risk'[q] = risk[q]
          /\ review'[q] = review[q]
          /\ q \in spoiled' <=> q \in spoiled
      BY <1>0, <1>12 DEF MarkFailed, At, Goto, SetStatus, UnchangedByAsker, TypeOK, AskerState
    <2>2. QED
      BY <1>0, <1>a, <2>1 DEF RowInv, Uncommitted, Committed, Held, Outcome, At, Risks
  <1>13. CASE MarkFails(q) \/ Disconnect(q)
    <2>1. /\ asker[q].pc \notin {"ask", "end", "gone"} /\ asker'[q].pc = "gone"
          /\ status'[q] = status[q]
          /\ response'[q] = response[q]
          /\ risk'[q] = risk[q]
          /\ review'[q] = review[q]
          /\ q \in spoiled' <=> q \in spoiled
      BY <1>0, <1>13 DEF MarkFails, Disconnect, At, Goto, SetStatus, UnchangedByAsker, TypeOK, AskerState
    <2>2. QED
      BY <1>0, <1>a, <2>1 DEF RowInv, Uncommitted, Committed, Held, Outcome, At, Risks
  <1>14. CASE DropFromCache(q)
    BY <1>0, <1>14 DEF DropFromCache, RowInv, Held
  <1>15. QED
    BY <1>1, <1>2, <1>3, <1>4, <1>5, <1>6, <1>7, <1>8, <1>9, <1>10, <1>11, <1>12, <1>13,
       <1>14 DEF AskerAction, AskerStep, AskerFault

\* Its answer comes from where answers may come from.
LEMMA AnswerStep ==
  ASSUME QueryInv, NEW q \in Queries, AskerAction(q)
  PROVE  AnswerInv(q)'
  <1>0. TypeOK /\ RowInv(q) /\ AnswerInv(q) /\ RowInv(q)'
    BY RowStep DEF QueryInv
  <1>a. \A e \in Queries : Free(e) => Free(e)'
    BY FreeStays
  <1>b. response[q] \in Queries \cup {NoQuery} /\ response'[q] \in Queries \cup {NoQuery}
    BY <1>0, TypeAsker DEF TypeOK, AskerAction
  <1> USE ConstantsAssumption
  <1>1. CASE LookupHit(q)
    <2>1. PICK e \in cache : asker' = [asker EXCEPT ![q] = [pc |-> "hit", found |-> e]]
      BY <1>1 DEF LookupHit
    <2>2. e \in Queries /\ Free(e)
      BY <1>0, <2>1 DEF TypeOK, QueryInv, AnswerInv
    <2>3. asker'[q].pc = "hit" /\ asker'[q].found = e
      BY <1>0, <2>1 DEF TypeOK
    <2>4. response[q] = NoQuery
      BY <1>0, <1>1 DEF LookupHit, RowInv, Uncommitted, At
    <2>5. QED
      BY <1>0, <1>1, <1>a, <2>2, <2>3, <2>4 DEF LookupHit, AnswerInv
  <1>2. CASE DeliverCached(q)
    <2>1. asker[q].found \in Queries /\ Free(asker[q].found) /\ response[q] = NoQuery
      BY <1>0, <1>2 DEF DeliverCached, TypeOK, AnswerInv, RowInv, Uncommitted, At
    <2>2. response'[q] = asker[q].found /\ asker'[q].pc = "audit"
      BY <1>0, <1>2 DEF DeliverCached, TypeOK, Goto, AskerState
    <2>3. ~(q \in cache) /\ ~("answer" \in sent[q])
      BY <1>0, <2>1 DEF AnswerInv, Free
    <2>4. QED
      BY <1>2, <1>a, <2>1, <2>2, <2>3 DEF DeliverCached, AnswerInv
  <1>3. CASE HoldForReview(q) \/ Deliver(q)
    <2>1. response[q] = NoQuery
      BY <1>0, <1>3 DEF HoldForReview, Deliver, RowInv, Uncommitted, At
    <2>2. ~(q \in cache) /\ ~("answer" \in sent[q])
      BY <1>0, <2>1 DEF AnswerInv, Free
    <2>3. /\ response'[q] = q /\ risk'[q] = risk[q]
          /\ \/ asker'[q].pc = "usage" /\ risk[q] = "HELD"
             \/ asker'[q].pc = "store" /\ risk[q] = "LOW"
      BY <1>0, <1>3 DEF HoldForReview, Deliver, TypeOK, Goto, AskerState
    <2>4. QED
      BY <1>3, <2>2, <2>3 DEF HoldForReview, Deliver, AnswerInv, Free, Held
  <1>4. CASE StoreInCache(q)
    <2>1. Free(q) /\ asker'[q].pc = "usage" /\ response' = response /\ risk' = risk
      BY <1>0, <1>4 DEF StoreInCache, AnswerInv, At, TypeOK, Goto, AskerState
    <2>2. QED
      BY <1>0, <1>4, <2>1 DEF StoreInCache, AnswerInv, Free, Held
  <1>5. CASE Stream(q)
    <2>1. response[q] # NoQuery /\ asker'[q].pc = "end"
      BY <1>0, <1>5 DEF Stream, RowInv, Committed, At, TypeOK, Goto, AskerState
    <2>2. sent'[q] = sent[q] \cup {IF Held(q) THEN "held" ELSE "answer"}
      BY <1>0, <1>5 DEF Stream, TypeOK
    <2>3. "answer" \in sent'[q] => Free(response[q])
      BY <1>0, <2>1, <2>2 DEF AnswerInv
    <2>4. QED
      BY <1>0, <1>5, <2>1, <2>3 DEF Stream, AnswerInv, Free, Held
  <1>6. CASE Generate(q)
    <2>1. response[q] = NoQuery /\ asker'[q].pc = "commit"
      BY <1>0, <1>6 DEF Generate, RowInv, Uncommitted, At, TypeOK, Goto, AskerState
    <2>2. ~(q \in cache) /\ ~("answer" \in sent[q])
      BY <1>0, <2>1 DEF AnswerInv, Free
    <2>3. QED
      BY <1>6, <2>1, <2>2 DEF Generate, AnswerInv
  <1>7. CASE /\ UNCHANGED <<response, risk, sent>> /\ cache' \subseteq cache
             /\ asker'[q].pc \notin {"hit", "store"} \/ asker' = asker
    BY <1>0, <1>7 DEF AnswerInv, Free, Held
  <1>8. QED
    <2>1. CASE Ask(q) \/ AskFails(q) \/ LookupMiss(q) \/ RecordUsage(q) \/ Audit(q)
               \/ GenerationFails(q) \/ MarkFailed(q) \/ MarkFails(q) \/ Disconnect(q)
      BY <1>0, <1>7, <2>1
      DEF Ask, AskFails, LookupMiss, RecordUsage, Audit, GenerationFails, MarkFailed,
          MarkFails, Disconnect, Goto, GoOn, FailAfterCommit, TypeOK, AskerState
    <2>2. CASE DropFromCache(q)
      BY <1>7, <2>2 DEF DropFromCache
    <2>3. QED
      BY <1>1, <1>2, <1>3, <1>4, <1>5, <1>6, <2>1, <2>2 DEF AskerAction, AskerStep, AskerFault

\* The step of a query request keeps everything.
LEMMA AskerKeeps ==
  ASSUME QueryInv, NEW p \in Queries, AskerAction(p)
  PROVE  QueryInv'
  <1>0. TypeOK /\ TypeOK'
    BY TypeAsker DEF QueryInv, AskerAction
  <1> USE ConstantsAssumption
  <1>1. ASSUME NEW q \in Queries PROVE RowInv(q)' /\ AnswerInv(q)'
    <2>1. CASE q = p
      BY <2>1, RowStep, AnswerStep
    <2>2. CASE q # p
      <3>1. RowInv(q) /\ AnswerInv(q)
        BY DEF QueryInv
      <3>2. RowInv(q)'
        BY <1>0, <2>2, <3>1, AskerFrame DEF RowInv, Held
      <3>3. /\ \A e \in Queries : Free(e) => Free(e)'
            /\ response[q] \in Queries \cup {NoQuery}
            /\ asker[q].pc = "hit" => asker[q].found \in Queries
        BY <1>0, FreeStays DEF TypeOK
      <3>4. AnswerInv(q)'
        BY <1>0, <2>2, <3>1, <3>3, AskerFrame DEF AnswerInv, Held
      <3>5. QED
        BY <3>2, <3>4
    <2>3. QED
      BY <2>1, <2>2
  <1>2. \A q \in Queries : review[q] # "none" => review'[q] = review[q]
    <2> SUFFICES ASSUME NEW q \in Queries, review[q] # "none" PROVE review'[q] = review[q]
      OBVIOUS
    <2>1. CASE q # p
      BY <1>0, <2>1, AskerFrame
    <2>2. CASE q = p
      <3>1. asker[p].pc # "commit"
        BY <2>2 DEF QueryInv, RowInv, Uncommitted, Held
      <3>2. QED
        BY <2>2, <3>1
        DEF AskerAction, AskerStep, AskerFault, Ask, AskFails, LookupHit, LookupMiss,
            DeliverCached, Generate, HoldForReview, Deliver, StoreInCache, RecordUsage, Audit,
            Stream, MarkFailed, GenerationFails, MarkFails, Disconnect, DropFromCache, At
    <2>3. QED
      BY <2>1, <2>2
  <1>3. ASSUME NEW r \in Reviewers PROVE ReviewInv(r)'
    <2>1. ReviewInv(r) /\ reviewer' = reviewer
      BY <1>0, AskerFrame DEF QueryInv
    <2>2. reviewer[r].pc \in {"locked", "recorded", "answered"} =>
            reviewer[r].query \in Queries /\ review[reviewer[r].query] # "none"
      BY <1>0, <2>1 DEF ReviewInv, TypeOK, Decisions
    <2>3. QED
      BY <1>2, <2>1, <2>2 DEF ReviewInv
  <1>4. ASSUME NEW h \in Readers PROVE ReaderInv(h)'
    <2> DEFINE q == reader[h].query
    <2>1. ReaderInv(h) /\ reader' = reader
      BY <1>0, AskerFrame DEF QueryInv
    <2> SUFFICES ASSUME reader[h].pc # "idle", q \notin spoiled' PROVE ReaderInv(h)'
      BY <2>1 DEF ReaderInv
    <2>2. q \in Queries
      BY <1>0 DEF TypeOK
    <2>3. spoiled \subseteq spoiled'
      BY DEF AskerAction, AskerStep, AskerFault, Ask, AskFails, LookupHit, LookupMiss,
         DeliverCached, Generate, HoldForReview, Deliver, StoreInCache, RecordUsage, Audit,
         Stream, MarkFailed, GenerationFails, MarkFails, Disconnect, DropFromCache,
         UnchangedByAsker, GoOn, FailAfterCommit
    <2>4. q \notin spoiled
      BY <2>3
    <2>5. CASE reader[h].status = "DELIVERED"
      <3>1. response[q] # NoQuery /\ (Held(q) => review[q] \in {"APPROVE", "EDIT"})
        BY <2>1, <2>4, <2>5 DEF ReaderInv
      <3>2. response'[q] = response[q] /\ risk'[q] = risk[q]
        BY <2>2, <3>1, ResponseStays
      <3>3. Held(q)' = Held(q)
        BY <2>1, <3>2 DEF Held
      <3>4. QED
        BY <1>2, <2>1, <2>2, <2>4, <2>5, <3>1, <3>2, <3>3 DEF ReaderInv
    <2>6. CASE reader[h].status = "FAILED"
      <3>1. response[q] = NoQuery /\ asker[q].pc = "end"
        BY <2>1, <2>4, <2>6 DEF ReaderInv
      <3>2. response'[q] = NoQuery /\ asker'[q].pc = "end"
        <4>1. CASE q # p
          BY <1>0, <2>2, <3>1, <4>1, AskerFrame
        <4>2. CASE q = p
          BY <3>1, <4>2
          DEF AskerAction, AskerStep, AskerFault, Ask, AskFails, LookupHit, LookupMiss,
              DeliverCached, Generate, HoldForReview, Deliver, StoreInCache, RecordUsage,
              Audit, Stream, MarkFailed, GenerationFails, MarkFails, Disconnect,
              DropFromCache, At
        <4>3. QED
          BY <4>1, <4>2
      <3>3. QED
        BY <2>1, <2>6, <3>2 DEF ReaderInv
    <2>7. CASE reader[h].status \notin {"DELIVERED", "FAILED"}
      BY <2>1, <2>4, <2>7 DEF ReaderInv
    <2>8. QED
      BY <2>5, <2>6, <2>7
  <1>5. QED
    BY <1>0, <1>1, <1>3, <1>4 DEF QueryInv

\* What a review request does to a review that is open or decided.
LEMMA DecideRows ==
  ASSUME TypeOK, NEW r \in Reviewers, Decide(r)
  PROVE  \E decision \in Decisions :
           /\ review' = [review EXCEPT ![reviewer[r].query] = decision]
           /\ status' = [status EXCEPT ![reviewer[r].query] = Outcome(decision)]
           /\ reviewer'[r] = [pc |-> "recorded", query |-> reviewer[r].query,
                              decision |-> decision]
           /\ \A s \in Reviewers \ {r} : reviewer'[s] = reviewer[s]
  <1>1. PICK decision \in Decisions :
          /\ review' = [review EXCEPT ![reviewer[r].query] = decision]
          /\ SetStatus(reviewer[r].query,
                       IF decision = "REJECT" THEN "REJECTED" ELSE "DELIVERED")
          /\ reviewer' = [reviewer EXCEPT ![r].pc = "recorded", ![r].decision = decision]
    BY DEF Decide
  <1>2. Outcome(decision) = IF decision = "REJECT" THEN "REJECTED" ELSE "DELIVERED"
    BY DEF Outcome, Decisions
  <1>3. reviewer[r] \in ReviewerState
    BY DEF TypeOK
  <1>4. reviewer'[r] = [reviewer[r] EXCEPT !.pc = "recorded", !.decision = decision]
    BY <1>1 DEF TypeOK
  <1>5. reviewer'[r] = [pc |-> "recorded", query |-> reviewer[r].query, decision |-> decision]
    BY <1>3, <1>4 DEF ReviewerState
  <1>6. \A s \in Reviewers \ {r} : reviewer'[s] = reviewer[s]
    BY <1>1 DEF TypeOK
  <1>7. QED
    BY <1>1, <1>2, <1>5, <1>6 DEF SetStatus

\* The step of a review request keeps everything.
LEMMA ReviewerKeeps ==
  ASSUME QueryInv, NEW r \in Reviewers, ReviewerStep(r)
  PROVE  QueryInv'
  <1>0. TypeOK /\ TypeOK'
    BY TypeReviewer DEF QueryInv
  <1>a. /\ UNCHANGED <<response, risk, cache, asker, sent, reader, spoiled>>
        /\ \A q \in Queries : Held(q)' = Held(q)
    BY DEF ReviewerStep, LockReview, Decide, AuditDecision, ReviewFails, UnchangedByReviewer,
       Held
  <1>b. \A q \in Queries : AnswerInv(q)'
    BY <1>a DEF QueryInv, AnswerInv, Free
  <1> USE ConstantsAssumption
  <1>1. CASE Decide(r)
    <2> DEFINE p == reviewer[r].query
    <2>1. PICK decision \in Decisions :
            /\ review' = [review EXCEPT ![p] = decision]
            /\ status' = [status EXCEPT ![p] = Outcome(decision)]
            /\ reviewer'[r] = [pc |-> "recorded", query |-> p, decision |-> decision]
            /\ \A s \in Reviewers \ {r} : reviewer'[s] = reviewer[s]
      BY <1>0, <1>1, DecideRows
    <2>2. /\ p \in Queries /\ reviewer[r].pc = "locked" /\ review[p] = "open"
          /\ \A s \in Reviewers \ {r} : reviewer[s].pc = "locked" => reviewer[s].query # p
      BY <1>0, <1>1 DEF Decide, TypeOK, QueryInv, ReviewInv
    <2>3. /\ review'[p] = decision /\ status'[p] = Outcome(decision)
          /\ \A q \in Queries \ {p} : review'[q] = review[q] /\ status'[q] = status[q]
      BY <1>0, <2>1, <2>2 DEF TypeOK
    <2>4. Held(p) /\ RowInv(p) /\ response[p] # NoQuery
      BY <2>2 DEF QueryInv, RowInv, Held
    <2> HIDE DEF p
    <2>5. ASSUME NEW q \in Queries PROVE RowInv(q)'
      <3>1. CASE q = p
        <4>1. status'[q] \in {"DELIVERED", "REJECTED"} /\ review'[q] # "none"
          BY <2>3, <3>1 DEF Outcome, Decisions
        <4>2. asker[q].pc \notin {"ask", "lookup", "hit", "generate", "commit"}
          BY <2>4, <3>1 DEF RowInv, Uncommitted
        <4>3. /\ asker[q].pc \in Committed => q \notin spoiled
              /\ q \notin spoiled => asker[q].pc # "failing"
          BY <2>4, <3>1 DEF RowInv
        <4>4. QED
          BY <1>a, <2>3, <2>4, <3>1, <4>1, <4>2, <4>3 DEF RowInv, Uncommitted
      <3>2. CASE q # p
        BY <1>a, <2>3, <3>2 DEF QueryInv, RowInv
      <3>3. QED
        BY <3>1, <3>2
    <2>6. ASSUME NEW s \in Reviewers PROVE ReviewInv(s)'
      <3>1. ReviewInv(s)
        BY DEF QueryInv
      <3>2. CASE s = r
        BY <2>1, <2>2, <2>3, <3>2 DEF ReviewInv
      <3>3. CASE s # r
        <4>1. reviewer'[s] = reviewer[s]
          BY <2>1, <3>3
        <4>2. reviewer[s].pc \in {"locked", "recorded", "answered"} =>
                reviewer[s].query \in Queries \ {p}
          BY <1>0, <2>2, <3>1, <3>3 DEF ReviewInv, TypeOK, Decisions
        <4>3. \A t \in Reviewers : reviewer'[t].pc = "locked" =>
                reviewer[t].pc = "locked" /\ reviewer'[t].query = reviewer[t].query
          BY <2>1
        <4>4. QED
          BY <2>3, <3>1, <4>1, <4>2, <4>3 DEF ReviewInv
      <3>4. QED
        BY <3>2, <3>3
    <2>7. ASSUME NEW h \in Readers PROVE ReaderInv(h)'
      <3>1. ReaderInv(h) /\ (reader[h].pc # "idle" => reader[h].query \in Queries)
        BY <1>0 DEF QueryInv, TypeOK
      <3>2. CASE reader[h].query # p
        BY <1>a, <2>3, <3>1, <3>2 DEF ReaderInv
      <3>3. CASE reader[h].query = p
        BY <1>a, <2>2, <2>4, <3>1, <3>3 DEF ReaderInv
      <3>4. QED
        BY <3>2, <3>3
    <2>8. QED
      BY <1>0, <1>b, <2>5, <2>6, <2>7 DEF QueryInv
  <1>2. CASE LockReview(r) \/ AuditDecision(r) \/ ReviewFails(r)
    <2>1. UNCHANGED <<status, review>>
      BY <1>2 DEF LockReview, AuditDecision, ReviewFails
    <2>2. \A q \in Queries : RowInv(q)'
      BY <1>a, <2>1 DEF QueryInv, RowInv
    <2>3. \A h \in Readers : ReaderInv(h)'
      BY <1>0, <1>a, <2>1 DEF QueryInv, ReaderInv, TypeOK
    <2>4. \A s \in Reviewers \ {r} : reviewer'[s] = reviewer[s]
      <3>1. CASE LockReview(r)
        BY <1>0, <3>1 DEF LockReview, Found, TypeOK
      <3>2. CASE AuditDecision(r) \/ ReviewFails(r)
        BY <1>0, <3>2 DEF AuditDecision, ReviewFails, TypeOK
      <3>3. QED
        BY <1>2, <3>1, <3>2
    <2>5. reviewer[r] \in ReviewerState /\ ReviewInv(r)
      BY <1>0 DEF TypeOK, QueryInv
    <2>6. \/ reviewer'[r].pc = "refused"
          \/ /\ reviewer[r].pc = "recorded"
             /\ reviewer'[r] = [reviewer[r] EXCEPT !.pc = "answered"]
          \/ /\ LockReview(r) /\ reviewer'[r].pc = "locked"
             /\ review[reviewer'[r].query] = "open" /\ ~Locked(reviewer'[r].query)
      <3>1. CASE LockReview(r)
        <4>1. PICK q \in Queries : review[q] # "none" /\ ~Locked(q) /\ Found(r, q)
          BY <3>1 DEF LockReview
        <4>2. CASE review[q] = "open"
          <5>1. reviewer' = [reviewer EXCEPT ![r].pc = "locked", ![r].query = q]
            BY <4>1, <4>2 DEF Found
          <5>2. reviewer'[r].pc = "locked" /\ reviewer'[r].query = q
            BY <1>0, <2>5, <5>1 DEF TypeOK, ReviewerState
          <5>3. QED
            BY <3>1, <4>1, <4>2, <5>2
        <4>3. CASE review[q] # "open"
          <5>1. reviewer' = [reviewer EXCEPT ![r].pc = "refused"]
            BY <4>1, <4>3 DEF Found
          <5>2. QED
            BY <1>0, <2>5, <5>1 DEF TypeOK, ReviewerState
        <4>4. QED
          BY <4>2, <4>3
      <3>2. CASE AuditDecision(r)
        BY <1>0, <3>2 DEF AuditDecision, TypeOK
      <3>3. CASE ReviewFails(r)
        BY <1>0, <2>5, <3>3 DEF ReviewFails, TypeOK, ReviewerState
      <3>4. QED
        BY <1>2, <3>1, <3>2, <3>3
    <2>7. ASSUME NEW s \in Reviewers PROVE ReviewInv(s)'
      <3>1. CASE s = r
        <4>1. CASE reviewer'[r].pc = "refused"
          BY <3>1, <4>1 DEF ReviewInv
        <4>2. CASE /\ reviewer[r].pc = "recorded"
                   /\ reviewer'[r] = [reviewer[r] EXCEPT !.pc = "answered"]
          <5>1. /\ reviewer'[r].pc = "answered" /\ reviewer'[r].query = reviewer[r].query
                /\ reviewer'[r].decision = reviewer[r].decision
            BY <2>5, <4>2 DEF ReviewerState
          <5>2. QED
            BY <2>1, <2>5, <3>1, <4>2, <5>1 DEF ReviewInv
        <4>3. CASE /\ LockReview(r) /\ reviewer'[r].pc = "locked"
                   /\ review[reviewer'[r].query] = "open" /\ ~Locked(reviewer'[r].query)
          BY <2>1, <2>4, <3>1, <4>3 DEF ReviewInv, Locked
        <4>4. QED
          BY <2>6, <4>1, <4>2, <4>3
      <3>2. CASE s # r
        <4>1. ReviewInv(s) /\ reviewer'[s] = reviewer[s]
          BY <2>4, <3>2 DEF QueryInv
        <4>2. reviewer[s].pc = "locked" /\ reviewer'[r].pc = "locked" =>
                reviewer'[r].query # reviewer[s].query
          BY <2>5, <2>6, <3>2 DEF Locked, ReviewerState
        <4>3. QED
          BY <2>1, <2>4, <4>1, <4>2 DEF ReviewInv
      <3>3. QED
        BY <3>1, <3>2
    <2>8. QED
      BY <1>0, <1>b, <2>2, <2>3, <2>7 DEF QueryInv
  <1>3. QED
    BY <1>1, <1>2 DEF ReviewerStep

\* The step of a history request keeps everything.
LEMMA ReaderKeeps ==
  ASSUME QueryInv, NEW h \in Readers, ReaderStep(h)
  PROVE  QueryInv'
  <1>0. TypeOK /\ TypeOK'
    BY TypeReader DEF QueryInv
  <1>1. UNCHANGED <<status, response, risk, review, cache, asker, sent, reviewer, spoiled>>
    BY DEF ReaderStep, ReadQueries, ReadResponses, ReadReviews, UnchangedByReader
  <1>2. /\ \A q \in Queries : RowInv(q)' /\ AnswerInv(q)' /\ Held(q)' = Held(q)
        /\ \A r \in Reviewers : ReviewInv(r)'
    BY <1>1 DEF QueryInv, RowInv, AnswerInv, ReviewInv, Free, Held
  <1>3. \A g \in Readers \ {h} : reader'[g] = reader[g]
    BY <1>0 DEF ReaderStep, ReadQueries, ReadResponses, ReadReviews, TypeOK
  <1>4. reader[h] \in ReaderState /\ ReaderInv(h)
        /\ (reader[h].pc # "idle" => reader[h].query \in Queries)
    BY <1>0 DEF TypeOK, QueryInv
  <1> USE ConstantsAssumption
  <1>5. ReaderInv(h)'
    <2>1. CASE ReadQueries(h)
      <3>1. PICK q \in Queries :
              /\ status[q] # "none"
              /\ reader' = [reader EXCEPT ![h] =
                   [pc |-> "responses", query |-> q, status |-> status[q], review |-> "none"]]
        BY <2>1 DEF ReadQueries
      <3>2. /\ reader'[h].pc = "responses" /\ reader'[h].query = q
            /\ reader'[h].status = status[q]
        BY <1>0, <3>1 DEF TypeOK
      <3>3. RowInv(q) /\ asker[q].pc \in AskerSteps
        BY <1>0 DEF QueryInv, TypeOK, AskerState
      <3>4. status[q] = "FAILED" /\ q \notin spoiled => response[q] = NoQuery
        BY <3>3 DEF RowInv, Outcome
      <3>5. status[q] = "DELIVERED" => response[q] # NoQuery
        BY <3>3 DEF RowInv
      <3>6. status[q] = "DELIVERED" /\ Held(q) /\ q \notin spoiled =>
              review[q] \in {"APPROVE", "EDIT"}
        <4>1. review[q] \in Decisions \cup {"none", "open"}
          BY <1>0 DEF TypeOK
        <4>2. QED
          BY <3>3, <3>5, <4>1 DEF RowInv, Outcome, Decisions
      <3>7. status[q] = "FAILED" => asker[q].pc = "end"
        BY <3>3 DEF RowInv
      <3>8. QED
        BY <1>1, <1>2, <3>1, <3>2, <3>4, <3>5, <3>6, <3>7 DEF ReaderInv
    <2>2. CASE ReadResponses(h)
      <3>1. CASE response[reader[h].query] = NoQuery
        <4>1. reader'[h] = NotReading
          BY <1>0, <2>2, <3>1 DEF ReadResponses, TypeOK
        <4>2. QED
          BY <4>1 DEF ReaderInv, NotReading
      <3>2. CASE response[reader[h].query] # NoQuery
        <4>1. reader'[h] = [reader[h] EXCEPT !.pc = "reviews"]
          BY <1>0, <2>2, <3>2 DEF ReadResponses, TypeOK
        <4>2. /\ reader'[h].pc = "reviews" /\ reader'[h].query = reader[h].query
              /\ reader'[h].status = reader[h].status
          BY <1>4, <4>1 DEF ReaderState
        <4>3. reader[h].pc # "idle"
          BY <2>2 DEF ReadResponses
        <4>4. QED
          BY <1>1, <1>2, <1>4, <4>2, <4>3 DEF ReaderInv
      <3>3. QED
        BY <3>1, <3>2
    <2>3. CASE ReadReviews(h)
      <3>1. reader'[h] = [reader[h] EXCEPT !.pc = "shown", !.review = review[reader[h].query]]
        BY <1>0, <2>3 DEF ReadReviews, TypeOK
      <3>2. /\ reader'[h].pc = "shown" /\ reader'[h].query = reader[h].query
            /\ reader'[h].status = reader[h].status
            /\ reader'[h].review = review[reader[h].query]
        BY <1>4, <3>1 DEF ReaderState
      <3>3. reader[h].pc # "idle"
        BY <2>3 DEF ReadReviews
      <3>4. QED
        BY <1>1, <1>2, <1>4, <3>2, <3>3 DEF ReaderInv
    <2>4. QED
      BY <2>1, <2>2, <2>3 DEF ReaderStep
  <1>6. ASSUME NEW g \in Readers PROVE ReaderInv(g)'
    <2>1. CASE g # h
      BY <1>0, <1>1, <1>2, <1>3, <2>1 DEF QueryInv, ReaderInv, TypeOK
    <2>2. QED
      BY <1>5, <2>1
  <1>7. QED
    BY <1>0, <1>2, <1>6 DEF QueryInv

\* Every step keeps the invariant.
LEMMA QueryStep == QueryInv /\ [Next]_vars => QueryInv'
  <1> SUFFICES ASSUME QueryInv, [Next]_vars PROVE QueryInv'
    OBVIOUS
  <1>1. CASE UNCHANGED vars
    BY <1>1 DEF vars, QueryInv, TypeOK, RowInv, AnswerInv, ReviewInv, ReaderInv, Free, Held
  <1>2. QED
    BY <1>1, AskerKeeps, ReviewerKeeps, ReaderKeeps DEF Next, AskerAction

LEMMA QueryCorrect == Spec => []QueryInv
  BY QueryInit, QueryStep, PTL DEF Spec

-----------------------------------------------------------------------------
(* What the invariant says of reviews, streams and histories *)

\* Of two engineers deciding at once one gets the conflict: a decision that a
\* review request has recorded stays in the review row.
THEOREM DecisionsStand == Spec => []DecisionStands
  <1>1. QueryInv => DecisionStands
    BY DEF QueryInv, ReviewInv, DecisionStands
  <1>2. QED
    BY <1>1, QueryCorrect, PTL

\* Only answers classified LOW are streamed or cached, whatever fails and
\* whoever asks the same again.
THEOREM StreamsAreSafe == Spec => []StreamIsSafe
  <1>1. QueryInv => StreamIsSafe
    BY DEF QueryInv, AnswerInv, Free, StreamIsSafe
  <1>2. QED
    BY <1>1, QueryCorrect, PTL

\* Status and review of a query agree from the commit of its answer on, unless
\* its request has failed since.
THEOREM StatusMatchesReviews == Spec => []StatusMatchesReview
  <1>1. ASSUME QueryInv, NEW q \in Queries \ spoiled
        PROVE  /\ status[q] = "UNDER_REVIEW" <=> review[q] = "open"
               /\ status[q] = "REJECTED" <=> review[q] = "REJECT"
               /\ status[q] = "DELIVERED" =>
                    review[q] \in {"APPROVE", "EDIT"} \/ risk[response[q]] = "LOW"
    <2>1. RowInv(q) /\ AnswerInv(q) /\ review[q] \in Decisions \cup {"none", "open"}
      BY <1>1 DEF QueryInv, TypeOK
    <2>2. CASE response[q] = NoQuery
      BY <2>1, <2>2, ConstantsAssumption DEF RowInv, Held
    <2>3. CASE response[q] # NoQuery
      <3>1. status[q] = Outcome(review[q])
        BY <2>1, <2>3 DEF RowInv
      <3>2. review[q] = "none" => Free(response[q])
        BY <2>1, <2>3 DEF RowInv, AnswerInv
      <3>3. QED
        BY <2>1, <3>1, <3>2 DEF Outcome, Decisions, Free
    <2>4. QED
      BY <2>2, <2>3
  <1>2. QueryInv => StatusMatchesReview
    BY <1>1 DEF StatusMatchesReview
  <1>3. QED
    BY <1>2, QueryCorrect, PTL

\* A history that read a settled status shows no answer that an engineer still
\* holds or has rejected, although it reads status, response and review apart.
THEOREM SettledHistoriesAreSafe == Spec => []SettledHistoryIsSafe
  <1>1. ASSUME QueryInv, NEW h \in Readers, ShowsAnswer(h), reader[h].status # "PROCESSING",
               Held(reader[h].query), reader[h].query \notin spoiled
        PROVE  reader[h].review \in {"APPROVE", "EDIT"}
    <2>1. ReaderInv(h) /\ reader[h] \in ReaderState /\ reader[h].query \in Queries
      BY <1>1 DEF QueryInv, TypeOK, ShowsAnswer
    <2>2. reader[h].status \in {"DELIVERED", "FAILED"}
      BY <1>1, <2>1
      DEF ShowsAnswer, VisibleAnswer, ReaderState, QueryStatus, ReaderInv
    <2>3. reader[h].status # "FAILED"
      BY <1>1, <2>1, ConstantsAssumption DEF ReaderInv, Held, ShowsAnswer
    <2>4. QED
      BY <1>1, <2>1, <2>2, <2>3 DEF ReaderInv, ShowsAnswer
  <1>2. QueryInv => SettledHistoryIsSafe
    BY <1>1 DEF SettledHistoryIsSafe
  <1>3. QED
    BY <1>2, QueryCorrect, PTL

-----------------------------------------------------------------------------
(* Refinement: questions and reviews implement AnswerRelease *)

\* A step that changes the fate of one answer at most moves its release.
LEMMA ReleaseMoves ==
  ASSUME NEW p \in Queries, \A q \in Queries \ {p} : Fate(q)' = Fate(q)
  PROVE  Release' = [Release EXCEPT ![p] = Fate(p)'] /\ Release[p] = Fate(p)
  BY DEF Release

LEMMA ReleaseStays ==
  ASSUME \A q \in Queries : Fate(q)' = Fate(q)
  PROVE  UNCHANGED Release
  BY DEF Release

\* A query request asks, concludes or loses its own answer, or moves nothing.
LEMMA AskerImplements ==
  ASSUME QueryInv, QueryInv', NEW p \in Queries, AskerAction(p)
  PROVE  AR!Next \/ UNCHANGED Release
  <1>0. TypeOK /\ TypeOK' /\ RowInv(p) /\ AnswerInv(p)
    BY DEF QueryInv
  <1>1. \A q \in Queries \ {p} : Fate(q)' = Fate(q)
    BY <1>0, AskerFrame DEF Fate, Held
  <1>2. Release' = [Release EXCEPT ![p] = Fate(p)'] /\ Release[p] = Fate(p)
    BY <1>1, ReleaseMoves
  <1>3. Fate(p)' = Fate(p) => UNCHANGED Release
    BY <1>1, ReleaseStays
  <1>4. ASSUME NEW from, NEW to, Fate(p) = from, Fate(p)' = to PROVE AR!Move(p, from, to)
    BY <1>2, <1>4 DEF AR!Move
  <1> USE ConstantsAssumption
  <1>5. CASE Ask(p)
    <2>1. /\ response[p] = NoQuery /\ status[p] = "none" /\ p \notin spoiled
          /\ status'[p] = "PROCESSING" /\ response' = response /\ spoiled' = spoiled
      BY <1>0, <1>5 DEF Ask, At, RowInv, SetStatus, UnchangedByAsker, TypeOK
    <2>2. Fate(p) = "unasked" /\ Fate(p)' = "pending"
      BY <2>1 DEF Fate
    <2>3. QED
      BY <1>4, <2>2 DEF AR!Next, AR!Ask
  <1>6. CASE DeliverCached(p) \/ HoldForReview(p) \/ Deliver(p)
    <2>1. status[p] = "PROCESSING" /\ response[p] = NoQuery /\ p \notin spoiled
      BY <1>0, <1>6 DEF DeliverCached, HoldForReview, Deliver, At, RowInv, Uncommitted
    <2>2. Fate(p) = "pending"
      BY <2>1 DEF Fate
    <2>3. /\ spoiled' = spoiled /\ risk' = risk
          /\ \/ /\ status'[p] = "DELIVERED" /\ response'[p] # NoQuery
                /\ response'[p] = p => risk[p] = "LOW"
             \/ status'[p] = "UNDER_REVIEW" /\ response'[p] = p /\ risk[p] = "HELD"
      <3>1. CASE DeliverCached(p)
        <4>1. asker[p].found \in Queries /\ Free(asker[p].found)
          BY <1>0, <3>1 DEF DeliverCached, At, TypeOK, AnswerInv
        <4>2. asker[p].found # p
          BY <2>1, <4>1 DEF Free
        <4>3. QED
          BY <1>0, <3>1, <4>1, <4>2
          DEF DeliverCached, SetStatus, UnchangedByAsker, TypeOK
      <3>2. CASE HoldForReview(p) \/ Deliver(p)
        BY <1>0, <3>2 DEF HoldForReview, Deliver, SetStatus, UnchangedByAsker, TypeOK
      <3>3. QED
        BY <1>6, <3>1, <3>2
    <2>4. Fate(p)' \in {"answered", "withheld"}
      BY <2>1, <2>3 DEF Fate, Held
    <2>5. QED
      BY <1>4, <2>2, <2>4 DEF AR!Next, AR!Conclude
  <1>7. CASE MarkFailed(p)
    <2>1. status'[p] = "FAILED" /\ response' = response /\ risk' = risk /\ spoiled' = spoiled
      BY <1>0, <1>7 DEF MarkFailed, SetStatus, UnchangedByAsker, TypeOK
    <2>2. CASE response[p] = NoQuery
      <3>1. status[p] = "PROCESSING" /\ p \notin spoiled
        BY <1>0, <1>7, <2>2 DEF MarkFailed, At, RowInv
      <3>2. Fate(p) = "pending" /\ Fate(p)' = "failed"
        BY <2>1, <2>2, <3>1 DEF Fate
      <3>3. QED
        BY <1>4, <3>2 DEF AR!Next, AR!Conclude
    <2>3. CASE response[p] # NoQuery
      <3>1. p \in spoiled
        BY <1>0, <1>7, <2>3 DEF MarkFailed, At, RowInv
      <3>2. Fate(p) = "lost" /\ Fate(p)' = "lost"
        BY <2>1, <3>1 DEF Fate
      <3>3. QED
        BY <1>3, <3>2
    <2>4. QED
      BY <2>2, <2>3
  <1>8. CASE RecordUsage(p) \/ Audit(p)
    <2>1. /\ response[p] # NoQuery /\ p \notin spoiled
          /\ status' = status /\ response' = response /\ risk' = risk
          /\ spoiled' = spoiled \/ p \in spoiled'
      BY <1>0, <1>8 DEF RecordUsage, Audit, At, RowInv, Committed, GoOn, FailAfterCommit
    <2>2. CASE spoiled' = spoiled
      <3>1. Fate(p)' = Fate(p)
        BY <2>1, <2>2 DEF Fate, Held
      <3>2. QED
        BY <1>3, <3>1
    <2>3. CASE p \in spoiled'
      <3>1. Fate(p)' = "lost"
        BY <2>3 DEF Fate
      <3>2. status[p] = Outcome(review[p]) /\ review[p] \in Decisions \cup {"none", "open"}
        BY <1>0, <2>1 DEF RowInv, TypeOK
      <3>3. (review[p] # "none") <=> Held(p)
        BY <1>0 DEF RowInv
      <3>4. Fate(p) \in {"answered", "withheld", "released", "refused"}
        <4>1. \/ status[p] = "DELIVERED"
              \/ status[p] \in {"UNDER_REVIEW", "REJECTED"} /\ Held(p)
          BY <3>2, <3>3 DEF Outcome, Decisions
        <4>2. QED
          BY <2>1, <4>1 DEF Fate
      <3>5. QED
        BY <1>4, <3>1, <3>4 DEF AR!Next, AR!Lose
    <2>4. QED
      BY <2>1, <2>2, <2>3
  <1>9. CASE Generate(p)
    <2>1. /\ response[p] = NoQuery
          /\ status' = status /\ response' = response /\ spoiled' = spoiled
      BY <1>0, <1>9 DEF Generate, At, RowInv, Uncommitted, UnchangedByAsker
    <2>2. Fate(p)' = Fate(p)
      BY <2>1 DEF Fate, Held
    <2>3. QED
      BY <1>3, <2>2
  <1>10. CASE UNCHANGED <<status, response, risk, spoiled>>
    <2>1. Fate(p)' = Fate(p)
      BY <1>10 DEF Fate, Held
    <2>2. QED
      BY <1>3, <2>1
  <1>11. QED
    BY <1>5, <1>6, <1>7, <1>8, <1>9, <1>10
    DEF AskerAction, AskerStep, AskerFault, AskFails, LookupHit, LookupMiss, StoreInCache,
        Stream, GenerationFails, MarkFails, Disconnect, DropFromCache, UnchangedByAsker

\* A review request rules on a withheld answer, or moves nothing.
LEMMA ReviewerImplements ==
  ASSUME QueryInv, QueryInv', NEW r \in Reviewers, ReviewerStep(r)
  PROVE  AR!Next \/ UNCHANGED Release
  <1>1. UNCHANGED <<response, risk, spoiled>>
    BY DEF ReviewerStep, LockReview, Decide, AuditDecision, ReviewFails, UnchangedByReviewer
  <1> USE ConstantsAssumption
  <1>2. CASE Decide(r)
    <2>0. TypeOK
      BY DEF QueryInv
    <2>a. PICK p \in Queries : p = reviewer[r].query
      BY <1>2, <2>0 DEF Decide, TypeOK
    <2>1. PICK decision \in Decisions :
            /\ review' = [review EXCEPT ![p] = decision]
            /\ status' = [status EXCEPT ![p] = Outcome(decision)]
            /\ reviewer'[r] = [pc |-> "recorded", query |-> p, decision |-> decision]
            /\ \A s \in Reviewers \ {r} : reviewer'[s] = reviewer[s]
      BY <1>2, <2>0, <2>a, DecideRows
    <2>2. reviewer[r].pc = "locked" /\ review[p] = "open"
      BY <1>2, <2>a DEF Decide, QueryInv, ReviewInv
    <2>3. Held(p) /\ RowInv(p) /\ response[p] # NoQuery
      BY <2>2 DEF QueryInv, RowInv, Held
    <2>4. status'[p] = Outcome(decision) /\ \A q \in Queries \ {p} : status'[q] = status[q]
      BY <2>0, <2>1, <2>2 DEF TypeOK
    <2>5. \A q \in Queries \ {p} : Fate(q)' = Fate(q)
      BY <1>1, <2>4 DEF Fate, Held
    <2>6. Release' = [Release EXCEPT ![p] = Fate(p)'] /\ Release[p] = Fate(p)
      BY <2>2, <2>5, ReleaseMoves
    <2>7. CASE p \in spoiled
      <3>1. Fate(p)' = Fate(p)
        BY <1>1, <2>7 DEF Fate
      <3>2. QED
        BY <2>5, <3>1, ReleaseStays
    <2>8. CASE p \notin spoiled
      <3>1. status[p] = "UNDER_REVIEW"
        BY <2>2, <2>3, <2>8 DEF RowInv, Outcome
      <3>2. Fate(p) = "withheld"
        BY <2>3, <2>8, <3>1 DEF Fate
      <3>3. status'[p] \in {"DELIVERED", "REJECTED"}
        BY <2>4 DEF Outcome, Decisions
      <3>4. Fate(p)' \in {"released", "refused"}
        BY <1>1, <2>3, <2>8, <3>3 DEF Fate, Held
      <3>5. QED
        BY <2>2, <2>6, <3>2, <3>4 DEF AR!Next, AR!Rule, AR!Move
    <2>9. QED
      BY <2>7, <2>8
  <1>3. CASE UNCHANGED status
    <2>1. \A q \in Queries : Fate(q)' = Fate(q)
      BY <1>1, <1>3 DEF Fate, Held
    <2>2. QED
      BY <2>1, ReleaseStays
  <1>4. QED
    BY <1>2, <1>3 DEF ReviewerStep, LockReview, AuditDecision, ReviewFails

\* A held answer is released or refused only out of review and only once,
\* under all faults: the rows of queries, responses and reviews implement the
\* promise to the operator.
THEOREM QueriesImplementAnswerRelease == Spec => ImplementsAnswerRelease
  <1>1. Init => AR!Init
    <2>1. ASSUME Init, NEW q \in Queries PROVE Fate(q) = "unasked"
      BY <2>1 DEF Init, Fate
    <2>2. QED
      BY <2>1 DEF AR!Init, Release
  <1>2. QueryInv /\ QueryInv' /\ [Next]_vars => [AR!Next]_Release
    <2> SUFFICES ASSUME QueryInv, QueryInv', [Next]_vars
        PROVE  AR!Next \/ UNCHANGED Release
      OBVIOUS
    <2>1. CASE UNCHANGED vars
      BY <2>1 DEF vars, Release, Fate, Held
    <2>2. ASSUME NEW h \in Readers, ReaderStep(h) PROVE UNCHANGED Release
      <3>1. UNCHANGED <<status, response, risk, spoiled>>
        BY <2>2 DEF ReaderStep, ReadQueries, ReadResponses, ReadReviews, UnchangedByReader
      <3>2. QED
        BY <3>1 DEF Release, Fate, Held
    <2>3. QED
      BY <2>1, <2>2, AskerImplements, ReviewerImplements DEF Next, AskerAction
  <1>3. QED
    BY <1>1, <1>2, QueryCorrect, PTL DEF Spec, ImplementsAnswerRelease, AR!Spec

=============================================================================
