------------------------- MODULE AnswerCache_proofs -------------------------
(***************************************************************************)
(* Theorems about AnswerCache, for any queries, changes, batch sizes,      *)
(* attempts and crashes, under all faults.                                 *)
(***************************************************************************)
EXTENDS AnswerCache, TLAPS

-----------------------------------------------------------------------------
(* Type correctness *)

\* The initial state is well typed.
LEMMA TypeInit == Init => TypeOK
  BY ConstantsAssumption DEF Init, TypeOK, AskerState, ChangeState

\* The steps of a query keep the types.
LEMMA TypeQuery ==
  ASSUME TypeOK, NEW q \in Queries, QueryStep(q)
  PROVE  TypeOK'
  <1>0. asker[q] \in AskerState /\ Variants \in Nat \ {0}
    BY ConstantsAssumption DEF TypeOK
  <1>1. CASE ScanKeys(q)
    <2>1. PICK keys \in SUBSET cache :
            asker' = [asker EXCEPT ![q].pc = "read", ![q].keys = keys]
      BY <1>1 DEF ScanKeys
    <2>2. [asker[q] EXCEPT !.pc = "read", !.keys = keys] \in AskerState
      BY <1>0, <2>1 DEF TypeOK, AskerState
    <2>3. QED
      BY <1>1, <2>1, <2>2 DEF ScanKeys, UnchangedByQuery, TypeOK
  <1>2. CASE ReadEntries(q)
    <2>1. \E step \in {"end", "retrieve"} :
            asker' = [asker EXCEPT ![q].pc = step, ![q].keys = {}]
      BY <1>2 DEF ReadEntries
    <2>2. \A step \in {"end", "retrieve"} :
            [asker[q] EXCEPT !.pc = step, !.keys = {}] \in AskerState
      BY <1>0 DEF AskerState
    <2>3. QED
      BY <1>2, <2>1, <2>2 DEF ReadEntries, UnchangedByQuery, TypeOK
  <1>3. CASE Retrieve(q)
    <2>1. PICK step \in {"retrieve", "store"} :
            /\ step = "retrieve" => asker[q].retrieved + 1 < Variants
            /\ asker' = [asker EXCEPT ![q].pc = step,
                           ![q].retrieved = IF step = "store" THEN 0 ELSE @ + 1]
      BY <1>3 DEF Retrieve
    <2>2. (IF step = "store" THEN 0 ELSE asker[q].retrieved + 1) \in 0 .. Variants
      BY <1>0, <2>1 DEF AskerState
    <2>3. asker' \in [Queries -> AskerState]
      BY <1>0, <2>1, <2>2 DEF TypeOK, AskerState
    <2>4. QED
      BY <1>3, <2>3 DEF Retrieve, UnchangedByQuery, TypeOK
  <1>4. CASE Store(q)
    BY <1>0, <1>4 DEF Store, UnchangedByQuery, TypeOK, AskerState
  <1>5. CASE Expire(q)
    BY <1>5 DEF Expire, UnchangedByQuery, TypeOK
  <1>6. QED
    BY <1>1, <1>2, <1>3, <1>4, <1>5 DEF QueryStep

\* The steps of a change keep the types.
LEMMA TypeChange ==
  ASSUME TypeOK, NEW c \in Changes, ChangeStep(c) \/ MeetNewKey(c) \/ ChangeFault(c)
  PROVE  TypeOK'
  <1>0. change[c] \in ChangeState /\ MaxAttempts \in Nat \ {0} /\ MaxCrashes \in Nat
    BY ConstantsAssumption DEF TypeOK
  <1> USE DEF ChangeGoto, BreakOff, UnchangedByChange
  <1>1. CASE CommitChange(c) \/ RetractChunks(c)
    BY <1>0, <1>1 DEF CommitChange, RetractChunks, Commit, TypeOK, ChangeState
  <1>2. CASE AuditIngest(c) \/ BeginInvalidation(c)
    BY <1>0, <1>2 DEF AuditIngest, BeginInvalidation, TypeOK, ChangeState
  <1>3. CASE DeleteBatch(c)
    BY <1>0, <1>3 DEF DeleteBatch, TypeOK, ChangeState
  <1>4. CASE MeetNewKey(c)
    <2>1. PICK q \in cache : change' = [change EXCEPT ![c].keys = @ \cup {q}]
      BY <1>4 DEF MeetNewKey
    <2>2. change' \in [Changes -> ChangeState]
      BY <1>0, <2>1 DEF TypeOK, ChangeState
    <2>3. QED
      BY <1>4, <2>2 DEF MeetNewKey, TypeOK
  <1>5. CASE AuditFails(c)
    <2>1. CASE change[c].attempt < MaxAttempts
      BY <1>0, <1>5, <2>1 DEF AuditFails, TypeOK, ChangeState
    <2>2. CASE ~(change[c].attempt < MaxAttempts)
      BY <1>0, <1>5, <2>2 DEF AuditFails, TypeOK, ChangeState
    <2>3. QED
      BY <2>1, <2>2
  <1>6. CASE InvalidationFails(c)
    BY <1>0, <1>6 DEF InvalidationFails, TypeOK, ChangeState
  <1>7. CASE IngestFails(c)
    <2>1. PICK step \in {"start", "redo", "failed"}, n \in 1 .. MaxAttempts :
            change' = [change EXCEPT ![c].pc = step, ![c].attempt = n]
      <3>1. CASE change[c].attempt < MaxAttempts /\ change' # [change EXCEPT ![c].pc = "failed"]
        BY <1>0, <1>7, <3>1 DEF IngestFails, TypeOK, ChangeState
      <3>2. CASE change' = [change EXCEPT ![c].pc = "failed"]
        BY <1>0, <3>2 DEF TypeOK, ChangeState
      <3>3. QED
        BY <1>7, <3>1, <3>2 DEF IngestFails
    <2>2. change' \in [Changes -> ChangeState]
      BY <1>0, <2>1 DEF TypeOK, ChangeState
    <2>3. QED
      BY <1>7, <2>2 DEF IngestFails, TypeOK
  <1>8. CASE TimeIsUp(c)
    BY <1>0, <1>8 DEF TimeIsUp, TypeOK, ChangeState
  <1>9. CASE ChangeCrashes(c)
    <2>1. PICK step \in {"redo", "lost"} :
            change' = [change EXCEPT ![c].pc = step, ![c].before = {}, ![c].keys = {}]
      BY <1>9 DEF ChangeCrashes
    <2>2. change' \in [Changes -> ChangeState]
      BY <1>0, <2>1 DEF TypeOK, ChangeState
    <2>3. crashes' \in 0 .. MaxCrashes
      BY <1>0, <1>9 DEF ChangeCrashes, TypeOK
    <2>4. QED
      BY <1>9, <2>2, <2>3 DEF ChangeCrashes, TypeOK
  <1>10. QED
    BY <1>1, <1>2, <1>3, <1>4, <1>5, <1>6, <1>7, <1>8, <1>9 DEF ChangeStep, ChangeFault

\* Every step keeps the types.
LEMMA TypeStep == TypeOK /\ [Next]_vars => TypeOK'
  <1> SUFFICES ASSUME TypeOK, [Next]_vars PROVE TypeOK'
    OBVIOUS
  <1>1. CASE UNCHANGED vars
    BY <1>1 DEF vars, TypeOK
  <1>2. QED
    BY <1>1, TypeQuery, TypeChange DEF Next

\* Every reachable state is well typed.
THEOREM TypeCorrect == Spec => []TypeOK
  BY TypeInit, TypeStep, PTL DEF Spec

-----------------------------------------------------------------------------
(* Invalidation and freshness *)

\* An answer rests on the corpus as it is, or its query was overtaken.
Current(q) == basis[q] = corpus \/ q \in raced

\* A query stores once, as its last step; what it is about to store is current.
QueryInv(q) ==
    /\ q \in cache => asker[q].pc = "end"
    /\ asker[q].pc = "store" \/ asker[q].retrieved > 0 => Current(q)

\* An invalidation still has all it found in its scan to delete, and in the end
\* nothing; if the change was the last to commit, what it did not find there
\* was stored since and is current.
ChangeInv(c) ==
    /\ change[c].pc \in {"delete", "done"} =>
         /\ \A q \in change[c].before : asker[q].pc = "end"
         /\ c \in latest => \A q \in cache \ change[c].before : Current(q)
    /\ change[c].pc = "delete" => change[c].before \cap cache \subseteq change[c].keys
    /\ change[c].pc = "done" => change[c].before \cap cache = {}

CacheInv ==
    /\ TypeOK
    /\ \A q \in Queries : QueryInv(q)
    /\ \A c \in Changes : ChangeInv(c)

\* The initial state satisfies it.
LEMMA CacheInit == Init => CacheInv
  BY TypeInit DEF Init, CacheInv, QueryInv, ChangeInv

\* A query's step: a query that ended has done its last one, only a current
\* answer is stored, and an answer once retrieved from keeps its basis.
LEMMA QueryFrame ==
  ASSUME CacheInv, NEW p \in Queries, QueryStep(p)
  PROVE  /\ UNCHANGED <<corpus, change, raced, latest>>
         /\ \A q \in Queries \ {p} : asker'[q] = asker[q] /\ basis'[q] = basis[q]
         /\ asker[p].pc = "end" => asker'[p].pc = "end" /\ basis'[p] = basis[p]
         /\ \/ cache' \subseteq cache
            \/ /\ asker[p].pc = "store" /\ asker'[p].pc = "end"
               /\ cache' = cache \cup {p} /\ basis' = basis
  <1>0. TypeOK /\ asker[p] \in AskerState
    BY DEF CacheInv, TypeOK
  <1>1. CASE ScanKeys(p)
    BY <1>0, <1>1 DEF ScanKeys, UnchangedByQuery, TypeOK
  <1>2. CASE ReadEntries(p)
    BY <1>0, <1>2 DEF ReadEntries, UnchangedByQuery, TypeOK
  <1>3. CASE Retrieve(p)
    BY <1>0, <1>3 DEF Retrieve, UnchangedByQuery, TypeOK
  <1>4. CASE Store(p)
    BY <1>0, <1>4 DEF Store, UnchangedByQuery, TypeOK, AskerState
  <1>5. CASE Expire(p)
    BY <1>0, <1>5 DEF Expire, UnchangedByQuery, TypeOK
  <1>6. QED
    BY <1>1, <1>2, <1>3, <1>4, <1>5 DEF QueryStep

\* What a query is about to store stays current.
LEMMA QueryStaysCurrent ==
  ASSUME CacheInv, NEW p \in Queries, QueryStep(p)
  PROVE  QueryInv(p)'
  <1>0. TypeOK /\ TypeOK' /\ asker[p] \in AskerState /\ QueryInv(p)
    BY TypeQuery DEF CacheInv, TypeOK
  <1>1. CASE ScanKeys(p) \/ ReadEntries(p)
    <2>1. /\ asker[p].pc \in {"scan", "read"} /\ asker'[p].pc \in {"read", "end", "retrieve"}
          /\ asker'[p].retrieved = asker[p].retrieved
          /\ cache' = cache /\ basis' = basis /\ corpus' = corpus /\ raced' = raced
      <3>1. CASE ScanKeys(p)
        BY <1>0, <3>1 DEF ScanKeys, UnchangedByQuery, TypeOK, AskerState
      <3>2. CASE ReadEntries(p)
        BY <1>0, <3>2 DEF ReadEntries, UnchangedByQuery, TypeOK, AskerState
      <3>3. QED
        BY <1>1, <3>1, <3>2
    <2>2. QED
      BY <1>0, <2>1 DEF QueryInv, Current
  <1>2. CASE Retrieve(p)
    <2>1. /\ asker[p].pc = "retrieve" /\ cache' = cache /\ corpus' = corpus /\ raced' = raced
          /\ basis'[p] = IF asker[p].retrieved = 0 THEN corpus ELSE basis[p]
      BY <1>0, <1>2 DEF Retrieve, UnchangedByQuery, TypeOK
    <2>2. asker[p].retrieved \in Nat
      BY <1>0, ConstantsAssumption DEF AskerState
    <2>3. Current(p)'
      BY <1>0, <2>1, <2>2 DEF QueryInv, Current
    <2>4. QED
      BY <1>0, <2>1, <2>3 DEF QueryInv
  <1>3. CASE Store(p)
    <2>1. /\ asker[p].pc = "store" /\ asker'[p].pc = "end"
          /\ basis' = basis /\ corpus' = corpus /\ raced' = raced
      BY <1>0, <1>3 DEF Store, UnchangedByQuery, TypeOK, AskerState
    <2>2. QED
      BY <1>0, <2>1 DEF QueryInv, Current
  <1>4. CASE Expire(p)
    BY <1>0, <1>4 DEF Expire, UnchangedByQuery, QueryInv, Current
  <1>5. QED
    BY <1>1, <1>2, <1>3, <1>4 DEF QueryStep

\* The step of a query keeps everything.
LEMMA QueryKeeps ==
  ASSUME CacheInv, NEW p \in Queries, QueryStep(p)
  PROVE  CacheInv'
  <1>0. TypeOK /\ TypeOK'
    BY TypeQuery DEF CacheInv
  <1>1. ASSUME NEW q \in Queries PROVE QueryInv(q)'
    <2>1. CASE q = p
      BY <2>1, QueryStaysCurrent
    <2>2. CASE q # p
      BY <2>2, QueryFrame DEF CacheInv, QueryInv, Current
    <2>3. QED
      BY <2>1, <2>2
  <1>2. ASSUME NEW c \in Changes PROVE ChangeInv(c)'
    <2>1. ChangeInv(c) /\ change[c].before \subseteq Queries /\ cache \subseteq Queries
      BY <1>0 DEF CacheInv, TypeOK, ChangeState
    <2>2. change' = change /\ latest' = latest
      BY QueryFrame
    <2>3. CASE cache' \subseteq cache
      <3>1. \A q \in Queries : asker[q].pc = "end" => asker'[q].pc = "end"
        BY QueryFrame
      <3>2. \A q \in cache : Current(q) => Current(q)'
        BY <2>1, QueryFrame DEF CacheInv, QueryInv, Current
      <3>3. QED
        BY <2>1, <2>2, <2>3, <3>1, <3>2 DEF ChangeInv
    <2>4. CASE /\ asker[p].pc = "store" /\ asker'[p].pc = "end"
               /\ cache' = cache \cup {p} /\ basis' = basis
      <3>1. Current(p) /\ \A q \in Queries : Current(q)' = Current(q)
        BY <2>4, QueryFrame DEF CacheInv, QueryInv, Current
      <3>2. change[c].pc \in {"delete", "done"} => p \notin change[c].before
        BY <2>1, <2>4 DEF ChangeInv
      <3>3. \A q \in Queries : asker[q].pc = "end" => asker'[q].pc = "end"
        BY QueryFrame
      <3>4. QED
        BY <2>1, <2>2, <2>4, <3>1, <3>2, <3>3 DEF ChangeInv
    <2>5. QED
      BY <2>3, <2>4, QueryFrame
  <1>3. QED
    BY <1>0, <1>1, <1>2 DEF CacheInv

\* A change of the corpus overtakes every query that has retrieved, and no
\* other answer is cached any more by a query that had.
LEMMA CommitKeeps ==
  ASSUME CacheInv, NEW c \in Changes, CommitChange(c) \/ RetractChunks(c)
  PROVE  CacheInv'
  <1>0. TypeOK /\ TypeOK' /\ change[c] \in ChangeState
    BY TypeChange DEF CacheInv, ChangeStep, TypeOK
  <1>1. /\ latest' = {c} /\ cache' = cache /\ asker' = asker /\ basis' = basis
        /\ raced' = raced \cup
             {q \in Queries : asker[q].pc = "store" \/ asker[q].retrieved > 0}
        /\ change'[c].pc \in {"audit", "invalidate", "again"}
        /\ \A d \in Changes \ {c} : change'[d] = change[d]
    BY <1>0 DEF CommitChange, RetractChunks, Commit, ChangeGoto, UnchangedByChange, TypeOK,
       ChangeState
  <1>2. ASSUME NEW q \in Queries PROVE QueryInv(q)'
    BY <1>1 DEF CacheInv, QueryInv, Current
  <1>3. ASSUME NEW d \in Changes PROVE ChangeInv(d)'
    <2>1. CASE d = c
      BY <1>1, <2>1 DEF ChangeInv
    <2>2. CASE d # c
      <3>1. ChangeInv(d) /\ d \notin latest'
        BY <1>1, <2>2 DEF CacheInv
      <3>2. QED
        BY <1>1, <2>2, <3>1 DEF ChangeInv
    <2>3. QED
      BY <2>1, <2>2
  <1>4. QED
    BY <1>0, <1>2, <1>3 DEF CacheInv

\* A step of an invalidation keeps everything.
LEMMA InvalidationKeeps ==
  ASSUME CacheInv, NEW c \in Changes,
         BeginInvalidation(c) \/ MeetNewKey(c) \/ DeleteBatch(c)
  PROVE  CacheInv'
  <1>0. TypeOK /\ TypeOK' /\ change[c] \in ChangeState /\ ChangeInv(c)
    BY TypeChange DEF CacheInv, ChangeStep, TypeOK
  <1>1. /\ UNCHANGED <<corpus, raced, latest, asker, basis>> /\ cache' \subseteq cache
        /\ \A d \in Changes \ {c} : change'[d] = change[d]
        /\ \A q \in Queries : Current(q)' = Current(q)
    BY <1>0 DEF BeginInvalidation, MeetNewKey, DeleteBatch, UnchangedByChange, ChangeGoto,
       TypeOK, Current
  <1>2. ASSUME NEW q \in Queries PROVE QueryInv(q)'
    BY <1>1, <1>2 DEF CacheInv, QueryInv
  <1>3. cache \subseteq Queries /\ change[c].before \subseteq Queries
    BY <1>0 DEF TypeOK, ChangeState
  <1>4. ChangeInv(c)'
    <2>1. CASE BeginInvalidation(c)
      <3>1. /\ change'[c].pc = "delete" /\ change'[c].before = cache
            /\ change'[c].keys = cache /\ cache' = cache
        BY <1>0, <2>1 DEF BeginInvalidation, TypeOK, ChangeState
      <3>2. \A q \in cache : asker[q].pc = "end"
        BY <1>3 DEF CacheInv, QueryInv
      <3>3. QED
        BY <1>1, <3>1, <3>2 DEF ChangeInv
    <2>2. CASE MeetNewKey(c)
      <3>1. PICK q \in cache : change' = [change EXCEPT ![c].keys = @ \cup {q}]
        BY <2>2 DEF MeetNewKey
      <3>2. /\ change[c].pc = "delete" /\ change'[c].pc = "delete" /\ cache' = cache
            /\ change'[c].before = change[c].before /\ change[c].keys \subseteq change'[c].keys
        BY <1>0, <2>2, <3>1 DEF MeetNewKey, TypeOK, ChangeState
      <3>3. QED
        BY <1>0, <1>1, <1>3, <3>2 DEF ChangeInv
    <2>3. CASE DeleteBatch(c)
      <3>1. PICK batch \in SUBSET change[c].keys :
              /\ change[c].pc = "delete" /\ cache' = cache \ batch
              /\ change'[c].before = change[c].before
              /\ \/ change'[c].pc = "done" /\ batch = change[c].keys
                 \/ change'[c].pc = "delete" /\ change'[c].keys = change[c].keys \ batch
        <4>1. CASE Cardinality(change[c].keys) < Batch
          <5>1. /\ cache' = cache \ change[c].keys /\ change[c].pc = "delete"
                /\ change'[c].before = change[c].before /\ change'[c].pc = "done"
            BY <1>0, <2>3, <4>1 DEF DeleteBatch, TypeOK, ChangeState
          <5>2. QED
            BY <5>1
        <4>2. CASE ~(Cardinality(change[c].keys) < Batch)
          BY <1>0, <2>3, <4>2 DEF DeleteBatch, TypeOK, ChangeState
        <4>3. QED
          BY <4>1, <4>2
      <3>2. QED
        BY <1>0, <1>1, <1>3, <3>1 DEF ChangeInv
    <2>4. QED
      BY <2>1, <2>2, <2>3
  <1>5. ASSUME NEW d \in Changes \ {c} PROVE ChangeInv(d)'
    <2>1. ChangeInv(d) /\ change'[d] = change[d]
      BY <1>1 DEF CacheInv
    <2>2. QED
      BY <1>1, <1>3, <2>1 DEF ChangeInv
  <1>6. QED
    BY <1>0, <1>2, <1>4, <1>5 DEF CacheInv

\* Every step keeps the invariant.
LEMMA CacheStep == CacheInv /\ [Next]_vars => CacheInv'
  <1> SUFFICES ASSUME CacheInv, [Next]_vars PROVE CacheInv'
    OBVIOUS
  <1>1. CASE UNCHANGED vars
    BY <1>1 DEF vars, CacheInv, TypeOK, QueryInv, ChangeInv, Current
  <1>2. ASSUME NEW c \in Changes, AuditIngest(c) \/ ChangeFault(c) PROVE CacheInv'
    <2>1. TypeOK /\ TypeOK' /\ change[c] \in ChangeState
      BY <1>2, TypeChange DEF CacheInv, ChangeStep, TypeOK
    <2>2. /\ UNCHANGED <<corpus, raced, latest, asker, basis, cache>>
          /\ change'[c].pc \notin {"delete", "done"}
          /\ \A d \in Changes \ {c} : change'[d] = change[d]
      BY <1>2, <2>1 DEF AuditIngest, ChangeFault, IngestFails, AuditFails, TimeIsUp,
         InvalidationFails, ChangeCrashes, BreakOff, ChangeGoto, UnchangedByChange, TypeOK, ChangeState
    <2>3. \A q \in Queries : QueryInv(q)'
      BY <2>2 DEF CacheInv, QueryInv, Current
    <2>4. ASSUME NEW d \in Changes PROVE ChangeInv(d)'
      <3>1. CASE d = c
        BY <2>2, <3>1 DEF ChangeInv
      <3>2. CASE d # c
        BY <2>2, <3>2 DEF CacheInv, ChangeInv, Current
      <3>3. QED
        BY <3>1, <3>2
    <2>5. QED
      BY <2>1, <2>3, <2>4 DEF CacheInv
  <1>3. QED
    BY <1>1, <1>2, QueryKeeps, CommitKeeps, InvalidationKeeps DEF Next, ChangeStep

LEMMA CacheCorrect == Spec => []CacheInv
  BY CacheInit, CacheStep, PTL DEF Spec

\* Whatever is stored, expires or is deleted by others meanwhile, a finished
\* invalidation leaves no entry that was there when it began.
THEOREM InvalidationsAreComplete == Spec => []InvalidationIsComplete
  <1>1. CacheInv => InvalidationIsComplete
    BY DEF CacheInv, ChangeInv, InvalidationIsComplete
  <1>2. QED
    BY <1>1, CacheCorrect, PTL

\* Once the change that made the corpus what it is has invalidated, every cached
\* answer rests on that corpus, except those whose query it overtook.
THEOREM CachedAnswersAreFresh == Spec => []AnswersAreFresh
  <1>1. ASSUME CacheInv, NEW c \in latest, change[c].pc = "done", NEW q \in cache
        PROVE  basis[q] = corpus \/ q \in raced
    <2>1. c \in Changes /\ ChangeInv(c)
      BY <1>1 DEF CacheInv, TypeOK
    <2>2. q \notin change[c].before
      BY <1>1, <2>1 DEF ChangeInv
    <2>3. QED
      BY <1>1, <2>1, <2>2 DEF ChangeInv, Current
  <1>2. CacheInv => AnswersAreFresh
    BY <1>1 DEF AnswersAreFresh
  <1>3. QED
    BY <1>2, CacheCorrect, PTL
=============================================================================
