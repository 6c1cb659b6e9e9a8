----------------------- MODULE InsightsRefresh_proofs -----------------------
(***************************************************************************)
(* Theorems about InsightsRefresh, for any runs, documents, workers,       *)
(* dashboards, batch sizes and retries, under all faults.                  *)
(***************************************************************************)
EXTENDS InsightsRefresh, FiniteSetTheorems, TLAPS

-----------------------------------------------------------------------------
(* Least, greatest and first documents *)

\* The least-number principle for sets of naturals.
LEMMA LeastExists ==
  ASSUME NEW S, S \subseteq Nat, S # {}
  PROVE  \E x \in S : \A y \in S : x <= y
  <1> DEFINE R == OpToRel(<, Nat)
  <1>1. IsWellFoundedOn(R, Nat)
    BY NatLessThanWellFounded
  <1>2. ASSUME NEW x \in Nat, NEW y \in Nat, <<y, x>> \notin R PROVE x <= y
    <2>1. ~(y < x)
      BY <1>2 DEF OpToRel
    <2>2. QED
      BY <2>1
  <1> HIDE DEF R
  <1>3. \E x \in S : \A y \in S : ~(<<y, x>> \in R)
    BY <1>1, WFMin
  <1>4. QED
    BY <1>2, <1>3

LEMMA MinIsLeast ==
  ASSUME NEW S, S \subseteq Nat, S # {}
  PROVE  Min(S) \in S /\ \A y \in S : Min(S) <= y
  <1>1. \E x \in S : \A y \in S : x <= y
    BY LeastExists
  <1>2. QED
    BY <1>1 DEF Min

LEMMA MaxIsGreatest ==
  ASSUME NEW S, NEW n \in Nat, S \subseteq 0 .. n, S # {}
  PROVE  Max(S) \in S /\ \A y \in S : y <= Max(S)
  <1> DEFINE T == {k \in Nat : n - k \in S}
  <1>1. ASSUME NEW x \in S PROVE n - x \in T
    BY n - (n - x) = x, n - x \in Nat
  <1>2. T \subseteq Nat /\ T # {}
    BY <1>1
  <1> HIDE DEF T
  <1>3. PICK k \in T : \A j \in T : k <= j
    BY <1>2, LeastExists
  <1>4. n - k \in S /\ k \in Nat
    BY DEF T
  <1>5. \A y \in S : y <= n - k
    BY <1>1, <1>3, <1>4
  <1>6. \E x \in S : \A y \in S : x >= y
    BY <1>4, <1>5
  <1>7. QED
    BY <1>6 DEF Max

\* Sets of documents are finite.
LEMMA DocsFinite ==
  ASSUME NEW S, S \subseteq Docs
  PROVE  IsFiniteSet(S) /\ Cardinality(S) \in Nat
  <1>1. IsFiniteSet(Docs)
    BY ConstantsAssumption, FS_Interval DEF Docs
  <1>2. QED
    BY <1>1, FS_Subset, FS_CardinalityType

LEMMA CardinalityGrows ==
  ASSUME NEW S, NEW T, S \subseteq T, T \subseteq Docs
  PROVE  Cardinality(S) <= Cardinality(T)
  BY DocsFinite, FS_Subset

LEMMA CardinalityOfOneMore ==
  ASSUME NEW S, NEW T, NEW d, S \subseteq T \cup {d}, T \subseteq Docs, d \in Docs
  PROVE  Cardinality(S) <= Cardinality(T) + 1
  <1>1. Cardinality(T \cup {d}) <= Cardinality(T) + 1
    BY DocsFinite, FS_AddElement
  <1>2. Cardinality(S) <= Cardinality(T \cup {d})
    BY CardinalityGrows
  <1>3. QED
    BY <1>1, <1>2, DocsFinite

\* NextBatch loads the first BatchSize documents after the cursor: what it
\* leaves out follows a full batch.
LEMMA BatchIsFirst ==
  ASSUME eligible \subseteq Docs, NEW after \in Nat
  PROVE  /\ NextBatch(after) \subseteq {d \in eligible : d > after}
         /\ \A d \in eligible : d > after /\ d \notin NextBatch(after) =>
              /\ Cardinality(NextBatch(after)) = BatchSize
              /\ \A e \in NextBatch(after) : e < d
  <1> DEFINE rest == {d \in eligible : d > after}
             upto(d) == {e \in rest : e <= d}
             batch == {d \in rest : Cardinality(upto(d)) <= BatchSize}
  <1>1. NextBatch(after) = batch
    BY DEF NextBatch
  <1>2. rest \subseteq Docs /\ Docs \subseteq Nat /\ BatchSize \in Nat \ {0}
    <2>1. BatchSize \in Nat \ {0} /\ NumDocs \in Nat
      BY ConstantsAssumption
    <2>2. Docs \subseteq Nat
      BY <2>1 DEF Docs
    <2>3. rest \subseteq Docs
      OBVIOUS
    <2>4. QED
      BY <2>1, <2>2, <2>3
  <1>3. \A d : upto(d) \subseteq Docs /\ Cardinality(upto(d)) \in Nat
    BY <1>2, DocsFinite
  <1>4. \A d, e \in rest : d <= e => Cardinality(upto(d)) <= Cardinality(upto(e))
    <2> SUFFICES ASSUME NEW d \in rest, NEW e \in rest, d <= e
        PROVE  Cardinality(upto(d)) <= Cardinality(upto(e))
      OBVIOUS
    <2>1. upto(d) \subseteq upto(e)
      <3> SUFFICES ASSUME NEW f \in rest, f <= d PROVE f <= e
        OBVIOUS
      <3>1. d \in Nat /\ e \in Nat /\ f \in Nat
        BY <1>2
      <3>2. QED
        BY <3>1
    <2>2. QED
      BY <1>3, <2>1, CardinalityGrows
  <1>5. ASSUME NEW d \in rest, d \notin batch
        PROVE  Cardinality(batch) = BatchSize /\ \A e \in batch : e < d
    <2>1. Cardinality(upto(d)) > BatchSize
      BY <1>2, <1>3, <1>5
    <2>2. \A e \in batch : e < d
      <3> SUFFICES ASSUME NEW e \in batch, ~(e < d) PROVE FALSE
        OBVIOUS
      <3>1. Cardinality(upto(d)) <= Cardinality(upto(e))
        BY <1>2, <1>4
      <3>2. QED
        BY <1>2, <1>3, <2>1, <3>1
    <2>3. PICK m \in rest \ batch : \A e \in rest \ batch : m <= e
      <3>1. rest \ batch \subseteq Nat /\ rest \ batch # {}
        BY <1>2, <1>5
      <3>2. QED
        BY <3>1, LeastExists
    <2>4. batch = upto(m) \ {m}
      <3>1. ASSUME NEW e \in batch PROVE e \in upto(m) \ {m}
        <4>1. CASE m <= e
          BY <1>2, <1>3, <1>4, <2>3, <4>1
        <4>2. CASE ~(m <= e)
          BY <1>2, <4>2
        <4>3. QED
          BY <4>1, <4>2
      <3>2. ASSUME NEW e \in upto(m) \ {m} PROVE e \in batch
        BY <1>2, <2>3
      <3>3. QED
        BY <3>1, <3>2
    <2>5. Cardinality(batch) = Cardinality(upto(m)) - 1
      <3>1. IsFiniteSet(upto(m)) /\ m \in upto(m)
        BY <1>2, <1>3, DocsFinite
      <3> HIDE DEF upto, batch
      <3>2. QED
        BY <2>4, <3>1, FS_RemoveElement
    <2>6. Cardinality(batch) >= BatchSize
      <3>1. Cardinality(upto(m)) > BatchSize
        BY <1>2, <1>3, <2>3
      <3> HIDE DEF upto, batch
      <3>2. QED
        BY <1>2, <1>3, <2>5, <3>1
    <2>7. Cardinality(batch) <= BatchSize
      <3>1. batch # {} /\ batch \subseteq 0 .. NumDocs /\ NumDocs \in Nat
        <4>1. Cardinality({}) = 0
          BY FS_EmptySet
        <4>2. batch # {}
          <5> HIDE DEF batch
          <5>1. QED
            BY <1>2, <2>6, <4>1
        <4>3. batch \subseteq rest /\ NumDocs \in Nat
          BY ConstantsAssumption
        <4> HIDE DEF rest, batch
        <4>4. QED
          BY <1>2, <4>2, <4>3 DEF Docs
      <3>2. PICK l \in batch : \A e \in batch : e <= l
        <4> HIDE DEF batch
        <4>1. QED
          BY <3>1, MaxIsGreatest
      <3>3. batch \subseteq upto(l)
        BY <3>2
      <3>4. Cardinality(batch) <= Cardinality(upto(l))
        <4> HIDE DEF batch, upto
        <4>1. QED
          BY <1>3, <3>3, CardinalityGrows
      <3>5. Cardinality(upto(l)) <= BatchSize
        BY <3>2
      <3>6. Cardinality(batch) \in Nat
        <4>1. batch \subseteq Docs
          BY <1>2
        <4> HIDE DEF batch
        <4>2. QED
          BY <4>1, DocsFinite
      <3> HIDE DEF batch, upto
      <3>7. QED
        BY <1>2, <1>3, <3>4, <3>5, <3>6
    <2>8. Cardinality(batch) \in Nat
      <3>1. batch \subseteq Docs
        BY <1>2
      <3> HIDE DEF batch
      <3>2. QED
        BY <3>1, DocsFinite
    <2> HIDE DEF batch
    <2>9. QED
      BY <1>2, <2>2, <2>6, <2>7, <2>8
  <1>6. batch \subseteq rest
    OBVIOUS
  <1> HIDE DEF batch
  <1>7. QED
    BY <1>1, <1>5, <1>6

-----------------------------------------------------------------------------
(* Type correctness *)

\* What TypeOK says of a worker.
WorkerOK(v) ==
    /\ v \in WorkerState
    /\ v.pc # "idle" => v.msg \in Message
    /\ v.todo \subseteq v.batch
    /\ v.pc = "count" => v.todo # {}
    /\ v.pc = "send" => v.batch # {}

WorkersOK ==
    /\ worker \in [Workers -> WorkerState]
    /\ \A w \in Workers : WorkerOK(worker[w])

\* TypeOK without the workers.
RestOK ==
    /\ eligible \subseteq Docs
    /\ gone \subseteq Docs
    /\ insights \in [Docs -> {"null", "empty", "found"}]
    /\ lock \in Runs \cup {NoRun}
    /\ progress \in Progress
    /\ start \in [Runs -> StartSteps]
    /\ queue \in [Message -> Nat]
    /\ dashboard \in [Dashboards -> [pc : {"idle", "fill", "end"}, docs : SUBSET Docs]]
    /\ stayed \in [Runs -> SUBSET Docs]
    /\ visited \in [Runs -> SUBSET Docs]
    /\ abandoned \subseteq Runs
    /\ struck \subseteq Faults

LEMMA TypeParts == TypeOK <=> RestOK /\ WorkersOK
  BY DEF TypeOK, RestOK, WorkersOK, WorkerOK

LEMMA TypePartsNext == RestOK' /\ WorkersOK' => TypeOK'
  BY TypeParts, PTL

LEMMA Constants ==
  /\ NumDocs \in Nat /\ Docs \subseteq Nat \ {0} /\ Docs = 1 .. NumDocs
  /\ BatchSize \in Nat \ {0} /\ MaxRetries \in Nat
  <1>1. NumDocs \in Nat /\ BatchSize \in Nat \ {0} /\ MaxRetries \in Nat
    BY ConstantsAssumption
  <1>2. Docs \subseteq Nat \ {0}
    BY <1>1 DEF Docs
  <1>3. QED
    BY <1>1, <1>2, ConstantsAssumption DEF Docs

\* The initial state is well typed.
LEMMA TypeInit == Init => TypeOK
  <1> SUFFICES ASSUME Init PROVE RestOK /\ WorkersOK
    BY TypeParts
  <1>1. Idle \in WorkerState /\ WorkerOK(Idle)
    BY DEF Idle, WorkerState, WorkerSteps, WorkerOK
  <1>2. WorkersOK
    BY <1>1 DEF Init, WorkersOK
  <1>3. NoProgress \in Progress
    BY DEF NoProgress, Progress
  <1>4. RestOK
    BY <1>3, Constants, ConstantsAssumption DEF Init, RestOK, StartSteps
  <1>5. QED
    BY <1>2, <1>4

\* A queued message keeps the queue a bag of messages.
LEMMA SendType ==
  ASSUME RestOK, NEW m \in Message, Send(m)
  PROVE  /\ queue' \in [Message -> Nat]
         /\ queue'[m] = queue[m] + 1 /\ \A n \in Message \ {m} : queue'[n] = queue[n]
  BY DEF RestOK, Send

\* A worker that goes on to another step.
LEMMA GotoType ==
  ASSUME WorkersOK, NEW w \in Workers, NEW step \in WorkerSteps, Goto(w, step),
         worker[w].pc # "idle",
         step = "count" => worker[w].todo # {}, step = "send" => worker[w].batch # {}
  PROVE  /\ WorkersOK'
         /\ worker'[w].pc = step /\ worker'[w].msg = worker[w].msg
         /\ worker'[w].batch = worker[w].batch /\ worker'[w].todo = worker[w].todo
         /\ \A v \in Workers \ {w} : worker'[v] = worker[v]
  <1>1. WorkerOK(worker[w])
    BY DEF WorkersOK
  <1>2. /\ worker'[w] = [worker[w] EXCEPT !.pc = step]
        /\ \A v \in Workers \ {w} : worker'[v] = worker[v]
        /\ worker' = [worker EXCEPT ![w] = worker'[w]]
    BY DEF Goto, WorkersOK
  <1>3. worker'[w] = [pc |-> step, msg |-> worker[w].msg, batch |-> worker[w].batch,
                      todo |-> worker[w].todo]
    BY <1>1, <1>2 DEF WorkerOK, WorkerState
  <1>4. WorkerOK(worker'[w])
    BY <1>1, <1>3 DEF WorkerOK, WorkerState
  <1>5. QED
    BY <1>2, <1>3, <1>4 DEF WorkersOK, WorkerOK

\* A worker whose state is replaced as a whole.
LEMMA ReplaceType ==
  ASSUME WorkersOK, NEW w \in Workers, NEW new, WorkerOK(new),
         worker' = [worker EXCEPT ![w] = new]
  PROVE  /\ WorkersOK' /\ worker'[w] = new
         /\ \A v \in Workers \ {w} : worker'[v] = worker[v]
  BY DEF WorkersOK, WorkerOK

\* The next document of a batch is one of those to do.
LEMMA NextDocument ==
  ASSUME WorkersOK, NEW w \in Workers, worker[w].todo # {}
  PROVE  /\ Min(worker[w].todo) \in worker[w].todo
         /\ Min(worker[w].todo) \in worker[w].batch /\ Min(worker[w].todo) \in Docs
         /\ worker[w].batch \subseteq Docs
  <1>1. WorkerOK(worker[w])
    BY DEF WorkersOK
  <1>2. worker[w].todo \subseteq worker[w].batch /\ worker[w].batch \subseteq Docs
    BY <1>1 DEF WorkerOK, WorkerState
  <1>3. worker[w].todo \subseteq Nat
    BY <1>2, Constants
  <1>4. Min(worker[w].todo) \in worker[w].todo
    BY <1>3, MinIsLeast
  <1>5. QED
    BY <1>2, <1>4

\* Of a worker's step the other workers, the documents and the start requests
\* see nothing; counters, visits and messages are only added, and the worker
\* goes on with its own message or one from the queue.
WorkerEffect(w) ==
    /\ UNCHANGED <<eligible, start, dashboard, stayed>>
    /\ \A v \in Workers \ {w} : worker'[v] = worker[v]
    /\ progress'.run = progress.run
    /\ progress.done + progress.failed <= progress'.done + progress'.failed
    /\ \A r \in Runs : visited[r] \subseteq visited'[r]
    /\ worker'[w].pc # "idle" =>
         \/ worker[w].pc # "idle" /\ worker'[w].msg = worker[w].msg
         \/ worker[w].pc = "idle" /\ worker'[w].pc = "check" /\ queue[worker'[w].msg] > 0
    /\ \A m \in Message : queue'[m] > 0 =>
         queue[m] > 0 \/ (worker[w].pc # "idle" /\ m.run = Msg(w).run)

\* Steps of a worker that leave queue, progress and visits alone.
LEMMA TypeMove ==
  ASSUME TypeOK, NEW w \in Workers,
         \/ CheckLock(w) \/ LoadBatch(w) \/ DocumentGone(w) \/ EndBatch(w) \/ CompareLock(w)
         \/ DropLock(w) \/ Report(w) \/ GiveUp(w) \/ Acknowledge(w) \/ BatchFails(w)
         \/ BatchKilled(w) \/ SendFails(w)
  PROVE  TypeOK' /\ WorkerEffect(w)
  <1>0. RestOK /\ WorkersOK /\ WorkerOK(worker[w])
    BY TypeParts DEF WorkersOK
  <1>a. Abandon(w) /\ worker[w].pc # "idle" => abandoned' \subseteq Runs
    BY <1>0 DEF Abandon, Msg, Message, WorkerOK, RestOK
  <1>b. lock' \in Runs \cup {NoRun} /\ struck' \subseteq Faults /\ abandoned' \subseteq Runs
    BY <1>0, <1>a
    DEF RestOK, CheckLock, LoadBatch, DocumentGone, EndBatch, CompareLock, DropLock, Report,
        GiveUp, Acknowledge, BatchFails, BatchKilled, SendFails, UnchangedByBatch, docVars,
        history, Strike, At
  <1>1. RestOK'
    BY <1>0, <1>b
    DEF RestOK, CheckLock, LoadBatch, DocumentGone, EndBatch, CompareLock, DropLock, Report,
        GiveUp, Acknowledge, BatchFails, BatchKilled, SendFails, UnchangedByBatch, docVars,
        history
  <1>2. /\ UNCHANGED <<eligible, start, dashboard, stayed, progress, visited, queue>>
        /\ progress.done \in Nat /\ progress.failed \in Nat
    BY <1>0
    DEF RestOK, Progress, CheckLock, LoadBatch, DocumentGone, EndBatch, CompareLock, DropLock,
        Report, GiveUp, Acknowledge, BatchFails, BatchKilled, SendFails, UnchangedByBatch,
        docVars, history
  <1>3. /\ WorkersOK' /\ \A v \in Workers \ {w} : worker'[v] = worker[v]
        /\ worker'[w].pc # "idle" => worker[w].pc # "idle" /\ worker'[w].msg = worker[w].msg
    <2>1. CASE /\ worker[w].pc # "idle"
               /\ \E step \in WorkerSteps \ {"count", "send"} : Goto(w, step)
      BY <1>0, <2>1, GotoType
    <2>2. CASE EndBatch(w)
      <3>1. CASE Cardinality(worker[w].batch) = BatchSize
        <4>1. worker[w].batch # {}
          BY <3>1, FS_EmptySet, Constants
        <4>2. QED
          BY <1>0, <2>2, <3>1, <4>1, GotoType DEF EndBatch, At, WorkerSteps
      <3>2. CASE Cardinality(worker[w].batch) # BatchSize
        BY <1>0, <2>2, <3>2, GotoType DEF EndBatch, At, WorkerSteps
      <3>3. QED
        BY <3>1, <3>2
    <2>3. CASE Acknowledge(w) \/ BatchKilled(w)
      <3>1. WorkerOK(Idle) /\ Idle.pc = "idle" /\ worker' = [worker EXCEPT ![w] = Idle]
        BY <2>3 DEF Acknowledge, BatchKilled, Idle, WorkerOK, WorkerState, WorkerSteps
      <3>2. QED
        BY <1>0, <3>1, ReplaceType
    <2>4. CASE LoadBatch(w)
      <3>1. PICK batch : /\ batch = NextBatch(Msg(w).after)
                         /\ worker' = [worker EXCEPT ![w].pc = "refresh",
                                         ![w].batch = batch, ![w].todo = batch]
        BY <2>4 DEF LoadBatch
      <3>2. batch \in SUBSET Docs /\ worker[w].pc = "load"
        BY <1>0, <2>4, <3>1 DEF LoadBatch, At, NextBatch, RestOK
      <3> DEFINE new == [worker[w] EXCEPT !.pc = "refresh", !.batch = batch, !.todo = batch]
      <3>3. WorkerOK(new) /\ new.msg = worker[w].msg
        BY <1>0, <3>2 DEF WorkerOK, WorkerState, WorkerSteps
      <3>4. worker' = [worker EXCEPT ![w] = new]
        BY <1>0, <3>1 DEF WorkersOK
      <3> HIDE DEF new
      <3>5. QED
        BY <1>0, <3>2, <3>3, <3>4, ReplaceType
    <2>5. QED
      BY <2>1, <2>2, <2>3, <2>4
      DEF CheckLock, DocumentGone, CompareLock, DropLock, Report, GiveUp, BatchFails, SendFails,
          At, WorkerSteps
  <1>4. QED
    BY <1>1, <1>2, <1>3, TypePartsNext DEF WorkerEffect

\* Steps of a worker that take or send a message.
LEMMA TypeQueue ==
  ASSUME TypeOK, NEW w \in Workers,
         (\E m \in Message : Deliver(w, m)) \/ SendNext(w) \/ SendRetry(w) \/ WorkerDies(w)
  PROVE  TypeOK' /\ WorkerEffect(w)
  <1>0. RestOK /\ WorkersOK /\ WorkerOK(worker[w])
    BY TypeParts DEF WorkersOK
  <1>2. /\ UNCHANGED <<eligible, gone, start, dashboard, stayed, progress, visited, lock,
                       insights, abandoned>>
        /\ progress.done \in Nat /\ progress.failed \in Nat /\ struck' \subseteq Faults
    BY <1>0
    DEF RestOK, Progress, Deliver, SendNext, SendRetry, WorkerDies, UnchangedByBatch, docVars,
        history, Strike
  <1>3. CASE \E m \in Message : Deliver(w, m)
    <2>1. PICK m \in Message : Deliver(w, m)
      BY <1>3
    <2>a. /\ queue[m] \in Nat /\ queue[m] > 0
          /\ queue' = [queue EXCEPT ![m] = queue[m] - 1] /\ queue \in [Message -> Nat]
      BY <1>0, <2>1 DEF Deliver, RestOK
    <2>b. queue[m] - 1 \in Nat
      BY <2>a
    <2>2. queue' \in [Message -> Nat] /\ \A n \in Message : queue'[n] > 0 => queue[n] > 0
      BY <2>a, <2>b
    <2> DEFINE new == [Idle EXCEPT !.pc = "check", !.msg = m]
    <2>3. WorkerOK(new) /\ new.pc = "check" /\ new.msg = m
      BY DEF Idle, WorkerOK, WorkerState, WorkerSteps
    <2>4. /\ worker' = [worker EXCEPT ![w] = new]
          /\ worker[w].pc = "idle" /\ queue[m] > 0
      BY <2>1 DEF Deliver, At
    <2> HIDE DEF new
    <2>5. /\ WorkersOK' /\ worker'[w] = new
          /\ \A v \in Workers \ {w} : worker'[v] = worker[v]
      BY <1>0, <2>3, <2>4, ReplaceType
    <2>6. RestOK'
      BY <1>0, <1>2, <2>2 DEF RestOK
    <2>7. QED
      BY <1>2, <2>2, <2>3, <2>4, <2>5, <2>6, TypePartsNext DEF WorkerEffect
  <1>4. ASSUME NEW m \in Message, Send(m), worker[w].pc # "idle", m.run = Msg(w).run
        PROVE  RestOK' /\ \A n \in Message : queue'[n] > 0 => queue[n] > 0 \/ n.run = Msg(w).run
    <2>1. /\ queue' \in [Message -> Nat]
          /\ queue'[m] = queue[m] + 1 /\ \A n \in Message \ {m} : queue'[n] = queue[n]
      BY <1>0, <1>4, SendType
    <2>2. QED
      BY <1>0, <1>2, <1>4, <2>1 DEF RestOK
  <1>5. CASE SendNext(w)
    <2>1. worker[w].pc = "send" /\ worker[w].msg \in Message /\ worker[w].batch # {}
      BY <1>0, <1>5 DEF SendNext, At, WorkerOK
    <2>2. Max(worker[w].batch) \in 0 .. NumDocs
      <3>1. worker[w].batch \subseteq 0 .. NumDocs
        BY <1>0, Constants DEF WorkerOK, WorkerState
      <3>2. QED
        BY <2>1, <3>1, Constants, MaxIsGreatest
    <2>3. PICK m \in Message : /\ m = [run |-> Msg(w).run, after |-> Max(worker[w].batch), retries |-> 0]
                               /\ Send(m) /\ Goto(w, "ack")
      BY <1>5, <2>1, <2>2, Constants DEF SendNext, Message, Msg
    <2>4. m.run = Msg(w).run
      BY <2>3
    <2>5. /\ WorkersOK' /\ worker'[w].msg = worker[w].msg
          /\ \A v \in Workers \ {w} : worker'[v] = worker[v]
      BY <1>0, <2>1, <2>3, GotoType DEF WorkerSteps
    <2>6. QED
      BY <1>2, <1>4, <2>1, <2>3, <2>4, <2>5, TypePartsNext DEF WorkerEffect
  <1>6. CASE SendRetry(w)
    <2>1. worker[w].pc = "retry" /\ worker[w].msg \in Message /\ worker[w].msg.retries < MaxRetries
      BY <1>0, <1>6 DEF SendRetry, At, WorkerOK, Msg
    <2>3. PICK m \in Message : /\ m = [Msg(w) EXCEPT !.retries = @ + 1]
                               /\ Send(m) /\ Goto(w, "resent")
      BY <1>6, <2>1, Constants DEF SendRetry, Message, Msg
    <2>4. m.run = Msg(w).run
      BY <2>1, <2>3 DEF Message, Msg
    <2>5. /\ WorkersOK' /\ worker'[w].msg = worker[w].msg
          /\ \A v \in Workers \ {w} : worker'[v] = worker[v]
      BY <1>0, <2>1, <2>3, GotoType DEF WorkerSteps
    <2>6. RestOK' /\ \A n \in Message : queue'[n] > 0 => queue[n] > 0 \/ n.run = Msg(w).run
      BY <1>4, <2>1, <2>3, <2>4
    <2>7. QED
      BY <1>2, <2>1, <2>5, <2>6, TypePartsNext DEF WorkerEffect
  <1>7. CASE WorkerDies(w)
    <2>1. worker[w].pc # "idle" /\ worker[w].msg \in Message
      BY <1>0, <1>7 DEF WorkerDies, At, WorkerOK
    <2>2. Send(Msg(w)) /\ worker' = [worker EXCEPT ![w] = Idle]
      BY <1>7 DEF WorkerDies
    <2>3. WorkerOK(Idle) /\ Idle.pc = "idle"
      BY DEF Idle, WorkerOK, WorkerState, WorkerSteps
    <2>4. /\ WorkersOK' /\ worker'[w] = Idle
          /\ \A v \in Workers \ {w} : worker'[v] = worker[v]
      BY <1>0, <2>2, <2>3, ReplaceType
    <2>5. QED
      BY <1>2, <1>4, <2>1, <2>2, <2>3, <2>4, TypePartsNext DEF WorkerEffect, Msg
  <1>8. QED
    BY <1>3, <1>5, <1>6, <1>7

\* Steps of a worker that visit or count a document, or end the progress.
LEMMA TypeVisit ==
  ASSUME TypeOK, NEW w \in Workers,
         RefreshDocument(w) \/ CountDocument(w) \/ KeepInsights(w) \/ FinishProgress(w)
  PROVE  TypeOK' /\ WorkerEffect(w)
  <1>0. RestOK /\ WorkersOK /\ WorkerOK(worker[w])
    BY TypeParts DEF WorkersOK
  <1>1. /\ worker[w].pc # "idle" /\ worker[w].msg \in Message /\ Msg(w).run \in Runs
        /\ progress \in Progress
    BY <1>0 DEF RestOK, RefreshDocument, CountDocument, KeepInsights, FinishProgress, At,
       WorkerOK, Message, Msg
  <1>2. UNCHANGED <<eligible, gone, start, dashboard, stayed, lock, queue, abandoned, struck>>
    BY DEF RefreshDocument, CountDocument, KeepInsights, FinishProgress, UnchangedByBatch
  <1>3. ASSUME NEW d \in Docs, Visit(w, d)
        PROVE  visited' \in [Runs -> SUBSET Docs] /\ \A r \in Runs : visited[r] \subseteq visited'[r]
    BY <1>0, <1>1, <1>3 DEF Visit, RestOK
  <1>4. ASSUME worker[w].todo # {},
               worker' = [worker EXCEPT ![w].pc = "refresh", ![w].todo = @ \ {Min(@)}]
        PROVE  /\ WorkersOK' /\ worker'[w].msg = worker[w].msg
               /\ \A v \in Workers \ {w} : worker'[v] = worker[v]
    <2> DEFINE new == [worker[w] EXCEPT !.pc = "refresh", !.todo = @ \ {Min(@)}]
    <2>1. WorkerOK(new) /\ new.msg = worker[w].msg
      <3>1. /\ new.pc = "refresh" /\ new.msg = worker[w].msg /\ new.batch = worker[w].batch
            /\ new.todo = worker[w].todo \ {Min(worker[w].todo)} /\ new \in WorkerState
        BY <1>0 DEF WorkerOK, WorkerState, WorkerSteps
      <3> HIDE DEF new
      <3>2. QED
        BY <1>0, <1>1, <3>1 DEF WorkerOK
    <2>2. worker' = [worker EXCEPT ![w] = new]
      BY <1>0, <1>4 DEF WorkersOK
    <2> HIDE DEF new
    <2>3. QED
      BY <1>0, <2>1, <2>2, ReplaceType
  <1>5. CASE RefreshDocument(w)
    <2>1. worker[w].todo # {} /\ Min(worker[w].todo) \in Docs
      BY <1>0, <1>5, NextDocument DEF RefreshDocument
    <2>2. /\ WorkersOK' /\ worker'[w].msg = worker[w].msg
          /\ \A v \in Workers \ {w} : worker'[v] = worker[v]
      BY <1>0, <1>1, <1>5, <2>1, GotoType DEF RefreshDocument, WorkerSteps
    <2>3. insights' \in [Docs -> {"null", "empty", "found"}] /\ progress' = progress
      BY <1>0, <1>5 DEF RefreshDocument, RestOK
    <2>4. Visit(w, Min(worker[w].todo))
      BY <1>5 DEF RefreshDocument
    <2>5. QED
      BY <1>0, <1>1, <1>2, <1>3, <2>1, <2>2, <2>3, <2>4, TypePartsNext
      DEF WorkerEffect, RestOK, Progress
  <1>6. CASE CountDocument(w)
    <2>1. worker[w].todo # {}
      BY <1>0, <1>6 DEF CountDocument, At, WorkerOK
    <2>2. /\ WorkersOK' /\ worker'[w].msg = worker[w].msg
          /\ \A v \in Workers \ {w} : worker'[v] = worker[v]
      BY <1>4, <1>6, <2>1 DEF CountDocument
    <2>3. /\ progress' \in Progress /\ progress'.run = progress.run
          /\ progress.done + progress.failed <= progress'.done + progress'.failed
      BY <1>1, <1>6 DEF CountDocument, Progress
    <2>4. insights' = insights /\ visited' = visited
      BY <1>6 DEF CountDocument
    <2>5. QED
      BY <1>0, <1>1, <1>2, <2>2, <2>3, <2>4, TypePartsNext DEF WorkerEffect, RestOK
  <1>7. CASE KeepInsights(w)
    <2>1. worker[w].todo # {} /\ Min(worker[w].todo) \in Docs /\ worker[w].pc = "refresh"
      BY <1>0, <1>7, NextDocument DEF KeepInsights, At
    <2>2. worker' = [worker EXCEPT ![w].pc = "refresh", ![w].todo = @ \ {Min(@)}]
      BY <1>0, <1>7, <2>1 DEF KeepInsights, WorkersOK, WorkerState
    <2>3. /\ WorkersOK' /\ worker'[w].msg = worker[w].msg
          /\ \A v \in Workers \ {w} : worker'[v] = worker[v]
      BY <1>4, <2>1, <2>2
    <2>4. /\ progress' \in Progress /\ progress'.run = progress.run
          /\ progress.done + progress.failed <= progress'.done + progress'.failed
      BY <1>1, <1>7 DEF KeepInsights, Progress
    <2>5. insights' = insights /\ Visit(w, Min(worker[w].todo))
      BY <1>7 DEF KeepInsights
    <2>6. QED
      BY <1>0, <1>1, <1>2, <1>3, <2>1, <2>3, <2>4, <2>5, TypePartsNext DEF WorkerEffect, RestOK
  <1>8. CASE FinishProgress(w)
    <2>1. /\ WorkersOK' /\ worker'[w].msg = worker[w].msg
          /\ \A v \in Workers \ {w} : worker'[v] = worker[v]
      BY <1>0, <1>1, <1>8, GotoType DEF FinishProgress, WorkerSteps
    <2>2. /\ progress' \in Progress /\ progress'.run = progress.run
          /\ progress.done + progress.failed <= progress'.done + progress'.failed
      BY <1>1, <1>8 DEF FinishProgress, Progress
    <2>3. insights' = insights /\ visited' = visited
      BY <1>8 DEF FinishProgress
    <2>4. QED
      BY <1>0, <1>1, <1>2, <2>1, <2>2, <2>3, TypePartsNext DEF WorkerEffect, RestOK
  <1>9. QED
    BY <1>5, <1>6, <1>7, <1>8

LEMMA TypeWorker ==
  ASSUME TypeOK, NEW w \in Workers, BatchStep(w) \/ BatchFault(w)
  PROVE  TypeOK' /\ WorkerEffect(w)
  BY TypeMove, TypeQueue, TypeVisit DEF BatchStep, BatchFault

\* The steps of a start request keep the types.
LEMMA TypeStart ==
  ASSUME TypeOK, NEW r \in Runs, TakeLock(r) \/ StartStep(r) \/ StartFails(r)
  PROVE  TypeOK'
  <1>0. RestOK /\ WorkersOK
    BY TypeParts
  <1>1. worker' = worker
    BY DEF TakeLock, StartStep, StartFails, CountDocuments, ClearProgress, BeginProgress,
       DispatchFirst, UnchangedByStart
  <1>2. CASE TakeLock(r) \/ CountDocuments(r) \/ StartFails(r)
    BY <1>0, <1>2, TypePartsNext DEF TakeLock, CountDocuments, StartFails, StartGoto, UnchangedByStart, RestOK,
       StartSteps, docVars, history, Strike, WorkersOK
  <1>3. CASE ClearProgress(r) \/ BeginProgress(r)
    <2>1. progress' \in Progress
      BY <1>3 DEF ClearProgress, BeginProgress, Progress, NoProgress
    <2>2. QED
      BY <1>0, <1>3, <2>1, TypePartsNext DEF ClearProgress, BeginProgress, StartGoto, UnchangedByStart, RestOK,
         StartSteps, docVars, WorkersOK
  <1>4. CASE DispatchFirst(r)
    <2>1. [run |-> r, after |-> 0, retries |-> 0] \in Message
      BY Constants DEF Message
    <2>2. queue' \in [Message -> Nat]
      BY <1>0, <1>4, <2>1, SendType DEF DispatchFirst
    <2>3. QED
      BY <1>0, <1>4, <2>2, TypePartsNext DEF DispatchFirst, StartGoto, UnchangedByStart, RestOK,
         StartSteps, docVars, WorkersOK
  <1>5. QED
    BY <1>2, <1>3, <1>4 DEF StartStep

OtherStep ==
    \/ LockExpires \/ ProgressExpires
    \/ \E d \in Docs : IngestBegins(d) \/ DocumentIngested(d) \/ DocumentDeleted(d)
    \/ \E g \in Dashboards : LoadMissing(g) \/ FillMissing(g)

\* So do the steps of the rest.
LEMMA TypeOther ==
  ASSUME TypeOK, OtherStep
  PROVE  TypeOK'
  <1>0. RestOK /\ WorkersOK
    BY TypeParts
  <1>1. WorkersOK' /\ UNCHANGED <<start, queue, worker, visited, abandoned>>
    BY <1>0 DEF OtherStep, LockExpires, ProgressExpires, IngestBegins, DocumentIngested,
       DocumentDeleted, LoadMissing, FillMissing, UnchangedByOthers, WorkersOK, WorkerOK
  <1>2. CASE LockExpires \/ ProgressExpires
    BY <1>0, <1>1, <1>2, TypePartsNext DEF LockExpires, ProgressExpires, RestOK, Progress, NoProgress,
       docVars, Strike
  <1>3. CASE \E d \in Docs : IngestBegins(d) \/ DocumentIngested(d) \/ DocumentDeleted(d)
    BY <1>0, <1>1, <1>3, TypePartsNext
    DEF IngestBegins, DocumentIngested, DocumentDeleted, Leave, RestOK
  <1>4. CASE \E g \in Dashboards : LoadMissing(g) \/ FillMissing(g)
    <2>1. PICK g \in Dashboards : LoadMissing(g) \/ FillMissing(g)
      BY <1>4
    <2>2. CASE LoadMissing(g)
      <3>1. PICK docs \in SUBSET {d \in eligible : insights[d] = "null"} :
              dashboard' = [dashboard EXCEPT ![g] = [pc |-> "fill", docs |-> docs]]
        BY <2>2 DEF LoadMissing
      <3>2. docs \subseteq Docs
        BY <1>0, <3>1 DEF RestOK
      <3>3. dashboard' \in [Dashboards -> [pc : {"idle", "fill", "end"}, docs : SUBSET Docs]]
        BY <1>0, <3>1, <3>2 DEF RestOK
      <3>4. QED
        BY <1>0, <1>1, <2>2, <3>3, TypePartsNext DEF LoadMissing, RestOK, docVars
    <2>3. CASE FillMissing(g)
      <3>1. insights' \in [Docs -> {"null", "empty", "found"}]
        BY <1>0, <2>3 DEF FillMissing, RestOK
      <3>2. dashboard' \in [Dashboards -> [pc : {"idle", "fill", "end"}, docs : SUBSET Docs]]
        BY <1>0, <2>3 DEF FillMissing, RestOK
      <3>3. QED
        BY <1>0, <1>1, <2>3, <3>1, <3>2, TypePartsNext DEF FillMissing, RestOK
    <2>4. QED
      BY <2>1, <2>2, <2>3
  <1>5. QED
    BY <1>2, <1>3, <1>4 DEF OtherStep

\* What they do to the runs: a document that leaves is no longer one that stayed.
LEMMA OtherEffect ==
  ASSUME TypeOK, OtherStep
  PROVE  /\ UNCHANGED <<start, queue, worker, visited>>
         /\ progress' = progress \/ progress' = NoProgress
         /\ \A r \in Runs : /\ stayed'[r] \subseteq stayed[r]
                            /\ stayed[r] \subseteq eligible => stayed'[r] \subseteq eligible'
  <1>1. CASE \E d \in Docs : IngestBegins(d) \/ DocumentDeleted(d)
    BY <1>1 DEF IngestBegins, DocumentDeleted, Leave, UnchangedByOthers, TypeOK
  <1>2. CASE \E d \in Docs : DocumentIngested(d)
    BY <1>2 DEF DocumentIngested, UnchangedByOthers
  <1>3. CASE LockExpires \/ ProgressExpires \/ \E g \in Dashboards : LoadMissing(g) \/ FillMissing(g)
    BY <1>3 DEF LockExpires, ProgressExpires, LoadMissing, FillMissing, UnchangedByOthers, docVars
  <1>4. QED
    BY <1>1, <1>2, <1>3 DEF OtherStep

\* Every step keeps the types.
LEMMA TypeStep == TypeOK /\ [Next]_vars => TypeOK'
  <1> SUFFICES ASSUME TypeOK, [Next]_vars PROVE TypeOK'
    OBVIOUS
  <1>1. CASE UNCHANGED vars
    BY <1>1 DEF vars, docVars, TypeOK
  <1>2. QED
    BY <1>1, TypeStart, TypeWorker, TypeOther DEF Next, OtherStep

\* Every reachable state is well typed.
THEOREM TypeCorrect == Spec => []TypeOK
  BY TypeInit, TypeStep, PTL DEF Spec

-----------------------------------------------------------------------------
(* The invariants *)

\* The documents due in S were seen, and counted if the progress is that of r.
Covered(r, due, S, seen, run, total) ==
    /\ due \cap S \subseteq seen
    /\ run = r => Cardinality(due \cap S) <= total

\* Those that stayed since run r counted them were visited and, as long as the
\* progress is its own, counted.
Accounted(r, S) ==
    Covered(r, stayed[r], S, visited[r], progress.run, progress.done + progress.failed)

\* The documents after the cursor are in the batch, or follow a full one.
Follows(r, after, batch) ==
    \A d \in stayed[r] :
        d > after /\ d \notin batch =>
            Cardinality(batch) = BatchSize /\ \A e \in batch : e < d

\* A run that has not queued its first batch has no message, and before it began
\* its progress, no progress; the documents that stayed are there.
RunInv(r) ==
    /\ start[r] # "end" =>
         /\ \A m \in Message : m.run = r => queue[m] = 0
         /\ \A w \in Workers : worker[w].pc # "idle" => Msg(w).run # r
    /\ start[r] \in {"new", "count", "clear", "begin"} => progress.run # r
    /\ stayed[r] \subseteq eligible

\* A message continues behind documents that are accounted for, ...
QueueInv(m) == queue[m] > 0 => Accounted(m.run, 1 .. m.after)

\* ... and so does its batch, which extends them one document at a time.
BatchInv(w) ==
    worker[w].pc # "idle" =>
        /\ Accounted(Msg(w).run, 1 .. Msg(w).after)
        /\ worker[w].pc \in {"refresh", "count", "send"} =>
             /\ Accounted(Msg(w).run, (1 .. Msg(w).after) \cup (worker[w].batch \ worker[w].todo))
             /\ Follows(Msg(w).run, Msg(w).after, worker[w].batch)
        /\ worker[w].pc = "count" => Min(worker[w].todo) \in visited[Msg(w).run]
        /\ worker[w].pc = "send" => worker[w].todo = {}
        /\ worker[w].pc \in {"finish", "compare", "unlock"} => Accounted(Msg(w).run, Docs)

VisitInv ==
    /\ TypeOK
    /\ \A r \in Runs : RunInv(r)
    /\ \A m \in Message : QueueInv(m)
    /\ \A w \in Workers : BatchInv(w)

\* A worker whose batch is not over and queued nothing.
Live(w) == worker[w].pc \notin {"idle", "ack", "resent"}

\* Unless a worker dies a run is in one message or in one worker's hands.
OneTicket ==
    Undisturbed({"crash"}) =>
        /\ \A m \in Message : queue[m] <= 1
        /\ \A m, n \in Message : queue[m] > 0 /\ queue[n] > 0 /\ m.run = n.run => m = n
        /\ \A w \in Workers : Live(w) =>
             /\ \A m \in Message : m.run = Msg(w).run => queue[m] = 0
             /\ \A v \in Workers : Live(v) /\ Msg(v).run = Msg(w).run => v = w

\* Unless it expires the lock is held from the start of a run to its end.
LockHeld ==
    Undisturbed({"expiry", "crash"}) =>
        /\ \A r \in Runs : start[r] \in {"count", "clear", "begin", "dispatch"} => lock = r
        /\ \A w \in Workers : Refreshing(w) => lock = Msg(w).run

\* Unless it expires the progress is that of the run that has the lock and
\* something to do.
ProgressHeld ==
    Undisturbed({"expiry", "crash", "forgotten"}) =>
        /\ \A r \in Runs : start[r] = "dispatch" => progress.run = r
        /\ \A m \in Message : queue[m] > 0 /\ lock = m.run => progress.run = m.run
        /\ \A w \in Workers : Live(w) /\ lock = Msg(w).run => progress.run = Msg(w).run
        /\ Readable

RefreshInv == VisitInv /\ OneTicket /\ LockHeld /\ ProgressHeld /\ DoneCountsEveryDocument

-----------------------------------------------------------------------------
(* Every step keeps what was accounted for *)

LEMMA CoveredGrows ==
  ASSUME NEW r, NEW S, NEW due, NEW seen, NEW run, NEW total \in Nat,
         NEW due2, NEW seen2, NEW run2, NEW total2 \in Nat,
         due \subseteq Docs, due2 \subseteq due, seen \subseteq seen2,
         run2 = r => run = r /\ total <= total2,
         Covered(r, due, S, seen, run, total)
  PROVE  Covered(r, due2, S, seen2, run2, total2)
  <1>1. due2 \cap S \subseteq due \cap S /\ due \cap S \subseteq Docs /\ due2 \cap S \subseteq Docs
    OBVIOUS
  <1>2. /\ Cardinality(due2 \cap S) <= Cardinality(due \cap S)
        /\ Cardinality(due2 \cap S) \in Nat /\ Cardinality(due \cap S) \in Nat
    BY <1>1, CardinalityGrows, DocsFinite
  <1>3. QED
    BY <1>1, <1>2 DEF Covered

LEMMA CoveredLess ==
  ASSUME NEW r, NEW S, NEW T, NEW due, NEW seen, NEW run, NEW total \in Nat,
         due \subseteq Docs, due \cap T \subseteq S,
         Covered(r, due, S, seen, run, total)
  PROVE  Covered(r, due, T, seen, run, total)
  <1>1. due \cap T \subseteq due \cap S /\ due \cap S \subseteq Docs /\ due \cap T \subseteq Docs
    OBVIOUS
  <1>2. /\ Cardinality(due \cap T) <= Cardinality(due \cap S)
        /\ Cardinality(due \cap T) \in Nat /\ Cardinality(due \cap S) \in Nat
    BY <1>1, CardinalityGrows, DocsFinite
  <1>3. QED
    BY <1>1, <1>2 DEF Covered

LEMMA CoveredMore ==
  ASSUME NEW r, NEW S, NEW T, NEW d \in Docs, NEW due, NEW seen, NEW run, NEW total \in Nat,
         due \subseteq Docs, T \subseteq S \cup {d}, d \in seen,
         Covered(r, due, S, seen, run, total)
  PROVE  Covered(r, due, T, seen, run, total + 1)
  <1>1. due \cap T \subseteq (due \cap S) \cup {d} /\ due \cap S \subseteq Docs
        /\ due \cap T \subseteq Docs
    OBVIOUS
  <1>2. /\ Cardinality(due \cap T) <= Cardinality(due \cap S) + 1
        /\ Cardinality(due \cap T) \in Nat /\ Cardinality(due \cap S) \in Nat
    BY <1>1, CardinalityOfOneMore, DocsFinite
  <1>3. QED
    BY <1>1, <1>2 DEF Covered

\* What a step keeps of a run that is not just being counted or begun.
Kept(r) ==
    /\ stayed'[r] \subseteq stayed[r]
    /\ visited[r] \subseteq visited'[r]
    /\ \A S : Accounted(r, S) =>
         Covered(r, stayed'[r], S, visited'[r], progress'.run,
                 progress'.done + progress'.failed)

LEMMA KeptIf ==
  ASSUME TypeOK, TypeOK', NEW r \in Runs,
         stayed'[r] \subseteq stayed[r],
         visited[r] \subseteq visited'[r],
         progress'.run = r =>
           /\ progress.run = r
           /\ progress.done + progress.failed <= progress'.done + progress'.failed
  PROVE  Kept(r)
  <1>1. /\ progress.done + progress.failed \in Nat /\ progress'.done + progress'.failed \in Nat
        /\ stayed[r] \subseteq Docs
    BY DEF TypeOK, Progress
  <1>2. ASSUME NEW S, Accounted(r, S)
        PROVE  Covered(r, stayed'[r], S, visited'[r], progress'.run,
                       progress'.done + progress'.failed)
    BY <1>1, <1>2, CoveredGrows DEF Accounted
  <1>3. QED
    BY <1>2 DEF Kept

LEMMA MessageKept ==
  ASSUME NEW m \in Message, QueueInv(m), Kept(m.run), queue'[m] > 0 => queue[m] > 0
  PROVE  QueueInv(m)'
  BY DEF QueueInv, Accounted, Kept


LEMMA BatchKept ==
  ASSUME NEW w \in Workers, BatchInv(w), worker'[w] = worker[w],
         worker[w].pc # "idle" => Kept(Msg(w).run)
  PROVE  BatchInv(w)'
  <1>1. CASE worker[w].pc = "idle"
    BY <1>1 DEF BatchInv
  <1>2. CASE worker[w].pc # "idle"
    BY <1>2 DEF BatchInv, Accounted, Kept, Follows, Msg
  <1>3. QED
    BY <1>1, <1>2

\* A worker that goes on with its message to a step that says nothing of its
\* batch.
LEMMA BatchLeft ==
  ASSUME NEW w \in Workers, BatchInv(w), worker[w].pc # "idle", Kept(Msg(w).run),
         worker'[w].msg = worker[w].msg,
         worker'[w].pc \in {"check", "load", "retry", "resent", "ack", "report"}
  PROVE  BatchInv(w)'
  BY DEF BatchInv, Accounted, Kept, Msg

\* A worker's step keeps every run and the batches of the other workers.
LEMMA WorkerKeepsRuns ==
  ASSUME VisitInv, NEW w \in Workers, BatchStep(w) \/ BatchFault(w)
  PROVE  /\ \A r \in Runs : Kept(r) /\ RunInv(r)'
         /\ \A v \in Workers \ {w} : BatchInv(v)'
  <1>0. TypeOK /\ TypeOK' /\ WorkerEffect(w)
    BY TypeWorker DEF VisitInv
  <1>1. ASSUME NEW r \in Runs PROVE Kept(r)
    BY <1>0, KeptIf DEF WorkerEffect
  <1>2. ASSUME NEW r \in Runs PROVE RunInv(r)'
    <2>1. RunInv(r) /\ start'[r] = start[r] /\ progress'.run = progress.run
      BY <1>0 DEF VisitInv, WorkerEffect
    <2>2. worker[w].pc # "idle" => worker[w].msg \in Message
      BY <1>0 DEF TypeOK
    <2>3. worker'[w].pc # "idle" => worker'[w].msg \in Message
      BY <1>0 DEF TypeOK
    <2>4. start[r] # "end" =>
            /\ \A m \in Message : m.run = r => ~(queue'[m] > 0)
            /\ \A v \in Workers : worker'[v].pc # "idle" => worker'[v].msg.run # r
      <3> SUFFICES ASSUME start[r] # "end"
          PROVE  /\ \A m \in Message : m.run = r => ~(queue'[m] > 0)
                 /\ \A v \in Workers : worker'[v].pc # "idle" => worker'[v].msg.run # r
        OBVIOUS
      <3>1. /\ \A m \in Message : m.run = r => ~(queue[m] > 0)
            /\ \A v \in Workers : worker[v].pc # "idle" => worker[v].msg.run # r
        BY <2>1 DEF RunInv, Msg
      <3>2. \A m \in Message : m.run = r => ~(queue'[m] > 0)
        BY <1>0, <3>1 DEF WorkerEffect, Msg
      <3>3. worker'[w].pc # "idle" => worker'[w].msg.run # r
        BY <1>0, <2>3, <3>1 DEF WorkerEffect
      <3>4. QED
        BY <1>0, <3>1, <3>2, <3>3 DEF WorkerEffect
    <2>5. \A m \in Message : queue'[m] \in Nat
      BY <1>0 DEF TypeOK
    <2>6. \A m \in Message : ~(queue'[m] > 0) => queue'[m] = 0
      BY <2>5
    <2>7. QED
      BY <1>0, <2>1, <2>4, <2>6 DEF RunInv, WorkerEffect, Msg
  <1>3. ASSUME NEW v \in Workers \ {w} PROVE BatchInv(v)'
    <2>1. BatchInv(v) /\ worker'[v] = worker[v]
      BY <1>0 DEF VisitInv, WorkerEffect
    <2>2. worker[v].pc # "idle" => Kept(Msg(v).run)
      BY <1>0, <1>1 DEF TypeOK, Message, Msg
    <2>3. QED
      BY <2>1, <2>2, BatchKept
  <1>4. QED
    BY <1>1, <1>2, <1>3

\* Only what is behind the cursor of a queued message is claimed of it, and of
\* the batch that takes it.
LEMMA QueueKeeps ==
  ASSUME VisitInv, NEW w \in Workers, BatchStep(w) \/ BatchFault(w)
  PROVE  \A m \in Message : QueueInv(m)'
  <1>0. TypeOK /\ TypeOK' /\ WorkerEffect(w) /\ \A r \in Runs : Kept(r)
    BY TypeWorker, WorkerKeepsRuns DEF VisitInv
  <1>1. ASSUME NEW m \in Message, queue'[m] > 0 => queue[m] > 0
        PROVE  QueueInv(m)'
    BY <1>0, <1>1, MessageKept DEF VisitInv, Message
  <1>2. ASSUME NEW m \in Message, Send(m), NEW S, Accounted(m.run, S),
               stayed[m.run] \cap (1 .. m.after) \subseteq S
        PROVE  \A n \in Message : QueueInv(n)'
    <2>1. \A n \in Message \ {m} : queue'[n] = queue[n]
      BY <1>0, <1>2 DEF Send, TypeOK
    <2>2. Accounted(m.run, 1 .. m.after)
      <3>1. stayed[m.run] \subseteq Docs /\ progress.done + progress.failed \in Nat
        BY <1>0 DEF TypeOK, Message, Progress
      <3>2. QED
        BY <1>2, <3>1, CoveredLess DEF Accounted
    <2>3. QueueInv(m)'
      BY <1>0, <2>2 DEF QueueInv, Accounted, Kept, Message
    <2>4. QED
      BY <1>1, <2>1, <2>3
  <1>3. CASE SendNext(w)
    <2>1. /\ worker[w].pc = "send" /\ worker[w].msg \in Message
          /\ worker[w].batch # {} /\ worker[w].batch \subseteq Docs
      BY <1>0, <1>3 DEF SendNext, At, TypeOK, WorkerState
    <2>2. /\ Max(worker[w].batch) \in worker[w].batch /\ Max(worker[w].batch) \in 0 .. NumDocs
          /\ \A d \in worker[w].batch : d <= Max(worker[w].batch)
      <3>1. worker[w].batch \subseteq 0 .. NumDocs
        BY <2>1, Constants
      <3>2. QED
        BY <2>1, <3>1, Constants, MaxIsGreatest
    <2>3. PICK m \in Message :
            m = [run |-> Msg(w).run, after |-> Max(worker[w].batch), retries |-> 0] /\ Send(m)
      BY <1>3, <2>1, <2>2, Constants DEF SendNext, Message, Msg
    <2>4. /\ m.run = Msg(w).run /\ m.after = Max(worker[w].batch)
          /\ worker[w].todo = {} /\ Follows(m.run, Msg(w).after, worker[w].batch)
          /\ Accounted(m.run, (1 .. Msg(w).after) \cup worker[w].batch)
      BY <2>1, <2>3 DEF VisitInv, BatchInv
    <2>5. ASSUME NEW d \in stayed[m.run], d \in 1 .. m.after
          PROVE  d \in (1 .. Msg(w).after) \cup worker[w].batch
      <3>1. d \in Nat /\ Msg(w).after \in Nat
        BY <2>1, <2>5, Constants DEF Msg, Message
      <3>2. CASE d > Msg(w).after /\ d \notin worker[w].batch
        <4>1. Max(worker[w].batch) < d
          BY <2>2, <2>4, <2>5, <3>2 DEF Follows
        <4>2. QED
          BY <2>2, <2>4, <2>5, <3>1, <4>1, Constants
      <3>3. QED
        BY <2>5, <3>1, <3>2
    <2>6. QED
      BY <1>2, <2>3, <2>4, <2>5
  <1>4. CASE SendRetry(w)
    <2>1. worker[w].pc = "retry" /\ worker[w].msg \in Message /\ worker[w].msg.retries < MaxRetries
      BY <1>0, <1>4 DEF SendRetry, At, TypeOK, Msg
    <2>2. PICK m \in Message : m = [Msg(w) EXCEPT !.retries = @ + 1] /\ Send(m)
      BY <1>4, <2>1, Constants DEF SendRetry, Message, Msg
    <2>3. m.run = Msg(w).run /\ m.after = Msg(w).after
      BY <2>1, <2>2 DEF Message, Msg
    <2>4. Accounted(m.run, 1 .. m.after)
      BY <2>1, <2>3 DEF VisitInv, BatchInv
    <2>5. QED
      BY <1>2, <2>2, <2>4
  <1>5. CASE WorkerDies(w)
    <2>1. worker[w].pc # "idle" /\ Msg(w) \in Message /\ Send(Msg(w))
      BY <1>0, <1>5 DEF WorkerDies, At, TypeOK, Msg
    <2>2. PICK m \in Message : m = Msg(w) /\ Send(m)
      BY <2>1
    <2>3. Accounted(m.run, 1 .. m.after)
      BY <2>1, <2>2 DEF VisitInv, BatchInv
    <2>4. QED
      BY <1>2, <2>2, <2>3
  <1>6. CASE ~SendNext(w) /\ ~SendRetry(w) /\ ~WorkerDies(w)
    <2>1. \A m \in Message : queue'[m] > 0 => queue[m] > 0
      <3>1. CASE \E m \in Message : Deliver(w, m)
        <4>1. PICK m \in Message : Deliver(w, m)
          BY <3>1
        <4>2. QED
          BY <1>0, <4>1 DEF Deliver, TypeOK
      <3>2. CASE queue' = queue
        BY <3>2
      <3>3. QED
        BY <1>6, <3>1, <3>2
        DEF BatchStep, BatchFault, CheckLock, LoadBatch, RefreshDocument, CountDocument,
            KeepInsights, DocumentGone, EndBatch, FinishProgress, CompareLock, DropLock,
            Report, GiveUp, Acknowledge, BatchFails, BatchKilled, SendFails
    <2>2. QED
      BY <1>1, <2>1
  <1>7. QED
    BY <1>3, <1>4, <1>5, <1>6

\* A batch extends what its message claims, one document at a time, until it
\* has every document or queues its successor.
LEMMA BatchKeeps ==
  ASSUME VisitInv, NEW w \in Workers, BatchStep(w) \/ BatchFault(w)
  PROVE  BatchInv(w)'
  <1>0. TypeOK /\ TypeOK' /\ WorkerEffect(w) /\ \A r \in Runs : Kept(r)
    BY TypeWorker, WorkerKeepsRuns DEF VisitInv
  <1>a. WorkersOK /\ WorkerOK(worker[w]) /\ BatchInv(w)
    BY <1>0, TypeParts DEF WorkersOK, VisitInv
  <1>1. CASE worker'[w].pc = "idle"
    BY <1>1 DEF BatchInv
  <1>2. CASE worker[w].pc = "idle" /\ worker'[w].pc # "idle"
    <2>1. PICK m \in Message : m = worker'[w].msg /\ queue[m] > 0 /\ worker'[w].pc = "check"
      BY <1>0, <1>2 DEF WorkerEffect, TypeOK
    <2>2. Accounted(m.run, 1 .. m.after) /\ Kept(m.run)
      BY <1>0, <2>1 DEF VisitInv, QueueInv, Message
    <2>3. QED
      BY <2>1, <2>2 DEF BatchInv, Accounted, Kept, Msg
  <1> SUFFICES ASSUME worker[w].pc # "idle", worker'[w].pc # "idle"
      PROVE  BatchInv(w)'
    BY <1>1, <1>2
  <1>3. PICK m \in Message : m = worker[w].msg /\ m = worker'[w].msg /\ m = Msg(w)
    BY <1>0, <1>a DEF WorkerEffect, WorkerOK, Msg
  <1>4. PICK r \in Runs : r = m.run
    BY DEF Message
  <1>5. /\ Kept(r) /\ Accounted(r, 1 .. m.after) /\ stayed[r] \subseteq Docs
        /\ progress \in Progress /\ progress.done + progress.failed \in Nat
        /\ m.after \in Nat
    BY <1>0, <1>a, <1>3, <1>4, Constants DEF BatchInv, TypeOK, Progress, Message
  <1>6. CASE worker'[w].pc \in {"check", "load", "retry", "resent", "ack", "report"}
    BY <1>3, <1>4, <1>5, <1>6, <1>a, BatchLeft
  <1>7. CASE LoadBatch(w)
    <2>1. PICK batch : /\ batch = NextBatch(m.after)
                       /\ worker' = [worker EXCEPT ![w].pc = "refresh",
                                       ![w].batch = batch, ![w].todo = batch]
      BY <1>3, <1>7 DEF LoadBatch
    <2>2. worker'[w].pc = "refresh" /\ worker'[w].batch = batch /\ worker'[w].todo = batch
      BY <1>a, <2>1 DEF WorkersOK, WorkerOK, WorkerState
    <2>3. \A d \in eligible : d > m.after /\ d \notin batch =>
            Cardinality(batch) = BatchSize /\ \A e \in batch : e < d
      BY <1>0, <1>5, <2>1, BatchIsFirst DEF TypeOK
    <2>4. UNCHANGED <<eligible, stayed, visited, progress>>
      BY <1>7 DEF LoadBatch, UnchangedByBatch
    <2>5. (1 .. m.after) \cup (batch \ batch) = 1 .. m.after
      OBVIOUS
    <2>6. stayed[r] \subseteq eligible
      BY DEF VisitInv, RunInv
    <2>7. Follows(r, m.after, batch)'
      BY <2>3, <2>4, <2>6 DEF Follows
    <2>8. QED
      BY <1>3, <1>4, <1>5, <2>2, <2>4, <2>5, <2>7
      DEF BatchInv, Accounted, Follows, Msg
  <1>8. CASE RefreshDocument(w)
    <2>1. /\ worker[w].pc = "refresh" /\ worker'[w].pc = "count"
          /\ worker'[w].batch = worker[w].batch /\ worker'[w].todo = worker[w].todo
      BY <1>a, <1>8, NextDocument, GotoType DEF RefreshDocument, At, WorkerSteps
    <2>2. Min(worker[w].todo) \in visited'[r]
      BY <1>0, <1>3, <1>4, <1>8 DEF RefreshDocument, Visit, TypeOK
    <2>3. QED
      BY <1>3, <1>4, <1>5, <1>a, <2>1, <2>2 DEF BatchInv, Accounted, Kept, Follows, Msg
  <1>9. CASE CountDocument(w) \/ KeepInsights(w)
    <2>1. /\ worker[w].pc \in {"refresh", "count"} /\ worker[w].todo # {}
          /\ worker[w].todo \subseteq worker[w].batch
      BY <1>9, <1>a DEF CountDocument, KeepInsights, At, WorkerOK
    <2>2. PICK d \in Docs : d = Min(worker[w].todo) /\ d \in worker[w].todo
      BY <1>a, <2>1, NextDocument
    <2>3. /\ worker'[w].pc = "refresh" /\ worker'[w].batch = worker[w].batch
          /\ worker'[w].todo = worker[w].todo \ {d}
      BY <1>9, <1>a, <2>2 DEF CountDocument, KeepInsights, At, WorkersOK, WorkerOK, WorkerState
    <2>4. /\ progress'.run = progress.run
          /\ progress'.done + progress'.failed = progress.done + progress.failed + 1
      BY <1>5, <1>9 DEF CountDocument, KeepInsights, Progress
    <2>5. UNCHANGED <<eligible, stayed>>
      BY <1>0 DEF WorkerEffect
    <2>6. d \in visited'[r] /\ visited[r] \subseteq visited'[r]
      <3>1. CASE CountDocument(w)
        <4>1. worker[w].pc = "count" /\ visited' = visited
          BY <3>1 DEF CountDocument, At
        <4>2. QED
          BY <1>3, <1>4, <1>a, <2>2, <4>1 DEF BatchInv
      <3>2. CASE KeepInsights(w)
        BY <1>0, <1>3, <1>4, <2>2, <3>2 DEF KeepInsights, Visit, TypeOK
      <3>3. QED
        BY <1>9, <3>1, <3>2
    <2> DEFINE S == (1 .. m.after) \cup (worker[w].batch \ worker[w].todo)
               T == (1 .. m.after) \cup (worker[w].batch \ (worker[w].todo \ {d}))
               total == progress.done + progress.failed
    <2>7. Accounted(r, S) /\ Follows(r, m.after, worker[w].batch)
      BY <1>3, <1>4, <1>a, <2>1 DEF BatchInv
    <2>8. Covered(r, stayed[r], S, visited'[r], progress.run, total)
      BY <1>5, <2>6, <2>7, CoveredGrows DEF Accounted
    <2>9. T \subseteq S \cup {d}
      OBVIOUS
    <2>10. Covered(r, stayed[r], T, visited'[r], progress.run, total + 1)
      <3> HIDE DEF S, T, total
      <3>1. total \in Nat
        BY <1>5 DEF total
      <3>2. QED
        BY <1>5, <2>6, <2>8, <2>9, <3>1, CoveredMore
    <2>11. Kept(r) /\ Accounted(r, 1 .. m.after)
      BY <1>5
    <2>12. Accounted(r, 1 .. m.after)'
      BY <2>11 DEF Kept, Accounted
    <2>13. QED
      BY <1>3, <1>4, <2>3, <2>4, <2>5, <2>7, <2>10, <2>12
      DEF BatchInv, Accounted, Follows, Msg
  <1>10. CASE EndBatch(w)
    <2>1. /\ worker[w].pc = "refresh" /\ worker[w].todo = {}
          /\ worker'[w].batch = worker[w].batch /\ worker'[w].todo = worker[w].todo
          /\ worker'[w].pc = IF Cardinality(worker[w].batch) = BatchSize THEN "send" ELSE "finish"
      BY <1>10, <1>a DEF EndBatch, At, Goto, WorkersOK, WorkerOK, WorkerState
    <2>2. UNCHANGED <<eligible, stayed, visited, progress>>
      BY <1>10 DEF EndBatch, UnchangedByBatch
    <2>3. /\ Accounted(r, (1 .. m.after) \cup (worker[w].batch \ worker[w].todo))
          /\ Follows(r, m.after, worker[w].batch)
      BY <1>3, <1>4, <1>a, <2>1 DEF BatchInv
    <2>4. CASE Cardinality(worker[w].batch) = BatchSize
      BY <1>3, <1>4, <1>5, <2>1, <2>2, <2>3, <2>4 DEF BatchInv, Accounted, Follows, Msg
    <2>5. CASE Cardinality(worker[w].batch) # BatchSize
      <3>1. stayed[r] \cap Docs \subseteq (1 .. m.after) \cup (worker[w].batch \ worker[w].todo)
        BY <1>5, <2>1, <2>3, <2>5, Constants DEF Follows
      <3>2. Accounted(r, Docs)
        BY <1>5, <2>3, <3>1, CoveredLess DEF Accounted
      <3>3. QED
        BY <1>3, <1>4, <1>5, <2>1, <2>2, <2>5, <3>2 DEF BatchInv, Accounted, Msg
    <2>6. QED
      BY <2>4, <2>5
  <1>11. CASE FinishProgress(w) \/ CompareLock(w)
    <2>1. worker[w].pc \in {"finish", "compare"} /\ worker'[w].pc \in {"compare", "unlock", "report"}
      BY <1>11, <1>a DEF FinishProgress, CompareLock, At, Goto, WorkersOK, WorkerOK, WorkerState
    <2>2. Accounted(r, Docs)
      BY <1>3, <1>4, <1>a, <2>1 DEF BatchInv
    <2>3. QED
      BY <1>3, <1>4, <1>5, <2>1, <2>2 DEF BatchInv, Accounted, Kept, Msg
  <1>12. QED
    <2>1. CASE \/ CheckLock(w) \/ DocumentGone(w) \/ DropLock(w) \/ Report(w) \/ GiveUp(w)
               \/ BatchFails(w) \/ SendFails(w) \/ SendNext(w) \/ SendRetry(w)
      <3>1. worker'[w].pc \in {"check", "load", "retry", "resent", "ack", "report"}
        BY <1>a, <2>1 DEF CheckLock, DocumentGone, DropLock, Report, GiveUp, BatchFails,
           SendFails, SendNext, SendRetry, Goto, WorkersOK, WorkerOK, WorkerState
      <3>2. QED
        BY <1>6, <3>1
    <2>2. CASE (\E n \in Message : Deliver(w, n)) \/ Acknowledge(w) \/ BatchKilled(w)
               \/ WorkerDies(w)
      <3>1. ~\E n \in Message : Deliver(w, n)
        BY DEF Deliver, At
      <3>2. worker' = [worker EXCEPT ![w] = Idle]
        BY <2>2, <3>1 DEF Acknowledge, BatchKilled, WorkerDies
      <3>3. worker'[w].pc = "idle"
        BY <1>a, <3>2 DEF Idle, WorkersOK
      <3>4. QED
        BY <3>3
    <2>3. QED
      BY <1>7, <1>8, <1>9, <1>10, <1>11, <2>1, <2>2 DEF BatchStep, BatchFault

LEMMA WorkerKeeps ==
  ASSUME VisitInv, NEW w \in Workers, BatchStep(w) \/ BatchFault(w)
  PROVE  VisitInv'
  BY TypeWorker, WorkerKeepsRuns, QueueKeeps, BatchKeeps DEF VisitInv

\* A start request resets the progress and counts the documents before any
\* message of its run is there.
LEMMA StartKeeps ==
  ASSUME VisitInv, NEW p \in Runs, TakeLock(p) \/ StartStep(p) \/ StartFails(p)
  PROVE  VisitInv'
  <1>0. TypeOK /\ TypeOK'
    BY TypeStart DEF VisitInv
  <1>1. /\ UNCHANGED <<eligible, insights, worker, dashboard, visited>>
        /\ \A r \in Runs \ {p} : stayed'[r] = stayed[r] /\ start'[r] = start[r]
        /\ progress' = progress \/ progress' = NoProgress \/ (start[p] = "begin" /\ progress'.run = p)
        /\ stayed'[p] = stayed[p] \/ (start[p] = "count" /\ stayed'[p] = eligible)
        /\ start[p] # "end"
        /\ start'[p] \in {"new", "count", "clear", "begin"} =>
             start[p] \in {"new", "count", "clear"} /\ (progress' = progress \/ progress' = NoProgress)
    BY <1>0 DEF TakeLock, StartStep, StartFails, CountDocuments, ClearProgress, BeginProgress,
       DispatchFirst, UnchangedByStart, StartGoto, docVars, history, TypeOK
  <1>2. \/ queue' = queue
        \/ /\ start'[p] = "end"
           /\ \E m \in Message : m.run = p /\ m.after = 0 /\ Send(m)
    <2>1. CASE DispatchFirst(p)
      <3>1. [run |-> p, after |-> 0, retries |-> 0] \in Message
        BY Constants DEF Message
      <3>2. QED
        BY <1>0, <2>1, <3>1 DEF DispatchFirst, StartGoto, TypeOK
    <2>2. QED
      BY <2>1 DEF TakeLock, StartStep, StartFails, CountDocuments, ClearProgress, BeginProgress
  <1>3. /\ \A m \in Message : m.run = p => queue[m] = 0
        /\ \A w \in Workers : worker[w].pc # "idle" => Msg(w).run # p
        /\ start[p] \in {"new", "count", "clear", "begin"} => progress.run # p
        /\ RunInv(p)
    BY <1>1 DEF VisitInv, RunInv
  <1>4. NoProgress.run = NoRun /\ NoRun \notin Runs
    BY ConstantsAssumption DEF NoProgress
  <1>5. ASSUME NEW r \in Runs \ {p} PROVE Kept(r)
    BY <1>0, <1>1, <1>4, KeptIf DEF TypeOK, Progress
  <1>6. ASSUME NEW m \in Message PROVE QueueInv(m)'
    <2>1. CASE queue'[m] > 0 /\ ~(queue[m] > 0)
      <3>1. m.run = p /\ m.after = 0
        BY <1>0, <1>2, <2>1 DEF Send, TypeOK
      <3>2. progress'.done + progress'.failed \in Nat
        BY <1>0 DEF TypeOK, Progress
      <3>3. 1 .. m.after = {} /\ Cardinality({}) = 0
        BY <3>1, FS_EmptySet
      <3>4. stayed'[p] \cap (1 .. m.after) = {}
        BY <3>3
      <3>5. QED
        BY <3>1, <3>2, <3>3, <3>4 DEF QueueInv, Accounted, Covered
    <2>2. CASE queue'[m] > 0 /\ queue[m] > 0
      <3>1. m.run \in Runs \ {p}
        BY <1>3, <2>2 DEF Message
      <3>2. QED
        BY <1>5, <2>2, <3>1, MessageKept DEF VisitInv
    <2>3. CASE ~(queue'[m] > 0)
      BY <2>3 DEF QueueInv
    <2>4. QED
      BY <2>1, <2>2, <2>3
  <1>7. ASSUME NEW w \in Workers PROVE BatchInv(w)'
    <2>1. worker[w].pc # "idle" => Kept(Msg(w).run)
      BY <1>0, <1>3, <1>5 DEF TypeOK, Message, Msg
    <2>2. QED
      BY <1>1, <2>1, BatchKept DEF VisitInv
  <1>8. ASSUME NEW r \in Runs PROVE RunInv(r)'
    <2>1. CASE r = p
      <3>1. start'[p] # "end" => queue' = queue
        BY <1>2
      <3>2. start'[p] \in {"new", "count", "clear", "begin"} => progress'.run # p
        BY <1>1, <1>3, <1>4
      <3>3. stayed'[p] \subseteq eligible'
        BY <1>1, <1>3 DEF RunInv
      <3>4. QED
        BY <1>1, <1>3, <2>1, <3>1, <3>2, <3>3 DEF RunInv, Msg
    <2>2. CASE r # p
      <3>1. RunInv(r) /\ start'[r] = start[r] /\ stayed'[r] = stayed[r]
        BY <1>1, <2>2 DEF VisitInv
      <3>2. \A m \in Message : m.run = r => queue'[m] = queue[m]
        BY <1>0, <1>2, <2>2 DEF Send, TypeOK
      <3>3. progress'.run = r => progress.run = r
        BY <1>1, <1>4, <2>2
      <3>4. QED
        BY <1>1, <3>1, <3>2, <3>3 DEF RunInv, Msg
    <2>3. QED
      BY <2>1, <2>2
  <1>9. QED
    BY <1>0, <1>6, <1>7, <1>8 DEF VisitInv

\* Nor do documents that come or go, expiry or the dashboard change what is
\* accounted for.
LEMMA OtherKeeps ==
  ASSUME VisitInv, OtherStep
  PROVE  VisitInv'
  <1>0. TypeOK /\ TypeOK'
    BY TypeOther DEF VisitInv
  <1>1. /\ UNCHANGED <<start, queue, worker, visited>>
        /\ progress' = progress \/ progress' = NoProgress
    BY <1>0, OtherEffect
  <1>2. \A r \in Runs :
          /\ stayed'[r] \subseteq stayed[r]
          /\ stayed[r] \subseteq eligible => stayed'[r] \subseteq eligible'
    BY <1>0, OtherEffect
  <1>3. NoProgress.run = NoRun /\ NoRun \notin Runs
    BY ConstantsAssumption DEF NoProgress
  <1>4. ASSUME NEW r \in Runs PROVE Kept(r) /\ RunInv(r)'
    <2>1. RunInv(r)
      BY DEF VisitInv
    <2>2. stayed'[r] \subseteq stayed[r] /\ stayed'[r] \subseteq eligible'
      BY <1>2, <2>1 DEF RunInv
    <2>3. progress'.run = r => progress' = progress
      BY <1>1, <1>3
    <2>4. Kept(r)
      BY <1>0, <1>1, <2>2, <2>3, KeptIf DEF TypeOK, Progress
    <2>5. QED
      BY <1>1, <1>3, <2>1, <2>2, <2>3, <2>4 DEF RunInv, Msg
  <1>5. ASSUME NEW m \in Message PROVE QueueInv(m)'
    BY <1>1, <1>4, MessageKept DEF VisitInv, Message
  <1>6. ASSUME NEW w \in Workers PROVE BatchInv(w)'
    <2>1. worker[w].pc # "idle" => Kept(Msg(w).run)
      BY <1>0, <1>4 DEF TypeOK, Message, Msg
    <2>2. QED
      BY <1>1, <2>1, BatchKept DEF VisitInv
  <1>7. QED
    BY <1>0, <1>4, <1>5, <1>6 DEF VisitInv

\* The initial state satisfies it.
LEMMA VisitInit == Init => VisitInv
  <1> SUFFICES ASSUME Init PROVE VisitInv
    OBVIOUS
  <1>1. NoProgress.run = NoRun /\ Idle.pc = "idle" /\ NoRun \notin Runs
    BY ConstantsAssumption DEF NoProgress, Idle
  <1>2. QED
    BY <1>1, TypeInit DEF Init, VisitInv, RunInv, QueueInv, BatchInv

\* Every step keeps the invariant.
LEMMA VisitStep == VisitInv /\ [Next]_vars => VisitInv'
  <1> SUFFICES ASSUME VisitInv, [Next]_vars PROVE VisitInv'
    OBVIOUS
  <1>1. CASE UNCHANGED vars
    BY <1>1 DEF vars, docVars, VisitInv, TypeOK, RunInv, QueueInv, BatchInv, Accounted, Follows,
       Msg
  <1>2. QED
    BY <1>1, StartKeeps, WorkerKeeps, OtherKeeps DEF Next, OtherStep

LEMMA VisitCorrect == Spec => []VisitInv
  BY VisitInit, VisitStep, PTL DEF Spec

\* A run that finds no more documents has refreshed, or tried to, every document
\* that has been eligible ever since the run counted them, under all faults and
\* although others are ingested, ingested again and deleted meanwhile.
THEOREM FinishedRunsVisitAll == Spec => []FinishedRunVisitedAll
  <1>1. ASSUME VisitInv, NEW w \in Workers, worker[w].pc \in {"finish", "compare", "unlock"}
        PROVE  stayed[Msg(w).run] \subseteq visited[Msg(w).run]
    <2>1. Accounted(Msg(w).run, Docs)
      BY <1>1 DEF VisitInv, BatchInv
    <2>2. stayed[Msg(w).run] \subseteq Docs
      BY <1>1 DEF VisitInv, TypeOK, Message, Msg
    <2>3. QED
      BY <2>1, <2>2 DEF Accounted, Covered
  <1>2. VisitInv => FinishedRunVisitedAll
    BY <1>1 DEF FinishedRunVisitedAll
  <1>3. QED
    BY <1>2, VisitCorrect, PTL

\* Found insights are never taken away by a refresh: only the document's own
\* ingest when it runs again and completes, or a dashboard request that had read
\* the document before it had any, replaces them.
THEOREM InsightsStay == Spec => InsightsAreKept
  <1>1. TypeOK /\ [Next]_vars =>
          [\A d \in Docs : insights[d] = "found" /\ insights'[d] # "found" =>
             \/ d \in eligible' \ eligible
             \/ \E g \in Dashboards : d \in dashboard[g].docs]_<<insights, eligible>>
    <2> SUFFICES ASSUME TypeOK, [Next]_vars, NEW d \in Docs,
                        insights[d] = "found", insights'[d] # "found"
        PROVE  d \in eligible' \ eligible \/ \E g \in Dashboards : d \in dashboard[g].docs
      OBVIOUS
    <2>0. insights \in [Docs -> {"null", "empty", "found"}]
      BY DEF TypeOK
    <2>1. CASE \E w \in Workers : RefreshDocument(w)
      BY <2>0, <2>1 DEF RefreshDocument
    <2>2. CASE \E e \in Docs : DocumentIngested(e)
      <3>1. PICK e \in Docs : DocumentIngested(e)
        BY <2>2
      <3>2. e = d
        BY <2>0, <3>1 DEF DocumentIngested
      <3>3. QED
        BY <3>1, <3>2 DEF DocumentIngested
    <2>3. CASE \E g \in Dashboards : FillMissing(g)
      BY <2>0, <2>3 DEF FillMissing
    <2>4. CASE insights' = insights
      BY <2>4
    <2>5. QED
      BY <2>1, <2>2, <2>3, <2>4
      DEF Next, vars, docVars, TakeLock, StartStep, StartFails, CountDocuments, ClearProgress,
          BeginProgress, DispatchFirst, UnchangedByStart, BatchStep, BatchFault, Deliver,
          CheckLock, LoadBatch, CountDocument, KeepInsights, DocumentGone, EndBatch, SendNext,
          FinishProgress, CompareLock, DropLock, Report, SendRetry, GiveUp, Acknowledge,
          BatchFails, BatchKilled, SendFails, WorkerDies, LockExpires, ProgressExpires,
          IngestBegins, DocumentDeleted, LoadMissing
  <1>2. QED
    BY <1>1, TypeCorrect, PTL DEF Spec, InsightsAreKept

-----------------------------------------------------------------------------
(* Messages, the lock and the progress *)

\* What has struck is remembered.
LEMMA StruckGrows ==
  ASSUME [Next]_vars
  PROVE  struck \subseteq struck'
  BY DEF Next, vars, Strike, TakeLock, StartStep, StartFails, CountDocuments, ClearProgress,
     BeginProgress, DispatchFirst, UnchangedByStart, BatchStep, BatchFault, Deliver, CheckLock,
     LoadBatch, RefreshDocument, CountDocument, KeepInsights, DocumentGone, EndBatch, SendNext,
     FinishProgress, CompareLock, DropLock, Report, SendRetry, GiveUp, Acknowledge, BatchFails,
     BatchKilled, SendFails, WorkerDies, UnchangedByBatch, LockExpires, ProgressExpires,
     IngestBegins, DocumentIngested, DocumentDeleted, LoadMissing, FillMissing

\* What a step of a worker that does not die does to the messages: it leaves
\* them alone, takes one, or hands its own run on and is no longer live.
LEMMA WorkerTickets ==
  ASSUME TypeOK, NEW w \in Workers, BatchStep(w) \/ BatchFault(w), "crash" \notin struck'
  PROVE  \/ /\ queue' = queue
            /\ Live(w)' => Live(w) /\ worker'[w].msg = worker[w].msg
         \/ \E m \in Message :
              /\ queue[m] > 0 /\ queue' = [queue EXCEPT ![m] = @ - 1]
              /\ worker'[w].msg = m
         \/ \E m \in Message :
              Send(m) /\ Live(w) /\ ~Live(w)' /\ m.run = Msg(w).run
  <1>0. WorkersOK /\ WorkerOK(worker[w]) /\ WorkerEffect(w)
    BY TypeParts, TypeWorker DEF WorkersOK
  <1>1. CASE \E m \in Message : Deliver(w, m)
    <2>1. PICK m \in Message : Deliver(w, m)
      BY <1>1
    <2>2. worker' = [worker EXCEPT ![w] = [Idle EXCEPT !.pc = "check", !.msg = m]]
      BY <2>1 DEF Deliver
    <2>3. worker'[w].msg = m
      BY <1>0, <2>2 DEF WorkersOK, Idle
    <2>4. QED
      BY <2>1, <2>3 DEF Deliver
  <1>2. CASE SendNext(w)
    <2>1. PICK n : /\ n = [run |-> Msg(w).run, after |-> Max(worker[w].batch), retries |-> 0]
                   /\ Send(n)
      BY <1>2 DEF SendNext
    <2>2. worker[w].pc = "send" /\ worker'[w].pc = "ack"
      BY <1>0, <1>2, GotoType DEF SendNext, At, WorkerSteps
    <2>3. n \in Message
      <3>1. worker[w].msg \in Message /\ worker[w].batch # {}
        BY <1>0, <2>2 DEF WorkerOK
      <3>2. worker[w].batch \subseteq 0 .. NumDocs
        BY <1>0, Constants DEF WorkerOK, WorkerState
      <3>3. Max(worker[w].batch) \in 0 .. NumDocs
        BY <3>1, <3>2, Constants, MaxIsGreatest
      <3>4. QED
        BY <2>1, <3>1, <3>3, Constants DEF Message, Msg
    <2>4. QED
      BY <2>1, <2>2, <2>3 DEF Live
  <1>3. CASE SendRetry(w)
    <2>1. worker[w].pc = "retry" /\ worker'[w].pc = "resent"
      BY <1>0, <1>3, GotoType DEF SendRetry, At, WorkerSteps
    <2>2. worker[w].msg \in Message /\ worker[w].msg.retries < MaxRetries
      BY <1>0, <1>3, <2>1 DEF SendRetry, WorkerOK, Msg
    <2>3. PICK n \in Message : n = [Msg(w) EXCEPT !.retries = @ + 1] /\ Send(n)
      BY <1>3, <2>2, Constants DEF SendRetry, Message, Msg
    <2>4. n.run = Msg(w).run
      BY <2>2, <2>3 DEF Message, Msg
    <2>5. QED
      BY <2>1, <2>3, <2>4 DEF Live
  <1>4. CASE /\ worker[w].pc \notin {"idle", "ack", "resent"}
             /\ queue' = queue
    BY <1>0, <1>4 DEF WorkerEffect, Live
  <1>5. CASE Acknowledge(w) \/ BatchKilled(w)
    <2>1. worker' = [worker EXCEPT ![w] = Idle] /\ queue' = queue
      BY <1>5 DEF Acknowledge, BatchKilled
    <2>2. worker'[w].pc = "idle"
      BY <1>0, <2>1 DEF WorkersOK, Idle
    <2>3. QED
      BY <2>1, <2>2 DEF Live
  <1>6. ~WorkerDies(w)
    BY DEF WorkerDies, Strike
  <1>7. QED
    BY <1>1, <1>2, <1>3, <1>4, <1>5, <1>6
    DEF BatchStep, BatchFault, CheckLock, LoadBatch, RefreshDocument, CountDocument,
        KeepInsights, DocumentGone, EndBatch, FinishProgress, CompareLock, DropLock, Report,
        GiveUp, BatchFails, SendFails, At

\* A step that leaves the messages alone and makes no worker live.
LEMMA TicketsStay ==
  ASSUME OneTicket, "crash" \notin struck, queue' = queue,
         \A w \in Workers : Live(w)' => Live(w) /\ worker'[w].msg = worker[w].msg
  PROVE  OneTicket'
  BY DEF OneTicket, Undisturbed, Msg

\* A message from the queue becomes the only ticket of its run.
LEMMA TicketTaken ==
  ASSUME OneTicket, "crash" \notin struck, NEW w \in Workers, NEW m \in Message,
         queue \in [Message -> Nat], queue[m] > 0, queue' = [queue EXCEPT ![m] = @ - 1],
         worker'[w].msg = m, \A v \in Workers \ {w} : worker'[v] = worker[v]
  PROVE  OneTicket'
  <1>1. /\ \A n \in Message : queue[n] <= 1
        /\ \A k, n \in Message : queue[k] > 0 /\ queue[n] > 0 /\ k.run = n.run => k = n
        /\ \A v \in Workers : Live(v) =>
             /\ \A n \in Message : n.run = Msg(v).run => queue[n] = 0
             /\ \A u \in Workers : Live(u) /\ Msg(u).run = Msg(v).run => u = v
    BY DEF OneTicket, Undisturbed
  <1>2. /\ \A n \in Message : queue[n] \in Nat /\ queue'[n] \in Int /\ queue'[n] <= queue[n]
        /\ queue'[m] = 0
    <2>1. queue[m] \in Nat /\ queue[m] <= 1 /\ queue'[m] = queue[m] - 1
      BY <1>1
    <2>2. \A n \in Message \ {m} : queue'[n] = queue[n] /\ queue[n] \in Nat
      OBVIOUS
    <2>3. queue'[m] = 0 /\ queue[m] = 1
      BY <2>1
    <2>4. QED
      BY <2>2, <2>3
  <1>3. \A n \in Message : n.run = m.run => queue'[n] = 0
    BY <1>1, <1>2
  <1>4. \A v \in Workers \ {w} : Live(v)' =>
          /\ Live(v) /\ worker'[v].msg = worker[v].msg /\ Msg(v).run # m.run
          /\ \A n \in Message : n.run = Msg(v).run => queue'[n] = 0
    BY <1>1, <1>2 DEF Live, Msg
  <1>5. QED
    BY <1>1, <1>2, <1>3, <1>4 DEF OneTicket, Msg

\* So does one that is sent when its run has no other.
LEMMA TicketSent ==
  ASSUME OneTicket, "crash" \notin struck, NEW m \in Message,
         queue \in [Message -> Nat], Send(m),
         \A n \in Message : n.run = m.run => queue[n] = 0,
         \A w \in Workers : Live(w)' =>
           Live(w) /\ worker'[w].msg = worker[w].msg /\ Msg(w).run # m.run
  PROVE  OneTicket'
  <1>1. queue'[m] = 1 /\ \A n \in Message \ {m} : queue'[n] = queue[n] /\ queue[n] \in Nat
    BY DEF Send
  <1>2. QED
    BY <1>1 DEF OneTicket, Undisturbed, Msg

LEMMA TicketStep ==
  ASSUME VisitInv, OneTicket, [Next]_vars
  PROVE  OneTicket'
  <1>0. TypeOK /\ queue \in [Message -> Nat] /\ NoRun \notin Runs
    BY ConstantsAssumption DEF VisitInv, TypeOK
  <1>1. CASE "crash" \in struck'
    BY <1>1 DEF OneTicket, Undisturbed
  <1> SUFFICES ASSUME "crash" \notin struck' PROVE OneTicket'
    BY <1>1
  <1>2. "crash" \notin struck
    BY StruckGrows
  <1>3. ASSUME NEW w \in Workers, BatchStep(w) \/ BatchFault(w) PROVE OneTicket'
    <2>0. \A v \in Workers \ {w} : worker'[v] = worker[v]
      BY <1>0, <1>3, TypeWorker DEF WorkerEffect
    <2>1. CASE queue' = queue /\ (Live(w)' => Live(w) /\ worker'[w].msg = worker[w].msg)
      BY <1>2, <2>0, <2>1, TicketsStay DEF Live
    <2>2. CASE \E m \in Message :
                 /\ queue[m] > 0 /\ queue' = [queue EXCEPT ![m] = @ - 1]
                 /\ worker'[w].msg = m
      BY <1>0, <1>2, <2>0, <2>2, TicketTaken
    <2>3. CASE \E m \in Message :
                 Send(m) /\ Live(w) /\ ~Live(w)' /\ m.run = Msg(w).run
      <3>1. PICK m \in Message : Send(m) /\ Live(w) /\ ~Live(w)' /\ m.run = Msg(w).run
        BY <2>3
      <3>2. /\ \A n \in Message : n.run = m.run => queue[n] = 0
            /\ \A v \in Workers : Live(v) /\ Msg(v).run = m.run => v = w
        BY <1>2, <3>1 DEF OneTicket, Undisturbed
      <3>3. \A v \in Workers : Live(v)' =>
              Live(v) /\ worker'[v].msg = worker[v].msg /\ Msg(v).run # m.run
        BY <2>0, <3>1, <3>2 DEF Live
      <3>4. QED
        BY <1>0, <1>2, <3>1, <3>2, <3>3, TicketSent
    <2>4. QED
      BY <1>0, <1>3, <2>1, <2>2, <2>3, WorkerTickets
  <1>4. ASSUME NEW p \in Runs, DispatchFirst(p) PROVE OneTicket'
    <2>1. PICK m \in Message : m.run = p /\ Send(m)
      <3>1. [run |-> p, after |-> 0, retries |-> 0] \in Message
        BY Constants DEF Message
      <3>2. QED
        BY <1>4, <3>1 DEF DispatchFirst
    <2>2. /\ \A n \in Message : n.run = p => queue[n] = 0
          /\ \A w \in Workers : worker[w].pc # "idle" => Msg(w).run # p
      BY <1>4 DEF DispatchFirst, VisitInv, RunInv
    <2>3. worker' = worker
      BY <1>4 DEF DispatchFirst, UnchangedByStart
    <2>4. QED
      BY <1>0, <1>2, <2>1, <2>2, <2>3, TicketSent DEF Live
  <1>5. CASE UNCHANGED <<queue, worker>>
    BY <1>2, <1>5, TicketsStay DEF Live
  <1>6. QED
    BY <1>3, <1>4, <1>5
    DEF Next, vars, docVars, TakeLock, StartStep, StartFails, CountDocuments, ClearProgress,
        BeginProgress, UnchangedByStart, LockExpires, ProgressExpires, IngestBegins,
        DocumentIngested, DocumentDeleted, LoadMissing, FillMissing, UnchangedByOthers

\* What a worker's step does to the lock and the progress.
LEMMA WorkerHolds ==
  ASSUME TypeOK, NEW w \in Workers, BatchStep(w) \/ BatchFault(w)
  PROVE  /\ lock' = lock \/ (DropLock(w) /\ lock' = NoRun /\ Refreshing(w) /\ ~Refreshing(w)')
         /\ Refreshing(w)' => worker'[w].msg = worker[w].msg /\ (Refreshing(w) \/ lock = Msg(w).run)
         /\ progress' = progress \/ (Refreshing(w) /\ progress'.run = progress.run)
  <1>0. WorkersOK /\ WorkerOK(worker[w]) /\ WorkerEffect(w)
    BY TypeParts, TypeWorker DEF WorkersOK
  <1>1. CASE DropLock(w)
    <2>1. worker[w].pc = "unlock" /\ worker'[w].pc = "report"
      BY <1>0, <1>1, GotoType DEF DropLock, At, WorkerSteps
    <2>2. QED
      BY <1>1, <2>1 DEF DropLock, Refreshing
  <1>2. CASE CheckLock(w)
    <2>1. worker[w].pc = "check"
      BY <1>2 DEF CheckLock, At
    <2>2. CASE lock = Msg(w).run
      BY <1>0, <1>2, <2>1, <2>2, GotoType DEF CheckLock, At, WorkerSteps
    <2>3. CASE lock # Msg(w).run
      BY <1>0, <1>2, <2>1, <2>3, GotoType DEF CheckLock, At, WorkerSteps, Refreshing
    <2>4. QED
      BY <1>2, <2>2, <2>3 DEF CheckLock
  <1>3. CASE \/ Report(w) \/ GiveUp(w) \/ SendRetry(w) \/ Acknowledge(w) \/ WorkerDies(w)
             \/ BatchFails(w) \/ BatchKilled(w) \/ \E m \in Message : Deliver(w, m)
    <2>1. worker'[w].pc \in {"check", "retry", "resent", "ack", "idle"}
      <3>1. CASE Report(w)
        BY <1>0, <3>1 DEF Report, Goto, WorkersOK, WorkerState
      <3>2. CASE GiveUp(w) \/ SendRetry(w) \/ BatchFails(w)
        BY <1>0, <3>2 DEF GiveUp, SendRetry, BatchFails, Goto, WorkersOK, WorkerState
      <3>3. CASE Acknowledge(w) \/ WorkerDies(w) \/ BatchKilled(w)
        <4>1. worker' = [worker EXCEPT ![w] = Idle]
          BY <3>3 DEF Acknowledge, WorkerDies, BatchKilled
        <4>2. QED
          BY <1>0, <4>1 DEF WorkersOK, Idle
      <3>4. CASE \E m \in Message : Deliver(w, m)
        <4>1. PICK m : worker' = [worker EXCEPT ![w] = [Idle EXCEPT !.pc = "check", !.msg = m]]
          BY <3>4 DEF Deliver
        <4>2. QED
          BY <1>0, <4>1 DEF WorkersOK, Idle
      <3>5. QED
        BY <1>3, <3>1, <3>2, <3>3, <3>4
    <2>2. UNCHANGED <<lock, progress>>
      BY <1>3 DEF Report, GiveUp, SendRetry, Acknowledge, WorkerDies, BatchFails, BatchKilled,
         Deliver
    <2>3. QED
      BY <2>1, <2>2 DEF Refreshing
  <1>4. CASE \/ LoadBatch(w) \/ RefreshDocument(w) \/ DocumentGone(w) \/ EndBatch(w)
             \/ SendNext(w) \/ CompareLock(w) \/ SendFails(w)
    <2>1. Refreshing(w) /\ worker[w].pc # "idle" /\ UNCHANGED <<lock, progress>>
      BY <1>4 DEF LoadBatch, RefreshDocument, DocumentGone, EndBatch, SendNext, CompareLock,
         SendFails, At, Refreshing
    <2>2. QED
      BY <1>0, <2>1 DEF WorkerEffect, Refreshing
  <1>5. CASE CountDocument(w) \/ KeepInsights(w) \/ FinishProgress(w)
    <2>1. Refreshing(w) /\ worker[w].pc # "idle" /\ lock' = lock
      BY <1>5 DEF CountDocument, KeepInsights, FinishProgress, At, Refreshing
    <2>2. QED
      BY <1>0, <2>1 DEF WorkerEffect, Refreshing
  <1>6. QED
    BY <1>1, <1>2, <1>3, <1>4, <1>5 DEF BatchStep, BatchFault

LEMMA LockStep ==
  ASSUME VisitInv, OneTicket, LockHeld, [Next]_vars
  PROVE  LockHeld'
  <1>0. /\ TypeOK /\ NoRun \notin Runs
        /\ \A w \in Workers : worker[w].pc # "idle" => Msg(w).run \in Runs
    BY ConstantsAssumption DEF VisitInv, TypeOK, Message, Msg
  <1>1. CASE "crash" \in struck' \/ "expiry" \in struck'
    BY <1>1 DEF LockHeld, Undisturbed
  <1> SUFFICES ASSUME "crash" \notin struck', "expiry" \notin struck' PROVE LockHeld'
    BY <1>1
  <1>2. /\ "crash" \notin struck /\ "expiry" \notin struck
        /\ \A r \in Runs : start[r] \in {"count", "clear", "begin", "dispatch"} => lock = r
        /\ \A w \in Workers : Refreshing(w) => lock = Msg(w).run
    BY StruckGrows DEF LockHeld, Undisturbed
  <1>3. ASSUME NEW w \in Workers, BatchStep(w) \/ BatchFault(w) PROVE LockHeld'
    <2>0. /\ start' = start /\ \A v \in Workers \ {w} : worker'[v] = worker[v]
      BY <1>0, <1>3, TypeWorker DEF WorkerEffect
    <2>1. CASE lock' = lock
      BY <1>0, <1>2, <1>3, <2>0, <2>1, WorkerHolds DEF LockHeld, Refreshing, Msg
    <2>2. CASE lock' = NoRun /\ Refreshing(w) /\ ~Refreshing(w)'
      <3>1. lock = Msg(w).run /\ worker[w].pc # "idle" /\ Live(w)
        BY <1>2, <2>2 DEF Refreshing, Live
      <3>2. \A v \in Workers : Refreshing(v) => v = w
        BY <1>2, <3>1 DEF OneTicket, Undisturbed, Refreshing, Live
      <3>3. start[Msg(w).run] = "end"
        BY <1>0, <3>1 DEF VisitInv, RunInv
      <3>4. \A r \in Runs : start[r] \notin {"count", "clear", "begin", "dispatch"}
        BY <1>2, <3>1, <3>3
      <3>5. \A v \in Workers : ~Refreshing(v)'
        BY <2>0, <2>2, <3>2 DEF Refreshing
      <3>6. QED
        BY <2>0, <3>4, <3>5 DEF LockHeld
    <2>3. QED
      BY <1>0, <1>3, <2>1, <2>2, WorkerHolds
  <1>4. ASSUME NEW r \in Runs, TakeLock(r) PROVE LockHeld'
    <2>1. /\ worker' = worker /\ start \in [Runs -> StartSteps]
          /\ \/ lock = NoRun /\ lock' = r /\ start' = [start EXCEPT ![r] = "count"]
             \/ lock' = lock /\ start' = [start EXCEPT ![r] = "end"]
      BY <1>0, <1>4 DEF TakeLock, StartGoto, UnchangedByStart, TypeOK
    <2>2. CASE lock = NoRun /\ lock' = r /\ start' = [start EXCEPT ![r] = "count"]
      <3>1. /\ \A q \in Runs : start[q] \notin {"count", "clear", "begin", "dispatch"}
            /\ \A w \in Workers : ~Refreshing(w)
        BY <1>0, <1>2, <2>2 DEF Refreshing
      <3>2. QED
        BY <2>1, <2>2, <3>1 DEF LockHeld, Refreshing
    <2>3. CASE lock' = lock /\ start' = [start EXCEPT ![r] = "end"]
      BY <1>2, <2>1, <2>3 DEF LockHeld, Refreshing, Msg
    <2>4. QED
      BY <2>1, <2>2, <2>3
  <1>5. CASE /\ UNCHANGED <<lock, worker>>
             /\ \A r \in Runs : start'[r] \in {"count", "clear", "begin", "dispatch"} =>
                  start[r] \in {"count", "clear", "begin", "dispatch"}
    BY <1>2, <1>5 DEF LockHeld, Refreshing, Msg
  <1>6. ASSUME NEW r \in Runs, StartStep(r) \/ StartFails(r)
        PROVE  /\ UNCHANGED <<lock, worker>>
               /\ \A q \in Runs : start'[q] \in {"count", "clear", "begin", "dispatch"} =>
                    start[q] \in {"count", "clear", "begin", "dispatch"}
    BY <1>0, <1>6 DEF StartStep, StartFails, CountDocuments, ClearProgress, BeginProgress,
       DispatchFirst, StartGoto, UnchangedByStart, TypeOK
  <1>7. ~LockExpires
    BY DEF LockExpires, Strike
  <1>8. QED
    BY <1>3, <1>4, <1>5, <1>6, <1>7
    DEF Next, vars, docVars, ProgressExpires, IngestBegins, DocumentIngested, DocumentDeleted,
        LoadMissing, FillMissing, UnchangedByOthers

\* A worker's step keeps the progress with the run that has the lock.
LEMMA WorkerKeepsProgress ==
  ASSUME VisitInv, LockHeld, ProgressHeld, NEW w \in Workers, BatchStep(w) \/ BatchFault(w),
         {"crash", "expiry", "forgotten"} \cap struck = {}, "crash" \notin struck'
  PROVE  ProgressHeld'
  <1>0. /\ TypeOK /\ TypeOK' /\ WorkerEffect(w) /\ NoRun \notin Runs
        /\ queue \in [Message -> Nat] /\ \A m \in Message : m.run \in Runs
        /\ \A v \in Workers : worker[v].pc # "idle" => Msg(v).run \in Runs
        /\ \A v \in Workers : worker'[v].pc # "idle" => worker'[v].msg.run \in Runs
    BY TypeWorker, ConstantsAssumption DEF VisitInv, TypeOK, Message, Msg
  <1>1. /\ \A r \in Runs : start[r] = "dispatch" => progress.run = r
        /\ \A m \in Message : queue[m] > 0 /\ lock = m.run => progress.run = m.run
        /\ \A v \in Workers : Live(v) /\ lock = Msg(v).run => progress.run = Msg(v).run
        /\ Readable
        /\ \A v \in Workers : Refreshing(v) => lock = Msg(v).run
    BY DEF ProgressHeld, LockHeld, Undisturbed
  <1>2. start' = start /\ progress'.run = progress.run
        /\ \A v \in Workers \ {w} : worker'[v] = worker[v]
    BY <1>0 DEF WorkerEffect
  <1>3. lock' = lock \/ lock' = NoRun
    BY <1>0, WorkerHolds
  <1>4. Readable'
    <2>1. CASE progress' = progress
      BY <1>1, <2>1 DEF Readable, NoProgress
    <2>2. CASE Refreshing(w)
      <3>1. progress.run = Msg(w).run /\ Msg(w).run \in Runs
        BY <1>0, <1>1, <2>2 DEF Live, Refreshing
      <3>2. QED
        BY <1>0, <1>2, <3>1 DEF Readable
    <2>3. QED
      BY <1>0, <2>1, <2>2, WorkerHolds
  <1>5. ASSUME NEW m \in Message, queue'[m] > 0, lock' = m.run
        PROVE  progress'.run = m.run
    <2>0. lock = m.run
      BY <1>0, <1>3, <1>5
    <2>1. CASE queue[m] > 0
      BY <1>1, <1>2, <2>0, <2>1
    <2>2. CASE ~(queue[m] > 0)
      <3>1. queue' # queue
        BY <1>5, <2>2
      <3>2. Live(w) /\ m.run = Msg(w).run
        <4>1. CASE \E n \in Message : queue[n] > 0 /\ queue' = [queue EXCEPT ![n] = @ - 1]
          <5>1. PICK n \in Message : queue[n] > 0 /\ queue' = [queue EXCEPT ![n] = @ - 1]
            BY <4>1
          <5>2. queue'[m] <= queue[m]
            BY <1>0, <5>1
          <5>3. queue[m] \in Nat /\ queue'[m] \in Nat
            BY <1>0 DEF TypeOK
          <5>4. QED
            BY <1>5, <2>2, <5>2, <5>3
        <4>2. CASE \E n \in Message : Send(n) /\ Live(w) /\ n.run = Msg(w).run
          <5>1. PICK n \in Message : Send(n) /\ Live(w) /\ n.run = Msg(w).run
            BY <4>2
          <5>2. m = n
            BY <1>0, <1>5, <2>2, <5>1 DEF Send
          <5>3. QED
            BY <5>1, <5>2
        <4>3. QED
          BY <1>0, <3>1, <4>1, <4>2, WorkerTickets
      <3>3. QED
        BY <1>1, <1>2, <2>0, <3>2
    <2>3. QED
      BY <2>1, <2>2
  <1>6. ASSUME NEW v \in Workers, Live(v)', lock' = worker'[v].msg.run
        PROVE  progress'.run = worker'[v].msg.run
    <2>0. lock = worker'[v].msg.run
      BY <1>0, <1>3, <1>6 DEF Live
    <2>1. CASE v # w
      BY <1>1, <1>2, <1>6, <2>0, <2>1 DEF Live, Msg
    <2>2. CASE v = w
      <3>1. CASE Live(w) /\ worker'[w].msg = worker[w].msg
        BY <1>1, <1>2, <2>0, <2>2, <3>1 DEF Msg
      <3>2. CASE \E m \in Message : queue[m] > 0 /\ worker'[w].msg = m
        BY <1>1, <1>2, <2>0, <2>2, <3>2
      <3>3. QED
        BY <1>0, <1>6, <2>2, <3>1, <3>2, WorkerTickets
    <2>3. QED
      BY <2>1, <2>2
  <1>7. QED
    BY <1>1, <1>2, <1>4, <1>5, <1>6 DEF ProgressHeld, Msg

\* A start request has the lock when it clears and begins the progress, and no
\* other run that needs it is on its way.
LEMMA StartKeepsProgress ==
  ASSUME VisitInv, LockHeld, ProgressHeld, NEW p \in Runs,
         TakeLock(p) \/ StartStep(p) \/ StartFails(p),
         {"crash", "expiry", "forgotten"} \cap struck = {}
  PROVE  ProgressHeld'
  <1>0. /\ TypeOK /\ NoRun \notin Runs /\ \A m \in Message : m.run \in Runs
        /\ start \in [Runs -> StartSteps] /\ queue \in [Message -> Nat]
        /\ \A v \in Workers : worker[v].pc # "idle" => Msg(v).run \in Runs
    BY ConstantsAssumption DEF VisitInv, TypeOK, Message, Msg
  <1>1. /\ \A r \in Runs : start[r] = "dispatch" => progress.run = r
        /\ \A m \in Message : queue[m] > 0 /\ lock = m.run => progress.run = m.run
        /\ \A v \in Workers : Live(v) /\ lock = Msg(v).run => progress.run = Msg(v).run
        /\ Readable
        /\ \A r \in Runs : start[r] \in {"count", "clear", "begin", "dispatch"} => lock = r
    BY DEF ProgressHeld, LockHeld, Undisturbed
  <1>2. /\ start[p] # "end" /\ worker' = worker
        /\ \A r \in Runs \ {p} : start'[r] = start[r]
    BY <1>0 DEF TakeLock, StartStep, StartFails, CountDocuments, ClearProgress, BeginProgress,
       DispatchFirst, StartGoto, UnchangedByStart
  <1>3. /\ \A m \in Message : m.run = p => queue[m] = 0
        /\ \A w \in Workers : worker[w].pc # "idle" => Msg(w).run # p
    BY <1>2 DEF VisitInv, RunInv
  <1>4. CASE TakeLock(p)
    <2>1. /\ UNCHANGED <<progress, queue>> /\ start'[p] # "dispatch"
          /\ lock' = p \/ lock' = lock
      BY <1>0, <1>4 DEF TakeLock, StartGoto
    <2>2. QED
      BY <1>0, <1>1, <1>2, <1>3, <2>1 DEF ProgressHeld, Readable, NoProgress, Live, Msg
  <1>5. CASE CountDocuments(p) \/ StartFails(p)
    <2>1. UNCHANGED <<progress, queue, lock>> /\ start'[p] # "dispatch"
      BY <1>0, <1>5 DEF CountDocuments, StartFails, StartGoto
    <2>2. QED
      BY <1>1, <1>2, <2>1 DEF ProgressHeld, Readable, NoProgress, Live, Msg
  <1>6. CASE ClearProgress(p) \/ BeginProgress(p)
    <2>1. /\ UNCHANGED <<queue, lock>> /\ start[p] \in {"clear", "begin"}
          /\ \/ progress' = NoProgress /\ start'[p] # "dispatch"
             \/ progress'.run = p
      BY <1>0, <1>6 DEF ClearProgress, BeginProgress, StartGoto
    <2>2. /\ lock = p /\ \A r \in Runs \ {p} : start[r] # "dispatch"
      BY <1>1, <2>1
    <2>3. Readable'
      <3>1. CASE progress' = NoProgress
        BY <3>1 DEF Readable, NoProgress
      <3>2. CASE progress'.run = p
        BY <1>0, <3>2 DEF Readable
      <3>3. QED
        BY <2>1, <3>1, <3>2
    <2>4. QED
      BY <1>0, <1>2, <1>3, <2>1, <2>2, <2>3 DEF ProgressHeld, Live, Msg
  <1>7. CASE DispatchFirst(p)
    <2>1. PICK m \in Message : m.run = p /\ Send(m)
      <3>1. [run |-> p, after |-> 0, retries |-> 0] \in Message
        BY Constants DEF Message
      <3>2. QED
        BY <1>7, <3>1 DEF DispatchFirst
    <2>2. UNCHANGED <<progress, lock>> /\ start[p] = "dispatch" /\ start'[p] = "end"
      BY <1>0, <1>7 DEF DispatchFirst, StartGoto
    <2>3. \A n \in Message : queue'[n] > 0 => queue[n] > 0 \/ n.run = p
      BY <1>0, <2>1 DEF Send
    <2>4. QED
      BY <1>1, <1>2, <2>2, <2>3 DEF ProgressHeld, Readable, NoProgress, Live, Msg
  <1>8. QED
    BY <1>4, <1>5, <1>6, <1>7 DEF StartStep

LEMMA ProgressStep ==
  ASSUME VisitInv, LockHeld, ProgressHeld, [Next]_vars
  PROVE  ProgressHeld'
  <1>1. CASE {"crash", "expiry", "forgotten"} \cap struck' # {}
    BY <1>1 DEF ProgressHeld, Undisturbed
  <1> SUFFICES ASSUME {"crash", "expiry", "forgotten"} \cap struck' = {} PROVE ProgressHeld'
    BY <1>1
  <1>2. {"crash", "expiry", "forgotten"} \cap struck = {} /\ "crash" \notin struck'
    BY StruckGrows
  <1>3. ASSUME NEW w \in Workers, BatchStep(w) \/ BatchFault(w) PROVE ProgressHeld'
    BY <1>2, <1>3, WorkerKeepsProgress
  <1>4. ASSUME NEW p \in Runs, TakeLock(p) \/ StartStep(p) \/ StartFails(p) PROVE ProgressHeld'
    BY <1>2, <1>4, StartKeepsProgress
  <1>5. CASE UNCHANGED <<lock, progress, start, queue, worker>>
    BY <1>2, <1>5 DEF ProgressHeld, Undisturbed, Readable, NoProgress, Live, Msg
  <1>6. ~LockExpires /\ ~ProgressExpires
    BY DEF LockExpires, ProgressExpires, Strike
  <1>7. QED
    BY <1>3, <1>4, <1>5, <1>6
    DEF Next, vars, docVars, IngestBegins, DocumentIngested, DocumentDeleted, LoadMissing,
        FillMissing, UnchangedByOthers

\* Progress that was done stays so as long as its run and its counters do, and
\* the run has no more to refresh than before.
LEMMA DoneStays ==
  ASSUME TypeOK, TypeOK', DoneCountsEveryDocument, struck \subseteq struck',
         progress'.state = "done" /\ progress'.run # NoRun =>
           /\ progress.state = "done" /\ progress'.run = progress.run
           /\ progress.done + progress.failed <= progress'.done + progress'.failed
           /\ stayed'[progress.run] \subseteq stayed[progress.run],
         \A r \in Runs : start'[r] = "new" => start[r] = "new"
  PROVE  DoneCountsEveryDocument'
  <1> SUFFICES ASSUME progress'.state = "done", progress'.run # NoRun,
                      {"expiry", "forgotten"} \cap struck' = {},
                      \/ {"crash"} \cap struck' = {}
                      \/ \A r \in Runs \ {progress'.run} : start'[r] = "new"
      PROVE  progress'.done + progress'.failed >=
               Cardinality(stayed'[progress'.run])
    BY DEF DoneCountsEveryDocument, Undisturbed
  <1> DEFINE due == stayed[progress.run]
             due2 == stayed'[progress'.run]
  <1>1. progress.done + progress.failed >= Cardinality(due)
    BY DEF DoneCountsEveryDocument, Undisturbed
  <1>2. due \subseteq Docs /\ due2 \subseteq due
    BY DEF TypeOK, Progress
  <1>3. /\ progress.done + progress.failed \in Nat
        /\ progress'.done + progress'.failed \in Nat
    BY DEF TypeOK, Progress
  <1>4. progress.done + progress.failed <= progress'.done + progress'.failed
    OBVIOUS
  <1> HIDE DEF due, due2
  <1>5. /\ Cardinality(due2) <= Cardinality(due)
        /\ Cardinality(due) \in Nat /\ Cardinality(due2) \in Nat
    BY <1>2, CardinalityGrows, DocsFinite
  <1>6. progress'.done + progress'.failed >= Cardinality(due2)
    BY <1>1, <1>3, <1>4, <1>5
  <1>7. QED
    BY <1>6 DEF due2

LEMMA DoneStep ==
  ASSUME VisitInv, VisitInv', LockHeld, ProgressHeld, DoneCountsEveryDocument, [Next]_vars
  PROVE  DoneCountsEveryDocument'
  <1>0. TypeOK /\ TypeOK' /\ struck \subseteq struck' /\ NoRun \notin Runs
    BY StruckGrows, ConstantsAssumption DEF VisitInv
  <1>1. ASSUME NEW w \in Workers, FinishProgress(w) PROVE DoneCountsEveryDocument'
    <2>1. /\ worker[w].pc = "finish" /\ progress'.run = progress.run
          /\ progress'.done + progress'.failed = progress.done + progress.failed
          /\ UNCHANGED <<eligible, stayed, start, struck>>
      BY <1>0, <1>1 DEF FinishProgress, At, UnchangedByBatch, TypeOK, Progress
    <2>2. Accounted(Msg(w).run, Docs) /\ Msg(w).run \in Runs
      BY <2>1 DEF VisitInv, BatchInv, TypeOK, Message, Msg
    <2> SUFFICES ASSUME {"expiry", "forgotten"} \cap struck = {},
                        \/ {"crash"} \cap struck = {}
                        \/ \A r \in Runs \ {progress.run} : start[r] = "new"
        PROVE  progress.done + progress.failed >= Cardinality(stayed[progress.run])
      BY <2>1 DEF DoneCountsEveryDocument, Undisturbed
    <2>3. progress.run = Msg(w).run
      <3>1. CASE {"crash"} \cap struck = {}
        <4>1. lock = Msg(w).run
          BY <2>1, <3>1 DEF LockHeld, Undisturbed, Refreshing
        <4>2. QED
          BY <2>1, <3>1, <4>1 DEF ProgressHeld, Undisturbed, Live
      <3>2. CASE \A r \in Runs \ {progress.run} : start[r] = "new"
        BY <2>1, <2>2, <3>2 DEF VisitInv, RunInv
      <3>3. QED
        BY <3>1, <3>2
    <2>4. /\ progress.done + progress.failed \in Nat
          /\ stayed[progress.run] \subseteq Docs
          /\ stayed[progress.run] \cap Docs = stayed[progress.run]
      BY <1>0, <2>2, <2>3 DEF TypeOK, Progress
    <2>5. Cardinality(stayed[progress.run]) <= progress.done + progress.failed
      BY <2>2, <2>3, <2>4 DEF Accounted, Covered
    <2>6. Cardinality(stayed[progress.run]) \in Nat
      BY <2>4, DocsFinite
    <2>7. QED
      BY <2>4, <2>5, <2>6
  <1>2. ASSUME NEW w \in Workers, BatchStep(w) \/ BatchFault(w), ~FinishProgress(w)
        PROVE  DoneCountsEveryDocument'
    <2>1. WorkerEffect(w)
      BY <1>0, <1>2, TypeWorker
    <2>2. progress'.state = progress.state
      BY <1>0, <1>2 DEF BatchStep, BatchFault, Deliver, CheckLock, LoadBatch, RefreshDocument,
         CountDocument, KeepInsights, DocumentGone, EndBatch, SendNext, CompareLock, DropLock,
         Report, SendRetry, GiveUp, Acknowledge, BatchFails, BatchKilled, SendFails, WorkerDies,
         TypeOK, Progress
    <2>3. QED
      BY <1>0, <2>1, <2>2, DoneStays DEF WorkerEffect
  <1>3. ASSUME NEW p \in Runs, TakeLock(p) \/ StartStep(p) \/ StartFails(p)
        PROVE  DoneCountsEveryDocument'
    <2>1. /\ eligible' = eligible
          /\ \A r \in Runs \ {p} : stayed'[r] = stayed[r]
          /\ \A r \in Runs : start'[r] = "new" => start[r] = "new"
          /\ stayed'[p] = stayed[p] \/ start[p] = "count"
          /\ \/ progress' = progress
             \/ progress'.run = NoRun
             \/ progress'.state = "running"
      BY <1>0, <1>3 DEF TakeLock, StartStep, StartFails, CountDocuments, ClearProgress,
         BeginProgress, DispatchFirst, UnchangedByStart, StartGoto, docVars, history, TypeOK,
         NoProgress
    <2>2. start[p] = "count" => progress.run # p
      BY DEF VisitInv, RunInv
    <2>3. progress.run \in Runs \cup {NoRun} /\ progress.done + progress.failed \in Nat
      BY <1>0 DEF TypeOK, Progress
    <2>4. progress'.state = "done" /\ progress'.run # NoRun =>
            progress' = progress /\ stayed'[progress.run] = stayed[progress.run]
      BY <2>1, <2>2, <2>3
    <2>5. QED
      BY <1>0, <2>1, <2>3, <2>4, DoneStays
  <1>4. ASSUME OtherStep PROVE DoneCountsEveryDocument'
    <2>1. /\ UNCHANGED start
          /\ progress' = progress \/ progress'.run = NoRun
      BY <1>0, <1>4, OtherEffect DEF NoProgress
    <2>2. progress.run \in Runs \cup {NoRun} /\ progress.done + progress.failed \in Nat
      BY <1>0 DEF TypeOK, Progress
    <2>3. progress.run \in Runs =>
            stayed'[progress.run] \subseteq stayed[progress.run]
      BY <1>0, <1>4, OtherEffect
    <2>4. progress'.state = "done" /\ progress'.run # NoRun =>
            progress' = progress /\ progress.run \in Runs
      BY <2>1, <2>2
    <2>5. QED
      BY <1>0, <2>1, <2>2, <2>3, <2>4, DoneStays
  <1>5. CASE UNCHANGED vars
    BY <1>5 DEF vars, docVars, DoneCountsEveryDocument, Undisturbed
  <1>6. QED
    BY <1>1, <1>2, <1>3, <1>4, <1>5 DEF Next, OtherStep

LEMMA RefreshInit == Init => RefreshInv
  <1> SUFFICES ASSUME Init PROVE RefreshInv
    OBVIOUS
  <1>1. /\ VisitInv /\ \A m \in Message : queue[m] = 0
        /\ \A w \in Workers : ~Live(w) /\ ~Refreshing(w)
    BY VisitInit DEF Init, Live, Refreshing, Idle
  <1>2. OneTicket
    BY <1>1 DEF OneTicket
  <1>3. LockHeld
    BY <1>1 DEF LockHeld, Init
  <1>4. ProgressHeld
    BY <1>1 DEF ProgressHeld, Init, Readable
  <1>5. DoneCountsEveryDocument
    BY DEF DoneCountsEveryDocument, Init, NoProgress
  <1>6. QED
    BY <1>1, <1>2, <1>3, <1>4, <1>5 DEF RefreshInv

LEMMA RefreshStep == RefreshInv /\ [Next]_vars => RefreshInv'
  BY VisitStep, TicketStep, LockStep, ProgressStep, DoneStep DEF RefreshInv

LEMMA RefreshCorrect == Spec => []RefreshInv
  BY RefreshInit, RefreshStep, PTL DEF Spec

\* Progress that says done has counted at least every document that has been
\* eligible ever since its run counted them, unless the lock or the hash expired, or a batch was delivered again
\* after a second run had begun.
THEOREM DoneCountsEverything == Spec => []DoneCountsEveryDocument
  BY RefreshCorrect, PTL DEF RefreshInv

\* No two workers are in a batch at once, unless the lock expired or a worker
\* died: the run of a batch has the lock, and a run is one message.
THEOREM RefreshesAreAlone == Spec => []RefreshesAlone
  <1>1. ASSUME RefreshInv, Undisturbed({"expiry", "crash"}),
               NEW v \in Workers, NEW w \in Workers, Refreshing(v), Refreshing(w)
        PROVE  v = w
    <2>1. lock = Msg(v).run /\ lock = Msg(w).run
      BY <1>1 DEF RefreshInv, LockHeld
    <2>2. Live(v) /\ Live(w) /\ Undisturbed({"crash"})
      BY <1>1 DEF Refreshing, Live, Undisturbed
    <2>3. QED
      BY <1>1, <2>1, <2>2 DEF RefreshInv, OneTicket
  <1>2. RefreshInv => RefreshesAlone
    BY <1>1 DEF RefreshesAlone, Alone
  <1>3. QED
    BY <1>2, RefreshCorrect, PTL

\* A status request finds the progress of a run or none, unless lock or hash
\* expired or a worker died.
THEOREM StatusStaysReadable == Spec => []StatusIsReadable
  <1>1. RefreshInv => StatusIsReadable
    BY DEF RefreshInv, ProgressHeld, StatusIsReadable, Undisturbed
  <1>2. QED
    BY <1>1, RefreshCorrect, PTL

=============================================================================
