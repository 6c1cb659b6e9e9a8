------------------------ MODULE DocumentIngest_proofs -----------------------
(***************************************************************************)
(* Theorems about DocumentIngest, for every set of documents, contents and *)
(* workers, every retry limit and every number of crashes.                 *)
(***************************************************************************)
EXTENDS DocumentIngest, TLAPS

-----------------------------------------------------------------------------
(* Type correctness *)

\* The initial state is well typed.
LEMMA TypeInit == Init => TypeOK
  BY ConstantsAssumption DEF Init, TypeOK, Idle, WorkerState, WorkerSteps,
     UploadSteps, DocStatus, Message

\* Queueing and taking a message leave a bag of messages.
LEMMA QueueTyped ==
  ASSUME TypeOK, NEW m \in Message
  PROVE  /\ Send(m) => queue' \in [Message -> Nat]
         /\ queue[m] > 0 /\ queue' = [queue EXCEPT ![m] = @ - 1]
              => queue' \in [Message -> Nat]
  BY DEF TypeOK, Send

\* The steps of uploads and imports keep the types.
LEMMA TypeUpload ==
  ASSUME TypeOK, NEW d \in Documents, UploadStep(d) \/ UploadCrash(d)
  PROVE  TypeOK'
  <1> USE ConstantsAssumption DEF UploadGoto, UnchangedByUpload, UploadSteps, DocStatus
  <1>1. CASE CheckUpload(d) \/ CheckImport(d)
    BY <1>1 DEF TypeOK, CheckUpload, CheckImport
  <1>2. CASE StageUpload(d) \/ ImportConflict(d)
    BY <1>2 DEF TypeOK, StageUpload, ImportConflict, SaveFile, RemoveFile
  <1>3. CASE InsertDocument(d) \/ UploadConflict(d)
    BY <1>3 DEF TypeOK, InsertDocument, UploadConflict
  <1>4. CASE Dispatch(d)
    <2>1. [doc |-> d, retries |-> 0] \in Message
      BY DEF Message
    <2>2. queue' \in [Message -> Nat]
      BY <1>4, <2>1, QueueTyped DEF Dispatch
    <2>3. QED
      BY <1>4, <2>2 DEF TypeOK, Dispatch
  <1>5. CASE UploadCrash(d)
    BY <1>5 DEF TypeOK, UploadCrash, Crash
  <1>6. QED
    BY <1>1, <1>2, <1>3, <1>4, <1>5 DEF UploadStep

\* The steps of a deletion keep the types.
LEMMA TypeDelete ==
  ASSUME TypeOK, NEW d \in Documents,
         DeleteDocument(d) \/ RemoveDeletedFile(d) \/ DeleteCrash(d)
  PROVE  TypeOK'
  BY ConstantsAssumption DEF TypeOK, DeleteDocument, RemoveDeletedFile,
     DeleteCrash, RemoveFile, Crash

\* The steps of a worker keep the types.
LEMMA TypeTask ==
  ASSUME TypeOK, NEW w \in Workers, TaskStep(w) \/ TaskFault(w)
  PROVE  TypeOK'
  <1> USE ConstantsAssumption DEF UnchangedByWorker, At, Goto, Doc
  <1>0. worker[w] \in WorkerState
    BY DEF TypeOK
  <1>1. ASSUME NEW m \in Message, Deliver(w, m)
        PROVE  TypeOK'
    <2>1. queue' \in [Message -> Nat]
      BY <1>1, QueueTyped DEF Deliver
    <2>2. worker' \in [Workers -> WorkerState]
      BY <1>1 DEF Deliver, TypeOK, WorkerState, WorkerSteps, Message
    <2>3. QED
      BY <1>1, <2>1, <2>2 DEF Deliver, TypeOK, Message
  <1>2. CASE MarkProcessing(w) \/ MarkDeleted(w) \/ MarkOutage(w)
    <2>1. CASE MarkProcessing(w)
      BY <1>0, <2>1 DEF TypeOK, MarkProcessing, WorkerState, WorkerSteps, DocStatus
    <2>2. CASE MarkDeleted(w)
      BY <1>0, <2>2 DEF TypeOK, MarkDeleted, WorkerState, WorkerSteps, DocStatus
    <2>3. CASE MarkOutage(w)
      BY <1>0, <2>3 DEF TypeOK, MarkOutage, WorkerState, WorkerSteps, DocStatus
    <2>4. QED
      BY <1>2, <2>1, <2>2, <2>3
  <1>3. CASE ReadFile(w) \/ StoreChunks(w) \/ StoreFails(w) \/ AwaitTimesOut(w)
    <2>1. CASE ReadFile(w) \/ StoreFails(w)
      BY <1>0, <2>1 DEF TypeOK, ReadFile, StoreFails, Fail, WorkerState, WorkerSteps
    <2>2. CASE StoreChunks(w)
      BY <1>0, <2>2 DEF TypeOK, StoreChunks, Fail, WorkerState, WorkerSteps, DocStatus
    <2>3. CASE AwaitTimesOut(w)
      BY <1>0, <2>3 DEF TypeOK, AwaitTimesOut, WorkerState, WorkerSteps
    <2>4. QED
      BY <1>3, <2>1, <2>2, <2>3
  <1>4. CASE RecordFailure(w) \/ RecordOutage(w) \/ Publish(w) \/ GiveUp(w)
    BY <1>0, <1>4 DEF TypeOK, RecordFailure, RecordOutage, Publish, GiveUp,
       WorkerState, WorkerSteps, DocStatus
  <1>5. CASE SendRetry(w)
    <2>1. [doc |-> Doc(w), retries |-> worker[w].retries + 1] \in Message
      BY <1>0, <1>5 DEF SendRetry, TypeOK, WorkerState, Message
    <2>2. queue' \in [Message -> Nat]
      BY <1>5, <2>1, QueueTyped DEF SendRetry
    <2>3. QED
      BY <1>0, <1>5, <2>2 DEF SendRetry, TypeOK, WorkerState, WorkerSteps
  <1>6. CASE DiscardFile(w) \/ Acknowledge(w) \/ HardTimeLimit(w)
    <2>1. CASE DiscardFile(w)
      BY <1>0, <2>1 DEF TypeOK, DiscardFile, RemoveFile, WorkerState, WorkerSteps
    <2>2. CASE Acknowledge(w)
      BY <1>0, <2>2 DEF TypeOK, Acknowledge, Idle, WorkerState, WorkerSteps
    <2>3. CASE HardTimeLimit(w)
      BY <1>0, <2>3 DEF TypeOK, HardTimeLimit, Idle, WorkerState, WorkerSteps
    <2>4. QED
      BY <1>6, <2>1, <2>2, <2>3
  <1>7. CASE WorkerDies(w)
    <2>1. Held(w) \in Message
      BY <1>0, <1>7 DEF WorkerDies, TypeOK, WorkerState, Message, Held
    <2>2. queue' \in [Message -> Nat]
      BY <1>7, <2>1, QueueTyped DEF WorkerDies
    <2>3. QED
      BY <1>0, <1>7, <2>2 DEF WorkerDies, TypeOK, Idle, WorkerState, WorkerSteps, Crash
  <1>8. QED
    BY <1>1, <1>2, <1>3, <1>4, <1>5, <1>6, <1>7 DEF TaskStep, TaskFault

\* Every variable keeps its type whatever happens.
THEOREM TypeCorrect == Spec => []TypeOK
  <1>1. TypeOK /\ [Next]_vars => TypeOK'
    <2>1. TypeOK /\ UNCHANGED vars => TypeOK'
      BY DEF TypeOK, vars
    <2>2. QED
      BY <2>1, TypeUpload, TypeDelete, TypeTask DEF Next
  <1>2. QED
    BY <1>1, TypeInit, PTL DEF Spec

-----------------------------------------------------------------------------
(* Unique content *)

\* Only an insert creates a row.
LEMMA RowsAppearByInsert ==
  ASSUME TypeOK, [Next]_vars, NEW d \in Documents, Exists(d)'
  PROVE  Exists(d) \/ InsertDocument(d)
  <1> USE DEF Exists
  <1>1. CASE UNCHANGED vars
    BY <1>1 DEF vars
  <1>2. ASSUME NEW e \in Documents, UploadStep(e) \/ UploadCrash(e)
        PROVE  Exists(d) \/ InsertDocument(d)
    <2>1. CASE InsertDocument(e)
      BY <2>1 DEF InsertDocument, TypeOK
    <2>2. CASE ~InsertDocument(e)
      <3>1. UNCHANGED status
        BY <1>2, <2>2 DEF UploadStep, CheckUpload, CheckImport, StageUpload,
           UploadConflict, ImportConflict, Dispatch, UploadCrash
      <3>2. QED
        BY <3>1
    <2>3. QED
      BY <2>1, <2>2
  <1>3. ASSUME NEW e \in Documents,
               DeleteDocument(e) \/ RemoveDeletedFile(e) \/ DeleteCrash(e)
        PROVE  Exists(d)
    BY <1>3 DEF DeleteDocument, RemoveDeletedFile, DeleteCrash, TypeOK
  <1>4. ASSUME NEW w \in Workers, TaskStep(w) \/ TaskFault(w)
        PROVE  Exists(d)
    <2>1. CASE MarkProcessing(w) \/ StoreChunks(w) \/ RecordFailure(w)
      BY <2>1 DEF MarkProcessing, StoreChunks, RecordFailure, TypeOK
    <2>2. CASE UNCHANGED status
      BY <2>2
    <2>3. QED
      BY <1>4, <2>1, <2>2 DEF TaskStep, TaskFault, Deliver, MarkDeleted, ReadFile,
         StoreFails, Publish, SendRetry, GiveUp, DiscardFile, Acknowledge, MarkOutage,
         AwaitTimesOut, RecordOutage, WorkerDies, HardTimeLimit
  <1>5. QED
    BY <1>1, <1>2, <1>3, <1>4 DEF Next

\* Concurrent uploads and imports of one content yield at most one document.
THEOREM ContentIsUnique == Spec => []UniqueContent
  <1>1. Init => UniqueContent
    BY DEF Init, UniqueContent, Exists
  <1>2. TypeOK /\ UniqueContent /\ [Next]_vars => UniqueContent'
    <2> SUFFICES ASSUME TypeOK, UniqueContent, [Next]_vars,
                        NEW d \in Documents, NEW e \in Documents,
                        Exists(d)', Exists(e)', ContentOf[d] = ContentOf[e]
                 PROVE  d = e
      BY DEF UniqueContent, Exists
    <2>1. CASE Exists(d) /\ Exists(e)
      BY <2>1 DEF UniqueContent
    <2>2. CASE InsertDocument(d)
      <3>1. ~Exists(e)
        BY <2>2 DEF InsertDocument, HasContentOf
      <3>2. e # d => ~Exists(e)'
        BY <2>2, <3>1 DEF InsertDocument, Exists, TypeOK
      <3>3. QED
        BY <3>2
    <2>3. CASE InsertDocument(e)
      <3>1. ~Exists(d)
        BY <2>3 DEF InsertDocument, HasContentOf
      <3>2. e # d => ~Exists(d)'
        BY <2>3, <3>1 DEF InsertDocument, Exists, TypeOK
      <3>3. QED
        BY <3>2
    <2>4. QED
      BY <2>1, <2>2, <2>3, RowsAppearByInsert
  <1>3. QED
    BY <1>1, <1>2, TypeCorrect, PTL DEF Spec

-----------------------------------------------------------------------------
(* Nothing is forgotten *)

\* The instance has none of the faults after which nobody answers for a
\* document: a request that dies before it queued the task, a status that
\* could not be written, a task that ends without writing it.
NoLossFaults ==
    Faults \cap {"api_crash", "outage", "slow_embed", "hard_limit"} = {}

\* A worker that dies hands its message back to the queue.
LEMMA DeathRequeues ==
  ASSUME TypeOK, NEW w \in Workers, WorkerDies(w)
  PROVE  /\ Held(w) \in Message
         /\ queue'[Held(w)] > 0
         /\ \A m \in Message : queue[m] > 0 => queue'[m] > 0
  <1>1. worker[w] \in WorkerState /\ Doc(w) \in Documents
    BY DEF TypeOK, WorkerDies, At, Doc
  <1>2. Held(w) \in Message
    BY <1>1 DEF Held, Message, WorkerState, Doc
  <1>3. QED
    BY <1>2 DEF WorkerDies, Send, TypeOK

\* No step of an upload leaves a document that nobody will settle.
LEMMA ForgottenUpload ==
  ASSUME NoLossFaults, TypeOK, NothingForgotten,
         NEW e \in Documents, UploadStep(e) \/ UploadCrash(e)
  PROVE  NothingForgotten'
  <1> USE DEF NothingForgotten, InHand, Queued, Processed, Doc
  <1>1. CASE Dispatch(e)
    <2> DEFINE first == [doc |-> e, retries |-> 0]
    <2>1. first \in Message
      BY ConstantsAssumption DEF Message
    <2>2. \A m \in Message : queue[m] > 0 => queue'[m] > 0
      BY <1>1, <2>1 DEF Dispatch, Send, TypeOK
    <2>3. first.doc = e /\ queue'[first] > 0
      BY <1>1, <2>1 DEF Dispatch, Send, TypeOK
    <2>4. \A d \in Documents : upload[d] = "committed" /\ d # e => upload'[d] = "committed"
      BY <1>1 DEF Dispatch, UploadGoto, TypeOK
    <2>5. QED
      BY <1>1, <2>1, <2>2, <2>3, <2>4 DEF Dispatch, UnchangedByUpload
  <1>2. CASE InsertDocument(e)
    BY <1>2 DEF InsertDocument, UploadGoto, UnchangedByUpload, TypeOK
  <1>3. CASE CheckUpload(e) \/ CheckImport(e) \/ StageUpload(e) \/ UploadConflict(e)
             \/ ImportConflict(e)
    BY <1>3 DEF CheckUpload, CheckImport, StageUpload, UploadConflict, ImportConflict,
       UploadGoto, UnchangedByUpload, TypeOK
  <1>4. ~UploadCrash(e)
    BY DEF NoLossFaults, UploadCrash
  <1>5. QED
    BY <1>1, <1>2, <1>3, <1>4 DEF UploadStep

\* No step of a worker leaves a document that nobody will settle.
LEMMA ForgottenTask ==
  ASSUME NoLossFaults, TypeOK, NothingForgotten,
         NEW w \in Workers, TaskStep(w) \/ TaskFault(w)
  PROVE  NothingForgotten'
  <1> USE DEF NothingForgotten, InHand, Queued, Processed, Doc, UnchangedByWorker
  <1>1. ASSUME NEW m \in Message, Deliver(w, m)
        PROVE  NothingForgotten'
    <2>1. ASSUME NEW d \in Documents, status'[d] \in {"PENDING", "PROCESSING"}
          PROVE  InHand(d)'
      <3>1. status[d] \in {"PENDING", "PROCESSING"} /\ InHand(d)
        BY <1>1, <2>1 DEF Deliver
      <3>2. CASE d = m.doc
        BY <1>1, <3>1, <3>2 DEF Deliver, Exists, TypeOK
      <3>3. CASE d # m.doc
        <4>1. \A n \in Message : n.doc = d /\ queue[n] > 0 => queue'[n] > 0
          BY <1>1, <3>3 DEF Deliver, TypeOK
        <4>2. \A v \in Workers : v # w => worker'[v] = worker[v]
          BY <1>1 DEF Deliver, TypeOK
        <4>3. QED
          BY <1>1, <3>1, <4>1, <4>2 DEF Deliver, At
      <3>4. QED
        BY <3>2, <3>3
    <2>2. QED
      BY <2>1
  <1>2. CASE MarkProcessing(w) \/ MarkDeleted(w)
    <2>1. CASE MarkProcessing(w)
      BY <2>1 DEF MarkProcessing, Exists, At, TypeOK, WorkerState
    <2>2. CASE MarkDeleted(w)
      <3>1. \A v \in Workers : v # w => worker'[v] = worker[v]
        BY <2>2 DEF MarkDeleted, TypeOK
      <3>2. status[worker[w].doc] = "none"
        BY <2>2 DEF MarkDeleted, Exists
      <3>3. status' = status /\ queue' = queue /\ upload' = upload
        BY <2>2 DEF MarkDeleted
      <3>4. QED
        BY <3>1, <3>2, <3>3
    <2>3. QED
      BY <1>2, <2>1, <2>2
  <1>3. CASE ReadFile(w) \/ StoreFails(w)
    <2>1. worker[w] \in WorkerState
      BY DEF TypeOK
    <2>2. worker'[w].doc = worker[w].doc /\ worker'[w].pc \in {"store", "failed"}
      BY <1>3, <2>1 DEF ReadFile, StoreFails, Fail, Goto, TypeOK, WorkerState
    <2>3. \A v \in Workers : v # w => worker'[v] = worker[v]
      BY <1>3 DEF ReadFile, StoreFails, Fail, Goto, TypeOK
    <2>4. status' = status /\ queue' = queue /\ upload' = upload
      BY <1>3 DEF ReadFile, StoreFails
    <2>5. QED
      BY <2>2, <2>3, <2>4
  <1>10. CASE StoreChunks(w)
    BY <1>10 DEF StoreChunks, Goto, At, TypeOK, WorkerState
  <1>4. CASE RecordFailure(w)
    BY <1>4 DEF RecordFailure, Exists, At, TypeOK, WorkerState
  <1>5. CASE Publish(w) \/ GiveUp(w) \/ DiscardFile(w) \/ Acknowledge(w)
    <2>1. CASE Publish(w)
      BY <2>1 DEF Publish, Goto, At, TypeOK, WorkerState
    <2>2. CASE GiveUp(w)
      BY <2>2 DEF GiveUp, Goto, At, TypeOK, WorkerState
    <2>3. CASE DiscardFile(w)
      BY <2>3 DEF DiscardFile, Goto, At, TypeOK, WorkerState
    <2>4. CASE Acknowledge(w)
      BY <2>4 DEF Acknowledge, At, TypeOK, WorkerState
    <2>5. QED
      BY <1>5, <2>1, <2>2, <2>3, <2>4
  <1>6. CASE SendRetry(w)
    <2> DEFINE again == [doc |-> Doc(w), retries |-> worker[w].retries + 1]
    <2>1. again \in Message
      BY <1>6, ConstantsAssumption DEF SendRetry, TypeOK, WorkerState, Message, At
    <2>2. \A m \in Message : queue[m] > 0 => queue'[m] > 0
      BY <1>6, <2>1 DEF SendRetry, Send, TypeOK
    <2>3. QED
      BY <1>6, <2>2 DEF SendRetry, Goto, At, TypeOK, WorkerState
  <1>7. CASE WorkerDies(w)
    <2>1. Held(w) \in Message /\ Held(w).doc = Doc(w) /\ queue'[Held(w)] > 0
      BY <1>7, DeathRequeues DEF Held
    <2>2. \A m \in Message : queue[m] > 0 => queue'[m] > 0
      BY <1>7, DeathRequeues
    <2>3. \A v \in Workers : v # w => worker'[v] = worker[v]
      BY <1>7 DEF WorkerDies, TypeOK
    <2>4. QED
      BY <1>7, <2>1, <2>2, <2>3 DEF WorkerDies
  <1>8. ~(MarkOutage(w) \/ AwaitTimesOut(w) \/ RecordOutage(w) \/ HardTimeLimit(w))
    BY DEF NoLossFaults, MarkOutage, AwaitTimesOut, RecordOutage, HardTimeLimit
  <1>9. QED
    BY <1>1, <1>2, <1>3, <1>4, <1>5, <1>6, <1>7, <1>8, <1>10 DEF TaskStep, TaskFault

\* Without those faults a PENDING or PROCESSING document always has a message,
\* a worker or its own request to settle it, however often workers die.
THEOREM NothingIsForgotten == NoLossFaults => (Spec => []NothingForgotten)
  <1> SUFFICES ASSUME NoLossFaults PROVE Spec => []NothingForgotten
    OBVIOUS
  <1>1. Init => NothingForgotten
    BY DEF Init, NothingForgotten
  <1>2. TypeOK /\ NothingForgotten /\ [Next]_vars => NothingForgotten'
    <2> SUFFICES ASSUME TypeOK, NothingForgotten, [Next]_vars PROVE NothingForgotten'
      OBVIOUS
    <2>1. CASE UNCHANGED vars
      BY <2>1 DEF vars, NothingForgotten, InHand, Queued, Processed, Doc
    <2>2. ASSUME NEW d \in Documents,
                 DeleteDocument(d) \/ RemoveDeletedFile(d) \/ DeleteCrash(d)
          PROVE  NothingForgotten'
      BY <2>2 DEF DeleteDocument, RemoveDeletedFile, DeleteCrash, TypeOK,
         NothingForgotten, InHand, Queued, Processed, Doc
    <2>3. QED
      BY <2>1, <2>2, ForgottenUpload, ForgottenTask DEF Next
  <1>3. QED
    BY <1>1, <1>2, TypeCorrect, PTL DEF Spec

-----------------------------------------------------------------------------
(* One ticket per document *)

\* A step that neither queues nor uploads keeps the tickets if every worker
\* still active was active on the same document before.
LEMMA TicketsKept ==
  ASSUME OneTicket, UNCHANGED <<queue, upload>>,
         \A v \in Workers : Active(v)' => Active(v) /\ Doc(v)' = Doc(v)
  PROVE  OneTicket'
  BY DEF OneTicket

\* What a step of a worker that leaves the queue alone does to the workers.
LEMMA WorkerAlone ==
  ASSUME TypeOK, NEW w \in Workers,
         \/ MarkProcessing(w) \/ MarkDeleted(w) \/ MarkOutage(w)
         \/ ReadFile(w) \/ StoreChunks(w) \/ StoreFails(w) \/ AwaitTimesOut(w)
         \/ RecordFailure(w) \/ RecordOutage(w) \/ Publish(w) \/ GiveUp(w)
         \/ DiscardFile(w) \/ Acknowledge(w) \/ HardTimeLimit(w)
  PROVE  /\ UNCHANGED <<queue, upload, deleter>>
         /\ \A v \in Workers : v # w => worker'[v] = worker[v]
         /\ \A v \in Workers : Active(v)' => Active(v) /\ Doc(v)' = Doc(v)
  <1> USE DEF UnchangedByWorker, Active, Doc, At, Goto, TypeOK, WorkerState
  <1>1. CASE MarkProcessing(w) \/ MarkDeleted(w) \/ MarkOutage(w)
    BY <1>1 DEF MarkProcessing, MarkDeleted, MarkOutage
  <1>2. CASE ReadFile(w) \/ StoreFails(w)
    <2>1. worker[w] \in WorkerState /\ worker[w].pc \in {"ingest", "store"}
      BY <1>2 DEF ReadFile, StoreFails
    <2>2. worker'[w].doc = worker[w].doc
      BY <1>2, <2>1 DEF ReadFile, StoreFails, Fail
    <2>3. \A v \in Workers : v # w => worker'[v] = worker[v]
      BY <1>2 DEF ReadFile, StoreFails, Fail
    <2>4. UNCHANGED <<queue, upload, deleter>>
      BY <1>2 DEF ReadFile, StoreFails
    <2>5. QED
      BY <2>1, <2>2, <2>3, <2>4
  <1>3. CASE StoreChunks(w) \/ AwaitTimesOut(w)
    BY <1>3 DEF StoreChunks, AwaitTimesOut
  <1>4. CASE RecordFailure(w) \/ RecordOutage(w)
    BY <1>4 DEF RecordFailure, RecordOutage
  <1>5. CASE Publish(w) \/ GiveUp(w) \/ DiscardFile(w)
    BY <1>5 DEF Publish, GiveUp, DiscardFile
  <1>6. CASE Acknowledge(w) \/ HardTimeLimit(w)
    BY <1>6 DEF Acknowledge, HardTimeLimit, Idle
  <1>7. QED
    BY <1>1, <1>2, <1>3, <1>4, <1>5, <1>6

\* A request queues its document's only message.
LEMMA TicketsUpload ==
  ASSUME TypeOK, OneTicket, NEW e \in Documents, UploadStep(e) \/ UploadCrash(e)
  PROVE  OneTicket'
  <1> USE DEF UploadGoto, UnchangedByUpload
  <1>1. CASE Dispatch(e)
    <2> DEFINE first == [doc |-> e, retries |-> 0]
    <2>1. first \in Message
      BY ConstantsAssumption DEF Message
    <2>2. /\ \A m \in Message : m.doc = e => queue[m] = 0
          /\ \A w \in Workers : Active(w) => Doc(w) # e
      BY <1>1 DEF Dispatch, OneTicket, TypeOK
    <2>3. queue' = [queue EXCEPT ![first] = @ + 1]
      BY <1>1 DEF Dispatch, Send
    <2>4. upload' = [upload EXCEPT ![e] = "queued"] /\ worker' = worker
      BY <1>1 DEF Dispatch
    <2>5. \A m \in Message : m # first => queue'[m] = queue[m]
      BY <2>3 DEF TypeOK
    <2>6. first.doc = e
      OBVIOUS
    <2>7. \A d \in Documents : upload[d] = "queued" => upload'[d] = "queued"
      BY <2>4 DEF TypeOK
    <2>8. upload'[e] = "queued"
      BY <2>4 DEF TypeOK
    <2>9. \A w \in Workers : (Active(w)' <=> Active(w)) /\ Doc(w)' = Doc(w)
      BY <2>4 DEF Active, Doc
    <2>10. (\A m \in Message : m.doc \in Documents) /\
           (\A w \in Workers : Active(w) => Doc(w) \in Documents)
      BY DEF Message, TypeOK, Active, Doc
    <2> HIDE DEF first
    <2>11. queue'[first] = 1
      BY <2>1, <2>2, <2>3, <2>6 DEF TypeOK
    <2>12. QED
      BY <2>1, <2>2, <2>5, <2>6, <2>11, <2>7, <2>8, <2>9, <2>10 DEF OneTicket
  <1>2. CASE ~Dispatch(e)
    <2>1. /\ queue' = queue /\ worker' = worker
          /\ upload[e] # "queued"
          /\ \A d \in Documents : d # e => upload'[d] = upload[d]
      BY <1>2 DEF UploadStep, CheckUpload, CheckImport, StageUpload, InsertDocument,
         UploadConflict, ImportConflict, UploadCrash, TypeOK
    <2>2. \A d \in Documents : upload[d] = "queued" => upload'[d] = "queued"
      BY <2>1
    <2>3. (\A m \in Message : m.doc \in Documents) /\
          (\A w \in Workers : Active(w) => Doc(w) \in Documents)
      BY DEF Message, TypeOK, Active, Doc
    <2>4. QED
      BY <2>1, <2>2, <2>3 DEF OneTicket, Active, Doc
  <1>3. QED
    BY <1>1, <1>2

\* A delivery, a retry and a death pass the document's only message on.
LEMMA TicketsTask ==
  ASSUME "crash_resent" \notin Faults, TypeOK, OneTicket,
         NEW w \in Workers, TaskStep(w) \/ TaskFault(w)
  PROVE  OneTicket'
  <1> USE DEF UnchangedByWorker
  <1>1. ASSUME NEW m \in Message, Deliver(w, m)
        PROVE  OneTicket'
    <2>1. queue[m] = 1
      BY <1>1 DEF Deliver, OneTicket, TypeOK
    <2>2. queue' = [queue EXCEPT ![m] = 0] /\ upload' = upload
      BY <1>1, <2>1 DEF Deliver, TypeOK
    <2>3. \A n \in Message : n.doc = m.doc => queue'[n] = 0
      BY <2>1, <2>2 DEF OneTicket, TypeOK
    <2>4. \A n \in Message : queue'[n] > 0 => queue[n] > 0 /\ queue'[n] = queue[n]
      BY <2>2 DEF TypeOK
    <2>5. \A v \in Workers : Active(v) => Doc(v) # m.doc
      BY <2>1 DEF OneTicket
    <2>6. \A v \in Workers : v # w => (Active(v)' <=> Active(v)) /\ Doc(v)' = Doc(v)
      BY <1>1 DEF Deliver, TypeOK, Active, Doc
    <2>7. Doc(w)' = m.doc
      BY <1>1 DEF Deliver, TypeOK, Doc
    <2>8. upload[m.doc] = "queued"
      BY <2>1 DEF OneTicket
    <2>9. \A n \in Message : queue'[n] \in Nat
      BY <2>2 DEF TypeOK
    <2>10. QED
      BY <2>2, <2>3, <2>4, <2>5, <2>6, <2>7, <2>8, <2>9 DEF OneTicket
  <1>2. CASE SendRetry(w)
    <2> DEFINE again == [doc |-> Doc(w), retries |-> worker[w].retries + 1]
    <2>1. again \in Message /\ again.doc = Doc(w)
      BY <1>2, ConstantsAssumption DEF SendRetry, TypeOK, WorkerState, Message, At, Doc
    <2>2. Active(w)
      BY <1>2 DEF SendRetry, At, Active
    <2>3. /\ ~Active(w)'
          /\ \A v \in Workers : v # w => (Active(v)' <=> Active(v)) /\ Doc(v)' = Doc(v)
      BY <1>2 DEF SendRetry, Goto, Active, Doc, TypeOK, WorkerState
    <2>4. /\ upload' = upload
          /\ queue' = [queue EXCEPT ![again] = @ + 1]
      BY <1>2 DEF SendRetry, Send
    <2> HIDE DEF again
    <2>5. \A n \in Message : n.doc = Doc(w) => queue[n] = 0
      BY <2>2 DEF OneTicket
    <2>6. queue'[again] = 1 /\ \A n \in Message : n # again => queue'[n] = queue[n]
      BY <2>1, <2>4, <2>5 DEF TypeOK
    <2>7. upload[Doc(w)] = "queued"
      BY <2>2 DEF OneTicket
    <2>8. \A v \in Workers : Active(v) /\ v # w => Doc(v) # Doc(w)
      BY <2>2 DEF OneTicket
    <2>9. QED
      BY <2>1, <2>3, <2>4, <2>5, <2>6, <2>7, <2>8 DEF OneTicket
  <1>3. CASE WorkerDies(w)
    <2> DEFINE mine == Held(w)
    <2>1. mine \in Message /\ mine.doc = Doc(w)
      BY <1>3, DeathRequeues DEF Held, Doc
    <2>2. Active(w)
      BY <1>3 DEF WorkerDies, At, Active, CrashKind
    <2>3. /\ ~Active(w)'
          /\ \A v \in Workers : v # w => (Active(v)' <=> Active(v)) /\ Doc(v)' = Doc(v)
      BY <1>3 DEF WorkerDies, Idle, Active, Doc, TypeOK, WorkerState
    <2>4. /\ upload' = upload
          /\ queue' = [queue EXCEPT ![mine] = @ + 1]
      BY <1>3 DEF WorkerDies, Send
    <2> HIDE DEF mine
    <2>5. \A n \in Message : n.doc = Doc(w) => queue[n] = 0
      BY <2>2 DEF OneTicket
    <2>6. queue'[mine] = 1 /\ \A n \in Message : n # mine => queue'[n] = queue[n]
      BY <2>1, <2>4, <2>5 DEF TypeOK
    <2>7. upload[Doc(w)] = "queued"
      BY <2>2 DEF OneTicket
    <2>8. \A v \in Workers : Active(v) /\ v # w => Doc(v) # Doc(w)
      BY <2>2 DEF OneTicket
    <2>9. QED
      BY <2>1, <2>3, <2>4, <2>5, <2>6, <2>7, <2>8 DEF OneTicket
  <1>4. QED
    BY <1>1, <1>2, <1>3, WorkerAlone, TicketsKept DEF TaskStep, TaskFault

\* As long as no worker dies between sending a retry and acknowledging the
\* message it retries, no document is in the hands of two workers or both in
\* the queue and in a worker's hands.
THEOREM TicketIsUnique == "crash_resent" \notin Faults => (Spec => []OneTicket)
  <1> SUFFICES ASSUME "crash_resent" \notin Faults PROVE Spec => []OneTicket
    OBVIOUS
  <1>1. Init => OneTicket
    BY DEF Init, OneTicket, Active, Idle
  <1>2. TypeOK /\ OneTicket /\ [Next]_vars => OneTicket'
    <2> SUFFICES ASSUME TypeOK, OneTicket, [Next]_vars PROVE OneTicket'
      OBVIOUS
    <2>1. CASE UNCHANGED vars
      BY <2>1 DEF vars, OneTicket, Active, Doc
    <2>2. ASSUME NEW d \in Documents,
                 DeleteDocument(d) \/ RemoveDeletedFile(d) \/ DeleteCrash(d)
          PROVE  OneTicket'
      BY <2>2 DEF DeleteDocument, RemoveDeletedFile, DeleteCrash, OneTicket, Active, Doc
    <2>3. QED
      BY <2>1, <2>2, TicketsUpload, TicketsTask DEF Next
  <1>3. QED
    BY <1>1, <1>2, TypeCorrect, PTL DEF Spec

-----------------------------------------------------------------------------
(* Chunks match the status *)

\* What a step of the API requests means for the workers: nothing changes for
\* a document in a worker's hands, unless it is deleted.
LEMMA RowsUpload ==
  ASSUME TypeOK, OneTicket, NEW d \in Documents,
         \/ UploadStep(d) \/ UploadCrash(d)
         \/ DeleteDocument(d) \/ RemoveDeletedFile(d) \/ DeleteCrash(d)
  PROVE  /\ worker' = worker
         /\ \A w \in Workers :
              Active(w) => status'[Doc(w)] \in {status[Doc(w)], "none"}
  <1>1. worker' = worker
    BY DEF UploadStep, CheckUpload, CheckImport, StageUpload, InsertDocument,
       UploadConflict, ImportConflict, Dispatch, UploadCrash, DeleteDocument,
       RemoveDeletedFile, DeleteCrash, UnchangedByUpload
  <1>2. CASE InsertDocument(d)
    <2>1. \A w \in Workers : Active(w) => Doc(w) # d
      BY <1>2 DEF InsertDocument, OneTicket
    <2>2. \A w \in Workers : Active(w) => Doc(w) \in Documents
      BY DEF TypeOK, Active, Doc
    <2>3. QED
      BY <1>1, <1>2, <2>1, <2>2 DEF InsertDocument, TypeOK
  <1>3. CASE DeleteDocument(d)
    <2>1. \A w \in Workers : Active(w) => Doc(w) \in Documents
      BY DEF TypeOK, Active, Doc
    <2>2. QED
      BY <1>1, <1>3, <2>1 DEF DeleteDocument, TypeOK
  <1>4. CASE ~InsertDocument(d) /\ ~DeleteDocument(d)
    <2>1. status' = status
      BY <1>4 DEF UploadStep, CheckUpload, CheckImport, StageUpload, UploadConflict,
         ImportConflict, Dispatch, UploadCrash, RemoveDeletedFile, DeleteCrash
    <2>2. QED
      BY <1>1, <2>1
  <1>5. QED
    BY <1>2, <1>3, <1>4

\* A worker's step touches its own state, and of the rows only its document's.
LEMMA RowsTask ==
  ASSUME TypeOK, NEW w \in Workers, TaskStep(w) \/ TaskFault(w)
  PROVE  /\ \A v \in Workers : v # w => worker'[v] = worker[v]
         /\ \A d \in Documents : ~(Active(w) /\ d = Doc(w)) =>
              status'[d] = status[d] /\ chunks'[d] = chunks[d]
  <1> USE DEF Active, Doc, At, Goto, TypeOK, UnchangedByWorker
  <1>1. ASSUME NEW m \in Message, Deliver(w, m)
        PROVE  UNCHANGED <<status, chunks>> /\ \A v \in Workers : v # w => worker'[v] = worker[v]
    BY <1>1 DEF Deliver
  <1>2. CASE MarkProcessing(w) \/ StoreChunks(w) \/ RecordFailure(w)
    BY <1>2 DEF MarkProcessing, StoreChunks, RecordFailure
  <1>3. CASE MarkDeleted(w) \/ MarkOutage(w) \/ RecordOutage(w)
    BY <1>3 DEF MarkDeleted, MarkOutage, RecordOutage
  <1>4. CASE ReadFile(w) \/ StoreFails(w) \/ AwaitTimesOut(w)
    BY <1>4 DEF ReadFile, StoreFails, AwaitTimesOut, Fail
  <1>5. CASE Publish(w) \/ SendRetry(w) \/ GiveUp(w) \/ DiscardFile(w)
    BY <1>5 DEF Publish, SendRetry, GiveUp, DiscardFile
  <1>6. CASE Acknowledge(w) \/ WorkerDies(w) \/ HardTimeLimit(w)
    BY <1>6 DEF Acknowledge, WorkerDies, HardTimeLimit
  <1>7. QED
    BY <1>1, <1>2, <1>3, <1>4, <1>5, <1>6 DEF TaskStep, TaskFault

\* A worker's own step leaves the row as its next step expects it.
LEMMA OwnRow ==
  ASSUME TypeOK, RowFollowsTask, NEW w \in Workers, TaskStep(w) \/ TaskFault(w)
  PROVE  /\ At(w, "mark")' =>
              /\ worker'[w].seen # "none"
              /\ status'[Doc(w)'] \in {worker'[w].seen, "none"}
         /\ worker'[w].pc \in {"ingest", "store", "failed"} =>
              status'[Doc(w)'] \in {"PROCESSING", "none"}
  <1> USE DEF At, Doc, Goto, Exists
  <1>0. /\ worker[w] \in WorkerState
        /\ status \in [Documents -> DocStatus \cup {"none"}]
        /\ worker \in [Workers -> WorkerState]
    BY DEF TypeOK
  <1>1. ASSUME NEW m \in Message, Deliver(w, m)
        PROVE  /\ worker'[w].pc \in {"mark", "discard"}
               /\ At(w, "mark")' =>
                    /\ worker'[w].seen # "none"
                    /\ status'[Doc(w)'] \in {worker'[w].seen, "none"}
    BY <1>0, <1>1 DEF Deliver, Message
  <1>2. CASE MarkProcessing(w) \/ MarkDeleted(w) \/ MarkOutage(w)
    <2>1. At(w, "mark") /\ Doc(w) \in Documents
      BY <1>2 DEF MarkProcessing, MarkDeleted, MarkOutage, TypeOK
    <2>2. /\ worker[w].seen # "none"
          /\ status[Doc(w)] \in {worker[w].seen, "none"}
      BY <2>1 DEF RowFollowsTask
    <2>3. PICK step \in {"ingest", "retry"} :
            worker' = [worker EXCEPT ![w].pc = step, ![w].seen = "none"]
      <3>1. CASE MarkProcessing(w)
        BY <3>1 DEF MarkProcessing
      <3>2. CASE MarkDeleted(w) \/ MarkOutage(w)
        BY <3>2 DEF MarkDeleted, MarkOutage
      <3>3. QED
        BY <1>2, <3>1, <3>2
    <2>4. worker'[w].doc = worker[w].doc /\ worker'[w].pc = step
      BY <1>0, <2>3 DEF WorkerState
    <2>5. CASE MarkProcessing(w)
      <3>1. status'[Doc(w)] = "PROCESSING"
        BY <1>0, <2>1, <2>2, <2>5 DEF MarkProcessing
      <3>2. QED
        BY <2>4, <3>1
    <2>6. CASE MarkDeleted(w)
      <3>1. status'[Doc(w)] = "none"
        BY <2>6 DEF MarkDeleted
      <3>2. QED
        BY <2>4, <3>1
    <2>7. CASE MarkOutage(w)
      <3>1. worker'[w].pc = "retry"
        BY <1>0, <2>7 DEF MarkOutage, WorkerState
      <3>2. QED
        BY <2>4, <3>1
    <2>8. QED
      BY <1>2, <2>5, <2>6, <2>7
  <1>3. CASE ReadFile(w) \/ StoreFails(w)
    <2>1. worker[w].pc \in {"ingest", "store"} /\ status' = status
      BY <1>3 DEF ReadFile, StoreFails
    <2>2. /\ Goto(w, "store") =>
               worker'[w].doc = worker[w].doc /\ worker'[w].pc = "store"
          /\ \A cause : Fail(w, cause) =>
               worker'[w].doc = worker[w].doc /\ worker'[w].pc = "failed"
      BY <1>0 DEF Fail, WorkerState
    <2>3. worker'[w].doc = worker[w].doc /\ worker'[w].pc \in {"store", "failed"}
      BY <1>3, <2>2 DEF ReadFile, StoreFails
    <2>4. QED
      BY <2>1, <2>3 DEF RowFollowsTask
  <1>4. CASE \/ StoreChunks(w) \/ AwaitTimesOut(w) \/ RecordFailure(w)
             \/ RecordOutage(w) \/ Publish(w)
    <2>1. CASE RecordFailure(w) \/ RecordOutage(w)
      <3>1. PICK step \in {"retry", "discard"} :
              worker' = [worker EXCEPT ![w].pc = step, ![w].cause = "none"]
        BY <2>1 DEF RecordFailure, RecordOutage
      <3>2. worker'[w].pc = step
        BY <1>0, <3>1 DEF WorkerState
      <3>3. QED
        BY <3>2
    <2>2. CASE StoreChunks(w) \/ AwaitTimesOut(w) \/ Publish(w)
      <3>1. PICK step \in {"publish", "discard", "retry"} : Goto(w, step)
        BY <2>2 DEF StoreChunks, AwaitTimesOut, Publish
      <3>2. worker'[w].pc = step
        BY <1>0, <3>1 DEF WorkerState
      <3>3. QED
        BY <3>2
    <2>3. QED
      BY <1>4, <2>1, <2>2
  <1>5. CASE SendRetry(w) \/ GiveUp(w) \/ DiscardFile(w)
    <2>1. PICK step \in {"resent", "discard", "ack"} : Goto(w, step)
      BY <1>5 DEF SendRetry, GiveUp, DiscardFile
    <2>2. worker'[w].pc = step
      BY <1>0, <2>1 DEF WorkerState
    <2>3. QED
      BY <2>2
  <1>6. CASE Acknowledge(w) \/ WorkerDies(w) \/ HardTimeLimit(w)
    <2>1. worker'[w].pc = "idle"
      BY <1>0, <1>6 DEF Acknowledge, WorkerDies, HardTimeLimit, Idle
    <2>2. QED
      BY <2>1
  <1>7. QED
    BY <1>1, <1>2, <1>3, <1>4, <1>5, <1>6 DEF TaskStep, TaskFault

\* A row changes under a worker's feet only by deletion.
LEMMA RowsFollow ==
  ASSUME TypeOK, OneTicket, RowFollowsTask, [Next]_vars
  PROVE  RowFollowsTask'
  <1>1. CASE UNCHANGED vars
    BY <1>1 DEF vars, RowFollowsTask, At, Doc
  <1>2. ASSUME NEW d \in Documents,
               \/ UploadStep(d) \/ UploadCrash(d)
               \/ DeleteDocument(d) \/ RemoveDeletedFile(d) \/ DeleteCrash(d)
        PROVE  RowFollowsTask'
    BY <1>2, RowsUpload DEF RowFollowsTask, At, Doc, Active
  <1>3. ASSUME NEW w \in Workers, TaskStep(w) \/ TaskFault(w)
        PROVE  RowFollowsTask'
    <2> SUFFICES ASSUME NEW v \in Workers
        PROVE  /\ At(v, "mark")' =>
                    /\ worker'[v].seen # "none"
                    /\ status'[Doc(v)'] \in {worker'[v].seen, "none"}
               /\ worker'[v].pc \in {"ingest", "store", "failed"} =>
                    status'[Doc(v)'] \in {"PROCESSING", "none"}
      BY DEF RowFollowsTask
    <2>1. CASE v = w
      BY <1>3, <2>1, OwnRow
    <2>2. CASE v # w /\ Active(v)
      <3>1. Doc(v) \in Documents /\ ~(Active(w) /\ Doc(v) = Doc(w))
        BY <2>2 DEF OneTicket, TypeOK, Active, Doc
      <3>2. worker'[v] = worker[v] /\ status'[Doc(v)] = status[Doc(v)]
        BY <1>3, <2>2, <3>1, RowsTask
      <3>3. QED
        BY <3>2 DEF RowFollowsTask, At, Doc
    <2>3. CASE v # w /\ ~Active(v)
      BY <1>3, <2>3, RowsTask DEF Active, At
    <2>4. QED
      BY <2>1, <2>2, <2>3
  <1>4. QED
    BY <1>1, <1>2, <1>3 DEF Next

\* Chunks and status are written together, so they agree after every step.
LEMMA ChunksFollow ==
  ASSUME TypeOK, RowFollowsTask, ChunksMatchStatus, [Next]_vars
  PROVE  ChunksMatchStatus'
  <1>1. CASE UNCHANGED vars
    BY <1>1 DEF vars, ChunksMatchStatus
  <1>2. ASSUME NEW d \in Documents, UploadStep(d) \/ UploadCrash(d)
        PROVE  ChunksMatchStatus'
    <2>1. chunks' = chunks /\ (status' = status \/ InsertDocument(d))
      BY <1>2 DEF UploadStep, CheckUpload, CheckImport, StageUpload, InsertDocument,
         UploadConflict, ImportConflict, Dispatch, UploadCrash, UnchangedByUpload
    <2>2. CASE InsertDocument(d)
      <3>1. ~Exists(d)
        BY <2>2 DEF InsertDocument, HasContentOf
      <3>2. QED
        BY <2>1, <2>2, <3>1 DEF InsertDocument, Exists, ChunksMatchStatus, TypeOK
    <2>3. QED
      BY <2>1, <2>2 DEF ChunksMatchStatus
  <1>3. ASSUME NEW d \in Documents,
               DeleteDocument(d) \/ RemoveDeletedFile(d) \/ DeleteCrash(d)
        PROVE  ChunksMatchStatus'
    BY <1>3 DEF DeleteDocument, RemoveDeletedFile, DeleteCrash, ChunksMatchStatus, TypeOK
  <1>4. ASSUME NEW w \in Workers, TaskStep(w) \/ TaskFault(w)
        PROVE  ChunksMatchStatus'
    <2> USE DEF At, Doc, Exists
    <2>1. CASE MarkProcessing(w)
      <3>1. /\ Doc(w) \in Documents
            /\ status[Doc(w)] \in {worker[w].seen, "none"} /\ Exists(Doc(w))
        BY <2>1 DEF MarkProcessing, TypeOK, RowFollowsTask
      <3>2. /\ status' = [status EXCEPT ![Doc(w)] = "PROCESSING"]
            /\ chunks' = [chunks EXCEPT ![Doc(w)] = 0]
        BY <2>1, <3>1 DEF MarkProcessing, TypeOK
      <3>3. QED
        BY <3>1, <3>2 DEF ChunksMatchStatus, TypeOK
    <2>2. CASE StoreChunks(w)
      <3>1. Doc(w) \in Documents /\ status[Doc(w)] = "PROCESSING"
        BY <2>2 DEF StoreChunks, TypeOK, RowFollowsTask
      <3>2. QED
        BY <2>2, <3>1 DEF StoreChunks, ChunksMatchStatus, TypeOK
    <2>3. CASE RecordFailure(w)
      <3>1. Doc(w) \in Documents /\ status[Doc(w)] \in {"PROCESSING", "none"}
        BY <2>3 DEF RecordFailure, TypeOK, RowFollowsTask
      <3>2. QED
        BY <2>3, <3>1 DEF RecordFailure, ChunksMatchStatus, TypeOK
    <2>4. CASE ~MarkProcessing(w) /\ ~StoreChunks(w) /\ ~RecordFailure(w)
      <3>1. UNCHANGED <<status, chunks>>
        BY <1>4, <2>4 DEF TaskStep, TaskFault, Deliver, MarkDeleted, MarkOutage,
           ReadFile, StoreFails, AwaitTimesOut, RecordOutage, Publish, SendRetry,
           GiveUp, DiscardFile, Acknowledge, WorkerDies, HardTimeLimit
      <3>2. QED
        BY <3>1 DEF ChunksMatchStatus
    <2>5. QED
      BY <2>1, <2>2, <2>3, <2>4
  <1>5. QED
    BY <1>1, <1>2, <1>3, <1>4 DEF Next

\* A document is searchable exactly when it is COMPLETED and then has each
\* chunk once, however often its task was retried or redelivered, as long as
\* no worker dies between sending a retry and acknowledging its message.
THEOREM ChunksAreStoredOnce ==
  "crash_resent" \notin Faults => (Spec => []ChunksMatchStatus)
  <1> SUFFICES ASSUME "crash_resent" \notin Faults PROVE Spec => []ChunksMatchStatus
    OBVIOUS
  <1>1. Init => RowFollowsTask /\ ChunksMatchStatus
    BY DEF Init, RowFollowsTask, ChunksMatchStatus, At, Idle
  <1>2. TypeOK /\ OneTicket /\ RowFollowsTask /\ ChunksMatchStatus /\ [Next]_vars
          => RowFollowsTask' /\ ChunksMatchStatus'
    BY RowsFollow, ChunksFollow
  <1>3. QED
    BY <1>1, <1>2, TypeCorrect, TicketIsUnique, PTL DEF Spec

-----------------------------------------------------------------------------
(* Staged files outlive the attempts that need them *)

\* Only these steps remove a file.
LEMMA FilesRemovedBy ==
  ASSUME [Next]_vars, NEW d \in staged, d \notin staged'
  PROVE  \/ d \in Documents /\ (ImportConflict(d) \/ RemoveDeletedFile(d))
         \/ \E w \in Workers : DiscardFile(w) /\ Doc(w) = d
  <1>1. CASE UNCHANGED vars
    BY <1>1 DEF vars
  <1>2. ASSUME NEW e \in Documents, UploadStep(e) \/ UploadCrash(e)
        PROVE  d = e /\ ImportConflict(e)
    BY <1>2 DEF UploadStep, CheckUpload, CheckImport, StageUpload, InsertDocument,
       UploadConflict, ImportConflict, Dispatch, UploadCrash, SaveFile, RemoveFile
  <1>3. ASSUME NEW e \in Documents,
               DeleteDocument(e) \/ RemoveDeletedFile(e) \/ DeleteCrash(e)
        PROVE  d = e /\ RemoveDeletedFile(e)
    BY <1>3 DEF DeleteDocument, RemoveDeletedFile, DeleteCrash, RemoveFile
  <1>4. ASSUME NEW w \in Workers, TaskStep(w) \/ TaskFault(w)
        PROVE  DiscardFile(w) /\ Doc(w) = d
    BY <1>4 DEF TaskStep, TaskFault, Deliver, MarkProcessing, MarkDeleted, ReadFile,
       StoreChunks, StoreFails, RecordFailure, Publish, SendRetry, GiveUp,
       DiscardFile, Acknowledge, MarkOutage, AwaitTimesOut, RecordOutage, WorkerDies,
       HardTimeLimit, RemoveFile
  <1>5. QED
    BY <1>1, <1>2, <1>3, <1>4 DEF Next

\* Ids are not used again.
LEMMA LifetimeKept ==
  ASSUME TypeOK, Lifetime, [Next]_vars
  PROVE  Lifetime'
  <1> SUFFICES ASSUME NEW d \in Documents
      PROVE  /\ upload'[d] \in {"new", "checked", "staged"} =>
                  ~Exists(d)' /\ deleter'[d] = "idle"
             /\ deleter'[d] # "idle" => ~Exists(d)'
    BY DEF Lifetime
  <1>1. Exists(d)' => Exists(d) \/ InsertDocument(d)
    BY RowsAppearByInsert
  <1>2. CASE UNCHANGED vars
    BY <1>2 DEF vars, Lifetime, Exists
  <1>3. ASSUME NEW e \in Documents, UploadStep(e) \/ UploadCrash(e)
        PROVE  /\ deleter' = deleter
               /\ upload'[d] \in {"new", "checked", "staged"} =>
                    upload[d] \in {"new", "checked", "staged"} /\ ~InsertDocument(d)
    BY <1>3 DEF UploadStep, CheckUpload, CheckImport, StageUpload, InsertDocument,
       UploadConflict, ImportConflict, Dispatch, UploadCrash, UploadGoto,
       UnchangedByUpload, TypeOK
  <1>4. InsertDocument(d) => deleter[d] = "idle"
    BY DEF InsertDocument, Lifetime
  <1>5. ASSUME NEW e \in Documents,
               DeleteDocument(e) \/ RemoveDeletedFile(e) \/ DeleteCrash(e)
        PROVE  /\ upload' = upload
               /\ deleter'[d] # deleter[d] => Exists(d)' = FALSE \/ deleter[d] # "idle"
               /\ deleter'[d] # deleter[d] =>
                    Exists(d) \/ deleter[d] # "idle"
               /\ Exists(d)' => Exists(d)
    BY <1>5 DEF DeleteDocument, RemoveDeletedFile, DeleteCrash, TypeOK, Exists
  <1>6. ASSUME NEW w \in Workers, TaskStep(w) \/ TaskFault(w)
        PROVE  upload' = upload /\ deleter' = deleter
    BY <1>6 DEF TaskStep, TaskFault, Deliver, MarkProcessing, MarkDeleted, ReadFile,
       StoreChunks, StoreFails, RecordFailure, Publish, SendRetry, GiveUp,
       DiscardFile, Acknowledge, MarkOutage, AwaitTimesOut, RecordOutage, WorkerDies,
       HardTimeLimit, UnchangedByWorker
  <1>7. InsertDocument(d) => upload'[d] = "committed"
    BY DEF InsertDocument, UploadGoto, TypeOK
  <1>8. QED
    BY <1>1, <1>2, <1>3, <1>4, <1>5, <1>6, <1>7 DEF Next, Lifetime

\* A task of d, waiting or under way, that has not yet removed its file.
TaskNeedsFile(d) ==
    \/ \E m \in Message : m.doc = d /\ queue[m] > 0
    \/ \E w \in Workers : Doc(w) = d /\ Active(w) /\ ~At(w, "ack")

Needed(d) ==
    \/ upload[d] = "staged"
    \/ Exists(d) /\ (upload[d] = "committed" \/ TaskNeedsFile(d))

\* FileKept, said document by document.
LEMMA FileKeptByDocument ==
  ASSUME TypeOK
  PROVE  FileKept <=> \A d \in Documents : Needed(d) => d \in staged
  <1>1. (\A m \in Message : m.doc \in Documents) /\
        (\A w \in Workers : Active(w) => Doc(w) \in Documents)
    BY DEF Message, TypeOK, Active, Doc
  <1>2. QED
    BY <1>1 DEF FileKept, Needed, TaskNeedsFile

NoFileFaults == Faults \cap {"crash_ack", "crash_resent"} = {}

\* A task that needs its file was queued by its request or is one that needed
\* it before.
LEMMA NeedBegins ==
  ASSUME NoFileFaults, TypeOK, [Next]_vars, NEW d \in Documents, TaskNeedsFile(d)'
  PROVE  TaskNeedsFile(d) \/ Dispatch(d)
  <1> USE DEF TaskNeedsFile
  <1>1. CASE UNCHANGED vars
    BY <1>1 DEF vars, Doc, Active, At
  <1>2. ASSUME NEW e \in Documents, UploadStep(e) \/ UploadCrash(e)
        PROVE  TaskNeedsFile(d) \/ Dispatch(d)
    <2>1. CASE Dispatch(e)
      <3> DEFINE first == [doc |-> e, retries |-> 0]
      <3>1. first.doc = e /\ queue' = [queue EXCEPT ![first] = @ + 1] /\ worker' = worker
        BY <2>1 DEF Dispatch, Send, UnchangedByUpload
      <3> HIDE DEF first
      <3>2. \A m \in Message : m # first => queue'[m] = queue[m]
        BY <3>1 DEF TypeOK
      <3>3. QED
        BY <2>1, <3>1, <3>2 DEF Doc, Active, At
    <2>2. CASE ~Dispatch(e)
      <3>1. UNCHANGED <<queue, worker>>
        BY <1>2, <2>2 DEF UploadStep, CheckUpload, CheckImport, StageUpload,
           InsertDocument, UploadConflict, ImportConflict, UploadCrash, UnchangedByUpload
      <3>2. QED
        BY <3>1 DEF Doc, Active, At
    <2>3. QED
      BY <2>1, <2>2
  <1>3. ASSUME NEW e \in Documents,
               DeleteDocument(e) \/ RemoveDeletedFile(e) \/ DeleteCrash(e)
        PROVE  TaskNeedsFile(d)
    BY <1>3 DEF DeleteDocument, RemoveDeletedFile, DeleteCrash, Doc, Active, At
  <1>4. ASSUME NEW w \in Workers, NEW m \in Message, Deliver(w, m)
        PROVE  TaskNeedsFile(d)
    <2>1. queue[m] > 0 /\ \A n \in Message : queue'[n] > 0 => queue[n] > 0
      BY <1>4 DEF Deliver, TypeOK
    <2>2. worker'[w].doc = m.doc
      BY <1>4 DEF Deliver, TypeOK
    <2>3. \A v \in Workers : v # w => worker'[v] = worker[v]
      BY <1>4 DEF Deliver, TypeOK
    <2>4. QED
      BY <2>1, <2>2, <2>3 DEF Doc, Active, At
  <1>5. ASSUME NEW w \in Workers, SendRetry(w) \/ WorkerDies(w)
        PROVE  TaskNeedsFile(d)
    <2>1. PICK held : held.doc = Doc(w) /\ queue' = [queue EXCEPT ![held] = @ + 1]
      BY <1>5 DEF SendRetry, WorkerDies, Send, Held, Doc
    <2>2. Active(w) /\ ~At(w, "ack")
      BY <1>5 DEF SendRetry, WorkerDies, At, Active, CrashKind, NoFileFaults
    <2>3. \A v \in Workers : v # w => worker'[v] = worker[v]
      BY <1>5 DEF SendRetry, WorkerDies, Goto, TypeOK
    <2>4. worker'[w].pc \in {"resent", "idle"}
      BY <1>5 DEF SendRetry, WorkerDies, Goto, TypeOK, WorkerState, Idle
    <2>5. \A m \in Message : m # held => queue'[m] = queue[m]
      BY <2>1 DEF TypeOK
    <2>6. QED
      BY <2>1, <2>2, <2>3, <2>4, <2>5 DEF Doc, Active, At
  <1>6. ASSUME NEW w \in Workers,
               \/ MarkProcessing(w) \/ MarkDeleted(w) \/ MarkOutage(w) \/ ReadFile(w)
               \/ StoreChunks(w) \/ StoreFails(w) \/ AwaitTimesOut(w)
               \/ RecordFailure(w) \/ RecordOutage(w) \/ Publish(w) \/ GiveUp(w)
               \/ DiscardFile(w) \/ Acknowledge(w) \/ HardTimeLimit(w)
        PROVE  TaskNeedsFile(d)
    <2>1. /\ UNCHANGED queue
          /\ \A v \in Workers : v # w => worker'[v] = worker[v]
          /\ \A v \in Workers : Active(v)' => Active(v) /\ Doc(v)' = Doc(v)
      BY <1>6, WorkerAlone
    <2>2. At(w, "ack") => ~Active(w)'
      BY <1>6 DEF MarkProcessing, MarkDeleted, MarkOutage, ReadFile, StoreChunks,
         StoreFails, AwaitTimesOut, RecordFailure, RecordOutage, Publish, GiveUp,
         DiscardFile, Acknowledge, HardTimeLimit, At, Active, TypeOK, Idle
    <2>3. \A v \in Workers : Active(v)' /\ ~At(v, "ack")' => ~At(v, "ack")
      BY <2>1, <2>2 DEF At
    <2>4. QED
      BY <2>1, <2>3
  <1>7. QED
    BY <1>1, <1>2, <1>3, <1>4, <1>5, <1>6 DEF Next, TaskStep, TaskFault

\* A file that is needed was there before, or has just been saved.
LEMMA NeedKeepsFile ==
  ASSUME NoFileFaults, TypeOK, Lifetime, OneTicket', FileKept, [Next]_vars,
         NEW d \in Documents, Needed(d)'
  PROVE  d \in staged'
  <1>1. Exists(d)' => Exists(d) \/ InsertDocument(d)
    BY RowsAppearByInsert
  <1>2. CASE StageUpload(d)
    BY <1>2 DEF StageUpload, SaveFile
  <1>3. CASE ~StageUpload(d)
    <2>1. upload'[d] = "staged" => upload[d] = "staged"
      BY <1>3 DEF Next, vars, UploadStep, CheckUpload, CheckImport, StageUpload, InsertDocument,
         UploadConflict, ImportConflict, Dispatch, UploadCrash, UploadGoto,
         DeleteDocument, RemoveDeletedFile, DeleteCrash,
         TaskStep, TaskFault, Deliver, MarkProcessing, MarkDeleted, ReadFile,
         StoreChunks, StoreFails, RecordFailure, Publish, SendRetry, GiveUp,
         DiscardFile, Acknowledge, MarkOutage, AwaitTimesOut, RecordOutage,
         WorkerDies, HardTimeLimit, UnchangedByWorker, TypeOK
    <2>2. upload'[d] = "committed" => upload[d] = "committed" \/ InsertDocument(d)
      BY DEF Next, vars, UploadStep, CheckUpload, CheckImport, StageUpload, InsertDocument,
         UploadConflict, ImportConflict, Dispatch, UploadCrash, UploadGoto,
         DeleteDocument, RemoveDeletedFile, DeleteCrash,
         TaskStep, TaskFault, Deliver, MarkProcessing, MarkDeleted, ReadFile,
         StoreChunks, StoreFails, RecordFailure, Publish, SendRetry, GiveUp,
         DiscardFile, Acknowledge, MarkOutage, AwaitTimesOut, RecordOutage,
         WorkerDies, HardTimeLimit, UnchangedByWorker, TypeOK
    <2>3. TaskNeedsFile(d)' => TaskNeedsFile(d) \/ Dispatch(d)
      BY NeedBegins
    <2>4. Needed(d)
      BY <1>1, <2>1, <2>2, <2>3 DEF Needed, InsertDocument, Dispatch
    <2>5. d \in staged
      BY <2>4, FileKeptByDocument
    <2>6. ~ImportConflict(d)
      <3>1. ImportConflict(d) => upload'[d] = "refused"
        BY DEF ImportConflict, UploadGoto, TypeOK
      <3>2. TaskNeedsFile(d)' => upload'[d] = "queued"
        BY DEF TaskNeedsFile, OneTicket
      <3>3. QED
        BY <3>1, <3>2 DEF Needed
    <2>7. ~RemoveDeletedFile(d)
      <3>1. RemoveDeletedFile(d) => ~Exists(d) /\ upload[d] # "staged"
        BY DEF RemoveDeletedFile, Lifetime
      <3>2. QED
        BY <2>4, <3>1 DEF Needed
    <2>8. ASSUME NEW w \in Workers, DiscardFile(w), Doc(w) = d
          PROVE  FALSE
      <3>1. /\ worker'[w].pc = "ack" /\ worker'[w].doc = d
            /\ UNCHANGED <<queue, upload>>
        BY <2>8 DEF DiscardFile, Goto, TypeOK, WorkerState, Doc, UnchangedByWorker
      <3>2. /\ \A m \in Message : m.doc = d => queue'[m] = 0
            /\ \A v \in Workers : Active(v)' /\ Doc(v)' = d => v = w
            /\ upload'[d] = "queued"
        BY <3>1 DEF OneTicket, Active, Doc
      <3>3. QED
        BY <3>1, <3>2 DEF Needed, TaskNeedsFile, At
    <2>9. QED
      BY <2>5, <2>6, <2>7, <2>8, FilesRemovedBy
  <1>4. QED
    BY <1>2, <1>3

\* A message that waits for a worker finds the staged file it needs: with
\* neither crash around an acknowledgement, no attempt, delete or duplicate
\* upload removes the file of a document that is still to be ingested.
THEOREM QueuedFilesAreKept == NoFileFaults => (Spec => []QueuedHasFile)
  <1> SUFFICES ASSUME NoFileFaults PROVE Spec => []QueuedHasFile
    OBVIOUS
  <1>1. Init => Lifetime /\ FileKept
    BY DEF Init, Lifetime, FileKept, Exists, Active, Idle
  <1>2. TypeOK /\ Lifetime /\ [Next]_vars => Lifetime'
    BY LifetimeKept
  <1>3. TypeOK /\ TypeOK' /\ Lifetime /\ OneTicket' /\ FileKept /\ [Next]_vars => FileKept'
    <2> SUFFICES ASSUME TypeOK, TypeOK', Lifetime, OneTicket', FileKept, [Next]_vars
        PROVE  FileKept'
      OBVIOUS
    <2>1. \A d \in Documents : Needed(d)' => d \in staged'
      BY NeedKeepsFile
    <2>2. FileKept' <=> \A d \in Documents : Needed(d)' => d \in staged'
      <3>1. (\A m \in Message : m.doc \in Documents) /\
            (\A w \in Workers : Active(w)' => Doc(w)' \in Documents)
        BY DEF Message, TypeOK, Active, Doc
      <3>2. QED
        BY <3>1 DEF FileKept, Needed, TaskNeedsFile
    <2>3. QED
      BY <2>1, <2>2
  <1>4. FileKept => QueuedHasFile
    BY DEF FileKept, QueuedHasFile
  <1>5. "crash_resent" \notin Faults
    BY DEF NoFileFaults
  <1>6. QED
    BY <1>1, <1>2, <1>3, <1>4, <1>5, TypeCorrect, TicketIsUnique, PTL DEF Spec

-----------------------------------------------------------------------------
(* Refinement: the pipeline implements KnowledgeBase *)

\* What the catalog shows of a row and its deletion while chunks match.
View(row, deletion) ==
    CASE row \in {"PENDING", "PROCESSING"} -> "indexing"
      [] row = "COMPLETED" -> "searchable"
      [] row = "FAILED" -> "failed"
      [] row = "none" /\ deletion = "idle" -> "absent"
      [] row = "none" /\ deletion # "idle" -> "removed"

\* While chunks match, the catalog shows the row and its deletion.
LEMMA CatalogView ==
  TypeOK /\ ChunksMatchStatus =>
      Catalog = [e \in Documents |-> View(status[e], deleter[e])]
  <1> SUFFICES ASSUME TypeOK, ChunksMatchStatus, NEW d \in Documents
      PROVE  Catalog[d] = View(status[d], deleter[d])
    BY DEF Catalog
  <1>1. /\ status[d] \in {"PENDING", "PROCESSING", "COMPLETED", "FAILED", "none"}
        /\ chunks[d] = IF status[d] = "COMPLETED" THEN 1 ELSE 0
    BY DEF TypeOK, DocStatus, ChunksMatchStatus
  <1>2. QED
    BY <1>1 DEF Catalog, View, Exists

\* A row that changes state changes the catalog in its own entry only.
LEMMA CatalogChange ==
  ASSUME TypeOK, TypeOK', ChunksMatchStatus, ChunksMatchStatus',
         NEW d \in Documents, NEW row,
         status' = [status EXCEPT ![d] = row],
         \A e \in Documents : e # d => deleter'[e] = deleter[e]
  PROVE  Catalog' = [Catalog EXCEPT ![d] = View(row, deleter'[d])]
  <1>1. Catalog = [e \in Documents |-> View(status[e], deleter[e])]
    BY CatalogView
  <1>2. (TypeOK /\ ChunksMatchStatus =>
          Catalog = [e \in Documents |-> View(status[e], deleter[e])])'
    BY CatalogView, PTL
  <1>3. Catalog' = [e \in Documents |-> View(status'[e], deleter'[e])]
    BY <1>2
  <1>4. QED
    BY <1>1, <1>3 DEF TypeOK

\* An insert registers a document whose content no registered one has.
LEMMA InsertRegisters ==
  ASSUME TypeOK, TypeOK', ChunksMatchStatus, ChunksMatchStatus', Lifetime,
         NEW d \in Documents, InsertDocument(d)
  PROVE  KB!Register(d)
  <1>1. /\ status' = [status EXCEPT ![d] = "PENDING"] /\ deleter' = deleter
        /\ ~Exists(d) /\ deleter[d] = "idle"
        /\ \A e \in Documents : Exists(e) => ContentOf[e] # ContentOf[d]
    BY DEF InsertDocument, UnchangedByUpload, Lifetime, HasContentOf
  <1>2. Catalog' = [Catalog EXCEPT ![d] = View("PENDING", deleter'[d])]
    BY <1>1, CatalogChange
  <1>3. View("PENDING", deleter'[d]) = "indexing"
    BY DEF View
  <1>4. \A e \in Documents : Catalog[e] = View(status[e], deleter[e])
    BY CatalogView
  <1>5. Catalog[d] = "absent"
    BY <1>1, <1>4 DEF View, Exists
  <1>6. \A e \in Documents : ~Exists(e) => Catalog[e] \in {"absent", "removed"}
    BY <1>4 DEF View, Exists
  <1>7. QED
    BY <1>1, <1>2, <1>3, <1>5, <1>6 DEF KB!Register, KB!Registered

\* A deletion removes a registered document for good.
LEMMA DeleteRemoves ==
  ASSUME TypeOK, TypeOK', ChunksMatchStatus, ChunksMatchStatus',
         NEW d \in Documents, DeleteDocument(d)
  PROVE  KB!Remove(d)
  <1>1. /\ status' = [status EXCEPT ![d] = "none"]
        /\ deleter' = [deleter EXCEPT ![d] = "removing"]
        /\ status[d] \in DocStatus
    BY DEF DeleteDocument, Exists, TypeOK
  <1>2. deleter'[d] = "removing" /\ \A e \in Documents : e # d => deleter'[e] = deleter[e]
    BY <1>1 DEF TypeOK
  <1>3. Catalog' = [Catalog EXCEPT ![d] = View("none", deleter'[d])]
    BY <1>1, <1>2, CatalogChange
  <1>4. View("none", deleter'[d]) = "removed"
    BY <1>2 DEF View
  <1>5. Catalog[d] = View(status[d], deleter[d])
    BY CatalogView
  <1>6. Catalog[d] \in {"indexing", "searchable", "failed"}
    BY <1>1, <1>5 DEF View, DocStatus
  <1>7. QED
    BY <1>3, <1>4, <1>6 DEF KB!Remove, KB!Registered

\* A worker's step publishes, gives up, indexes again or shows nothing.
LEMMA TaskImplements ==
  ASSUME TypeOK, TypeOK', ChunksMatchStatus, ChunksMatchStatus', RowFollowsTask,
         NEW w \in Workers, TaskStep(w) \/ TaskFault(w)
  PROVE  KB!Next \/ UNCHANGED Catalog
  <1> DEFINE d == Doc(w)
  <1>1. deleter' = deleter
    BY DEF TaskStep, TaskFault, Deliver, MarkProcessing, MarkDeleted, ReadFile,
       StoreChunks, StoreFails, RecordFailure, Publish, SendRetry, GiveUp,
       DiscardFile, Acknowledge, MarkOutage, AwaitTimesOut, RecordOutage, WorkerDies,
       HardTimeLimit, UnchangedByWorker
  <1>2. \A e \in Documents : Catalog[e] = View(status[e], deleter[e])
    BY CatalogView
  <1>3. ASSUME NEW row, d \in Documents, status' = [status EXCEPT ![d] = row]
        PROVE  Catalog' = [Catalog EXCEPT ![d] = View(row, deleter'[d])]
    BY <1>1, <1>3, CatalogChange
  <1>4. /\ View("PROCESSING", deleter'[d]) = "indexing"
        /\ View("COMPLETED", deleter'[d]) = "searchable"
        /\ View("FAILED", deleter'[d]) = "failed"
    BY DEF View
  <1>5. CASE MarkProcessing(w)
    <2>1. /\ d \in Documents /\ status[d] \in DocStatus
          /\ status' = [status EXCEPT ![d] = "PROCESSING"]
      BY <1>5 DEF MarkProcessing, TypeOK, RowFollowsTask, Exists, At, Doc
    <2>2. Catalog' = [Catalog EXCEPT ![d] = "indexing"]
      BY <1>3, <1>4, <2>1
    <2>3. Catalog[d] = View(status[d], deleter[d])
      BY <1>2, <2>1
    <2>4. Catalog[d] \in {"indexing", "searchable", "failed"}
      BY <2>1, <2>3 DEF View, DocStatus
    <2>5. Catalog[d] = "indexing" => Catalog' = Catalog
      <3>1. Catalog = [e \in Documents |-> Catalog[e]]
        BY DEF Catalog
      <3>2. QED
        BY <2>2, <3>1
    <2>6. QED
      BY <2>1, <2>2, <2>4, <2>5 DEF KB!Next, KB!IndexAgain
  <1>6. CASE StoreChunks(w)
    <2>1. /\ d \in Documents /\ status[d] = "PROCESSING"
          /\ status' = [status EXCEPT ![d] = "COMPLETED"]
      BY <1>6 DEF StoreChunks, TypeOK, RowFollowsTask, Exists, At, Doc
    <2>2. Catalog' = [Catalog EXCEPT ![d] = "searchable"]
      BY <1>3, <1>4, <2>1
    <2>3. Catalog[d] = "indexing"
      BY <1>2, <2>1 DEF View
    <2>4. QED
      BY <2>1, <2>2, <2>3 DEF KB!Next, KB!Publish
  <1>7. CASE RecordFailure(w)
    <2>1. d \in Documents /\ status[d] \in {"PROCESSING", "none"}
      BY <1>7 DEF RecordFailure, TypeOK, RowFollowsTask, At, Doc
    <2>2. CASE status[d] = "none"
      <3>1. status' = status
        BY <1>7, <2>1, <2>2 DEF RecordFailure, Exists, TypeOK
      <3>2. chunks' = chunks
        BY <1>7 DEF RecordFailure
      <3>3. QED
        BY <1>1, <3>1, <3>2 DEF Catalog, Exists
    <2>3. CASE status[d] = "PROCESSING"
      <3>1. status' = [status EXCEPT ![d] = "FAILED"]
        BY <1>7, <2>3 DEF RecordFailure, Exists
      <3>2. Catalog' = [Catalog EXCEPT ![d] = "failed"]
        BY <1>3, <1>4, <2>1, <3>1
      <3>3. Catalog[d] = "indexing"
        BY <1>2, <2>1, <2>3 DEF View
      <3>4. QED
        BY <2>1, <3>2, <3>3 DEF KB!Next, KB!GiveUp
    <2>4. QED
      BY <2>1, <2>2, <2>3
  <1>8. CASE ~MarkProcessing(w) /\ ~StoreChunks(w) /\ ~RecordFailure(w)
    <2>1. UNCHANGED <<status, chunks>>
      BY <1>8 DEF TaskStep, TaskFault, Deliver, MarkDeleted, MarkOutage, ReadFile,
         StoreFails, AwaitTimesOut, RecordOutage, Publish, SendRetry, GiveUp,
         DiscardFile, Acknowledge, WorkerDies, HardTimeLimit
    <2>2. QED
      BY <1>1, <2>1 DEF Catalog, Exists
  <1>9. QED
    BY <1>5, <1>6, <1>7, <1>8

\* The pipeline implements KnowledgeBase: whatever is uploaded, retried,
\* redelivered, deleted or crashes, a document becomes searchable only while
\* registered and as a whole, and a removed one never comes back.
THEOREM PipelineImplementsKnowledgeBase ==
  "crash_resent" \notin Faults => (Spec => ImplementsKnowledgeBase)
  <1> SUFFICES ASSUME "crash_resent" \notin Faults
      PROVE  Spec => ImplementsKnowledgeBase
    OBVIOUS
  <1> DEFINE Inv == TypeOK /\ OneTicket /\ Lifetime /\ RowFollowsTask /\ ChunksMatchStatus
  <1>1. Init => Inv
    BY TypeInit DEF Init, OneTicket, Lifetime, RowFollowsTask, ChunksMatchStatus,
       Exists, Active, At, Idle
  <1>2. TypeOK /\ OneTicket /\ Lifetime /\ RowFollowsTask /\ ChunksMatchStatus /\ [Next]_vars
          => Lifetime' /\ RowFollowsTask' /\ ChunksMatchStatus'
    BY LifetimeKept, RowsFollow, ChunksFollow
  <1>3. Init => KB!Init
    BY DEF Init, KB!Init, Catalog, Exists
  <1>4. Inv /\ Inv' /\ [Next]_vars => [KB!Next]_Catalog
    <2> SUFFICES ASSUME Inv, Inv', [Next]_vars PROVE KB!Next \/ UNCHANGED Catalog
      OBVIOUS
    <2>1. CASE UNCHANGED vars
      BY <2>1 DEF vars, Catalog, Exists
    <2>2. ASSUME NEW d \in Documents, UploadStep(d) \/ UploadCrash(d)
          PROVE  KB!Next \/ UNCHANGED Catalog
      <3>1. CASE InsertDocument(d)
        BY <3>1, InsertRegisters DEF KB!Next
      <3>2. CASE ~InsertDocument(d)
        <4>1. UNCHANGED <<status, chunks, deleter>>
          BY <2>2, <3>2 DEF UploadStep, CheckUpload, CheckImport, StageUpload,
             UploadConflict, ImportConflict, Dispatch, UploadCrash, UnchangedByUpload
        <4>2. QED
          BY <4>1 DEF Catalog, Exists
      <3>3. QED
        BY <3>1, <3>2
    <2>3. ASSUME NEW d \in Documents, DeleteDocument(d)
          PROVE  KB!Next
      BY <2>3, DeleteRemoves DEF KB!Next
    <2>4. ASSUME NEW d \in Documents, RemoveDeletedFile(d) \/ DeleteCrash(d)
          PROVE  UNCHANGED Catalog
      <3>1. /\ UNCHANGED <<status, chunks>>
            /\ \A e \in Documents : (deleter'[e] = "idle") <=> (deleter[e] = "idle")
        BY <2>4 DEF RemoveDeletedFile, DeleteCrash, TypeOK
      <3>2. QED
        BY <3>1 DEF Catalog, Exists
    <2>5. ASSUME NEW w \in Workers, TaskStep(w) \/ TaskFault(w)
          PROVE  KB!Next \/ UNCHANGED Catalog
      BY <2>5, TaskImplements
    <2>6. QED
      BY <2>1, <2>2, <2>3, <2>4, <2>5 DEF Next
  <1>5. QED
    BY <1>1, <1>2, <1>3, <1>4, TypeCorrect, TicketIsUnique, PTL
       DEF Spec, ImplementsKnowledgeBase, KB!Spec

-----------------------------------------------------------------------------
(* Staged files have an owner *)

\* Neither fault that loses the process or the message behind a staged file.
NoOrphanFaults == Faults \cap {"api_crash", "hard_limit"} = {}

\* A worker without a message answers for no document.
IdleHasNoDocument == \A w \in Workers : At(w, "idle") => Doc(w) = NoDocument

\* Who will remove the staged file of d.
Owned(d) ==
    \/ upload[d] \in {"staged", "committed"}
    \/ Queued(d)
    \/ \E w \in Workers : Doc(w) = d /\ worker[w].pc \notin {"ack", "resent"}
    \/ deleter[d] = "removing"
    \/ upload[d] = "refused" /\ ~IsImport(d)

\* A request stages a file for itself, or for the message it queues.
LEMMA OwnedUpload ==
  ASSUME NoOrphanFaults, TypeOK, StagedHasOwner,
         NEW e \in Documents, UploadStep(e) \/ UploadCrash(e)
  PROVE  StagedHasOwner'
  <1>0. TypeOK'
    BY TypeUpload
  <1> SUFFICES ASSUME NEW d \in Documents, d \in staged' PROVE Owned(d)'
    BY <1>0 DEF StagedHasOwner, Owned, TypeOK
  <1>1. worker' = worker /\ deleter' = deleter
    BY DEF UploadStep, UploadCrash, CheckUpload, CheckImport, StageUpload, InsertDocument,
       UploadConflict, ImportConflict, Dispatch, UnchangedByUpload
  <1>2. \A m \in Message : queue[m] > 0 => queue'[m] > 0
    <2>1. CASE Dispatch(e)
      <3>1. [doc |-> e, retries |-> 0] \in Message
        BY ConstantsAssumption DEF Message
      <3>2. QED
        BY <2>1, <3>1 DEF Dispatch, Send, TypeOK
    <2>2. QED
      BY <2>1 DEF UploadStep, UploadCrash, CheckUpload, CheckImport, StageUpload,
         InsertDocument, UploadConflict, ImportConflict
  <1>3. CASE d # e
    <2>1. d \in staged /\ upload'[d] = upload[d]
      BY <1>3 DEF UploadStep, UploadCrash, CheckUpload, CheckImport, StageUpload,
         InsertDocument, UploadConflict, ImportConflict, Dispatch, UploadGoto, SaveFile,
         RemoveFile, TypeOK
    <2>2. QED
      BY <1>1, <1>2, <2>1 DEF StagedHasOwner, Owned, Queued, Doc
  <1>4. CASE d = e
    <2>1. CASE CheckUpload(e) \/ CheckImport(e)
      <3>1. d \in staged /\ upload[d] = "new"
        BY <1>4, <2>1 DEF CheckUpload, CheckImport
      <3>2. QED
        BY <1>1, <1>2, <3>1 DEF StagedHasOwner, Owned, Queued, Doc
    <2>2. CASE StageUpload(e) \/ InsertDocument(e)
      BY <1>4, <2>2 DEF StageUpload, InsertDocument, UploadGoto, Owned, TypeOK
    <2>3. CASE UploadConflict(e)
      BY <1>4, <2>3 DEF UploadConflict, UploadGoto, Owned, TypeOK
    <2>4. CASE ImportConflict(e)
      BY <1>4, <2>4 DEF ImportConflict, RemoveFile
    <2>5. CASE Dispatch(e)
      <3> DEFINE first == [doc |-> e, retries |-> 0]
      <3>1. first \in Message /\ first.doc = d
        BY <1>4, ConstantsAssumption DEF Message
      <3>2. queue'[first] > 0
        BY <2>5, <3>1 DEF Dispatch, Send, TypeOK
      <3> HIDE DEF first
      <3>3. QED
        BY <3>1, <3>2 DEF Owned, Queued
    <2>6. ~UploadCrash(e)
      BY DEF NoOrphanFaults, UploadCrash
    <2>7. QED
      BY <2>1, <2>2, <2>3, <2>4, <2>5, <2>6 DEF UploadStep
  <1>5. QED
    BY <1>3, <1>4

\* A worker's step passes its document on: to itself, or to a message.
LEMMA OwnedTask ==
  ASSUME NoOrphanFaults, TypeOK, IdleHasNoDocument, StagedHasOwner,
         NEW w \in Workers, TaskStep(w) \/ TaskFault(w)
  PROVE  StagedHasOwner' /\ IdleHasNoDocument'
  <1>0. /\ worker[w] \in WorkerState /\ upload' = upload /\ deleter' = deleter
        /\ worker \in [Workers -> WorkerState]
    BY DEF TypeOK, TaskStep, TaskFault, Deliver, MarkProcessing, MarkDeleted, ReadFile,
       StoreChunks, StoreFails, RecordFailure, Publish, SendRetry, GiveUp, DiscardFile,
       Acknowledge, MarkOutage, AwaitTimesOut, RecordOutage, WorkerDies, HardTimeLimit,
       UnchangedByWorker
  <1>1. ASSUME \A v \in Workers \ {w} : worker'[v] = worker[v],
               worker'[w].pc = "idle" => worker'[w].doc = NoDocument,
               \A d \in Documents : Queued(d) =>
                 Queued(d)' \/ (worker'[w].doc = d /\ worker'[w].pc \notin {"ack", "resent"}),
               staged' \subseteq staged,
               \/ worker[w].pc \in {"ack", "resent"}
               \/ worker[w].doc = NoDocument
               \/ worker'[w].doc = worker[w].doc /\ worker'[w].pc \notin {"ack", "resent"}
               \/ \E d \in Documents : d = worker[w].doc /\ Queued(d)'
               \/ worker[w].doc \notin staged'
        PROVE  StagedHasOwner' /\ IdleHasNoDocument'
    <2>1. ASSUME NEW d \in staged' PROVE Owned(d)'
      <3>1. d \in Documents /\ d \in staged /\ Owned(d) /\ d # NoDocument
        BY <1>1, ConstantsAssumption DEF StagedHasOwner, Owned, TypeOK
      <3>2. CASE \E v \in Workers \ {w} : Doc(v) = d /\ worker[v].pc \notin {"ack", "resent"}
        BY <1>1, <3>2 DEF Owned, Doc
      <3>3. CASE Doc(w) = d /\ worker[w].pc \notin {"ack", "resent"}
        BY <1>1, <3>1, <3>3 DEF Owned, Doc
      <3>4. CASE Queued(d)
        BY <1>1, <3>1, <3>4 DEF Owned, Doc
      <3>5. QED
        BY <1>0, <3>1, <3>2, <3>3, <3>4 DEF Owned
    <2>2. IdleHasNoDocument'
      BY <1>1 DEF IdleHasNoDocument, At, Doc
    <2>3. QED
      BY <2>1, <2>2 DEF StagedHasOwner, Owned
  <1>2. ASSUME NEW m \in Message, Deliver(w, m) PROVE StagedHasOwner' /\ IdleHasNoDocument'
    <2>1. /\ worker[w].doc = NoDocument /\ staged' = staged
          /\ worker'[w].doc = m.doc /\ worker'[w].pc \in {"mark", "discard"}
          /\ \A v \in Workers \ {w} : worker'[v] = worker[v]
      BY <1>0, <1>2 DEF Deliver, IdleHasNoDocument, At, Doc
    <2>2. \A d \in Documents \ {m.doc} : Queued(d) => Queued(d)'
      BY <1>2 DEF Deliver, Queued, TypeOK
    <2>3. QED
      BY <1>1, <2>1, <2>2
  <1>3. ASSUME queue' = queue, staged' = staged,
               \A v \in Workers \ {w} : worker'[v] = worker[v],
               worker'[w].doc = worker[w].doc,
               worker'[w].pc \notin {"idle", "ack", "resent"}
        PROVE  StagedHasOwner' /\ IdleHasNoDocument'
    BY <1>1, <1>3 DEF Queued
  <1>4. CASE \/ MarkProcessing(w) \/ MarkDeleted(w) \/ MarkOutage(w) \/ ReadFile(w)
             \/ StoreChunks(w) \/ StoreFails(w)
    BY <1>0, <1>3, <1>4 DEF MarkProcessing, MarkDeleted, MarkOutage, ReadFile, StoreChunks,
       StoreFails, Fail, Goto, WorkerState
  <1>5. CASE \/ AwaitTimesOut(w) \/ RecordFailure(w) \/ RecordOutage(w) \/ Publish(w) \/ GiveUp(w)
    BY <1>0, <1>3, <1>5 DEF AwaitTimesOut, RecordFailure, RecordOutage, Publish, GiveUp,
       Goto, WorkerState
  <1>6. CASE SendRetry(w)
    <2> DEFINE again == [doc |-> Doc(w), retries |-> worker[w].retries + 1]
    <2>1. again \in Message /\ again.doc = worker[w].doc
      BY <1>6, ConstantsAssumption DEF SendRetry, TypeOK, WorkerState, Message, At, Doc
    <2>2. queue'[again] > 0 /\ \A m \in Message : queue[m] > 0 => queue'[m] > 0
      BY <1>6, <2>1 DEF SendRetry, Send, TypeOK
    <2>3. /\ worker'[w].pc = "resent" /\ staged' = staged
          /\ \A v \in Workers \ {w} : worker'[v] = worker[v]
      BY <1>0, <1>6 DEF SendRetry, Goto, WorkerState
    <2> HIDE DEF again
    <2>4. \E d \in Documents : d = worker[w].doc /\ Queued(d)'
      <3>1. PICK d \in Documents : d = worker[w].doc
        BY <2>1 DEF Message
      <3>2. Queued(d)'
        BY <2>1, <2>2, <3>1 DEF Queued
      <3>3. QED
        BY <3>1, <3>2
    <2>5. QED
      BY <1>1, <2>2, <2>3, <2>4 DEF Queued
  <1>7. CASE DiscardFile(w)
    <2>1. /\ worker'[w].pc = "ack" /\ staged' = staged \ {worker[w].doc} /\ queue' = queue
          /\ \A v \in Workers \ {w} : worker'[v] = worker[v]
      BY <1>0, <1>7 DEF DiscardFile, RemoveFile, Goto, Doc, WorkerState
    <2>2. QED
      BY <1>1, <2>1 DEF Queued
  <1>8. CASE Acknowledge(w)
    <2>1. /\ worker[w].pc \in {"ack", "resent"} /\ worker'[w] = Idle
          /\ UNCHANGED <<staged, queue>>
          /\ \A v \in Workers \ {w} : worker'[v] = worker[v]
      BY <1>0, <1>8 DEF Acknowledge
    <2>2. QED
      BY <1>1, <2>1 DEF Queued, Idle
  <1>9. CASE WorkerDies(w)
    <2>1. /\ Held(w) \in Message /\ queue'[Held(w)] > 0
          /\ \A m \in Message : queue[m] > 0 => queue'[m] > 0
      BY <1>9, DeathRequeues
    <2>2. PICK d \in Documents : d = worker[w].doc
      BY <2>1 DEF Held, Message
    <2>3. Queued(d)'
      BY <2>1, <2>2 DEF Queued, Held
    <2>4. /\ worker'[w] = Idle /\ staged' = staged
          /\ \A v \in Workers \ {w} : worker'[v] = worker[v]
      BY <1>0, <1>9 DEF WorkerDies
    <2>5. \A d1 \in Documents : Queued(d1) => Queued(d1)'
      BY <2>1 DEF Queued
    <2>6. worker'[w].pc = "idle" /\ worker'[w].doc = NoDocument
      BY <2>4 DEF Idle
    <2>7. QED
      BY <1>1, <2>2, <2>3, <2>4, <2>5, <2>6
  <1>10. ~HardTimeLimit(w)
    BY DEF NoOrphanFaults, HardTimeLimit
  <1>11. QED
    BY <1>2, <1>4, <1>5, <1>6, <1>7, <1>8, <1>9, <1>10 DEF TaskStep, TaskFault

\* Without those faults every staged file has somebody who will remove it, but
\* for that of an upload that lost the race for the unique index.
THEOREM StagedFilesAreOwned == NoOrphanFaults => (Spec => []StagedHasOwner)
  <1> SUFFICES ASSUME NoOrphanFaults PROVE Spec => []StagedHasOwner
    OBVIOUS
  <1>1. Init => StagedHasOwner /\ IdleHasNoDocument
    BY DEF Init, StagedHasOwner, IdleHasNoDocument, Doc, Idle
  <1>2. TypeOK /\ StagedHasOwner /\ IdleHasNoDocument /\ [Next]_vars
          => StagedHasOwner' /\ IdleHasNoDocument'
    <2> SUFFICES ASSUME TypeOK, StagedHasOwner, IdleHasNoDocument, [Next]_vars
        PROVE  StagedHasOwner' /\ IdleHasNoDocument'
      OBVIOUS
    <2>1. CASE UNCHANGED vars
      BY <2>1 DEF vars, StagedHasOwner, IdleHasNoDocument, Queued, Doc, At
    <2>2. ASSUME NEW d \in Documents,
                 DeleteDocument(d) \/ RemoveDeletedFile(d) \/ DeleteCrash(d)
          PROVE  StagedHasOwner' /\ IdleHasNoDocument'
      <3>1. /\ UNCHANGED <<queue, worker, upload>> /\ staged' \subseteq staged
            /\ \A e \in Documents \ {d} : deleter'[e] = deleter[e]
            /\ deleter'[d] = "removing" \/ d \notin staged'
        BY <2>2 DEF DeleteDocument, RemoveDeletedFile, DeleteCrash, RemoveFile, TypeOK,
           NoOrphanFaults
      <3>2. ASSUME NEW e \in staged' PROVE Owned(e)'
        <4>1. e \in Documents /\ Owned(e)
          BY <3>1 DEF TypeOK, StagedHasOwner, Owned
        <4>2. QED
          BY <3>1, <4>1 DEF Owned, Queued, Doc
      <3>3. QED
        BY <3>1, <3>2 DEF StagedHasOwner, Owned, IdleHasNoDocument, At, Doc
    <2>3. ASSUME NEW d \in Documents, UploadStep(d) \/ UploadCrash(d)
          PROVE  StagedHasOwner' /\ IdleHasNoDocument'
      <3>1. worker' = worker
        BY <2>3 DEF UploadStep, UploadCrash, CheckUpload, CheckImport, StageUpload,
           InsertDocument, UploadConflict, ImportConflict, Dispatch, UnchangedByUpload
      <3>2. QED
        BY <2>3, <3>1, OwnedUpload DEF IdleHasNoDocument, At, Doc
    <2>4. ASSUME NEW w \in Workers, TaskStep(w) \/ TaskFault(w)
          PROVE  StagedHasOwner' /\ IdleHasNoDocument'
      BY <2>4, OwnedTask
    <2>5. QED
      BY <2>1, <2>2, <2>3, <2>4 DEF Next
  <1>3. QED
    BY <1>1, <1>2, TypeCorrect, PTL DEF Spec
=============================================================================
