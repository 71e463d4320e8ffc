-------------------------- MODULE AsyncTasks_proofs --------------------------
(***************************************************************************)
(* Type correctness of the pipeline, and what the workers keep true of     *)
(* tasks and results, for any number of requests, workers, retries and     *)
(* clock ticks.  The type invariant is inductive by itself; it is proved   *)
(* part by part, one lemma for what each process does to the store and one *)
(* for what it does to its own variables.                                  *)
(***************************************************************************)
EXTENDS AsyncTasks, TLAPS

-----------------------------------------------------------------------------
(* Type correctness *)

\* The initial state is well typed.
LEMMA InitType == Init => TypeOK
<1> SUFFICES ASSUME Init PROVE TypeOK
  OBVIOUS
<1> USE StoreAssumption, WorkerAssumption
<1>1. TypeOKStore
  BY DEF Init, InitStore, TypeOKStore, NoBinding, Bindings, NoSlot, SlotVals,
         NoValue, Values, NoPayload, Payloads, TaskStates, Parts
<1>2. TypeOKSubmit
  BY DEF Init, InitSubmit, TypeOKSubmit, PCs, NoReply, Replies, Codes, Ways
<1>3. TypeOKWorker
  BY DEF Init, InitWorker, TypeOKWorker, Steps
<1>4. TypeOKReader
  BY DEF Init, InitReader, TypeOKReader, NoAnswer, Failed, Answers, Served,
         Statuses
<1> QED
  BY <1>1, <1>2, <1>3, <1>4 DEF TypeOK

\* The fingerprint of a caller is a set of keys.
LEMMA FingerprintType ==
    ASSUME NEW key \in Keys \cup {None}
    PROVE  keyFromAPIKey(key) \in SUBSET Keys
BY DEF keyFromAPIKey

\* The facts about an admissible input that the type proofs use.
LEMMA InputFacts ==
    ASSUME NEW i \in Inputs
    PROVE  /\ i.caller \in Keys \cup {None}
           /\ i.idem \in IdemKeys \cup {None}
           /\ Len(i.files) \in 0..MaxFiles
           /\ EngineFor(i) \in Engines
           /\ i.idem # None => Slot(i) \in Slots
<1>1. i \in InputType
  BY SubmitAssumption
<1>2. /\ i.files \in Seq(Nat)
      /\ i.caller \in Keys \cup {None}
      /\ i.idem \in IdemKeys \cup {None}
      /\ i.route \in Engines \cup {None}
  BY <1>1 DEF InputType
<1>3. Len(i.files) \in 0..MaxFiles
  <2>1. Len(i.files) \in Nat
    BY <1>2
  <2> QED
    BY <2>1, SubmitAssumption, StoreAssumption
<1>4. EngineFor(i) \in Engines
  BY <1>2, SubmitAssumption DEF EngineFor
<1>5. i.idem # None => Slot(i) \in Slots
  BY <1>2 DEF Slot, Slots, idemKey, Fingerprints
<1> QED
  BY <1>2, <1>3, <1>4, <1>5

\* A step of a submit handler keeps the handler's own variables well typed.
LEMMA SubmitOwnType ==
    ASSUME TypeOK, NEW r \in Requests, SubmitStep(r)
    PROVE  TypeOKSubmit'
<1> USE DEF TypeOKSubmit, PCs, Replies, Codes, Ways
<1>0. TypeOKStore /\ TypeOKSubmit
  BY DEF TypeOK
<1>1. ASSUME NEW tok \in Requests \cup {None}, NEW via \in Ways,
             Accept(r, tok, via), pc[r] # "new"
      PROVE  TypeOKSubmit'
  BY <1>0, <1>1 DEF Accept
<1>2. ASSUME NEW code \in Codes, Fail(r, code), pc[r] # "new"
      PROVE  TypeOKSubmit'
  BY <1>0, <1>2 DEF Fail
<1>3. ASSUME NEW step \in PCs, Goto(r, step), pc[r] # "new",
             step = "reread" => HasIdem(r)
      PROVE  TypeOKSubmit'
  BY <1>0, <1>3 DEF Goto, HasIdem
<1>4. ASSUME pc[r] # "new", HasIdem(r)
      PROVE  idem[Slot(input[r])].token \in Requests \cup {None}
  BY <1>0, <1>4, InputFacts DEF HasIdem, TypeOKStore, SlotVals
<1>5. CASE RefuseSubmit(r)
  BY <1>0, <1>5 DEF RefuseSubmit
<1>6. CASE BeginSubmit(r)
  BY <1>0, <1>6 DEF BeginSubmit
<1>7. CASE ResolveHit(r)
  BY <1>1, <1>4, <1>7 DEF ResolveHit
<1>8. CASE ResolveMiss(r)
  BY <1>2, <1>3, <1>8 DEF ResolveMiss
<1>9. CASE PersistBlobs(r) \/ EnqueueTask(r) \/ PersistToken(r)
           \/ RecordLoses(r) \/ SubmitCrash(r)
  BY <1>3, <1>9 DEF PersistBlobs, EnqueueTask, PersistToken, RecordLoses,
                    SubmitCrash
<1>10. CASE PersistBlobsFails(r) \/ EnqueueFails(r) \/ PersistTokenFails(r)
  BY <1>2, <1>10 DEF PersistBlobsFails, EnqueueFails, PersistTokenFails
<1>11. CASE RecordWins(r) \/ RecordSkipped(r)
  BY <1>1, <1>11 DEF RecordWins, RecordSkipped
<1>12. CASE ReadWinner(r)
  <2>1. pc[r] = "reread" /\ HasIdem(r)
    BY <1>0, <1>12 DEF ReadWinner, HasIdem
  <2>2. CASE Accept(r, r, "own")
    BY <1>1, <2>1, <2>2
  <2>3. CASE Accept(r, idem[Slot(input[r])].token, "winner")
    BY <1>1, <1>4, <2>1, <2>3
  <2> QED
    BY <1>12, <2>2, <2>3 DEF ReadWinner
<1> QED
  BY <1>5, <1>6, <1>7, <1>8, <1>9, <1>10, <1>11, <1>12
     DEF SubmitStep, SubmitProgress

\* A step of a submit handler keeps Redis and the queue well typed.
LEMMA SubmitStoreType ==
    ASSUME TypeOK, NEW r \in Requests, SubmitStep(r)
    PROVE  TypeOKStore'
<1> USE StoreAssumption DEF TypeOKStore, storeVars, asynqVars, redisVars, ExpireIn
<1>0. TypeOKStore /\ TypeOKSubmit
  BY DEF TypeOK
<1>1. pc[r] # "new" => input[r] \in Inputs
  BY <1>0 DEF TypeOKSubmit
<1>2. CASE UNCHANGED storeVars
  BY <1>0, <1>2
<1>3. ASSUME NEW parts, WriteBlobs(r, parts),
             UNCHANGED <<now, token, queue, idem, body, ctype, asynqVars>>
      PROVE  TypeOKStore'
  BY <1>0, <1>3 DEF WriteBlobs
<1>4. CASE PersistBlobs(r) \/ PersistBlobsFails(r)
  BY <1>3, <1>4 DEF PersistBlobs, PersistBlobsFails
<1>5. ASSUME CreateTask(r), pc[r] # "new", UNCHANGED <<now, redisVars>>
      PROVE  TypeOKStore'
  <2>1. [engine |-> EngineFor(input[r]), nfiles |-> Len(input[r].files)] \in Payloads
    BY <1>1, <1>5, InputFacts DEF Payloads
  <2> QED
    BY <1>0, <1>5, <2>1 DEF CreateTask, TaskStates
<1>6. CASE EnqueueTask(r) \/ EnqueueFails(r)
  BY <1>0, <1>5, <1>6 DEF EnqueueTask, EnqueueFails
<1>7. ASSUME pc[r] # "new"
      PROVE  [task |-> r, fp |-> keyFromAPIKey(input[r].caller),
              exp |-> now + ResultTTL] \in Bindings
  <2>1. keyFromAPIKey(input[r].caller) \in SUBSET Keys
    BY <1>1, <1>7, InputFacts, FingerprintType
  <2> QED
    BY <1>0, <2>1 DEF Bindings
<1>8. CASE PersistToken(r) \/ PersistTokenFails(r)
  <2>0. /\ pc[r] = "token"
        /\ BindToken(r) \/ UNCHANGED token
        /\ HintQueue(r) \/ UNCHANGED queue
    BY <1>8 DEF PersistToken, PersistTokenFails
  <2>1. token' \in [Requests -> Bindings]
    BY <1>0, <1>7, <2>0 DEF BindToken
  <2>2. queue' \in [Requests -> Nat]
    BY <1>0, <2>0, SMTT(30) DEF HintQueue
  <2>3. \A t \in Requests : token'[t].exp > 0 => token'[t].task \in Requests
    <3>1. CASE UNCHANGED token
      BY <1>0, <3>1
    <3>2. CASE BindToken(r)
      <4>1. token'[r].task = r
        BY <1>0, <3>2 DEF BindToken
      <4>2. \A t \in Requests \ {r} : token'[t] = token[t]
        BY <1>0, <3>2 DEF BindToken
      <4> QED
        BY <1>0, <4>1, <4>2
    <3> QED
      BY <2>0, <3>1, <3>2
  <2>4. UNCHANGED <<now, blob, idem, body, ctype, asynqVars>>
    BY <1>8 DEF PersistToken, PersistTokenFails
  <2> QED
    BY <1>0, <2>1, <2>2, <2>3, <2>4
<1>9. CASE RecordWins(r) \/ RecordSkipped(r)
  <2>1. [token |-> r, exp |-> now + ResultTTL] \in SlotVals
    BY <1>0 DEF SlotVals
  <2>2. idem' \in [Slots -> SlotVals]
    BY <1>0, <1>9, <2>1 DEF RecordWins, RecordSkipped, ReserveSlot
  <2> QED
    BY <1>0, <1>9, <2>2 DEF RecordWins, RecordSkipped
<1> QED
  BY <1>2, <1>4, <1>6, <1>8, <1>9
     DEF SubmitStep, SubmitProgress, RefuseSubmit, BeginSubmit, ResolveHit,
         ResolveMiss, RecordLoses, ReadWinner, SubmitCrash

\* Settling a failed attempt keeps states and retry counts in their range: the
\* count grows only while it is below the budget.
LEMMA FailType ==
    ASSUME TypeOKStore, NEW r \in Requests, NEW skip \in BOOLEAN,
           AsynqFail(r, skip)
    PROVE  /\ tstate' \in [Requests -> TaskStates]
           /\ retried' \in [Requests -> 0..MaxRetry]
           /\ payload' = payload
           /\ doneAt' = doneAt
<1>1. tstate' \in [Requests -> TaskStates]
  BY DEF TypeOKStore, AsynqFail, TaskStates
<1>2. retried \in [Requests -> 0..MaxRetry]
  BY DEF TypeOKStore
<1>3. retried' \in [Requests -> 0..MaxRetry]
  BY <1>2, StoreAssumption DEF AsynqFail
<1> QED
  BY <1>1, <1>3 DEF AsynqFail

\* What SaveResult stores is a stored value.
LEMMA StoredType ==
    ASSUME TypeOKStore, TypeOKWorker, NEW w \in Workers,
           wstep[w] \in {"body", "ctype"}
    PROVE  Stored(w) \in Values
BY StoreAssumption DEF TypeOKStore, TypeOKWorker, Stored, ExpireIn, Values

\* A step of a worker keeps Redis and the queue well typed.
LEMMA WorkerStoreType ==
    ASSUME TypeOK, NEW w \in Workers, WorkerStep(w)
    PROVE  TypeOKStore'
<1>0. TypeOKStore /\ TypeOKWorker
  BY DEF TypeOK
<1>1. wstep[w] # "idle" => wtask[w] \in Requests
  BY <1>0 DEF TypeOKWorker
<1>2. CASE UNCHANGED storeVars
  BY <1>0, <1>2 DEF TypeOKStore, storeVars
<1>3. CASE Dequeue(w)
  BY <1>0, <1>3 DEF Dequeue, TypeOKStore, TaskStates, redisVars
<1>4. ASSUME NEW skip \in BOOLEAN, GiveUp(w, skip), wstep[w] # "idle"
      PROVE  /\ tstate' \in [Requests -> TaskStates]
             /\ retried' \in [Requests -> 0..MaxRetry]
             /\ payload' = payload
             /\ doneAt' = doneAt
  BY <1>0, <1>1, <1>4, FailType DEF GiveUp
<1>5. CASE UnknownEngine(w) \/ LoadBlobsFails(w) \/ ConvertFails(w)
           \/ DeadlineBeatsAck(w)
  BY <1>0, <1>4, <1>5 DEF UnknownEngine, LoadBlobsFails, ConvertFails,
     DeadlineBeatsAck, TypeOKStore, redisVars
<1>6. CASE SaveBody(w) \/ SaveBodyFails(w)
  <2>1. body' \in [Requests -> Values]
    BY <1>0, <1>1, <1>6, StoredType DEF SaveBody, SaveBodyFails, TypeOKStore
  <2> QED
    BY <1>0, <1>4, <1>6, <2>1 DEF SaveBody, SaveBodyFails, TypeOKStore, asynqVars
<1>7. CASE SaveType(w) \/ SaveTypeFails(w)
  <2>1. ctype' \in [Requests -> Values]
    BY <1>0, <1>1, <1>7, StoredType DEF SaveType, SaveTypeFails, TypeOKStore
  <2> QED
    BY <1>0, <1>4, <1>7, <2>1 DEF SaveType, SaveTypeFails, TypeOKStore, asynqVars
<1>8. CASE Complete(w) \/ Shutdown(w)
  <2>1. tstate' \in [Requests -> TaskStates]
    BY <1>0, <1>8 DEF Complete, Shutdown, TypeOKStore, TaskStates
  <2>2. doneAt' \in [Requests -> Nat]
    BY <1>0, <1>8, StoreAssumption, SMTT(30) DEF Complete, Shutdown, TypeOKStore
  <2> QED
    BY <1>0, <1>8, <2>1, <2>2 DEF Complete, Shutdown, TypeOKStore, redisVars
<1>9. CASE LoadBlobs(w) \/ Convert(w) \/ WorkerCrash(w)
  BY <1>2, <1>9 DEF LoadBlobs, Convert, WorkerCrash, storeVars
<1> QED
  BY <1>3, <1>5, <1>6, <1>7, <1>8, <1>9 DEF WorkerStep, WorkerProgress

\* A step of a worker keeps the workers' own variables well typed.
LEMMA WorkerOwnType ==
    ASSUME TypeOK, NEW w \in Workers, WorkerStep(w)
    PROVE  TypeOKWorker'
<1> USE DEF TypeOKWorker, Steps
<1>0. TypeOKStore /\ TypeOKWorker
  BY DEF TypeOK
<1>1. ASSUME Release(w), UNCHANGED requeues PROVE TypeOKWorker'
  BY <1>0, <1>1 DEF Release
<1>2. CASE Dequeue(w)
  BY <1>0, <1>2 DEF Dequeue
<1>3. ASSUME NEW step \in Steps, Advance(w, step), wstep[w] # "idle",
             step \in {"body", "ctype"} => wstep[w] = "body"
      PROVE  TypeOKWorker'
  BY <1>0, <1>3 DEF Advance
<1>4. CASE LoadBlobs(w) \/ SaveBody(w) \/ SaveType(w)
  BY <1>3, <1>4 DEF LoadBlobs, SaveBody, SaveType
<1>5. CASE Convert(w)
  BY <1>0, <1>5 DEF Convert
<1>6. CASE UnknownEngine(w) \/ LoadBlobsFails(w) \/ ConvertFails(w)
           \/ SaveBodyFails(w) \/ SaveTypeFails(w) \/ Complete(w)
           \/ DeadlineBeatsAck(w) \/ WorkerCrash(w)
  BY <1>1, <1>6 DEF UnknownEngine, LoadBlobsFails, ConvertFails, SaveBodyFails,
     SaveTypeFails, Complete, DeadlineBeatsAck, WorkerCrash, GiveUp
<1>7. CASE Shutdown(w)
  BY <1>0, <1>7, WorkerAssumption DEF Shutdown, Release
<1> QED
  BY <1>2, <1>4, <1>5, <1>6, <1>7 DEF WorkerStep, WorkerProgress

\* What asynq does on its own keeps everything it touches well typed.
LEMMA AsynqType ==
    ASSUME TypeOK, NEW r \in Requests, AsynqStep(r)
    PROVE  TypeOKStore' /\ TypeOKWorker'
<1>0. TypeOKStore /\ TypeOKWorker
  BY DEF TypeOK
<1>1. TypeOKWorker'
  BY <1>0 DEF AsynqStep, Recover, Forward, Janitor, workerVars, TypeOKWorker
<1>2. CASE Recover(r)
  <2>1. /\ tstate' \in [Requests -> TaskStates]
        /\ retried' \in [Requests -> 0..MaxRetry]
        /\ payload' = payload
        /\ doneAt' = doneAt
    BY <1>0, <1>2, FailType DEF Recover
  <2> QED
    BY <1>0, <1>1, <1>2, <2>1 DEF Recover, TypeOKStore, redisVars, workerVars
<1>3. CASE Forward(r) \/ Janitor(r)
  <2>1. tstate' \in [Requests -> TaskStates]
    BY <1>0, <1>3 DEF Forward, Janitor, AsynqForward, AsynqJanitor, TypeOKStore,
       TaskStates
  <2>2. UNCHANGED <<now, blob, token, queue, idem, body, ctype, retried, payload,
                    doneAt>>
    BY <1>3 DEF Forward, Janitor, AsynqForward, AsynqJanitor, redisVars
  <2> QED
    BY <1>0, <1>1, <2>1, <2>2 DEF TypeOKStore
<1> QED
  BY <1>2, <1>3 DEF AsynqStep

\* mapState returns a status for every state asynq reports.
LEMMA StatusType ==
    ASSUME NEW s \in TaskStates \ {"absent", "deleted"}
    PROVE  mapState(s) \in Statuses
BY DEF mapState, Statuses, TaskStates

\* ServedType returns a type the result endpoint may serve.
LEMMA ServedTypeType ==
    ASSUME NEW ct
    PROVE  ServedType(ct) \in Served
BY DEF ServedType, Served, allowedResultContentTypes

\* Readers change nothing in Redis or the queue.
LEMMA ReaderStoreType ==
    ASSUME TypeOK, NEW d \in Readers, ReaderStep(d)
    PROVE  TypeOKStore'
BY DEF TypeOK, ReaderStep, ResolveToken, ResolveTokenFails, StatusByHint,
   StatusByScan, ReadBody, ReadBodyFails, ReadType, storeVars, TypeOKStore

\* A step of a reader keeps the readers' own variables well typed.
LEMMA ReaderType ==
    ASSUME TypeOK, NEW d \in Readers, ReaderStep(d)
    PROVE  TypeOKReader'
<1>0. TypeOKStore /\ TypeOKReader
  BY DEF TypeOK
<1>2. CASE ResolveToken(d)
  <2>1. \A t \in Requests : Live(token[t].exp) => token[t].task \in Requests
    BY <1>0 DEF TypeOKStore, Bindings, Live
  <2> QED
    BY <1>0, <1>2, <2>1 DEF ResolveToken, MayResolve, TypeOKReader
<1>3. ASSUME NEW a \in Answers, Answer(d, a),
             UNCHANGED <<rtask, rfresh, rbody>>,
             rcaller' \in [Readers -> Keys \cup {None}]
      PROVE  TypeOKReader'
  BY <1>0, <1>3 DEF Answer, TypeOKReader
<1>4. /\ Failed(404) \in Answers
      /\ Failed(500) \in Answers
      /\ \A st \in Statuses : Reported(st) \in Answers
      /\ \A typ \in Served : Delivered(typ) \in Answers
  BY DEF Failed, Reported, Delivered, Answers, Served, Statuses
<1>5. CASE ResolveTokenFails(d)
  <2>1. rcaller' \in [Readers -> Keys \cup {None}]
    BY <1>0, <1>5 DEF ResolveTokenFails, TypeOKReader
  <2> QED
    BY <1>3, <1>4, <1>5, <2>1 DEF ResolveTokenFails
<1>6. ASSUME Report(d), rpc[d] = "status",
             UNCHANGED <<rcaller, rtask, rfresh, rbody>>
      PROVE  TypeOKReader'
  <2>1. tstate[rtask[d]] \in TaskStates \ {"absent", "deleted"}
    BY <1>0, <1>6 DEF Report, TaskKnown, TypeOKStore, TypeOKReader
  <2>2. mapState(tstate[rtask[d]]) \in Statuses
    BY <2>1, StatusType
  <2> QED
    BY <1>0, <1>3, <1>4, <1>6, <2>2 DEF Report, TypeOKReader
<1>7. CASE StatusByHint(d) \/ StatusByScan(d)
  BY <1>0, <1>3, <1>4, <1>6, <1>7 DEF StatusByHint, StatusByScan, TypeOKReader
<1>8. CASE ReadBody(d)
  BY <1>0, <1>8 DEF ReadBody, TypeOKReader, TypeOKStore, Values
<1>9. CASE ReadBodyFails(d)
  BY <1>0, <1>3, <1>4, <1>9 DEF ReadBodyFails, TypeOKReader
<1>10. CASE ReadType(d)
  BY <1>0, <1>3, <1>4, <1>10, ServedTypeType DEF ReadType, TypeOKReader
<1> QED
  BY <1>2, <1>5, <1>7, <1>8, <1>9, <1>10 DEF ReaderStep

\* Type correctness: every variable of the pipeline keeps its type in every
\* reachable state, for any set of requests, keys, workers and readers.
THEOREM TypeCorrect == Spec => []TypeOK
<1>1. Init => TypeOK
  BY InitType
<1>2. TypeOK /\ [Next]_vars => TypeOK'
  <2> SUFFICES ASSUME TypeOK, [Next]_vars PROVE TypeOK'
    OBVIOUS
  <2> USE DEF TypeOK
  <2>1. CASE Tick /\ UNCHANGED <<submitVars, workerVars, readerVars>>
    <3>1. TypeOKStore'
      BY <2>1, StoreAssumption DEF Tick, TypeOKStore, redisVars, asynqVars
    <3> QED
      BY <2>1, <3>1 DEF submitVars, workerVars, readerVars, TypeOKSubmit,
                        TypeOKWorker, TypeOKReader
  <2>2. ASSUME NEW r \in Requests, SubmitStep(r),
               UNCHANGED <<workerVars, readerVars>>
        PROVE  TypeOK'
    BY <2>2, SubmitOwnType, SubmitStoreType
       DEF workerVars, readerVars, TypeOKWorker, TypeOKReader
  <2>3. ASSUME NEW w \in Workers, WorkerStep(w),
               UNCHANGED <<submitVars, readerVars>>
        PROVE  TypeOK'
    BY <2>3, WorkerOwnType, WorkerStoreType
       DEF submitVars, readerVars, TypeOKSubmit, TypeOKReader
  <2>4. ASSUME NEW r \in Requests, AsynqStep(r),
               UNCHANGED <<submitVars, readerVars>>
        PROVE  TypeOK'
    BY <2>4, AsynqType DEF submitVars, readerVars, TypeOKSubmit, TypeOKReader
  <2>5. ASSUME NEW d \in Readers, ReaderStep(d),
               UNCHANGED <<submitVars, workerVars>>
        PROVE  TypeOK'
    BY <2>5, ReaderType, ReaderStoreType
       DEF submitVars, workerVars, TypeOKSubmit, TypeOKWorker
  <2>6. CASE UNCHANGED vars
    BY <2>6 DEF vars, storeVars, submitVars, workerVars, readerVars,
       TypeOKStore, TypeOKSubmit, TypeOKWorker, TypeOKReader
  <2> QED
    BY <2>1, <2>2, <2>3, <2>4, <2>5, <2>6 DEF Next
<1> QED
  BY <1>1, <1>2, PTL DEF Spec

-----------------------------------------------------------------------------
(* Which steps touch what *)

\* A submit handler either leaves the queue alone or creates its own task, and
\* then it stood before the enqueue and now stands behind it.
LEMMA SubmitQueue ==
    ASSUME NEW r \in Requests, SubmitStep(r)
    PROVE  /\ \/ UNCHANGED asynqVars
              \/ CreateTask(r) /\ pc[r] = "enqueue"
           /\ UNCHANGED <<now, body, ctype>>
BY DEF SubmitStep, SubmitProgress, RefuseSubmit, BeginSubmit, ResolveHit,
   ResolveMiss, PersistBlobs, PersistBlobsFails, EnqueueTask, EnqueueFails,
   PersistToken, PersistTokenFails, RecordWins, RecordSkipped, RecordLoses,
   ReadWinner, SubmitCrash, storeVars, asynqVars, redisVars

\* Handlers move forward: from behind the enqueue none comes back, and the
\* creation of the task leads behind it.
LEMMA SubmitForward ==
    ASSUME TypeOK, NEW r \in Requests, SubmitStep(r)
    PROVE  /\ pc' = [pc EXCEPT ![r] = pc'[r]]
           /\ pc'[r] \in BeforeEnqueue =>
                 pc[r] \in BeforeEnqueue /\ UNCHANGED asynqVars
<1> USE DEF BeforeEnqueue
<1>0. pc \in [Requests -> PCs]
  BY DEF TypeOK, TypeOKSubmit
<1>1. CASE RefuseSubmit(r) \/ BeginSubmit(r)
  BY <1>0, <1>1 DEF RefuseSubmit, BeginSubmit, storeVars, asynqVars
<1>2. CASE ResolveHit(r) \/ ResolveMiss(r)
  BY <1>0, <1>2 DEF ResolveHit, ResolveMiss, Accept, Fail, Goto, storeVars, asynqVars
<1>3. CASE PersistBlobs(r) \/ PersistBlobsFails(r)
  BY <1>0, <1>3 DEF PersistBlobs, PersistBlobsFails, Fail, Goto, asynqVars
<1>4. CASE EnqueueTask(r) \/ EnqueueFails(r)
  BY <1>0, <1>4 DEF EnqueueTask, EnqueueFails, Fail, Goto
<1>5. CASE PersistToken(r) \/ PersistTokenFails(r)
  BY <1>0, <1>5 DEF PersistToken, PersistTokenFails, Fail, Goto
<1>6. CASE RecordWins(r) \/ RecordSkipped(r) \/ RecordLoses(r)
           \/ ReadWinner(r) \/ SubmitCrash(r)
  BY <1>0, <1>6 DEF RecordWins, RecordSkipped, RecordLoses, ReadWinner,
     SubmitCrash, Accept, Goto
<1> QED
  BY <1>1, <1>2, <1>3, <1>4, <1>5, <1>6 DEF SubmitStep, SubmitProgress

\* A worker's step changes the state of no task but its own, and none to
\* "absent"; Dequeue takes a pending task, every other step starts busy.
LEMMA WorkerQueue ==
    ASSUME TypeOK, NEW w \in Workers, WorkerStep(w)
    PROVE  \/ UNCHANGED <<tstate, wtask>> /\ wstep[w] # "idle"
              /\ wstep' = [wstep EXCEPT ![w] = wstep'[w]]
           \/ \E r \in Requests :
                 /\ wstep[w] = "idle" /\ tstate[r] = "pending"
                 /\ tstate' = [tstate EXCEPT ![r] = "active"]
                 /\ wtask' = [wtask EXCEPT ![w] = r]
                 /\ wstep' = [wstep EXCEPT ![w] = "start"]
           \/ /\ wstep[w] # "idle"
              /\ \/ UNCHANGED tstate
                 \/ \E s \in TaskStates \ {"absent"} :
                       tstate' = [tstate EXCEPT ![wtask[w]] = s]
              /\ wtask' = [wtask EXCEPT ![w] = None]
              /\ wstep' = [wstep EXCEPT ![w] = "idle"]
<1>0. /\ wstep \in [Workers -> Steps] /\ tstate \in [Requests -> TaskStates]
      /\ wtask \in [Workers -> Requests \cup {None}]
      /\ wstep[w] # "idle" => wtask[w] \in Requests
  BY DEF TypeOK, TypeOKWorker, TypeOKStore
<1>1. CASE Dequeue(w)
  BY <1>1 DEF Dequeue
<1>2. CASE LoadBlobs(w) \/ Convert(w) \/ SaveBody(w) \/ SaveType(w)
  BY <1>0, <1>2 DEF LoadBlobs, Convert, SaveBody, SaveType, Advance, storeVars,
     asynqVars
<1>3. ASSUME NEW skip \in BOOLEAN, GiveUp(w, skip)
      PROVE  /\ \E s \in TaskStates \ {"absent"} :
                   tstate' = [tstate EXCEPT ![wtask[w]] = s]
             /\ wtask' = [wtask EXCEPT ![w] = None]
             /\ wstep' = [wstep EXCEPT ![w] = "idle"]
  <2>1. \/ tstate' = [tstate EXCEPT ![wtask[w]] = "archived"]
        \/ tstate' = [tstate EXCEPT ![wtask[w]] = "retry"]
    BY <1>3 DEF GiveUp, AsynqFail
  <2> QED
    BY <1>3, <2>1 DEF GiveUp, Release, TaskStates
<1>4. CASE UnknownEngine(w) \/ LoadBlobsFails(w) \/ ConvertFails(w)
           \/ SaveBodyFails(w) \/ SaveTypeFails(w) \/ DeadlineBeatsAck(w)
  BY <1>3, <1>4 DEF UnknownEngine, LoadBlobsFails, ConvertFails, SaveBodyFails,
     SaveTypeFails, DeadlineBeatsAck
<1>5. CASE Complete(w) \/ Shutdown(w)
  BY <1>5 DEF Complete, Shutdown, Release, TaskStates
<1>6. CASE WorkerCrash(w)
  BY <1>6 DEF WorkerCrash, Release, storeVars
<1> QED
  BY <1>1, <1>2, <1>4, <1>5, <1>6 DEF WorkerStep, WorkerProgress

-----------------------------------------------------------------------------
(* Tasks and leases *)

\* asynq's own steps settle or move tasks that no worker holds.
LEMMA AsynqQueue ==
    ASSUME NEW r \in Requests, AsynqStep(r), OneWorkerPerTask
    PROVE  /\ \E s \in TaskStates \ {"absent"} : tstate' = [tstate EXCEPT ![r] = s]
           /\ tstate[r] \in {"active", "retry", "completed"}
           /\ \A w \in Workers : wstep[w] # "idle" => wtask[w] # r
           /\ UNCHANGED <<wtask, wstep, wkind, now, blob, token, queue, idem, body,
                          ctype, payload, doneAt>>
<1>1. CASE Recover(r)
  <2>1. \/ tstate' = [tstate EXCEPT ![r] = "archived"]
        \/ tstate' = [tstate EXCEPT ![r] = "retry"]
    BY <1>1 DEF Recover, AsynqFail
  <2> QED
    BY <1>1, <2>1 DEF Recover, AsynqFail, TaskStates, workerVars, redisVars
<1>2. CASE Forward(r)
  BY <1>2 DEF Forward, AsynqForward, TaskStates, workerVars, redisVars,
     OneWorkerPerTask
<1>3. CASE Janitor(r)
  BY <1>3 DEF Janitor, AsynqJanitor, TaskStates, workerVars, redisVars,
     OneWorkerPerTask
<1> QED
  BY <1>1, <1>2, <1>3 DEF AsynqStep

\* No task exists before its enqueue, and no task has two workers.
LEMMA LifecycleStep == TypeOK /\ Lifecycle /\ [Next]_vars => Lifecycle'
<1> SUFFICES ASSUME TypeOK, Lifecycle, [Next]_vars PROVE Lifecycle'
  OBVIOUS
<1> USE DEF Lifecycle, NotYetQueued
<1>0. /\ pc \in [Requests -> PCs]
      /\ tstate \in [Requests -> TaskStates]
      /\ wtask \in [Workers -> Requests \cup {None}]
      /\ wstep \in [Workers -> Steps]
      /\ \A w \in Workers : wstep[w] # "idle" => wtask[w] \in Requests
  BY DEF TypeOK, TypeOKSubmit, TypeOKStore, TypeOKWorker
<1>1. ASSUME UNCHANGED <<tstate, pc, wtask, wstep>> PROVE Lifecycle'
  BY <1>1 DEF OneWorkerPerTask
<1>2. ASSUME NEW r \in Requests, SubmitStep(r), UNCHANGED <<workerVars, readerVars>>
      PROVE  Lifecycle'
  <2>1. CASE UNCHANGED asynqVars
    <3>1. NotYetQueued'
      BY <1>0, <1>2, <2>1, SubmitForward DEF asynqVars
    <3>2. OneWorkerPerTask'
      BY <1>2, <2>1 DEF asynqVars, workerVars, OneWorkerPerTask
    <3> QED
      BY <3>1, <3>2
  <2>2. CASE CreateTask(r) /\ pc[r] = "enqueue" /\ ~UNCHANGED asynqVars
    <3>1. tstate[r] = "absent" /\ tstate' = [tstate EXCEPT ![r] = "pending"]
      BY <2>2 DEF CreateTask, BeforeEnqueue
    <3>2. NotYetQueued'
      BY <1>0, <1>2, <2>2, <3>1, SubmitForward
    <3>3. OneWorkerPerTask'
      BY <1>0, <1>2, <3>1 DEF workerVars, OneWorkerPerTask
    <3> QED
      BY <3>2, <3>3
  <2> QED
    BY <1>2, <2>1, <2>2, SubmitQueue
<1>3. ASSUME NEW w \in Workers, WorkerStep(w), UNCHANGED <<submitVars, readerVars>>
      PROVE  Lifecycle'
  <2> USE DEF OneWorkerPerTask
  <2>0. pc' = pc
    BY <1>3 DEF submitVars
  <2>1. CASE UNCHANGED <<tstate, wtask>> /\ wstep[w] # "idle"
             /\ wstep' = [wstep EXCEPT ![w] = wstep'[w]]
    BY <1>0, <2>0, <2>1
  <2>2. ASSUME NEW r \in Requests, wstep[w] = "idle", tstate[r] = "pending",
               tstate' = [tstate EXCEPT ![r] = "active"],
               wtask' = [wtask EXCEPT ![w] = r],
               wstep' = [wstep EXCEPT ![w] = "start"]
        PROVE  Lifecycle'
    BY <1>0, <2>0, <2>2
  <2>3. ASSUME wstep[w] # "idle",
               \/ UNCHANGED tstate
               \/ \E s \in TaskStates \ {"absent"} :
                     tstate' = [tstate EXCEPT ![wtask[w]] = s],
               wtask' = [wtask EXCEPT ![w] = None],
               wstep' = [wstep EXCEPT ![w] = "idle"]
        PROVE  Lifecycle'
    BY <1>0, <2>0, <2>3
  <2> QED
    BY <1>3, <2>1, <2>2, <2>3, WorkerQueue
<1>4. ASSUME NEW r \in Requests, AsynqStep(r), UNCHANGED <<submitVars, readerVars>>
      PROVE  Lifecycle'
  BY <1>0, <1>4, AsynqQueue DEF submitVars, OneWorkerPerTask
<1>5. ASSUME NEW d \in Readers, ReaderStep(d), UNCHANGED <<submitVars, workerVars>>
      PROVE  Lifecycle'
  BY <1>1, <1>5 DEF ReaderStep, ResolveToken, ResolveTokenFails, StatusByHint,
     StatusByScan, ReadBody, ReadBodyFails, ReadType, storeVars, submitVars,
     workerVars
<1>6. CASE Tick /\ UNCHANGED <<submitVars, workerVars, readerVars>>
  BY <1>1, <1>6 DEF Tick, asynqVars, submitVars, workerVars
<1>7. CASE UNCHANGED vars
  BY <1>1, <1>7 DEF vars, storeVars, submitVars, workerVars
<1> QED
  BY <1>2, <1>3, <1>4, <1>5, <1>6, <1>7 DEF Next

\* Every task has at most one worker at any time, and a busy worker's task is
\* active: the lease that worker.go relies on, whatever crashes, shutdowns,
\* recoveries and retries happen.
THEOREM ExclusiveWorkers == Spec => []OneWorkerPerTask
<1>1. Init => Lifecycle
  BY DEF Init, InitStore, InitSubmit, InitWorker, Lifecycle, NotYetQueued,
     OneWorkerPerTask
<1>2. Lifecycle => OneWorkerPerTask
  BY DEF Lifecycle
<1> QED
  BY <1>1, <1>2, LifecycleStep, TypeCorrect, PTL DEF Spec

-----------------------------------------------------------------------------
(* Results *)

\* The states from which a task's result is read and never written.
Settled == {"completed", "deleted"}

\* A step that writes no result, completes no task and brings no worker to the
\* end of its SaveResult leaves the invariant on results alone.
LEMMA ResultFrame ==
    ASSUME TypeOK, ResultInv, UNCHANGED <<body, ctype>>, now' \in Nat, now' >= now,
           \A r \in Requests : tstate'[r] \in Settled => tstate[r] \in Settled,
           \A w \in Workers : wstep'[w] \in {"ctype", "ack"} =>
               /\ wstep'[w] = wstep[w]
               /\ wtask'[w] = wtask[w]
               /\ wkind'[w] = wkind[w]
    PROVE  ResultInv'
<1>1. CompletedPair'
  BY DEF ResultInv, CompletedPair, Settled
<1>2. SaveInProgress'
  <2> SUFFICES ASSUME NEW w \in Workers
               PROVE  LET r == wtask'[w]
                      IN  /\ wstep'[w] = "ctype" =>
                                body'[r].val = wkind'[w] /\ body'[r].exp <= now' + ResultTTL
                          /\ wstep'[w] = "ack" =>
                                /\ body'[r].val # None
                                /\ ctype'[r].val = body'[r].val
                                /\ ctype'[r].exp >= body'[r].exp
    BY DEF SaveInProgress
  <2>1. wstep'[w] = "ctype" => /\ wtask[w] \in Requests
                               /\ body[wtask[w]].exp \in Nat
                               /\ now \in Nat
    BY StoreAssumption DEF TypeOK, TypeOKWorker, TypeOKStore, Values
  <2> QED
    BY <2>1, StoreAssumption DEF ResultInv, SaveInProgress
<1> QED
  BY <1>1, <1>2 DEF ResultInv

\* A failed attempt ends unsettled.
LEMMA GiveUpUnsettled ==
    ASSUME TypeOK, NEW w \in Workers, wstep[w] # "idle", NEW skip \in BOOLEAN,
           GiveUp(w, skip)
    PROVE  /\ wtask[w] \in Requests
           /\ tstate'[wtask[w]] \notin Settled
           /\ \A r \in Requests \ {wtask[w]} : tstate'[r] = tstate[r]
           /\ wstep'[w] = "idle"
           /\ \A x \in Workers \ {w} : /\ wstep'[x] = wstep[x]
                                       /\ wtask'[x] = wtask[x]
                                       /\ wkind'[x] = wkind[x]
<1>1. /\ wtask[w] \in Requests
      /\ tstate \in [Requests -> TaskStates]
      /\ wstep \in [Workers -> Steps]
      /\ wtask \in [Workers -> Requests \cup {None}]
      /\ wkind \in [Workers -> Kinds \cup {None}]
  BY DEF TypeOK, TypeOKWorker, TypeOKStore
<1>2. \/ tstate' = [tstate EXCEPT ![wtask[w]] = "archived"]
      \/ tstate' = [tstate EXCEPT ![wtask[w]] = "retry"]
  BY DEF GiveUp, AsynqFail
<1> QED
  BY <1>1, <1>2 DEF GiveUp, Release, Settled

\* The workers keep body and content type of a completed task together: while
\* one worker saves, nobody else is on the task, and the task is not settled.
LEMMA ResultWorker ==
    ASSUME TypeOK, Lifecycle, ResultInv, NEW w \in Workers, WorkerStep(w)
    PROVE  ResultInv'
<1>0. /\ tstate \in [Requests -> TaskStates]
      /\ wtask \in [Workers -> Requests \cup {None}]
      /\ wstep \in [Workers -> Steps]
      /\ wkind \in [Workers -> Kinds \cup {None}]
      /\ body \in [Requests -> Values]
      /\ ctype \in [Requests -> Values]
      /\ now \in Nat
      /\ \A x \in Workers : wstep[x] # "idle" => wtask[x] \in Requests
      /\ \A x \in Workers : wstep[x] \in {"body", "ctype"} => wkind[x] \in Kinds
  BY StoreAssumption DEF TypeOK, TypeOKStore, TypeOKWorker
<1>1. /\ wstep[w] # "idle" => tstate[wtask[w]] = "active"
      /\ \A x \in Workers : wstep[w] # "idle" /\ wstep[x] # "idle"
                            /\ wtask[w] = wtask[x] => w = x
  BY DEF Lifecycle, OneWorkerPerTask
<1>2. CASE Dequeue(w)
  <2>1. \A r \in Requests : tstate'[r] \in Settled => tstate[r] \in Settled
    BY <1>0, <1>2 DEF Dequeue, Settled
  <2>2. \A x \in Workers : wstep'[x] \in {"ctype", "ack"} =>
             wstep'[x] = wstep[x] /\ wtask'[x] = wtask[x] /\ wkind'[x] = wkind[x]
    BY <1>0, <1>2 DEF Dequeue
  <2> QED
    BY <1>0, <1>2, <2>1, <2>2, ResultFrame DEF Dequeue, redisVars
<1>3. CASE LoadBlobs(w) \/ Convert(w)
  <2>1. \A x \in Workers : wstep'[x] \in {"ctype", "ack"} =>
             wstep'[x] = wstep[x] /\ wtask'[x] = wtask[x] /\ wkind'[x] = wkind[x]
    BY <1>0, <1>3 DEF LoadBlobs, Convert, Advance
  <2> QED
    BY <1>0, <1>3, <2>1, ResultFrame DEF LoadBlobs, Convert, storeVars
<1>4. CASE UnknownEngine(w) \/ LoadBlobsFails(w) \/ ConvertFails(w)
           \/ DeadlineBeatsAck(w)
  <2>1. wstep[w] # "idle" /\ \E skip \in BOOLEAN : GiveUp(w, skip)
    BY <1>4 DEF UnknownEngine, LoadBlobsFails, ConvertFails, DeadlineBeatsAck
  <2>2. UNCHANGED <<now, body, ctype>>
    BY <1>4 DEF UnknownEngine, LoadBlobsFails, ConvertFails, DeadlineBeatsAck,
       redisVars
  <2> QED
    BY <1>0, <2>1, <2>2, GiveUpUnsettled, ResultFrame
<1>5. CASE WorkerCrash(w) \/ Shutdown(w)
  <2>1. \A r \in Requests : tstate'[r] \in Settled => tstate[r] \in Settled
    BY <1>0, <1>5 DEF WorkerCrash, Shutdown, Settled, storeVars
  <2>2. \A x \in Workers : wstep'[x] \in {"ctype", "ack"} =>
             wstep'[x] = wstep[x] /\ wtask'[x] = wtask[x] /\ wkind'[x] = wkind[x]
    BY <1>0, <1>5 DEF WorkerCrash, Shutdown, Release
  <2>3. UNCHANGED <<now, body, ctype>>
    BY <1>5 DEF WorkerCrash, Shutdown, storeVars, redisVars
  <2> QED
    BY <1>0, <2>1, <2>2, <2>3, ResultFrame
<1>6. CASE SaveBody(w)
  <2>1. /\ UNCHANGED <<now, ctype, tstate, wtask, wkind>>
        /\ wstep[w] = "body" /\ wstep' = [wstep EXCEPT ![w] = "ctype"]
        /\ body' = [body EXCEPT ![wtask[w]] =
                      [val |-> wkind[w], exp |-> now + ResultTTL]]
    BY <1>6 DEF SaveBody, Advance, Stored, ExpireIn, asynqVars
  <2>2. CompletedPair'
    BY <1>0, <1>1, <2>1 DEF ResultInv, CompletedPair
  <2>3. SaveInProgress'
    <3>1. \A x \in Workers \ {w} : wstep[x] \in {"ctype", "ack"} =>
             wtask[x] \in Requests /\ wtask[x] # wtask[w]
      BY <1>0, <1>1, <2>1
    <3>2. /\ body'[wtask[w]] = [val |-> wkind[w], exp |-> now + ResultTTL]
          /\ \A r \in Requests \ {wtask[w]} : body'[r] = body[r]
      BY <1>0, <2>1
    <3>3. /\ wstep'[w] = "ctype"
          /\ \A x \in Workers \ {w} : wstep'[x] = wstep[x]
      BY <1>0, <2>1
    <3>4. now + ResultTTL <= now + ResultTTL
      BY <1>0, StoreAssumption
    <3> QED
      BY <2>1, <3>1, <3>2, <3>3, <3>4 DEF ResultInv, SaveInProgress
  <2> QED
    BY <2>2, <2>3 DEF ResultInv
<1>7. CASE SaveType(w)
  <2>1. /\ UNCHANGED <<now, body, tstate, wtask, wkind>>
        /\ wstep[w] = "ctype" /\ wstep' = [wstep EXCEPT ![w] = "ack"]
        /\ ctype' = [ctype EXCEPT ![wtask[w]] =
                       [val |-> wkind[w], exp |-> now + ResultTTL]]
    BY <1>7 DEF SaveType, Advance, Stored, ExpireIn, asynqVars
  <2>2. CompletedPair'
    BY <1>0, <1>1, <2>1 DEF ResultInv, CompletedPair
  <2>3. SaveInProgress'
    <3>1. \A x \in Workers \ {w} : wstep[x] \in {"ctype", "ack"} =>
             wtask[x] \in Requests /\ wtask[x] # wtask[w]
      BY <1>0, <1>1, <2>1
    <3>2. /\ ctype'[wtask[w]].val = wkind[w]
          /\ ctype'[wtask[w]].exp = now + ResultTTL
          /\ \A r \in Requests \ {wtask[w]} : ctype'[r] = ctype[r]
      BY <1>0, <2>1
    <3>3. /\ wstep'[w] = "ack"
          /\ \A x \in Workers \ {w} : wstep'[x] = wstep[x]
      BY <1>0, <2>1
    <3>4. /\ body[wtask[w]].val = wkind[w] /\ body[wtask[w]].exp <= now + ResultTTL
          /\ wkind[w] # None
      BY <1>0, <2>1, StoreAssumption DEF ResultInv, SaveInProgress
    <3>5. now + ResultTTL \in Nat /\ body[wtask[w]].exp \in Nat
      BY <1>0, <2>1, StoreAssumption DEF Values
    <3> QED
      BY <2>1, <3>1, <3>2, <3>3, <3>4, <3>5 DEF ResultInv, SaveInProgress
  <2> QED
    BY <2>2, <2>3 DEF ResultInv
<1>8. CASE SaveBodyFails(w) \/ SaveTypeFails(w)
  <2>1. /\ wstep[w] # "idle" /\ GiveUp(w, FALSE) /\ now' = now
        /\ wtask[w] \in Requests
        /\ \A r \in Requests \ {wtask[w]} : body'[r] = body[r] /\ ctype'[r] = ctype[r]
    BY <1>0, <1>8 DEF SaveBodyFails, SaveTypeFails
  <2>2. /\ tstate'[wtask[w]] \notin Settled
        /\ \A r \in Requests \ {wtask[w]} : tstate'[r] = tstate[r]
        /\ wstep'[w] = "idle"
        /\ \A x \in Workers \ {w} : /\ wstep'[x] = wstep[x]
                                    /\ wtask'[x] = wtask[x]
                                    /\ wkind'[x] = wkind[x]
    BY <2>1, GiveUpUnsettled
  <2>3. CompletedPair'
    BY <2>1, <2>2 DEF ResultInv, CompletedPair, Settled
  <2>4. \A x \in Workers \ {w} : wstep[x] \in {"ctype", "ack"} =>
           wtask[x] \in Requests /\ wtask[x] # wtask[w]
    BY <1>0, <1>1, <2>1
  <2>5. SaveInProgress'
    BY <2>1, <2>2, <2>4 DEF ResultInv, SaveInProgress
  <2> QED
    BY <2>3, <2>5 DEF ResultInv
<1>9. CASE Complete(w)
  <2>1. /\ UNCHANGED <<now, body, ctype>>
        /\ wstep[w] = "ack" /\ wtask[w] \in Requests
        /\ tstate' = [tstate EXCEPT ![wtask[w]] = "completed"]
        /\ Release(w)
    BY <1>0, <1>9 DEF Complete, redisVars
  <2>2. CompletedPair'
    BY <1>0, <2>1 DEF ResultInv, CompletedPair, SaveInProgress
  <2>3. /\ wstep'[w] = "idle"
        /\ \A x \in Workers \ {w} : /\ wstep'[x] = wstep[x]
                                    /\ wtask'[x] = wtask[x]
                                    /\ wkind'[x] = wkind[x]
    BY <1>0, <2>1 DEF Release
  <2>4. SaveInProgress'
    BY <2>1, <2>3 DEF ResultInv, SaveInProgress
  <2> QED
    BY <2>2, <2>4 DEF ResultInv
<1> QED
  BY <1>2, <1>3, <1>4, <1>5, <1>6, <1>7, <1>8, <1>9 DEF WorkerStep, WorkerProgress

\* Submit handlers, readers, asynq and the clock write no results, complete no
\* task and do not move the workers.
LEMMA ResultStep == TypeOK /\ Lifecycle /\ ResultInv /\ [Next]_vars => ResultInv'
<1> SUFFICES ASSUME TypeOK, Lifecycle, ResultInv, [Next]_vars PROVE ResultInv'
  OBVIOUS
<1>0. now \in Nat /\ tstate \in [Requests -> TaskStates]
  BY StoreAssumption DEF TypeOK, TypeOKStore
<1>1. ASSUME NEW r \in Requests, SubmitStep(r), UNCHANGED <<workerVars, readerVars>>
      PROVE  ResultInv'
  <2>1. UNCHANGED tstate \/ tstate' = [tstate EXCEPT ![r] = "pending"]
    BY <1>1, SubmitQueue DEF asynqVars, CreateTask
  <2>2. UNCHANGED <<now, body, ctype>>
    BY <1>1, SubmitQueue
  <2>3. \A t \in Requests : tstate'[t] \in Settled => tstate[t] \in Settled
    BY <1>0, <2>1 DEF Settled
  <2> QED
    BY <1>0, <1>1, <2>2, <2>3, ResultFrame DEF workerVars
<1>2. ASSUME NEW w \in Workers, WorkerStep(w) PROVE ResultInv'
  BY <1>2, ResultWorker
<1>3. ASSUME NEW r \in Requests, AsynqStep(r) PROVE ResultInv'
  <2>1. /\ tstate[r] \in {"active", "retry", "completed"}
        /\ UNCHANGED <<wtask, wstep, wkind, now, body, ctype>>
    BY <1>3, AsynqQueue DEF Lifecycle
  <2>2. \A t \in Requests : tstate'[t] \in Settled => tstate[t] \in Settled
    BY <1>0, <1>3 DEF AsynqStep, Recover, Forward, Janitor, AsynqFail, AsynqForward,
       AsynqJanitor, Settled
  <2> QED
    BY <1>0, <2>1, <2>2, ResultFrame
<1>4. ASSUME NEW d \in Readers, ReaderStep(d), UNCHANGED <<submitVars, workerVars>>
      PROVE  ResultInv'
  <2>1. UNCHANGED storeVars
    BY <1>4 DEF ReaderStep, ResolveToken, ResolveTokenFails, StatusByHint,
       StatusByScan, ReadBody, ReadBodyFails, ReadType
  <2> QED
    BY <1>0, <1>4, <2>1, ResultFrame DEF storeVars, workerVars
<1>5. CASE Tick /\ UNCHANGED <<submitVars, workerVars, readerVars>>
  BY <1>0, <1>5, ResultFrame DEF Tick, redisVars, asynqVars, workerVars
<1>6. CASE UNCHANGED vars
  BY <1>0, <1>6, ResultFrame DEF vars, storeVars, workerVars
<1> QED
  BY <1>1, <1>2, <1>3, <1>4, <1>5, <1>6 DEF Next

\* SaveResult's two SETs and the acknowledgement are three separate steps that
\* may fail, be repeated by another attempt or be cut off by a crash; all the
\* same a completed task has a body and the content type that belongs to it.
THEOREM CompletedResults == Spec => []CompletedPair
<1>1. Init => Lifecycle /\ ResultInv
  BY DEF Init, InitStore, InitSubmit, InitWorker, Lifecycle, NotYetQueued,
     OneWorkerPerTask, ResultInv, CompletedPair, SaveInProgress
<1>2. ResultInv => CompletedPair
  BY DEF ResultInv
<1> QED
  BY <1>1, <1>2, LifecycleStep, ResultStep, TypeCorrect, PTL DEF Spec

\* Only a worker on an active task writes a result, so that nobody writes the
\* result of a task that has completed.
LEMMA FrozenStep ==
    ASSUME TypeOK, Lifecycle, [Next]_vars, NEW r \in Requests, tstate[r] \in Settled
    PROVE  body'[r] = body[r] /\ ctype'[r] = ctype[r]
<1>1. ASSUME NEW t \in Requests, SubmitStep(t) PROVE UNCHANGED <<body, ctype>>
  BY <1>1, SubmitQueue
<1>2. ASSUME NEW w \in Workers, WorkerStep(w)
      PROVE  body'[r] = body[r] /\ ctype'[r] = ctype[r]
  <2>1. CASE UNCHANGED redisVars
    BY <2>1 DEF redisVars
  <2>2. CASE SaveBody(w) \/ SaveBodyFails(w) \/ SaveType(w) \/ SaveTypeFails(w)
    <3>1. wstep[w] # "idle"
      BY <2>2 DEF SaveBody, SaveBodyFails, SaveType, SaveTypeFails
    <3>2. wtask[w] \in Requests /\ wtask[w] # r
      BY <3>1 DEF Lifecycle, OneWorkerPerTask, Settled, TypeOK, TypeOKWorker
    <3>3. body \in [Requests -> Values] /\ ctype \in [Requests -> Values]
      BY DEF TypeOK, TypeOKStore
    <3> QED
      BY <2>2, <3>2, <3>3 DEF SaveBody, SaveBodyFails, SaveType, SaveTypeFails
  <2> QED
    BY <1>2, <2>1, <2>2 DEF WorkerStep, WorkerProgress, Dequeue, UnknownEngine,
       LoadBlobs, LoadBlobsFails, Convert, ConvertFails, Complete,
       DeadlineBeatsAck, WorkerCrash, Shutdown, storeVars, redisVars
<1>3. ASSUME NEW t \in Requests, AsynqStep(t) PROVE UNCHANGED <<body, ctype>>
  BY <1>3, AsynqQueue DEF Lifecycle
<1>4. ASSUME NEW d \in Readers, ReaderStep(d) PROVE UNCHANGED <<body, ctype>>
  BY <1>4 DEF ReaderStep, ResolveToken, ResolveTokenFails, StatusByHint,
     StatusByScan, ReadBody, ReadBodyFails, ReadType, storeVars
<1>5. CASE Tick \/ UNCHANGED vars
  BY <1>5 DEF Tick, redisVars, vars, storeVars
<1> QED
  BY <1>1, <1>2, <1>3, <1>4, <1>5 DEF Next

\* A result never changes once its task has completed.
THEOREM ResultsFrozen == Spec => ResultFrozen
<1>1. Init => Lifecycle
  BY DEF Init, InitStore, InitSubmit, InitWorker, Lifecycle, NotYetQueued,
     OneWorkerPerTask
<1>2. TypeOK /\ Lifecycle /\ [Next]_vars =>
        [\A r \in Requests : tstate[r] \in {"completed", "deleted"} =>
            body'[r] = body[r] /\ ctype'[r] = ctype[r]]_vars
  BY FrozenStep DEF Settled
<1> QED
  BY <1>1, <1>2, LifecycleStep, TypeCorrect, PTL DEF Spec, ResultFrozen

=============================================================================
