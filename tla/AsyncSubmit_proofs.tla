------------------------- MODULE AsyncSubmit_proofs -------------------------
(***************************************************************************)
(* What submit promises its callers, for any number of requests, callers   *)
(* and Idempotency-Keys, any file counts and any clock.  The properties    *)
(* are proved together as SubmitInv: that an answer is sound follows from  *)
(* what the slots hold and from the order of Enqueue's writes, and that a  *)
(* slot keeps its token follows from the answers given before.             *)
(*                                                                         *)
(* Then what the status and result endpoints promise: a read is a sequence *)
(* of round trips, and the invariant says that what the reader carries     *)
(* from one to the next is still true when it is used.                     *)
(***************************************************************************)
EXTENDS AsyncTasks_proofs

-----------------------------------------------------------------------------
(* Steps that are not submit's *)

\* Steps that leave submit's keys and handlers alone, create no task and let
\* time pass at most preserve the invariant.
LEMMA SubmitElsewhere ==
    ASSUME TypeOK, SubmitInv,
           UNCHANGED <<blob, token, idem, payload, pc, input, reply>>,
           now' \in Nat, now' >= now,
           \A r \in Requests : tstate'[r] = "absent" <=> tstate[r] = "absent"
    PROVE  SubmitInv'
<1>0. /\ now \in Nat
      /\ \A r \in Requests : token[r].exp \in Nat
      /\ \A s \in Slots : idem[s].exp \in Nat
  BY StoreAssumption DEF TypeOK, TypeOKStore, Bindings, SlotVals
<1>1. WriteOrder' /\ NoPartialTask'
  BY DEF SubmitInv, WriteOrder, NoPartialTask, BoundTo, FileParts
<1>2. SlotSound'
  BY DEF SubmitInv, SlotSound, SlotNames, BoundTo, HasIdem, Slot
<1>3. TokenExpiry'
  BY <1>0, StoreAssumption DEF SubmitInv, TokenExpiry
<1>4. AnswerSettled'
  BY DEF SubmitInv, AnswerSettled, Deduplicated, HasIdem
<1>5. AnswerIsMine'
  BY DEF SubmitInv, AnswerIsMine, BoundTo, HasIdem, Slot
<1>6. SlotKeepsToken'
  <2> SUFFICES ASSUME NEW r \in Requests, Deduplicated(r),
                      Live(token[reply[r].token].exp)'
               PROVE  /\ idem[Slot(input[r])].token = reply[r].token
                      /\ idem[Slot(input[r])].exp > now'
    BY DEF SlotKeepsToken, Deduplicated, Slot, Live
  <2>1. reply[r].token \in Requests /\ HasIdem(r) /\ input[r] \in Inputs
    BY DEF SubmitInv, AnswerSettled, AnswerIsMine, BoundTo, Deduplicated, TypeOK,
       TypeOKSubmit
  <2>2. Slot(input[r]) \in Slots
    BY <2>1, InputFacts DEF HasIdem
  <2>3. token[reply[r].token].exp > now' /\ Live(token[reply[r].token].exp)
    BY <1>0, <2>1 DEF Live
  <2>4. idem[Slot(input[r])].token = reply[r].token /\ Live(idem[Slot(input[r])].exp)
    BY <2>3 DEF SubmitInv, SlotKeepsToken
  <2>5. idem[Slot(input[r])].exp >= token[reply[r].token].exp
    BY <1>0, <2>2, <2>4 DEF SubmitInv, SlotSound, SlotNames, Live
  <2> QED
    BY <1>0, <2>1, <2>2, <2>3, <2>4, <2>5
<1> QED
  BY <1>1, <1>2, <1>3, <1>4, <1>5, <1>6 DEF SubmitInv

\* Workers write results and move tasks, and touch nothing else.
LEMMA WorkerElsewhere ==
    ASSUME TypeOK, Lifecycle, NEW w \in Workers, WorkerStep(w)
    PROVE  /\ UNCHANGED <<now, blob, token, idem, payload>>
           /\ \A r \in Requests : tstate'[r] = "absent" <=> tstate[r] = "absent"
<1>0. /\ tstate \in [Requests -> TaskStates]
      /\ wstep[w] # "idle" =>
            wtask[w] \in Requests /\ tstate[wtask[w]] = "active"
  BY DEF TypeOK, TypeOKStore, TypeOKWorker, Lifecycle, OneWorkerPerTask
<1>1. UNCHANGED <<now, blob, token, idem, payload>>
  BY DEF WorkerStep, WorkerProgress, Dequeue, UnknownEngine, LoadBlobs,
     LoadBlobsFails, Convert, ConvertFails, SaveBody, SaveBodyFails, SaveType,
     SaveTypeFails, Complete, DeadlineBeatsAck, WorkerCrash, Shutdown, GiveUp,
     AsynqFail, storeVars, redisVars, asynqVars
<1>2. \A r \in Requests : tstate'[r] = "absent" <=> tstate[r] = "absent"
  BY <1>0, WorkerQueue
<1> QED
  BY <1>1, <1>2

-----------------------------------------------------------------------------
(* Submit's own steps, variable by variable *)

\* A handler writes under its own id only, does not touch the clock, reads its
\* input once, and does nothing after its answer.
LEMMA SubmitLocal ==
    ASSUME TypeOK, NEW r \in Requests, SubmitStep(r)
    PROVE  /\ now' = now
           /\ pc[r] # "done"
           /\ pc[r] # "new" => input' = input
           /\ \A t \in Requests \ {r} :
                 /\ pc'[t] = pc[t] /\ input'[t] = input[t] /\ reply'[t] = reply[t]
                 /\ token'[t] = token[t] /\ blob'[t] = blob[t]
                 /\ payload'[t] = payload[t] /\ tstate'[t] = tstate[t]
<1>0. /\ pc \in [Requests -> PCs] /\ input \in [Requests -> Inputs \cup {None}]
      /\ reply \in [Requests -> Replies] /\ token \in [Requests -> Bindings]
      /\ blob \in [Requests -> [Parts -> Nat]]
      /\ payload \in [Requests -> Payloads] /\ tstate \in [Requests -> TaskStates]
  BY DEF TypeOK, TypeOKStore, TypeOKSubmit
<1> USE DEF Accept, Fail, Goto, storeVars, redisVars, asynqVars
<1>1. CASE RefuseSubmit(r) \/ BeginSubmit(r)
  BY <1>0, <1>1 DEF RefuseSubmit, BeginSubmit
<1>2. CASE ResolveHit(r) \/ ResolveMiss(r) \/ RecordLoses(r) \/ ReadWinner(r)
           \/ SubmitCrash(r)
  BY <1>0, <1>2 DEF ResolveHit, ResolveMiss, RecordLoses, ReadWinner, SubmitCrash
<1>3. CASE PersistBlobs(r) \/ PersistBlobsFails(r)
  BY <1>0, <1>3 DEF PersistBlobs, PersistBlobsFails, WriteBlobs
<1>4. CASE EnqueueTask(r) \/ EnqueueFails(r)
  BY <1>0, <1>4 DEF EnqueueTask, EnqueueFails, CreateTask
<1>5. CASE PersistToken(r) \/ PersistTokenFails(r)
  BY <1>0, <1>5 DEF PersistToken, PersistTokenFails, BindToken, HintQueue
<1>6. CASE RecordWins(r) \/ RecordSkipped(r)
  BY <1>0, <1>6 DEF RecordWins, RecordSkipped
<1> QED
  BY <1>1, <1>2, <1>3, <1>4, <1>5, <1>6 DEF SubmitStep, SubmitProgress

\* When a handler writes its token, its slot and its blobs.
LEMMA SubmitWrites ==
    ASSUME NEW r \in Requests, SubmitStep(r)
    PROVE  /\ \/ token' = token
              \/ pc[r] = "token" /\ BindToken(r)
           /\ \/ idem' = idem
              \/ /\ pc[r] = "record" /\ HasIdem(r) /\ ReserveSlot(r)
                 /\ Accept(r, r, "recorded") \/ Accept(r, r, "own")
           /\ blob' = blob \/ pc[r] = "blobs"
<1> USE DEF storeVars, redisVars
<1>1. CASE RefuseSubmit(r) \/ BeginSubmit(r) \/ ResolveHit(r) \/ ResolveMiss(r)
           \/ RecordLoses(r) \/ ReadWinner(r) \/ SubmitCrash(r)
  BY <1>1 DEF RefuseSubmit, BeginSubmit, ResolveHit, ResolveMiss, RecordLoses,
     ReadWinner, SubmitCrash
<1>2. CASE PersistBlobs(r) \/ PersistBlobsFails(r)
  BY <1>2 DEF PersistBlobs, PersistBlobsFails
<1>3. CASE EnqueueTask(r) \/ EnqueueFails(r)
  BY <1>3 DEF EnqueueTask, EnqueueFails
<1>4. CASE PersistToken(r) \/ PersistTokenFails(r)
  BY <1>4 DEF PersistToken, PersistTokenFails
<1>5. CASE RecordWins(r) \/ RecordSkipped(r)
  BY <1>5 DEF RecordWins, RecordSkipped
<1> QED
  BY <1>1, <1>2, <1>3, <1>4, <1>5 DEF SubmitStep, SubmitProgress

\* Where an answer's token comes from.
LEMMA SubmitAnswers ==
    ASSUME TypeOK, NEW r \in Requests, SubmitStep(r)
    PROVE  \/ reply'[r] = reply[r]
           \/ reply'[r].code # 202
           \/ /\ pc[r] \in {"record", "reread"}
              /\ Accept(r, r, "own")
           \/ /\ pc[r] = "record" /\ HasIdem(r) /\ ReserveSlot(r)
              /\ Accept(r, r, "recorded")
           \/ /\ pc[r] \in {"resolve", "reread"} /\ HasIdem(r)
              /\ Live(idem[Slot(input[r])].exp) /\ idem' = idem
              /\ \E via \in {"resolved", "winner"} :
                    Accept(r, idem[Slot(input[r])].token, via)
<1>0. reply \in [Requests -> Replies]
  BY DEF TypeOK, TypeOKSubmit
<1>1. ASSUME NEW code \in {400, 501, 503}, reply' = [reply EXCEPT ![r].code = code]
      PROVE  reply'[r].code # 202
  BY <1>0, <1>1 DEF Replies
<1>2. CASE RefuseSubmit(r)
  BY <1>1, <1>2 DEF RefuseSubmit
<1>3. CASE ResolveMiss(r) \/ PersistBlobsFails(r) \/ EnqueueFails(r)
           \/ PersistTokenFails(r)
  BY <1>1, <1>3 DEF ResolveMiss, PersistBlobsFails, EnqueueFails,
     PersistTokenFails, Fail, Goto
<1>4. CASE BeginSubmit(r) \/ PersistBlobs(r) \/ EnqueueTask(r) \/ PersistToken(r)
           \/ RecordLoses(r) \/ SubmitCrash(r)
  BY <1>4 DEF BeginSubmit, PersistBlobs, EnqueueTask, PersistToken, RecordLoses,
     SubmitCrash, Goto
<1>5. CASE ResolveHit(r)
  BY <1>5 DEF ResolveHit, storeVars
<1>6. CASE RecordWins(r) \/ RecordSkipped(r)
  BY <1>6 DEF RecordWins, RecordSkipped
<1>7. CASE ReadWinner(r)
  <2>1. HasIdem(r)
    BY <1>7 DEF ReadWinner, TypeOK, TypeOKSubmit, HasIdem
  <2> QED
    BY <1>7, <2>1 DEF ReadWinner, storeVars
<1> QED
  BY <1>2, <1>3, <1>4, <1>5, <1>6, <1>7 DEF SubmitStep, SubmitProgress

\* A binding that is no longer being written stays as it is, and a task that
\* exists does not go away under submit.
LEMMA BoundStays ==
    ASSUME TypeOK, NEW r \in Requests, SubmitStep(r),
           NEW t \in Requests, NEW caller, pc[t] # "token", BoundTo(t, caller)
    PROVE  BoundTo(t, caller)'
<1>1. token'[t] = token[t]
  BY SubmitLocal, SubmitWrites
<1>2. tstate'[t] # "absent"
  <2>1. tstate \in [Requests -> TaskStates]
    BY DEF TypeOK, TypeOKStore
  <2> QED
    BY <2>1, SubmitQueue DEF asynqVars, CreateTask, BoundTo
<1> QED
  BY <1>1, <1>2 DEF BoundTo

-----------------------------------------------------------------------------
(* Submit's own steps preserve the invariant, conjunct by conjunct *)

\* Enqueue writes blobs before the task and the task before the token.
LEMMA WriteOrderStep ==
    ASSUME TypeOK, Lifecycle, SubmitInv, NEW r \in Requests, SubmitStep(r)
    PROVE  WriteOrder' /\ NoPartialTask'
<1>0. /\ pc \in [Requests -> PCs]
      /\ blob \in [Requests -> [Parts -> Nat]] /\ now \in Nat
      /\ payload \in [Requests -> Payloads] /\ tstate \in [Requests -> TaskStates]
      /\ token \in [Requests -> Bindings]
      /\ pc[r] # "new" => input[r] \in Inputs
      /\ tstate[r] # "absent" => pc[r] \notin BeforeEnqueue
  BY StoreAssumption DEF TypeOK, TypeOKStore, TypeOKSubmit, Lifecycle, NotYetQueued
<1>1. WriteOrder /\ NoPartialTask
  BY DEF SubmitInv
<1>2. ASSUME NEW t \in Requests \ {r}
      PROVE  /\ pc'[t] \in {"token", "record", "reread"} => tstate'[t] # "absent"
             /\ pc'[t] \in {"record", "reread"} => BoundTo(t, input[t].caller)'
             /\ pc'[t] = "enqueue" => \A p \in FileParts(input'[t]) : blob'[t][p] > 0
             /\ tstate'[t] # "absent" =>
                   /\ payload'[t].nfiles = Len(input'[t].files)
                   /\ \A p \in 1..payload'[t].nfiles : blob'[t][p] > 0
  BY <1>1, SubmitLocal DEF WriteOrder, NoPartialTask, BoundTo
<1>3. /\ pc'[r] \in {"token", "record", "reread"} => tstate'[r] # "absent"
      /\ pc'[r] \in {"record", "reread"} => BoundTo(r, input[r].caller)'
      /\ pc'[r] = "enqueue" => \A p \in FileParts(input'[r]) : blob'[r][p] > 0
      /\ tstate'[r] # "absent" =>
            /\ payload'[r].nfiles = Len(input'[r].files)
            /\ \A p \in 1..payload'[r].nfiles : blob'[r][p] > 0
  <2> USE DEF Accept, Fail, Goto, storeVars, redisVars, asynqVars, BeforeEnqueue
  <2>1. CASE RefuseSubmit(r) \/ BeginSubmit(r)
    BY <1>0, <2>1 DEF RefuseSubmit, BeginSubmit
  <2>2. CASE ResolveHit(r) \/ SubmitCrash(r)
    BY <1>0, <1>1, <2>2 DEF ResolveHit, SubmitCrash, NoPartialTask
  <2>3. CASE ResolveMiss(r)
    <3>1. input[r].files = <<>> => FileParts(input[r]) = {}
      BY DEF FileParts
    <3> QED
      BY <1>0, <2>3, <3>1 DEF ResolveMiss
  <2>4. CASE PersistBlobs(r) \/ PersistBlobsFails(r)
    <3>1. Len(input[r].files) \in 0..MaxFiles
      BY <1>0, <2>4, InputFacts DEF PersistBlobs, PersistBlobsFails
    <3>2. FileParts(input[r]) \subseteq Parts
      BY <3>1, StoreAssumption DEF FileParts, Parts
    <3>3. WriteBlobs(r, FileParts(input[r])) =>
             \A p \in FileParts(input[r]) : blob'[r][p] > 0
      BY <1>0, <3>2, StoreAssumption DEF WriteBlobs, ExpireIn
    <3> QED
      BY <1>0, <2>4, <3>3 DEF PersistBlobs, PersistBlobsFails
  <2>5. CASE EnqueueTask(r) \/ EnqueueFails(r)
    <3>1. \A p \in FileParts(input[r]) : blob[r][p] > 0
      BY <1>1, <2>5 DEF WriteOrder, EnqueueTask, EnqueueFails
    <3>2. CASE CreateTask(r)
      <4>1. tstate'[r] = "pending" /\ payload'[r].nfiles = Len(input[r].files)
        BY <1>0, <3>2 DEF CreateTask
      <4> QED
        BY <1>0, <2>5, <3>1, <4>1 DEF EnqueueTask, EnqueueFails, FileParts
    <3>3. CASE UNCHANGED asynqVars /\ EnqueueFails(r)
      BY <1>0, <3>3 DEF EnqueueFails
    <3> QED
      BY <2>5, <3>2, <3>3 DEF EnqueueTask, EnqueueFails
  <2>6. CASE PersistToken(r) \/ PersistTokenFails(r)
    <3>1. /\ pc[r] = "token" /\ tstate[r] # "absent"
          /\ UNCHANGED <<input, tstate, payload, blob>>
      BY <1>1, <2>6 DEF WriteOrder, PersistToken, PersistTokenFails
    <3>2. PersistToken(r) => BoundTo(r, input[r].caller)'
      <4>1. now + ResultTTL > 0
        BY <1>0, StoreAssumption
      <4> QED
        BY <1>0, <3>1, <4>1 DEF PersistToken, BindToken, BoundTo, ExpireIn
    <3> QED
      BY <1>0, <1>1, <2>6, <3>1, <3>2 DEF PersistToken, PersistTokenFails, NoPartialTask
  <2>7. CASE RecordWins(r) \/ RecordSkipped(r) \/ ReadWinner(r)
    BY <1>0, <1>1, <2>7 DEF RecordWins, RecordSkipped, ReadWinner, NoPartialTask
  <2>8. CASE RecordLoses(r)
    BY <1>0, <1>1, <2>8 DEF RecordLoses, WriteOrder, NoPartialTask, BoundTo
  <2> QED
    BY <2>1, <2>2, <2>3, <2>4, <2>5, <2>6, <2>7, <2>8 DEF SubmitStep, SubmitProgress
<1>4. WriteOrder'
  BY <1>2, <1>3 DEF WriteOrder
<1>5. NoPartialTask'
  BY <1>2, <1>3 DEF NoPartialTask
<1> QED
  BY <1>4, <1>5

\* A token bound now lives for ResultTTL.
LEMMA TokenExpiryStep ==
    ASSUME TypeOK, SubmitInv, NEW r \in Requests, SubmitStep(r)
    PROVE  TokenExpiry'
<1>0. token \in [Requests -> Bindings] /\ now \in Nat
  BY StoreAssumption DEF TypeOK, TypeOKStore
<1>1. now' = now
  BY SubmitLocal
<1>2. CASE token' = token
  BY <1>1, <1>2 DEF SubmitInv, TokenExpiry
<1>3. CASE BindToken(r)
  <2>1. /\ token'[r].exp = now + ResultTTL
        /\ \A t \in Requests \ {r} : token'[t] = token[t]
    BY <1>0, <1>3 DEF BindToken, ExpireIn
  <2>2. now + ResultTTL <= now + ResultTTL
    BY <1>0, StoreAssumption
  <2> QED
    BY <1>1, <2>1, <2>2 DEF SubmitInv, TokenExpiry
<1> QED
  BY <1>2, <1>3, SubmitWrites

\* A slot is taken by a submission that has bound its token, and is answered.
LEMMA SlotSoundStep ==
    ASSUME TypeOK, SubmitInv, NEW r \in Requests, SubmitStep(r)
    PROVE  SlotSound'
<1>0. /\ idem \in [Slots -> SlotVals] /\ now \in Nat
      /\ pc \in [Requests -> PCs]
      /\ pc[r] # "new" => input[r] \in Inputs
  BY StoreAssumption DEF TypeOK, TypeOKStore, TypeOKSubmit
<1>1. ASSUME NEW s \in Slots, idem'[s] = idem[s], idem[s].exp > 0,
             NEW t, t = idem[s].token
      PROVE  SlotNames(s, t)'
  <2>1. SlotNames(s, t)
    BY <1>1 DEF SubmitInv, SlotSound
  <2>2. t \in Requests \ {r}
    BY <2>1, SubmitLocal DEF SlotNames
  <2>3. pc'[t] = pc[t] /\ input'[t] = input[t] /\ token'[t] = token[t]
        /\ tstate'[t] = tstate[t]
    BY <2>2, SubmitLocal
  <2> QED
    BY <1>1, <2>1, <2>3 DEF SlotNames, HasIdem, BoundTo
<1>2. CASE idem' = idem
  BY <1>1, <1>2 DEF SlotSound
<1>3. CASE /\ pc[r] = "record" /\ HasIdem(r) /\ ReserveSlot(r)
           /\ Accept(r, r, "recorded") \/ Accept(r, r, "own")
  <2>1. Slot(input[r]) \in Slots
    BY <1>0, <1>3, InputFacts DEF HasIdem
  <2>2. /\ idem'[Slot(input[r])] = [token |-> r, exp |-> now + ResultTTL]
        /\ \A s \in Slots \ {Slot(input[r])} : idem'[s] = idem[s]
    BY <1>0, <1>3, <2>1 DEF ReserveSlot, ExpireIn
  <2>3. pc'[r] = "done" /\ input' = input
    BY <1>0, <1>3 DEF Accept
  <2>4. BoundTo(r, input[r].caller)
    BY <1>3 DEF SubmitInv, WriteOrder
  <2>5. token' = token /\ tstate'[r] = tstate[r]
    BY <1>3, SubmitWrites, SubmitQueue DEF asynqVars
  <2>6. token[r].exp <= now + ResultTTL
    BY DEF SubmitInv, TokenExpiry
  <2>7. ASSUME NEW s \in Slots, s = Slot(input[r]) PROVE SlotNames(s, r)'
    BY <1>3, <2>2, <2>3, <2>4, <2>5, <2>6, <2>7 DEF SlotNames, HasIdem, BoundTo
  <2>8. ASSUME NEW s \in Slots, idem'[s].exp > 0, NEW t, t = idem'[s].token
        PROVE  SlotNames(s, t)'
    <3>1. CASE s = Slot(input[r])
      BY <2>2, <2>7, <2>8, <3>1
    <3>2. CASE s # Slot(input[r])
      BY <1>1, <2>2, <2>8, <3>2
    <3> QED
      BY <3>1, <3>2
  <2> QED
    BY <2>8 DEF SlotSound
<1> QED
  BY <1>2, <1>3, SubmitWrites

\* The answers given so far stay sound, and a new one is: its token is the
\* caller's own, bound before, or the one its slot names.
LEMMA AnswerStep ==
    ASSUME TypeOK, SubmitInv, NEW r \in Requests, SubmitStep(r)
    PROVE  AnswerSettled' /\ AnswerIsMine'
<1>0. /\ pc \in [Requests -> PCs] /\ reply \in [Requests -> Replies]
      /\ idem \in [Slots -> SlotVals] /\ now \in Nat
      /\ pc[r] # "new" => input[r] \in Inputs
  BY StoreAssumption DEF TypeOK, TypeOKStore, TypeOKSubmit
<1>1. ASSUME NEW t \in Requests, reply'[t].code = 202,
             NEW u, u = reply'[t].token, NEW c, c = input'[t].caller
      PROVE  /\ pc'[t] = "done" /\ pc'[u] = "done"
             /\ reply'[t].via \in {"resolved", "recorded", "winner"} => HasIdem(t)'
             /\ BoundTo(u, c)'
             /\ \/ u = t
                \/ HasIdem(t)' /\ HasIdem(u)' /\ Slot(input'[u]) = Slot(input'[t])
  <2>1. CASE reply'[t] = reply[t]
    <3>1. /\ pc[t] = "done" /\ pc[u] = "done"
          /\ reply[t].via \in {"resolved", "recorded", "winner"} => HasIdem(t)
          /\ BoundTo(u, input[t].caller)
          /\ \/ u = t
             \/ HasIdem(t) /\ HasIdem(u) /\ Slot(input[u]) = Slot(input[t])
      BY <1>1, <2>1 DEF SubmitInv, AnswerSettled, AnswerIsMine, Deduplicated
    <3>2. t \in Requests \ {r} /\ u \in Requests \ {r}
      BY <3>1, SubmitLocal DEF BoundTo
    <3>3. /\ pc'[t] = pc[t] /\ pc'[u] = pc[u]
          /\ input'[t] = input[t] /\ input'[u] = input[u]
      BY <3>2, SubmitLocal
    <3>4. BoundTo(u, c)'
      BY <1>1, <3>1, <3>2, <3>3, BoundStays
    <3> QED
      BY <2>1, <3>1, <3>3, <3>4 DEF HasIdem
  <2>2. CASE reply'[t] # reply[t]
    <3>1. t = r
      BY <2>2, SubmitLocal
    <3>2. ASSUME NEW tok, NEW via, Accept(r, tok, via)
          PROVE  pc'[r] = "done" /\ reply'[r].token = tok /\ reply'[r].via = via
                 /\ input' = input
      BY <1>0, <3>2 DEF Accept
    <3>3. CASE pc[r] \in {"record", "reread"} /\ Accept(r, r, "own")
      <4>1. BoundTo(r, input[r].caller)
        BY <3>3 DEF SubmitInv, WriteOrder
      <4>2. pc'[r] = "done" /\ u = r /\ reply'[r].via = "own" /\ c = input[r].caller
        BY <1>1, <3>1, <3>2, <3>3
      <4>3. BoundTo(u, c)'
        BY <3>3, <4>1, <4>2, BoundStays
      <4> QED
        BY <3>1, <4>2, <4>3
    <3>4. CASE pc[r] = "record" /\ HasIdem(r) /\ Accept(r, r, "recorded")
      <4>1. BoundTo(r, input[r].caller)
        BY <3>4 DEF SubmitInv, WriteOrder
      <4>2. pc'[r] = "done" /\ u = r /\ c = input[r].caller /\ HasIdem(r)'
        BY <1>1, <3>1, <3>2, <3>4 DEF HasIdem
      <4>3. BoundTo(u, c)'
        BY <3>4, <4>1, <4>2, BoundStays
      <4> QED
        BY <3>1, <4>2, <4>3
    <3>5. CASE /\ pc[r] \in {"resolve", "reread"} /\ HasIdem(r)
               /\ Live(idem[Slot(input[r])].exp)
               /\ \E via \in {"resolved", "winner"} :
                     Accept(r, idem[Slot(input[r])].token, via)
      <4>1. Slot(input[r]) \in Slots
        BY <1>0, <3>5, InputFacts DEF HasIdem
      <4>2. pc'[r] = "done" /\ u = idem[Slot(input[r])].token /\ c = input[r].caller
            /\ input' = input
        BY <1>1, <3>1, <3>2, <3>5
      <4>3. SlotNames(Slot(input[r]), u)
        BY <1>0, <3>5, <4>1, <4>2 DEF SubmitInv, SlotSound, SlotVals, Live
      <4>4. u \in Requests \ {r} /\ pc[u] = "done" /\ HasIdem(u)
            /\ Slot(input[u]) = Slot(input[r]) /\ BoundTo(u, input[u].caller)
        BY <4>3, SubmitLocal DEF SlotNames
      <4>5. keyFromAPIKey(input[u].caller) = keyFromAPIKey(c)
        BY <4>2, <4>4 DEF Slot, idemKey
      <4>6. BoundTo(u, c)
        BY <4>4, <4>5 DEF BoundTo
      <4>7. BoundTo(u, c)'
        BY <4>4, <4>6, BoundStays
      <4>8. pc'[u] = "done"
        BY <4>4, SubmitLocal
      <4> QED
        BY <3>1, <3>5, <4>2, <4>4, <4>7, <4>8 DEF HasIdem
    <3> QED
      BY <1>1, <2>2, <3>1, <3>3, <3>4, <3>5, SubmitAnswers
  <2> QED
    BY <2>1, <2>2
<1>2. AnswerSettled'
  BY <1>1 DEF AnswerSettled, Deduplicated
<1>3. AnswerIsMine'
  BY <1>1 DEF AnswerIsMine
<1> QED
  BY <1>2, <1>3

\* A slot is only taken over when it has expired, and with it every token that
\* was handed out under it.
LEMMA SlotKeepsTokenStep ==
    ASSUME TypeOK, SubmitInv, NEW r \in Requests, SubmitStep(r)
    PROVE  SlotKeepsToken'
<1>0. /\ reply \in [Requests -> Replies] /\ idem \in [Slots -> SlotVals]
      /\ now \in Nat /\ now' = now /\ pc[r] # "done"
      /\ pc[r] # "new" => input[r] \in Inputs /\ input' = input
  BY StoreAssumption, SubmitLocal DEF TypeOK, TypeOKStore, TypeOKSubmit
<1>1. ASSUME NEW t \in Requests, Deduplicated(t)', NEW u, u = reply'[t].token,
             token'[u].exp > now, NEW s, s = Slot(input'[t])
      PROVE  idem'[s].token = u /\ idem'[s].exp > now
  <2>1. CASE reply'[t] = reply[t]
    <3>1. pc[t] = "done" /\ pc[u] = "done" /\ HasIdem(t) /\ u \in Requests
      BY <1>1, <2>1 DEF SubmitInv, AnswerSettled, AnswerIsMine, BoundTo, Deduplicated
    <3>2. t \in Requests \ {r} /\ u \in Requests \ {r}
      BY <1>0, <3>1
    <3>3. input'[t] = input[t] /\ token'[u] = token[u]
      BY <3>2, SubmitLocal
    <3>4. idem[s].token = u /\ Live(idem[s].exp)
      BY <1>1, <2>1, <3>3 DEF SubmitInv, SlotKeepsToken, Deduplicated, Live
    <3>5. s \in Slots
      BY <1>1, <3>1, <3>3, InputFacts DEF TypeOK, TypeOKSubmit, HasIdem
    <3>6. ReserveSlot(r) => idem'[s] = idem[s]
      BY <1>0, <3>4, <3>5 DEF ReserveSlot
    <3>7. idem'[s] = idem[s]
      BY <3>6, SubmitWrites
    <3> QED
      BY <3>4, <3>7 DEF Live
  <2>2. CASE reply'[t] # reply[t]
    <3>1. t = r /\ reply'[r].code = 202 /\ reply'[r].via # "own"
      BY <1>1, <2>2, SubmitLocal DEF Deduplicated
    <3>2. ASSUME NEW tok, NEW via, Accept(r, tok, via)
          PROVE  reply'[r].token = tok /\ reply'[r].via = via /\ input' = input
      BY <1>0, <3>2 DEF Accept
    <3>3. CASE pc[r] = "record" /\ HasIdem(r) /\ ReserveSlot(r)
               /\ Accept(r, r, "recorded")
      <4>1. s = Slot(input[r]) /\ s \in Slots /\ u = r
        BY <1>0, <1>1, <3>1, <3>2, <3>3, InputFacts DEF HasIdem
      <4>2. now + ResultTTL > now
        BY <1>0, StoreAssumption
      <4> QED
        BY <1>0, <3>3, <4>1, <4>2 DEF ReserveSlot, ExpireIn
    <3>4. CASE /\ Live(idem[Slot(input[r])].exp) /\ idem' = idem
               /\ \E via \in {"resolved", "winner"} :
                     Accept(r, idem[Slot(input[r])].token, via)
      BY <1>1, <3>1, <3>2, <3>4 DEF Live
    <3> QED
      BY <2>2, <3>1, <3>2, <3>3, <3>4, SubmitAnswers
  <2> QED
    BY <2>1, <2>2
<1> QED
  BY <1>0, <1>1 DEF SlotKeepsToken, Live

-----------------------------------------------------------------------------
(* The theorems *)

\* Every step of the pipeline preserves what submit promises.
LEMMA SubmitInvStep == TypeOK /\ Lifecycle /\ SubmitInv /\ [Next]_vars => SubmitInv'
<1> SUFFICES ASSUME TypeOK, Lifecycle, SubmitInv, [Next]_vars PROVE SubmitInv'
  OBVIOUS
<1>0. now \in Nat /\ tstate \in [Requests -> TaskStates]
  BY StoreAssumption DEF TypeOK, TypeOKStore
<1>1. ASSUME NEW r \in Requests, SubmitStep(r) PROVE SubmitInv'
  BY <1>1, WriteOrderStep, SlotSoundStep, TokenExpiryStep, AnswerStep,
     SlotKeepsTokenStep DEF SubmitInv
<1>2. ASSUME NEW w \in Workers, WorkerStep(w), UNCHANGED <<submitVars, readerVars>>
      PROVE  SubmitInv'
  BY <1>0, <1>2, WorkerElsewhere, SubmitElsewhere DEF submitVars
<1>3. ASSUME NEW r \in Requests, AsynqStep(r), UNCHANGED <<submitVars, readerVars>>
      PROVE  SubmitInv'
  <2>1. \A t \in Requests : tstate'[t] = "absent" <=> tstate[t] = "absent"
    BY <1>0, <1>3, AsynqQueue DEF Lifecycle
  <2>2. UNCHANGED <<now, blob, token, idem, payload>>
    BY <1>3, AsynqQueue DEF Lifecycle
  <2> QED
    BY <1>0, <1>3, <2>1, <2>2, SubmitElsewhere DEF submitVars
<1>4. ASSUME NEW d \in Readers, ReaderStep(d), UNCHANGED <<submitVars, workerVars>>
      PROVE  SubmitInv'
  <2>1. UNCHANGED storeVars
    BY <1>4 DEF ReaderStep, ResolveToken, ResolveTokenFails, StatusByHint,
       StatusByScan, ReadBody, ReadBodyFails, ReadType
  <2> QED
    BY <1>0, <1>4, <2>1, SubmitElsewhere DEF storeVars, submitVars
<1>5. CASE Tick /\ UNCHANGED <<submitVars, workerVars, readerVars>>
  BY <1>0, <1>5, SubmitElsewhere DEF Tick, redisVars, asynqVars, submitVars
<1>6. CASE UNCHANGED vars
  BY <1>0, <1>6, SubmitElsewhere DEF vars, storeVars, submitVars
<1> QED
  BY <1>1, <1>2, <1>3, <1>4, <1>5, <1>6 DEF Next

\* What submit preserves holds throughout.
LEMMA SubmitInvariant == Spec => []SubmitInv
<1>1. Init => Lifecycle
  BY DEF Init, InitStore, InitSubmit, InitWorker, Lifecycle, NotYetQueued,
     OneWorkerPerTask
<1>2. Init => SubmitInv
  <2> SUFFICES ASSUME Init PROVE SubmitInv
    OBVIOUS
  <2> USE DEF Init, InitStore, InitSubmit, NoReply, NoSlot, NoBinding
  <2>1. WriteOrder /\ NoPartialTask /\ AnswerSettled /\ AnswerIsMine
    BY DEF WriteOrder, NoPartialTask, AnswerSettled, AnswerIsMine
  <2>2. SlotSound /\ TokenExpiry
    BY StoreAssumption DEF SlotSound, TokenExpiry
  <2>3. SlotKeepsToken
    BY DEF SlotKeepsToken, Deduplicated
  <2> QED
    BY <2>1, <2>2, <2>3 DEF SubmitInv
<1> QED
  BY <1>1, <1>2, LifecycleStep, SubmitInvStep, TypeCorrect, PTL DEF Spec

\* A 202 never carries a token that leads nowhere or to another tenant's task,
\* whatever races, failed round trips and crashes happen around it.
THEOREM AnswersAreOwn == Spec => []AnswerIsMine
<1>1. SubmitInv => AnswerIsMine
  BY DEF SubmitInv
<1> QED
  BY <1>1, SubmitInvariant, PTL

\* Deduplication is stable: as long as a token it handed out is alive, the slot
\* names that token and no other.
THEOREM SlotsKeepTokens == Spec => []SlotKeepsToken
<1>1. SubmitInv => SlotKeepsToken
  BY DEF SubmitInv
<1> QED
  BY <1>1, SubmitInvariant, PTL

\* No task is ever in the queue with part of its upload.
THEOREM TasksAreWhole == Spec => []NoPartialTask
<1>1. SubmitInv => NoPartialTask
  BY DEF SubmitInv
<1> QED
  BY <1>1, SubmitInvariant, PTL

-----------------------------------------------------------------------------
(* Readers *)

\* No two API keys share a fingerprint, and no key has the empty one.
LEMMA FingerprintInjective ==
    ASSUME NEW a \in Keys \cup {None}, NEW b \in Keys \cup {None},
           keyFromAPIKey(a) = keyFromAPIKey(b)
    PROVE  a = b
BY StoreAssumption DEF keyFromAPIKey

\* A binding is written once, from the input of its own submit.
LEMMA TokenSoundStep ==
    ASSUME TypeOK, TokenSound, NEW r \in Requests, SubmitStep(r)
    PROVE  TokenSound'
<1>0. /\ token \in [Requests -> Bindings] /\ pc \in [Requests -> PCs]
      /\ input \in [Requests -> Inputs \cup {None}]
  BY DEF TypeOK, TypeOKStore, TypeOKSubmit
<1>1. ASSUME NEW t \in Requests \ {r}
      PROVE  pc'[t] = pc[t] /\ input'[t] = input[t] /\ token'[t] = token[t]
  BY <1>1, SubmitLocal
<1>2. pc'[r] # "new"
  BY <1>0 DEF SubmitStep, SubmitProgress, RefuseSubmit, BeginSubmit, ResolveHit,
     ResolveMiss, PersistBlobs, PersistBlobsFails, EnqueueTask, EnqueueFails,
     PersistToken, PersistTokenFails, RecordWins, RecordSkipped, RecordLoses,
     ReadWinner, SubmitCrash, Accept, Fail, Goto
<1>3. CASE token' = token
  <2>1. token[r].exp > 0 => input'[r] = input[r]
    BY SubmitLocal DEF TokenSound
  <2> QED
    BY <1>1, <1>2, <1>3, <2>1 DEF TokenSound
<1>4. CASE pc[r] = "token" /\ BindToken(r)
  <2>1. input' = input
    BY <1>4, SubmitLocal
  <2>2. token'[r].task = r /\ token'[r].fp = keyFromAPIKey(input[r].caller)
    BY <1>0, <1>4 DEF BindToken
  <2> QED
    BY <1>1, <1>2, <2>1, <2>2 DEF TokenSound
<1> QED
  BY <1>3, <1>4, SubmitWrites

\* Steps of others take nothing from under a reader: inputs are fixed, final
\* states are final and settled results are frozen.
LEMMA ReaderElsewhere ==
    ASSUME TypeOK, ReaderInv, TokenSound', UNCHANGED readerVars,
           \A r \in Requests :
               /\ pc[r] # "new" => pc'[r] # "new" /\ input'[r] = input[r]
               /\ tstate[r] \in Final => tstate'[r] \in Final
               /\ tstate[r] \in Settled => tstate'[r] \in Settled /\ body'[r] = body[r]
    PROVE  ReaderInv'
<1>0. \A d \in Readers :
          rpc[d] \in {"status", "body", "ctype"} => rtask[d] \in Requests
  BY DEF TypeOK, TypeOKReader
<1>1. ReaderHolds'
  BY <1>0 DEF ReaderInv, ReaderHolds, readerVars, Settled
<1>2. AnsweredTask' /\ ReadIsolation'
  BY DEF ReaderInv, AnsweredTask, ReadIsolation, readerVars
<1>3. FreshResultTyped'
  BY DEF ReaderInv, FreshResultTyped, readerVars
<1>4. SuccessIsFinal'
  BY DEF ReaderInv, AnsweredTask, SuccessIsFinal, readerVars
<1> QED
  BY <1>1, <1>2, <1>3, <1>4 DEF ReaderInv

\* No worker and no step of asynq takes a task out of a final state.
LEMMA FinalStays ==
    ASSUME TypeOK, Lifecycle, NEW r \in Requests,
           \/ \E w \in Workers : WorkerStep(w)
           \/ \E t \in Requests : AsynqStep(t) \/ SubmitStep(t)
    PROVE  /\ tstate[r] \in Final => tstate'[r] \in Final
           /\ tstate[r] \in Settled => tstate'[r] \in Settled
<1>0. tstate \in [Requests -> TaskStates]
  BY DEF TypeOK, TypeOKStore
<1> USE DEF Final, Settled
<1>1. ASSUME NEW w \in Workers, WorkerStep(w)
      PROVE  tstate[r] \in Final => tstate'[r] = tstate[r]
  <2>1. wstep[w] # "idle" => wtask[w] \in Requests /\ tstate[wtask[w]] = "active"
    BY DEF Lifecycle, OneWorkerPerTask, TypeOK, TypeOKWorker
  <2> QED
    BY <1>0, <1>1, <2>1, WorkerQueue
<1>2. ASSUME NEW t \in Requests, AsynqStep(t)
      PROVE  /\ tstate[r] \in Final => tstate'[r] \in Final
             /\ tstate[r] \in Settled => tstate'[r] \in Settled
  BY <1>0, <1>2 DEF AsynqStep, Recover, Forward, Janitor, AsynqFail, AsynqForward,
     AsynqJanitor
<1>3. ASSUME NEW t \in Requests, SubmitStep(t)
      PROVE  tstate[r] \in Final => tstate'[r] = tstate[r]
  <2>1. pc[t] = "enqueue" => tstate[t] = "absent"
    BY DEF Lifecycle, NotYetQueued, BeforeEnqueue
  <2> QED
    BY <1>0, <1>3, <2>1, SubmitQueue DEF asynqVars, CreateTask
<1> QED
  BY <1>1, <1>2, <1>3

\* What one reader owes, so that a step of one can be told from the others.
ReaderOwes(d) ==
    /\ rpc[d] # "done" => rans[d] = NoAnswer
    /\ rpc[d] \in {"status", "body", "ctype"} =>
          /\ pc[rtask[d]] # "new"
          /\ input[rtask[d]].caller \in {None, rcaller[d]}
    /\ rpc[d] \in {"status", "body", "ctype"} /\ rfresh[d] =>
          tstate[rtask[d]] \in {"completed", "deleted"}
    /\ rpc[d] = "ctype" /\ rfresh[d] => rbody[d] = body[rtask[d]].val
    /\ rans[d].status # "none" => rans[d].code = 200
    /\ rans[d].code = 200 => /\ rtask[d] \in Requests /\ pc[rtask[d]] # "new"
                             /\ input[rtask[d]].caller \in {None, rcaller[d]}
    /\ rans[d].code = 200 /\ rans[d].status = "none" /\ rfresh[d] =>
          rans[d].served \in {ServedType(rbody[d]), ServedType(None)}
    /\ rans[d].status = "success" => tstate[rtask[d]] \in Final

\* The invariant on readers is what each of them owes.
LEMMA ReaderInvOwes == ReaderInv <=> TokenSound /\ \A d \in Readers : ReaderOwes(d)
<1>1. ReaderInv => TokenSound /\ \A d \in Readers : ReaderOwes(d)
  BY DEF ReaderInv, ReaderHolds, AnsweredTask, ReadIsolation, FreshResultTyped,
     SuccessIsFinal, ReaderOwes
<1>2. TokenSound /\ (\A d \in Readers : ReaderOwes(d)) => ReaderInv
  BY DEF ReaderInv, ReaderHolds, AnsweredTask, ReadIsolation, FreshResultTyped,
     SuccessIsFinal, ReaderOwes
<1> QED
  BY <1>1, <1>2

\* resolveToken admits the caller the token is bound to, or anyone if it is
\* bound to nobody.
LEMMA ResolveMatches ==
    ASSUME TypeOK, TokenSound, NEW caller \in Keys \cup {None}, NEW t \in Requests,
           MayResolve(caller, t)
    PROVE  /\ token[t].task = t /\ pc[t] # "new"
           /\ input[t].caller \in {None, caller}
<1>1. token[t].exp > 0
  BY StoreAssumption DEF MayResolve, Live, TypeOK, TypeOKStore, Bindings
<1>2. /\ token[t].task = t /\ pc[t] # "new"
      /\ token[t].fp = keyFromAPIKey(input[t].caller)
  BY <1>1 DEF TokenSound
<1>3. input[t].caller \in Keys \cup {None}
  BY <1>2, InputFacts DEF TypeOK, TypeOKSubmit
<1>4. CASE token[t].fp = {}
  BY <1>2, <1>3, <1>4 DEF keyFromAPIKey
<1>5. CASE token[t].fp # {}
  BY <1>2, <1>3, <1>5, FingerprintInjective DEF MayResolve
<1> QED
  BY <1>2, <1>4, <1>5

\* A step of a reader.
LEMMA ReaderOwnStep ==
    ASSUME TypeOK, ResultInv, ReaderInv, NEW d \in Readers, ReaderStep(d),
           UNCHANGED <<submitVars, workerVars>>
    PROVE  ReaderInv'
<1>0. /\ rpc \in [Readers -> {"new", "status", "body", "ctype", "done"}]
      /\ rcaller \in [Readers -> Keys \cup {None}]
      /\ rtask \in [Readers -> Requests \cup {None}]
      /\ rfresh \in [Readers -> BOOLEAN]
      /\ rbody \in [Readers -> Kinds \cup {None}]
      /\ rans \in [Readers -> Answers]
      /\ rpc[d] \in {"status", "body", "ctype"} => rtask[d] \in Requests
      /\ tstate \in [Requests -> TaskStates]
  BY DEF TypeOK, TypeOKReader, TypeOKStore
<1>1. TokenSound /\ \A e \in Readers : ReaderOwes(e)
  BY ReaderInvOwes
<1>2. UNCHANGED storeVars
  BY DEF ReaderStep, ResolveToken, ResolveTokenFails, StatusByHint,
     StatusByScan, ReadBody, ReadBodyFails, ReadType
<1>3. UNCHANGED <<pc, input, token, tstate, body>>
  BY <1>2 DEF storeVars, submitVars
<1>4. ASSUME NEW e \in Readers \ {d}
      PROVE  /\ rpc'[e] = rpc[e] /\ rcaller'[e] = rcaller[e] /\ rtask'[e] = rtask[e]
             /\ rfresh'[e] = rfresh[e] /\ rbody'[e] = rbody[e] /\ rans'[e] = rans[e]
  BY <1>0, <1>4 DEF ReaderStep, ResolveToken, ResolveTokenFails, StatusByHint,
     StatusByScan, ReadBody, ReadBodyFails, ReadType, Report, Answer
<1>5. ASSUME NEW e \in Readers \ {d} PROVE ReaderOwes(e)'
  BY <1>1, <1>3, <1>4, <1>5 DEF ReaderOwes
<1>6. ReaderOwes(d)'
  <2>0. ReaderOwes(d)
    BY <1>1
  <2>1. ASSUME NEW code \in {404, 500}, Answer(d, Failed(code)) PROVE ReaderOwes(d)'
    <3>1. rpc'[d] = "done" /\ rans'[d] = [code |-> code, status |-> "none", served |-> "none"]
      BY <1>0, <2>1 DEF Answer, Failed
    <3> QED
      BY <3>1 DEF ReaderOwes
  <2>2. CASE ResolveToken(d)
    <3>1. PICK caller \in Keys \cup {None}, t \in Requests, op \in {"status", "body"} :
             /\ MayResolve(caller, t)
             /\ rcaller' = [rcaller EXCEPT ![d] = caller]
             /\ rtask' = [rtask EXCEPT ![d] = token[t].task]
             /\ rfresh' = [rfresh EXCEPT ![d] = tstate[token[t].task] = "completed"]
             /\ rpc' = [rpc EXCEPT ![d] = op]
      BY <2>2 DEF ResolveToken
    <3>2. /\ token[t].task = t /\ pc[t] # "new"
          /\ input[t].caller \in {None, caller}
      BY <1>1, <3>1, ResolveMatches
    <3>3. rcaller'[d] = caller /\ rtask'[d] = t /\ rpc'[d] = op
          /\ rfresh'[d] = (tstate[t] = "completed")
      BY <1>0, <3>1, <3>2
    <3>4. rfresh'[d] => tstate[t] = "completed"
      BY <3>3, Zenon
    <3>5. rans'[d] = NoAnswer
      BY <2>0, <2>2 DEF ResolveToken, ReaderOwes
    <3> QED
      BY <1>3, <3>2, <3>3, <3>4, <3>5 DEF ReaderOwes, NoAnswer, Failed
  <2>3. CASE ResolveTokenFails(d)
    BY <2>1, <2>3 DEF ResolveTokenFails
  <2>4. ASSUME Report(d), rpc[d] = "status",
               UNCHANGED <<rcaller, rtask, rfresh, rbody>>
        PROVE  ReaderOwes(d)'
    <3>1. rpc'[d] = "done"
          /\ rans'[d] = Reported(mapState(tstate[rtask[d]]))
      BY <1>0, <2>4 DEF Report, Answer
    <3>2. /\ rans'[d].code = 200
          /\ rans'[d].status = mapState(tstate[rtask[d]])
      BY <3>1 DEF Reported
    <3>3. /\ tstate[rtask[d]] \in TaskStates \ {"absent", "deleted"}
          /\ rtask[d] \in Requests
      BY <1>0, <2>4 DEF Report, TaskKnown
    <3>4. /\ mapState(tstate[rtask[d]]) # "none"
          /\ mapState(tstate[rtask[d]]) = "success" => tstate[rtask[d]] \in Final
      BY <3>3 DEF mapState, TaskStates, Final
    <3> QED
      BY <1>3, <2>0, <2>4, <3>1, <3>2, <3>3, <3>4 DEF ReaderOwes
  <2>5. CASE StatusByHint(d) \/ StatusByScan(d)
    BY <2>1, <2>4, <2>5 DEF StatusByHint, StatusByScan
  <2>6. CASE ReadBody(d)
    <3>1. /\ rpc[d] = "body" /\ rpc'[d] = "ctype" /\ rbody'[d] = body[rtask[d]].val
          /\ UNCHANGED <<rcaller, rtask, rfresh, rans>>
      BY <1>0, <2>6 DEF ReadBody
    <3> QED
      BY <1>3, <2>0, <3>1 DEF ReaderOwes, NoAnswer, Failed
  <2>7. CASE ReadBodyFails(d)
    BY <2>1, <2>7 DEF ReadBodyFails
  <2>8. CASE ReadType(d)
    <3>1. /\ rpc[d] = "ctype" /\ UNCHANGED <<rcaller, rtask, rfresh, rbody>>
          /\ \/ Answer(d, Delivered(ServedType(ctype[rtask[d]].val)))
             \/ Answer(d, Delivered(ServedType(None)))
      BY <2>8 DEF ReadType
    <3>2. rfresh[d] => rbody[d] = ctype[rtask[d]].val
      BY <1>0, <2>0, <3>1 DEF ReaderOwes, ResultInv, CompletedPair
    <3>3. ASSUME NEW typ, Answer(d, Delivered(typ))
          PROVE  /\ rpc'[d] = "done" /\ rans'[d].code = 200
                 /\ rans'[d].status = "none" /\ rans'[d].served = typ
      BY <1>0, <3>3 DEF Answer, Delivered
    <3>4. /\ rpc'[d] = "done" /\ rans'[d].code = 200 /\ rans'[d].status = "none"
          /\ rfresh[d] => rans'[d].served \in {ServedType(rbody[d]), ServedType(None)}
      BY <3>1, <3>2, <3>3
    <3> QED
      BY <1>0, <1>3, <2>0, <3>1, <3>4 DEF ReaderOwes
  <2> QED
    BY <2>2, <2>3, <2>5, <2>6, <2>7, <2>8 DEF ReaderStep
<1>7. TokenSound'
  BY <1>1, <1>3 DEF TokenSound
<1>8. \A e \in Readers : ReaderOwes(e)'
  BY <1>5, <1>6
<1>9. ReaderInv' <=> TokenSound' /\ \A e \in Readers : ReaderOwes(e)'
  BY DEF ReaderInv, ReaderHolds, AnsweredTask, ReadIsolation, FreshResultTyped,
     SuccessIsFinal, ReaderOwes
<1> QED
  BY <1>7, <1>8, <1>9

-----------------------------------------------------------------------------
(* The theorems *)

\* Every step of the pipeline preserves what the readers rely on.
LEMMA ReaderInvStep ==
    TypeOK /\ Lifecycle /\ ResultInv /\ ReaderInv /\ [Next]_vars => ReaderInv'
<1> SUFFICES ASSUME TypeOK, Lifecycle, ResultInv, ReaderInv, [Next]_vars
             PROVE  ReaderInv'
  OBVIOUS
<1>0. TokenSound /\ pc \in [Requests -> PCs]
  BY DEF ReaderInv, TypeOK, TypeOKSubmit
<1>1. \A r \in Requests : tstate[r] \in Settled => body'[r] = body[r]
  BY FrozenStep
<1>2. ASSUME NEW r \in Requests, SubmitStep(r), UNCHANGED <<workerVars, readerVars>>
      PROVE  ReaderInv'
  <2>1. \A t \in Requests : pc[t] # "new" => pc'[t] # "new" /\ input'[t] = input[t]
    <3>1. pc'[r] # "new"
      BY <1>0, <1>2 DEF SubmitStep, SubmitProgress, RefuseSubmit, BeginSubmit,
         ResolveHit, ResolveMiss, PersistBlobs, PersistBlobsFails, EnqueueTask,
         EnqueueFails, PersistToken, PersistTokenFails, RecordWins, RecordSkipped,
         RecordLoses, ReadWinner, SubmitCrash, Accept, Fail, Goto
    <3> QED
      BY <1>2, <3>1, SubmitLocal
  <2>2. \A t \in Requests : /\ tstate[t] \in Final => tstate'[t] \in Final
                            /\ tstate[t] \in Settled => tstate'[t] \in Settled
    BY <1>2, FinalStays
  <2>3. TokenSound'
    BY <1>0, <1>2, TokenSoundStep
  <2> QED
    BY <1>1, <1>2, <2>1, <2>2, <2>3, ReaderElsewhere DEF readerVars
<1>3. ASSUME \/ \E w \in Workers : WorkerStep(w)
             \/ \E r \in Requests : AsynqStep(r),
             UNCHANGED <<submitVars, readerVars>>
      PROVE  ReaderInv'
  <2>1. UNCHANGED <<pc, input>>
    BY <1>3 DEF submitVars
  <2>2. \A t \in Requests : /\ tstate[t] \in Final => tstate'[t] \in Final
                            /\ tstate[t] \in Settled => tstate'[t] \in Settled
    BY <1>3, FinalStays
  <2>3. token' = token
    BY <1>3, WorkerElsewhere, AsynqQueue DEF Lifecycle
  <2>4. TokenSound'
    BY <1>0, <2>1, <2>3 DEF TokenSound
  <2> QED
    BY <1>1, <1>3, <2>1, <2>2, <2>4, ReaderElsewhere DEF readerVars
<1>4. ASSUME NEW d \in Readers, ReaderStep(d), UNCHANGED <<submitVars, workerVars>>
      PROVE  ReaderInv'
  BY <1>4, ReaderOwnStep
<1>5. CASE Tick /\ UNCHANGED <<submitVars, workerVars, readerVars>>
  <2>1. UNCHANGED <<pc, input, tstate, token>>
    BY <1>5 DEF Tick, redisVars, asynqVars, submitVars
  <2>2. TokenSound'
    BY <1>0, <2>1 DEF TokenSound
  <2> QED
    BY <1>1, <1>5, <2>1, <2>2, ReaderElsewhere DEF readerVars
<1>6. CASE UNCHANGED vars
  <2>1. UNCHANGED <<pc, input, tstate, token>> /\ UNCHANGED readerVars
    BY <1>6 DEF vars, storeVars, submitVars
  <2>2. TokenSound'
    BY <1>0, <2>1 DEF TokenSound
  <2> QED
    BY <1>1, <2>1, <2>2, ReaderElsewhere
<1> QED
  BY <1>2, <1>3, <1>4, <1>5, <1>6 DEF Next

\* What the readers rely on holds throughout.
LEMMA ReaderInvariant == Spec => []ReaderInv
<1>1. Init => Lifecycle /\ ResultInv
  BY DEF Init, InitStore, InitSubmit, InitWorker, Lifecycle, NotYetQueued,
     OneWorkerPerTask, ResultInv, CompletedPair, SaveInProgress
<1>2. Init => ReaderInv
  <2> SUFFICES ASSUME Init PROVE ReaderInv
    OBVIOUS
  <2>1. TokenSound
    BY DEF Init, InitStore, NoBinding, TokenSound
  <2>2. \A d \in Readers : ReaderOwes(d)
    BY DEF Init, InitReader, ReaderOwes, NoAnswer, Failed
  <2> QED
    BY <2>1, <2>2, ReaderInvOwes
<1> QED
  BY <1>1, <1>2, LifecycleStep, ResultStep, ReaderInvStep, TypeCorrect, PTL DEF Spec

\* Whoever got a status or a result presented the key the task was submitted
\* with, or the task was submitted without one.
THEOREM ReadsIsolated == Spec => []ReadIsolation
<1>1. ReaderInv => ReadIsolation
  BY DEF ReaderInv
<1> QED
  BY <1>1, ReaderInvariant, PTL

\* A result read after its task completed is never served under the content
\* type of another attempt.
THEOREM FreshResultsTyped == Spec => []FreshResultTyped
<1>1. ReaderInv => FreshResultTyped
  BY DEF ReaderInv
<1> QED
  BY <1>1, ReaderInvariant, PTL

\* Once a poll has said "success" the task does not run again.
THEOREM SuccessStays == Spec => []SuccessIsFinal
<1>1. ReaderInv => SuccessIsFinal
  BY DEF ReaderInv
<1> QED
  BY <1>1, ReaderInvariant, PTL

=============================================================================
