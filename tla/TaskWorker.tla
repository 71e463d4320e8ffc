----------------------------- MODULE TaskWorker -----------------------------
(***************************************************************************)
(* The workers: Worker.handleConvert in internal/tasks/worker.go, with     *)
(* Orchestrator.LoadBlob and SaveResult, under the asynq server that hands *)
(* out tasks, settles their outcome, and recovers the ones whose worker    *)
(* died.                                                                   *)
(*                                                                         *)
(* A worker is one of the QueueConcurrency slots of some replica.  A Redis *)
(* error and the expiry of the task's deadline look the same to the        *)
(* handler (the call it is in returns an error), so one action per step    *)
(* stands for both.  asynq cancels the handler's context when it gives an  *)
(* attempt up or puts the task back, so that every later call of that      *)
(* handler fails; a write already in flight takes effect before another    *)
(* attempt, which starts with a conversion, comes to its own writes.       *)
(***************************************************************************)
EXTENDS TaskStore

CONSTANTS
    Workers,        \* worker slots of all replicas
    WorkerEngines,  \* engines in the registry of the worker's replica
    MaxRequeues     \* bound: tasks that graceful shutdowns put back

ASSUME WorkerAssumption ==
    /\ WorkerEngines \subseteq Engines
    /\ MaxRequeues \in Nat

VARIABLES
    wtask,     \* the task each worker is on, None when idle
    wstep,     \* where its handler is
    wkind,     \* content type of the engine's answer in the handler's hands
    requeues   \* tasks put back so far

workerVars == <<wtask, wstep, wkind, requeues>>

Steps == {"idle", "start", "convert", "body", "ctype", "ack"}

TypeOKWorker ==
    /\ wtask \in [Workers -> Requests \cup {None}]
    /\ wstep \in [Workers -> Steps]
    /\ wkind \in [Workers -> Kinds \cup {None}]
    /\ requeues \in 0..MaxRequeues
    /\ \A w \in Workers : wstep[w] # "idle" => wtask[w] \in Requests
    /\ \A w \in Workers : wstep[w] \in {"body", "ctype"} => wkind[w] \in Kinds

InitWorker ==
    /\ wtask = [w \in Workers |-> None]
    /\ wstep = [w \in Workers |-> "idle"]
    /\ wkind = [w \in Workers |-> None]
    /\ requeues = 0

-----------------------------------------------------------------------------
Release(w) ==
    /\ wtask' = [wtask EXCEPT ![w] = None]
    /\ wstep' = [wstep EXCEPT ![w] = "idle"]
    /\ wkind' = [wkind EXCEPT ![w] = None]

Advance(w, step) ==
    /\ wstep' = [wstep EXCEPT ![w] = step]
    /\ UNCHANGED <<wtask, wkind, requeues>>

\* Mutant of GiveUp: a failed attempt goes straight back to the queue.
GiveBack(w, skipRetry) ==
    /\ tstate' = [tstate EXCEPT ![wtask[w]] = "pending"]
    /\ Release(w)
    /\ UNCHANGED <<requeues, retried, payload, doneAt>>

\* The handler returns an error and asynq settles the attempt.
GiveUp(w, skipRetry) ==
    /\ AsynqFail(wtask[w], skipRetry)
    /\ Release(w)
    /\ UNCHANGED requeues

\* asynq leases a pending task to one idle worker.
Dequeue(w) ==
    /\ wstep[w] = "idle"
    /\ \E r \in Requests :
          /\ tstate[r] = "pending"
          /\ tstate' = [tstate EXCEPT ![r] = "active"]
          /\ wtask' = [wtask EXCEPT ![w] = r]
    /\ wstep' = [wstep EXCEPT ![w] = "start"]
    /\ UNCHANGED <<wkind, requeues, now, redisVars, retried, payload, doneAt>>

\* An engine this replica does not know will not appear by retrying.
UnknownEngine(w) ==
    /\ wstep[w] = "start"
    /\ payload[wtask[w]].engine \notin WorkerEngines
    /\ GiveUp(w, TRUE)
    /\ UNCHANGED <<now, redisVars>>

BlobsLive(r) == \A p \in 1..payload[r].nfiles : Live(blob[r][p])

LoadBlobs(w) ==
    /\ wstep[w] = "start"
    /\ payload[wtask[w]].engine \in WorkerEngines
    /\ BlobsLive(wtask[w])
    /\ Advance(w, "convert")
    /\ UNCHANGED storeVars

\* A blob is gone, or a GET failed.
LoadBlobsFails(w) ==
    /\ wstep[w] = "start"
    /\ payload[wtask[w]].engine \in WorkerEngines
    /\ payload[wtask[w]].nfiles > 0
    /\ GiveUp(w, FALSE)
    /\ UNCHANGED <<now, redisVars>>

\* The engine answers, with any status, and its body is read to the end.
Convert(w) ==
    /\ wstep[w] = "convert"
    /\ \E k \in Kinds : wkind' = [wkind EXCEPT ![w] = k]
    /\ wstep' = [wstep EXCEPT ![w] = "body"]
    /\ UNCHANGED <<wtask, requeues, storeVars>>

\* The engine call or the read of its body fails.
ConvertFails(w) ==
    /\ wstep[w] = "convert"
    /\ GiveUp(w, FALSE)
    /\ UNCHANGED <<now, redisVars>>

\* What SaveResult stores: the answer under a fresh TTL.
Stored(w) == [val |-> wkind[w], exp |-> ExpireIn(ResultTTL)]

\* SaveResult, first SET.
SaveBody(w) ==
    /\ wstep[w] = "body"
    /\ body' = [body EXCEPT ![wtask[w]] = Stored(w)]
    /\ Advance(w, "ctype")
    /\ UNCHANGED <<now, blob, token, queue, idem, ctype, asynqVars>>

SaveBodyFails(w) ==
    /\ wstep[w] = "body"
    /\ \/ body' = [body EXCEPT ![wtask[w]] = Stored(w)]
       \/ UNCHANGED body
    /\ GiveUp(w, FALSE)
    /\ UNCHANGED <<now, blob, token, queue, idem, ctype>>

\* SaveResult, second SET.
SaveType(w) ==
    /\ wstep[w] = "ctype"
    /\ ctype' = [ctype EXCEPT ![wtask[w]] = Stored(w)]
    /\ Advance(w, "ack")
    /\ UNCHANGED <<now, blob, token, queue, idem, body, asynqVars>>

\* Mutant of SaveTypeFails: the error of the second SET is dropped.
SaveTypeUnchecked(w) ==
    /\ wstep[w] = "ctype"
    /\ Advance(w, "ack")
    /\ UNCHANGED storeVars

SaveTypeFails(w) ==
    /\ wstep[w] = "ctype"
    /\ \/ ctype' = [ctype EXCEPT ![wtask[w]] = Stored(w)]
       \/ UNCHANGED ctype
    /\ GiveUp(w, FALSE)
    /\ UNCHANGED <<now, blob, token, queue, idem, body>>

\* The handler returned nil: asynq completes the task.
Complete(w) ==
    /\ wstep[w] = "ack"
    /\ tstate' = [tstate EXCEPT ![wtask[w]] = "completed"]
    /\ doneAt' = [doneAt EXCEPT ![wtask[w]] = now]
    /\ Release(w)
    /\ UNCHANGED <<requeues, now, redisVars, retried, payload>>

\* The deadline passes as the handler returns, and asynq takes it for a
\* failure although the result is stored.
DeadlineBeatsAck(w) ==
    /\ wstep[w] = "ack"
    /\ GiveUp(w, FALSE)
    /\ UNCHANGED <<now, redisVars>>

-----------------------------------------------------------------------------
\* The replica dies; the task stays leased to nobody.
WorkerCrash(w) ==
    /\ wstep[w] # "idle"
    /\ Release(w)
    /\ UNCHANGED <<requeues, storeVars>>

\* Mutant of Shutdown: the handler keeps running.
ShutdownDetached(w) ==
    /\ wstep[w] # "idle"
    /\ requeues < MaxRequeues
    /\ requeues' = requeues + 1
    /\ tstate' = [tstate EXCEPT ![wtask[w]] = "pending"]
    /\ UNCHANGED <<wtask, wstep, wkind, now, redisVars, retried, payload, doneAt>>

\* Worker.Shutdown: a task that does not finish in time goes back to the
\* queue and keeps its retry budget.
Shutdown(w) ==
    /\ wstep[w] # "idle"
    /\ requeues < MaxRequeues
    /\ requeues' = requeues + 1
    /\ tstate' = [tstate EXCEPT ![wtask[w]] = "pending"]
    /\ Release(w)
    /\ UNCHANGED <<now, redisVars, retried, payload, doneAt>>

\* Mutant of Recover: a task is recovered from under its worker.
RecoverEarly(r) ==
    /\ tstate[r] = "active"
    /\ AsynqFail(r, FALSE)
    /\ UNCHANGED <<workerVars, now, redisVars>>

\* asynq's recoverer settles an active task whose lease ran out.
Recover(r) ==
    /\ tstate[r] = "active"
    /\ \A w \in Workers : wtask[w] # r
    /\ AsynqFail(r, FALSE)
    /\ UNCHANGED <<workerVars, now, redisVars>>

Forward(r) == AsynqForward(r) /\ UNCHANGED workerVars
Janitor(r) == AsynqJanitor(r) /\ UNCHANGED workerVars

WorkerProgress(w) ==
    \/ Dequeue(w)
    \/ UnknownEngine(w)
    \/ LoadBlobs(w)
    \/ LoadBlobsFails(w)
    \/ Convert(w)
    \/ ConvertFails(w)
    \/ SaveBody(w)
    \/ SaveBodyFails(w)
    \/ SaveType(w)
    \/ SaveTypeFails(w)
    \/ Complete(w)
    \/ DeadlineBeatsAck(w)

WorkerStep(w) == WorkerProgress(w) \/ WorkerCrash(w) \/ Shutdown(w)

AsynqStep(r) == Recover(r) \/ Forward(r) \/ Janitor(r)

=============================================================================
