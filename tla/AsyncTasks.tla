----------------------------- MODULE AsyncTasks -----------------------------
(***************************************************************************)
(* The async pipeline as a whole: submit handlers, workers and readers of  *)
(* all replicas over one Redis.                                            *)
(***************************************************************************)
EXTENDS AsyncSubmit, TaskWorker, TaskReader

vars == <<storeVars, submitVars, workerVars, readerVars>>

TypeOK ==
    /\ TypeOKStore
    /\ TypeOKSubmit
    /\ TypeOKWorker
    /\ TypeOKReader

Init ==
    /\ InitStore
    /\ InitSubmit
    /\ InitWorker
    /\ InitReader

Final == {"completed", "archived", "deleted"}

\* Every call is answered, every task settled, and the clock has run out.
Quiescent ==
    /\ now = MaxTime
    /\ \A r \in Requests : /\ pc[r] \in {"done", "dead"}
                           /\ Workers # {} => tstate[r] \in Final \cup {"absent"}
    /\ \A d \in Readers : rpc[d] = "done"

Next ==
    \/ Tick /\ UNCHANGED <<submitVars, workerVars, readerVars>>
    \/ \E r \in Requests : SubmitStep(r) /\ UNCHANGED <<workerVars, readerVars>>
    \/ \E w \in Workers : WorkerStep(w) /\ UNCHANGED <<submitVars, readerVars>>
    \/ \E r \in Requests : AsynqStep(r) /\ UNCHANGED <<submitVars, readerVars>>
    \/ \E d \in Readers : ReaderStep(d) /\ UNCHANGED <<submitVars, workerVars>>
    \/ Quiescent /\ UNCHANGED vars

Spec == Init /\ [][Next]_vars

-----------------------------------------------------------------------------
(* Fairness: goroutines are scheduled and Redis calls return.  Nothing     *)
(* forces a client to send a request, a replica to die, or time to pass.   *)

SubmitFair(r) == pc[r] # "new" /\ SubmitProgress(r)
                               /\ UNCHANGED <<workerVars, readerVars>>

WorkerFair(w) == WorkerProgress(w) /\ UNCHANGED <<submitVars, readerVars>>

AsynqFair(r) == (Recover(r) \/ Forward(r)) /\ UNCHANGED <<submitVars, readerVars>>

Fairness ==
    /\ \A r \in Requests : WF_vars(SubmitFair(r)) /\ WF_vars(AsynqFair(r))
    /\ \A w \in Workers : WF_vars(WorkerFair(w))

FairSpec == Spec /\ Fairness

-----------------------------------------------------------------------------
(* Safety of submit *)

\* The token names a task in the queue, bound to this caller's fingerprint.
BoundTo(t, caller) ==
    /\ t \in Requests
    /\ token[t].exp > 0
    /\ token[t].task = t
    /\ token[t].fp = keyFromAPIKey(caller)
    /\ tstate[t] # "absent"

\* Whatever a 202 carries was first enqueued and bound to the fingerprint of
\* the caller who receives it, and it is the caller's own submission or one
\* made under the same fingerprint and Idempotency-Key: no crash, lost race or
\* half-applied pipeline makes submit hand out a token that leads nowhere or
\* to another tenant's task.
AnswerIsMine ==
    \A r \in Requests : reply[r].code = 202 =>
        LET t == reply[r].token
        IN  /\ BoundTo(t, input[r].caller)
            /\ \/ t = r
               \/ /\ HasIdem(r) /\ HasIdem(t)
                  /\ Slot(input[t]) = Slot(input[r])

\* Callers who deduplicated got a slot's token.
Deduplicated(r) ==
    reply[r].code = 202 /\ reply[r].via \in {"resolved", "recorded", "winner"}

\* As long as a token handed out by deduplication is alive, RecordIdempotent's
\* slot still names it, so that every later retry finds it; in particular
\* callers of one slot never hold two different live tokens.
SlotKeepsToken ==
    \A r \in Requests :
        LET s == Slot(input[r])
            t == reply[r].token
        IN  Deduplicated(r) /\ Live(token[t].exp) =>
                idem[s].token = t /\ Live(idem[s].exp)

\* A task in the queue has all of its blobs in Redis, or had them until their
\* retention ran out: Enqueue never submits a task with part of its upload.
NoPartialTask ==
    \A r \in Requests : tstate[r] # "absent" =>
        /\ payload[r].nfiles = Len(input[r].files)
        /\ \A p \in 1..payload[r].nfiles : blob[r][p] > 0

\* The order of Enqueue's writes, seen from where a handler stands.
WriteOrder ==
    \A r \in Requests :
        /\ pc[r] \in {"token", "record", "reread"} => tstate[r] # "absent"
        /\ pc[r] \in {"record", "reread"} => BoundTo(r, input[r].caller)
        /\ pc[r] = "enqueue" => \A p \in FileParts(input[r]) : blob[r][p] > 0

\* The slot may name this submission: it was made under the slot, it has been
\* answered, and its token expires no later than the slot.
SlotNames(s, t) ==
    /\ t \in Requests
    /\ pc[t] = "done"
    /\ HasIdem(t)
    /\ Slot(input[t]) = s
    /\ BoundTo(t, input[t].caller)
    /\ token[t].exp <= idem[s].exp

\* What a slot names, it may name.
SlotSound == \A s \in Slots : idem[s].exp > 0 => SlotNames(s, idem[s].token)

\* A token expires no later than a slot reserved now.
TokenExpiry == \A r \in Requests : token[r].exp <= now + ResultTTL

\* A 202 went out once, and its token is no longer being written.
AnswerSettled ==
    \A r \in Requests : reply[r].code = 202 =>
        /\ pc[r] = "done"
        /\ pc[reply[r].token] = "done"
        /\ Deduplicated(r) => HasIdem(r)

\* What submit preserves, step by step; the properties above follow from it.
SubmitInv ==
    /\ WriteOrder
    /\ NoPartialTask
    /\ SlotSound
    /\ TokenExpiry
    /\ AnswerSettled
    /\ AnswerIsMine
    /\ SlotKeepsToken

-----------------------------------------------------------------------------
(* Safety of the workers *)

\* Where a submit handler stands before it has created its task.
BeforeEnqueue == {"new", "resolve", "blobs", "enqueue"}

\* No task exists before its request has come to the enqueue.
NotYetQueued ==
    \A r \in Requests : pc[r] \in BeforeEnqueue => tstate[r] = "absent"

\* A busy worker holds the lease of an active task, and no two workers hold the
\* same one: "a task is processed by exactly one consumer at a time"
\* (worker.go), across crashes, shutdowns and recoveries.
OneWorkerPerTask ==
    /\ \A w \in Workers : wstep[w] # "idle" => tstate[wtask[w]] = "active"
    /\ \A w, x \in Workers :
          wstep[w] # "idle" /\ wstep[x] # "idle" /\ wtask[w] = wtask[x] => w = x

\* The part of the inductive invariant that is about tasks and leases.
Lifecycle == NotYetQueued /\ OneWorkerPerTask

\* A completed task left a body and a content type of the same engine answer,
\* and the type expires no earlier than the body, whatever attempts, crashes
\* and half-finished SaveResults went before.
CompletedPair ==
    \A r \in Requests : tstate[r] \in {"completed", "deleted"} =>
        /\ body[r].val # None
        /\ ctype[r].val = body[r].val
        /\ ctype[r].exp >= body[r].exp

\* What a worker has saved so far agrees with the answer in its hands.
SaveInProgress ==
    \A w \in Workers :
        LET r == wtask[w]
        IN  /\ wstep[w] = "ctype" =>
                  body[r].val = wkind[w] /\ body[r].exp <= now + ResultTTL
            /\ wstep[w] = "ack" =>
                  /\ body[r].val # None
                  /\ ctype[r].val = body[r].val
                  /\ ctype[r].exp >= body[r].exp

\* The part that is about results.
ResultInv == CompletedPair /\ SaveInProgress

\* Once a task has completed nobody writes its result again: no second worker
\* is still on the task, left over from a crash, a shutdown or a recovery.
ResultFrozen ==
    [][\A r \in Requests : tstate[r] \in {"completed", "deleted"} =>
            body'[r] = body[r] /\ ctype'[r] = ctype[r]]_vars

-----------------------------------------------------------------------------
(* Safety of the readers *)

\* resolveToken: whoever reads a status or a result presented the API key the
\* task was submitted with, unless it was submitted without one.
ReadIsolation ==
    \A d \in Readers : rans[d].code = 200 =>
        LET owner == input[rtask[d]].caller
        IN  owner = None \/ rcaller[d] = owner

\* A result whose read began after the task had completed is served under the
\* type of the same engine answer, or as JSON when the type could not be read;
\* never under the type that another attempt left behind.
FreshResultTyped ==
    \A d \in Readers :
        rans[d].code = 200 /\ rans[d].status = "none" /\ rfresh[d] =>
            rans[d].served \in {ServedType(rbody[d]), ServedType(None)}

\* A caller who was told "success" will not see the task run again.
SuccessIsFinal ==
    \A d \in Readers : rans[d].status = "success" => tstate[rtask[d]] \in Final

\* A token in Redis carries the task and the fingerprint of its own submit.
TokenSound ==
    \A t \in Requests : token[t].exp > 0 =>
        /\ token[t].task = t
        /\ token[t].fp = keyFromAPIKey(input[t].caller)
        /\ pc[t] # "new"

\* What a reader carries from one round trip to the next still holds: it may
\* read this task, and if the task had completed, the body in its hands is the
\* one in Redis.
ReaderHolds ==
    \A d \in Readers :
        /\ rpc[d] # "done" => rans[d] = NoAnswer
        /\ rpc[d] \in {"status", "body", "ctype"} =>
              /\ pc[rtask[d]] # "new"
              /\ input[rtask[d]].caller \in {None, rcaller[d]}
        /\ rpc[d] \in {"status", "body", "ctype"} /\ rfresh[d] =>
              tstate[rtask[d]] \in {"completed", "deleted"}
        /\ rpc[d] = "ctype" /\ rfresh[d] => rbody[d] = body[rtask[d]].val

\* An answered call names a task that was submitted.
AnsweredTask ==
    \A d \in Readers :
        /\ rans[d].status # "none" => rans[d].code = 200
        /\ rans[d].code = 200 => rtask[d] \in Requests /\ pc[rtask[d]] # "new"

\* The part of the inductive invariant that is about readers.
ReaderInv ==
    /\ TokenSound
    /\ ReaderHolds
    /\ AnsweredTask
    /\ ReadIsolation
    /\ FreshResultTyped
    /\ SuccessIsFinal

-----------------------------------------------------------------------------
(* Liveness *)

\* Every submit that got past its first checks is answered, or its replica
\* died; and one whose task and token are in Redis hears so with a 202, also
\* when it lost the slot to another submit whose record is gone by the time
\* RecordIdempotent reads it.
SubmitAnswered ==
    \A r \in Requests :
        /\ pc[r] = "resolve" ~> pc[r] \in {"done", "dead"}
        /\ pc[r] = "record" ~> reply[r].code = 202 \/ pc[r] = "dead"

\* Every accepted submission leads to a settled task, through failures,
\* crashes of workers and shutdowns.
AcceptedSettles ==
    \A r, t \in Requests :
        reply[r].code = 202 /\ reply[r].token = t ~> tstate[t] \in Final

-----------------------------------------------------------------------------
(* What the documentation says and the code does not do *)

\* README.md: "Submitting the same key twice ... returns the SAME task token;
\* the engine work runs once."
WorkRunsOnce ==
    \A r, s \in Requests :
        /\ r # s
        /\ Deduplicated(r) /\ Deduplicated(s)
        /\ reply[r].token = reply[s].token
        => ~(tstate[r] = "completed" /\ tstate[s] = "completed")

=============================================================================
