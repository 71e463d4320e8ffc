---------------------------- MODULE AsyncSubmit ----------------------------
(***************************************************************************)
(* The submit endpoints of the async API: Async.submit and                 *)
(* Async.SubmitProcess in internal/transport/http/handlers/async.go, with  *)
(* Orchestrator.ResolveIdempotent, Enqueue and RecordIdempotent in         *)
(* internal/tasks/orchestrator.go, which they call.                        *)
(*                                                                         *)
(* Every request is a process of its own.  One action is one Redis round   *)
(* trip with the local code around it; other requests, workers, readers    *)
(* and the clock run in between.  A failed round trip may or may not have  *)
(* reached Redis, so a failed write is applied, partly applied, or lost.   *)
(***************************************************************************)
EXTENDS TaskStore

CONSTANTS
    Inputs,         \* the requests clients may send (bounded)
    DefaultEngine,  \* routing.default_engine
    HTTPSources,    \* engines whose Capabilities().HTTPSources is set
    MaxBlobBytes,   \* tasks.max_blob_bytes, 0 for no cap
    MaxTotalBytes   \* tasks.max_total_bytes, 0 for no cap

Modes == {"file", "source", "process"}

\* What a request carries.  "enabled" says that the replica it reaches has an
\* orchestrator, "files" lists the sizes of its file parts, and "route" is the
\* engine that the registry picks for its facade and first file, None for
\* ErrNoEngineForFacade.
InputType == [caller: Keys \cup {None}, idem: IdemKeys \cup {None},
              mode: Modes, enabled: BOOLEAN, wellFormed: BOOLEAN,
              files: Seq(Nat), route: Engines \cup {None}]

ASSUME SubmitAssumption ==
    /\ Inputs \subseteq InputType
    /\ \A i \in Inputs : /\ Len(i.files) <= MaxFiles
                         /\ i.mode = "source" => i.files = <<>>
                         /\ i.mode = "process" => Len(i.files) = 1
    /\ DefaultEngine \in Engines
    /\ HTTPSources \subseteq Engines
    /\ MaxBlobBytes \in Nat
    /\ MaxTotalBytes \in Nat

VARIABLES
    pc,      \* where each request's handler is
    input,   \* what each request carries, None before it arrives
    reply    \* the response each request received

submitVars == <<pc, input, reply>>

PCs == {"new", "resolve", "blobs", "enqueue", "token", "record", "reread",
        "done", "dead"}

Codes == {0, 202, 400, 501, 503}

\* How a caller came by its token: it was on record ("resolved"), it was just
\* recorded ("recorded"), it belongs to the submit that recorded first
\* ("winner"), or nothing was recorded or read ("own").  The code does not
\* keep this; the properties do.
Ways == {"none", "resolved", "recorded", "winner", "own"}

NoReply == [code |-> 0, token |-> None, via |-> "none"]

Replies == [code: Codes, token: Requests \cup {None}, via: Ways]

TypeOKSubmit ==
    /\ pc \in [Requests -> PCs]
    /\ input \in [Requests -> Inputs \cup {None}]
    /\ \A r \in Requests : pc[r] # "new" => input[r] \in Inputs
    /\ \A r \in Requests : pc[r] = "reread" => input[r].idem # None
    /\ reply \in [Requests -> Replies]

InitSubmit ==
    /\ pc = [r \in Requests |-> "new"]
    /\ input = [r \in Requests |-> None]
    /\ reply = [r \in Requests |-> NoReply]

-----------------------------------------------------------------------------
(* The request, before Redis is asked anything *)

\* PayloadFromRequest / PayloadFromExternalRequest return an error.
ParseFails(i) ==
    \/ ~i.wellFormed
    \/ MaxBlobBytes > 0 /\ \E n \in DOMAIN i.files : i.files[n] > MaxBlobBytes

\* The engine the payload is stamped with.
EngineFor(i) ==
    IF i.files # <<>> /\ i.route # None THEN i.route ELSE DefaultEngine

Total(files) ==
    LET sum[n \in 0..Len(files)] == IF n = 0 THEN 0 ELSE sum[n - 1] + files[n]
    IN  sum[Len(files)]

\* The caps that Enqueue checks before it writes anything.
BlobLimitsExceeded(i) ==
    \/ MaxBlobBytes > 0 /\ \E n \in DOMAIN i.files : i.files[n] > MaxBlobBytes
    \/ MaxTotalBytes > 0 /\ Total(i.files) > MaxTotalBytes

FileParts(i) == 1..Len(i.files)

HasIdem(r) == input[r].idem # None

Slot(i) == idemKey(i.caller, i.idem)

Accept(r, tok, via) ==
    /\ pc' = [pc EXCEPT ![r] = "done"]
    /\ reply' = [reply EXCEPT ![r] =
                   [code |-> 202, token |-> tok, via |-> via]]
    /\ UNCHANGED input

Fail(r, code) ==
    /\ pc' = [pc EXCEPT ![r] = "done"]
    /\ reply' = [reply EXCEPT ![r].code = code]
    /\ UNCHANGED input

Goto(r, step) ==
    /\ pc' = [pc EXCEPT ![r] = step]
    /\ UNCHANGED <<input, reply>>

\* The responses that need no Redis at all.
Refusal(i, code) ==
    \/ ~i.enabled /\ code = 501
    \/ /\ i.enabled
       /\ ParseFails(i)
       /\ code = 400
    \/ /\ i.enabled
       /\ ~ParseFails(i)
       /\ \/ i.mode = "process" /\ i.route = None /\ code = 501
          \/ i.mode = "source" /\ EngineFor(i) \notin HTTPSources /\ code = 400

RefuseSubmit(r) ==
    /\ pc[r] = "new"
    /\ \E i \in Inputs, code \in {400, 501} :
          /\ Refusal(i, code)
          /\ input' = [input EXCEPT ![r] = i]
          /\ pc' = [pc EXCEPT ![r] = "done"]
          /\ reply' = [reply EXCEPT ![r].code = code]
    /\ UNCHANGED storeVars

BeginSubmit(r) ==
    /\ pc[r] = "new"
    /\ \E i \in Inputs :
          /\ \A code \in {400, 501} : ~Refusal(i, code)
          /\ input' = [input EXCEPT ![r] = i]
    /\ pc' = [pc EXCEPT ![r] = "resolve"]
    /\ UNCHANGED <<reply, storeVars>>

-----------------------------------------------------------------------------
(* ResolveIdempotent *)

\* A retry of a recorded submission gets the token recorded for it.
ResolveHit(r) ==
    /\ pc[r] = "resolve"
    /\ HasIdem(r)
    /\ Live(idem[Slot(input[r])].exp)
    /\ Accept(r, idem[Slot(input[r])].token, "resolved")
    /\ UNCHANGED storeVars

\* No header, no record, or a Redis error, which the handlers ignore and which
\* may strike whatever is on record: go on to Enqueue, whose first act is to
\* check the size caps.
ResolveMiss(r) ==
    /\ pc[r] = "resolve"
    /\ \/ BlobLimitsExceeded(input[r]) /\ Fail(r, 400)
       \/ /\ ~BlobLimitsExceeded(input[r])
          /\ Goto(r, IF input[r].files = <<>> THEN "enqueue" ELSE "blobs")
    /\ UNCHANGED storeVars

-----------------------------------------------------------------------------
(* Enqueue *)

\* The pipeline of SETs behind a set of parts.
WriteBlobs(r, parts) ==
    blob' = [blob EXCEPT ![r] = [p \in Parts |->
                IF p \in parts THEN ExpireIn(Retention) ELSE @[p]]]

PersistBlobs(r) ==
    /\ pc[r] = "blobs"
    /\ WriteBlobs(r, FileParts(input[r]))
    /\ Goto(r, "enqueue")
    /\ UNCHANGED <<now, token, queue, idem, body, ctype, asynqVars>>

\* Mutant of PersistBlobsFails: the error of the pipeline is dropped.
PersistBlobsUnchecked(r) ==
    /\ pc[r] = "blobs"
    /\ \E parts \in SUBSET FileParts(input[r]) : WriteBlobs(r, parts)
    /\ Goto(r, "enqueue")
    /\ UNCHANGED <<now, token, queue, idem, body, ctype, asynqVars>>

\* The pipeline is not a transaction: any part of it may have been applied.
PersistBlobsFails(r) ==
    /\ pc[r] = "blobs"
    /\ \E parts \in SUBSET FileParts(input[r]) : WriteBlobs(r, parts)
    /\ Fail(r, 503)
    /\ UNCHANGED <<now, token, queue, idem, body, ctype, asynqVars>>

CreateTask(r) ==
    /\ tstate' = [tstate EXCEPT ![r] = "pending"]
    /\ payload' = [payload EXCEPT ![r] = [engine |-> EngineFor(input[r]),
                                          nfiles |-> Len(input[r].files)]]
    /\ UNCHANGED <<retried, doneAt>>

EnqueueTask(r) ==
    /\ pc[r] = "enqueue"
    /\ CreateTask(r)
    /\ Goto(r, "token")
    /\ UNCHANGED <<now, redisVars>>

\* The client sees an error; the task may be in the queue all the same.
EnqueueFails(r) ==
    /\ pc[r] = "enqueue"
    /\ CreateTask(r) \/ UNCHANGED asynqVars
    /\ Fail(r, 503)
    /\ UNCHANGED <<now, redisVars>>

BindToken(r) ==
    token' = [token EXCEPT ![r] = [task |-> r,
                                   fp   |-> keyFromAPIKey(input[r].caller),
                                   exp  |-> ExpireIn(ResultTTL)]]

HintQueue(r) == queue' = [queue EXCEPT ![r] = ExpireIn(Retention)]

PersistToken(r) ==
    /\ pc[r] = "token"
    /\ BindToken(r)
    /\ HintQueue(r)
    /\ Goto(r, "record")
    /\ UNCHANGED <<now, blob, idem, body, ctype, asynqVars>>

\* Mutant of PersistTokenFails: the error of the pipeline is dropped.
PersistTokenUnchecked(r) ==
    /\ pc[r] = "token"
    /\ BindToken(r) \/ UNCHANGED token
    /\ HintQueue(r) \/ UNCHANGED queue
    /\ Goto(r, "record")
    /\ UNCHANGED <<now, blob, idem, body, ctype, asynqVars>>

\* Again a plain pipeline; the task stays in the queue.
PersistTokenFails(r) ==
    /\ pc[r] = "token"
    /\ BindToken(r) \/ UNCHANGED token
    /\ HintQueue(r) \/ UNCHANGED queue
    /\ Fail(r, 503)
    /\ UNCHANGED <<now, blob, idem, body, ctype, asynqVars>>

-----------------------------------------------------------------------------
(* RecordIdempotent *)

\* Mutant of ReserveSlot: a SET instead of the SETNX.
OverwriteSlot(r) ==
    idem' = [idem EXCEPT ![Slot(input[r])] =
               [token |-> r, exp |-> ExpireIn(ResultTTL)]]

\* SETNX takes the slot.
ReserveSlot(r) ==
    /\ ~Live(idem[Slot(input[r])].exp)
    /\ idem' = [idem EXCEPT ![Slot(input[r])] =
                  [token |-> r, exp |-> ExpireIn(ResultTTL)]]

RecordWins(r) ==
    /\ pc[r] = "record"
    /\ HasIdem(r)
    /\ ReserveSlot(r)
    /\ Accept(r, r, "recorded")
    /\ UNCHANGED <<now, blob, token, queue, body, ctype, asynqVars>>

\* Without the header nothing is recorded.  With it, the SETNX may fail, and
\* may have reached Redis all the same: the handlers ignore the error.
RecordSkipped(r) ==
    /\ pc[r] = "record"
    /\ \/ UNCHANGED idem
       \/ HasIdem(r) /\ ReserveSlot(r)
    /\ Accept(r, r, "own")
    /\ UNCHANGED <<now, blob, token, queue, body, ctype, asynqVars>>

\* SETNX found the slot taken: the winner is read in a second round trip.
RecordLoses(r) ==
    /\ pc[r] = "record"
    /\ HasIdem(r)
    /\ Live(idem[Slot(input[r])].exp)
    /\ Goto(r, "reread")
    /\ UNCHANGED storeVars

\* Mutant of ReadWinner: try the SETNX again until it wins.
ReserveAgain(r) ==
    /\ pc[r] = "reread"
    /\ Goto(r, "record")
    /\ UNCHANGED storeVars

\* By then the winner's record may be gone, or the GET may fail: both are
\* errors that the handlers ignore, and the caller gets its own token.
ReadWinner(r) ==
    /\ pc[r] = "reread"
    /\ \/ /\ Live(idem[Slot(input[r])].exp)
          /\ Accept(r, idem[Slot(input[r])].token, "winner")
       \/ Accept(r, r, "own")
    /\ UNCHANGED storeVars

-----------------------------------------------------------------------------
\* The replica dies under the request.
SubmitCrash(r) ==
    /\ pc[r] \notin {"new", "done", "dead"}
    /\ Goto(r, "dead")
    /\ UNCHANGED storeVars

SubmitProgress(r) ==
    \/ RefuseSubmit(r)
    \/ BeginSubmit(r)
    \/ ResolveHit(r)
    \/ ResolveMiss(r)
    \/ PersistBlobs(r)
    \/ PersistBlobsFails(r)
    \/ EnqueueTask(r)
    \/ EnqueueFails(r)
    \/ PersistToken(r)
    \/ PersistTokenFails(r)
    \/ RecordWins(r)
    \/ RecordSkipped(r)
    \/ RecordLoses(r)
    \/ ReadWinner(r)

SubmitStep(r) == SubmitProgress(r) \/ SubmitCrash(r)

=============================================================================
