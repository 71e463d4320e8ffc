----------------------------- MODULE TaskReader -----------------------------
(***************************************************************************)
(* The status and result endpoints: Async.Poll and Async.Result in         *)
(* internal/transport/http/handlers/async.go, with Orchestrator.Status,    *)
(* Result and resolveToken.  Each call is several Redis round trips; the   *)
(* workers and the clock run in between.                                   *)
(***************************************************************************)
EXTENDS TaskStore

CONSTANT Readers   \* status and result requests, one call each

VARIABLES
    rpc,      \* where each call is
    rcaller,  \* the API key it came with
    rtask,    \* the task id its token resolved to
    rfresh,   \* history: the task had completed when the token was resolved
    rbody,    \* the body it has read: the content type of the answer it holds
    rans      \* the response

readerVars == <<rpc, rcaller, rtask, rfresh, rbody, rans>>

Statuses == {"none", "started", "pending", "success"}

\* Content types that writeResultResponse renders inline.
allowedResultContentTypes == {"json", "plain", "markdown", "html"}

Served == {"none", "octet-stream"} \cup allowedResultContentTypes

Answers == [code: {0, 200, 404, 500}, status: Statuses, served: Served]

Failed(code)   == [code |-> code, status |-> "none", served |-> "none"]
Reported(st)   == [code |-> 200, status |-> st, served |-> "none"]
Delivered(typ) == [code |-> 200, status |-> "none", served |-> typ]

NoAnswer == Failed(0)

TypeOKReader ==
    /\ rpc \in [Readers -> {"new", "status", "body", "ctype", "done"}]
    /\ rcaller \in [Readers -> Keys \cup {None}]
    /\ rtask \in [Readers -> Requests \cup {None}]
    /\ rfresh \in [Readers -> BOOLEAN]
    /\ rbody \in [Readers -> Kinds \cup {None}]
    /\ rans \in [Readers -> Answers]
    /\ \A d \in Readers :
          rpc[d] \in {"status", "body", "ctype"} => rtask[d] \in Requests

InitReader ==
    /\ rpc = [d \in Readers |-> "new"]
    /\ rcaller = [d \in Readers |-> None]
    /\ rtask = [d \in Readers |-> None]
    /\ rfresh = [d \in Readers |-> FALSE]
    /\ rbody = [d \in Readers |-> None]
    /\ rans = [d \in Readers |-> NoAnswer]

-----------------------------------------------------------------------------
\* Mutant of mapState: a task that waits for its retry is done.
mapStateHasty(s) ==
    CASE s = "active" -> "started"
      [] s = "pending" -> "pending"
      [] s \in {"retry", "archived", "completed"} -> "success"

\* What a poll reports for each state asynq keeps a task in.
mapState(s) ==
    CASE s = "active" -> "started"
      [] s \in {"pending", "retry"} -> "pending"
      [] s \in {"archived", "completed"} -> "success"

\* What a stored content type is served as.  A missing one reads as "".
ServedType(ct) ==
    CASE ct \in {None, ""} -> "json"
      [] ct \in allowedResultContentTypes -> ct
      [] OTHER -> "octet-stream"

Answer(d, a) ==
    /\ rpc' = [rpc EXCEPT ![d] = "done"]
    /\ rans' = [rans EXCEPT ![d] = a]

\* Mutant of MayResolve: the fingerprint is compared only if a key was sent.
MayResolveLax(caller, t) ==
    /\ Live(token[t].exp)
    /\ token[t].fp # {} /\ caller # None =>
          keyFromAPIKey(caller) = token[t].fp

\* The caller may read what this token is bound to.
MayResolve(caller, t) ==
    /\ Live(token[t].exp)
    /\ token[t].fp # {} => keyFromAPIKey(caller) = token[t].fp

\* A call arrives with some key and some token; its first round trip reads
\* the binding.
ResolveToken(d) ==
    /\ rpc[d] = "new"
    /\ \E caller \in Keys \cup {None}, t \in Requests, op \in {"status", "body"} :
          /\ MayResolve(caller, t)
          /\ rcaller' = [rcaller EXCEPT ![d] = caller]
          /\ rtask' = [rtask EXCEPT ![d] = token[t].task]
          /\ rfresh' = [rfresh EXCEPT ![d] = tstate[token[t].task] = "completed"]
          /\ rpc' = [rpc EXCEPT ![d] = op]
    /\ UNCHANGED <<rbody, rans, storeVars>>

\* Unknown, expired or foreign token; or Redis did not answer.
ResolveTokenFails(d) ==
    /\ rpc[d] = "new"
    /\ \E caller \in Keys \cup {None}, t \in Requests :
          /\ rcaller' = [rcaller EXCEPT ![d] = caller]
          /\ \/ ~MayResolve(caller, t) /\ Answer(d, Failed(404))
             \/ Answer(d, Failed(500))
    /\ UNCHANGED <<rtask, rfresh, rbody, storeVars>>

\* asynq still knows the task.
TaskKnown(r) == tstate[r] \notin {"absent", "deleted"}

Report(d) ==
    /\ TaskKnown(rtask[d])
    /\ Answer(d, Reported(mapState(tstate[rtask[d]])))

\* Status finds the task in the queue that the hint names.
StatusByHint(d) ==
    /\ rpc[d] = "status"
    /\ Live(queue[rtask[d]])
    /\ Report(d)
    /\ UNCHANGED <<rcaller, rtask, rfresh, rbody, storeVars>>

\* The hint is gone, or its lookup failed: Status scans every queue.  An error
\* of a single lookup is skipped, so that a task that exists may be reported
\* as not found; an error listing the queues is a 500.
StatusByScan(d) ==
    /\ rpc[d] = "status"
    /\ \/ Report(d)
       \/ Answer(d, Failed(404))
       \/ Answer(d, Failed(500))
    /\ UNCHANGED <<rcaller, rtask, rfresh, rbody, storeVars>>

\* Result, first GET.
ReadBody(d) ==
    /\ rpc[d] = "body"
    /\ Live(body[rtask[d]].exp)
    /\ rbody' = [rbody EXCEPT ![d] = body[rtask[d]].val]
    /\ rpc' = [rpc EXCEPT ![d] = "ctype"]
    /\ UNCHANGED <<rcaller, rtask, rfresh, rans, storeVars>>

ReadBodyFails(d) ==
    /\ rpc[d] = "body"
    /\ \/ /\ ~Live(body[rtask[d]].exp)
          /\ Answer(d, Failed(404))
       \/ Answer(d, Failed(500))
    /\ UNCHANGED <<rcaller, rtask, rfresh, rbody, storeVars>>

\* Result, second GET, and the response.  The error of this GET is dropped: a
\* type that expired, was never written or could not be fetched reads as "".
ReadType(d) ==
    /\ rpc[d] = "ctype"
    /\ \/ /\ Live(ctype[rtask[d]].exp)
          /\ Answer(d, Delivered(ServedType(ctype[rtask[d]].val)))
       \/ Answer(d, Delivered(ServedType(None)))
    /\ UNCHANGED <<rcaller, rtask, rfresh, rbody, storeVars>>

ReaderStep(d) ==
    \/ ResolveToken(d)
    \/ ResolveTokenFails(d)
    \/ StatusByHint(d)
    \/ StatusByScan(d)
    \/ ReadBody(d)
    \/ ReadBodyFails(d)
    \/ ReadType(d)

=============================================================================
