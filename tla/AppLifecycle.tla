---------------------------- MODULE AppLifecycle ---------------------------
(***************************************************************************)
(* The process: main's run, app.Build, Application.Run and its shutdown,   *)
(* with the HTTP server and the asynq worker on goroutines of their own,   *)
(* HTTP requests and a task in flight, and a signal or a failing subsystem *)
(* at any moment.  Steps of the program take no time; waits do.            *)
(***************************************************************************)
EXTENDS Config

CONSTANTS
    Starts,        \* [cfg, validate]: a configuration and the -validate flag
    Requests,      \* HTTP requests
    DefaultGrace,  \* GracePeriod without shutdown_grace
    WorkerDrain,   \* asynq: how long Shutdown waits for tasks
    StopBy,        \* bound: when a signal or a failure comes at the latest
    MaxTime        \* bound of the clock

ASSUME LifecycleAssumption ==
    /\ DefaultGrace \in Nat \ {0} /\ WorkerDrain \in Nat
    /\ StopBy \in Nat /\ MaxTime \in Nat
    /\ \A s \in Starts : IsConfig(s.cfg)

VARIABLES
    start,   \* the configuration and flag the process was started with
    phase,   \* where main is
    code,    \* the exit code; NotYet before
    srv,     \* "off", "pending", "listening", "failed" or "closed"
    wk,      \* "off", "pending", "running", "draining", "stopped" or "failed"
    orch,    \* the orchestrator's clients: "none", "open" or "closed"
    sig,     \* a signal has come: ctx is done
    errs,    \* errors waiting in errCh
    stopAt,  \* when shutdown began
    req,     \* "none", "connected" (StateNew: nothing of the request has been
             \* read), "active", "answered" or "cut"
    job,     \* the worker's task: "idle", "working", "saved", "requeued" or "lost"
    late,    \* the task was taken when the worker's shutdown was over already
    now

vars == <<start, phase, code, srv, wk, orch, sig, errs, stopAt, req, job, late, now>>
mainVars == <<start, phase, code, stopAt>>

NotYet == -1

\* The configuration as Load returns it.
conf == applyEngineDefaults(start.cfg)

Deadline == stopAt + GracePeriod(conf, DefaultGrace)

Draining == {"drain-http", "wait-http"}

Stopping == {"worker", "drain-worker", "store", "trace", "http"} \cup Draining

Active == {r \in Requests : req[r] = "active"}
Fresh == {r \in Requests : req[r] = "connected"}

-----------------------------------------------------------------------------
(* main *)

Exit(c) == phase' = "exited" /\ code' = c

\* config.Load, and -validate.
Load ==
    /\ phase = "start"
    /\ \/ LoadFails(start.cfg) /\ Exit(2)
       \/ ~LoadFails(start.cfg) /\ start.validate /\ Exit(0)
       \/ ~LoadFails(start.cfg) /\ ~start.validate /\ phase' = "loaded" /\ UNCHANGED code
    /\ UNCHANGED <<start, srv, wk, orch, sig, errs, stopAt, req, job, late, now>>

\* app.Build up to the orchestrator's clients.
OpenStore ==
    /\ phase = "loaded"
    /\ \/ FailsBeforeStore(conf) /\ Exit(2) /\ UNCHANGED orch
       \/ /\ ~FailsBeforeStore(conf)
          /\ phase' = "opened" /\ UNCHANGED code
          /\ orch' = IF conf.tasks THEN "open" ELSE "none"
    /\ UNCHANGED <<start, srv, wk, sig, errs, stopAt, req, job, late, now>>

\* The rest of app.Build, and the goroutines that Run starts.  A failure leaves
\* the clients to the end of the process.
Build ==
    /\ phase = "opened"
    /\ \/ FailsBehindStore(conf) /\ Exit(2) /\ UNCHANGED <<srv, wk>>
       \/ /\ ~FailsBehindStore(conf)
          /\ phase' = "running" /\ UNCHANGED code
          /\ srv' = "pending"
          /\ wk' = IF conf.tasks THEN "pending" ELSE "off"
    /\ UNCHANGED <<start, orch, sig, errs, stopAt, req, job, late, now>>

Signal ==
    /\ phase \in {"loaded", "opened", "running"} /\ ~sig /\ now <= StopBy
    /\ sig' = TRUE
    /\ UNCHANGED <<mainVars, srv, wk, orch, errs, req, job, late, now>>

\* Run's select; the grace period starts here.
Select ==
    /\ phase = "running" /\ (sig \/ errs > 0)
    /\ phase' = "worker"
    /\ stopAt' = now
    /\ errs' = IF errs > 0 /\ ~sig THEN errs - 1 ELSE errs
    /\ UNCHANGED <<start, code, srv, wk, orch, sig, req, job, late, now>>

-----------------------------------------------------------------------------
(* The HTTP server's goroutine and its requests *)

\* Failures that bring the process down come before the bound.
MayFail == phase = "running" => now <= StopBy

\* Serve after Shutdown returns ErrServerClosed at once, another error.
Listen ==
    /\ srv = "pending" /\ phase # "exited"
    /\ IF phase \in Draining
       THEN srv' = "closed" /\ errs' = errs + 1
       ELSE srv' = "listening" /\ UNCHANGED errs
    /\ UNCHANGED <<mainVars, wk, orch, sig, req, job, late, now>>

\* The address is in use, or Accept fails later.
ServeFails ==
    /\ srv \in {"pending", "listening"} /\ phase \notin {"exited"} \cup Draining /\ MayFail
    /\ srv' = "failed"
    /\ errs' = errs + 1
    /\ UNCHANGED <<mainVars, wk, orch, sig, req, job, late, now>>

Connect(r) ==
    /\ srv = "listening" /\ phase # "exited" /\ req[r] = "none"
    /\ req' = [req EXCEPT ![r] = "connected"]
    /\ UNCHANGED <<mainVars, srv, wk, orch, sig, errs, job, late, now>>

\* Also behind Shutdown, on a connection that was accepted before it.
Arrive(r) ==
    /\ req[r] = "connected" /\ phase # "exited"
    /\ req' = [req EXCEPT ![r] = "active"]
    /\ UNCHANGED <<mainVars, srv, wk, orch, sig, errs, job, late, now>>

Answer(r) ==
    /\ req[r] = "active"
    /\ req' = [req EXCEPT ![r] = "answered"]
    /\ UNCHANGED <<mainVars, srv, wk, orch, sig, errs, job, late, now>>

-----------------------------------------------------------------------------
(* The worker's goroutine and its task (external: asynq) *)

\* Start does not know of a Shutdown that came before it.
WorkerStarts ==
    /\ wk = "pending" /\ phase # "exited"
    /\ wk' = "running"
    /\ UNCHANGED <<mainVars, srv, orch, sig, errs, req, job, late, now>>

WorkerFails ==
    /\ wk = "pending" /\ phase # "exited" /\ MayFail
    /\ wk' = "failed"
    /\ errs' = errs + 1
    /\ UNCHANGED <<mainVars, srv, orch, sig, req, job, late, now>>

TakeTask ==
    /\ wk = "running" /\ phase # "exited" /\ job = "idle"
    /\ job' = "working"
    /\ late' = (phase \in Stopping \ {"worker"})
    /\ UNCHANGED <<mainVars, srv, wk, orch, sig, errs, req, now>>

\* The result is saved through the orchestrator's client.
SaveTask ==
    /\ job = "working" /\ phase # "exited"
    /\ job' = IF orch = "open" THEN "saved" ELSE "lost"
    /\ UNCHANGED <<mainVars, srv, wk, orch, sig, errs, req, late, now>>

-----------------------------------------------------------------------------
(* Application.shutdown *)

\* Mutant of StopWorker: Shutdown is not waited for.
StopWorkerAsync ==
    /\ phase = "worker"
    /\ phase' = "store" /\ UNCHANGED wk
    /\ UNCHANGED <<start, code, srv, orch, sig, errs, stopAt, req, job, late, now>>

\* worker.Shutdown: nothing to do for a server that has not started.
StopWorker ==
    /\ phase = "worker"
    /\ IF wk = "running"
       THEN phase' = "drain-worker" /\ wk' = "draining"
       ELSE phase' = "store" /\ UNCHANGED wk
    /\ UNCHANGED <<start, code, srv, orch, sig, errs, stopAt, req, job, late, now>>

\* The tasks have ended, or are put back when the time is up.
WorkerStopped ==
    /\ phase = "drain-worker"
    /\ job # "working" \/ now >= stopAt + WorkerDrain
    /\ job' = IF job = "working" THEN "requeued" ELSE job
    /\ wk' = "stopped"
    /\ phase' = "store"
    /\ UNCHANGED <<start, code, srv, orch, sig, errs, stopAt, req, late, now>>

CloseStore ==
    /\ phase = "store"
    /\ orch' = IF orch = "open" THEN "closed" ELSE orch
    /\ phase' = "trace"
    /\ UNCHANGED <<start, code, srv, wk, sig, errs, stopAt, req, job, late, now>>

\* traceShutdown flushes until the context ends.
StopTracing ==
    /\ phase = "trace"
    /\ phase' = "http"
    /\ UNCHANGED <<start, code, srv, wk, orch, sig, errs, stopAt, req, job, late, now>>

\* Mutant of StopServer: the goroutine reports the end of the server again.
StopServerTwice ==
    /\ phase = "http"
    /\ phase' = "drain-http"
    /\ srv' = IF srv = "listening" THEN "closed" ELSE srv
    /\ errs' = errs + 1
    /\ UNCHANGED <<start, code, wk, orch, sig, stopAt, req, job, late, now>>

\* server.Shutdown closes the listener; Serve returns ErrServerClosed.
StopServer ==
    /\ phase = "http"
    /\ phase' = "drain-http"
    /\ IF srv = "listening"
       THEN srv' = "closed" /\ errs' = errs + 1
       ELSE UNCHANGED <<srv, errs>>
    /\ UNCHANGED <<start, code, wk, orch, sig, stopAt, req, job, late, now>>

\* Shutdown looks at once, and from then on every now and then: a connection
\* that is new keeps it waiting as one in use does, for five seconds.
StillBusy ==
    /\ phase = "drain-http" /\ Active \cup Fresh # {}
    /\ phase' = "wait-http"
    /\ UNCHANGED <<start, code, srv, wk, orch, sig, errs, stopAt, req, job, late, now>>

\* A look finds no request; the connections that are left are closed.
ServerDrained ==
    /\ phase \in Draining /\ Active = {}
    /\ Exit(0)
    /\ UNCHANGED <<start, srv, wk, orch, sig, errs, stopAt, req, job, late, now>>

CutAll == [r \in Requests |-> IF req[r] = "active" THEN "cut" ELSE req[r]]

\* Mutant of GraceOver: the server is closed, not shut down.
GraceOverEarly ==
    /\ phase = "wait-http"
    /\ Exit(1)
    /\ req' = CutAll
    /\ UNCHANGED <<start, srv, wk, orch, sig, errs, stopAt, job, late, now>>

\* Mutant of GraceOver: Shutdown gets a context without a deadline.
GraceOverNever ==
    /\ phase = "wait-http" /\ now > MaxTime
    /\ Exit(1)
    /\ req' = CutAll
    /\ UNCHANGED <<start, srv, wk, orch, sig, errs, stopAt, job, late, now>>

\* Shutdown returns the context's error, and main returns 1, even if the last
\* request was answered between two looks.
GraceOver ==
    /\ phase = "wait-http" /\ now >= Deadline
    /\ Exit(1)
    /\ req' = CutAll
    /\ UNCHANGED <<start, srv, wk, orch, sig, errs, stopAt, job, late, now>>

-----------------------------------------------------------------------------
\* What main does without waiting for anything.
Prompt ==
    \/ Load \/ OpenStore \/ Build \/ Select \/ StopWorker \/ WorkerStopped \/ CloseStore
    \/ StopServer \/ StillBusy \/ ServerDrained \/ GraceOver

\* The clock, which stands still while main has something to do.
Tick ==
    /\ phase \notin {"start", "loaded", "opened", "worker", "store", "http", "drain-http", "exited"}
    /\ phase = "running" => ~(sig \/ errs > 0)
    /\ phase = "drain-worker" => job = "working" /\ now < stopAt + WorkerDrain
    /\ phase = "trace" => now < Deadline
    /\ phase = "wait-http" => now < Deadline
    /\ now < MaxTime
    /\ now' = now + 1
    /\ UNCHANGED <<mainVars, srv, wk, orch, sig, errs, req, job, late>>

Init ==
    /\ start \in Starts
    /\ phase = "start" /\ code = NotYet
    /\ srv = "off" /\ wk = "off" /\ orch = "none"
    /\ sig = FALSE /\ errs = 0 /\ stopAt = 0
    /\ req = [r \in Requests |-> "none"]
    /\ job = "idle" /\ late = FALSE
    /\ now = 0

\* Nothing is left to happen: the process is gone, or runs on undisturbed.
Rest == phase = "exited" \/ (phase = "running" /\ now = MaxTime)

Next ==
    \/ Prompt \/ StopTracing
    \/ Signal \/ Listen \/ ServeFails
    \/ \E r \in Requests : Connect(r) \/ Arrive(r) \/ Answer(r)
    \/ WorkerStarts \/ WorkerFails \/ TakeTask \/ SaveTask
    \/ Tick
    \/ Rest /\ UNCHANGED vars

Spec == Init /\ [][Next]_vars

\* main runs and the clock goes on; requests and tasks need never end.
Fairness == WF_vars(Prompt) /\ WF_vars(StopTracing) /\ WF_vars(Tick)

FairSpec == Spec /\ Fairness

-----------------------------------------------------------------------------
(* Properties *)

\* Types; errCh, which has room for two, is never full when an error is sent.
TypeOK ==
    /\ phase \in {"start", "loaded", "opened", "running", "exited"} \cup Stopping
    /\ code \in {NotYet, 0, 1, 2} /\ (code # NotYet <=> phase = "exited")
    /\ srv \in {"off", "pending", "listening", "failed", "closed"}
    /\ wk \in {"off", "pending", "running", "draining", "stopped", "failed"}
    /\ orch \in {"none", "open", "closed"}
    /\ errs \in 0..2
    /\ req \in [Requests -> {"none", "connected", "active", "answered", "cut"}]
    /\ job \in {"idle", "working", "saved", "requeued", "lost"}
    /\ now \in 0..MaxTime /\ stopAt \in 0..MaxTime

\* A request is cut off only when the grace period, counted from the signal or
\* the failure, is over: whatever order the parts are stopped in.
CutOnlyAfterGrace ==
    \A r \in Requests : req[r] = "cut" => now >= Deadline

\* The exit code tells what became of the process: 0 means that no request was
\* cut off, 1 that the grace period was used up, 2 that neither the server nor
\* the worker had been started.
ExitTells ==
    /\ code = 0 => \A r \in Requests : req[r] # "cut"
    /\ code = 1 => now >= Deadline
    /\ code = 2 => srv = "off" /\ wk = "off"

\* Shutdown gives every request its grace period, and main says so when that
\* was not enough for one.
OrderlyStop == CutOnlyAfterGrace /\ ExitTells

\* The store is not closed under a task: one that had been taken before is
\* saved or put back.  (A worker whose goroutine comes late starts behind the
\* shutdown and may take a task without a store.)
TasksKeepStore == job = "lost" => late

\* A signal or the failure of a subsystem brings the process to its end.
StopEnds == phase = "running" /\ (sig \/ errs > 0) ~> phase = "exited"

Loaded == phase \notin {"start", "exited"} \/ (phase = "exited" /\ code \in {0, 1})

\* In a process that was let start every engine's own timeout ends a call no
\* later than the server's does, and that one before the write deadline, defaults
\* included.
\* (Load lets a negative timeout pass, and the engine's client then takes its own
\* default without a look at the server's.)
TimeoutsNest ==
    Loaded /\ conf.request > 0 =>
        \A n \in {e \in Enabled(conf) : conf.engines[e].timeout >= 0} :
            /\ conf.engines[n].timeout \in 1..conf.request
            /\ conf.write > 0 => conf.engines[n].timeout + Slack <= conf.write

\* The passthrough mount stamps the credentials an adapter stamps: whichever
\* spelling of a header the mount's map yields last, the value is the same.
StampsAgree ==
    Loaded =>
        \A n \in Enabled(conf) :
            LET mount == FormatHeaderValuesMulti(conf.engines[n])
                wire == ApplyMulti(conf.engines[n])
            IN /\ {Canon(h) : h \in DOMAIN mount} = DOMAIN wire
               /\ \A h \in DOMAIN mount : mount[h] = wire[Canon(h)]

\* Every facade that is mounted in a process that was let start has an engine
\* whose adapter says it answers it: the validator's table of compat types and
\* the adapters' own Capabilities do not disagree.
FacadesServed ==
    Loaded =>
        \A f \in conf.facades :
            \E n \in Enabled(conf) : f \in newAdapterByCompat(conf.engines[n].compat)

\* Parts of the proxy that are configured or written down apart agree in every
\* process that was let start.
PartsAgree == TimeoutsNest /\ StampsAgree /\ FacadesServed

=============================================================================
