# TLA+ verification of owui-cee-proxy

owui-cee-proxy is a Go HTTP proxy between OpenWebUI and content-extraction
engines. It answers synchronous conversions by calling an engine, and
asynchronous ones through a task queue in Redis. This directory models the
proxy from the configuration it is started with to the bytes an engine gets,
with most weight on the parts whose correctness depends on the order in which
several actors act; checks the models with TLC on small instances; and proves
with TLAPS, for every value of the constants, each invariant and action property
that a passing run checks.

Source paths below are relative to `src/internal/` unless they start with
`src/`.

## The system

| Component | Source | State it keeps | Operations | What makes it correct |
|---|---|---|---|---|
| Async submit | `transport/http/handlers/async.go`, `tasks/orchestrator.go`, `tasks/payload.go` | Redis: blobs, tasks, token bindings, queue hints, idempotency slots | `SubmitFile`, `SubmitSource`, `SubmitProcess`; `ResolveIdempotent`, `Enqueue`, `RecordIdempotent` | a 202 leads to the caller's own whole task; a retry finds the token of its first try |
| Task worker | `tasks/worker.go`, `tasks/orchestrator.go` | Redis: result body and content type; asynq: task states, leases, retry counts | `handleConvert`, `LoadBlob`, `SaveResult`, `Shutdown` | one worker per task at a time; a completed task has a whole, final result; every task settles |
| Status and result | `transport/http/handlers/async.go`, `tasks/orchestrator.go` | none (reads) | `Poll`, `Result`, `resolveToken`, `Status` | only the owner reads; type and body belong together; a final status is final |
| Queue depth poller | `tasks/orchestrator.go`, `app/app.go` | a gauge | `PollQueueDepth` | - |
| Engine registry, routing, MIME | `engine/*.go`, `engine/mimedetect/detect.go` | immutable tables | `PickRouteVerbose`, `Get`, `Resolve` | the pick is a function of the first file's type and name, never of map order |
| Sync facades and fallback | `handlers/convert.go`, `external.go`, `fallback.go` | the spools of one request | `handle`, `Process`, `rewindFiles` | at most one fallback; a body that ends properly is whole; spools are released |
| Engine adapters | `engine/compat/*` | - | `Convert`, `do`, a pipe producer goroutine | the producer ends with a call the transport was given; a body is readable until it is closed |
| Breaker, HTTP client, limiter | `breaker`, `httpclient` | counts and state of the breaker, token bucket | `Execute`, `RoundTrip`, `WithDeadline`, `Health` | the pace is kept whichever waits are given up; the breaker opens on failures only (those of the limiter among them) and leaves half-open; every call returns |
| Spool | `spool/spool.go` | one part in memory or in a file | `Part`, `Read`, `Seek`, `Close` | the cap is exact; no temporary file is left behind |
| Source checks, DNS cache | `handlers/ssrf.go`, `handlers/convert.go` | cache entries with expiry, the singleflight group | `validateSources`, `Resolve`, `lookup`, `get`, `put` | a source is pinned to an answer DNS gave for it within the TTL, without a blocked address; one query per host; bounded size |
| Health and readiness | `handlers/health.go` | the results of one request's probes | `Liveness`, `Readiness` | ready means every required dependency answered; an engine that is up is called unhealthy only by its own limiter |
| Server, routes, middleware | `transport/http` | the wrapped response writers and context of a request, a limiter | the chain of `NewRouter`, the mounts | what is logged and counted is what the client was sent; a request ends |
| Logging, metrics, tracing | `observability`, `middleware` | counters | `AccessLog`, `Metrics`, `FullCapture` | the status they record |
| Reverse proxy | `reverseproxy/proxy.go`, `handlers/passthrough.go` | the stamps of a mount | traversal check, stamping, answers | the mount stamps what the adapters stamp |
| Application | `app/app.go`, `src/cmd/proxy/main.go` | which subsystems run | `Build`, `Run`, `shutdown` | nothing is cut off before the grace period is over; tasks keep their store; the process ends and its code tells how |
| Configuration | `config/config.go` | the loaded config | `Load`, defaults, `Validate` | what two parts must agree on holds after defaults: timeouts, facades, credentials |

The parts meet as follows. A handler of any replica calls the orchestrator,
whose methods are sequences of Redis round trips; asynq, in the same Redis,
leases tasks to the worker goroutines of all replicas; a worker calls the same
engine adapters as the synchronous handlers; readers poll the same keys. No
lock spans two round trips, every key has a TTL, and any replica may die
between two of them. What is hard is therefore:

- two submits under one `Idempotency-Key` between lookup and `SETNX`;
- pipelines that are not transactions, so that an error may leave part of them;
- a worker that dies, is shut down or times out between saving and acknowledging;
- readers whose two GETs straddle a worker's two SETs, or an expiry;
- keys with different TTLs that start at different moments;
- routing tables built from a Go map, and types guessed from three sources;
- a fallback that rewinds uploads a producer goroutine may still be reading,
  and sizes that are compared at a threshold and a cap at once;
- a limiter that waits inside the breaker, under the call's own deadline;
- a cache that is read before and after a singleflight group, fills, expires and
  evicts while others wait;
- handlers that write, panic or time out under three response writers;
- a grace period shared by everything that is stopped;
- defaults that are filled in between what the operator wrote and what is checked.

`PROJECT.json` lists each of these under "hazards", at its line.

## Modules

| Module | Models |
|---|---|
| `TaskStore` | the Redis keys and asynq's task table; clock and expiry; retry, forward and clean-up by asynq |
| `AsyncSubmit` | a submit request, one action per round trip, each with its failure; crashes |
| `TaskWorker` | a worker slot through `handleConvert`; leases, recovery, shutdown |
| `TaskReader` | a status or result call |
| `AsyncTasks` | the composition: `Next`, fairness, all properties and the inductive invariants |
| `MCAsyncTasks` | inputs and constants of the runs |
| `Routing` | type resolution, the registry's construction and the pick, and what each handler makes of it |
| `Spool` | `spool.Part`: how much of a part is kept, in memory or on disk, under cap and body limit |
| `SyncConvert` | one synchronous request: handler, spools, adapters, producer goroutine, transport, fallback |
| `NameService` | abstract: what the resolver promises about names |
| `SourceCheck` | source URLs of concurrent requests through cache, singleflight group and DNS; implements `NameService` |
| `UpstreamCalls` | conversions and probes of one engine through breaker, limiter and deadline |
| `Readiness` | the probes of `/readyz` and the verdict |
| `HTTPServer` | the middleware chain around health, facade and passthrough handlers; extends `Readiness` |
| `Config` | defaults, validation and derived values, as operators |
| `AppLifecycle` | the process from `Load` to exit; extends `Config` |
| `MC...` | inputs and constants of the runs |
| `AsyncTasks_proofs` | theorems on the pipeline's types and on its workers |
| `AsyncSubmit_proofs` | theorems on submits and readers; extends the one before |
| `SourceCheck_proofs`, `AppLifecycle_proofs`, `SyncConvert_proofs`, `Routing_proofs`, `UpstreamCalls_proofs`, `HTTPServer_proofs` | theorems on the module of the name |

**State.** A Redis key is a value with an absolute expiry, present while the
expiry is after `now`; so expiry happens by `Tick` alone and at any moment.
Task id and token are random in the code and each request makes at most one of
each, so the request stands for both. `tstate` is asynq's task state
(`deleted` once the janitor removed it); a result is reduced to the content
type of the engine answer it came from, which is what the properties tell
apart; the sizes of file parts stay numbers since caps are compared with them.

**Submit.** `RefuseSubmit`/`BeginSubmit` are the checks before Redis is asked
(async disabled, parse errors, no engine for the facade, engine without
HTTP sources). `ResolveHit`/`ResolveMiss` are `ResolveIdempotent`, whose errors
the handler ignores, and the caps at the head of `Enqueue`.
`PersistBlobs`, `EnqueueTask` and `PersistToken` are `Enqueue`'s three round
trips; the `...Fails` variant of each leaves any part of the write applied and
answers 503. `RecordWins`, `RecordSkipped`, `RecordLoses` and `ReadWinner` are
`RecordIdempotent` with its second read. `SubmitCrash` ends a request anywhere.

**Workers.** `Dequeue` leases a pending task. `UnknownEngine`, `LoadBlobs`,
`Convert`, `SaveBody`, `SaveType`, `Complete` and the failures of each follow
`handleConvert` and `SaveResult`. A Redis error and the end of the task's
deadline look the same to the handler. `DeadlineBeatsAck`: asynq takes a
handler whose context has ended for failed although it returned nil.
`WorkerCrash` leaves the task leased; `Recover` settles it once no worker holds
it. `Shutdown` puts an unfinished task back without using up a retry.

**Readers.** `ResolveToken` reads the binding and compares fingerprints;
`StatusByHint` and `StatusByScan` are the two ways `Status` finds a task;
`ReadBody` and `ReadType` are the two GETs of `Result`, the error of the second
dropped as in the code, with `ServedType` for `writeResultResponse`.

**Routing.** `Resolve` is the decision tree of `detect.go` over declared type,
sniffed type and extension. `VisitEntry` is a turn of `NewRegistry`'s range over
its map, in any order; `SortPass` is a pass of `stringSort`'s outer loop, and
`FinishRegistry` takes the order once all names are in place. `PickRouteVerbose` is written
with sets, so that the first by phase and position is a minimum.
`RouteConvert`, `RouteSource` and `RouteProcess` are the three ways a handler
uses it. A media type is a pair; case, parameters and the dot of an extension
are fields that normalisation drops.

**Synchronous requests.** `SpoolPart`, `SpoolFails` and `BuildFails` read the
upload: `Arrived` is what the body limit lets through, `Spool!Part` how much of
it is kept or whether the part is refused. `FirstAttempt`, `ConvertReturns`,
`Rewind`, `StartFallback` and `Answer` are the handler. `Do` starts a call;
`RequestFails`, `BreakerRefuses` and `LimiterRefuses` end it before the
transport has seen it, and only the first of them closes the body;
`EngineReplies`, `NextFile` and `DoFails` end it after. `Read`, `ReadFails` and `WriteFails` are the
producer of `convertFile`, which also writes a part's header before it reads
the file. `TakeFromPipe`, `PipeEnds`, `SendFile` and `Abandon` are the
transport: it reads the body it was given, closes it, and may do both after
`Do` has returned, as `net/http` documents. A streamed response is read after Convert's
`cancel()`, so it arrives whole or cut. `mixed` is a history variable: the
first attempt has read a file that was rewound for the second. A target that
`JoinURL` refuses fails before the producer is started; it differs from
`RequestFails` in nothing else.

**Source URLs.** A caller is a request in source mode, `todo` what
`validateSources` has left. `RefuseURL` and `Lookup` are the checks of
`Resolve` before DNS; `CacheHit` and `CacheMiss` the first look; `Lead` and
`Join` are `singleflight.Do`; `RecheckHit`, `RecheckMiss`, `LookupReturns` and
`LookupFails` the function inside it, `Land` its return to all who joined;
`RefuseAnswer` and `Pin` judge the answer. The cache is the set of its entries;
`put` is what it does under its mutex. An address is the set of ranges it lies
in, since that is all `classifyIP` asks. In `NameService` a fact is known from
the moment DNS has said it; `known`, `want` and `told` are mapped to cache and
flights, to the hosts of callers inside `lookup`, and to their results.

**Upstream calls.** `Admit` and `RefuseCall` are `Execute`'s `beforeRequest`,
`Report` its `afterRequest`; `Reserve`, `WaitFails`, `WaitCancelled` and `Send`
are `Limiter.Wait` inside `RateLimitedTransport`; `Replies`, `TripFails` and
`DeadlineFires` end the call. A call that ends for want of a token is
`throttled`, any other failure `failed`; the breaker counts both. Time is counted in tokens of the limiter, and a
timer that is due fires before the clock moves. gobreaker and `rate.Limiter`
are external: generation, counts and expiry as the settings of `breaker.New`
make them matter, reservations with their cancellation. `last` is the limiter's
`lastEvent`: a cancelled reservation returns its token only if none was made
behind it.

**The chain.** Each writer is what it has noted and passes on; `w[r].wire` is
the header net/http sent. `RateLimited`, `Enter` and `Refuse` are the way in,
`Unwind` the way out, `Panics` the short cut to `Recover`. `RateLimited` answers
429 outside everything that records, and leaves no record. A facade writes and
returns as it likes; a mount does what `httputil.ReverseProxy` does. A client
may stall (`ClientStalls`) with the handler blocked in a read or a write of its
connection, where no context reaches it: only the client (`ClientMoves`) or the
server's read and write deadlines (`ConnectionDeadline`) free it. The readiness
fan-out is a state machine of its own, which the server composes; a probe goes
through its engine's limiter, which may fail it though the engine is up
(`ProbeThrottled`).

**The process.** `Load`, `OpenStore`, `Build`, `Select` and the steps of
`shutdown` are main's goroutine; `OpenStore` is `app.Build` up to the
orchestrator's clients, `Build` the rest, whose failure leaves those clients
open. `Listen`, `ServeFails` and `WorkerStarts`, `WorkerFails` are the two other
goroutines, which may come late. A client connects before its request is read
(`Connect`, `Arrive`). `http.Server.Shutdown` looks for connections in use at
once (`StillBusy`, `ServerDrained`) and then now and then, so that its context
may end although the last request has just been answered (`GraceOver`). Steps of
the program take no time, waits do (`Tick`).

External behaviour, modelled from how the code uses it: Redis (`SET` with TTL,
`SETNX`, pipelines that are not atomic under failure) and asynq (leases, retry
budget, archive, recoverer, forwarder, janitor, requeue at shutdown), net/http,
gobreaker, `rate.Limiter`, `singleflight` and `errgroup`. Two assumptions on asynq matter: it cancels the handler's context when it gives an
attempt up, and a write already in flight then takes effect before a later
attempt, which begins with a conversion, reaches its own writes.

## Runs

| Run | Checks | Shows |
|---|---|---|
| `submit` | `AnswerIsMine`, `NoPartialTask`, `SlotKeepsToken`, `SubmitAnswered` | two submits of every shape by two callers under one header value, with expiry, lost and partly applied writes, and crashes; the loser of the race may find that the winner's slot has expired by its second read (254,000 states) |
| `tasks` | `OneWorkerPerTask`, `CompletedPair`, `ReadIsolation`, `FreshResultTyped`, `SuccessIsFinal`, `ResultFrozen`, `AcceptedSettles` | two workers and a reader with the right or a wrong key on one task: retries, crashes, a shutdown, blobs that expire, expiry between the reader's GETs (689,000 states, the longest run) |
| `routing` | `PickIsFirstByName`, `FacadeFiltered`, `KnownTypeUsed` | every registry of up to three of four overlapping entries, in every map order, under each strategy (128,000 states) |
| `sync` | `TypeOK`, `CleanSendIsWhole`, `OkMeansWhole`, `NothingHeld`, `SpoolExact`, `CallsAnswered`, `ProducersUnwind` | every pair of adapters, with early answers, breaks, fallback, calls that breaker or limiter refuse, goroutines that run on, and bodies around cap and threshold (393,000 states) |
| `sources` | `CacheBounded`, `LeanLookups` (`OneQueryPerHost`, `NoNeedlessQuery`), `AcceptedIsVetted`, `EvictsExpiredFirst`, `ResolveEnds`, `AnswersFresh` | three requests, three hosts, a cache for two of them or none, answers that change, failures, expiry; the resolver implements `NameService` (267,000 states) |
| `upstream` | `RatePaced`, `OpensOnFailures`, `HalfOpenLeaves`, `CallsReturn` | three conversions and two probes, with and without a limiter, an engine that may never answer (241,000 states) |
| `requests` | `LogTellsTruth`, `ReadinessTellsTruth` (`ReadyMeansUp`, `HealthyIsReported`), `RequestsEnd` | two requests to every kind of route, from clients that may stall; engines that are up, down, hang or are throttled behind `/readyz` (212,000 states) |
| `startup` | `TypeOK`, `OrderlyStop` (`CutOnlyAfterGrace`, `ExitTells`), `TasksKeepStore`, `PartsAgree` (`TimeoutsNest`, `StampsAgree`, `FacadesServed`), `StopEnds` | hundreds of configurations loaded, nine of them built and those that can be run, with a signal or a failure at any moment (36,000 states) |
| `work_twice`, `half_send`, `facade_default`, `limiter_trips` | one statement of the documentation or a comment each | violated: see Findings |

The type invariants of `AsyncTasks` and `SourceCheck` are proved and not checked
again; those of `SyncConvert` and `AppLifecycle` say more than types and are.

**Bounds.** A race for a slot needs a winner and a loser; what a third request
finds is what they left, which the expiry and a second use of the slot by the
same two cover (the proofs are for any number). `ResultTTL = 1` with
`MaxTime = 2` lets a slot be written, expire and be written again, and in
`tasks` a result expire between two reads or between two writes; `Retention = 2`
lets blobs expire while a task waits for its retry. Caps of 2
and 3 bytes put sizes under, at and over both. One retry with two workers lets
a task fail or be recovered and complete on the last attempt; `MaxRequeues`
bounds only graceful shutdowns, which cost no retry and would otherwise make
the state space infinite. `submit` has no workers and readers since these only
read what its properties are about; the proofs cover all of them together.

In `routing`, three names are enough for two claimants and a default, the four
entries overlap by type, wildcard and extension on one facade or both, and the
uploads combine three declared types, four sniffs and four extensions. In
`sync`, two files and two chunks let a fallback start between files and between
chunks; an empty file and an empty upload are the edges. Two files meet every
pair of adapters except docling with docling or tika, whose interleavings the
pair docling with external already has. A threshold of 1 with bodies of 0 to 3
under limits of 0 (none), 1 and 2 meets every order of size, threshold and cap.

In `sources`, three hosts and a cache for two make every `put` of the third
evict; TTL 1 and a clock to 2 let an entry be good, at its limit and expired.
The third caller asks only for the host the two others meet at. In `upstream`,
three conversions are two failures to open the breaker and one to try it again;
a burst of 0, which counts as 1, makes every second call wait. The clock stops
at 3, and calls start only while their deadline is before it. In `requests` one
of the two requests is for `/health` and only takes the limiter's token. In
`startup` the clock runs to 5, a signal comes by 1, and grace periods of 1 to 3
lie below and above the worker's drain of 2.

**Fairness.** `FairSpec` of `AsyncTasks` has weak fairness for the next step of
a submit that has arrived, of each worker, and of asynq's recoverer and forwarder: goroutines
are scheduled, Redis calls return or time out, and those asynq loops are
periodic. Nothing forces a client to send a request, a replica to die, a
shutdown, the janitor or the clock.

`FairSpec` of `SyncConvert` has weak fairness for the handler, the adapter, the
producer, the end of a call by its deadline (`WithDeadline`; the configuration
fills in an engine's `request_timeout` of 0), and `http.Transport` letting go of
the body of a call that is over, if it was given it. Nobody does that for a call
that breaker or limiter refused, which is why `ProducersUnwind` leaves those out.
Nothing forces the client to send, the engine to read or to answer.

`SourceCheck`: goroutines go on, and `directLookup`'s context ends a query
after five seconds. `UpstreamCalls`: timers fire and the clock goes on.
`HTTPServer`: the proxy's own handlers go on, timers fire, a call whose context
has ended comes back, unless it is blocked on a stalled client, where only the
connection's deadlines are fair, and only if both are configured; probes answer
or time out. `RequestsEnd` says so: it leaves out requests whose client stalls
under no deadline. `AppLifecycle`: main and the clock go on. In all of them no
engine, client, request or task is assumed to do or finish anything.

`AcceptedSettles` holds although graceful shutdowns give a task back without
counting: their number is bounded, as a deployment's is.

**Deadlock** is checked in every run: `Quiescent`, `Done` and `Rest` say where
everything may stop.

## Proofs

The constants' assumptions say what the code makes sure of before the modelled
part runs. Beyond types: `ResultTTL` and `Retention` are positive
(`StoreAssumption`), as are the limits and timeouts of calls and probes that
configuration, gobreaker or `Readiness` default when they are 0
(`UpstreamAssumption`, `ReadinessAssumption`), while the breaker's threshold and
the burst may be 0; only `/process` can be left without an engine, and what has
no files goes to the default (`SyncAssumption`); names, which only `<` compares,
are numbers (`RoutingAssumption`); a configuration has the fields it has
(`IsConfig`), with any integers for timeouts, and header names that the
validation's pattern accepts are equal in lower case exactly when they are equal
in canonical form (`ConfigAssumption`). No theorem assumes
that the sets of requests, calls, engines or configurations are finite. The code
makes `ResultTTL` positive itself. It does not check `tasks.retention`; with 0,
blobs never expire and asynq deletes completed tasks at once, which the models
do not cover.

| Theorem | Statement | Along |
|---|---|---|
| `TypeCorrect` | `[]TypeOK` of `AsyncTasks` | one lemma per action group |
| `ExclusiveWorkers` | `[]OneWorkerPerTask` | `Lifecycle` = `NotYetQueued` and `OneWorkerPerTask` |
| `CompletedResults` | `[]CompletedPair` | `ResultInv` adds `SaveInProgress` |
| `ResultsFrozen` | `ResultFrozen` | an action property from `Lifecycle` |
| `AnswersAreOwn`, `SlotsKeepTokens`, `TasksAreWhole` | `[]AnswerIsMine`, `[]SlotKeepsToken`, `[]NoPartialTask` | `SubmitInv` |
| `ReadsIsolated`, `FreshResultsTyped`, `SuccessStays` | `[]ReadIsolation`, `[]FreshResultTyped`, `[]SuccessIsFinal` | `ReaderInv` |
| `SourceTypes`, `CacheStaysBounded`, `LookupsAreLean`, `PinsAreVetted` | `[]TypeOK`, `[]CacheBounded`, `[]LeanLookups`, `[]AcceptedIsVetted` of `SourceCheck` | `Inv` adds `Leads`, `Truthful`, `Vetted` |
| `ExpiredGoFirst` | `EvictsExpiredFirst` | an action property from `Inv`: only `put` changes the cache |
| `ResolverImplements` | `Spec => Names!Spec` | every step is one of `NameService` or hidden, from the same `Inv` |
| `ProcessTypes`, `StopIsOrderly`, `StoreOutlivesTasks` | `[]TypeOK`, `[]OrderlyStop`, `[]TasksKeepStore` of `AppLifecycle` | `Inv` adds `Room`, `Quiet`, `Ends`, `Holds` |
| `ConfiguredPartsAgree` | `[]PartsAgree` | `Valid`: past `Load`, `Validate` has passed |
| `SyncTypes`, `EverythingLetGo`, `SpooledWhole` | `[]TypeOK`, `[]NothingHeld`, `[]SpoolExact` of `SyncConvert` | `SpoolInv`, `CallInv`, `HandlerInv`, `AllClosed` |
| `CleanBodiesAreWhole`, `OkAfterWhole` | `[]CleanSendIsWhole`, `[]OkMeansWhole` | `SendingInv` adds where each attempt is in its files |
| `PickDeterministic`, `FacadesFiltered`, `KnownTypesUsed` | `[]PickIsFirstByName`, `[]FacadeFiltered`, `[]KnownTypeUsed` | `RegistryInv`, `RoutedInv` |
| `LimiterPaces` | `[]RatePaced` | `PaceInv` = `CallTypes`, `Promises`, `Budget` |
| `BreakerOpensOnFailures` | `OpensOnFailures` | `BreakerInv`, with `Counted` |
| `RecordsAreTrue` | `[]LogTellsTruth` | `ChainInv` adds `Agreement`, `Unrecorded` |
| `ReadinessIsTrue` | `[]ReadinessTellsTruth` | `ReadyInv` adds `ProbesSound`, `ReadyAnswers` |

None of the properties is inductive alone. A worker exclusive now could be
joined by a second one if a task were created while leased: `NotYetQueued`
rules it out. `CompletedPair` follows from what a worker has saved so far,
which `SaveInProgress` relates to the answer in its hands; it needs
`OneWorkerPerTask`, or another worker could overwrite the body in between.
`SlotKeepsToken` needs that a slot names a submission made under it whose token
expires no later than the slot (`SlotSound`, `TokenExpiry`) and that a token
handed out is never written again (`AnswerSettled`). `ReadIsolation` needs that
a binding carries the fingerprint of its own submit (`TokenSound`) and that
what a reader carries between round trips stays true (`ReaderHolds`).

For the resolver, a query is alone because whoever runs the function of a host
holds its key (`Leads`), and needed because nobody else can then fill the cache
for that host. That cached entries repeat DNS and that what a function returns
has not expired (`Truthful`) is what the types and the refinement rest on; it
uses that a result is handed over within the instant it is returned, which
`Tick` states. `CacheBounded` is an argument on cardinalities: `put` removes
before it adds. Pins are vetted one by one (`Vetted`), with a lemma that
`classifyIP` finds no reason only for an address in no range.

For the process, `errCh` has room because server and worker still to report
count towards its two places (`Room`); a request can only be cut off by the end
of the process (`Ends`); and a task that was not taken behind the shutdown is
held by a worker that is running or being drained, before the store is closed
(`Holds`). `PartsAgree` is about any configuration: the lemmas compare, field by
field, what `ApplyMulti` stamps on a mount with what an adapter stamps
(`StampsOf`), and `acceptedFacades` with the adapters' own tables
(`FacadeTables`).

For a synchronous request, that nothing is held at the end needs to know who
closes what: a response is open only in the attempt being made, and the handler
closes it on the way to a second one (`HandlerInv`); spools are open only for
files of the upload (`SpoolInv`), and its last step closes them (`AllClosed`);
the call of an attempt waits for its attempt (`CallInv`). What a body carries is followed chunk by
chunk: what the producer has written and the transport taken is the files up to
the producer's place, in order (`ProducerAt`, `SenderAt`). The argument lasts as
long as an attempt alone moves the offset of its file (`Owns`), which the
rewind ends: hence `~mixed`, and hence the finding `half_send`.

For routing, each pass of the insertion sort moves one name down
(`RegistryInv`: names are visited once, and the ones passed are ascending), so
that the order of the visits is forgotten; the pick, a minimum by phase and
place, is then a minimum by phase and name (`PickShape`).

For the limiter, tokens below zero are promised: each waiting call has a moment
of its own, none after `last`, and the debt is paid by then (`Promises`). What
was sent since any send, what may be sent now and what is free together stay
within the burst and the time passed (`Budget`); cancelling keeps both because a
token is given back only behind all promises. For the breaker, `brk.fail` never
exceeds the calls of its generation that ended as failures, the limiter's
included (`Counted`); calls of
older generations are not counted, and the calls begun are always finitely many.

For the chain, every layer's writer agrees with the wire until a header comes
late or an interim one passes (`Agreement`), and nothing is on record before the
end (`Unrecorded`). For readiness, a probe's result is what its engine does, the
context's end, or for want of a token marked as such (`ProbesSound`), and the answer is written from the results
(`ReadyAnswers`). When the timeout strikes, a group that holds all probes has
started every one of them: the first one left queued could have started.

Only model-checked, being beyond the prover: liveness under fairness
(`AcceptedSettles`, `SubmitAnswered`, `CallsAnswered`, `ProducersUnwind`,
`ResolveEnds`, `HalfOpenLeaves`, `CallsReturn`, `RequestsEnd`, `StopEnds`), and
the four violations.

## Findings

Each is a run that ends with a violation of what the documentation or a comment
says:

1. `WorkRunsOnce`: the slot is reserved after the task is queued and the loser's
   task is left in the queue. Two concurrent submits get one token, and the
   engine runs twice; `README.md` and a comment in `async.go` say once.
2. `NeverHalfSend`: a producer or transport of the first attempt may read a
   spool after it was rewound; the fallback engine then gets a complete request
   without that chunk.
3. `FacadeRespected`: the docling and the asynchronous handler drop the pick's
   error and keep the default engine, whether or not it serves the facade;
   `docs/ARCHITECTURE.md` says the request gets a 400.
4. `LimiterSparesBreaker`: the limiter waits inside `Execute`, so that waits that
   fail open the breaker; `ratelimited.go` says they do not count.

Further disagreements, met while modelling, that the modules reproduce (or, for
what they abstract from, leave out) and no run is spent on.

Tasks:

- An archived task (retries used up) is reported as `success`
  (`orchestrator.go:437`); `README.md` says it is "marked failed".
- The idempotency slot's TTL starts after the token's, so that for a moment a
  retry can be handed a token that is gone (`RecordIdempotent`'s comment says
  the windows match).
- A completed task can be queried until its token expires, `result_ttl` after
  the submit; `README.md` says for `retention`.
- `Result` may serve a body under a content type that was not stored with it,
  when its second GET fails or a retry has written one of the two.

Conversions:

- `*/*` in an allowlist matches nothing: `compilePatterns` recognises its suffix
  `/*` first.
- A sniff of `text/plain` is adopted before the extension is looked at
  (`detect.go:218`); `Resolve`'s comment says `.csv` wins. `KnownTypeUsed` leaves
  the case out.
- An adapter's context is cancelled before a streamed body is copied, which may
  cut it (`Delivered`, `external.go:64`).
- tika and external let the transport close the spool, so that the rewind fails
  and there is no fallback; `README.md` announces one. `fallback.max_attempts`
  is never read.
- A call that the limiter or an open breaker refuses leaves docling's producer on
  a pipe nobody reads or closes (`ratelimited.go:31`, `docling.go:207`); a
  comment at `docling.go:158-165` and a test say that no early return may.
  `ProducersUnwind` leaves these calls out.
- `External`'s 413 cannot be reached: `BodyLimit` has the same cap, and its
  reader's error becomes a 400.

Upstream and server:

- Passthrough mounts use the transport below limiter, breaker and
  instrumentation; `ratelimited.go:9-10` and `client.go:151` say every outbound
  request is gated.
- `ResponseHeaderTimeout` defaults to 30 s, which makes the case of the comment
  on `WithDeadline` in `client.go` unreachable.
- `security.ssrf.blocked_cidrs` is validated and never passed to the resolver.
- Requests refused by the global limiter and requests that panic leave no access
  log line; `logging.go:288` says every completed request does.
- An engine that is up is reported as unhealthy when conversions have taken the
  tokens its probe needs (`ProbeThrottled`).
- A 1xx of an engine uses up `writeOnce`: the final status is then not recorded
  (`interim` in `LogTellsTruth`); `logging.go:388` says the first final one is.
- `Recover` swallows `http.ErrAbortHandler`, so that a passthrough body that was
  cut ends like a whole one.
- With `max_parallel` below the number of probes, an engine that hangs and is
  not required makes the probes behind it fail (`health.go:94`); hence the
  condition in `HealthyIsReported`.

Process and configuration:

- `-validate` promises a configuration that is "safe to roll" (`main.go:55`);
  `FailsBeforeStore` and `FailsBehindStore` are what it does not see: the tracing
  exporter, the Redis URL, client TLS files, and then trusted proxies and the
  client CA, whose failure leaves the orchestrator's clients to the process's
  end.
- `remapKeys` lower-cases the first letter only, so that defaults of multi-word
  keys do not reach the loaded configuration: `request_timeout` and
  `write_timeout` of the server are 0 unless set, and `validateTimeoutHierarchy`
  then checks nothing. It also does not count the fallback's second call.
- A negative `request_timeout` of an engine passes `Load`; the client then takes
  its default of 120 s, which nothing has compared with the server's
  (`TimeoutsNest` is about the others).
- `applyEngineDefaults` replaces the whole breaker block when `max_requests` is
  0; if only that is set, the threshold stays 0.
- `acceptedFacades` says the adapters use the same table; theirs is written down
  again (`FacadesServed` shows that they agree).
- A worker whose goroutine comes late starts behind the shutdown
  (`TasksKeepStore`'s exception), and a subsystem's failure ends the process
  with code 0.

## Not modelled, and the plan

What is left out, and why: the queue depth poller, the fields of log lines,
metric vectors and spans (nothing reads them); the option dictionaries and
response shapes of the adapters, header rewriting of the reverse proxy, and the
masking in full captures (data that no property tells apart); koanf's merge of
defaults, YAML and environment and the struct tags (libraries); how a temporary
file is unlinked (`spool_linux.go`).

Next: the life of one task as an abstract specification (submitted, running,
settled, read) that `AsyncTasks` is shown to implement, first with TLC and then
by proof from `Lifecycle`, `ResultInv` and `SubmitInv`.
