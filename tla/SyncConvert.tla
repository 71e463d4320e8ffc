---------------------------- MODULE SyncConvert ----------------------------
(***************************************************************************)
(* One synchronous request: Convert.handle (file and source mode) and      *)
(* External.Process spool the upload, call an engine and, when that fails, *)
(* may rewind the spools and call the default engine.  A call runs in up   *)
(* to three goroutines: the handler, the docling adapter's producer, which *)
(* copies spools into a pipe, and net/http's transport, which reads the    *)
(* request body and closes it, possibly after the call has returned.       *)
(* Attempt 1 is the engine that was picked, attempt 2 the fallback.        *)
(*                                                                         *)
(* A file is a number of chunks, one per read.  Statuses are kept by class.*)
(***************************************************************************)
EXTENDS Naturals, Sequences, FiniteSets, Spool

CONSTANTS
    Requests,   \* requests with the configuration they meet (bounded)
    MaxFiles,   \* files of an upload (bound)
    Threshold   \* spool.ThresholdDefault, in chunks

Attempts == {1, 2}
Adapters == {"docling", "tika", "external"}

\* mode:     "file", "source" or "process"
\* sizes:    the chunks of each file
\* limit:    server.max_body_bytes as "process" meets it: the cap of the body,
\*           and of its spool; 0 for none.  A file part has no cap of its own
\*           (maxFilePartBytes), and a multipart body over the limit is a
\*           broken part
\* engine:   the adapter picked, "none" when no engine answers the facade
\* default:  the adapter of the default engine
\* isDefault: the engine picked is the default one
\* fallback: routing.fallback.enabled
ASSUME SyncAssumption ==
    /\ MaxFiles \in Nat /\ Threshold \in Nat
    /\ \A q \in Requests :
          /\ q.mode \in {"file", "source", "process"}
          /\ q.sizes \in Seq(Nat) /\ Len(q.sizes) <= MaxFiles
          /\ q.limit \in Nat /\ (q.mode # "process" => q.limit = 0)
          /\ q.engine \in Adapters \cup {"none"}
          /\ q.default \in Adapters
          /\ q.isDefault \in BOOLEAN /\ q.fallback \in BOOLEAN
          /\ q.engine = "none" => q.mode = "process"
          /\ q.mode = "source" => q.sizes = <<>>
          /\ q.sizes = <<>> => q.isDefault

VARIABLES
    req,      \* the request
    hstep,    \* the handler: "parts", "call", "rewind", "answer", "done"
    att,      \* the attempt being made
    spool,    \* spool.Reader of a file: "none", "open", "closed", or "refused"
              \* when Part returned an error
    size,     \* what the spool holds
    off,      \* its offset
    rewound,  \* files that rewindFiles has rewound
    prod,     \* producer: "none", "put", "read" or "ended"
    hand,     \* what it writes next: <<file, chunk>>, chunk 0 for the part's
              \* header; or Closing
    pipe,     \* "open", "eof" or "error" (closed by the producer), "shut"
              \* (closed by the reader)
    wire,     \* transport: "idle", "sending", "clean" (the engine has a
              \* complete body) or "aborted"
    call,     \* the file whose call is made (tika, external)
    got,      \* chunks the engine received
    result,   \* what Convert returned
    rbody,    \* upstream response body: "none", "open" or "closed"
    mixed,    \* attempt 1 has read a file that was rewound for attempt 2
    answer    \* what the client received

handlerVars == <<req, hstep, att, rewound, answer>>
spoolVars   == <<spool, size, off>>
callVars    == <<prod, hand, pipe, wire, call, got, result, rbody>>
vars        == <<handlerVars, spoolVars, callVars, mixed>>

Closing  == <<0, 0>>    \* form fields and the closing boundary
Pending  == [status |-> "none", body |-> "none"]
Failed   == [status |-> "err", body |-> "none"]
Refused  == [status |-> "err", body |-> "refused"]    \* gobreaker.ErrOpenState
Throttled == [status |-> "err", body |-> "throttled"] \* Limiter.Wait's error
NoAnswer == Pending

Files == DOMAIN req.sizes

\* The adapter an attempt goes to.
Adapter(a) == IF a = 1 THEN req.engine ELSE req.default

\* convertFile feeds the body through a pipe; convertSource, and the answer
\* of an adapter that makes no call, need no upload.
Piped(a) == Adapter(a) = "docling" /\ req.mode # "source"

\* Convert has returned and its deferred cancel() has run.
Returned(a) == result[a] # Pending

-----------------------------------------------------------------------------
(* Spools *)

Closed(fs) == [f \in DOMAIN spool |->
                  IF f \in fs /\ spool[f] = "open" THEN "closed" ELSE spool[f]]

\* cleanup(): every spool that was opened.
cleanup == spool' = Closed(DOMAIN spool)

\* Attempt a reads file f; attempt 1 should be over once the file is rewound.
NoteReader(a, f) == mixed' = (mixed \/ (a = 1 /\ f \in rewound))

-----------------------------------------------------------------------------
(* Reading the request *)

\* The next part, as spool.Part stores or refuses it.
Arrived(f) ==
    /\ hstep = "parts"
    /\ f \in Files /\ spool[f] = "none"
    /\ \A g \in Files : g < f => spool[g] = "open"

Stored(f) == Part(req.sizes[f], req.limit, Threshold, req.limit)

\* A part is spooled, sniffed and rewound.
SpoolPart(f) ==
    /\ Arrived(f)
    /\ Stored(f).kind \in {"memory", "file"}
    /\ spool' = [spool EXCEPT ![f] = "open"]
    /\ size' = [size EXCEPT ![f] = Stored(f).size]
    /\ UNCHANGED <<handlerVars, off, callVars, mixed>>

\* Part fails on a body that is over its limit.
SpoolFails(f) ==
    /\ Arrived(f)
    /\ Stored(f).kind \in {"toolarge", "error"}
    /\ hstep' = "done"
    /\ answer' = [status |-> "4xx", body |-> "whole"]
    /\ spool' = [Closed(DOMAIN spool) EXCEPT ![f] = "refused"]
    /\ UNCHANGED <<req, att, rewound, size, off, callVars, mixed>>

\* A malformed, oversized or broken part, or body, or a source refused.
BuildFails ==
    /\ hstep = "parts"
    /\ hstep' = "done"
    /\ answer' = [status |-> "4xx", body |-> "whole"]
    /\ cleanup
    /\ UNCHANGED <<req, att, rewound, size, off, callVars, mixed>>

Spooled == \A f \in Files : spool[f] = "open"

\* No engine answers the external facade: 501.
NoEngine ==
    /\ hstep = "parts" /\ Spooled
    /\ req.engine = "none"
    /\ hstep' = "done"
    /\ answer' = [status |-> "5xx", body |-> "whole"]
    /\ cleanup
    /\ UNCHANGED <<req, att, rewound, size, off, callVars, mixed>>

-----------------------------------------------------------------------------
(* An adapter's Convert *)

\* What the producer writes after it is done with file f.
NextHand(f) == IF f < Len(req.sizes) THEN <<f + 1, 0>> ELSE Closing

\* Convert begins: convertFile starts its producer.
Launch(a) ==
    /\ att' = a
    /\ hstep' = "call"
    /\ prod' = [prod EXCEPT ![a] = IF Piped(a) THEN "put" ELSE "none"]
    /\ hand' = [hand EXCEPT ![a] = NextHand(0)]
    /\ UNCHANGED <<req, pipe, wire, call, got, result>>

FirstAttempt ==
    /\ hstep = "parts" /\ Spooled
    /\ req.engine # "none"
    /\ Launch(1)
    /\ UNCHANGED <<rewound, answer, spoolVars, rbody, mixed>>

Calling(a) == att = a /\ hstep = "call" /\ ~Returned(a)

Return(a, r) ==
    /\ result' = [result EXCEPT ![a] = r]
    /\ rbody' = [rbody EXCEPT ![a] = IF r.body = "stream" THEN "open" ELSE @]

\* tika and external answer a request without files themselves.
LocalAnswer(a) ==
    /\ Calling(a)
    /\ Adapter(a) # "docling" /\ Files = {}
    /\ Return(a, [status |-> IF req.mode = "source" THEN "5xx" ELSE "4xx",
                  body |-> "memory"])
    /\ UNCHANGED <<handlerVars, spoolVars, prod, hand, pipe, wire, call, got, mixed>>

MakesCall(a) == Calling(a) /\ wire[a] = "idle" /\ (Adapter(a) = "docling" \/ Files # {})

\* Mutant of RequestFails: the pipe is left to the producer.
RequestFailsOpen(a) ==
    /\ MakesCall(a)
    /\ Return(a, Failed)
    /\ UNCHANGED <<handlerVars, spoolVars, prod, hand, pipe, wire, call, got, mixed>>

\* http.NewRequestWithContext refuses the target.
RequestFails(a) ==
    /\ MakesCall(a)
    /\ Return(a, Failed)
    /\ pipe' = [pipe EXCEPT ![a] = IF Piped(a) /\ pipe[a] = "open" THEN "shut" ELSE pipe[a]]
    /\ UNCHANGED <<handlerVars, spoolVars, prod, hand, wire, call, got, mixed>>

\* An open breaker returns without calling http.Client.Do, so that nobody
\* reads or closes the body.
BreakerRefuses(a) ==
    /\ MakesCall(a)
    /\ Return(a, Refused)
    /\ UNCHANGED <<handlerVars, spoolVars, prod, hand, pipe, wire, call, got, mixed>>

\* RateLimitedTransport returns Wait's error before the transport under it has
\* seen the request: again nobody reads or closes the body.
LimiterRefuses(a) ==
    /\ MakesCall(a)
    /\ Return(a, Throttled)
    /\ UNCHANGED <<handlerVars, spoolVars, prod, hand, pipe, wire, call, got, mixed>>

\* http.Client.Do, through to http.Transport.
Do(a) ==
    /\ MakesCall(a)
    /\ wire' = [wire EXCEPT ![a] = "sending"]
    /\ UNCHANGED <<handlerVars, spoolVars, prod, hand, pipe, call, got, result, rbody, mixed>>

\* The engine's answer.  It may come before the body is complete, but an
\* engine does not succeed on part of one (external).
MayReply(a, s) ==
    /\ Calling(a)
    /\ wire[a] # "idle"
    /\ s = "ok" => wire[a] = "clean"

\* Mutant of MoreFiles: the loop stops one file early.
MoreFilesShort(a, s) == Adapter(a) # "docling" /\ s = "ok" /\ call[a] + 1 < Len(req.sizes)

\* The loop over the files has another turn.
MoreFiles(a, s) == Adapter(a) # "docling" /\ s = "ok" /\ call[a] < Len(req.sizes)

\* The loops of tika.Convert and external.callBatched: one call per file.
NextFile(a) ==
    /\ MayReply(a, "ok")
    /\ MoreFiles(a, "ok")
    /\ call' = [call EXCEPT ![a] = @ + 1]
    /\ wire' = [wire EXCEPT ![a] = "idle"]
    /\ UNCHANGED <<handlerVars, spoolVars, prod, hand, pipe, got, result, rbody, mixed>>

\* How the response's body comes back: docling reads JSON into memory and
\* hands on the rest, tika always builds its own, external builds one for
\* several files and otherwise hands on what it got.
BodyKinds(a, s) ==
    CASE Adapter(a) = "docling" -> {"memory", "stream"}
      [] Adapter(a) = "tika" -> {"memory"}
      [] Adapter(a) = "external" ->
            IF Len(req.sizes) > 1 /\ s = "ok" THEN {"memory"} ELSE {"stream"}

EngineReplies(a, s) ==
    /\ MayReply(a, s)
    /\ ~MoreFiles(a, s)
    /\ \E b \in BodyKinds(a, s) : Return(a, [status |-> s, body |-> b])
    /\ UNCHANGED <<handlerVars, spoolVars, prod, hand, pipe, wire, call, got, mixed>>

\* Mutant of DoFails: the engine's request_timeout is not put on the context.
DoFailsNoDeadline(a) ==
    /\ Calling(a)
    /\ wire[a] = "sending"
    /\ Return(a, Failed)
    /\ UNCHANGED <<handlerVars, spoolVars, prod, hand, pipe, wire, call, got, mixed>>

\* The connection breaks, an answer cannot be read or decoded, or WithDeadline's
\* deadline ends the call.
DoFails(a) ==
    /\ Calling(a)
    /\ wire[a] # "idle"
    /\ Return(a, Failed)
    /\ UNCHANGED <<handlerVars, spoolVars, prod, hand, pipe, wire, call, got, mixed>>

-----------------------------------------------------------------------------
(* convertFile's producer goroutine *)

\* Mutant of ReadFails: the error of io.Copy ends the producer but not the
\* pipe with it.
ReadFailsQuietly(a) ==
    /\ prod[a] = "read" /\ spool[hand[a][1]] = "closed"
    /\ prod' = [prod EXCEPT ![a] = "ended"]
    /\ pipe' = [pipe EXCEPT ![a] = IF @ = "open" THEN "eof" ELSE @]
    /\ NoteReader(a, hand[a][1])
    /\ UNCHANGED <<handlerVars, spoolVars, hand, wire, call, got, result, rbody>>

\* A closed spool: pw.CloseWithError.
ReadFails(a) ==
    /\ prod[a] = "read" /\ spool[hand[a][1]] = "closed"
    /\ prod' = [prod EXCEPT ![a] = "ended"]
    /\ pipe' = [pipe EXCEPT ![a] = IF @ = "open" THEN "error" ELSE @]
    /\ NoteReader(a, hand[a][1])
    /\ UNCHANGED <<handlerVars, spoolVars, hand, wire, call, got, result, rbody>>

\* Mutant of Read: the end of the file is noticed one read late.
ReadPastEnd(a) ==
    LET f == hand[a][1]
    IN  /\ prod[a] = "read" /\ spool[f] = "open"
        /\ IF off[f] <= size[f]
           THEN /\ off' = [off EXCEPT ![f] = @ + 1]
                /\ hand' = [hand EXCEPT ![a] = <<f, off[f] + 1>>]
           ELSE /\ hand' = [hand EXCEPT ![a] = NextHand(f)]
                /\ UNCHANGED off
        /\ prod' = [prod EXCEPT ![a] = "put"]
        /\ NoteReader(a, f)
        /\ UNCHANGED <<handlerVars, spool, size, pipe, wire, call, got, result, rbody>>

\* io.Copy's Read: a chunk, or the end of the file.
Read(a) ==
    LET f == hand[a][1]
    IN  /\ prod[a] = "read" /\ spool[f] = "open"
        /\ IF off[f] < size[f]
           THEN /\ off' = [off EXCEPT ![f] = @ + 1]
                /\ hand' = [hand EXCEPT ![a] = <<f, off[f] + 1>>]
           ELSE /\ hand' = [hand EXCEPT ![a] = NextHand(f)]
                /\ UNCHANGED off
        /\ prod' = [prod EXCEPT ![a] = "put"]
        /\ NoteReader(a, f)
        /\ UNCHANGED <<handlerVars, spool, size, pipe, wire, call, got, result, rbody>>

\* A write to a pipe whose reader has closed it fails.
WriteFails(a) ==
    /\ prod[a] = "put" /\ pipe[a] = "shut"
    /\ prod' = [prod EXCEPT ![a] = "ended"]
    /\ UNCHANGED <<handlerVars, spoolVars, hand, pipe, wire, call, got, result, rbody, mixed>>

-----------------------------------------------------------------------------
(* The transport's write loop (external: net/http) *)

\* A read of the pipe lets the producer's write return.
TakeFromPipe(a) ==
    /\ wire[a] = "sending" /\ Piped(a)
    /\ prod[a] = "put" /\ pipe[a] = "open"
    /\ got' = [got EXCEPT ![a] = IF hand[a][2] = 0 THEN @ ELSE Append(@, hand[a])]
    /\ IF hand[a] = Closing
       THEN /\ prod' = [prod EXCEPT ![a] = "ended"]
            /\ pipe' = [pipe EXCEPT ![a] = "eof"]
       ELSE /\ prod' = [prod EXCEPT ![a] = "read"]
            /\ UNCHANGED pipe
    /\ UNCHANGED <<handlerVars, spoolVars, hand, wire, call, result, rbody, mixed>>

\* The pipe's end completes the body, its error breaks it off.
PipeEnds(a) ==
    /\ wire[a] = "sending" /\ Piped(a)
    /\ pipe[a] \in {"eof", "error"}
    /\ wire' = [wire EXCEPT ![a] = IF pipe[a] = "eof" THEN "clean" ELSE "aborted"]
    /\ UNCHANGED <<handlerVars, spoolVars, prod, hand, pipe, call, got, result, rbody, mixed>>

\* tika and external pass the spool itself as the body: the transport reads
\* it and closes it at its end.
SendFile(a) ==
    LET f == call[a]
    IN  /\ wire[a] = "sending" /\ Adapter(a) # "docling"
        /\ \/ /\ spool[f] = "open" /\ off[f] < size[f]
              /\ off' = [off EXCEPT ![f] = @ + 1]
              /\ got' = [got EXCEPT ![a] = Append(@, <<f, off[f] + 1>>)]
              /\ UNCHANGED <<spool, wire>>
           \/ /\ spool[f] = "open" /\ off[f] = size[f]
              /\ wire' = [wire EXCEPT ![a] = "clean"]
              /\ spool' = Closed({f})
              /\ UNCHANGED <<off, got>>
           \/ /\ spool[f] = "closed"
              /\ wire' = [wire EXCEPT ![a] = "aborted"]
              /\ UNCHANGED <<spool, off, got>>
        /\ NoteReader(a, f)
        /\ UNCHANGED <<handlerVars, size, prod, hand, pipe, call, result, rbody>>

\* convertSource's body is in memory.
SendSource(a) ==
    /\ wire[a] = "sending" /\ Adapter(a) = "docling" /\ ~Piped(a)
    /\ wire' = [wire EXCEPT ![a] = "clean"]
    /\ UNCHANGED <<handlerVars, spoolVars, prod, hand, pipe, call, got, result, rbody, mixed>>

\* The transport gives the body up and closes it: the connection is broken,
\* or the call is over.
Abandon(a) ==
    /\ wire[a] = "sending"
    /\ wire' = [wire EXCEPT ![a] = "aborted"]
    /\ pipe' = [pipe EXCEPT ![a] = IF Piped(a) /\ @ = "open" THEN "shut" ELSE @]
    /\ spool' = IF Adapter(a) = "docling" THEN spool ELSE Closed({call[a]})
    /\ UNCHANGED <<handlerVars, size, off, prod, hand, call, got, result, rbody, mixed>>

-----------------------------------------------------------------------------
(* The handler after the call *)

fallbackEligible(r) == r.status \in {"err", "5xx"}

WantsFallback ==
    /\ att = 1 /\ req.mode = "file"
    /\ req.fallback /\ fallbackEligible(result[1]) /\ ~req.isDefault

ConvertReturns ==
    /\ hstep = "call" /\ Returned(att)
    /\ hstep' = IF WantsFallback THEN "rewind" ELSE "answer"
    /\ UNCHANGED <<req, att, rewound, answer, spoolVars, callVars, mixed>>

\* One turn of rewindFiles' loop: Seek fails on a closed spool.
Rewind(f) ==
    /\ hstep = "rewind"
    /\ f \in Files \ rewound /\ \A g \in Files : g < f => g \in rewound
    /\ IF spool[f] = "open"
       THEN /\ off' = [off EXCEPT ![f] = 0]
            /\ rewound' = rewound \cup {f}
            /\ UNCHANGED hstep
       ELSE /\ hstep' = "answer"
            /\ UNCHANGED <<off, rewound>>
    /\ UNCHANGED <<req, att, answer, spool, size, callVars, mixed>>

\* Mutant of StartFallback: the first response's body is left open.
StartFallbackHolding ==
    /\ hstep = "rewind" /\ rewound = Files
    /\ Launch(2)
    /\ UNCHANGED <<rewound, answer, spoolVars, rbody, mixed>>

\* The first response is closed and the default engine called.
StartFallback ==
    /\ hstep = "rewind" /\ rewound = Files
    /\ rbody' = [rbody EXCEPT ![1] = "closed"]
    /\ Launch(2)
    /\ UNCHANGED <<rewound, answer, spoolVars, mixed>>

\* What io.Copy can deliver: Convert's cancel() has run before a streamed body
\* is read, so that it may end early.
Delivered(r) == IF r.body = "stream" THEN {"whole", "cut"} ELSE {"whole"}

\* The answer is written; the deferred calls close body and spools.
Answer ==
    /\ hstep = "answer"
    /\ hstep' = "done"
    /\ \E b \in Delivered(result[att]) :
          answer' = [status |-> IF result[att].status = "err" THEN "5xx" ELSE result[att].status,
                     body |-> b]
    /\ rbody' = [rbody EXCEPT ![att] = "closed"]
    /\ cleanup
    /\ UNCHANGED <<req, att, rewound, size, off, prod, hand, pipe, wire, call, got, result, mixed>>

-----------------------------------------------------------------------------
Init ==
    /\ req \in Requests
    /\ hstep = "parts"
    /\ att = 0
    /\ spool = [f \in 1..MaxFiles |-> "none"]
    /\ size = [f \in 1..MaxFiles |-> 0]
    /\ off = [f \in 1..MaxFiles |-> 0]
    /\ rewound = {}
    /\ prod = [a \in Attempts |-> "none"]
    /\ hand = [a \in Attempts |-> Closing]
    /\ pipe = [a \in Attempts |-> "open"]
    /\ wire = [a \in Attempts |-> "idle"]
    /\ call = [a \in Attempts |-> 1]
    /\ got = [a \in Attempts |-> <<>>]
    /\ result = [a \in Attempts |-> Pending]
    /\ rbody = [a \in Attempts |-> "none"]
    /\ mixed = FALSE
    /\ answer = NoAnswer

HandlerStep ==
    \/ NoEngine \/ FirstAttempt \/ ConvertReturns
    \/ \E f \in 1..MaxFiles : Rewind(f)
    \/ StartFallback \/ Answer

AdapterStep(a) ==
    \/ LocalAnswer(a) \/ RequestFails(a) \/ BreakerRefuses(a) \/ LimiterRefuses(a)
    \/ Do(a) \/ NextFile(a)

ProducerStep(a) == ReadFails(a) \/ Read(a) \/ WriteFails(a)

TransportStep(a) ==
    TakeFromPipe(a) \/ PipeEnds(a) \/ SendFile(a) \/ SendSource(a) \/ Abandon(a)

\* The handler is through; a producer may be left behind a refused call.
Finished == hstep = "done" /\ \A a \in Attempts : wire[a] # "sending" /\ prod[a] # "read"

Next ==
    \/ \E f \in 1..MaxFiles : SpoolPart(f) \/ SpoolFails(f)
    \/ BuildFails
    \/ HandlerStep
    \/ \E a \in Attempts :
          \/ AdapterStep(a) \/ DoFails(a) \/ ProducerStep(a) \/ TransportStep(a)
          \/ \E s \in {"ok", "4xx", "5xx"} : EngineReplies(a, s)
    \/ Finished /\ UNCHANGED vars

Spec == Init /\ [][Next]_vars

\* Goroutines are scheduled, a call's deadline ends it, and http.Transport lets
\* go of the body of a call that is over, if it was given it ("sending").
Fairness ==
    /\ WF_vars(HandlerStep)
    /\ \A a \in Attempts :
          /\ WF_vars(AdapterStep(a))
          /\ WF_vars(DoFails(a))
          /\ WF_vars(ProducerStep(a))
          /\ WF_vars(Returned(a) /\ Abandon(a))

FairSpec == Spec /\ Fairness

-----------------------------------------------------------------------------
(* Properties *)

\* Types; a spool is never read past its end and a producer reads a file there is.
TypeOK ==
    /\ hstep \in {"parts", "call", "rewind", "answer", "done"}
    /\ att \in {0, 1, 2}
    /\ spool \in [1..MaxFiles -> {"none", "open", "closed", "refused"}]
    /\ size \in [1..MaxFiles -> Nat] /\ off \in [1..MaxFiles -> Nat]
    /\ \A f \in 1..MaxFiles : spool[f] # "none" => f \in Files /\ off[f] <= size[f]
    /\ rewound \subseteq Files
    /\ prod \in [Attempts -> {"none", "put", "read", "ended"}]
    /\ pipe \in [Attempts -> {"open", "eof", "error", "shut"}]
    /\ wire \in [Attempts -> {"idle", "sending", "clean", "aborted"}]
    /\ \A a \in Attempts : prod[a] = "read" => hand[a][1] \in Files
    /\ \A a \in Attempts : result[a].status \in {"none", "err", "ok", "4xx", "5xx"}
    /\ rbody \in [Attempts -> {"none", "open", "closed"}]
    /\ mixed \in BOOLEAN

\* The files a complete body of attempt a has to contain.
Expected(a) == IF Adapter(a) = "docling" THEN Files ELSE 1..call[a]

\* The chunks of these files, and the order in which they are to be sent.
Chunks(fs) == UNION {{<<f, k>> : k \in 1..req.sizes[f]} : f \in fs}
Precedes(c, d) == c[1] < d[1] \/ (c[1] = d[1] /\ c[2] < d[2])

\* The engine of attempt a has the chunks of these files and nothing else, each
\* once and in order.
Whole(a) ==
    /\ {got[a][i] : i \in DOMAIN got[a]} = Chunks(Expected(a))
    /\ \A i, j \in DOMAIN got[a] : i < j => Precedes(got[a][i], got[a][j])

\* A body that reaches its engine with a proper end has all of the upload,
\* whatever is closed or rewound meanwhile, unless the first attempt goes on
\* reading a file after rewindFiles.
CleanSendIsWhole ==
    ~mixed => \A a \in Attempts : wire[a] = "clean" => Whole(a)

\* Once the client is answered the request holds no spool and no upstream
\* response, on every path out of the handler.
NothingHeld ==
    hstep = "done" =>
        /\ \A f \in Files : spool[f] # "open"
        /\ \A a \in Attempts : rbody[a] # "open"

\* The client hears "ok" only of an engine that had the whole upload, and
\* then from the last attempt.
OkMeansWhole ==
    answer.status = "ok" /\ ~mixed =>
        wire[att] = "clean" /\ Whole(att) /\ Expected(att) = Files

\* A body is spooled whole or refused: one of exactly the limit passes, one
\* chunk more does not, on either side of the threshold.
SpoolExact ==
    \A f \in Files :
        /\ spool[f] \in {"open", "closed"} =>
              size[f] = req.sizes[f] /\ (req.limit > 0 => size[f] <= req.limit)
        /\ spool[f] = "refused" => req.limit > 0 /\ req.sizes[f] > req.limit

\* Every call returns and is answered (C-1: the deadline of WithDeadline).
CallsAnswered == hstep = "call" ~> hstep = "done"

\* A producer ends, whether its call fails before it is made, breaks, is answered
\* early or runs into its deadline, and whatever became of the spools.  Nothing
\* is claimed of a call that breaker or limiter kept from the transport: nobody
\* closes its body, and a docling producer is left on the pipe.
ProducersUnwind ==
    \A a \in Attempts :
        prod[a] # "none" ~> prod[a] = "ended" \/ result[a] \in {Refused, Throttled}

-----------------------------------------------------------------------------
(* What comments and documentation say and the code does not do *)

\* fallback.go: "so we never half-send a partially-consumed body to the
\* fallback engine".
NeverHalfSend == wire[2] = "clean" => Whole(2)

=============================================================================
