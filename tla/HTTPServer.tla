---------------------------- MODULE HTTPServer -----------------------------
(***************************************************************************)
(* The router of NewRouter: requests pass Recover, RequestID, the global   *)
(* rate limit, BodyLimit, AccessLog, Metrics and FullCapture, then reach   *)
(* a health endpoint or, behind Timeout and APIKey, a facade or an         *)
(* engine's passthrough mount.  Each observing layer wraps the response    *)
(* writer of the one outside it; what it records must be what the client   *)
(* was sent.                                                               *)
(*                                                                         *)
(* A facade is any handler that writes headers and bodies, panics or       *)
(* returns (SyncConvert and AsyncTasks are about what it does).            *)
(***************************************************************************)
EXTENDS Readiness

CONSTANTS
    Requests,
    Arrivals,   \* sets of inputs, one per behaviour: [Requests -> inputs]
    Settings,   \* configurations of the chain
    Burst,      \* rate_limit_global.burst; 0: no limiter
    Statuses    \* final statuses a handler or an engine may choose

\* RouterDeps and FullCaptureConfig as the chain uses them.
SettingType ==
    [auth : BOOLEAN, keys : BOOLEAN, capture : BOOLEAN, timeout : BOOLEAN,
     deadlines : BOOLEAN,   \* both read_timeout and write_timeout are set
     muted : SUBSET {"health", "readyz", "facade", "pass", "none"}]

ASSUME ServerAssumption ==
    /\ Settings \subseteq SettingType
    /\ Burst \in Nat
    /\ Statuses \subseteq 200..599

VARIABLES
    cfg,      \* the chain's settings
    in,       \* each request's input: route, key, whether its path is clean and
              \* whether its client may stall
    client,   \* "moving", "stalled", "moved" again, or "cut" off
    stage,    \* "new", "in", "returned" or "done"
    w,        \* the writers: what each layer has recorded, and the wire
    late,     \* the handler wrote a header after its answer had begun
    interim,  \* an engine's 1xx was passed on
    head,     \* the engine's final header was passed on
    expired,  \* Timeout's context has ended
    rec,      \* what was put on record about the request
    tokens    \* of the global limiter

requestVars == <<stage, w, late, interim, head, expired, rec>>
vars == <<cfg, in, client, requestVars, tokens, readyVars>>

\* The status of a header that was not written.
Unset == 0

\* Routes behind Timeout and APIKey.
Grouped == {"facade", "pass"}

-----------------------------------------------------------------------------
(* Response writers, from the wire inwards *)

IsInterim(s) == s < 200

\* net/http: one final header, after any number of interim ones.
NetHeader(x, s) == IF x.wire # Unset \/ IsInterim(s) THEN x ELSE [x EXCEPT !.wire = s]
NetWrite(x) == NetHeader(x, 200)

\* A responseWriter is the status of the header that used up its writeOnce.
\* WriteHeader takes the first one,
NoteHeader(n, s) == IF n = Unset THEN s ELSE n

\* Mutant of NoteWrite: the implicit header does not use up writeOnce.
NoteWriteOpen(n) == n

\* and Write's implicit 200 is a header like another.
NoteWrite(n) == IF n = Unset THEN 200 ELSE n

\* Its status field: the constructor's 200 until there is a header.
Status(n) == IF n = Unset THEN 200 ELSE n

\* The responseWriter of AccessLog,
AccHeader(x, s) ==
    IF x.acc # Unset THEN x ELSE NetHeader([x EXCEPT !.acc = NoteHeader(@, s)], s)
AccWrite(x) == NetWrite([x EXCEPT !.acc = NoteWrite(@)])

\* and that of Metrics around it.
MetHeader(x, s) ==
    IF x.met # Unset THEN x ELSE AccHeader([x EXCEPT !.met = NoteHeader(@, s)], s)
MetWrite(x) == AccWrite([x EXCEPT !.met = NoteWrite(@)])

\* captureResponseWriter, around both: the last header is the one it keeps.
CapHeader(x, s) ==
    MetHeader(IF cfg.capture THEN [x EXCEPT !.cap = s] ELSE x, s)
CapWrite(x) ==
    MetWrite(IF cfg.capture /\ x.cap = Unset THEN [x EXCEPT !.cap = 200] ELSE x)

WriteHeader(r, s) ==
    /\ w' = [w EXCEPT ![r] = CapHeader(@, s)]
    /\ late' = [late EXCEPT ![r] = @ \/ w[r].met # Unset]

\* http.Error and writeJSON: a header and a body.
Reply(r, s) ==
    /\ w' = [w EXCEPT ![r] = CapWrite(CapHeader(@, s))]
    /\ late' = [late EXCEPT ![r] = @ \/ w[r].met # Unset]

Goto(r, s) == stage' = [stage EXCEPT ![r] = s]

-----------------------------------------------------------------------------
(* The chain on the way in *)

\* GlobalRateLimit is outside AccessLog, Metrics and FullCapture.
RateLimited(r) ==
    /\ stage[r] = "new"
    /\ Burst > 0 /\ tokens = 0
    /\ w' = [w EXCEPT ![r] = NetWrite(NetHeader(@, 429))]
    /\ Goto(r, "done")
    /\ UNCHANGED <<cfg, in, client, late, interim, head, expired, rec, tokens, readyVars>>

Enter(r) ==
    /\ stage[r] = "new"
    /\ Burst > 0 => tokens > 0
    /\ tokens' = IF Burst > 0 THEN tokens - 1 ELSE tokens
    /\ Goto(r, "in")
    /\ IF in[r].route = "readyz" THEN BeginReadiness ELSE UNCHANGED readyVars
    /\ UNCHANGED <<cfg, in, client, w, late, interim, head, expired, rec>>

\* The limiter earns a token.
Refill ==
    /\ tokens < Burst
    /\ \E r \in Requests : stage[r] = "new"
    /\ tokens' = tokens + 1
    /\ UNCHANGED <<cfg, in, client, requestVars, readyVars>>

\* APIKey: a key is needed, and one of the configured ones.
KeyRefused(r) ==
    cfg.auth /\ (in[r].key = "absent" \/ ~cfg.keys \/ in[r].key # "good")

\* 404 of the mux, 401 of APIKey, 400 of RejectTraversal.
Refusal(r) ==
    CASE in[r].route = "none" -> 404
      [] in[r].route \in Grouped /\ KeyRefused(r) -> 401
      [] in[r].route = "pass" /\ ~KeyRefused(r) /\ ~in[r].clean -> 400
      [] OTHER -> Unset

Refuse(r) ==
    /\ stage[r] = "in"
    /\ Refusal(r) # Unset
    /\ Reply(r, Refusal(r))
    /\ Goto(r, "returned")
    /\ UNCHANGED <<cfg, in, client, interim, head, expired, rec, tokens, readyVars>>

\* The request is with the handler of its route, which is not blocked in a read
\* of its body or in a write of its answer.
At(r, route) ==
    /\ stage[r] = "in" /\ in[r].route = route /\ Refusal(r) = Unset
    /\ client[r] # "stalled"

-----------------------------------------------------------------------------
(* The client (external) and its connection *)

\* The client neither sends nor takes a byte; the handler is blocked on it, and
\* no context reaches it there.  One stall stands for all.
ClientStalls(r) ==
    /\ stage[r] = "in" /\ Refusal(r) = Unset
    /\ in[r].stalls /\ client[r] = "moving"
    /\ client' = [client EXCEPT ![r] = "stalled"]
    /\ UNCHANGED <<cfg, in, requestVars, tokens, readyVars>>

ClientMoves(r) ==
    /\ client[r] = "stalled"
    /\ client' = [client EXCEPT ![r] = "moved"]
    /\ UNCHANGED <<cfg, in, requestVars, tokens, readyVars>>

\* The deadlines of NewServer fail the blocked read or write.
ConnectionDeadline(r) ==
    /\ cfg.deadlines
    /\ client[r] = "stalled"
    /\ client' = [client EXCEPT ![r] = "cut"]
    /\ UNCHANGED <<cfg, in, requestVars, tokens, readyVars>>

-----------------------------------------------------------------------------
(* Handlers *)

\* Liveness, and the metrics page.
Liveness(r) ==
    /\ At(r, "health")
    /\ Reply(r, 200)
    /\ Goto(r, "returned")
    /\ UNCHANGED <<cfg, in, client, interim, head, expired, rec, tokens, readyVars>>

\* The end of Readiness.
AnswerReadiness(r) ==
    /\ At(r, "readyz") /\ Decided
    /\ Reply(r, Overall)
    /\ Goto(r, "returned")
    /\ UNCHANGED <<cfg, in, client, interim, head, expired, rec, tokens, readyVars>>

\* A facade's handler.
HandlerHeader(r, s) ==
    /\ At(r, "facade")
    /\ WriteHeader(r, s)
    /\ UNCHANGED <<cfg, in, client, stage, interim, head, expired, rec, tokens, readyVars>>

HandlerWrites(r) ==
    /\ At(r, "facade")
    /\ w' = [w EXCEPT ![r] = CapWrite(@)]
    /\ UNCHANGED <<cfg, in, client, stage, late, interim, head, expired, rec, tokens, readyVars>>

HandlerReturns(r) ==
    /\ At(r, "facade")
    /\ Goto(r, "returned")
    /\ UNCHANGED <<cfg, in, client, w, late, interim, head, expired, rec, tokens, readyVars>>

\* httputil.ReverseProxy of the engine's mount: an interim response,
PassInterim(r) ==
    /\ At(r, "pass") /\ ~head[r]
    /\ WriteHeader(r, 103)
    /\ interim' = [interim EXCEPT ![r] = TRUE]
    /\ UNCHANGED <<cfg, in, client, stage, head, expired, rec, tokens, readyVars>>

\* the final one,
PassHeader(r, s) ==
    /\ At(r, "pass") /\ ~head[r] /\ ~expired[r]
    /\ WriteHeader(r, s)
    /\ head' = [head EXCEPT ![r] = TRUE]
    /\ UNCHANGED <<cfg, in, client, stage, interim, expired, rec, tokens, readyVars>>

\* its body,
PassWrites(r) ==
    /\ At(r, "pass") /\ head[r]
    /\ w' = [w EXCEPT ![r] = CapWrite(@)]
    /\ UNCHANGED <<cfg, in, client, stage, late, interim, head, expired, rec, tokens, readyVars>>

PassReturns(r) ==
    /\ At(r, "pass") /\ head[r]
    /\ Goto(r, "returned")
    /\ UNCHANGED <<cfg, in, client, w, late, interim, head, expired, rec, tokens, readyVars>>

\* or no answer at all.
PassFails(r) ==
    /\ At(r, "pass") /\ ~head[r]
    /\ WriteHeader(r, 502)
    /\ Goto(r, "returned")
    /\ UNCHANGED <<cfg, in, client, interim, head, expired, rec, tokens, readyVars>>

\* A handler panics, ReverseProxy when a body it copies is cut: the layers in
\* between are skipped and Recover answers.
Panics(r) ==
    /\ \/ At(r, "facade")
       \/ At(r, "pass") /\ head[r]
    /\ w' = [w EXCEPT ![r] = NetWrite(NetHeader(@, 500))]
    /\ rec' = [rec EXCEPT ![r].panic = TRUE]
    /\ Goto(r, "done")
    /\ UNCHANGED <<cfg, in, client, late, interim, head, expired, tokens, readyVars>>

\* Mutant of TimeoutFires: the middleware is not put around the mounts.
TimeoutFiresFacade(r) ==
    /\ stage[r] = "in" /\ in[r].route = "facade" /\ cfg.timeout /\ ~expired[r]
    /\ expired' = [expired EXCEPT ![r] = TRUE]
    /\ UNCHANGED <<cfg, in, client, stage, w, late, interim, head, rec, tokens, readyVars>>

\* Timeout ends the context of a grouped request.
TimeoutFires(r) ==
    /\ stage[r] = "in" /\ in[r].route \in Grouped /\ cfg.timeout /\ ~expired[r]
    /\ expired' = [expired EXCEPT ![r] = TRUE]
    /\ UNCHANGED <<cfg, in, client, stage, w, late, interim, head, rec, tokens, readyVars>>

-----------------------------------------------------------------------------
(* The chain on the way out *)

\* FullCapture logs, Metrics counts, AccessLog logs unless the path is muted,
\* and net/http sends a header if nobody has.
Unwind(r) ==
    /\ stage[r] = "returned"
    /\ rec' = [rec EXCEPT ![r] =
                  [@ EXCEPT !.cap = w[r].cap, !.met = Status(w[r].met),
                            !.log = IF in[r].route \in cfg.muted THEN Unset ELSE Status(w[r].acc)]]
    /\ w' = [w EXCEPT ![r] = NetWrite(@)]
    /\ Goto(r, "done")
    /\ UNCHANGED <<cfg, in, client, late, interim, head, expired, tokens, readyVars>>

-----------------------------------------------------------------------------
\* Nobody asks for readiness: what the engines would say is left open only
\* where it matters.
Unasked == \A r \in Requests : in[r].route # "readyz"

Init ==
    /\ InitReadiness
    /\ cfg \in Settings
    /\ in \in Arrivals
    /\ Unasked =>
          /\ \A n \in ProbeNames : cond[n] = "up"
          /\ limit = (CHOOSE l \in Limits : TRUE) /\ required = (CHOOSE q \in RequiredSets : TRUE)
    /\ client = [r \in Requests |-> "moving"]
    /\ stage = [r \in Requests |-> "new"]
    /\ w = [r \in Requests |-> [wire |-> Unset, cap |-> Unset, acc |-> Unset, met |-> Unset]]
    /\ late = [r \in Requests |-> FALSE]
    /\ interim = [r \in Requests |-> FALSE]
    /\ head = [r \in Requests |-> FALSE]
    /\ expired = [r \in Requests |-> FALSE]
    /\ rec = [r \in Requests |-> [log |-> Unset, met |-> Unset, cap |-> Unset,
                                  panic |-> FALSE]]
    /\ tokens = Burst

Probes == ReadinessStep /\ UNCHANGED <<cfg, in, client, requestVars, tokens>>

Done == (\A r \in Requests : stage[r] = "done") /\ UNCHANGED vars

Next ==
    \/ \E r \in Requests :
          \/ RateLimited(r) \/ Enter(r) \/ Refuse(r)
          \/ ClientStalls(r) \/ ClientMoves(r) \/ ConnectionDeadline(r)
          \/ Liveness(r) \/ AnswerReadiness(r)
          \/ \E s \in Statuses : HandlerHeader(r, s) \/ PassHeader(r, s)
          \/ HandlerWrites(r) \/ HandlerReturns(r)
          \/ PassInterim(r) \/ PassWrites(r) \/ PassReturns(r) \/ PassFails(r)
          \/ Panics(r) \/ TimeoutFires(r) \/ Unwind(r)
    \/ Refill
    \/ Probes
    \/ Done

Spec == Init /\ [][Next]_vars

\* Handlers of the proxy's own go on, timers fire, and a call whose context or
\* connection has ended comes back, unless the handler is blocked on a client
\* (At).  Engines and clients need do nothing.
Fairness ==
    /\ \A r \in Requests :
          /\ WF_vars(Refuse(r) \/ Liveness(r) \/ AnswerReadiness(r) \/ Unwind(r))
          /\ WF_vars(TimeoutFires(r))
          /\ WF_vars(ConnectionDeadline(r))
          /\ WF_vars(expired[r] /\ (HandlerReturns(r) \/ PassFails(r) \/ Panics(r)))
    /\ WF_vars(ReadinessProgress /\ UNCHANGED <<cfg, in, client, requestVars, tokens>>)

FairSpec == Spec /\ Fairness

-----------------------------------------------------------------------------
(* Properties *)

\* The status that Metrics counts, AccessLog logs and FullCapture keeps is the
\* one the client was sent, however often and in whatever order a handler wrote
\* headers and bodies.  (Not when an engine's interim response went through a
\* mount; and FullCapture keeps a header that came too late to be sent.)
LogTellsTruth ==
    \A r \in Requests :
        stage[r] = "done" /\ rec[r].met # Unset /\ ~interim[r] =>
            /\ rec[r].met = w[r].wire
            /\ rec[r].log # Unset => rec[r].log = w[r].wire
            /\ rec[r].cap # Unset /\ ~late[r] => rec[r].cap = w[r].wire

\* /readyz says ready only when every required engine (and Redis) is up.
ReadyMeansUp ==
    \A r \in Requests :
        in[r].route = "readyz" /\ w[r].wire = 200 =>
            \A n \in required : cond[n] = "up"

\* "Errors from one engine never block another": in a group that holds all
\* probes an engine that is up is reported as unhealthy only when its own rate
\* limiter had no token for the probe, whatever the others do, unless the
\* client went away.
HealthyIsReported ==
    limit >= Len(ProbeOrder) /\ ctx # "left" =>
        \A n \in ProbeNames : cond[n] = "up" => probe[n] # "unhealthy"

\* What /readyz says of the pod and of each engine is what they are, however the
\* probes of the group end.
ReadinessTellsTruth == ReadyMeansUp /\ HealthyIsReported

\* Every request that was let in is answered: readiness in its own time, a
\* grouped request by the request timeout where one is configured.  What that
\* timeout cannot end is a handler blocked on a stalled client: there the
\* connection's deadlines do, where they are configured.
RequestsEnd ==
    \A r \in Requests :
        stage[r] = "in" /\ (cfg.timeout \/ in[r].route \notin Grouped)
            ~> stage[r] = "done" \/ (client[r] = "stalled" /\ ~cfg.deadlines)

=============================================================================
