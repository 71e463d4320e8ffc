----------------------------- MODULE Readiness -----------------------------
(***************************************************************************)
(* Health.Readiness: one probe per enabled engine and one for Redis, run   *)
(* by an errgroup of limited width under one context, and the verdict over *)
(* their results.                                                          *)
(***************************************************************************)
EXTENDS Integers, Sequences, FiniteSets

CONSTANTS
    ProbeOrder,    \* Registry.Names() in order, then "redis" if it is configured
    Throttled,     \* engines with a rate_limit, which probes wait for too
    RequiredSets,  \* values of requiredReadinessNames
    Limits         \* values of health.max_parallel

ProbeNames == {ProbeOrder[i] : i \in DOMAIN ProbeOrder}

ASSUME ReadinessAssumption ==
    /\ ProbeOrder \in Seq(ProbeNames)
    /\ Throttled \subseteq ProbeNames
    /\ RequiredSets \subseteq SUBSET ProbeNames
    /\ Limits \subseteq Nat \ {0}

VARIABLES
    cond,      \* what each engine does with a probe: "up", "down" or "hang"
    required,  \* Health.Required
    limit,     \* Health.MaxParallel
    probe,     \* "queued", "running", "ok", or unhealthy: "unhealthy" by what
               \* the engine did or did not do, "throttled" by its limiter
    probing,   \* the handler is at work
    ctx        \* "live", "timeout" or "left": the client has gone

readyVars == <<cond, required, limit, probe, probing, ctx>>

Running == {n \in ProbeNames : probe[n] = "running"}
Results == {n \in ProbeNames : probe[n] \in {"ok", "unhealthy", "throttled"}}

InitReadiness ==
    /\ cond \in [ProbeNames -> {"up", "down", "hang"}]
    /\ required \in RequiredSets
    /\ limit \in Limits
    /\ probe = [n \in ProbeNames |-> "queued"]
    /\ probing = FALSE
    /\ ctx = "live"

-----------------------------------------------------------------------------
BeginReadiness ==
    /\ ~probing
    /\ probing' = TRUE
    /\ UNCHANGED <<cond, required, limit, probe, ctx>>

\* g.Go blocks while as many goroutines run as SetLimit allows.
CanStart(i) ==
    /\ probing
    /\ probe[ProbeOrder[i]] = "queued"
    /\ \A j \in 1..(i - 1) : probe[ProbeOrder[j]] # "queued"
    /\ Cardinality(Running) < limit

StartProbe(i) ==
    /\ CanStart(i)
    /\ probe' = [probe EXCEPT ![ProbeOrder[i]] = "running"]
    /\ UNCHANGED <<cond, required, limit, probing, ctx>>

ProbeOk(n) ==
    /\ probe[n] = "running" /\ cond[n] = "up" /\ ctx = "live"
    /\ probe' = [probe EXCEPT ![n] = "ok"]
    /\ UNCHANGED <<cond, required, limit, probing, ctx>>

\* An engine's error, or the end of the context, is a result like another.
ProbeFails(n) ==
    /\ probe[n] = "running" /\ (cond[n] = "down" \/ ctx # "live")
    /\ probe' = [probe EXCEPT ![n] = "unhealthy"]
    /\ UNCHANGED <<cond, required, limit, probing, ctx>>

\* Health goes through the engine's RateLimitedTransport: conversions may have
\* taken its tokens, and Wait fails although the engine is up and the context
\* live.
ProbeThrottled(n) ==
    /\ probe[n] = "running" /\ n \in Throttled
    /\ probe' = [probe EXCEPT ![n] = "throttled"]
    /\ UNCHANGED <<cond, required, limit, probing, ctx>>

\* The timeout: an engine that is up or down has answered long before.
Expire ==
    /\ probing /\ ctx = "live"
    /\ Running # {} /\ \A n \in Running : cond[n] = "hang"
    /\ \A i \in DOMAIN ProbeOrder : ~CanStart(i)
    /\ ctx' = "timeout"
    /\ UNCHANGED <<cond, required, limit, probe, probing>>

ClientLeaves ==
    /\ probing /\ ctx = "live"
    /\ ctx' = "left"
    /\ UNCHANGED <<cond, required, limit, probe, probing>>

\* Mutant of Overall: the pod is not ready only when every required probe failed.
OverallAll ==
    IF required # {} /\ \A n \in required : probe[n] # "ok" THEN 503 ELSE 200

\* A required probe that failed, or any one when none is required.
Overall ==
    IF \E n \in Results : probe[n] # "ok" /\ (required = {} \/ n \in required)
    THEN 503
    ELSE 200

\* g.Wait has returned.
Decided == probing /\ Results = ProbeNames

ReadinessStep ==
    \/ \E i \in DOMAIN ProbeOrder : StartProbe(i)
    \/ \E n \in ProbeNames : ProbeOk(n) \/ ProbeFails(n) \/ ProbeThrottled(n)
    \/ Expire
    \/ ClientLeaves

\* Goroutines run, an engine that is up or down answers, and the timer fires.
ReadinessProgress ==
    \/ \E i \in DOMAIN ProbeOrder : StartProbe(i)
    \/ \E n \in ProbeNames : ProbeOk(n) \/ ProbeFails(n) \/ ProbeThrottled(n)
    \/ Expire

=============================================================================
