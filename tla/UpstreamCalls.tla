--------------------------- MODULE UpstreamCalls ---------------------------
(***************************************************************************)
(* The calls to one engine: conversions pass its circuit breaker, the      *)
(* instrumented transport and its rate limiter; health probes go to the    *)
(* transport directly.  (Passthrough requests use the connection pool      *)
(* below all of these.)  Calls run concurrently, each under a deadline.    *)
(*                                                                         *)
(* Time is counted in units in which the limiter earns one token.          *)
(***************************************************************************)
EXTENDS Integers, Sequences, FiniteSets

CONSTANTS
    Calls,           \* conversions
    Probes,          \* health probes
    Threshold,       \* breaker.consecutive_failures_threshold
    MaxRequests,     \* breaker.max_requests
    Interval,        \* breaker.interval; 0: counts are never cleared
    OpenFor,         \* breaker.timeout
    RateLimits,      \* values of rate_limit: a burst, or Unlimited (rps = 0)
    Unlimited,
    RequestTimeout,  \* the engine's request_timeout
    ReadyTimeout,    \* observability.health.timeout
    MaxTime          \* bound of the clock

All == Calls \cup Probes

ASSUME UpstreamAssumption ==
    /\ Threshold \in Nat /\ MaxRequests \in Nat \ {0} /\ OpenFor \in Nat \ {0}
    /\ Interval \in Nat
    /\ Unlimited \notin Nat
    /\ RateLimits \subseteq Nat \cup {Unlimited}
    /\ RequestTimeout \in Nat \ {0} /\ ReadyTimeout \in Nat \ {0}
    /\ MaxTime \in Nat
    /\ Calls \cap Probes = {}

VARIABLES
    now,
    limit,     \* the engine's burst, or Unlimited
    brk,       \* gobreaker's state
    tokens,    \* the limiter's tokens; negative ones are promised
    last,      \* its lastEvent: when the latest token it promised is there
    stage,     \* "new", "wait", "sent", or how the call ended
    deadline,  \* when the call's context ends
    gen,       \* the breaker generation that admitted the call
    at,        \* when the limiter lets it go
    sends      \* when requests were sent through the client, in order

callVars == <<stage, deadline, gen, at, sends>>
vars == <<now, limit, brk, tokens, last, callVars>>

\* A call fails at the engine or because its client left, or because the rate
\* limiter has no token for it in time.
Failed == {"failed", "throttled"}

Ended == {"ok", "refused"} \cup Failed

\* No token is promised to the call.
NotYet == -1

-----------------------------------------------------------------------------
(* Circuit breaker (external: gobreaker), with the settings of breaker.New *)

Never == 0

\* toNewGeneration: the counts start afresh.
Fresh(b, s) ==
    [state |-> s, gen |-> b.gen + 1, reqs |-> 0, succ |-> 0, fail |-> 0,
     exp |-> CASE s = "open" -> now + OpenFor
               [] s = "closed" /\ Interval > 0 -> now + Interval
               [] OTHER -> Never]

\* currentState: an interval, or the time of being open, is over.
Current(b) ==
    CASE b.state = "closed" /\ b.exp # Never /\ b.exp < now -> Fresh(b, "closed")
      [] b.state = "open" /\ b.exp < now -> Fresh(b, "half-open")
      [] OTHER -> b

Admits(b) == b.state = "closed" \/ (b.state = "half-open" /\ b.reqs < MaxRequests)

\* Mutant of ReadyToTrip: off by one.
ReadyToTripEarly(fail) == fail + 1 >= Threshold

ReadyToTrip(fail) == fail >= Threshold

\* afterRequest: a result of an older generation is dropped.
After(b, g, ok) ==
    CASE g # b.gen -> b
      [] g = b.gen /\ ok /\ b.state = "half-open" /\ b.succ + 1 >= MaxRequests ->
            Fresh(b, "closed")
      [] g = b.gen /\ ok /\ ~(b.state = "half-open" /\ b.succ + 1 >= MaxRequests) ->
            [b EXCEPT !.succ = @ + 1, !.fail = 0]
      [] g = b.gen /\ ~ok /\ (b.state = "half-open" \/ ReadyToTrip(b.fail + 1)) ->
            Fresh(b, "open")
      [] OTHER -> [b EXCEPT !.fail = @ + 1, !.succ = 0]

\* Execute's function has returned; probes know no breaker.
Report(c, ok) == brk' = IF c \in Calls THEN After(Current(brk), gen[c], ok) ELSE brk

\* The call ends and its context with it.
End(c, s) ==
    /\ stage' = [stage EXCEPT ![c] = s]
    /\ deadline' = [deadline EXCEPT ![c] = 0]
    /\ at' = [at EXCEPT ![c] = NotYet]

-----------------------------------------------------------------------------
(* A call begins *)

\* Mutant of WithDeadline: the engine's own timeout is not put on the context.
WithDeadlineUnbounded(c) == MaxTime + 1

\* Client.WithDeadline for a conversion, Readiness' timeout for a probe.
WithDeadline(c) == now + IF c \in Probes THEN ReadyTimeout ELSE RequestTimeout

\* Calls begin only when the clock's bound leaves them their time.
Arrives(c) ==
    /\ stage[c] = "new"
    /\ now + RequestTimeout <= MaxTime /\ now + ReadyTimeout <= MaxTime

\* The adapter's do(): beforeRequest admits the conversion,
Admit(c) ==
    /\ Arrives(c) /\ c \in Calls
    /\ Admits(Current(brk))
    /\ brk' = [Current(brk) EXCEPT !.reqs = @ + 1]
    /\ gen' = [gen EXCEPT ![c] = Current(brk).gen]
    /\ stage' = [stage EXCEPT ![c] = "wait"]
    /\ deadline' = [deadline EXCEPT ![c] = WithDeadline(c)]
    /\ UNCHANGED <<now, limit, tokens, last, at, sends>>

\* or returns ErrOpenState or ErrTooManyRequests.
RefuseCall(c) ==
    /\ Arrives(c) /\ c \in Calls
    /\ ~Admits(Current(brk))
    /\ brk' = Current(brk)
    /\ End(c, "refused")
    /\ UNCHANGED <<now, limit, tokens, last, gen, sends>>

\* An adapter's Health.
Probe(c) ==
    /\ Arrives(c) /\ c \in Probes
    /\ stage' = [stage EXCEPT ![c] = "wait"]
    /\ deadline' = [deadline EXCEPT ![c] = WithDeadline(c)]
    /\ UNCHANGED <<now, limit, brk, tokens, last, gen, at, sends>>

-----------------------------------------------------------------------------
(* RateLimitedTransport.RoundTrip (external: rate.Limiter) *)

Arriving(c) == stage[c] = "wait" /\ at[c] = NotYet

\* When the next token is to be had.
NextToken == IF tokens >= 1 THEN now ELSE now + (1 - tokens)

\* Wait reserves the next token when it comes in time,
Reserve(c) ==
    /\ Arriving(c) /\ limit # Unlimited
    /\ NextToken <= deadline[c]
    /\ tokens' = tokens - 1
    /\ at' = [at EXCEPT ![c] = NextToken]
    /\ last' = NextToken
    /\ UNCHANGED <<now, limit, brk, stage, deadline, gen, sends>>

\* RoundTrip returns an error: Execute reports it, whoever made it.
Fails(c, how) ==
    /\ Report(c, FALSE)
    /\ End(c, how)

\* Mutant of WaitFails: the transport sends although Wait returned an error.
WaitFailsSends(c) ==
    /\ Arriving(c) /\ limit # Unlimited
    /\ NextToken > deadline[c]
    /\ stage' = [stage EXCEPT ![c] = "sent"]
    /\ sends' = Append(sends, now)
    /\ UNCHANGED <<now, limit, brk, tokens, last, deadline, gen, at>>

\* Mutant of WaitFails: the breaker does not hear of it.
WaitFailsUnreported(c) ==
    /\ Arriving(c) /\ limit # Unlimited
    /\ NextToken > deadline[c]
    /\ End(c, "throttled")
    /\ UNCHANGED <<now, limit, brk, tokens, last, gen, sends>>

\* or fails at once; inside Execute, so that the breaker counts it.
WaitFails(c) ==
    /\ Arriving(c) /\ limit # Unlimited
    /\ NextToken > deadline[c]
    /\ Fails(c, "throttled")
    /\ UNCHANGED <<now, limit, tokens, last, gen, sends>>

\* The context ends before the request leaves.  A token still to come is given
\* back when none was promised after it.
WaitCancelled(c) ==
    /\ stage[c] = "wait"
    /\ \/ at[c] > now /\ at[c] = last /\ tokens' = tokens + 1 /\ last' = last - 1
       \/ ~(at[c] > now /\ at[c] = last) /\ UNCHANGED <<tokens, last>>
    /\ Fails(c, IF at[c] > now THEN "throttled" ELSE "failed")
    /\ UNCHANGED <<now, limit, gen, sends>>

\* The token is there, or there is no limiter: the request leaves.
Send(c) ==
    /\ stage[c] = "wait"
    /\ \/ limit = Unlimited
       \/ at[c] # NotYet /\ at[c] <= now
    /\ stage' = [stage EXCEPT ![c] = "sent"]
    /\ sends' = IF limit = Unlimited THEN sends ELSE Append(sends, now)
    /\ UNCHANGED <<now, limit, brk, tokens, last, deadline, gen, at>>

-----------------------------------------------------------------------------
(* The round trip ends *)

\* A response, of whatever status, is a success to the breaker.
Replies(c) ==
    /\ stage[c] = "sent"
    /\ Report(c, TRUE)
    /\ End(c, "ok")
    /\ UNCHANGED <<now, limit, tokens, last, gen, sends>>

\* The connection fails, or the client goes away.
TripFails(c) ==
    /\ stage[c] = "sent"
    /\ Fails(c, "failed")
    /\ UNCHANGED <<now, limit, tokens, last, gen, sends>>

\* The context's deadline ends the wait or the round trip.
DeadlineFires(c) ==
    /\ now >= deadline[c]
    /\ WaitCancelled(c) \/ TripFails(c)

-----------------------------------------------------------------------------
Min2(a, b) == IF a < b THEN a ELSE b

\* Timers that are due fire before the clock moves on.
Due(c) ==
    \/ stage[c] \in {"wait", "sent"} /\ now >= deadline[c]
    \/ stage[c] = "wait" /\ (at[c] <= now \/ limit = Unlimited)

Tick ==
    /\ now < MaxTime
    /\ \A c \in All : ~Due(c)
    /\ now' = now + 1
    /\ tokens' = IF limit = Unlimited THEN tokens ELSE Min2(limit, tokens + 1)
    /\ UNCHANGED <<limit, brk, last, callVars>>

\* httpclient.New: a burst that is not positive counts as one.
BurstOf(r) == IF r = 0 THEN 1 ELSE r

Init ==
    /\ now = 0
    /\ limit \in {IF r = Unlimited THEN r ELSE BurstOf(r) : r \in RateLimits}
    /\ brk = [state |-> "closed", gen |-> 0, reqs |-> 0, succ |-> 0, fail |-> 0,
              exp |-> IF Interval > 0 THEN Interval ELSE Never]
    /\ tokens = IF limit = Unlimited THEN 0 ELSE limit
    /\ last = 0
    /\ stage = [c \in All |-> "new"]
    /\ deadline = [c \in All |-> 0]
    /\ gen = [c \in All |-> 0]
    /\ at = [c \in All |-> NotYet]
    /\ sends = <<>>

\* Steps that come about by themselves.
Proceed(c) == Reserve(c) \/ WaitFails(c) \/ Send(c)

Done == now = MaxTime /\ \A c \in All : stage[c] \in Ended \cup {"new"}

Next ==
    \/ \E c \in All :
          \/ Admit(c) \/ RefuseCall(c) \/ Probe(c) \/ Proceed(c) \/ WaitCancelled(c)
          \/ Replies(c) \/ TripFails(c) \/ DeadlineFires(c)
    \/ Tick
    \/ Done /\ UNCHANGED vars

Spec == Init /\ [][Next]_vars

\* Goroutines are scheduled, timers fire and the clock goes on; no engine and
\* no client is assumed to do anything.
Fairness ==
    /\ WF_vars(Tick)
    /\ \A c \in All : WF_vars(Proceed(c)) /\ WF_vars(DeadlineFires(c))

FairSpec == Spec /\ Fairness

-----------------------------------------------------------------------------
(* Properties *)

\* In no stretch of time does the engine get more conversions and probes than
\* its burst and the tokens of that time, whichever waits are given up.
RatePaced ==
    limit # Unlimited =>
        \A i, j \in DOMAIN sends :
            i <= j => j - i + 1 <= limit + (sends[j] - sends[i])

\* The calls of the closed breaker's generation that ended in one of these ways.
EndedIn(ways) == {c \in Calls : stage'[c] \in ways /\ gen[c] = Current(brk).gen}

Trips == brk.state = "closed" /\ brk'.state = "open"

\* The breaker opens in normal operation only when as many of the calls it
\* admitted since its counts began have failed as the threshold says: nothing
\* that answered, was refused or went around it counts.  A call that failed in
\* the rate limiter counts here; that it does is LimiterSparesBreaker's matter.
OpensOnFailures == [][Trips => Cardinality(EndedIn(Failed)) >= Threshold]_vars

\* A half-open breaker that has let its trial calls through does not stay so:
\* each of them comes back to it, whatever ended it.
HalfOpenLeaves ==
    brk.state = "half-open" /\ brk.reqs >= MaxRequests ~> brk.state # "half-open"

\* Every call and probe ends, with an engine that never answers
\* and a limiter that has no token for it.
CallsReturn == \A c \in All : stage[c] # "new" ~> stage[c] \in Ended

-----------------------------------------------------------------------------
(* What the documentation says and the code does not do *)

\* ratelimited.go: "a rate-limit-induced cancel does NOT count as a 5xx failure
\* for breaker purposes".  When the breaker opens, as many calls as the
\* threshold says have failed that were not waiting for a token.
LimiterSparesBreaker ==
    [][Trips => Cardinality(EndedIn({"failed"})) >= Threshold]_vars

=============================================================================
