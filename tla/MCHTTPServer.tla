---------------------------- MODULE MCHTTPServer ---------------------------
(***************************************************************************)
(* A small instance of HTTPServer: two engines and Redis, and two requests *)
(* of which one may ask for readiness.                                     *)
(***************************************************************************)
EXTENDS HTTPServer, TLC

CONSTANTS e1, e2, redis, r1, r2

MCProbeOrder == <<e1, e2, redis>>

\* The default engine is e2; tasks are disabled or enabled.
MCRequiredSets == {{e2}, {e2, redis}}

\* A request that is not for readiness.
Ordinary ==
    {[route |-> rt, key |-> k, clean |-> c, stalls |-> c] :
        rt \in {"facade", "pass"}, k \in {"good", "bad"}, c \in BOOLEAN}
    \cup {[route |-> rt, key |-> "absent", clean |-> TRUE, stalls |-> TRUE] :
        rt \in {"health", "none", "facade", "pass"}}

Ready == [route |-> "readyz", key |-> "absent", clean |-> TRUE, stalls |-> FALSE]
Page == [route |-> "health", key |-> "absent", clean |-> TRUE, stalls |-> FALSE]

\* The health page next to every other request.
MCArrivals == {(r1 :> Page @@ r2 :> o) : o \in Ordinary \cup {Ready}}

MCSettings ==
    {[auth |-> a, keys |-> a, capture |-> a, timeout |-> t, deadlines |-> a = t,
      muted |-> {"health"}] : a, t \in BOOLEAN}
    \cup {[auth |-> TRUE, keys |-> FALSE, capture |-> FALSE, timeout |-> TRUE,
           deadlines |-> TRUE, muted |-> {}]}

=============================================================================
