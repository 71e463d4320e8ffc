--------------------------- MODULE MCAppLifecycle --------------------------
(***************************************************************************)
(* Small instances of AppLifecycle: a few configurations that are run, and *)
(* many that are only loaded.                                              *)
(***************************************************************************)
EXTENDS AppLifecycle, TLC

\* Two spellings of one header.
MCCanon(h) == IF h = "x-token" THEN "X-Token" ELSE h

MCToLower(h) ==
    CASE h = "X-Token" -> "x-token"
      [] h = "Authorization" -> "authorization"
      [] h = "X-Api-Key" -> "x-api-key"
      [] OTHER -> h

Engine(on, compat, t) ==
    [enable |-> on, compat |-> compat, url |-> "set", client |-> TRUE, timeout |-> t,
     header |-> "", scheme |-> "", key |-> "ok", more |-> <<>>]

Base ==
    [engines |-> ("e1" :> Engine(TRUE, "docling", 0)), default |-> "e1",
     facades |-> {"docling"}, pass |-> TRUE,
     request |-> 0, write |-> 0, grace |-> 2,
     tasks |-> FALSE, redis |-> "", blob |-> 0, total |-> 0,
     taskTimeout |-> 0, weights |-> ("low" :> 3), proxyKeys |-> {"ok"}, trace |-> "ok",
     tls |-> "off", trusted |-> "ok", tags |-> TRUE, ssrf |-> TRUE, mime |-> TRUE]

\* Run: with and without tasks, a grace period shorter than the worker's and
\* the default one, and what only Build notices.
RunConfigs ==
    {[Base EXCEPT !.grace = 1], [Base EXCEPT !.grace = 0]}
    \cup {[Base EXCEPT !.tasks = TRUE, !.redis = "ok", !.grace = g] : g \in {1, 3}}
    \cup {[Base EXCEPT !.trusted = "bad"], [Base EXCEPT !.trace = "bad"],
          [Base EXCEPT !.tasks = TRUE, !.redis = "ok", !.tls = "bad-ca"],
          [Base EXCEPT !.tasks = TRUE, !.redis = "bad"],
          [Base EXCEPT !.engines["e1"].client = FALSE]}

\* Loaded: timeouts,
TimeoutConfigs ==
    {[Base EXCEPT !.engines = ("e1" :> Engine(TRUE, "docling", t) @@ "e2" :> Engine(on, "tika", 5)),
                  !.request = q, !.write = w] :
        t \in {-1, 0, 2, 4}, on \in BOOLEAN, q \in {0, 2, 3, 5}, w \in {0, 4, 5, 7}}

\* credentials,
Stamp(h, s, k) == [header |-> h, scheme |-> s, key |-> k]

AuthConfigs ==
    {[Base EXCEPT !.engines["e1"].header = h, !.engines["e1"].key = k,
                  !.engines["e1"].compat = "docling-external",
                  !.engines["e1"].more = <<Stamp(a, "bearer", k2), Stamp(b, "raw", "ok")>>] :
        h \in {"", "X-Token"}, k \in {"", "ok", "dirty"}, k2 \in {"", "ok", "dirty"},
        a \in {"X-Token", "x-token", "Authorization"}, b \in {"X-Token", "x-token", "X-Api-Key"}}

\* facades, engines and the rest.
FacadeConfigs ==
    {[Base EXCEPT !.engines = ("e1" :> Engine(on, c1, 1) @@ "e2" :> Engine(on2, c2, 1)),
                  !.facades = f, !.default = d] :
        on, on2 \in BOOLEAN, c1 \in {"docling", "external"}, c2 \in {"external", "tika", "docling-external"},
        f \in SUBSET {"docling", "external"}, d \in {"e1", "e2", "e3"}}

OtherConfigs ==
    {[Base EXCEPT !.tags = FALSE], [Base EXCEPT !.ssrf = FALSE], [Base EXCEPT !.mime = FALSE],
     [Base EXCEPT !.tls = "no-cert"], [Base EXCEPT !.tasks = TRUE],
     [Base EXCEPT !.engines["e1"].url = ""], [Base EXCEPT !.proxyKeys = {"ok", "dirty"}],
     [Base EXCEPT !.engines["e1"].header = "X Token"],
     [Base EXCEPT !.engines = @ @@ ("e 2" :> Engine(FALSE, "tika", 1))],
     [Base EXCEPT !.tasks = TRUE, !.redis = "ok", !.taskTimeout = -1],
     [Base EXCEPT !.tasks = TRUE, !.redis = "ok", !.weights = ("low" :> -1)]}
    \cup {[Base EXCEPT !.tasks = TRUE, !.redis = "ok", !.blob = 2, !.total = t] : t \in 0..2}

MCStarts ==
    {[cfg |-> c, validate |-> FALSE] : c \in RunConfigs}
    \cup {[cfg |-> c, validate |-> TRUE] :
            c \in TimeoutConfigs \cup AuthConfigs \cup FacadeConfigs \cup OtherConfigs}

=============================================================================
