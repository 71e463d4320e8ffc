------------------------------- MODULE Config ------------------------------
(***************************************************************************)
(* What config.Load makes of a configuration: engine defaults, validation, *)
(* and the values derived from it that two parts of the proxy must agree   *)
(* on.  A configuration is a record as YAML and the environment leave it:  *)
(*                                                                         *)
(*   engines   function from names to engine records (below)               *)
(*   default   routing.default_engine                                      *)
(*   facades   the facades that are enabled                                *)
(*   pass      routing.passthrough.enabled                                 *)
(*   request, write, grace   server timeouts; 0: none (grace: the default) *)
(*   tasks, redis, blob, total   tasks.enabled, the URL, the caps          *)
(*   taskTimeout, weights   tasks.task_timeout and queue_weights           *)
(*   proxyKeys   what security.proxy_api_keys come to                      *)
(*   trace     "ok", or "bad": no exporter can be made                     *)
(*   tls       "off", "no-cert", "ok" or "bad-ca"                          *)
(*   trusted   security.trusted_proxies: "ok" or "bad"                     *)
(*   tags, ssrf, mime   what struct tags, CIDRs and overrides come to      *)
(*                                                                         *)
(* An engine: enable, compat, url, client (its TLS files are loadable),    *)
(* timeout (0: unset), header, scheme ("": unset), key and more, the       *)
(* auth_headers list.  Of a credential matters whether it is absent, "ok"  *)
(* or "dirty".                                                             *)
(***************************************************************************)
EXTENDS Integers, Sequences, FiniteSets

CONSTANTS
    Canon(_),        \* http.CanonicalHeaderKey
    ToLower(_),      \* strings.ToLower
    ValidHeaders,    \* header names that authHeaderRE matches
    ValidNames,      \* engine names that engineNameRE matches
    DefaultTimeout,  \* DefaultEngineConfig().RequestTimeout
    Slack            \* writeTimeoutSlack

\* Names of letters, digits and dashes differ in lower case exactly when their
\* canonical forms differ.
ASSUME ConfigAssumption ==
    /\ DefaultTimeout \in Nat \ {0} /\ Slack \in Nat
    /\ \A g, h \in ValidHeaders : ToLower(g) = ToLower(h) <=> Canon(g) = Canon(h)

AuthSpec == [header : STRING, scheme : STRING, key : STRING]

EngineFields ==
    {"enable", "compat", "url", "client", "timeout", "header", "scheme", "key", "more"}

\* What YAML and the environment may leave.
IsConfig(c) ==
    /\ {"engines", "facades", "request", "write"} \subseteq DOMAIN c
    /\ c.request \in Int /\ c.write \in Int
    /\ \A n \in DOMAIN c.engines :
          /\ DOMAIN c.engines[n] = EngineFields
          /\ c.engines[n].timeout \in Int
          /\ c.engines[n].more \in Seq(AuthSpec)

Enabled(c) == {n \in DOMAIN c.engines : c.engines[n].enable}

-----------------------------------------------------------------------------
(* Load *)

\* An external engine that names no header gets a bearer token in Authorization.
EngineDefaults(ec) ==
    LET scheme == IF ec.scheme = "" THEN "raw" ELSE ec.scheme
        external == ec.compat = "external"
    IN [ec EXCEPT
          !.timeout = IF @ = 0 THEN DefaultTimeout ELSE @,
          !.scheme = IF ec.header = "" /\ external /\ scheme = "raw" THEN "bearer" ELSE scheme,
          !.header = CASE @ # "" -> @
                       [] @ = "" /\ external -> "Authorization"
                       [] @ = "" /\ ~external -> "X-Api-Key"]

applyEngineDefaults(c) ==
    [c EXCEPT !.engines = [n \in DOMAIN @ |-> EngineDefaults(@[n])]]

acceptedFacades(compat) ==
    CASE compat = "docling" -> {"docling"}
      [] compat = "external" -> {"external"}
      [] compat \in {"docling-external", "tika"} -> {"docling", "external"}
      [] OTHER -> {}

\* The stamps of an engine: the single one and then the list.
EffectiveAuthSpecs(ec) ==
    (IF ec.header = "" THEN <<>>
     ELSE <<[header |-> ec.header, scheme |-> ec.scheme, key |-> ec.key]>>) \o ec.more

validateEngineNames(c) == DOMAIN c.engines \subseteq ValidNames

validateAuthHeaders(c) ==
    \A n \in Enabled(c) :
        LET specs == EffectiveAuthSpecs(c.engines[n])
        IN /\ \A i \in DOMAIN specs : specs[i].header \in ValidHeaders
           /\ \A i, j \in DOMAIN specs :
                 i # j => ToLower(specs[i].header) # ToLower(specs[j].header)

validateDefaultEngine(c) == c.default \in Enabled(c) /\ c.engines[c.default].url # ""

validateFacadeCoverage(c) ==
    \A f \in c.facades :
        \E n \in Enabled(c) : f \in acceptedFacades(c.engines[n].compat)

validateTasksConfig(c) ==
    c.tasks =>
        /\ c.redis # ""
        /\ c.total > 0 => c.blob <= c.total
        /\ c.taskTimeout >= 0
        /\ \A q \in DOMAIN c.weights : c.weights[q] >= 0

validateServerTLS(c) == c.tls # "no-cert"

validateTimeoutHierarchy(c) ==
    c.request > 0 =>
        /\ \A n \in Enabled(c) : c.engines[n].timeout <= c.request
        /\ c.write > 0 => c.request + Slack <= c.write

validateResolvedSecrets(c) ==
    /\ \A n \in Enabled(c) :
          /\ c.engines[n].key # "dirty"
          /\ \A i \in DOMAIN c.engines[n].more : c.engines[n].more[i].key # "dirty"
    /\ "dirty" \notin c.proxyKeys

Validate(c) ==
    /\ c.tags
    /\ validateEngineNames(c)
    /\ validateAuthHeaders(c)
    /\ validateDefaultEngine(c)
    /\ validateFacadeCoverage(c)
    /\ c.ssrf
    /\ validateTasksConfig(c)
    /\ validateServerTLS(c)
    /\ validateTimeoutHierarchy(c)
    /\ validateResolvedSecrets(c)
    /\ c.mime

\* Mutant of LoadFails: the defaults come after the validation.
LoadFailsRaw(c) == ~Validate(c)

\* Load: defaults and secrets first, then validation.
LoadFails(c) == ~Validate(applyEngineDefaults(c))

-----------------------------------------------------------------------------
(* app.Build *)

\* Capabilities().Facades of each adapter, which the registry routes by.
doclingFacades == {"docling"}
externalFacades == {"external"}
tikaFacades == {"docling", "external"}
doclingExternalFacades == {"docling", "external"}

newAdapterByCompat(compat) ==
    CASE compat = "docling" -> doclingFacades
      [] compat = "external" -> externalFacades
      [] compat = "tika" -> tikaFacades
      [] compat = "docling-external" -> doclingExternalFacades

\* SetupTracing, buildRegistry and NewOrchestrator.  (NewWorker parses the same
\* URL again.)
FailsBeforeStore(c) ==
    \/ c.trace = "bad"
    \/ \E n \in Enabled(c) : ~c.engines[n].client
    \/ c.default \notin Enabled(c)
    \/ c.tasks /\ c.redis = "bad"

\* NewRouter and NewServer.
FailsBehindStore(c) ==
    \/ c.pass /\ c.trusted = "bad"
    \/ c.tls = "bad-ca"

\* Server.GracePeriod
GracePeriod(c, default) == IF c.grace <= 0 THEN default ELSE c.grace

-----------------------------------------------------------------------------
(* Credentials on outbound requests *)

Usable(spec) == spec.header # "" /\ spec.key # ""

HeaderValue(spec) == [bearer |-> spec.scheme = "bearer", key |-> spec.key]

\* The places of the stamps that have a header and a key; the others are passed
\* over.
Stamped(specs) == {i \in DOMAIN specs : Usable(specs[i])}

LastOf(S) == CHOOSE i \in S : \A j \in S : j <= i

\* authutil.ApplyMulti: what an adapter's request carries, by canonical name.
\* Header.Set overwrites.
ApplyMulti(ec) ==
    LET specs == EffectiveAuthSpecs(ec)
    IN [h \in {Canon(specs[i].header) : i \in Stamped(specs)} |->
          HeaderValue(specs[LastOf({i \in Stamped(specs) : Canon(specs[i].header) = h})])]

\* authutil.FormatHeaderValuesMulti: the stamps of the passthrough mount, by
\* the name as it is spelled.
FormatHeaderValuesMulti(ec) ==
    LET specs == EffectiveAuthSpecs(ec)
    IN [h \in {specs[i].header : i \in Stamped(specs)} |->
          HeaderValue(specs[LastOf({i \in Stamped(specs) : specs[i].header = h})])]

=============================================================================
