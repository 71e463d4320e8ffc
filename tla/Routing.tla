------------------------------ MODULE Routing ------------------------------
(***************************************************************************)
(* How the first file of an upload finds its engine: mimedetect.Resolve in *)
(* internal/engine/mimedetect/detect.go names its type, NewRegistry and    *)
(* PickRouteVerbose in internal/engine/engine.go pick the engine, and the  *)
(* handlers decide what to do with the pick.                               *)
(*                                                                         *)
(* NewRegistry walks a Go map, whose order is arbitrary, so building the   *)
(* registry is a step per entry.  The registry never changes afterwards.   *)
(*                                                                         *)
(* Engine names are numbers in alphabetical order.  A media type is a pair *)
(* of type and subtype; spellings (case, parameters, the dot of an         *)
(* extension) are fields of their own, which the code's normalisations     *)
(* remove.                                                                 *)
(***************************************************************************)
EXTENDS Naturals, Sequences, FiniteSets, FiniteSetsExt, Functions

CONSTANTS
    Names,       \* engine names that may be configured
    Entries,     \* the registry entries an operator may write (bounded)
    Strategies,  \* values of routing.strategy, "" among them
    Uploads,     \* the first files of uploads (bounded)
    ExtMap       \* Resolver.extMap: extension to media type

NoEngine == 0    \* ErrNoEngineForFacade
NoType   == <<"", "">>
Octet    == <<"application", "octet-stream">>

Facades == {"docling", "external"}

ASSUME RoutingAssumption ==
    /\ Names \subseteq Nat \ {0}
    /\ \A e \in Entries : /\ e.facades \subseteq Facades
                          /\ DOMAIN e = {"facades", "mimes", "exts"}
    /\ \A u \in Uploads : DOMAIN u = {"declared", "sniff", "ext"}

VARIABLES
    cfg,        \* the configuration: entries, default engine, strategy
    todo,       \* names that NewRegistry's range has not visited
    order,      \* nonDefault: in the order of the visits, then sorted in place
    sorted,     \* how many of its names stringSort has put in order
    pickOrder,  \* staticRegistry.pickOrder, NoEngine-free, once built
    built,      \* "building", "ready" or "failed"
    asked,      \* the last request: facade and upload
    pick        \* what the last request was answered

vars == <<cfg, todo, order, sorted, pickOrder, built, asked, pick>>

NoRequest == [facade |-> "none", upload |-> {}]
NoPick    == [engine |-> NoEngine, source |-> "none", mime |-> NoType]

-----------------------------------------------------------------------------
(* mimedetect *)

genericDeclared == {NoType, Octet, <<"binary", "octet-stream">>}

cfbAmbiguousSniffs ==
    { <<"application", sub>> : sub \in
        {"vnd.ms-powerpoint", "vnd.ms-office", "x-cfb", "x-ole-storage",
         "msword", "vnd.ms-excel"} }

\* canonical: parameters and case are gone, and what does not look like a
\* media type is kept as it is.
canonical(ct) == ct.type

\* extOf lowers the case of the last extension.
extOf(e) == e.base

lookupByFilename(e) ==
    IF extOf(e) # "" /\ extOf(e) \in DOMAIN ExtMap THEN ExtMap[extOf(e)] ELSE NoType

\* Mutant of Resolve: a sniffed container is taken at its word.
ResolveContainer(u) ==
    LET declared == canonical(u.declared)
        ext      == lookupByFilename(u.ext)
    IN  IF declared \notin genericDeclared THEN declared
        ELSE IF u.sniff \notin genericDeclared THEN u.sniff
        ELSE IF ext # NoType THEN ext
        ELSE Octet

\* The type routing goes by: the declared one unless it says nothing, then what
\* the first bytes say unless several formats share them, then what the
\* extension says, then the ambiguous container type.
Resolve(u) ==
    LET declared == canonical(u.declared)
        ext      == lookupByFilename(u.ext)
        ambig    == u.sniff \in cfbAmbiguousSniffs
    IN  IF declared \notin genericDeclared THEN declared
        ELSE IF u.sniff \notin genericDeclared /\ ~ambig THEN u.sniff
        ELSE IF ext # NoType THEN ext
        ELSE IF ambig THEN u.sniff
        ELSE Octet

-----------------------------------------------------------------------------
(* Compiled allowlists *)

\* compilePatterns: the suffix "/*" is looked for first, so that "*/*" becomes
\* the prefix "*/", and blanks are dropped.
compilePatterns(mimes) ==
    { IF p.type[2] = "*" THEN [prefix |-> p.type[1], full |-> NoType]
                         ELSE [prefix |-> "", full |-> p.type]
        : p \in {q \in mimes : q.type # NoType} }

mimeMatches(p, mime) ==
    IF p.full # NoType THEN p.full = mime ELSE p.prefix = mime[1]

\* compileExtensions: lower case, with a dot, blanks dropped.
compileExtensions(exts) == {e.base : e \in {x \in exts : x.base # ""}}

\* The sequence of phases of a strategy; an unknown one counts as the default.
strategyPhases(s) ==
    CASE s = "mime" -> <<"mime">>
      [] s = "extension" -> <<"extension">>
      [] s = "extension_then_mime" -> <<"extension", "mime">>
      [] OTHER -> <<"mime", "extension">>

AcceptsFacade(n, facade) == facade \in cfg.entries[n].facades

-----------------------------------------------------------------------------
(* NewRegistry *)

\* Where the inner loop of stringSort takes the i-th name: as far down as the
\* names before it are greater.
\* Mutant of Place: the first name is never compared.
PlaceShort(s, i) == Min({j \in 2..i : \A k \in j..(i - 1) : s[k] > s[i]})

Place(s, i) == Min({j \in 1..i : \A k \in j..(i - 1) : s[k] > s[i]})

\* One pass of stringSort's outer loop: the names it passes move up by one.
Sink(s, i) ==
    [k \in DOMAIN s |-> IF k = Place(s, i) THEN s[i]
                        ELSE IF Place(s, i) < k /\ k <= i THEN s[k - 1]
                        ELSE s[k]]

\* An empty configuration, or a default that is not in it, is an error.
RegistryFails ==
    /\ built = "building"
    /\ cfg.default \notin DOMAIN cfg.entries
    /\ built' = "failed"
    /\ UNCHANGED <<cfg, todo, order, sorted, pickOrder, asked, pick>>

\* The range over the map visits an entry.
VisitEntry(n) ==
    /\ built = "building"
    /\ cfg.default \in DOMAIN cfg.entries
    /\ n \in todo
    /\ todo' = todo \ {n}
    /\ order' = IF n = cfg.default THEN order ELSE Append(order, n)
    /\ UNCHANGED <<cfg, sorted, pickOrder, built, asked, pick>>

\* A pass of stringSort, once all are visited.
SortPass ==
    /\ built = "building"
    /\ cfg.default \in DOMAIN cfg.entries
    /\ todo = {}
    /\ sorted < Len(order)
    /\ order' = Sink(order, sorted + 1)
    /\ sorted' = sorted + 1
    /\ UNCHANGED <<cfg, todo, pickOrder, built, asked, pick>>

FinishRegistry ==
    /\ built = "building"
    /\ cfg.default \in DOMAIN cfg.entries
    /\ todo = {}
    /\ sorted >= Len(order)
    /\ pickOrder' = order
    /\ built' = "ready"
    /\ UNCHANGED <<cfg, todo, order, sorted, asked, pick>>

-----------------------------------------------------------------------------
(* PickRouteVerbose *)

\* Mutant of Claims: the facade is not looked at.
ClaimsAnyFacade(n, phase, facade, mime, ext) ==
    \/ /\ phase = "mime"
       /\ mime # NoType
       /\ \E p \in compilePatterns(cfg.entries[n].mimes) : mimeMatches(p, mime)
    \/ /\ phase = "extension"
       /\ extOf(ext) # ""
       /\ extOf(ext) \in compileExtensions(cfg.entries[n].exts)

\* The engine claims the request in this phase.
Claims(n, phase, facade, mime, ext) ==
    /\ AcceptsFacade(n, facade)
    /\ \/ /\ phase = "mime"
          /\ mime # NoType
          /\ \E p \in compilePatterns(cfg.entries[n].mimes) : mimeMatches(p, mime)
       \/ /\ phase = "extension"
          /\ extOf(ext) # ""
          /\ extOf(ext) \in compileExtensions(cfg.entries[n].exts)

\* The scan of pickOrder in one phase: the first engine that claims.
Scan(phase, facade, mime, ext) ==
    LET hits == {i \in DOMAIN pickOrder :
                    Claims(pickOrder[i], phase, facade, mime, ext)}
    IN  IF hits = {} THEN NoEngine ELSE pickOrder[Min(hits)]

PickRouteVerbose(facade, mime, ext) ==
    LET phases == strategyPhases(cfg.strategy)
        hits   == {k \in DOMAIN phases :
                      Scan(phases[k], facade, mime, ext) # NoEngine}
    IN  IF hits # {}
        THEN [engine |-> Scan(phases[Min(hits)], facade, mime, ext),
              source |-> phases[Min(hits)], mime |-> mime]
        ELSE [engine |-> IF AcceptsFacade(cfg.default, facade)
                         THEN cfg.default ELSE NoEngine,
              source |-> "default", mime |-> mime]

-----------------------------------------------------------------------------
(* The handlers *)

\* One request is followed; the registry is the same for all.

\* Convert.handle and Async.submit: with no pick the default engine is taken.
RouteConvert(u) ==
    LET p == PickRouteVerbose("docling", Resolve(u), u.ext)
    IN  /\ built = "ready"
        /\ asked = NoRequest
        /\ asked' = [facade |-> "docling", upload |-> u]
        /\ pick' = IF p.engine = NoEngine
                   THEN [p EXCEPT !.engine = cfg.default] ELSE p
        /\ UNCHANGED <<cfg, todo, order, sorted, pickOrder, built>>

\* A request of sources, or without a file, has nothing to be routed by.
NoFile == [declared |-> [type |-> NoType], sniff |-> NoType, ext |-> [base |-> ""]]

RouteSource ==
    /\ built = "ready"
    /\ asked = NoRequest
    /\ asked' = [facade |-> "docling", upload |-> NoFile]
    /\ pick' = [engine |-> cfg.default, source |-> "default", mime |-> NoType]
    /\ UNCHANGED <<cfg, todo, order, sorted, pickOrder, built>>

\* External.Process and Async.SubmitProcess: with no pick the answer is a 501.
RouteProcess(u) ==
    /\ built = "ready"
    /\ asked = NoRequest
    /\ asked' = [facade |-> "external", upload |-> u]
    /\ pick' = PickRouteVerbose("external", Resolve(u), u.ext)
    /\ UNCHANGED <<cfg, todo, order, sorted, pickOrder, built>>

-----------------------------------------------------------------------------
Configs ==
    UNION { [entries: [E -> Entries], default: Names, strategy: Strategies]
              : E \in SUBSET Names }

Init ==
    /\ cfg \in Configs
    /\ todo = DOMAIN cfg.entries
    /\ order = <<>>
    /\ sorted = 1
    /\ pickOrder = <<>>
    /\ built = "building"
    /\ asked = NoRequest
    /\ pick = NoPick

Finished == built = "failed" \/ asked # NoRequest

Next ==
    \/ RegistryFails
    \/ \E n \in Names : VisitEntry(n)
    \/ SortPass
    \/ FinishRegistry
    \/ \E u \in Uploads : RouteConvert(u) \/ RouteProcess(u)
    \/ RouteSource
    \/ Finished /\ UNCHANGED vars

Spec == Init /\ [][Next]_vars

-----------------------------------------------------------------------------
(* Properties *)

Answered == asked # NoRequest

NonDefault == DOMAIN cfg.entries \ {cfg.default}

\* Where an engine stands for this request: the number of the phase in which
\* it claims, 0 when it does not.
ClaimPhase(n) ==
    LET phases == strategyPhases(cfg.strategy)
        at     == {k \in DOMAIN phases :
                     Claims(n, phases[k], asked.facade, pick.mime, asked.upload.ext)}
    IN  IF at = {} THEN 0 ELSE Min(at)

\* The pick is a function of configuration and upload alone: among the
\* non-default engines that claim the request, one of the earliest phase, and
\* of these the first by name; the default only when none claims.  The order
\* in which Go's map was walked does not show.
PickIsFirstByName ==
    Answered =>
        LET claimants == {n \in NonDefault : ClaimPhase(n) # 0}
        IN  IF claimants = {}
            THEN pick.engine \in {cfg.default, NoEngine}
            ELSE /\ pick.engine \in claimants
                 /\ \A n \in claimants \ {pick.engine} :
                       \/ ClaimPhase(pick.engine) < ClaimPhase(n)
                       \/ /\ ClaimPhase(pick.engine) = ClaimPhase(n)
                          /\ pick.engine < n

\* The facade filter of PickRouteVerbose, as the handlers use it: whoever is
\* picked by a claim serves the request's facade, and on the external facade so
\* does the default engine; and a request is turned away for want of an engine
\* only where the default engine does not serve its facade.  What the docling
\* handlers do with the default engine is FacadeRespected's matter.
FacadeFiltered ==
    Answered =>
        IF pick.engine = NoEngine
        THEN ~AcceptsFacade(cfg.default, asked.facade)
        ELSE \/ AcceptsFacade(pick.engine, asked.facade)
             \/ asked.facade = "docling" /\ pick.engine = cfg.default

\* What says nothing about an upload never outweighs what does: a declared type
\* is kept, bytes that several formats share are told apart by a mapped
\* extension (the .msg fix of detect.go), and no upload is routed as octets
\* when its declaration, its bytes or its extension say something, unless the
\* operator maps its extension to octets.  Nothing is claimed where the bytes
\* look like plain text and a mapped extension says more: there detect.go's
\* comment takes the extension and its code the bytes.
KnownTypeUsed ==
    Answered =>
        LET u       == asked.upload
            hint    == lookupByFilename(u.ext)
            says(t) == t \notin genericDeclared
            disputed == u.sniff = <<"text", "plain">> /\ says(hint)
        IN  /\ says(u.declared.type) => pick.mime = u.declared.type
            /\ ~says(u.declared.type) /\ u.sniff \in cfbAmbiguousSniffs /\ hint # NoType
                  => pick.mime = hint
            /\ (hint = NoType \/ says(hint)) /\ ~disputed
                  /\ (\E t \in {u.declared.type, u.sniff, hint} : says(t))
                  => says(pick.mime)

-----------------------------------------------------------------------------
(* What the documentation says and the code does not do *)

\* docs/ARCHITECTURE.md: "The default engine is the catch-all (must itself
\* support the facade)", and where it does not, "the handler emits 400".  An
\* upload is only ever sent to an engine that serves its facade, in a registry
\* that has one.
FacadeRespected ==
    /\ Answered
    /\ asked.upload # NoFile
    /\ pick.engine # NoEngine
    /\ \E n \in DOMAIN cfg.entries : AcceptsFacade(n, asked.facade)
    => AcceptsFacade(pick.engine, asked.facade)

=============================================================================
