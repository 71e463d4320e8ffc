---------------------------- MODULE SourceCheck ----------------------------
(***************************************************************************)
(* The source URLs of a conversion: Convert.validateSources takes them one *)
(* by one through Resolver.Resolve, which checks the URL, looks its host   *)
(* up (a cache with a TTL and a bound, and one DNS query at a time for a   *)
(* host), refuses an answer that contains a blocked address and otherwise  *)
(* pins the source to the first one.                                       *)
(*                                                                         *)
(* An address is the set of ranges it lies in.  Requests run concurrently. *)
(***************************************************************************)
EXTENDS Naturals, Sequences, FiniteSets

CONSTANTS
    Callers,     \* requests in source mode
    Hosts,       \* host names
    DNS,         \* what DNS may answer for a host: sets of sequences of addresses
    Lists,       \* what http_sources of a request may be: sequences of parsed URLs
    TTLs,        \* values of security.ssrf.dns_cache_ttl; 0 disables the cache
    MaxEntries,  \* bound of the cache
    MaxTime,     \* bound of the clock
    None,        \* nobody
    Error        \* the lookup failed

\* The ranges classifyIP tells apart.
Ranges == {"unspecified", "loopback", "link_local", "metadata_ip", "multicast",
           "private", "blocked_cidr"}

Schemes == {"http", "https", "other", "unparsable"}
Ports   == {"none", "allowed", "denied"}

Answers == UNION {DNS[h] : h \in Hosts}

URLs == [scheme: Schemes, host: Hosts \cup {None}, port: Ports]

\* dnsCacheEntry, with its key.
Entries == [host: Hosts, ips: Answers, exp: Nat]

\* ResolvedURL
Pinned == [source: Hosts, ips: Answers]

ASSUME SourceAssumption ==
    /\ DNS \in [Hosts -> SUBSET Seq(SUBSET Ranges)]
    /\ Lists \in [Callers -> SUBSET Seq(URLs)]
    /\ TTLs \subseteq Nat
    /\ MaxEntries \in Nat \ {0}
    /\ MaxTime \in Nat
    /\ None \notin Callers \cup Hosts
    /\ Error # None
    /\ {None, Error} \cap Entries = {}

VARIABLES
    ttl,     \* the resolver's cache TTL
    now,     \* dnsClock
    cache,   \* dnsCache.entries: records of a host, its addresses and an expiry
    flight,  \* singleflight.Group: the caller that runs the function for a host
    pc,      \* where a caller is
    todo,    \* the sources it has not resolved yet
    pins,    \* the addresses its sources were pinned to
    val      \* what a lookup gave it: a cache entry, Error or None

vars == <<ttl, now, cache, flight, pc, todo, pins, val>>

\* The host being looked up.
Cur(c) == Head(todo[c]).host

-----------------------------------------------------------------------------
(* dnsCache *)

Live(e) == now <= e.exp

\* Mutant of get: the expiry is left to the eviction.
getStale(h) == {e \in cache : e.host = h}

\* get: an entry of the host that has not expired.
get(h) == {e \in cache : e.host = h /\ Live(e)}

Oldest == {e \in cache : \A x \in cache : e.exp <= x.exp}

\* Mutant of Victims: eviction waits until the bound is passed.
VictimsLate == IF Cardinality(cache) > MaxEntries THEN {{e} : e \in Oldest} ELSE {{}}

\* What put may evict: an entry closest to its expiry, when the cache is full.
Victims == IF Cardinality(cache) >= MaxEntries THEN {{e} : e \in Oldest} ELSE {{}}

\* Mutant of put: the entry to evict is not looked for.
putAnywhere(e) ==
    \E v \in IF Cardinality(cache) >= MaxEntries THEN {{x} : x \in cache} ELSE {{}} :
        cache' = {x \in cache \ v : x.host # e.host} \cup {e}

\* put overwrites the host's own entry; it evicts even when there is one.
put(e) == \E v \in Victims : cache' = {x \in cache \ v : x.host # e.host} \cup {e}

-----------------------------------------------------------------------------
(* Resolve *)

\* The request's JSON is decoded; an empty list is refused.
Begin(c, srcs) ==
    /\ pc[c] = "idle"
    /\ todo' = [todo EXCEPT ![c] = srcs]
    /\ pc' = [pc EXCEPT ![c] = IF srcs = <<>> THEN "refused" ELSE "resolve"]
    /\ UNCHANGED <<ttl, now, cache, flight, pins, val>>

isAllowedPort(p) == p # "denied"    \* no port: 80 or 443, by the scheme

URLAllowed(u) ==
    /\ u.scheme \in {"http", "https"}
    /\ u.host # None
    /\ isAllowedPort(u.port)

\* The whole request is refused with the first source that is.
Refuse(c) ==
    /\ pc' = [pc EXCEPT ![c] = "refused"]
    /\ todo' = [todo EXCEPT ![c] = <<>>]
    /\ pins' = [pins EXCEPT ![c] = <<>>]
    /\ val' = [val EXCEPT ![c] = None]

RefuseURL(c) ==
    /\ pc[c] = "resolve"
    /\ ~URLAllowed(Head(todo[c]))
    /\ Refuse(c)
    /\ UNCHANGED <<ttl, now, cache, flight>>

\* lookup: without a cache, straight to DNS.
Lookup(c) ==
    /\ pc[c] = "resolve"
    /\ URLAllowed(Head(todo[c]))
    /\ pc' = [pc EXCEPT ![c] = IF ttl = 0 THEN "query" ELSE "get"]
    /\ UNCHANGED <<ttl, now, cache, flight, todo, pins, val>>

CacheHit(c) ==
    /\ pc[c] = "get"
    /\ \E e \in get(Cur(c)) : val' = [val EXCEPT ![c] = e]
    /\ pc' = [pc EXCEPT ![c] = "check"]
    /\ UNCHANGED <<ttl, now, cache, flight, todo, pins>>

CacheMiss(c) ==
    /\ pc[c] = "get"
    /\ get(Cur(c)) = {}
    /\ pc' = [pc EXCEPT ![c] = "do"]
    /\ UNCHANGED <<ttl, now, cache, flight, todo, pins, val>>

\* sf.Do: the first caller for a host runs the function,
Lead(c) ==
    /\ pc[c] = "do"
    /\ flight[Cur(c)] = None
    /\ flight' = [flight EXCEPT ![Cur(c)] = c]
    /\ pc' = [pc EXCEPT ![c] = "recheck"]
    /\ UNCHANGED <<ttl, now, cache, todo, pins, val>>

\* the others wait for what it returns.
Join(c) ==
    /\ pc[c] = "do"
    /\ flight[Cur(c)] # None
    /\ pc' = [pc EXCEPT ![c] = "wait"]
    /\ UNCHANGED <<ttl, now, cache, flight, todo, pins, val>>

\* The function looks into the cache once more.
RecheckHit(c) ==
    /\ pc[c] = "recheck"
    /\ \E e \in get(Cur(c)) : val' = [val EXCEPT ![c] = e]
    /\ pc' = [pc EXCEPT ![c] = "land"]
    /\ UNCHANGED <<ttl, now, cache, flight, todo, pins>>

\* Mutant of RecheckMiss: no second look.
RecheckSkipped(c) ==
    /\ pc[c] = "recheck"
    /\ pc' = [pc EXCEPT ![c] = "query"]
    /\ UNCHANGED <<ttl, now, cache, flight, todo, pins, val>>

RecheckMiss(c) ==
    /\ pc[c] = "recheck"
    /\ get(Cur(c)) = {}
    /\ pc' = [pc EXCEPT ![c] = "query"]
    /\ UNCHANGED <<ttl, now, cache, flight, todo, pins, val>>

\* A cache entry made now.
Stamp(h, ips) == [host |-> h, ips |-> ips, exp |-> now + ttl]

\* directLookup returns and the answer is put into the cache, if there is one.
LookupReturns(c, ips) ==
    /\ pc[c] = "query"
    /\ ips \in DNS[Cur(c)]
    /\ val' = [val EXCEPT ![c] = Stamp(Cur(c), ips)]
    /\ IF ttl = 0 THEN UNCHANGED cache ELSE put(Stamp(Cur(c), ips))
    /\ pc' = [pc EXCEPT ![c] = "land"]
    /\ UNCHANGED <<ttl, now, flight, todo, pins>>

\* DNS fails, or its five seconds are over: nothing is cached.
LookupFails(c) ==
    /\ pc[c] = "query"
    /\ val' = [val EXCEPT ![c] = Error]
    /\ pc' = [pc EXCEPT ![c] = "land"]
    /\ UNCHANGED <<ttl, now, cache, flight, todo, pins>>

\* Who gets what the function of c returned.
Landing(c) == {c} \cup {d \in Callers : pc[d] = "wait" /\ Cur(d) = Cur(c)}

\* Mutant of Land: a failed function leaves its key in the group.
LandStuck(c) ==
    /\ pc[c] = "land"
    /\ val' = [d \in Callers |-> IF d \in Landing(c) THEN val[c] ELSE val[d]]
    /\ pc' = [d \in Callers |-> IF d \in Landing(c) THEN "check" ELSE pc[d]]
    /\ flight' = IF val[c] = Error THEN flight ELSE [flight EXCEPT ![Cur(c)] = None]
    /\ UNCHANGED <<ttl, now, cache, todo, pins>>

\* The function returns: its key is given up and the waiting callers wake.
Land(c) ==
    /\ pc[c] = "land"
    /\ val' = [d \in Callers |-> IF d \in Landing(c) THEN val[c] ELSE val[d]]
    /\ pc' = [d \in Callers |-> IF d \in Landing(c) THEN "check" ELSE pc[d]]
    /\ flight' = [flight EXCEPT ![Cur(c)] = None]
    /\ UNCHANGED <<ttl, now, cache, todo, pins>>

-----------------------------------------------------------------------------
(* The answer is judged and the source pinned *)

\* classifyIP: the first range that applies names the reason, "" is none.
classifyIP(a) ==
    IF "unspecified" \in a THEN "unspecified"
    ELSE IF "loopback" \in a THEN "loopback"
    ELSE IF "metadata_ip" \in a THEN "metadata_ip"
    ELSE IF "link_local" \in a THEN "link_local"
    ELSE IF "multicast" \in a THEN "multicast"
    ELSE IF "private" \in a THEN "private"
    ELSE IF "blocked_cidr" \in a THEN "blocked_cidr"
    ELSE ""

\* Mutant of Acceptable: only the address that will be pinned is looked at.
AcceptableFirst(v) ==
    /\ v # Error
    /\ v.ips # <<>>
    /\ classifyIP(Head(v.ips)) = ""

Acceptable(v) ==
    /\ v # Error
    /\ v.ips # <<>>
    /\ \A i \in DOMAIN v.ips : classifyIP(v.ips[i]) = ""

RefuseAnswer(c) ==
    /\ pc[c] = "check"
    /\ ~Acceptable(val[c])
    /\ Refuse(c)
    /\ UNCHANGED <<ttl, now, cache, flight>>

\* One turn of validateSources' loop ends; the last one accepts the request.
Pin(c) ==
    /\ pc[c] = "check"
    /\ Acceptable(val[c])
    /\ pins' = [pins EXCEPT ![c] = Append(@, [source |-> Cur(c), ips |-> val[c].ips])]
    /\ todo' = [todo EXCEPT ![c] = Tail(@)]
    /\ pc' = [pc EXCEPT ![c] = IF Len(todo[c]) = 1 THEN "accepted" ELSE "resolve"]
    /\ val' = [val EXCEPT ![c] = None]
    /\ UNCHANGED <<ttl, now, cache, flight>>

-----------------------------------------------------------------------------
\* Time passes while a caller waits for DNS or between its steps; what a
\* function returned is handed over within the same instant.
Tick ==
    /\ now < MaxTime
    /\ \A c \in Callers : pc[c] # "land"
    /\ now' = now + 1
    /\ UNCHANGED <<ttl, cache, flight, pc, todo, pins, val>>

Init ==
    /\ ttl \in TTLs
    /\ now = 0
    /\ cache = {}
    /\ flight = [h \in Hosts |-> None]
    /\ pc = [c \in Callers |-> "idle"]
    /\ todo = [c \in Callers |-> <<>>]
    /\ pins = [c \in Callers |-> <<>>]
    /\ val = [c \in Callers |-> None]

\* Steps a caller takes by itself.
Proceed(c) ==
    \/ RefuseURL(c) \/ Lookup(c) \/ CacheHit(c) \/ CacheMiss(c)
    \/ Lead(c) \/ Join(c) \/ RecheckHit(c) \/ RecheckMiss(c) \/ Land(c)
    \/ RefuseAnswer(c) \/ Pin(c)

\* What ends a DNS query.
QueryEnds(c) == LookupFails(c) \/ \E ips \in Answers : LookupReturns(c, ips)

Done == \A c \in Callers : pc[c] \in {"idle", "refused", "accepted"}

Next ==
    \/ \E c \in Callers :
          \/ \E srcs \in Lists[c] : Begin(c, srcs)
          \/ Proceed(c)
          \/ QueryEnds(c)
    \/ Tick
    \/ Done /\ UNCHANGED vars

Spec == Init /\ [][Next]_vars

\* Goroutines are scheduled; directLookup's context ends a query after 5 s.
Fairness == \A c \in Callers : WF_vars(Proceed(c)) /\ WF_vars(QueryEnds(c))

FairSpec == Spec /\ Fairness

-----------------------------------------------------------------------------
(* Properties *)

Looking == {"get", "do", "wait", "recheck", "query", "land"}

\* Types; a caller inside Resolve has a source left, and what a function
\* returned is about the host its caller asked for.
TypeOK ==
    /\ ttl \in Nat /\ now \in Nat
    /\ cache \subseteq Entries
    /\ flight \in [Hosts -> Callers \cup {None}]
    /\ pc \in [Callers -> {"idle", "resolve", "check", "refused", "accepted"} \cup Looking]
    /\ todo \in [Callers -> Seq(URLs)]
    /\ pins \in [Callers -> Seq(Pinned)]
    /\ val \in [Callers -> Entries \cup {Error, None}]
    /\ \A c \in Callers : pc[c] \in {"resolve", "check"} \cup Looking => todo[c] # <<>>
    /\ \A c \in Callers : pc[c] \in {"check"} \cup Looking => Cur(c) \in Hosts
    /\ \A c \in Callers : pc[c] \in {"check", "land"} =>
          \/ val[c] = Error
          \/ val[c] \in [host: {Cur(c)}, ips: DNS[Cur(c)], exp: Nat]

\* The cache holds a host once and never more than its bound, whichever
\* lookups end together.
CacheBounded ==
    /\ IsFiniteSet(cache) /\ Cardinality(cache) <= MaxEntries
    /\ \A x, y \in cache : x.host = y.host => x = y

\* With a cache, no two callers ask DNS for one host at a time.
OneQueryPerHost ==
    ttl > 0 => \A c, d \in Callers :
        pc[c] = "query" /\ pc[d] = "query" /\ Cur(c) = Cur(d) => c = d

\* DNS is not asked for a host whose answer is cached and has not expired,
\* even when it was cached between a caller's miss and its turn.
NoNeedlessQuery == \A c \in Callers : pc[c] = "query" => get(Cur(c)) = {}

\* DNS is asked by one caller at a time for a host, and only when it must be.
LeanLookups == OneQueryPerHost /\ NoNeedlessQuery

\* An accepted request's sources are pinned to answers DNS gave for their own
\* hosts, in which no address lies in a blocked range.
AcceptedIsVetted ==
    \A c \in Callers : pc[c] = "accepted" =>
        /\ pins[c] # <<>>
        /\ \A i \in DOMAIN pins[c] :
              /\ pins[c][i].ips \in DNS[pins[c][i].source]
              /\ \A k \in DOMAIN pins[c][i].ips : pins[c][i].ips[k] = {}

\* The cache gives up a host's answer while it is good only when it has no
\* expired one to give up.
EvictsExpiredFirst ==
    [][\A e \in cache : Live(e) /\ (\A x \in cache' : x.host # e.host) =>
          \A x \in cache : Live(x)]_vars

\* Every request is accepted or refused: no caller waits for a function that
\* is over, and none is left behind by a failed lookup.
ResolveEnds == \A c \in Callers : pc[c] = "resolve" ~> pc[c] \in {"accepted", "refused"}

\* A cached or shared answer is as good as one from DNS within the TTL.
Names == INSTANCE NameService WITH
    known <- cache \cup ({val[c] : c \in {d \in Callers : pc[d] = "land"}} \ {Error}),
    want  <- [c \in Callers |-> IF pc[c] \in Looking THEN Cur(c) ELSE None],
    told  <- [c \in Callers |-> IF pc[c] = "check" THEN val[c] ELSE None]

\* The resolver implements NameService.
AnswersFresh == Names!Spec

=============================================================================
