---------------------------- MODULE NameService ----------------------------
(***************************************************************************)
(* What the resolver of source URLs promises its callers about names: a    *)
(* caller that asks for a host is told something DNS said of that host,    *)
(* at most the configured TTL ago, or that the lookup failed.  What the    *)
(* service remembers in between, and what it forgets, is its own affair.   *)
(***************************************************************************)
EXTENDS Naturals

CONSTANTS
    Callers,    \* requests that resolve names
    Hosts,      \* host names
    Answers,    \* what DNS may say: sequences of addresses
    None,       \* no host
    Error       \* the lookup failed

VARIABLES
    ttl,        \* security.ssrf.dns_cache_ttl
    now,        \* the clock
    known,      \* what DNS has said and is still remembered
    want,       \* the host a caller waits for, or None
    told        \* what a caller has been told: a fact, Error or None

vars == <<ttl, now, known, want, told>>

\* DNS said ips of host; good until exp.
Fact == [host: Hosts, ips: Answers, exp: Nat]

Init ==
    /\ ttl \in Nat
    /\ now = 0
    /\ known = {}
    /\ want = [c \in Callers |-> None]
    /\ told = [c \in Callers |-> None]

Ask(c, h) ==
    /\ want[c] = None
    /\ want' = [want EXCEPT ![c] = h]
    /\ UNCHANGED <<ttl, now, known, told>>

\* DNS answers now; older facts may be forgotten at any time.
Learn(h, ips) ==
    /\ known' \subseteq known \cup {[host |-> h, ips |-> ips, exp |-> now + ttl]}
    /\ UNCHANGED <<ttl, now, want, told>>

\* The callers of S, who wait for the same host, are told x.
Tell(S, x) ==
    /\ want' = [c \in Callers |-> IF c \in S THEN None ELSE want[c]]
    /\ told' = [c \in Callers |-> IF c \in S THEN x ELSE told[c]]
    /\ known' \subseteq known
    /\ UNCHANGED <<ttl, now>>

Reply(S, f) ==
    /\ f \in known /\ now <= f.exp
    /\ \A c \in S : want[c] = f.host
    /\ Tell(S, f)

Fail(S, h) ==
    /\ \A c \in S : want[c] = h
    /\ Tell(S, Error)

\* The caller is done with what it was told.
Use(c) ==
    /\ told' = [told EXCEPT ![c] = None]
    /\ UNCHANGED <<ttl, now, known, want>>

Tick ==
    /\ now' = now + 1
    /\ UNCHANGED <<ttl, known, want, told>>

Next ==
    \/ \E c \in Callers, h \in Hosts : Ask(c, h)
    \/ \E h \in Hosts, ips \in Answers : Learn(h, ips)
    \/ \E S \in SUBSET Callers :
          \/ \E f \in known : Reply(S, f)
          \/ \E h \in Hosts : Fail(S, h)
    \/ \E c \in Callers : Use(c)
    \/ Tick

Spec == Init /\ [][Next]_vars

=============================================================================
