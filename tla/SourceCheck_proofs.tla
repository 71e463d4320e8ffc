------------------------- MODULE SourceCheck_proofs -------------------------
(***************************************************************************)
(* Proofs about SourceCheck, for any set of callers and hosts, any TTL and *)
(* any size of the cache: types, the bound of the cache, the economy of    *)
(* lookups, the vetting of pinned addresses, and the refinement of         *)
(* NameService.                                                            *)
(***************************************************************************)
EXTENDS SourceCheck, FiniteSetTheorems, TLAPS

\* Who runs the function of a host holds its key; without a cache there is
\* nothing but DNS.
Leads ==
    /\ \A c \in Callers : pc[c] = "recheck" => flight[Cur(c)] = c
    /\ ttl > 0 => \A c \in Callers : pc[c] \in {"query", "land"} => flight[Cur(c)] = c
    /\ ttl = 0 => cache = {} /\ \A c \in Callers : pc[c] \notin {"get", "do", "wait", "recheck"}

\* The cache repeats DNS, and what a function returns is still good.
Truthful ==
    /\ \A e \in cache : e.ips \in DNS[e.host]
    /\ \A c \in Callers : pc[c] = "land" /\ val[c] # Error => Live(val[c])

\* What has been pinned so far is vetted.
Vetted ==
    /\ \A c \in Callers : \A i \in DOMAIN pins[c] :
          /\ pins[c][i].ips \in DNS[pins[c][i].source]
          /\ \A k \in DOMAIN pins[c][i].ips : pins[c][i].ips[k] = {}
    /\ \A c \in Callers : pc[c] = "accepted" => pins[c] # <<>>

\* An address in no range has no reason against it, and no other has none.
LEMMA ClearAddress ==
    ASSUME NEW a \in SUBSET Ranges, classifyIP(a) = ""
    PROVE  a = {}
  BY DEF classifyIP, Ranges

PCs == {"idle", "resolve", "check", "refused", "accepted"} \cup Looking

\* What TypeOK says of one caller.
CallerOK(p, t, v) ==
    /\ p \in {"resolve", "check"} \cup Looking => t # <<>>
    /\ p \in {"check"} \cup Looking => Head(t).host \in Hosts
    /\ p \in {"check", "land"} =>
          v = Error \/ v \in [host: {Head(t).host}, ips: DNS[Head(t).host], exp: Nat]

Shape ==
    /\ ttl \in Nat /\ now \in Nat
    /\ cache \subseteq Entries
    /\ flight \in [Hosts -> Callers \cup {None}]
    /\ pc \in [Callers -> PCs]
    /\ todo \in [Callers -> Seq(URLs)]
    /\ pins \in [Callers -> Seq(Pinned)]
    /\ val \in [Callers -> Entries \cup {Error, None}]

\* TypeOK is the shape of the state and one condition per caller.
LEMMA TypeParts == TypeOK <=> Shape /\ \A c \in Callers : CallerOK(pc[c], todo[c], val[c])
  BY DEF TypeOK, Shape, CallerOK, PCs, Cur

\* A step of caller c touches what c holds and nobody else's.
Own(c, p, t, v, q) ==
    /\ pc' = [pc EXCEPT ![c] = p]
    /\ todo' = [todo EXCEPT ![c] = t]
    /\ val' = [val EXCEPT ![c] = v]
    /\ pins' = [pins EXCEPT ![c] = q]
    /\ UNCHANGED <<ttl, now>>

\* Such a step keeps the types when c's own part keeps them.
LEMMA OwnKeeps ==
    ASSUME TypeOK, NEW c \in Callers,
           NEW p \in PCs, NEW t \in Seq(URLs), NEW v \in Entries \cup {Error, None},
           NEW q \in Seq(Pinned), Own(c, p, t, v, q),
           cache' \subseteq Entries,
           flight' \in [Hosts -> Callers \cup {None}],
           CallerOK(p, t, v)
    PROVE  TypeOK'
<1>0. Shape /\ \A d \in Callers : CallerOK(pc[d], todo[d], val[d])
  BY TypeParts
<1>1. Shape'
  BY <1>0 DEF Shape, Own
<1>2. ASSUME NEW d \in Callers PROVE CallerOK(pc'[d], todo'[d], val'[d])
  <2>1. CASE d = c
    BY <1>0, <2>1 DEF Shape, Own
  <2>2. CASE d # c
    BY <1>0, <2>2 DEF Shape, Own
  <2> QED
    BY <2>1, <2>2
<1> QED
  BY <1>1, <1>2 DEF TypeOK, Shape, CallerOK, PCs, Cur

-----------------------------------------------------------------------------
(* Types *)

\* Every step keeps the types, given that the cache repeats DNS.
LEMMA TypeStep ==
    ASSUME TypeOK, Truthful, [Next]_vars
    PROVE  TypeOK'
<1> USE SourceAssumption
<1>0. Shape /\ \A c \in Callers : CallerOK(pc[c], todo[c], val[c])
  BY TypeParts
<1>1. ASSUME NEW c \in Callers, NEW srcs \in Lists[c], Begin(c, srcs) PROVE TypeOK'
  <2> DEFINE p == IF srcs = <<>> THEN "refused" ELSE "resolve"
  <2>1. Own(c, p, srcs, val[c], pins[c]) /\ UNCHANGED <<cache, flight>>
    BY <1>0, <1>1 DEF Begin, Own, Shape
  <2>2. srcs \in Seq(URLs) /\ p \in PCs
    BY DEF PCs
  <2>3. CallerOK(p, srcs, val[c])
    BY DEF CallerOK, Looking
  <2> QED
    BY <1>0, <2>1, <2>2, <2>3, OwnKeeps DEF Shape
<1>2. ASSUME NEW c \in Callers, RefuseURL(c) \/ RefuseAnswer(c) PROVE TypeOK'
  <2>1. Own(c, "refused", <<>>, None, <<>>) /\ UNCHANGED <<cache, flight>>
    BY <1>0, <1>2 DEF RefuseURL, RefuseAnswer, Refuse, Own, Shape
  <2>2. CallerOK("refused", <<>>, None)
    BY DEF CallerOK, Looking
  <2>3. <<>> \in Seq(URLs) /\ <<>> \in Seq(Pinned) /\ "refused" \in PCs
    BY DEF PCs
  <2> QED
    BY <1>0, <2>1, <2>2, <2>3, OwnKeeps DEF Shape
<1>3. ASSUME NEW c \in Callers, Lookup(c) PROVE TypeOK'
  <2> DEFINE p == IF ttl = 0 THEN "query" ELSE "get"
  <2>1. Own(c, p, todo[c], val[c], pins[c]) /\ UNCHANGED <<cache, flight>>
    BY <1>0, <1>3 DEF Lookup, Own, Shape
  <2>2. todo[c] # <<>> /\ Head(todo[c]).host \in Hosts
    <3>1. todo[c] # <<>> /\ todo[c] \in Seq(URLs)
      BY <1>0, <1>3 DEF Lookup, CallerOK, Shape
    <3>2. Head(todo[c]) \in URLs
      BY <3>1
    <3> QED
      BY <1>3, <3>1, <3>2 DEF Lookup, URLAllowed, URLs
  <2>3. CallerOK(p, todo[c], val[c])
    BY <2>2 DEF CallerOK, Looking
  <2> QED
    BY <1>0, <2>1, <2>3, OwnKeeps DEF Shape, PCs, Looking
<1>4. ASSUME NEW c \in Callers, CacheHit(c) \/ RecheckHit(c) PROVE TypeOK'
  <2>1. PICK e \in get(Cur(c)) : val' = [val EXCEPT ![c] = e]
    BY <1>4 DEF CacheHit, RecheckHit
  <2>2. PICK p \in {"check", "land"} : pc' = [pc EXCEPT ![c] = p]
    BY <1>4 DEF CacheHit, RecheckHit
  <2>3. Own(c, p, todo[c], e, pins[c]) /\ UNCHANGED <<cache, flight>>
    BY <1>0, <1>4, <2>1, <2>2 DEF CacheHit, RecheckHit, Own, Shape
  <2>4. todo[c] # <<>> /\ Head(todo[c]).host \in Hosts
    BY <1>0, <1>4 DEF CacheHit, RecheckHit, CallerOK, Looking
  <2>5. e \in Entries /\ e.host = Head(todo[c]).host /\ e.ips \in DNS[e.host]
    BY <1>0 DEF get, Cur, Truthful, Shape
  <2>6. e \in [host: {Head(todo[c]).host}, ips: DNS[Head(todo[c]).host], exp: Nat]
    BY <2>5 DEF Entries
  <2>7. CallerOK(p, todo[c], e)
    BY <2>4, <2>6 DEF CallerOK, Looking
  <2> QED
    BY <1>0, <2>3, <2>5, <2>7, OwnKeeps DEF Shape, PCs, Looking
<1>5. ASSUME NEW c \in Callers, CacheMiss(c) \/ Lead(c) \/ Join(c) \/ RecheckMiss(c)
      PROVE  TypeOK'
  <2>1. PICK p \in {"do", "recheck", "wait", "query"} : pc' = [pc EXCEPT ![c] = p]
    BY <1>5 DEF CacheMiss, Lead, Join, RecheckMiss
  <2>2. Own(c, p, todo[c], val[c], pins[c]) /\ UNCHANGED cache
    BY <1>0, <1>5, <2>1 DEF CacheMiss, Lead, Join, RecheckMiss, Own, Shape
  <2>3. todo[c] # <<>> /\ Head(todo[c]).host \in Hosts
    BY <1>0, <1>5 DEF CacheMiss, Lead, Join, RecheckMiss, CallerOK, Looking
  <2>4. flight' \in [Hosts -> Callers \cup {None}]
    BY <1>0, <1>5, <2>3 DEF CacheMiss, Lead, Join, RecheckMiss, Shape, Cur
  <2>5. CallerOK(p, todo[c], val[c])
    BY <2>3 DEF CallerOK, Looking
  <2> QED
    BY <1>0, <2>2, <2>4, <2>5, OwnKeeps DEF Shape, PCs, Looking
<1>6. ASSUME NEW c \in Callers, QueryEnds(c) PROVE TypeOK'
  <2>1. pc[c] = "query"
    BY <1>6 DEF QueryEnds, LookupFails, LookupReturns
  <2>2. todo[c] # <<>> /\ Head(todo[c]).host \in Hosts
    BY <1>0, <2>1 DEF CallerOK, Looking
  <2>3. CASE LookupFails(c)
    <3>1. Own(c, "land", todo[c], Error, pins[c]) /\ UNCHANGED <<cache, flight>>
      BY <1>0, <2>3 DEF LookupFails, Own, Shape
    <3>2. CallerOK("land", todo[c], Error)
      BY <2>2 DEF CallerOK
    <3> QED
      BY <1>0, <3>1, <3>2, OwnKeeps DEF Shape, PCs, Looking
  <2>4. ASSUME NEW ips \in Answers, LookupReturns(c, ips) PROVE TypeOK'
    <3> DEFINE e == Stamp(Cur(c), ips)
    <3>1. Own(c, "land", todo[c], e, pins[c]) /\ UNCHANGED flight
      BY <1>0, <2>4 DEF LookupReturns, Own, Shape
    <3>2. e \in [host: {Head(todo[c]).host}, ips: DNS[Head(todo[c]).host], exp: Nat]
      BY <1>0, <2>4 DEF Stamp, LookupReturns, Shape, Cur
    <3>3. e \in Entries
      BY <1>0, <2>2 DEF Cur, Stamp, Entries, Shape
    <3>4. cache' \subseteq Entries
      BY <1>0, <2>4, <3>3 DEF LookupReturns, put, Shape
    <3>5. CallerOK("land", todo[c], e)
      BY <2>2, <3>2 DEF CallerOK
    <3> HIDE DEF e
    <3> QED
      BY <1>0, <3>1, <3>3, <3>4, <3>5, OwnKeeps DEF Shape, PCs, Looking
  <2> QED
    BY <1>6, <2>3, <2>4 DEF QueryEnds
<1>7. ASSUME NEW c \in Callers, Land(c) PROVE TypeOK'
  <2>1. Shape'
    <3>1. Cur(c) \in Hosts
      BY <1>0, <1>7 DEF Land, CallerOK, Looking, Cur
    <3> QED
      BY <1>0, <1>7, <3>1 DEF Land, Shape, PCs
  <2>2. ASSUME NEW d \in Callers PROVE CallerOK(pc'[d], todo'[d], val'[d])
    <3>1. CASE d \in Landing(c)
      <4>1. pc'[d] = "check" /\ val'[d] = val[c] /\ todo'[d] = todo[d]
        BY <1>0, <1>7, <3>1 DEF Land, Shape
      <4>2. Head(todo[d]).host = Head(todo[c]).host
        BY <3>1 DEF Landing, Cur
      <4>3. pc[c] = "land" /\ pc[d] \in Looking
        BY <1>7, <3>1 DEF Land, Landing, Looking
      <4> QED
        BY <1>0, <4>1, <4>2, <4>3 DEF CallerOK
    <3>2. CASE d \notin Landing(c)
      BY <1>0, <1>7, <3>2 DEF Land, Shape
    <3> QED
      BY <3>1, <3>2
  <2> QED
    BY <2>1, <2>2 DEF TypeOK, Shape, CallerOK, PCs, Cur
<1>8. ASSUME NEW c \in Callers, Pin(c) PROVE TypeOK'
  <2> DEFINE p == IF Len(todo[c]) = 1 THEN "accepted" ELSE "resolve"
             t == Tail(todo[c])
             x == [source |-> Cur(c), ips |-> val[c].ips]
             q == Append(pins[c], x)
  <2>1. Own(c, p, t, None, q) /\ UNCHANGED <<cache, flight>>
    BY <1>0, <1>8 DEF Pin, Own, Shape
  <2>2. todo[c] \in Seq(URLs) /\ todo[c] # <<>>
    BY <1>0, <1>8 DEF Pin, Shape, CallerOK
  <2>3. t \in Seq(URLs) /\ Len(t) = Len(todo[c]) - 1
    BY <2>2
  <2>4. CallerOK(p, t, None)
    <3>1. ASSUME t = <<>> PROVE Len(todo[c]) = 1
      <4> HIDE DEF t
      <4>1. Len(t) = 0
        BY <3>1
      <4>2. Len(todo[c]) \in Nat
        BY <2>2
      <4> QED
        BY <2>3, <4>1, <4>2
    <3>2. p \in {"accepted", "resolve"} /\ (p = "resolve" => t # <<>>)
      BY <3>1
    <3> QED
      BY <3>2 DEF CallerOK, Looking
  <2>5. Cur(c) \in Hosts /\ val[c].ips \in DNS[Cur(c)]
    BY <1>0, <1>8 DEF Pin, Acceptable, CallerOK, Cur
  <2>6. x \in Pinned
    BY <2>5 DEF Pinned, Answers
  <2>7. q \in Seq(Pinned)
    BY <1>0, <2>6 DEF Shape
  <2>8. p \in PCs
    BY DEF PCs
  <2> HIDE DEF p, t, q
  <2> QED
    BY <1>0, <2>1, <2>3, <2>4, <2>7, <2>8, OwnKeeps DEF Shape
<1>9. CASE Tick
  BY <1>9 DEF TypeOK, Tick, Cur
<1>10. CASE UNCHANGED vars
  BY <1>10 DEF TypeOK, vars, Cur
<1> QED
  BY <1>1, <1>2, <1>3, <1>4, <1>5, <1>6, <1>7, <1>8, <1>9, <1>10 DEF Next, Proceed

-----------------------------------------------------------------------------
(* The keys of the singleflight group *)

\* Keys are held by those who run the function.
LEMMA LeadsStep ==
    ASSUME TypeOK, TypeOK', Leads, [Next]_vars
    PROVE  Leads'
<1> USE SourceAssumption DEF Cur
<1>1. ASSUME NEW c \in Callers, NEW srcs \in Lists[c], Begin(c, srcs) PROVE Leads'
  BY <1>1 DEF Begin, Leads, TypeOK
<1>2. ASSUME NEW c \in Callers, RefuseURL(c) \/ RefuseAnswer(c) PROVE Leads'
  <2>1. /\ pc' = [pc EXCEPT ![c] = "refused"] /\ todo' = [todo EXCEPT ![c] = <<>>]
        /\ UNCHANGED <<ttl, cache, flight>>
    BY <1>2 DEF RefuseURL, RefuseAnswer, Refuse
  <2> QED
    BY <2>1 DEF Leads, TypeOK
<1>3. ASSUME NEW c \in Callers, Lookup(c) PROVE Leads'
  BY <1>3 DEF Lookup, Leads, TypeOK
<1>4. ASSUME NEW c \in Callers, CacheHit(c) \/ CacheMiss(c) \/ Join(c) PROVE Leads'
  <2>1. CASE CacheHit(c)
    BY <2>1 DEF CacheHit, Leads, TypeOK
  <2>2. CASE CacheMiss(c)
    BY <2>2 DEF CacheMiss, Leads, TypeOK
  <2>3. CASE Join(c)
    BY <2>3 DEF Join, Leads, TypeOK
  <2> QED
    BY <1>4, <2>1, <2>2, <2>3
<1>5. ASSUME NEW c \in Callers, Lead(c) PROVE Leads'
  BY <1>5 DEF Lead, Leads, TypeOK, Looking
<1>6. ASSUME NEW c \in Callers, RecheckHit(c) \/ RecheckMiss(c) PROVE Leads'
  BY <1>6, ZenonT(60) DEF RecheckHit, RecheckMiss, Leads, TypeOK
<1>7. ASSUME NEW c \in Callers, QueryEnds(c) PROVE Leads'
  <2>1. /\ pc[c] = "query" /\ pc' = [pc EXCEPT ![c] = "land"]
        /\ ttl = 0 => UNCHANGED cache
        /\ UNCHANGED <<ttl, todo, flight>>
    BY <1>7 DEF QueryEnds, LookupFails, LookupReturns
  <2> QED
    BY <2>1 DEF Leads, TypeOK
<1>8. ASSUME NEW c \in Callers, Land(c) PROVE Leads'
  <2>1. ASSUME NEW d \in Callers, pc'[d] \in {"recheck", "query", "land"},
               flight[Cur(d)] = d, ttl > 0
        PROVE  flight'[Cur(d)] = d
    <3>1. d # c /\ flight[Cur(c)] = c
      BY <1>8, <2>1 DEF Land, Landing, Leads, TypeOK
    <3>2. Cur(c) \in Hosts
      BY <1>8 DEF Land, TypeOK, Looking
    <3> QED
      BY <1>8, <2>1, <3>1, <3>2 DEF Land, TypeOK
  <2>2. ASSUME NEW d \in Callers, pc'[d] # "check" PROVE pc'[d] = pc[d]
    BY <1>8, <2>2 DEF Land
  <2>3. UNCHANGED <<ttl, cache, todo>>
    BY <1>8 DEF Land
  <2>4. ttl > 0 \/ ttl = 0
    BY DEF TypeOK
  <2> QED
    BY <2>1, <2>2, <2>3, <2>4 DEF Leads
<1>9. ASSUME NEW c \in Callers, Pin(c) PROVE Leads'
  BY <1>9 DEF Pin, Leads, TypeOK
<1>10. CASE Tick \/ UNCHANGED vars
  BY <1>10 DEF Tick, vars, Leads
<1> QED
  BY <1>1, <1>2, <1>3, <1>4, <1>5, <1>6, <1>7, <1>8, <1>9, <1>10 DEF Next, Proceed

\* Of two callers that query for one host, both would hold its key.
LEMMA LeadsAlone ==
    ASSUME Leads
    PROVE  OneQueryPerHost
  BY DEF Leads, OneQueryPerHost

-----------------------------------------------------------------------------
(* The cache *)

\* Only a query that returns changes the cache, with an answer stamped now.
LEMMA CacheStep ==
    ASSUME [Next]_vars
    PROVE  \/ UNCHANGED cache
           \/ \E c \in Callers, ips \in Answers :
                 LookupReturns(c, ips) /\ ttl # 0 /\ put(Stamp(Cur(c), ips))
  BY DEF Next, Proceed, vars, Begin, RefuseURL, Lookup, CacheHit, CacheMiss, Lead, Join,
         RecheckHit, RecheckMiss, Land, RefuseAnswer, Pin, QueryEnds, LookupFails,
         LookupReturns, Tick

\* put makes room before it fills it.
LEMMA PutBounded ==
    ASSUME CacheBounded, NEW e, put(e)
    PROVE  CacheBounded'
<1> USE SourceAssumption
<1>1. PICK v \in Victims : cache' = {x \in cache \ v : x.host # e.host} \cup {e}
  BY DEF put
<1> DEFINE kept == {x \in cache \ v : x.host # e.host}
<1>2. IsFiniteSet(cache \ v) /\ Cardinality(cache \ v) + 1 <= MaxEntries
  <2>1. Cardinality(cache) \in Nat
    BY FS_CardinalityType DEF CacheBounded
  <2>2. CASE Cardinality(cache) >= MaxEntries
    <3>1. PICK x \in cache : v = {x}
      BY <2>2 DEF Victims, Oldest
    <3>2. /\ IsFiniteSet(cache \ {x})
          /\ Cardinality(cache \ {x}) = Cardinality(cache) - 1
      BY FS_RemoveElement DEF CacheBounded
    <3> QED
      BY <2>1, <3>1, <3>2 DEF CacheBounded
  <2>3. CASE ~(Cardinality(cache) >= MaxEntries)
    <3>1. cache \ v = cache
      BY <2>3 DEF Victims
    <3>2. IsFiniteSet(cache)
      BY DEF CacheBounded
    <3>3. Cardinality(cache) + 1 <= MaxEntries
      BY <2>1, <2>3
    <3> QED
      BY <3>1, <3>2, <3>3, Zenon
  <2> QED
    BY <2>2, <2>3
<1>3. IsFiniteSet(kept) /\ Cardinality(kept) <= Cardinality(cache \ v)
  BY <1>2, FS_Subset
<1>4. /\ IsFiniteSet(kept \cup {e})
      /\ Cardinality(kept \cup {e}) = IF e \in kept THEN Cardinality(kept) ELSE Cardinality(kept) + 1
  BY <1>3, FS_AddElement
<1>5. Cardinality(kept) \in Nat /\ Cardinality(cache \ v) \in Nat
  BY <1>2, <1>3, FS_CardinalityType
<1>6. Cardinality(kept \cup {e}) <= MaxEntries
  BY <1>2, <1>3, <1>4, <1>5
<1>7. ASSUME NEW x \in cache', NEW y \in cache', x.host = y.host PROVE x = y
  BY <1>1, <1>7 DEF CacheBounded
<1> QED
  BY <1>1, <1>4, <1>6, <1>7 DEF CacheBounded

\* No step takes the cache past its bound or gives a host two entries.
LEMMA CacheBoundedStep ==
    ASSUME CacheBounded, [Next]_vars
    PROVE  CacheBounded'
<1>1. CASE UNCHANGED cache
  BY <1>1 DEF CacheBounded
<1>2. ASSUME NEW c \in Callers, NEW ips \in Answers, put(Stamp(Cur(c), ips))
      PROVE  CacheBounded'
  BY <1>2, PutBounded
<1> QED
  BY <1>1, <1>2, CacheStep

-----------------------------------------------------------------------------
(* What the answers are worth *)

\* Answers stay DNS's own, and are still good when a function returns them.
LEMMA TruthfulStep ==
    ASSUME TypeOK, Truthful, [Next]_vars
    PROVE  Truthful'
<1> USE SourceAssumption
<1>1. \A e \in cache' : e.ips \in DNS[e.host]
  <2>1. CASE UNCHANGED cache
    BY <2>1 DEF Truthful
  <2>2. ASSUME NEW c \in Callers, NEW ips \in Answers, LookupReturns(c, ips),
               put(Stamp(Cur(c), ips))
        PROVE  \A e \in cache' : e.ips \in DNS[e.host]
    <3>1. cache' \subseteq cache \cup {Stamp(Cur(c), ips)}
      BY <2>2 DEF put
    <3>2. Stamp(Cur(c), ips).ips = ips /\ Stamp(Cur(c), ips).host = Cur(c)
      BY DEF Stamp
    <3> QED
      BY <2>2, <3>1, <3>2 DEF Truthful, LookupReturns
  <2> QED
    BY <2>1, <2>2, CacheStep
<1>2. ASSUME NEW d \in Callers, pc'[d] = "land", val'[d] # Error PROVE now' <= val'[d].exp
  <2>1. CASE pc[d] = "land" /\ val'[d] = val[d] /\ now' = now
    BY <1>2, <2>1 DEF Truthful, Live
  <2>2. CASE RecheckHit(d)
    BY <2>2 DEF RecheckHit, get, Live, TypeOK
  <2>3. ASSUME NEW ips \in Answers, LookupReturns(d, ips) PROVE now' <= val'[d].exp
    <3>1. val'[d] = Stamp(Cur(d), ips) /\ now' = now
      BY <2>3 DEF LookupReturns, TypeOK
    <3>2. now \in Nat /\ ttl \in Nat
      BY DEF TypeOK
    <3> QED
      BY <3>1, <3>2 DEF Stamp
  <2>4. CASE LookupFails(d)
    BY <1>2, <2>4 DEF LookupFails, TypeOK
  <2>5. \/ pc[d] = "land" /\ val'[d] = val[d] /\ now' = now
        \/ RecheckHit(d) \/ QueryEnds(d)
    <3>1. CASE UNCHANGED vars
      BY <1>2, <3>1 DEF vars
    <3>2. CASE Tick
      BY <1>2, <3>2 DEF Tick
    <3>3. ASSUME NEW c \in Callers, NEW srcs, Begin(c, srcs)
          PROVE  pc[d] = "land" /\ val'[d] = val[d] /\ now' = now
      BY <1>2, <3>3 DEF Begin, TypeOK
    <3>4. ASSUME NEW c \in Callers, Land(c)
          PROVE  pc[d] = "land" /\ val'[d] = val[d] /\ now' = now
      BY <1>2, <3>4 DEF Land
    <3>5. ASSUME NEW c \in Callers, RefuseURL(c) \/ RefuseAnswer(c)
          PROVE  pc[d] = "land" /\ val'[d] = val[d] /\ now' = now
      BY <1>2, <3>5 DEF RefuseURL, RefuseAnswer, Refuse, TypeOK
    <3>6. ASSUME NEW c \in Callers, Lookup(c)
          PROVE  pc[d] = "land" /\ val'[d] = val[d] /\ now' = now
      BY <1>2, <3>6 DEF Lookup, TypeOK
    <3>7. ASSUME NEW c \in Callers, CacheHit(c) \/ CacheMiss(c) \/ Lead(c) \/ Join(c) \/ RecheckMiss(c)
          PROVE  pc[d] = "land" /\ val'[d] = val[d] /\ now' = now
      BY <1>2, <3>7 DEF CacheHit, CacheMiss, Lead, Join, RecheckMiss, TypeOK
    <3>8. ASSUME NEW c \in Callers, Pin(c)
          PROVE  pc[d] = "land" /\ val'[d] = val[d] /\ now' = now
      BY <1>2, <3>8 DEF Pin, TypeOK
    <3>9. ASSUME NEW c \in Callers, RecheckHit(c) \/ QueryEnds(c), c # d
          PROVE  pc[d] = "land" /\ val'[d] = val[d] /\ now' = now
      BY <1>2, <3>9 DEF RecheckHit, QueryEnds, LookupFails, LookupReturns, TypeOK
    <3> QED
      BY <3>1, <3>2, <3>3, <3>4, <3>5, <3>6, <3>7, <3>8, <3>9 DEF Next, Proceed
  <2> QED
    BY <2>1, <2>2, <2>3, <2>4, <2>5 DEF QueryEnds
<1> QED
  BY <1>1, <1>2 DEF Truthful, Live

\* An answer put into the cache is for the host of its own query.
LEMMA NoNeedlessStep ==
    ASSUME TypeOK, TypeOK', Leads, NoNeedlessQuery, [Next]_vars
    PROVE  NoNeedlessQuery'
<1> USE SourceAssumption
<1> SUFFICES ASSUME NEW d \in Callers, pc'[d] = "query",
                    NEW e \in cache', e.host = Cur(d)', now' <= e.exp
             PROVE  FALSE
  BY DEF NoNeedlessQuery, get, Live
<1>1. CASE UNCHANGED vars
  BY <1>1 DEF vars, NoNeedlessQuery, get, Live, Cur
<1>2. CASE Tick
  <2>1. pc[d] = "query" /\ e \in cache /\ e.host = Cur(d) /\ e.exp \in Nat /\ now \in Nat
    BY <1>2 DEF Tick, Cur, TypeOK, Entries
  <2>2. now + 1 <= e.exp
    BY <1>2 DEF Tick
  <2> QED
    BY <2>1, <2>2 DEF NoNeedlessQuery, get, Live
<1>3. ASSUME NEW c \in Callers, NEW srcs, Begin(c, srcs) PROVE FALSE
  BY <1>3 DEF Begin, TypeOK, NoNeedlessQuery, get, Live, Cur
<1>4. ASSUME NEW c \in Callers, RefuseURL(c) \/ RefuseAnswer(c) PROVE FALSE
  <2>1. /\ pc' = [pc EXCEPT ![c] = "refused"] /\ todo' = [todo EXCEPT ![c] = <<>>]
        /\ UNCHANGED <<now, cache>>
    BY <1>4 DEF RefuseURL, RefuseAnswer, Refuse
  <2> QED
    BY <2>1 DEF TypeOK, NoNeedlessQuery, get, Live, Cur
<1>5. ASSUME NEW c \in Callers, Lookup(c) PROVE FALSE
  <2>1. CASE d = c
    BY <1>5, <2>1 DEF Lookup, TypeOK, Leads
  <2>2. CASE d # c
    BY <1>5, <2>2 DEF Lookup, TypeOK, NoNeedlessQuery, get, Live, Cur
  <2> QED
    BY <2>1, <2>2
<1>6. ASSUME NEW c \in Callers, CacheHit(c) \/ CacheMiss(c) \/ Lead(c) \/ Join(c) \/ RecheckHit(c)
      PROVE  FALSE
  <2>1. PICK p \in {"check", "do", "recheck", "wait", "land"} : pc' = [pc EXCEPT ![c] = p]
    BY <1>6 DEF CacheHit, CacheMiss, Lead, Join, RecheckHit
  <2>2. UNCHANGED <<now, cache, todo>>
    BY <1>6 DEF CacheHit, CacheMiss, Lead, Join, RecheckHit
  <2> QED
    BY <2>1, <2>2 DEF TypeOK, NoNeedlessQuery, get, Live, Cur
<1>7. ASSUME NEW c \in Callers, RecheckMiss(c) PROVE FALSE
  BY <1>7 DEF RecheckMiss, TypeOK, NoNeedlessQuery, get, Live, Cur
<1>8. ASSUME NEW c \in Callers, QueryEnds(c) PROVE FALSE
  <2>1. /\ pc[c] = "query" /\ pc' = [pc EXCEPT ![c] = "land"]
        /\ UNCHANGED <<now, ttl, todo>>
    BY <1>8 DEF QueryEnds, LookupFails, LookupReturns
  <2>2. d # c /\ pc[d] = "query" /\ e.host = Cur(d)
    BY <2>1 DEF TypeOK, Cur
  <2>3. e \notin cache
    BY <2>1, <2>2 DEF NoNeedlessQuery, get, Live
  <2>4. PICK ips \in Answers : LookupReturns(c, ips) /\ ttl # 0 /\ put(Stamp(Cur(c), ips))
    BY <1>8, <2>3 DEF QueryEnds, LookupFails, LookupReturns
  <2>5. e = Stamp(Cur(c), ips)
    BY <2>3, <2>4 DEF put
  <2>6. Cur(c) = Cur(d)
    BY <2>2, <2>5 DEF Stamp
  <2>7. ttl > 0
    BY <2>4 DEF TypeOK
  <2> QED
    BY <2>1, <2>2, <2>6, <2>7 DEF Leads
<1>9. ASSUME NEW c \in Callers, Land(c) PROVE FALSE
  BY <1>9 DEF Land, NoNeedlessQuery, get, Live, Cur
<1>10. ASSUME NEW c \in Callers, Pin(c) PROVE FALSE
  BY <1>10 DEF Pin, TypeOK, NoNeedlessQuery, get, Live, Cur
<1> QED
  BY <1>1, <1>2, <1>3, <1>4, <1>5, <1>6, <1>7, <1>8, <1>9, <1>10 DEF Next, Proceed

-----------------------------------------------------------------------------
(* What has been pinned *)

\* A pinned answer was judged address by address.
LEMMA VettedStep ==
    ASSUME TypeOK, TypeOK', Vetted, [Next]_vars
    PROVE  Vetted'
<1> USE SourceAssumption
<1>1. ASSUME NEW c \in Callers, Pin(c) PROVE Vetted'
  <2> DEFINE x == [source |-> Cur(c), ips |-> val[c].ips]
  <2>1. pins'[c] = Append(pins[c], x) /\ \A d \in Callers : d # c => pins'[d] = pins[d]
    BY <1>1 DEF Pin, TypeOK
  <2>2. Cur(c) \in Hosts /\ val[c].ips \in DNS[Cur(c)]
    BY <1>1 DEF Pin, Acceptable, TypeOK
  <2>3. ASSUME NEW k \in DOMAIN val[c].ips PROVE val[c].ips[k] = {}
    <3>1. classifyIP(val[c].ips[k]) = ""
      BY <1>1 DEF Pin, Acceptable
    <3>2. val[c].ips \in Seq(SUBSET Ranges)
      BY <2>2
    <3>3. val[c].ips[k] \in SUBSET Ranges
      BY <3>2
    <3> QED
      BY <3>1, <3>3, ClearAddress
  <2>4. x.ips \in DNS[x.source] /\ \A k \in DOMAIN x.ips : x.ips[k] = {}
    BY <2>2, <2>3
  <2>5. pins[c] \in Seq(Pinned) /\ x \in Pinned
    BY <2>2 DEF TypeOK, Pinned, Answers
  <2> HIDE DEF x
  <2>6. ASSUME NEW i \in DOMAIN pins'[c]
        PROVE  /\ pins'[c][i].ips \in DNS[pins'[c][i].source]
               /\ \A k \in DOMAIN pins'[c][i].ips : pins'[c][i].ips[k] = {}
    <3>1. (i \in DOMAIN pins[c] /\ pins'[c][i] = pins[c][i]) \/ pins'[c][i] = x
      BY <2>1, <2>5
    <3> QED
      BY <2>4, <3>1 DEF Vetted
  <2>7. pins'[c] # <<>>
    <3>1. Len(Append(pins[c], x)) # 0
      BY <2>5
    <3>2. Len(<<>>) = 0
      OBVIOUS
    <3> QED
      BY <2>1, <3>1, <3>2, Zenon
  <2>8. \A d \in Callers : d # c => pc'[d] = pc[d]
    BY <1>1 DEF Pin, TypeOK
  <2> QED
    BY <2>1, <2>6, <2>7, <2>8, SMTT(60) DEF Vetted
<1>2. ASSUME NEW c \in Callers, RefuseURL(c) \/ RefuseAnswer(c) PROVE Vetted'
  <2>1. /\ pc' = [pc EXCEPT ![c] = "refused"]
        /\ pins' = [pins EXCEPT ![c] = <<>>]
    BY <1>2 DEF RefuseURL, RefuseAnswer, Refuse
  <2> QED
    BY <2>1 DEF Vetted, TypeOK
<1>3. ASSUME UNCHANGED pins, \A d \in Callers : pc'[d] = "accepted" => pc[d] = "accepted"
      PROVE  Vetted'
  BY <1>3 DEF Vetted
<1>4. ASSUME NEW c \in Callers, NEW srcs, Begin(c, srcs) PROVE Vetted'
  BY <1>3, <1>4 DEF Begin, TypeOK
<1>5. ASSUME NEW c \in Callers, Land(c) PROVE Vetted'
  BY <1>3, <1>5 DEF Land
<1>6. ASSUME NEW c \in Callers,
             Lookup(c) \/ CacheHit(c) \/ CacheMiss(c) \/ Lead(c) \/ Join(c)
      PROVE  Vetted'
  BY <1>3, <1>6 DEF Lookup, CacheHit, CacheMiss, Lead, Join, TypeOK
<1>7. ASSUME NEW c \in Callers, RecheckHit(c) \/ RecheckMiss(c) \/ QueryEnds(c) PROVE Vetted'
  BY <1>3, <1>7 DEF RecheckHit, RecheckMiss, QueryEnds, LookupFails, LookupReturns, TypeOK
<1>8. CASE Tick \/ UNCHANGED vars
  BY <1>8 DEF Tick, vars, Vetted
<1> QED
  BY <1>1, <1>2, <1>4, <1>5, <1>6, <1>7, <1>8 DEF Next, Proceed

-----------------------------------------------------------------------------
(* The inductive invariant and what follows from it *)

Inv ==
    /\ TypeOK
    /\ Leads
    /\ CacheBounded
    /\ Truthful
    /\ NoNeedlessQuery
    /\ Vetted

\* The resolver starts within the invariant,
LEMMA InvInit == Init => Inv
<1> SUFFICES ASSUME Init PROVE Inv
  OBVIOUS
<1> USE SourceAssumption
<1>1. TypeOK
  BY DEF Init, TypeOK, Looking, Cur
<1>2. Leads /\ Truthful /\ NoNeedlessQuery
  BY DEF Init, Leads, Truthful, NoNeedlessQuery
<1>3. CacheBounded
  <2>1. IsFiniteSet({}) /\ Cardinality({}) = 0
    BY FS_EmptySet
  <2> QED
    BY <2>1 DEF Init, CacheBounded
<1>4. Vetted
  BY DEF Init, Vetted
<1> QED
  BY <1>1, <1>2, <1>3, <1>4 DEF Inv

\* every step keeps it,
LEMMA InvStep == Inv /\ [Next]_vars => Inv'
  BY TypeStep, LeadsStep, CacheBoundedStep, TruthfulStep, NoNeedlessStep, VettedStep DEF Inv

\* so it always holds.
LEMMA Invariance == Spec => []Inv
  BY InvInit, InvStep, PTL DEF Spec

\* A caller that looks a name up has a source left, and what it is told is
\* about that source's host.
THEOREM SourceTypes == Spec => []TypeOK
<1>1. Inv => TypeOK
  BY DEF Inv
<1> QED
  BY <1>1, Invariance, PTL

\* dnsCache.put keeps the cache within its bound, whatever lookups end.
THEOREM CacheStaysBounded == Spec => []CacheBounded
<1>1. Inv => CacheBounded
  BY DEF Inv
<1> QED
  BY <1>1, Invariance, PTL

\* The singleflight group lets one caller at a time ask DNS for a host, and the
\* second look into the cache, inside it, makes a query for a cached host
\* impossible.
THEOREM LookupsAreLean == Spec => []LeanLookups
<1>1. Inv => LeanLookups
  BY LeadsAlone DEF Inv, LeanLookups
<1> QED
  BY <1>1, Invariance, PTL

\* What Resolve pins holds no address of a blocked range.
THEOREM PinsAreVetted == Spec => []AcceptedIsVetted
<1>1. Inv => AcceptedIsVetted
  BY DEF Inv, Vetted, AcceptedIsVetted
<1> QED
  BY <1>1, Invariance, PTL

\* dnsCache.put evicts an entry that is still good only when none has expired:
\* the victim is one that expires first, and a host's own entry is replaced.
THEOREM ExpiredGoFirst == Spec => EvictsExpiredFirst
<1>1. ASSUME Inv, [Next]_vars, NEW e \in cache, Live(e), \A x \in cache' : x.host # e.host
      PROVE  \A x \in cache : Live(x)
  <2>1. cache \subseteq Entries /\ now \in Nat
    BY <1>1 DEF Inv, TypeOK
  <2>2. PICK c \in Callers, ips \in Answers : put(Stamp(Cur(c), ips))
    BY <1>1, CacheStep
  <2>3. PICK n : n = Stamp(Cur(c), ips)
    OBVIOUS
  <2>4. PICK v \in Victims : cache' = {x \in cache \ v : x.host # n.host} \cup {n}
    BY <2>2, <2>3 DEF put
  <2>5. e \in v
    BY <1>1, <2>4
  <2>6. e \in Oldest
    BY <2>4, <2>5 DEF Victims
  <2>7. \A x \in cache : e.exp <= x.exp /\ x.exp \in Nat
    BY <2>1, <2>6 DEF Oldest, Entries
  <2> QED
    BY <1>1, <2>1, <2>7 DEF Live
<1>2. Inv /\ [Next]_vars =>
        [\A e \in cache : Live(e) /\ (\A x \in cache' : x.host # e.host) =>
           \A x \in cache : Live(x)]_vars
  BY <1>1
<1> QED
  BY <1>2, Invariance, PTL DEF Spec, EvictsExpiredFirst

-----------------------------------------------------------------------------
(* The resolver implements NameService *)

\* The refinement mapping.
Known == cache \cup ({val[c] : c \in {d \in Callers : pc[d] = "land"}} \ {Error})
Want  == [c \in Callers |-> IF pc[c] \in Looking THEN Cur(c) ELSE None]
Told  == [c \in Callers |-> IF pc[c] = "check" THEN val[c] ELSE None]

\* A step keeps what a caller wants and was told when it keeps where it
\* stands, its source and its answer.
LEMMA MapsSame ==
    ASSUME \A c \in Callers :
              /\ (pc'[c] \in Looking <=> pc[c] \in Looking)
              /\ (pc'[c] = "check" <=> pc[c] = "check")
              /\ pc[c] \in Looking => Cur(c)' = Cur(c)
              /\ pc[c] = "check" => val'[c] = val[c]
    PROVE  Want' = Want /\ Told' = Told
  BY DEF Want, Told

\* What is known does not change with the cache and with what functions
\* are about to return.
LEMMA KnownSame ==
    ASSUME UNCHANGED cache,
           \A c \in Callers : /\ (pc'[c] = "land" <=> pc[c] = "land")
                              /\ pc[c] = "land" => val'[c] = val[c]
    PROVE  Known' = Known
  BY DEF Known

\* The steps that nobody outside can see.
LEMMA HiddenSteps ==
    ASSUME Inv, NEW c \in Callers,
           \/ \E srcs \in Lists[c] : Begin(c, srcs)
           \/ RefuseURL(c) \/ CacheMiss(c) \/ Lead(c) \/ Join(c) \/ RecheckMiss(c)
           \/ RecheckHit(c) \/ LookupFails(c)
    PROVE  UNCHANGED <<ttl, now, Known, Want, Told>>
<1> USE SourceAssumption
<1>1. TypeOK
  BY DEF Inv
<1>2. ASSUME NEW srcs \in Lists[c], Begin(c, srcs)
      PROVE  UNCHANGED <<ttl, now, Known, Want, Told>>
  BY <1>1, <1>2, MapsSame, KnownSame DEF Begin, TypeOK, Looking, Cur
<1>3. ASSUME RefuseURL(c)
      PROVE  UNCHANGED <<ttl, now, Known, Want, Told>>
  BY <1>1, <1>3, MapsSame, KnownSame DEF RefuseURL, Refuse, TypeOK, Looking, Cur
<1>4. ASSUME CacheMiss(c) \/ Lead(c) \/ Join(c) \/ RecheckMiss(c)
      PROVE  UNCHANGED <<ttl, now, Known, Want, Told>>
  <2>1. PICK p \in {"do", "recheck", "wait", "query"} : pc' = [pc EXCEPT ![c] = p]
    BY <1>4 DEF CacheMiss, Lead, Join, RecheckMiss
  <2>2. pc[c] \in {"get", "do", "recheck"} /\ UNCHANGED <<ttl, now, cache, todo, val>>
    BY <1>4 DEF CacheMiss, Lead, Join, RecheckMiss
  <2> QED
    BY <1>1, <2>1, <2>2, MapsSame, KnownSame DEF TypeOK, Looking, Cur
<1>5. ASSUME RecheckHit(c)
      PROVE  UNCHANGED <<ttl, now, Known, Want, Told>>
  <2>1. PICK e \in cache : val' = [val EXCEPT ![c] = e]
    BY <1>5 DEF RecheckHit, get
  <2>2. /\ pc[c] = "recheck" /\ pc' = [pc EXCEPT ![c] = "land"]
        /\ UNCHANGED <<ttl, now, cache, todo>>
    BY <1>5 DEF RecheckHit
  <2>3. Want' = Want /\ Told' = Told
    BY <1>1, <2>1, <2>2, MapsSame DEF TypeOK, Looking, Cur
  <2>4. Known' = Known
    BY <1>1, <2>1, <2>2 DEF TypeOK, Known
  <2> QED
    BY <2>2, <2>3, <2>4
<1>6. ASSUME LookupFails(c)
      PROVE  UNCHANGED <<ttl, now, Known, Want, Told>>
  <2>1. Want' = Want /\ Told' = Told
    BY <1>1, <1>6, MapsSame DEF LookupFails, TypeOK, Looking, Cur
  <2>2. Known' = Known
    BY <1>1, <1>6 DEF LookupFails, TypeOK, Known
  <2> QED
    BY <1>6, <2>1, <2>2 DEF LookupFails
<1> QED
  BY <1>2, <1>3, <1>4, <1>5, <1>6

\* A lookup that starts asks for the host.
LEMMA LookupAsks ==
    ASSUME Inv, Inv', NEW c \in Callers, Lookup(c)
    PROVE  \E h \in Hosts : Names!Ask(c, h)
<1> USE SourceAssumption
<1>1. TypeOK /\ TypeOK'
  BY DEF Inv
<1>2. /\ pc[c] = "resolve" /\ pc' = [pc EXCEPT ![c] = IF ttl = 0 THEN "query" ELSE "get"]
      /\ UNCHANGED <<ttl, now, cache, todo, val>>
  BY DEF Lookup
<1>3. PICK h \in Hosts : h = Cur(c)
  BY <1>1, <1>2 DEF TypeOK, Looking, Cur
<1>4. Want[c] = None /\ Want' = [Want EXCEPT ![c] = h] /\ Told' = Told
  BY <1>1, <1>2, <1>3 DEF Want, Told, TypeOK, Looking, Cur
<1>5. Known' = Known
  BY <1>1, <1>2, KnownSame DEF TypeOK
<1>6. Names!Ask(c, h)
  BY <1>2, <1>4, <1>5 DEF Names!Ask, Known, Want, Told
<1> QED
  BY <1>6

\* A hit replies to the caller alone.
LEMMA HitReplies ==
    ASSUME Inv, NEW c \in Callers, CacheHit(c)
    PROVE  \E f \in Known : Names!Reply({c}, f)
<1> USE SourceAssumption
<1>1. TypeOK
  BY DEF Inv
<1>2. PICK e \in get(Cur(c)) : val' = [val EXCEPT ![c] = e]
  BY DEF CacheHit
<1>3. /\ pc[c] = "get" /\ pc' = [pc EXCEPT ![c] = "check"]
      /\ UNCHANGED <<ttl, now, cache, todo>>
  BY DEF CacheHit
<1>4. e \in cache /\ e.host = Cur(c) /\ now <= e.exp
  BY DEF get, Live
<1>5. Want' = [d \in Callers |-> IF d \in {c} THEN None ELSE Want[d]]
  BY <1>1, <1>3 DEF Want, TypeOK, Looking, Cur
<1>6. Told' = [d \in Callers |-> IF d \in {c} THEN e ELSE Told[d]]
  BY <1>1, <1>2, <1>3 DEF Told, TypeOK
<1>7. Known' = Known
  BY <1>1, <1>2, <1>3, KnownSame DEF TypeOK
<1>8. e \in Known /\ \A d \in {c} : Want[d] = e.host
  BY <1>3, <1>4 DEF Known, Want, Looking
<1>9. Names!Tell({c}, e)
  BY <1>3, <1>5, <1>6, <1>7 DEF Names!Tell, Known, Want, Told
<1>10. Names!Reply({c}, e)
  BY <1>4, <1>8, <1>9 DEF Names!Reply, Known, Want
<1> QED
  BY <1>8, <1>10

\* DNS answers: the service learns a fact, and may forget another.
LEMMA ReturnLearns ==
    ASSUME Inv, NEW c \in Callers, NEW ips \in Answers, LookupReturns(c, ips)
    PROVE  Cur(c) \in Hosts /\ Names!Learn(Cur(c), ips)
<1> USE SourceAssumption
<1>1. TypeOK
  BY DEF Inv
<1> DEFINE e == Stamp(Cur(c), ips)
<1>2. /\ pc[c] = "query" /\ pc' = [pc EXCEPT ![c] = "land"]
      /\ val' = [val EXCEPT ![c] = e]
      /\ UNCHANGED <<ttl, now, todo>>
  BY DEF LookupReturns
<1>3. cache' \subseteq cache \cup {e}
  BY DEF LookupReturns, put
<1>4. Cur(c) \in Hosts
  BY <1>1, <1>2 DEF TypeOK, Looking
<1> HIDE DEF e
<1>5. Want' = Want /\ Told' = Told
  BY <1>1, <1>2, MapsSame DEF TypeOK, Looking, Cur
<1>6. Known' \subseteq Known \cup {e}
  BY <1>1, <1>2, <1>3 DEF Known, TypeOK
<1> USE DEF e
<1> QED
  BY <1>2, <1>4, <1>5, <1>6 DEF Names!Learn, Known, Want, Told, Stamp

\* What a function returned is told to all who waited for it.
LEMMA LandTells ==
    ASSUME Inv, NEW c \in Callers, Land(c)
    PROVE  \E S \in SUBSET Callers :
              \/ \E f \in Known : Names!Reply(S, f)
              \/ \E h \in Hosts : Names!Fail(S, h)
<1> USE SourceAssumption
<1>1. TypeOK
  BY DEF Inv
<1>2. Landing(c) \in SUBSET Callers /\ Cur(c) \in Hosts
  BY <1>1 DEF Landing, Land, TypeOK, Looking
<1>3. PICK S \in SUBSET Callers : S = Landing(c)
  BY <1>2
<1>4. PICK h \in Hosts : h = Cur(c)
  BY <1>2
<1>5. PICK x : x = val[c]
  OBVIOUS
<1>6. /\ pc[c] = "land"
      /\ val' = [d \in Callers |-> IF d \in S THEN x ELSE val[d]]
      /\ pc' = [d \in Callers |-> IF d \in S THEN "check" ELSE pc[d]]
      /\ UNCHANGED <<ttl, now, cache, todo>>
  BY <1>3, <1>5 DEF Land
<1>7. \A d \in S : pc[d] \in {"wait", "land"} /\ Cur(d) = h
  BY <1>3, <1>4, <1>6 DEF Landing
<1>8. Names!Tell(S, x)
  <2>1. Want' = [d \in Callers |-> IF d \in S THEN None ELSE Want[d]]
    BY <1>6, <1>7 DEF Want, Looking, Cur
  <2>2. Told' = [d \in Callers |-> IF d \in S THEN x ELSE Told[d]]
    BY <1>6, <1>7 DEF Told
  <2>3. Known' \subseteq Known
    BY <1>6 DEF Known
  <2> QED
    BY <1>6, <2>1, <2>2, <2>3 DEF Names!Tell, Known, Want, Told
<1>9. \A d \in S : Want[d] = h
  BY <1>7 DEF Want, Looking
<1>10. CASE x = Error
  <2>1. Names!Fail(S, h)
    BY <1>8, <1>9, <1>10 DEF Names!Fail, Names!Tell, Want
  <2> QED
    BY <1>4, <2>1
<1>11. CASE x # Error
  <2>1. x.host = h
    BY <1>1, <1>4, <1>5, <1>6, <1>11 DEF TypeOK
  <2>2. now <= x.exp
    BY <1>5, <1>6, <1>11 DEF Inv, Truthful, Live
  <2>3. x \in Known
    BY <1>5, <1>6, <1>11 DEF Known
  <2>4. Names!Reply(S, x)
    BY <1>8, <1>9, <2>1, <2>2, <2>3 DEF Names!Reply, Known, Want
  <2> QED
    BY <1>3, <2>3, <2>4
<1> QED
  BY <1>10, <1>11

\* A caller that has judged its answer is done with it.
LEMMA JudgeUses ==
    ASSUME Inv, NEW c \in Callers, RefuseAnswer(c) \/ Pin(c)
    PROVE  Names!Use(c)
<1> USE SourceAssumption
<1>1. TypeOK
  BY DEF Inv
<1>2. PICK p \in {"refused", "accepted", "resolve"} : pc' = [pc EXCEPT ![c] = p]
  BY DEF RefuseAnswer, Refuse, Pin
<1>3. PICK t : todo' = [todo EXCEPT ![c] = t]
  BY DEF RefuseAnswer, Refuse, Pin
<1>4. /\ pc[c] = "check" /\ val' = [val EXCEPT ![c] = None]
      /\ UNCHANGED <<ttl, now, cache>>
  BY DEF RefuseAnswer, Refuse, Pin
<1>5. Want' = Want
  BY <1>1, <1>2, <1>3, <1>4 DEF Want, TypeOK, Looking, Cur
<1>6. Told' = [Told EXCEPT ![c] = None]
  BY <1>1, <1>2, <1>4 DEF Told, TypeOK
<1>7. Known' = Known
  BY <1>1, <1>2, <1>4, KnownSame DEF TypeOK
<1> QED
  BY <1>4, <1>5, <1>6, <1>7 DEF Names!Use, Known, Want, Told

\* Every step of the resolver is one of the service, or hidden.
LEMMA StepsImplement ==
    ASSUME Inv, Inv', [Next]_vars
    PROVE  Names!Next \/ UNCHANGED <<ttl, now, Known, Want, Told>>
<1>1. CASE UNCHANGED vars
  BY <1>1 DEF vars, Known, Want, Told, Cur
<1>2. CASE Tick
  BY <1>2 DEF Tick, Names!Next, Names!Tick, Cur
<1>3. ASSUME NEW c \in Callers, Lookup(c) PROVE Names!Next
  BY <1>3, LookupAsks DEF Names!Next
<1>4. ASSUME NEW c \in Callers, CacheHit(c) PROVE Names!Next
  <2>1. {c} \in SUBSET Callers
    OBVIOUS
  <2> QED
    BY <1>4, <2>1, HitReplies DEF Names!Next, Known
<1>5. ASSUME NEW c \in Callers, NEW ips \in Answers, LookupReturns(c, ips) PROVE Names!Next
  BY <1>5, ReturnLearns DEF Names!Next
<1>6. ASSUME NEW c \in Callers, Land(c) PROVE Names!Next
  BY <1>6, LandTells DEF Names!Next, Known
<1>7. ASSUME NEW c \in Callers, RefuseAnswer(c) \/ Pin(c) PROVE Names!Next
  BY <1>7, JudgeUses DEF Names!Next
<1> QED
  BY <1>1, <1>2, <1>3, <1>4, <1>5, <1>6, <1>7, HiddenSteps DEF Next, Proceed, QueryEnds

\* Whatever lookups overlap, expire or are evicted, a caller is told what DNS
\* said of its own host within the TTL, or that the lookup failed.
THEOREM ResolverImplements == Spec => AnswersFresh
<1>1. Init => Names!Init
  BY SourceAssumption, ZenonT(60) DEF Init, Names!Init, Looking
<1>2. Inv /\ Inv' /\ [Next]_vars => [Names!Next]_(Names!vars)
  BY StepsImplement DEF Names!vars, Known, Want, Told
<1> QED
  BY <1>1, <1>2, Invariance, PTL DEF Spec, AnswersFresh, Names!Spec

=============================================================================
