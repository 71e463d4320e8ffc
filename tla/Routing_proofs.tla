-------------------------- MODULE Routing_proofs ---------------------------
(***************************************************************************)
(* Proofs about Routing: the registry's order, and with it every pick, is  *)
(* a function of the configuration, however Go's map is walked.            *)
(***************************************************************************)
EXTENDS Routing, WellFoundedInduction, TLAPS

Members(s) == {s[i] : i \in DOMAIN s}

Ascending(s, n) == \A i, j \in DOMAIN s : i < j /\ j <= n => s[i] < s[j]

Distinct(s) == \A i, j \in DOMAIN s : i # j => s[i] # s[j]

\* Names are visited once each, those that stringSort has passed are in order,
\* and the registry that is ready scans all of them in order.
RegistryInv ==
    /\ cfg \in Configs
    /\ cfg.default \in DOMAIN cfg.entries => cfg.default \notin Members(order)
    /\ todo \subseteq DOMAIN cfg.entries
    /\ order \in Seq(Names) /\ Distinct(order)
    /\ Members(order) = NonDefault \ todo
    /\ sorted \in Nat \ {0} /\ (todo # {} => sorted = 1)
    /\ Ascending(order, sorted)
    /\ built \in {"building", "ready", "failed"}
    /\ built = "ready" =>
          /\ cfg.default \in DOMAIN cfg.entries /\ todo = {}
          /\ pickOrder = order /\ sorted >= Len(order)

-----------------------------------------------------------------------------
(* Smallest numbers *)

\* A set of numbers has a smallest one, and Min is that.
LEMMA MinIs ==
    ASSUME NEW T, T \subseteq Nat, T # {}
    PROVE  Min(T) \in T /\ \A y \in T : Min(T) <= y
<1>1. PICK x \in T : \A y \in T : <<y, x>> \notin OpToRel(<, Nat)
  BY NatLessThanWellFounded, WFMin
<1>2. ASSUME NEW y \in T
      PROVE  x <= y
  <2>1. <<y, x>> \notin OpToRel(<, Nat)
    BY <1>1
  <2>2. <<y, x>> \in Nat \X Nat
    OBVIOUS
  <2>3. ~(y < x)
    BY <2>1, <2>2 DEF OpToRel
  <2> QED
    BY <2>3
<1>3. \E z \in T : \A y \in T : z <= y
  BY <1>2
<1> QED
  BY <1>3 DEF Min

-----------------------------------------------------------------------------
(* stringSort *)

\* The place of the next name: what is before it is not greater, what is after
\* it is.
LEMMA PlaceIs ==
    ASSUME NEW s \in Seq(Nat), NEW i \in 1..Len(s)
    PROVE  /\ Place(s, i) \in 1..i
           /\ \A k \in Place(s, i)..(i - 1) : s[k] > s[i]
           /\ Place(s, i) > 1 => ~(s[Place(s, i) - 1] > s[i])
<1> DEFINE T == {j \in 1..i : \A k \in j..(i - 1) : s[k] > s[i]}
           p == Place(s, i)
<1>1. i \in T /\ T \subseteq Nat /\ i \in Nat /\ i >= 1
  OBVIOUS
<1>2. p = Min(T)
  BY DEF Place
<1>3. p \in T /\ \A y \in T : p <= y
  BY <1>1, <1>2, MinIs
<1> HIDE DEF p
<1>4. p \in 1..i /\ \A k \in p..(i - 1) : s[k] > s[i]
  BY <1>3
<1>5. ASSUME p > 1, s[p - 1] > s[i]
      PROVE  FALSE
  <2>1. p - 1 \in 1..i /\ (p - 1)..(i - 1) \subseteq (p..(i - 1)) \cup {p - 1}
    BY <1>1, <1>4, <1>5
  <2>2. \A k \in (p - 1)..(i - 1) : s[k] > s[i]
    BY <1>4, <1>5, <2>1
  <2>3. p - 1 \in T
    BY <2>1, <2>2
  <2> QED
    BY <1>3, <1>4, <2>3
<1> QED
  BY <1>4, <1>5 DEF p

\* A pass keeps the names, and puts one more in order.
LEMMA SinkIs ==
    ASSUME NEW s \in Seq(Nat), Distinct(s), NEW n \in Nat \ {0}, n < Len(s), Ascending(s, n)
    PROVE  LET t == Sink(s, n + 1)
           IN  /\ DOMAIN t = DOMAIN s
               /\ Members(t) = Members(s)
               /\ Distinct(t)
               /\ Ascending(t, n + 1)
<1> DEFINE i == n + 1
           p == Place(s, i)
           t == Sink(s, i)
<1>1. i \in 1..Len(s) /\ i - 1 = n /\ DOMAIN s = 1..Len(s) /\ Len(s) \in Nat
      /\ \A k \in DOMAIN s : s[k] \in Nat
  OBVIOUS
<1>2. /\ p \in 1..i
      /\ \A k \in p..n : s[k] > s[i]
      /\ p > 1 => ~(s[p - 1] > s[i])
  BY <1>1, PlaceIs
<1>3. /\ DOMAIN t = DOMAIN s
      /\ \A k \in DOMAIN s : t[k] = IF k = p THEN s[i]
                                    ELSE IF p < k /\ k <= i THEN s[k - 1]
                                    ELSE s[k]
  BY DEF Sink
<1> HIDE DEF p, t
<1>4. \A k \in DOMAIN s : k < p => s[k] < s[i]
  <2> SUFFICES ASSUME NEW k \in DOMAIN s, k < p PROVE s[k] < s[i]
    OBVIOUS
  <2>1. p - 1 \in DOMAIN s /\ p - 1 <= n /\ k <= p - 1 /\ p > 1 /\ p - 1 # i
    BY <1>1, <1>2
  <2>2. s[p - 1] # s[i] /\ ~(s[p - 1] > s[i])
    BY <1>1, <1>2, <2>1 DEF Distinct
  <2>3. s[p - 1] < s[i]
    BY <1>1, <2>1, <2>2
  <2>4. k = p - 1 \/ s[k] < s[p - 1]
    BY <1>1, <2>1 DEF Ascending
  <2> QED
    BY <1>1, <2>1, <2>3, <2>4
\* Where the name at a place of t comes from.
<1>0. /\ n \in Nat /\ i = n + 1 /\ p \in Nat /\ 1 <= p /\ p <= i /\ i <= Len(s) /\ Len(s) \in Nat
      /\ DOMAIN s = 1..Len(s)
  BY <1>1, <1>2
<1> DEFINE from(k) == IF k = p THEN i ELSE IF p < k /\ k <= i THEN k - 1 ELSE k
           to(k) == IF k = i THEN p ELSE IF p <= k /\ k < i THEN k + 1 ELSE k
<1>5. \A k \in DOMAIN s : from(k) \in DOMAIN s /\ t[k] = s[from(k)]
  BY <1>1, <1>2, <1>3, SMTT(30)
<1>6. \A k \in DOMAIN s : to(k) \in DOMAIN s /\ from(to(k)) = k
  <2> SUFFICES ASSUME NEW k \in 1..Len(s) PROVE to(k) \in 1..Len(s) /\ from(to(k)) = k
    BY <1>0
  <2>1. CASE k = i
    BY ONLY <1>0, <2>1, k \in 1..Len(s)
  <2>2. CASE p <= k /\ k < i
    BY ONLY <1>0, <2>2, k \in 1..Len(s)
  <2>3. CASE k < p \/ k > i
    BY ONLY <1>0, <2>3, k \in 1..Len(s)
  <2> QED
    BY ONLY <1>0, <2>1, <2>2, <2>3, k \in 1..Len(s)
<1>7. \A k, l \in DOMAIN s : k # l => from(k) # from(l)
  BY ONLY <1>0, SMTT(30)
<1>8. Members(t) = Members(s)
  <2>1. ASSUME NEW x \in Members(t) PROVE x \in Members(s)
    BY <1>3, <1>5 DEF Members
  <2>2. ASSUME NEW x \in Members(s) PROVE x \in Members(t)
    <3>1. PICK k \in DOMAIN s : x = s[k]
      BY DEF Members
    <3>2. to(k) \in DOMAIN t /\ t[to(k)] = s[k]
      BY <1>3, <1>5, <1>6
    <3> QED
      BY <3>1, <3>2 DEF Members
  <2> QED
    BY <2>1, <2>2
<1>9. Distinct(t)
  <2> SUFFICES ASSUME NEW k \in DOMAIN s, NEW l \in DOMAIN s, k # l PROVE t[k] # t[l]
    BY <1>3 DEF Distinct
  <2>1. from(k) \in DOMAIN s /\ from(l) \in DOMAIN s /\ from(k) # from(l)
    BY ONLY <1>5, <1>7, k \in DOMAIN s, l \in DOMAIN s, k # l, Zenon
  <2>2. s[from(k)] # s[from(l)]
    <3> HIDE DEF from
    <3> QED
      BY <2>1 DEF Distinct
  <2>3. t[k] = s[from(k)] /\ t[l] = s[from(l)]
    BY ONLY <1>5, k \in DOMAIN s, l \in DOMAIN s, Zenon
  <2> QED
    BY <2>2, <2>3, Zenon
<1>10. ASSUME NEW k \in DOMAIN s, NEW l \in DOMAIN s, k < l, l <= i
       PROVE  t[k] < t[l]
  <2>0. k \in Nat /\ l \in Nat /\ 1 <= k /\ l <= Len(s)
    BY <1>0
  <2>1. CASE k < p /\ l < p
    <3>1. k # p /\ ~(p < k) /\ l # p /\ ~(p < l) /\ l <= n
      BY ONLY <1>0, <2>0, <2>1, <1>10
    <3>2. t[k] = s[k] /\ t[l] = s[l]
      BY <1>3, <3>1
    <3> QED
      BY <1>10, <3>1, <3>2 DEF Ascending
  <2>2. CASE k < p /\ l = p
    <3>1. k # p /\ ~(p < k)
      BY ONLY <1>0, <2>0, <2>2
    <3>2. t[k] = s[k] /\ t[l] = s[i]
      BY <1>3, <2>2, <3>1
    <3> QED
      BY <1>4, <2>2, <3>2
  <2>3. CASE k < p /\ l > p
    <3>0. k # p /\ ~(p < k) /\ l # p /\ p < l /\ l - 1 \in DOMAIN s /\ k < l - 1 /\ l - 1 <= n
      BY ONLY <1>0, <2>0, <2>3, <1>10, SMTT(30)
    <3>1. t[k] = s[k] /\ t[l] = s[l - 1] /\ l - 1 \in DOMAIN s /\ k < l - 1 /\ l - 1 <= n
      BY <1>3, <1>10, <3>0
    <3> QED
      BY <3>1 DEF Ascending
  <2>4. CASE k = p
    <3>1. t[k] = s[i] /\ t[l] = s[l - 1] /\ l - 1 \in p..n /\ l - 1 \in DOMAIN s
      BY <1>1, <1>2, <1>3, <1>10, <2>4, SMTT(60)
    <3> QED
      BY <1>1, <1>2, <3>1
  <2>5. CASE k > p
    <3>1. /\ t[k] = s[k - 1] /\ t[l] = s[l - 1] /\ l - 1 \in DOMAIN s /\ k - 1 \in DOMAIN s
          /\ k - 1 < l - 1 /\ l - 1 <= n
      <4>1. /\ k # p /\ p < k /\ l # p /\ p < l /\ l - 1 \in DOMAIN s /\ k - 1 \in DOMAIN s
            /\ k - 1 < l - 1 /\ l - 1 <= n /\ k <= i
        BY ONLY <1>0, <2>0, <2>5, <1>10, SMTT(60)
      <4> QED
        BY <1>3, <1>10, <4>1
    <3> QED
      BY <3>1 DEF Ascending
  <2> QED
    BY <1>1, <1>2, <1>10, <2>1, <2>2, <2>3, <2>4, <2>5, SMTT(30)
<1>11. Ascending(t, i)
  BY <1>3, <1>10 DEF Ascending
<1> QED
  BY <1>3, <1>8, <1>9, <1>11 DEF t

-----------------------------------------------------------------------------
(* NewRegistry *)

\* What a configuration is.
LEMMA ConfigIs ==
    ASSUME cfg \in Configs
    PROVE  /\ DOMAIN cfg.entries \subseteq Names /\ NonDefault \subseteq Nat \ {0}
           /\ cfg.default \in Nat \ {0}
<1>1. PICK E \in SUBSET Names : cfg \in [entries : [E -> Entries], default : Names, strategy : Strategies]
  BY DEF Configs
<1>2. DOMAIN cfg.entries = E /\ cfg.default \in Names
  BY <1>1
<1> QED
  BY <1>2, RoutingAssumption DEF NonDefault

LEMMA RegistryInit == Init => RegistryInv
<1> SUFFICES ASSUME Init PROVE RegistryInv
  OBVIOUS
<1>1. order = <<>> /\ Members(order) = {} /\ Distinct(order) /\ Ascending(order, sorted)
  BY DEF Init, Members, Distinct, Ascending
<1>2. NonDefault \ todo = {}
  BY DEF Init, NonDefault
<1> QED
  BY <1>1, <1>2 DEF Init, RegistryInv

LEMMA RegistryStep ==
    ASSUME RegistryInv, [Next]_vars
    PROVE  RegistryInv'
<1> USE DEF RegistryInv
<1>0. Names \subseteq Nat
  BY RoutingAssumption
<1>1. CASE UNCHANGED <<cfg, todo, order, sorted, pickOrder, built>>
  BY <1>1 DEF Members, Distinct, Ascending, NonDefault
<1>2. CASE RegistryFails
  BY <1>2 DEF RegistryFails, Members, Distinct, Ascending, NonDefault
<1>3. ASSUME NEW n \in Names, VisitEntry(n)
      PROVE  RegistryInv'
  <2>1. /\ n \in todo /\ todo' = todo \ {n} /\ built = "building"
        /\ cfg.default \in DOMAIN cfg.entries /\ sorted = 1
        /\ UNCHANGED <<cfg, sorted, pickOrder, built>> /\ NonDefault' = NonDefault
        /\ order' = IF n = cfg.default THEN order ELSE Append(order, n)
    BY <1>3 DEF VisitEntry, NonDefault
  <2>2. CASE n = cfg.default
    <3>1. NonDefault \ todo' = NonDefault \ todo /\ UNCHANGED order
      BY <2>1, <2>2 DEF NonDefault
    <3> QED
      BY <2>1, <3>1 DEF Members, Distinct, Ascending
  <2>3. CASE n # cfg.default
    <3>1. n \notin Members(order) /\ n \in NonDefault
      BY <2>1, <2>3 DEF NonDefault
    <3>2. /\ DOMAIN order' = 1..(Len(order) + 1) /\ DOMAIN order = 1..Len(order) /\ Len(order) \in Nat
          /\ \A i \in DOMAIN order : order'[i] = order[i]
          /\ order'[Len(order) + 1] = n
          /\ order' \in Seq(Names)
      BY <2>1, <2>3
    <3>3. DOMAIN order' = DOMAIN order \cup {Len(order) + 1}
      BY <3>2
    <3>4. Members(order') = Members(order) \cup {n}
      BY <3>2, <3>3 DEF Members
    <3>5. Distinct(order')
      BY <3>1, <3>2, <3>3 DEF Distinct, Members
    <3>6. Ascending(order', sorted')
      BY <2>1, <3>2 DEF Ascending
    <3>7. Members(order') = NonDefault \ todo'
      BY <2>1, <3>1, <3>4
    <3>8. cfg.default \notin Members(order')
      BY <3>7 DEF NonDefault
    <3> QED
      BY <2>1, <3>2, <3>5, <3>6, <3>7, <3>8 DEF Members
  <2> QED
    BY <2>2, <2>3
<1>4. CASE SortPass
  <2>1. /\ sorted < Len(order) /\ order' = Sink(order, sorted + 1) /\ sorted' = sorted + 1
        /\ todo = {} /\ UNCHANGED <<cfg, todo, pickOrder, built>> /\ NonDefault' = NonDefault
        /\ built = "building"
    BY <1>4 DEF SortPass, NonDefault
  <2>2. order \in Seq(Nat)
    <3>1. order \in [1..Len(order) -> Names] /\ Len(order) \in Nat
      OBVIOUS
    <3>2. order \in [1..Len(order) -> Nat]
      BY <1>0, <3>1
    <3> QED
      BY <3>1, <3>2
  <2>3. /\ DOMAIN order' = DOMAIN order /\ Members(order') = Members(order)
        /\ Distinct(order') /\ Ascending(order', sorted + 1)
    BY <2>1, <2>2, SinkIs
  <2>4. order' \in Seq(Names)
    <3>1. order' = [k \in DOMAIN order |-> order'[k]]
      BY <2>1, <2>3 DEF Sink
    <3>2. \A k \in DOMAIN order : order'[k] \in Names
      BY <2>3 DEF Members
    <3>3. DOMAIN order = 1..Len(order) /\ Len(order) \in Nat
      OBVIOUS
    <3>4. order' \in [1..Len(order) -> Names]
      BY <3>1, <3>2, <3>3
    <3> QED
      BY <3>3, <3>4
  <2>5. Members(order)' = Members(order') /\ Distinct(order)' /\ Ascending(order, sorted)'
    BY <2>1, <2>3 DEF Members, Distinct, Ascending
  <2> QED
    BY <2>1, <2>3, <2>4, <2>5
<1>5. CASE FinishRegistry
  BY <1>5 DEF FinishRegistry, Members, Distinct, Ascending, NonDefault
<1>6. ASSUME NEW u \in Uploads, RouteConvert(u) \/ RouteProcess(u)
      PROVE  RegistryInv'
  BY <1>1, <1>6 DEF RouteConvert, RouteProcess
<1>7. CASE RouteSource \/ UNCHANGED vars
  BY <1>1, <1>7 DEF RouteSource, vars
<1> QED
  BY <1>2, <1>3, <1>4, <1>5, <1>6, <1>7 DEF Next

LEMMA RegistryInvariant == Spec => []RegistryInv
<1>1. RegistryInv /\ [Next]_vars => RegistryInv'
  BY RegistryStep
<1> QED
  BY <1>1, RegistryInit, PTL DEF Spec

-----------------------------------------------------------------------------
(* PickRouteVerbose *)

\* The scan of a phase finds the first by name of the engines that claim.
LEMMA ScanIs ==
    ASSUME RegistryInv, built = "ready", NEW phase, NEW facade, NEW mime, NEW ext
    PROVE  LET e == Scan(phase, facade, mime, ext)
               claims(n) == Claims(n, phase, facade, mime, ext)
           IN  /\ e # NoEngine <=> \E n \in NonDefault : claims(n)
               /\ e # NoEngine => e \in NonDefault /\ claims(e)
               /\ e # NoEngine => \A n \in NonDefault : claims(n) => e <= n
<1> DEFINE e == Scan(phase, facade, mime, ext)
           claims(n) == Claims(n, phase, facade, mime, ext)
           hits == {i \in DOMAIN pickOrder : claims(pickOrder[i])}
<1>1. /\ pickOrder = order /\ order \in Seq(Names) /\ Members(order) = NonDefault
      /\ sorted >= Len(order) /\ Ascending(order, sorted) /\ sorted \in Nat
  BY DEF RegistryInv
<1>2. NonDefault \subseteq Nat \ {0}
  BY ConfigIs DEF RegistryInv
<1>3. DOMAIN pickOrder = 1..Len(order) /\ Len(order) \in Nat
  BY <1>1
<1>4. e = IF hits = {} THEN NoEngine ELSE pickOrder[Min(hits)]
  BY DEF Scan
<1>5. \A n \in NonDefault : claims(n) => \E i \in hits : pickOrder[i] = n
  BY <1>1 DEF Members
<1>6. \A i \in DOMAIN pickOrder : pickOrder[i] \in NonDefault
  BY <1>1 DEF Members
<1>7. CASE hits = {}
  BY <1>4, <1>5, <1>7
<1>8. CASE hits # {}
  <2> DEFINE i == Min(hits)
  <2>0. hits \subseteq Nat
    BY <1>3
  <2>1. i \in hits /\ \A j \in hits : i <= j
    <3> HIDE DEF hits
    <3> QED
      BY <1>8, <2>0, MinIs
  <2>2. e = pickOrder[i]
    BY <1>4, <1>8
  <2> HIDE DEF e, i
  <2>3. e \in NonDefault /\ claims(e) /\ e # NoEngine
    BY <1>2, <1>6, <2>1, <2>2 DEF NoEngine
  <2>4. ASSUME NEW n \in NonDefault, claims(n)
        PROVE  e <= n
    <3>1. PICK j \in hits : pickOrder[j] = n
      BY <1>5, <2>4
    <3>2. i = j \/ i < j
      BY <1>3, <2>1
    <3>3. i < j => order[i] < order[j]
      BY <1>1, <1>3, <2>1 DEF Ascending
    <3> QED
      BY <1>1, <1>2, <2>2, <2>3, <3>1, <3>2, <3>3
  <2> QED
    BY <2>3, <2>4 DEF e
<1> QED
  BY <1>7, <1>8

LEMMA PhasesAre == \A s : DOMAIN strategyPhases(s) \subseteq Nat
  BY DEF strategyPhases

\* The pick: of the earliest phase in which an engine claims, the first by name;
\* and otherwise the default engine if it may be.
LEMMA PickIs ==
    ASSUME RegistryInv, built = "ready", NEW facade, NEW mime, NEW ext
    PROVE  LET p == PickRouteVerbose(facade, mime, ext)
               phases == strategyPhases(cfg.strategy)
               claims(n, k) == Claims(n, phases[k], facade, mime, ext)
           IN  \/ /\ p.engine \in {cfg.default, NoEngine}
                  /\ p.engine = cfg.default <=> AcceptsFacade(cfg.default, facade)
                  /\ \A n \in NonDefault : \A k \in DOMAIN phases : ~claims(n, k)
               \/ /\ p.engine \in NonDefault
                  /\ \E k \in DOMAIN phases :
                        /\ claims(p.engine, k)
                        /\ \A n \in NonDefault : claims(n, k) => p.engine <= n
                        /\ \A n \in NonDefault : \A j \in DOMAIN phases : claims(n, j) => k <= j
<1> DEFINE p == PickRouteVerbose(facade, mime, ext)
           phases == strategyPhases(cfg.strategy)
           scan(k) == Scan(phases[k], facade, mime, ext)
           claims(n, k) == Claims(n, phases[k], facade, mime, ext)
           hits == {k \in DOMAIN phases : scan(k) # NoEngine}
<1>1. ASSUME NEW k \in DOMAIN phases
      PROVE  /\ scan(k) # NoEngine <=> \E n \in NonDefault : claims(n, k)
             /\ scan(k) # NoEngine => scan(k) \in NonDefault /\ claims(scan(k), k)
             /\ scan(k) # NoEngine => \A n \in NonDefault : claims(n, k) => scan(k) <= n
  BY ScanIs
<1>2. hits \subseteq Nat
  BY PhasesAre
<1>3. NoEngine \notin {cfg.default}
  BY ConfigIs DEF RegistryInv, NoEngine
<1>4. CASE hits # {}
  <2> DEFINE k == Min(hits)
  <2>1. k \in hits /\ \A j \in hits : k <= j
    BY <1>2, <1>4, MinIs
  <2>2. p.engine = scan(k)
    BY <1>4 DEF PickRouteVerbose
  <2> HIDE DEF p, k, scan, claims
  <2>3. ASSUME NEW n \in NonDefault, NEW j \in DOMAIN phases, claims(n, j)
        PROVE  k <= j
    BY <1>1, <2>1, <2>3
  <2>4. k \in DOMAIN phases /\ p.engine \in NonDefault /\ claims(p.engine, k)
        /\ \A n \in NonDefault : claims(n, k) => p.engine <= n
    BY <1>1, <2>1, <2>2
  <2> QED
    BY <2>3, <2>4 DEF p, claims
<1>5. CASE hits = {}
  <2>1. p.engine = IF AcceptsFacade(cfg.default, facade) THEN cfg.default ELSE NoEngine
    BY <1>5 DEF PickRouteVerbose
  <2>2. \A n \in NonDefault : \A k \in DOMAIN phases : ~claims(n, k)
    BY <1>1, <1>5
  <2> QED
    BY <1>3, <2>1, <2>2
<1> QED
  BY <1>4, <1>5

\* The number of the phase in which an engine claims.
LEMMA ClaimPhaseIs ==
    ASSUME NEW n, NEW k \in DOMAIN strategyPhases(cfg.strategy),
           Claims(n, strategyPhases(cfg.strategy)[k], asked.facade, pick.mime, asked.upload.ext)
    PROVE  /\ ClaimPhase(n) \in DOMAIN strategyPhases(cfg.strategy) /\ ClaimPhase(n) <= k
           /\ ClaimPhase(n) # 0
           /\ Claims(n, strategyPhases(cfg.strategy)[ClaimPhase(n)], asked.facade, pick.mime, asked.upload.ext)
<1> DEFINE phases == strategyPhases(cfg.strategy)
           at == {j \in DOMAIN phases : Claims(n, phases[j], asked.facade, pick.mime, asked.upload.ext)}
<1>1. k \in at /\ at \subseteq DOMAIN phases /\ DOMAIN phases \subseteq Nat \ {0}
  BY DEF strategyPhases
<1>2. ClaimPhase(n) = Min(at)
  BY <1>1 DEF ClaimPhase
<1>3. Min(at) \in at /\ Min(at) <= k
  <2> HIDE DEF at
  <2> QED
    BY <1>1, MinIs
<1> QED
  BY <1>1, <1>2, <1>3

\* What an answered request's pick looks like: a default because no other engine
\* claims in any phase, or a claimant that no other comes before.
PickShape ==
    LET phases == strategyPhases(cfg.strategy)
        claims(n, k) == Claims(n, phases[k], asked.facade, pick.mime, asked.upload.ext)
    IN  \/ /\ pick.engine \in {cfg.default, NoEngine}
           /\ \A n \in NonDefault : \A k \in DOMAIN phases : ~claims(n, k)
        \/ /\ pick.engine \in NonDefault
           /\ \E k \in DOMAIN phases :
                 /\ claims(pick.engine, k)
                 /\ \A n \in NonDefault : claims(n, k) => pick.engine <= n
                 /\ \A n \in NonDefault : \A j \in DOMAIN phases : claims(n, j) => k <= j

\* A pick that is as PickIs says, or a default that nobody could claim from, is
\* the first by name.
LEMMA FirstByName ==
    ASSUME RegistryInv, PickShape
    PROVE  PickIsFirstByName
<1> DEFINE phases == strategyPhases(cfg.strategy)
           claims(n, k) == Claims(n, phases[k], asked.facade, pick.mime, asked.upload.ext)
           claimants == {n \in NonDefault : ClaimPhase(n) # 0}
<1>0. NonDefault \subseteq Nat /\ DOMAIN phases \subseteq Nat
  BY ConfigIs, PhasesAre DEF RegistryInv
<1>1. CASE /\ pick.engine \in {cfg.default, NoEngine}
           /\ \A n \in NonDefault : \A k \in DOMAIN phases : ~claims(n, k)
  <2>1. \A n \in NonDefault : ClaimPhase(n) = 0
    BY <1>1 DEF ClaimPhase
  <2>2. claimants = {}
    BY <2>1
  <2> QED
    BY <1>1, <2>2 DEF PickIsFirstByName
<1>2. CASE pick.engine \in NonDefault /\
           \E k \in DOMAIN phases :
              /\ claims(pick.engine, k)
              /\ \A n \in NonDefault : claims(n, k) => pick.engine <= n
              /\ \A n \in NonDefault : \A j \in DOMAIN phases : claims(n, j) => k <= j
  <2>1. PICK k \in DOMAIN phases :
              /\ claims(pick.engine, k)
              /\ \A n \in NonDefault : claims(n, k) => pick.engine <= n
              /\ \A n \in NonDefault : \A j \in DOMAIN phases : claims(n, j) => k <= j
    BY <1>2
  <2>2. /\ ClaimPhase(pick.engine) \in DOMAIN phases /\ ClaimPhase(pick.engine) <= k
        /\ ClaimPhase(pick.engine) # 0 /\ claims(pick.engine, ClaimPhase(pick.engine))
    BY <2>1, ClaimPhaseIs
  <2>3. ClaimPhase(pick.engine) = k
    <3> HIDE DEF claims, phases
    <3>1. k <= ClaimPhase(pick.engine)
      BY <1>2, <2>1, <2>2
    <3>2. k \in Nat /\ ClaimPhase(pick.engine) \in Nat
      BY <1>0, <2>1, <2>2
    <3> QED
      BY ONLY <3>1, <3>2, <2>2
  <2>4. pick.engine \in claimants
    BY <1>2, <2>2
  <2>5. ASSUME NEW n \in claimants, n # pick.engine
        PROVE  k < ClaimPhase(n) \/ (k = ClaimPhase(n) /\ pick.engine < n)
    <3>1. n \in NonDefault /\ \E j \in DOMAIN phases : claims(n, j)
      BY <2>5 DEF ClaimPhase
    <3>2. ClaimPhase(n) \in DOMAIN phases /\ claims(n, ClaimPhase(n))
      BY <3>1, ClaimPhaseIs
    <3>3. k <= ClaimPhase(n)
      BY <2>1, <3>1, <3>2
    <3>4. k = ClaimPhase(n) => pick.engine <= n
      BY <2>1, <3>1, <3>2
    <3>5. /\ k \in Nat /\ ClaimPhase(n) \in Nat /\ pick.engine \in Nat /\ n \in Nat
          /\ n # pick.engine
      <4> HIDE DEF claims, phases
      <4> QED
        BY <1>0, <1>2, <2>1, <2>5, <3>1, <3>2
    <3> QED
      BY ONLY <3>3, <3>4, <3>5
  <2> HIDE DEF claimants
  <2>6. /\ pick.engine \in claimants
        /\ \A n \in claimants \ {pick.engine} :
              \/ ClaimPhase(pick.engine) < ClaimPhase(n)
              \/ ClaimPhase(pick.engine) = ClaimPhase(n) /\ pick.engine < n
    BY <2>3, <2>4, <2>5
  <2> QED
    BY <2>6 DEF PickIsFirstByName, claimants
<1> QED
  BY <1>1, <1>2 DEF PickShape

\* What Resolve makes of an upload.
LEMMA ResolveIs ==
    ASSUME NEW u, NEW t, t = Resolve(u)
    PROVE  LET hint    == lookupByFilename(u.ext)
               says(x) == x \notin genericDeclared
           IN  /\ says(u.declared.type) => t = u.declared.type
               /\ ~says(u.declared.type) /\ u.sniff \in cfbAmbiguousSniffs /\ hint # NoType
                     => t = hint
               /\ (hint = NoType \/ says(hint)) /\ (\E x \in {u.declared.type, u.sniff, hint} : says(x))
                     => says(t)
<1> DEFINE hint == lookupByFilename(u.ext)
<1>1. ASSUME NEW x \in cfbAmbiguousSniffs
      PROVE  x \notin genericDeclared
  <2>1. PICK sub \in {"vnd.ms-powerpoint", "vnd.ms-office", "x-cfb", "x-ole-storage",
                      "msword", "vnd.ms-excel"} : x = <<"application", sub>>
    BY DEF cfbAmbiguousSniffs
  <2>2. x[2] = sub
    BY <2>1
  <2>3. ASSUME NEW g \in genericDeclared PROVE g[2] \in {"", "octet-stream"}
    <3>1. \A y, z : <<y, z>>[2] = z
      OBVIOUS
    <3>2. g = <<"", "">> \/ g = <<"application", "octet-stream">> \/ g = <<"binary", "octet-stream">>
      BY Zenon DEF genericDeclared, NoType, Octet
    <3> QED
      BY <3>1, <3>2
  <2>4. sub \notin {"", "octet-stream"}
    BY <2>1
  <2> QED
    BY <2>2, <2>3, <2>4
<1>2. NoType \in genericDeclared
  BY DEF genericDeclared
<1> HIDE DEF hint
<1>3. t = IF u.declared.type \notin genericDeclared THEN u.declared.type
          ELSE IF u.sniff \notin genericDeclared /\ u.sniff \notin cfbAmbiguousSniffs THEN u.sniff
          ELSE IF hint # NoType THEN hint
          ELSE IF u.sniff \in cfbAmbiguousSniffs THEN u.sniff
          ELSE Octet
  BY DEF Resolve, canonical, hint
<1> QED
  BY <1>1, <1>2, <1>3 DEF hint

LEMMA PickMime ==
    ASSUME NEW facade, NEW mime, NEW ext
    PROVE  PickRouteVerbose(facade, mime, ext).mime = mime
  BY DEF PickRouteVerbose

-----------------------------------------------------------------------------
(* Requests *)

\* The request has been routed: its pick has the shape, its engine serves the
\* facade or is docling's default, and its type is what Resolve says.
Routed ==
    /\ PickShape
    /\ FacadeFiltered
    /\ pick.mime = Resolve(asked.upload) \/ asked.upload = NoFile

RoutedInv == Answered => Routed

\* What Claims says depends on the configuration alone.
LEMMA SameClaims ==
    ASSUME cfg' = cfg
    PROVE  /\ \A n, phase, facade, mime, ext :
                Claims(n, phase, facade, mime, ext)' = Claims(n, phase, facade, mime, ext)
           /\ NonDefault' = NonDefault
  BY DEF Claims, AcceptsFacade, NonDefault

LEMMA NoFileIs ==
    NoFile.declared.type = NoType /\ NoFile.sniff = NoType /\ extOf(NoFile.ext) = ""
<1>1. NoFile.declared = [type |-> NoType] /\ NoFile.ext = [base |-> ""] /\ NoFile.sniff = NoType
  BY DEF NoFile
<1>2. [type |-> NoType].type = NoType /\ [base |-> ""].base = ""
  OBVIOUS
<1> QED
  BY <1>1, <1>2 DEF extOf

\* With a claimed engine the facade is respected, and with the default too when
\* it serves the facade.
LEMMA RouteStep ==
    ASSUME RegistryInv, built = "ready", cfg' = cfg,
           NEW facade \in Facades, NEW u,
           NEW mime, mime = Resolve(u) \/ (u = NoFile /\ mime = NoType),
           asked'.facade = facade, asked'.upload = u, pick'.mime = mime,
           \/ pick'.engine = PickRouteVerbose(facade, mime, u.ext).engine
           \/ /\ facade = "docling" /\ pick'.engine = cfg.default
              /\ \/ PickRouteVerbose(facade, mime, u.ext).engine = NoEngine
                 \/ u = NoFile /\ mime = NoType
    PROVE  Routed'
<1> DEFINE p == PickRouteVerbose(facade, mime, u.ext)
           phases == strategyPhases(cfg.strategy)
           claims(n, k) == Claims(n, phases[k], facade, mime, u.ext)
           Nobody == \A n \in NonDefault : \A k \in DOMAIN phases : ~claims(n, k)
           First(e) == /\ e \in NonDefault
                       /\ \E k \in DOMAIN phases :
                             /\ claims(e, k)
                             /\ \A n \in NonDefault : claims(n, k) => e <= n
                             /\ \A n \in NonDefault : \A j \in DOMAIN phases : claims(n, j) => k <= j
<1>1. \/ /\ p.engine \in {cfg.default, NoEngine}
         /\ p.engine = cfg.default <=> AcceptsFacade(cfg.default, facade)
         /\ Nobody
      \/ First(p.engine)
  BY PickIs
<1>2. ASSUME u = NoFile, mime = NoType PROVE Nobody
  <2>1. extOf(u.ext) = ""
    BY <1>2, NoFileIs
  <2> QED
    BY <1>2, <2>1 DEF Claims
<1>3. NoEngine \notin NonDefault
  BY ConfigIs DEF RegistryInv, NoEngine
<1>4. \A e : First(e) => AcceptsFacade(e, facade) /\ e # NoEngine
  BY <1>3 DEF Claims
<1>5. PickShape' <=> \/ pick'.engine \in {cfg.default, NoEngine} /\ Nobody
                     \/ First(pick'.engine)
  BY SameClaims DEF PickShape
<1>6. FacadeFiltered' <=> (Answered' =>
                              IF pick'.engine = NoEngine
                              THEN ~AcceptsFacade(cfg.default, facade)
                              ELSE \/ AcceptsFacade(pick'.engine, facade)
                                   \/ facade = "docling" /\ pick'.engine = cfg.default)
  BY DEF FacadeFiltered, AcceptsFacade
<1> HIDE DEF Nobody, First, p
<1>7. PickShape'
  BY <1>1, <1>2, <1>3, <1>5 DEF p, First
<1>8. FacadeFiltered'
  <2>1. cfg.default # NoEngine
    BY ConfigIs DEF RegistryInv, NoEngine
  <2>2. CASE pick'.engine = p.engine
    <3>1. CASE First(p.engine)
      BY <1>4, <1>6, <2>2, <3>1
    <3> QED
      BY <1>1, <1>6, <2>1, <2>2, <3>1
  <2>3. CASE facade = "docling" /\ pick'.engine = cfg.default
    BY <1>6, <2>1, <2>3
  <2> QED
    BY <2>2, <2>3 DEF p
<1>9. pick'.mime = Resolve(u) \/ u = NoFile
  OBVIOUS
<1>10. pick.mime' = pick'.mime /\ asked.upload' = u /\ Resolve(asked.upload)' = Resolve(u)
  BY DEF Resolve, lookupByFilename, canonical, extOf
<1> QED
  BY <1>7, <1>8, <1>9, <1>10 DEF Routed, NoFile

LEMMA RoutedStep ==
    ASSUME RegistryInv, RoutedInv, [Next]_vars
    PROVE  RoutedInv'
<1>1. ASSUME NEW u \in Uploads, RouteConvert(u)
      PROVE  Routed'
  <2> DEFINE p == PickRouteVerbose("docling", Resolve(u), u.ext)
  <2>1. /\ built = "ready" /\ cfg' = cfg
        /\ asked' = [facade |-> "docling", upload |-> u]
        /\ pick' = IF p.engine = NoEngine THEN [p EXCEPT !.engine = cfg.default] ELSE p
    BY <1>1 DEF RouteConvert
  <2>2. p.mime = Resolve(u)
    BY PickMime
  <2>3. DOMAIN p = {"engine", "source", "mime"}
    BY DEF PickRouteVerbose
  <2> HIDE DEF p
  <2>4. /\ pick'.mime = Resolve(u)
        /\ pick'.engine = IF p.engine = NoEngine THEN cfg.default ELSE p.engine
    BY <2>1, <2>2, <2>3
  <2>5. asked'.facade = "docling" /\ asked'.upload = u /\ "docling" \in Facades
    BY <2>1 DEF Facades
  <2>6. PICK mime : mime = Resolve(u)
    OBVIOUS
  <2>7. \/ pick'.engine = PickRouteVerbose("docling", mime, u.ext).engine
        \/ /\ "docling" = "docling" /\ pick'.engine = cfg.default
           /\ PickRouteVerbose("docling", mime, u.ext).engine = NoEngine
    BY <2>4, <2>6 DEF p
  <2> QED
    BY <2>1, <2>4, <2>5, <2>6, <2>7, RouteStep
<1>2. ASSUME NEW u \in Uploads, RouteProcess(u)
      PROVE  Routed'
  <2> DEFINE p == PickRouteVerbose("external", Resolve(u), u.ext)
  <2>1. /\ built = "ready" /\ cfg' = cfg
        /\ asked' = [facade |-> "external", upload |-> u]
        /\ pick' = p
    BY <1>2 DEF RouteProcess
  <2>2. p.mime = Resolve(u)
    BY PickMime
  <2>3. asked'.facade = "external" /\ asked'.upload = u /\ "external" \in Facades
    BY <2>1 DEF Facades
  <2>4. PICK mime : mime = Resolve(u)
    OBVIOUS
  <2>5. pick'.mime = mime /\ pick'.engine = PickRouteVerbose("external", mime, u.ext).engine
    BY <2>1, <2>2, <2>4
  <2> QED
    BY <2>1, <2>3, <2>4, <2>5, RouteStep
<1>3. ASSUME RouteSource
      PROVE  Routed'
  <2>1. /\ built = "ready" /\ cfg' = cfg
        /\ asked'.facade = "docling" /\ asked'.upload = NoFile /\ "docling" \in Facades
        /\ pick'.engine = cfg.default /\ pick'.mime = NoType
    BY <1>3 DEF RouteSource, Facades
  <2>2. PICK u : u = NoFile
    OBVIOUS
  <2>3. PICK mime : mime = NoType
    OBVIOUS
  <2> QED
    BY <2>1, <2>2, <2>3, RouteStep
<1>4. CASE UNCHANGED <<cfg, asked, pick>>
  BY <1>4, SameClaims
     DEF RoutedInv, Answered, Routed, PickShape, FacadeFiltered, AcceptsFacade
<1> QED
  BY <1>1, <1>2, <1>3, <1>4
     DEF Next, RoutedInv, RegistryFails, VisitEntry, SortPass, FinishRegistry, vars

LEMMA RoutedInvariant == Spec => [](RegistryInv /\ RoutedInv)
<1>1. Init => RoutedInv
  BY DEF Init, RoutedInv, Answered
<1>2. RegistryInv /\ RoutedInv /\ [Next]_vars => RoutedInv'
  BY RoutedStep
<1> QED
  BY <1>1, <1>2, RegistryInvariant, PTL DEF Spec

\* Whatever order NewRegistry's range over the map took, PickRouteVerbose picks
\* the engine that PickIsFirstByName says: insertion sort has put the names in
\* order before the registry is ready.
THEOREM PickDeterministic == Spec => []PickIsFirstByName
<1>1. RegistryInv /\ RoutedInv => PickIsFirstByName
  <2>1. RegistryInv /\ PickShape => PickIsFirstByName
    BY FirstByName
  <2> QED
    BY <2>1 DEF RoutedInv, Routed, PickIsFirstByName
<1> QED
  BY <1>1, RoutedInvariant, PTL

\* PickRouteVerbose and the handlers behind it keep the facade filter as
\* FacadeFiltered says, for every registry and every upload.
THEOREM FacadesFiltered == Spec => []FacadeFiltered
<1>1. RoutedInv => FacadeFiltered
  BY DEF RoutedInv, Routed, FacadeFiltered
<1> QED
  BY <1>1, RoutedInvariant, PTL

\* mimedetect.Resolve never prefers what says nothing about the upload to what
\* does, as KnownTypeUsed says.
THEOREM KnownTypesUsed == Spec => []KnownTypeUsed
<1>1. RoutedInv => KnownTypeUsed
  <2>1. CASE ~Answered
    BY <2>1 DEF KnownTypeUsed
  <2>2. CASE pick.mime = Resolve(asked.upload)
    <3>1. PICK u, t : u = asked.upload /\ t = pick.mime
      OBVIOUS
    <3>2. t = Resolve(u)
      BY <2>2, <3>1
    <3> QED
      BY <3>1, <3>2, ResolveIs DEF KnownTypeUsed
  <2>3. CASE asked.upload = NoFile
    <3>1. PICK u : u = asked.upload
      OBVIOUS
    <3>2. u.declared.type = NoType /\ u.sniff = NoType /\ lookupByFilename(u.ext) = NoType
      BY <2>3, <3>1, NoFileIs DEF lookupByFilename
    <3>3. NoType \in genericDeclared
      BY DEF genericDeclared
    <3> QED
      BY <3>1, <3>2, <3>3 DEF KnownTypeUsed
  <2> QED
    BY <2>1, <2>2, <2>3 DEF RoutedInv, Routed
<1> QED
  BY <1>1, RoutedInvariant, PTL


=============================================================================
