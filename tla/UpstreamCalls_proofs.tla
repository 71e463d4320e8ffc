------------------------ MODULE UpstreamCalls_proofs ------------------------
(***************************************************************************)
(* Proofs about UpstreamCalls: the limiter paces what the engine gets, and *)
(* the breaker opens on failures of its own calls only.                    *)
(***************************************************************************)
EXTENDS UpstreamCalls, FiniteSetTheorems, TLAPS

-----------------------------------------------------------------------------
(* The limiter *)

Stages == {"new", "wait", "sent"} \cup Ended

\* Calls whose token is there, and calls whose token is still to come.
Ready    == {c \in All : stage[c] = "wait" /\ at[c] # NotYet /\ at[c] <= now}
Ahead(c) == stage[c] = "wait" /\ at[c] > now

\* Tokens that the next callers find.
Free == IF tokens > 0 THEN tokens ELSE 0

\* Calls that have begun.
Begun == {c \in All : stage[c] # "new"}

CallTypes ==
    /\ now \in Nat
    /\ limit = Unlimited \/ limit \in Nat \ {0}
    /\ tokens \in Int
    /\ last \in Int
    /\ stage \in [All -> Stages]
    /\ at \in [All -> Int]
    /\ sends \in Seq(Nat)
    /\ IsFiniteSet(Begun)
    /\ \A c \in All : stage[c] = "new" => at[c] = NotYet

\* Tokens still to come are promised one per unit of time, none later than
\* last, and the limiter has counted all of them up to last.
Promises ==
    /\ last > now => last + tokens <= now
    /\ \A c \in All : Ahead(c) => at[c] <= last
    /\ \A c, d \in All : Ahead(c) /\ Ahead(d) /\ at[c] = at[d] => c = d

\* What has left since some send, may leave now or is there to be taken, is
\* within the burst and the tokens of the time since.
Budget ==
    /\ Cardinality(Ready) + Free <= limit
    /\ \A i \in DOMAIN sends :
          Len(sends) - i + 1 + Cardinality(Ready) + Free <= limit + now - sends[i]
    /\ RatePaced

PaceInv == CallTypes /\ (limit # Unlimited => Promises /\ Budget)

LEMMA ReadyFinite ==
    ASSUME CallTypes
    PROVE  IsFiniteSet(Ready) /\ Cardinality(Ready) \in Nat
<1>1. Ready \in SUBSET Begun
  BY DEF Ready, Begun
<1> QED
  BY <1>1, FS_Subset, FS_CardinalityType DEF CallTypes

LEMMA AtMostOne ==
    ASSUME NEW S, \A x, y \in S : x = y
    PROVE  IsFiniteSet(S) /\ Cardinality(S) \in {0, 1} /\ (S = {} => Cardinality(S) = 0)
<1>1. CASE S = {}
  BY <1>1, FS_EmptySet
<1>2. CASE S # {}
  <2>1. PICK x \in S : TRUE
    BY <1>2
  <2>2. S = {x}
    BY <2>1
  <2> QED
    BY <1>2, <2>2, FS_Singleton
<1> QED
  BY <1>1, <1>2

LEMMA PaceInit == Init => PaceInv
<1> SUFFICES ASSUME Init PROVE PaceInv
  OBVIOUS
<1>1. Begun = {} /\ Ready = {}
  BY DEF Init, Begun, Ready
<1>2. limit = Unlimited \/ limit \in Nat \ {0}
  BY UpstreamAssumption DEF Init, BurstOf
<1>3. CallTypes
  BY <1>1, <1>2, FS_EmptySet DEF Init, CallTypes, Stages, NotYet
<1>4. ASSUME limit # Unlimited
      PROVE  Promises /\ Budget
  <2>1. Promises
    BY DEF Init, Promises, Ahead
  <2>2. Cardinality(Ready) = 0 /\ Free = limit /\ DOMAIN sends = {}
    BY <1>1, <1>2, <1>4, FS_EmptySet DEF Init, Free
  <2> QED
    BY <1>2, <1>4, <2>1, <2>2 DEF Budget, RatePaced
<1> QED
  BY <1>3, <1>4 DEF PaceInv

\* A step at which no request leaves keeps within the budget when it makes no
\* more tokens and ready calls than there were.
LEMMA BudgetKept ==
    ASSUME CallTypes, CallTypes', limit # Unlimited, Budget,
           now' = now, limit' = limit, sends' = sends,
           Cardinality(Ready)' + Free' <= Cardinality(Ready) + Free
    PROVE  Budget'
<1>1. Cardinality(Ready) \in Nat /\ Free \in Nat /\ limit \in Nat /\ now \in Nat
  BY ReadyFinite DEF CallTypes, Free
<1>2. Cardinality(Ready') \in Nat /\ Free' \in Nat
  <2>1. Ready' \in SUBSET Begun'
    BY DEF Ready, Begun
  <2> QED
    BY <2>1, FS_Subset, FS_CardinalityType DEF CallTypes, Free
<1>3. RatePaced'
  BY DEF Budget, RatePaced
<1>4. (Cardinality(Ready) + Free <= limit)'
  BY <1>1, <1>2 DEF Budget
<1>5. ASSUME NEW i \in DOMAIN sends
      PROVE  Len(sends) - i + 1 + Cardinality(Ready') + Free' <= limit + now - sends[i]
  <2>1. Len(sends) \in Nat /\ i \in Nat /\ sends[i] \in Nat
    BY DEF CallTypes
  <2>2. Len(sends) - i + 1 + Cardinality(Ready) + Free <= limit + now - sends[i]
    BY <1>5 DEF Budget
  <2>3. Cardinality(Ready') + Free' <= Cardinality(Ready) + Free
    OBVIOUS
  <2>4. PICK r, f, q, g \in Nat :
           r = Cardinality(Ready) /\ f = Free /\ q = Cardinality(Ready') /\ g = Free'
    BY <1>1, <1>2
  <2>5. PICK a, b \in Int : a = Len(sends) - i + 1 /\ b = limit + now - sends[i]
    BY <1>1, <2>1
  <2>6. a + r + f <= b /\ q + g <= r + f
    BY <2>2, <2>3, <2>4, <2>5
  <2>7. a + q + g <= b
    BY <2>6
  <2> QED
    BY <2>4, <2>5, <2>7
<1> QED
  BY <1>3, <1>4, <1>5 DEF Budget

\* The call c stops waiting, or begins to, without a token of its own.
LEMMA QuietStep ==
    ASSUME PaceInv, NEW c \in All, NEW s \in Stages \ {"new"},
           stage' = [stage EXCEPT ![c] = s],
           at' = [at EXCEPT ![c] = NotYet] \/ (stage[c] = "new" /\ at' = at),
           \/ tokens' = tokens /\ last' = last
           \/ /\ stage[c] = "wait" /\ at[c] > now /\ at[c] = last
              /\ tokens' = tokens + 1 /\ last' = last - 1,
           UNCHANGED <<now, limit, sends>>
    PROVE  PaceInv'
<1>1. CallTypes
  BY DEF PaceInv
<1>2. Begun' = Begun \cup {c}
  BY <1>1 DEF CallTypes, Begun
<1>3. at' \in [All -> Int] /\ at'[c] = NotYet /\ \A d \in All \ {c} : at'[d] = at[d]
  BY <1>1 DEF CallTypes, NotYet
<1>4. stage' \in [All -> Stages] /\ stage'[c] = s /\ \A d \in All \ {c} : stage'[d] = stage[d]
  BY <1>1 DEF CallTypes
<1>5. CallTypes'
  <2>1. IsFiniteSet(Begun')
    BY <1>1, <1>2, FS_AddElement DEF CallTypes
  <2>2. \A d \in All : stage'[d] = "new" => at'[d] = NotYet
    BY <1>1, <1>3, <1>4 DEF CallTypes
  <2>3. tokens' \in Int /\ last' \in Int
    BY <1>1 DEF CallTypes
  <2> QED
    BY <1>1, <1>3, <1>4, <2>1, <2>2, <2>3 DEF CallTypes
<1>6. ASSUME limit # Unlimited
      PROVE  Promises' /\ Budget'
  <2>1. Promises /\ Budget
    BY <1>6 DEF PaceInv
  <2>2. \A d \in All : Ahead(d)' => d # c /\ Ahead(d) /\ at'[d] = at[d]
    BY <1>1, <1>3, <1>4 DEF Ahead, CallTypes, NotYet
  <2>3. Ready' \in SUBSET Ready
    BY <1>1, <1>3, <1>4 DEF Ready, CallTypes
  <2>4. Cardinality(Ready') <= Cardinality(Ready) /\ Cardinality(Ready') \in Nat
        /\ Cardinality(Ready) \in Nat
    BY <1>1, <2>3, ReadyFinite, FS_Subset, FS_CardinalityType
  <2>5. Free' <= Free
    BY <1>1, <2>1 DEF Free, CallTypes, Promises
  <2>6. Cardinality(Ready)' + Free' <= Cardinality(Ready) + Free
    BY <1>1, <1>5, <2>4, <2>5 DEF Free, CallTypes
  <2>7. Budget'
    BY <1>1, <1>5, <1>6, <2>1, <2>6, BudgetKept
  <2>8. (last > now => last + tokens <= now)'
    BY <1>1, <2>1 DEF CallTypes, Promises
  <2>9. ASSUME NEW d \in All, Ahead(d)'
        PROVE  at'[d] <= last'
    <3>1. d # c /\ Ahead(d) /\ at'[d] = at[d] /\ at[d] <= last
      BY <2>1, <2>2, <2>9 DEF Promises
    <3>2. CASE last' = last
      BY <3>1, <3>2
    <3>3. CASE stage[c] = "wait" /\ at[c] > now /\ at[c] = last /\ last' = last - 1
      <4>1. at[d] # at[c]
        BY <2>1, <3>1, <3>3 DEF Promises, Ahead
      <4> QED
        BY <1>1, <3>1, <3>3, <4>1 DEF CallTypes
    <3> QED
      BY <3>2, <3>3
  <2>10. \A d, e \in All : Ahead(d)' /\ Ahead(e)' /\ at'[d] = at'[e] => d = e
    BY <2>1, <2>2 DEF Promises
  <2> QED
    BY <2>7, <2>8, <2>9, <2>10 DEF Promises, Ahead
<1> QED
  BY <1>5, <1>6 DEF PaceInv

\* Reserve takes a token that is there, or the first one nobody was promised.
LEMMA ReserveStep ==
    ASSUME PaceInv, NEW c \in All, Reserve(c)
    PROVE  PaceInv'
<1>1. CallTypes /\ Promises /\ Budget /\ limit # Unlimited
  BY DEF PaceInv, Reserve
<1>2. /\ stage[c] = "wait" /\ at[c] = NotYet
      /\ tokens' = tokens - 1 /\ last' = NextToken
      /\ at' = [at EXCEPT ![c] = NextToken]
      /\ UNCHANGED <<now, limit, stage, sends>>
  BY DEF Reserve, Arriving
<1>3. NextToken = (IF tokens >= 1 THEN now ELSE now + (1 - tokens)) /\ NextToken \in Nat
  BY <1>1 DEF NextToken, CallTypes
<1>4. at' \in [All -> Int] /\ at'[c] = NextToken /\ \A d \in All \ {c} : at'[d] = at[d]
  BY <1>1, <1>2, <1>3 DEF CallTypes
<1>5. CallTypes'
  <2>1. Begun' = Begun
    BY <1>2 DEF Begun
  <2>2. \A d \in All : stage'[d] = "new" => at'[d] = NotYet
    BY <1>1, <1>2, <1>4 DEF CallTypes
  <2> QED
    BY <1>1, <1>2, <1>3, <1>4, <2>1, <2>2 DEF CallTypes
<1>6. CASE tokens >= 1
  <2>1. \A d \in All : Ahead(d)' => d # c /\ Ahead(d) /\ at'[d] = at[d]
    BY <1>1, <1>2, <1>3, <1>4, <1>6 DEF Ahead, CallTypes
  <2>2. last' = now /\ last <= now /\ \A d \in All : ~Ahead(d)
    BY <1>1, <1>2, <1>3, <1>6 DEF Promises, Ahead, CallTypes
  <2>3. Promises'
    BY <1>1, <1>2, <2>1, <2>2 DEF Promises, CallTypes
  <2>4. Ready' = Ready \cup {c} /\ c \notin Ready
    BY <1>1, <1>2, <1>3, <1>4, <1>6 DEF Ready, CallTypes, NotYet
  <2>5. Cardinality(Ready') = Cardinality(Ready) + 1 /\ Cardinality(Ready) \in Nat
    BY <1>1, <2>4, ReadyFinite, FS_AddElement
  <2>6. Free' = Free - 1 /\ Free \in Nat
    BY <1>1, <1>2, <1>6 DEF Free, CallTypes
  <2>7. Cardinality(Ready)' + Free' <= Cardinality(Ready) + Free
    BY <2>5, <2>6
  <2> QED
    BY <1>1, <1>2, <1>5, <2>3, <2>7, BudgetKept DEF PaceInv
<1>7. CASE ~(tokens >= 1)
  <2>1. NextToken > now /\ NextToken > last /\ last' + tokens' = now
    BY <1>1, <1>2, <1>3, <1>7 DEF Promises, CallTypes
  <2>2. \A d \in All : Ahead(d)' => d = c \/ (Ahead(d) /\ at'[d] = at[d] /\ at[d] <= last)
    BY <1>1, <1>2, <1>4 DEF Ahead, Promises
  <2>3. Promises'
    <3>1. \A d \in All : Ahead(d)' => at'[d] <= last'
      BY <1>1, <1>2, <1>3, <1>4, <2>1, <2>2 DEF CallTypes
    <3>2. ASSUME NEW d \in All, NEW e \in All, Ahead(d)', Ahead(e)', at'[d] = at'[e]
          PROVE  d = e
      BY <1>1, <1>2, <1>3, <1>4, <2>1, <2>2, <3>2 DEF Promises, CallTypes
    <3> QED
      BY <1>1, <1>2, <2>1, <3>1, <3>2 DEF Promises, CallTypes
  <2>4. Ready' = Ready
    BY <1>1, <1>2, <1>3, <1>4, <2>1 DEF Ready, CallTypes
  <2>5. Free' = Free /\ Free \in Nat
    BY <1>1, <1>2, <1>7 DEF Free, CallTypes
  <2>6. Cardinality(Ready)' + Free' <= Cardinality(Ready) + Free
    BY <1>1, <2>4, <2>5, ReadyFinite
  <2> QED
    BY <1>1, <1>2, <1>5, <2>3, <2>6, BudgetKept DEF PaceInv
<1> QED
  BY <1>6, <1>7

LEMMA Appended ==
    ASSUME NEW s \in Seq(Nat), NEW x \in Nat
    PROVE  /\ Append(s, x) \in Seq(Nat)
           /\ Len(s) \in Nat /\ Len(Append(s, x)) = Len(s) + 1
           /\ DOMAIN Append(s, x) = 1..(Len(s) + 1)
           /\ Append(s, x)[Len(s) + 1] = x
           /\ \A i \in 1..Len(s) : Append(s, x)[i] = s[i]
  OBVIOUS

\* Send spends the token that was there for the call.
LEMMA SendStep ==
    ASSUME PaceInv, NEW c \in All, Send(c)
    PROVE  PaceInv'
<1>1. CallTypes
  BY DEF PaceInv
<1>2. /\ stage[c] = "wait" /\ stage' = [stage EXCEPT ![c] = "sent"]
      /\ UNCHANGED <<now, limit, tokens, last, at>>
      /\ limit = Unlimited => sends' = sends
      /\ limit # Unlimited => sends' = Append(sends, now) /\ at[c] # NotYet /\ at[c] <= now
  BY DEF Send
<1>3. stage' \in [All -> Stages] /\ stage'[c] = "sent" /\ \A d \in All \ {c} : stage'[d] = stage[d]
  BY <1>1, <1>2 DEF CallTypes, Stages
<1>4. CallTypes'
  <2>1. Begun' = Begun
    BY <1>2, <1>3 DEF Begun
  <2>2. \A d \in All : stage'[d] = "new" => at'[d] = NotYet
    BY <1>1, <1>2, <1>3 DEF CallTypes
  <2>3. sends' \in Seq(Nat)
    <3>1. sends \in Seq(Nat) /\ now \in Nat
      BY <1>1 DEF CallTypes
    <3> QED
      BY <1>2, <3>1, Appended
  <2> QED
    BY <1>1, <1>2, <1>3, <2>1, <2>2, <2>3 DEF CallTypes
<1>5. ASSUME limit # Unlimited
      PROVE  Promises' /\ Budget'
  <2>1. Promises /\ Budget
    BY <1>5 DEF PaceInv
  <2>2. Promises'
    BY <1>2, <1>3, <2>1 DEF Promises, Ahead
  <2>3. Ready' = Ready \ {c} /\ c \in Ready
    BY <1>2, <1>3, <1>5 DEF Ready
  <2>4. Cardinality(Ready') = Cardinality(Ready) - 1 /\ Cardinality(Ready) \in Nat
        /\ Cardinality(Ready') \in Nat
    BY <1>1, <2>3, ReadyFinite, FS_RemoveElement, FS_CardinalityType
  <2>5. Free' = Free /\ Free \in Nat
    BY <1>1, <1>2 DEF Free, CallTypes
  <2>6. /\ Len(sends') = Len(sends) + 1 /\ sends'[Len(sends) + 1] = now /\ Len(sends) \in Nat
        /\ DOMAIN sends = 1..Len(sends) /\ DOMAIN sends' = 1..(Len(sends) + 1)
        /\ \A i \in DOMAIN sends : sends'[i] = sends[i] /\ sends[i] \in Nat
    <3>1. sends \in Seq(Nat) /\ now \in Nat /\ sends' = Append(sends, now)
      BY <1>1, <1>2, <1>5 DEF CallTypes
    <3>2. DOMAIN sends = 1..Len(sends) /\ \A i \in DOMAIN sends : sends[i] \in Nat
      BY <3>1
    <3> QED
      BY <3>1, <3>2, Appended
  <2>7. limit \in Nat /\ now \in Nat /\ now' = now /\ limit' = limit
    BY <1>1, <1>2, <1>5 DEF CallTypes
  <2>8. ASSUME NEW i \in DOMAIN sends'
        PROVE  Len(sends') - i + 1 + Cardinality(Ready') + Free' <= limit + now - sends'[i]
    <3>1. PICK r, f, n \in Nat : r = Cardinality(Ready) /\ f = Free /\ n = Len(sends)
      BY <2>4, <2>5, <2>6
    <3>2. Cardinality(Ready') = r - 1 /\ Free' = f /\ Len(sends') = n + 1
      BY <2>4, <2>5, <2>6, <3>1
    <3>3. CASE i \in DOMAIN sends
      <4>1. PICK t \in Nat : t = sends[i] /\ t = sends'[i]
        BY <2>6, <3>3
      <4>2. n - i + 1 + r + f <= limit + now - t
        BY <2>1, <3>1, <3>3, <4>1 DEF Budget
      <4>3. i \in Nat
        BY <2>6, <3>3
      <4>4. n + 1 - i + 1 + (r - 1) + f <= limit + now - t
        BY <2>7, <4>2, <4>3
      <4> QED
        BY <3>2, <4>1, <4>4
    <3>4. CASE i = n + 1
      <4>1. r + f <= limit /\ sends'[i] = now
        BY <2>1, <2>6, <3>1, <3>4 DEF Budget
      <4> QED
        BY <2>7, <3>2, <3>4, <4>1
    <3> QED
      BY <2>6, <3>1, <3>3, <3>4
  <2>9. (Cardinality(Ready) + Free <= limit)'
    BY <2>1, <2>4, <2>5, <2>7 DEF Budget
  <2>10. ASSUME NEW i \in DOMAIN sends', NEW j \in DOMAIN sends', i <= j
         PROVE  j - i + 1 <= limit + (sends'[j] - sends'[i])
    <3>1. CASE j \in DOMAIN sends
      <4>1. i \in DOMAIN sends
        BY <2>6, <2>10, <3>1
      <4>2. j - i + 1 <= limit + (sends[j] - sends[i])
        BY <1>5, <2>1, <2>10, <3>1, <4>1 DEF Budget, RatePaced
      <4> QED
        BY <2>6, <3>1, <4>1, <4>2
    <3>2. CASE j = Len(sends')
      <4>1. sends'[j] = now
        BY <2>6, <3>2
      <4>2. PICK r, f, t, n \in Nat : /\ r = Cardinality(Ready') /\ f = Free'
                                      /\ t = sends'[i] /\ n = Len(sends')
        BY <2>4, <2>5, <2>6, <2>7, <2>10, SMTT(30)
      <4>3. n - i + 1 + r + f <= limit + now - t
        BY <2>8, <4>2
      <4>4. i \in Nat
        BY <2>6
      <4>5. n - i + 1 <= limit + (now - t)
        BY <2>7, <4>2, <4>3, <4>4, SMTT(30)
      <4> QED
        BY <3>2, <4>1, <4>2, <4>5
    <3> QED
      BY <2>6, <3>1, <3>2
  <2>11. RatePaced'
    BY <2>7, <2>10 DEF RatePaced
  <2> QED
    BY <2>2, <2>7, <2>8, <2>9, <2>11 DEF Budget
<1> QED
  BY <1>2, <1>4, <1>5 DEF PaceInv

\* Tick earns a token; at most one call finds it its own.
LEMMA TickStep ==
    ASSUME PaceInv, Tick
    PROVE  PaceInv'
<1>1. CallTypes
  BY DEF PaceInv
<1>2. /\ now' = now + 1
      /\ tokens' = IF limit = Unlimited THEN tokens ELSE Min2(limit, tokens + 1)
      /\ UNCHANGED <<limit, last, stage, at, sends>>
      /\ \A c \in All : stage[c] = "wait" => ~(at[c] <= now)
  BY DEF Tick, Due, callVars
<1>3. limit # Unlimited => tokens' \in Int /\ tokens' <= tokens + 1 /\ tokens' <= limit
  BY <1>1, <1>2 DEF CallTypes, Min2
<1>4. CallTypes'
  <2>1. Begun' = Begun
    BY <1>2 DEF Begun
  <2> QED
    BY <1>1, <1>2, <1>3, <2>1 DEF CallTypes
<1>5. ASSUME limit # Unlimited
      PROVE  Promises' /\ Budget'
  <2>1. Promises /\ Budget
    BY <1>5 DEF PaceInv
  <2>2. \A c \in All : Ahead(c)' => Ahead(c)
    BY <1>1, <1>2 DEF Ahead, CallTypes
  <2>3. (last > now => last + tokens <= now)'
    BY <1>1, <1>2, <1>3, <1>5, <2>1 DEF Promises, CallTypes
  <2>4. Promises'
    BY <1>2, <2>1, <2>2, <2>3 DEF Promises
  <2>5. Ready = {}
    BY <1>1, <1>2 DEF Ready
  <2>6. \A c \in Ready' : c \in All /\ Ahead(c) /\ at[c] = now + 1
    BY <1>1, <1>2 DEF Ready, Ahead, CallTypes
  <2>7. \A c, d \in Ready' : c = d
    BY <2>1, <2>6 DEF Promises
  <2>8. /\ Cardinality(Ready') \in {0, 1}
        /\ Ready' = {} => Cardinality(Ready') = 0
        /\ Cardinality(Ready) = 0
    BY <2>5, <2>7, AtMostOne, FS_EmptySet
  <2>9. tokens >= 0 => Ready' = {}
    BY <1>1, <2>1, <2>6 DEF Promises, CallTypes, Ahead
  <2>10. PICK r, g, f \in Nat : r = Cardinality(Ready') /\ g = Free' /\ f = Free
    <3>1. Free \in Nat
      BY <1>1 DEF Free, CallTypes
    <3>2. Free' \in Nat
      BY <1>3, <1>5 DEF Free
    <3>3. Cardinality(Ready') \in Nat
      BY <2>8
    <3> QED
      BY <3>1, <3>2, <3>3
  <2>11. r + g <= f + 1 /\ r + g <= limit
    <3>1. limit \in Nat \ {0} /\ tokens \in Int /\ tokens' \in Int /\ r \in {0, 1}
      BY <1>1, <1>3, <1>5, <2>8, <2>10 DEF CallTypes
    <3>2. tokens' <= tokens + 1 /\ tokens' <= limit
      BY <1>3, <1>5
    <3>3. f = (IF tokens > 0 THEN tokens ELSE 0) /\ g = IF tokens' > 0 THEN tokens' ELSE 0
      BY <2>10 DEF Free
    <3>4. tokens >= 0 => r = 0
      BY <2>8, <2>9, <2>10
    <3>5. CASE tokens >= 0
      <4>1. r = 0 /\ f = tokens /\ g <= tokens + 1 /\ g <= limit
        BY <3>1, <3>2, <3>3, <3>4, <3>5
      <4> QED
        BY <3>1, <4>1
    <3>6. CASE ~(tokens >= 0)
      <4>1. f = 0 /\ g = 0
        BY <3>1, <3>2, <3>3, <3>6
      <4> QED
        BY <3>1, <4>1
    <3> QED
      BY <3>5, <3>6
  <2>12. ASSUME NEW i \in DOMAIN sends
         PROVE  Len(sends) - i + 1 + r + g <= limit + (now + 1) - sends[i]
    <3>1. PICK a, t \in Int : a = Len(sends) - i + 1 /\ t = sends[i]
      BY <1>1 DEF CallTypes
    <3>2. a + 0 + f <= limit + now - t
      BY <2>1, <2>8, <2>10, <3>1 DEF Budget
    <3>3. limit \in Nat /\ now \in Nat
      BY <1>1, <1>5 DEF CallTypes
    <3>4. a + r + g <= limit + (now + 1) - t
      BY <2>11, <3>2, <3>3
    <3> QED
      BY <3>1, <3>4
  <2>13. RatePaced'
    BY <1>2, <2>1 DEF Budget, RatePaced
  <2> QED
    BY <1>2, <2>4, <2>10, <2>11, <2>12, <2>13 DEF Budget
<1> QED
  BY <1>2, <1>4, <1>5 DEF PaceInv


LEMMA PaceStep ==
    ASSUME PaceInv, [Next]_vars
    PROVE  PaceInv'
<1>1. CallTypes
  BY DEF PaceInv
<1>2. ASSUME NEW c \in All,
             Admit(c) \/ RefuseCall(c) \/ Probe(c) \/ WaitFails(c) \/ WaitCancelled(c)
               \/ Replies(c) \/ TripFails(c)
      PROVE  PaceInv'
  <2>1. CASE Admit(c) \/ Probe(c)
    <3>1. /\ stage' = [stage EXCEPT ![c] = "wait"] /\ stage[c] = "new" /\ at' = at
          /\ tokens' = tokens /\ last' = last /\ UNCHANGED <<now, limit, sends>>
          /\ "wait" \in Stages \ {"new"}
      BY <2>1 DEF Admit, Probe, Arrives, Stages
    <3> QED
      BY <3>1, QuietStep
  <2>2. CASE RefuseCall(c)
    <3>1. /\ stage' = [stage EXCEPT ![c] = "refused"] /\ at' = [at EXCEPT ![c] = NotYet]
          /\ tokens' = tokens /\ last' = last /\ UNCHANGED <<now, limit, sends>>
          /\ "refused" \in Stages \ {"new"}
      BY <2>2 DEF RefuseCall, End, Stages, Ended
    <3> QED
      BY <3>1, QuietStep
  <2>3. CASE WaitFails(c) \/ TripFails(c)
    <3>1. PICK how \in Failed :
          /\ stage' = [stage EXCEPT ![c] = how] /\ at' = [at EXCEPT ![c] = NotYet]
          /\ tokens' = tokens /\ last' = last /\ UNCHANGED <<now, limit, sends>>
          /\ how \in Stages \ {"new"}
      BY <2>3 DEF WaitFails, TripFails, Fails, End, Stages, Ended, Failed
    <3> QED
      BY <3>1, QuietStep
  <2>4. CASE Replies(c)
    <3>1. /\ stage' = [stage EXCEPT ![c] = "ok"] /\ at' = [at EXCEPT ![c] = NotYet]
          /\ tokens' = tokens /\ last' = last /\ UNCHANGED <<now, limit, sends>>
          /\ "ok" \in Stages \ {"new"}
      BY <2>4 DEF Replies, End, Stages, Ended
    <3> QED
      BY <3>1, QuietStep
  <2>5. CASE WaitCancelled(c)
    <3>1. PICK how \in Failed :
          /\ stage' = [stage EXCEPT ![c] = how] /\ at' = [at EXCEPT ![c] = NotYet]
          /\ stage[c] = "wait" /\ UNCHANGED <<now, limit, sends>>
          /\ how \in Stages \ {"new"}
      BY <2>5 DEF WaitCancelled, Fails, End, Stages, Ended, Failed
    <3>2. \/ tokens' = tokens /\ last' = last
          \/ /\ stage[c] = "wait" /\ at[c] > now /\ at[c] = last
             /\ tokens' = tokens + 1 /\ last' = last - 1
      BY <2>5 DEF WaitCancelled
    <3> QED
      BY <3>1, <3>2, QuietStep
  <2> QED
    BY <1>2, <2>1, <2>2, <2>3, <2>4, <2>5
<1>3. ASSUME NEW c \in All, Proceed(c)
      PROVE  PaceInv'
  BY <1>2, <1>3, ReserveStep, SendStep DEF Proceed
<1>4. ASSUME NEW c \in All, DeadlineFires(c)
      PROVE  PaceInv'
  BY <1>2, <1>4 DEF DeadlineFires
<1>5. CASE UNCHANGED vars
  <2>1. UNCHANGED <<now, limit, tokens, last, stage, at, sends>>
    BY <1>5 DEF vars, callVars
  <2> QED
    BY <2>1 DEF PaceInv, CallTypes, Promises, Budget, RatePaced, Ready, Ahead, Free, Begun
<1> QED
  BY <1>2, <1>3, <1>4, <1>5, TickStep DEF Next

\* rate.Limiter's reservations, the cancelled ones included, let no stretch of
\* time have more requests than RatePaced says, whatever calls give up and when.
THEOREM LimiterPaces == Spec => []RatePaced
<1>1. PaceInv /\ [Next]_vars => PaceInv'
  BY PaceStep
<1>2. PaceInv => RatePaced
  BY DEF PaceInv, Budget, RatePaced
<1> QED
  BY <1>1, <1>2, PaceInit, PTL DEF Spec

-----------------------------------------------------------------------------
(* The breaker *)

\* The calls of a generation that failed.
FailedIn(g) == {c \in Calls : stage[c] \in Failed /\ gen[c] = g}

\* A breaker that has counted no more failures in its generation than there were.
Counted(b) ==
    /\ DOMAIN b = {"state", "gen", "reqs", "succ", "fail", "exp"}
    /\ b.gen \in Nat /\ b.fail \in Nat
    /\ b.fail <= Cardinality(FailedIn(b.gen))

BreakerInv ==
    /\ stage \in [All -> Stages]
    /\ gen \in [All -> Nat]
    /\ IsFiniteSet(Begun)
    /\ Counted(brk)

LEMMA FailedFinite ==
    ASSUME BreakerInv, NEW g
    PROVE  IsFiniteSet(FailedIn(g)) /\ Cardinality(FailedIn(g)) \in Nat
<1>1. FailedIn(g) \in SUBSET Begun
  BY DEF FailedIn, Begun, All, Failed
<1> QED
  BY <1>1, FS_Subset, FS_CardinalityType DEF BreakerInv

LEMMA FreshIs ==
    ASSUME NEW b, NEW s
    PROVE  /\ DOMAIN Fresh(b, s) = {"state", "gen", "reqs", "succ", "fail", "exp"}
           /\ Fresh(b, s).state = s /\ Fresh(b, s).gen = b.gen + 1 /\ Fresh(b, s).fail = 0
<1> DEFINE e == CASE s = "open" -> now + OpenFor
                  [] s = "closed" /\ Interval > 0 -> now + Interval
                  [] OTHER -> Never
<1>1. Fresh(b, s) = [state |-> s, gen |-> b.gen + 1, reqs |-> 0, succ |-> 0, fail |-> 0, exp |-> e]
  BY Zenon DEF Fresh
<1> HIDE DEF e
<1> QED
  BY <1>1

LEMMA FreshCounted ==
    ASSUME BreakerInv, NEW b, b.gen \in Nat, NEW s
    PROVE  Counted(Fresh(b, s))
<1>1. PICK g \in Nat : g = b.gen + 1
  OBVIOUS
<1>2. Cardinality(FailedIn(g)) \in Nat
  BY FailedFinite
<1>3. Fresh(b, s).gen = g /\ Fresh(b, s).fail = 0
  BY <1>1, FreshIs
<1> QED
  BY <1>1, <1>2, <1>3, FreshIs DEF Counted

LEMMA CurrentIs ==
    ASSUME BreakerInv
    PROVE  Counted(Current(brk)) /\ (brk.state = "closed" => Current(brk).state = "closed")
<1>1. Counted(brk) /\ brk.gen \in Nat
  BY DEF BreakerInv, Counted
<1>2. \/ Current(brk) = Fresh(brk, "closed") /\ brk.state = "closed"
      \/ Current(brk) = Fresh(brk, "half-open") /\ brk.state = "open"
      \/ Current(brk) = brk
  BY DEF Current
<1>3. \A s : Counted(Fresh(brk, s))
  BY <1>1, FreshCounted
<1>4. Fresh(brk, "closed").state = "closed"
  BY FreshIs
<1> QED
  BY <1>1, <1>2, <1>3, <1>4


\* What afterRequest makes of a result that is not a success.
LEMMA AfterFailure ==
    ASSUME NEW b, Counted(b), NEW g \in Nat
    PROVE  \/ g # b.gen /\ After(b, g, FALSE) = b
           \/ /\ g = b.gen /\ After(b, g, FALSE) = Fresh(b, "open")
              /\ b.state = "half-open" \/ b.fail + 1 >= Threshold
           \/ /\ g = b.gen /\ b.state # "half-open"
              /\ DOMAIN After(b, g, FALSE) = DOMAIN b
              /\ After(b, g, FALSE).state = b.state
              /\ After(b, g, FALSE).gen = b.gen /\ After(b, g, FALSE).fail = b.fail + 1
<1>1. CASE g # b.gen
  BY <1>1 DEF After
<1>2. CASE g = b.gen /\ (b.state = "half-open" \/ ReadyToTrip(b.fail + 1))
  BY <1>2 DEF After, ReadyToTrip
<1>3. CASE g = b.gen /\ ~(b.state = "half-open" \/ ReadyToTrip(b.fail + 1))
  <2>1. After(b, g, FALSE) = [b EXCEPT !.fail = @ + 1, !.succ = 0]
    BY <1>3 DEF After
  <2> QED
    BY <1>3, <2>1 DEF Counted
<1> QED
  BY <1>1, <1>2, <1>3

LEMMA AfterSuccess ==
    ASSUME NEW b, Counted(b), NEW g \in Nat
    PROVE  \/ After(b, g, TRUE) = b
           \/ After(b, g, TRUE) = Fresh(b, "closed")
           \/ /\ DOMAIN After(b, g, TRUE) = DOMAIN b
              /\ After(b, g, TRUE).state = b.state
              /\ After(b, g, TRUE).gen = b.gen /\ After(b, g, TRUE).fail = 0
<1>1. CASE g # b.gen
  BY <1>1 DEF After
<1>2. CASE g = b.gen /\ b.state = "half-open" /\ b.succ + 1 >= MaxRequests
  BY <1>2 DEF After
<1>3. CASE g = b.gen /\ ~(b.state = "half-open" /\ b.succ + 1 >= MaxRequests)
  <2>1. After(b, g, TRUE) = [b EXCEPT !.succ = @ + 1, !.fail = 0]
    BY <1>3 DEF After
  <2> QED
    BY <2>1 DEF Counted
<1> QED
  BY <1>1, <1>2, <1>3

\* Counts stay true when calls fail and none of the counted ones is taken back.
LEMMA CountedKept ==
    ASSUME BreakerInv, IsFiniteSet(Begun'),
           \A c \in Calls : stage[c] \in Failed => stage'[c] \in Failed /\ gen'[c] = gen[c],
           NEW b, Counted(b)
    PROVE  Counted(b)'
<1>1. b.gen \in Nat /\ b.fail \in Nat /\ b.fail <= Cardinality(FailedIn(b.gen))
  BY DEF Counted
<1>2. FailedIn(b.gen) \in SUBSET FailedIn(b.gen)'
  BY DEF FailedIn
<1>3. FailedIn(b.gen)' \in SUBSET Begun'
  BY DEF FailedIn, Begun, All, Failed
<1>4. IsFiniteSet(FailedIn(b.gen)')
  BY <1>3, FS_Subset
<1>5. Cardinality(FailedIn(b.gen)) <= Cardinality(FailedIn(b.gen)')
      /\ Cardinality(FailedIn(b.gen)) \in Nat /\ Cardinality(FailedIn(b.gen)') \in Nat
  BY <1>2, <1>4, FS_Subset, FS_CardinalityType
<1>6. b.fail <= Cardinality(FailedIn(b.gen)')
  BY <1>1, <1>5
<1> QED
  BY <1>1, <1>6 DEF Counted

\* A conversion fails: the breaker counts it when it is of its generation, and
\* trips only with as many failures as the threshold.
LEMMA FailureStep ==
    ASSUME BreakerInv, NEW c \in All, stage[c] \in {"wait", "sent"},
           NEW how \in Failed, Fails(c, how), gen' = gen
    PROVE  /\ BreakerInv'
           /\ Trips => Cardinality(EndedIn(Failed)) >= Threshold
<1> DEFINE b == Current(brk)
<1>1. /\ stage' = [stage EXCEPT ![c] = how]
      /\ brk' = IF c \in Calls THEN After(b, gen[c], FALSE) ELSE brk
  BY DEF Fails, End, Report
<1>2. /\ stage' \in [All -> Stages] /\ stage'[c] \in Failed
      /\ \A d \in All \ {c} : stage'[d] = stage[d]
      /\ stage[c] \notin Failed /\ "new" \notin Failed
  BY <1>1 DEF BreakerInv, Stages, Ended, Failed
<1>3. Begun' = Begun /\ IsFiniteSet(Begun')
  <2>1. Begun' = Begun
    BY <1>2 DEF Begun
  <2> QED
    BY <2>1 DEF BreakerInv
<1>4. \A d \in Calls : stage[d] \in Failed => stage'[d] \in Failed /\ gen'[d] = gen[d]
  BY <1>2 DEF All
<1>5. Counted(b) /\ (brk.state = "closed" => b.state = "closed")
  BY CurrentIs
<1>6. gen[c] \in Nat /\ gen' \in [All -> Nat]
  BY DEF BreakerInv
<1> HIDE DEF b
<1>7. CASE c \notin Calls
  <2>1. brk' = brk /\ Counted(brk)
    BY <1>1, <1>7 DEF BreakerInv
  <2>2. PICK k : k = brk
    OBVIOUS
  <2>3. Counted(k)'
    BY <1>3, <1>4, <2>1, <2>2, CountedKept
  <2>4. Counted(brk)'
    BY <2>1, <2>2, <2>3 DEF Counted
  <2> QED
    BY <1>2, <1>3, <1>6, <2>1, <2>4 DEF BreakerInv, Trips
<1>8. CASE c \in Calls
  <2>1. PICK k, n : k = b /\ n = After(b, gen[c], FALSE)
    OBVIOUS
  <2>2. brk' = n /\ Counted(k) /\ Counted(k)'
    BY <1>1, <1>3, <1>4, <1>5, <1>8, <2>1, CountedKept
  <2>3. /\ FailedIn(k.gen)' = IF gen[c] = k.gen THEN FailedIn(k.gen) \cup {c} ELSE FailedIn(k.gen)
        /\ c \notin FailedIn(k.gen)
    BY <1>2, <1>8 DEF FailedIn, All
  <2>4. IsFiniteSet(FailedIn(k.gen)) /\ Cardinality(FailedIn(k.gen)) \in Nat
    BY FailedFinite
  <2>5. gen[c] = k.gen => Cardinality(FailedIn(k.gen)') = Cardinality(FailedIn(k.gen)) + 1
    BY <2>3, <2>4, FS_AddElement
  <2>6. k.gen \in Nat /\ k.fail \in Nat /\ k.fail <= Cardinality(FailedIn(k.gen))
        /\ DOMAIN k = {"state", "gen", "reqs", "succ", "fail", "exp"}
    BY <2>2 DEF Counted
  <2>7. \/ gen[c] # k.gen /\ n = k
        \/ /\ gen[c] = k.gen /\ n = Fresh(k, "open")
           /\ k.state = "half-open" \/ k.fail + 1 >= Threshold
        \/ /\ gen[c] = k.gen /\ k.state # "half-open" /\ DOMAIN n = DOMAIN k
           /\ n.state = k.state /\ n.gen = k.gen /\ n.fail = k.fail + 1
    BY <1>6, <2>1, <2>2, AfterFailure
  <2>8. Counted(n)'
    <3>1. CASE n = k
      BY <2>2, <3>1
    <3>2. CASE n = Fresh(k, "open")
      <4>1. n.gen \in Nat /\ n.fail = 0 /\ DOMAIN n = {"state", "gen", "reqs", "succ", "fail", "exp"}
        BY <2>6, <3>2, FreshIs
      <4>2. FailedIn(n.gen)' \in SUBSET Begun'
        BY DEF FailedIn, Begun, All, Failed
      <4>3. Cardinality(FailedIn(n.gen)') \in Nat
        BY <1>3, <4>2, FS_Subset, FS_CardinalityType
      <4>4. n.fail <= Cardinality(FailedIn(n.gen)')
        BY <4>1, <4>3
      <4> QED
        BY <4>1, <4>4 DEF Counted
    <3>3. CASE gen[c] = k.gen /\ DOMAIN n = DOMAIN k /\ n.gen = k.gen /\ n.fail = k.fail + 1
      <4>1. n.fail <= Cardinality(FailedIn(k.gen)')
        BY <2>4, <2>5, <2>6, <3>3
      <4> QED
        BY <2>6, <3>3, <4>1 DEF Counted
    <3> QED
      BY <2>7, <3>1, <3>2, <3>3
  <2>9. BreakerInv'
    <3>1. Counted(brk)'
      BY <2>2, <2>8 DEF Counted
    <3> QED
      BY <1>2, <1>3, <1>6, <3>1 DEF BreakerInv
  <2>10. ASSUME brk.state = "closed", n.state = "open"
         PROVE  Cardinality(FailedIn(k.gen)') >= Threshold
    <3>1. k.state = "closed"
      BY <1>5, <2>1, <2>10
    <3>2. gen[c] = k.gen /\ k.fail + 1 >= Threshold
      BY <2>7, <2>10, <3>1
    <3> QED
      BY <2>4, <2>5, <2>6, <3>2, UpstreamAssumption
  <2>11. FailedIn(k.gen)' = EndedIn(Failed)
    BY <2>1 DEF b, FailedIn, EndedIn
  <2> QED
    BY <2>2, <2>9, <2>10, <2>11 DEF Trips
<1> QED
  BY <1>7, <1>8


LEMMA BreakerStep ==
    ASSUME BreakerInv, [Next]_vars
    PROVE  /\ BreakerInv'
           /\ Trips => Cardinality(EndedIn(Failed)) >= Threshold
<1> DEFINE b == Current(brk)
<1>1. Counted(b) /\ (brk.state = "closed" => b.state = "closed")
  BY CurrentIs
<1>2. /\ stage \in [All -> Stages] /\ gen \in [All -> Nat] /\ IsFiniteSet(Begun) /\ Counted(brk)
  BY DEF BreakerInv
<1> HIDE DEF b
<1>3. ASSUME NEW c \in All, NEW s \in Stages \ ({"new"} \cup Failed), stage[c] \notin Failed,
             stage' = [stage EXCEPT ![c] = s], gen' \in [All -> Nat],
             \A d \in All \ {c} : gen'[d] = gen[d],
             NEW n, brk' = n, brk.state = "closed" => n.state # "open",
             \/ Counted(n)
             \/ \E k : /\ Counted(k) /\ DOMAIN n = DOMAIN k /\ n.gen = k.gen
                       /\ n.fail \in {0, k.fail}
      PROVE  BreakerInv' /\ ~(brk.state = "closed" /\ brk'.state = "open")
  <2>1. Begun' = Begun \cup {c}
    BY <1>2, <1>3 DEF Begun
  <2>2. IsFiniteSet(Begun') /\ stage' \in [All -> Stages]
    BY <1>2, <1>3, <2>1, FS_AddElement
  <2>3. \A d \in Calls : stage[d] \in Failed => stage'[d] \in Failed /\ gen'[d] = gen[d]
    BY <1>2, <1>3 DEF All
  <2>4. Counted(n)
    <3>1. ASSUME NEW k, Counted(k), DOMAIN n = DOMAIN k, n.gen = k.gen, n.fail \in {0, k.fail}
          PROVE  Counted(n)
      <4>1. Cardinality(FailedIn(k.gen)) \in Nat
        BY FailedFinite
      <4> QED
        BY <3>1, <4>1 DEF Counted
    <3> QED
      BY <1>3, <3>1
  <2>5. Counted(n)'
    BY <2>2, <2>3, <2>4, CountedKept
  <2>6. Counted(brk)'
    BY <1>3, <2>5 DEF Counted
  <2> QED
    BY <1>3, <2>2, <2>6 DEF BreakerInv
<1>4. ASSUME NEW c \in All, Admit(c)
      PROVE  BreakerInv' /\ ~(brk.state = "closed" /\ brk'.state = "open")
  <2>1. /\ stage[c] = "new" /\ stage' = [stage EXCEPT ![c] = "wait"]
        /\ gen' = [gen EXCEPT ![c] = b.gen] /\ brk' = [b EXCEPT !.reqs = @ + 1]
    BY <1>4 DEF Admit, Arrives, b
  <2>2. PICK n : n = brk'
    OBVIOUS
  <2>3. /\ DOMAIN b = {"state", "gen", "reqs", "succ", "fail", "exp"} /\ b.gen \in Nat
    BY <1>1 DEF Counted
  <2>4. DOMAIN n = DOMAIN b /\ n.gen = b.gen /\ n.fail = b.fail /\ n.state = b.state
    BY <2>1, <2>2, <2>3
  <2>5. PICK k : k = b
    OBVIOUS
  <2>6. /\ Counted(k) /\ DOMAIN n = DOMAIN k /\ n.gen = k.gen /\ n.fail \in {0, k.fail}
        /\ brk.state = "closed" => n.state # "open"
    BY <1>1, <2>4, <2>5
  <2>7. gen' \in [All -> Nat] /\ \A d \in All \ {c} : gen'[d] = gen[d]
    BY <1>2, <2>1, <2>3
  <2>8. PICK s \in Stages \ ({"new"} \cup Failed) : s = "wait"
    BY DEF Stages, Failed
  <2> QED
    BY <1>3, <2>1, <2>2, <2>6, <2>7, <2>8 DEF Failed
<1>5. ASSUME NEW c \in All, RefuseCall(c) \/ Probe(c) \/ Send(c)
      PROVE  BreakerInv' /\ ~(brk.state = "closed" /\ brk'.state = "open")
  <2>1. PICK s \in Stages \ ({"new"} \cup Failed) : stage' = [stage EXCEPT ![c] = s]
    BY <1>5 DEF RefuseCall, Probe, Send, End, Stages, Ended, Failed
  <2>2. stage[c] \notin Failed /\ gen' = gen
    BY <1>5 DEF RefuseCall, Probe, Send, Arrives, Failed
  <2>3. PICK n : n = brk'
    OBVIOUS
  <2>4. n = b \/ n = brk
    BY <1>5, <2>3 DEF RefuseCall, Probe, Send, b
  <2>5. Counted(n) /\ (brk.state = "closed" => n.state # "open")
    BY <1>1, <1>2, <2>4
  <2>6. gen' \in [All -> Nat] /\ \A d \in All \ {c} : gen'[d] = gen[d]
    BY <1>2, <2>2
  <2> QED
    BY <1>3, <2>1, <2>2, <2>3, <2>5, <2>6
<1>6. ASSUME NEW c \in All, Replies(c)
      PROVE  BreakerInv' /\ ~(brk.state = "closed" /\ brk'.state = "open")
  <2>1. /\ stage[c] = "sent" /\ stage' = [stage EXCEPT ![c] = "ok"] /\ gen' = gen
        /\ brk' = IF c \in Calls THEN After(b, gen[c], TRUE) ELSE brk
    BY <1>6 DEF Replies, End, Report, b
  <2>2. PICK n, k, g : n = brk' /\ k = b /\ g = gen[c] /\ g \in Nat
    BY <1>2
  <2>3. Counted(k) /\ (brk.state = "closed" => k.state = "closed") /\ k.gen \in Nat
    BY <1>1, <2>2 DEF Counted
  <2>4. \/ n = brk
        \/ n = k
        \/ n = Fresh(k, "closed")
        \/ DOMAIN n = DOMAIN k /\ n.state = k.state /\ n.gen = k.gen /\ n.fail = 0
    <3>1. n = brk \/ n = After(k, g, TRUE)
      BY <2>1, <2>2
    <3>2. \/ After(k, g, TRUE) = k
          \/ After(k, g, TRUE) = Fresh(k, "closed")
          \/ /\ DOMAIN After(k, g, TRUE) = DOMAIN k
             /\ After(k, g, TRUE).state = k.state
             /\ After(k, g, TRUE).gen = k.gen /\ After(k, g, TRUE).fail = 0
      BY <2>2, <2>3, AfterSuccess
    <3> QED
      BY <3>1, <3>2
  <2>5. Counted(Fresh(k, "closed")) /\ Fresh(k, "closed").state = "closed"
    BY <2>3, FreshCounted, FreshIs
  <2>6. \/ Counted(n)
        \/ \E m : /\ Counted(m) /\ DOMAIN n = DOMAIN m /\ n.gen = m.gen
                  /\ n.fail \in {0, m.fail}
    BY <1>2, <2>3, <2>4, <2>5
  <2>7. brk.state = "closed" => n.state # "open"
    BY <2>3, <2>4, <2>5
  <2>8. gen' \in [All -> Nat] /\ \A d \in All \ {c} : gen'[d] = gen[d]
    BY <1>2, <2>1
  <2>9. PICK s \in Stages \ ({"new"} \cup Failed) : s = "ok"
    BY DEF Stages, Ended, Failed
  <2> QED
    BY <1>3, <2>1, <2>2, <2>6, <2>7, <2>8, <2>9 DEF Failed
<1>7. ASSUME NEW c \in All, WaitFails(c) \/ WaitCancelled(c) \/ TripFails(c)
      PROVE  /\ BreakerInv'
             /\ Trips => Cardinality(EndedIn(Failed)) >= Threshold
  <2>1. PICK how \in Failed :
            stage[c] \in {"wait", "sent"} /\ Fails(c, how) /\ gen' = gen
    BY <1>7 DEF WaitFails, WaitCancelled, TripFails, Arriving, Failed
  <2> QED
    BY <2>1, FailureStep
<1>8. CASE UNCHANGED <<stage, gen, brk>>
  BY <1>2, <1>8 DEF BreakerInv, Counted, FailedIn, Begun, Trips
<1>9. ASSUME NEW c \in All, Reserve(c)
      PROVE  UNCHANGED <<stage, gen, brk>>
  BY <1>9 DEF Reserve
<1>10. Tick \/ UNCHANGED vars => UNCHANGED <<stage, gen, brk>>
  BY DEF Tick, vars, callVars
<1>11. CASE \E c \in All : Admit(c) \/ RefuseCall(c) \/ Probe(c) \/ Proceed(c)
                             \/ WaitCancelled(c) \/ Replies(c) \/ TripFails(c) \/ DeadlineFires(c)
  BY <1>4, <1>5, <1>6, <1>7, <1>8, <1>9, <1>11 DEF Proceed, DeadlineFires, Trips
<1> QED
  BY <1>8, <1>10, <1>11 DEF Next

\* afterRequest trips a closed breaker only on as many failures of calls that it
\* admitted since its counts began as the threshold says.
THEOREM BreakerOpensOnFailures == Spec => OpensOnFailures
<1>1. Init => BreakerInv
  <2> SUFFICES ASSUME Init PROVE BreakerInv
    OBVIOUS
  <2>1. Begun = {}
    BY DEF Init, Begun
  <2>2. stage \in [All -> Stages] /\ gen \in [All -> Nat]
    BY DEF Init, Stages
  <2>3. /\ DOMAIN brk = {"state", "gen", "reqs", "succ", "fail", "exp"}
        /\ brk.gen = 0 /\ brk.fail = 0
    BY DEF Init
  <2>4. FailedIn(0) = {}
    BY DEF Init, FailedIn, All, Failed
  <2> QED
    BY <2>1, <2>2, <2>3, <2>4, FS_EmptySet DEF BreakerInv, Counted
<1>2. BreakerInv /\ [Next]_vars =>
        /\ BreakerInv'
        /\ [Trips => Cardinality(EndedIn(Failed)) >= Threshold]_vars
  BY BreakerStep
<1> QED
  BY <1>1, <1>2, PTL DEF Spec, OpensOnFailures


=============================================================================
