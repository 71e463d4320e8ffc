------------------------ MODULE SyncConvert_proofs -------------------------
(***************************************************************************)
(* Proofs about SyncConvert: a body is spooled whole or refused, and what  *)
(* an engine receives as a complete body is the whole upload.              *)
(***************************************************************************)
EXTENDS SyncConvert, TLAPS

Statuses == {"none", "err", "ok", "4xx", "5xx"}
Bodies   == {"none", "refused", "throttled", "memory", "stream"}

\* Spools have their types, and are read only once they are open.
SpoolInv ==
    /\ req \in Requests
    /\ spool \in [1..MaxFiles -> {"none", "open", "closed", "refused"}]
    /\ size \in [1..MaxFiles -> Nat] /\ off \in [1..MaxFiles -> Nat]
    /\ \A f \in 1..MaxFiles : spool[f] # "none" => f \in Files /\ off[f] <= size[f]
    /\ \A f \in 1..MaxFiles : spool[f] \in {"none", "refused"} => off[f] = 0
    /\ rewound \subseteq Files
    /\ SpoolExact

\* The call of attempt a stays within the upload, and waits for its attempt.
CallIn(a) ==
    /\ hand[a] = Closing \/ hand[a][1] \in Files
    /\ Files # {} => call[a] \in Files
    /\ wire[a] # "idle" /\ Adapter(a) # "docling" => Files # {}
    /\ prod[a] = "read" => hand[a] # Closing
    /\ prod[a] # "none" => Piped(a)
    /\ a > att => /\ prod[a] = "none" /\ wire[a] = "idle" /\ pipe[a] = "open"
                  /\ call[a] = 1 /\ got[a] = <<>>

\* The parts of a call have their types.
CallTypes ==
    /\ att \in {0, 1, 2}
    /\ prod \in [Attempts -> {"none", "put", "read", "ended"}]
    /\ hand \in [Attempts -> Nat \X Nat]
    /\ pipe \in [Attempts -> {"open", "eof", "error", "shut"}]
    /\ wire \in [Attempts -> {"idle", "sending", "clean", "aborted"}]
    /\ call \in [Attempts -> Nat]
    /\ got \in [Attempts -> Seq(Nat \X Nat)]
    /\ mixed \in BOOLEAN

CallInv == CallTypes /\ \A a \in Attempts : CallIn(a)

\* The handler's steps go with its attempts, and a response is open only in the
\* attempt being made.
HandlerInv ==
    /\ hstep \in {"parts", "call", "rewind", "answer", "done"}
    /\ att \in {0, 1, 2}
    /\ result \in [Attempts -> [status : Statuses, body : Bodies]]
    /\ rbody \in [Attempts -> {"none", "open", "closed"}]
    /\ att # 0 => req.engine # "none"
    /\ hstep = "parts" => att = 0
    /\ hstep \in {"call", "rewind", "answer"} => att \in Attempts
    /\ hstep = "rewind" => att = 1
    /\ \A a \in Attempts : rbody[a] = "open" => a = att /\ hstep # "done"
    /\ \A a \in Attempts : a > att => result[a] = Pending
    /\ att = 2 => rewound = Files
    /\ \A a \in Attempts : result[a].status = "ok" => wire[a] = "clean" /\ Expected(a) = Files
    /\ answer.status = "ok" => att \in Attempts /\ result[att].status = "ok" /\ hstep = "done"

AllClosed == hstep = "done" => \A f \in 1..MaxFiles : spool[f] # "open"

\* What precedes the k+1st chunk of file f.
Upto(f, k) == Chunks(1..(f - 1)) \cup {<<f, j>> : j \in 1..k}

Members(s) == {s[i] : i \in DOMAIN s}

Ordered(s) == \A i, j \in DOMAIN s : i < j => Precedes(s[i], s[j])

\* File f has not been rewound for another attempt than a.
Owns(a, f) == ~(a = 1 /\ f \in rewound)

\* The engine has what precedes the part that the producer is about to write,
\* or that it has just written, and the producer's file is at that place.
ProducerAt(a) ==
    LET f == hand[a][1]
        k == hand[a][2]
    IN  /\ prod[a] = "put" =>
             Members(got[a]) = IF hand[a] = Closing THEN Chunks(Files)
                               ELSE Upto(f, IF k = 0 THEN 0 ELSE k - 1)
        /\ prod[a] = "read" => Members(got[a]) = Upto(f, k)
        /\ prod[a] \in {"put", "read"} /\ hand[a] # Closing =>
             /\ k <= req.sizes[f]
             /\ Owns(a, f) => off[f] = k
             /\ \A g \in Files : g > f /\ Owns(a, g) => off[g] = 0
        /\ pipe[a] = "eof" => Members(got[a]) = Chunks(Files)
        /\ wire[a] = "clean" => pipe[a] = "eof"

\* The engine has what precedes the place that the file being sent is at.
SenderAt(a) ==
    LET f == call[a]
    IN  /\ wire[a] \in {"idle", "sending"} /\ Files # {} /\ a <= att /\ Owns(a, f) =>
             Members(got[a]) = Upto(f, off[f]) /\ (wire[a] = "idle" => off[f] = 0)
        /\ wire[a] = "clean" => Members(got[a]) = Chunks(1..f)
        /\ wire[a] # "aborted" /\ a <= att =>
             \A g \in Files : g > f /\ Owns(a, g) => off[g] = 0

AttemptAt(a) ==
    /\ Ordered(got[a])
    /\ Piped(a) => ProducerAt(a)
    /\ Adapter(a) = "docling" /\ ~Piped(a) => got[a] = <<>>
    /\ Adapter(a) # "docling" => SenderAt(a)

\* What attempts have sent, as long as they do not read each other's files.
SendingInv ==
    ~mixed =>
        /\ att = 0 => \A f \in Files : off[f] = 0
        /\ att = 1 => \A f \in rewound : off[f] = 0
        /\ \A a \in Attempts : AttemptAt(a)

-----------------------------------------------------------------------------
(* Spools *)

LEMMA MinPair ==
    ASSUME NEW a \in Nat, NEW b \in Nat
    PROVE  Min({a, b}) = IF a <= b THEN a ELSE b
<1>1. \E x \in {a, b} : \A y \in {a, b} : x <= y
  OBVIOUS
<1>2. /\ Min({a, b}) \in {a, b}
      /\ \A y \in {a, b} : Min({a, b}) <= y
  BY <1>1 DEF Min
<1> QED
  BY <1>2

\* Part keeps all of a source or refuses it, and refuses what is over the limit
\* and nothing else.
LEMMA PartExact ==
    ASSUME NEW n \in Nat, NEW limit \in Nat, NEW threshold \in Nat
    PROVE  LET p == Part(n, limit, threshold, limit)
           IN  /\ p.kind \in {"memory", "file"} => p.size = n /\ (limit > 0 => n <= limit)
               /\ p.kind \in {"toolarge", "error"} => limit > 0 /\ n > limit
<1> DEFINE avail == Yields(n, limit)
           buffered == Min({avail, threshold + 1})
           rest == avail - buffered
           room == Room(buffered, limit)
           cut == limit > 0 /\ room <= rest
           total == IF cut THEN buffered + room ELSE avail
           p == Part(n, limit, threshold, limit)
<1>1. avail = IF limit > 0 /\ n > limit THEN limit ELSE n
  BY MinPair DEF Yields
<1>2. avail \in Nat
  BY <1>1
<1>3. buffered = IF avail <= threshold + 1 THEN avail ELSE threshold + 1
  BY <1>2, MinPair
<1>4. room = IF limit + 1 > buffered THEN limit + 1 - buffered ELSE 0
  BY DEF Room
<1>5. p = IF Fails(n, limit) /\ (buffered <= threshold \/ ~cut) THEN Broken
          ELSE IF Exceeds(total, limit) THEN TooLarge
          ELSE IF buffered <= threshold THEN InMemory(total) ELSE OnDisk(total)
  BY DEF Part
<1> HIDE DEF avail, buffered, room, p
<1>6. ~cut
  BY <1>1, <1>2, <1>3, <1>4
<1>7. total = avail
  BY <1>6
<1> HIDE DEF cut, total
<1>8. p = IF limit > 0 /\ n > limit THEN Broken
          ELSE IF buffered <= threshold THEN InMemory(n) ELSE OnDisk(n)
  BY <1>1, <1>5, <1>6, <1>7 DEF Fails, Exceeds
<1>9. /\ p.kind \in {"memory", "file"} => p.size = n /\ (limit > 0 => n <= limit)
      /\ p.kind \in {"toolarge", "error"} => limit > 0 /\ n > limit
  BY <1>8 DEF Broken, InMemory, OnDisk
<1> QED
  BY <1>9 DEF p

-----------------------------------------------------------------------------
(* The handler and its calls *)

\* What a request is.
LEMMA RequestIs ==
    ASSUME req \in Requests
    PROVE  /\ req.sizes \in Seq(Nat) /\ Len(req.sizes) \in 0..MaxFiles
           /\ Files = 1..Len(req.sizes)
           /\ \A f \in Files : f \in 1..MaxFiles /\ req.sizes[f] \in Nat
           /\ req.limit \in Nat
           /\ MaxFiles \in Nat
<1>1. /\ req.sizes \in Seq(Nat) /\ Len(req.sizes) <= MaxFiles /\ req.limit \in Nat
      /\ MaxFiles \in Nat
  BY SyncAssumption
<1> QED
  BY <1>1 DEF Files

LEMMA ReqStays == [Next]_vars => UNCHANGED req
  BY ZenonT(60) DEF Next, HandlerStep, AdapterStep, ProducerStep, TransportStep, vars, handlerVars,
         SpoolPart, SpoolFails, BuildFails, NoEngine, FirstAttempt, ConvertReturns, Rewind,
         StartFallback, Answer, Launch, LocalAnswer, RequestFails, BreakerRefuses, LimiterRefuses, Do, NextFile,
         DoFails, ReadFails, Read, WriteFails, TakeFromPipe, PipeEnds, SendFile, SendSource,
         Abandon, EngineReplies

\* Once an attempt has read a file rewound for the other, it has.
LEMMA MixedStays ==
    ASSUME CallInv, [Next]_vars, mixed
    PROVE  mixed'
<1>1. ASSUME NEW a \in Attempts, ReadFails(a) \/ Read(a) \/ SendFile(a)
      PROVE  mixed'
  BY <1>1 DEF ReadFails, Read, SendFile, NoteReader
<1>2. ASSUME NEW a \in Attempts,
             WriteFails(a) \/ TakeFromPipe(a) \/ PipeEnds(a) \/ SendSource(a) \/ Abandon(a)
      PROVE  mixed'
  BY <1>2 DEF WriteFails, TakeFromPipe, PipeEnds, SendSource, Abandon
<1>3. ASSUME NEW a \in Attempts, AdapterStep(a) \/ DoFails(a)
      PROVE  mixed'
  BY <1>3 DEF AdapterStep, LocalAnswer, RequestFails, BreakerRefuses, LimiterRefuses, Do, NextFile, DoFails
<1>4. ASSUME NEW a \in Attempts, NEW s, EngineReplies(a, s)
      PROVE  mixed'
  BY <1>4 DEF EngineReplies
<1>5. ASSUME NEW f \in 1..MaxFiles, SpoolPart(f) \/ SpoolFails(f) \/ Rewind(f)
      PROVE  mixed'
  BY <1>5 DEF SpoolPart, SpoolFails, Rewind
<1>6. CASE \/ BuildFails \/ NoEngine \/ FirstAttempt \/ ConvertReturns \/ StartFallback
           \/ Answer \/ UNCHANGED vars
  BY <1>6 DEF BuildFails, NoEngine, FirstAttempt, ConvertReturns, StartFallback, Answer, vars
<1> QED
  BY <1>1, <1>2, <1>3, <1>4, <1>5, <1>6 DEF Next, HandlerStep, ProducerStep, TransportStep

\* Spools are closed.
LEMMA CloseStep ==
    ASSUME SpoolInv, NEW fs, spool' = Closed(fs), UNCHANGED <<req, size, off, rewound>>
    PROVE  SpoolInv'
<1>1. \A f \in 1..MaxFiles : spool'[f] = IF f \in fs /\ spool[f] = "open" THEN "closed" ELSE spool[f]
  BY DEF SpoolInv, Closed
<1>2. spool' \in [1..MaxFiles -> {"none", "open", "closed", "refused"}]
  BY DEF SpoolInv, Closed
<1>3. Files' = Files /\ \A f \in Files : f \in 1..MaxFiles
  BY RequestIs DEF SpoolInv, Files
<1>4. SpoolExact'
  BY <1>1, <1>3 DEF SpoolInv, SpoolExact
<1> QED
  BY <1>1, <1>2, <1>3, <1>4 DEF SpoolInv

\* An open spool is read, or rewound.
LEMMA SeekStep ==
    ASSUME SpoolInv, NEW f \in Files, spool[f] = "open",
           NEW k \in Nat, k <= size[f], off' = [off EXCEPT ![f] = k],
           rewound' \subseteq Files, UNCHANGED <<req, spool, size>>
    PROVE  SpoolInv'
<1>1. Files' = Files /\ \A g \in Files : g \in 1..MaxFiles
  BY RequestIs DEF SpoolInv, Files
<1>2. SpoolExact'
  BY <1>1 DEF SpoolInv, SpoolExact
<1> QED
  BY <1>1, <1>2 DEF SpoolInv

\* A part is stored.
LEMMA StoreStep ==
    ASSUME SpoolInv, NEW f \in 1..MaxFiles, SpoolPart(f)
    PROVE  SpoolInv'
<1>1. /\ req.sizes[f] \in Nat /\ req.limit \in Nat /\ Threshold \in Nat
      /\ f \in Files /\ spool[f] = "none"
  BY RequestIs, SyncAssumption DEF SpoolInv, SpoolPart, Arrived
<1>2. Stored(f).size = req.sizes[f] /\ (req.limit > 0 => req.sizes[f] <= req.limit)
  BY <1>1, PartExact DEF SpoolPart, Stored
<1>3. /\ spool' = [spool EXCEPT ![f] = "open"] /\ size' = [size EXCEPT ![f] = req.sizes[f]]
      /\ UNCHANGED <<req, off, rewound>>
  BY <1>2 DEF SpoolPart, handlerVars
<1>4. Files' = Files /\ \A g \in Files : g \in 1..MaxFiles
  BY <1>3, RequestIs DEF SpoolInv, Files
<1>5. SpoolExact'
  BY <1>1, <1>2, <1>3, <1>4 DEF SpoolInv, SpoolExact
<1> QED
  BY <1>1, <1>3, <1>4, <1>5 DEF SpoolInv

\* A part is refused.
LEMMA RefuseStep ==
    ASSUME SpoolInv, NEW f \in 1..MaxFiles, SpoolFails(f)
    PROVE  SpoolInv'
<1> DEFINE c == Closed(DOMAIN spool)
<1>1. /\ req.sizes[f] \in Nat /\ req.limit \in Nat /\ Threshold \in Nat
      /\ f \in Files /\ spool[f] = "none"
  BY RequestIs, SyncAssumption DEF SpoolInv, SpoolFails, Arrived
<1>2. req.limit > 0 /\ req.sizes[f] > req.limit
  BY <1>1, PartExact DEF SpoolFails, Stored
<1>3. /\ spool' = [c EXCEPT ![f] = "refused"] /\ UNCHANGED <<req, size, off, rewound>>
  BY DEF SpoolFails
<1>4. c \in [1..MaxFiles -> {"none", "open", "closed", "refused"}]
  BY DEF SpoolInv, Closed
<1>5. \A g \in 1..MaxFiles : c[g] = IF spool[g] = "open" THEN "closed" ELSE spool[g]
  BY DEF SpoolInv, Closed
<1> HIDE DEF c
<1>6. /\ spool' \in [1..MaxFiles -> {"none", "open", "closed", "refused"}]
      /\ spool'[f] = "refused"
      /\ \A g \in (1..MaxFiles) \ {f} : spool'[g] = IF spool[g] = "open" THEN "closed" ELSE spool[g]
  BY <1>3, <1>4, <1>5
<1>7. Files' = Files /\ \A g \in Files : g \in 1..MaxFiles
  BY <1>3, RequestIs DEF SpoolInv, Files
<1>8. SpoolExact'
  BY <1>1, <1>2, <1>3, <1>6, <1>7 DEF SpoolInv, SpoolExact
<1>9. \A g \in 1..MaxFiles : spool'[g] # "none" => g \in Files /\ off[g] <= size[g]
  BY <1>1, <1>6 DEF SpoolInv
<1>10. \A g \in 1..MaxFiles : spool'[g] \in {"none", "refused"} => off[g] = 0
  BY <1>1, <1>6 DEF SpoolInv
<1> QED
  BY <1>3, <1>6, <1>7, <1>8, <1>9, <1>10 DEF SpoolInv

\* Every step keeps the spools in order.
LEMMA SpoolsStep ==
    ASSUME SpoolInv, CallInv, [Next]_vars
    PROVE  SpoolInv'
<1>1. CASE UNCHANGED <<req, spool, size, off, rewound>>
  BY <1>1 DEF SpoolInv, SpoolExact, Files
<1>2. ASSUME NEW f \in 1..MaxFiles, Rewind(f)
      PROVE  SpoolInv'
  <2>1. CASE spool[f] = "open"
    <3>1. PICK k \in Nat : k = 0
      OBVIOUS
    <3>2. f \in Files /\ k <= size[f]
      BY <1>2, <3>1 DEF Rewind, SpoolInv
    <3>3. off' = [off EXCEPT ![f] = k] /\ rewound' = rewound \cup {f}
      BY <1>2, <2>1, <3>1 DEF Rewind
    <3>4. rewound' \subseteq Files
      BY <3>2, <3>3 DEF SpoolInv
    <3>5. UNCHANGED <<req, spool, size>>
      BY <1>2 DEF Rewind
    <3> QED
      BY <2>1, <3>2, <3>3, <3>4, <3>5, SeekStep
  <2>2. CASE spool[f] # "open"
    BY <1>1, <1>2, <2>2 DEF Rewind
  <2> QED
    BY <2>1, <2>2
<1>3. ASSUME NEW a \in Attempts, Read(a)
      PROVE  SpoolInv'
  <2> DEFINE f == hand[a][1]
  <2>1. f \in Files /\ spool[f] = "open" /\ off[f] \in Nat /\ size[f] \in Nat
    BY <1>3, RequestIs DEF Read, CallInv, CallIn, SpoolInv
  <2>2. CASE off[f] < size[f]
    <3>1. PICK k \in Nat : k = off[f] + 1
      BY <2>1
    <3>2. /\ k <= size[f] /\ off' = [off EXCEPT ![f] = k]
          /\ rewound' \subseteq Files /\ UNCHANGED <<req, spool, size>>
      BY <1>3, <2>1, <2>2, <3>1 DEF Read, handlerVars, SpoolInv
    <3> HIDE DEF f
    <3> QED
      BY <2>1, <3>2, SeekStep
  <2>3. CASE ~(off[f] < size[f])
    BY <1>1, <1>3, <2>3 DEF Read, handlerVars
  <2> QED
    BY <2>2, <2>3
<1>4. ASSUME NEW a \in Attempts, SendFile(a)
      PROVE  SpoolInv'
  <2> DEFINE f == call[a]
  <2>1. f \in Files
    BY <1>4 DEF SendFile, CallInv, CallIn
  <2>2. CASE spool[f] = "open" /\ off[f] < size[f] /\ off' = [off EXCEPT ![f] = @ + 1] /\ UNCHANGED spool
    <3>1. PICK k \in Nat : k = off[f] + 1
      BY <2>1, RequestIs DEF SpoolInv
    <3>2. /\ k <= size[f] /\ off' = [off EXCEPT ![f] = k]
          /\ rewound' \subseteq Files /\ UNCHANGED <<req, spool, size>>
      BY <1>4, <2>1, <2>2, <3>1, RequestIs, SMTT(30) DEF SendFile, handlerVars, SpoolInv
    <3> HIDE DEF f
    <3> QED
      BY <2>1, <2>2, <3>2, SeekStep
  <2>3. CASE UNCHANGED off /\ (UNCHANGED spool \/ spool' = Closed({f}))
    BY <1>1, <1>4, <2>3, CloseStep DEF SendFile, handlerVars
  <2> QED
    BY <1>4, <2>2, <2>3 DEF SendFile
<1>5. ASSUME NEW a \in Attempts, Abandon(a)
      PROVE  SpoolInv'
  BY <1>1, <1>5, CloseStep DEF Abandon, handlerVars
<1>6. CASE BuildFails \/ NoEngine \/ Answer
  BY <1>6, CloseStep DEF BuildFails, NoEngine, Answer, cleanup
<1>7. CASE FirstAttempt \/ ConvertReturns \/ StartFallback
  BY <1>1, <1>7 DEF FirstAttempt, ConvertReturns, StartFallback, Launch, spoolVars
<1>8. ASSUME NEW a \in Attempts, AdapterStep(a) \/ DoFails(a)
      PROVE  SpoolInv'
  BY <1>1, <1>8
     DEF AdapterStep, LocalAnswer, RequestFails, BreakerRefuses, LimiterRefuses, Do, NextFile, DoFails,
         handlerVars, spoolVars
<1>9. ASSUME NEW a \in Attempts, NEW s, EngineReplies(a, s)
      PROVE  SpoolInv'
  BY <1>1, <1>9 DEF EngineReplies, handlerVars, spoolVars
<1>10. ASSUME NEW a \in Attempts, ReadFails(a) \/ WriteFails(a)
       PROVE  SpoolInv'
  BY <1>1, <1>10 DEF ReadFails, WriteFails, handlerVars, spoolVars
<1>11. ASSUME NEW a \in Attempts, TakeFromPipe(a) \/ PipeEnds(a) \/ SendSource(a)
       PROVE  SpoolInv'
  BY <1>1, <1>11 DEF TakeFromPipe, PipeEnds, SendSource, handlerVars, spoolVars
<1>12. CASE UNCHANGED vars
  BY <1>1, <1>12 DEF vars, handlerVars, spoolVars
<1> QED
  BY <1>2, <1>3, <1>4, <1>5, <1>6, <1>7, <1>8, <1>9, <1>10, <1>11, <1>12, StoreStep, RefuseStep
     DEF Next, HandlerStep, ProducerStep, TransportStep

\* What is said of the request alone does not change.
LEMMA SameRequest ==
    ASSUME UNCHANGED req
    PROVE  Files' = Files /\ \A a : Adapter(a)' = Adapter(a) /\ Piped(a)' = Piped(a)
  BY DEF Files, Adapter, Piped

\* A step of one call leaves the other alone.
LEMMA CallMoves ==
    ASSUME CallInv, NEW a \in Attempts, UNCHANGED <<req, att>>, CallTypes', CallIn(a)',
           \A b \in Attempts \ {a} :
               /\ prod'[b] = prod[b] /\ hand'[b] = hand[b] /\ pipe'[b] = pipe[b]
               /\ wire'[b] = wire[b] /\ call'[b] = call[b] /\ got'[b] = got[b]
    PROVE  CallInv'
<1>1. ASSUME NEW b \in Attempts, b # a
      PROVE  CallIn(b)'
  <2>1. CallIn(b) /\ Adapter(b)' = Adapter(b) /\ Piped(b)' = Piped(b) /\ Files' = Files
    BY DEF CallInv, Adapter, Piped, Files
  <2> QED
    BY <1>1, <2>1 DEF CallIn
<1> QED
  BY <1>1 DEF CallInv

\* Every step of a call keeps it in order.
LEMMA CallsStep ==
    ASSUME SpoolInv, CallInv, HandlerInv, [Next]_vars
    PROVE  CallInv'
<1>0. Files = 1..Len(req.sizes) /\ Len(req.sizes) \in Nat
  BY RequestIs DEF SpoolInv
<1>1. CASE UNCHANGED <<req, att, prod, hand, pipe, wire, call, got, mixed>>
  BY <1>1 DEF CallInv, CallTypes, CallIn, Files, Adapter, Piped
<1>2. ASSUME NEW a \in Attempts, Calling(a), UNCHANGED <<req, att, prod, hand, call, got, mixed>>,
             NEW q \in {"open", "eof", "error", "shut"}, pipe' = [pipe EXCEPT ![a] = q],
             NEW v \in {"idle", "sending", "clean", "aborted"}, wire' = [wire EXCEPT ![a] = v],
             v # "idle" /\ Adapter(a) # "docling" => Files # {}
      PROVE  CallInv'
  <2>1. CallIn(a)'
    <3>1. CallIn(a) /\ wire'[a] = v /\ ~(a > att)
      BY <1>2 DEF CallInv, CallTypes, Calling, Attempts
    <3> QED
      BY <1>2, <3>1, SameRequest DEF CallIn
  <2>2. CallTypes'
    BY <1>2 DEF CallInv, CallTypes
  <2> QED
    BY <1>2, <2>1, <2>2, CallMoves DEF CallInv, CallTypes
<1>3. ASSUME NEW a \in Attempts, RequestFails(a)
      PROVE  CallInv'
  BY <1>1, <1>2, <1>3, ZenonT(60) DEF RequestFails, MakesCall, CallInv, CallTypes, CallIn, handlerVars
<1>4. ASSUME NEW a \in Attempts, Do(a)
      PROVE  CallInv'
  BY <1>1, <1>2, <1>4 DEF Do, MakesCall, CallInv, CallTypes, handlerVars
<1>5. ASSUME NEW a \in Attempts, NextFile(a)
      PROVE  CallInv'
  <2>1. CallTypes'
    BY <1>5 DEF NextFile, CallInv, CallTypes, handlerVars
  <2>2. CallIn(a)'
    <3>1. CallIn(a) /\ wire'[a] = "idle" /\ ~(a > att) /\ call'[a] = call[a] + 1 /\ call[a] < Len(req.sizes)
      BY <1>5 DEF NextFile, MoreFiles, MayReply, Calling, CallInv, CallTypes, Attempts
    <3>2. UNCHANGED <<req, att, prod, hand, got>>
      BY <1>5 DEF NextFile, handlerVars
    <3> QED
      BY <1>0, <3>1, <3>2, SameRequest DEF CallIn, CallInv, CallTypes
  <2> QED
    BY <1>5, <2>1, <2>2, CallMoves DEF NextFile, CallInv, CallTypes, handlerVars
<1>6. ASSUME NEW a \in Attempts, ReadFails(a) \/ WriteFails(a)
      PROVE  CallInv'
  <2>1. CallTypes'
    BY <1>6 DEF ReadFails, WriteFails, NoteReader, CallInv, CallTypes, handlerVars
  <2>2. CallIn(a)'
    <3>1. CallIn(a) /\ prod[a] # "none" /\ prod'[a] = "ended" /\ UNCHANGED <<req, att, hand, wire, call, got>>
      BY <1>6 DEF ReadFails, WriteFails, CallInv, CallTypes, handlerVars
    <3> QED
      BY <3>1, SameRequest DEF CallIn
  <2> QED
    BY <1>6, <2>1, <2>2, CallMoves DEF ReadFails, WriteFails, CallInv, CallTypes, handlerVars
<1>11. ASSUME NEW a \in Attempts, Read(a)
      PROVE  CallInv'
  <2> DEFINE f == hand[a][1]
  <2>1. /\ prod[a] = "read" /\ prod' = [prod EXCEPT ![a] = "put"]
        /\ UNCHANGED <<req, att, pipe, wire, call, got>>
        /\ mixed' = (mixed \/ (a = 1 /\ f \in rewound))
    BY <1>11 DEF Read, NoteReader, handlerVars
  <2>2. f \in Files /\ off[f] \in Nat
    BY <2>1, RequestIs DEF CallInv, CallIn, SpoolInv
  <2>3. \E h \in Nat \X Nat : hand' = [hand EXCEPT ![a] = h] /\ (h = Closing \/ h[1] \in Files)
    <3>1. CASE off[f] < size[f]
      <4>1. hand' = [hand EXCEPT ![a] = <<f, off[f] + 1>>]
        BY <1>11, <3>1 DEF Read
      <4>2. <<f, off[f] + 1>> \in Nat \X Nat /\ <<f, off[f] + 1>>[1] \in Files
        BY <1>0, <2>2
      <4> QED
        BY <4>1, <4>2
    <3>2. CASE ~(off[f] < size[f])
      <4>1. hand' = [hand EXCEPT ![a] = NextHand(f)]
        BY <1>11, <3>2 DEF Read
      <4>2. NextHand(f) \in Nat \X Nat /\ (NextHand(f) = Closing \/ NextHand(f)[1] \in Files)
        BY <1>0, <2>2 DEF NextHand, Closing
      <4> QED
        BY <4>1, <4>2
    <3> QED
      BY <3>1, <3>2
  <2>4. PICK h \in Nat \X Nat : hand' = [hand EXCEPT ![a] = h] /\ (h = Closing \/ h[1] \in Files)
    BY <2>3
  <2> HIDE DEF f
  <2>5. CallTypes'
    BY <2>1, <2>4 DEF CallInv, CallTypes
  <2>6. CallIn(a)'
    <3>1. CallIn(a) /\ prod'[a] = "put" /\ hand'[a] = h
      BY <2>1, <2>4 DEF CallInv, CallTypes
    <3> QED
      BY <2>1, <2>4, <3>1, SameRequest DEF CallIn
  <2> QED
    BY <2>1, <2>4, <2>5, <2>6, CallMoves DEF CallInv, CallTypes
<1>7. ASSUME NEW a \in Attempts, TakeFromPipe(a)
      PROVE  CallInv'
  <2>1. CallTypes'
    <3>1. Append(got[a], hand[a]) \in Seq(Nat \X Nat)
      BY DEF CallInv, CallTypes
    <3>2. got' \in [Attempts -> Seq(Nat \X Nat)]
      BY <1>7, <3>1 DEF TakeFromPipe, CallInv, CallTypes
    <3> QED
      BY <1>7, <3>2 DEF TakeFromPipe, CallInv, CallTypes, handlerVars
  <2>2. CallIn(a)'
    BY <1>0, <1>7 DEF TakeFromPipe, CallInv, CallTypes, CallIn, Files, Adapter, Piped, handlerVars, Attempts
  <2> QED
    BY <1>7, <2>1, <2>2, CallMoves, ZenonT(60) DEF TakeFromPipe, CallInv, CallTypes, handlerVars
<1>8. ASSUME NEW a \in Attempts, PipeEnds(a) \/ SendSource(a) \/ Abandon(a)
      PROVE  CallInv'
  <2>1. CallTypes'
    BY <1>8 DEF PipeEnds, SendSource, Abandon, CallInv, CallTypes, handlerVars
  <2>2. CallIn(a)'
    BY <1>0, <1>8 DEF PipeEnds, SendSource, Abandon, CallInv, CallTypes, CallIn, Files, Adapter, Piped, handlerVars, Attempts
  <2> QED
    BY <1>8, <2>1, <2>2, CallMoves, ZenonT(60) DEF PipeEnds, SendSource, Abandon, CallInv, CallTypes, handlerVars
<1>9. ASSUME NEW a \in Attempts, SendFile(a)
      PROVE  CallInv'
  <2>1. CallTypes'
    <3>1. call[a] \in Files /\ call[a] \in Nat /\ off[call[a]] \in Nat
      BY <1>9, RequestIs DEF SendFile, CallInv, CallTypes, CallIn, SpoolInv
    <3>2. Append(got[a], <<call[a], off[call[a]] + 1>>) \in Seq(Nat \X Nat)
      BY <3>1 DEF CallInv, CallTypes
    <3>3. got' \in [Attempts -> Seq(Nat \X Nat)]
      BY <1>9, <3>2 DEF SendFile, CallInv, CallTypes
    <3> QED
      BY <1>9, <3>3 DEF SendFile, NoteReader, CallInv, CallTypes, handlerVars
  <2>2. CallIn(a)'
    BY <1>0, <1>9 DEF SendFile, CallInv, CallTypes, CallIn, Files, Adapter, Piped, handlerVars, Attempts
  <2> QED
    BY <1>9, <2>1, <2>2, CallMoves, ZenonT(60) DEF SendFile, CallInv, CallTypes, handlerVars
<1>10. CASE FirstAttempt \/ StartFallback
  <2>1. PICK a \in Attempts : a = att + 1 /\ Launch(a) /\ UNCHANGED mixed
    BY <1>10 DEF FirstAttempt, StartFallback, HandlerInv, Attempts
  <2>2. /\ att' = a /\ prod' = [prod EXCEPT ![a] = IF Piped(a) THEN "put" ELSE "none"]
        /\ hand' = [hand EXCEPT ![a] = NextHand(0)]
        /\ UNCHANGED <<req, pipe, wire, call, got, mixed>>
    BY <2>1 DEF Launch
  <2>3. NextHand(0) \in Nat \X Nat /\ (NextHand(0) = Closing \/ NextHand(0)[1] \in Files)
    BY <1>0 DEF NextHand, Closing
  <2>4. CallTypes'
    BY <2>2, <2>3 DEF CallInv, CallTypes, Attempts
  <2>5. ASSUME NEW b \in Attempts
        PROVE  CallIn(b)'
    <3>1. CallIn(b)
      BY DEF CallInv
    <3>2. /\ b = a => prod'[b] \in {"put", "none"} /\ (Piped(b) \/ prod'[b] = "none") /\ hand'[b] = NextHand(0)
          /\ b # a => prod'[b] = prod[b] /\ hand'[b] = hand[b]
      BY <2>2 DEF CallInv, CallTypes
    <3>3. b > att' => b > att /\ b # a
      BY <2>1, <2>2 DEF CallInv, CallTypes, Attempts
    <3> QED
      BY <2>2, <2>3, <3>1, <3>2, <3>3, SameRequest DEF CallIn
  <2> QED
    BY <2>4, <2>5 DEF CallInv
<1>12. ASSUME NEW a \in Attempts, LocalAnswer(a) \/ BreakerRefuses(a) \/ LimiterRefuses(a) \/ DoFails(a)
       PROVE  CallInv'
  BY <1>1, <1>12 DEF LocalAnswer, BreakerRefuses, LimiterRefuses, DoFails, handlerVars
<1>13. ASSUME NEW a \in Attempts, NEW s, EngineReplies(a, s)
       PROVE  CallInv'
  BY <1>1, <1>13 DEF EngineReplies, handlerVars
<1>14. ASSUME NEW f \in 1..MaxFiles, SpoolPart(f) \/ SpoolFails(f) \/ Rewind(f)
       PROVE  CallInv'
  BY <1>1, <1>14 DEF SpoolPart, SpoolFails, Rewind, handlerVars, callVars
<1>15. CASE BuildFails \/ NoEngine \/ ConvertReturns \/ Answer \/ UNCHANGED vars
  BY <1>1, <1>15 DEF BuildFails, NoEngine, ConvertReturns, Answer, vars, handlerVars, callVars
<1> QED
  BY <1>3, <1>4, <1>5, <1>6, <1>11, <1>7, <1>8, <1>9, <1>10, <1>12, <1>13, <1>14, <1>15
     DEF Next, HandlerStep, AdapterStep, ProducerStep, TransportStep

\* Every step keeps the handler in step with its attempts.
LEMMA HandlersStep ==
    ASSUME SpoolInv, CallInv, HandlerInv, [Next]_vars
    PROVE  HandlerInv'
<1>0. Files = 1..Len(req.sizes) /\ Len(req.sizes) \in Nat
  BY RequestIs DEF SpoolInv
<1>1. UNCHANGED req
  BY ReqStays
<1>2. Files' = Files /\ \A a : Adapter(a)' = Adapter(a)
  BY <1>1, SameRequest
<1>3. ASSUME UNCHANGED <<hstep, att, result, rbody, answer, rewound>>,
             \A a \in Attempts : wire[a] = "clean" /\ result[a].status = "ok" =>
                                    wire'[a] = "clean" /\ call'[a] = call[a]
      PROVE  HandlerInv'
  BY <1>1, <1>2, <1>3 DEF HandlerInv, Expected
<1>4. ASSUME NEW a \in Attempts, ProducerStep(a)
      PROVE  HandlerInv'
  BY <1>3, <1>4 DEF ProducerStep, ReadFails, Read, WriteFails, handlerVars
<1>5. ASSUME NEW a \in Attempts, TransportStep(a)
      PROVE  HandlerInv'
  <2>1. UNCHANGED <<hstep, att, result, rbody, answer, rewound, call>>
    BY <1>5 DEF TransportStep, TakeFromPipe, PipeEnds, SendFile, SendSource, Abandon, handlerVars
  <2>2. wire[a] = "sending" /\ \A b \in Attempts \ {a} : wire'[b] = wire[b]
    BY <1>5 DEF TransportStep, TakeFromPipe, PipeEnds, SendFile, SendSource, Abandon, CallInv, CallTypes
  <2> QED
    BY <1>3, <2>1, <2>2
<1>6. ASSUME NEW a \in Attempts, Do(a) \/ NextFile(a)
      PROVE  HandlerInv'
  <2>1. UNCHANGED <<hstep, att, result, rbody, answer, rewound>>
    BY <1>6 DEF Do, NextFile, handlerVars
  <2>2. /\ result[a].status = "none"
        /\ \A b \in Attempts \ {a} : wire'[b] = wire[b] /\ call'[b] = call[b]
    BY <1>6 DEF Do, NextFile, MakesCall, MayReply, Calling, Returned, Pending, CallInv, CallTypes
  <2> QED
    BY <1>3, <2>1, <2>2
<1>7. ASSUME NEW a \in Attempts, Calling(a), NEW r \in [status : Statuses, body : Bodies], Return(a, r),
             UNCHANGED <<handlerVars, wire, call>>, r.status = "ok" => wire[a] = "clean" /\ Expected(a) = Files
      PROVE  HandlerInv'
  <2>1. /\ UNCHANGED <<hstep, att, answer, rewound, wire, call>>
        /\ result' = [result EXCEPT ![a] = r]
        /\ \E o \in {"none", "open", "closed"} : rbody' = [rbody EXCEPT ![a] = o]
        /\ att = a /\ hstep = "call"
    BY <1>7 DEF Return, Calling, handlerVars, HandlerInv
  <2>2. \A b \in Attempts : Expected(b)' = Expected(b)
    BY <1>2, <2>1 DEF Expected
  <2>3. /\ result' \in [Attempts -> [status : Statuses, body : Bodies]]
        /\ rbody' \in [Attempts -> {"none", "open", "closed"}]
        /\ result'[a] = r
        /\ \A b \in Attempts \ {a} : result'[b] = result[b] /\ rbody'[b] = rbody[b]
    BY <2>1 DEF HandlerInv
  <2> QED
    BY <1>1, <1>2, <1>7, <2>1, <2>2, <2>3 DEF HandlerInv, Attempts
<1>8. ASSUME NEW a \in Attempts, RequestFails(a) \/ BreakerRefuses(a) \/ LimiterRefuses(a) \/ DoFails(a)
      PROVE  HandlerInv'
  <2>1. PICK r \in {Failed, Refused, Throttled} : Return(a, r)
    BY <1>8 DEF RequestFails, BreakerRefuses, LimiterRefuses, DoFails
  <2>2. r \in [status : Statuses, body : Bodies] /\ r.status # "ok"
    BY DEF Failed, Refused, Throttled, Statuses, Bodies
  <2>3. Calling(a) /\ UNCHANGED <<handlerVars, wire, call>>
    BY <1>8 DEF RequestFails, BreakerRefuses, LimiterRefuses, DoFails, MakesCall
  <2> QED
    BY <1>7, <2>1, <2>2, <2>3
<1>9. ASSUME NEW a \in Attempts, LocalAnswer(a)
      PROVE  HandlerInv'
  <2>1. PICK t \in {"4xx", "5xx"} : t = IF req.mode = "source" THEN "5xx" ELSE "4xx"
    OBVIOUS
  <2>2. [status |-> t, body |-> "memory"] \in [status : Statuses, body : Bodies]
    BY DEF Statuses, Bodies
  <2>3. PICK r \in [status : Statuses, body : Bodies] : r = [status |-> t, body |-> "memory"]
    BY <2>2
  <2>4. Return(a, r) /\ r.status # "ok"
    BY <1>9, <2>1, <2>3 DEF LocalAnswer
  <2>5. Calling(a) /\ UNCHANGED <<handlerVars, wire, call>>
    BY <1>9 DEF LocalAnswer
  <2> QED
    BY <1>7, <2>4, <2>5
<1>10. ASSUME NEW a \in Attempts, NEW s \in {"ok", "4xx", "5xx"}, EngineReplies(a, s)
       PROVE  HandlerInv'
  <2>1. PICK b \in BodyKinds(a, s) : Return(a, [status |-> s, body |-> b])
    BY <1>10 DEF EngineReplies
  <2>2. b \in Bodies
    <3>1. att = a /\ a # 0 /\ req.engine # "none"
      BY <1>10 DEF EngineReplies, MayReply, Calling, HandlerInv, Attempts
    <3>2. Adapter(a) \in Adapters
      BY <3>1, SyncAssumption DEF Adapter, SpoolInv
    <3> QED
      BY <2>1, <3>2 DEF BodyKinds, Bodies, Adapters
  <2>3. [status |-> s, body |-> b] \in [status : Statuses, body : Bodies]
    BY <2>2 DEF Statuses
  <2>4. PICK r \in [status : Statuses, body : Bodies] : r = [status |-> s, body |-> b]
    BY <2>3
  <2>5. Calling(a) /\ UNCHANGED <<handlerVars, wire, call>>
    BY <1>10 DEF EngineReplies, MayReply
  <2>6. s = "ok" => wire[a] = "clean" /\ Expected(a) = Files
    <3> SUFFICES ASSUME s = "ok" PROVE wire[a] = "clean" /\ Expected(a) = Files
      OBVIOUS
    <3>1. wire[a] = "clean"
      BY <1>10 DEF EngineReplies, MayReply
    <3>2. CASE Adapter(a) # "docling"
      <4>1. ~(call[a] < Len(req.sizes)) /\ call[a] \in Files
        BY <1>10, <3>1, <3>2 DEF EngineReplies, MoreFiles, CallInv, CallIn
      <4> QED
        BY <1>0, <3>1, <3>2, <4>1 DEF Expected
    <3>3. CASE Adapter(a) = "docling"
      BY <3>1, <3>3 DEF Expected
    <3> QED
      BY <3>2, <3>3
  <2>7. Return(a, r) /\ r.status = s
    BY <2>1, <2>4
  <2> QED
    BY <1>7, <2>5, <2>6, <2>7
<1>11. ASSUME NEW f \in 1..MaxFiles, SpoolPart(f)
       PROVE  HandlerInv'
  BY <1>3, <1>11 DEF SpoolPart, handlerVars, callVars
<1>12. ASSUME hstep = "parts", hstep' = "done", answer'.status # "ok", UNCHANGED <<att, rewound, callVars>>
       PROVE  HandlerInv'
  BY <1>2, <1>12 DEF HandlerInv, callVars, Expected, Attempts
<1>13. ASSUME NEW f \in 1..MaxFiles, SpoolFails(f)
       PROVE  HandlerInv'
  BY <1>12, <1>13 DEF SpoolFails, Arrived
<1>14. CASE BuildFails \/ NoEngine
  BY <1>12, <1>14 DEF BuildFails, NoEngine
<1>15. CASE ConvertReturns
  BY <1>2, <1>15 DEF ConvertReturns, WantsFallback, HandlerInv, callVars, Expected, Attempts
<1>16. ASSUME NEW f \in 1..MaxFiles, Rewind(f)
       PROVE  HandlerInv'
  BY <1>2, <1>16 DEF Rewind, HandlerInv, callVars, Expected, Attempts
<1>17. CASE FirstAttempt
  BY <1>2, <1>17 DEF FirstAttempt, Launch, HandlerInv, Expected, Attempts
<1>18. CASE StartFallback
  BY <1>2, <1>18 DEF StartFallback, Launch, HandlerInv, Expected, Attempts
<1>19. CASE Answer
  BY <1>2, <1>19 DEF Answer, HandlerInv, Expected, Attempts
<1>20. CASE UNCHANGED vars
  BY <1>3, <1>20 DEF vars, handlerVars, callVars
<1> QED
  BY <1>4, <1>5, <1>6, <1>8, <1>9, <1>10, <1>11, <1>13, <1>14, <1>15, <1>16, <1>17, <1>18, <1>19, <1>20
     DEF Next, HandlerStep, AdapterStep

LEMMA HandlerInit == Init => SpoolInv /\ CallInv /\ HandlerInv
<1> SUFFICES ASSUME Init PROVE SpoolInv /\ CallInv /\ HandlerInv
  OBVIOUS
<1>0. /\ req \in Requests /\ Files = 1..Len(req.sizes) /\ Len(req.sizes) \in 0..MaxFiles
      /\ MaxFiles \in Nat /\ \A f \in Files : f \in 1..MaxFiles
  BY RequestIs DEF Init
<1>1. SpoolInv
  BY <1>0 DEF Init, SpoolInv, SpoolExact
<1>2. CallTypes
  <2>1. hand \in [Attempts -> Nat \X Nat]
    BY DEF Init, Closing
  <2>2. got \in [Attempts -> Seq(Nat \X Nat)]
    BY DEF Init
  <2> QED
    BY <2>1, <2>2 DEF Init, CallTypes
<1>3. \A a \in Attempts : CallIn(a)
  BY <1>0 DEF Init, CallIn, Closing, Attempts
<1>4. Pending \in [status : Statuses, body : Bodies] /\ Pending.status # "ok"
  BY DEF Pending, Statuses, Bodies
<1>5. HandlerInv
  BY <1>4 DEF Init, HandlerInv, Attempts, NoAnswer
<1> QED
  BY <1>1, <1>2, <1>3, <1>5 DEF CallInv

\* An answer is given with all spools closed, and none is opened after it.
LEMMA ReleaseStep ==
    ASSUME SpoolInv, AllClosed, [Next]_vars
    PROVE  AllClosed'
<1>1. ASSUME NEW fs, spool' = Closed(fs), hstep' = "done" => hstep = "done"
      PROVE  AllClosed'
  <2>1. \A f \in 1..MaxFiles : spool'[f] = "open" => spool[f] = "open"
    BY <1>1 DEF SpoolInv, Closed
  <2> QED
    BY <1>1, <2>1 DEF AllClosed
<1>2. CASE BuildFails \/ NoEngine \/ Answer
  <2>1. \A f \in 1..MaxFiles : spool'[f] # "open"
    BY <1>2 DEF BuildFails, NoEngine, Answer, cleanup, Closed, SpoolInv
  <2> QED
    BY <2>1 DEF AllClosed
<1>3. ASSUME NEW f \in 1..MaxFiles, SpoolFails(f)
      PROVE  AllClosed'
  <2> DEFINE c == Closed(DOMAIN spool)
  <2>1. \A g \in 1..MaxFiles : c[g] # "open"
    BY DEF Closed, SpoolInv
  <2>2. c \in [1..MaxFiles -> {"none", "open", "closed", "refused"}]
    BY DEF Closed, SpoolInv
  <2>3. spool' = [c EXCEPT ![f] = "refused"]
    BY <1>3 DEF SpoolFails
  <2> HIDE DEF c
  <2> QED
    BY <2>1, <2>2, <2>3 DEF AllClosed
<1>4. ASSUME NEW f \in 1..MaxFiles, SpoolPart(f) \/ Rewind(f)
      PROVE  AllClosed'
  BY <1>4 DEF SpoolPart, Rewind, Arrived, AllClosed, handlerVars
<1>5. ASSUME NEW a \in Attempts, SendFile(a) \/ Abandon(a)
      PROVE  AllClosed'
  BY <1>1, <1>5 DEF SendFile, Abandon, AllClosed, handlerVars
<1>6. CASE UNCHANGED spool /\ (hstep' = "done" => hstep = "done")
  BY <1>6 DEF AllClosed
<1>7. CASE FirstAttempt \/ ConvertReturns \/ StartFallback \/ UNCHANGED vars
  BY <1>6, <1>7
     DEF FirstAttempt, ConvertReturns, StartFallback, Launch, vars, handlerVars, spoolVars
<1>8. ASSUME NEW a \in Attempts, AdapterStep(a) \/ DoFails(a) \/ ProducerStep(a)
      PROVE  AllClosed'
  BY <1>6, <1>8
     DEF AdapterStep, LocalAnswer, RequestFails, BreakerRefuses, LimiterRefuses, Do, NextFile, DoFails,
         ProducerStep, ReadFails, Read, WriteFails, handlerVars, spoolVars
<1>9. ASSUME NEW a \in Attempts, NEW s, EngineReplies(a, s)
      PROVE  AllClosed'
  BY <1>6, <1>9 DEF EngineReplies, handlerVars, spoolVars
<1>10. ASSUME NEW a \in Attempts, TakeFromPipe(a) \/ PipeEnds(a) \/ SendSource(a)
       PROVE  AllClosed'
  BY <1>6, <1>10 DEF TakeFromPipe, PipeEnds, SendSource, handlerVars, spoolVars
<1> QED
  BY <1>2, <1>3, <1>4, <1>5, <1>7, <1>8, <1>9, <1>10 DEF Next, HandlerStep, TransportStep

LEMMA HandlerInvariant == Spec => [](SpoolInv /\ CallInv /\ HandlerInv)
<1>1. SpoolInv /\ CallInv /\ HandlerInv /\ [Next]_vars => (SpoolInv /\ CallInv /\ HandlerInv)'
  BY SpoolsStep, CallsStep, HandlersStep
<1> QED
  BY <1>1, HandlerInit, PTL DEF Spec

\* Everything has its type, whatever the goroutines of a call do: no spool is
\* read past its end, and no producer a file there is not.
THEOREM SyncTypes == Spec => []TypeOK
<1>1. SpoolInv /\ CallInv /\ HandlerInv => TypeOK
  BY DEF SpoolInv, CallInv, CallTypes, CallIn, HandlerInv, TypeOK, Statuses
<1> QED
  BY <1>1, HandlerInvariant, PTL

LEMMA Released == Spec => []AllClosed
<1>1. Init => AllClosed
  BY DEF Init, AllClosed
<1>2. SpoolInv /\ AllClosed /\ [Next]_vars => AllClosed'
  BY ReleaseStep
<1> QED
  BY <1>1, <1>2, HandlerInvariant, PTL DEF Spec

\* However a request ends, its spools and the responses it was given are closed.
THEOREM EverythingLetGo == Spec => []NothingHeld
<1>1. SpoolInv /\ HandlerInv /\ AllClosed => NothingHeld
  BY RequestIs DEF SpoolInv, HandlerInv, AllClosed, NothingHeld
<1> QED
  BY <1>1, HandlerInvariant, Released, PTL

\* spool.Part keeps a body of up to the limit whole and refuses a longer one,
\* for every limit and threshold.
THEOREM SpooledWhole == Spec => []SpoolExact
<1>1. SpoolInv /\ CallInv /\ HandlerInv => SpoolExact
  BY DEF SpoolInv
<1> QED
  BY <1>1, HandlerInvariant, PTL

-----------------------------------------------------------------------------
(* What an engine receives *)

LEMMA ChunksOf ==
    ASSUME NEW fs, NEW c
    PROVE  c \in Chunks(fs) <=> \E f \in fs : \E k \in 1..req.sizes[f] : c = <<f, k>>
  BY DEF Chunks

LEMMA UptoOf ==
    ASSUME NEW f \in Nat, NEW k \in Nat, NEW c
    PROVE  c \in Upto(f, k) <=> \/ \E g \in 1..(f - 1) : \E j \in 1..req.sizes[g] : c = <<g, j>>
                                \/ \E j \in 1..k : c = <<f, j>>
  BY ChunksOf DEF Upto

\* One chunk more.
LEMMA UptoNext ==
    ASSUME NEW f \in Nat, NEW k \in Nat
    PROVE  Upto(f, k + 1) = Upto(f, k) \cup {<<f, k + 1>>}
<1>1. 1..(k + 1) = (1..k) \cup {k + 1}
  OBVIOUS
<1>2. {<<f, j>> : j \in 1..(k + 1)} = {<<f, j>> : j \in 1..k} \cup {<<f, k + 1>>}
  BY <1>1
<1> QED
  BY <1>2 DEF Upto

\* The end of a file.
LEMMA UptoEnd ==
    ASSUME req \in Requests, NEW f \in Files
    PROVE  /\ Upto(f, req.sizes[f]) = Chunks(1..f)
           /\ Upto(f + 1, 0) = Chunks(1..f)
<1>1. f \in Nat /\ f >= 1 /\ req.sizes[f] \in Nat
  BY RequestIs
<1>2. 1..f = (1..(f - 1)) \cup {f} /\ (f + 1) - 1 = f /\ 1..0 = {}
  BY <1>1
<1>3. Upto(f, req.sizes[f]) = Chunks(1..f)
  BY <1>2 DEF Upto, Chunks
<1>4. Upto(f + 1, 0) = Chunks(1..f)
  BY <1>2 DEF Upto
<1> QED
  BY <1>3, <1>4

\* The beginning of the upload.
LEMMA UptoStart == Upto(1, 0) = {} /\ Chunks({}) = {}
<1>1. Chunks({}) = {}
  BY DEF Chunks
<1>2. 1..(1 - 1) = {} /\ 1..0 = {}
  OBVIOUS
<1> QED
  BY <1>1, <1>2 DEF Upto

\* What precedes a chunk comes before it.
LEMMA UptoPrecedes ==
    ASSUME NEW f \in Nat, NEW k \in Nat, NEW c \in Upto(f, k)
    PROVE  Precedes(c, <<f, k + 1>>)
  BY UptoOf DEF Precedes

\* A chunk is added to those before it.
LEMMA AppendNext ==
    ASSUME NEW s \in Seq(Nat \X Nat), Ordered(s), NEW f \in Nat, NEW k \in Nat,
           Members(s) = Upto(f, k)
    PROVE  LET t == Append(s, <<f, k + 1>>)
           IN  Ordered(t) /\ Members(t) = Upto(f, k + 1)
<1> DEFINE c == <<f, k + 1>>
           t == Append(s, c)
<1>1. /\ Len(s) \in Nat /\ DOMAIN s = 1..Len(s) /\ DOMAIN t = 1..(Len(s) + 1)
      /\ \A i \in DOMAIN s : t[i] = s[i]
      /\ t[Len(s) + 1] = c
  OBVIOUS
<1>2. \A i \in DOMAIN s : Precedes(s[i], c)
  BY UptoPrecedes DEF Members
<1> HIDE DEF c, t
<1>3. Ordered(t)
  <2> SUFFICES ASSUME NEW i \in DOMAIN t, NEW j \in DOMAIN t, i < j
               PROVE  Precedes(t[i], t[j])
    BY Zenon DEF Ordered
  <2>0. i \in 1..(Len(s) + 1) /\ j \in 1..(Len(s) + 1)
    BY <1>1, Zenon
  <2>1. i \in DOMAIN s /\ (j \in DOMAIN s \/ j = Len(s) + 1)
    <3>1. PICK n \in Nat : n = Len(s)
      BY <1>1
    <3>2. i \in 1..(n + 1) /\ j \in 1..(n + 1)
      BY ONLY <2>0, <3>1, Zenon
    <3>3. i \in 1..n /\ (j \in 1..n \/ j = n + 1)
      BY ONLY <3>2, n \in Nat, i < j, SMT
    <3>4. DOMAIN s = 1..n
      BY ONLY <1>1, <3>1, Zenon
    <3> QED
      BY ONLY <3>1, <3>3, <3>4, Zenon
  <2>2. CASE j \in DOMAIN s
    BY ONLY <1>1, <2>1, <2>2, Ordered(s), i < j, Zenon DEF Ordered
  <2>3. CASE j = Len(s) + 1
    BY ONLY <1>1, <1>2, <2>1, <2>3, Zenon
  <2> QED
    BY <2>1, <2>2, <2>3
<1>4. DOMAIN t = DOMAIN s \cup {Len(s) + 1}
  BY <1>1
<1>5. Members(t) = Members(s) \cup {c}
  BY <1>1, <1>4, SMTT(60) DEF Members
<1> QED
  BY <1>3, <1>5, UptoNext DEF c, t

LEMMA SameChunks ==
    ASSUME UNCHANGED req
    PROVE  /\ Files' = Files /\ \A a : Adapter(a)' = Adapter(a) /\ Piped(a)' = Piped(a)
           /\ \A fs : Chunks(fs)' = Chunks(fs)
           /\ \A g, j : Upto(g, j)' = Upto(g, j)
<1>1. \A fs : Chunks(fs)' = Chunks(fs)
  BY DEF Chunks
<1>2. \A g, j : Upto(g, j)' = Upto(g, j)
  BY <1>1 DEF Upto
<1> QED
  BY <1>1, <1>2, SameRequest

\* An attempt that is not begun has sent nothing.
LEMMA NotBegun ==
    ASSUME CallInv', NEW b \in Attempts, b > att'
    PROVE  AttemptAt(b)'
<1>1. /\ got'[b] = <<>> /\ prod'[b] = "none" /\ wire'[b] = "idle" /\ pipe'[b] = "open"
      /\ ~(b <= att')
  BY DEF CallInv, CallTypes, CallIn, Attempts
<1>2. Ordered(<<>>)
  BY DEF Ordered
<1> QED
  BY <1>1, <1>2 DEF AttemptAt, ProducerAt, SenderAt

\* A step elsewhere, that leaves alone the files the attempt owns.
LEMMA Elsewhere ==
    ASSUME SpoolInv, CallInv, NEW b \in Attempts, AttemptAt(b), UNCHANGED req,
           prod'[b] = prod[b], hand'[b] = hand[b], pipe'[b] = pipe[b],
           wire'[b] = wire[b], call'[b] = call[b], got'[b] = got[b],
           b <= att' => b <= att,
           \A f \in Files : Owns(b, f)' => Owns(b, f) /\ off'[f] = off[f]
    PROVE  AttemptAt(b)'
<1>1. /\ Files' = Files /\ Adapter(b)' = Adapter(b) /\ Piped(b)' = Piped(b)
      /\ \A fs : Chunks(fs)' = Chunks(fs)
      /\ \A f, k : Upto(f, k)' = Upto(f, k)
  BY SameChunks
<1>2. CallIn(b)
  BY DEF CallInv
<1>3. ProducerAt(b) /\ Piped(b) => ProducerAt(b)'
  BY <1>1, <1>2 DEF ProducerAt, CallIn
<1>4. SenderAt(b) => SenderAt(b)'
  BY <1>1, <1>2 DEF SenderAt, CallIn
<1> QED
  BY <1>1, <1>3, <1>4 DEF AttemptAt

\* A read that is not of a file rewound for another attempt.
LEMMA ReadSends ==
    ASSUME SpoolInv, CallInv, SendingInv, NEW a \in Attempts, Read(a), ~mixed'
    PROVE  AttemptAt(a)'
<1> DEFINE f == hand[a][1]
           k == hand[a][2]
<1>1. /\ prod[a] = "read" /\ spool[f] = "open" /\ prod'[a] = "put"
      /\ UNCHANGED <<req, att, rewound, size, pipe, wire, call, got>>
      /\ ~mixed /\ Owns(a, f) /\ \A g : Owns(a, g)' = Owns(a, g)
  BY DEF Read, NoteReader, handlerVars, CallInv, CallTypes, Owns
<1>2. /\ Files' = Files /\ Adapter(a)' = Adapter(a) /\ Piped(a)' = Piped(a)
      /\ \A fs : Chunks(fs)' = Chunks(fs)
      /\ \A g, j : Upto(g, j)' = Upto(g, j)
  BY <1>1, SameChunks
<1>3. /\ Piped(a) /\ AttemptAt(a) /\ f \in Files /\ hand[a] # Closing /\ hand[a] \in Nat \X Nat
  BY <1>1 DEF CallInv, CallTypes, CallIn, SendingInv
<1>4. /\ Files = 1..Len(req.sizes) /\ Len(req.sizes) \in Nat /\ f \in 1..MaxFiles
      /\ \A g \in Files : g \in 1..MaxFiles /\ g \in Nat /\ req.sizes[g] \in Nat
      /\ k \in Nat
  BY <1>3, RequestIs DEF SpoolInv
<1>5. /\ Members(got[a]) = Upto(f, k) /\ k <= req.sizes[f] /\ off[f] = k
      /\ \A g \in Files : g > f /\ Owns(a, g) => off[g] = 0
      /\ pipe[a] = "eof" => Members(got[a]) = Chunks(Files)
      /\ wire[a] = "clean" => pipe[a] = "eof"
  BY <1>1, <1>3 DEF AttemptAt, ProducerAt
<1>6. size[f] = req.sizes[f]
  BY <1>1, <1>3 DEF SpoolInv, SpoolExact
<1>7. Adapter(a) = "docling"
  BY <1>3 DEF Piped
<1>8. SUFFICES ProducerAt(a)'
  BY <1>1, <1>2, <1>3, <1>7 DEF AttemptAt
<1>9. CASE off[f] < size[f]
  <2>1. off' = [off EXCEPT ![f] = k + 1] /\ hand'[a] = <<f, k + 1>>
    BY <1>5, <1>9 DEF Read, CallInv, CallTypes
  <2>2. off'[f] = k + 1 /\ \A g \in Files : g > f => off'[g] = off[g]
    BY <1>4, <2>1 DEF SpoolInv
  <2>3. hand'[a][1] = f /\ hand'[a][2] = k + 1 /\ hand'[a] # Closing
    BY <1>4, <2>1 DEF Closing
  <2> HIDE DEF f, k
  <2>4. k + 1 <= req.sizes[f] /\ k + 1 # 0 /\ (k + 1) - 1 = k
    BY <1>3, <1>4, <1>5, <1>6, <1>9
  <2> QED
    BY <1>1, <1>2, <1>5, <2>2, <2>3, <2>4 DEF ProducerAt
<1>10. CASE ~(off[f] < size[f])
  <2>1. UNCHANGED off /\ hand'[a] = NextHand(f)
    BY <1>10 DEF Read, CallInv, CallTypes
  <2>2. k = req.sizes[f]
    BY <1>3, <1>4, <1>5, <1>6, <1>10
  <2>3. Members(got[a]) = Chunks(1..f) /\ Upto(f + 1, 0) = Chunks(1..f)
    BY <1>3, <1>5, <2>2, UptoEnd DEF SpoolInv
  <2>4. CASE f < Len(req.sizes)
    <3>1. hand'[a] = <<f + 1, 0>>
      BY <2>1, <2>4 DEF NextHand
    <3>2. f + 1 \in Files
      BY <1>3, <1>4, <2>4
    <3>3. hand'[a][1] = f + 1 /\ hand'[a][2] = 0 /\ hand'[a] # Closing
      BY <1>4, <3>1 DEF Closing
    <3>4. \A g \in Files : g > f + 1 => g > f
      BY <1>4
    <3>5. f + 1 > f /\ 0 <= req.sizes[f + 1]
      BY <1>4, <3>2
    <3> HIDE DEF f, k
    <3> QED
      BY <1>1, <1>2, <1>5, <2>1, <2>3, <3>2, <3>3, <3>4, <3>5 DEF ProducerAt
  <2>5. CASE ~(f < Len(req.sizes))
    <3>1. hand'[a] = Closing
      BY <2>1, <2>5 DEF NextHand
    <3>2. 1..f = Files
      BY <1>3, <1>4, <2>5
    <3> HIDE DEF f, k
    <3> QED
      BY <1>1, <1>2, <1>5, <2>3, <3>1, <3>2 DEF ProducerAt
  <2> QED
    BY <2>4, <2>5
<1> QED
  BY <1>9, <1>10

\* The transport takes what the producer writes.
LEMMA TakeSends ==
    ASSUME SpoolInv, CallInv, SendingInv, NEW a \in Attempts, TakeFromPipe(a), ~mixed
    PROVE  AttemptAt(a)'
<1> DEFINE f == hand[a][1]
           k == hand[a][2]
<1>1. /\ prod[a] = "put" /\ pipe[a] = "open" /\ wire[a] = "sending" /\ Piped(a)
      /\ UNCHANGED <<req, att, rewound, off, hand, wire, call>>
      /\ \A g : Owns(a, g)' = Owns(a, g)
  BY DEF TakeFromPipe, handlerVars, spoolVars, Owns
<1>2. /\ Files' = Files /\ Adapter(a)' = Adapter(a) /\ Piped(a)' = Piped(a)
      /\ \A fs : Chunks(fs)' = Chunks(fs)
      /\ \A g, j : Upto(g, j)' = Upto(g, j)
  BY <1>1, SameChunks
<1>3. /\ ProducerAt(a) /\ Ordered(got[a]) /\ Adapter(a) = "docling"
      /\ hand[a] \in Nat \X Nat /\ got[a] \in Seq(Nat \X Nat)
  BY <1>1 DEF CallInv, CallTypes, SendingInv, AttemptAt, Piped
<1>4. SUFFICES Ordered(got'[a]) /\ ProducerAt(a)'
  BY <1>1, <1>2, <1>3 DEF AttemptAt
<1>5. CASE hand[a] = Closing
  <2>1. got'[a] = got[a] /\ prod'[a] = "ended" /\ pipe'[a] = "eof"
    BY <1>5 DEF TakeFromPipe, Closing, CallInv, CallTypes
  <2> QED
    BY <1>1, <1>2, <1>3, <1>5, <2>1 DEF ProducerAt
<1>6. CASE hand[a] # Closing /\ k = 0
  <2>1. got'[a] = got[a] /\ prod'[a] = "read" /\ pipe'[a] = pipe[a]
    BY <1>6 DEF TakeFromPipe, CallInv, CallTypes
  <2> QED
    BY <1>1, <1>2, <1>3, <1>6, <2>1 DEF ProducerAt
<1>7. CASE hand[a] # Closing /\ k # 0
  <2>1. got'[a] = Append(got[a], hand[a]) /\ prod'[a] = "read" /\ pipe'[a] = pipe[a]
    BY <1>7 DEF TakeFromPipe, CallInv, CallTypes
  <2>2. k - 1 \in Nat /\ (k - 1) + 1 = k /\ hand[a] = <<f, k>> /\ f \in Nat
    BY <1>3, <1>7
  <2>3. Members(got[a]) = Upto(f, k - 1)
    BY <1>1, <1>3, <1>7 DEF ProducerAt
  <2>4. PICK j \in Nat : j = k - 1
    BY <2>2
  <2>5. got'[a] = Append(got[a], <<f, j + 1>>) /\ Members(got[a]) = Upto(f, j) /\ k = j + 1
    BY <2>1, <2>2, <2>3, <2>4
  <2>6. Ordered(got'[a]) /\ Members(got'[a]) = Upto(f, k)
    BY <1>3, <2>2, <2>5, AppendNext
  <2> QED
    BY <1>1, <1>2, <1>3, <1>7, <2>1, <2>6 DEF ProducerAt
<1> QED
  BY <1>5, <1>6, <1>7

\* The transport sends a spool that is not rewound for another attempt.
LEMMA FileSends ==
    ASSUME SpoolInv, CallInv, SendingInv, NEW a \in Attempts, SendFile(a), ~mixed'
    PROVE  AttemptAt(a)'
<1> DEFINE f == call[a]
<1>1. /\ wire[a] = "sending" /\ Adapter(a) # "docling"
      /\ UNCHANGED <<req, att, rewound, size, call>>
      /\ ~mixed /\ Owns(a, f) /\ \A g : Owns(a, g)' = Owns(a, g)
  BY DEF SendFile, NoteReader, handlerVars, CallInv, CallTypes, Owns
<1>2. /\ Files' = Files /\ Adapter(a)' = Adapter(a) /\ Piped(a)' = Piped(a) /\ ~Piped(a)
      /\ \A fs : Chunks(fs)' = Chunks(fs)
      /\ \A g, j : Upto(g, j)' = Upto(g, j)
  BY <1>1, SameChunks DEF Piped
<1>3. /\ SenderAt(a) /\ Ordered(got[a]) /\ f \in Files /\ ~(a > att) /\ a <= att
      /\ got[a] \in Seq(Nat \X Nat)
  BY <1>1, SMTT(60) DEF CallInv, CallTypes, CallIn, SendingInv, AttemptAt, Attempts
<1>4. f \in Nat /\ f \in 1..MaxFiles /\ off[f] \in Nat /\ \A g \in Files : g \in 1..MaxFiles
  BY <1>3, RequestIs DEF SpoolInv
<1>5. /\ Members(got[a]) = Upto(f, off[f])
      /\ \A g \in Files : g > f /\ Owns(a, g) => off[g] = 0
  BY <1>1, <1>3 DEF SenderAt
<1>6. SUFFICES Ordered(got'[a]) /\ SenderAt(a)'
  BY <1>1, <1>2 DEF AttemptAt
<1>7. CASE /\ spool[f] = "open" /\ off' = [off EXCEPT ![f] = @ + 1]
           /\ got' = [got EXCEPT ![a] = Append(@, <<f, off[f] + 1>>)] /\ UNCHANGED wire
  <2>1. PICK k \in Nat : k = off[f]
    BY <1>4
  <2>2. got'[a] = Append(got[a], <<f, k + 1>>) /\ off'[f] = k + 1
    BY <1>4, <1>7, <2>1 DEF CallInv, CallTypes, SpoolInv
  <2>3. \A g \in Files : g > f => off'[g] = off[g]
    BY <1>4, <1>7 DEF SpoolInv
  <2>4. Members(got[a]) = Upto(f, k)
    BY <1>5, <2>1
  <2> HIDE DEF f
  <2>5. Ordered(got'[a]) /\ Members(got'[a]) = Upto(f, k + 1)
    BY <1>3, <1>4, <2>2, <2>4, AppendNext
  <2> QED
    BY <1>1, <1>2, <1>3, <1>5, <1>7, <2>2, <2>3, <2>5 DEF SenderAt, f
<1>8. CASE /\ spool[f] = "open" /\ off[f] = size[f] /\ wire' = [wire EXCEPT ![a] = "clean"]
           /\ UNCHANGED <<off, got>>
  <2>1. off[f] = req.sizes[f]
    BY <1>3, <1>8 DEF SpoolInv, SpoolExact
  <2>2. Members(got[a]) = Chunks(1..f)
    BY <1>3, <1>5, <2>1, UptoEnd DEF SpoolInv
  <2>3. wire'[a] = "clean"
    BY <1>8 DEF CallInv, CallTypes
  <2> QED
    BY <1>1, <1>2, <1>3, <1>5, <1>8, <2>2, <2>3 DEF SenderAt
<1>9. CASE wire' = [wire EXCEPT ![a] = "aborted"] /\ UNCHANGED <<off, got>>
  <2>1. wire'[a] = "aborted"
    BY <1>9 DEF CallInv, CallTypes
  <2> QED
    BY <1>3, <1>9, <2>1 DEF SenderAt
<1> QED
  BY <1>7, <1>8, <1>9 DEF SendFile

\* The loop over the files goes on to the next.
LEMMA NextSends ==
    ASSUME SpoolInv, CallInv, SendingInv, NEW a \in Attempts, NextFile(a), ~mixed
    PROVE  AttemptAt(a)'
<1> DEFINE f == call[a]
<1>1. /\ att = a /\ wire[a] = "clean" /\ Adapter(a) # "docling" /\ f < Len(req.sizes)
      /\ wire'[a] = "idle" /\ call'[a] = f + 1
      /\ UNCHANGED <<req, att, rewound, off, got>> /\ \A g : Owns(a, g)' = Owns(a, g)
  BY DEF NextFile, MayReply, Calling, MoreFiles, handlerVars, spoolVars, CallInv, CallTypes, Owns
<1>2. /\ Files' = Files /\ Adapter(a)' = Adapter(a) /\ Piped(a)' = Piped(a) /\ ~Piped(a)
      /\ \A fs : Chunks(fs)' = Chunks(fs)
      /\ \A g, j : Upto(g, j)' = Upto(g, j)
  BY <1>1, SameChunks DEF Piped
<1>3. /\ SenderAt(a) /\ Ordered(got[a]) /\ f \in Files /\ a <= att
  BY <1>1 DEF CallInv, CallTypes, CallIn, SendingInv, AttemptAt, Attempts
<1>4. /\ f \in Nat /\ f + 1 \in Files /\ \A g \in Files : g > f + 1 => g > f
      /\ f + 1 > f
  BY <1>1, <1>3, RequestIs, SMTT(60) DEF SpoolInv
<1>5. Members(got[a]) = Chunks(1..f) /\ \A g \in Files : g > f /\ Owns(a, g) => off[g] = 0
  BY <1>1, <1>3 DEF SenderAt
<1>6. Members(got[a]) = Upto(f + 1, 0)
  BY <1>3, <1>5, UptoEnd DEF SpoolInv
<1> HIDE DEF f
<1>7. SenderAt(a)'
  BY <1>1, <1>2, <1>3, <1>4, <1>5, <1>6 DEF SenderAt
<1> QED
  BY <1>1, <1>2, <1>3, <1>7 DEF AttemptAt

\* An attempt begins with nothing sent and every file at its start.
LEMMA LaunchSends ==
    ASSUME SpoolInv, CallInv, NEW a \in Attempts, a > att, Launch(a), UNCHANGED <<off, rewound>>,
           \A f \in Files : Owns(a, f) => off[f] = 0
    PROVE  AttemptAt(a)'
<1>1. /\ got'[a] = <<>> /\ wire'[a] = "idle" /\ call'[a] = 1 /\ pipe'[a] = "open"
      /\ prod'[a] = (IF Piped(a) THEN "put" ELSE "none") /\ hand'[a] = NextHand(0)
      /\ UNCHANGED <<req, rewound, off>> /\ \A g : Owns(a, g)' = Owns(a, g)
  BY DEF Launch, CallInv, CallTypes, CallIn, Owns
<1>2. /\ Files' = Files /\ Adapter(a)' = Adapter(a) /\ Piped(a)' = Piped(a)
      /\ \A fs : Chunks(fs)' = Chunks(fs)
      /\ \A g, j : Upto(g, j)' = Upto(g, j)
  BY <1>1, SameChunks
<1>3. /\ Files = 1..Len(req.sizes) /\ Len(req.sizes) \in Nat
      /\ \A f \in Files : req.sizes[f] \in Nat
  BY RequestIs DEF SpoolInv
<1>4. Ordered(got'[a]) /\ Members(got'[a]) = {}
  BY <1>1 DEF Ordered, Members
<1>5. ProducerAt(a)'
  <2>1. CASE Files = {}
    <3>1. ~(0 < Len(req.sizes))
      BY <1>3, <2>1
    <3>2. hand'[a] = Closing
      BY <1>1, <3>1 DEF NextHand
    <3> QED
      BY <1>1, <1>2, <1>4, <2>1, <3>2, UptoStart DEF ProducerAt
  <2>2. CASE Files # {}
    <3>1. hand'[a] = <<1, 0>> /\ 1 \in Files
      BY <1>1, <1>3, <2>2 DEF NextHand
    <3>2. hand'[a] # Closing /\ hand'[a][1] = 1 /\ hand'[a][2] = 0 /\ 0 <= req.sizes[1]
      BY <1>3, <3>1 DEF Closing
    <3> QED
      BY <1>1, <1>2, <1>4, <3>1, <3>2, UptoStart DEF ProducerAt
  <2> QED
    BY <2>1, <2>2
<1>6. SenderAt(a)'
  <2>1. Files # {} => 1 \in Files
    BY <1>3
  <2> QED
    BY <1>1, <1>2, <1>4, <2>1, UptoStart DEF SenderAt
<1> QED
  BY <1>1, <1>2, <1>4, <1>5, <1>6 DEF AttemptAt

\* The steps of an attempt that send nothing.
LEMMA QuietSends ==
    ASSUME SpoolInv, CallInv, NEW a \in Attempts, AttemptAt(a),
           \/ ReadFails(a) \/ WriteFails(a) \/ RequestFails(a) \/ Do(a)
           \/ PipeEnds(a) \/ SendSource(a) \/ Abandon(a)
    PROVE  AttemptAt(a)'
<1>1. /\ UNCHANGED <<req, att, rewound, off, hand, call, got>>
      /\ \A g : Owns(a, g)' = Owns(a, g)
  BY DEF ReadFails, WriteFails, RequestFails, Do, PipeEnds, SendSource, Abandon,
         handlerVars, spoolVars, Owns
<1>2. /\ Files' = Files /\ Adapter(a)' = Adapter(a) /\ Piped(a)' = Piped(a)
      /\ \A fs : Chunks(fs)' = Chunks(fs)
      /\ \A g, j : Upto(g, j)' = Upto(g, j)
  BY <1>1, SameChunks
<1>3. /\ prod'[a] \in {prod[a], "ended"}
      /\ pipe'[a] = "eof" <=> pipe[a] = "eof"
  BY DEF ReadFails, WriteFails, RequestFails, Do, PipeEnds, SendSource, Abandon, CallInv, CallTypes
<1>4. Piped(a) /\ wire'[a] = "clean" => wire[a] = "clean" \/ pipe'[a] = "eof"
  BY DEF ReadFails, WriteFails, RequestFails, Do, PipeEnds, SendSource, Abandon, CallInv, CallTypes
<1>5. Adapter(a) # "docling" =>
        /\ wire'[a] = "clean" => wire[a] = "clean"
        /\ wire'[a] \in {"idle", "sending"} => wire[a] \in {"idle", "sending"}
        /\ wire'[a] = "idle" => wire[a] = "idle"
        /\ wire'[a] # "aborted" => wire[a] # "aborted"
  BY DEF ReadFails, WriteFails, RequestFails, Do, MakesCall, PipeEnds, SendSource, Abandon, Piped,
         CallInv, CallTypes
<1>6. Piped(a) => ProducerAt(a)'
  BY <1>1, <1>2, <1>3, <1>4 DEF AttemptAt, ProducerAt
<1>7. Adapter(a) # "docling" => SenderAt(a)'
  BY <1>1, <1>2, <1>5 DEF AttemptAt, SenderAt
<1> QED
  BY <1>1, <1>2, <1>6, <1>7 DEF AttemptAt

\* Every step keeps what is sent in order, until an attempt reads a file that is
\* rewound for the other.
LEMMA SendingStep ==
    ASSUME SpoolInv, CallInv, HandlerInv, SendingInv, CallInv', [Next]_vars
    PROVE  SendingInv'
<1>1. SUFFICES ASSUME ~mixed'
               PROVE  /\ att' = 0 => \A f \in Files' : off'[f] = 0
                      /\ att' = 1 => \A f \in rewound' : off'[f] = 0
                      /\ \A a \in Attempts : AttemptAt(a)'
  BY DEF SendingInv
<1>2. UNCHANGED req /\ ~mixed
  BY <1>1, ReqStays, MixedStays
<1>3. /\ att = 0 => \A f \in Files : off[f] = 0
      /\ att = 1 => \A f \in rewound : off[f] = 0
      /\ \A a \in Attempts : AttemptAt(a)
      /\ Files' = Files
      /\ rewound \subseteq Files
  BY <1>2, SameRequest DEF SendingInv, SpoolInv
<1>4. CASE UNCHANGED <<att, rewound, off, prod, hand, pipe, wire, call, got>>
  <2>1. \A a \in Attempts : AttemptAt(a)'
    BY <1>2, <1>3, <1>4, Elsewhere DEF Owns
  <2> QED
    BY <1>3, <1>4, <2>1
\* A step of one attempt that touches no file.
<1>5. ASSUME NEW a \in Attempts, AttemptAt(a)', UNCHANGED <<att, rewound, off>>,
             \A b \in Attempts \ {a} :
                 /\ prod'[b] = prod[b] /\ hand'[b] = hand[b] /\ pipe'[b] = pipe[b]
                 /\ wire'[b] = wire[b] /\ call'[b] = call[b] /\ got'[b] = got[b]
      PROVE  SendingInv'
  <2>1. \A b \in Attempts \ {a} : AttemptAt(b)'
    BY <1>2, <1>3, <1>5, Elsewhere DEF Owns
  <2> QED
    BY <1>3, <1>5, <2>1 DEF SendingInv
\* A step of one attempt that reads a file of its own.
<1>6. ASSUME NEW a \in Attempts, AttemptAt(a)', a <= att, UNCHANGED <<att, rewound>>,
             NEW f \in Files, Owns(a, f), NEW k, off' = [off EXCEPT ![f] = k],
             \A b \in Attempts \ {a} :
                 /\ prod'[b] = prod[b] /\ hand'[b] = hand[b] /\ pipe'[b] = pipe[b]
                 /\ wire'[b] = wire[b] /\ call'[b] = call[b] /\ got'[b] = got[b]
      PROVE  SendingInv'
  <2>0. a \in {1, 2} /\ att \in {0, 1, 2}
    BY DEF Attempts, CallInv, CallTypes
  <2>1. ASSUME NEW b \in Attempts, b # a
        PROVE  AttemptAt(b)'
    <3>1. CASE a = 1
      <4>1. att = 1 /\ b > att'
        BY <1>6, <2>0, <2>1, <3>1 DEF Owns, HandlerInv, Attempts
      <4> QED
        BY <4>1, NotBegun
    <3>2. CASE a = 2
      <4>1. b = 1 /\ \A g \in Files : ~Owns(b, g)'
        BY <1>6, <2>0, <2>1, <3>2 DEF Owns, HandlerInv, Attempts
      <4> QED
        BY <1>2, <1>3, <1>6, <2>1, <4>1, Elsewhere
    <3> QED
      BY <2>0, <3>1, <3>2
  <2>2. att' # 0
    BY <1>6, <2>0
  <2>3. att' = 1 => \A g \in rewound' : off'[g] = 0
    BY <1>3, <1>6, <2>0 DEF Owns, SpoolInv
  <2> QED
    BY <1>6, <2>1, <2>2, <2>3 DEF SendingInv
<1>7. ASSUME NEW a \in Attempts, Read(a)
      PROVE  SendingInv'
  <2> DEFINE f == hand[a][1]
  <2>1. AttemptAt(a)'
    BY <1>1, <1>7, ReadSends
  <2>2. /\ f \in Files /\ Owns(a, f) /\ a <= att /\ UNCHANGED <<att, rewound>>
    <3>1. prod[a] = "read" /\ mixed' = (mixed \/ (a = 1 /\ f \in rewound))
          /\ UNCHANGED <<att, rewound>>
      BY <1>7 DEF Read, NoteReader, handlerVars
    <3>2. f \in Files /\ ~(a > att)
      BY <3>1 DEF CallInv, CallIn
    <3>3. a <= att
      BY <3>2 DEF CallInv, CallTypes, Attempts
    <3> QED
      BY <1>1, <3>1, <3>2, <3>3 DEF Owns
  <2>3. \A b \in Attempts \ {a} :
            /\ prod'[b] = prod[b] /\ hand'[b] = hand[b] /\ pipe'[b] = pipe[b]
            /\ wire'[b] = wire[b] /\ call'[b] = call[b] /\ got'[b] = got[b]
    BY <1>7 DEF Read, CallInv, CallTypes
  <2>4. UNCHANGED off \/ \E k : off' = [off EXCEPT ![f] = k]
    BY <1>7 DEF Read
  <2> HIDE DEF f
  <2> QED
    BY <1>5, <1>6, <2>1, <2>2, <2>3, <2>4
<1>8. ASSUME NEW a \in Attempts, SendFile(a)
      PROVE  SendingInv'
  <2> DEFINE f == call[a]
  <2>1. AttemptAt(a)'
    BY <1>1, <1>8, FileSends
  <2>2. /\ f \in Files /\ Owns(a, f) /\ a <= att /\ UNCHANGED <<att, rewound>>
    <3>1. wire[a] = "sending" /\ Adapter(a) # "docling" /\ mixed' = (mixed \/ (a = 1 /\ f \in rewound))
          /\ UNCHANGED <<att, rewound>>
      BY <1>8 DEF SendFile, NoteReader, handlerVars
    <3>2. f \in Files /\ ~(a > att)
      BY <3>1 DEF CallInv, CallIn
    <3>3. a <= att
      BY <3>2 DEF CallInv, CallTypes, Attempts
    <3> QED
      BY <1>1, <3>1, <3>2, <3>3 DEF Owns
  <2>3. \A b \in Attempts \ {a} :
            /\ prod'[b] = prod[b] /\ hand'[b] = hand[b] /\ pipe'[b] = pipe[b]
            /\ wire'[b] = wire[b] /\ call'[b] = call[b] /\ got'[b] = got[b]
    BY <1>8 DEF SendFile, CallInv, CallTypes
  <2>4. UNCHANGED off \/ \E k : off' = [off EXCEPT ![f] = k]
    BY <1>8 DEF SendFile
  <2> HIDE DEF f
  <2> QED
    BY <1>5, <1>6, <2>1, <2>2, <2>3, <2>4
<1>9. ASSUME NEW a \in Attempts, TakeFromPipe(a) \/ NextFile(a)
      PROVE  SendingInv'
  <2>1. AttemptAt(a)'
    BY <1>2, <1>9, TakeSends, NextSends
  <2>2. /\ UNCHANGED <<att, rewound, off>>
        /\ \A b \in Attempts \ {a} :
              /\ prod'[b] = prod[b] /\ hand'[b] = hand[b] /\ pipe'[b] = pipe[b]
              /\ wire'[b] = wire[b] /\ call'[b] = call[b] /\ got'[b] = got[b]
    BY <1>9, SMTT(60) DEF TakeFromPipe, NextFile, CallInv, CallTypes, handlerVars, spoolVars
  <2> QED
    BY <1>5, <2>1, <2>2
<1>10. ASSUME NEW a \in Attempts,
              \/ ReadFails(a) \/ WriteFails(a) \/ RequestFails(a) \/ Do(a)
              \/ PipeEnds(a) \/ SendSource(a) \/ Abandon(a)
       PROVE  SendingInv'
  <2>1. AttemptAt(a)'
    BY <1>3, <1>10, QuietSends
  <2>2. UNCHANGED <<att, rewound, off>>
    BY <1>10 DEF ReadFails, WriteFails, RequestFails, Do, PipeEnds, SendSource, Abandon,
                 handlerVars, spoolVars
  <2>3. \A b \in Attempts \ {a} :
            /\ prod'[b] = prod[b] /\ hand'[b] = hand[b] /\ pipe'[b] = pipe[b]
            /\ wire'[b] = wire[b] /\ call'[b] = call[b] /\ got'[b] = got[b]
    <3>1. UNCHANGED <<hand, call, got>>
      BY <1>10 DEF ReadFails, WriteFails, RequestFails, Do, PipeEnds, SendSource, Abandon
    <3>2. \A b \in Attempts \ {a} : prod'[b] = prod[b] /\ wire'[b] = wire[b]
      BY <1>10, ZenonT(60) DEF ReadFails, WriteFails, RequestFails, Do, PipeEnds, SendSource, Abandon,
                   CallInv, CallTypes
    <3>3. \A b \in Attempts \ {a} : pipe'[b] = pipe[b]
      BY <1>10, ZenonT(60) DEF ReadFails, WriteFails, RequestFails, Do, PipeEnds, SendSource, Abandon,
                   CallInv, CallTypes
    <3> QED
      BY <3>1, <3>2, <3>3
  <2> QED
    BY <1>5, <2>1, <2>2, <2>3
<1>11. ASSUME NEW a \in Attempts, LocalAnswer(a) \/ BreakerRefuses(a) \/ LimiterRefuses(a) \/ DoFails(a)
       PROVE  SendingInv'
  BY <1>4, <1>11 DEF LocalAnswer, BreakerRefuses, LimiterRefuses, DoFails, handlerVars, spoolVars, SendingInv
<1>12. ASSUME NEW a \in Attempts, NEW s, EngineReplies(a, s)
       PROVE  SendingInv'
  BY <1>4, <1>12 DEF EngineReplies, handlerVars, spoolVars, SendingInv
<1>13. ASSUME NEW f \in 1..MaxFiles, SpoolPart(f) \/ SpoolFails(f)
       PROVE  SendingInv'
  BY <1>4, <1>13 DEF SpoolPart, SpoolFails, handlerVars, callVars, SendingInv
<1>14. ASSUME BuildFails \/ NoEngine \/ ConvertReturns \/ Answer \/ UNCHANGED vars
       PROVE  SendingInv'
  BY <1>4, <1>14
     DEF BuildFails, NoEngine, ConvertReturns, Answer, vars, handlerVars, spoolVars, callVars, SendingInv
<1>15. ASSUME NEW f \in 1..MaxFiles, Rewind(f)
       PROVE  SendingInv'
  <2>1. att = 1 /\ UNCHANGED <<att, callVars>> /\ f \in Files
    BY <1>15 DEF Rewind, HandlerInv
  <2>2. \A g \in Files : g \in rewound => g \in rewound'
    BY <1>15 DEF Rewind
  <2>3. \A g \in Files : g # f => off'[g] = off[g]
    BY <1>15, RequestIs DEF Rewind, SpoolInv
  <2>4. f \in rewound' => off'[f] = 0
    <3>1. f \notin rewound /\ off \in [1..MaxFiles -> Nat]
      BY <1>15 DEF Rewind, SpoolInv
    <3>2. CASE spool[f] = "open"
      BY <1>15, <3>1, <3>2 DEF Rewind
    <3>3. CASE spool[f] # "open"
      BY <1>15, <3>1, <3>3 DEF Rewind
    <3> QED
      BY <3>2, <3>3
  <2>5. f \notin rewound' => UNCHANGED off
    BY <1>15 DEF Rewind
  <2>6. rewound' \subseteq rewound \cup {f}
    BY <1>15 DEF Rewind
  <2>7. AttemptAt(2)'
    BY <2>1, NotBegun DEF Attempts
  <2>8. \A g \in Files : Owns(1, g)' => Owns(1, g) /\ off'[g] = off[g]
    BY <2>2, <2>3, <2>5 DEF Owns
  <2>9. AttemptAt(1)'
    BY <1>2, <1>3, <2>1, <2>8, Elsewhere DEF callVars, Attempts
  <2>10. \A g \in rewound' : off'[g] = 0
    BY <1>3, <2>1, <2>3, <2>4, <2>6
  <2> QED
    BY <2>1, <2>7, <2>9, <2>10 DEF SendingInv, Attempts
<1>16. ASSUME FirstAttempt
       PROVE  SendingInv'
  <2>1. att = 0 /\ Launch(1) /\ UNCHANGED <<off, rewound>> /\ att' = 1
    BY <1>16 DEF FirstAttempt, Launch, HandlerInv, spoolVars
  <2>2. AttemptAt(1)'
    BY <1>3, <2>1, LaunchSends DEF Attempts
  <2>3. AttemptAt(2)'
    BY <2>1, NotBegun DEF Attempts
  <2> QED
    BY <1>3, <2>1, <2>2, <2>3 DEF SendingInv, Attempts
<1>17. ASSUME StartFallback
       PROVE  SendingInv'
  <2>1. att = 1 /\ rewound = Files /\ Launch(2) /\ UNCHANGED <<off, rewound>> /\ att' = 2
    BY <1>17 DEF StartFallback, Launch, HandlerInv, spoolVars
  <2>2. AttemptAt(2)'
    BY <1>3, <2>1, LaunchSends DEF Attempts
  <2>3. /\ prod'[1] = prod[1] /\ hand'[1] = hand[1] /\ pipe'[1] = pipe[1]
        /\ wire'[1] = wire[1] /\ call'[1] = call[1] /\ got'[1] = got[1]
    BY <2>1 DEF Launch, CallInv, CallTypes, Attempts
  <2>4. AttemptAt(1)'
    BY <1>2, <1>3, <2>1, <2>3, Elsewhere DEF Attempts, Owns
  <2> QED
    BY <2>1, <2>2, <2>4 DEF SendingInv, Attempts
<1>18. ASSUME NEW a \in Attempts, AdapterStep(a) \/ DoFails(a) \/ ProducerStep(a) \/ TransportStep(a)
       PROVE  SendingInv'
  BY <1>7, <1>8, <1>9, <1>10, <1>11, <1>18 DEF AdapterStep, ProducerStep, TransportStep
<1>19. ASSUME HandlerStep
       PROVE  SendingInv'
  BY <1>14, <1>15, <1>16, <1>17, <1>19 DEF HandlerStep
<1>20. SendingInv'
  BY <1>12, <1>13, <1>14, <1>18, <1>19 DEF Next
<1> QED
  BY <1>1, <1>20 DEF SendingInv

LEMMA SendingInvariant == Spec => [](SpoolInv /\ CallInv /\ HandlerInv /\ SendingInv)
<1>1. Init => SendingInv
  <2> SUFFICES ASSUME Init PROVE SendingInv
    OBVIOUS
  <2>1. SpoolInv /\ CallInv
    BY HandlerInit
  <2>2. \A a \in Attempts : AttemptAt(a)
    BY DEF Init, AttemptAt, ProducerAt, SenderAt, Ordered, Attempts
  <2> QED
    BY <2>1, <2>2, RequestIs DEF Init, SendingInv, SpoolInv
<1>2. SpoolInv /\ CallInv /\ HandlerInv /\ SendingInv /\ CallInv' /\ [Next]_vars => SendingInv'
  BY SendingStep
<1> QED
  BY <1>1, <1>2, HandlerInvariant, PTL DEF Spec

\* A complete body is a whole one.
LEMMA CleanIsWhole ==
    ASSUME SpoolInv, CallInv, SendingInv, ~mixed, NEW a \in Attempts, wire[a] = "clean"
    PROVE  Whole(a)
<1>1. AttemptAt(a)
  BY DEF SendingInv
<1>2. Members(got[a]) = Chunks(Expected(a))
  <2>1. CASE Piped(a)
    BY <1>1, <2>1 DEF AttemptAt, ProducerAt, Expected, Piped
  <2>2. CASE Adapter(a) = "docling" /\ ~Piped(a)
    <3>1. Files = {} /\ got[a] = <<>>
      BY <1>1, <2>2, SyncAssumption DEF AttemptAt, Piped, Files, SpoolInv
    <3> QED
      BY <2>2, <3>1, UptoStart DEF Expected, Members
  <2>3. CASE Adapter(a) # "docling"
    BY <1>1, <2>3 DEF AttemptAt, SenderAt, Expected
  <2> QED
    BY <2>1, <2>2, <2>3
<1> QED
  BY <1>1, <1>2 DEF AttemptAt, Whole, Ordered, Members

\* An engine that is sent a complete body is sent the whole upload, whatever is
\* closed or rewound meanwhile, for uploads of any number and size of files.
THEOREM CleanBodiesAreWhole == Spec => []CleanSendIsWhole
<1>1. SpoolInv /\ CallInv /\ HandlerInv /\ SendingInv => CleanSendIsWhole
  BY CleanIsWhole DEF CleanSendIsWhole
<1> QED
  BY <1>1, SendingInvariant, PTL

\* The client hears "ok" only when an engine was sent the whole upload.
THEOREM OkAfterWhole == Spec => []OkMeansWhole
<1>1. SpoolInv /\ CallInv /\ HandlerInv /\ SendingInv => OkMeansWhole
  BY CleanIsWhole DEF OkMeansWhole, HandlerInv
<1> QED
  BY <1>1, SendingInvariant, PTL

=============================================================================
