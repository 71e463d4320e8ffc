------------------------- MODULE HTTPServer_proofs -------------------------
(***************************************************************************)
(* Proofs about HTTPServer, for any requests, settings, engines and        *)
(* statuses: what AccessLog, Metrics and FullCapture put on record is what *)
(* the client was sent, and /readyz tells the truth about the engines.     *)
(*                                                                         *)
(* A request's writers are followed as one value: InStep says how the      *)
(* layers agree while the request is under way, and one lemma for each     *)
(* call of the response writer shows that it keeps them in step.           *)
(***************************************************************************)
EXTENDS HTTPServer, FiniteSetTheorems, WellFoundedInduction, TLAPS

Codes == 100..599
Final == 200..599
Some == {Unset} \cup Codes

Writers == [wire : {Unset} \cup Final, cap : Some, acc : Some, met : Some]

Records ==
    [log : Some, met : Some, cap : Some, panic : BOOLEAN]

NoRecord == [log |-> Unset, met |-> Unset, cap |-> Unset, panic |-> FALSE]

ServerTypes ==
    /\ cfg \in SettingType
    /\ stage \in [Requests -> {"new", "in", "returned", "done"}]
    /\ w \in [Requests -> Writers]
    /\ late \in [Requests -> BOOLEAN]
    /\ interim \in [Requests -> BOOLEAN]
    /\ rec \in [Requests -> Records]

\* The layers of x have all seen the same first header, or none; l: a later one
\* came, which only FullCapture took note of.
InStep(x, l, capture) ==
    /\ x.acc = x.met
    /\ x.wire = x.met
    /\ x.cap = Unset <=> ~capture \/ x.met = Unset
    /\ ~l /\ x.cap # Unset => x.cap = x.met

\* Until an interim response goes through a mount.
Agreement ==
    \A r \in Requests :
        stage[r] # "done" /\ ~interim[r] => InStep(w[r], late[r], cfg.capture)

\* Nothing is on record of a request under way.
Unrecorded == \A r \in Requests : stage[r] # "done" => rec[r] = NoRecord

ChainInv == ServerTypes /\ Agreement /\ Unrecorded /\ LogTellsTruth

-----------------------------------------------------------------------------
(* The response writers *)

\* A header passes FullCapture, Metrics, AccessLog and net/http.
LEMMA NetHeaderIs ==
    ASSUME NEW x \in Writers, NEW s \in Codes
    PROVE  /\ NetHeader(x, s) \in Writers
           /\ NetHeader(x, s).wire = IF x.wire # Unset \/ s < 200 THEN x.wire ELSE s
           /\ NetHeader(x, s).cap = x.cap
           /\ NetHeader(x, s).acc = x.acc
           /\ NetHeader(x, s).met = x.met
  BY DEF NetHeader, IsInterim, Writers, Final, Unset, Codes

LEMMA AccHeaderIs ==
    ASSUME NEW x \in Writers, NEW s \in Codes
    PROVE  /\ AccHeader(x, s) \in Writers
           /\ AccHeader(x, s).wire =
                 IF x.acc # Unset \/ x.wire # Unset \/ s < 200 THEN x.wire ELSE s
           /\ AccHeader(x, s).cap = x.cap
           /\ AccHeader(x, s).acc = IF x.acc # Unset THEN x.acc ELSE s
           /\ AccHeader(x, s).met = x.met
<1> DEFINE y == [x EXCEPT !.acc = NoteHeader(@, s)]
<1>1. /\ y \in Writers
      /\ y.acc = IF x.acc # Unset THEN x.acc ELSE s
      /\ y.wire = x.wire /\ y.cap = x.cap /\ y.met = x.met
  BY DEF NoteHeader, Writers, Some
<1>2. AccHeader(x, s) = IF x.acc # Unset THEN x ELSE NetHeader(y, s)
  BY DEF AccHeader
<1> HIDE DEF y
<1>3. /\ NetHeader(y, s) \in Writers
      /\ NetHeader(y, s).wire = IF y.wire # Unset \/ s < 200 THEN y.wire ELSE s
      /\ NetHeader(y, s).cap = y.cap
      /\ NetHeader(y, s).acc = y.acc
      /\ NetHeader(y, s).met = y.met
  BY <1>1, NetHeaderIs, ZenonT(60)
<1> QED
  BY <1>1, <1>2, <1>3

LEMMA MetHeaderIs ==
    ASSUME NEW x \in Writers, NEW s \in Codes
    PROVE  /\ MetHeader(x, s) \in Writers
           /\ MetHeader(x, s).wire =
                 IF x.met # Unset \/ x.acc # Unset \/ x.wire # Unset \/ s < 200
                 THEN x.wire ELSE s
           /\ MetHeader(x, s).cap = x.cap
           /\ MetHeader(x, s).acc = IF x.met # Unset \/ x.acc # Unset THEN x.acc ELSE s
           /\ MetHeader(x, s).met = IF x.met # Unset THEN x.met ELSE s
<1> DEFINE y == [x EXCEPT !.met = NoteHeader(@, s)]
<1>1. /\ y \in Writers
      /\ y.met = IF x.met # Unset THEN x.met ELSE s
      /\ y.wire = x.wire /\ y.cap = x.cap /\ y.acc = x.acc
  BY DEF NoteHeader, Writers, Some
<1>2. MetHeader(x, s) = IF x.met # Unset THEN x ELSE AccHeader(y, s)
  BY DEF MetHeader
<1> HIDE DEF y
<1>3. /\ AccHeader(y, s) \in Writers
      /\ AccHeader(y, s).wire = IF y.acc # Unset \/ y.wire # Unset \/ s < 200 THEN y.wire ELSE s
      /\ AccHeader(y, s).cap = y.cap
      /\ AccHeader(y, s).acc = IF y.acc # Unset THEN y.acc ELSE s
      /\ AccHeader(y, s).met = y.met
  BY <1>1, AccHeaderIs, ZenonT(60)
<1> QED
  BY <1>1, <1>2, <1>3

LEMMA CapHeaderIs ==
    ASSUME NEW x \in Writers, NEW s \in Codes
    PROVE  /\ CapHeader(x, s) \in Writers
           /\ CapHeader(x, s).wire =
                 IF x.met # Unset \/ x.acc # Unset \/ x.wire # Unset \/ s < 200
                 THEN x.wire ELSE s
           /\ CapHeader(x, s).cap = IF cfg.capture THEN s ELSE x.cap
           /\ CapHeader(x, s).acc = IF x.met # Unset \/ x.acc # Unset THEN x.acc ELSE s
           /\ CapHeader(x, s).met = IF x.met # Unset THEN x.met ELSE s
<1> DEFINE y == IF cfg.capture THEN [x EXCEPT !.cap = s] ELSE x
<1>1. /\ y \in Writers
      /\ y.cap = IF cfg.capture THEN s ELSE x.cap
      /\ y.wire = x.wire /\ y.acc = x.acc /\ y.met = x.met
  BY DEF Writers, Some
<1>2. CapHeader(x, s) = MetHeader(y, s)
  BY DEF CapHeader
<1> HIDE DEF y
<1>3. /\ MetHeader(y, s) \in Writers
      /\ MetHeader(y, s).wire = IF y.met # Unset \/ y.acc # Unset \/ y.wire # Unset \/ s < 200
                               THEN y.wire ELSE s
      /\ MetHeader(y, s).cap = y.cap
      /\ MetHeader(y, s).acc = IF y.met # Unset \/ y.acc # Unset THEN y.acc ELSE s
      /\ MetHeader(y, s).met = IF y.met # Unset THEN y.met ELSE s
  BY <1>1, MetHeaderIs, ZenonT(60)
<1> QED
  BY <1>1, <1>2, <1>3

\* A body goes the same way, and brings a 200 along where there was no header.
LEMMA AccWriteIs ==
    ASSUME NEW x \in Writers
    PROVE  /\ AccWrite(x) \in Writers
           /\ AccWrite(x).wire = IF x.wire # Unset THEN x.wire ELSE 200
           /\ AccWrite(x).cap = x.cap
           /\ AccWrite(x).acc = IF x.acc # Unset THEN x.acc ELSE 200
           /\ AccWrite(x).met = x.met
<1> DEFINE y == [x EXCEPT !.acc = NoteWrite(@)]
<1>1. /\ y \in Writers
      /\ y.acc = IF x.acc # Unset THEN x.acc ELSE 200
      /\ y.wire = x.wire /\ y.cap = x.cap /\ y.met = x.met
  BY DEF NoteWrite, Writers, Some, Codes
<1>2. AccWrite(x) = NetHeader(y, 200)
  BY DEF AccWrite, NetWrite
<1> HIDE DEF y
<1>3. /\ NetHeader(y, 200) \in Writers
      /\ NetHeader(y, 200).wire = IF y.wire # Unset THEN y.wire ELSE 200
      /\ NetHeader(y, 200).cap = y.cap
      /\ NetHeader(y, 200).acc = y.acc
      /\ NetHeader(y, 200).met = y.met
  <2>1. PICK s \in Codes : s = 200
    BY DEF Codes
  <2>2. /\ NetHeader(y, s) \in Writers
        /\ NetHeader(y, s).wire = IF y.wire # Unset \/ s < 200 THEN y.wire ELSE s
        /\ NetHeader(y, s).cap = y.cap
        /\ NetHeader(y, s).acc = y.acc
        /\ NetHeader(y, s).met = y.met
    BY <1>1, NetHeaderIs, ZenonT(60)
  <2> QED
    BY <2>1, <2>2
<1> QED
  BY <1>1, <1>2, <1>3

LEMMA CapWriteIs ==
    ASSUME NEW x \in Writers
    PROVE  /\ CapWrite(x) \in Writers
           /\ CapWrite(x).wire = IF x.wire # Unset THEN x.wire ELSE 200
           /\ CapWrite(x).cap = IF cfg.capture /\ x.cap = Unset THEN 200 ELSE x.cap
           /\ CapWrite(x).acc = IF x.acc # Unset THEN x.acc ELSE 200
           /\ CapWrite(x).met = IF x.met # Unset THEN x.met ELSE 200
<1> DEFINE y == IF cfg.capture /\ x.cap = Unset THEN [x EXCEPT !.cap = 200] ELSE x
<1> DEFINE z == [y EXCEPT !.met = NoteWrite(@)]
<1>1. /\ y \in Writers
      /\ y.cap = IF cfg.capture /\ x.cap = Unset THEN 200 ELSE x.cap
      /\ y.wire = x.wire /\ y.acc = x.acc /\ y.met = x.met
  BY DEF Writers, Some, Codes
<1>2. CapWrite(x) = AccWrite(z)
  BY DEF CapWrite, MetWrite
<1> HIDE DEF y
<1>3. /\ z \in Writers
      /\ z.met = IF y.met # Unset THEN y.met ELSE 200
      /\ z.wire = y.wire /\ z.cap = y.cap /\ z.acc = y.acc
  <2> DEFINE n == NoteWrite(y.met)
  <2>1. n = IF y.met # Unset THEN y.met ELSE 200
    BY Zenon DEF NoteWrite
  <2>2. n \in Some
    <3>1. y.met \in Some
      BY ONLY <1>1 DEF Writers
    <3>2. 200 \in Some
      BY DEF Some, Codes
    <3> QED
      BY ONLY <2>1, <3>1, <3>2, Zenon
  <2>3. z = [y EXCEPT !.met = n]
    OBVIOUS
  <2> HIDE DEF n, z
  <2>4. z \in Writers /\ z.met = n /\ z.wire = y.wire /\ z.cap = y.cap /\ z.acc = y.acc
    BY ONLY <1>1, <2>2, <2>3 DEF Writers
  <2> QED
    BY ONLY <2>1, <2>4, Zenon
<1> HIDE DEF z
<1> QED
  BY <1>1, <1>2, <1>3, AccWriteIs

\* A final header keeps the layers in step; it is late if there was one before.
LEMMA HeaderInStep ==
    ASSUME NEW x \in Writers, NEW s \in Codes, s >= 200,
           NEW l \in BOOLEAN, InStep(x, l, cfg.capture)
    PROVE  /\ InStep(CapHeader(x, s), l \/ x.met # Unset, cfg.capture)
           /\ CapHeader(x, s).wire = IF x.wire # Unset THEN x.wire ELSE s
<1>1. ~(s < 200) /\ s # Unset
  BY DEF Unset, Codes
<1>2. /\ CapHeader(x, s) \in Writers
      /\ CapHeader(x, s).wire = IF x.met # Unset \/ x.acc # Unset \/ x.wire # Unset \/ s < 200
                                THEN x.wire ELSE s
      /\ CapHeader(x, s).cap = IF cfg.capture THEN s ELSE x.cap
      /\ CapHeader(x, s).acc = IF x.met # Unset \/ x.acc # Unset THEN x.acc ELSE s
      /\ CapHeader(x, s).met = IF x.met # Unset THEN x.met ELSE s
  BY ONLY CapHeaderIs, x \in Writers, s \in Codes, ZenonT(60)
<1>3. InStep(CapHeader(x, s), l \/ x.met # Unset, cfg.capture)
  BY <1>1, <1>2 DEF InStep
<1> QED
  BY <1>1, <1>2, <1>3 DEF InStep

\* So does a body, whose implicit header is a 200.
LEMMA WriteInStep ==
    ASSUME NEW x \in Writers, NEW l \in BOOLEAN, InStep(x, l, cfg.capture)
    PROVE  /\ InStep(CapWrite(x), l, cfg.capture)
           /\ CapWrite(x).wire = IF x.wire # Unset THEN x.wire ELSE 200
  BY CapWriteIs DEF Writers, Some, Final, Unset, InStep

-----------------------------------------------------------------------------
(* A request under way, and its end *)

\* A step of one request that does not end it.
LEMMA Working ==
    ASSUME ChainInv, NEW r \in Requests, stage[r] # "done",
           NEW t \in {"new", "in", "returned"}, stage' = [stage EXCEPT ![r] = t],
           NEW x \in Writers, w' = [w EXCEPT ![r] = x],
           NEW l \in BOOLEAN, late' = [late EXCEPT ![r] = l],
           NEW i \in BOOLEAN, interim' = [interim EXCEPT ![r] = i],
           ~i => InStep(x, l, cfg.capture),
           UNCHANGED <<cfg, rec>>
    PROVE  ChainInv'
<1>1. ServerTypes'
  BY DEF ChainInv, ServerTypes
<1>2. Agreement'
  BY DEF ChainInv, ServerTypes, Agreement
<1>3. Unrecorded'
  BY DEF ChainInv, ServerTypes, Unrecorded
<1>4. LogTellsTruth'
  BY DEF ChainInv, ServerTypes, LogTellsTruth
<1> QED
  BY <1>1, <1>2, <1>3, <1>4 DEF ChainInv

\* A step of one request that ends it.
LEMMA Ending ==
    ASSUME ChainInv, NEW r \in Requests, stage[r] # "done",
           stage' = [stage EXCEPT ![r] = "done"],
           NEW x \in Writers, w' = [w EXCEPT ![r] = x],
           NEW y \in Records, rec' = [rec EXCEPT ![r] = y],
           y.met # Unset /\ ~interim[r] =>
              /\ y.met = x.wire
              /\ y.log # Unset => y.log = x.wire
              /\ y.cap # Unset /\ ~late[r] => y.cap = x.wire,
           UNCHANGED <<cfg, late, interim>>
    PROVE  ChainInv'
<1>1. ServerTypes'
  BY DEF ChainInv, ServerTypes
<1>2. Agreement'
  BY DEF ChainInv, ServerTypes, Agreement
<1>3. Unrecorded'
  BY DEF ChainInv, ServerTypes, Unrecorded
<1>4. LogTellsTruth'
  BY DEF ChainInv, ServerTypes, LogTellsTruth
<1> QED
  BY <1>1, <1>2, <1>3, <1>4 DEF ChainInv

-----------------------------------------------------------------------------
(* The actions *)

\* Headers, bodies and whole replies of a request under way.
LEMMA AfterHeader ==
    ASSUME ChainInv, NEW r \in Requests, stage[r] # "done", NEW s \in Codes, s >= 200
    PROVE  /\ CapHeader(w[r], s) \in Writers
           /\ (late[r] \/ w[r].met # Unset) \in BOOLEAN
           /\ ~interim[r] =>
                 InStep(CapHeader(w[r], s), late[r] \/ w[r].met # Unset, cfg.capture)
<1>1. w[r] \in Writers /\ late[r] \in BOOLEAN
  BY DEF ChainInv, ServerTypes
<1>2. ~interim[r] => InStep(w[r], late[r], cfg.capture)
  BY DEF ChainInv, Agreement
<1>3. CapHeader(w[r], s) \in Writers
  BY ONLY <1>1, s \in Codes, CapHeaderIs
<1>4. ASSUME InStep(w[r], late[r], cfg.capture)
      PROVE  InStep(CapHeader(w[r], s), late[r] \/ w[r].met # Unset, cfg.capture)
  <2>1. PICK x \in Writers : x = w[r]
    BY <1>1
  <2>2. PICK l \in BOOLEAN : l = late[r]
    BY <1>1
  <2>3. InStep(x, l, cfg.capture)
    BY <1>4, <2>1, <2>2
  <2>4. InStep(CapHeader(x, s), l \/ x.met # Unset, cfg.capture)
    BY ONLY <2>3, x \in Writers, l \in BOOLEAN, s \in Codes, s >= 200, HeaderInStep, ZenonT(60)
  <2> QED
    BY <2>1, <2>2, <2>4
<1> QED
  BY <1>1, <1>2, <1>3, <1>4

LEMMA AfterWrite ==
    ASSUME ChainInv, NEW r \in Requests, stage[r] # "done"
    PROVE  /\ CapWrite(w[r]) \in Writers
           /\ ~interim[r] => InStep(CapWrite(w[r]), late[r], cfg.capture)
<1>1. w[r] \in Writers /\ late[r] \in BOOLEAN
  BY DEF ChainInv, ServerTypes
<1>2. ~interim[r] => InStep(w[r], late[r], cfg.capture)
  BY DEF ChainInv, Agreement
<1> QED
  BY <1>1, <1>2, CapWriteIs, WriteInStep

LEMMA AfterReply ==
    ASSUME ChainInv, NEW r \in Requests, stage[r] # "done", NEW s \in Codes, s >= 200
    PROVE  /\ CapWrite(CapHeader(w[r], s)) \in Writers
           /\ ~interim[r] =>
                 InStep(CapWrite(CapHeader(w[r], s)), late[r] \/ w[r].met # Unset, cfg.capture)
<1>1. /\ CapHeader(w[r], s) \in Writers
      /\ (late[r] \/ w[r].met # Unset) \in BOOLEAN
      /\ ~interim[r] =>
            InStep(CapHeader(w[r], s), late[r] \/ w[r].met # Unset, cfg.capture)
  BY AfterHeader
<1> QED
  BY <1>1, CapWriteIs, WriteInStep, ZenonT(60)

\* A handler's header, and the final one of an engine's mount.
LEMMA HeaderStep ==
    ASSUME ChainInv, NEW r \in Requests, NEW s \in Codes, s >= 200,
           stage[r] = "in", WriteHeader(r, s),
           NEW t \in {"in", "returned"}, stage' = [stage EXCEPT ![r] = t],
           UNCHANGED <<cfg, interim, rec>>
    PROVE  ChainInv'
<1>1. /\ CapHeader(w[r], s) \in Writers
      /\ (late[r] \/ w[r].met # Unset) \in BOOLEAN
      /\ ~interim[r] =>
            InStep(CapHeader(w[r], s), late[r] \/ w[r].met # Unset, cfg.capture)
  BY AfterHeader
<1>2. /\ w' = [w EXCEPT ![r] = CapHeader(w[r], s)]
      /\ late' = [late EXCEPT ![r] = late[r] \/ w[r].met # Unset]
  BY DEF WriteHeader
<1>3. interim[r] \in BOOLEAN /\ interim' = [interim EXCEPT ![r] = interim[r]]
  BY DEF ChainInv, ServerTypes
<1> QED
  BY <1>1, <1>2, <1>3, Working

\* A refusal, the health page, readiness.
LEMMA ReplyStep ==
    ASSUME ChainInv, NEW r \in Requests, NEW s \in Codes, s >= 200,
           stage[r] = "in", Reply(r, s), Goto(r, "returned"),
           UNCHANGED <<cfg, interim, rec>>
    PROVE  ChainInv'
<1>1. /\ CapWrite(CapHeader(w[r], s)) \in Writers
      /\ ~interim[r] =>
            InStep(CapWrite(CapHeader(w[r], s)), late[r] \/ w[r].met # Unset, cfg.capture)
  BY AfterReply
<1>2. (late[r] \/ w[r].met # Unset) \in BOOLEAN
  BY DEF ChainInv, ServerTypes
<1>3. /\ w' = [w EXCEPT ![r] = CapWrite(CapHeader(w[r], s))]
      /\ late' = [late EXCEPT ![r] = late[r] \/ w[r].met # Unset]
  BY DEF Reply
<1>4. interim[r] \in BOOLEAN /\ interim' = [interim EXCEPT ![r] = interim[r]]
  BY DEF ChainInv, ServerTypes
<1> QED
  BY <1>1, <1>2, <1>3, <1>4, Working DEF Goto

\* A handler's body, and that of an engine.
LEMMA WriteStep ==
    ASSUME ChainInv, NEW r \in Requests, stage[r] = "in",
           w' = [w EXCEPT ![r] = CapWrite(@)],
           UNCHANGED <<cfg, stage, late, interim, rec>>
    PROVE  ChainInv'
<1>1. /\ CapWrite(w[r]) \in Writers
      /\ ~interim[r] => InStep(CapWrite(w[r]), late[r], cfg.capture)
  BY AfterWrite
<1>2. /\ interim[r] \in BOOLEAN /\ interim' = [interim EXCEPT ![r] = interim[r]]
      /\ late[r] \in BOOLEAN /\ late' = [late EXCEPT ![r] = late[r]]
      /\ stage' = [stage EXCEPT ![r] = "in"]
  BY DEF ChainInv, ServerTypes
<1> QED
  BY <1>1, <1>2, Working

\* A step that leaves the writers alone.
LEMMA PassStep ==
    ASSUME ChainInv, NEW r \in Requests, stage[r] # "done",
           NEW t \in {"new", "in", "returned"}, Goto(r, t),
           UNCHANGED <<cfg, w, late, interim, rec>>
    PROVE  ChainInv'
<1>1. /\ interim[r] \in BOOLEAN /\ interim' = [interim EXCEPT ![r] = interim[r]]
      /\ late[r] \in BOOLEAN /\ late' = [late EXCEPT ![r] = late[r]]
      /\ w[r] \in Writers /\ w' = [w EXCEPT ![r] = w[r]]
  BY DEF ChainInv, ServerTypes
<1>2. ~interim[r] => InStep(w[r], late[r], cfg.capture)
  BY DEF ChainInv, Agreement
<1> QED
  BY <1>1, <1>2, Working DEF Goto

\* The global limiter turns a request away, and nothing is put on record.
LEMMA RateLimitedStep ==
    ASSUME ChainInv, NEW r \in Requests, RateLimited(r)
    PROVE  ChainInv'
<1> DEFINE x == NetWrite(NetHeader(w[r], 429))
<1>1. w[r] \in Writers /\ rec[r] \in Records /\ stage[r] # "done"
  BY DEF ChainInv, ServerTypes, RateLimited
<1>2. x \in Writers
  BY <1>1, SMTT(30) DEF NetWrite, NetHeader, IsInterim, Writers, Final, Unset
<1>3. rec[r].met = Unset
  BY <1>1 DEF ChainInv, Unrecorded, NoRecord
<1>4. /\ w' = [w EXCEPT ![r] = x] /\ rec' = [rec EXCEPT ![r] = rec[r]]
      /\ stage' = [stage EXCEPT ![r] = "done"]
      /\ UNCHANGED <<cfg, late, interim>>
  BY DEF RateLimited, Goto, ChainInv, ServerTypes
<1> HIDE DEF x
<1> QED
  BY <1>1, <1>2, <1>3, <1>4, Ending

\* Recover answers for a handler that panicked.
LEMMA PanicStep ==
    ASSUME ChainInv, NEW r \in Requests, Panics(r)
    PROVE  ChainInv'
<1> DEFINE x == NetWrite(NetHeader(w[r], 500))
<1> DEFINE y == [rec[r] EXCEPT !.panic = TRUE]
<1>1. w[r] \in Writers /\ rec[r] \in Records /\ stage[r] # "done"
  BY DEF ChainInv, ServerTypes, Panics, At
<1>2. x \in Writers
  BY <1>1 DEF NetWrite, NetHeader, IsInterim, Writers, Final, Unset
<1>3. rec[r] = NoRecord
  BY <1>1 DEF ChainInv, Unrecorded
<1>4. y \in Records /\ y.met = Unset
  <2>1. rec[r].met = Unset
    BY <1>3 DEF NoRecord
  <2>2. y \in Records /\ y.met = rec[r].met
    BY <1>1 DEF Records
  <2> QED
    BY <2>1, <2>2
<1>5. /\ w' = [w EXCEPT ![r] = x] /\ rec' = [rec EXCEPT ![r] = y]
      /\ stage' = [stage EXCEPT ![r] = "done"]
      /\ UNCHANGED <<cfg, late, interim>>
  BY DEF Panics, Goto
<1> HIDE DEF x, y
<1> QED
  BY <1>1, <1>2, <1>4, <1>5, Ending

\* The observing layers put on record what they have seen.
LEMMA UnwindStep ==
    ASSUME ChainInv, NEW r \in Requests, Unwind(r)
    PROVE  ChainInv'
<1> DEFINE x == NetWrite(w[r])
<1> DEFINE y == [rec[r] EXCEPT !.cap = w[r].cap, !.met = Status(w[r].met),
                    !.log = IF in[r].route \in cfg.muted THEN Unset ELSE Status(w[r].acc)]
<1>1. w[r] \in Writers /\ rec[r] \in Records /\ stage[r] # "done"
  BY DEF ChainInv, ServerTypes, Unwind
<1>2. x \in Writers /\ x.wire = Status(w[r].wire)
  BY <1>1 DEF NetWrite, NetHeader, IsInterim, Writers, Final, Unset, Status
<1>3. Status(w[r].met) \in Codes /\ Status(w[r].acc) \in Codes /\ w[r].cap \in Some
  <2>1. w[r].met \in Some /\ w[r].acc \in Some /\ w[r].cap \in Some
    BY ONLY <1>1 DEF Writers
  <2>2. 200 \in Codes
    BY DEF Codes
  <2> QED
    BY ONLY <2>1, <2>2, Zenon DEF Status, Some
<1>4. /\ y \in Records
      /\ y.met = Status(w[r].met) /\ y.cap = w[r].cap
      /\ y.log \in {Unset, Status(w[r].acc)}
  <2>1. y \in Records
    <3> DEFINE g == IF in[r].route \in cfg.muted THEN Unset ELSE Status(w[r].acc)
    <3>1. g \in Some /\ Status(w[r].met) \in Some
      <4>1. g \in {Unset, Status(w[r].acc)}
        BY ONLY Zenon DEF g
      <4> QED
        BY ONLY <1>3, <4>1, Zenon DEF Some
    <3> HIDE DEF g
    <3>2. [rec[r] EXCEPT !.cap = w[r].cap, !.met = Status(w[r].met), !.log = g] \in Records
      BY <1>1, <1>3, <3>1 DEF Records
    <3> QED
      BY <3>2 DEF g
  <2>2. /\ y.met = Status(w[r].met) /\ y.cap = w[r].cap
        /\ y.log \in {Unset, Status(w[r].acc)}
    BY <1>1 DEF Records
  <2> QED
    BY <2>1, <2>2
<1>5. /\ w' = [w EXCEPT ![r] = x] /\ rec' = [rec EXCEPT ![r] = y]
      /\ stage' = [stage EXCEPT ![r] = "done"]
      /\ UNCHANGED <<cfg, late, interim>>
  BY DEF Unwind, Goto
<1>6. ASSUME ~interim[r]
      PROVE  /\ y.met = x.wire
             /\ y.log # Unset => y.log = x.wire
             /\ y.cap # Unset /\ ~late[r] => y.cap = x.wire
  <2>1. InStep(w[r], late[r], cfg.capture)
    BY <1>1, <1>6 DEF ChainInv, Agreement
  <2> HIDE DEF x, y
  <2> QED
    BY <1>2, <1>4, <2>1 DEF InStep, Status
<1> HIDE DEF x, y
<1> QED
  BY <1>1, <1>2, <1>4, <1>5, <1>6, Ending

\* An interim response goes through a mount.
LEMMA InterimStep ==
    ASSUME ChainInv, NEW r \in Requests, PassInterim(r)
    PROVE  ChainInv'
<1> DEFINE x == CapHeader(w[r], 103)
<1>1. w[r] \in Writers /\ stage[r] = "in" /\ late[r] \in BOOLEAN
  BY DEF ChainInv, ServerTypes, PassInterim, At
<1>2. x \in Writers
  <2>1. PICK s \in Codes : s = 103
    BY DEF Codes
  <2>2. CapHeader(w[r], s) \in Writers
    BY <1>1, CapHeaderIs
  <2> QED
    BY <2>1, <2>2
<1>3. /\ w' = [w EXCEPT ![r] = x]
      /\ late' = [late EXCEPT ![r] = late[r] \/ w[r].met # Unset]
      /\ interim' = [interim EXCEPT ![r] = TRUE]
      /\ stage' = [stage EXCEPT ![r] = "in"]
      /\ UNCHANGED <<cfg, rec>>
  BY <1>1 DEF PassInterim, WriteHeader, ChainInv, ServerTypes
<1>4. (late[r] \/ w[r].met # Unset) \in BOOLEAN
  BY <1>1
<1> HIDE DEF x
<1> QED
  BY <1>1, <1>2, <1>3, <1>4, Working

\* Requests arrive at writers that are in step, with nothing on record.
LEMMA ChainInit == Init => ChainInv
<1> SUFFICES ASSUME Init PROVE ChainInv
  OBVIOUS
<1>1. ServerTypes
  BY ServerAssumption DEF Init, ServerTypes, Writers, Records, Some, Unset
<1>2. Agreement /\ Unrecorded
  BY DEF Init, Agreement, Unrecorded, InStep, NoRecord
<1>3. LogTellsTruth
  BY DEF Init, LogTellsTruth, Unset
<1> QED
  BY <1>1, <1>2, <1>3 DEF ChainInv

\* The 4xx answers of the chain are final statuses.
LEMMA RefusalIs ==
    ASSUME NEW r \in Requests, Refusal(r) # Unset
    PROVE  Refusal(r) \in Codes /\ Refusal(r) >= 200
  BY DEF Refusal, Unset, Codes

\* Every step keeps the records true.
LEMMA ChainStep ==
    ASSUME ChainInv, [Next]_vars
    PROVE  ChainInv'
<1>1. ASSUME NEW r \in Requests, Enter(r)
      PROVE  ChainInv'
  BY <1>1, PassStep DEF Enter
<1>2. ASSUME NEW r \in Requests, Refuse(r)
      PROVE  ChainInv'
  <2>1. Refusal(r) \in Codes /\ Refusal(r) >= 200
    BY <1>2, RefusalIs DEF Refuse
  <2>2. /\ stage[r] = "in" /\ Reply(r, Refusal(r)) /\ Goto(r, "returned")
        /\ UNCHANGED <<cfg, interim, rec>>
    BY <1>2 DEF Refuse
  <2> QED
    BY ONLY ChainInv, r \in Requests, <2>1, <2>2, ReplyStep
<1>3. ASSUME NEW r \in Requests, Liveness(r)
      PROVE  ChainInv'
  <2>1. PICK s \in Codes : s = 200 /\ s >= 200
    BY DEF Codes
  <2>2. /\ stage[r] = "in" /\ Reply(r, s) /\ Goto(r, "returned")
        /\ UNCHANGED <<cfg, interim, rec>>
    BY <1>3, <2>1 DEF Liveness, At
  <2> QED
    BY ONLY ChainInv, r \in Requests, <2>1, <2>2, ReplyStep
<1>4. ASSUME NEW r \in Requests, AnswerReadiness(r)
      PROVE  ChainInv'
  <2>1. PICK s \in Codes : s = Overall /\ s >= 200
    BY DEF Overall, Codes
  <2>2. /\ stage[r] = "in" /\ Reply(r, s) /\ Goto(r, "returned")
        /\ UNCHANGED <<cfg, interim, rec>>
    BY <1>4, <2>1 DEF AnswerReadiness, At
  <2> QED
    BY ONLY ChainInv, r \in Requests, <2>1, <2>2, ReplyStep
<1>5. ASSUME NEW r \in Requests, NEW s \in Statuses, HandlerHeader(r, s) \/ PassHeader(r, s)
      PROVE  ChainInv'
  <2>1. s \in Codes /\ s >= 200
    BY ServerAssumption DEF Codes
  <2>2. /\ stage[r] = "in" /\ WriteHeader(r, s)
        /\ UNCHANGED <<cfg, stage, interim, rec>>
    BY <1>5 DEF HandlerHeader, PassHeader, At
  <2>3. stage' = [stage EXCEPT ![r] = "in"]
    BY <2>2 DEF ChainInv, ServerTypes
  <2> QED
    BY ONLY ChainInv, r \in Requests, <2>1, <2>2, <2>3, HeaderStep
<1>6. ASSUME NEW r \in Requests, HandlerWrites(r) \/ PassWrites(r)
      PROVE  ChainInv'
  BY <1>6, WriteStep DEF HandlerWrites, PassWrites, At
<1>7. ASSUME NEW r \in Requests, HandlerReturns(r) \/ PassReturns(r)
      PROVE  ChainInv'
  BY <1>7, PassStep DEF HandlerReturns, PassReturns, At
<1>8. ASSUME NEW r \in Requests, PassFails(r)
      PROVE  ChainInv'
  <2>1. PICK s \in Codes : s = 502 /\ s >= 200
    BY DEF Codes
  <2>2. /\ stage[r] = "in" /\ WriteHeader(r, s) /\ stage' = [stage EXCEPT ![r] = "returned"]
        /\ UNCHANGED <<cfg, interim, rec>>
    BY <1>8, <2>1 DEF PassFails, At, Goto
  <2> QED
    BY ONLY ChainInv, r \in Requests, <2>1, <2>2, HeaderStep, ZenonT(60)
<1>9. CASE UNCHANGED <<cfg, stage, w, late, interim, rec>>
  BY <1>9 DEF ChainInv, ServerTypes, Agreement, Unrecorded, LogTellsTruth
<1>10. ASSUME NEW r \in Requests,
              TimeoutFires(r) \/ ClientStalls(r) \/ ClientMoves(r) \/ ConnectionDeadline(r)
       PROVE  ChainInv'
  BY <1>9, <1>10 DEF TimeoutFires, ClientStalls, ClientMoves, ConnectionDeadline, requestVars
<1>11. CASE Refill \/ Probes \/ UNCHANGED vars
  BY <1>9, <1>11 DEF Refill, Probes, vars, requestVars
<1> QED
  BY <1>1, <1>2, <1>3, <1>4, <1>5, <1>6, <1>7, <1>8, <1>10, <1>11,
     RateLimitedStep, PanicStep, UnwindStep, InterimStep
     DEF Next, Done

\* The records of the chain are kept true.
LEMMA ChainInvariant == Spec => []ChainInv
<1>1. ChainInv /\ [Next]_vars => ChainInv'
  BY ChainStep
<1> QED
  BY <1>1, ChainInit, PTL DEF Spec

\* What AccessLog, Metrics and FullCapture put on record is what the client was
\* sent, whatever a handler writes and in whatever order.
THEOREM RecordsAreTrue == Spec => []LogTellsTruth
<1>1. ChainInv => LogTellsTruth
  BY DEF ChainInv
<1> QED
  BY <1>1, ChainInvariant, PTL

-----------------------------------------------------------------------------
(* Readiness *)

ReadyTypes ==
    /\ cond \in [ProbeNames -> {"up", "down", "hang"}]
    /\ required \subseteq ProbeNames
    /\ limit \in Nat
    /\ probe \in [ProbeNames -> {"queued", "running", "ok", "unhealthy", "throttled"}]
    /\ ctx \in {"live", "timeout", "left"}

\* A probe is good only of an engine that is up, and when the timeout strikes a
\* group that holds all probes only engines that hang are still running.
ProbesSound ==
    /\ \A n \in ProbeNames : probe[n] = "ok" => cond[n] = "up"
    /\ ctx = "timeout" /\ limit >= Len(ProbeOrder) =>
          \A n \in ProbeNames :
              probe[n] # "queued" /\ (probe[n] = "running" => cond[n] = "hang")

\* Interim responses come from mounts, and readiness has answered when it
\* returns.
ReadyAnswers ==
    \A r \in Requests :
        /\ interim[r] => in[r].route = "pass"
        /\ in[r].route = "readyz" /\ stage[r] = "returned" => w[r].wire # Unset

ReadyInv == ReadyTypes /\ ProbesSound /\ ReadyAnswers /\ ReadinessTellsTruth

\* A set of numbers has a smallest one.
LEMMA SmallestNat ==
    ASSUME NEW T, T \subseteq Nat, T # {}
    PROVE  \E x \in T : \A y \in T : x <= y
<1>1. PICK x \in T : \A y \in T : <<y, x>> \notin OpToRel(<, Nat)
  BY NatLessThanWellFounded, WFMin
<1>2. ASSUME NEW y \in T
      PROVE  x <= y
  <2>1. <<y, x>> \notin OpToRel(<, Nat)
    BY <1>1
  <2>2. <<y, x>> \in Nat \X Nat
    OBVIOUS
  <2>3. ~(y < x)
    BY <2>1, <2>2 DEF OpToRel
  <2> QED
    BY <2>3
<1> QED
  BY <1>2

\* There are no more names than entries of the order.
LEMMA ProbeCount == IsFiniteSet(ProbeNames) /\ Cardinality(ProbeNames) <= Len(ProbeOrder)
<1>1. /\ Len(ProbeOrder) \in Nat /\ DOMAIN ProbeOrder = 1..Len(ProbeOrder)
      /\ ProbeOrder \in [1..Len(ProbeOrder) -> ProbeNames]
  BY ReadinessAssumption
<1>2. ProbeOrder \in Surjection(1..Len(ProbeOrder), ProbeNames)
  BY <1>1 DEF Surjection, ProbeNames
<1>3. IsFiniteSet(1..Len(ProbeOrder)) /\ Cardinality(1..Len(ProbeOrder)) = Len(ProbeOrder)
  BY <1>1, FS_Interval, SMTT(30)
<1> QED
  BY <1>2, <1>3, FS_Surjection

\* In a group that is wide enough no probe waits when the timeout strikes.
LEMMA NoneQueued ==
    ASSUME ReadyTypes, Expire, limit >= Len(ProbeOrder), NEW n \in ProbeNames
    PROVE  probe[n] # "queued"
<1> SUFFICES ASSUME probe[n] = "queued" PROVE FALSE
  OBVIOUS
<1> DEFINE Q == {i \in DOMAIN ProbeOrder : probe[ProbeOrder[i]] = "queued"}
<1>1. /\ Len(ProbeOrder) \in Nat /\ DOMAIN ProbeOrder = 1..Len(ProbeOrder)
  BY ReadinessAssumption
<1>2. Q \subseteq Nat /\ Q # {}
  BY <1>1 DEF ProbeNames
<1>3. PICK i \in Q : \A j \in Q : i <= j
  BY <1>2, SmallestNat
<1>4. \A j \in 1..(i - 1) : probe[ProbeOrder[j]] # "queued"
  BY <1>1, <1>3
<1>5. ~(Cardinality(Running) < limit)
  BY <1>3, <1>4 DEF Expire, CanStart
<1>6. Running \in SUBSET (ProbeNames \ {n})
  BY DEF Running
<1>7. /\ IsFiniteSet(ProbeNames \ {n})
      /\ Cardinality(ProbeNames \ {n}) = Cardinality(ProbeNames) - 1
  BY ProbeCount, FS_RemoveElement
<1>8. Cardinality(Running) <= Cardinality(ProbeNames) - 1 /\ Cardinality(Running) \in Nat
  BY <1>6, <1>7, FS_Subset, FS_CardinalityType
<1>9. Cardinality(ProbeNames) \in Nat /\ limit \in Nat
  BY ProbeCount, FS_CardinalityType DEF ReadyTypes
<1> QED
  BY <1>1, <1>5, <1>8, <1>9, ProbeCount

\* Nothing is said before the group has begun.
LEMMA ReadyInit == Init => ReadyInv
<1> SUFFICES ASSUME Init PROVE ReadyInv
  OBVIOUS
<1>1. ReadyTypes
  BY ReadinessAssumption DEF Init, InitReadiness, ReadyTypes
<1>2. ProbesSound
  BY DEF Init, InitReadiness, ProbesSound
<1>3. ReadyAnswers
  BY DEF Init, ReadyAnswers
<1>4. ReadyMeansUp
  BY DEF Init, ReadyMeansUp, Unset
<1>5. HealthyIsReported
  BY DEF Init, InitReadiness, HealthyIsReported
<1> QED
  BY <1>1, <1>2, <1>3, <1>4, <1>5 DEF ReadyInv, ReadinessTellsTruth

\* The steps of the group.
LEMMA GroupStep ==
    ASSUME ReadyInv, Probes
    PROVE  ReadyInv'
<1> USE DEF ReadyInv
<1>0. UNCHANGED <<in, stage, w, interim, cond, required, limit>>
  BY DEF Probes, requestVars, ReadinessStep, StartProbe, ProbeOk, ProbeFails, ProbeThrottled,
         Expire, ClientLeaves
<1>1. ReadyAnswers' /\ ReadyMeansUp'
  BY <1>0 DEF ReadyAnswers, ReadinessTellsTruth, ReadyMeansUp
<1>2. ASSUME NEW i \in DOMAIN ProbeOrder, StartProbe(i)
      PROVE  ReadyTypes' /\ ProbesSound' /\ HealthyIsReported'
  <2>1. ProbeOrder[i] \in ProbeNames
    BY DEF ProbeNames
  <2>2. probe[ProbeOrder[i]] = "queued" /\ probe' = [probe EXCEPT ![ProbeOrder[i]] = "running"]
        /\ UNCHANGED ctx
    BY <1>2 DEF StartProbe, CanStart
  <2> QED
    BY <1>0, <2>1, <2>2 DEF ReadyTypes, ProbesSound, ReadinessTellsTruth, HealthyIsReported
<1>3. ASSUME NEW n \in ProbeNames, ProbeOk(n)
      PROVE  ReadyTypes' /\ ProbesSound' /\ HealthyIsReported'
  BY <1>0, <1>3 DEF ProbeOk, ReadyTypes, ProbesSound, ReadinessTellsTruth, HealthyIsReported
<1>4. ASSUME NEW n \in ProbeNames, ProbeFails(n)
      PROVE  ReadyTypes' /\ ProbesSound' /\ HealthyIsReported'
  BY <1>0, <1>4 DEF ProbeFails, ReadyTypes, ProbesSound, ReadinessTellsTruth, HealthyIsReported
<1>5. ASSUME NEW n \in ProbeNames, ProbeThrottled(n)
      PROVE  ReadyTypes' /\ ProbesSound' /\ HealthyIsReported'
  BY <1>0, <1>5 DEF ProbeThrottled, ReadyTypes, ProbesSound, ReadinessTellsTruth, HealthyIsReported
<1>6. CASE Expire
  <2>1. UNCHANGED probe /\ ctx = "live" /\ ctx' = "timeout"
    BY <1>6 DEF Expire
  <2>2. \A n \in ProbeNames : probe[n] = "running" => cond[n] = "hang"
    BY <1>6 DEF Expire, Running
  <2>3. ProbesSound'
    BY <1>0, <1>6, <2>1, <2>2, NoneQueued DEF ProbesSound
  <2> QED
    BY <1>0, <1>1, <2>1, <2>3 DEF ReadyTypes, ReadinessTellsTruth, HealthyIsReported
<1>7. CASE ClientLeaves
  BY <1>0, <1>1, <1>7
     DEF ClientLeaves, ReadyTypes, ProbesSound, ReadinessTellsTruth, HealthyIsReported
<1> QED
  BY <1>0, <1>1, <1>2, <1>3, <1>4, <1>5, <1>6, <1>7
     DEF Probes, ReadinessStep, ReadyTypes, ProbesSound, HealthyIsReported, ReadinessTellsTruth

\* A step of one request, which has not said "ready" unless that is true.
LEMMA AnswerStep ==
    ASSUME ServerTypes, ReadyInv, NEW r \in Requests,
           UNCHANGED <<in, cond, required, limit, probe, ctx>>,
           NEW t, stage' = [stage EXCEPT ![r] = t],
           NEW x, w' = [w EXCEPT ![r] = x],
           NEW i \in BOOLEAN, interim' = [interim EXCEPT ![r] = i], i => in[r].route = "pass",
           in[r].route = "readyz" /\ x.wire = 200 => \A n \in required : cond[n] = "up",
           in[r].route = "readyz" /\ t = "returned" => x.wire # Unset
    PROVE  ReadyInv'
<1>1. ReadyTypes' /\ ProbesSound' /\ HealthyIsReported'
  BY DEF ReadyInv, ReadyTypes, ProbesSound, HealthyIsReported, ReadinessTellsTruth
<1>2. ReadyAnswers'
  BY DEF ReadyInv, ReadyAnswers, ServerTypes
<1>3. ReadyMeansUp'
  BY DEF ReadyInv, ReadinessTellsTruth, ReadyMeansUp, ServerTypes
<1> QED
  BY <1>1, <1>2, <1>3 DEF ReadyInv, ReadinessTellsTruth

\* A request for anything else, or one that leaves the wire alone.
LEMMA ElsewhereStep ==
    ASSUME ServerTypes, ReadyInv, NEW r \in Requests,
           UNCHANGED <<in, cond, required, limit, probe, ctx>>,
           NEW t, stage' = [stage EXCEPT ![r] = t],
           NEW x, w' = [w EXCEPT ![r] = x],
           \/ UNCHANGED interim
           \/ interim' = [interim EXCEPT ![r] = TRUE] /\ in[r].route = "pass",
           \/ in[r].route # "readyz"
           \/ x.wire = w[r].wire /\ t # "returned"
    PROVE  ReadyInv'
<1>1. in[r].route = "readyz" /\ x.wire = 200 => \A n \in required : cond[n] = "up"
  BY DEF ReadyInv, ReadinessTellsTruth, ReadyMeansUp
<1>2. interim[r] => in[r].route = "pass"
  BY DEF ReadyInv, ReadyAnswers
<1>3. \E i \in BOOLEAN : interim' = [interim EXCEPT ![r] = i] /\ (i => in[r].route = "pass")
  <2>1. interim = [interim EXCEPT ![r] = interim[r]]
    BY DEF ServerTypes
  <2>2. PICK i \in BOOLEAN : i = interim[r]
    BY DEF ServerTypes
  <2>3. interim = [interim EXCEPT ![r] = i] /\ (i => in[r].route = "pass")
    BY <1>2, <2>1, <2>2
  <2>4. CASE UNCHANGED interim
    BY <2>3, <2>4
  <2>5. CASE interim' = [interim EXCEPT ![r] = TRUE] /\ in[r].route = "pass"
    <3>1. PICK j \in BOOLEAN : j = TRUE
      OBVIOUS
    <3>2. interim' = [interim EXCEPT ![r] = j]
      BY <2>5, <3>1
    <3> QED
      BY <2>5, <3>2
  <2> QED
    BY <2>4, <2>5
<1> QED
  BY <1>1, <1>3, AnswerStep

\* Every step keeps readiness true.
LEMMA ReadyStep ==
    ASSUME ChainInv, ReadyInv, [Next]_vars
    PROVE  ReadyInv'
<1>0. ServerTypes
  BY DEF ChainInv
<1>1. ASSUME NEW r \in Requests, RateLimited(r)
      PROVE  ReadyInv'
  <2> DEFINE x == NetWrite(NetHeader(w[r], 429))
  <2>1. w[r] \in Writers
    BY <1>0 DEF ServerTypes
  <2>2. x.wire = 200 => w[r].wire = 200
    BY <2>1 DEF NetWrite, NetHeader, IsInterim, Writers, Final, Unset
  <2>3. in[r].route = "readyz" /\ x.wire = 200 => \A n \in required : cond[n] = "up"
    BY <2>2 DEF ReadyInv, ReadinessTellsTruth, ReadyMeansUp
  <2>4. /\ w' = [w EXCEPT ![r] = x] /\ stage' = [stage EXCEPT ![r] = "done"]
        /\ UNCHANGED <<in, cond, required, limit, probe, ctx>>
        /\ interim' = [interim EXCEPT ![r] = interim[r]]
    BY <1>0, <1>1 DEF RateLimited, Goto, readyVars, ServerTypes
  <2>5. interim[r] => in[r].route = "pass"
    BY DEF ReadyInv, ReadyAnswers
  <2>6. PICK i \in BOOLEAN : i = interim[r]
    BY <1>0 DEF ServerTypes
  <2>7. PICK t : t = "done"
    OBVIOUS
  <2>8. interim' = [interim EXCEPT ![r] = i] /\ (i => in[r].route = "pass")
    BY <2>4, <2>5, <2>6
  <2>9. stage' = [stage EXCEPT ![r] = t] /\ t # "returned"
    BY <2>4, <2>7
  <2> HIDE DEF x
  <2> QED
    BY ONLY ReadyInv, r \in Requests, <1>0, <2>3, <2>4, <2>6, <2>8, <2>9, AnswerStep
<1>2. ASSUME NEW r \in Requests, Enter(r)
      PROVE  ReadyInv'
  <2>1. w' = [w EXCEPT ![r] = w[r]]
    BY <1>0, <1>2 DEF Enter, ServerTypes
  <2>2. UNCHANGED <<in, interim, cond, required, limit, probe, ctx>>
    BY <1>2 DEF Enter, BeginReadiness, readyVars
  <2>3. PICK t : t = "in"
    OBVIOUS
  <2>4. stage' = [stage EXCEPT ![r] = t] /\ t # "returned"
    BY <1>2, <2>3 DEF Enter, Goto
  <2>5. PICK x : x = w[r]
    OBVIOUS
  <2>6. w' = [w EXCEPT ![r] = x] /\ x.wire = w[r].wire
    BY <2>1, <2>5
  <2> QED
    BY ONLY ReadyInv, r \in Requests, <1>0, <2>2, <2>4, <2>6, ElsewhereStep
<1>3. ASSUME NEW r \in Requests, AnswerReadiness(r)
      PROVE  ReadyInv'
  <2>1. PICK s \in Codes : s = Overall /\ s >= 200
    BY DEF Overall, Codes
  <2>2. /\ w' = [w EXCEPT ![r] = CapWrite(CapHeader(w[r], s))]
        /\ stage' = [stage EXCEPT ![r] = "returned"]
        /\ UNCHANGED <<in, cond, required, limit, probe, ctx, interim>>
        /\ in[r].route = "readyz" /\ stage[r] = "in" /\ Decided
    BY <1>3, <2>1 DEF AnswerReadiness, Reply, Goto, readyVars, At
  <2>3. ~interim[r] /\ interim' = [interim EXCEPT ![r] = interim[r]]
    BY <1>0, <2>2 DEF ReadyInv, ReadyAnswers, ServerTypes
  <2>4. InStep(w[r], late[r], cfg.capture) /\ w[r] \in Writers /\ late[r] \in BOOLEAN
    BY <2>2, <2>3 DEF ChainInv, Agreement, ServerTypes
  <2>5. /\ CapHeader(w[r], s) \in Writers
        /\ CapHeader(w[r], s).wire = IF w[r].wire # Unset THEN w[r].wire ELSE s
    <3>1. PICK x \in Writers : x = w[r]
      BY <2>4
    <3>2. PICK l \in BOOLEAN : l = late[r]
      BY <2>4
    <3>3. InStep(x, l, cfg.capture)
      BY <2>4, <3>1, <3>2
    <3>4. CapHeader(x, s).wire = IF x.wire # Unset THEN x.wire ELSE s
      <4>1. s >= 200
        BY ONLY <2>1, Zenon
      <4> QED
        BY ONLY <3>3, <4>1, x \in Writers, l \in BOOLEAN, s \in Codes, HeaderInStep, ZenonT(60)
    <3>5. CapHeader(x, s) \in Writers
      BY ONLY x \in Writers, s \in Codes, CapHeaderIs
    <3> QED
      BY <3>1, <3>4, <3>5
  <2>6. CapWrite(CapHeader(w[r], s)).wire = IF w[r].wire # Unset THEN w[r].wire ELSE s
    <3>1. CapWrite(CapHeader(w[r], s)).wire =
            IF CapHeader(w[r], s).wire # Unset THEN CapHeader(w[r], s).wire ELSE 200
      BY <2>5, CapWriteIs
    <3>2. s # Unset
      BY DEF Unset, Codes
    <3> QED
      BY <2>5, <3>1, <3>2
  <2>7. s = 200 => \A n \in required : cond[n] = "up"
    <3>1. Overall = 200 => \A n \in Results : n \in required => probe[n] = "ok"
      BY DEF Overall
    <3> QED
      BY <2>1, <2>2, <3>1 DEF Decided, ReadyInv, ReadyTypes, ProbesSound
  <2>8. w[r].wire = 200 => \A n \in required : cond[n] = "up"
    BY <2>2 DEF ReadyInv, ReadinessTellsTruth, ReadyMeansUp
  <2>9. CapWrite(CapHeader(w[r], s)).wire # Unset
    BY <2>6 DEF Unset, Codes
  <2>10. PICK i \in BOOLEAN : i = interim[r]
    BY <1>0 DEF ServerTypes
  <2>11. interim' = [interim EXCEPT ![r] = i] /\ ~i
    BY <2>3, <2>10
  <2>12. PICK x : x = CapWrite(CapHeader(w[r], s))
    OBVIOUS
  <2>13. w' = [w EXCEPT ![r] = x] /\ x.wire # Unset
    BY <2>2, <2>9, <2>12
  <2>14. x.wire = 200 => \A n \in required : cond[n] = "up"
    BY <2>6, <2>7, <2>8, <2>12
  <2> QED
    BY ONLY ReadyInv, r \in Requests, <1>0, <2>2, <2>10, <2>11, <2>13, <2>14, AnswerStep, ZenonT(60)
<1>4. ASSUME NEW r \in Requests, Unwind(r)
      PROVE  ReadyInv'
  <2> DEFINE x == NetWrite(w[r])
  <2>1. w[r] \in Writers
    BY <1>0 DEF ServerTypes
  <2>2. w[r].wire # Unset => x.wire = w[r].wire
    BY <2>1 DEF NetWrite, NetHeader, Writers
  <2>3. in[r].route = "readyz" => w[r].wire # Unset
    BY <1>4 DEF Unwind, ReadyInv, ReadyAnswers
  <2>4. /\ w' = [w EXCEPT ![r] = x] /\ stage' = [stage EXCEPT ![r] = "done"]
        /\ UNCHANGED <<in, cond, required, limit, probe, ctx, interim>>
    BY <1>4 DEF Unwind, Goto, readyVars
  <2>5. PICK t : t = "done"
    OBVIOUS
  <2>6. stage' = [stage EXCEPT ![r] = t] /\ t # "returned"
    BY <2>4, <2>5
  <2>7. in[r].route # "readyz" \/ x.wire = w[r].wire
    BY <2>2, <2>3
  <2> HIDE DEF x
  <2> QED
    BY ONLY ReadyInv, r \in Requests, <1>0, <2>4, <2>6, <2>7, ElsewhereStep
<1>5. ASSUME NEW r \in Requests, Refuse(r) \/ Liveness(r)
      PROVE  ReadyInv'
  <2>1. in[r].route # "readyz"
    BY <1>5 DEF Refuse, Refusal, Liveness, At, Grouped
  <2> QED
    BY <1>0, <1>5, <2>1, ElsewhereStep DEF Refuse, Liveness, Reply, Goto, readyVars
<1>6. ASSUME NEW r \in Requests, NEW s \in Statuses, HandlerHeader(r, s) \/ PassHeader(r, s)
      PROVE  ReadyInv'
  <2>1. in[r].route # "readyz" /\ stage' = [stage EXCEPT ![r] = stage[r]]
    BY <1>0, <1>6 DEF HandlerHeader, PassHeader, At, ServerTypes
  <2> QED
    BY <1>0, <1>6, <2>1, ElsewhereStep DEF HandlerHeader, PassHeader, WriteHeader, readyVars
<1>7. ASSUME NEW r \in Requests, HandlerWrites(r) \/ PassWrites(r)
      PROVE  ReadyInv'
  <2>1. in[r].route # "readyz" /\ stage' = [stage EXCEPT ![r] = stage[r]]
    BY <1>0, <1>7 DEF HandlerWrites, PassWrites, At, ServerTypes
  <2> QED
    BY <1>0, <1>7, <2>1, ElsewhereStep DEF HandlerWrites, PassWrites, readyVars
<1>8. ASSUME NEW r \in Requests, HandlerReturns(r) \/ PassReturns(r)
      PROVE  ReadyInv'
  <2>1. in[r].route # "readyz" /\ w' = [w EXCEPT ![r] = w[r]]
    BY <1>0, <1>8 DEF HandlerReturns, PassReturns, At, ServerTypes
  <2> QED
    BY <1>0, <1>8, <2>1, ElsewhereStep DEF HandlerReturns, PassReturns, Goto, readyVars
<1>9. ASSUME NEW r \in Requests, PassInterim(r)
      PROVE  ReadyInv'
  <2>1. in[r].route = "pass" /\ stage' = [stage EXCEPT ![r] = stage[r]]
    BY <1>0, <1>9 DEF PassInterim, At, ServerTypes
  <2> QED
    BY <1>0, <1>9, <2>1, ElsewhereStep DEF PassInterim, WriteHeader, readyVars
<1>10. ASSUME NEW r \in Requests, PassFails(r) \/ Panics(r)
       PROVE  ReadyInv'
  <2>1. in[r].route # "readyz"
    BY <1>10 DEF PassFails, Panics, At
  <2> QED
    BY <1>0, <1>10, <2>1, ElsewhereStep DEF PassFails, Panics, WriteHeader, Goto, readyVars
<1>11. CASE UNCHANGED <<in, stage, w, interim, cond, required, limit, probe, ctx>>
  BY <1>11 DEF ReadyInv, ReadyTypes, ProbesSound, ReadyAnswers, ReadinessTellsTruth,
               ReadyMeansUp, HealthyIsReported
<1>12. ASSUME NEW r \in Requests,
              TimeoutFires(r) \/ ClientStalls(r) \/ ClientMoves(r) \/ ConnectionDeadline(r)
       PROVE  ReadyInv'
  BY <1>11, <1>12
     DEF TimeoutFires, ClientStalls, ClientMoves, ConnectionDeadline, requestVars, readyVars
<1>13. CASE Refill \/ UNCHANGED vars
  BY <1>11, <1>13 DEF Refill, vars, requestVars, readyVars
<1> QED
  BY <1>1, <1>2, <1>3, <1>4, <1>5, <1>6, <1>7, <1>8, <1>9, <1>10, <1>12, <1>13, GroupStep
     DEF Next, Done

\* /readyz answers 200 only when every required engine and Redis are up, and in a
\* group that is wide enough no engine that is up is reported as unhealthy
\* because another one hangs or fails; only its own rate limiter may do that.
THEOREM ReadinessIsTrue == Spec => []ReadinessTellsTruth
<1>1. ChainInv /\ ReadyInv /\ [Next]_vars => ReadyInv'
  BY ReadyStep
<1>2. ReadyInv => ReadinessTellsTruth
  BY DEF ReadyInv
<1> QED
  BY <1>1, <1>2, ReadyInit, ChainInvariant, PTL DEF Spec

=============================================================================
