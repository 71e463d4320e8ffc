------------------------ MODULE AppLifecycle_proofs ------------------------
(***************************************************************************)
(* Proofs about AppLifecycle, for any configurations, requests, grace      *)
(* period and drain time: the error channel never blocks a sender, no      *)
(* request is cut off before the grace period is over, the exit code tells *)
(* what happened, and the store is not closed under a task.                *)
(***************************************************************************)
EXTENDS AppLifecycle, TLAPS

Bit(b) == IF b THEN 1 ELSE 0

\* Each of the two goroutines still has at most one error to send.
Room ==
    /\ errs \in Nat
    /\ errs + Bit(srv \in {"pending", "listening"}) + Bit(wk = "pending") <= 2

\* Nothing runs before Build is done.
Quiet ==
    phase \in {"start", "loaded", "opened"} =>
        /\ srv = "off" /\ wk = "off" /\ job = "idle" /\ errs = 0
        /\ phase = "opened" /\ conf.tasks => orch = "open"
        /\ \A r \in Requests : req[r] = "none"

\* Requests are cut off by the end of the process, which leaves none active.
Ends ==
    /\ \A r \in Requests : req[r] = "cut" => phase = "exited" /\ now >= Deadline
    /\ phase = "exited" => \A r \in Requests : req[r] # "active"

\* Until the store is closed, a worker has one; shutdown waits for a task it
\* has found.
Holds ==
    /\ phase \in {"running", "worker", "drain-worker"} /\ wk # "off" => orch = "open"
    /\ wk = "draining" => phase = "drain-worker"
    /\ job = "working" =>
          \/ late
          \/ wk = "running" /\ phase \in {"running", "worker"}
          \/ wk = "draining" /\ phase = "drain-worker"
    /\ TasksKeepStore

Inv == TypeOK /\ Room /\ Quiet /\ Ends /\ ExitTells /\ Holds

-----------------------------------------------------------------------------
\* The process starts within the invariant.
LEMMA InvInit == Init => Inv
  BY LifecycleAssumption
     DEF Init, Inv, TypeOK, Room, Bit, Quiet, Ends, ExitTells, Holds, TasksKeepStore, NotYet

\* Types hold, and a sender finds room.
LEMMA TypeStep ==
    ASSUME Inv, [Next]_vars
    PROVE  TypeOK' /\ Room'
<1> USE LifecycleAssumption DEF NotYet, Bit
<1>0. TypeOK /\ Room
  BY DEF Inv
<1>1. CASE Load
  BY <1>0, <1>1 DEF Load, Exit, TypeOK, Room, Stopping, Draining
<1>2. CASE Build
  <2>1. srv = "off" /\ wk = "off" /\ errs = 0
    BY <1>2 DEF Build, Inv, Quiet
  <2>2. srv' \in {"off", "pending"} /\ wk' \in {"off", "pending"} /\ errs' = 0
    BY <1>2, <2>1 DEF Build
  <2>3. Room'
    BY <2>2 DEF Room
  <2> QED
    BY <1>0, <1>2, <2>2, <2>3 DEF Build, Exit, TypeOK, Stopping, Draining
<1>3. CASE Select
  BY <1>0, <1>3 DEF Select, TypeOK, Room, Stopping, Draining
<1>4. CASE StopWorker \/ WorkerStopped
  BY <1>0, <1>4 DEF StopWorker, WorkerStopped, TypeOK, Room, Stopping, Draining
<1>5. CASE CloseStore \/ StopTracing
  BY <1>0, <1>5 DEF CloseStore, StopTracing, TypeOK, Room, Stopping, Draining
<1>6. CASE StopServer
  BY <1>0, <1>6 DEF StopServer, TypeOK, Room, Stopping, Draining
<1>7. CASE StillBusy \/ ServerDrained \/ GraceOver
  BY <1>0, <1>7 DEF StillBusy, ServerDrained, GraceOver, CutAll, Exit, TypeOK, Room, Stopping, Draining
<1>8. CASE Signal
  BY <1>0, <1>8 DEF Signal, TypeOK, Room, mainVars
<1>9. CASE Listen \/ ServeFails
  BY <1>0, <1>9 DEF Listen, ServeFails, TypeOK, Room, Draining, mainVars
<1>10. ASSUME NEW r \in Requests, Connect(r) \/ Arrive(r) \/ Answer(r) PROVE TypeOK' /\ Room'
  BY <1>0, <1>10 DEF Connect, Arrive, Answer, TypeOK, Room, mainVars
<1>11. CASE WorkerStarts \/ WorkerFails
  BY <1>0, <1>11 DEF WorkerStarts, WorkerFails, TypeOK, Room, mainVars
<1>12. CASE TakeTask \/ SaveTask
  BY <1>0, <1>12 DEF TakeTask, SaveTask, TypeOK, Room, mainVars
<1>13. CASE Tick
  BY <1>0, <1>13 DEF Tick, TypeOK, Room, mainVars
<1>14. CASE UNCHANGED vars
  BY <1>0, <1>14 DEF vars, TypeOK, Room
<1>15. CASE OpenStore
  BY <1>0, <1>15 DEF OpenStore, Exit, TypeOK, Room, Stopping, Draining
<1> QED
  BY <1>1, <1>2, <1>3, <1>4, <1>5, <1>6, <1>7, <1>8, <1>9, <1>10, <1>11, <1>12, <1>13, <1>14, <1>15
     DEF Next, Prompt

\* What has ended stays ended, and was not ended early.
LEMMA EndStep ==
    ASSUME Inv, [Next]_vars
    PROVE  Quiet' /\ Ends' /\ ExitTells'
<1> USE DEF NotYet, Deadline, conf
<1>0. TypeOK /\ Quiet /\ Ends /\ ExitTells
  BY DEF Inv
<1>1. CASE Load
  BY <1>0, <1>1 DEF Load, Exit, TypeOK, Quiet, Ends, ExitTells
<1>2. CASE Build
  BY <1>0, <1>2 DEF Build, Exit, TypeOK, Quiet, Ends, ExitTells
<1>3. CASE Select
  BY <1>0, <1>3 DEF Select, TypeOK, Quiet, Ends, ExitTells
<1>4. CASE StopWorker \/ WorkerStopped
  BY <1>0, <1>4 DEF StopWorker, WorkerStopped, TypeOK, Quiet, Ends, ExitTells
<1>5. CASE CloseStore \/ StopTracing
  BY <1>0, <1>5 DEF CloseStore, StopTracing, TypeOK, Quiet, Ends, ExitTells
<1>6. CASE StopServer
  BY <1>0, <1>6 DEF StopServer, TypeOK, Quiet, Ends, ExitTells
<1>7. CASE StillBusy \/ ServerDrained
  BY <1>0, <1>7 DEF StillBusy, ServerDrained, Draining, Active, Exit, TypeOK, Quiet, Ends, ExitTells
<1>8. CASE GraceOver
  BY <1>0, <1>8 DEF GraceOver, CutAll, Exit, TypeOK, Quiet, Ends, ExitTells
<1>9. CASE Signal
  BY <1>0, <1>9 DEF Signal, Quiet, Ends, ExitTells, mainVars
<1>10. CASE Listen \/ ServeFails
  BY <1>0, <1>10 DEF Listen, ServeFails, TypeOK, Quiet, Ends, ExitTells, mainVars
<1>11. ASSUME NEW r \in Requests, Connect(r) \/ Arrive(r) \/ Answer(r)
       PROVE  Quiet' /\ Ends' /\ ExitTells'
  BY <1>0, <1>11 DEF Connect, Arrive, Answer, TypeOK, Quiet, Ends, ExitTells, mainVars
<1>12. CASE WorkerStarts \/ WorkerFails
  BY <1>0, <1>12 DEF WorkerStarts, WorkerFails, TypeOK, Quiet, Ends, ExitTells, mainVars
<1>13. CASE TakeTask \/ SaveTask
  BY <1>0, <1>13 DEF TakeTask, SaveTask, TypeOK, Quiet, Ends, ExitTells, mainVars
<1>14. CASE Tick
  BY <1>0, <1>14 DEF Tick, TypeOK, Quiet, Ends, ExitTells, mainVars
<1>15. CASE UNCHANGED vars
  BY <1>0, <1>15 DEF vars, Quiet, Ends, ExitTells
<1>16. CASE OpenStore
  BY <1>0, <1>16 DEF OpenStore, Exit, TypeOK, Quiet, Ends, ExitTells
<1> QED
  BY <1>1, <1>2, <1>3, <1>4, <1>5, <1>6, <1>7, <1>8, <1>9, <1>10, <1>11, <1>12, <1>13, <1>14, <1>15,
     <1>16
     DEF Next, Prompt

\* A task keeps its store, unless it was taken behind the shutdown.
LEMMA HoldsStep ==
    ASSUME Inv, [Next]_vars
    PROVE  Holds'
<1>0. TypeOK /\ Quiet /\ Holds
  BY DEF Inv
<1> USE DEF Holds, TasksKeepStore
<1>1. CASE Load
  BY <1>0, <1>1 DEF Load, Exit, Quiet
<1>2. CASE OpenStore \/ Build
  BY <1>0, <1>2 DEF OpenStore, Build, Exit, Quiet
<1>3. CASE Select
  BY <1>0, <1>3 DEF Select
<1>4. CASE StopWorker
  BY <1>0, <1>4 DEF StopWorker
<1>5. CASE WorkerStopped
  BY <1>0, <1>5 DEF WorkerStopped
<1>6. CASE CloseStore
  BY <1>0, <1>6 DEF CloseStore
<1>7. CASE StopTracing \/ StopServer
  BY <1>0, <1>7 DEF StopTracing, StopServer
<1>8. CASE StillBusy \/ ServerDrained \/ GraceOver
  BY <1>0, <1>8 DEF StillBusy, ServerDrained, GraceOver, Draining, Exit
<1>9. CASE Signal \/ Listen \/ ServeFails \/ \E r \in Requests : Connect(r) \/ Arrive(r) \/ Answer(r)
  BY <1>0, <1>9 DEF Signal, Listen, ServeFails, Connect, Arrive, Answer, mainVars
<1>10. CASE WorkerStarts \/ WorkerFails
  BY <1>0, <1>10 DEF WorkerStarts, WorkerFails, mainVars
<1>11. CASE TakeTask
  <2>1. phase \in {"running", "worker"} \/ late'
    BY <1>0, <1>11 DEF TakeTask, TypeOK, Stopping, Draining, Quiet
  <2> QED
    BY <1>0, <1>11, <2>1 DEF TakeTask, mainVars
<1>12. CASE SaveTask
  BY <1>0, <1>12 DEF SaveTask, mainVars
<1>13. CASE Tick \/ UNCHANGED vars
  BY <1>0, <1>13 DEF Tick, vars, mainVars
<1> QED
  BY <1>1, <1>2, <1>3, <1>4, <1>5, <1>6, <1>7, <1>8, <1>9, <1>10, <1>11, <1>12, <1>13
     DEF Next, Prompt

\* The invariant always holds.
LEMMA Invariance == Spec => []Inv
<1>1. Inv /\ [Next]_vars => Inv'
  BY TypeStep, EndStep, HoldsStep DEF Inv
<1> QED
  BY <1>1, InvInit, PTL DEF Spec

\* errCh is never full when the server's or the worker's goroutine reports its
\* end, so that no goroutine waits for a reader that has gone.
THEOREM ProcessTypes == Spec => []TypeOK
<1>1. Inv => TypeOK
  BY DEF Inv
<1> QED
  BY <1>1, Invariance, PTL

\* Application.shutdown cuts no request off before the grace period is over; main
\* exits with 0 only if it cut none, with 1 only if the grace period was used up,
\* and with 2 only if nothing had been started to serve.
THEOREM StopIsOrderly == Spec => []OrderlyStop
<1>1. Inv => OrderlyStop
  BY DEF Inv, Ends, CutOnlyAfterGrace, OrderlyStop
<1> QED
  BY <1>1, Invariance, PTL

\* The orchestrator is closed behind the worker.
THEOREM StoreOutlivesTasks == Spec => []TasksKeepStore
<1>1. Inv => TasksKeepStore
  BY DEF Inv, Holds
<1> QED
  BY <1>1, Invariance, PTL

-----------------------------------------------------------------------------
(* Configurations *)

\* The defaults give an unset timeout a value and leave the list of stamps alone.
LEMMA DefaultsAre ==
    ASSUME NEW ec, DOMAIN ec = EngineFields, ec.timeout \in Int
    PROVE  /\ EngineDefaults(ec).timeout \in Int \ {0}
           /\ EngineDefaults(ec).more = ec.more
<1>1. \A t, s, h : LET d == [ec EXCEPT !.timeout = t, !.scheme = s, !.header = h]
                   IN  d.timeout = t /\ d.more = ec.more
  BY DEF EngineFields
<1>2. \E t, s, h : /\ EngineDefaults(ec) = [ec EXCEPT !.timeout = t, !.scheme = s, !.header = h]
                   /\ t = IF ec.timeout = 0 THEN DefaultTimeout ELSE ec.timeout
  BY Zenon DEF EngineDefaults
<1> QED
  BY <1>1, <1>2, ConfigAssumption

LEMMA ConfIs ==
    ASSUME NEW c, IsConfig(c), NEW d, d = applyEngineDefaults(c)
    PROVE  /\ d.request \in Int /\ d.write \in Int
           /\ \A n \in DOMAIN d.engines : /\ d.engines[n].timeout \in Int \ {0}
                                          /\ d.engines[n].more \in Seq(AuthSpec)
<1>1. d = [c EXCEPT !.engines = [n \in DOMAIN c.engines |-> EngineDefaults(c.engines[n])]]
  BY DEF applyEngineDefaults
<1>2. PICK f : f = [n \in DOMAIN c.engines |-> EngineDefaults(c.engines[n])]
  OBVIOUS
<1>3. d = [c EXCEPT !.engines = f]
  BY <1>1, <1>2
<1>4. d.engines = f /\ d.request = c.request /\ d.write = c.write
  BY <1>3 DEF IsConfig
<1>5. ASSUME NEW n \in DOMAIN f
      PROVE  f[n].timeout \in Int \ {0} /\ f[n].more \in Seq(AuthSpec)
  <2>1. n \in DOMAIN c.engines /\ f[n] = EngineDefaults(c.engines[n])
    BY <1>2
  <2>2. DOMAIN c.engines[n] = EngineFields /\ c.engines[n].timeout \in Int
        /\ c.engines[n].more \in Seq(AuthSpec)
    BY <2>1 DEF IsConfig
  <2>3. PICK ec : ec = c.engines[n]
    OBVIOUS
  <2> QED
    BY <2>1, <2>2, <2>3, DefaultsAre
<1> QED
  BY <1>4, <1>5 DEF IsConfig

LEMMA SpecsAre ==
    ASSUME NEW ec, ec.more \in Seq(AuthSpec)
    PROVE  DOMAIN EffectiveAuthSpecs(ec) \subseteq Nat
<1>1. CASE ec.header = ""
  <2>1. EffectiveAuthSpecs(ec) = <<>> \o ec.more
    BY <1>1 DEF EffectiveAuthSpecs
  <2> QED
    BY <2>1
<1>2. CASE ec.header # ""
  <2>1. PICK x : x = [header |-> ec.header, scheme |-> ec.scheme, key |-> ec.key]
    OBVIOUS
  <2>2. EffectiveAuthSpecs(ec) = <<x>> \o ec.more
    BY <1>2, <2>1 DEF EffectiveAuthSpecs
  <2>3. Len(<<x>> \o ec.more) \in Nat /\ DOMAIN (<<x>> \o ec.more) = 1..Len(<<x>> \o ec.more)
    OBVIOUS
  <2> QED
    BY <2>2, <2>3
<1> QED
  BY <1>1, <1>2

\* Of one element, the last is it.
LEMMA LastOfOne ==
    ASSUME NEW S, NEW i \in Int, S = {i}
    PROVE  LastOf(S) = i
  BY DEF LastOf

\* Without two spellings of one header, both maps of stamps say the same.
LEMMA StampsOf ==
    ASSUME NEW ec, ec.more \in Seq(AuthSpec),
           LET specs == EffectiveAuthSpecs(ec)
           IN  \A i, j \in DOMAIN specs : i # j => Canon(specs[i].header) # Canon(specs[j].header)
    PROVE  LET mount == FormatHeaderValuesMulti(ec)
               wire == ApplyMulti(ec)
           IN  /\ {Canon(h) : h \in DOMAIN mount} = DOMAIN wire
               /\ \A h \in DOMAIN mount : mount[h] = wire[Canon(h)]
<1>1. PICK specs : specs = EffectiveAuthSpecs(ec)
  OBVIOUS
<1>2. PICK used : used = Stamped(specs)
  OBVIOUS
<1>3. used \subseteq DOMAIN specs /\ DOMAIN specs \subseteq Nat
  BY <1>1, <1>2, SpecsAre DEF Stamped
<1>4. \A i, j \in DOMAIN specs : i # j => Canon(specs[i].header) # Canon(specs[j].header)
  BY <1>1
<1> DEFINE mount == [h \in {specs[i].header : i \in used} |->
                       HeaderValue(specs[LastOf({i \in used : specs[i].header = h})])]
           wire == [h \in {Canon(specs[i].header) : i \in used} |->
                       HeaderValue(specs[LastOf({i \in used : Canon(specs[i].header) = h})])]
<1>5. mount = FormatHeaderValuesMulti(ec) /\ wire = ApplyMulti(ec)
  BY <1>1, <1>2 DEF FormatHeaderValuesMulti, ApplyMulti
<1>6. ASSUME NEW h \in DOMAIN mount
      PROVE  mount[h] = wire[Canon(h)]
  <2>1. PICK i \in used : specs[i].header = h
    BY <1>6
  <2>2. {j \in used : specs[j].header = h} = {i}
    BY <1>3, <1>4, <2>1
  <2>3. {j \in used : Canon(specs[j].header) = Canon(h)} = {i}
    BY <1>3, <1>4, <2>1
  <2>4. i \in Int
    BY <1>3
  <2>5. mount[h] = HeaderValue(specs[i])
    BY <2>2, <2>4, LastOfOne
  <2>6. wire[Canon(h)] = HeaderValue(specs[i])
    BY <2>1, <2>3, <2>4, LastOfOne
  <2> QED
    BY <2>5, <2>6
<1>7. {Canon(h) : h \in DOMAIN mount} = DOMAIN wire
  OBVIOUS
<1> QED
  BY <1>5, <1>6, <1>7

\* The validator's table and the adapters agree.
LEMMA FacadeTables ==
    ASSUME NEW compat, NEW f \in acceptedFacades(compat)
    PROVE  f \in newAdapterByCompat(compat)
  BY DEF acceptedFacades, newAdapterByCompat, doclingFacades, externalFacades, tikaFacades,
         doclingExternalFacades

\* A process that is past Load has a configuration that Validate has passed.
Valid == start \in Starts /\ (Loaded => ~LoadFails(start.cfg))

LEMMA ValidInvariant == Spec => []Valid
<1>1. Init => Valid
  BY DEF Init, Valid, Loaded
<1>2. ASSUME Inv, Valid, [Next]_vars
      PROVE  Valid'
  <2>1. CASE Load
    BY <1>2, <2>1 DEF Load, Exit, Valid, Loaded
  <2>2. CASE phase # "start" /\ start' = start /\ (Loaded' => Loaded)
    BY <1>2, <2>2 DEF Valid
  <2>3. CASE OpenStore \/ Build
    BY <2>2, <2>3 DEF OpenStore, Build, Exit, Loaded
  <2>4. CASE Select \/ StopWorker \/ WorkerStopped \/ CloseStore \/ StopTracing \/ StopServer
    BY <2>2, <2>4
       DEF Select, StopWorker, WorkerStopped, CloseStore, StopTracing, StopServer, Loaded
  <2>5. CASE StillBusy \/ ServerDrained \/ GraceOver
    BY <2>2, <2>5 DEF StillBusy, ServerDrained, GraceOver, Draining, Exit, Loaded
  <2>6. CASE UNCHANGED mainVars
    BY <1>2, <2>6 DEF Valid, Loaded, mainVars
  <2>7. Signal \/ Listen \/ ServeFails \/ (\E r \in Requests : Connect(r) \/ Arrive(r) \/ Answer(r))
          \/ WorkerStarts \/ WorkerFails \/ TakeTask \/ SaveTask \/ Tick \/ UNCHANGED vars
          => UNCHANGED mainVars
    BY DEF Signal, Listen, ServeFails, Connect, Arrive, Answer, WorkerStarts, WorkerFails, TakeTask,
           SaveTask, Tick, vars, mainVars
  <2> QED
    BY <1>2, <2>1, <2>3, <2>4, <2>5, <2>6, <2>7 DEF Next, Prompt
<1> QED
  BY <1>1, <1>2, Invariance, PTL DEF Spec

\* What Load lets pass satisfies the timeouts' order, the agreement of adapters
\* and passthrough mount on credentials, and the cover of every facade.
THEOREM ConfiguredPartsAgree == Spec => []PartsAgree
<1>1. ASSUME Valid, Loaded
      PROVE  PartsAgree
  <2>1. PICK c, d : c = start.cfg /\ d = conf
    OBVIOUS
  <2>2. IsConfig(c) /\ d = applyEngineDefaults(c) /\ Validate(d)
    BY <1>1, <2>1, LifecycleAssumption DEF Valid, LoadFails, conf
  <2>3. /\ d.request \in Int /\ d.write \in Int
        /\ \A n \in DOMAIN d.engines : /\ d.engines[n].timeout \in Int \ {0}
                                       /\ d.engines[n].more \in Seq(AuthSpec)
    BY <2>2, ConfIs
  <2>4. Enabled(d) \subseteq DOMAIN d.engines
    BY DEF Enabled
  <2>5. TimeoutsNest
    <3>1. validateTimeoutHierarchy(d)
      BY <2>2 DEF Validate
    <3>2. ASSUME d.request > 0, NEW n \in Enabled(d), d.engines[n].timeout >= 0
          PROVE  /\ d.engines[n].timeout \in 1..d.request
                 /\ d.write > 0 => d.engines[n].timeout + Slack <= d.write
      <4>1. d.engines[n].timeout <= d.request /\ (d.write > 0 => d.request + Slack <= d.write)
        BY <3>1, <3>2 DEF validateTimeoutHierarchy
      <4>2. PICK t \in Int \ {0} : t = d.engines[n].timeout
        BY <2>3, <2>4
      <4> QED
        BY <2>3, <3>2, <4>1, <4>2, ConfigAssumption
    <3> QED
      BY <2>1, <3>2 DEF TimeoutsNest
  <2>6. StampsAgree
    <3>1. ASSUME NEW n \in Enabled(d)
          PROVE  LET mount == FormatHeaderValuesMulti(d.engines[n])
                     wire == ApplyMulti(d.engines[n])
                 IN  /\ {Canon(h) : h \in DOMAIN mount} = DOMAIN wire
                     /\ \A h \in DOMAIN mount : mount[h] = wire[Canon(h)]
      <4>1. PICK ec : ec = d.engines[n]
        OBVIOUS
      <4>2. validateAuthHeaders(d)
        BY <2>2 DEF Validate
      <4>3. LET specs == EffectiveAuthSpecs(ec)
            IN  \A i, j \in DOMAIN specs : i # j => Canon(specs[i].header) # Canon(specs[j].header)
        <5>1. PICK specs : specs = EffectiveAuthSpecs(ec)
          OBVIOUS
        <5>2. /\ \A i \in DOMAIN specs : specs[i].header \in ValidHeaders
              /\ \A i, j \in DOMAIN specs :
                    i # j => ToLower(specs[i].header) # ToLower(specs[j].header)
          BY <4>1, <4>2, <5>1 DEF validateAuthHeaders
        <5>3. \A i, j \in DOMAIN specs : i # j => Canon(specs[i].header) # Canon(specs[j].header)
          BY <5>2, ConfigAssumption
        <5> QED
          BY <5>1, <5>3
      <4>4. ec.more \in Seq(AuthSpec)
        BY <2>3, <2>4, <4>1
      <4> QED
        BY <4>1, <4>3, <4>4, StampsOf
    <3> QED
      BY <2>1, <3>1 DEF StampsAgree
  <2>7. FacadesServed
    <3>1. validateFacadeCoverage(d)
      BY <2>2 DEF Validate
    <3> QED
      BY <2>1, <3>1, FacadeTables DEF validateFacadeCoverage, FacadesServed
  <2> QED
    BY <2>5, <2>6, <2>7 DEF PartsAgree
<1>2. ~Loaded => PartsAgree
  BY DEF PartsAgree, TimeoutsNest, StampsAgree, FacadesServed
<1>3. Valid => PartsAgree
  BY <1>1, <1>2
<1> QED
  BY <1>3, ValidInvariant, PTL

=============================================================================
