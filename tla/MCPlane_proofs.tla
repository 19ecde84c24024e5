--------------------------- MODULE MCPlane_proofs ---------------------------
(***************************************************************************)
(* Proofs that the invariants of MCPlane hold for every value of its       *)
(* constants: for each part of a process the invariant that its steps      *)
(* keep, and at the end that a step of one part keeps those of all.        *)
(***************************************************************************)
EXTENDS MCPlane, FiniteSetTheorems, SequenceTheorems, TLAPS

-----------------------------------------------------------------------------
(* Health checks                                                              *)

\* Who was seen to send something has answered, and with health checks on so has who is
\* ready.
HealthInv ==
    /\ DOMAIN health = Portnames /\ targets \subseteq Portnames /\ notified \subseteq proven
    /\ enabled => \A p \in Portnames : health[p] = "Ready" => p \in proven

\* Before the first health check nobody is ready.
LEMMA HealthInit == Health!Init => HealthInv
BY DEF Health!Init, HealthInv

\* A portname comes to be ready with an activity it was notified of, or a probe that was answered.
LEMMA HealthStep ==
    ASSUME HealthInv, Health!Next
    PROVE  HealthInv'
<1> USE DEF HealthInv, Health!SetStatus, Health!healthVars, Health!managerVars, Health!serverVars
<1>1. CASE Health!New
  <2>1. /\ health' = [p \in Portnames |-> IF p \in Used THEN (IF enabled' THEN "NotReady" ELSE sys')
                                          ELSE "none"]
        /\ UNCHANGED <<targets, notified, proven>>
    BY <1>1 DEF Health!New
  <2> QED
    BY <2>1
<1>2. CASE Health!ManagerStep
  BY <1>2 DEF Health!ManagerStep, Health!Start, Health!SpawnNewPortnameMonitor, Health!Monitor
<1>3. ASSUME NEW p \in Portnames, Health!RegisterHealthCheckTarget(p) PROVE HealthInv'
  BY <1>3 DEF Health!RegisterHealthCheckTarget
<1>4. ASSUME NEW p \in Portnames, Health!SetPortnameRegistered(p) PROVE HealthInv'
  BY <1>4 DEF Health!SetPortnameRegistered
<1>5. ASSUME NEW p \in Portnames, Health!Activity(p) PROVE HealthInv'
  BY <1>5 DEF Health!Activity
<1>6. ASSUME NEW p \in Portnames, Health!TaskNotified(p) PROVE HealthInv'
  BY <1>6 DEF Health!TaskNotified
<1>7. ASSUME NEW p \in Portnames, Health!SendHealthCheckRequest(p) PROVE HealthInv'
  BY <1>7 DEF Health!SendHealthCheckRequest
<1>8. ASSUME NEW p \in Portnames, NEW ok \in BOOLEAN, Health!ProbeEnds(p, ok) PROVE HealthInv'
  BY <1>8 DEF Health!ProbeEnds
<1>9. ASSUME NEW s, Health!SetHealthStatus(s) PROVE HealthInv'
  BY <1>9 DEF Health!SetHealthStatus
<1>10. CASE Health!Http
  BY <1>10 DEF Health!Http
<1>11. ASSUME NEW p, Health!RegisterLocalEngine(p) \/ Health!RegisterRoute(p) \/ Health!RegisterArtifact(p)
       PROVE  HealthInv'
  BY <1>11 DEF Health!RegisterLocalEngine, Health!RegisterRoute, Health!RegisterArtifact
<1> QED
  BY <1>1, <1>2, <1>3, <1>4, <1>5, <1>6, <1>7, <1>8, <1>9, <1>10, <1>11 DEF Health!Next

\* Who is listed as a target and ready has answered.
LEMMA HealthSays == HealthInv => Health!ReadyIsProven
BY DEF HealthInv, Health!ReadyIsProven, Health!GetHealthCheckStatus

-----------------------------------------------------------------------------
(* The distributed runtime                                                    *)

NeedsNats == config.plane = "nats" \/ config.events = "nats"

\* The configuration asks for a NATS client where one is needed, and past the step
\* that connects it there is one.
NatsInv ==
    /\ drtPhase \notin {"config", "panicked"} /\ NeedsNats => config.nats
    /\ drtPhase \in {"discovery", "gauge", "status", "canary", "up", "down"} /\ NeedsNats => "nats" \in parts

\* The registry keeps the service that was put there first; whoever builds another
\* still has to stop it.
ServiceInv ==
    /\ DOMAIN drtPc = Callers /\ DOMAIN drtReply = Callers /\ DOMAIN services = Groups
    /\ alive \subseteq Groups \X Callers
    /\ Process!OneService /\ Process!OkMeansRegistered
    /\ \A c \in Callers : drtPc[c] = "stop" => services[Group[c]] # "none"

\* One caller at a time binds the server, and only while there is none.
ServerInv ==
    /\ DOMAIN drtPc = Callers /\ DOMAIN drtServer = Callers /\ Process!OneServer
    /\ \A c, d \in Callers : drtPc[c] = "bind" => cell = "none" /\ (drtPc[d] = "bind" => c = d)

DrtInv == NatsInv /\ ServiceInv /\ ServerInv

\* A process that has read no configuration yet.
LEMMA DrtStart == Process!DrtInit => DrtInv
<1> SUFFICES ASSUME Process!DrtInit PROVE DrtInv
  OBVIOUS
<1> USE DEF Process!DrtInit, Process!DrtNone
<1>1. NatsInv
  BY DEF NatsInv, NeedsNats
<1>2. ServiceInv
  BY DEF ServiceInv, Process!OneService, Process!OkMeansRegistered
<1>3. ServerInv
  BY DEF ServerInv, Process!OneServer
<1> QED
  BY <1>1, <1>2, <1>3 DEF DrtInv

\* A configuration asks for NATS where a plane of it runs over NATS.
LEMMA Configured ==
    ASSUME NEW e, NEW b
    PROVE  LET c == Process!Configured(e, b) IN c.plane = "nats" \/ c.events = "nats" => c.nats
BY DEF Process!Configured, Process!NatsEnabled

\* The construction: from one part to the next, or to its end.
LEMMA NatsStep ==
    ASSUME NatsInv, Process!DrtNext
    PROVE  NatsInv'
<1> USE DEF NatsInv, NeedsNats
<1>1. CASE Process!Configure
  <2>1. PICK way \in {"from_settings", "for_cli", "process_local"}, e \in Process!Environments :
             IF way = "from_settings" /\ e.backend = "odd"
             THEN drtPhase' = "panicked" /\ UNCHANGED config
             ELSE /\ drtPhase' = "nats"
                  /\ config' = CASE way = "from_settings" -> Process!FromSettings(e)
                                 [] way = "for_cli" -> Process!ForCli(e)
                                 [] way = "process_local" -> Process!ProcessLocal
    BY <1>1 DEF Process!Configure
  <2>2. CASE drtPhase' = "panicked"
    BY <2>2
  <2>3. CASE drtPhase' = "nats"
    <3>1. config' \in {Process!FromSettings(e), Process!ForCli(e), Process!ProcessLocal}
      BY <2>1, <2>3
    <3>2. config'.plane = "nats" \/ config'.events = "nats" => config'.nats
      BY <3>1, Configured DEF Process!FromSettings, Process!ForCli, Process!ProcessLocal
    <3> QED
      BY <2>3, <3>2
  <2> QED
    BY <2>1, <2>2, <2>3
<1>2. CASE Process!ConnectNats
  BY <1>2 DEF Process!ConnectNats, Process!OrAbort
<1>3. CASE Process!StartDiscovery
  BY <1>3 DEF Process!StartDiscovery, Process!OrAbort
<1>4. CASE Process!InitializeGauge
  BY <1>4 DEF Process!InitializeGauge, Process!OrAbort
<1>5. CASE Process!StartStatusServer \/ Process!StartCanaries
  BY <1>5 DEF Process!StartStatusServer, Process!StartCanaries, Process!OrLog
<1>6. CASE Process!DrtShutdown
  BY <1>6 DEF Process!DrtShutdown
<1>7. ASSUME NEW c \in Callers,
             \/ Process!Look(c) \/ Process!BuildService(c) \/ Process!Insert(c) \/ Process!StopLoser(c)
             \/ Process!AskServer(c) \/ Process!BindServer(c)
      PROVE  NatsInv'
  <2>1. UNCHANGED <<config, drtPhase, parts>>
    BY <1>7 DEF Process!Look, Process!BuildService, Process!Insert, Process!StopLoser, Process!AskServer,
                Process!BindServer, Process!construction
  <2> QED
    BY <2>1
<1> QED
  BY <1>1, <1>2, <1>3, <1>4, <1>5, <1>6, <1>7 DEF Process!DrtNext

\* Whoever registers a service finds one there, or puts its own.
LEMMA ServiceStep ==
    ASSUME ServiceInv, Process!DrtNext
    PROVE  ServiceInv'
<1> USE DEF ServiceInv, Process!OneService, Process!OkMeansRegistered, Process!DrtNone
<1>0. /\ \A c \in Callers : Group[c] \in Groups
      /\ \A c \in Callers : c # "none"
  BY PlaneAssumption
<1>1. CASE UNCHANGED <<drtPc, drtReply, services, alive>>
  BY <1>1
<1>2. ASSUME NEW c \in Callers, Process!Look(c) PROVE ServiceInv'
  BY <1>0, <1>2 DEF Process!Look
<1>3. ASSUME NEW c \in Callers, Process!BuildService(c) PROVE ServiceInv'
  BY <1>0, <1>3 DEF Process!BuildService
<1>4. ASSUME NEW c \in Callers, Process!Insert(c) PROVE ServiceInv'
  BY <1>0, <1>4 DEF Process!Insert
<1>5. ASSUME NEW c \in Callers, Process!StopLoser(c) PROVE ServiceInv'
  BY <1>0, <1>5 DEF Process!StopLoser
<1>6. ASSUME NEW c \in Callers, Process!AskServer(c) PROVE ServiceInv'
  BY <1>0, <1>6 DEF Process!AskServer, Process!registering
<1>7. ASSUME NEW c \in Callers, Process!BindServer(c) PROVE ServiceInv'
  BY <1>0, <1>7 DEF Process!BindServer, Process!registering
<1>8. CASE \/ Process!Configure \/ Process!ConnectNats \/ Process!StartDiscovery \/ Process!InitializeGauge
           \/ Process!StartStatusServer \/ Process!StartCanaries \/ Process!DrtShutdown
  BY <1>1, <1>8 DEF Process!Configure, Process!ConnectNats, Process!StartDiscovery, Process!InitializeGauge,
                    Process!StartStatusServer, Process!StartCanaries, Process!DrtShutdown, Process!OrAbort,
                    Process!OrLog, Process!registering
<1> QED
  BY <1>2, <1>3, <1>4, <1>5, <1>6, <1>7, <1>8 DEF Process!DrtNext

\* Whoever asks for the server gets the one that was bound, or binds it alone.
LEMMA ServerStep ==
    ASSUME ServerInv, Process!DrtNext
    PROVE  ServerInv'
<1> USE DEF ServerInv, Process!OneServer, Process!DrtNone
<1>1. CASE UNCHANGED <<drtPc, cell, drtServer>>
  BY <1>1
<1>2. ASSUME NEW c \in Callers,
             Process!Look(c) \/ Process!BuildService(c) \/ Process!Insert(c) \/ Process!StopLoser(c)
      PROVE  ServerInv'
  <2>1. /\ UNCHANGED <<cell, drtServer>>
        /\ \E p \in {"build", "insert", "stop", "done"} : drtPc' = [drtPc EXCEPT ![c] = p]
    BY <1>2 DEF Process!Look, Process!BuildService, Process!Insert, Process!StopLoser, Process!serving
  <2> QED
    BY <2>1
<1>3. ASSUME NEW c \in Callers, Process!AskServer(c) PROVE ServerInv'
  BY <1>3 DEF Process!AskServer
<1>4. ASSUME NEW c \in Callers, Process!BindServer(c) PROVE ServerInv'
  BY <1>4 DEF Process!BindServer
<1>5. CASE \/ Process!Configure \/ Process!ConnectNats \/ Process!StartDiscovery \/ Process!InitializeGauge
           \/ Process!StartStatusServer \/ Process!StartCanaries \/ Process!DrtShutdown
  BY <1>1, <1>5 DEF Process!Configure, Process!ConnectNats, Process!StartDiscovery, Process!InitializeGauge,
                    Process!StartStatusServer, Process!StartCanaries, Process!DrtShutdown, Process!OrAbort,
                    Process!OrLog, Process!serving
<1> QED
  BY <1>2, <1>3, <1>4, <1>5 DEF Process!DrtNext

\* The three together.
LEMMA DrtStep ==
    ASSUME DrtInv, Process!DrtNext
    PROVE  DrtInv'
BY NatsStep, ServiceStep, ServerStep DEF DrtInv

\* What they say of the runtime.
LEMMA DrtSays ==
    DrtInv => Process!NatsWhereNeeded /\ Process!OneService /\ Process!OkMeansRegistered /\ Process!OneServer
BY DEF DrtInv, NatsInv, NeedsNats, ServiceInv, ServerInv, Process!NatsWhereNeeded, Process!Usable

-----------------------------------------------------------------------------
(* The worker                                                                 *)

\* Only a thread that asked for an existing runtime stores a handle; and a grace
\* period that began with the application running, or from which a tick has gone,
\* followed the cancellation of the root token.
WorkerInv ==
    /\ DOMAIN wpc = Process!Threads /\ DOMAIN holds = Process!Threads /\ DOMAIN app = Process!Threads
    /\ DOMAIN sup = Process!Threads /\ workerLeft \in [Process!Threads -> 0 .. Grace]
    /\ rtCell \in Process!Threads \cup {"none"}
    /\ \A t \in Process!Threads :
         /\ Asks[t] = "config" /\ wpc[t] \in {"create", "ask"} => holds[t] = "none"
         /\ Asks[t] = "config" => wpc[t] # "store"
         /\ Asks[t] = "config" /\ holds[t] # "none" => holds[t] = t /\ rtCell = t
         /\ app[t] = "runs" /\ sup[t] = "grace" => rootToken
         /\ workerLeft[t] # Grace => rootToken
    /\ exited /\ Grace > 0 => rootToken

\* No thread has asked yet.
LEMMA WorkerStart == Process!WorkerInit => WorkerInv
BY PlaneAssumption DEF Process!WorkerInit, WorkerInv, Process!WorkerNone, Process!Threads

\* Threads, applications, their supervisors and the signal handler.
LEMMA WorkerStep ==
    ASSUME WorkerInv, Process!WorkerNext
    PROVE  WorkerInv'
<1> USE DEF WorkerInv, Process!Step, Process!WorkerNone
<1>0. /\ Grace \in Nat
      /\ \A t \in Process!Threads : t # "none"
  BY PlaneAssumption DEF Process!Threads
<1>1. ASSUME NEW t \in Process!Threads,
             Process!FromConfig(t) \/ Process!TryInsert(t) \/ Process!RuntimeFromExisting(t)
             \/ Process!StoreHandle(t) \/ Process!FromCurrent(t) \/ Process!SetInit(t)
      PROVE  WorkerInv'
  <2>0. UNCHANGED <<app, sup, workerLeft, rootToken, exited>>
    BY <1>1 DEF Process!FromConfig, Process!TryInsert, Process!RuntimeFromExisting, Process!StoreHandle,
                Process!FromCurrent, Process!SetInit, Process!apps, Process!outside
  <2>1. CASE Process!FromConfig(t)
    BY <1>0, <2>0, <2>1 DEF Process!FromConfig, Process!cells
  <2>2. CASE Process!TryInsert(t)
    BY <1>0, <2>0, <2>2 DEF Process!TryInsert
  <2>3. CASE Process!RuntimeFromExisting(t)
    BY <1>0, <2>0, <2>3 DEF Process!RuntimeFromExisting, Process!cells
  <2>4. CASE Process!StoreHandle(t)
    BY <1>0, <2>0, <2>4 DEF Process!StoreHandle
  <2>5. CASE Process!FromCurrent(t)
    BY <1>0, <2>0, <2>5 DEF Process!FromCurrent, Process!cells
  <2>6. CASE Process!SetInit(t)
    BY <1>0, <2>0, <2>6 DEF Process!SetInit
  <2> QED
    BY <1>1, <2>1, <2>2, <2>3, <2>4, <2>5, <2>6
<1>2. ASSUME NEW t \in Process!Threads, Process!Execute(t) PROVE WorkerInv'
  BY <1>0, <1>2 DEF Process!Execute, Process!cells
<1>3. ASSUME NEW t \in Process!Threads,
             Process!AppEnds(t) \/ Process!AppCompletes(t) \/ Process!Watch(t) \/ Process!Joined(t)
      PROVE  WorkerInv'
  BY <1>0, <1>3 DEF Process!AppEnds, Process!AppCompletes, Process!Watch, Process!Joined, Process!cells,
                    Process!outside
<1>4. ASSUME NEW t \in Process!Threads, Process!GraceOver(t) PROVE WorkerInv'
  BY <1>0, <1>4 DEF Process!GraceOver, Process!cells, Process!apps, Process!outside
<1>5. ASSUME NEW t \in Process!Threads, Process!Return(t) \/ Process!Signal(t) PROVE WorkerInv'
  <2>1. rootToken => rootToken'
    BY <1>5, Zenon DEF Process!Return, Process!Signal
  <2>2. /\ UNCHANGED <<holds, rtCell, app, sup, workerLeft, exited>>
        /\ \/ UNCHANGED wpc
           \/ \E p \in {"done", "failed"} : wpc' = [wpc EXCEPT ![t] = p]
    BY <1>5 DEF Process!Return, Process!Signal, Process!cells, Process!apps
  <2> QED
    BY <1>0, <2>1, <2>2
<1>6. CASE Process!WorkerTick
  BY <1>0, <1>6 DEF Process!WorkerTick, Process!cells, Process!outside
<1> QED
  BY <1>1, <1>2, <1>3, <1>4, <1>5, <1>6 DEF Process!WorkerNext

\* What that says of the worker.
LEMMA WorkerSays == WorkerInv => Process!WorkerOnce /\ Process!ExitForCause
BY DEF WorkerInv, Process!WorkerOnce, Process!ExitForCause, Process!WorkerNone

-----------------------------------------------------------------------------
(* Critical tasks                                                             *)

\* A result that was sent is the one of a body that has ended, and an error is sent
\* only after the parent was cancelled.
CriticalInv ==
    /\ DOMAIN body = Critical /\ DOMAIN result = Critical /\ DOMAIN handle = Critical
    /\ \A t \in Critical : handle[t] = "none" => result[t] = "none"
    /\ \A t \in Critical : result[t] # "none" => /\ body[t] # "running"
                                                 /\ result[t] = "ok" <=> body[t] = "ok"
    /\ \A t \in Critical : result[t] = "error" => parentCancelled
    /\ \A t \in Critical : body[t] # "none" => handle[t] # "none"

\* No task has been spawned.
LEMMA CriticalStart == Cancel!CritInit => CriticalInv
BY DEF Cancel!CritInit, CriticalInv

\* Tasks, their monitors and who holds their handles.
LEMMA CriticalStep ==
    ASSUME CriticalInv, Cancel!CritNext
    PROVE  CriticalInv'
<1> USE DEF CriticalInv, Cancel!Failed
<1>1. CASE Cancel!CancelAll
  BY <1>1 DEF Cancel!CancelAll
<1>2. ASSUME NEW t \in Critical, Cancel!NewWithRuntime(t) PROVE CriticalInv'
  BY <1>2 DEF Cancel!NewWithRuntime
<1>3. ASSUME NEW t \in Critical, Cancel!CancelParent(t) PROVE CriticalInv'
  BY <1>3 DEF Cancel!CancelParent
<1>4. ASSUME NEW t \in Critical, Cancel!SendResult(t) PROVE CriticalInv'
  BY <1>4 DEF Cancel!SendResult
<1>5. ASSUME NEW t \in Critical, Cancel!CancelTask(t) \/ Cancel!Join(t) PROVE CriticalInv'
  BY <1>5 DEF Cancel!CancelTask, Cancel!Join
<1>6. ASSUME NEW t \in Critical, NEW how \in Cancel!Failed \cup {"ok"}, Cancel!Ends(t, how) PROVE CriticalInv'
  BY <1>6 DEF Cancel!Ends
<1>7. ASSUME NEW t \in Critical, NEW how \in {"detached", "panicked"}, Cancel!Release(t, how) PROVE CriticalInv'
  BY <1>7 DEF Cancel!Release
<1> QED
  BY <1>1, <1>2, <1>3, <1>4, <1>5, <1>6, <1>7 DEF Cancel!CritNext

\* What that says of a failure.
LEMMA CriticalSays == CriticalInv => Cancel!FailureStopsAll
BY DEF CriticalInv, Cancel!FailureStopsAll, Cancel!Cancelled

-----------------------------------------------------------------------------
(* The pool of a host                                                         *)

\* Who holds a permit of connect_limiter.
Permitted == {r \in Host!All : at[r] \in Host!Guarded \ {"limit"}}

HostInv == DOMAIN at = Host!All /\ limiter \in Int /\ Host!GateHeld

\* The module of the pool counts as this one does.
LEMMA HostCounts == \A S : Host!Cardinality(S) = Cardinality(S)
BY DEF Host!Cardinality, Cardinality

\* The callers of a host are finitely many.
LEMMA HostFinite == IsFiniteSet(Host!All)
BY PlaneAssumption, FS_Union DEF Host!All

\* The gate is open and all permits are there.
LEMMA HostStart == Host!Init => HostInv
<1> SUFFICES ASSUME Host!Init PROVE HostInv
  OBVIOUS
<1> USE DEF Host!Init
<1>1. {r \in Host!All : at[r] \in Host!Guarded \ {"limit"}} = {}
  BY DEF Host!Guarded
<1>2. limiter = Limit /\ Limit \in Int /\ Limit + 0 = Limit
  BY PlaneAssumption
<1>3. Cardinality({r \in Host!All : at[r] \in Host!Guarded \ {"limit"}}) = 0
  BY <1>1, FS_EmptySet
<1>4. Host!GateHeld
  BY <1>2, <1>3, HostCounts DEF Host!GateHeld
<1> QED
  BY <1>2, <1>4 DEF HostInv

\* A step of one caller that leaves the permits and the gate in order: it keeps what
\* it holds, takes a permit, or gives the gate back with the permit it has.
LEMMA HostMoves ==
    ASSUME HostInv, NEW r \in Host!All, NEW p, at' = [at EXCEPT ![r] = p],
           \/ /\ UNCHANGED limiter
              /\ r \in Permitted <=> p \in Host!Guarded \ {"limit"}
              /\ connecting' => \/ p \in Host!Guarded
                                \/ connecting /\ at[r] \notin Host!Guarded
           \/ /\ limiter' = limiter - 1 /\ UNCHANGED connecting
              /\ at[r] = "limit" /\ p = "connect"
           \/ /\ limiter' = limiter + 1 /\ connecting' = FALSE
              /\ r \in Permitted /\ p \notin Host!Guarded
    PROVE  HostInv'
<1>1. IsFiniteSet(Permitted) /\ Cardinality(Permitted) \in Nat
  BY HostFinite, FS_Subset, FS_CardinalityType DEF Permitted
<1>2. DOMAIN at' = Host!All /\ at'[r] = p /\ \A u \in Host!All \ {r} : at'[u] = at[u]
  BY DEF HostInv
<1>3. limiter + Cardinality(Permitted) = Limit /\ limiter \in Int
  BY HostCounts DEF HostInv, Host!GateHeld, Permitted
<1>4. connecting' => \E u \in Host!All : at'[u] \in Host!Guarded
  <2>1. CASE p \in Host!Guarded
    BY <2>1, <1>2
  <2>2. CASE p \notin Host!Guarded
    <3>1. connecting' => connecting /\ at[r] \notin Host!Guarded
      BY <2>2 DEF Host!Guarded
    <3> QED
      BY <3>1, <1>2 DEF HostInv, Host!GateHeld
  <2> QED
    BY <2>1, <2>2
<1>5. limiter' \in Int /\ limiter' + Cardinality(Permitted') = Limit
  <2>1. CASE UNCHANGED limiter /\ (r \in Permitted <=> p \in Host!Guarded \ {"limit"})
    <3>1. Permitted' = Permitted
      BY <2>1, <1>2 DEF Permitted
    <3> QED
      BY <3>1, <2>1, <1>3
  <2>2. CASE limiter' = limiter - 1 /\ at[r] = "limit" /\ p = "connect"
    <3>1. Permitted' = Permitted \cup {r} /\ r \notin Permitted
      BY <2>2, <1>2 DEF Permitted, Host!Guarded
    <3>2. Cardinality(Permitted') = Cardinality(Permitted) + 1
      BY <3>1, <1>1, FS_AddElement
    <3> QED
      BY <3>2, <2>2, <1>1, <1>3
  <2>3. CASE limiter' = limiter + 1 /\ r \in Permitted /\ p \notin Host!Guarded
    <3>1. Permitted' = Permitted \ {r}
      BY <2>3, <1>2 DEF Permitted, Host!Guarded
    <3>2. Cardinality(Permitted') = Cardinality(Permitted) - 1
      BY <3>1, <2>3, <1>1, FS_RemoveElement
    <3> QED
      BY <3>2, <2>3, <1>1, <1>3
  <2> QED
    BY <2>1, <2>2, <2>3
<1>6. Permitted' = {u \in Host!All : at'[u] \in Host!Guarded \ {"limit"}}
  BY DEF Permitted
<1> QED
  BY <1>2, <1>4, <1>5, <1>6, HostCounts DEF HostInv, Host!GateHeld

\* Every step of a caller is of one of these kinds.
LEMMA HostStep ==
    ASSUME HostInv, Host!Next
    PROVE  HostInv'
<1> USE DEF Host!Goto, Permitted, Host!Guarded
<1>1. CASE UNCHANGED <<at, limiter, connecting>>
  BY <1>1 DEF HostInv, Host!GateHeld
<1>2. ASSUME NEW r \in Host!All, at[r] = "idle", Host!HotPath(r) PROVE HostInv'
  <2>1. PICK p \in {"have", "heal"} : at' = [at EXCEPT ![r] = p]
    BY <1>2 DEF Host!HotPath, Host!Take
  <2> QED
    BY <2>1, <1>2, HostMoves DEF Host!HotPath
<1>3. ASSUME NEW r \in Host!All,
             Host!Prune(r) \/ Host!StoreSnapshot(r) \/ Host!Recheck(r) \/ Host!Look(r) \/ Host!LastResort(r)
             \/ Host!Send(r) \/ Host!Finish(r)
      PROVE  HostInv'
  <2>1. /\ at[r] \notin Host!Guarded /\ UNCHANGED <<limiter, connecting>>
        /\ \E p \in {"store", "recheck", "have", "gate", "failed", "last", "busy", "done"} :
              at' = [at EXCEPT ![r] = p]
    BY <1>3 DEF Host!Prune, Host!StoreSnapshot, Host!Recheck, Host!Look, Host!LastResort, Host!Send,
                Host!Finish, Host!Take
  <2>2. PICK p \in {"store", "recheck", "have", "gate", "failed", "last", "busy", "done"} :
             at' = [at EXCEPT ![r] = p]
    BY <2>1
  <2> QED
    BY <2>1, <2>2, HostMoves
<1>4. ASSUME NEW r \in Host!All, Host!Gate(r) PROVE HostInv'
  <2>1. PICK p \in {"wait", "limit"} : at' = [at EXCEPT ![r] = p] /\ (p = "wait" => connecting)
    BY <1>4 DEF Host!Gate
  <2>2. at[r] = "gate" /\ connecting' = TRUE /\ UNCHANGED limiter
    BY <1>4 DEF Host!Gate
  <2> QED
    BY <2>1, <2>2, HostMoves
<1>5. ASSUME NEW r \in Host!All, Host!AcquireLimit(r) PROVE HostInv'
  BY <1>5, HostMoves DEF Host!AcquireLimit
<1>6. ASSUME NEW r \in Host!All, Host!Connected(r) \/ Host!ConnectFails(r) PROVE HostInv'
  <2>1. PICK p \in {"insert", "error"} : at' = [at EXCEPT ![r] = p]
    BY <1>6 DEF Host!Connected, Host!ConnectFails
  <2>2. at[r] = "connect" /\ connecting' = FALSE /\ UNCHANGED limiter
    BY <1>6 DEF Host!Connected, Host!ConnectFails
  <2> QED
    BY <2>1, <2>2, HostMoves
<1>7. ASSUME NEW r \in Host!All, Host!Insert(r) \/ Host!Publish(r) PROVE HostInv'
  <2>1. PICK p \in {"publish", "unguard"} : at' = [at EXCEPT ![r] = p]
    BY <1>7 DEF Host!Insert, Host!Publish
  <2>2. at[r] \in {"insert", "publish"} /\ UNCHANGED <<limiter, connecting>>
    BY <1>7 DEF Host!Insert, Host!Publish
  <2> QED
    BY <2>1, <2>2, HostMoves
<1>8. ASSUME NEW r \in Host!All, Host!Leave(r) PROVE HostInv'
  <2>1. PICK p \in {"have", "failed"} : at' = [at EXCEPT ![r] = p]
    BY <1>8 DEF Host!Leave
  <2>2. at[r] \in {"unguard", "error"} /\ connecting' = FALSE /\ limiter' = limiter + 1
    BY <1>8 DEF Host!Leave, Host!Unguard
  <2> QED
    BY <2>1, <2>2, HostMoves
<1>9. ASSUME NEW r \in Host!All, Host!Cancel(r) PROVE HostInv'
  <2>1. at' = [at EXCEPT ![r] = "failed"] /\ at[r] \in {"limit", "connect", "wait"}
    BY <1>9 DEF Host!Cancel
  <2>2. \/ at[r] = "wait" /\ UNCHANGED <<limiter, connecting>>
        \/ at[r] = "limit" /\ UNCHANGED limiter /\ connecting' = FALSE
        \/ at[r] = "connect" /\ limiter' = limiter + 1 /\ connecting' = FALSE
    BY <1>9 DEF Host!Cancel, Host!Unguard
  <2>3. CASE at[r] = "wait" /\ UNCHANGED <<limiter, connecting>>
    BY <2>1, <2>3, HostMoves
  <2>4. CASE at[r] = "limit" /\ UNCHANGED limiter /\ connecting' = FALSE
    BY <2>1, <2>4, HostMoves
  <2>5. CASE at[r] = "connect" /\ limiter' = limiter + 1 /\ connecting' = FALSE
    BY <2>1, <2>5, HostMoves
  <2> QED
    BY <2>2, <2>3, <2>4, <2>5
<1>10. CASE Host!WarmupWatch
  <2>1. CASE UNCHANGED <<at, limiter, connecting>>
    BY <2>1, <1>1
  <2>2. CASE ~UNCHANGED <<at, limiter, connecting>>
    <3>1. \E r \in Warmers : at[r] = "idle"
      BY <1>10, <2>2 DEF Host!WarmupWatch
    <3>2. Host!HotPath(CHOOSE r \in Warmers : at[r] = "idle")
      BY <1>10, <2>2 DEF Host!WarmupWatch
    <3>3. PICK w \in Warmers : at[w] = "idle" /\ Host!HotPath(w)
      BY <3>1, <3>2
    <3> QED
      BY <3>3, <1>2 DEF Host!All
  <2> QED
    BY <2>1, <2>2
<1>11. CASE Host!Discovery \/ Host!CleanupIdleHosts \/ \E c \in Host!Made : Host!Breaks(c)
  BY <1>11, <1>1 DEF Host!Discovery, Host!CleanupIdleHosts, Host!Breaks
<1> QED
  BY <1>2, <1>3, <1>4, <1>5, <1>6, <1>7, <1>8, <1>9, <1>10, <1>11 DEF Host!Next, Host!Caller, Host!GetConnection

-----------------------------------------------------------------------------
(* The HTTP and NATS planes                                                   *)

\* A registration counts the requests that its handlers run. The registration that is
\* being unregistered no longer listens once it drains; what it owed to requests was
\* counted then, and a request is counted once.
PlaneInv ==
    /\ gen \in 0 .. Registrations /\ entry \in 0 .. gen /\ ugen \in 0 .. gen
    /\ listening \subseteq 1 .. gen /\ (plane # "nats" => listening = {})
    /\ reqInflight \in [Planes!Gens -> Int]
    /\ DOMAIN rstate = Requests /\ rgen \in [Requests -> 0 .. Registrations]
    /\ \A r \in Requests : rstate[r] \in {"looked", "running", "notify"} => rgen[r] \in Planes!Gens
    /\ \A g \in Planes!Gens : reqInflight[g] = Cardinality(Planes!Counted(g))
    /\ owed \subseteq Requests /\ \A r \in owed : rstate[r] \in {"running", "notify", "done"}
    /\ unreg \in {"cancel", "drain", "await", "wait"} => ugen \in Planes!Gens
    /\ unreg \in {"drain", "await", "wait", "done"} => ugen \notin listening
    /\ unreg = "done" /\ ugen # 0 => owed \cap Planes!Counted(ugen) = {}

\* Nothing is registered and no request counted.
LEMMA PlaneStart == Planes!PlaneInit => PlaneInv
<1> SUFFICES ASSUME Planes!PlaneInit PROVE PlaneInv
  OBVIOUS
<1> USE DEF Planes!PlaneInit, Planes!Gens
<1>1. \A g \in Planes!Gens : Cardinality(Planes!Counted(g)) = 0
  BY FS_EmptySet DEF Planes!Counted
<1>2. Registrations \in Nat /\ 0 \in 0 .. Registrations /\ 0 \in 0 .. 0
  BY PlaneAssumption
<1>3. \A g \in Planes!Gens : reqInflight[g] = Cardinality(Planes!Counted(g))
  BY <1>1
<1> QED
  BY <1>2, <1>3 DEF PlaneInv

\* What a step of a request does to its registration's count.
LEMMA PlaneCounts ==
    ASSUME PlaneInv, NEW r \in Requests, NEW p, NEW g \in 0 .. Registrations,
           rstate' = [rstate EXCEPT ![r] = p], rgen' = [rgen EXCEPT ![r] = g],
           \/ /\ UNCHANGED reqInflight /\ rstate[r] # "running" /\ p # "running"
           \/ /\ rstate[r] # "running" /\ p = "running" /\ g \in Planes!Gens
              /\ reqInflight' = [reqInflight EXCEPT ![g] = @ + 1]
           \/ /\ rstate[r] = "running" /\ p # "running" /\ g = rgen[r] /\ g \in Planes!Gens
              /\ reqInflight' = [reqInflight EXCEPT ![g] = @ - 1]
    PROVE  /\ reqInflight' \in [Planes!Gens -> Int]
           /\ \A h \in Planes!Gens : reqInflight'[h] = Cardinality(Planes!Counted(h)')
<1>0. \A h \in Planes!Gens : IsFiniteSet(Planes!Counted(h)) /\ Cardinality(Planes!Counted(h)) \in Nat
  <2> TAKE h \in Planes!Gens
  <2>1. Planes!Counted(h) \subseteq Requests
    BY DEF Planes!Counted
  <2> QED
    BY <2>1, PlaneAssumption, FS_Subset, FS_CardinalityType
<1>1. /\ \A q \in Requests \ {r} : rstate'[q] = rstate[q] /\ rgen'[q] = rgen[q]
      /\ rstate'[r] = p /\ rgen'[r] = g
  BY DEF PlaneInv
<1>2. \A h \in Planes!Gens : Planes!Counted(h)' = {q \in Requests : rgen'[q] = h /\ rstate'[q] = "running"}
  BY DEF Planes!Counted
<1>3. reqInflight \in [Planes!Gens -> Int] /\ \A h \in Planes!Gens : reqInflight[h] = Cardinality(Planes!Counted(h))
  BY DEF PlaneInv
<1>4. CASE UNCHANGED reqInflight /\ rstate[r] # "running" /\ p # "running"
  <2>1. \A h \in Planes!Gens : Planes!Counted(h)' = Planes!Counted(h)
    BY <1>1, <1>2, <1>4 DEF Planes!Counted
  <2> QED
    BY <2>1, <1>3, <1>4
<1>5. CASE /\ rstate[r] # "running" /\ p = "running" /\ g \in Planes!Gens
           /\ reqInflight' = [reqInflight EXCEPT ![g] = @ + 1]
  <2>1. \A h \in Planes!Gens \ {g} : Planes!Counted(h)' = Planes!Counted(h)
    BY <1>1, <1>2, <1>5 DEF Planes!Counted
  <2>2. Planes!Counted(g)' = Planes!Counted(g) \cup {r} /\ r \notin Planes!Counted(g)
    BY <1>1, <1>2, <1>5 DEF Planes!Counted
  <2>3. Cardinality(Planes!Counted(g)') = Cardinality(Planes!Counted(g)) + 1
    BY <2>2, <1>0, <1>5, FS_AddElement
  <2> QED
    BY <2>1, <2>3, <1>0, <1>3, <1>5
<1>6. CASE /\ rstate[r] = "running" /\ p # "running" /\ g = rgen[r] /\ g \in Planes!Gens
           /\ reqInflight' = [reqInflight EXCEPT ![g] = @ - 1]
  <2>1. \A h \in Planes!Gens \ {g} : Planes!Counted(h)' = Planes!Counted(h)
    BY <1>1, <1>2, <1>6 DEF Planes!Counted
  <2>2. Planes!Counted(g)' = Planes!Counted(g) \ {r} /\ r \in Planes!Counted(g)
    BY <1>1, <1>2, <1>6 DEF Planes!Counted
  <2>3. Cardinality(Planes!Counted(g)') = Cardinality(Planes!Counted(g)) - 1
    BY <2>2, <1>0, <1>6, FS_RemoveElement
  <2> QED
    BY <2>1, <2>3, <1>0, <1>3, <1>6
<1> QED
  BY <1>4, <1>5, <1>6

\* A step of a request that leaves the registrations alone.
LEMMA PlaneRequest ==
    ASSUME PlaneInv, NEW r \in Requests, NEW p, NEW g \in 0 .. Registrations,
           UNCHANGED <<plane, gen, entry, ugen, listening, owed, unreg>>,
           rstate' = [rstate EXCEPT ![r] = p], rgen' = [rgen EXCEPT ![r] = g],
           p \in {"looked", "running", "notify"} => g \in Planes!Gens,
           p \in {"looked", "running"} => rstate[r] \in {"idle", "looked"},
           p \in {"looked", "running", "notify", "done"},
           \/ /\ UNCHANGED reqInflight /\ rstate[r] # "running" /\ p # "running"
           \/ /\ rstate[r] # "running" /\ p = "running"
              /\ reqInflight' = [reqInflight EXCEPT ![g] = @ + 1]
           \/ /\ rstate[r] = "running" /\ p # "running" /\ g = rgen[r] /\ g \in Planes!Gens
              /\ reqInflight' = [reqInflight EXCEPT ![g] = @ - 1]
    PROVE  PlaneInv'
<1>1. /\ reqInflight' \in [Planes!Gens -> Int]
      /\ \A h \in Planes!Gens : reqInflight'[h] = Cardinality(Planes!Counted(h)')
  BY PlaneCounts
<1>2. /\ \A q \in Requests \ {r} : rstate'[q] = rstate[q] /\ rgen'[q] = rgen[q]
      /\ rstate'[r] = p /\ rgen'[r] = g
      /\ DOMAIN rstate' = Requests /\ rgen' \in [Requests -> 0 .. Registrations]
  BY DEF PlaneInv
<1>3. \A q \in Requests : rstate'[q] \in {"looked", "running", "notify"} => rgen'[q] \in Planes!Gens
  BY <1>2 DEF PlaneInv
<1>4. \A q \in owed : rstate'[q] \in {"running", "notify", "done"}
  BY <1>2 DEF PlaneInv
<1>5. unreg = "done" /\ ugen # 0 => owed \cap Planes!Counted(ugen)' = {}
  <2> SUFFICES ASSUME unreg = "done", ugen # 0, NEW q \in owed, q \in Planes!Counted(ugen)' PROVE FALSE
    OBVIOUS
  <2>1. q \in Requests /\ rgen'[q] = ugen /\ rstate'[q] = "running"
    BY DEF Planes!Counted
  <2>2. q # r
    BY <2>1, <1>2 DEF PlaneInv
  <2> QED
    BY <2>1, <2>2, <1>2 DEF PlaneInv, Planes!Counted
<1> QED
  BY <1>1, <1>2, <1>3, <1>4, <1>5 DEF PlaneInv, Planes!Counted

\* Registrations, requests and unregister_portname.
LEMMA PlaneStep ==
    ASSUME PlaneInv, Planes!PlaneNext
    PROVE  PlaneInv'
<1>0. Registrations \in Nat /\ gen \in Nat /\ ugen \in Nat /\ Planes!Gens = 1 .. Registrations
  BY PlaneAssumption DEF PlaneInv, Planes!Gens
<1> USE DEF Planes!netVars, Planes!regVars, Planes!reqVars
<1>a. ASSUME UNCHANGED <<rstate, rgen>> PROVE \A g \in Planes!Gens : Planes!Counted(g)' = Planes!Counted(g)
  BY <1>a DEF Planes!Counted
<1>1. CASE UNCHANGED <<gen, entry, ugen, listening, reqInflight, rstate, rgen, owed, unreg>>
           /\ (plane # "nats" => listening = {})' 
  BY <1>1, <1>a DEF PlaneInv, Planes!Counted
<1>2. CASE Planes!Configure
  BY <1>1, <1>2 DEF Planes!Configure, PlaneInv
<1>3. CASE (\E m \in Managers : Planes!Server(m)) \/ (\E ok \in BOOLEAN : Planes!CreateServer(ok))
  BY <1>1, <1>3 DEF Planes!Server, Planes!CreateServer, PlaneInv
<1>4. CASE Planes!RegisterHttp \/ Planes!RegisterNats \/ Planes!KeepTask
  <2>1. /\ UNCHANGED <<ugen, reqInflight, rstate, rgen, owed, unreg, plane>>
        /\ gen' \in 0 .. Registrations /\ gen' >= gen /\ entry' \in 0 .. gen'
        /\ \/ UNCHANGED listening
           \/ listening' = listening \cup {gen + 1} /\ gen' = gen + 1 /\ plane = "nats"
    <3>1. CASE Planes!RegisterHttp
      BY <1>0, <3>1 DEF Planes!RegisterHttp, PlaneInv
    <3>2. CASE Planes!RegisterNats
      BY <1>0, <3>2 DEF Planes!RegisterNats, PlaneInv
    <3>3. CASE Planes!KeepTask
      BY <1>0, <3>3 DEF Planes!KeepTask, PlaneInv
    <3> QED
      BY <1>4, <3>1, <3>2, <3>3
  <2>2. ugen \in 0 .. gen' /\ listening' \subseteq 1 .. gen' /\ (plane' # "nats" => listening' = {})
    <3>1. /\ gen' \in Nat /\ gen' >= gen /\ ugen \in 0 .. gen /\ listening \subseteq 1 .. gen
          /\ (plane # "nats" => listening = {}) /\ plane' = plane
      BY <2>1, <1>0 DEF PlaneInv
    <3>2. 0 .. gen \subseteq 0 .. gen' /\ 1 .. gen \subseteq 1 .. gen'
      BY <3>1, <1>0
    <3>3. CASE UNCHANGED listening
      BY <3>1, <3>2, <3>3
    <3>4. CASE listening' = listening \cup {gen + 1} /\ gen' = gen + 1 /\ plane = "nats"
      <4>1. gen + 1 \in 1 .. gen'
        BY <3>4, <1>0
      <4> QED
        BY <4>1, <3>1, <3>2, <3>4
    <3> QED
      BY <2>1, <3>3, <3>4
  <2>3. ugen \in listening' => ugen \in listening
    BY <2>1, <1>0 DEF PlaneInv
  <2> QED
    BY <2>1, <2>2, <2>3, <1>a DEF PlaneInv, Planes!Counted
<1>5. ASSUME NEW r \in Requests, Planes!Lookup(r) PROVE PlaneInv'
  <2>1. CASE entry = 0
    <3>1. rgen' = [rgen EXCEPT ![r] = rgen[r]] /\ rgen[r] \in 0 .. Registrations
      BY <1>5, <2>1 DEF Planes!Lookup, PlaneInv
    <3> QED
      BY <1>5, <2>1, <3>1, PlaneRequest DEF Planes!Lookup
  <2>2. CASE entry # 0
    <3>1. entry \in Planes!Gens /\ entry \in 0 .. Registrations
      BY <2>2, <1>0 DEF PlaneInv
    <3> QED
      BY <1>5, <2>2, <3>1, PlaneRequest DEF Planes!Lookup
  <2> QED
    BY <2>1, <2>2
<1>6. ASSUME NEW r \in Requests, Planes!Count(r) \/ Planes!Uncount(r) \/ Planes!NotifyOne(r) PROVE PlaneInv'
  <2>1. /\ rgen' = [rgen EXCEPT ![r] = rgen[r]] /\ rgen[r] \in 0 .. Registrations
        /\ rgen[r] \in Planes!Gens
        /\ UNCHANGED <<plane, gen, entry, ugen, listening, owed, unreg>>
    BY <1>6 DEF Planes!Count, Planes!Uncount, Planes!NotifyOne, PlaneInv
  <2>2. CASE Planes!Count(r)
    BY <2>1, <2>2, PlaneRequest DEF Planes!Count
  <2>3. CASE Planes!Uncount(r)
    BY <2>1, <2>3, PlaneRequest DEF Planes!Uncount
  <2>4. CASE Planes!NotifyOne(r)
    BY <2>1, <2>4, PlaneRequest DEF Planes!NotifyOne
  <2> QED
    BY <1>6, <2>2, <2>3, <2>4
<1>7. ASSUME NEW r \in Requests, NEW g \in Planes!Gens, Planes!PlaneReceive(r, g) PROVE PlaneInv'
  <2>1. g \in 0 .. Registrations
    BY <1>0
  <2> QED
    BY <1>7, <2>1, PlaneRequest DEF Planes!PlaneReceive
<1>8. ASSUME NEW r \in Requests, Planes!CannotConnect(r) PROVE PlaneInv'
  BY <1>1, <1>8 DEF Planes!CannotConnect, PlaneInv
<1>9. CASE Planes!UnregisterHttp
  <2>1. owed' \subseteq Requests /\ \A r \in owed' : rstate[r] = "running"
    BY <1>9 DEF Planes!UnregisterHttp, Planes!Counted
  <2>2. /\ ugen' = entry /\ entry' = 0 /\ unreg' = IF entry = 0 THEN "done" ELSE "drain"
        /\ UNCHANGED <<gen, listening, reqInflight, rstate, rgen, plane>> /\ listening = {}
    BY <1>9 DEF Planes!UnregisterHttp, PlaneInv
  <2> QED
    BY <2>1, <2>2, <1>0, <1>a DEF PlaneInv, Planes!Counted
<1>10. CASE Planes!UnregisterNats
  <2>1. /\ ugen' = entry /\ entry' = 0 /\ unreg' = IF entry = 0 THEN "done" ELSE "cancel"
        /\ UNCHANGED <<gen, listening, reqInflight, rstate, rgen, plane, owed>>
    BY <1>10 DEF Planes!UnregisterNats
  <2>2. ugen' \in 0 .. gen /\ (entry # 0 => ugen' \in Planes!Gens) /\ 0 \notin listening /\ 0 \in 0 .. gen
    BY <2>1, <1>0 DEF PlaneInv
  <2> QED
    BY <2>1, <2>2, <1>a DEF PlaneInv, Planes!Counted
<1>11. CASE Planes!ListenerStops
  <2>1. owed' \subseteq Requests /\ \A r \in owed' : rstate[r] = "running"
    BY <1>11 DEF Planes!ListenerStops, Planes!Counted
  <2> QED
    BY <2>1, <1>11, <1>a DEF Planes!ListenerStops, PlaneInv, Planes!Counted
<1>12. CASE Planes!Drain
  <2>1. CASE Planes!Drained
    <3>1. Planes!Counted(ugen) \subseteq Requests /\ Cardinality(Planes!Counted(ugen)) = 0
      BY <1>12, <2>1 DEF Planes!Drain, Planes!Drained, PlaneInv, Planes!Counted
    <3>2. Planes!Counted(ugen) = {}
      BY <3>1, PlaneAssumption, FS_Subset, FS_EmptySet
    <3> QED
      BY <3>2, <1>12, <2>1, <1>a DEF Planes!Drain, PlaneInv, Planes!Counted
  <2>2. CASE ~Planes!Drained
    BY <1>12, <2>2, <1>a DEF Planes!Drain, PlaneInv, Planes!Counted
  <2> QED
    BY <2>1, <2>2
<1>13. CASE Planes!Notified
  BY <1>13, <1>a DEF Planes!Notified, PlaneInv, Planes!Counted
<1> QED
  BY <1>2, <1>3, <1>4, <1>5, <1>6, <1>7, <1>8, <1>9, <1>10, <1>11, <1>12, <1>13 DEF Planes!PlaneNext, Planes!Serve

\* What that says of unregister_portname.
LEMMA PlaneSays == PlaneInv => Planes!UnregisterDrains
BY DEF PlaneInv, Planes!UnregisterDrains

-----------------------------------------------------------------------------
(* The ZMQ router                                                             *)

\* What a receiver has, what its stream holds and what the server hands out next.
Arrived(i) == got[i] \o buffer[i] \o (IF held.id = i THEN <<held.n>> ELSE <<>>)

\* A stream that was never registered has nothing, and one whose receiver is there has
\* all that came for it.
ZmqInv ==
    /\ got \in [Streams -> Seq(Nat)] /\ buffer \in [Streams -> Seq(Nat)] /\ due \in [Streams -> Seq(Nat)]
    /\ used \subseteq Streams /\ active \subseteq used /\ open \subseteq used /\ sent \in Nat
    /\ wire \in Seq([id : Streams, n : Nat, parts : {2, 3}])
    /\ held = Planes!None \/ held \in [id : used, n : Nat]
    /\ \A i \in Streams \ used : got[i] = <<>> /\ buffer[i] = <<>> /\ due[i] = <<>>
    /\ \A i \in open : Arrived(i) = due[i]

\* No stream has anything.
LEMMA ZmqStart == Planes!ZmqInit => ZmqInv
BY PlaneAssumption DEF Planes!ZmqInit, ZmqInv, Planes!None

\* Handing an item over keeps the order of all of them.
LEMMA Handed ==
    ASSUME NEW g \in Seq(Nat), NEW b \in Seq(Nat), NEW n \in Nat
    PROVE  /\ g \o Append(b, n) \in Seq(Nat)
           /\ g \o Append(b, n) = (g \o b) \o <<n>>
           /\ Append(g \o b, n) = (g \o b) \o <<n>>
<1>1. <<n>> \in Seq(Nat) /\ g \o b \in Seq(Nat) /\ Append(b, n) \in Seq(Nat)
  BY ConcatProperties
<1>2. Append(b, n) = b \o <<n>> /\ Append(g \o b, n) = (g \o b) \o <<n>>
  BY <1>1, AppendIsConcat
<1> QED
  BY <1>1, <1>2, ConcatAssociative, ConcatProperties

\* Taking an item from a stream keeps the order of all of them.
LEMMA Taken ==
    ASSUME NEW g \in Seq(Nat), NEW b \in Seq(Nat), b # <<>>
    PROVE  /\ Append(g, Head(b)) \o Tail(b) = g \o b
           /\ Append(g, Head(b)) \in Seq(Nat) /\ Tail(b) \in Seq(Nat)
<1>1. Head(b) \in Nat /\ Tail(b) \in Seq(Nat) /\ b = <<Head(b)>> \o Tail(b)
  OBVIOUS
<1>2. <<Head(b)>> \in Seq(Nat) /\ Append(g, Head(b)) = g \o <<Head(b)>> /\ Append(g, Head(b)) \in Seq(Nat)
  BY <1>1, AppendIsConcat
<1> QED
  BY <1>1, <1>2, ConcatAssociative

\* Dealers, callers, the server and its watch task.
LEMMA ZmqStep ==
    ASSUME ZmqInv, Planes!ZmqNext
    PROVE  ZmqInv'
<1> USE DEF Planes!streamVars, Planes!serverVars
<1>0. "none" \notin Streams
  BY PlaneAssumption
<1>n. Planes!None = [id |-> "none", n |-> 0] /\ Planes!None.id = "none"
  BY DEF Planes!None
<1>e. \A s \in Seq(Nat) : s \o <<>> = s
  BY ConcatEmptySeq
<1>1. ASSUME NEW i \in Streams, Planes!DealerSends(i) \/ Planes!DealerBreaks(i) PROVE ZmqInv'
  <2>1. PICK m \in [id : Streams, n : Nat, parts : {2, 3}] : wire' = Append(wire, m) /\ sent' \in Nat
    <3>1. [id |-> i, n |-> sent + 1, parts |-> 3] \in [id : Streams, n : Nat, parts : {2, 3}]
      BY DEF ZmqInv
    <3>2. [id |-> i, n |-> 0, parts |-> 2] \in [id : Streams, n : Nat, parts : {2, 3}]
      OBVIOUS
    <3> QED
      BY <1>1, <3>1, <3>2 DEF Planes!DealerSends, Planes!DealerBreaks, ZmqInv
  <2>2. wire' \in Seq([id : Streams, n : Nat, parts : {2, 3}])
    BY <2>1, AppendProperties DEF ZmqInv
  <2>3. UNCHANGED <<got, buffer, due, used, active, open, held>>
    BY <1>1 DEF Planes!DealerSends, Planes!DealerBreaks
  <2> QED
    BY <2>1, <2>2, <2>3 DEF ZmqInv, Arrived
<1>2. ASSUME NEW i \in Streams, Planes!RegisterStream(i) PROVE ZmqInv'
  <2>1. /\ i \notin used /\ used' = used \cup {i} /\ active' = active \cup {i} /\ open' = open \cup {i}
        /\ UNCHANGED <<due, wire, sent, buffer, got, held>>
    BY <1>2 DEF Planes!RegisterStream
  <2>2. held.id # i
    BY <2>1, <1>n, <1>0 DEF ZmqInv
  <2>3. Arrived(i) = due[i]
    BY <2>1, <2>2, <1>e DEF ZmqInv, Arrived
  <2> QED
    BY <2>1, <2>3 DEF ZmqInv, Arrived
<1>3. ASSUME NEW i \in Streams, Planes!RemoveStream(i) PROVE ZmqInv'
  BY <1>3 DEF Planes!RemoveStream, ZmqInv, Arrived
<1>4. ASSUME NEW i \in Streams, Planes!ZmqReceive(i) PROVE ZmqInv'
  <2>1. /\ i \in open /\ buffer[i] # <<>> /\ got' = [got EXCEPT ![i] = Append(@, Head(buffer[i]))]
        /\ buffer' = [buffer EXCEPT ![i] = Tail(@)]
        /\ UNCHANGED <<due, wire, sent, active, used, open, held>>
    BY <1>4 DEF Planes!ZmqReceive
  <2>2. /\ Append(got[i], Head(buffer[i])) \o Tail(buffer[i]) = got[i] \o buffer[i]
        /\ Append(got[i], Head(buffer[i])) \in Seq(Nat) /\ Tail(buffer[i]) \in Seq(Nat)
    BY <2>1, Taken DEF ZmqInv
  <2>3. got'[i] \o buffer'[i] = got[i] \o buffer[i]
    BY <2>1, <2>2 DEF ZmqInv
  <2>4. \A j \in open : Arrived(j)' = Arrived(j)
    BY <2>1, <2>3 DEF ZmqInv, Arrived
  <2>5. got' \in [Streams -> Seq(Nat)] /\ buffer' \in [Streams -> Seq(Nat)]
    BY <2>1, <2>2 DEF ZmqInv
  <2>6. \A j \in Streams \ used : got'[j] = got[j] /\ buffer'[j] = buffer[j]
    BY <2>1 DEF ZmqInv
  <2>7. \A j \in open' : Arrived(j)' = due'[j]
    BY <2>1, <2>4 DEF ZmqInv
  <2> QED
    BY <2>1, <2>5, <2>6, <2>7 DEF ZmqInv
<1>5. ASSUME NEW i \in Streams, Planes!DropReceiver(i) PROVE ZmqInv'
  <2>1. /\ open' = open \ {i} /\ buffer' = [buffer EXCEPT ![i] = <<>>]
        /\ UNCHANGED <<due, wire, sent, active, used, got, held>>
    BY <1>5 DEF Planes!DropReceiver
  <2>2. \A j \in open' : Arrived(j)' = Arrived(j)
    BY <2>1 DEF ZmqInv, Arrived
  <2>3. \A j \in open' : Arrived(j)' = due'[j]
    BY <2>1, <2>2 DEF ZmqInv
  <2>4. buffer' \in [Streams -> Seq(Nat)] /\ \A j \in Streams \ used : buffer'[j] = <<>>
    BY <2>1 DEF ZmqInv
  <2> QED
    BY <2>1, <2>3, <2>4 DEF ZmqInv
<1>6. CASE Planes!NextFrame
  <2> DEFINE m == Head(wire)
  <2>1. /\ held = Planes!None /\ wire # <<>> /\ wire' = Tail(wire)
        /\ UNCHANGED <<sent, active, used, buffer, open, got>>
    BY <1>6 DEF Planes!NextFrame
  <2>2. m \in [id : Streams, n : Nat, parts : {2, 3}] /\ wire' \in Seq([id : Streams, n : Nat, parts : {2, 3}])
    BY <2>1, HeadTailProperties DEF ZmqInv
  <2>3. \A j \in open : Arrived(j) = got[j] \o buffer[j]
    <3> TAKE j \in open
    <3>1. j \in Streams /\ got[j] \in Seq(Nat) /\ buffer[j] \in Seq(Nat)
      BY DEF ZmqInv
    <3>2. got[j] \o buffer[j] \in Seq(Nat)
      BY <3>1, ConcatProperties
    <3>3. held.id # j
      BY <2>1, <3>1, <1>0, <1>n
    <3> QED
      BY <3>2, <3>3, <1>e DEF Arrived
  <2>4. CASE m.parts = 3 /\ m.id \in active
    <3>1. due' = [due EXCEPT ![m.id] = Append(@, m.n)] /\ held' = [id |-> m.id, n |-> m.n]
      BY <1>6, <2>4 DEF Planes!NextFrame
    <3> HIDE DEF m
    <3>2. m.id \in used /\ m.id \in Streams /\ m.n \in Nat /\ held'.id = m.id /\ held'.n = m.n
      BY <2>2, <2>4, <3>1 DEF ZmqInv
    <3>3. due' \in [Streams -> Seq(Nat)] /\ held' \in [id : used, n : Nat]
      BY <3>1, <3>2 DEF ZmqInv
    <3>4. ASSUME NEW j \in open PROVE Arrived(j)' = due'[j]
      <4>1. j \in Streams /\ got[j] \in Seq(Nat) /\ buffer[j] \in Seq(Nat)
        BY DEF ZmqInv
      <4>2. got[j] \o buffer[j] = due[j]
        BY <2>3, <3>4 DEF ZmqInv
      <4>3. CASE j = m.id
        <5>1. Arrived(j)' = (got[j] \o buffer[j]) \o <<m.n>>
          BY <4>3, <3>2, <2>1 DEF Arrived
        <5>2. due'[j] = Append(got[j] \o buffer[j], m.n)
          BY <4>1, <4>2, <4>3, <3>1 DEF ZmqInv
        <5> QED
          BY <5>1, <5>2, <4>1, <3>2, Handed
      <4>4. CASE j # m.id
        <5>1. Arrived(j)' = (got[j] \o buffer[j]) \o <<>> /\ due'[j] = due[j]
          BY <4>1, <4>4, <3>1, <3>2, <2>1 DEF Arrived, ZmqInv
        <5> QED
          BY <5>1, <4>1, <4>2, <1>e, ConcatProperties
      <4> QED
        BY <4>3, <4>4
    <3>5. \A j \in Streams \ used : due'[j] = due[j]
      BY <3>1, <3>2 DEF ZmqInv
    <3> QED
      BY <2>1, <2>2, <3>3, <3>4, <3>5 DEF ZmqInv
  <2>5. CASE ~(m.parts = 3 /\ m.id \in active)
    <3>1. UNCHANGED <<due, held>>
      BY <1>6, <2>1, <2>5 DEF Planes!NextFrame
    <3> QED
      BY <2>1, <2>2, <3>1 DEF ZmqInv, Arrived
  <2> QED
    BY <2>4, <2>5
<1>7. CASE Planes!SendItem
  <2>1. /\ held # Planes!None /\ held.id \in open /\ held' = Planes!None
        /\ buffer' = [buffer EXCEPT ![held.id] = Append(@, held.n)]
        /\ UNCHANGED <<due, wire, sent, active, used, open, got>>
    BY <1>7 DEF Planes!SendItem
  <2>2. held.id \in used /\ held.n \in Nat /\ held.id \in Streams
    BY <2>1 DEF ZmqInv
  <2>3. ASSUME NEW j \in open PROVE Arrived(j)' = due'[j]
    <3>1. j \in Streams /\ got[j] \in Seq(Nat) /\ buffer[j] \in Seq(Nat) /\ Arrived(j) = due[j]
      BY DEF ZmqInv
    <3>2. CASE j = held.id
      <4>1. Arrived(j)' = (got[j] \o Append(buffer[j], held.n)) \o <<>>
        BY <3>1, <3>2, <2>1, <2>2, <1>0, <1>n DEF Arrived, ZmqInv
      <4>2. got[j] \o Append(buffer[j], held.n) = Arrived(j) /\ got[j] \o Append(buffer[j], held.n) \in Seq(Nat)
        BY <3>1, <3>2, <2>2, Handed DEF Arrived
      <4> QED
        BY <4>1, <4>2, <3>1, <2>1, <1>e
    <3>3. CASE j # held.id
      BY <3>1, <3>3, <2>1, <2>2, <1>0, <1>n DEF Arrived, ZmqInv
    <3> QED
      BY <3>2, <3>3
  <2>4. buffer' \in [Streams -> Seq(Nat)] /\ \A j \in Streams \ used : buffer'[j] = buffer[j]
    BY <2>1, <2>2 DEF ZmqInv
  <2> QED
    BY <2>1, <2>3, <2>4 DEF ZmqInv
<1>8. CASE Planes!CloseStream
  <2>1. /\ held # Planes!None /\ held.id \notin open /\ held' = Planes!None /\ active' \subseteq active
        /\ UNCHANGED <<due, wire, sent, used, open, got, buffer>>
    BY <1>8 DEF Planes!CloseStream
  <2>2. \A j \in open : Arrived(j)' = Arrived(j)
    BY <2>1, <1>0, <1>n DEF ZmqInv, Arrived
  <2>3. \A j \in open' : Arrived(j)' = due'[j]
    BY <2>1, <2>2 DEF ZmqInv
  <2> QED
    BY <2>1, <2>3 DEF ZmqInv
<1>9. CASE Planes!Cancelled \/ Planes!Watch \/ Planes!CancelHandle \/ Planes!CancelParent
  <2>1. UNCHANGED <<got, buffer, due, used, active, open, held, wire, sent>>
    BY <1>9 DEF Planes!Cancelled, Planes!Watch, Planes!CancelHandle, Planes!CancelParent
  <2> QED
    BY <2>1 DEF ZmqInv, Arrived
<1> QED
  BY <1>1, <1>2, <1>3, <1>4, <1>5, <1>6, <1>7, <1>8, <1>9 DEF Planes!ZmqNext

\* What that says of a stream.
LEMMA ZmqSays == ZmqInv => Planes!StreamGetsAll
BY DEF ZmqInv, Arrived, Planes!StreamGetsAll

-----------------------------------------------------------------------------
(* The object pools                                                           *)

Held == {t \in Borrowers : item[t] # "none"}

\* Every value is in the queue or with one holder, in one place only, and what is in the
\* queue was reset.
ValuesInv ==
    /\ DOMAIN pc = Borrowers /\ item \in [Borrowers -> Items \cup {"none"}] /\ pool \in Seq(Items)
    /\ \A t \in Borrowers : item[t] # "none" <=> pc[t] = "have"
    /\ \A i, j \in 1 .. Len(pool) : pool[i] = pool[j] => i = j
    /\ \A t \in Borrowers, i \in 1 .. Len(pool) : pool[i] # item[t]
    /\ \A t, u \in Held : item[t] = item[u] => t = u
    /\ \A i \in 1 .. Len(pool) : pool[i] \in returned
    /\ \A x \in Items : (\E i \in 1 .. Len(pool) : pool[i] = x) \/ (\E t \in Borrowers : item[t] = x)
    /\ Len(pool) + Cardinality(Held) = Cardinality(Items)

Sleepers == {t \in Borrowers : pc[t] = "waiting" /\ t \notin woken}
Trying == {t \in Borrowers : pc[t] = "try"}

\* Pool: no permit is kept beside a sleeper, and with a value in the queue and somebody
\* waiting, or about to, there is a notification, or somebody who will take a value or
\* give one back.
WakesInv ==
    /\ Sleepers # {} => ~permit
    /\ pool # <<>> /\ (\E t \in Borrowers : pc[t] \in {"await", "waiting"}) =>
        permit \/ woken # {} \/ \E t \in Borrowers : pc[t] \in {"try", "have"}

\* SyncPool: who was notified is still waiting, nobody is between the unlocking and the
\* waiting, and beside a sleeper every value in the queue has somebody on the way to it.
CondvarInv ==
    /\ woken \subseteq {t \in Borrowers : pc[t] = "waiting"}
    /\ \A t \in Borrowers : pc[t] # "await"
    /\ Sleepers # {} => Len(pool) <= Cardinality(woken) + Cardinality(Trying)

\* The steps of both pools, as they change who has which value.
Keeps ==
    /\ UNCHANGED <<pool, returned, item>> /\ DOMAIN pc' = Borrowers
    /\ \A t \in Borrowers : pc'[t] = "have" <=> pc[t] = "have"
Takes(t) ==
    /\ pc[t] # "have" /\ pool # <<>> /\ pool' = Tail(pool) /\ item' = [item EXCEPT ![t] = Head(pool)]
    /\ returned' = returned \ {Head(pool)} /\ pc' = [pc EXCEPT ![t] = "have"]
GivesBack(t) ==
    /\ pc[t] = "have" /\ pool' = Append(pool, item[t]) /\ item' = [item EXCEPT ![t] = "none"]
    /\ returned' = returned \cup {item[t]} /\ pc' = [pc EXCEPT ![t] = "idle"]

\* The modules of the pools count, and list a set, as this one does.
LEMMA PoolCounts == \A S : Async!Cardinality(S) = Cardinality(S) /\ Sync!Cardinality(S) = Cardinality(S)
BY DEF Async!Cardinality, Sync!Cardinality, Cardinality

\* The queue starts with each of the values once.
LEMMA PoolLists ==
    ASSUME IsFiniteSet(Items)
    PROVE  LET q == Async!SetToSeq(Items) IN
           /\ q \in [1 .. Cardinality(Items) -> Items]
           /\ \A i, j \in 1 .. Cardinality(Items) : q[i] = q[j] => i = j
           /\ \A x \in Items : \E i \in 1 .. Cardinality(Items) : q[i] = x
<1> DEFINE n == Cardinality(Items)
<1>1. n \in Nat /\ ExistsBijection(1 .. n, Items)
  BY FS_CardinalityType
<1>2. PICK f \in [1 .. n -> Items] : \A i, j \in 1 .. n : f[i] = f[j] => i = j
  BY <1>1 DEF ExistsBijection, Bijection, Injection, IsInjective
<1> HIDE DEF n
<1>3. Async!SetToSeq(Items) = CHOOSE g \in [1 .. n -> Items] : Async!IsInjective(g)
  BY PoolCounts DEF Async!SetToSeq, n
<1>4. Async!IsInjective(f)
  BY <1>2 DEF Async!IsInjective
<1>5. PICK g \in [1 .. n -> Items] : g = Async!SetToSeq(Items) /\ Async!IsInjective(g)
  BY <1>3, <1>4, <1>2
<1>6. \A i, j \in 1 .. n : g[i] = g[j] => i = j
  BY <1>5 DEF Async!IsInjective
<1>7. g \in Injection(1 .. n, Items)
  BY <1>6 DEF Injection, IsInjective
<1>8. Cardinality(1 .. n) = n
  BY <1>1, FS_Interval
<1>9. g \in Surjection(1 .. n, Items)
  BY <1>7, <1>8, FS_Injection DEF n
<1>10. \A x \in Items : \E i \in 1 .. n : g[i] = x
  BY <1>9 DEF Surjection
<1> QED
  BY <1>5, <1>6, <1>10 DEF n

\* At the start all values are in the queue.
LEMMA ValuesStart == Async!Init => ValuesInv
<1> SUFFICES ASSUME Async!Init PROVE ValuesInv
  OBVIOUS
<1> DEFINE n == Cardinality(Items)
<1>0. /\ pool = Async!SetToSeq(Items) /\ returned = Items /\ pc = [t \in Borrowers |-> "idle"]
      /\ item = [t \in Borrowers |-> "none"] /\ IsFiniteSet(Items) /\ "none" \notin Items /\ n \in Nat
  BY PlaneAssumption, FS_CardinalityType DEF Async!Init, Async!None
<1>1. /\ pool \in [1 .. n -> Items]
      /\ \A i, j \in 1 .. n : pool[i] = pool[j] => i = j
      /\ \A x \in Items : \E i \in 1 .. n : pool[i] = x
  BY <1>0, PoolLists
<1> HIDE DEF n
<1>2. pool \in Seq(Items) /\ Len(pool) = n
  BY <1>0, <1>1
<1>3. Held = {} /\ Cardinality(Held) = 0
  BY <1>0, FS_EmptySet DEF Held
<1>4. Len(pool) + Cardinality(Held) = Cardinality(Items)
  BY <1>0, <1>2, <1>3 DEF n
<1>5. \A i \in 1 .. n : pool[i] \in Items
  BY <1>1
<1> QED
  BY <1>0, <1>1, <1>2, <1>3, <1>4, <1>5 DEF ValuesInv

\* try_acquire moves the head of the queue to a holder.
LEMMA ValuesTaken ==
    ASSUME ValuesInv, NEW t \in Borrowers, Takes(t)
    PROVE  ValuesInv'
<1>1. /\ pool \in Seq(Items) /\ pool # <<>> /\ pool' = Tail(pool) /\ Len(pool) \in Nat \ {0}
      /\ Len(pool') = Len(pool) - 1 /\ pool' \in Seq(Items) /\ Head(pool) = pool[1] /\ pool[1] \in Items
      /\ \A i \in 1 .. Len(pool') : i + 1 \in 1 .. Len(pool) /\ pool'[i] = pool[i + 1]
  BY DEF ValuesInv, Takes
<1>2. /\ item' = [item EXCEPT ![t] = pool[1]] /\ item[t] = "none" /\ pool[1] # "none"
      /\ returned' = returned \ {pool[1]} /\ pc' = [pc EXCEPT ![t] = "have"]
  BY <1>1, PlaneAssumption DEF ValuesInv, Takes
<1>3. /\ item' \in [Borrowers -> Items \cup {"none"}] /\ DOMAIN pc' = Borrowers
      /\ item'[t] = pool[1] /\ \A u \in Borrowers \ {t} : item'[u] = item[u]
      /\ \A u \in Borrowers : item'[u] # "none" <=> pc'[u] = "have"
  BY <1>1, <1>2 DEF ValuesInv
<1>4. Held' = Held \cup {t} /\ t \notin Held
  BY <1>2, <1>3 DEF Held
<1>5. IsFiniteSet(Held) /\ Cardinality(Held) \in Nat
  BY PlaneAssumption, FS_Subset, FS_CardinalityType DEF Held
<1>6. Cardinality(Held') = Cardinality(Held) + 1
  BY <1>4, <1>5, FS_AddElement
<1>7. Len(pool') + Cardinality(Held') = Cardinality(Items)
  BY <1>1, <1>5, <1>6 DEF ValuesInv
<1>8. 1 \in 1 .. Len(pool)
  BY <1>1
<1>9. \A i, j \in 1 .. Len(pool') : pool'[i] = pool'[j] => i = j
  <2> TAKE i, j \in 1 .. Len(pool')
  <2>1. pool[i + 1] = pool[j + 1] => i + 1 = j + 1
    BY <1>1 DEF ValuesInv
  <2> QED
    BY <2>1, <1>1
<1>10. \A i \in 1 .. Len(pool') : pool'[i] # pool[1]
  <2> TAKE i \in 1 .. Len(pool')
  <2>1. pool[i + 1] = pool[1] => i + 1 = 1
    BY <1>1, <1>8 DEF ValuesInv
  <2> QED
    BY <2>1, <1>1
<1>11. \A u \in Borrowers, i \in 1 .. Len(pool') : pool'[i] # item'[u]
  BY <1>1, <1>3, <1>10 DEF ValuesInv
<1>12. \A u, v \in Held' : item'[u] = item'[v] => u = v
  <2>1. \A u \in Held : item[u] # pool[1] /\ u \in Borrowers
    BY <1>8 DEF ValuesInv, Held
  <2> QED
    BY <2>1, <1>3, <1>4 DEF ValuesInv
<1>13. \A i \in 1 .. Len(pool') : pool'[i] \in returned'
  BY <1>1, <1>2, <1>10 DEF ValuesInv
<1>14. ASSUME NEW x \in Items
       PROVE  (\E i \in 1 .. Len(pool') : pool'[i] = x) \/ (\E u \in Borrowers : item'[u] = x)
  <2>1. CASE \E u \in Borrowers : item[u] = x
    BY <2>1, <1>2, <1>3, PlaneAssumption
  <2>2. ASSUME NEW i \in 1 .. Len(pool), pool[i] = x
        PROVE  (\E k \in 1 .. Len(pool') : pool'[k] = x) \/ (\E u \in Borrowers : item'[u] = x)
    <3>1. CASE i = 1
      BY <3>1, <2>2, <1>3
    <3>2. CASE i # 1
      <4>1. i - 1 \in 1 .. Len(pool') /\ (i - 1) + 1 = i
        BY <3>2, <1>1
      <4> QED
        BY <4>1, <2>2, <1>1
    <3> QED
      BY <3>1, <3>2
  <2> QED
    BY <2>1, <2>2 DEF ValuesInv
<1> QED
  BY <1>1, <1>3, <1>7, <1>9, <1>11, <1>12, <1>13, <1>14 DEF ValuesInv

\* A dropped item goes to the end of the queue.
LEMMA ValuesGivenBack ==
    ASSUME ValuesInv, NEW t \in Borrowers, GivesBack(t)
    PROVE  ValuesInv'
<1> DEFINE x == item[t]
<1>1. x \in Items /\ x # "none" /\ t \in Held
  BY PlaneAssumption DEF ValuesInv, GivesBack, Held
<1>2. /\ pool' = Append(pool, x) /\ item' = [item EXCEPT ![t] = "none"]
      /\ returned' = returned \cup {x} /\ pc' = [pc EXCEPT ![t] = "idle"]
  BY DEF GivesBack
<1>x. \A u \in Held : item[u] = x => u = t
  BY <1>1 DEF ValuesInv
<1>y. \A i \in 1 .. Len(pool) : pool[i] # x
  BY DEF ValuesInv
<1>z. \A u \in Borrowers : item[u] = x => u = t
  BY <1>x, <1>1 DEF Held
<1> HIDE DEF x
<1>3. /\ pool \in Seq(Items) /\ pool' \in Seq(Items) /\ Len(pool') = Len(pool) + 1 /\ Len(pool) \in Nat
      /\ \A i \in 1 .. Len(pool) : pool'[i] = pool[i]
      /\ pool'[Len(pool) + 1] = x
      /\ \A i \in 1 .. Len(pool') : i \in 1 .. Len(pool) \/ i = Len(pool) + 1
      /\ \A i \in 1 .. Len(pool) : i \in 1 .. Len(pool')
      /\ Len(pool) + 1 \in 1 .. Len(pool')
  BY <1>1, <1>2 DEF ValuesInv
<1>4. /\ item' \in [Borrowers -> Items \cup {"none"}] /\ DOMAIN pc' = Borrowers
      /\ item'[t] = "none" /\ \A u \in Borrowers \ {t} : item'[u] = item[u]
      /\ \A u \in Borrowers : item'[u] # "none" <=> pc'[u] = "have"
  BY <1>2 DEF ValuesInv
<1>5. Held' = Held \ {t}
  BY <1>4 DEF Held
<1>6. IsFiniteSet(Held) /\ Cardinality(Held) \in Nat
  BY PlaneAssumption, FS_Subset, FS_CardinalityType DEF Held
<1>7. Cardinality(Held') = Cardinality(Held) - 1
  BY <1>1, <1>5, <1>6, FS_RemoveElement
<1>8. Len(pool') + Cardinality(Held') = Cardinality(Items)
  BY <1>3, <1>6, <1>7 DEF ValuesInv
<1>9. \A i, j \in 1 .. Len(pool') : pool'[i] = pool'[j] => i = j
  BY <1>3, <1>y DEF ValuesInv
<1>10. \A u \in Borrowers, i \in 1 .. Len(pool') : pool'[i] # item'[u]
  <2> TAKE u \in Borrowers, i \in 1 .. Len(pool')
  <2>1. pool'[i] \in Items
    BY <1>3
  <2>2. CASE u = t
    BY <2>1, <2>2, <1>4, PlaneAssumption
  <2>3. CASE u # t
    BY <2>3, <1>3, <1>4, <1>z DEF ValuesInv
  <2> QED
    BY <2>2, <2>3
<1>11. \A u, v \in Held' : item'[u] = item'[v] => u = v
  BY <1>4, <1>5 DEF ValuesInv, Held
<1>12. \A i \in 1 .. Len(pool') : pool'[i] \in returned'
  BY <1>2, <1>3 DEF ValuesInv
<1>13. ASSUME NEW y \in Items
       PROVE  (\E i \in 1 .. Len(pool') : pool'[i] = y) \/ (\E u \in Borrowers : item'[u] = y)
  <2>1. CASE y = x
    BY <2>1, <1>3
  <2>2. ASSUME NEW i \in 1 .. Len(pool), pool[i] = y PROVE \E k \in 1 .. Len(pool') : pool'[k] = y
    BY <2>2, <1>3
  <2>3. ASSUME NEW u \in Borrowers, item[u] = y, y # x PROVE item'[u] = y
    BY <2>3, <1>4 DEF x
  <2> QED
    BY <2>1, <2>2, <2>3 DEF ValuesInv
<1> QED
  BY <1>3, <1>4, <1>8, <1>9, <1>10, <1>11, <1>12, <1>13 DEF ValuesInv

\* Each of the three keeps the values.
LEMMA ValuesStep ==
    ASSUME ValuesInv, Keeps \/ \E t \in Borrowers : Takes(t) \/ GivesBack(t)
    PROVE  ValuesInv'
<1>1. CASE Keeps
  <2>1. Held' = Held
    BY <1>1 DEF Keeps, Held
  <2> QED
    BY <1>1, <2>1 DEF Keeps, ValuesInv
<1> QED
  BY <1>1, ValuesTaken, ValuesGivenBack

\* The steps of Pool are of these kinds.
LEMMA AsyncMoves ==
    ASSUME ValuesInv, Async!Next
    PROVE  Keeps \/ \E t \in Borrowers : Takes(t) \/ GivesBack(t)
<1> USE DEF Async!Goto
<1>0. PICK t \in Borrowers : \/ Async!Acquire(t) \/ Async!TryAcquire(t) \/ Async!Notified(t) \/ Async!Wake(t)
                            \/ Async!Cancel(t) \/ Async!CloneShared(t) \/ Async!DropItem(t)
  BY DEF Async!Next
<1>1. CASE Async!Acquire(t) \/ Async!Notified(t) \/ Async!Wake(t) \/ Async!Cancel(t)
  <2>1. /\ UNCHANGED <<pool, returned, item>> /\ pc[t] # "have"
        /\ \E p \in {"try", "waiting", "idle"} : pc' = [pc EXCEPT ![t] = p]
    BY <1>1 DEF Async!Acquire, Async!Notified, Async!Wake, Async!Cancel
  <2> QED
    BY <2>1 DEF Keeps, ValuesInv
<1>2. CASE Async!TryAcquire(t)
  <2>1. CASE Async!PopFront(t)
    BY <1>2, <2>1 DEF Async!TryAcquire, Async!PopFront, Takes
  <2>2. CASE ~Async!PopFront(t)
    <3>1. /\ UNCHANGED <<pool, returned, item>> /\ pc[t] # "have"
          /\ \E p \in {"await", "waiting"} : pc' = [pc EXCEPT ![t] = p]
      BY <1>2, <2>2 DEF Async!TryAcquire
    <3> QED
      BY <3>1 DEF Keeps, ValuesInv
  <2> QED
    BY <2>1, <2>2
<1>3. CASE Async!CloneShared(t)
  BY <1>3 DEF Async!CloneShared, Keeps, ValuesInv
<1>4. CASE Async!DropItem(t)
  <2>1. CASE copies[t] > 1
    BY <1>4, <2>1 DEF Async!DropItem, Keeps, ValuesInv
  <2>2. CASE ~(copies[t] > 1)
    BY <1>4, <2>2 DEF Async!DropItem, Async!None, GivesBack
  <2> QED
    BY <2>1, <2>2
<1> QED
  BY <1>0, <1>1, <1>2, <1>3, <1>4

\* What the invariants say of Pool.
LEMMA AsyncSays == ValuesInv /\ WakesInv => Async!Conserved /\ Async!NoLostWakeup
<1> SUFFICES ASSUME ValuesInv, WakesInv PROVE Async!Conserved /\ Async!NoLostWakeup
  OBVIOUS
<1>1. Async!ToSet(pool) = {pool[i] : i \in 1 .. Len(pool)}
  BY DEF Async!ToSet, ValuesInv
<1>2. Held = {t \in Borrowers : item[t] # Async!None}
  BY DEF Held, Async!None
<1>3. Async!ToSet(pool) \cup {item[t] : t \in Held} = Items
  BY <1>1, PlaneAssumption DEF ValuesInv, Held
<1>4. Async!ToSet(pool) \subseteq returned
  BY <1>1 DEF ValuesInv
<1>5. Len(pool) + Async!Cardinality(Held) = Async!Cardinality(Items)
  BY PoolCounts DEF ValuesInv
<1>6. Async!Conserved
  BY <1>2, <1>3, <1>4, <1>5 DEF Async!Conserved
<1>7. Async!NoLostWakeup
  BY DEF WakesInv, Sleepers, Async!NoLostWakeup, Async!AsyncWakes, Async!Asleep
<1> QED
  BY <1>6, <1>7

\* A return before anybody sleeps leaves a permit, which the next to poll takes, so no
\* sleeper has one beside it.
LEMMA AsyncWakes ==
    ASSUME ValuesInv, WakesInv, Async!Next
    PROVE  WakesInv'
<1> USE DEF Async!Goto, Sleepers
<1>0. PICK t \in Borrowers : \/ Async!Acquire(t) \/ Async!TryAcquire(t) \/ Async!Notified(t) \/ Async!Wake(t)
                            \/ Async!Cancel(t) \/ Async!CloneShared(t) \/ Async!DropItem(t)
  BY DEF Async!Next
<1>1. DOMAIN pc = Borrowers
  BY DEF ValuesInv
<1>2. CASE Async!Acquire(t)
  BY <1>1, <1>2 DEF Async!Acquire, WakesInv
<1>3. CASE Async!TryAcquire(t)
  BY <1>1, <1>3 DEF Async!TryAcquire, Async!PopFront, WakesInv
<1>4. CASE Async!Notified(t)
  BY <1>1, <1>4 DEF Async!Notified, WakesInv
<1>5. CASE Async!Wake(t)
  BY <1>1, <1>5 DEF Async!Wake, WakesInv
<1>6. CASE Async!Cancel(t)
  BY <1>1, <1>6 DEF Async!Cancel, WakesInv
<1>7. CASE Async!CloneShared(t)
  BY <1>1, <1>7 DEF Async!CloneShared, WakesInv
<1>8. CASE Async!DropItem(t)
  BY <1>1, <1>8 DEF Async!DropItem, Async!NotifyOne, WakesInv
<1> QED
  BY <1>0, <1>2, <1>3, <1>4, <1>5, <1>6, <1>7, <1>8

\* The steps of SyncPool are of these kinds.
LEMMA SyncMoves ==
    ASSUME ValuesInv, Sync!Next
    PROVE  Keeps \/ \E t \in Borrowers : Takes(t) \/ GivesBack(t)
<1> USE DEF Sync!Goto
<1>0. PICK t \in Borrowers : \/ Sync!Acquire(t) \/ Sync!TryAcquire(t) \/ Sync!Notified(t) \/ Sync!Wake(t)
                            \/ Sync!Cancel(t) \/ Sync!CloneShared(t) \/ Sync!DropItem(t)
  BY DEF Sync!Next
<1>1. CASE Sync!Acquire(t) \/ Sync!Notified(t) \/ Sync!Wake(t) \/ Sync!Cancel(t)
  <2>1. /\ UNCHANGED <<pool, returned, item>> /\ pc[t] # "have"
        /\ \E p \in {"try", "waiting", "idle"} : pc' = [pc EXCEPT ![t] = p]
    BY <1>1 DEF Sync!Acquire, Sync!Notified, Sync!Wake, Sync!Cancel
  <2> QED
    BY <2>1 DEF Keeps, ValuesInv
<1>2. CASE Sync!TryAcquire(t)
  <2>1. CASE Sync!PopFront(t)
    BY <1>2, <2>1 DEF Sync!TryAcquire, Sync!PopFront, Takes
  <2>2. CASE ~Sync!PopFront(t)
    <3>1. /\ UNCHANGED <<pool, returned, item>> /\ pc[t] # "have"
          /\ \E p \in {"await", "waiting"} : pc' = [pc EXCEPT ![t] = p]
      BY <1>2, <2>2 DEF Sync!TryAcquire
    <3> QED
      BY <3>1 DEF Keeps, ValuesInv
  <2> QED
    BY <2>1, <2>2
<1>3. CASE Sync!CloneShared(t)
  BY <1>3 DEF Sync!CloneShared, Keeps, ValuesInv
<1>4. CASE Sync!DropItem(t)
  <2>1. CASE copies[t] > 1
    BY <1>4, <2>1 DEF Sync!DropItem, Keeps, ValuesInv
  <2>2. CASE ~(copies[t] > 1)
    BY <1>4, <2>2 DEF Sync!DropItem, Sync!None, GivesBack
  <2> QED
    BY <2>1, <2>2
<1> QED
  BY <1>0, <1>1, <1>2, <1>3, <1>4

\* What the invariants say of SyncPool.
LEMMA SyncSays == ValuesInv /\ CondvarInv => Sync!Conserved /\ Sync!NoLostWakeup
<1> SUFFICES ASSUME ValuesInv, CondvarInv PROVE Sync!Conserved /\ Sync!NoLostWakeup
  OBVIOUS
<1>1. Sync!ToSet(pool) = {pool[i] : i \in 1 .. Len(pool)}
  BY DEF Sync!ToSet, ValuesInv
<1>2. Held = {t \in Borrowers : item[t] # Sync!None}
  BY DEF Held, Sync!None
<1>3. Sync!ToSet(pool) \cup {item[t] : t \in Held} = Items
  BY <1>1, PlaneAssumption DEF ValuesInv, Held
<1>4. Sync!ToSet(pool) \subseteq returned
  BY <1>1 DEF ValuesInv
<1>5. Len(pool) + Sync!Cardinality(Held) = Sync!Cardinality(Items)
  BY PoolCounts DEF ValuesInv
<1>6. Sync!Conserved
  BY <1>2, <1>3, <1>4, <1>5 DEF Sync!Conserved
<1>7. Sync!NoLostWakeup
  BY PoolCounts DEF CondvarInv, Sleepers, Trying, Sync!NoLostWakeup, Sync!SyncWakes, Sync!Asleep
<1> QED
  BY <1>6, <1>7

\* One more or one fewer of the tasks counts one more or one fewer.
LEMMA TaskCounts ==
    ASSUME NEW S \in SUBSET Borrowers, NEW t \in Borrowers
    PROVE  /\ Cardinality(S) \in Nat
           /\ t \notin S => Cardinality(S \cup {t}) = Cardinality(S) + 1
           /\ t \in S => Cardinality(S \ {t}) = Cardinality(S) - 1
<1>1. IsFiniteSet(S)
  BY PlaneAssumption, FS_Subset
<1> QED
  BY <1>1, FS_CardinalityType, FS_AddElement, FS_RemoveElement

\* A thread takes the value it was on the way to, goes to sleep only with an empty queue,
\* and a return notifies a sleeper when there is one.
LEMMA SyncWakes ==
    ASSUME ValuesInv, CondvarInv, Sync!Next
    PROVE  CondvarInv'
<1> USE DEF Sync!Goto
<1>0. PICK t \in Borrowers : \/ Sync!Acquire(t) \/ Sync!TryAcquire(t) \/ Sync!Notified(t) \/ Sync!Wake(t)
                            \/ Sync!Cancel(t) \/ Sync!CloneShared(t) \/ Sync!DropItem(t)
  BY DEF Sync!Next
<1>1. DOMAIN pc = Borrowers /\ pool \in Seq(Items) /\ woken \in SUBSET Borrowers
  BY DEF ValuesInv, CondvarInv
<1>2. Trying \in SUBSET Borrowers /\ Cardinality(woken) \in Nat /\ Cardinality(Trying) \in Nat
  BY <1>0, <1>1, TaskCounts DEF Trying
<1>3. Len(pool) \in Nat
  BY <1>1
<1>4. CASE Sync!Acquire(t)
  <2>1. pc[t] = "idle" /\ pc' = [pc EXCEPT ![t] = "try"] /\ UNCHANGED <<pool, woken>>
    BY <1>4 DEF Sync!Acquire
  <2>2. Sleepers' = Sleepers /\ Trying' = Trying \cup {t} /\ t \notin Trying
    BY <1>1, <2>1 DEF Sleepers, Trying
  <2>3. Cardinality(Trying') = Cardinality(Trying) + 1
    BY <2>2, <1>2, TaskCounts
  <2>4. woken' \subseteq {u \in Borrowers : pc'[u] = "waiting"} /\ \A u \in Borrowers : pc'[u] # "await"
    BY <1>1, <2>1 DEF CondvarInv
  <2>5. Sleepers' # {} => Len(pool') <= Cardinality(woken') + Cardinality(Trying')
    BY <1>2, <1>3, <2>1, <2>2, <2>3 DEF CondvarInv
  <2> QED
    BY <2>4, <2>5 DEF CondvarInv
<1>5. CASE Sync!TryAcquire(t) /\ pool = <<>>
  <2>1. pc[t] = "try" /\ pc' = [pc EXCEPT ![t] = "waiting"] /\ UNCHANGED <<pool, woken>>
    BY <1>5 DEF Sync!TryAcquire, Sync!PopFront
  <2>2. Trying' \in SUBSET Borrowers /\ Len(pool') = 0
    BY <1>5, <2>1 DEF Trying
  <2>3. Cardinality(woken') \in Nat /\ Cardinality(Trying') \in Nat
    BY <1>2, <2>1, <2>2, TaskCounts
  <2>4. woken' \subseteq {u \in Borrowers : pc'[u] = "waiting"} /\ \A u \in Borrowers : pc'[u] # "await"
    BY <1>1, <2>1 DEF CondvarInv
  <2> QED
    BY <2>2, <2>3, <2>4 DEF CondvarInv
<1>6. CASE Sync!TryAcquire(t) /\ pool # <<>>
  <2>1. pc[t] = "try" /\ pc' = [pc EXCEPT ![t] = "have"] /\ pool' = Tail(pool) /\ UNCHANGED woken
    BY <1>6 DEF Sync!TryAcquire, Sync!PopFront
  <2>2. Sleepers' = Sleepers /\ Trying' = Trying \ {t} /\ t \in Trying
    BY <1>1, <2>1 DEF Sleepers, Trying
  <2>3. Cardinality(Trying') = Cardinality(Trying) - 1
    BY <2>2, <1>2, TaskCounts
  <2>4. woken' \subseteq {u \in Borrowers : pc'[u] = "waiting"} /\ \A u \in Borrowers : pc'[u] # "await"
    BY <1>1, <2>1 DEF CondvarInv
  <2>5. Len(pool') = Len(pool) - 1
    BY <1>1, <1>6, <2>1
  <2>6. Cardinality(woken') = Cardinality(woken)
    BY <2>1
  <2>7. Sleepers # {} => Len(pool) <= Cardinality(woken) + Cardinality(Trying)
    BY DEF CondvarInv
  <2>8. Sleepers' # {} => Len(pool') <= Cardinality(woken') + Cardinality(Trying')
    BY <1>2, <1>3, <2>2, <2>3, <2>5, <2>6, <2>7
  <2> QED
    BY <2>4, <2>8 DEF CondvarInv
<1>7. CASE Sync!Notified(t)
  BY <1>7 DEF Sync!Notified, CondvarInv
<1>8. CASE Sync!Wake(t)
  <2>1. pc[t] = "waiting" /\ t \in woken /\ woken' = woken \ {t} /\ pc' = [pc EXCEPT ![t] = "try"] /\ UNCHANGED pool
    BY <1>8 DEF Sync!Wake
  <2>2. Sleepers' = Sleepers /\ Trying' = Trying \cup {t} /\ t \notin Trying
    BY <1>1, <2>1 DEF Sleepers, Trying
  <2>3. Cardinality(Trying') = Cardinality(Trying) + 1 /\ Cardinality(woken') = Cardinality(woken) - 1
    BY <2>1, <2>2, <1>1, <1>2, TaskCounts
  <2>4. woken' \subseteq {u \in Borrowers : pc'[u] = "waiting"} /\ \A u \in Borrowers : pc'[u] # "await"
    BY <1>1, <2>1 DEF CondvarInv
  <2>5. Sleepers' # {} => Len(pool') <= Cardinality(woken') + Cardinality(Trying')
    BY <1>2, <1>3, <2>1, <2>2, <2>3 DEF CondvarInv
  <2> QED
    BY <2>4, <2>5 DEF CondvarInv
<1>9. CASE Sync!Cancel(t) \/ Sync!CloneShared(t)
  BY <1>9 DEF Sync!Cancel, Sync!CloneShared
<1>10. CASE Sync!DropItem(t) /\ copies[t] > 1
  BY <1>10 DEF Sync!DropItem, CondvarInv, Sleepers, Trying
<1>11. CASE Sync!DropItem(t) /\ ~(copies[t] > 1)
  <2>1. pc[t] = "have" /\ pc' = [pc EXCEPT ![t] = "idle"] /\ pool' = Append(pool, item[t]) /\ Sync!NotifyOne
    BY <1>11 DEF Sync!DropItem
  <2>2. item[t] \in Items
    BY <2>1, PlaneAssumption DEF ValuesInv
  <2>3. Len(pool') = Len(pool) + 1
    BY <1>1, <2>1, <2>2
  <2>4. Trying' = Trying
    BY <1>1, <2>1 DEF Trying
  <2>5. CASE Sleepers = {}
    <3>1. UNCHANGED woken
      BY <2>1, <2>5 DEF Sync!NotifyOne, Sleepers
    <3>2. Sleepers' = {}
      BY <1>1, <2>1, <2>5, <3>1 DEF Sleepers
    <3> QED
      BY <1>1, <2>1, <3>1, <3>2 DEF CondvarInv
  <2>6. CASE Sleepers # {}
    <3>1. PICK u \in Sleepers : woken' = woken \cup {u}
      BY <2>1, <2>6 DEF Sync!NotifyOne, Sleepers
    <3>2. u \in Borrowers /\ u \notin woken /\ pc[u] = "waiting"
      BY DEF Sleepers
    <3>3. Cardinality(woken') = Cardinality(woken) + 1
      BY <1>1, <3>1, <3>2, TaskCounts
    <3>4. woken' \subseteq {v \in Borrowers : pc'[v] = "waiting"} /\ \A v \in Borrowers : pc'[v] # "await"
      BY <1>1, <2>1, <3>1, <3>2 DEF CondvarInv
    <3>5. Len(pool') <= Cardinality(woken') + Cardinality(Trying')
      BY <1>2, <1>3, <2>3, <2>4, <2>6, <3>3 DEF CondvarInv
    <3> QED
      BY <3>4, <3>5 DEF CondvarInv
  <2> QED
    BY <2>5, <2>6
<1> QED
  BY <1>0, <1>4, <1>5, <1>6, <1>7, <1>8, <1>9, <1>10, <1>11

-----------------------------------------------------------------------------
(* Contexts                                                                   *)

\* c is with the frames of t's calls: one of them tells it, or has yet to call a child
\* that it is below.
Owing(t, c) ==
    \E i \in 1 .. Len(stack[t]) :
        \/ c = stack[t][i][1]
        \/ \E j \in 1 .. Len(stack[t][i][2]) : c \in Cancel!Below(stack[t][i][2][j])

\* Whoever a stop or kill is for has been told, or is with its frames. Only a stop and
\* a stream that nobody waits for stop without killing.
PipeInv ==
    /\ DOMAIN state = Contexts /\ children \in [Contexts -> Seq(Contexts)]
    /\ stack \in [Stoppers -> Seq(Contexts \X Seq(Contexts))]
    /\ kind \in [Stoppers -> {"none", "stop", "kill"}] /\ reach \in [Stoppers -> SUBSET Contexts]
    /\ \A t \in Stoppers : kind[t] = "none" => stack[t] = <<>> /\ reach[t] = {}
    /\ \A t \in Stoppers : \A c \in reach[t] : state[c] # "Live" \/ Owing(t, c)
    /\ \A c \in Contexts : state[c] \in {"Live", "Stopped", "Killed"}
    /\ orphans = {} /\ (\A t \in Stoppers : kind[t] # "stop") => \A c \in Contexts : state[c] # "Stopped"
    /\ orphans \subseteq Contexts /\ \A r \in orphans : state[r] # "Live"

\* No context has children, and nobody has called.
LEMMA PipeStart == Cancel!PipeInit => PipeInv
BY DEF Cancel!PipeInit, PipeInv

\* Links are only added, so nobody leaves what is below a context.
LEMMA BelowGrows ==
    ASSUME NEW l \in Links, PipeInv, Cancel!LinkChild(l), NEW d \in Contexts
    PROVE  Cancel!Below(d) \subseteq Cancel!Below(d)' /\ children' \in [Contexts -> Seq(Contexts)]
<1>1. l[1] \in Contexts /\ l[2] \in Contexts
  BY PlaneAssumption
<1>2. children' = [children EXCEPT ![l[1]] = Append(@, l[2])] /\ children \in [Contexts -> Seq(Contexts)]
  BY DEF Cancel!LinkChild, PipeInv
<1>3. children' \in [Contexts -> Seq(Contexts)]
  BY <1>1, <1>2
<1>4. ASSUME NEW c \in Contexts PROVE Cancel!ToSet(children[c]) \subseteq Cancel!ToSet(children'[c])
  <2>1. CASE c = l[1]
    <3>1. children'[c] = Append(children[c], l[2]) /\ children[c] \in Seq(Contexts)
      BY <1>2, <2>1, <1>1
    <3>2. ASSUME NEW i \in DOMAIN children[c] PROVE i \in DOMAIN children'[c] /\ children'[c][i] = children[c][i]
      BY <3>1, <1>1
    <3> QED
      BY <3>2 DEF Cancel!ToSet
  <2>2. CASE c # l[1]
    BY <1>2, <2>2
  <2> QED
    BY <2>1, <2>2
<1>5. ASSUME NEW S \in SUBSET Contexts, Cancel!Closed(S)' PROVE Cancel!Closed(S)
  BY <1>4, <1>5 DEF Cancel!Closed, Cancel!ToSet
<1> QED
  BY <1>3, <1>5 DEF Cancel!Below

\* What is below a context is the context itself, or below one of its children.
LEMMA BelowUnfolds ==
    ASSUME PipeInv, NEW d \in Contexts, NEW c \in Cancel!Below(d), c # d
    PROVE  \E j \in 1 .. Len(children[d]) : c \in Cancel!Below(children[d][j])
<1> SUFFICES ASSUME \A j \in 1 .. Len(children[d]) : c \notin Cancel!Below(children[d][j]) PROVE FALSE
  OBVIOUS
<1> DEFINE U == {y \in Contexts : c \notin Cancel!Below(y)}
<1>0. children \in [Contexts -> Seq(Contexts)] /\ c \in Contexts
  BY DEF PipeInv, Cancel!Below
<1>1. \A j \in DOMAIN children[d] : children[d][j] \in U
  <2>1. children[d] \in Seq(Contexts) /\ DOMAIN children[d] = 1 .. Len(children[d])
    BY <1>0
  <2> QED
    BY <2>1
<1>2. ASSUME NEW y \in U, NEW z \in Cancel!ToSet(children[y]) PROVE z \in U
  <2>1. y \in Contexts /\ children[y] \in Seq(Contexts)
    BY <1>0
  <2>2. z \in Contexts
    BY <2>1 DEF Cancel!ToSet
  <2>3. PICK S \in SUBSET Contexts : Cancel!Closed(S) /\ y \in S /\ c \notin S
    BY <1>0, <2>1 DEF Cancel!Below
  <2>4. z \in S
    BY <2>3 DEF Cancel!Closed
  <2> QED
    BY <2>2, <2>3, <2>4 DEF Cancel!Below
<1>3. c \notin U
  BY <1>0 DEF Cancel!Below
<1> HIDE DEF U
<1>4. U \subseteq Contexts
  BY DEF U
<1>5. Cancel!Closed(U \cup {d})
  BY <1>1, <1>2 DEF Cancel!Closed, Cancel!ToSet
<1> QED
  BY <1>3, <1>4, <1>5 DEF Cancel!Below

\* A step that leaves the calls alone and lets no context live again.
LEMMA PipeKeeps ==
    ASSUME PipeInv, UNCHANGED <<children, stack, kind, reach>>, DOMAIN state' = Contexts,
           \A c \in Contexts : state'[c] = state[c] \/ (state'[c] = "Stopped" /\ orphans' # {}),
           orphans \subseteq orphans', orphans' \subseteq Contexts, \A r \in orphans' \ orphans : state'[r] = "Stopped"
    PROVE  PipeInv'
<1>1. \A t \in Stoppers, c \in Contexts : Owing(t, c)' <=> Owing(t, c)
  BY DEF Owing, Cancel!Below, Cancel!Closed, Cancel!ToSet
<1>2. \A c \in Contexts : state[c] # "Live" => state'[c] # "Live"
  OBVIOUS
<1>3. \A t \in Stoppers : \A c \in reach'[t] : state'[c] # "Live" \/ Owing(t, c)'
  BY <1>1, <1>2 DEF PipeInv
<1> QED
  BY <1>2, <1>3 DEF PipeInv

\* A step that changes neither contexts nor calls.
LEMMA PipeIdles ==
    ASSUME PipeInv, UNCHANGED <<state, children, stack, kind, reach, orphans>>
    PROVE  PipeInv'
<1>1. \A t \in Stoppers, c \in Contexts : Owing(t, c)' <=> Owing(t, c)
  BY DEF Owing, Cancel!Below, Cancel!Closed, Cancel!ToSet
<1> QED
  BY <1>1 DEF PipeInv

\* A sequence without its last entry.
LEMMA OneLess ==
    ASSUME NEW T, NEW s \in Seq(T), s # <<>>
    PROVE  /\ SubSeq(s, 1, Len(s) - 1) \in Seq(T) /\ Len(SubSeq(s, 1, Len(s) - 1)) = Len(s) - 1
           /\ \A i \in 1 .. Len(s) - 1 : SubSeq(s, 1, Len(s) - 1)[i] = s[i]
<1>1. Len(s) \in Nat /\ Len(s) # 0
  OBVIOUS
<1> DEFINE n == Len(s) - 1
<1>2. n \in Int /\ 1 \in Int /\ \A i \in 1 .. n : s[i] \in T
  BY <1>1
<1>a. n \in Nat
  BY <1>1
<1> HIDE DEF n
<1>b. n - 1 + 1 = n /\ \A i \in 1 .. n : 1 + i - 1 = i
  BY <1>a
<1>c. ~(1 <= n) => n = 0
  BY <1>a
<1>3. n - 1 + 1 = n /\ (IF 1 <= n THEN n - 1 + 1 ELSE 0) = n /\ \A i \in 1 .. n : 1 + i - 1 = i
  BY <1>b, <1>c
<1>4. /\ SubSeq(s, 1, n) \in Seq(T) /\ Len(SubSeq(s, 1, n)) = IF 1 <= n THEN n - 1 + 1 ELSE 0
      /\ \A i \in 1 .. n - 1 + 1 : SubSeq(s, 1, n)[i] = s[1 + i - 1]
  BY <1>2, SubSeqProperties
<1>5. SubSeq(s, 1, n) \in Seq(T) /\ Len(SubSeq(s, 1, n)) = n /\ \A i \in 1 .. n : SubSeq(s, 1, n)[i] = s[i]
  BY <1>3, <1>4
<1> QED
  BY <1>5 DEF n

\* Two entries after a sequence.
LEMMA TwoMore ==
    ASSUME NEW T, NEW s \in Seq(T), NEW a \in T, NEW b \in T
    PROVE  LET q == Append(Append(s, a), b) IN
           /\ q \in Seq(T) /\ Len(q) = Len(s) + 2 /\ q[Len(s) + 1] = a /\ q[Len(s) + 2] = b
           /\ \A i \in 1 .. Len(s) : q[i] = s[i]
OBVIOUS

\* Links, calls and their frames, and the frontend.
LEMMA PipeStep ==
    ASSUME PipeInv, Cancel!PipeNext
    PROVE  PipeInv'
<1> USE DEF Cancel!frontVars, Cancel!treeVars
<1>1. ASSUME NEW l \in Links, Cancel!LinkChild(l) PROVE PipeInv'
  <2>1. UNCHANGED <<state, stack, kind, reach, orphans>>
    BY <1>1 DEF Cancel!LinkChild
  <2>2. /\ children' \in [Contexts -> Seq(Contexts)]
        /\ \A d \in Contexts : Cancel!Below(d) \subseteq Cancel!Below(d)'
    <3>1. l[1] \in Contexts
      BY PlaneAssumption
    <3> QED
      BY <1>1, <3>1, BelowGrows
  <2>3. ASSUME NEW t \in Stoppers, NEW c \in Contexts, Owing(t, c) PROVE Owing(t, c)'
    <3>1. PICK i \in 1 .. Len(stack[t]) :
              \/ c = stack[t][i][1]
              \/ \E j \in 1 .. Len(stack[t][i][2]) : c \in Cancel!Below(stack[t][i][2][j])
      BY <2>3 DEF Owing
    <3>2. CASE c = stack[t][i][1]
      BY <3>2, <2>1 DEF Owing
    <3>3. ASSUME NEW j \in 1 .. Len(stack[t][i][2]), c \in Cancel!Below(stack[t][i][2][j]) PROVE Owing(t, c)'
      <4>1. PICK d \in Contexts : d = stack[t][i][2][j]
        BY DEF PipeInv
      <4>2. c \in Cancel!Below(d)'
        BY <4>1, <3>3, <2>2
      <4>3. d = stack'[t][i][2][j]
        BY <4>1, <2>1
      <4> QED
        BY <4>2, <4>3, <2>1 DEF Owing
    <3> QED
      BY <3>1, <3>2, <3>3
  <2>4. \A t \in Stoppers : \A c \in reach'[t] : state'[c] # "Live" \/ Owing(t, c)'
    BY <2>1, <2>3 DEF PipeInv
  <2> QED
    BY <2>1, <2>2, <2>4 DEF PipeInv
<1>2. ASSUME NEW t \in Stoppers, NEW c \in Contexts, NEW k \in {"stop", "kill"}, Cancel!Call(t, c, k) PROVE PipeInv'
  <2>1. /\ kind[t] = "none" /\ kind' = [kind EXCEPT ![t] = k]
        /\ stack' = [stack EXCEPT ![t] = <<<<c, children[c]>>>>]
        /\ reach' = [reach EXCEPT ![t] = Cancel!Below(c)]
        /\ UNCHANGED <<state, children, orphans>>
    BY <1>2 DEF Cancel!Call
  <2>2. /\ kind' \in [Stoppers -> {"none", "stop", "kill"}]
        /\ stack' \in [Stoppers -> Seq(Contexts \X Seq(Contexts))]
        /\ stack'[t] = <<<<c, children[c]>>>> /\ kind'[t] = k /\ reach'[t] = Cancel!Below(c)
        /\ \A u \in Stoppers \ {t} : stack'[u] = stack[u] /\ kind'[u] = kind[u] /\ reach'[u] = reach[u]
    BY <2>1 DEF PipeInv
  <2>3. reach' \in [Stoppers -> SUBSET Contexts]
    BY <2>1 DEF PipeInv, Cancel!Below
  <2>4. \A d : Cancel!Below(d)' = Cancel!Below(d)
    BY <2>1 DEF Cancel!Below, Cancel!Closed
  <2>5. ASSUME NEW u \in Stoppers \ {t}, NEW e \in Contexts, Owing(u, e) PROVE Owing(u, e)'
    BY <2>2, <2>4, <2>5 DEF Owing
  <2>6. ASSUME NEW e \in Cancel!Below(c) PROVE Owing(t, e)'
    <3>0. Len(stack'[t]) = 1 /\ stack'[t][1][1] = c /\ stack'[t][1][2] = children[c]
      BY <2>2
    <3>1. CASE e = c
      BY <3>0, <3>1 DEF Owing
    <3>2. CASE e # c
      <4>1. PICK j \in 1 .. Len(children[c]) : e \in Cancel!Below(children[c][j])
        BY <3>2, <2>6, BelowUnfolds
      <4> QED
        BY <4>1, <3>0, <2>4 DEF Owing
    <3> QED
      BY <3>1, <3>2
  <2>7. \A u \in Stoppers : \A e \in reach'[u] : state'[e] # "Live" \/ Owing(u, e)'
    BY <2>1, <2>2, <2>5, <2>6 DEF PipeInv
  <2>8. \A u \in Stoppers : kind'[u] = "none" => stack'[u] = <<>> /\ reach'[u] = {}
    BY <2>2 DEF PipeInv
  <2>9. (\A u \in Stoppers : kind'[u] # "stop") => \A u \in Stoppers : kind[u] # "stop"
    BY <2>1, <2>2
  <2> QED
    BY <2>1, <2>2, <2>3, <2>7, <2>8, <2>9 DEF PipeInv
<1>3. ASSUME NEW t \in Stoppers, Cancel!Enter(t) PROVE PipeInv'
  <2>0. /\ stack[t] # <<>> /\ Cancel!Last(stack[t])[2] # <<>>
        /\ UNCHANGED <<state, children, kind, reach, orphans>>
    BY <1>3 DEF Cancel!Enter
  <2> DEFINE n == Len(stack[t])
  <2>1. stack[t] \in Seq(Contexts \X Seq(Contexts)) /\ n \in Nat \ {0} /\ children \in [Contexts -> Seq(Contexts)]
    BY <2>0 DEF PipeInv
  <2>2. PICK x \in Contexts, rest \in Seq(Contexts) : stack[t][n] = <<x, rest>> /\ rest # <<>>
    BY <2>0, <2>1 DEF Cancel!Last
  <2>3. PICK d \in Contexts : d = Head(rest)
    BY <2>2
  <2>4. /\ Tail(rest) \in Seq(Contexts) /\ Len(Tail(rest)) = Len(rest) - 1 /\ Len(rest) \in Nat \ {0}
        /\ rest[1] = d /\ \A j \in 1 .. Len(rest) - 1 : Tail(rest)[j] = rest[j + 1]
    BY <2>2, <2>3
  <2>a. stack'[t] = Append(Append(SubSeq(stack[t], 1, n - 1), <<x, Tail(rest)>>), <<d, children[d]>>)
    BY <1>3, <2>1, <2>2, <2>3 DEF Cancel!Enter, Cancel!Last, Cancel!Front, PipeInv
  <2>b. /\ SubSeq(stack[t], 1, n - 1) \in Seq(Contexts \X Seq(Contexts))
        /\ Len(SubSeq(stack[t], 1, n - 1)) = n - 1
        /\ \A i \in 1 .. n - 1 : SubSeq(stack[t], 1, n - 1)[i] = stack[t][i]
    BY <2>0, <2>1, OneLess
  <2>c. <<x, Tail(rest)>> \in Contexts \X Seq(Contexts) /\ <<d, children[d]>> \in Contexts \X Seq(Contexts)
    BY <2>1, <2>4
  <2>5. /\ stack'[t] \in Seq(Contexts \X Seq(Contexts)) /\ Len(stack'[t]) = (n - 1) + 2
        /\ stack'[t][(n - 1) + 1] = <<x, Tail(rest)>> /\ stack'[t][(n - 1) + 2] = <<d, children[d]>>
        /\ \A i \in 1 .. n - 1 : stack'[t][i] = stack[t][i]
    <3>1. PICK low \in Seq(Contexts \X Seq(Contexts)) : low = SubSeq(stack[t], 1, n - 1)
      BY <2>b
    <3>2. PICK a \in Contexts \X Seq(Contexts), b \in Contexts \X Seq(Contexts) :
               a = <<x, Tail(rest)>> /\ b = <<d, children[d]>>
      BY <2>c
    <3>3. PICK q : q = Append(Append(low, a), b)
      OBVIOUS
    <3>4. /\ q \in Seq(Contexts \X Seq(Contexts)) /\ Len(q) = Len(low) + 2 /\ q[Len(low) + 1] = a
          /\ q[Len(low) + 2] = b /\ \A i \in 1 .. Len(low) : q[i] = low[i]
      BY <3>3, TwoMore
    <3>5. q = stack'[t] /\ Len(low) = n - 1
      BY <3>1, <3>2, <3>3, <2>a, <2>b
    <3> HIDE DEF n
    <3> QED
      BY <3>1, <3>2, <3>4, <3>5, <2>b
  <2>6. /\ stack' \in [Stoppers -> Seq(Contexts \X Seq(Contexts))]
        /\ \A u \in Stoppers \ {t} : stack'[u] = stack[u]
    <3>1. stack' = [stack EXCEPT ![t] = stack'[t]] /\ stack \in [Stoppers -> Seq(Contexts \X Seq(Contexts))]
      BY <1>3 DEF Cancel!Enter, PipeInv
    <3> QED
      BY <3>1, <2>5
  <2>7. /\ Len(stack'[t]) = n + 1 /\ stack'[t][n] = <<x, Tail(rest)>> /\ stack'[t][n + 1] = <<d, children[d]>>
        /\ \A i \in 1 .. n - 1 : stack'[t][i] = stack[t][i]
    <3>1. (n - 1) + 1 = n /\ (n - 1) + 2 = n + 1
      BY <2>1
    <3> HIDE DEF n
    <3> QED
      BY <3>1, <2>5
  <2> HIDE DEF n
  <2>8. \A e : Cancel!Below(e)' = Cancel!Below(e)
    BY <2>0 DEF Cancel!Below, Cancel!Closed
  <2>9. ASSUME NEW e \in Contexts, Owing(t, e) PROVE Owing(t, e)'
    <3>1. PICK i \in 1 .. n : \/ e = stack[t][i][1]
                             \/ \E j \in 1 .. Len(stack[t][i][2]) : e \in Cancel!Below(stack[t][i][2][j])
      BY <2>9 DEF Owing, n
    <3>2. CASE i # n
      <4>0. i \in 1 .. n - 1 /\ i \in 1 .. n + 1
        BY <3>2, <2>1
      <4>1. i \in 1 .. n - 1 /\ i \in 1 .. Len(stack'[t]) /\ stack'[t][i] = stack[t][i]
        BY <4>0, <2>7
      <4> QED
        BY <3>1, <4>1, <2>8 DEF Owing
    <3>3. CASE i = n /\ e = x
      <4>1. n \in 1 .. Len(stack'[t]) /\ stack'[t][n][1] = x
        <5>1. n \in 1 .. n + 1
          BY <2>1
        <5>2. <<x, Tail(rest)>>[1] = x
          OBVIOUS
        <5> QED
          BY <5>1, <5>2, <2>7
      <4> QED
        BY <3>3, <4>1 DEF Owing
    <3>4. ASSUME i = n, NEW j \in 1 .. Len(rest), e \in Cancel!Below(rest[j]) PROVE Owing(t, e)'
      <4>1. CASE j # 1
        <5>1. j - 1 \in 1 .. Len(Tail(rest)) /\ Tail(rest)[j - 1] = rest[j]
          BY <4>1, <2>4
        <5>2. n \in 1 .. Len(stack'[t]) /\ stack'[t][n][2] = Tail(rest)
          <6>1. n \in 1 .. n + 1
            BY <2>1
          <6>2. <<x, Tail(rest)>>[2] = Tail(rest)
            OBVIOUS
          <6> QED
            BY <6>1, <6>2, <2>7
        <5> QED
          BY <5>1, <5>2, <3>4, <2>8 DEF Owing
      <4>2. CASE j = 1
        <5>0. n + 1 \in 1 .. Len(stack'[t]) /\ stack'[t][n + 1][1] = d /\ stack'[t][n + 1][2] = children[d]
          <6>1. n + 1 \in 1 .. n + 1
            BY <2>1
          <6>2. <<d, children[d]>>[1] = d /\ <<d, children[d]>>[2] = children[d]
            OBVIOUS
          <6> QED
            BY <6>1, <6>2, <2>7
        <5>1. CASE e = d
          BY <5>0, <5>1 DEF Owing
        <5>2. CASE e # d
          <6>1. PICK m \in 1 .. Len(children[d]) : e \in Cancel!Below(children[d][m])
            BY <5>2, <4>2, <3>4, <2>4, BelowUnfolds
          <6> QED
            BY <6>1, <5>0, <2>8 DEF Owing
        <5> QED
          BY <5>1, <5>2
      <4> QED
        BY <4>1, <4>2
    <3> QED
      BY <3>1, <3>2, <3>3, <3>4, <2>2
  <2>10. ASSUME NEW u \in Stoppers \ {t}, NEW e \in Contexts, Owing(u, e) PROVE Owing(u, e)'
    BY <2>6, <2>8, <2>10 DEF Owing
  <2>11. \A u \in Stoppers : \A e \in reach'[u] : state'[e] # "Live" \/ Owing(u, e)'
    BY <2>0, <2>9, <2>10 DEF PipeInv
  <2>12. \A u \in Stoppers : kind'[u] = "none" => stack'[u] = <<>> /\ reach'[u] = {}
    BY <2>0, <2>6 DEF PipeInv
  <2> QED
    BY <2>0, <2>6, <2>11, <2>12 DEF PipeInv
<1>4. ASSUME NEW t \in Stoppers, Cancel!Send(t) PROVE PipeInv'
  <2> DEFINE n == Len(stack[t])
  <2>0. /\ stack[t] # <<>> /\ Cancel!Last(stack[t])[2] = <<>>
        /\ UNCHANGED <<children, kind, reach, orphans>>
    BY <1>4 DEF Cancel!Send
  <2>1. stack[t] \in Seq(Contexts \X Seq(Contexts)) /\ n \in Nat \ {0}
    BY <2>0 DEF PipeInv
  <2>2. PICK x \in Contexts : stack[t][n] = <<x, <<>>>>
    BY <2>0, <2>1 DEF Cancel!Last
  <2>3. PICK v \in {"Killed", "Stopped"} :
             state' = [state EXCEPT ![x] = v] /\ (v = "Stopped" <=> kind[t] # "kill")
    <3>1. Cancel!Last(stack[t])[1] = x
      BY <2>2 DEF Cancel!Last
    <3>2. state' = [state EXCEPT ![x] = IF kind[t] = "kill" THEN "Killed" ELSE "Stopped"]
      BY <1>4, <3>1 DEF Cancel!Send
    <3> QED
      BY <3>2
  <2>4. stack' = [stack EXCEPT ![t] = SubSeq(stack[t], 1, n - 1)]
    BY <1>4 DEF Cancel!Send, Cancel!Front, PipeInv
  <2>5. /\ stack' \in [Stoppers -> Seq(Contexts \X Seq(Contexts))]
        /\ \A u \in Stoppers \ {t} : stack'[u] = stack[u]
        /\ Len(stack'[t]) = n - 1 /\ \A i \in 1 .. n - 1 : stack'[t][i] = stack[t][i]
    <3>1. /\ SubSeq(stack[t], 1, n - 1) \in Seq(Contexts \X Seq(Contexts))
          /\ Len(SubSeq(stack[t], 1, n - 1)) = n - 1
          /\ \A i \in 1 .. n - 1 : SubSeq(stack[t], 1, n - 1)[i] = stack[t][i]
      BY <2>0, <2>1, OneLess
    <3> QED
      BY <3>1, <2>4 DEF PipeInv
  <2> HIDE DEF n
  <2>6. \A e : Cancel!Below(e)' = Cancel!Below(e)
    BY <2>0 DEF Cancel!Below, Cancel!Closed
  <2>7. /\ DOMAIN state' = Contexts /\ state'[x] = v /\ \A c \in Contexts \ {x} : state'[c] = state[c]
    BY <2>3 DEF PipeInv
  <2>8. ASSUME NEW e \in Contexts, e # x, Owing(t, e) PROVE Owing(t, e)'
    <3>1. PICK i \in 1 .. n : \/ e = stack[t][i][1]
                             \/ \E j \in 1 .. Len(stack[t][i][2]) : e \in Cancel!Below(stack[t][i][2][j])
      BY <2>8 DEF Owing, n
    <3>2. i # n
      BY <3>1, <2>2, <2>8
    <3>a. i \in 1 .. n - 1
      BY <3>2, <2>1
    <3>3. i \in 1 .. n - 1 /\ i \in 1 .. Len(stack'[t]) /\ stack'[t][i] = stack[t][i]
      BY <3>a, <2>5
    <3> QED
      BY <3>1, <3>3, <2>6 DEF Owing
  <2>9. ASSUME NEW u \in Stoppers \ {t}, NEW e \in Contexts, Owing(u, e) PROVE Owing(u, e)'
    BY <2>5, <2>6, <2>9 DEF Owing
  <2>10. \A u \in Stoppers : \A e \in reach'[u] : state'[e] # "Live" \/ Owing(u, e)'
    <3>1. \A c \in Contexts : state[c] # "Live" => state'[c] # "Live"
      BY <2>3, <2>7
    <3>2. ASSUME NEW u \in Stoppers, NEW e \in reach[u] PROVE state'[e] # "Live" \/ Owing(u, e)'
      <4>1. e \in Contexts /\ (state[e] # "Live" \/ Owing(u, e))
        BY <3>2 DEF PipeInv
      <4>2. CASE state[e] # "Live"
        BY <4>1, <4>2, <3>1
      <4>3. CASE e = x
        BY <4>3, <2>3, <2>7
      <4>4. CASE Owing(u, e) /\ e # x
        BY <4>1, <4>4, <2>8, <2>9
      <4> QED
        BY <4>1, <4>2, <4>3, <4>4
    <3> QED
      BY <3>2, <2>0
  <2>11. kind[t] # "none"
    BY <2>0 DEF PipeInv
  <2>12. \A u \in Stoppers : kind'[u] = "none" => stack'[u] = <<>> /\ reach'[u] = {}
    BY <2>0, <2>5, <2>11 DEF PipeInv
  <2>13. (\A u \in Stoppers : kind[u] # "stop") => v = "Killed"
    BY <2>3, <2>11 DEF PipeInv
  <2>14. orphans' = {} /\ (\A u \in Stoppers : kind'[u] # "stop") => \A c \in Contexts : state'[c] # "Stopped"
    BY <2>0, <2>7, <2>13 DEF PipeInv
  <2> QED
    BY <2>0, <2>3, <2>5, <2>7, <2>10, <2>12, <2>14 DEF PipeInv
<1>5. CASE Cancel!SetEdge \/ \E r \in Piped : Cancel!Generate(r) \/ Cancel!EngineFails(r) \/ Cancel!DropRequest(r)
  <2>1. UNCHANGED <<state, children, stack, kind, reach, orphans>>
    BY <1>5 DEF Cancel!SetEdge, Cancel!Generate, Cancel!EngineFails, Cancel!DropRequest
  <2> QED
    BY <2>1, PipeIdles
<1>6. ASSUME NEW r \in Piped, Cancel!OnData(r) PROVE PipeInv'
  <2>0. /\ r \in Contexts /\ UNCHANGED <<children, stack, kind, reach>>
        /\ DOMAIN state = Contexts /\ orphans \subseteq Contexts
    BY <1>6, PlaneAssumption DEF Cancel!OnData, PipeInv
  <2>1. CASE UNCHANGED <<state, orphans>>
    BY <2>0, <2>1, PipeIdles
  <2>2. CASE Cancel!Orphaned(r)
    <3>1. orphans' = orphans \cup {r} /\ state' = [state EXCEPT ![r] = "Stopped"]
      BY <2>2 DEF Cancel!Orphaned
    <3> QED
      BY <3>1, <2>0, PipeKeeps
  <2> QED
    BY <1>6, <2>1, <2>2 DEF Cancel!OnData
<1> QED
  BY <1>1, <1>2, <1>3, <1>4, <1>5, <1>6 DEF Cancel!PipeNext, Cancel!Step

\* When a call has no frames left, whoever it was for has been told.
LEMMA PipeSays == PipeInv => Cancel!StopReaches /\ Cancel!OrphansStopped
<1> SUFFICES ASSUME PipeInv PROVE Cancel!StopReaches /\ Cancel!OrphansStopped
  OBVIOUS
<1>1. \A t \in Stoppers : stack[t] = <<>> => \A c \in reach[t] : state[c] # "Live" /\ c \in Contexts
  <2>1. \A t \in Stoppers : \A c : stack[t] = <<>> => ~Owing(t, c)
    BY DEF Owing
  <2> QED
    BY <2>1 DEF PipeInv
<1> QED
  BY <1>1 DEF PipeInv, Cancel!StopReaches, Cancel!OrphansStopped, Cancel!IsStopped, Cancel!IsKilled

-----------------------------------------------------------------------------
(* All parts                                                                  *)

\* The invariants of the parts.
RuntimeInv ==
    /\ HealthInv /\ DrtInv /\ WorkerInv /\ CriticalInv /\ HostInv /\ PlaneInv /\ ZmqInv /\ PipeInv
    /\ ValuesInv /\ (part = "async" => WakesInv) /\ (part = "sync" => CondvarInv)

\* They hold at the start.
LEMMA RuntimeStart == Init => RuntimeInv
<1> SUFFICES ASSUME Init PROVE RuntimeInv
  OBVIOUS
<1>1. /\ Host!Init /\ Cancel!PipeInit /\ Cancel!CritInit /\ Async!Init /\ Health!Init /\ Planes!PlaneInit
      /\ Planes!ZmqInit /\ Process!WorkerInit /\ Process!DrtInit
  BY DEF Init
<1>2. WakesInv
  BY <1>1 DEF Async!Init, WakesInv, Sleepers
<1>3. CondvarInv
  BY <1>1 DEF Async!Init, CondvarInv, Sleepers
<1> QED
  BY <1>1, <1>2, <1>3, HealthInit, DrtStart, WorkerStart, CriticalStart, HostStart, PlaneStart, ZmqStart, PipeStart,
     ValuesStart DEF RuntimeInv

\* A part keeps its invariant while its variables stay.
LEMMA PartsStay ==
    /\ HealthInv /\ UNCHANGED healthVars => HealthInv'
    /\ DrtInv /\ UNCHANGED drtVars => DrtInv'
    /\ WorkerInv /\ UNCHANGED workVars => WorkerInv'
    /\ CriticalInv /\ UNCHANGED critVars => CriticalInv'
    /\ HostInv /\ UNCHANGED hostVars => HostInv'
    /\ PlaneInv /\ UNCHANGED reqVars => PlaneInv'
    /\ ZmqInv /\ UNCHANGED zmqVars => ZmqInv'
    /\ PipeInv /\ UNCHANGED pipeVars => PipeInv'
    /\ ValuesInv /\ UNCHANGED asyncVars => ValuesInv' /\ (WakesInv => WakesInv') /\ (CondvarInv => CondvarInv')
<1>1. HealthInv /\ UNCHANGED healthVars => HealthInv'
  BY DEF HealthInv, healthVars
<1>2. DrtInv /\ UNCHANGED drtVars => DrtInv'
  BY DEF DrtInv, drtVars, NatsInv, NeedsNats, ServiceInv, ServerInv, Process!OneService,
         Process!OkMeansRegistered, Process!OneServer
<1>3. WorkerInv /\ UNCHANGED workVars => WorkerInv'
  BY DEF WorkerInv, workVars
<1>4. CriticalInv /\ UNCHANGED critVars => CriticalInv'
  BY DEF CriticalInv, critVars
<1>5. HostInv /\ UNCHANGED hostVars => HostInv'
  BY DEF HostInv, hostVars, Host!GateHeld
<1>6. PlaneInv /\ UNCHANGED reqVars => PlaneInv'
  BY DEF PlaneInv, reqVars, Planes!Counted
<1>7. ZmqInv /\ UNCHANGED zmqVars => ZmqInv'
  BY DEF ZmqInv, zmqVars, Arrived
<1>8. PipeInv /\ UNCHANGED pipeVars => PipeInv'
  BY PipeIdles DEF pipeVars
<1>9. ValuesInv /\ UNCHANGED asyncVars => ValuesInv' /\ (WakesInv => WakesInv') /\ (CondvarInv => CondvarInv')
  BY DEF ValuesInv, WakesInv, CondvarInv, asyncVars, Held, Sleepers, Trying
<1> QED
  BY <1>1, <1>2, <1>3, <1>4, <1>5, <1>6, <1>7, <1>8, <1>9

\* A step of one part keeps its own invariant, and leaves the others' variables.
LEMMA RuntimeStep ==
    ASSUME RuntimeInv, [Next]_vars
    PROVE  RuntimeInv'
<1> USE DEF RuntimeInv
<1>0. ASSUME UNCHANGED part
      PROVE  /\ UNCHANGED healthVars => HealthInv'
             /\ UNCHANGED drtVars => DrtInv'
             /\ UNCHANGED workVars => WorkerInv'
             /\ UNCHANGED critVars => CriticalInv'
             /\ UNCHANGED hostVars => HostInv'
             /\ UNCHANGED reqVars => PlaneInv'
             /\ UNCHANGED zmqVars => ZmqInv'
             /\ UNCHANGED pipeVars => PipeInv'
             /\ UNCHANGED asyncVars => /\ ValuesInv' /\ (part' = "async" => WakesInv')
                                       /\ (part' = "sync" => CondvarInv')
  BY <1>0, PartsStay
<1>1. CASE UNCHANGED vars
  BY <1>0, <1>1 DEF vars
<1>2. CASE Of("host") /\ Host!Next
  BY <1>0, <1>2, HostStep DEF Of
<1>3. CASE Of("pipe") /\ Cancel!PipeNext
  BY <1>0, <1>3, PipeStep DEF Of
<1>4. CASE Of("crit") /\ Cancel!CritNext
  BY <1>0, <1>4, CriticalStep DEF Of
<1>5. CASE Of("async") /\ Async!Next
  BY <1>0, <1>5, AsyncMoves, ValuesStep, AsyncWakes DEF Of
<1>6. CASE Of("sync") /\ Sync!Next
  BY <1>0, <1>6, SyncMoves, ValuesStep, SyncWakes DEF Of
<1>7. CASE Of("health") /\ Health!Next
  BY <1>0, <1>7, HealthStep DEF Of
<1>8. CASE Of("req") /\ Planes!PlaneNext
  BY <1>0, <1>8, PlaneStep DEF Of
<1>9. CASE Of("zmq") /\ Planes!ZmqNext
  BY <1>0, <1>9, ZmqStep DEF Of
<1>10. CASE Of("worker") /\ Process!WorkerNext
  BY <1>0, <1>10, WorkerStep DEF Of
<1>11. CASE Of("drt") /\ Process!DrtNext
  BY <1>0, <1>11, DrtStep DEF Of
<1>12. CASE Of("lease") /\ Process!LeaseNext
  BY <1>0, <1>12 DEF Of
<1> QED
  BY <1>1, <1>2, <1>3, <1>4, <1>5, <1>6, <1>7, <1>8, <1>9, <1>10, <1>11, <1>12 DEF Next

\* Nothing that is handed out or taken over is lost: gate and permits of a host's pool,
\* values and notifications of the object pools, the requests of a portname that is
\* unregistered, the one worker, service and server of a process, the frames of a
\* response stream. For any number of callers, warm-ups, values, tasks, requests,
\* registrations, managers, streams, frames, threads and groups.
THEOREM Nothing_Leaks == Spec => []NothingLeaks
<1>1. RuntimeInv => NothingLeaks
  BY AsyncSays, SyncSays, PlaneSays, WorkerSays, DrtSays, ZmqSays DEF RuntimeInv, HostInv, NothingLeaks
<1> QED
  BY <1>1, RuntimeStart, RuntimeStep, PTL DEF Spec

\* A signal to stop reaches everyone it is for: the contexts below the one that is
\* stopped or killed, whatever tree the links make and whoever links or calls
\* meanwhile, the stream nobody waits for, the other critical tasks before a failure
\* is told, and the root token before the process exits.
THEOREM Signals_Reach == Spec => []SignalsReach
<1>1. RuntimeInv => SignalsReach
  BY PipeSays, CriticalSays, WorkerSays DEF RuntimeInv, SignalsReach
<1> QED
  BY <1>1, RuntimeStart, RuntimeStep, PTL DEF Spec

\* With health checks on a portname is ready only once it has answered something, and a
\* runtime that came up has the NATS client its planes need, in every environment.
THEOREM Ready_Is_Proven == Spec => []ReadyIsProven
<1>1. RuntimeInv => ReadyIsProven
  BY HealthSays, DrtSays DEF RuntimeInv, ReadyIsProven
<1> QED
  BY <1>1, RuntimeStart, RuntimeStep, PTL DEF Spec
=============================================================================
