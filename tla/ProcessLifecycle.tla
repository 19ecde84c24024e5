-------------------------- MODULE ProcessLifecycle --------------------------
(****************************************************************************)
(* A process from its start to its exit, in three sections: the worker      *)
(* that runs it, the distributed runtime it builds, and the etcd lease it   *)
(* lives by.                                                                *)
(****************************************************************************)
EXTENDS Integers, FiniteSets

-----------------------------------------------------------------------------
(***************************************************************************)
(* The process supervisor (worker.rs).  Threads ask for the process's      *)
(* runtime in one of three ways; a Worker runs the application once, a      *)
(* signal handler turns a signal into the cancellation of the root token,  *)
(* and a supervisor gives a cancelled application a grace period before it *)
(* ends the process.                                                       *)
(***************************************************************************)
CONSTANTS
    Asks,       \* which call each thread makes: a function to the three ways
    Grace,      \* the graceful shutdown timeout, in ticks
    MaxSignals  \* bound on the signals the process receives

Threads == DOMAIN Asks
WorkerNone == "none"

VARIABLES
    rtCell,     \* RT: the runtime a Worker owns, named after its creator
    handleCell, \* RTHANDLE
    wpc,        \* where each thread stands
    holds,      \* the runtime each thread was given
    initCell,   \* INIT: empty, the task to await, or taken
    app,        \* per thread, the application its execute() spawned
    sup,        \* per thread, the supervisor of that application
    workerLeft,       \* ticks left of the grace period, per supervisor
    rootToken,  \* the root token is cancelled
    signals,    \* signals still to come
    handler,    \* signal_handler tasks that still wait
    exited      \* process::exit(911) has run

workerVars == <<rtCell, handleCell, wpc, holds, initCell, app, sup, workerLeft, rootToken,
                signals, handler, exited>>

cells == <<rtCell, handleCell, initCell>>
apps == <<app, sup, workerLeft>>
outside == <<rootToken, signals, handler>>

WorkerTypeOK ==
    /\ rtCell \in Threads \cup {WorkerNone} /\ handleCell \in Threads \cup {WorkerNone}
    /\ wpc \in [Threads -> {"ask", "create", "store", "worker", "runtime", "init", "await",
                            "done", "failed", "refused", "panicked"}]
    /\ holds \in [Threads -> Threads \cup {WorkerNone, "current"}]
    /\ initCell \in {"empty", "task", "taken"}
    /\ app \in [Threads -> {"none", "runs", "dropped", "ok", "err", "panic"}]
    /\ sup \in [Threads -> {"none", "watch", "grace", "ok", "err"}]
    /\ workerLeft \in [Threads -> 0 .. Grace]
    /\ rootToken \in BOOLEAN /\ signals \in 0 .. MaxSignals
    /\ handler \subseteq Threads /\ exited \in BOOLEAN

WorkerInit ==
    /\ rtCell = WorkerNone /\ handleCell = WorkerNone /\ initCell = "empty"
    /\ wpc = [t \in Threads |-> "ask"] /\ holds = [t \in Threads |-> WorkerNone]
    /\ app = [t \in Threads |-> "none"] /\ sup = [t \in Threads |-> "none"]
    /\ workerLeft = [t \in Threads |-> Grace]
    /\ rootToken = FALSE /\ signals = MaxSignals /\ handler = {} /\ exited = FALSE

HasExistingRuntime == rtCell # WorkerNone \/ handleCell # WorkerNone

Step(t, from, to) == ~exited /\ wpc[t] = from /\ wpc' = [wpc EXCEPT ![t] = to] /\ UNCHANGED exited

-----------------------------------------------------------------------------
(* Getting a runtime.                                                      *)

\* from_config looks at both cells first, then builds a runtime.
FromConfig(t) ==
    /\ Asks[t] = "config" /\ UNCHANGED <<holds, cells, apps, outside>>
    /\ Step(t, "ask", IF HasExistingRuntime THEN "refused" ELSE "create")

\* Mutant of TryInsert: the later creator replaces the runtime.
InsertAnyway(t) ==
    /\ Asks[t] = "config" /\ UNCHANGED <<handleCell, initCell, apps, outside>>
    /\ Step(t, "create", "worker") /\ rtCell' = t /\ holds' = [holds EXCEPT ![t] = t]

\* RT.try_insert: the cell keeps the first runtime, the later creator fails.
TryInsert(t) ==
    /\ Asks[t] = "config" /\ UNCHANGED <<handleCell, initCell, apps, outside>>
    /\ IF rtCell = WorkerNone
         THEN /\ Step(t, "create", "worker")
              /\ rtCell' = t /\ holds' = [holds EXCEPT ![t] = t]
         ELSE Step(t, "create", "refused") /\ UNCHANGED <<rtCell, holds>>

\* runtime_from_existing: the Worker's runtime, else the stored handle, else a
\* new one ...
RuntimeFromExisting(t) ==
    /\ Asks[t] = "existing" /\ UNCHANGED <<cells, apps, outside>>
    /\ IF HasExistingRuntime
         THEN /\ Step(t, "ask", "runtime")
              /\ holds' = [holds EXCEPT ![t] = IF rtCell # WorkerNone THEN rtCell ELSE handleCell]
         ELSE Step(t, "ask", "store") /\ UNCHANGED holds

\* ... whose handle is stored if no other was meanwhile; the caller keeps its own.
StoreHandle(t) ==
    /\ Step(t, "store", "runtime") /\ holds' = [holds EXCEPT ![t] = t]
    /\ handleCell' = IF handleCell = WorkerNone THEN t ELSE handleCell
    /\ UNCHANGED <<rtCell, initCell, apps, outside>>

\* from_current: a Worker around the runtime the thread is in.
FromCurrent(t) ==
    /\ Asks[t] = "current" /\ UNCHANGED <<cells, apps, outside>>
    /\ IF HasExistingRuntime THEN Step(t, "ask", "refused") /\ UNCHANGED holds
       ELSE Step(t, "ask", "worker") /\ holds' = [holds EXCEPT ![t] = "current"]

-----------------------------------------------------------------------------
(* Running the application.                                                *)

\* execute_internal spawns the supervisor, which starts the signal handler and
\* the application, ...
Execute(t) ==
    /\ Step(t, "worker", "init") /\ UNCHANGED <<holds, cells, workerLeft, rootToken, signals>>
    /\ app' = [app EXCEPT ![t] = "runs"] /\ sup' = [sup EXCEPT ![t] = "watch"]
    /\ handler' = handler \cup {t}

\* ... and only then fills INIT, which panics when it is full, and takes the
\* task back out to await it.
SetInit(t) ==
    /\ UNCHANGED <<holds, rtCell, handleCell, apps, outside>>
    /\ IF initCell = "empty"
         THEN Step(t, "init", "await") /\ initCell' = "taken"
         ELSE Step(t, "init", "panicked") /\ UNCHANGED initCell

\* The application's future ends: the oneshot receiver it owns is dropped with it.
AppEnds(t) ==
    /\ ~exited /\ app[t] = "runs" /\ app' = [app EXCEPT ![t] = "dropped"]
    /\ UNCHANGED <<wpc, holds, cells, sup, workerLeft, outside, exited>>

\* Its task completes with Ok, an error or a panic.
AppCompletes(t) ==
    /\ ~exited /\ app[t] = "dropped"
    /\ \E r \in {"ok", "err", "panic"} : app' = [app EXCEPT ![t] = r]
    /\ UNCHANGED <<wpc, holds, cells, sup, workerLeft, outside, exited>>

\* Mutant of Watch: the grace period starts with the application.
WatchNothing(t) ==
    /\ ~exited /\ sup[t] = "watch" /\ sup' = [sup EXCEPT ![t] = "grace"]
    /\ UNCHANGED <<wpc, holds, cells, app, workerLeft, outside, exited>>

\* The first select: cancellation, or the receiver gone.
Watch(t) ==
    /\ ~exited /\ sup[t] = "watch" /\ (rootToken \/ app[t] # "runs")
    /\ sup' = [sup EXCEPT ![t] = "grace"]
    /\ UNCHANGED <<wpc, holds, cells, app, workerLeft, outside, exited>>

\* The second select: the application's result ...
Joined(t) ==
    /\ ~exited /\ sup[t] = "grace" /\ app[t] \in {"ok", "err", "panic"}
    /\ sup' = [sup EXCEPT ![t] = IF app[t] = "ok" THEN "ok" ELSE "err"]
    /\ UNCHANGED <<wpc, holds, cells, app, workerLeft, outside, exited>>

\* ... or the end of the grace period, which ends the process.
GraceOver(t) ==
    /\ ~exited /\ sup[t] = "grace" /\ workerLeft[t] = 0 /\ exited' = TRUE
    /\ UNCHANGED <<wpc, holds, cells, apps, outside>>

\* Time passes for every supervisor in its grace period; a task that has ended
\* completes before a tick is over.
WorkerTick ==
    /\ ~exited /\ \E t \in Threads : sup[t] = "grace" /\ workerLeft[t] > 0
    /\ \A t \in Threads : app[t] # "dropped" /\ ~(sup[t] = "grace" /\ app[t] # "runs")
    /\ workerLeft' = [t \in Threads |-> IF sup[t] = "grace" /\ workerLeft[t] > 0 THEN workerLeft[t] - 1
                                        ELSE workerLeft[t]]
    /\ UNCHANGED <<wpc, holds, cells, app, sup, outside, exited>>

\* execute returns: an error at once, success after runtime.shutdown(), which
\* cancels the root token once the portnames have drained.
Return(t) ==
    /\ sup[t] \in {"ok", "err"}
    /\ Step(t, "await", IF sup[t] = "ok" THEN "done" ELSE "failed")
    /\ rootToken' = (rootToken \/ sup[t] = "ok")
    /\ UNCHANGED <<holds, cells, apps, signals, handler>>

\* signal_handler: SIGINT, SIGTERM or a cancellation from elsewhere; each ends the
\* handler with the root token cancelled.
Signal(t) ==
    /\ ~exited /\ t \in handler /\ (rootToken \/ signals > 0)
    /\ signals' = IF rootToken THEN signals ELSE signals - 1
    /\ handler' = handler \ {t} /\ rootToken' = TRUE
    /\ UNCHANGED <<wpc, holds, cells, apps, exited>>

WorkerNext ==
    \/ \E t \in Threads :
         \/ FromConfig(t) \/ TryInsert(t) \/ RuntimeFromExisting(t) \/ StoreHandle(t)
         \/ FromCurrent(t) \/ Execute(t) \/ SetInit(t) \/ AppEnds(t) \/ AppCompletes(t)
         \/ Watch(t) \/ Joined(t) \/ GraceOver(t) \/ Return(t) \/ Signal(t)
    \/ WorkerTick

WorkerSpec == WorkerInit /\ [][WorkerNext]_workerVars

WorkerPolled(t) ==
    TryInsert(t) \/ SetInit(t) \/ AppCompletes(t) \/ Watch(t) \/ Joined(t) \/ GraceOver(t) \/ Return(t)

\* The tokio runtime polls its tasks and its timer; the application itself may
\* never end.
WorkerFairness ==
    /\ \A t \in Threads : WF_workerVars(WorkerPolled(t))
    /\ WF_workerVars(WorkerTick)

-----------------------------------------------------------------------------
\* At most one from_config call ends with a Worker, and it holds the runtime the
\* process shares, however the calls of racing threads interleave.
WorkerOnce ==
    \A t \in Threads : Asks[t] = "config" /\ holds[t] # WorkerNone => holds[t] = t /\ rtCell = t

\* The process is never ended under an application nobody asked to stop: exit(911)
\* follows a cancellation (with a positive grace period).
ExitForCause == exited /\ Grace > 0 => rootToken

\* Once the root token is cancelled, the caller of execute returns or the process ends.
WorkerWaits(t) == rootToken /\ wpc[t] = "await"
WorkerAnswered(t) == exited \/ wpc[t] \in {"done", "failed"}
ShutdownBounded == \A t \in Threads : WorkerWaits(t) ~> WorkerAnswered(t)

-----------------------------------------------------------------------------
(***************************************************************************)
(* A process's distributed runtime (distributed.rs): the configuration     *)
(* read from the environment, the ordered construction of its parts where  *)
(* some failures abort and others are only logged, its shutdown, the       *)
(* lazily started response-stream server, and the race of callers that     *)
(* register one NATS service per service group.                            *)
(***************************************************************************)
CONSTANTS
    Callers,    \* tasks that register a NATS service or ask for the TCP server
    Groups,     \* service groups
    Group,      \* the group each caller registers
    Ways,       \* how the configuration is made: from_settings, for_cli, process_local
    MaxFaults   \* bound on the operations that fail

VARIABLES
    config,     \* the DistributedConfig
    phase,      \* the construction's progress
    parts,      \* the parts of the runtime that run
    faults,     \* failures left
    pc,         \* each caller's step
    reply,      \* what a caller was told
    services,   \* the registry's services: group to the caller that built it
    alive,      \* NATS services that run: <<group, builder>>
    cell,       \* the OnceCell of the response-stream server
    server      \* the server each caller got

construction == <<config, phase, parts>>
registering == <<reply, services, alive>>
serving == <<cell, server>>
drtVars == <<construction, faults, pc, registering, serving>>

DrtNone == "none"

\* PGD_REQUEST_PLANE, PGD_EVENT_PLANE, PGD_DISCOVERY_BACKEND, NATS_SERVER: "unset",
\* a value with a meaning, or "odd", which has none.
Environments ==
    [plane : {"unset", "nats", "http", "tcp", "odd"}, events : {"unset", "", "nats", "zmq", "odd"},
     backend : {"unset", "kubernetes", "etcd", "file", "mem", "odd"}, server : BOOLEAN]

-----------------------------------------------------------------------------
(* The configuration.                                                      *)

\* FromStr for RequestPlaneMode: the three names, anything else an error.
Modes == {"nats", "http", "tcp"}

\* from_env: an unset or unparsable value is the default.
RequestPlane(e) == IF e.plane \in Modes THEN e.plane ELSE "tcp"

IsLocal(backend) == backend \in {"file", "mem"}

\* resolve_event_transport_kind: an explicit choice, else one that fits the backend.
EventTransport(e, backend) ==
    IF e.events \in {"nats", "zmq"} THEN e.events
    ELSE IF IsLocal(backend) THEN "zmq" ELSE "nats"

\* Mutant of NatsEnabled: only the request plane and an explicit server count.
NatsForRequests(e, plane, events) == plane = "nats" \/ e.server

NatsEnabled(e, plane, events) == plane = "nats" \/ e.server \/ events = "nats"

Configured(e, backend) ==
    LET events == EventTransport(e, backend)
    IN  [backend |-> backend, plane |-> RequestPlane(e), events |-> events,
         nats |-> NatsEnabled(e, RequestPlane(e), events)]

\* from_settings panics on an unknown backend; etcd is the default.
FromSettings(e) == Configured(e, IF e.backend = "unset" THEN "etcd" ELSE e.backend)

\* for_cli always talks to etcd, without a lease.
ForCli(e) == Configured(e, "etcd")

ProcessLocal == [backend |-> "mem", plane |-> "tcp", events |-> "zmq", nats |-> FALSE]

-----------------------------------------------------------------------------
DrtTypeOK ==
    /\ phase \in {"config", "nats", "discovery", "gauge", "status", "canary", "up",
                  "failed", "panicked", "down"}
    /\ parts \subseteq {"nats", "discovery", "manager", "gauge", "status", "canary"}
    /\ faults \in 0 .. MaxFaults
    /\ pc \in [Callers -> {"idle", "look", "build", "insert", "stop", "bind", "done"}]
    /\ reply \in [Callers -> {DrtNone, "ok", "err"}]
    /\ services \in [Groups -> Callers \cup {DrtNone}] /\ alive \subseteq Groups \X Callers
    /\ cell \in Callers \cup {DrtNone} /\ server \in [Callers -> Callers \cup {DrtNone, "err"}]

DrtInit ==
    /\ config = [plane |-> DrtNone, events |-> DrtNone, backend |-> DrtNone, nats |-> FALSE] /\ phase = "config" /\ parts = {} /\ faults = MaxFaults
    /\ pc = [c \in Callers |-> "idle"]
    /\ reply = [c \in Callers |-> DrtNone] /\ services = [g \in Groups |-> DrtNone]
    /\ alive = {} /\ cell = DrtNone /\ server = [c \in Callers |-> DrtNone]

-----------------------------------------------------------------------------
(* DistributedRuntime::new.                                                *)

\* from_settings, for_cli or process_local in some environment.
Configure ==
    /\ phase = "config" /\ UNCHANGED <<parts, faults, pc, registering, serving>>
    /\ \E way \in Ways, e \in Environments :
         IF way = "from_settings" /\ e.backend = "odd"
           THEN phase' = "panicked" /\ UNCHANGED config
           ELSE /\ phase' = "nats"
                /\ config' = CASE way = "from_settings" -> FromSettings(e)
                               [] way = "for_cli" -> ForCli(e)
                               [] way = "process_local" -> ProcessLocal

\* A step of new that may fail: the error is returned, and what was built is dropped.
OrAbort(from, to, built) ==
    /\ phase = from /\ UNCHANGED <<config, pc, registering, serving>>
    /\ \/ phase' = to /\ parts' = parts \cup built /\ UNCHANGED faults
       \/ faults > 0 /\ faults' = faults - 1 /\ phase' = "failed" /\ parts' = {}

\* client_options.connect()
ConnectNats ==
    IF phase = "nats" /\ ~config.nats
      THEN phase' = "discovery" /\ UNCHANGED <<config, parts, faults, pc, registering, serving>>
      ELSE OrAbort("nats", "discovery", {"nats"})

\* The Kubernetes client or the etcd client may fail; a file or memory store does
\* not; then the network manager and the registries.
StartDiscovery ==
    IF phase = "discovery" /\ IsLocal(config.backend)
      THEN /\ phase' = "gauge" /\ parts' = parts \cup {"discovery", "manager"}
           /\ UNCHANGED <<config, faults, pc, registering, serving>>
      ELSE OrAbort("discovery", "gauge", {"discovery", "manager"})

\* The uptime gauge and the callback that refreshes it on every scrape.
InitializeGauge == OrAbort("gauge", "status", {"gauge"})

\* The status server and the canary manager: a failure is logged, new goes on;
\* either may be switched off.
OrLog(from, to, built) ==
    /\ phase = from /\ phase' = to /\ UNCHANGED <<config, pc, registering, serving>>
    /\ \/ parts' = parts \cup built /\ UNCHANGED faults
       \/ parts' = parts /\ UNCHANGED faults
       \/ faults > 0 /\ faults' = faults - 1 /\ parts' = parts

StartStatusServer == OrLog("status", "canary", {"status"})
StartCanaries == OrLog("canary", "up", {"canary"})

\* shutdown starts the runtime's shutdown task and stops discovery at once: the
\* parts under a token of the runtime end with it.
DrtShutdown ==
    /\ phase = "up" /\ phase' = "down" /\ parts' = parts \ {"discovery", "status", "canary"}
    /\ UNCHANGED <<config, faults, pc, registering, serving>>

-----------------------------------------------------------------------------
(* register_nats_service.                                                  *)

Usable == phase \in {"up", "down"}

\* The spawned task looks for the service under the registry's lock.
Look(c) ==
    /\ Usable /\ pc[c] = "idle" /\ UNCHANGED <<construction, faults, services, alive, serving>>
    /\ LET found == services[Group[c]] # DrtNone
           refused == ~found /\ "nats" \notin parts
       IN  /\ pc' = [pc EXCEPT ![c] = IF found \/ refused THEN "done" ELSE "build"]
           /\ reply' = IF found \/ refused
                         THEN [reply EXCEPT ![c] = IF found THEN "ok" ELSE "err"] ELSE reply

\* build_nats_service runs without the lock: the service is alive when it returns.
BuildService(c) ==
    /\ pc[c] = "build" /\ UNCHANGED <<construction, services, serving>>
    /\ \/ /\ alive' = alive \cup {<<Group[c], c>>} /\ pc' = [pc EXCEPT ![c] = "insert"]
          /\ UNCHANGED <<reply, faults>>
       \/ /\ faults > 0 /\ faults' = faults - 1 /\ pc' = [pc EXCEPT ![c] = "done"]
          /\ reply' = [reply EXCEPT ![c] = "err"] /\ UNCHANGED alive

\* Mutant of Insert: the later builder's service replaces the first one's.
InsertLast(c) ==
    /\ pc[c] = "insert" /\ UNCHANGED <<construction, faults, alive, serving>>
    /\ services' = [services EXCEPT ![Group[c]] = c] /\ pc' = [pc EXCEPT ![c] = "done"]
    /\ reply' = [reply EXCEPT ![c] = "ok"]

\* Under the lock again: the first builder's service is kept ...
Insert(c) ==
    /\ pc[c] = "insert" /\ UNCHANGED <<construction, faults, alive, serving>>
    /\ IF services[Group[c]] = DrtNone
         THEN /\ services' = [services EXCEPT ![Group[c]] = c]
              /\ pc' = [pc EXCEPT ![c] = "done"] /\ reply' = [reply EXCEPT ![c] = "ok"]
         ELSE pc' = [pc EXCEPT ![c] = "stop"] /\ UNCHANGED <<services, reply>>

\* ... and a loser stops its own; both callers are told Ok.
StopLoser(c) ==
    /\ pc[c] = "stop" /\ alive' = alive \ {<<Group[c], c>>}
    /\ pc' = [pc EXCEPT ![c] = "done"] /\ reply' = [reply EXCEPT ![c] = "ok"]
    /\ UNCHANGED <<construction, faults, services, serving>>

-----------------------------------------------------------------------------
(* tcp_server.                                                             *)

\* get_or_try_init: one caller at a time runs the initialiser ...
AskServer(c) ==
    /\ Usable /\ server[c] = DrtNone /\ pc[c] = "done"
    /\ IF cell # DrtNone
         THEN server' = [server EXCEPT ![c] = cell] /\ UNCHANGED pc
         ELSE /\ \A d \in Callers : pc[d] # "bind"
              /\ pc' = [pc EXCEPT ![c] = "bind"] /\ UNCHANGED server
    /\ UNCHANGED <<construction, faults, registering, cell>>

\* ... which reads the port and binds; a failure leaves the cell empty for the next.
BindServer(c) ==
    /\ pc[c] = "bind" /\ pc' = [pc EXCEPT ![c] = "done"]
    /\ \/ cell' = c /\ server' = [server EXCEPT ![c] = c] /\ UNCHANGED faults
       \/ /\ faults > 0 /\ faults' = faults - 1
          /\ server' = [server EXCEPT ![c] = "err"] /\ UNCHANGED cell
    /\ UNCHANGED <<construction, registering>>

DrtNext ==
    \/ Configure \/ ConnectNats \/ StartDiscovery \/ InitializeGauge \/ StartStatusServer
    \/ StartCanaries \/ DrtShutdown
    \/ \E c \in Callers : Look(c) \/ BuildService(c) \/ Insert(c) \/ StopLoser(c)
                            \/ AskServer(c) \/ BindServer(c)

DrtSpec == DrtInit /\ [][DrtNext]_drtVars

\* The spawned registration task is polled until it ends.
DrtPolled(c) == Look(c) \/ BuildService(c) \/ Insert(c) \/ StopLoser(c) \/ BindServer(c)
DrtFairness == \A c \in Callers : WF_drtVars(DrtPolled(c))

-----------------------------------------------------------------------------
\* Whenever the runtime came up, a plane that runs over NATS has a client to run on,
\* whatever the environment said.
NatsWhereNeeded ==
    Usable /\ (config.plane = "nats" \/ config.events = "nats") => "nats" \in parts

\* Racing registrations leave one NATS service of a group running, the one in the
\* registry: a loser's is stopped by the time its caller is answered.
OneService ==
    \A g \in Groups : \A c \in Callers :
        <<g, c>> \in alive => services[g] = c \/ (Group[c] = g /\ pc[c] \in {"insert", "stop"})

\* A caller that was told Ok finds the service of its group in the registry.
OkMeansRegistered == \A c \in Callers : reply[c] = "ok" => services[Group[c]] # DrtNone

\* Everybody shares the one response-stream server that was bound.
OneServer == \A c \in Callers : server[c] \in {DrtNone, "err", cell}

\* Every registration is answered.
DrtWaits(c) == Usable /\ pc[c] = "idle"
DrtAnswered(c) == reply[c] # DrtNone
RegistrationAnswered == \A c \in Callers : DrtWaits(c) ~> DrtAnswered(c)

-----------------------------------------------------------------------------
(***************************************************************************)
(* etcd/lease.rs and etcd/connector.rs: the primary lease of a process and     *)
(* the task that keeps it alive, reconnecting until the lease's own deadline.   *)
(* The clock counts parts of the TTL the server granted.                        *)
(***************************************************************************)
CONSTANTS TTL,              \* ticks a granted lease lives
          MaxDrops

VARIABLES
    link, drops,            \* "up", "broken" (calls fail) or "silent" (nothing is answered)
    lease, leaseLeft,            \* the lease at the server, and the ticks until it expires
    keeper, until,          \* keep_alive: where it is, and its deadline in ticks
    backoff,                \* BackoffState: may the connector try now, or must it wait a tick
    token                   \* the runtime's primary token: is it cancelled

leaseVars == <<link, drops, lease, leaseLeft, keeper, until, backoff, token>>

LeaseInit ==
    /\ link = "up" /\ drops = 0 /\ lease = "none" /\ leaseLeft = 0
    /\ keeper = "off" /\ until = 0 /\ backoff = "ready" /\ token = FALSE

\* A connection breaks, or goes dead without a word; it comes back; the operating system gives
\* up on a dead one.
LinkFails(how) ==
    /\ link = "up" /\ drops < MaxDrops /\ link' = how /\ drops' = drops + 1
    /\ UNCHANGED <<lease, leaseLeft, keeper, until, backoff, token>>
LinkHeals ==
    /\ link # "up" /\ link' = "up"
    /\ UNCHANGED <<drops, lease, leaseLeft, keeper, until, backoff, token>>
LinkDetected ==
    /\ link = "silent" /\ link' = "broken"
    /\ UNCHANGED <<drops, lease, leaseLeft, keeper, until, backoff, token>>

Less(n) == IF n > 0 THEN n - 1 ELSE 0
LeaseTick ==
    /\ leaseLeft' = Less(leaseLeft) /\ until' = Less(until) /\ backoff' = "ready"
    /\ lease' = IF lease = "alive" /\ leaseLeft <= 1 THEN "gone" ELSE lease
    /\ UNCHANGED <<link, drops, keeper, token>>

CreateLease ==
    /\ keeper = "off" /\ link = "up" /\ ~token
    /\ lease' = "alive" /\ leaseLeft' = TTL /\ until' = TTL /\ keeper' = "connect"
    /\ UNCHANGED <<link, drops, backoff, token>>

\* new_keep_alive_stream: the first keep-alive is answered, or the call fails.
NewKeepAliveStream ==
    /\ keeper = "connect" /\ link # "silent"
    /\ IF link = "up" /\ lease = "alive"
         THEN keeper' = "stream" /\ leaseLeft' = TTL
         ELSE keeper' = "reconnect" /\ UNCHANGED leaseLeft
    /\ UNCHANGED <<link, drops, lease, until, backoff, token>>

\* Connector::reconnect: the first attempt is made at once, the next after a backoff; past
\* the deadline it is an error.
Reconnect ==
    /\ keeper = "reconnect" /\ until > 0 /\ backoff = "ready" /\ link # "silent"
    /\ keeper' = IF link = "up" THEN "connect" ELSE "reconnect"
    /\ backoff' = "wait"
    /\ UNCHANGED <<link, drops, lease, leaseLeft, until, token>>

\* Mutant of GiveUp: the failure of the keep-alive task is only logged.
GiveUpQuietly ==
    /\ \/ keeper = "reconnect" /\ until = 0
       \/ keeper = "stream" /\ link = "up" /\ lease = "gone" /\ ~token
    /\ keeper' = "failed"
    /\ UNCHANGED <<link, drops, lease, leaseLeft, until, backoff, token>>

\* The deadline has passed, or the server answers that the lease has no TTL left: the task
\* fails and create_lease cancels the runtime.
GiveUp ==
    /\ \/ keeper = "reconnect" /\ until = 0
       \/ keeper = "stream" /\ link = "up" /\ lease = "gone" /\ ~token
    /\ keeper' = "failed" /\ token' = TRUE
    /\ UNCHANGED <<link, drops, lease, leaseLeft, until, backoff>>

\* keep_alive_with_stream: a heartbeat is answered, and the deadline moves.
Heartbeat ==
    /\ keeper = "stream" /\ link = "up" /\ lease = "alive" /\ ~token
    /\ leaseLeft' = TTL /\ until' = TTL
    /\ UNCHANGED <<link, drops, lease, keeper, backoff, token>>

StreamEnds ==
    /\ keeper = "stream" /\ link = "broken" /\ keeper' = "connect"
    /\ UNCHANGED <<link, drops, lease, leaseLeft, until, backoff, token>>

\* The runtime shuts down; the task revokes the lease, if the server answers, or gives up
\* a reconnect it was in.
LeaseShutdown ==
    /\ ~token /\ token' = TRUE
    /\ UNCHANGED <<link, drops, lease, leaseLeft, keeper, until, backoff>>
Revoke ==
    /\ token /\ keeper \in {"stream", "reconnect"} /\ link # "silent" /\ keeper' = "ended"
    /\ lease' = IF keeper = "stream" /\ link = "up" THEN "gone" ELSE lease
    /\ UNCHANGED <<link, drops, leaseLeft, until, backoff, token>>

Keeper == NewKeepAliveStream \/ Reconnect \/ GiveUp \/ Heartbeat \/ StreamEnds \/ Revoke

LeaseNext ==
    \/ \E how \in {"broken", "silent"} : LinkFails(how)
    \/ LinkHeals \/ LinkDetected \/ LeaseTick \/ CreateLease \/ LeaseShutdown
    \/ NewKeepAliveStream \/ Reconnect \/ GiveUp \/ Heartbeat \/ StreamEnds \/ Revoke

\* Time passes, the task is polled, and a dead connection is noticed in the end.
LeaseFairness == WF_leaseVars(LeaseTick) /\ WF_leaseVars(Keeper) /\ WF_leaseVars(LinkDetected)

-----------------------------------------------------------------------------
\* A process whose lease the server has dropped, so that nobody finds it any more, does not go on
\* as if nothing had happened: its runtime is cancelled (create_lease).
LeaseWaits == lease = "gone"
LeaseAnswered == token
LeaseLossCancels == LeaseWaits ~> LeaseAnswered
=============================================================================
