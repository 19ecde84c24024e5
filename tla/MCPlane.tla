------------------------------ MODULE MCPlane -------------------------------
(***************************************************************************)
(* The runtime of a process around its requests: connections, the request  *)
(* planes, contexts and tasks, the lease, the worker and the distributed   *)
(* runtime, and health checks. The parts are independent here: a           *)
(* behaviour is one of one part, named by `part'; the variables of the     *)
(* others keep their initial values.                                       *)
(***************************************************************************)
EXTENDS Integers, Sequences, FiniteSets

CONSTANTS
    HostCallers, Warmers, PoolSize, Buffer, Retries, Limit, MaxChanges,     \* host
    Contexts, Links, Stoppers, Piped, MaxAttempts,                          \* pipe
    Critical,                                                               \* crit
    Borrowers, Items, Clones,                                               \* async and sync
    Portnames, Used, Served, MaxProbes, MaxEvents,                          \* health
    Requests, Registrations, Managers,                                      \* req
    Streams, Capacity, Frames, MaxBroken,                                   \* zmq
    Asks, Grace, MaxSignals,                                                \* worker
    Callers, Groups, Group, MaxFaults,                                      \* drt
    TTL, MaxDrops                                                           \* lease

\* The names that the code uses for nothing are no threads, callers, values or streams.
ASSUME PlaneAssumption ==
    /\ IsFiniteSet(HostCallers) /\ IsFiniteSet(Warmers) /\ Limit \in Nat
    /\ Piped \subseteq Contexts /\ Links \subseteq Contexts \X Contexts
    /\ IsFiniteSet(Borrowers) /\ IsFiniteSet(Items) /\ "none" \notin Items
    /\ IsFiniteSet(Requests) /\ Registrations \in Nat
    /\ "none" \notin Streams \cup DOMAIN Asks \cup Callers
    /\ Grace \in Nat /\ Group \in [Callers -> Groups]

\* What the run gives them.
OneChain    == {<<"a", "b">>, <<"b", "c">>}
ThreeAsks   == [a |-> "config", b |-> "config", c |-> "existing"]
OneGroup    == [c \in Callers |-> "g"]

VARIABLES
    part,
    snapshot, lru, next_id, healthy, inflight, connecting, limiter, at, conn, snap, need,
    retry, hosted, listed, known, changes,
    state, children, stack, kind, reach, edge, sinks, phase, attempts, orphans,
    parentCancelled, childCancelled, body, result, handle,
    pool, returned, pc, item, copies, permit, woken,
    enabled, sys, health, targets, notified, queue, manager, tasks, probes, events, proven,
    engines, routes, artifacts, reply,
    plane, server, serverOf, gen, entry, spawning, listening, reqInflight, reqPermit, rstate,
    rgen, client, unreg, ugen, owed, ready,
    wire, sent, broken, active, control, used, buffer, open, got, due, task, held, child,
    parent, watch,
    rtCell, handleCell, wpc, holds, initCell, app, sup, workerLeft, rootToken, signals,
    handler, exited,
    config, drtPhase, parts, faults, drtPc, drtReply, services, alive, cell, drtServer,
    link, drops, lease, leaseLeft, keeper, until, backoff, token

\* Callers and warm-ups share a host.
Host    == INSTANCE HostPool WITH Callers <- HostCallers, MaxConnections <- PoolSize
\* pipe: contexts and their children, and threads that stop or kill.
Cancel  == INSTANCE Cancellation WITH Callers <- Stoppers, Requests <- Piped,
                    Tasks <- Critical
\* Tasks on values, asynchronous or threads.
Async   == INSTANCE ObjectPool WITH Tasks <- Borrowers, Sync <- FALSE
Sync    == INSTANCE ObjectPool WITH Tasks <- Borrowers, Sync <- TRUE
\* Portnames, of which some are served.
Health  == INSTANCE SystemHealth
\* req: requests, registrations and managers.
\* zmq: response streams.
Planes  == INSTANCE RequestPlanes WITH MaxRegistrations <- Registrations,
                    inflight <- reqInflight, permit <- reqPermit,
                    Ids <- Streams, MaxFrames <- Frames
\* worker: threads that each want the process to be theirs.
\* drt: callers that register the service of a group.
\* lease: a lease, and a connection that fails.
Process == INSTANCE ProcessLifecycle WITH
                    Ways <- {"from_settings", "for_cli", "process_local"},
                    phase <- drtPhase, pc <- drtPc, reply <- drtReply, server <- drtServer

hostVars   == <<snapshot, lru, next_id, healthy, inflight, connecting, limiter, at, conn,
                snap, need, retry, hosted, listed, known, changes>>
pipeVars   == <<state, children, stack, kind, reach, edge, sinks, phase, attempts, orphans>>
critVars   == <<parentCancelled, childCancelled, body, result, handle>>
asyncVars  == <<pool, returned, pc, item, copies, permit, woken>>
healthVars == <<enabled, sys, health, targets, notified, queue, manager, tasks, probes,
                events, proven, engines, routes, artifacts, reply>>
reqVars    == <<plane, server, serverOf, gen, entry, spawning, listening, reqInflight,
                reqPermit, rstate, rgen, client, unreg, ugen, owed, ready>>
zmqVars    == <<wire, sent, broken, active, control, used, buffer, open, got, due, task,
                held, child, parent, watch>>
workVars   == <<rtCell, handleCell, wpc, holds, initCell, app, sup, workerLeft, rootToken,
                signals, handler, exited>>
drtVars    == <<config, drtPhase, parts, faults, drtPc, drtReply, services, alive, cell,
                drtServer>>
leaseVars  == <<link, drops, lease, leaseLeft, keeper, until, backoff, token>>
vars == <<part, hostVars, pipeVars, critVars, asyncVars, healthVars, reqVars, zmqVars,
          workVars, drtVars, leaseVars>>

Init ==
    /\ part \in {"host", "pipe", "crit", "async", "sync", "health", "req", "zmq", "worker", "drt",
            "lease"}
    /\ Host!Init /\ Cancel!PipeInit /\ Cancel!CritInit /\ Async!Init /\ Health!Init
    /\ Planes!PlaneInit /\ Planes!ZmqInit /\ Process!WorkerInit /\ Process!DrtInit
    /\ Process!LeaseInit

\* A step of a part: the variables of the others stay.
Of(p) ==
    /\ part = p /\ UNCHANGED part
    /\ IF p = "host" THEN TRUE ELSE UNCHANGED hostVars
    /\ IF p = "pipe" THEN TRUE ELSE UNCHANGED pipeVars
    /\ IF p = "crit" THEN TRUE ELSE UNCHANGED critVars
    /\ IF p \in {"async", "sync"} THEN TRUE ELSE UNCHANGED asyncVars
    /\ IF p = "health" THEN TRUE ELSE UNCHANGED healthVars
    /\ IF p = "req" THEN TRUE ELSE UNCHANGED reqVars
    /\ IF p = "zmq" THEN TRUE ELSE UNCHANGED zmqVars
    /\ IF p = "worker" THEN TRUE ELSE UNCHANGED workVars
    /\ IF p = "drt" THEN TRUE ELSE UNCHANGED drtVars
    /\ IF p = "lease" THEN TRUE ELSE UNCHANGED leaseVars

Next ==
    \/ Of("host") /\ Host!Next
    \/ Of("pipe") /\ Cancel!PipeNext
    \/ Of("crit") /\ Cancel!CritNext
    \/ Of("async") /\ Async!Next
    \/ Of("sync") /\ Sync!Next
    \/ Of("health") /\ Health!Next
    \/ Of("req") /\ Planes!PlaneNext
    \/ Of("zmq") /\ Planes!ZmqNext
    \/ Of("worker") /\ Process!WorkerNext
    \/ Of("drt") /\ Process!DrtNext
    \/ Of("lease") /\ Process!LeaseNext

Spec == Init /\ [][Next]_vars

\* The fairness of each part: its tasks are polled, and its clock goes on.
FairSpec ==
    /\ Spec
    /\ \A r \in Host!All : WF_vars(Of("host") /\ Host!Caller(r))
    /\ WF_vars(Of("health") /\ Health!ManagerStep)
    /\ WF_vars(Of("req") /\ (Planes!ListenerStops \/ Planes!Drain \/ Planes!Notified))
    /\ \A r \in Requests : WF_vars(Of("req") /\ Planes!Serve(r))
    /\ WF_vars(Of("lease") /\ Process!LeaseTick)
    /\ WF_vars(Of("lease") /\ Process!Keeper)
    /\ WF_vars(Of("lease") /\ Process!LinkDetected)
    /\ WF_vars(Of("worker") /\ Process!WorkerTick)
    /\ \A t \in Process!Threads : WF_vars(Of("worker") /\ Process!WorkerPolled(t))
    /\ \A c \in Callers : WF_vars(Of("drt") /\ Process!DrtPolled(c))
    /\ WF_vars(Of("zmq") /\ Planes!Run)
    /\ WF_vars(Of("zmq") /\ Planes!Watch)
    /\ \A i \in Streams : WF_vars(Of("zmq") /\ Planes!ZmqReceive(i))

-----------------------------------------------------------------------------
\* Nothing that is handed out or taken over is lost, whoever is cancelled wherever: the
\* gate and the permits of a host's pool (tcp_client.rs), the values of Pool and
\* SyncPool and the wake-ups for them (utils/pool.rs), the requests that a portname
\* had when it was unregistered, of which the HTTP and NATS planes wait for all
\* (http_endpoint.rs, nats_server.rs), the
\* one worker and runtime of a process (worker.rs), the one service and the one server
\* of its group (distributed.rs), and the frames of a response stream (zmq.rs).
NothingLeaks ==
    /\ part = "host" => Host!GateHeld
    /\ part = "async" => Async!Conserved /\ Async!NoLostWakeup
    /\ part = "sync" => Sync!Conserved /\ Sync!NoLostWakeup
    /\ part = "req" => Planes!UnregisterDrains
    /\ part = "worker" => Process!WorkerOnce
    /\ part = "drt" => Process!OneService /\ Process!OkMeansRegistered /\ Process!OneServer
    /\ part = "zmq" => Planes!StreamGetsAll

\* A signal to stop reaches everyone it is for, and nobody else: the contexts below one
\* that is stopped or killed, the stream nobody waits for (context.rs, nodes.rs), every
\* other critical task before anyone hears that one failed (utils/tasks/critical.rs),
\* and the process, which exits only after its root token was cancelled (worker.rs).
SignalsReach ==
    /\ part = "pipe" => Cancel!StopReaches /\ Cancel!OrphansStopped
    /\ part = "crit" => Cancel!FailureStopsAll
    /\ part = "worker" => Process!ExitForCause

\* With health checks on, a portname is ready only once it has answered something
\* (system_health.rs, health_check.rs); and whatever the environment said, a runtime
\* that came up has the NATS client its planes need (distributed.rs).
ReadyIsProven ==
    /\ part = "health" => Health!ReadyIsProven
    /\ part = "drt" => Process!NatsWhereNeeded

\* Who waits in a part, and when it has been answered.
Waits(x) ==
    \/ part = "host" /\ x \in Host!All /\ Host!Waits(x)
    \/ part = "health" /\ x \in Portnames /\ Health!Waits(x)
    \/ part = "req" /\ Planes!PlaneWaits
    \/ part = "lease" /\ Process!LeaseWaits
    \/ part = "worker" /\ x \in Process!Threads /\ Process!WorkerWaits(x)
    \/ part = "drt" /\ x \in Callers /\ Process!DrtWaits(x)
    \/ part = "zmq" /\ Planes!ZmqWaits
Answered(x) ==
    \/ part = "host" /\ x \in Host!All /\ Host!Answered(x)
    \/ part = "health" /\ x \in Portnames /\ Health!Answered(x)
    \/ part = "req" /\ Planes!PlaneAnswered
    \/ part = "lease" /\ Process!LeaseAnswered
    \/ part = "worker" /\ x \in Process!Threads /\ Process!WorkerAnswered(x)
    \/ part = "drt" /\ x \in Callers /\ Process!DrtAnswered(x)
    \/ part = "zmq" /\ Planes!ZmqAnswered

\* Waiting ends: a checkout has a connection or an error, unregister_portname returns, a
\* portname with a target comes to be monitored while the monitor lives, the loss of the
\* lease cancels the process, which then ends within its grace period, a registration is
\* answered, and a ZMQ server that is cancelled or gets a broken frame ends and tells its
\* caller.
WaitsEnd ==
    \A x \in Host!All \cup Portnames \cup Process!Threads \cup Callers : Waits(x) ~> Answered(x)
=============================================================================
