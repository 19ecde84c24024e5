---------------------------- MODULE SystemHealth ----------------------------
(***************************************************************************)
(* The health of a process (system_health.rs), the manager that probes its     *)
(* portnames (health_check.rs), and the status server that reports it           *)
(* (system_status_server.rs) with the registries it reads.                    *)
(*                                                                         *)
(* Each portname with a health check payload has a task that either sees the     *)
(* portname's own traffic or, when its canary timer fires, has the engine        *)
(* answer the payload.  The status is written by whichever ends last.            *)
(***************************************************************************)
EXTENDS Naturals, Sequences, FiniteSets, SequencesExt

CONSTANTS
    Portnames,
    Used,               \* use_portname_health_status
    Served,             \* names the status server is asked for
    MaxProbes,          \* bound: probes of a portname under way
    MaxEvents           \* bound: requests served by a portname, and probes of it

VARIABLES
    enabled,            \* health_check_enabled
    sys,                \* system_health
    health,             \* portname_health: "none" where there is no entry
    targets, notified,  \* health_check_targets; portnames with a pending notify
    queue,              \* new_portname_tx to new_portname_rx
    manager,            \* "none", "new", "started" (targets read), "on", "exited"
    tasks,              \* portname_tasks
    probes, events,     \* probes under way; what happened to a portname
    proven,             \* portnames that answered something
    engines, routes,    \* local_portname_registry, engine_routes
    artifacts,          \* metadata_artifacts: scopes with a file
    reply               \* the status code of the status server's last answer

vars == <<enabled, sys, health, targets, notified, queue, manager, tasks, probes, events,
          proven, engines, routes, artifacts, reply>>
healthVars  == <<enabled, sys, health, targets, notified, queue>>
managerVars == <<manager, tasks, probes, events, proven>>
serverVars  == <<engines, routes, artifacts, reply>>

SetStatus(p, s) == health' = [health EXCEPT ![p] = s]

Init ==
    /\ enabled = FALSE /\ sys = "NotReady" /\ health = [p \in Portnames |-> "none"]
    /\ targets = {} /\ notified = {} /\ queue = <<>>
    /\ manager = "none" /\ tasks = {} /\ probes = [p \in Portnames |-> 0]
    /\ events = [p \in Portnames |-> 0] /\ proven = {}
    /\ engines = {} /\ routes = {} /\ artifacts = {} /\ reply = 0

-----------------------------------------------------------------------------
(* SystemHealth; its callers hold the mutex around it *)

\* The portnames that count start as the process does, or as not ready when they
\* will be probed.
New ==
    /\ manager = "none" /\ manager' = "new"
    /\ enabled' \in BOOLEAN /\ sys' \in {"Ready", "NotReady"}
    /\ health' = [p \in Portnames |-> IF p \in Used THEN (IF enabled' THEN "NotReady" ELSE sys')
                                      ELSE "none"]
    /\ UNCHANGED <<targets, notified, queue, tasks, probes, events, proven, serverVars>>

RegisterHealthCheckTarget(p) ==
    /\ manager # "none" /\ p \notin targets
    /\ targets' = targets \cup {p}
    /\ health' = [health EXCEPT ![p] = IF @ = "none" THEN "NotReady" ELSE @]
    /\ queue' = Append(queue, p)
    /\ UNCHANGED <<enabled, sys, notified, managerVars, serverVars>>

\* Mutant of SetPortnameRegistered: registered is taken for ready.
RegisteredIsReady(p) ==
    /\ SetStatus(p, "Ready")
    /\ UNCHANGED <<enabled, sys, targets, notified, queue, managerVars, serverVars>>

\* The request planes call it when they begin to serve a portname.
SetPortnameRegistered(p) ==
    /\ ~enabled /\ SetStatus(p, "Ready")
    /\ UNCHANGED <<enabled, sys, targets, notified, queue, managerVars, serverVars>>

SetHealthStatus(s) ==
    /\ sys' = s
    /\ UNCHANGED <<enabled, health, targets, notified, queue, managerVars, serverVars>>

GetHealthStatus ==
    LET all(S) == \A p \in S : health[p] = "Ready"
    IN  IF Used # {} THEN all(Used) ELSE IF targets # {} THEN all(targets) ELSE sys = "Ready"

-----------------------------------------------------------------------------
(* HealthCheckManager *)

Start ==
    /\ enabled /\ manager = "new" /\ manager' = "started"
    /\ tasks' = targets
    /\ UNCHANGED <<healthVars, probes, events, proven, serverVars>>

SpawnNewPortnameMonitor ==
    /\ manager = "started" /\ manager' = "on"
    /\ UNCHANGED <<healthVars, tasks, probes, events, proven, serverVars>>

\* A portname that has a task already ends the monitor.
Monitor ==
    /\ manager = "on" /\ queue # <<>>
    /\ queue' = Tail(queue)
    /\ IF Head(queue) \in tasks THEN manager' = "exited" /\ UNCHANGED tasks
       ELSE tasks' = tasks \cup {Head(queue)} /\ UNCHANGED manager
    /\ UNCHANGED <<enabled, sys, health, targets, notified, probes, events, proven, serverVars>>

\* push_handler: a response was sent.
Activity(p) ==
    /\ p \in targets /\ events[p] < MaxEvents
    /\ events' = [events EXCEPT ![p] = @ + 1]
    /\ notified' = notified \cup {p} /\ proven' = proven \cup {p}
    /\ UNCHANGED <<enabled, sys, health, targets, queue, manager, tasks, probes, serverVars>>

TaskNotified(p) ==
    /\ p \in tasks \cap notified
    /\ notified' = notified \ {p} /\ SetStatus(p, "Ready")
    /\ UNCHANGED <<enabled, sys, targets, queue, managerVars, serverVars>>

\* The canary timer fires; without a local engine nothing is sent.
SendHealthCheckRequest(p) ==
    /\ p \in tasks /\ p \in engines
    /\ probes[p] < MaxProbes /\ events[p] < MaxEvents
    /\ events' = [events EXCEPT ![p] = @ + 1]
    /\ probes' = [probes EXCEPT ![p] = @ + 1]
    /\ UNCHANGED <<healthVars, manager, tasks, proven, serverVars>>

\* A good first item; or an error, no item, a failed call or the timeout.
ProbeEnds(p, ok) ==
    /\ probes[p] > 0
    /\ probes' = [probes EXCEPT ![p] = @ - 1]
    /\ SetStatus(p, IF ok THEN "Ready" ELSE "NotReady")
    /\ proven' = IF ok THEN proven \cup {p} ELSE proven
    /\ UNCHANGED <<enabled, sys, targets, notified, queue, manager, tasks, events, serverVars>>

\* get_health_check_status
GetHealthCheckStatus == \A p \in targets : health[p] = "Ready"

-----------------------------------------------------------------------------
(* Registries and the status server *)

RegisterLocalEngine(p) ==
    /\ engines' = engines \cup {p}
    /\ UNCHANGED <<healthVars, managerVars, routes, artifacts, reply>>

RegisterRoute(p) ==
    /\ routes' = routes \cup {p}
    /\ UNCHANGED <<healthVars, managerVars, engines, artifacts, reply>>

RegisterArtifact(p) ==
    /\ artifacts' \in {artifacts \cup {p}, artifacts \ {p}}
    /\ UNCHANGED <<healthVars, managerVars, engines, routes, reply>>

\* Both the health and the live path.
HealthHandler == IF GetHealthStatus THEN 200 ELSE 503

\* The body is read before the route is looked up.
EngineRouteHandler(p, body, ok) ==
    IF body = "malformed" THEN 400 ELSE IF p \notin routes THEN 404 ELSE IF ok THEN 200 ELSE 500

MetadataFileHandler(p, ok) == IF p \notin artifacts THEN 404 ELSE IF ok THEN 200 ELSE 500

\* call_lora_endpoint: what the local engine's first item says; an item without a
\* status counts as a success.
CallLoraEndpoint(p, item) ==
    IF p \notin engines \/ item = "nothing" THEN "error"
    ELSE IF item = "no status" THEN "success" ELSE item

LoraHandler(p, item) == IF CallLoraEndpoint(p, item) = "error" THEN 500 ELSE 200

Http ==
    /\ reply' \in {HealthHandler}
                  \cup {EngineRouteHandler(p, b, ok) :
                            p \in Served, b \in {"", "json", "malformed"}, ok \in BOOLEAN}
                  \cup {MetadataFileHandler(p, ok) : p \in Served, ok \in BOOLEAN}
                  \cup {LoraHandler(p, i) : p \in Served,
                            i \in {"nothing", "no status", "error", "success"}}
    /\ UNCHANGED <<healthVars, managerVars, engines, routes, artifacts>>

-----------------------------------------------------------------------------
ManagerStep == Start \/ SpawnNewPortnameMonitor \/ Monitor

Next ==
    \/ New \/ ManagerStep
    \/ \E p \in Portnames :
         \/ RegisterHealthCheckTarget(p) \/ SetPortnameRegistered(p)
         \/ Activity(p) \/ TaskNotified(p) \/ SendHealthCheckRequest(p)
         \/ ProbeEnds(p, TRUE) \/ ProbeEnds(p, FALSE)
    \/ \E s \in {"Ready", "NotReady"} : SetHealthStatus(s)
    \/ Http
    \/ \E p \in Served : RegisterLocalEngine(p) \/ RegisterRoute(p) \/ RegisterArtifact(p)

\* The manager's tasks are polled.
Fairness == WF_vars(ManagerStep) /\ \A p \in Portnames : WF_vars(TaskNotified(p))

-----------------------------------------------------------------------------
\* With health checks on, a portname is ready only once it has answered something:
\* neither being registered nor being listed is enough.
ReadyIsProven ==
    enabled => /\ \A p \in Portnames : health[p] = "Ready" => p \in proven
               /\ GetHealthCheckStatus => targets \subseteq proven

\* The monitor has ended or will: the channel holds a portname that has its task already,
\* because it was registered before start read the targets.
MonitorEnds == manager = "exited" \/ (manager # "new" /\ ToSet(queue) \cap tasks # {})

\* HealthCheckManager::start: every portname with a target comes to have a task, as long as
\* none was registered before start; one that was ends the monitor, and those registered
\* later get no task.
Waits(p) == enabled /\ p \in targets /\ ~MonitorEnds
Answered(p) == p \in tasks
=============================================================================
