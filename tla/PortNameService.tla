--------------------------- MODULE PortNameService ---------------------------
(***************************************************************************)
(* The serving side of a process: portnames started by                       *)
(* servicegroup/portname.rs, the TCP request-plane server they share         *)
(* (ingress/shared_tcp_endpoint.rs), and the three-phase shutdown of         *)
(* runtime.rs, which waits for them through utils/graceful_shutdown.rs.      *)
(*                                                                         *)
(* A request is looked up, counted, queued and acknowledged by the read loop *)
(* of its connection, then dispatched to a bounded pool.  The clean-up task  *)
(* of a portname removes its handler and waits until the count is zero; the  *)
(* last clean-up wakes the shutdown, which cancels the root token.           *)
(***************************************************************************)
EXTENDS Naturals, Sequences, FiniteSets

CONSTANTS
    Ports,          \* portnames that may be started
    Requests,       \* each may arrive once, on a connection of its own
    Layouts,        \* [path, graceful, arrivals] : what a process may be
    QueueCap,       \* capacity of the work channel
    PoolSize,       \* permits of the worker pool
    Wrap            \* the inflight counters are modulo Wrap (2^64 in the code)

Paths == UNION {{l.path[s] : s \in DOMAIN l.path} : l \in Layouts}

ASSUME ServiceAssumption ==
    /\ IsFiniteSet(Ports) /\ IsFiniteSet(Requests) /\ Cardinality(Requests) < Wrap
    /\ QueueCap \in Nat \ {0} /\ PoolSize \in Nat \ {0} /\ Wrap \in Nat
    /\ \A l \in Layouts :
        /\ DOMAIN l.path \subseteq Ports /\ l.graceful \subseteq DOMAIN l.path
        /\ l.arrivals \subseteq Requests
        /\ \A s \in DOMAIN l.path : DOMAIN l.path[s] = {"instance", "name"}

Nobody == "nobody"
ASSUME NobodyAssumption == Nobody \notin Ports \cup Requests

VARIABLES
    layout,             \* never changed
    shut,               \* where Runtime::shutdown is
    ptoken,             \* portname_shutdown_token is cancelled
    active, rung,       \* active_portnames; the armed Notified has been notified
    start,              \* where start() of each portname is
    token,              \* portnames whose own child token was cancelled by start()
    clean,              \* where the clean-up task of each portname is
    keys, drained,      \* its keys_to_remove; the handler it is waiting for
    handlers,           \* path |-> the portname whose handler is registered
    inflight, bell,     \* PortNameHandler.inflight; notify holds a permit
    reader,             \* where the read loop is with each request
    target,             \* the handler it found
    item,               \* what became of its WorkItem
    queue, dispatcher,  \* the work channel; the item waiting for a permit
    early,              \* history: portnames tracked before Phase 2 looked
    late                \* history: requests counted when nobody would wait for them

runtimeVars == <<shut, ptoken>>
trackVars   == <<active, rung>>
portVars    == <<start, token>>
cleanVars   == <<clean, keys, drained>>
countVars   == <<inflight, bell>>
workVars    == <<item, queue, dispatcher>>
readVars    == <<reader, target>>
vars == <<layout, runtimeVars, trackVars, portVars, cleanVars, handlers, countVars, readVars,
          workVars, early, late>>

Configured  == DOMAIN layout.path
Path(s)     == layout.path[s]
Graceful(s) == s \in layout.graceful
Cancelled(s) == ptoken \/ s \in token

\* The names differ only in the instance: each clean-up removes both handlers.
Namesakes(s) == {t \in Configured \ {s} : Path(t).name = Path(s).name}

Counted(s)  == {r \in Requests : target[r] = s /\ reader[r] \notin {"idle", "found", "refused"}}
Ended       == {r \in Requests : item[r] = "done"}
Unacked     == {r \in Requests : reader[r] = "unacked"}
Open(s)     == Counted(s) \ Ended

TypeOK ==
    /\ layout \in Layouts
    /\ shut \in {"no", "cancelled", "arm", "check", "asleep", "ended"}
    /\ {ptoken, rung} \subseteq BOOLEAN
    /\ start \in [Ports -> {"idle", "tracked", "up", "published", "failed", "unpublished"}]
    /\ token \subseteq Ports /\ early \subseteq Ports /\ late \subseteq Requests
    /\ clean \in [Ports -> {"none", "waiting", "removing", "load", "asleep", "untrack", "done"}]
    /\ keys \in [Ports -> SUBSET Paths] /\ drained \in [Ports -> Ports \cup {Nobody}]
    /\ handlers \in [Paths -> Ports \cup {Nobody}]
    /\ bell \in [Ports -> BOOLEAN]
    /\ reader \in [Requests -> {"idle", "found", "counted", "sent", "acked", "unacked", "refused"}]
    /\ target \in [Requests -> Ports \cup {Nobody}]
    /\ item \in [Requests -> {"none", "queued", "held", "running", "panicked", "done"}]
    /\ queue \in Seq(Requests) /\ Len(queue) <= QueueCap
    /\ dispatcher \in Requests \cup {Nobody}
    /\ active = Cardinality({s \in Ports : /\ Graceful(s) /\ start[s] # "idle"
                                           /\ clean[s] # "done"})
    /\ \A s \in Ports : inflight[s] = (Cardinality(Counted(s)) + 2 * Wrap
            - Cardinality(Counted(s) \cap Ended) - Cardinality(Counted(s) \cap Unacked)) % Wrap

Init ==
    /\ layout \in Layouts
    /\ shut = "no" /\ ptoken = FALSE
    /\ active = 0 /\ rung = FALSE
    /\ start = [s \in Ports |-> "idle"] /\ token = {}
    /\ clean = [s \in Ports |-> "none"] /\ keys = [s \in Ports |-> {}]
    /\ drained = [s \in Ports |-> Nobody]
    /\ handlers = [p \in Paths |-> Nobody]
    /\ inflight = [s \in Ports |-> 0] /\ bell = [s \in Ports |-> FALSE]
    /\ reader = [r \in Requests |-> "idle"] /\ target = [r \in Requests |-> Nobody]
    /\ item = [r \in Requests |-> "none"] /\ queue = <<>> /\ dispatcher = Nobody
    /\ early = {} /\ late = {}

-----------------------------------------------------------------------------
(* PortNameConfigBuilder::start                                              *)

\* Child token, then the tracker.  Nothing stops a start during a shutdown.
Track(s) ==
    /\ s \in Configured /\ start[s] = "idle"
    /\ start' = [start EXCEPT ![s] = "tracked"]
    /\ active' = IF Graceful(s) THEN active + 1 ELSE active
    /\ UNCHANGED <<layout, runtimeVars, rung, token, cleanVars, handlers, countVars,
                   readVars, workVars, early, late>>

\* request_plane_server, wire_health_check_target or register_portname fails:
\* start() returns by "?", and what Track did stays.
StartFails(s) ==
    /\ start[s] = "tracked"
    /\ start' = [start EXCEPT ![s] = "failed"]
    /\ UNCHANGED <<layout, runtimeVars, trackVars, token, cleanVars, handlers, countVars,
                   readVars, workVars, early, late>>

\* register_portname (a path already there is overwritten; the path is Ready as
\* long as it is registered), then spawn_cleanup_task.
Register(s) ==
    /\ start[s] = "tracked"
    /\ start' = [start EXCEPT ![s] = "up"]
    /\ handlers' = [handlers EXCEPT ![Path(s)] = s]
    /\ clean' = [clean EXCEPT ![s] = "waiting"]
    /\ UNCHANGED <<layout, runtimeVars, trackVars, token, keys, drained, countVars,
                   readVars, workVars, early, late>>

\* register_in_discovery; its failure cancels the portname's own token.
Publish(s) ==
    /\ start[s] = "up"
    /\ \/ start' = [start EXCEPT ![s] = "published"] /\ UNCHANGED token
       \/ start' = [start EXCEPT ![s] = "unpublished"] /\ token' = token \cup {s}
    /\ UNCHANGED <<layout, runtimeVars, trackVars, cleanVars, handlers, countVars, readVars,
                   workVars, early, late>>

-----------------------------------------------------------------------------
(* spawn_cleanup_task and the two unregister_portname                        *)

\* Mutant: every key of the server.
CollectEverything(s) ==
    /\ clean[s] = "waiting" /\ Cancelled(s)
    /\ clean' = [clean EXCEPT ![s] = "removing"]
    /\ keys' = [keys EXCEPT ![s] = {p \in Paths : handlers[p] # Nobody}]
    /\ UNCHANGED <<layout, runtimeVars, trackVars, portVars, drained, handlers, countVars,
                   readVars, workVars, early, late>>

\* keys_to_remove: every registered path that ends in "/name".
CollectKeys(s) ==
    /\ clean[s] = "waiting" /\ Cancelled(s)
    /\ clean' = [clean EXCEPT ![s] = "removing"]
    /\ keys' = [keys EXCEPT ![s] = {p \in Paths : p.name = Path(s).name /\ handlers[p] # Nobody}]
    /\ UNCHANGED <<layout, runtimeVars, trackVars, portVars, drained, handlers, countVars,
                   readVars, workVars, early, late>>

\* handlers.remove and NotReady; the key may have gone meanwhile.
RemoveKey(s) ==
    /\ clean[s] = "removing"
    /\ \E p \in keys[s] :
        /\ keys' = [keys EXCEPT ![s] = @ \ {p}]
        /\ handlers' = [handlers EXCEPT ![p] = Nobody]
        /\ drained' = [drained EXCEPT ![s] = handlers[p]]
        /\ clean' = [clean EXCEPT ![s] = IF handlers[p] = Nobody THEN "removing" ELSE "load"]
    /\ UNCHANGED <<layout, runtimeVars, trackVars, portVars, countVars, readVars, workVars,
                   early, late>>

KeysDone(s) ==
    /\ clean[s] = "removing" /\ keys[s] = {}
    /\ clean' = [clean EXCEPT ![s] = "untrack"]
    /\ UNCHANGED <<layout, runtimeVars, trackVars, portVars, keys, drained, handlers,
                   countVars, readVars, workVars, early, late>>

\* while inflight > 0
LoadInflight(s) ==
    /\ clean[s] = "load"
    /\ IF inflight[drained[s]] > 0
       THEN clean' = [clean EXCEPT ![s] = "asleep"] /\ UNCHANGED drained
       ELSE clean' = [clean EXCEPT ![s] = "removing"] /\ drained' = [drained EXCEPT ![s] = Nobody]
    /\ UNCHANGED <<layout, runtimeVars, trackVars, portVars, keys, handlers, countVars,
                   readVars, workVars, early, late>>

\* Mutant: "if" for "while", so that any finished request ends the wait.
DrainWakesOnce(s) ==
    /\ clean[s] = "asleep" /\ bell[drained[s]]
    /\ bell' = [bell EXCEPT ![drained[s]] = FALSE]
    /\ clean' = [clean EXCEPT ![s] = "removing"] /\ drained' = [drained EXCEPT ![s] = Nobody]
    /\ UNCHANGED <<layout, runtimeVars, trackVars, portVars, keys, handlers, inflight,
                   readVars, workVars, early, late>>

\* notify.notified().await
DrainWakes(s) ==
    /\ clean[s] = "asleep" /\ bell[drained[s]]
    /\ bell' = [bell EXCEPT ![drained[s]] = FALSE]
    /\ clean' = [clean EXCEPT ![s] = "load"]
    /\ UNCHANGED <<layout, runtimeVars, trackVars, portVars, keys, drained, handlers,
                   inflight, readVars, workVars, early, late>>

\* Mutant: the result of fetch_sub is taken for the new count.
UntrackMiscount(s) ==
    /\ clean[s] = "untrack"
    /\ clean' = [clean EXCEPT ![s] = "done"]
    /\ active' = IF Graceful(s) THEN active - 1 ELSE active
    /\ rung' = (rung \/ (Graceful(s) /\ active = 0))
    /\ UNCHANGED <<layout, runtimeVars, portVars, keys, drained, handlers, countVars,
                   readVars, workVars, early, late>>

\* tracker.unregister_portname: fetch_sub, and notify_waiters for the last one.
Untrack(s) ==
    /\ clean[s] = "untrack"
    /\ clean' = [clean EXCEPT ![s] = "done"]
    /\ active' = IF Graceful(s) THEN active - 1 ELSE active
    /\ rung' = (rung \/ (Graceful(s) /\ active = 1))
    /\ UNCHANGED <<layout, runtimeVars, portVars, keys, drained, handlers, countVars,
                   readVars, workVars, early, late>>

Cleanup(s) ==
    \/ CollectKeys(s) \/ RemoveKey(s) \/ KeysDone(s)
    \/ LoadInflight(s) \/ DrainWakes(s) \/ Untrack(s)

-----------------------------------------------------------------------------
(* Runtime::shutdown, wait_for_completion and the signal handler             *)

Tracked == {s \in Ports : Graceful(s) /\ start[s] # "idle" /\ clean[s] # "done"}

\* Phase 1
Shutdown ==
    /\ shut = "no"
    /\ shut' = "cancelled" /\ ptoken' = TRUE
    /\ UNCHANGED <<layout, trackVars, portVars, cleanVars, handlers, countVars, readVars,
                   workVars, early, late>>

\* Phase 2: get_count.  With nothing to wait for, Phase 3 at once: "ended" is
\* the cancelled root token, which nothing modelled here waits for.
Look ==
    /\ shut = "cancelled"
    /\ shut' = IF active > 0 THEN "arm" ELSE "ended"
    /\ early' = Tracked
    /\ UNCHANGED <<layout, ptoken, trackVars, portVars, cleanVars, handlers, countVars,
                   readVars, workVars, late>>

\* shutdown_complete.notified(): from here notify_waiters reaches the waiter.
Arm ==
    /\ shut = "arm"
    /\ shut' = "check" /\ rung' = FALSE
    /\ UNCHANGED <<layout, ptoken, active, portVars, cleanVars, handlers, countVars,
                   readVars, workVars, early, late>>

CheckCount ==
    /\ shut = "check"
    /\ shut' = IF active = 0 THEN "ended" ELSE "asleep"
    /\ UNCHANGED <<layout, ptoken, trackVars, portVars, cleanVars, handlers, countVars,
                   readVars, workVars, early, late>>

WaitWakes ==
    /\ shut = "asleep" /\ rung
    /\ shut' = "arm"
    /\ UNCHANGED <<layout, ptoken, trackVars, portVars, cleanVars, handlers, countVars,
                   readVars, workVars, early, late>>

ShutdownTask == Look \/ Arm \/ CheckCount \/ WaitWakes

\* Ctrl+C or SIGTERM: the root token and with it its children, without phases.
Signal ==
    /\ ~ptoken
    /\ ptoken' = TRUE
    /\ UNCHANGED <<layout, shut, trackVars, portVars, cleanVars, handlers, countVars,
                   readVars, workVars, early, late>>

-----------------------------------------------------------------------------
(* read_loop                                                                 *)

\* inflight.fetch_sub(1), which wraps, and notify_one.
Uncount(s) ==
    /\ inflight' = [inflight EXCEPT ![s] = (@ + Wrap - 1) % Wrap]
    /\ bell' = [bell EXCEPT ![s] = TRUE]

\* handlers.get: the handler is cloned out of the map.
Lookup(r) ==
    /\ r \in layout.arrivals /\ reader[r] = "idle"
    /\ \E p \in Paths :
        \/ /\ handlers[p] # Nobody
           /\ reader' = [reader EXCEPT ![r] = "found"]
           /\ target' = [target EXCEPT ![r] = handlers[p]]
        \/ /\ handlers[p] = Nobody
           /\ reader' = [reader EXCEPT ![r] = "refused"] /\ UNCHANGED target
    /\ UNCHANGED <<layout, runtimeVars, trackVars, portVars, cleanVars, handlers, countVars,
                   workVars, early, late>>

\* The handler is registered, or somebody still waits for it.
Awaited(s) ==
    \/ handlers[Path(s)] = s
    \/ \E t \in Ports : drained[t] = s /\ clean[t] \in {"load", "asleep"}

\* inflight.fetch_add(1)
Count(r) ==
    /\ reader[r] = "found"
    /\ reader' = [reader EXCEPT ![r] = "counted"]
    /\ inflight' = [inflight EXCEPT ![target[r]] = (@ + 1) % Wrap]
    /\ late' = IF Awaited(target[r]) THEN late ELSE late \cup {r}
    /\ UNCHANGED <<layout, runtimeVars, trackVars, portVars, cleanVars, handlers, bell,
                   target, workVars, early>>

\* work_tx.reserve and send: the reader waits while the channel is full.
Enqueue(r) ==
    /\ reader[r] = "counted" /\ Len(queue) < QueueCap
    /\ reader' = [reader EXCEPT ![r] = "sent"]
    /\ item' = [item EXCEPT ![r] = "queued"]
    /\ queue' = Append(queue, r)
    /\ UNCHANGED <<layout, runtimeVars, trackVars, portVars, cleanVars, handlers, countVars,
                   target, dispatcher, early, late>>

Ack(r) ==
    /\ reader[r] = "sent"
    /\ reader' = [reader EXCEPT ![r] = "acked"]
    /\ UNCHANGED <<layout, runtimeVars, trackVars, portVars, cleanVars, handlers, countVars,
                   target, workVars, early, late>>

\* The write task has gone: the count is taken back, the item stays queued.
AckFails(r) ==
    /\ reader[r] = "sent"
    /\ reader' = [reader EXCEPT ![r] = "unacked"]
    /\ Uncount(target[r])
    /\ UNCHANGED <<layout, runtimeVars, trackVars, portVars, cleanVars, handlers, target,
                   workVars, early, late>>

ReadLoop(r) == Lookup(r) \/ Count(r) \/ Enqueue(r) \/ Ack(r) \/ AckFails(r)

-----------------------------------------------------------------------------
(* start_worker_pool and handle_work_item.  The server's own token is never  *)
(* cancelled, so that the dispatcher does not end.                           *)

Running == {r \in Requests : item[r] = "running"}

Dispatch ==
    /\ dispatcher = Nobody /\ queue # <<>>
    /\ dispatcher' = Head(queue) /\ queue' = Tail(queue)
    /\ item' = [item EXCEPT ![Head(queue)] = "held"]
    /\ UNCHANGED <<layout, runtimeVars, trackVars, portVars, cleanVars, handlers, countVars,
                   readVars, early, late>>

\* acquire_owned, then a task of its own.
Spawn ==
    /\ dispatcher # Nobody /\ Cardinality(Running) < PoolSize
    /\ item' = [item EXCEPT ![dispatcher] = "running"]
    /\ dispatcher' = Nobody
    /\ UNCHANGED <<layout, runtimeVars, trackVars, portVars, cleanVars, handlers, countVars,
                   readVars, queue, early, late>>

\* handle_payload returns, with a result or an error; fetch_sub and notify_one.
Handled(r) ==
    /\ item[r] = "running"
    /\ item' = [item EXCEPT ![r] = "done"]
    /\ Uncount(target[r])
    /\ UNCHANGED <<layout, runtimeVars, trackVars, portVars, cleanVars, handlers, readVars,
                   queue, dispatcher, early, late>>

\* handle_payload panics: the task unwinds with its permit, nothing is counted.
Panics(r) ==
    /\ item[r] = "running"
    /\ item' = [item EXCEPT ![r] = "panicked"]
    /\ UNCHANGED <<layout, runtimeVars, trackVars, portVars, cleanVars, handlers, countVars,
                   readVars, queue, dispatcher, early, late>>

-----------------------------------------------------------------------------

Next ==
    \/ \E s \in Ports : Track(s) \/ StartFails(s) \/ Register(s) \/ Publish(s) \/ Cleanup(s)
    \/ Shutdown \/ ShutdownTask \/ Signal
    \/ \E r \in Requests : ReadLoop(r) \/ Handled(r) \/ Panics(r)
    \/ Dispatch \/ Spawn

Spec == Init /\ [][Next]_vars

\* Every task runs when it can, and handle_payload ends.
Fairness ==
    /\ \A s \in Ports :
        /\ WF_vars(StartFails(s) \/ Register(s) \/ Publish(s))
        /\ WF_vars(Cleanup(s))
    /\ WF_vars(ShutdownTask)
    /\ \A r \in Requests :
        /\ WF_vars(Count(r) \/ Enqueue(r) \/ Ack(r) \/ AckFails(r))
        /\ WF_vars(Handled(r) \/ Panics(r))
    /\ WF_vars(Dispatch) /\ WF_vars(Spawn)

FairSpec == Spec /\ Fairness

-----------------------------------------------------------------------------

\* Phase 3 comes after Phase 2: when Runtime::shutdown has cancelled the root
\* token, the clean-up of every graceful portname that was up or starting when
\* it looked has ended, and a request that found one of them is not left
\* running.  Excepted are the requests counted after the wait was over (late), a
\* portname whose name another one shares, and one that a failed
\* acknowledgement has counted down twice.
PhaseOrder ==
    shut = "ended" => \A s \in early :
        /\ clean[s] = "done"
        /\ \/ Open(s) \subseteq late
           \/ Namesakes(s) # {}
           \/ Counted(s) \cap Unacked # {}

\* A published portname that nobody has cancelled can be reached, and by itself:
\* the clean-up of another one does not take its handler away, unless the two
\* share a name.
PublishedReachable ==
    \A s \in Ports :
        start[s] = "published" /\ ~Cancelled(s) /\ Namesakes(s) = {} => handlers[Path(s)] = s

\* What keeps a shutdown waiting for ever: a graceful portname whose start()
\* failed once it was tracked (portname.rs:243 counts it, the early returns at
\* :246, :257 and :274 do not take it back), a handler that panicked, a count that
\* went below zero.
Leaked == \E s \in Ports : Graceful(s) /\ start[s] = "failed"
Undrainable ==
    \/ \E r \in Requests : item[r] = "panicked"
    \/ Unacked # {}

\* Runtime::shutdown ends: no wake-up of the clean-up tasks or of the waiter is
\* lost, whatever the order of the last request, the last clean-up and the wait.
ShutdownEnds == shut = "cancelled" ~> (shut = "ended" \/ Leaked \/ Undrainable)

=============================================================================
