------------------------------ MODULE MCMocker ------------------------------
(***************************************************************************)
(* The mock engine and what drives it: the scheduler and its cache, the    *)
(* shared tiers, the events an engine publishes, the router of a replay,   *)
(* online and single-worker replays, the planner's ticks and report, and   *)
(* the bootstrap rendezvous. A behaviour is one of one part, named by      *)
(* `part'; the variables of the others keep their initial values.          *)
(***************************************************************************)
EXTENDS Integers, Sequences, FiniteSets

VARIABLES
    part,
    args, cache, req, waiting, wmem, running, rmem, pc, idx, cur, budget, preempted, scheduled,
    ready, outputs, listening, done,
    conf, onlinePhase, onlineTurn, onlineDue, flight, permits, woken, timed, task, at, faults,
    registry, firsts, dones, engine, onlineKept, arrivals, admissions, onlineOutputs,
    known, onlineAdmitted, given, slots, onlineStats,
    mode, source, singlePhase, now, pending, singleTurn, singleReady, flying, singleWaiting,
    singleRunning, preempts, singleStats, artifacts, progress, report,
    rooms, client, server, completed, bootListening, acks,
    sinks, inbox, core, eventsPc, passes, visibility, made, buffer, fpm, toEvents, toRaw,
    toFpm, refused, output, eventsOutputs, open, cancelled,
    sharedConf, kv, holds, l1, l2, history, stats, answer,
    plannerNow, until, plannerRouted, plannerStats, plannerWaiting, plannerRunning, pass, traffic,
    plannerBuffer, plannerDone, windows, ticks, plannerReport,
    routingMode, phase, routingKnown, routingCache, index, channel, routingSinks, queue,
    routingSlots, left, cursor, events

\* "a" and "b" share their first prompt block; "c" is a request of one block.
InputOf  == [a |-> 5, b |-> 3, c |-> 2]
OutputOf == [a |-> 3, b |-> 3, c |-> 2]
PromptOf == [a |-> <<"p", "q">>, b |-> <<"p">>, c |-> <<"s">>]
\* A cache too small or just large enough, a budget below or above a prompt, one seat or three.
EngineArgs ==
    {e \in [blocks : {2, 4}, mode : {"lifo", "fifo"}, caching : BOOLEAN, chunked : BOOLEAN,
            budget : {3, 9}, seqs : {1, 3}] : e.seqs = 1 => e.blocks = 4 /\ e.budget = 9 /\ e.mode = "lifo"}
OneEngine == CHOOSE e \in EngineArgs : e.blocks = 2
RunConf(s, m, k) == [source |-> s, mode |-> m, router |-> k]
RunConfs == {RunConf("requests", "trace", "round_robin"), RunConf("requests", "concurrency", "round_robin"),
             RunConf("workload", "concurrency", "kv"), RunConf("workload", "trace", "kv")}
\* The request of the second session is given two tokens, the others one.
OnlineTokens == [r \in {<<1, 1>>, <<1, 2>>, <<2, 1>>} |-> IF r = <<2, 1>> THEN 2 ELSE 1]
Turn(n, d) == [out |-> n, delay |-> d]
Sessions == <<[first |-> 0, turns |-> <<Turn(2, 0), Turn(1, 2)>>], [first |-> 3, turns |-> <<Turn(1, 0)>>]>>
Prompts == {<<<<"p", 1>>, <<"p", 2>>, <<"p", 3>>>>, <<<<"q", 1>>, <<"q", 2>>>>}
TwoTiers == [l1 |-> TRUE, l2 |-> TRUE, cap1 |-> 2, cap2 |-> 3]
TierConfs == {TwoTiers, [l1 |-> FALSE, l2 |-> TRUE, cap1 |-> 0, cap2 |-> 0]}

\* Three requests on engines of every kind.
Engine   == INSTANCE VllmScheduler WITH Requests <- {"a", "b", "c"}, Input <- InputOf,
                     MaxOutput <- OutputOf, Prompt <- PromptOf, BlockSize <- 2,
                     MaxEntries <- 9, Engines <- EngineArgs
\* online: two sessions of three turns on one engine; one request task may fail.
\* single: two sessions of three turns on one engine of two seats.
Runtimes == INSTANCE ReplayRuntimes WITH Turns <- <<2, 1>>, Workers <- {0}, OnlineCap <- 1,
                     Tokens <- OnlineTokens, MaxFaults <- 1, Confs <- RunConfs,
                     outputs <- onlineOutputs, Sessions <- Sessions,
                     Modes <- {"trace", "concurrency", "artifacts"},
                     Sources <- {"requests", "workload"}, SingleCap <- 1, Seats <- 2,
                     PassTimes <- {0, 2}, MaxPreempts <- 1, ready <- singleReady,
                     waiting <- singleWaiting, running <- singleRunning
\* boot: three calls for one room.
\* events: a pass of up to two events each, one of which a sink may refuse.
\* shared: two workers over two tiers of two and three blocks.
Services == INSTANCE EngineServices WITH Calls <- {"a", "b", "c"}, Rooms <- {0},
                     RoomOf <- [c \in {"a", "b", "c"} |-> 0], MayStop <- TRUE,
                     listening <- bootListening, Requests <- {"a", "b"}, MaxPasses <- 2,
                     MaxPerPass <- 2, MaxFaults <- 1, EventSinks <- {TRUE},
                     RawSinks <- {TRUE, FALSE}, pc <- eventsPc, outputs <- eventsOutputs,
                     Workers <- {"w", "x"}, Prompts <- Prompts, Slots <- 3,
                     Confs <- TierConfs, MaxStores <- 7, MaxRemovals <- 1, MaxCounted <- 1,
                     conf <- sharedConf
\* planner: three requests and a planner that looks in the middle and at the end.
\* routing: three requests with a common prefix on an engine and one that joins.
Control  == INSTANCE ReplayControl WITH PlannerRequests <- 1..3, Arrival <- <<0, 1, 1>>,
                     Input <- <<2, 3, 2>>, Output <- <<1, 2, 2>>, Routed <- BOOLEAN,
                     Overlaps <- {1}, PassTimes <- {1, 2}, Scale <- 2, Until <- {2, 9},
                     MaxTicks <- 1, now <- plannerNow, stats <- plannerStats,
                     running <- plannerRunning, routed <- plannerRouted,
                     waiting <- plannerWaiting, buffer <- plannerBuffer,
                     done <- plannerDone, report <- plannerReport,
                     Modes <- {"offline", "online", "round_robin"}, Workers <- 0..1,
                     Started <- {0}, RoutingRequests <- {"a", "b", "c"},
                     Prompt <- [a |-> <<"p", "q">>, b |-> <<"p", "s">>, c |-> <<"p", "q">>],
                     Tail_ <- [a |-> 0, b |-> 1, c |-> 1], BlockSize <- 2, Threshold <- 2,
                     Jump <- [a |-> 0, b |-> 0, c |-> 1], MaxEvents <- 2,
                     mode <- routingMode, known <- routingKnown, cache <- routingCache,
                     sinks <- routingSinks, slots <- routingSlots

engineVars  == <<args, cache, req, waiting, wmem, running, rmem, pc, idx, cur, budget,
                 preempted, scheduled, ready, outputs, listening, done>>
onlineVars  == <<conf, onlinePhase, onlineTurn, onlineDue, flight, permits, woken, timed,
                 task, at, faults, registry, firsts, dones, engine, onlineKept, arrivals,
                 admissions, onlineOutputs, known, onlineAdmitted, given, slots,
                 onlineStats>>
singleVars  == <<mode, source, singlePhase, now, pending, singleTurn, singleReady, flying,
                 singleWaiting, singleRunning, preempts, singleStats, artifacts, progress,
                 report>>
bootVars    == <<rooms, client, server, completed, bootListening, acks>>
eventsVars  == <<sinks, inbox, core, eventsPc, passes, visibility, made, buffer, fpm,
                 toEvents, toRaw, toFpm, refused, output, eventsOutputs, open, cancelled>>
sharedVars  == <<sharedConf, kv, holds, l1, l2, history, stats, answer>>
plannerVars == <<plannerNow, until, plannerRouted, plannerStats, plannerWaiting,
                 plannerRunning, pass, traffic, plannerBuffer, plannerDone, windows, ticks, plannerReport>>
routingVars == <<routingMode, phase, routingKnown, routingCache, index, channel,
                 routingSinks, queue, routingSlots, left, cursor, events>>
vars == <<part, engineVars, onlineVars, singleVars, bootVars, eventsVars, sharedVars,
          plannerVars, routingVars>>

Init ==
    /\ part \in {"engine", "online", "single", "boot", "events", "shared", "planner", "routing"}
    /\ IF part # "engine" THEN args = OneEngine ELSE TRUE
    /\ IF part # "shared" THEN sharedConf = TwoTiers ELSE TRUE
    /\ IF part # "events" THEN sinks = [event |-> TRUE, raw |-> TRUE] ELSE TRUE
    /\ IF part # "planner" THEN plannerRouted = TRUE ELSE TRUE
    /\ Engine!Init /\ Runtimes!OnlineInit /\ Runtimes!SingleInit /\ Services!BootInit
    /\ Services!EventsInit /\ Services!SharedInit /\ Control!PlannerInit
    /\ Control!RoutingInit

\* A step of a part: the variables of the others stay.
Of(p) ==
    /\ part = p /\ UNCHANGED part
    /\ IF p = "engine" THEN TRUE ELSE UNCHANGED engineVars
    /\ IF p = "online" THEN TRUE ELSE UNCHANGED onlineVars
    /\ IF p = "single" THEN TRUE ELSE UNCHANGED singleVars
    /\ IF p = "boot" THEN TRUE ELSE UNCHANGED bootVars
    /\ IF p = "events" THEN TRUE ELSE UNCHANGED eventsVars
    /\ IF p = "shared" THEN TRUE ELSE UNCHANGED sharedVars
    /\ IF p = "planner" THEN TRUE ELSE UNCHANGED plannerVars
    /\ IF p = "routing" THEN TRUE ELSE UNCHANGED routingVars

Next ==
    \/ Of("engine") /\ Engine!Next
    \/ Of("online") /\ Runtimes!OnlineNext
    \/ Of("single") /\ Runtimes!SingleNext
    \/ Of("boot") /\ Services!BootNext
    \/ Of("events") /\ Services!EventsNext
    \/ Of("shared") /\ Services!SharedNext
    \/ Of("planner") /\ Control!PlannerNext
    \/ Of("routing") /\ Control!RoutingNext

Spec == Init /\ [][Next]_vars

ASSUME Engine!SchedulerAssumption

\* Weak fairness of the engine's task, with its enabling condition written out; of the loop
\* of a live replay, and of its other tasks and its clock; of the bootstrap server's
\* connections; of the engine's loop; of the router's event task, and of the engines that
\* drop its sinks.  Where one step of several is owed, the tasks take finitely many.
FairSpec ==
    /\ Spec
    /\ []<>~Engine!Busy \/ []<><<Engine!EnginePass>>_vars
    /\ WF_vars(Of("online") /\ Runtimes!Loop)
    /\ WF_vars(Of("online") /\ Runtimes!Others)
    /\ WF_vars(Of("boot") /\ \E c \in {"a", "b", "c"} :
                  Services!ServerStep(c) \/ Services!TimeOut(c) \/ Services!GiveUp(c))
    /\ WF_vars(Of("events") /\ Services!EngineLoop)
    /\ WF_vars(Of("routing") /\ Control!EventTask)
    /\ WF_vars(Of("routing") /\ \E w \in 0..1 : Control!DropSink(w))

-----------------------------------------------------------------------------
\* Every active block is counted once for every request that holds it, the cache never
\* takes more than its slots, and the assertions of a debug build hold: each request is in
\* one queue, as its status says, and holds the blocks of the tokens it is to emit
\* (vllm/core.rs, kv_manager).
RefsExact == part = "engine" => Engine!TypeOK /\ Engine!RefsExact /\ Engine!AssertionsHold

\* What others believe to be cached is what is cached: the events an engine published
\* (kv_manager), the router's index with the events on their way (replay/router), and
\* the tiers that workers share, which keep what was stored last and which nobody pays
\* for twice (lmcache).
CachesAgree ==
    /\ part = "engine" => Engine!EventsChain
    /\ part = "routing" => Control!IndexFollows
    /\ part = "shared" => Services!RecentKept /\ Services!TiersNest /\ Services!CostIsShared

\* Who waits in a part, and when it has been answered.
Waits(r) ==
    \/ part = "engine" /\ Engine!Ample /\ r \in Engine!Live
    \/ part = "online" /\ r = "a"
    \/ part = "boot" /\ client[r] = "waiting"
    \/ part = "events" /\ r = "a" /\ cancelled
    \/ part = "routing" /\ r = "a" /\ phase = "closing"
Answered(r) ==
    \/ part = "engine" /\ (r \in done \/ pc = "stopped")
    \/ part = "online" /\ Runtimes!Returned
    \/ part = "boot" /\ client[r] \in {"acked", "failed"}
    \/ part = "events" /\ eventsPc = "ended"
    \/ part = "routing" /\ phase = "closed" /\ channel = <<>>

\* Work ends: a request that fits is completed however often it is preempted
\* (vllm/core.rs), a live replay returns unless a request of an uncapped workload failed
\* (online), every decode worker that asks gets its answer (bootstrap.rs), a cancelled
\* scheduler stops (live.rs) and a router that is shut down has applied every event.  And
\* requests of one key leave the router's queue in the order they came.
WorkCompletes ==
    /\ \A r \in {"a", "b", "c"} : Waits(r) ~> Answered(r)
    /\ Control!QueueInOrder


\* A limit holds at every moment: the cap on requests in flight (live_runtime.rs, single.rs),
\* one answer for each completed room (bootstrap.rs), and each request in one place of the
\* router, with no more tokens than its prompt has (replay/router).
LimitsHeld ==
    /\ part = "online" => Runtimes!CapHolds
    /\ part = "single" => Runtimes!CapRespected
    /\ part = "routing" => Control!RequestsInPlace
    /\ part = "boot" => Services!AckMeansReady /\ Services!WaitersSeated
=============================================================================
