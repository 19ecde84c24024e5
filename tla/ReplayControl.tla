---------------------------- MODULE ReplayControl ----------------------------
(****************************************************************************)
(* What steers a replay, in two sections: the planner's ticks and the       *)
(* report, and the router with its queue and index.                         *)
(****************************************************************************)
EXTENDS Naturals, Sequences, FiniteSets, FiniteSetsExt, SequencesExt, Functions

-----------------------------------------------------------------------------
(***************************************************************************)
(* What a planner sees of an offline replay (lib/mocker/src/replay/        *)
(* planner_handle.rs): the traffic window and the pass snapshots that      *)
(* agg.rs gathers (offline/components/types.rs), and the report that       *)
(* collector.rs makes of the requests when the replay is finalized.        *)
(*                                                                         *)
(* The replay itself is OfflineReplay; here the passes of its workers are  *)
(* those of one, and give a token to some of the running requests.  A pass *)
(* writes the times of its tokens when it starts and is completed when its *)
(* end is due.  With a router a request may have to wait, and the router   *)
(* admits any of those that wait when something gives it room; when        *)
(* nothing is on a worker its load is zero and it admits at least one.     *)
(* Times are integers.  A mean is a pair <<sum, count>>, and quotients are *)
(* in units of 1/Scale.                                                    *)
(***************************************************************************)
CONSTANTS PlannerRequests,   \* numbers: the order of arrival
          Arrival,    \* Arrival[r]
          Input,      \* Input[r]: prompt length
          Output,     \* Output[r]: max_output_tokens
          Routed,     \* whether there is a router: subset of BOOLEAN
          Overlaps,   \* overlap_blocks the router may report
          PassTimes,  \* what a pass may take
          BlockSize,
          Scale,      \* divisible by every number of gaps and blocks
          Until,      \* the times the planner advances to, after 0
          MaxTicks    \* calls of the planner

VARIABLES now, until,        \* now_ms; until_ms of the call that runs, or Idle
          stats,             \* TraceCollector.requests
          routed,            \* router.is_some()
          waiting,           \* requests in the router's queue
          running,           \* requests a worker has, with the tokens they miss
          pass,              \* the pass under way: [at, signals], or NoPass
          traffic,           \* TrafficAccumulator
          buffer,            \* fpm_buffer
          done,              \* requests whose completion was processed
          windows, ticks,    \* what the planner got: TrafficStats, PlannerTickData
          report

runVars == <<routed, stats, waiting, running, pass, done>>
plannerVars == <<now, until, runVars, traffic, buffer, windows, ticks, report>>

Idle == 0
NoPass == [at |-> 0, signals |-> {}]

-----------------------------------------------------------------------------
(* TrafficAccumulator                                                         *)

NewAccumulator(start) ==
  [start |-> start, num |-> 0, isl |-> 0, osl |-> 0, ttft |-> <<0, 0>>, itl |-> <<0, 0>>, hit |-> <<0, 0>>]

Added(mean, x) == <<mean[1] + x, mean[2] + 1>>

\* isl_blocks of admit_request: a block that is not full counts
IslBlocks(r) == (Input[r] + BlockSize - 1) \div BlockSize

OnAdmission(a, overlap, blocks) ==
  IF blocks = 0 THEN a ELSE [a EXCEPT !.hit = Added(@, (overlap * Scale) \div blocks)]

\* A latency of zero is not counted.
OnRequest(a, r, ttft, itl) ==
  [a EXCEPT !.num = @ + 1, !.isl = @ + Input[r], !.osl = @ + Output[r],
            !.ttft = IF ttft > 0 THEN Added(@, ttft) ELSE @,
            !.itl  = IF itl > 0 THEN Added(@, itl) ELSE @]

\* The TrafficStats of a window; its means are 0 when nothing was counted.
Window(a, t) ==
  [from |-> a.start, to |-> t, num |-> a.num, isl |-> <<a.isl, a.num>>, osl |-> <<a.osl, a.num>>,
   ttft |-> a.ttft, itl |-> a.itl, hit |-> a.hit]

-----------------------------------------------------------------------------
(* TraceCollector                                                             *)

PlannerLess(a, b) == IF a > b THEN a - b ELSE 0
FirstToken(s) == s.times[1]
LastToken(s) == s.times[Len(s.times)]
Gaps(s) == [i \in 1..PlannerLess(Len(s.times), 1) |-> PlannerLess(s.times[i + 1], s.times[i])]

\* mean_tpot_ms, 0 for a single token
MeanTpot(s) == IF Len(s.times) < 2 THEN 0
               ELSE (PlannerLess(LastToken(s), FirstToken(s)) * Scale) \div (Len(s.times) - 1)

Total(q) == FoldLeft(LAMBDA x, y : x + y, 0, q)
Mean(q) == <<Total(q), Len(q)>>

\* Mutant of PercentileRank: the rank counts from one
PercentileRankOne(n, p) == LET k == (2 * n * p + 100) \div 200 IN IF k < n - 1 THEN k ELSE n - 1

\* (n - 1) * p / 100, rounded, half up
PercentileRank(n, p) == LET k == (2 * (n - 1) * p + 100) \div 200 IN IF k < n - 1 THEN k ELSE n - 1

\* percentile_in_place: the value with that many smaller ones before it
Percentile(q, p) ==
  LET k == PercentileRank(Len(q), p)
  IN  CHOOSE v \in Range(q) : /\ Cardinality({i \in DOMAIN q : q[i] < v}) <= k
                              /\ Cardinality({i \in DOMAIN q : q[i] <= v}) > k

\* n * n times the variance whose root is std_ms
StdDev(q) == Len(q) * Total([i \in DOMAIN q |-> q[i] * q[i]]) - Total(q) * Total(q)

Percentiles == <<50, 75, 90, 95, 99>>

BuildDistribution(q) ==
  IF q = <<>> THEN [n |-> 0, mean |-> <<0, 0>>, min |-> 0, max |-> 0, ranks |-> <<0, 0, 0, 0, 0>>, std |-> 0]
  ELSE [n |-> Len(q), mean |-> Mean(q), min |-> Min(Range(q)), max |-> Max(Range(q)),
        ranks |-> [i \in 1..5 |-> Percentile(q, Percentiles[i])], std |-> StdDev(q)]

\* processed_tokens
ProcessedTokens(counted) == Total([i \in DOMAIN counted |-> Input[counted[i]] + Output[counted[i]]])

\* The distributions that Serialize writes under their prefixes.  The throughput a
\* user sees is the inverse of the gaps that are not 0.
LatencyEntries(counted) ==
  LET two == SelectSeq(counted, LAMBDA r : Len(stats[r].times) > 1)
      itls == FlattenSeq([i \in DOMAIN counted |-> Gaps(stats[counted[i]])])
  IN  [ttft |-> [i \in DOMAIN counted |-> LET s == stats[counted[i]] IN PlannerLess(FirstToken(s), s.arrival)],
       ttst |-> [i \in DOMAIN two |-> Gaps(stats[two[i]])[1]],
       tpot |-> [i \in DOMAIN two |-> MeanTpot(stats[two[i]])],
       itl  |-> itls,
       e2e  |-> [i \in DOMAIN counted |-> LET s == stats[counted[i]] IN PlannerLess(LastToken(s), s.arrival)],
       user |-> SelectSeq(itls, LAMBDA x : x > 0)]

\* finish: a request counts when it was admitted and has a token.
Finish ==
  LET counted == SetToSortSeq({r \in DOMAIN stats : stats[r].admit # {} /\ stats[r].times # <<>>},
                              LAMBDA a, b : a < b)
      entries == LatencyEntries(counted)
  IN  [num       |-> Cardinality(DOMAIN stats),
       completed |-> Range(counted),
       tokens    |-> ProcessedTokens(counted),
       reused    |-> Total([i \in DOMAIN counted |-> stats[counted[i]].reused]),
       duration  |-> Max({0} \cup {LastToken(stats[r]) : r \in Range(counted)}),
       latency   |-> [k \in DOMAIN entries |-> BuildDistribution(entries[k])]]

\* A request the collector has just heard of.
NewStats(r) == [arrival |-> Arrival[r], admit |-> {}, times |-> <<>>, reused |-> 0]

-----------------------------------------------------------------------------
PlannerInit ==
  /\ now = 0 /\ until = Idle
  /\ routed \in Routed /\ stats = <<>> /\ waiting = {} /\ running = <<>> /\ pass = NoPass /\ done = {}
  /\ traffic = NewAccumulator(0) /\ buffer = <<>>
  /\ windows = <<>> /\ ticks = <<>> /\ report = [num |-> 0]

Open == report = [num |-> 0] /\ Len(windows) + Len(ticks) <= MaxTicks
PlannerPut(f, k, v) == [x \in DOMAIN f \cup {k} |-> IF x = k THEN v ELSE f[x]]
Due == {r \in PlannerRequests \ DOMAIN stats : Arrival[r] <= now}

\* dispatch_router_admissions: the requests of A leave the queue W for a worker, and the
\* hit of each is sampled now.  `held' are the requests that are on a worker anyway.
Admissions(A, W, held, overlap, a) ==
  /\ A \subseteq W /\ (A = {} => W = {} \/ held # {})
  /\ waiting' = W \ A
  /\ running' = [r \in DOMAIN running \cup A |-> IF r \in A THEN Output[r] ELSE running[r]]
  /\ traffic' = FoldSet(LAMBDA r, b : OnAdmission(b, Min({overlap, Input[r] \div BlockSize}), IslBlocks(r)), a, A)

\* The requests a worker has until their completion is processed.
Held == DOMAIN running \cup {x.r : x \in pass.signals}

\* AggRuntime::assign_request at the time of arrival.  Without a router the request goes
\* to a worker and no hit is counted; with one, on_request_arrival admits it or not.
Assign(r, A, overlap) ==
  /\ until # Idle /\ pass.at <= now /\ pass.signals = {} /\ r = Min(Due)
  /\ stats' = PlannerPut(stats, r, NewStats(r))
  /\ IF routed
     THEN A \subseteq {r} /\ Admissions(A, waiting \cup {r}, Held, overlap, traffic)
     ELSE /\ A = {} /\ running' = PlannerPut(running, r, Output[r])
          /\ UNCHANGED <<waiting, traffic>>
  /\ UNCHANGED <<now, until, routed, pass, done, buffer, windows, ticks, report>>

\* try_drain_pending and on_topology_changed: a worker joins, at its WorkerReady event
\* or by apply_scaling between two advances, and takes requests that wait.
WorkerJoins(A, overlap) ==
  /\ routed /\ report = [num |-> 0] /\ A # {}
  /\ Admissions(A, waiting, Held, overlap, traffic)
  /\ UNCHANGED <<now, until, routed, stats, pass, done, buffer, windows, ticks, report>>

\* drive_ready and handle_engine_effects: a pass admits its new requests, writes
\* the tokens at its end, and leaves its snapshot.
Pass(S, d, hit) ==
  /\ until # Idle /\ pass.signals = {} /\ Due = {} /\ S # {} /\ S \subseteq DOMAIN running
  /\ stats' = [r \in DOMAIN stats |->
                 IF r \notin S THEN stats[r]
                 ELSE [stats[r] EXCEPT !.times = Append(@, now + d),
                                       !.admit = IF @ = {} THEN {now} ELSE @,
                                       !.reused = Max({@, IF stats[r].admit = {} THEN hit ELSE 0})]]
  /\ running' = [r \in {x \in DOMAIN running : x \notin S \/ running[x] > 1} |->
                   IF r \in S THEN running[r] - 1 ELSE running[r]]
  /\ pass' = [at |-> now + d, signals |-> {[r |-> r, last |-> running[r] = 1] : r \in S}]
  /\ buffer' = Append(buffer, Cardinality(DOMAIN running))
  /\ UNCHANGED <<now, until, routed, waiting, traffic, done, windows, ticks, report>>

\* request_latencies
Latencies(r) == <<PlannerLess(FirstToken(stats[r]), stats[r].arrival), MeanTpot(stats[r])>>

\* process_output_signal: the last one completes its request, and the first one says that
\* its prefill is over (prefill_completed).  Either makes the router try again.
Complete(x, A, overlap) ==
  LET others == pass.signals \ {x}
      held   == IF x.last THEN DOMAIN running \cup {y.r : y \in others} ELSE Held
      counted == IF x.last THEN OnRequest(traffic, x.r, Latencies(x.r)[1], Latencies(x.r)[2]) ELSE traffic
  IN
  /\ until # Idle /\ pass.at <= now /\ x \in pass.signals
  /\ pass' = [pass EXCEPT !.signals = others]
  /\ done' = IF x.last THEN done \cup {x.r} ELSE done
  /\ IF routed /\ (x.last \/ Len(stats[x.r].times) = 1)
     THEN Admissions(A, waiting, held, overlap, counted)
     ELSE A = {} /\ traffic' = counted /\ UNCHANGED <<waiting, running>>
  /\ UNCHANGED <<now, until, routed, stats, buffer, windows, ticks, report>>

NextTimes == {pass.at : x \in pass.signals} \cup {Arrival[r] : r \in PlannerRequests \ DOMAIN stats}
IsDone == NextTimes = {} /\ running = <<>> /\ waiting = {}

\* AggRuntime::advance_to goes to the next timestamp, but never past until_ms.
AdvanceClock ==
  /\ until # Idle /\ NextTimes # {} /\ Min(NextTimes) > now /\ Min(NextTimes) <= until
  /\ pass.signals # {} \/ running = <<>>
  /\ now' = Min(NextTimes)
  /\ UNCHANGED <<until, runVars, traffic, buffer, windows, ticks, report>>

\* Mutant of TickData: the snapshots stay in the buffer
TickDataKept == /\ ticks' = Append(ticks, [now |-> now, done |-> IsDone, passes |-> buffer])
                /\ UNCHANGED buffer

\* PlannerTickData and drain_fpm
TickData == /\ ticks' = Append(ticks, [now |-> now, done |-> IsDone, passes |-> buffer])
            /\ buffer' = <<>>

\* advance_to of the handle begins, and returns when nothing is left to do by until_ms.
AdvanceTo(t) ==
  /\ Open /\ until = Idle /\ t >= now /\ until' = t
  /\ UNCHANGED <<now, runVars, traffic, buffer, windows, ticks, report>>

AdvanceReturns ==
  /\ until # Idle /\ until' = Idle
  /\ Due = {} /\ (pass.signals # {} \/ running = <<>>) /\ \A t \in NextTimes : t > until
  /\ TickData
  /\ UNCHANGED <<now, runVars, traffic, windows, report>>


\* What drain leaves.
Drained(a, t) == NewAccumulator(t)

DrainTraffic ==
  /\ Open /\ until = Idle
  /\ windows' = Append(windows, Window(traffic, now))
  /\ traffic' = Drained(traffic, now)
  /\ UNCHANGED <<now, until, runVars, buffer, ticks, report>>

\* PlannerReplayHandle::finalize, which may come before the replay is over.
Finalize ==
  /\ report = [num |-> 0] /\ until = Idle /\ DOMAIN stats # {}
  /\ report' = Finish
  /\ UNCHANGED <<now, until, runVars, traffic, buffer, windows, ticks>>

PlannerNext ==
  \/ \E r \in PlannerRequests, o \in Overlaps : \E A \in SUBSET {r} : Due # {} /\ Assign(r, A, o)
  \/ \E A \in SUBSET waiting, o \in Overlaps : WorkerJoins(A, o)
  \/ \E S \in SUBSET DOMAIN running, d \in PassTimes, h \in {0, 1} : Pass(S, d, h)
  \/ \E x \in pass.signals, A \in SUBSET waiting, o \in Overlaps : Complete(x, A, o)
  \/ \E t \in Until : AdvanceTo(t)
  \/ AdvanceClock \/ AdvanceReturns \/ DrainTraffic \/ Finalize

PlannerSpec == PlannerInit /\ [][PlannerNext]_plannerVars

-----------------------------------------------------------------------------
\* Every request that completed is in exactly one window, with its tokens, and the
\* windows cover the time without a gap: no drain loses a completion or counts it
\* twice.  And every request the router admitted gave exactly one hit sample, whenever
\* it was admitted; one that waits, or that came without a router, gave none.
WindowsTile ==
  LET all == Append(windows, Window(traffic, now)) IN
  /\ Total([i \in DOMAIN all |-> all[i].num]) = Cardinality(done)
  /\ Total([i \in DOMAIN all |-> all[i].isl[1]]) = MapThenSumSet(LAMBDA r : Input[r], done)
  /\ \A i \in DOMAIN all : all[i].from = (IF i = 1 THEN 0 ELSE all[i - 1].to)
  /\ Total([i \in DOMAIN all |-> all[i].hit[2]]) = 
       IF routed THEN Cardinality(DOMAIN stats \ waiting) ELSE 0

\* Every pass is told to the planner once, in order: the snapshots of all ticks
\* and the buffer are as many as there were token times.
PassesToldOnce ==
  LET told == Total([i \in DOMAIN ticks |-> Len(ticks[i].passes)]) + Len(buffer)
  IN  told = Cardinality(UNION {{stats[r].times[i] : i \in DOMAIN stats[r].times} : r \in DOMAIN stats})

\* The distributions are distributions: the percentiles rise from min to max, the
\* median splits the values in two halves, and the deviation is 0 exactly when all are equal.
DistributionsOrdered ==
  report.num > 0 => \A k \in DOMAIN report.latency :
    LET d == report.latency[k] IN
    d.n > 0 =>
      /\ d.min <= d.ranks[1] /\ d.ranks[5] <= d.max
      /\ \A i \in 1..4 : d.ranks[i] <= d.ranks[i + 1]
      /\ d.n = 3 => d.mean[1] = d.min + d.ranks[1] + d.max
      /\ (d.std = 0) <=> (d.min = d.max)

\* The latencies of the report add up: what the requests took from arrival to the
\* last token is what they took to the first one and all the gaps after it.
LatenciesAddUp ==
  report.num > 0 =>
    /\ report.latency.e2e.mean[1] = report.latency.ttft.mean[1] + report.latency.itl.mean[1]
    /\ done \subseteq report.completed
    /\ report.latency.itl.max >= report.latency.ttst.max

-----------------------------------------------------------------------------
(***************************************************************************)
(* The routers of a replay: OfflineReplayRouter (lib/mocker/src/replay/    *)
(* offline/components/router.rs), called by the simulation loop, and       *)
(* KvReplayRouter and RoundRobinRouter (replay/online/router.rs), whose    *)
(* index is fed by a task through a channel, with the parts they share     *)
(* (replay/router_shared.rs).                                              *)
(*                                                                         *)
(* The radix tree, the slots, the selector and, online, the scheduler are  *)
(* of the kv-router crate: the tree is the set of prefixes each worker     *)
(* holds, the slots what every admitted request still has to prefill, and  *)
(* the selector picks any worker it is given.                              *)
(***************************************************************************)
CONSTANTS Modes,        \* subset of {"offline", "online", "round_robin"}
          Workers,      \* 0..n: worker ids, the first of them known from the start
          Started,      \* workers there are at first
          RoutingRequests,
          Prompt,       \* Prompt[r]: its blocks
          Tail_,        \* Tail_[r]: tokens after the last whole block
          Threshold,    \* router_queue_threshold * max_num_batched_tokens, in tokens
          Jump,         \* Jump[r]: the key the policy gives, larger goes first
          MaxEvents     \* events of the engines

VARIABLES mode, phase,  \* phase of the event task: "new", "open", "closing", "closed"
          known,        \* workers_with_configs
          cache,        \* what the engines hold on the GPU, as prefixes
          index,        \* the tree: what the router thinks they hold
          channel,      \* the event channel
          sinks,        \* engines that hold a sender of the channel
          queue,        \* pending, in the order of arrival
          slots,        \* request |-> [worker, tokens]
          left,         \* requests that were freed
          cursor,       \* next_worker_idx
          events

routingVars == <<mode, phase, known, cache, index, channel, sinks, queue, slots, left, cursor, events>>

IslTokens(r) == Len(Prompt[r]) * BlockSize + Tail_[r]
RoutingLess(a, b) == IF a > b THEN a - b ELSE 0
RoutingPut(f, k, v) == [x \in DOMAIN f \cup {k} |-> IF x = k THEN v ELSE f[x]]
Without(f, k) == [x \in DOMAIN f \ {k} |-> f[x]]

RoutingInit ==
  /\ mode = "none" /\ phase = "new"
  /\ known = {} /\ cache = [w \in Workers |-> {}] /\ index = [w \in Workers |-> {}]
  /\ channel = <<>> /\ sinks = {} /\ queue = <<>> /\ slots = <<>> /\ left = {} /\ cursor = 0 /\ events = 0

\* new, and sink for every engine of an online replay
New(m) ==
  /\ phase = "new" /\ phase' = "open" /\ mode' = m
  /\ known' = Started /\ sinks' = IF m = "online" THEN Started ELSE {}
  /\ UNCHANGED <<cache, index, channel, queue, slots, left, cursor, events>>

-----------------------------------------------------------------------------
(* The index                                                                  *)

\* Mutant of ApplyEvent: events of every tier change the tree
ApplyEventAnyTier(ix, e) ==
  [ix EXCEPT ![e.worker] = IF e.op = "stored" THEN @ \cup {e.block} ELSE @ \ {e.block}]

\* SyncReplayIndexer::apply_event, ReplayIndexer::apply_event: only what is on the GPU
ApplyEvent(ix, e) ==
  IF e.tier # "gpu" THEN ix
  ELSE [ix EXCEPT ![e.worker] = IF e.op = "stored" THEN @ \cup {e.block} ELSE @ \ {e.block}]

\* find_matches: the blocks at the start of a prompt that a worker has
FindMatches(ix, r) ==
  [w \in Workers |-> Max({n \in 0..Len(Prompt[r]) : \A i \in 1..n : SubSeq(Prompt[r], 1, i) \in ix[w]})]

\* An engine stores the next block of a prompt or evicts a block without children;
\* blocks of other tiers come and go beside that.
EngineEvents(w) ==
  {[worker |-> w, op |-> "stored", tier |-> t, block |-> SubSeq(Prompt[r], 1, i)] :
      t \in {"gpu", "host"}, r \in RoutingRequests, i \in {1, 2}}
  \cup {[worker |-> w, op |-> "removed", tier |-> t, block |-> b] : t \in {"gpu", "host"}, b \in cache[w]}

Possible(e) ==
  \/ e.tier = "host" /\ (e.op = "stored" => e.block \in cache[e.worker])
  \/ /\ e.tier = "gpu" /\ e.op = "stored" /\ e.block \notin cache[e.worker]
     /\ Len(e.block) = 1 \/ SubSeq(e.block, 1, Len(e.block) - 1) \in cache[e.worker]
  \/ /\ e.tier = "gpu" /\ e.op = "removed"
     /\ ~\E b \in cache[e.worker] : Len(b) > Len(e.block) /\ SubSeq(b, 1, Len(e.block)) = e.block

\* ReplayKvEventSink::publish_with_storage_tier, or on_kv_events of the offline router
Publish(w) ==
  /\ events < MaxEvents /\ events' = events + 1
  /\ w \in known \/ w \in sinks
  /\ \E e \in EngineEvents(w) :
       /\ Possible(e)
       /\ cache' = (IF e.tier # "gpu" THEN cache
                    ELSE [cache EXCEPT ![w] = IF e.op = "stored" THEN @ \cup {e.block} ELSE @ \ {e.block}])
       /\ CASE mode = "offline" -> index' = ApplyEvent(index, e) /\ UNCHANGED channel
            [] mode = "online"  -> w \in sinks /\ channel' = Append(channel, e) /\ UNCHANGED index
            [] OTHER            -> UNCHANGED <<index, channel>>
  /\ UNCHANGED <<mode, phase, known, sinks, queue, slots, left, cursor>>

\* the event task: one event, and its end when the last sender is gone
EventTask ==
  /\ mode = "online" /\ phase # "closed"
  /\ \/ /\ channel # <<>> /\ channel' = Tail(channel)
        /\ index' = ApplyEvent(index, Head(channel)) /\ UNCHANGED phase
     \/ /\ channel = <<>> /\ phase = "closing" /\ sinks = {}
        /\ phase' = "closed" /\ UNCHANGED <<channel, index>>
  /\ UNCHANGED <<mode, known, cache, sinks, queue, slots, left, cursor, events>>

-----------------------------------------------------------------------------
(* Requests                                                                   *)

Load(w) == MapThenSumSet(LAMBDA r : IF slots[r].worker = w THEN slots[r].tokens ELSE 0, DOMAIN slots)

\* all_workers_busy
AllWorkersBusy == known # {} /\ \A w \in known : Load(w) > Threshold

\* prefill_load_hint_for: tokens that are not cached
PrefillLoadHint(r, overlap) == RoutingLess(IslTokens(r), overlap * BlockSize)

\* build_pending_request and scheduling_request: the overlaps are those of the
\* moment of arrival, and stay so while the request waits
PendingRequest(r) == [r |-> r, overlaps |-> FindMatches(index, r)]

\* admit_request and add_request of the slots
Admitted(f, p, w) == RoutingPut(f, p.r, [worker |-> w, tokens |-> PrefillLoadHint(p.r, p.overlaps[w])])

\* Mutant of Ahead: among equal keys the newest entry comes first
AheadNewest(a, b) == Jump[queue[a].r] > Jump[queue[b].r] \/ (Jump[queue[a].r] = Jump[queue[b].r] /\ a > b)

\* QueueEntry::cmp: the largest key, then the oldest entry
Ahead(a, b) == Jump[queue[a].r] > Jump[queue[b].r] \/ (Jump[queue[a].r] = Jump[queue[b].r] /\ a < b)
Popped == CHOOSE i \in DOMAIN queue : \A j \in DOMAIN queue \ {i} : Ahead(i, j)

Fresh(r) == r \notin left /\ r \notin DOMAIN slots /\ ~\E i \in DOMAIN queue : queue[i].r = r

\* on_request_arrival, select_worker
OnRequestArrival(r) ==
  /\ Fresh(r) /\ mode # "round_robin" /\ phase = "open" /\ known # {}
  /\ IF AllWorkersBusy
     THEN queue' = Append(queue, PendingRequest(r)) /\ UNCHANGED slots
     ELSE /\ \E w \in known : slots' = Admitted(slots, PendingRequest(r), w)
          /\ UNCHANGED queue
  /\ UNCHANGED <<mode, phase, known, cache, index, channel, sinks, left, cursor, events>>

\* RoundRobinRouter::select_worker
SelectRoundRobin(r) ==
  /\ Fresh(r) /\ mode = "round_robin"
  /\ slots' = RoutingPut(slots, r, [worker |-> cursor % Cardinality(Started), tokens |-> 0])
  /\ cursor' = cursor + 1
  /\ UNCHANGED <<mode, phase, known, cache, index, channel, sinks, queue, left, events>>

\* drain_pending, one request at a time; the loop admits as long as it can
DrainPending ==
  /\ queue # <<>> /\ ~AllWorkersBusy /\ known # {}
  /\ \E w \in known : slots' = Admitted(slots, queue[Popped], w)
  /\ queue' = RemoveAt(queue, Popped)
  /\ UNCHANGED <<mode, phase, known, cache, index, channel, sinks, left, cursor, events>>

\* nothing else happens before drain_pending has returned
Settled == queue = <<>> \/ AllWorkersBusy \/ known = {}

\* on_prefill_completed, mark_prefill_completed
OnPrefillCompleted(r) ==
  /\ r \in DOMAIN slots /\ slots[r].tokens > 0
  /\ slots' = [slots EXCEPT ![r].tokens = 0]
  /\ UNCHANGED <<mode, phase, known, cache, index, channel, sinks, queue, left, cursor, events>>

\* on_request_completed, free
OnRequestCompleted(r) ==
  /\ r \in DOMAIN slots
  /\ slots' = Without(slots, r) /\ left' = left \cup {r}
  /\ UNCHANGED <<mode, phase, known, cache, index, channel, sinks, queue, cursor, events>>

\* add_worker of an id that was never used, and remove_worker, which leaves the
\* slots and the tree alone
AddWorker(w) ==
  /\ mode = "offline" /\ w \notin known /\ cache[w] = {} /\ w \notin Started /\ known' = known \cup {w}
  /\ UNCHANGED <<mode, phase, cache, index, channel, sinks, queue, slots, left, cursor, events>>
RemoveWorker(w) ==
  /\ mode = "offline" /\ w \in known /\ known # {w} /\ known' = known \ {w}
  /\ UNCHANGED <<mode, phase, cache, index, channel, sinks, queue, slots, left, cursor, events>>

\* shutdown takes the router's own sender; an engine that stops drops its sink
Shutdown ==
  /\ mode = "online" /\ phase = "open" /\ phase' = "closing"
  /\ UNCHANGED <<mode, known, cache, index, channel, sinks, queue, slots, left, cursor, events>>
DropSink(w) ==
  /\ w \in sinks /\ sinks' = sinks \ {w}
  /\ UNCHANGED <<mode, phase, known, cache, index, channel, queue, slots, left, cursor, events>>

RoutingNext ==
  \/ \E m \in Modes : New(m)
  \/ DrainPending \/ EventTask
  \/ /\ Settled
     /\ \/ \E w \in Workers : Publish(w) \/ AddWorker(w) \/ RemoveWorker(w) \/ DropSink(w)
        \/ \E r \in RoutingRequests : \/ OnRequestArrival(r) \/ SelectRoundRobin(r)
                                      \/ OnPrefillCompleted(r) \/ OnRequestCompleted(r)
        \/ Shutdown

RoutingSpec == RoutingInit /\ [][RoutingNext]_routingVars

\* The event task is a task of the runtime, and the engines are stopped.
RoutingFairness == WF_routingVars(EventTask) /\ WF_routingVars(\E w \in Workers : DropSink(w))
RoutingFairSpec == RoutingSpec /\ RoutingFairness

-----------------------------------------------------------------------------
\* The tree is the caches of the engines, but for the events on their way: applied
\* in order to it they give what the engines hold on the GPU.
IndexFollows ==
  mode # "round_robin" => FoldLeft(ApplyEvent, index, channel) = cache

\* A request is in the queue or in the slots, once, also when it waited while workers
\* came and went, and what it counts never exceeds its prompt.
RequestsInPlace ==
  /\ \A i, j \in DOMAIN queue : queue[i].r = queue[j].r => i = j
  /\ \A i \in DOMAIN queue : queue[i].r \notin DOMAIN slots
  /\ \A r \in DOMAIN slots : slots[r].tokens <= IslTokens(r)

\* Requests of one key leave the queue in the order they came.
QueueInOrder ==
  [][\A i \in DOMAIN queue : (queue' # queue /\ ~\E j \in DOMAIN queue' : queue'[j].r = queue[i].r)
        => \A j \in 1..(i - 1) : Jump[queue[j].r] < Jump[queue[i].r]]_routingVars

\* shutdown returns: the event task ends once the engines are gone, with every
\* event applied.
ShutdownReturns == (phase = "closing") ~> (phase = "closed" /\ channel = <<>>)
=============================================================================
