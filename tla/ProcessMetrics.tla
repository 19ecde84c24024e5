--------------------------- MODULE ProcessMetrics ---------------------------
(****************************************************************************)
(* What a process counts of itself, in three sections: the hierarchy of     *)
(* metrics, the sampler of the tokio runtime, and the compute pool.         *)
(****************************************************************************)
EXTENDS Integers, Sequences, FiniteSets, SequencesExt, FiniteSetsExt

-----------------------------------------------------------------------------
(***************************************************************************)
(* Metrics over the hierarchy runtime, namespace, service group, portname  *)
(* (lib/runtime/src/metrics.rs, servicegroup.rs, servicegroup/             *)
(* namespace.rs, metrics/prometheus_names.rs).  Every object of the        *)
(* hierarchy has a registry of its own, hung below its parent's; a metric  *)
(* is registered where it is made, with labels derived from the names      *)
(* above it; a scrape of any object walks the tree below it, runs the      *)
(* update callbacks, gathers the registries one after another and merges   *)
(* what they hold, dropping a series it has seen and failing when one name *)
(* comes with two types.                                                   *)
(*                                                                         *)
(* Objects are made by Threads: a service group is looked up in its        *)
(* namespace's cache, built and put there in three steps.  Names are       *)
(* sequences of characters, since what the sanitiser does to them decides  *)
(* which series collide.  Help texts go with the type.                     *)
(***************************************************************************)
CONSTANTS MetricsThreads,
          NsNames, SgNames, PortNames,  \* sets of sequences of characters
          MetricNames,
          Calls,       \* a create call of Metrics: [type, labels, names, callback],
                       \* callback: an update callback is added for it
          MaxNodes,    \* objects of the hierarchy, the runtime included
          MaxNesting,  \* namespaces within namespaces
          MaxMetrics,  \* metrics in all the registries
          MaxObjects,  \* objects and metrics together
          MaxScrapes

VARIABLES nodes,     \* sequence of [kind, path]: path has the names from the runtime down
          children,  \* child_registries of each
          cache,     \* servicegroup_cache of each namespace: pairs <<name, node>>
          building,  \* what each thread's servicegroup() call has reached
          metricsMetrics,   \* what the registry of each node holds
          source,    \* the value that update callbacks copy into their gauges
          scrape,    \* the scrape under way
          scrapes

metricsVars == <<nodes, children, cache, building, metricsMetrics, source, scrape, scrapes>>
treeVars == <<nodes, children, cache, building>>

Idle == [step |-> "idle", ns |-> 0, name |-> <<>>, node |-> 0]
NoScrape == [state |-> "none", left |-> <<>>, due |-> {}, out |-> {}, since |-> 0]

MetricsInit ==
  /\ nodes = <<[kind |-> "drt", path |-> <<<<>>>>]>>
  /\ children = <<<<>>>> /\ cache = <<{}>> /\ metricsMetrics = <<{}>>
  /\ building = [t \in MetricsThreads |-> Idle] /\ source = 0 /\ scrape = NoScrape /\ scrapes = 0

\* parent_hierarchies and basename: the names from the runtime down to the object
Hierarchy(parent, name) == Append(nodes[parent].path, name)

\* the bound on both together
Room == Len(nodes) + Cardinality(UNION Range(metricsMetrics)) < MaxObjects

\* a new object with an empty registry
Made(kind, name, parent) ==
  /\ Len(nodes) < MaxNodes /\ Room
  /\ nodes' = Append(nodes, [kind |-> kind, path |-> Hierarchy(parent, name)])
  /\ cache' = Append(cache, {}) /\ metricsMetrics' = Append(metricsMetrics, {})
  /\ UNCHANGED <<source, scrape, scrapes>>

\* Mutant of AddChildRegistry: only the first child is kept
AddFirstChild(ch, parent, child) == IF ch[parent] # <<>> THEN ch ELSE [ch EXCEPT ![parent] = Append(@, child)]

\* add_child_registry: each registry once
AddChildRegistry(ch, parent, child) ==
  IF \E i \in DOMAIN ch[parent] : ch[parent][i] = child THEN ch ELSE [ch EXCEPT ![parent] = Append(@, child)]

\* Namespace::new, Namespace::namespace
MakeNamespace(parent, name) ==
  /\ nodes[parent].kind \in {"drt", "ns"}
  /\ Len(nodes[parent].path) - 1 <= MaxNesting
  /\ Made("ns", name, parent)
  /\ children' = AddChildRegistry(Append(children, <<>>), parent, Len(nodes) + 1)
  /\ UNCHANGED building

\* Namespace::servicegroup, a hit in the cache
ServiceGroupHit(t, ns, name) ==
  /\ nodes[ns].kind = "ns" /\ building[t].step = "idle" /\ \E e \in cache[ns] : e[1] = name
  /\ UNCHANGED metricsVars

\* a miss, and ServiceGroupBuilder::build
ServiceGroupBuild(t, ns, name) ==
  /\ nodes[ns].kind = "ns" /\ building[t].step = "idle" /\ ~\E e \in cache[ns] : e[1] = name
  /\ Made("sg", name, ns)
  /\ children' = Append(children, <<>>)
  /\ building' = [building EXCEPT ![t] = [step |-> "built", ns |-> ns, name |-> name, node |-> Len(nodes) + 1]]

\* its registry is hung below the namespace's
ServiceGroupHang(t) ==
  LET b == building[t]
  IN  /\ b.step = "built" /\ building' = [building EXCEPT ![t].step = "hung"]
      /\ children' = AddChildRegistry(children, b.ns, b.node)
      /\ UNCHANGED <<nodes, cache, metricsMetrics, source, scrape, scrapes>>

\* and the group goes into the cache, over whatever another thread put there
ServiceGroupCache(t) ==
  LET b == building[t]
  IN  /\ b.step = "hung" /\ building' = [building EXCEPT ![t] = Idle]
      /\ cache' = [cache EXCEPT ![b.ns] = {e \in @ : e[1] # b.name} \cup {<<b.name, b.node>>}]
      /\ UNCHANGED <<nodes, children, metricsMetrics, source, scrape, scrapes>>

\* ServiceGroup::portname: a new object every time
MakePortName(sg, name) ==
  /\ nodes[sg].kind = "sg" /\ ~\E t \in MetricsThreads : building[t].node = sg
  /\ Made("port", name, sg)
  /\ children' = AddChildRegistry(Append(children, <<>>), sg, Len(nodes) + 1)
  /\ UNCHANGED building

\* scrub: every character a label may not have becomes an underscore, and a first
\* character that is not a letter or an underscore gets one before it
Scrub(raw) ==
  LET body == [i \in DOMAIN raw |-> IF raw[i] \in {"-", "."} THEN "_" ELSE raw[i]]
  IN  IF body = <<>> \/ Head(body) = "1" THEN <<"_">> \o body ELSE body

StartsReserved(s) == Len(s) >= 2 /\ s[1] = "_" /\ s[2] = "_"

\* sanitize_prometheus_label; the empty sequence stands for its error
SanitizeLabel(raw) ==
  LET scrubbed == Scrub(raw)
      rest == SubSeq(scrubbed, 3, Len(scrubbed))
      out == IF ~StartsReserved(scrubbed) THEN scrubbed
             ELSE IF rest = <<>> \/ Head(rest) \in {"_", "1"} THEN <<"_">> \o rest ELSE rest
  IN  IF raw = <<>> \/ \A i \in DOMAIN out : out[i] = "_" THEN <<>> ELSE out

\* the automatic labels: the second, third and fourth name of the path
AutoLabels(path) == [i \in 2..4 |-> IF i \in DOMAIN path THEN SanitizeLabel(path[i]) ELSE <<>>]

Key(m) == <<m.name, m.labels, m.own>>

ReservedLabels == {"namespace", "servicegroup", "portname", "worker_id"}

\* validate_no_duplicate_label_keys and the checks on reserved names: the caller's
\* labels are distinct and none is one that create_metric adds itself
LabelsAllowed(c) ==
  IsInjective(c.labels) /\ (Range(c.labels) \cup Range(c.names)) \cap ReservedLabels = {}

\* the types whose PrometheusMetric has with_opts_and_label_names
VecTypes == {"countervec", "gaugevec", "intcountervec", "intgaugevec"}

\* what the create methods of Metrics hand to create_metric: label names for a vector
\* only, buckets for a histogram only
Factory(c) == [c EXCEPT !.names = IF c.type \in VecTypes THEN @ ELSE <<>>]
              @@ [named |-> c.type \in VecTypes, buckets |-> c.type = "histogram"]

\* create_metric's own checks: a vector needs label names, only a histogram takes buckets
Constructible(c) == (c.named = (c.type \in VecTypes)) /\ (c.buckets => c.type = "histogram")

\* create_metric and add_metric: refused when the arguments do not fit, when a label
\* cannot be made, or when the registry has the series or the name with other labels
CreateMetric(n, name, c) ==
  LET path == nodes[n].path
      m == [name |-> name, type |-> c.type, labels |-> AutoLabels(path), own |-> c.labels, value |-> 0,
            callback |-> c.callback, home |-> n]
  IN  /\ LabelsAllowed(c) /\ Constructible(c)
      /\ \A i \in (DOMAIN path) \cap (2..4) : path[i] # <<>> => SanitizeLabel(path[i]) # <<>>
      /\ ~\E x \in metricsMetrics[n] : Key(x) = Key(m) \/ (x.name = name /\ Range(x.own) # Range(m.own))
      /\ Cardinality(UNION Range(metricsMetrics)) < MaxMetrics /\ Room
      /\ metricsMetrics' = [metricsMetrics EXCEPT ![n] = @ \cup {m}]
      /\ UNCHANGED <<treeVars, source, scrape, scrapes>>

\* what the callbacks report on changes
SourceChanges ==
  /\ source = 0 /\ source' = 1 /\ UNCHANGED <<treeVars, metricsMetrics, scrape, scrapes>>

\* registries_for_combined_scrape: depth first, the parent before its children
RegistriesBelow(root) ==
  LET visit[n \in DOMAIN nodes] == <<n>> \o FlattenSeq([i \in DOMAIN children[n] |-> visit[children[n][i]]])
  IN  visit[root]

\* the first part of prometheus_expfmt_combined: list the registries, run their callbacks
BeginScrape(root) ==
  LET below == RegistriesBelow(root)
      listed == {below[i] : i \in DOMAIN below}
  IN  /\ scrape.state \in {"none", "done", "error"} /\ scrapes < MaxScrapes /\ scrapes' = scrapes + 1
      /\ metricsMetrics' = [n \in DOMAIN metricsMetrics |->
                              IF n \in listed THEN {[m EXCEPT !.value = IF m.callback THEN source ELSE @] : m \in metricsMetrics[n]} ELSE metricsMetrics[n]]
      /\ scrape' = [state |-> "gather", left |-> below, out |-> {}, since |-> source,
                    due |-> UNION {metricsMetrics[n] : n \in listed}]
      /\ UNCHANGED <<treeVars, source>>

\* Mutant of Merged: a sample replaces the one seen
MergedTwice(out, m) == out \cup {m}

\* a sample joins its family unless the series was seen
Merged(out, m) == IF \E x \in out : Key(x) = Key(m) THEN out ELSE out \cup {m}

\* one registry is gathered and merged; a name with another type ends it all
GatherRegistry ==
  LET held == metricsMetrics[Head(scrape.left)]
      clash == \E m \in held, x \in scrape.out \cup held : x.name = m.name /\ x.type # m.type
  IN  /\ scrape.state = "gather" /\ scrape.left # <<>>
      /\ scrape' = IF clash THEN [scrape EXCEPT !.state = "error", !.left = <<>>]
                   ELSE [scrape EXCEPT !.left = Tail(@), !.out = FoldLeft(Merged, @, SetToSeq(held))]
      /\ UNCHANGED <<treeVars, metricsMetrics, source, scrapes>>

\* the families are encoded and the exposition callbacks' text appended
EndScrape ==
  /\ scrape.state = "gather" /\ scrape.left = <<>> /\ scrape' = [scrape EXCEPT !.state = "done"]
  /\ UNCHANGED <<treeVars, metricsMetrics, source, scrapes>>

MetricsNext ==
  \/ \E p \in DOMAIN nodes, name \in NsNames : MakeNamespace(p, name)
  \/ \E t \in MetricsThreads, ns \in DOMAIN nodes, name \in SgNames : ServiceGroupHit(t, ns, name) \/ ServiceGroupBuild(t, ns, name)
  \/ \E t \in MetricsThreads : ServiceGroupHang(t) \/ ServiceGroupCache(t)
  \/ \E sg \in DOMAIN nodes, name \in PortNames : MakePortName(sg, name)
  \/ \E n \in DOMAIN nodes, name \in MetricNames, c \in Calls : CreateMetric(n, name, Factory(c))
  \/ SourceChanges \/ GatherRegistry \/ EndScrape
  \/ \E n \in DOMAIN nodes : BeginScrape(n)

MetricsSpec == MetricsInit /\ [][MetricsNext]_metricsVars

---------------------------------------------------------------------------
\* A finished scrape lists every series once; it has every series that the tree
\* held when it began, with values no older than that, and it fails only when one
\* name really has two types.
ScrapeWhole ==
  /\ \A x, y \in scrape.out : Key(x) = Key(y) => x = y
  /\ scrape.state = "done" =>
       \A m \in scrape.due : \E x \in scrape.out : Key(x) = Key(m) /\ (x.home = m.home /\ x.callback => x.value >= scrape.since)
  /\ scrape.state = "error" =>
       \E n, k \in DOMAIN metricsMetrics : \E m \in metricsMetrics[n], x \in metricsMetrics[k] : m.name = x.name /\ m.type # x.type

\* Whatever the threads do, a group in a cache, and so whoever asks next, is scraped
\* with its namespace.
CachedIsScraped ==
  \A n \in DOMAIN nodes : \A e \in cache[n] : \E i \in DOMAIN children[n] : children[n][i] = e[2]

\* The labels namespace, servicegroup and portname of a metric name the objects of that kind
\* at and above the one it was made for, all of them and no other. Below nested namespaces the
\* labels, which go by position, are shifted, and nothing is said.
LabelsNamePlace ==
  \A n \in DOMAIN nodes : \A m \in metricsMetrics[n] :
    LET path == nodes[n].path
        above(kind) == {k \in DOMAIN nodes : nodes[k].kind = kind /\ IsPrefix(nodes[k].path, path)}
        names(kind) == {SanitizeLabel(Last(nodes[k].path)) : k \in above(kind)}
        label(i) == {m.labels[i]} \ {<<>>}
        nested == \E k \in above("ns") : Len(nodes[k].path) > 2
    IN  ~nested => label(2) = names("ns") /\ label(3) = names("sg") /\ label(4) = names("port")

-----------------------------------------------------------------------------
(***************************************************************************)
(* metrics/tokio_perf.rs: the counters of the tokio runtime, sampled by a   *)
(* loop that turns totals into increments, the canary that measures the     *)
(* event loop, and the two ways to register the collectors.                 *)
(*                                                                         *)
(* Time is in milliseconds scaled by a Tick; the canary sleeps one tick.    *)
(* One counter stands for the three of a worker.                            *)
(***************************************************************************)
CONSTANTS SamplerWorkers, MaxWorkers, \* workers of the runtime: 1 .. n, n grows to MaxWorkers
          Collectors,          \* what is registered, in their order 1 .. Collectors
          Delays,              \* delays of a wake-up, in ticks
          Stall,               \* a delay above it is a stall
          CollectEvery,        \* ticks between two samples
          MaxCount, MaxTime,   \* bounds
          MaxLoops             \* how often the loop is started in this process

VARIABLES workers,              \* RuntimeMetrics: number of workers
          samplerTotal, yields,        \* RuntimeMetrics: totals, only growing
          exported, yielded,    \* the Prometheus counters
          loop, loops,          \* the loop: "off", "asleep", "stopped"; how often it began
          prev, prevYield,      \* PrevWorkerCounters of the loop; PREV_BUDGET_FORCED_YIELD
          now, started, nextCollect, sampled,
          stalls,               \* EVENT_LOOP_STALL_TOTAL
          cancelled,
          registry, once, answer   \* the native registry, its OnceCell, the last answer

loopVars == <<workers, samplerTotal, yields, exported, yielded, loop, loops, prev, prevYield, now,
              started, nextCollect, sampled, stalls, cancelled>>
regVars == <<registry, once, answer>>
samplerVars == <<loopVars, regVars>>

Ids == 1 .. MaxWorkers

SamplerInit ==
  /\ workers = SamplerWorkers /\ samplerTotal = [w \in Ids |-> 0] /\ yields = 0
  /\ exported = [w \in Ids |-> 0] /\ yielded = 0
  /\ loop = "off" /\ loops = 0 /\ prev = <<>> /\ prevYield = 0
  /\ now = 0 /\ started = 0 /\ nextCollect = 0 /\ sampled = FALSE
  /\ stalls = 0 /\ cancelled = FALSE
  /\ registry = {} /\ once = FALSE /\ answer = "none"

\* the runtime works: its totals grow
Work(w) ==
  /\ w <= workers /\ samplerTotal[w] < MaxCount /\ samplerTotal' = [samplerTotal EXCEPT ![w] = @ + 1] /\ sampled' = FALSE
  /\ UNCHANGED <<workers, yields, exported, yielded, loop, loops, prev, prevYield, now, started,
                 nextCollect, stalls, cancelled, regVars>>
Yield ==
  /\ yields < MaxCount /\ yields' = yields + 1 /\ sampled' = FALSE
  /\ UNCHANGED <<workers, samplerTotal, exported, yielded, loop, loops, prev, prevYield, now, started,
                 nextCollect, stalls, cancelled, regVars>>
AddWorker ==
  /\ workers < MaxWorkers /\ workers' = workers + 1
  /\ UNCHANGED <<samplerTotal, yields, exported, yielded, loop, loops, prev, prevYield, now, started,
                 nextCollect, sampled, stalls, cancelled, regVars>>

StartLoop ==
  /\ loop # "asleep" /\ loops < MaxLoops /\ loops' = loops + 1 /\ loop' = "asleep" /\ cancelled' = FALSE
  /\ prev' = <<>> /\ started' = now /\ nextCollect' = now + CollectEvery
  /\ UNCHANGED <<workers, samplerTotal, yields, exported, yielded, prevYield, now, sampled, stalls, regVars>>

\* Mutant of EnsureCapacity: rows of earlier workers start anew
EnsureAfresh(n) == [w \in 1 .. n |-> IF Len(prev) = n THEN prev[w] ELSE 0]
EnsureCapacity(n) == [w \in 1 .. Max({n, Len(prev)}) |-> IF w <= Len(prev) THEN prev[w] ELSE 0]
Delta(current, previous) == IF current > previous THEN current - previous ELSE 0

\* sample_tokio_metrics
Sample ==
  LET before == EnsureCapacity(workers)
  IN  /\ exported' = [w \in Ids |-> IF w <= workers THEN exported[w] + Delta(samplerTotal[w], before[w])
                                    ELSE exported[w]]
      /\ prev' = [w \in DOMAIN before |-> IF w <= workers THEN samplerTotal[w] ELSE before[w]]
      /\ yielded' = yielded + Delta(yields, prevYield) /\ prevYield' = yields /\ sampled' = TRUE

\* The sleep ends d ticks late; the delay is observed, and the sample taken when it is due.
Wake(d) ==
  /\ loop = "asleep" /\ ~cancelled /\ now + 1 + d <= MaxTime
  /\ now' = now + 1 + d /\ started' = now + 1 + d
  /\ stalls' = (IF now + 1 + d - started - 1 > Stall THEN stalls + 1 ELSE stalls)
  /\ IF now + 1 + d >= nextCollect THEN nextCollect' = now + 1 + d + CollectEvery /\ Sample
     ELSE UNCHANGED <<nextCollect, exported, prev, yielded, prevYield, sampled>>
  /\ UNCHANGED <<workers, samplerTotal, yields, loop, loops, cancelled, regVars>>

Cancel ==
  /\ loop = "asleep" /\ ~cancelled /\ cancelled' = TRUE
  /\ UNCHANGED <<workers, samplerTotal, yields, exported, yielded, loop, loops, prev, prevYield, now,
                 started, nextCollect, sampled, stalls, regVars>>
Stop ==
  /\ loop = "asleep" /\ cancelled /\ loop' = "stopped"
  /\ UNCHANGED <<workers, samplerTotal, yields, exported, yielded, loops, prev, prevYield, now,
                 started, nextCollect, sampled, stalls, cancelled, regVars>>

-----------------------------------------------------------------------------
(* ensure_tokio_perf_metrics_registered_prometheus: collectors go in one by  *)
(* one; a name that is there refuses, and the OnceCell is set only after all.*)

Register ==
  /\ LET taken == {c \in 1 .. Collectors : c \in registry}
     IN  CASE once -> answer' = "ok" /\ UNCHANGED <<registry, once>>
           [] ~once /\ taken # {} ->
                answer' = "refused" /\ registry' = registry \cup 1 .. Min(taken) /\ UNCHANGED once
           [] OTHER -> answer' = "ok" /\ registry' = registry \cup 1 .. Collectors /\ once' = TRUE
  /\ UNCHANGED loopVars

\* a foreign metric of one of the names, and the caller that removes it
Conflict(c) ==
  /\ registry = {} /\ ~once /\ answer = "none" /\ registry' = {c} /\ answer' = "conflict"
  /\ UNCHANGED <<loopVars, once>>
Repair(c) ==
  /\ answer = "refused" /\ ~once /\ c \in registry /\ \A x \in registry : x <= c
  /\ registry' = registry \ {c} /\ answer' = "repaired" /\ UNCHANGED <<loopVars, once>>

SamplerNext ==
  \/ \E w \in Ids : Work(w)
  \/ Yield \/ AddWorker \/ StartLoop \/ Cancel \/ Stop \/ Register
  \/ \E d \in Delays : Wake(d)
  \/ \E c \in 1 .. Collectors : Conflict(c) \/ Repair(c)

SamplerSpec == SamplerInit /\ [][SamplerNext]_samplerVars

-----------------------------------------------------------------------------
\* A counter never says more than happened, and a sample brings it up to date,
\* also for workers that came later; a loop that is started again knows the budget
\* counter's last value, which is the process's own, but not those of the workers.
CountersExact ==
  /\ yielded <= yields
  /\ sampled => yielded = yields
  /\ loops <= 1 => \A w \in Ids : exported[w] <= samplerTotal[w]
  /\ sampled /\ loops <= 1 => \A w \in 1 .. workers : w <= Len(prev) => exported[w] = samplerTotal[w]

-----------------------------------------------------------------------------
(* runtime/src/compute and the parts of runtime.rs that set it up: the pool of    *)
(* compute threads, the permits for blocking a worker, the context each thread    *)
(* keeps, and the counters.                                                       *)
CONSTANTS ComputeWorkers,     \* the runtime's worker threads
          Blocking,    \* the threads of its blocking pool
          Tasks,       \* calls of the compute macros
          ComputeThreads,     \* compute_threads: "none" for automatic
          Cores,       \* available_parallelism, 0 when it fails
          Durations,   \* how long a task may take
          Slow,        \* SLOW_TASK_THRESHOLD_MS
          SmallLimit, MediumLimit    \* SMALL_THRESHOLD_US, MEDIUM_THRESHOLD_US

VARIABLES
    pool,              \* compute_pool: the number of its threads, 0 for None
    permits,           \* block_in_place_permits that are free
    context,           \* the threads with a COMPUTE_CONTEXT
    detected,          \* the blocking threads the probes ran on
    barrier,           \* the threads that wait in initialize_all_thread_locals
    setup,             \* "none", "probing", "waiting", "done"
    task,              \* task -> [pc, thread, took, kind, where]: its macro and where it ran
    active, computeTotal,     \* ComputeMetrics: tasks_active, tasks_total,
    slow, max,         \*   slow_tasks, max_task_duration_us
    seen,              \* task -> the maximum it has read
    misfits            \* the tasks the validation counted
computeVars == <<pool, permits, context, detected, barrier, setup, task, active, computeTotal, slow, max, seen, misfits>>
computeMetrics == <<active, computeTotal, slow, max, seen, misfits>>
creation == <<detected, barrier, setup>>

\* resolve_num_threads: half the cores, at least 2 and at most 16.
ResolveNumThreads == IF ComputeThreads # "none" THEN ComputeThreads
                     ELSE IF Cores = 0 THEN 2 ELSE Max({2, Min({16, Cores \div 2})})
\* new_with_config: one worker stays free.
PermitCount == Max({Cardinality(ComputeWorkers) - 1, 1})

ComputeInit ==
    \* new_with_config; 0 threads disable the pool.
    /\ pool = ResolveNumThreads /\ permits = PermitCount
    /\ context = {} /\ detected = {} /\ barrier = {} /\ setup = "none"
    /\ task = [t \in Tasks |-> [pc |-> "new", thread |-> "none", took |-> 0, kind |-> "none", where |-> "none"]]
    /\ active = 0 /\ computeTotal = 0 /\ slow = 0 /\ max = 0 /\ misfits = {}
    /\ seen = [t \in Tasks |-> 0]

-----------------------------------------------------------------------------
(* The context of a thread.                                                     *)
HasContext(w) == w \in context
\* initialize_thread_local: needs the pool, and the permits, which are always there.
InitializeThreadLocal(w) ==
    /\ w \notin context /\ pool > 0
    /\ context' = context \cup {w}
    /\ UNCHANGED <<pool, permits, creation, task, computeMetrics>>

\* detect_worker_thread_count: a hundred probes on the blocking pool, on one thread or more.
Detect ==
    /\ setup = "none" /\ pool > 0
    /\ detected' \in (SUBSET Blocking) \ {{}}
    /\ setup' = "probing"
    /\ UNCHANGED <<pool, permits, context, barrier, task, computeMetrics>>
\* One of the tasks that wait at the barrier starts on a blocking thread that is free.
Arrive(b) ==
    /\ setup = "probing" /\ b \notin barrier /\ Cardinality(barrier) < Cardinality(detected)
    /\ barrier' = barrier \cup {b}
    /\ UNCHANGED <<pool, permits, context, detected, setup, task, computeMetrics>>
\* The barrier opens; every task writes the context of its thread.
Release ==
    /\ setup = "probing" /\ Cardinality(barrier) = Cardinality(detected)
    /\ context' = context \cup barrier /\ setup' = "done"
    /\ UNCHANGED <<pool, permits, detected, barrier, task, computeMetrics>>

-----------------------------------------------------------------------------
(* The macros.  A task starts on a worker.                                      *)
Put(t, kind, where, w) ==
    [task EXCEPT ![t] = [pc |-> where, thread |-> w, took |-> 0, kind |-> kind, where |-> where]]

\* ComputePool::execute: record_around counts the task and awaits the pool.
Execute(t, kind, w) ==
    /\ task' = Put(t, kind, "pool", w)
    /\ active' = active + 1
    /\ UNCHANGED <<pool, permits, context, creation, computeTotal, slow, max, seen, misfits>>
\* Without a context the closure runs where it is.
Inline(t, kind, w) ==
    /\ task' = Put(t, kind, "inline", w)
    /\ UNCHANGED <<pool, permits, context, creation, computeMetrics>>
Busy(w) == \E t \in Tasks : task[t].thread = w /\ task[t].pc \in {"inline", "blocking"}

\* compute_small: inline.
Small(t, w) == task[t].pc = "new" /\ ~Busy(w) /\ Inline(t, "small", w)

\* Mutant of Medium: the permit is taken whether one is free or not.
MediumAnyway(t, w) ==
    /\ task[t].pc = "new" /\ ~Busy(w)
    /\ IF HasContext(w)
       THEN /\ permits' = permits - 1 /\ task' = Put(t, "medium", "blocking", w)
            /\ UNCHANGED <<pool, context, creation, computeMetrics>>
       ELSE Inline(t, "medium", w)
\* compute_medium: a permit to block in place, else the pool, else inline.
Medium(t, w) ==
    /\ task[t].pc = "new" /\ ~Busy(w)
    /\ \/ /\ HasContext(w) /\ permits > 0
          /\ permits' = permits - 1 /\ task' = Put(t, "medium", "blocking", w)
          /\ UNCHANGED <<pool, context, creation, computeMetrics>>
       \/ HasContext(w) /\ permits = 0 /\ Execute(t, "medium", w)
       \/ ~HasContext(w) /\ Inline(t, "medium", w)
\* compute_large: the pool, else inline.
Large(t, w) ==
    /\ task[t].pc = "new" /\ ~Busy(w)
    /\ IF HasContext(w) THEN Execute(t, "large", w) ELSE Inline(t, "large", w)

\* The closure ends.  In place, the permit goes back.
EndInPlace(t) ==
    /\ task[t].pc \in {"inline", "blocking"}
    /\ \E d \in Durations : task' = [task EXCEPT ![t] = [@ EXCEPT !.pc = "done", !.took = d]]
    /\ permits' = IF task[t].pc = "blocking" THEN permits + 1 ELSE permits
    /\ UNCHANGED <<pool, context, creation, computeMetrics>>

\* record_task_completion up to its loop over the maximum, which starts with a load.
Complete(t) ==
    /\ task[t].pc = "pool"
    /\ \E d \in Durations :
        /\ task' = [task EXCEPT ![t] = [@ EXCEPT !.pc = "max", !.took = d]]
        /\ active' = active - 1 /\ computeTotal' = computeTotal + 1
    /\ seen' = [seen EXCEPT ![t] = max]
    /\ UNCHANGED <<pool, permits, context, creation, slow, max, misfits>>

\* Mutant of UpdateMax: a store in place of the compare and exchange.
StoreMax(t) ==
    /\ task[t].pc = "max"
    /\ max' = IF task[t].took > seen[t] THEN task[t].took ELSE max
    /\ task' = [task EXCEPT ![t].pc = "count"]
    /\ UNCHANGED <<pool, permits, context, creation, active, computeTotal, slow, seen, misfits>>
\* update_max_atomic: compare and exchange until the maximum is not below this task's.
UpdateMax(t) ==
    /\ task[t].pc = "max"
    /\ IF task[t].took <= seen[t]
       THEN task' = [task EXCEPT ![t].pc = "count"] /\ UNCHANGED <<max, seen>>
       ELSE IF max = seen[t]
       THEN max' = task[t].took /\ task' = [task EXCEPT ![t].pc = "count"] /\ UNCHANGED seen
       ELSE seen' = [seen EXCEPT ![t] = max] /\ UNCHANGED <<task, max>>
    /\ UNCHANGED <<pool, permits, context, creation, active, computeTotal, slow, misfits>>
CountSlow(t) ==
    /\ task[t].pc = "count"
    /\ slow' = IF task[t].took > Slow THEN slow + 1 ELSE slow
    /\ task' = [task EXCEPT ![t].pc = "done"]
    /\ UNCHANGED <<pool, permits, context, creation, active, computeTotal, max, seen, misfits>>

\* The caller's future is dropped while the pool works: nothing is counted any more.
Dropped(t) ==
    /\ task[t].pc = "pool" /\ task' = [task EXCEPT ![t].pc = "dropped"]
    /\ UNCHANGED <<pool, permits, context, creation, computeMetrics>>

\* validate_small, validate_medium and validate_large: was the task in the class of its macro.
Misfit(kind, took) ==
    CASE kind = "small"  -> took > SmallLimit
      [] kind = "medium" -> took < SmallLimit \/ took > MediumLimit
      [] kind = "large"  -> took < MediumLimit
Validate(t) ==
    /\ task[t].pc = "done"
    /\ misfits' = IF Misfit(task[t].kind, task[t].took) THEN misfits \cup {t} ELSE misfits
    /\ task' = [task EXCEPT ![t].pc = "over"]
    /\ UNCHANGED <<pool, permits, context, creation, active, computeTotal, slow, max, seen>>

ComputeNext == \/ Detect \/ Release
               \/ \E w \in ComputeWorkers : InitializeThreadLocal(w)
               \/ \E b \in Blocking : Arrive(b)
               \/ \E t \in Tasks : \/ \E w \in ComputeWorkers : Small(t, w) \/ Medium(t, w) \/ Large(t, w)
                                   \/ EndInPlace(t) \/ Complete(t) \/ UpdateMax(t) \/ CountSlow(t)
                                   \/ Dropped(t) \/ Validate(t)
ComputeSpec == ComputeInit /\ [][ComputeNext]_computeVars

-----------------------------------------------------------------------------
ComputeTypeOK == /\ permits \in 0..PermitCount /\ context \subseteq ComputeWorkers \cup Blocking
                 /\ active \in Nat /\ misfits \subseteq Tasks /\ computeTotal \in Nat /\ max \in Durations \cup {0}
                 /\ \A t \in Tasks : task[t].pc \in {"new", "inline", "blocking", "pool", "max", "count", "done", "dropped", "over"}

In(pcs) == {t \in Tasks : task[t].pc \in pcs}

\* With two workers or more some worker is never blocked by a permit, and the permits come back
\* (macros.rs).
WorkerLeft ==
    /\ permits + Cardinality(In({"blocking"})) = PermitCount
    /\ Cardinality(ComputeWorkers) > 1 => Cardinality(In({"blocking"})) < Cardinality(ComputeWorkers)

\* tasks_active counts the tasks in the pool, and for ever those whose caller was dropped: one
\* start has at most one completion (pool.rs).
ActiveCounts == active = Cardinality(In({"pool", "dropped"}))

\* When no task is in the middle of its completion the maximum is that of the tasks the pool
\* has completed, and no other (metrics.rs).
MaxCounts ==
    LET ended == {task[t].took : t \in {u \in Tasks : task[u].where = "pool" /\ task[u].pc \in {"count", "done", "over"}}}
    IN  In({"max"}) = {} => max = Max({0} \cup ended)
=============================================================================
