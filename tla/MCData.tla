------------------------------- MODULE MCData -------------------------------
(***************************************************************************)
(* What the system stores, names, encodes and reports: the stores behind   *)
(* discovery, discovery itself, the event plane and the NATS queue; names  *)
(* and ids; token blocks, decoding, wire codecs and the parsers; metrics,  *)
(* traces, errors, settings and the compute pool; and what a replay is     *)
(* prepared from. A behaviour is one of one part, named by `part'; the     *)
(* variables of the others keep their initial values.                      *)
(***************************************************************************)
EXTENDS Integers, Sequences, FiniteSets

VARIABLES
    part,
    log, up, drops, watch, start, first, rx, cache, filled, put,
    writer, readers, guard, polls, releasing, leaseLost, robbed,
    stored, events, changes, closed, task, state, seen, receivers, cancelled,
    backend, entry, writes, lives, call, found, rev, told, creator,
    entries, unsent, memoryOutcome, stage, memorySeen, bus, lost, sent, memoryView, overtaken,
    crossed, ops,
    age, dir, owned, timer, alive, writing, watcher, notices, fileView, gap, dropped,
    fileChanges,
    discBackend, store, storeCalls, storeDoing, held, watching, pending, missed, known,
    discState, storeView,
    service, slices, configs, leases, meta, kubeDoing, kubeOps, stores, notify, daemon,
    snapshot, fresh, kubeView,
    conf, channels, feed, eventsAlive, gen, seq, unreg, eventsWatch, eventsMissed, scoped, stopped, active,
    links, stream, eventsSeen, got, eventsSent, faults,
    queueStored, lastSeq, consumers, client, reader, purging, floors, buckets, calls, answered,
    blocks, current, answer,
    decoder, ids, prefix, read, stops, decoderHeld, decoderStopped, out, prompt,
    codec, wireSent, refused, wire, wireClosed, buf, wireGot, end,
    reasoningParser, reasoningAnswer, fed, mode, buffer, accum, reasoningNormal, reasoning,
    awkward,
    callsParser, callsText, pieces,
    value, argsCut,
    nodes, children, metricsCache, building, metricsMetrics, source, scrape, scrapes,
    workers, samplerTotal, yields, exported, yielded, loop, loops, prev, prevYield, now,
    started, nextCollect, sampled, stalls, samplerCancelled, registry, once, samplerAnswer,
    pool, permits, context, detected, barrier, setup, computeTask, computeActive, computeTotal,
    slow, max, computeSeen, misfits,
    traceSetup, spans, stack, traceWire, record, panicked,
    error, item, origin, errorsLost, steps,
    settingsGiven, settingsLoaded, setState,
    entryLoaded, entryStarted,
    text, parts,
    document, registered, idsCalls,
    passSeen, window, accumulator, count, sum, m2, pass,
    trSource, ratio, sessions, lastTimes, inferred, unique, lines, status, loaded, depth, trOps

Card(n, g) == [name |-> n, source |-> "none", lora |-> FALSE, good |-> g]

\* Transports: NATS; ZMQ with no broker, with discovered brokers, with URLs, with bad URLs.
Env(k, url, on, brokers) ==
    [kind |-> k, url |-> url, enabled |-> on, listed |-> [xsub |-> brokers, xpub |-> brokers]]
Url(a, b, urls) == <<[tag |-> a, urls |-> urls], [tag |-> b, urls |-> urls]>>
Envs == {Env("nats", <<>>, FALSE, {}), Env("zmq", <<>>, FALSE, {}), Env("zmq", <<>>, TRUE, {}),
         Env("zmq", <<>>, TRUE, {"b1"}), Env("zmq", Url("xsub", "xpub", {"b1", "b2"}), FALSE, {}),
         Env("zmq", Url("xsub", "xsub", {"b1", "b2"}), FALSE, {})}
Bits == <<[position |-> 1, parent |-> 4, current |-> 4], [position |-> 3, parent |-> 3, current |-> 3],
          [position |-> 5, parent |-> 2, current |-> 2]>>
UpperBits == <<[position |-> 1, hash |-> 5], [position |-> 2, hash |-> 4],
               [position |-> 3, hash |-> 3], [position |-> 4, hash |-> 2]>>
Msgs == [request  |-> {<<<<1>>, <<>>, <<0, 1>>>>, <<<<>>, <<1, 1>>, <<1, 1, 1>>>>, <<<<1>>, <<0, 0, 0, 0>>, <<>>>>},
         response |-> {<<<<1, 0>>>>, <<<<>>>>, <<<<1, 1, 1, 1>>>>},
         twopart  |-> {<<<<1>>, <<>>>>, <<<<>>, <<0, 1>>>>, <<<<1, 1, 1>>, <<1, 1, 1>>>>},
         none     |-> {}]
Join(ms, ns) == {m \o n : m \in ms, n \in ns}
Built(ps, n) ==
    LET upTo[k \in 0..n] == IF k = 0 THEN {<<>>} ELSE Join(upTo[k - 1], ps \cup {<<>>}) IN upTo[n] \ {<<>>}
Tags == {<<"<", "t", ">">>, <<"<", "/", ">">>}
Basics == Built({<<"a">>, <<"b">>, <<"<">>} \cup Tags, 3) \cup Built({<<"a">>} \cup Tags, 4)
Channels(ps) == {<<c>> \o t : c \in {"A", "F", "C"}, t \in ps}
Shut(ms) == Join(ms, {<<".">>})
Answers == [basic    |-> Basics,
            minimax  |-> Built({<<"a">>} \cup Tags, 2),
            force    |-> Built({<<"a">>} \cup Tags, 4),
            kimi_k25 |-> LET b == Built({<<"a">>, <<"<", "k", ">">>} \cup Tags, 3) IN b \cup Join({<<"a">>}, b),
            gemma4   |-> Built({<<"a">>, <<"p">>, <<"p", "n">>} \cup Tags, 3) \cup Built({<<"a">>} \cup Tags, 4),
            granite  |-> LET s == <<"S", "1", ":">>  e == <<"E", "1", ":">>
                         IN  Built({<<"a">>, s, <<"S", "2", ":">>, e, <<"E", "2", ":">>}, 3) \cup Built({<<"a">>, s, e}, 4),
            gpt_oss  |-> LET m == Channels({<<>>, <<"a", "b">>})
                         IN  m \cup Join(Shut(m), m \cup {<<>>}) \cup Join(Shut(m), Join(Shut(m), {<<>>, <<"A", "a">>, <<"F", "a">>, <<"F", "a", ".">>}))]
Call(type, labels, names) ==
    [type |-> type, labels |-> labels, names |-> names, callback |-> type = "gauge"]
Instance(k, ns, g, i, s) ==
    [kind |-> k, namespace |-> ns, group |-> g, name |-> <<"a">>, number |-> i, suffix |-> s]
Instances ==
    {Instance("portname", <<"a">>, <<"b">>, 10, <<"none">>), Instance("portname", <<"a", "b">>, <<"b">>, 26, <<"none">>),
     Instance("portname", <<"a">>, <<"b", "b">>, 26, <<"none">>), Instance("model", <<"a">>, <<"b">>, 10, <<"none">>),
     Instance("model", <<"a">>, <<"b">>, 10, <<"a">>), Instance("event", <<"a">>, <<"b">>, 10, <<"none">>)}
Fragments == {<<"a">>, <<"_", "A">>, <<"@", "-">>, <<" ">>, <<"/", "a">>, <<".">>, <<"pgd:", "/", "/">>}
Pieces ==
    [hermes        |-> {<<"S">>, <<"E">>, <<"j">>, <<"i">>, <<"l">>, <<"k">>, <<"x">>},
     llama3_json   |-> {<<"S">>, <<"j">>, <<"l">>, <<"k">>, <<"x">>},
     mistral       |-> {<<"S">>, <<"E">>, <<"j">>, <<"l">>, <<"k">>, <<"x">>},
     default       |-> {<<"S">>, <<"T">>, <<"E">>, <<"j">>, <<"l">>, <<"x">>},
     deepseek_v3   |-> {<<"S">>, <<"E">>, <<"C", "x", "A", "n", "j", "D">>, <<"C", "x", "A", "m", "i", "D">>,
                        <<"C", "x", "A", "n", "k">>, <<"x">>},
     deepseek_v3_1 |-> {<<"S">>, <<"E">>, <<"C", "n", "A", "j", "D">>, <<"C", "m", "A", "i", "D">>,
                        <<"C", "n", "A", "k">>, <<"x">>},
     qwen3_coder   |-> {<<"S">>, <<"E">>, <<"C", "n">>, <<"p">>, <<"q">>, <<"D">>, <<"x">>},
     deepseek_v3_2 |-> {<<"S">>, <<"E">>, <<"C", "n">>, <<"p">>, <<"q">>, <<"D">>, <<"x">>},
     glm47         |-> {<<"S", "n">>, <<"S", "m">>, <<"E">>, <<"p">>, <<"q">>, <<"x">>},
     kimi_k2       |-> {<<"S">>, <<"T">>, <<"E">>, <<"F">>, <<"C", "n", "A">>, <<"j">>, <<"D">>, <<"x">>},
     gemma4        |-> {<<"S", "n">>, <<"j">>, <<"E">>, <<"x">>},
     harmony       |-> {<<"f">>, <<"g">>, <<"a">>, <<"o">>, <<"x">>},
     pythonic      |-> {<<"l">>, <<"x">>},
     detect_json   |-> {<<"<", "t">>, <<"o">>, <<">">>, <<" ">>, <<"<">>},
     detect_tokens |-> {<<"<", "t">>, <<"o">>, <<">">>, <<" ">>, <<"<">>}]
Object(kvs) == [t |-> "object", v |-> kvs]
Pair(v) == [k |-> <<"w", "1">>, v |-> v]
Level1 == {[t |-> "string", v |-> s] : s \in {<<>>, <<"x", ",", "}">>, <<"]", ":", "{">>, <<"\\", "x">>}}
          \cup {[t |-> "number", v |-> <<"1", ".", "1">>], [t |-> "number", v |-> <<"-", "1">>],
                [t |-> "word", v |-> <<"w">>], Object(<<>>), [t |-> "array", v |-> <<>>]}
Level2 == Level1 \cup {Object(<<Pair(a)>>) : a \in Level1}
          \cup {[t |-> "array", v |-> <<a, b>>] : a, b \in Level1}
Values == {Object(<<Pair(a)>>) : a \in Level2}
          \cup {Object(<<Pair(a), [k |-> <<"w">>, v |-> b]>>) : a, b \in Level1} \cup {Object(<<>>)}
Json(f, t, v) == [x \in {f} |-> <<t, v>>]
Jsons == {[f \in {} |-> <<"null">>], Json("worker_type", "str", "prefill"), Json("is_decode", "bool", TRUE),
          [is_prefill |-> <<"bool", TRUE>>, is_decode |-> <<"bool", TRUE>>], Json("dp_size", "num", 2),
          Json("num_gpu_blocks", "num", 0), Json("odd", "num", 1),
          [worker_type |-> <<"str", "decode">>, block_size |-> <<"num", 16>>],
          Json("engine_type", "str", "sglang")}
Session(n, stamped, sound) == [turns |-> n, stamped |-> stamped, sound |-> sound]
Works == {<<>>, <<Session(1, TRUE, TRUE)>>, <<Session(1, TRUE, TRUE), Session(1, FALSE, TRUE)>>,
          <<Session(2, FALSE, TRUE)>>, <<Session(0, TRUE, TRUE)>>, <<Session(2, TRUE, FALSE)>>}
Raws == {"int", "bigint", "integral", "float", "true", "True", "false", "yes", "null", "json", "python", "word"}

\* watch: two keys, one of them among the initial values, three changes and a lost connection.
\* lock: three processes that read or write, crash or lose their lease.
\* prefix: two keys of a typed prefix, changed three times.
Etcd     == INSTANCE EtcdClient WITH WatchKeys <- {"k", "l"}, Initial <- {"k"},
                     MaxRevision <- 3, MaxDrops <- 1, Processes <- {"p", "q", "r"},
                     Writing <- {"p", "q"}, Reading <- {"q", "r"}, MaxPolls <- 1, PrefixKeys <- {"k", "l"},
                     Leases <- {1}, Extractor <- "key", MaxEvents <- 3
\* remote: two publishers of one key, over etcd or NATS.
\* memory: two writers, of a key and of that and another; a broadcast channel of one.
\* file: two processes with a key each, whose loops run up to a tick late.
Stores   == INSTANCE KvStores WITH Publishers <- {"p", "q"}, MaxWrites <- 3,
                     Writers <- {"v", "w"},
                     MemoryKeysOf <- [w \in {"v", "w"} |-> IF w = "v" THEN {"k"} ELSE {"k", "l"}],
                     Revisions <- {0}, Capacity <- 1, Channel <- 2, MaxOps <- 4,
                     seen <- memorySeen, Processes <- {"p", "q"},
                     FileKeysOf <- [p \in {"p", "q"} |-> {p}], TTLs <- {3}, Jitter <- 1,
                     Buffer <- 2, MaxChanges <- 2, changes <- fileChanges
\* discovery: two clients under one path, with a card that can be read and one that cannot.
\* kube: a pod with two portnames, a card and a channel.
Disc     == INSTANCE Discovery WITH Clients <- {1, 2}, Paths <- {<<"ns", "a">>},
                     StoreCards <- {Card("m", TRUE), Card("m", FALSE), Card("n", FALSE)},
                     ModelSuffixes <- {"none", "l"}, Kinds <- {"model"}, StartsWith <- {},
                     WatchQuery <- <<"ns">>, MaxCalls <- 2, backend <- discBackend,
                     state <- discState, Pods <- {1}, PortNames <- {"a", "b"},
                     PortOf <- [p \in {1} |-> 80], KubeCards <- {"c"}, MaxOps <- 3,
                     ops <- kubeOps
\* events: two publishers, directly or through one or two brokers.
\* queue: two handles with a consumer each.
Bus      == INSTANCE Messaging WITH
                     Publishers <- {[id |-> 1, topic |-> "t"], [id |-> 2, topic |-> "t"]},
                     Topic <- "t", Matching <- {"t", "tt"}, Environments <- Envs,
                     CacheSize <- 1, MaxGens <- 1, MaxFaults <- 1,
                     MaxEvents <- [nats |-> 1, direct |-> 1, broker |-> 2],
                     alive <- eventsAlive, watch <- eventsWatch, missed <- eventsMissed,
                     seen <- eventsSeen,
                     sent <- eventsSent, Queues <- {"a", "b"},
                     NameOf <- [q \in {"a", "b"} |-> IF q = "a" THEN "g" ELSE "h"],
                     None <- "none", MaxMessages <- 3, MaxCalls <- 3, stored <- queueStored
\* Blocks of two tokens; packed hashes of a few bits.
Blocks   == INSTANCE TokenBlocks WITH Token <- {"a", "b"}, BlockSize <- 2, MaxTokens <- 6,
                     Layout <- Bits, UpperLayout <- UpperBits
\* decoder: characters of one byte and one of two.
\* wire: three messages of each codec, one of them too large, read in chunks of up to three.
Codecs   == INSTANCE StreamCodecs WITH Chars <- {"a", "s", "t", "h", "v"},
                     Prompts <- {<<>>, <<"a">>, <<"x1", "x2", "a">>}, Offset <- 2,
                     StopSets <- {<<>>, <<<<"s", "t">>>>, <<<<"s", "t">>, <<"t", "a">>>>},
                     Hidden <- {"h"}, Visible <- {"v"}, MaxTokens <- 4,
                     held <- decoderHeld, stopped <- decoderStopped, Messages <- Msgs,
                     MaxMessage <- 10, Debug <- TRUE, Chunk <- 3, MaxSends <- 2,
                     sent <- wireSent, closed <- wireClosed, got <- wireGot
\* reasoning: answers of each parser, cut into chunks of up to four.
\* calls: answers of each format, of up to four pieces.
\* args: arguments of up to two levels.
Parsers  == INSTANCE OutputParsers WITH Texts <- Answers, answer <- reasoningAnswer,
                     Pieces <- Pieces, MaxPieces <- 4, Values <- Values, Raws <- Raws
\* metrics: namespaces and groups that two threads ask for, one or two metrics among them.
\* sampler: a runtime that gets a second worker.
\* compute: two tasks, short and long, on two workers.
Counters == INSTANCE ProcessMetrics WITH MetricsThreads <- {"t", "u"},
                     NsNames <- {<<"n">>}, SgNames <- {<<"a", "-", "b">>},
                     PortNames <- {<<"p">>}, MetricNames <- {"x"},
                     Calls <- {Call("counter", <<>>, <<>>), Call("gauge", <<"k">>, <<>>),
                               Call("gaugevec", <<>>, <<"portname">>)},
                     MaxNodes <- 4, MaxNesting <- 0, MaxMetrics <- 2, MaxObjects <- 5, MaxScrapes <- 1,
                     cache <- metricsCache, SamplerWorkers <- 1, MaxWorkers <- 2,
                     Collectors <- 2, Delays <- {0, 2}, Stall <- 1, CollectEvery <- 2,
                     MaxCount <- 1, MaxTime <- 4, MaxLoops <- 2,
                     cancelled <- samplerCancelled, answer <- samplerAnswer,
                     ComputeWorkers <- {"w1", "w2"}, Blocking <- {"b1"},
                     Tasks <- {"t1", "t2"}, ComputeThreads <- "none", Cores <- 4,
                     Durations <- {1, 3}, Slow <- 2, SmallLimit <- 1, MediumLimit <- 2,
                     task <- computeTask, active <- computeActive, seen <- computeSeen
\* trace: three spans in two processes.
\* errors: errors of up to three links through three stages.
Carried  == INSTANCE Propagation WITH MaxSpans <- 3, MaxRequests <- 1, Levels <- {"info"},
                     Traceparents <- {"none", "good"}, RequestIds <- {"uuid"},
                     setup <- traceSetup, wire <- traceWire,
                     Types <- {"Unknown", "Cancelled", "Backend"}, MaxLinks <- 3,
                     MaxSteps <- 3, lost <- errorsLost
\* settings: two entries over all layers.
\* entry: argument files and pieces of work, good and bad.
Config   == INSTANCE Configuration WITH Fields <- {"workers", "blocking", "port"},
                     Values <- {0, 40000}, MaxSet <- 2, Cores <- 4, state <- setState,
                     Jsons <- Jsons, Works <- Works, Counts <- {0, 1, 2}, Limits <- {0, 1},
                     started <- entryStarted
\* names: names of up to five fragments.
\* ids: instances whose names could run into one another.
Idents   == INSTANCE Identifiers WITH Fragments <- Fragments, MaxParts <- 5,
                     Known <- Instances, MaxCalls <- 4, calls <- idsCalls
\* A window of two samples, and a table of three measurements.
Pass     == INSTANCE PassTime WITH Samples <- {0, 1, 5}, MaxSamples <- 4, Capacity <- 2,
                     Table <- <<<<2, 3000>>, <<4, 8000>>, <<8, 9000>>>>,
                     Lengths <- {0, 1, 4, 8}, Batches <- 0..2, Speedups <- {0, 1, 3},
                     TotalKv <- 8, seen <- passSeen
\* Files of two lines, and two transformations.
Tr       == INSTANCE Traces WITH BlockSize <- 2, MaxLines <- 2, MaxOps <- 2,
                     Names <- {"p", "q"}, Times <- {0, 2}, Lengths <- {0, 3},
                     IdLists <- {<<>>, <<<<0, 1>>>>, <<<<0, 1>>, <<0, 2>>>>},
                     Ratios <- 0..2, source <- trSource, ops <- trOps

watchVars     == <<log, up, drops, watch, start, first, rx, cache, filled, put>>
lockVars      == <<writer, readers, guard, polls, releasing, leaseLost, robbed>>
prefixVars    == <<stored, events, changes, closed, task, state, seen, receivers, cancelled>>
remoteVars    == <<backend, entry, writes, lives, call, found, rev, told, creator>>
memoryVars    == <<entries, unsent, memoryOutcome, stage, memorySeen, bus, lost, sent,
                   memoryView, overtaken, crossed, ops>>
fileVars      == <<age, dir, owned, timer, alive, writing, watcher, notices, fileView,
                   gap, dropped, fileChanges>>
discVars      == <<discBackend, store, storeCalls, storeDoing, held, watching, pending,
                   missed, known, discState, storeView>>
kubeVars      == <<service, slices, configs, leases, meta, kubeDoing, kubeOps, stores,
                   notify, daemon, snapshot, fresh, kubeView>>
eventsVars    == <<conf, channels, feed, eventsAlive, gen, seq, unreg, eventsWatch, eventsMissed, scoped,
                   stopped, active, links, stream, eventsSeen, got, eventsSent, faults>>
queueVars     == <<queueStored, lastSeq, consumers, client, reader, purging, floors,
                   buckets, calls, answered>>
blocksVars    == <<blocks, current, answer>>
decoderVars   == <<decoder, ids, prefix, read, stops, decoderHeld, decoderStopped, out,
                   prompt>>
wireVars      == <<codec, wireSent, refused, wire, wireClosed, buf, wireGot, end>>
reasoningVars == <<reasoningParser, reasoningAnswer, fed, mode, buffer, accum,
                   reasoningNormal, reasoning, awkward>>
callsVars     == <<callsParser, callsText, pieces>>
argsVars      == <<value, argsCut>>
metricsVars   == <<nodes, children, metricsCache, building, metricsMetrics, source, scrape,
                   scrapes>>
samplerVars   == <<workers, samplerTotal, yields, exported, yielded, loop, loops, prev,
                   prevYield, now, started, nextCollect, sampled, stalls, samplerCancelled,
                   registry, once, samplerAnswer>>
computeVars   == <<pool, permits, context, detected, barrier, setup, computeTask,
                   computeActive, computeTotal, slow, max, computeSeen, misfits>>
traceVars     == <<traceSetup, spans, stack, traceWire, record, panicked>>
errorsVars    == <<error, item, origin, errorsLost, steps>>
setVars       == <<settingsGiven, settingsLoaded, setState>>
entryVars     == <<entryLoaded, entryStarted>>
namesVars     == <<text, parts>>
idsVars       == <<document, registered, idsCalls>>
passVars      == <<passSeen, window, accumulator, count, sum, m2, pass>>
trVars        == <<trSource, ratio, sessions, lastTimes, inferred, unique, lines, status,
                   loaded, depth, trOps>>
vars == <<part, watchVars, lockVars, prefixVars, remoteVars, memoryVars, fileVars,
          discVars, kubeVars, eventsVars, queueVars, blocksVars, decoderVars, wireVars,
          reasoningVars, callsVars, argsVars, metricsVars, samplerVars, computeVars,
          traceVars, errorsVars, setVars, entryVars, namesVars, idsVars, passVars, trVars>>

Init ==
    /\ part \in {"watch", "lock", "prefix", "remote", "memory", "file", "discovery", "kube",
            "events", "queue", "blocks", "decoder", "wire", "reasoning", "calls", "args",
            "metrics", "sampler", "compute", "trace", "errors", "settings", "entry",
            "names", "ids", "pass", "traces"}
    /\ IF part # "args" THEN value = Object(<<>>) ELSE TRUE
    /\ Etcd!WatchInit /\ Etcd!LockInit /\ Etcd!PrefixInit /\ Stores!RemoteInit
    /\ Stores!MemoryInit /\ Stores!FileInit /\ Disc!StoreInit /\ Disc!KubeInit
    /\ Bus!EventsInit /\ Bus!QueueInit /\ Blocks!Init /\ Codecs!DecoderInit
    /\ Codecs!WireInit /\ Parsers!ReasoningInit /\ Parsers!CallsInit /\ Parsers!ArgsInit
    /\ Counters!MetricsInit /\ Counters!SamplerInit /\ Counters!ComputeInit
    /\ Carried!TraceInit /\ Carried!ErrorsInit /\ Config!SettingsInit /\ Config!EntryInit
    /\ Idents!NameInit /\ Idents!IdsInit /\ Pass!Init /\ Tr!Init

\* A step of a part: the variables of the others stay.
Of(p) ==
    /\ part = p /\ UNCHANGED part
    /\ IF p = "watch" THEN TRUE ELSE UNCHANGED watchVars
    /\ IF p = "lock" THEN TRUE ELSE UNCHANGED lockVars
    /\ IF p = "prefix" THEN TRUE ELSE UNCHANGED prefixVars
    /\ IF p = "remote" THEN TRUE ELSE UNCHANGED remoteVars
    /\ IF p = "memory" THEN TRUE ELSE UNCHANGED memoryVars
    /\ IF p = "file" THEN TRUE ELSE UNCHANGED fileVars
    /\ IF p = "discovery" THEN TRUE ELSE UNCHANGED discVars
    /\ IF p = "kube" THEN TRUE ELSE UNCHANGED kubeVars
    /\ IF p = "events" THEN TRUE ELSE UNCHANGED eventsVars
    /\ IF p = "queue" THEN TRUE ELSE UNCHANGED queueVars
    /\ IF p = "blocks" THEN TRUE ELSE UNCHANGED blocksVars
    /\ IF p = "decoder" THEN TRUE ELSE UNCHANGED decoderVars
    /\ IF p = "wire" THEN TRUE ELSE UNCHANGED wireVars
    /\ IF p = "reasoning" THEN TRUE ELSE UNCHANGED reasoningVars
    /\ IF p = "calls" THEN TRUE ELSE UNCHANGED callsVars
    /\ IF p = "args" THEN TRUE ELSE UNCHANGED argsVars
    /\ IF p = "metrics" THEN TRUE ELSE UNCHANGED metricsVars
    /\ IF p = "sampler" THEN TRUE ELSE UNCHANGED samplerVars
    /\ IF p = "compute" THEN TRUE ELSE UNCHANGED computeVars
    /\ IF p = "trace" THEN TRUE ELSE UNCHANGED traceVars
    /\ IF p = "errors" THEN TRUE ELSE UNCHANGED errorsVars
    /\ IF p = "settings" THEN TRUE ELSE UNCHANGED setVars
    /\ IF p = "entry" THEN TRUE ELSE UNCHANGED entryVars
    /\ IF p = "names" THEN TRUE ELSE UNCHANGED namesVars
    /\ IF p = "ids" THEN TRUE ELSE UNCHANGED idsVars
    /\ IF p = "pass" THEN TRUE ELSE UNCHANGED passVars
    /\ IF p = "traces" THEN TRUE ELSE UNCHANGED trVars

Next ==
    \/ Of("watch") /\ Etcd!WatchNext
    \/ Of("lock") /\ Etcd!LockNext
    \/ Of("prefix") /\ Etcd!PrefixNext
    \/ Of("remote") /\ Stores!RemoteNext
    \/ Of("memory") /\ Stores!MemoryNext
    \/ Of("file") /\ Stores!FileNext
    \/ Of("discovery") /\ Disc!StoreNext
    \/ Of("kube") /\ Disc!KubeNext
    \/ Of("events") /\ Bus!EventsNext
    \/ Of("queue") /\ Bus!QueueNext
    \/ Of("blocks") /\ Blocks!Next
    \/ Of("decoder") /\ Codecs!DecoderNext
    \/ Of("wire") /\ Codecs!WireNext
    \/ Of("reasoning") /\ Parsers!ReasoningNext
    \/ Of("calls") /\ Parsers!CallsNext
    \/ Of("args") /\ Parsers!ArgsNext
    \/ Of("metrics") /\ Counters!MetricsNext
    \/ Of("sampler") /\ Counters!SamplerNext
    \/ Of("compute") /\ Counters!ComputeNext
    \/ Of("trace") /\ Carried!TraceNext
    \/ Of("errors") /\ Carried!ErrorsNext
    \/ Of("settings") /\ Config!SettingsNext
    \/ Of("entry") /\ Config!EntryNext
    \/ Of("names") /\ Idents!NameNext
    \/ Of("ids") /\ Idents!IdsNext
    \/ Of("pass") /\ Pass!Next
    \/ Of("traces") /\ Tr!Next

Spec == Init /\ [][Next]_vars

-----------------------------------------------------------------------------
\* Once everything under way has been delivered, whoever watches knows what is there:
\* each change of a key after the watch began, in order (etcd.rs); the keys of a bucket
\* (mem.rs, file.rs) and of a typed prefix (typed_prefix_watcher.rs); the models under a
\* query (kv_store.rs, utils.rs); the instances the cluster's objects stand for
\* (daemon.rs); the publishers to be connected (dynamic_subscriber.rs).  And what
\* belongs to a process that runs is there: nobody sweeps its file (file.rs).
ViewsFollow ==
    /\ part = "watch" => Etcd!WatchExact
    /\ part = "memory" => Stores!ViewConverges
    /\ part = "file" => Stores!WatchSettles /\ Stores!LiveKept
    /\ part = "prefix" => Etcd!MapFollows
    /\ part = "discovery" => Disc!ViewFollows
    /\ part = "kube" => Disc!ViewFollowsCluster
    /\ part = "events" => Bus!Followed

\* Checks and writes that are separate calls leave one winner: one writer and no reader
\* of a lock (lock.rs), one creator of a key (etcd.rs, nats.rs), one model under a path
\* (discovery/mod.rs); and an event is handed out once, although each broker forwards a
\* copy of it (event_plane/mod.rs, dynamic_subscriber.rs).
OneWinner ==
    /\ part = "lock" => Etcd!WriterExcludes
    /\ part = "remote" => Stores!OneCreator
    /\ part = "discovery" => Disc!OneModelPerPath
    /\ part = "events" => Bus!AtMostOnce

\* What purge_acknowledged removes was acked by every consumer it read a floor of
\* (nats.rs).
FloorsRespected == Bus!FloorsRespected

\* However a stream is cut, reading it piece by piece gives what reading the whole gives:
\* text from tokens (tokenizers/src/lib.rs), messages from bytes (codec/), the reasoning
\* in an answer (reasoning/) and the tool calls in it with their arguments
\* (tool_calling/), of which recovery closes what was cut and invents nothing.
PiecesAgree ==
    /\ part = "decoder" => Codecs!StreamExact /\ Codecs!NothingLost
    /\ part = "wire" => Codecs!StreamCutExactly /\ Codecs!BufferBounded
    /\ part = "reasoning" => Parsers!StreamAgrees
    /\ part = "calls" => Parsers!CutKeepsCalls /\ Parsers!RecoveryKeeps /\ Parsers!StartSeen
    /\ part = "args" => Parsers!RoundTrip /\ Parsers!RepairCloses /\ Parsers!NothingInvented

\* What has two forms is the same in both: a sequence of blocks is the one that new would
\* build from its tokens, with packed hashes that link each block to the one before it
\* (tokens/src/lib.rs); a portname's id survives its URL and its path (protocols.rs), a
\* slug its reading (slug.rs), and an instance id its key, under which no other
\* instance hides it (discovery/mod.rs, metadata.rs); and a trace that was partitioned,
\* duplicated, rescaled or deepened is as valid, as ordered and as shared as the loaded one
\* (loadgen/trace.rs).
FormsAgree ==
    /\ part = "blocks" => Blocks!AsBuilt /\ Blocks!LineageLinks
    /\ part = "names" => Idents!SameId /\ Idents!SlugsStay
    /\ part = "ids" => Idents!DocumentExact /\ Idents!PathsLeadBack /\ Idents!ScopesNest
    /\ part = "traces" => /\ Tr!ValidKept /\ Tr!OrderKept /\ Tr!SharingKept /\ Tr!TurnsExtend
                          /\ Tr!DelaysAddUp /\ Tr!PartsCover /\ Tr!TokensTell

\* The sequence of blocks implements the list of its tokens: it grows and is cut at its
\* end (tokens/src/lib.rs).
IsTokenList == Blocks!IsTokenList

\* What a process says about itself is so: a scrape has every metric of the hierarchy
\* once, under labels that name its place (metrics.rs), and counters say what happened
\* (tokio_perf.rs, compute/); a trace is unbroken across processes, and a record names
\* its own span (logging.rs); an error keeps its types on the way to the caller
\* (error.rs, annotated.rs); an accepted configuration runs, of a worker and of a
\* replay, and the environment wins over the files (config.rs, offline/entrypoints.rs); and
\* the running means and pass times are those of the definition (mocker/src/common).
ReportsAreTrue ==
    /\ part = "metrics" => Counters!ScrapeWhole /\ Counters!CachedIsScraped /\ Counters!LabelsNamePlace
    /\ part = "sampler" => Counters!CountersExact
    /\ part = "compute" => Counters!WorkerLeft /\ Counters!ActiveCounts /\ Counters!MaxCounts
    /\ part = "trace" => /\ Carried!TraceUnbroken /\ Carried!ParentsExist
                         /\ Carried!RecordTellsItsSpan /\ Carried!OtelAgrees
    /\ part = "errors" => Carried!TypesSurvive /\ Carried!ErrorsStay
    /\ part = "settings" => Config!AcceptedRuns /\ Config!EnvironmentWins
    /\ part = "entry" => Config!RuntimeFits /\ Config!WorkRunnable
    /\ part = "pass" => Pass!WindowSum /\ Pass!VarianceExact /\ Pass!ReuseNeverSlower
=============================================================================
