---------------------------- MODULE Configuration ----------------------------
(****************************************************************************)
(* What is accepted at start, in two sections: the settings of a runtime,   *)
(* and the arguments and the work of a replay.                              *)
(****************************************************************************)
EXTENDS Integers, Sequences, FiniteSets

-----------------------------------------------------------------------------
(***************************************************************************)
(* Loading the runtime's configuration (lib/runtime/src/config.rs): eight  *)
(* layers, each with its own names for the fields, merged so that a later  *)
(* one wins, then read into a struct and validated.  The same field can    *)
(* be named under several prefixes (PGD_RUNTIME_SYSTEM_PORT,               *)
(* PGD_SYSTEM_PORT, PGD_SYSTEM_SYSTEM_PORT through the fall-through of     *)
(* map_system_key), and the load races nothing: the environment is read    *)
(* once, by the process that starts.                                       *)
(*                                                                         *)
(* Four fields stand for the fifteen: worker threads (validated), blocking *)
(* threads (validated), compute threads (optional, not validated) and the  *)
(* port (a signed 16 bit number).  A value is a number as it is written;   *)
(* Empty is a variable set to nothing.                                     *)
(***************************************************************************)
CONSTANTS Fields,     \* the fields that may be set: subset of AllFields
          Values,     \* the numbers that may be written
          MaxSet,     \* entries set over all layers
          Cores       \* available_parallelism

AllFields == {"workers", "blocking", "compute", "port"}
Absent == -9
Empty == -8
Layers == <<"packaged", "local", "RUNTIME", "SYSTEM", "COMPUTE", "HEALTH_CHECK", "CANARY">>
IsFile(l) == l \in {"packaged", "local"}

VARIABLES settingsGiven,    \* given[layer][name]: what the administrator wrote
          settingsLoaded,   \* the configuration
          state     \* "new", "loaded", "refused", "running", "failed"

settingsVars == <<settingsGiven, settingsLoaded, state>>

\* the names a field has under a prefix: its short name where the prefix has a map, and always its own
SettingsNames(layer) ==
  {<<"full", f>> : f \in Fields} \cup
  (CASE layer = "SYSTEM" -> {<<"short", "port">>} [] layer = "COMPUTE" -> {<<"short", "compute">>} [] OTHER -> {})

NamesOf == {<<"full", f>> : f \in AllFields} \cup {<<"short", f>> : f \in AllFields}

LayerSet == {Layers[i] : i \in DOMAIN Layers}

SettingsInit ==
  /\ settingsGiven = [l \in LayerSet |-> [n \in NamesOf |-> Absent]]
  /\ settingsLoaded = [f \in AllFields |-> Absent] /\ state = "new"

\* an entry of a file or a variable of the environment
Write(l, n, v) ==
  /\ state = "new" /\ n \in SettingsNames(l) /\ n[2] \in Fields /\ settingsGiven[l][n] = Absent
  /\ ~(IsFile(l) /\ v = Empty)
  /\ Cardinality({<<m, k>> \in LayerSet \X NamesOf : settingsGiven[m][k] # Absent}) < MaxSet
  /\ settingsGiven' = [settingsGiven EXCEPT ![l][n] = v] /\ UNCHANGED <<settingsLoaded, state>>

\* RuntimeConfig::default
Default == [f \in AllFields |-> CASE f \in {"workers", "blocking"} -> Cores [] f = "compute" -> Absent [] f = "port" -> -1]

\* Mutant of Provided: an empty variable counts
ProvidedEmpty(l, f) ==
  {settingsGiven[l][n] : n \in {m \in NamesOf : m[2] = f}} \ {Absent}

\* prefixed_env_provider with its map of names: what a layer says of a field, empty
\* variables left out
Provided(l, f) ==
  {settingsGiven[l][n] : n \in {m \in NamesOf : m[2] = f}} \ {Absent, Empty}

\* the layers that say something of f
Saying(f) == {i \in DOMAIN Layers : Provided(Layers[i], f) # {}}

\* figment: a later layer replaces an earlier one; under one prefix either name may
\* come last
Figment(f) ==
  IF Saying(f) = {} THEN {Default[f]}
  ELSE Provided(Layers[CHOOSE i \in Saying(f) : \A j \in Saying(f) : j <= i], f)

\* serde: the port is an i16, thread counts are unsigned
Fits(f, v) == IF f = "port" THEN v \in -32768..32767 ELSE v >= 0 \/ v = Absent

\* Mutant of Validate: the blocking threads are not validated
ValidateWorkers(c) == c["workers"] # 0

\* the validator's ranges
Validate(c) == c["workers"] # 0 /\ c["blocking"] # 0

\* from_settings
FromSettings ==
  /\ state = "new"
  /\ \E c \in [AllFields -> UNION {Figment(f) : f \in AllFields}] :
       /\ \A f \in AllFields : c[f] \in Figment(f)
       /\ IF (\A f \in AllFields : Fits(f, c[f])) /\ Validate(c)
          THEN state' = "loaded" /\ settingsLoaded' = c
          ELSE state' = "refused" /\ settingsLoaded' = settingsLoaded
  /\ UNCHANGED settingsGiven

\* single_threaded
SingleThreaded ==
  /\ state = "new" /\ state' = "loaded" /\ UNCHANGED settingsGiven
  /\ settingsLoaded' = [Default EXCEPT !["workers"] = 1, !["blocking"] = 1, !["compute"] = 1]

\* create_runtime: Tokio's builder panics on no worker threads and on no blocking threads
CreateRuntime ==
  /\ state = "loaded"
  /\ LET workers == IF settingsLoaded["workers"] = Absent THEN Cores ELSE settingsLoaded["workers"]
     IN  state' = IF workers > 0 /\ settingsLoaded["blocking"] > 0 THEN "running" ELSE "failed"
  /\ UNCHANGED <<settingsGiven, settingsLoaded>>

SettingsNext ==
  \/ \E l \in LayerSet, n \in NamesOf, v \in Values \cup {Empty} : Write(l, n, v)
  \/ FromSettings \/ SingleThreaded \/ CreateRuntime

SettingsSpec == SettingsInit /\ [][SettingsNext]_settingsVars

---------------------------------------------------------------------------
\* A configuration that was accepted can be run: the pools have threads.
AcceptedRuns == state # "failed"

\* A field nobody wrote a value for keeps its default, and the environment beats
\* both files, whichever of its names was used.
EnvironmentWins ==
  (state \in {"loaded", "running"} /\ settingsLoaded["workers"] # 1) =>
     \A f \in AllFields :
       LET env == UNION {Provided(l, f) : l \in {x \in LayerSet : ~IsFile(x)}}
           said == UNION {{settingsGiven[l][n] : n \in {m \in NamesOf : m[2] = f}} : l \in LayerSet} \ {Absent, Empty}
       IN  /\ env # {} => settingsLoaded[f] \in env
           /\ said = {} => settingsLoaded[f] = Default[f]

-----------------------------------------------------------------------------
(***************************************************************************)
(* How a replay is asked for (lib/mocker: common/protocols.rs,             *)
(* replay/validate.rs, replay/entrypoints.rs and the entrypoints of        *)
(* replay/offline and replay/online).  Engine arguments are read from JSON *)
(* files, given defaults and validated; then one of the thirty             *)
(* `simulate_*` functions checks them against the number of workers, the   *)
(* router and the limit, loads and checks the work, and hands it to one of *)
(* four runtimes: single, aggregated, disaggregated, online.               *)
(*                                                                         *)
(* A JSON file is a function from field names to values <<type, value>>.   *)
(* Fields are kept one per way they are read.                              *)
(* Work is a sequence of sessions [turns, stamped, sound]: the number of   *)
(* turns, whether its first turn has a usable timestamp, and whether every *)
(* turn has a length, hashes to cover it and a legal delay.                *)
(***************************************************************************)
CONSTANTS Jsons,     \* the argument files
          Works,     \* the pieces of work
          Counts,    \* numbers of workers
          Limits     \* max_in_flight, or the arrival speed-up (0: not usable)

VARIABLES entryLoaded,    \* loaded[slot]: the arguments given as a slot, or a reason there are none
          started    \* what the last call did

entryVars == <<entryLoaded, started>>

Slots == {"extra", "prefill", "decode"}

None == [err |-> "none"]

Refused(why) == [err |-> why]

IsArgs(a) == "block_size" \in DOMAIN a

----------------------------------------------------------------------------
(* MockEngineArgs *)

NumberFields == {"num_gpu_blocks", "block_size", "max_num_seqs", "dp_size"}

ValidFields == NumberFields \cup {"engine_type", "preemption_mode", "worker_type", "is_prefill", "is_decode", "reasoning"}

Defaults == [num_gpu_blocks |-> 16384, block_size |-> 0, max_num_seqs |-> 256, dp_size |-> 1]

\* A JSON value is <<type, value>>; the optional max_num_seqs of null is NoCap
Null == <<"null">>

NoCap == -1

\* A number field keeps its default when absent or of another type; the optional one can be cleared
NumberOf(json, field) ==
  CASE field \notin DOMAIN json -> Defaults[field]
    [] json[field][1] = "num" -> json[field][2]
    [] json[field][1] = "null" /\ field = "max_num_seqs" -> NoCap
    [] OTHER -> Defaults[field]

\* A name given as a string must be one of the known ones; any other type is ignored
EntryNames == [engine_type |-> {"vllm"}, preemption_mode |-> {"lifo", "fifo"}]

NamesOk(json) ==
  \A f \in DOMAIN EntryNames \cap DOMAIN json : json[f][1] = "str" => json[f][2] \in EntryNames[f]

\* A reasoning section that is there must parse
ReasoningOk(json) == "reasoning" \in DOMAIN json => json["reasoning"][1] \in {"null", "section"}

Flag(json, field) == field \in DOMAIN json /\ json[field][1] = "bool" /\ json[field][2]

\* worker_type wins over the older is_prefill / is_decode
WorkerTypeOf(json) ==
  CASE "worker_type" \in DOMAIN json ->
         IF json["worker_type"][1] = "str" /\ json["worker_type"][2] \in {"aggregated", "prefill", "decode"}
         THEN json["worker_type"][2] ELSE "invalid"
    [] OTHER -> CASE Flag(json, "is_prefill") /\ Flag(json, "is_decode") -> "invalid"
                  [] Flag(json, "is_prefill") -> "prefill"
                  [] Flag(json, "is_decode") -> "decode"
                  [] OTHER -> "aggregated"

\* Mutant of Normalized: the ranges are checked, the default is not filled in
NormalizedBare(a) ==
  IF a.num_gpu_blocks >= 1 /\ a.dp_size >= 1 /\ a.max_num_seqs # 0
  THEN a ELSE Refused("range")

\* normalized(): the default block size, then the ranges
Normalized(a) ==
  LET sized == [a EXCEPT !.block_size = IF @ = 0 THEN 64 ELSE @]
  IN IF a.num_gpu_blocks >= 1 /\ a.dp_size >= 1 /\ a.max_num_seqs # 0
     THEN sized ELSE Refused("range")

FromJson(json) ==
  IF \/ ~ DOMAIN json \subseteq ValidFields
     \/ ~ NamesOk(json)
     \/ ~ ReasoningOk(json)
     \/ WorkerTypeOf(json) = "invalid"
  THEN Refused("invalid")
  ELSE Normalized([f \in NumberFields \cup {"worker_type"} |->
                     IF f = "worker_type" THEN WorkerTypeOf(json) ELSE NumberOf(json, f)])

----------------------------------------------------------------------------
(* validate.rs *)

\* Which kind of replay the given arguments ask for
ArgsMode(given, workers, prefills, decodes) ==
  CASE "extra" \in given /\ given # {"extra"} -> "refused"
    [] given \in {{"extra"}, {}} -> IF prefills = 1 /\ decodes = 1 THEN "aggregated" ELSE "refused"
    [] given = {"prefill", "decode"} -> IF workers = 1 THEN "disagg" ELSE "refused"
    [] OTHER -> "refused"

ValidReplayArgs(a, workers) == workers >= 1 /\ a.worker_type = "aggregated" /\ a.dp_size = 1

\* Mutant of ValidRouterMode: any number of workers will do
ValidRouterAlways(router, workers) == TRUE

\* Offline, the KV router needs someone to choose between
ValidRouterMode(router, workers) == router = "kv" => workers > 1

ValidDisaggArgs(p, d, prefills, decodes) ==
  /\ prefills >= 1 /\ decodes >= 1
  /\ p.worker_type = "prefill" /\ d.worker_type = "decode"
  /\ p.dp_size = 1 /\ d.dp_size = 1
  /\ p.block_size = d.block_size

----------------------------------------------------------------------------
(* The work *)

\* Trace::validate, in trace mode and in concurrency mode
Valid(work, mode) ==
  /\ work # <<>>
  /\ \A i \in DOMAIN work : work[i].turns > 0 /\ work[i].sound /\ (mode = "trace" => work[i].stamped)

IsSingleTurn(work) == \A i \in DOMAIN work : work[i].turns = 1

\* normalize_trace_requests: sorting two requests looks at their timestamps
NormalizeRequests(work, ratio) ==
  CASE ratio = 0 -> "refused"
    [] Len(work) > 1 /\ \E i \in DOMAIN work : ~work[i].stamped -> "panic"
    [] work = <<>> \/ ~work[1].stamped -> "refused"
    [] OTHER -> "ok"

\* A session without turns is popped as ready and its first turn indexed
EmptySession(work) == \E i \in DOMAIN work : work[i].turns = 0

----------------------------------------------------------------------------
(* The entry functions.  A call is [api, mode, input, format, router,      *)
(* workers, prefills, decodes, limit]; the answer is a runtime, an error   *)
(* or a panic.                                                             *)

Run(rt, call, source, work) == [rt |-> rt, call |-> call, source |-> source, work |-> work]

\* offline/entrypoints.rs: one vllm worker needs no router
OfflineRuntime(call) == IF call.workers = 1 THEN "single" ELSE "agg"

RuntimeOf(call) == CASE call.api = "offline" -> OfflineRuntime(call)
                     [] call.api = "disagg" -> "disagg"
                     [] OTHER -> "online"

\* A list of requests in trace mode: the arrivals are sorted, shifted and scaled
StartTraceRequests(call, work) ==
  LET n == NormalizeRequests(work, call.limit)
  IN IF n = "ok" THEN Run(RuntimeOf(call), call, "requests", work) ELSE Refused(n)

\* A list of requests in concurrency mode is taken as it comes
StartConcurrencyRequests(call, work) == Run(RuntimeOf(call), call, "requests", work)

\* Mutant of StartWorkload: no entry validates its workload
StartUnvalidated(call, work) == Run(RuntimeOf(call), call, "driver", work)

\* A workload: the single, aggregated and online entries validate it, the disaggregated one does not
StartWorkload(call, work) ==
  IF call.api # "disagg" /\ ~Valid(work, call.mode) THEN Refused("work")
  ELSE Run(RuntimeOf(call), call, "driver", work)

\* A trace file in trace mode needs timestamps, which the agentic format has not, and a speed-up
TimedFile(call) == call.format = "mooncake" /\ call.limit # 0

\* Once loaded, shifted and scaled, a file of single turns becomes a list of requests
StartTraceFile(call, work) ==
  CASE ~TimedFile(call) -> Refused("file")
    [] IsSingleTurn(work) -> IF Valid(work, "trace") THEN StartTraceRequests([call EXCEPT !.limit = 1], work)
                             ELSE Refused("work")
    [] OTHER -> StartWorkload(call, work)

\* A trace file in concurrency mode is a workload
StartConcurrencyFile(call, work) == StartWorkload(call, work)

\* Requests given by the caller may not be none
GivenTraceRequests(call, work) ==
  IF work = <<>> THEN Refused("empty") ELSE StartTraceRequests(call, work)

GivenConcurrencyRequests(call, work) ==
  IF work = <<>> THEN Refused("empty") ELSE StartConcurrencyRequests(call, work)

\* A workload given by the caller has its own timing
GivenTraceWorkload(call, work) == StartWorkload(call, work)

GivenConcurrencyWorkload(call, work) == StartWorkload(call, work)

Start(call, work) ==
  LET timed == call.mode = "trace"
  IN CASE call.input = "file" /\ timed -> StartTraceFile(call, work)
       [] call.input = "file" -> StartConcurrencyFile(call, work)
       [] call.input = "requests" /\ timed -> GivenTraceRequests(call, work)
       [] call.input = "requests" -> GivenConcurrencyRequests(call, work)
       [] timed -> GivenTraceWorkload(call, work)
       [] OTHER -> GivenConcurrencyWorkload(call, work)

LimitOk(call) == call.mode = "concurrency" => call.limit >= 1

\* validate_offline_replay_args, validate_offline_concurrency_args
OfflineOk(call, a) ==
  LimitOk(call) /\ ValidRouterMode(call.router, call.workers) /\ ValidReplayArgs(a, call.workers)

\* validate_online_replay_args, validate_online_concurrency_args
OnlineOk(call, a) == LimitOk(call) /\ ValidReplayArgs(a, call.workers)

\* validate_offline_disagg_replay_args, validate_offline_disagg_concurrency_args
DisaggOk(call, p, d) == LimitOk(call) /\ ValidDisaggArgs(p, d, call.prefills, call.decodes)

Call(api, mode, input, format, router, workers, prefills, decodes, limit) ==
  [api |-> api, mode |-> mode, input |-> input, format |-> format, router |-> router,
   workers |-> workers, prefills |-> prefills, decodes |-> decodes, limit |-> limit]

----------------------------------------------------------------------------
EntryInit == /\ entryLoaded = [s \in Slots |-> None]
             /\ started = None

\* from_json_file, into the slot the caller means it for
LoadArgs(slot) ==
  /\ started = None
  /\ entryLoaded[slot] = None
  /\ \E json \in Jsons : entryLoaded' = [entryLoaded EXCEPT ![slot] = FromJson(json)]
  /\ UNCHANGED started

Given == {s \in Slots : IsArgs(entryLoaded[s])}

\* Arguments that are not given are the defaults
ArgsOf(slot) == IF IsArgs(entryLoaded[slot]) THEN entryLoaded[slot]
                ELSE FromJson([f \in {} |-> Null])

\* A caller that asks validate_replay_args_mode first, and then simulates
Simulate ==
  /\ started = None
  /\ \E live \in BOOLEAN, mode \in {"trace", "concurrency"}, router \in {"round_robin", "kv"},
        workers, prefills, decodes \in Counts, limit \in Limits :
       LET asked == ArgsMode(Given, workers, prefills, decodes)
           api == IF asked = "disagg" THEN "disagg" ELSE IF live THEN "live" ELSE "offline"
           call(input, format) == Call(api, mode, input, format, router, workers, prefills, decodes, limit)
           any == call("file", "mooncake")
           ok == CASE api = "disagg" -> DisaggOk(any, ArgsOf("prefill"), ArgsOf("decode"))
                   [] api = "live" -> OnlineOk(any, ArgsOf("extra"))
                   [] OTHER -> OfflineOk(any, ArgsOf("extra"))
       IN IF asked = "refused" THEN started' = Refused("mode")
          ELSE IF ~ok THEN started' = Refused("args")
          ELSE \E input \in {"file", "requests", "workload"}, format \in {"mooncake", "agentic"}, work \in Works :
                 started' = Start(call(input, format), work)
  /\ UNCHANGED entryLoaded

\* The report is returned and the next replay asked for
Finish == started # None /\ started' = None /\ entryLoaded' = [s \in Slots |-> None]

EntryNext == (\E s \in Slots : LoadArgs(s)) \/ Simulate \/ Finish

EntrySpec == EntryInit /\ [][EntryNext]_entryVars

Running == "rt" \in DOMAIN started
----------------------------------------------------------------------------
\* Whatever way a replay was asked for, the runtime that starts can run it: the arguments in play
\* have the worker types and the single data-parallel rank it supports and one common block size, every
\* pool has a worker, a router that picks by cache contents has a choice, and a cap admits something
RuntimeFits ==
  Running =>
    LET c == started.call
        used == IF started.rt = "disagg" THEN {"prefill", "decode"} ELSE {"extra"}
    IN /\ \A s \in used : /\ ArgsOf(s).worker_type = IF s = "extra" THEN "aggregated" ELSE s
                          /\ ArgsOf(s).dp_size = 1
                          /\ ArgsOf(s).block_size > 0
                          /\ ArgsOf(s).num_gpu_blocks > 0
       /\ \A s, t \in used : ArgsOf(s).block_size = ArgsOf(t).block_size
       /\ IF started.rt = "disagg" THEN c.prefills > 0 /\ c.decodes > 0 ELSE c.workers > 0
       /\ started.rt = "single" => c.router = "round_robin"
       /\ c.mode = "concurrency" => c.limit > 0

\* Work that reaches an aggregated, single or online runtime has something to run, and in trace mode a
\* time for everything in it, whichever of the file, request and workload entries it came through
WorkRunnable ==
  (Running /\ started.rt # "disagg") =>
    /\ started.work # <<>>
    /\ started.source = "driver" => ~EmptySession(started.work)
    /\ started.call.mode = "trace" => \A i \in DOMAIN started.work : started.work[i].stamped
=============================================================================
