---------------------------- MODULE OfflineReplay ----------------------------
(***************************************************************************)
(* The offline replay of the mocker: the discrete-event loop of              *)
(* replay/offline/agg.rs (one stage of workers) and disagg.rs (prefill, then *)
(* decode), with the admission queue and the WorkloadDriver that feed it, the*)
(* EngineComponent that holds the workers, the OfflineReplayRouter, and the  *)
(* planner that changes the number of workers between two timestamps.        *)
(*                                                                         *)
(* The loop is one thread: at each timestamp it goes round completions,      *)
(* started workers, hand-offs, arrivals and idle workers until nothing       *)
(* changes, then moves the clock to the next arrival or event.  What is not  *)
(* determined here is the engine (which requests emit a token in a pass and  *)
(* how long it takes), the router's selection and the planner.               *)
(***************************************************************************)
EXTENDS Naturals, Sequences, FiniteSets, FiniteSetsExt

CONSTANTS
    Configs,        \* [kind, source, router, threshold, cap, startup, workers]
    Sessions,       \* sequence of [at, delays] : a session has a delay before each turn
    Tokens,         \* Tokens[s][t]: max_output_tokens of a turn
    Durations,      \* how long a pass may take
    Handoffs,       \* handoff_delay_ms; 0 stands for None too
    Targets,        \* worker counts the planner may ask for
    MaxScalings     \* bound: calls of apply_scaling

Requests == UNION {{s} \X DOMAIN Sessions[s].delays : s \in DOMAIN Sessions}

ASSUME ReplayAssumption ==
    /\ DOMAIN Sessions = 1..Len(Sessions) /\ Len(Sessions) \in Nat
    /\ \A s \in DOMAIN Sessions :
        /\ Sessions[s].at \in Nat
        /\ Sessions[s].delays \in Seq(Nat) /\ Len(Sessions[s].delays) > 0
        /\ \A t \in DOMAIN Sessions[s].delays : Tokens[s][t] \in Nat \ {0}
    /\ Durations \subseteq Nat /\ Handoffs \subseteq Nat
    /\ Targets \subseteq Nat \ {0} /\ MaxScalings \in Nat
    /\ \A c \in Configs :
        /\ c.kind \in {"agg", "disagg"} /\ c.source \in {"requests", "workload"}
        /\ c.router \in {"none", "plain", "queue"} /\ c.workers \in Nat \ {0}
        /\ c.startup \in Nat /\ c.cap \in Nat /\ c.threshold \in Nat

VARIABLES
    conf,           \* never changed; cap 0 stands for ReplayMode::Trace
    now, pc, changed,
    ready, turn, flying,    \* WorkloadDriver: ready_sessions, next_turn_index, in_flight
    requests,       \* request |-> its phase, <<stage, "queued" or "running" or "done">>
    marked,         \* AggRequestState.prefill_completed
    eng,            \* EngineComponent of each stage
    rr,             \* next_worker_idx of each stage
    rt,             \* OfflineReplayRouter of each stage
    events,         \* the heap, as a sequence in the order of (at_ms, seq_no)
    work,           \* what is left of the event being handled
    scalings

driverVars == <<ready, turn, flying>>
clockVars  == <<now, pc, changed>>
vars == <<conf, clockVars, driverVars, requests, marked, eng, rr, rt, events, work, scalings>>

Active == IF conf.kind = "agg" THEN {"Aggregated"} ELSE {"Prefill", "Decode"}
\* AdmissionSource::Requests has no later turns.
Turns(s) == IF conf.source = "workload" THEN DOMAIN Sessions[s].delays ELSE {1}
First  == IF conf.kind = "agg" THEN "Aggregated" ELSE "Prefill"

-----------------------------------------------------------------------------
(* EngineComponent                                                            *)

Worker == [busy |-> FALSE, in_flight |-> 0, core |-> <<>>]
NewEngine(n) ==
    [workers |-> [i \in 0..(n - 1) |-> Worker], leaving |-> {}, starting |-> {}, next |-> n]

Drained(w) == w.in_flight = 0 /\ ~w.busy /\ w.core = <<>>
IsReady(w) == ~w.busy /\ w.core # <<>>
ActiveIds(e) == DOMAIN e.workers \ (e.leaving \cup e.starting)

\* try_remove_drained
RemoveDrained(e) ==
    LET gone == {i \in e.leaving : Drained(e.workers[i])}
    IN  [e EXCEPT !.workers = [i \in DOMAIN @ \ gone |-> @[i]], !.leaving = @ \ gone]

\* The n largest members of a set of worker ids.
Largest(S, n) == {i \in S : Cardinality({j \in S : j > i}) < n}

\* apply_target_count: the engine, the workers added and those newly marked.
ApplyTarget(e, target) ==
    LET effective == Cardinality(ActiveIds(e)) + Cardinality(e.starting)
        added     == IF target > effective THEN e.next..(e.next + target - effective - 1) ELSE {}
        excess    == IF target < effective THEN effective - target ELSE 0
        cancelled == Largest(e.starting, excess)
        marked_   == Largest(ActiveIds(e), excess - Cardinality(cancelled))
    IN  [added |-> added, marked |-> marked_,
         e |-> RemoveDrained(
            [workers  |-> [i \in (DOMAIN e.workers \ cancelled) \cup added |->
                              IF i \in added THEN Worker ELSE e.workers[i]],
             leaving  |-> e.leaving \cup marked_,
             starting |-> (e.starting \ cancelled) \cup (IF conf.startup > 0 THEN added ELSE {}),
             next     |-> e.next + Cardinality(added)])]

\* dispatch, to a worker that exists.
Dispatched(e, i, r, n) ==
    [e EXCEPT !.workers[i].in_flight = @ + 1,
              !.workers[i].core = [x \in DOMAIN @ \cup {r} |-> IF x = r THEN n ELSE @[x]]]

\* Mutant: a leaving worker stays when its last pass completes.
CompletedKept(e, i, n) ==
    [e EXCEPT !.workers[i].busy = FALSE, !.workers[i].in_flight = @ - n]

\* Mutant: the end of a pass empties the counter.
CompletedReset(e, i, n) ==
    RemoveDrained([e EXCEPT !.workers[i].busy = FALSE, !.workers[i].in_flight = 0])

\* on_scheduled_completion
Completed(e, i, n) ==
    LET f == e.workers[i].in_flight
        g == [e EXCEPT !.workers[i].busy = FALSE,
                       !.workers[i].in_flight = IF f < n THEN 0 ELSE f - n]
    IN  IF i \in e.leaving THEN RemoveDrained(g) ELSE g

InFlight(e) == MapThenSumSet(LAMBDA i : e.workers[i].in_flight, DOMAIN e.workers)

-----------------------------------------------------------------------------
(* OfflineReplayRouter.  Prompts count one unit until their prefill is over;  *)
(* a prompt whose blocks are all cached counts nothing.                       *)

NewRouter(n) == [known |-> 0..(n - 1), pending |-> {}, slots |-> <<>>, heavy |-> {}]

Load(q, i) == Cardinality({r \in q.heavy : q.slots[r] = i})
AllWorkersBusy(q) == q.known # {} /\ \A i \in q.known : Load(q, i) > conf.threshold

Slotted(q, r, i, h) ==
    [q EXCEPT !.slots = [x \in DOMAIN @ \cup {r} |-> IF x = r THEN i ELSE @[x]],
              !.heavy = IF h THEN @ \cup {r} ELSE @]

Unqueued(q, r) == [q EXCEPT !.pending = @ \ {r}]

\* on_prefill_completed
PrefillCompleted(q, r) == [q EXCEPT !.heavy = @ \ {r}]

Freed(q, r) ==
    [q EXCEPT !.slots = [x \in DOMAIN @ \ {r} |-> @[x]], !.heavy = @ \ {r}]

\* router_track_prefill_tokens is off for the decode stage.
Weights(st) == IF st = "Decode" THEN {FALSE} ELSE BOOLEAN

StageInFlight(st) == InFlight(eng[st]) + Cardinality(rt[st].pending)
ClusterInFlight == MapThenSumSet(StageInFlight, Active)

-----------------------------------------------------------------------------
(* The heap of events and WorkloadDriver::ready_sessions                      *)

\* The entries of xs go behind those of q that are ahead of them.
Inserted(q, xs, ahead) ==
    LET n == Cardinality(ahead)
    IN  SubSeq(q, 1, n) \o xs \o SubSeq(q, n + 1, Len(q))

Pushed(q, x) == Inserted(q, <<x>>, {i \in DOMAIN q : q[i].at <= x.at})

\* The order of ready_sessions
Before(x, y) == x.at < y.at \/ (x.at = y.at /\ x.s < y.s)

Waiting(q, x) == Inserted(q, <<x>>, {i \in DOMAIN q : Before(q[i], x)})

Completion(at, st, i, set) ==
    [at |-> at, kind |-> "completion", st |-> st, worker |-> i, signals |-> set]
Started(at, st, i) == [at |-> at, kind |-> "ready", st |-> st, worker |-> i]
Handoff(at, r)     == [at |-> at, kind |-> "handoff", r |-> r]

Due(kind) == events # <<>> /\ Head(events).at = now /\ Head(events).kind = kind

\* In concurrency mode the sessions do not wait for their time.
FirstTurn(s) == [at |-> IF conf.cap = 0 THEN Sessions[s].at ELSE 0, s |-> s, t |-> 1]

NewStages(stages) ==
    /\ eng = [st \in stages |-> NewEngine(conf.workers)]
    /\ rt = [st \in stages |-> NewRouter(conf.workers)] /\ rr = [st \in stages |-> 0]

\* new_with_source of AggRuntime and of DisaggRuntime
NewAgg    == conf.kind = "agg" /\ NewStages({"Aggregated"})
NewDisagg == conf.kind = "disagg" /\ NewStages({"Prefill", "Decode"})

Init ==
    /\ conf \in Configs
    /\ now = 0 /\ pc = "completions" /\ changed = FALSE
    /\ ready \in [DOMAIN Sessions -> {FirstTurn(s) : s \in DOMAIN Sessions}]
    /\ \A i, j \in DOMAIN ready : i < j => Before(ready[i], ready[j])
    /\ turn = [s \in DOMAIN Sessions |-> 1] /\ flying = {}
    /\ requests = <<>> /\ marked = {}
    /\ NewAgg \/ NewDisagg
    /\ events = <<>> /\ work = <<>> /\ scalings = 0

-----------------------------------------------------------------------------
(* Requests                                                                   *)

SetPhase(r, p) ==
    requests' = [x \in DOMAIN requests \cup {r} |-> IF x = r THEN p ELSE requests[x]]

\* A prefill runs with max_output_tokens = 1.
OutputTokens(st, r) == IF st = "Prefill" THEN 1 ELSE Tokens[r[1]][r[2]]

Dispatch(st, i, r) ==
    /\ eng' = [eng EXCEPT ![st] = Dispatched(@, i, r, OutputTokens(st, r))]
    /\ SetPhase(r, <<st, "running">>)

\* Mutant: an admitted request stays in the queue.
AdmitKept(st, r) ==
    \E i \in rt[st].known \cap DOMAIN eng[st].workers, h \in Weights(st) :
        /\ rt' = [rt EXCEPT ![st] = Slotted(@, r, i, h)]
        /\ Dispatch(st, i, r)

\* admit_request and the dispatch of its admission.
Admit(st, r) ==
    \E i \in rt[st].known \cap DOMAIN eng[st].workers, h \in Weights(st) :
        /\ rt' = [rt EXCEPT ![st] = Slotted(Unqueued(@, r), r, i, h)]
        /\ Dispatch(st, i, r)

\* next_worker, next_prefill_worker, next_decode_worker
RoundRobin(st, r) ==
    LET ids == ActiveIds(eng[st])
        k   == rr[st] % Cardinality(ids)
        i   == CHOOSE x \in ids : Cardinality({y \in ids : y < x}) = k
    IN  /\ ids # {}
        /\ rr' = [rr EXCEPT ![st] = k + 1]
        /\ Dispatch(st, i, r)

OnRequestArrival(st, r) ==
    IF conf.router = "queue" /\ AllWorkersBusy(rt[st])
    THEN /\ rt' = [rt EXCEPT ![st].pending = @ \cup {r}]
         /\ SetPhase(r, <<st, "queued">>)
         /\ UNCHANGED eng
    ELSE Admit(st, r)

\* A request comes to a stage: assign_request, on_external_arrival, enqueue_decode.
Enter(st, r) ==
    \/ conf.router = "none" /\ RoundRobin(st, r) /\ UNCHANGED rt
    \/ conf.router # "none" /\ OnRequestArrival(st, r) /\ UNCHANGED rr

\* The router selects among no workers or one the engine does not have, or the
\* round robin takes a remainder by zero.
NoWorker(st) ==
    IF conf.router = "none" THEN ActiveIds(eng[st]) = {}
    ELSE rt[st].known = {} \/ ~(rt[st].known \subseteq DOMAIN eng[st].workers)

Fail ==
    /\ pc' = "failed"
    /\ UNCHANGED <<conf, now, changed, driverVars, requests, marked, eng, rr, rt, events,
                   work, scalings>>

-----------------------------------------------------------------------------
(* Output signals: process_output_signal, process_prefill_signal,             *)
(* process_decode_signal.                                                     *)

\* Mutant: nobody looks at the queue when a worker has room again.
DrainNever(st) == <<>>

DrainOf(st) == IF conf.router = "none" THEN <<>> ELSE <<[op |-> "drain", st |-> st]>>

\* WorkloadDriver::on_complete
OnComplete(r) ==
    LET s == r[1] t == r[2] IN
    /\ flying' = flying \ {r}
    /\ turn' = [turn EXCEPT ![s] = t + 1]
    /\ ready' = IF t + 1 \in Turns(s)
                THEN Waiting(ready, [at |-> now + Sessions[s].delays[t + 1], s |-> s, t |-> t + 1])
                ELSE ready

\* The request is over at its last stage.
Finish(st, r, rest) ==
    /\ rt' = [rt EXCEPT ![st] = Freed(@, r)]
    /\ OnComplete(r)
    /\ SetPhase(r, <<st, "done">>)
    /\ work' = DrainOf(st) \o rest
    /\ UNCHANGED marked

\* The first token of an aggregated request ends its prefill.
MarkPrefill(st, r, rest) ==
    /\ IF r \in marked
       THEN work' = rest /\ UNCHANGED <<rt, marked>>
       ELSE /\ marked' = marked \cup {r}
            /\ rt' = [rt EXCEPT ![st] = PrefillCompleted(@, r)]
            /\ work' = DrainOf(st) \o rest
    /\ UNCHANGED <<driverVars, requests>>

\* on_prefill_completed and on_request_completed; the second drain admits
\* nobody, for free() changes no load any more.
PrefillDone(r, rest) ==
    /\ rt' = [rt EXCEPT !["Prefill"] = Freed(@, r)]
    /\ work' = DrainOf("Prefill") \o <<[op |-> "handoff", r |-> r]>> \o rest
    /\ UNCHANGED <<driverVars, requests, marked>>

Ignored(rest) == work' = rest /\ UNCHANGED <<driverVars, requests, marked, rt>>

\* No state for the request, at the loop, the router or the driver.
Unknown(st, r, done) ==
    \/ r \notin DOMAIN requests
    \/ requests[r][2] = "done"
    \/ conf.router # "none" /\ r \notin DOMAIN rt[st].slots
    \/ conf.source = "workload" /\ done /\ st # "Prefill" /\ r \notin flying

Signal ==
    /\ work # <<>> /\ Head(work).op = "signals" /\ pc # "failed"
    /\ \E x \in Head(work).set :
        LET st   == Head(work).st
            left == Head(work).set \ {x}
            rest == IF left = {} THEN Tail(work) ELSE <<[Head(work) EXCEPT !.set = left]>> \o Tail(work)
        IN  \/ Unknown(st, x.r, x.done) /\ Fail
            \/ /\ ~Unknown(st, x.r, x.done)
               /\ \/ x.done /\ st # "Prefill" /\ Finish(st, x.r, rest)
                  \/ x.done /\ st = "Prefill" /\ PrefillDone(x.r, rest)
                  \/ ~x.done /\ st = "Aggregated" /\ MarkPrefill(st, x.r, rest)
                  \/ ~x.done /\ st # "Aggregated" /\ Ignored(rest)
               /\ UNCHANGED <<conf, clockVars, eng, rr, events, scalings>>

\* drain_pending: one request after the other, until all workers are busy.
Drain ==
    /\ work # <<>> /\ Head(work).op = "drain" /\ pc # "failed"
    /\ LET st == Head(work).st IN
       IF conf.router = "queue" /\ ~AllWorkersBusy(rt[st]) /\ rt[st].pending # {}
       THEN \/ NoWorker(st) /\ Fail
            \/ /\ \E r \in rt[st].pending : requests[r] = <<st, "queued">> /\ Admit(st, r)
               /\ UNCHANGED <<conf, clockVars, driverVars, marked, rr, events, work, scalings>>
       ELSE /\ work' = Tail(work)
            /\ UNCHANGED <<conf, clockVars, driverVars, requests, marked, eng, rr, rt, events,
                           scalings>>

\* enqueue_decode_after_handoff
HandOver ==
    /\ work # <<>> /\ Head(work).op = "handoff" /\ pc # "failed"
    /\ \E d \in Handoffs :
        LET r == Head(work).r IN
        \/ /\ d > 0
           /\ events' = Pushed(events, Handoff(now + d, r)) /\ work' = Tail(work)
           /\ UNCHANGED <<conf, clockVars, driverVars, requests, marked, eng, rr, rt, scalings>>
        \/ d = 0 /\ NoWorker("Decode") /\ Fail
        \/ /\ d = 0 /\ Enter("Decode", r) /\ work' = Tail(work)
           /\ UNCHANGED <<conf, clockVars, driverVars, marked, events, scalings>>

-----------------------------------------------------------------------------
(* drain_current_timestamp                                                    *)

At(label) == pc = label /\ work = <<>>

Goto(label) ==
    /\ pc' = label
    /\ UNCHANGED <<conf, now, changed, driverVars, requests, marked, eng, rr, rt, events, work,
                   scalings>>

Done(set) == Cardinality({x \in set : x.done})

\* apply_worker_completions
WorkerCompletion ==
    /\ At("completions") /\ Due("completion")
    /\ LET e == Head(events) IN
       IF e.worker \notin DOMAIN eng[e.st].workers THEN Fail
       ELSE /\ eng' = [eng EXCEPT ![e.st] = Completed(@, e.worker, Done(e.signals))]
            /\ work' = <<[op |-> "signals", st |-> e.st, set |-> e.signals]>>
            /\ events' = Tail(events) /\ changed' = TRUE
            /\ UNCHANGED <<conf, now, pc, driverVars, requests, marked, rr, rt, scalings>>

\* Mutant: the router is told of a worker whose start was cancelled.
StartedAnyway(st, i) == i \in eng[st].starting \/ i \notin DOMAIN eng[st].workers

\* mark_worker_ready
MarkReady(st, i) == i \in eng[st].starting /\ i \in DOMAIN eng[st].workers

\* The router hears of a worker that has started, and looks at its queue.
AddReady(st, i) ==
    /\ rt' = [rt EXCEPT ![st].known = @ \cup {i}]
    /\ work' = DrainOf(st) /\ changed' = TRUE

\* apply_worker_ready_events
WorkerReady ==
    /\ At("ready") /\ Due("ready")
    /\ LET st == Head(events).st i == Head(events).worker IN
       /\ eng' = [eng EXCEPT ![st].starting = @ \ {i}]
       /\ IF MarkReady(st, i) THEN AddReady(st, i)
          ELSE UNCHANGED <<rt, work, changed>>
    /\ events' = Tail(events)
    /\ UNCHANGED <<conf, now, pc, driverVars, requests, marked, rr, scalings>>

\* apply_decode_handoffs
DecodeHandoff ==
    /\ At("handoffs") /\ Due("handoff")
    /\ \/ NoWorker("Decode") /\ Fail
       \/ /\ Enter("Decode", Head(events).r)
          /\ events' = Tail(events) /\ changed' = TRUE
          /\ UNCHANGED <<conf, now, pc, driverVars, marked, work, scalings>>

\* Mutant: the cap is taken for the last value allowed.
MayReleaseOneMore ==
    /\ ready # <<>> /\ Head(ready).at <= now
    /\ conf.cap = 0 \/ ClusterInFlight <= conf.cap

\* AdmissionQueue::drain_ready and WorkloadDriver::pop_ready
MayRelease ==
    /\ ready # <<>> /\ Head(ready).at <= now
    /\ conf.cap = 0 \/ ClusterInFlight < conf.cap

\* release_ready_arrivals
Arrive ==
    /\ At("arrivals") /\ MayRelease
    /\ \/ NoWorker(First) /\ Fail
       \/ LET r == <<Head(ready).s, Head(ready).t>> IN
          /\ Enter(First, r)
          /\ ready' = Tail(ready) /\ changed' = TRUE
          /\ flying' = IF conf.source = "workload" THEN flying \cup {r} ELSE flying
          /\ UNCHANGED <<conf, now, pc, turn, marked, events, work, scalings>>

\* A pass of worker i in which the requests of S emit a token.  One of no length
\* is completed on the spot.
Pass(st, i, d, S) ==
    LET w    == eng[st].workers[i]
        set  == {[r |-> r, done |-> w.core[r] = 1] : r \in S}
        over == {r \in S : w.core[r] = 1}
        core == [r \in DOMAIN w.core \ over |-> IF r \in S THEN w.core[r] - 1 ELSE w.core[r]]
        e    == [eng[st] EXCEPT !.workers[i].core = core, !.workers[i].busy = d > 0]
    IN  IF d = 0
        THEN /\ eng' = [eng EXCEPT ![st] = Completed(e, i, Cardinality(over))]
             /\ work' = <<[op |-> "signals", st |-> st, set |-> set]>>
             /\ UNCHANGED events
        ELSE /\ eng' = [eng EXCEPT ![st] = e]
             /\ events' = Pushed(events, Completion(now + d, st, i, set))
             /\ UNCHANGED work

\* drive_ready: the first idle worker with work makes a pass.
Drive(st) ==
    \E i \in DOMAIN eng[st].workers, d \in Durations :
        /\ IsReady(eng[st].workers[i])
        /\ \A j \in DOMAIN eng[st].workers : j < i => ~IsReady(eng[st].workers[j])
        /\ \E S \in (SUBSET DOMAIN eng[st].workers[i].core) \ {{}} : Pass(st, i, d, S)
        /\ changed' = TRUE
        /\ UNCHANGED <<conf, now, pc, driverVars, requests, marked, rr, rt, scalings>>

AllIdle(st) == \A i \in DOMAIN eng[st].workers : ~IsReady(eng[st].workers[i])

DriveFirst  == At("drive") /\ Drive(First)
DriveDecode == At("decode") /\ Drive("Decode")

\* The phases of drain_current_timestamp, of AggRuntime and of DisaggRuntime
AggPhases    == <<"completions", "ready", "arrivals", "drive", "round">>
DisaggPhases == <<"completions", "ready", "handoffs", "arrivals", "drive", "decode", "round">>

After(label) ==
    LET q == IF conf.kind = "agg" THEN AggPhases ELSE DisaggPhases
    IN  q[1 + (CHOOSE i \in DOMAIN q : q[i] = label)]

\* One phase of the round is over, and the next one begins.
NextPhase ==
    \/ At("completions") /\ ~Due("completion") /\ Goto(After("completions"))
    \/ At("ready") /\ ~Due("ready") /\ Goto(After("ready"))
    \/ At("handoffs") /\ ~Due("handoff") /\ Goto(After("handoffs"))
    \/ At("arrivals") /\ ~MayRelease /\ Goto(After("arrivals"))
    \/ At("drive") /\ AllIdle(First) /\ Goto(After("drive"))
    \/ At("decode") /\ AllIdle("Decode") /\ Goto(After("decode"))

\* Mutant: what changed in an earlier round still counts.
NextRoundAgain ==
    /\ At("round")
    /\ pc' = IF changed THEN "completions" ELSE "advance"
    /\ UNCHANGED <<conf, now, changed, driverVars, requests, marked, eng, rr, rt, events, work,
                   scalings>>

NextRound ==
    /\ At("round")
    /\ pc' = (IF changed THEN "completions" ELSE "advance") /\ changed' = FALSE
    /\ UNCHANGED <<conf, now, driverVars, requests, marked, eng, rr, rt, events, work, scalings>>

-----------------------------------------------------------------------------
(* advance_to, run and apply_scaling                                          *)

AdmissionDrained ==
    IF conf.source = "requests" THEN ready = <<>>
    ELSE flying = {} /\ \A s \in DOMAIN Sessions : turn[s] > Len(Sessions[s].delays)

EnginesDrained ==
    \A st \in Active : \A i \in DOMAIN eng[st].workers : Drained(eng[st].workers[i])

IsDone == events = <<>> /\ ClusterInFlight = 0 /\ AdmissionDrained /\ EnginesDrained

\* Mutant: a request between its two stages is forgotten.
IsWorkloadDoneEarly == ClusterInFlight = 0 /\ AdmissionDrained /\ EnginesDrained

OnlyReadyEventsRemain == \A i \in DOMAIN events : events[i].kind = "ready"

\* What advance_to returns to the planner.
IsWorkloadDone ==
    ClusterInFlight = 0 /\ AdmissionDrained /\ EnginesDrained /\ OnlyReadyEventsRemain

EventTimes == {Head(q).at : q \in {events} \ {<<>>}}
NextTimes ==
    EventTimes \cup
    (IF conf.cap = 0 \/ (conf.source = "workload" /\ ClusterInFlight < conf.cap)
     THEN {Head(q).at : q \in {ready} \ {<<>>}} ELSE {})

Advance ==
    /\ At("advance") /\ ~IsDone
    /\ IF NextTimes = {} THEN Fail
       ELSE /\ now' = Min(NextTimes)
            /\ pc' = "completions"
            /\ UNCHANGED <<conf, changed, driverVars, requests, marked, eng, rr, rt, events, work,
                           scalings>>

\* The events of n workers that start, in the order of their ids.
StartEvents(q, st, n) ==
    LET at == now + conf.startup
        xs == [k \in 1..n |-> Started(at, st, eng[st].next + k - 1)]
    IN  IF conf.startup = 0 THEN q
        ELSE Inserted(q, xs, {i \in DOMAIN q : q[i].at <= at})

\* What happens to the events and the queues of the one stage, or of the two.
ScaleAgg(to) ==
    /\ events' = StartEvents(events, "Aggregated", Cardinality(to["Aggregated"].added))
    /\ work' = DrainOf("Aggregated")
ScaleDisagg(to) ==
    /\ events' = StartEvents(StartEvents(events, "Prefill", Cardinality(to["Prefill"].added)),
                             "Decode", Cardinality(to["Decode"].added))
    /\ work' = DrainOf("Prefill") \o DrainOf("Decode")

\* apply_scaling between two calls of advance_to, which drains the current
\* timestamp again.
ApplyScaling ==
    /\ At("advance") /\ scalings < MaxScalings
    /\ \E target \in [Active -> Targets] :
        LET to == [st \in Active |-> ApplyTarget(eng[st], target[st])]
            known(st) == (rt[st].known \cup (IF conf.startup = 0 THEN to[st].added ELSE {}))
                             \ to[st].marked
        IN  /\ eng' = [st \in Active |-> to[st].e]
            /\ rt' = [st \in Active |-> [rt[st] EXCEPT !.known = known(st)]]
            /\ IF conf.kind = "agg" THEN ScaleAgg(to) ELSE ScaleDisagg(to)
    /\ scalings' = scalings + 1 /\ pc' = "completions"
    /\ UNCHANGED <<conf, now, changed, driverVars, requests, marked, rr>>

Stop ==
    /\ At("advance") /\ IsDone
    /\ Goto("done")

Handle == Signal \/ Drain \/ HandOver
Round  == WorkerCompletion \/ WorkerReady \/ DecodeHandoff \/ Arrive \/ DriveFirst \/ DriveDecode
Loop   == Handle \/ Round \/ NextPhase \/ NextRound \/ Advance \/ Stop

Next == Loop \/ ApplyScaling

Spec == Init /\ [][Next]_vars

\* The replay is one loop that nothing else blocks.
FairSpec == Spec /\ WF_vars(Loop)

-----------------------------------------------------------------------------
Phases == {"completions", "ready", "handoffs", "arrivals", "drive", "decode", "round", "advance",
           "done", "failed"}

\* The shape of the replay's state: a worker is never starting and leaving at once,
\* and a prompt counts only for a request that has a slot.
TypeOK ==
    /\ now \in Nat /\ pc \in Phases /\ changed \in BOOLEAN
    /\ flying \subseteq Requests /\ marked \subseteq Requests
    /\ requests \in [DOMAIN requests -> Active \X {"queued", "running", "done"}]
    /\ \A st \in Active :
        /\ eng[st].leaving \cap eng[st].starting = {}
        /\ eng[st].leaving \cup eng[st].starting \subseteq DOMAIN eng[st].workers
        /\ rt[st].heavy \subseteq DOMAIN rt[st].slots
    /\ scalings \in 0..MaxScalings

Finished(r) == requests[r][2] = "done"
Last(r)     == [r |-> r, done |-> TRUE]

\* An event, or what is left of one, has the request in hand.
Holds(e, r) ==
    \/ e.kind = "completion" /\ Last(r) \in e.signals
    \/ e.kind = "handoff" /\ e.r = r
Carries(x, r) ==
    \/ x.op = "signals" /\ Last(r) \in x.set
    \/ x.op = "handoff" /\ x.r = r

\* Where a request is: the core of a worker, the signals of a pass that is still
\* to complete, the queue of a router, a hand-off, or the event being handled.
Places(r) ==
    UNION {
        UNION {{<<"core", st, i>> : i \in {j \in DOMAIN eng[st].workers :
                                              r \in DOMAIN eng[st].workers[j].core}} : st \in Active},
        {<<"pending", st>> : st \in {x \in Active : r \in rt[x].pending}},
        {<<"event", k>> : k \in {j \in DOMAIN events : Holds(events[j], r)}},
        {<<"work", k>> : k \in {j \in DOMAIN work : Carries(work[j], r)}}}

\* The completions of a worker that are to come.
Scheduled(st, i) ==
    {k \in DOMAIN events : /\ events[k].kind = "completion"
                           /\ events[k].st = st /\ events[k].worker = i}

\* in_flight of a worker is what its core holds and what its pass has completed
\* (state.rs:189 asserts that it is never less than core.num_requests()), and a
\* worker is busy exactly while one completion of it is scheduled.
InFlightExact ==
    \A st \in Active : \A i \in DOMAIN eng[st].workers :
        LET w    == eng[st].workers[i]
            held == Cardinality(DOMAIN w.core)
        IN  IF w.busy THEN \E k \in DOMAIN events : /\ Scheduled(st, i) = {k}
                                                    /\ w.in_flight = held + Done(events[k].signals)
            ELSE Scheduled(st, i) = {} /\ w.in_flight = held

\* Through passes, hand-offs, queues, scaling and immediate completions a request
\* that was released is in exactly one place until it is done, and then in none:
\* none is lost between two stages and none runs twice.  And the workers' counts of
\* what is in flight agree with where the requests are.
InOnePlace ==
    /\ \A r \in DOMAIN requests : Cardinality(Places(r)) = IF Finished(r) THEN 0 ELSE 1
    /\ InFlightExact

\* When drain_current_timestamp returns, no worker that drained is still leaving
\* (engine.rs:293) and no idle worker has work.
Settled ==
    At("advance") => \A st \in Active :
        /\ \A i \in eng[st].leaving : ~Drained(eng[st].workers[i])
        /\ AllIdle(st)

\* workers_with_configs of the router is active_worker_ids of the engine, whatever
\* the order of scaling, cancelled starts and WorkerReady events; and before the
\* clock goes on, the engine has let go of who drained and put to work who can.
RouterAgrees ==
    /\ \A st \in Active : conf.router # "none" => rt[st].known = ActiveIds(eng[st])
    /\ Settled

BeingHandedOff(r) == \E p \in Places(r) :
    \/ p[1] = "event" /\ events[p[2]].kind = "handoff"
    \/ p[1] = "work" /\ work[p[2]].op = "handoff"

\* In concurrency mode at most max_in_flight requests wait for or run in the first
\* stage (admission.rs:112-142).  The whole cluster may hold more: cluster_in_flight
\* does not see a request that is being handed off.
CapHeld ==
    conf.cap > 0 =>
        Cardinality({r \in DOMAIN requests : /\ requests[r][1] = First /\ ~Finished(r)
                                             /\ ~BeingHandedOff(r)}) <= conf.cap

\* None of the bails of the loop, the router and the driver is reached, the "dead
\* end" of advance_to included, as long as the planner asks for at least a worker;
\* the cap holds; and is_workload_done answers TRUE to the planner exactly when
\* every turn of the trace is done.
NoError ==
    /\ pc # "failed" /\ CapHeld
    /\ At("advance") =>
         (IsWorkloadDone <=> \A s \in DOMAIN Sessions : \A t \in Turns(s) :
                                 <<s, t>> \in DOMAIN requests /\ Finished(<<s, t>>))

\* run returns: the loop at one timestamp settles, every request completes and the
\* clock reaches the last event.
RunEnds == <>(pc = "done")
=============================================================================
