--------------------------- MODULE ReplayRuntimes ---------------------------
(****************************************************************************)
(* The replays that are not the offline simulation of many workers, in      *)
(* two sections: live, and on a single worker.                              *)
(****************************************************************************)
EXTENDS Integers, Sequences, FiniteSets, SequencesExt

-----------------------------------------------------------------------------
(***************************************************************************)
(* The online replay (lib/mocker/src/replay/online).  A dispatch loop      *)
(* releases requests by their arrival times or up to a cap, one task per   *)
(* request picks a worker and waits for its completion, live engines emit  *)
(* admissions and batches of tokens, and one demultiplexer feeds arrivals, *)
(* admissions and tokens to the collector, tells the KV router about first *)
(* tokens and completions and wakes the tasks.  Requests come from a list  *)
(* (`run`) or from the sessions of a workload driver (`run_workload`),     *)
(* whose next turn is due some time after the previous one completed.      *)
(*                                                                         *)
(* Times are not kept: a turn whose time has come is made due by Elapse.   *)
(* A pass of an engine gives one token to each of its requests.  What can  *)
(* fail is a request's task before it has dispatched (no worker chosen,    *)
(* worker gone), at most MaxFaults times.                                  *)
(***************************************************************************)
CONSTANTS Turns,       \* Turns[s]: the number of turns of session s
          Workers,     \* the engines
          OnlineCap,         \* max_in_flight in concurrency mode
          Tokens,      \* Tokens[r]: the tokens a request is to be given
          MaxFaults,   \* request tasks that may fail
          Confs        \* the kinds of run: records [source, mode, router]

VARIABLES conf, onlinePhase,                       \* the dispatch loop
          onlineTurn, onlineDue, flight, permits, woken, timed, \* the driver, the semaphore, the Notified future, a timer
          task, at, faults,                  \* the request tasks and their workers
          registry, firsts, dones,           \* RequestState
          engine, onlineKept,                      \* requests an engine runs; KV events not yet applied
          arrivals, admissions, outputs,     \* the demultiplexer's channels
          known, onlineAdmitted, given,            \* the collector
          slots, onlineStats                       \* the KV router's bookings; SharedLiveRuntimeStats

loopVars == <<conf, onlinePhase, onlineTurn, onlineDue, flight, permits, woken, timed>>
taskVars == <<task, at, faults, registry>>
demuxVars == <<firsts, dones, known, onlineAdmitted, given>>
chanVars == <<arrivals, admissions, outputs>>
onlineVars == <<loopVars, taskVars, demuxVars, chanVars, engine, onlineKept, slots, onlineStats>>

OnlineRequests == UNION {{s} \X (1..Turns[s]) : s \in DOMAIN Turns}

Workload == conf.source = "workload"
Capped == conf.mode = "concurrency"
Kv == conf.router = "kv"

NoConf == [source |-> "none", mode |-> "none", router |-> "none"]

OnlineInit ==
  /\ conf = NoConf /\ onlinePhase = "new"
  /\ onlineTurn = [s \in DOMAIN Turns |-> 1] /\ onlineDue = {} /\ flight = {} /\ permits = OnlineCap /\ woken = FALSE /\ timed = FALSE
  /\ task = [r \in OnlineRequests |-> "none"] /\ at = [r \in OnlineRequests |-> 0] /\ faults = 0
  /\ registry = {} /\ firsts = {} /\ dones = {}
  /\ engine = [w \in Workers |-> {}] /\ onlineKept = 0
  /\ arrivals = <<>> /\ admissions = <<>> /\ outputs = <<>>
  /\ known = {} /\ onlineAdmitted = {} /\ given = [r \in OnlineRequests |-> 0]
  /\ slots = {} /\ onlineStats = [in_flight |-> 0, max |-> 0, marked |-> 0, freed |-> 0, next |-> 0]

\* LiveRuntime::new: every first turn of a capped workload is due at once
Begin ==
  /\ onlinePhase = "new"
  /\ conf' \in Confs
  /\ onlinePhase' = "loop"
  /\ onlineDue' = IF conf'.mode = "concurrency" \/ conf'.source = "requests" THEN DOMAIN Turns ELSE {}
  /\ UNCHANGED <<onlineTurn, flight, permits, woken, timed, taskVars, demuxVars, chanVars, engine, onlineKept, slots, onlineStats>>

\* Time passes: the next turn of an idle session becomes due
Elapse(s) ==
  /\ onlinePhase \in {"loop", "check", "wait"} /\ Workload
  /\ s \notin onlineDue /\ onlineTurn[s] <= Turns[s] /\ task[<<s, onlineTurn[s]>>] = "none"
  /\ onlineDue' = onlineDue \cup {s}
  /\ UNCHANGED <<conf, onlinePhase, onlineTurn, flight, permits, woken, timed, taskVars, demuxVars, chanVars, engine, onlineKept, slots, onlineStats>>

----------------------------------------------------------------------------
(* The dispatch loop *)

\* record_arrival, then the task of the request is spawned
Spawn(R) ==
  /\ arrivals' = arrivals \o SetToSeq(R)
  /\ task' = [r \in OnlineRequests |-> IF r \in R THEN "select" ELSE task[r]]

\* run: the next request of the list, when its time has come or a permit is free
ReleaseRequest ==
  /\ onlinePhase = "loop" /\ ~Workload
  /\ \E r \in OnlineRequests :
       /\ task[r] = "none"
       /\ \A q \in OnlineRequests : q[1] < r[1] \/ (q[1] = r[1] /\ q[2] < r[2]) => task[q] # "none"
       /\ Capped => permits > 0
       /\ permits' = IF Capped THEN permits - 1 ELSE permits
       /\ Spawn({r})
  /\ UNCHANGED <<conf, onlinePhase, onlineTurn, onlineDue, flight, woken, timed, at, faults, registry, demuxVars, admissions, outputs,
                 engine, onlineKept, slots, onlineStats>>

\* All of the list is released
Released ==
  /\ onlinePhase = "loop" /\ ~Workload
  /\ \A r \in OnlineRequests : task[r] # "none"
  /\ onlinePhase' = "join"
  /\ UNCHANGED <<conf, onlineTurn, onlineDue, flight, permits, woken, timed, taskVars, demuxVars, chanVars, engine, onlineKept, slots, onlineStats>>

\* pop_ready: due turns, no more than the cap leaves room for, earliest session first
Ready == {<<s, onlineTurn[s]>> : s \in {s \in onlineDue : onlineTurn[s] <= Turns[s]}}

\* Mutant of Room: the cap is looked at only when something is ready, not counted against
RoomOne == IF Capped THEN OnlineCap ELSE Cardinality(Ready)

Room == IF Capped THEN OnlineCap - Cardinality(flight) ELSE Cardinality(Ready)

OnlinePopReady == {r \in Ready : Cardinality({q \in Ready : q[1] < r[1]}) < Room}

ReleaseTurns ==
  /\ onlinePhase = "loop" /\ Workload
  /\ OnlinePopReady # {}
  /\ flight' = flight \cup OnlinePopReady
  /\ onlineDue' = onlineDue \ {r[1] : r \in OnlinePopReady}
  /\ Spawn(OnlinePopReady)
  /\ UNCHANGED <<conf, onlinePhase, onlineTurn, permits, woken, timed, at, faults, registry, demuxVars, admissions, outputs,
                 engine, onlineKept, slots, onlineStats>>

OnlineIsDrained == flight = {} /\ \A s \in DOMAIN Turns : onlineTurn[s] > Turns[s]

\* next_ready_time_ms: with room under the cap, some session has a turn to come
NextReady == (Capped => Cardinality(flight) < OnlineCap)
             /\ \E s \in DOMAIN Turns : onlineTurn[s] <= Turns[s] /\ task[<<s, onlineTurn[s]>>] = "none"

\* Nothing is ready: the Notified future is made
Idle ==
  /\ onlinePhase = "loop" /\ Workload
  /\ OnlinePopReady = {}
  /\ onlinePhase' = "check"
  /\ woken' = FALSE
  /\ UNCHANGED <<conf, onlineTurn, onlineDue, flight, permits, timed, taskVars, demuxVars, chanVars, engine, onlineKept, slots, onlineStats>>

\* Only then is the driver looked at again
Check ==
  /\ onlinePhase = "check"
  /\ onlinePhase' = IF OnlineIsDrained THEN "join" ELSE "wait"
  /\ timed' = NextReady
  /\ UNCHANGED <<conf, onlineTurn, onlineDue, flight, permits, woken, taskVars, demuxVars, chanVars, engine, onlineKept, slots, onlineStats>>

\* wait_for_workload_progress: woken, or the time of the next ready turn has come
Progress ==
  /\ onlinePhase = "wait"
  /\ woken \/ (timed /\ OnlinePopReady # {})
  /\ onlinePhase' = "loop"
  /\ UNCHANGED <<conf, onlineTurn, onlineDue, flight, permits, woken, timed, taskVars, demuxVars, chanVars, engine, onlineKept, slots, onlineStats>>

----------------------------------------------------------------------------
(* The request tasks *)

\* The round robin takes turns; the KV router weighs overlaps and loads, so any worker may be the best
Chosen(w) == IF Kv THEN w \in Workers ELSE w = onlineStats.next % Cardinality(Workers)

\* Mutant of Dispatch: the engine has the request before its state is registered
DispatchFirst(r) ==
  /\ task[r] = "select"
  /\ \E w \in Workers :
       /\ Chosen(w)
       /\ at' = [at EXCEPT ![r] = w]
       /\ engine' = [engine EXCEPT ![w] = @ \cup {<<r, Tokens[r]>>}]
  /\ onlineStats' = [onlineStats EXCEPT !.next = IF Kv THEN @ ELSE @ + 1]
  /\ slots' = IF Kv THEN slots \cup {r} ELSE slots
  /\ task' = [task EXCEPT ![r] = "sent"]
  /\ UNCHANGED <<loopVars, faults, registry, demuxVars, chanVars, onlineKept>>

\* select_worker, the registration, and the send: RequestState is there before the engine has the request
Dispatch(r) ==
  /\ task[r] = "select"
  /\ \E w \in Workers :
       /\ Chosen(w)
       /\ at' = [at EXCEPT ![r] = w]
       /\ engine' = [engine EXCEPT ![w] = @ \cup {<<r, Tokens[r]>>}]
  /\ onlineStats' = [onlineStats EXCEPT !.next = IF Kv THEN @ ELSE @ + 1]
  /\ slots' = IF Kv THEN slots \cup {r} ELSE slots
  /\ registry' = registry \cup {r}
  /\ task' = [task EXCEPT ![r] = "sent"]
  /\ UNCHANGED <<loopVars, faults, demuxVars, chanVars, onlineKept>>

\* record_dispatch
Count(r) ==
  /\ task[r] = "sent"
  /\ registry' = registry \cup {r}
  /\ onlineStats' = [onlineStats EXCEPT !.in_flight = @ + 1, !.max = Max({@, onlineStats.in_flight + 1})]
  /\ task' = [task EXCEPT ![r] = "await"]
  /\ UNCHANGED <<loopVars, at, faults, demuxVars, chanVars, engine, onlineKept, slots>>

\* The session's next turn waits for its delay; the loop is woken
Completed(r) ==
  /\ flight' = flight \ {r}
  /\ onlineTurn' = [onlineTurn EXCEPT ![r[1]] = r[2] + 1]
  /\ woken' = TRUE

\* Mutant of ReleaseCapSlot: the slot is freed, the session is left where it was
FreeSlotOnly(r) ==
  /\ flight' = flight \ {r}
  /\ woken' = TRUE
  /\ UNCHANGED onlineTurn

\* The guard of a capped task that failed: its slot is freed and its session ends
ReleaseCapSlot(r) ==
  /\ flight' = flight \ {r}
  /\ onlineTurn' = [onlineTurn EXCEPT ![r[1]] = Turns[r[1]] + 1]
  /\ woken' = TRUE

\* wait_for_completion returned
Complete(r) ==
  /\ task[r] = "await" /\ r \in dones
  /\ onlineStats' = [onlineStats EXCEPT !.in_flight = @ - 1]
  /\ registry' = registry \ {r}
  /\ task' = [task EXCEPT ![r] = "done"]
  /\ IF Workload THEN Completed(r) ELSE UNCHANGED <<flight, onlineTurn, woken>>
  /\ permits' = IF Capped /\ ~Workload THEN permits + 1 ELSE permits
  /\ UNCHANGED <<conf, onlinePhase, onlineDue, timed, at, faults, demuxVars, chanVars, engine, onlineKept, slots>>

\* No worker could be chosen, or the chosen one is gone: only a capped workload has a guard
Fail(r) ==
  /\ task[r] = "select" /\ faults < MaxFaults
  /\ faults' = faults + 1
  /\ task' = [task EXCEPT ![r] = "failed"]
  /\ IF Workload /\ Capped THEN ReleaseCapSlot(r) ELSE UNCHANGED <<flight, onlineTurn, woken>>
  /\ permits' = IF Capped /\ ~Workload THEN permits + 1 ELSE permits
  /\ UNCHANGED <<conf, onlinePhase, onlineDue, timed, at, registry, demuxVars, chanVars, engine, onlineKept, slots, onlineStats>>

----------------------------------------------------------------------------
(* The engines, seen from outside: a pass admits what is new and gives each of its requests a token *)

Pass(w) ==
  /\ engine[w] # {}
  /\ onlinePhase \in {"loop", "check", "wait", "join"}
  /\ LET new == {x[1] : x \in {x \in engine[w] : x[2] = Tokens[x[1]]}}
         batch == {[r |-> x[1], done |-> x[2] = 1] : x \in engine[w]}
     IN /\ admissions' = admissions \o SetToSeq(new)
        /\ outputs' = Append(outputs, batch)
        /\ onlineKept' = IF Kv THEN onlineKept + 1 ELSE onlineKept
  /\ engine' = [engine EXCEPT ![w] = {<<x[1], x[2] - 1>> : x \in {x \in @ : x[2] > 1}}]
  /\ UNCHANGED <<loopVars, taskVars, demuxVars, arrivals, slots, onlineStats>>

\* The router's event task
ApplyEvent ==
  /\ onlineKept > 0
  /\ onlineKept' = onlineKept - 1
  /\ UNCHANGED <<loopVars, taskVars, demuxVars, chanVars, engine, slots, onlineStats>>

----------------------------------------------------------------------------
(* The demultiplexer: arrivals before admissions before outputs *)

Arrival ==
  /\ onlinePhase # "ended" /\ arrivals # <<>>
  /\ known' = known \cup {Head(arrivals)}
  /\ arrivals' = Tail(arrivals)
  /\ UNCHANGED <<loopVars, taskVars, firsts, dones, onlineAdmitted, given, admissions, outputs, engine, onlineKept, slots, onlineStats>>

\* Mutant of NoArrival: the branches are polled in any order
AnyOrder == TRUE

\* The biased select
NoArrival == arrivals = <<>>

Admission ==
  /\ onlinePhase # "ended" /\ NoArrival /\ admissions # <<>>
  /\ onlineAdmitted' = onlineAdmitted \cup ({Head(admissions)} \cap known)
  /\ admissions' = Tail(admissions)
  /\ UNCHANGED <<loopVars, taskVars, firsts, dones, known, given, arrivals, outputs, engine, onlineKept, slots, onlineStats>>

\* process_output_signal for each of the batch: a first token is marked once, a completion freed once
Output ==
  /\ onlinePhase # "ended" /\ NoArrival /\ admissions = <<>> /\ outputs # <<>>
  /\ LET batch == Head(outputs)
         all == {x.r : x \in batch}
         here == all \cap registry
         new == here \ firsts
         ended == {x.r : x \in {x \in batch : x.done /\ x.r \in registry}} \ dones
     IN /\ given' = [r \in OnlineRequests |-> IF r \in all \cap known THEN given[r] + 1 ELSE given[r]]
        /\ firsts' = firsts \cup new
        /\ dones' = dones \cup ended
        /\ slots' = slots \ ended
        /\ onlineStats' = IF Kv THEN [onlineStats EXCEPT !.marked = @ + Cardinality(new), !.freed = @ + Cardinality(ended)]
                          ELSE onlineStats
  /\ outputs' = Tail(outputs)
  /\ UNCHANGED <<loopVars, taskVars, known, onlineAdmitted, arrivals, admissions, engine, onlineKept>>

----------------------------------------------------------------------------
(* The end *)

AllTasksEnded == \A r \in OnlineRequests : task[r] \in {"none", "done", "failed"}

\* join_next: the first failed task ends the run with its error; the others are aborted
JoinFailed ==
  /\ onlinePhase = "join"
  /\ \E r \in OnlineRequests : task[r] = "failed"
  /\ onlinePhase' = "ended"
  /\ UNCHANGED <<conf, onlineTurn, onlineDue, flight, permits, woken, timed, taskVars, demuxVars, chanVars, engine, onlineKept, slots, onlineStats>>

\* Every task is joined: the engines are cancelled and the channels close behind what is in them
Joined ==
  /\ onlinePhase = "join"
  /\ AllTasksEnded /\ \A r \in OnlineRequests : task[r] # "failed"
  /\ onlinePhase' = "drain"
  /\ engine' = [w \in Workers |-> {}]
  /\ UNCHANGED <<conf, onlineTurn, onlineDue, flight, permits, woken, timed, taskVars, demuxVars, chanVars, onlineKept, slots, onlineStats>>

\* KvReplayRouter::shutdown waits for the event task, which ends with its last event
EventTaskEnded == onlineKept = 0

\* The demultiplexer returns the report, then the router's event task has applied all it was sent
Report ==
  /\ onlinePhase = "drain"
  /\ arrivals = <<>> /\ admissions = <<>> /\ outputs = <<>>
  /\ EventTaskEnded
  /\ onlinePhase' = "ended"
  /\ UNCHANGED <<conf, onlineTurn, onlineDue, flight, permits, woken, timed, taskVars, demuxVars, chanVars, engine, onlineKept, slots, onlineStats>>

Loop == Begin \/ ReleaseRequest \/ Released \/ ReleaseTurns \/ Idle \/ Check \/ Progress \/ JoinFailed \/ Joined \/ Report
Task(r) == Dispatch(r) \/ Count(r) \/ Complete(r)
Demux == Arrival \/ Admission \/ Output

Others == \/ Demux \/ ApplyEvent
          \/ \E s \in DOMAIN Turns : Elapse(s)
          \/ \E r \in OnlineRequests : Task(r)
          \/ \E w \in Workers : Pass(w)

OnlineNext == Loop \/ Others \/ (\E r \in OnlineRequests : Fail(r))

\* The loop and the other tasks of the multi-threaded runtime, which take finitely many steps, are
\* scheduled, and time passes
OnlineFairness == WF_onlineVars(Loop) /\ WF_onlineVars(Others)

OnlineSpec == OnlineInit /\ [][OnlineNext]_onlineVars /\ OnlineFairness
----------------------------------------------------------------------------
\* A cap holds at every moment for the requests the statistics count and for those the driver
\* or the semaphore has let out, and each permit is back once no task holds it
CapHolds ==
  Capped => /\ onlineStats.in_flight <= OnlineCap /\ onlineStats.max <= OnlineCap
            /\ Cardinality({r \in OnlineRequests : task[r] \in {"select", "sent", "await"}}) <= OnlineCap
            /\ ~Workload => permits = OnlineCap - Cardinality({r \in OnlineRequests : task[r] \in {"select", "sent", "await"}})

\* The report leaves nothing out: in a run without a failed task every request was seen to arrive, be
\* admitted and get all its tokens, and the KV router was told of each first token and completion once
ReportWhole ==
  (onlinePhase = "ended" /\ faults = 0) =>
    /\ known = OnlineRequests /\ onlineAdmitted = OnlineRequests
    /\ \A r \in OnlineRequests : given[r] = Tokens[r]
    /\ slots = {} /\ registry = {} /\ onlineStats.in_flight = 0
    /\ Kv => onlineStats.marked = Cardinality(OnlineRequests) /\ onlineStats.freed = Cardinality(OnlineRequests)

\* The run ends, with its report or with the error of a failed task, unless a request of a workload in
\* trace mode failed
Returned == onlinePhase = "ended" \/ (Workload /\ ~Capped /\ faults > 0)
RunReturns == <>Returned

-----------------------------------------------------------------------------
(***************************************************************************)
(* The offline replay of one engine without a router (lib/mocker/src/      *)
(* replay/offline/single.rs), the loop that records a worker's artifacts   *)
(* (offline/entrypoints.rs) and the collector that turns what happened     *)
(* into a report (replay/collector.rs).  The clock is virtual: it moves to *)
(* the end of each engine pass, or to the next arrival when the engine has *)
(* nothing to do.                                                          *)
(*                                                                         *)
(* Times are integers.  The engine is its interface: a pass takes some     *)
(* time, admits requests in their order while there are seats, gives a     *)
(* token to some of the running ones and may put one of them back into the *)
(* queue (VllmScheduler has the rest).  Every pass achieves something.     *)
(***************************************************************************)
CONSTANTS Sessions,    \* Sessions[s]: [first |-> time, turns |-> sequence of [out, delay]]
          Modes,       \* subset of {"trace", "concurrency", "artifacts"}
          Sources,     \* subset of {"requests", "workload"}
          SingleCap,         \* max_in_flight in concurrency mode
          Seats,       \* max_num_seqs of the engine
          PassTimes,   \* what a pass may take
          MaxPreempts  \* requests the engine may put back

VARIABLES mode, source, singlePhase,  \* the run: "new", "loop", "done", "error"
          now,                  \* current_time_ms
          pending,              \* AdmissionSource::Requests
          singleTurn, ready, flying,  \* AdmissionSource::Workload: next_turn_index, next_ready_at_ms, in_flight
          waiting, running,     \* the engine: its queue, its running requests
          preempts,
          singleStats,                \* TraceCollector.requests
          artifacts,            \* ReplayWorkerArtifacts
          progress,             \* completions the progress bar was told of
          report

runVars == <<mode, source, singlePhase>>
driverVars == <<singleTurn, ready, flying>>
engineVars == <<waiting, running, preempts>>
singleVars == <<runVars, now, pending, driverVars, engineVars, singleStats, artifacts, progress, report>>

None == -1
SingleRequests == UNION {{s} \X (1..Len(Sessions[s].turns)) : s \in DOMAIN Sessions}
TurnOf(r) == Sessions[r[1]].turns[r[2]]

NoReport == [num |-> 0, completed |-> 0, outputs |-> 0, duration |-> 0, ttft |-> <<>>, itl |-> <<>>, e2e |-> <<>>]

SingleInit ==
  /\ mode = "none" /\ source = "none" /\ singlePhase = "new" /\ now = 0 /\ pending = <<>>
  /\ singleTurn = [s \in DOMAIN Sessions |-> 1] /\ ready = [s \in DOMAIN Sessions |-> None] /\ flying = {}
  /\ waiting = <<>> /\ running = {} /\ preempts = 0
  /\ singleStats = <<>> /\ artifacts = [requests |-> <<>>, outputs |-> <<>>, kv |-> <<>>]
  /\ progress = 0 /\ report = NoReport

\* new_with_source, WorkloadDriver::new.  A request list holds one request per
\* session, in the order of arrival that normalize_trace_requests gave it
NewWithSource(m, src) ==
  /\ singlePhase = "new" /\ singlePhase' = "loop" /\ mode' = m /\ source' = src
  /\ ~(m = "artifacts" /\ src = "requests")
  /\ pending' = IF src = "workload" THEN <<>>
                ELSE LET Earlier(a, b) == \/ Sessions[a[1]].first < Sessions[b[1]].first
                                          \/ Sessions[a[1]].first = Sessions[b[1]].first /\ a[1] < b[1]
                     IN  SetToSortSeq({<<s, 1>> : s \in DOMAIN Sessions}, Earlier)
  /\ ready' = [s \in DOMAIN Sessions |-> IF src = "requests" THEN None
                                         ELSE IF m = "concurrency" THEN 0 ELSE Sessions[s].first]
  /\ UNCHANGED <<now, singleTurn, flying, engineVars, singleStats, artifacts, progress, report>>

\* pop_ready: the sessions that are due, the earliest first, at most limit of them
SinglePopReady(rd, t, limit) ==
  LET due == {s \in DOMAIN rd : rd[s] # None /\ rd[s] <= t}
      Earlier(a, b) == rd[a] < rd[b] \/ (rd[a] = rd[b] /\ a < b)
      order == SetToSortSeq(due, Earlier)
  IN  SubSeq(order, 1, IF Len(order) < limit THEN Len(order) ELSE limit)

InEngine == Len(waiting) + Cardinality(running)

\* what enqueue_trace_arrivals takes at time t: entries <<request, arrival time>>
DueAt(rd, t) ==
  IF source = "requests"
  THEN LET n == CHOOSE k \in 0..Len(pending) :
                  /\ \A i \in 1..k : Sessions[pending[i][1]].first <= t
                  /\ k = Len(pending) \/ Sessions[pending[k + 1][1]].first > t
       IN  [i \in 1..n |-> <<pending[i], Sessions[pending[i][1]].first>>]
  ELSE LET ss == SinglePopReady(rd, t, Cardinality(DOMAIN rd))
       IN  [i \in DOMAIN ss |-> <<<<ss[i], singleTurn[ss[i]]>>, rd[ss[i]]>>]

\* Mutant of RoomNow: takes the cap itself, not what it leaves
RoomWhole ==
  LET rs == IF source = "requests"
            THEN SubSeq(pending, 1, IF Len(pending) < SingleCap THEN Len(pending) ELSE SingleCap)
            ELSE [i \in DOMAIN SinglePopReady(ready, now, SingleCap) |->
                    LET s == SinglePopReady(ready, now, SingleCap)[i] IN <<s, singleTurn[s]>>]
  IN  [i \in DOMAIN rs |-> <<rs[i], now>>]

\* what enqueue_concurrency_arrivals takes: the seats the cap leaves, stamped with the present
RoomNow ==
  LET available == IF SingleCap > InEngine THEN SingleCap - InEngine ELSE 0
      rs == IF source = "requests"
            THEN SubSeq(pending, 1, IF Len(pending) < available THEN Len(pending) ELSE available)
            ELSE [i \in DOMAIN SinglePopReady(ready, now, available) |->
                    LET s == SinglePopReady(ready, now, available)[i] IN <<s, singleTurn[s]>>]
  IN  [i \in DOMAIN rs |-> <<rs[i], now>>]

\* TraceCollector::on_arrival
OnArrival(st, entries) ==
  LET of(r) == CHOOSE i \in DOMAIN entries : entries[i][1] = r
      new == {entries[i][1] : i \in DOMAIN entries}
  IN  [r \in DOMAIN st \cup new |->
         IF r \in new THEN [arrival |-> entries[of(r)][2], admit |-> None, times |-> <<>>] ELSE st[r]]

\* record_arrival for each entry, with rd the ready times before and q the engine's queue
RecordArrivals(entries, rd, q, st, fl) ==
  LET rs == [i \in DOMAIN entries |-> entries[i][1]]
      taken == {rs[i] : i \in DOMAIN rs}
  IN  /\ waiting' = q \o rs
      /\ singleStats' = OnArrival(st, entries)
      /\ pending' = IF source = "requests" THEN SubSeq(pending, Len(entries) + 1, Len(pending)) ELSE pending
      /\ flying' = IF source = "requests" THEN fl ELSE fl \cup taken
      /\ ready' = [s \in DOMAIN rd |-> IF source = "workload" /\ \E r \in taken : r[1] = s THEN None ELSE rd[s]]

SingleIsDrained == flying = {} /\ \A s \in DOMAIN Sessions : singleTurn[s] > Len(Sessions[s].turns)

IsDone == InEngine = 0 /\ (IF source = "requests" THEN pending = <<>> ELSE SingleIsDrained)

\* front().arrival_timestamp_ms, next_ready_time_ms
NextArrival ==
  IF source = "requests" THEN IF pending = <<>> THEN None ELSE Sessions[pending[1][1]].first
  ELSE LET times == {ready[s] : s \in DOMAIN ready} \ {None}
       IN  IF times = {} THEN None ELSE CHOOSE t \in times : \A u \in times : t <= u

\* run, Trace: an idle engine lets the clock jump to the next arrival, and an
\* idle engine with no arrival left is an error
AdvanceToNextTraceArrival ==
  /\ singlePhase = "loop" /\ mode = "trace" /\ ~IsDone /\ InEngine = 0 /\ DueAt(ready, now) = <<>>
  /\ IF NextArrival = None
     THEN singlePhase' = "error" /\ UNCHANGED <<now, pending, driverVars, waiting, singleStats>>
     ELSE /\ now' = NextArrival /\ singlePhase' = singlePhase
          /\ RecordArrivals(DueAt(ready, NextArrival), ready, waiting, singleStats, flying) /\ UNCHANGED singleTurn
  /\ UNCHANGED <<mode, source, running, preempts, artifacts, progress, report>>

\* enqueue_trace_arrivals, when something is due
EnqueueTraceArrivals ==
  /\ singlePhase = "loop" /\ mode = "trace" /\ DueAt(ready, now) # <<>>
  /\ RecordArrivals(DueAt(ready, now), ready, waiting, singleStats, flying)
  /\ UNCHANGED <<runVars, now, singleTurn, running, preempts, artifacts, progress, report>>

\* run, Concurrency: fill the room, and let the clock jump only when the engine is still idle
EnqueueConcurrencyArrivals ==
  /\ singlePhase = "loop" /\ mode = "concurrency" /\ ~IsDone
  /\ IF RoomNow # <<>>
     THEN RecordArrivals(RoomNow, ready, waiting, singleStats, flying) /\ UNCHANGED <<now, singlePhase, singleTurn>>
     ELSE /\ InEngine = 0
          /\ IF NextArrival = None THEN singlePhase' = "error" /\ now' = now ELSE now' = NextArrival /\ singlePhase' = singlePhase
          /\ UNCHANGED <<pending, driverVars, waiting, singleStats>>
  /\ UNCHANGED <<mode, source, running, preempts, artifacts, progress, report>>

\* the loop of generate_trace_worker_artifacts, before a pass
EnqueueForArtifacts ==
  LET due == DueAt(ready, now)
  IN  /\ singlePhase = "loop" /\ mode = "artifacts" /\ ~IsDone
      /\ IF due # <<>>
         THEN /\ RecordArrivals(due, ready, waiting, singleStats, flying) /\ now' = now /\ singlePhase' = singlePhase /\ singleTurn' = singleTurn
              /\ artifacts' = [artifacts EXCEPT !.requests = @ \o [i \in DOMAIN due |->
                                 [request |-> due[i][1], at |-> now, scheduled |-> due[i][2]]]]
         ELSE /\ InEngine = 0
              /\ IF NextArrival = None THEN singlePhase' = "done" /\ now' = now ELSE now' = NextArrival /\ singlePhase' = singlePhase
              /\ UNCHANGED <<pending, driverVars, waiting, singleStats, artifacts>>
      /\ UNCHANGED <<mode, source, running, preempts, progress, report>>

\* on_admit: the first admission counts, a request put back is admitted again
OnAdmit(st, rs, t) == [r \in DOMAIN st |-> IF r \in rs /\ st[r].admit = None THEN [st[r] EXCEPT !.admit = t] ELSE st[r]]

OnToken(st, rs, t) == [r \in DOMAIN st |-> IF r \in rs THEN [st[r] EXCEPT !.times = Append(@, t)] ELSE st[r]]

\* Mutant of OnComplete: the delay runs from time 0
OnCompleteEarly(rd, done, t) ==
  [s \in DOMAIN rd |->
     IF \E r \in done : r[1] = s /\ r[2] < Len(Sessions[s].turns)
     THEN Sessions[s].turns[(CHOOSE r \in done : r[1] = s)[2] + 1].delay ELSE rd[s]]

\* on_complete: the next turn is due its delay after now
OnComplete(rd, done, t) ==
  [s \in DOMAIN rd |->
     IF \E r \in done : r[1] = s /\ r[2] < Len(Sessions[s].turns)
     THEN t + Sessions[s].turns[(CHOOSE r \in done : r[1] = s)[2] + 1].delay ELSE rd[s]]

\* drive_worker, and the pass of the artifacts loop: execute_pass, the clock,
\* the driver's completions, the progress, and in trace mode the arrivals that
\* became due during the pass
DriveWorker ==
  /\ singlePhase = "loop" /\ InEngine > 0
  /\ mode = "concurrency" => RoomNow = <<>>
  /\ mode # "concurrency" => DueAt(ready, now) = <<>>
  /\ \E d \in PassTimes, seated \in 0..Len(waiting), back \in SUBSET running :
       /\ Cardinality(back) <= 1 /\ preempts + Cardinality(back) <= MaxPreempts
       /\ back # {} => seated = 0
       /\ Cardinality(running) + seated <= Seats
       /\ LET admitted == {waiting[i] : i \in 1..seated}
              kept == (running \ back) \cup admitted
              end == now + d
          IN  \E tokens \in SUBSET kept :
                /\ tokens # {} \/ admitted # {}
                /\ LET done == {r \in tokens : Len(singleStats[r].times) + 1 >= TurnOf(r).out}
                       rd == IF source = "workload" THEN OnComplete(ready, done, end) ELSE ready
                       q == SetToSeq(back) \o SubSeq(waiting, seated + 1, Len(waiting))
                       st == OnToken(OnAdmit(singleStats, admitted, now), tokens, end)
                       turn2 == [s \in DOMAIN singleTurn |-> IF source = "workload" /\ \E r \in done : r[1] = s THEN singleTurn[s] + 1 ELSE singleTurn[s]]
                       late == IF source = "requests" THEN DueAt(rd, end)
                               ELSE LET ss == SinglePopReady(rd, end, Cardinality(DOMAIN rd))
                                    IN  [i \in DOMAIN ss |-> <<<<ss[i], turn2[ss[i]]>>, rd[ss[i]]>>]
                   IN  /\ running' = kept \ done
                       /\ preempts' = preempts + Cardinality(back)
                       /\ now' = end /\ singleTurn' = turn2
                       /\ progress' = progress + Cardinality(done)
                       /\ IF mode = "trace" THEN RecordArrivals(late, rd, q, st, flying \ done)
                          ELSE RecordArrivals(<<>>, rd, q, st, flying \ done)
                       /\ artifacts' = IF mode # "artifacts" THEN artifacts
                                       ELSE [artifacts EXCEPT
                                               !.kv = IF admitted = {} THEN @ ELSE Append(@, now),
                                               !.outputs = @ \o SetToSeq({[request |-> r, at |-> end, last |-> r \in done] : r \in tokens})]
  /\ UNCHANGED <<runVars, report>>

\* percentile_in_place over percentile_rank, on n values with p in percent
Percentile(values, p) ==
  LET n == Len(values) IN SortSeq(values, <=)[1 + (2 * (n - 1) * p + 100) \div 200]

\* build_distribution_stats, with the sum instead of the mean
Distribution(values) ==
  IF values = <<>> THEN [n |-> 0, sum |-> 0, min |-> 0, median |-> 0, p75 |-> 0, p90 |-> 0, p99 |-> 0, max |-> 0]
  ELSE [n |-> Len(values), sum |-> FoldSeq(LAMBDA v, acc : v + acc, 0, values),
        min |-> Percentile(values, 0), median |-> Percentile(values, 50), p75 |-> Percentile(values, 75),
        p90 |-> Percentile(values, 90), p99 |-> Percentile(values, 99), max |-> Percentile(values, 100)]

\* itls_ms, ttst_ms and mean_tpot_ms are read off these gaps
Itls(st) == [i \in 1..(Len(st.times) - 1) |-> st.times[i + 1] - st.times[i]]

\* finish: only requests that were admitted and have tokens count
FinishReport ==
  LET counted == {r \in DOMAIN singleStats : singleStats[r].admit # None /\ singleStats[r].times # <<>>}
      rs == SetToSeq(counted)
      last(r) == singleStats[r].times[Len(singleStats[r].times)]
      lasts == {0} \cup {last(r) : r \in counted}
  IN  [num |-> Cardinality(DOMAIN singleStats), completed |-> Cardinality(counted),
       outputs |-> FoldSeq(LAMBDA r, acc : TurnOf(r).out + acc, 0, rs),
       duration |-> CHOOSE t \in lasts : \A u \in lasts : u <= t,
       ttft |-> [i \in DOMAIN rs |-> singleStats[rs[i]].times[1] - singleStats[rs[i]].arrival],
       itl |-> FlattenSeq([i \in DOMAIN rs |-> Itls(singleStats[rs[i]])]),
       e2e |-> [i \in DOMAIN rs |-> last(rs[i]) - singleStats[rs[i]].arrival]]

\* the loop ends, progress.finish, TraceCollector::finish
Finish ==
  /\ singlePhase = "loop" /\ IsDone /\ singlePhase' = "done" /\ report' = FinishReport
  /\ UNCHANGED <<mode, source, now, pending, driverVars, engineVars, singleStats, artifacts, progress>>

SingleNext ==
  \/ \E m \in Modes, src \in Sources : NewWithSource(m, src)
  \/ AdvanceToNextTraceArrival \/ EnqueueTraceArrivals \/ EnqueueConcurrencyArrivals \/ EnqueueForArtifacts
  \/ DriveWorker \/ Finish

SingleSpec == SingleInit /\ [][SingleNext]_singleVars

---------------------------------------------------------------------------
Ordered(s) == \A i \in 1..(Len(s) - 1) : s[i] <= s[i + 1]

\* A request is admitted no earlier than it arrived, gets its tokens in order
\* after that and not later than now, and a session's turn arrives no earlier
\* than its delay after the last token of the turn before (in trace mode and
\* in the artifacts; in concurrency mode it may wait longer for room).
TimesInOrder ==
  \A r \in DOMAIN singleStats :
    LET st == singleStats[r]
        before == <<r[1], r[2] - 1>>
    IN  /\ st.arrival <= now
        /\ st.admit # None => st.arrival <= st.admit
        /\ st.times # <<>> => st.admit # None /\ st.admit <= st.times[1] /\ st.times[Len(st.times)] <= now /\ Ordered(st.times)
        /\ (source = "workload" /\ r[2] > 1) =>
             LET prev == singleStats[before].times[Len(singleStats[before].times)] + TurnOf(r).delay
             IN  IF mode = "concurrency" THEN st.arrival >= prev ELSE st.arrival = prev

\* In concurrency mode the engine never holds more requests than the cap.
CapRespected == mode = "concurrency" => InEngine <= SingleCap

\* The loop never finds itself idle with work left and no arrival to wait for;
\* when it ends, every request is in the report exactly once, with all of its
\* tokens, the progress bar has seen them all, the duration is the last token
\* of the run, and each distribution is in order.
ReportsAll ==
  /\ singlePhase # "error"
  /\ singlePhase = "done" =>
       LET total == IF source = "requests" THEN Len(Sessions) ELSE Cardinality(SingleRequests)
       IN  /\ report.num = total /\ report.completed = total /\ progress = total
           /\ \A r \in DOMAIN singleStats : Len(singleStats[r].times) = TurnOf(r).out
           /\ report.duration <= now
           /\ \A values \in {report.ttft, report.itl, report.e2e} :
                LET d == Distribution(values)
                IN  /\ 0 <= d.min /\ d.min <= d.median /\ d.median <= d.p75 /\ d.p75 <= d.p90 /\ d.p90 <= d.p99 /\ d.p99 <= d.max
                    /\ d.min * d.n <= d.sum /\ d.sum <= d.max * d.n
                    \* at least half of the values are on each side of the median
                    /\ 2 * Cardinality({i \in DOMAIN values : values[i] <= d.median}) >= d.n
                    /\ 2 * Cardinality({i \in DOMAIN values : values[i] >= d.median}) >= d.n - 1

\* The artifacts of a worker are in the order of their times, a request is
\* recorded no earlier than it was scheduled, and every output after its request.
ArtifactsOrdered ==
  /\ Ordered([i \in DOMAIN artifacts.requests |-> artifacts.requests[i].at])
  /\ Ordered([i \in DOMAIN artifacts.outputs |-> artifacts.outputs[i].at])
  /\ Ordered(artifacts.kv)
  /\ \A i \in DOMAIN artifacts.requests : artifacts.requests[i].scheduled <= artifacts.requests[i].at
  /\ \A j \in DOMAIN artifacts.outputs : \E i \in DOMAIN artifacts.requests :
       artifacts.requests[i].request = artifacts.outputs[j].request /\ artifacts.requests[i].at <= artifacts.outputs[j].at
=============================================================================
