---------------------------- MODULE VllmScheduler ----------------------------
(***************************************************************************)
(* The mock vLLM engine: the scheduling pass of scheduler/vllm/core.rs over  *)
(* the sequences of common/sequence.rs and the block cache of KvCache, and   *)
(* the loop of scheduler/vllm/live.rs around it.                             *)
(*                                                                         *)
(* A pass schedules the running requests, then admits waiting ones while     *)
(* nothing was preempted, and then emits one token for every request whose   *)
(* known tokens are all computed.  A failed allocation, in either half,      *)
(* preempts a running request, which goes back to the head of the waiting    *)
(* queue with nothing computed.  The engine is one task: its steps below     *)
(* follow each other, only arrivals and the end of the reader are free.      *)
(***************************************************************************)
EXTENDS KvCache

CONSTANTS
    Requests,
    Input,          \* prompt length of each request
    MaxOutput,      \* max_output_tokens of each request
    Prompt,         \* the owners of its full prompt blocks: equal owners, equal prefixes
    BlockSize,
    MaxEntries,     \* bound: no pass starts with more entries than that in waiting
    Engines         \* [blocks, mode, caching, chunked, budget, seqs] : MockEngineArgs

\* What the requests and the engines are.
SchedulerAssumption ==
    /\ BlockSize \in Nat /\ BlockSize >= 2
    /\ \A r \in Requests :
        /\ Input[r] \in Nat \ {0} /\ MaxOutput[r] \in Nat \ {0}
        /\ Len(Prompt[r]) = Input[r] \div BlockSize
    /\ \A e \in Engines : e.mode \in {"lifo", "fifo"} /\ e.chunked \in BOOLEAN

Nobody == [r |-> "nobody", from |-> FALSE, eff |-> 0, after |-> 0]

VARIABLES
    args,               \* never changed
    cache,              \* LocalVllmKvCache
    req,                \* requests: a record for each request the engine holds
    waiting, wmem,      \* the queue and waiting_members
    running, rmem,      \* the queue and running_members
    pc,                 \* where execute_pass is
    idx,                \* req_index
    cur,                \* the request in schedule_request: [r, from, eff, after]
    budget,             \* token_budget
    preempted,          \* preempted_any
    scheduled,          \* request |-> total_tokens of its ScheduledWork
    ready,              \* requests still to emit a token for
    outputs,            \* output_signals
    listening,          \* output_tx has a receiver
    done                \* history: requests that completed or were dropped

queueVars == <<waiting, wmem, running, rmem>>
passVars  == <<idx, cur, budget, preempted, scheduled>>
emitVars  == <<ready, outputs>>
vars == <<args, cache, req, queueVars, pc, passVars, emitVars, listening, done>>

Live == DOMAIN req

-----------------------------------------------------------------------------
(* ActiveSequence: full counts the FullBlocks of unique_blocks, part tells    *)
(* whether a PartialBlock follows them.                                       *)

Ceil(n)   == (n + BlockSize - 1) \div BlockSize
Least(a, b) == IF a < b THEN a ELSE b
Less(a, b)  == IF a < b THEN 0 ELSE a - b       \* saturating_sub

\* Without prefix caching the hashes are random: no two requests share a block.
FullBlock(r, k) == IF args.caching /\ k <= Len(Prompt[r]) THEN <<Prompt[r][k], k>> ELSE <<r, k>>
PartialBlock(r) == <<r, 0>>

SeqLen(r) == Input[r] + req[r].gen
UniqueBlocks(q, r) ==
    [k \in 1..(q.full + (IF q.part THEN 1 ELSE 0)) |->
        IF k <= q.full THEN FullBlock(r, k) ELSE PartialBlock(r)]
BlockCount(q) == q.full + (IF q.part THEN 1 ELSE 0)

\* The blocks that n tokens take.
Holding(q, r, n) == SubSeq(UniqueBlocks(q, r), 1, Least(Ceil(n), BlockCount(q)))
Held(r) == Holding(req[r], r, req[r].alloc)

NewSequence(r) ==
    [status |-> "waiting", computed |-> 0, gen |-> 0, alloc |-> 0,
     full |-> Input[r] \div BlockSize, part |-> Input[r] % BlockSize # 0]

\* push: a token that opens a block closes the one before it.
Pushed(q, r) ==
    LET n == Input[r] + q.gen + 1 IN
    IF n % BlockSize # 1 THEN [q EXCEPT !.gen = @ + 1]
    ELSE [q EXCEPT !.gen = @ + 1, !.full = IF q.part THEN @ + 1 ELSE @, !.part = TRUE]

\* Mutant: the popped block is the one the push promoted.
PoppedBoth(q, r) ==
    LET n == Input[r] + q.gen - 1 IN
    [q EXCEPT !.gen = @ - 1, !.part = IF n % BlockSize = 0 THEN FALSE ELSE @,
              !.full = IF n % BlockSize = 0 THEN Less(@, 1) ELSE @]

\* pop
Popped(q, r) ==
    LET n == Input[r] + q.gen - 1
    IN  [q EXCEPT !.gen = @ - 1, !.part = IF n % BlockSize = 0 THEN FALSE ELSE @]

-----------------------------------------------------------------------------
(* SchedulerState                                                             *)

IsRunning(r) == r \in rmem /\ r \in Live /\ req[r].status = "running"

\* compact_running
Compacted == SelectSeq(running, IsRunning)

\* The first entry of waiting that next_waiting_uuid does not throw away.
Eligible(r) == r \in Live /\ r \in wmem /\ req[r].status # "running"
FirstWaiting ==
    LET good == {i \in DOMAIN waiting : Eligible(waiting[i])}
    IN  IF good = {} THEN 0 ELSE CHOOSE i \in good : \A j \in good : i <= j

\* Whom preempt() takes; entries that run no more are thrown away on the way.
Candidates   == {i \in DOMAIN running : IsRunning(running[i])}
VictimIndex  == CHOOSE i \in Candidates :
                    \A j \in Candidates : IF args.mode = "lifo" THEN i >= j ELSE i <= j
Victim       == running[VictimIndex]
Survivors    == IF args.mode = "lifo" THEN SubSeq(running, 1, VictimIndex - 1)
                ELSE SubSeq(running, VictimIndex + 1, Len(running))

\* Mutant: the head goes, whoever it is.
LeaveWaitingHead(r) == Tail(waiting)
\* transition_to_running pops the entry of waiting only when it is at the head.
LeaveWaiting(r) == IF waiting # <<>> /\ Head(waiting) = r THEN Tail(waiting) ELSE waiting

\* preempt, for the requests q and the cache c at that moment.
Preempt(q, c) ==
    LET v == Victim IN
    /\ running' = Survivors /\ rmem' = rmem \cap Elems(Survivors)
    /\ waiting' = IF v \in wmem THEN waiting ELSE <<v>> \o waiting
    /\ wmem' = wmem \cup {v}
    /\ req' = [q EXCEPT ![v] = [@ EXCEPT !.status = "preempted", !.computed = 0, !.alloc = 0]]
    /\ cache' = DerefAll(c, Holding(q[v], v, q[v].alloc))

-----------------------------------------------------------------------------

Init ==
    /\ args \in Engines
    /\ cache = EmptyCache(args.blocks) /\ req = <<>>
    /\ waiting = <<>> /\ wmem = {} /\ running = <<>> /\ rmem = {}
    /\ pc = "idle" /\ idx = 1 /\ cur = Nobody /\ budget = 0
    /\ preempted = FALSE /\ scheduled = <<>>
    /\ ready = <<>> /\ outputs = <<>> /\ listening = TRUE /\ done = {}

\* receive_requests and VllmCore::receive, between two passes.
Receive(r) ==
    /\ pc = "idle" /\ r \notin Live \cup done
    /\ req' = [x \in Live \cup {r} |-> IF x = r THEN NewSequence(r) ELSE req[x]]
    /\ waiting' = Append(waiting, r) /\ wmem' = wmem \cup {r}
    /\ UNCHANGED <<args, cache, running, rmem, pc, passVars, emitVars, listening, done>>

BeginPass ==
    /\ pc = "idle" /\ Live # {} /\ Len(waiting) <= MaxEntries
    /\ running' = Compacted /\ rmem' = rmem \cap Elems(running')
    /\ budget' = args.budget /\ idx' = 1 /\ preempted' = FALSE /\ scheduled' = <<>>
    /\ pc' = "running"
    /\ UNCHANGED <<args, cache, req, waiting, wmem, cur, emitVars, listening, done>>

-----------------------------------------------------------------------------
(* schedule_request                                                           *)

Cached(r) ==
    IF req[r].computed # 0 \/ ~args.caching THEN 0
    ELSE Least(Overlap(cache, UniqueBlocks(req[r], r)) * BlockSize, Input[r])

\* The checks before the allocation loop, which may send the caller to "other".
Consider(r, from, other) ==
    LET eff       == req[r].computed + Cached(r)
        remaining == Less(SeqLen(r), eff)
        prompt    == Less(Input[r], eff)
        desired   == Least(remaining, budget)
        blocked   == \/ prompt > 0 /\ ~args.chunked /\ prompt > budget
                     \/ desired = 0 /\ remaining > 0
    IN  IF blocked THEN pc' = other /\ UNCHANGED cur
        ELSE /\ pc' = "alloc"
             /\ cur' = [r |-> r, from |-> from, eff |-> eff, after |-> eff + desired]

\* The loop over the running queue, and its end.
ScheduleRunning ==
    /\ pc = "running" /\ idx <= Len(running) /\ budget > 0
    /\ Consider(running[idx], FALSE, "waiting")
    /\ UNCHANGED <<args, cache, req, queueVars, idx, budget, preempted, scheduled, emitVars,
                   listening, done>>

RunningDone ==
    /\ pc = "running" /\ (idx > Len(running) \/ budget = 0)
    /\ pc' = "waiting"
    /\ UNCHANGED <<args, cache, req, queueVars, passVars, emitVars, listening, done>>

\* The loop over the waiting queue; stale entries at its head are thrown away.
\* Mutant: one sequence too few.
MayAdmitFewer == ~preempted /\ Len(running) + 1 < args.seqs
MayAdmit == ~preempted /\ Len(running) < args.seqs
Purged == IF FirstWaiting = 0 THEN <<>> ELSE SubSeq(waiting, FirstWaiting, Len(waiting))
PurgedMembers ==
    wmem \ {waiting[i] : i \in 1..(Len(waiting) - Len(Purged))}

ScheduleWaiting ==
    /\ pc = "waiting" /\ MayAdmit /\ FirstWaiting # 0
    /\ waiting' = Purged /\ wmem' = PurgedMembers
    /\ Consider(waiting[FirstWaiting], TRUE, "emit")
    /\ UNCHANGED <<args, cache, req, running, rmem, idx, budget, preempted, scheduled,
                   emitVars, listening, done>>

WaitingDone ==
    /\ pc = "waiting" /\ (~MayAdmit \/ FirstWaiting = 0)
    /\ IF MayAdmit THEN waiting' = Purged /\ wmem' = PurgedMembers
       ELSE UNCHANGED <<waiting, wmem>>
    /\ pc' = "emit"
    /\ UNCHANGED <<args, cache, req, running, rmem, passVars, emitVars, listening, done>>

\* What the allocation loop asks for: the blocks up to cur.after, and how many
\* the cache gives.
Wanted  == LET q == req[cur.r] IN
    SubSeq(UniqueBlocks(q, cur.r), Least(Ceil(q.alloc), BlockCount(q)) + 1,
           Least(Ceil(cur.after), BlockCount(q)))
Granted == Use(cache, Wanted)
Enough  == cur.after <= req[cur.r].alloc \/ Granted.n = Len(Wanted)

\* The state of the request after an allocation that fell short.
Short ==
    LET q         == req[cur.r]
        committed == (Least(Ceil(q.alloc), BlockCount(q)) + Granted.n) * BlockSize
    IN  [q EXCEPT !.alloc = Least(committed, cur.after),
                  !.computed = Least(cur.after, committed)]

\* After the loop: actual tokens are computed; the caller goes on or stops.
Conclude(q, actual) ==
    LET r    == cur.r
        used == Less(actual, cur.eff)
        work == [x \in DOMAIN scheduled \cup {r} |-> IF x = r THEN used ELSE scheduled[x]]
    IN  /\ cur' = Nobody /\ UNCHANGED preempted
        /\ IF used = 0 /\ actual < SeqLen(r)
           THEN /\ pc' = (IF cur.from THEN "emit" ELSE "waiting")
                /\ req' = [req EXCEPT ![r] = q]
                /\ UNCHANGED <<queueVars, idx, budget, scheduled>>
           ELSE /\ scheduled' = work /\ budget' = Less(budget, used)
                /\ IF cur.from
                   THEN /\ waiting' = LeaveWaiting(r) /\ wmem' = wmem \ {r}
                        /\ running' = Append(running, r) /\ rmem' = rmem \cup {r}
                        /\ req' = [req EXCEPT ![r] = [q EXCEPT !.status = "running"]]
                        /\ pc' = (IF used = 0 /\ budget' = 0 THEN "emit" ELSE "waiting")
                        /\ UNCHANGED idx
                   ELSE /\ req' = [req EXCEPT ![r] = q] /\ idx' = idx + 1 /\ pc' = "running"
                        /\ UNCHANGED queueVars

\* One turn of the loop: everything is allocated,
AllocateAll ==
    /\ pc = "alloc" /\ Enough
    /\ LET q == req[cur.r] IN
       /\ cache' = IF cur.after <= q.alloc THEN cache ELSE Granted.cache
       /\ Conclude([q EXCEPT !.alloc = IF cur.after <= @ THEN @ ELSE cur.after,
                             !.computed = cur.after], cur.after)
    /\ UNCHANGED <<args, emitVars, listening, done>>

\* or a running request gives its blocks back and the tokens it was given,
AllocatePreempts ==
    /\ pc = "alloc" /\ ~Enough /\ Candidates # {}
    /\ Preempt([req EXCEPT ![cur.r] = Short], Granted.cache)
    /\ preempted' = TRUE
    /\ budget' = budget + (IF Victim \in DOMAIN scheduled THEN scheduled[Victim] ELSE 0)
    /\ scheduled' = [x \in DOMAIN scheduled \ {Victim} |-> scheduled[x]]
    /\ IF Victim # cur.r THEN UNCHANGED <<pc, cur>>
       ELSE pc' = (IF cur.from THEN "emit" ELSE "running") /\ cur' = Nobody
    /\ UNCHANGED <<args, idx, emitVars, listening, done>>

\* or nobody is left to preempt and what there is must do.
AllocateWhatThereIs ==
    /\ pc = "alloc" /\ ~Enough /\ Candidates = {}
    /\ cache' = Granted.cache
    /\ Conclude(Short, Short.computed)
    /\ UNCHANGED <<args, emitVars, listening, done>>

-----------------------------------------------------------------------------
(* emit_ready_tokens                                                          *)

BeginEmit ==
    /\ pc = "emit" /\ pc' = "emitting"
    /\ ready' = SelectSeq(running, LAMBDA r : /\ r \in Live /\ req[r].computed >= SeqLen(r)
                                             /\ req[r].gen < MaxOutput[r])
    /\ UNCHANGED <<args, cache, req, queueVars, passVars, outputs, listening, done>>

\* generate and its Promote signal: the sequence and the cache before the new
\* partial block, if there is one, is allocated.
Opens(r)     == (SeqLen(r) + 1) % BlockSize = 1
Longer(r)    == Pushed(req[r], r)
Generated(r) == IF Opens(r) /\ req[r].part
                THEN Promote(cache, PartialBlock(r), FullBlock(r, Longer(r).full)) ELSE cache
CanEmit(r)   == Opens(r) => CanUse(Generated(r), PartialBlock(r))
Extended(r)  == IF Opens(r) THEN UseBlock(Generated(r), PartialBlock(r)) ELSE Generated(r)

\* It was preempted since.
EmitSkips ==
    /\ pc = "emitting" /\ ready # <<>> /\ Head(ready) \notin rmem
    /\ ready' = Tail(ready)
    /\ UNCHANGED <<args, cache, req, queueVars, pc, passVars, outputs, listening, done>>

\* SchedulerState::complete leaves the entries of the queues behind.
Complete(r) ==
    /\ req' = [x \in Live \ {r} |-> req[x]]
    /\ wmem' = wmem \ {r} /\ rmem' = rmem \ {r} /\ done' = done \cup {r}
    /\ UNCHANGED <<waiting, running>>

EmitToken ==
    /\ pc = "emitting" /\ ready # <<>> /\ Head(ready) \in rmem
    /\ LET r == Head(ready)
           q == Longer(r)
       IN  /\ CanEmit(r)
           /\ outputs' = Append(outputs, r) /\ ready' = Tail(ready)
           /\ IF q.gen < MaxOutput[r]
              THEN /\ req' = [req EXCEPT ![r] = [q EXCEPT !.alloc = SeqLen(r) + 1]]
                   /\ cache' = Extended(r)
                   /\ UNCHANGED <<queueVars, done>>
              ELSE cache' = DerefAll(Extended(r), UniqueBlocks(q, r)) /\ Complete(r)
    /\ UNCHANGED <<args, pc, passVars, listening>>

\* The promotion stands, the token is taken back, and somebody is preempted.
EmitPreempts ==
    /\ pc = "emitting" /\ ready # <<>> /\ Head(ready) \in rmem
    /\ LET r == Head(ready) IN
       /\ ~CanEmit(r)
       /\ Preempt([req EXCEPT ![r] = Popped(Longer(r), r)], Generated(r))
       /\ ready' = IF Victim = r THEN Tail(ready) ELSE ready
    /\ UNCHANGED <<args, pc, passVars, outputs, listening, done>>

EndPass ==
    /\ pc = "emitting" /\ ready = <<>> /\ pc' = "flush"
    /\ IF outputs = <<>> THEN UNCHANGED <<running, rmem>>
       ELSE running' = Compacted /\ rmem' = rmem \cap Elems(Compacted)
    /\ UNCHANGED <<args, cache, req, waiting, wmem, passVars, emitVars, listening, done>>

-----------------------------------------------------------------------------
(* The loop of live.rs                                                        *)

\* flush_output_signals: the outputs are delivered, or their requests dropped.
Flush ==
    /\ pc = "flush" /\ (listening \/ outputs = <<>>)
    /\ outputs' = <<>> /\ pc' = "idle"
    /\ UNCHANGED <<args, cache, req, queueVars, passVars, ready, listening, done>>

DropRequest ==
    /\ pc = "flush" /\ ~listening /\ outputs # <<>>
    /\ outputs' = Tail(outputs)
    /\ LET r == Head(outputs) IN
       IF r \in Live THEN cache' = DerefAll(cache, Held(r)) /\ Complete(r)
       ELSE UNCHANGED <<cache, req, queueVars, done>>
    /\ UNCHANGED <<args, pc, passVars, ready, listening>>

\* The receiver of output_tx goes away.
ReaderLeaves ==
    /\ listening /\ listening' = FALSE
    /\ UNCHANGED <<args, cache, req, queueVars, pc, passVars, emitVars, done>>

\* The cancellation token, which receive_requests looks at between two passes.
Cancelled ==
    /\ pc = "idle" /\ pc' = "stopped"
    /\ UNCHANGED <<args, cache, req, queueVars, passVars, emitVars, listening, done>>

EnginePass ==
    \/ BeginPass \/ ScheduleRunning \/ RunningDone \/ ScheduleWaiting \/ WaitingDone
    \/ AllocateAll \/ AllocatePreempts \/ AllocateWhatThereIs
    \/ BeginEmit \/ EmitSkips \/ EmitToken \/ EmitPreempts \/ EndPass \/ Flush \/ DropRequest

Next == EnginePass \/ (\E r \in Requests : Receive(r)) \/ ReaderLeaves \/ Cancelled

Spec == Init /\ [][Next]_vars

\* Weak fairness of EnginePass, the task of the engine, with its enabling
\* condition written out; nothing obliges anybody to send or to cancel.
Busy ==
    /\ pc # "stopped"
    /\ pc = "idle" => Live # {} /\ Len(waiting) <= MaxEntries
FairSpec == Spec /\ ([]<>~Busy \/ []<><<EnginePass>>_vars)

-----------------------------------------------------------------------------
(* Properties                                                                 *)

\* A request never has more tokens computed than allocated, more allocated than
\* it has, nor more generated than it asked for.
TypeOK ==
    /\ Live \subseteq Requests /\ done \subseteq Requests /\ args \in Engines
    /\ Elems(waiting) \cup Elems(running) \subseteq Requests
    /\ \A r \in Live :
        /\ req[r].status \in {"waiting", "running", "preempted"}
        /\ req[r].alloc \in 0..SeqLen(r) /\ req[r].computed \in 0..req[r].alloc
        /\ req[r].gen \in 0..(MaxOutput[r] - 1)

\* Every active block is counted once for every request that holds it, and the
\* cache never takes more than its slots.
RefsExact ==
    /\ Active(cache) = UNION {Elems(Held(r)) : r \in Live}
    /\ \A b \in Active(cache) :
        cache.refs[b] = Cardinality({r \in Live : b \in Elems(Held(r))})
    /\ Used(cache) <= args.blocks

\* What the events announced is what the device holds, each block after its
\* parent; so a prefix is never cached with a hole in it.
EventsChain ==
    /\ cache.chained
    /\ cache.known = {b \in Active(cache) : ~IsPartial(b)} \cup Elems(cache.idle)

\* The assertions of a debug build: every request is a member of one queue, as
\* its status says, and has an entry there; a request that is ready to decode
\* holds the blocks of all its tokens.
AssertionsHold ==
    /\ wmem \cap rmem = {} /\ wmem \cup rmem = Live
    /\ \A r \in Live : r \in rmem <=> req[r].status = "running"
    /\ wmem \subseteq Elems(waiting) /\ rmem \subseteq Elems(running)
    /\ pc = "emitting" => \A r \in Elems(ready) \cap rmem : req[r].alloc = SeqLen(r)

\* A request the engine holds is completed or dropped, if each request fits into
\* the cache and its tokens into the budget of one pass: whoever preempts it by
\* being admitted, each of its admissions emits at least one token.
Ample == \A r \in Requests :
    Ceil(Input[r] + MaxOutput[r]) <= args.blocks /\ Input[r] + MaxOutput[r] <= args.budget
RequestsComplete ==
    \A r \in Requests : Ample /\ r \in Live ~> r \in done \/ pc = "stopped"
=============================================================================
