--------------------------- MODULE EngineServices ---------------------------
(****************************************************************************)
(* What surrounds the mock engine's scheduler, in three sections: the       *)
(* bootstrap rendezvous, the events a pass publishes, and the tiers of      *)
(* cache that workers share.                                                *)
(****************************************************************************)
EXTENDS FiniteSets, Integers, Sequences, SequencesExt, KvCache

-----------------------------------------------------------------------------
(***************************************************************************)
(* The rendezvous of a disaggregated mock engine (lib/mocker/src/common/   *)
(* bootstrap.rs).  A decode worker connects to the prefill worker's        *)
(* server, names a room and waits for one ACK byte; the prefill worker     *)
(* completes the room when its KV cache is ready.  Either may come first,  *)
(* both sides give up after RENDEZVOUS_TIMEOUT, and a decode worker whose  *)
(* call failed may call again for the same room.                           *)
(*                                                                         *)
(* A call is a connection of its own: client[c] is where the decode side   *)
(* stands, server[c] the task that serves it.  rooms[r] is the DashMap     *)
(* entry: who waits in it, and whether the prefill is ready.               *)
(***************************************************************************)
CONSTANTS Calls,        \* connections of decode workers
          Rooms,        \* room ids
          RoomOf,       \* RoomOf[c]: the room a call names
          MayStop       \* the cancellation token may fire

VARIABLES rooms, client, server, completed, listening, acks

bootVars == <<rooms, client, server, completed, listening, acks>>

Vacant == [ready |-> FALSE, waiter |-> {}]

BootInit ==
  /\ rooms = [r \in Rooms |-> Vacant]
  /\ client = [c \in Calls |-> "idle"]
  /\ server = [c \in Calls |-> "none"]
  /\ completed = {}                      \* rooms the prefill worker has completed
  /\ acks = {}                           \* calls that were sent an ACK
  /\ listening = TRUE

\* connect_to_prefill: the connection is made and the room id written
Connect(c) ==
  /\ client[c] = "idle"
  /\ IF listening THEN /\ client' = [client EXCEPT ![c] = "waiting"]
                       /\ server' = [server EXCEPT ![c] = "reading"]
                  ELSE /\ client' = [client EXCEPT ![c] = "failed"]
                       /\ UNCHANGED server
  /\ UNCHANGED <<rooms, completed, listening, acks>>

\* Mutant of ServeDecode: a room found ready is not left
ServeStays(c) ==
  LET r == RoomOf[c] IN
  /\ server[c] = "reading"
  /\ IF rooms[r].ready
     THEN /\ server' = [server EXCEPT ![c] = "acking"]
          /\ UNCHANGED rooms
     ELSE /\ rooms' = [rooms EXCEPT ![r] = [ready |-> FALSE, waiter |-> {c}]]
          /\ server' = [d \in Calls |-> CASE d = c -> "waiting"
                                          [] d \in rooms[r].waiter /\ server[d] = "waiting" -> "dropped"
                                          [] OTHER -> server[d]]
  /\ UNCHANGED <<client, completed, listening, acks>>

\* A room that is ready is left by the decode worker that finds it so; otherwise it waits there, in the
\* place of whoever waited before, whose sender is dropped
ServeDecode(c) ==
  LET r == RoomOf[c] IN
  /\ server[c] = "reading"
  /\ IF rooms[r].ready
     THEN /\ rooms' = [rooms EXCEPT ![r] = Vacant]
          /\ server' = [server EXCEPT ![c] = "acking"]
     ELSE /\ rooms' = [rooms EXCEPT ![r] = [ready |-> FALSE, waiter |-> {c}]]
          /\ server' = [d \in Calls |-> CASE d = c -> "waiting"
                                          [] d \in rooms[r].waiter /\ server[d] = "waiting" -> "dropped"
                                          [] OTHER -> server[d]]
  /\ UNCHANGED <<client, completed, listening, acks>>

\* complete_room: the waiter is sent for and the room vacated, even if the waiter is no longer listening
CompleteRoom(r) ==
  /\ r \notin completed
  /\ completed' = completed \cup {r}
  /\ IF rooms[r].waiter # {}
     THEN /\ rooms' = [rooms EXCEPT ![r] = Vacant]
          /\ server' = [c \in Calls |-> IF c \in rooms[r].waiter /\ server[c] = "waiting" THEN "acking" ELSE server[c]]
     ELSE /\ rooms' = [rooms EXCEPT ![r] = [ready |-> TRUE, waiter |-> {}]]
          /\ UNCHANGED server
  /\ UNCHANGED <<client, listening, acks>>

\* RENDEZVOUS_TIMEOUT: the receiver is gone before the room is
TimeOut(c) ==
  /\ server[c] = "waiting"
  /\ server' = [server EXCEPT ![c] = "late"]
  /\ UNCHANGED <<rooms, client, completed, listening, acks>>

\* rooms.remove(&room_id), whoever is in it by now
RemoveRoom(c) ==
  LET r == RoomOf[c] IN
  /\ server[c] = "late"
  /\ rooms' = [rooms EXCEPT ![r] = Vacant]
  /\ server' = [d \in Calls |-> CASE d = c -> "closed"
                                  [] d \in rooms[r].waiter /\ server[d] = "waiting" -> "dropped"
                                  [] OTHER -> server[d]]
  /\ UNCHANGED <<client, completed, listening, acks>>

\* The sender was dropped: bail
Dropped(c) ==
  /\ server[c] = "dropped"
  /\ server' = [server EXCEPT ![c] = "closed"]
  /\ UNCHANGED <<rooms, client, completed, listening, acks>>

\* The ACK byte is written, and read if the decode side is still there
Ack(c) ==
  /\ server[c] = "acking"
  /\ server' = [server EXCEPT ![c] = "closed"]
  /\ acks' = acks \cup {c}
  /\ client' = [client EXCEPT ![c] = IF @ = "waiting" THEN "acked" ELSE @]
  /\ UNCHANGED <<rooms, completed, listening>>

\* The decode side gives up: the connection was closed, or its own timeout ran out
GiveUp(c) ==
  /\ client[c] = "waiting"
  /\ client' = [client EXCEPT ![c] = "failed"]
  /\ UNCHANGED <<rooms, server, completed, listening, acks>>

\* The accept loop ends; the tasks it spawned go on
Stop ==
  /\ MayStop /\ listening
  /\ listening' = FALSE
  /\ UNCHANGED <<rooms, client, server, completed, acks>>

ServerStep(c) == ServeDecode(c) \/ RemoveRoom(c) \/ Dropped(c) \/ Ack(c)

BootNext == \/ Stop
            \/ \E r \in Rooms : CompleteRoom(r)
            \/ \E c \in Calls : Connect(c) \/ ServerStep(c) \/ TimeOut(c) \/ GiveUp(c)

\* Tasks run, and both timeouts run out
BootFairness == WF_bootVars(\E c \in Calls : ServerStep(c) \/ TimeOut(c) \/ GiveUp(c))

BootSpec == BootInit /\ [][BootNext]_bootVars /\ BootFairness
----------------------------------------------------------------------------
\* A decode worker goes on only after the prefill worker completed its room, and one completion lets
\* one call through, however calls, timeouts and retries for the room are ordered
AckMeansReady ==
  /\ \A c \in Calls : client[c] = "acked" => RoomOf[c] \in completed
  /\ \A r \in Rooms : Cardinality({c \in acks : RoomOf[c] = r}
                                  \cup {c \in Calls : server[c] = "acking" /\ RoomOf[c] = r}) <= 1

\* Whoever waits in a room is served by a task that is listening for it or about to leave the room,
\* and a task that listens is the one in the room: nobody waits for a sender that is gone
WaitersSeated ==
  /\ \A r \in Rooms : \A c \in rooms[r].waiter : RoomOf[c] = r /\ server[c] \in {"waiting", "late"}
  /\ \A c \in Calls : server[c] = "waiting" => rooms[RoomOf[c]].waiter = {c}

\* Every call is answered
CallsAnswered == \A c \in Calls : client[c] = "waiting" ~> client[c] \in {"acked", "failed"}

-----------------------------------------------------------------------------
(***************************************************************************)
(* What a live mock scheduler lets out, and when: the loop of              *)
(* scheduler/vllm/live.rs, the deferring sinks of                          *)
(* scheduler/kv_event_sink.rs and the publishers of common/protocols.rs.   *)
(*                                                                         *)
(* During a pass the cache publishes into a buffer: the event sink appends *)
(* the event, the raw sink finds it there and adds its token ids.  The     *)
(* loop forwards the buffer to the real sinks at the start or the end of   *)
(* the pass, sends the outputs, and forwards what is left.  Either sink    *)
(* may refuse an event.  The scheduling itself is VllmScheduler's.         *)
(***************************************************************************)
CONSTANTS Requests,
          MaxPasses, MaxPerPass,  \* passes, and KV events of one pass
          MaxFaults,              \* refusals by the sinks
          EventSinks, RawSinks    \* which of the two sinks an engine may have: sets of BOOLEAN

VARIABLES sinks,     \* [event, raw]
          inbox,     \* requests sent and not yet received
          core,      \* requests the core has
          pc,        \* "receive", "pass", "sleep", "flush" or "ended"
          passes, visibility,
          made,      \* events the cache has made: their token ids; the event id is the index
          buffer,    \* DeferredKvPublishBuffer
          fpm,       \* DeferredFpmBuffer: passes
          toEvents, toRaw, toFpm,  \* what the real sinks have accepted
          refused,   \* ids some sink has refused
          output,    \* what the outputs of the pass under way are
          outputs,   \* per batch sent: how many events had been made
          open,      \* the receiver of the outputs is there
          cancelled

eventsVars == <<sinks, inbox, core, pc, passes, visibility, made, buffer, fpm, toEvents, toRaw, toFpm, refused,
                output, outputs, open, cancelled>>
sinkVars == <<toEvents, toRaw, toFpm, refused, buffer, fpm>>

EventsInit ==
  /\ sinks \in [event : EventSinks, raw : RawSinks]
  /\ inbox = <<>> /\ core = {} /\ pc = "receive" /\ passes = 0 /\ visibility = "start" /\ made = <<>>
  /\ buffer = <<>> /\ fpm = <<>> /\ toEvents = <<>> /\ toRaw = <<>> /\ toFpm = <<>> /\ refused = {}
  /\ output = {} /\ outputs = <<>> /\ open = TRUE /\ cancelled = FALSE

\* Scheduler::receive, an unbounded channel
Send(r) ==
  /\ ~\E i \in DOMAIN inbox : inbox[i] = r
  /\ r \notin core /\ passes < MaxPasses
  /\ inbox' = Append(inbox, r)
  /\ UNCHANGED <<sinks, core, pc, passes, visibility, made, sinkVars, output, outputs, open, cancelled>>

\* the token, or the last Scheduler handle and its guard
Cancel ==
  /\ ~cancelled /\ cancelled' = TRUE
  /\ UNCHANGED <<sinks, inbox, core, pc, passes, visibility, made, sinkVars, output, outputs, open>>

\* the receiver of the outputs goes away
CloseOutputs ==
  /\ open /\ open' = FALSE
  /\ UNCHANGED <<sinks, inbox, core, pc, passes, visibility, made, sinkVars, output, outputs, cancelled>>

\* receive_requests: cancellation first; an idle core waits for a request
ReceiveRequests ==
  /\ pc = "receive"
  /\ \/ cancelled /\ pc' = "ended" /\ UNCHANGED <<core, inbox>>
     \/ /\ ~cancelled /\ (core # {} \/ inbox # <<>>) /\ passes < MaxPasses
        /\ core' = core \cup Range(inbox) /\ inbox' = <<>> /\ pc' = "pass"
  /\ UNCHANGED <<sinks, passes, visibility, made, sinkVars, output, outputs, open, cancelled>>

\* the ids of buffered or accepted events
Ids(q) == [i \in DOMAIN q |-> q[i].id]

\* Mutant of DeferRaw: the raw event is always one of its own
DeferRawApart(buf, id, tokens) == Append(buf, [id |-> id, tokens |-> tokens])

\* DeferredRawKvEventSink::publish: the event that was just pushed gets the token ids
DeferRaw(buf, id, tokens) ==
  IF buf # <<>> /\ Last(buf).id = id THEN [buf EXCEPT ![Len(buf)].tokens = tokens]
  ELSE Append(buf, [id |-> id, tokens |-> tokens])

\* publish_kv_event through the buffering publishers: the event sink always, the raw
\* one when the engine has a raw sink
Defer(buf, id, tokens) ==
  LET pushed == Append(buf, [id |-> id, tokens |-> "none"])
  IN  IF sinks.raw THEN DeferRaw(pushed, id, tokens) ELSE pushed

DeferAll(buf, from, all) ==
  LET d[i \in from..Len(all)] == IF i = from THEN buf ELSE Defer(d[i - 1], i, all[i])
  IN  d[Len(all)]

\* Mutant of Forwarded: a raw event goes out although the event sink refused it
ForwardedAnyway(buf, noEvent, noRaw) ==
  [events |-> IF sinks.event THEN SelectSeq(buf, LAMBDA e : e.id \notin noEvent) ELSE <<>>,
   raw    |-> IF sinks.raw THEN SelectSeq(buf, LAMBDA e : e.id \notin noRaw) ELSE <<>>]

\* publish_deferred_kv_events, publish_with_storage_tier: in order; an event that the
\* event sink refuses never gets to the raw sink, and the rest goes on
Forwarded(buf, noEvent, noRaw) ==
  [events |-> IF sinks.event THEN SelectSeq(buf, LAMBDA e : e.id \notin noEvent) ELSE <<>>,
   raw    |-> IF sinks.raw
              THEN SelectSeq(buf, LAMBDA e : e.id \notin noRaw /\ (sinks.event => e.id \notin noEvent)) ELSE <<>>]

\* both buffers are drained into the sinks; some of the events are refused
Publish(buf, snapshots) ==
  \E bad \in SUBSET Range(Ids(buf)), by \in {{"event"}, {"raw"}, {"event", "raw"}} :
    LET f == Forwarded(buf, IF "event" \in by THEN bad ELSE {}, IF "raw" \in by THEN bad ELSE {})
    IN  /\ Cardinality(refused) + Cardinality(bad) <= MaxFaults /\ refused' = refused \cup bad
        /\ toEvents' = toEvents \o f.events /\ toRaw' = toRaw \o f.raw /\ toFpm' = toFpm \o snapshots
        /\ buffer' = <<>> /\ fpm' = <<>>

\* execute_pass_internal: some requests emit, some of them end, the cache makes events
RunPass(new, done, vis) ==
  LET all == made \o new
      buf == DeferAll(buffer, Len(made), all)
      snapshots == Append(fpm, passes + 1)
  IN  /\ pc = "pass" /\ passes' = passes + 1 /\ visibility' = vis /\ made' = all
      /\ done \subseteq core /\ output' = core /\ core' = core \ done
      /\ IF vis = "start" THEN Publish(buf, snapshots)
         ELSE buffer' = buf /\ fpm' = snapshots /\ UNCHANGED <<toEvents, toRaw, toFpm, refused>>
      /\ pc' = "sleep"
      /\ UNCHANGED <<sinks, inbox, outputs, open, cancelled>>

\* the pass's time has gone by; cancellation is not looked at
Sleep ==
  /\ pc = "sleep" /\ pc' = "flush"
  /\ IF visibility = "end" THEN Publish(buffer, fpm) ELSE UNCHANGED sinkVars
  /\ UNCHANGED <<sinks, inbox, core, passes, visibility, made, output, outputs, open, cancelled>>

\* flush_output_signals: without a receiver the requests are dropped; then whatever
\* is left in the buffers goes out
Flush ==
  /\ pc = "flush" /\ pc' = "receive" /\ output' = {}
  /\ outputs' = IF open /\ output # {} THEN Append(outputs, Len(made)) ELSE outputs
  /\ core' = IF open THEN core ELSE core \ output
  /\ Publish(buffer, fpm)
  /\ UNCHANGED <<sinks, inbox, passes, visibility, made, open, cancelled>>

TokenLists == UNION {[1..n -> {"tokens"}] : n \in 0..MaxPerPass}

\* The task of the engine.
EngineLoop ==
  \/ ReceiveRequests
  \/ \E new \in TokenLists, done \in SUBSET Requests, vis \in {"start", "end"} : RunPass(new, done, vis)
  \/ Sleep \/ Flush

EventsNext == (\E r \in Requests : Send(r)) \/ Cancel \/ CloseOutputs \/ EngineLoop

EventsFairness == WF_eventsVars(EngineLoop)

EventsSpec == EventsInit /\ [][EventsNext]_eventsVars /\ EventsFairness

---------------------------------------------------------------------------
Rising(q) == \A i \in 1..(Len(q) - 1) : q[i] < q[i + 1]

\* Every event reaches each sink once, in the order in which the cache made it, with
\* its token ids where they are wanted, unless that sink refused it; and the raw sink
\* never has an event that the event sink refused.
EventsOnce ==
  /\ Rising(Ids(toEvents)) /\ Rising(Ids(toRaw)) /\ Rising(toFpm)
  /\ \A i \in DOMAIN toRaw : toRaw[i].tokens = made[toRaw[i].id]
  /\ sinks.event => Range(Ids(toRaw)) \subseteq Range(Ids(toEvents))
  /\ pc = "receive" =>
       /\ buffer = <<>> /\ fpm = <<>> /\ Len(toFpm) = passes
       /\ sinks.event => (DOMAIN made) \ Range(Ids(toEvents)) \subseteq refused
       /\ sinks.raw => (DOMAIN made) \ Range(Ids(toRaw)) \subseteq refused

\* Whoever reads an output can rely on the events of its pass: they went out before.
EventsBeforeOutputs ==
  \A i \in DOMAIN outputs : sinks.event =>
    \A id \in 1..outputs[i] : id \in refused \/ \E j \in DOMAIN toEvents : toEvents[j].id = id

\* A cancelled scheduler stops, whatever is in its inbox and whichever pass is under way.
CancelEnds == cancelled ~> pc = "ended"

-----------------------------------------------------------------------------
(***************************************************************************)
(* The block cache that mock workers share, kv_cache/lmcache_adapter.rs,   *)
(* and how the workers' own caches use it (save_to_lmcache and             *)
(* get_prefill_cost of kv_cache/local_vllm_cache.rs).  The adapter is two  *)
(* tiers behind one mutex, so that every call on it is one step; a block   *)
(* that is new to a worker is stored in both, and a prompt whose leading   *)
(* blocks another worker computed costs less.                              *)
(*                                                                         *)
(* A tier is the sequence of its blocks, the one stored longest ago first: *)
(* that is all its clock is used for.  A prompt is a sequence of blocks    *)
(* <<owner, k>> as in KvCache.                                             *)
(***************************************************************************)
CONSTANTS Workers, Prompts, Slots,
          Confs,     \* LmCacheMockConfig: records [l1, l2, cap1, cap2]; a capacity of 0 is none
          MaxStores, MaxRemovals,
          MaxCounted \* hits and misses counted before the last lookup

VARIABLES conf,
          kv,        \* LocalVllmKvCache of each worker
          holds,     \* prompts whose blocks each worker has in use
          l1, l2,    \* the tiers
          history,   \* stored and not removed since: blocks, the last stored last
          stats,     \* l1_hits, l2_hits, misses, stores, removals
          answer     \* the last lookup and what it returned

sharedVars == <<conf, kv, holds, l1, l2, history, stats, answer>>

NoAnswer == [prompt |-> <<>>]
NoStats  == [l1Hits |-> 0, l2Hits |-> 0, misses |-> 0, stores |-> 0, removals |-> 0]

SharedInit ==
  /\ conf \in Confs /\ kv = [w \in Workers |-> EmptyCache(Slots)] /\ holds = [w \in Workers |-> <<>>]
  /\ l1 = <<>> /\ l2 = <<>> /\ history = <<>> /\ stats = NoStats /\ answer = NoAnswer

\* Mutant of Insert: a block that is there keeps its age
InsertKeepsAge(tier, cap, b) ==
  LET q == IF b \in Elems(tier) THEN tier ELSE Append(tier, b) IN IF cap # 0 /\ Len(q) > cap THEN Tail(q) ELSE q

\* CacheTier::insert: newest, and over the capacity the oldest goes
Insert(tier, cap, b) ==
  LET q == Append(Without(tier, b), b) IN IF cap # 0 /\ Len(q) > cap THEN Tail(q) ELSE q

\* store_block of several blocks in turn
Stored(enabled, tier, cap, bs) ==
  LET s[i \in 0..Len(bs)] == IF i = 0 THEN tier ELSE Insert(s[i - 1], cap, bs[i])
  IN  IF enabled THEN s[Len(bs)] ELSE tier

\* tier_of: the first tier first
TierOf(b) == IF conf.l1 /\ b \in Elems(l1) THEN "L1" ELSE IF conf.l2 /\ b \in Elems(l2) THEN "L2" ELSE "Miss"

\* process_use of a prompt's blocks, save_to_lmcache for each that is new to the
\* worker; blocks that find no slot are not stored
UsePrompt(w, p) ==
  LET u == Use(kv[w], p)
      new == SelectSeq(p, LAMBDA b : \E i \in u.stored : p[i] = b)
      kept(q) == SelectSeq(q, LAMBDA b : b \notin Elems(new))
  IN  /\ holds[w] = <<>> /\ stats.stores + Len(p) <= MaxStores
      /\ kv' = [kv EXCEPT ![w] = u.cache] /\ holds' = [holds EXCEPT ![w] = SubSeq(p, 1, u.n)]
      /\ l1' = Stored(conf.l1, l1, conf.cap1, new) /\ l2' = Stored(conf.l2, l2, conf.cap2, new)
      /\ history' = kept(history) \o new
      /\ stats' = [stats EXCEPT !.stores = @ + IF conf.l1 \/ conf.l2 THEN Len(new) ELSE 0]
      /\ answer' = NoAnswer /\ UNCHANGED conf

\* the sequence is done: its blocks become evictable in the worker, the tiers keep them
Release(w) ==
  /\ holds[w] # <<>> /\ kv' = [kv EXCEPT ![w] = DerefAll(@, holds[w])] /\ holds' = [holds EXCEPT ![w] = <<>>]
  /\ answer' = NoAnswer /\ UNCHANGED <<conf, l1, l2, history, stats>>

\* remove_block
RemoveBlock(b) ==
  LET held == b \in Elems(l1) \cup Elems(l2)
  IN  /\ stats.removals < MaxRemovals /\ l1' = Without(l1, b) /\ l2' = Without(l2, b)
      /\ history' = Without(history, b)
      /\ stats' = [stats EXCEPT !.removals = @ + IF held THEN 1 ELSE 0]
      /\ answer' = NoAnswer /\ UNCHANGED <<conf, kv, holds>>

\* lookup_prefix: the leading blocks that a tier has, up to the first miss; the answer
\* names the slowest tier that took part
LookupPrefix(p) ==
  LET hit[i \in 0..Len(p)] ==
        IF i = 0 THEN [n |-> 0, tier |-> "Miss", l1 |-> 0, l2 |-> 0]
        ELSE LET before == hit[i - 1]
                 t == TierOf(p[i])
             IN  IF before.n # i - 1 \/ t = "Miss" THEN before
                 ELSE [n |-> i, tier |-> IF before.tier = "L2" THEN "L2" ELSE t,
                       l1 |-> before.l1 + IF t = "L1" THEN 1 ELSE 0, l2 |-> before.l2 + IF t = "L2" THEN 1 ELSE 0]
  IN  hit[Len(p)]

\* Mutant of PrefillOverlap: the shared cache is asked for the first block that is
\* missing and then no more
PrefillOverlapOnce(w, p) ==
  LET own == Overlap(kv[w], p)
  IN  IF own < Len(p) /\ TierOf(p[own + 1]) # "Miss" THEN own + 1 ELSE own

\* get_prefill_cost with a shared cache: a leading block counts when the worker has
\* it, registered or active, or when a tier has it
PrefillOverlap(w, p) ==
  LET miss == {i \in DOMAIN p : /\ p[i] \notin Active(kv[w]) \cup kv[w].known
                                /\ TierOf(p[i]) = "Miss"}
  IN  IF miss = {} THEN Len(p) ELSE (CHOOSE i \in miss : \A j \in miss : i <= j) - 1

\* batch_lookup: every block some tier has, wherever it stands
BatchLookup(p) == SelectSeq(p, LAMBDA b : TierOf(b) # "Miss")

\* a lookup of each kind; lookup_prefix counts hits, or one miss
Lookup(w, p) ==
  LET hit == LookupPrefix(p)
  IN  /\ answer = NoAnswer /\ stats.misses + stats.l1Hits + stats.l2Hits <= MaxCounted
      /\ answer' = [prompt |-> p, worker |-> w, hit |-> hit, cost |-> PrefillOverlap(w, p), batch |-> BatchLookup(p)]
      /\ stats' = [stats EXCEPT !.misses = @ + IF hit.n = 0 THEN 1 ELSE 0, !.l1Hits = @ + hit.l1, !.l2Hits = @ + hit.l2]
      /\ UNCHANGED <<conf, kv, holds, l1, l2, history>>

SharedNext ==
  \/ \E w \in Workers, p \in Prompts : UsePrompt(w, p) \/ Lookup(w, p)
  \/ \E w \in Workers : Release(w)
  \/ \E p \in Prompts : \E b \in Elems(p) : RemoveBlock(b)

SharedSpec == SharedInit /\ [][SharedNext]_sharedVars

---------------------------------------------------------------------------
Position(q, b) == CHOOSE i \in DOMAIN q : q[i] = b

\* Through stores of several workers and removals, a tier keeps within its capacity
\* and keeps the blocks stored last: what it has is never older than what it dropped.
RecentKept ==
  \A t \in {<<l1, conf.l1, conf.cap1>>, <<l2, conf.l2, conf.cap2>>} :
    /\ t[3] # 0 => Len(t[1]) <= t[3]
    /\ t[2] => \A a \in Elems(t[1]) : \A b \in Elems(history) :
                 Position(history, b) > Position(history, a) => b \in Elems(t[1])

\* Whatever one tier has lost, the larger one still has.
TiersNest == conf.l1 /\ conf.l2 /\ (conf.cap2 = 0 \/ (conf.cap1 # 0 /\ conf.cap1 <= conf.cap2)) => Elems(l1) \subseteq Elems(l2)

\* A worker never pays for a leading block that it or any tier has, is never told of
\* one that neither has, and the three lookups agree on the shared prefix.
CostIsShared ==
  answer # NoAnswer =>
    LET p == answer.prompt
        has(b) == b \in Active(kv[answer.worker]) \cup kv[answer.worker].known \/ b \in Elems(answer.batch)
    IN  /\ answer.hit.n <= answer.cost
        /\ \A i \in 1..answer.cost : has(p[i])
        /\ answer.cost < Len(p) => ~has(p[answer.cost + 1])
        /\ answer.hit.n <= Len(answer.batch) /\ answer.hit.l1 + answer.hit.l2 = answer.hit.n
=============================================================================
