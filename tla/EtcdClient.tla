----------------------------- MODULE EtcdClient -----------------------------
(****************************************************************************)
(* etcd.rs, lock.rs and typed_prefix_watcher.rs: what a process does with   *)
(* etcd, in three sections: a watch of a prefix, the read-write lock, and   *)
(* the typed map that follows a prefix. They share no state.                *)
(****************************************************************************)
EXTENDS Integers, Sequences, FiniteSets, SequencesExt, Functions

-----------------------------------------------------------------------------
(***************************************************************************)
(* transports/etcd.rs: the prefix watch of a client, which resumes after the    *)
(* last revision it has seen, and KvCache, the mirror of a prefix fed by one.   *)
(* The server is the log of the changes under the prefix; its length is the     *)
(* revision.                                                                    *)
(***************************************************************************)
CONSTANTS WatchKeys, Initial,    \* keys under the prefix; those of initial_values
          MaxRevision, MaxDrops

VARIABLES
    log,                    \* the server's changes
    up, drops,              \* is the server reachable
    watch, start, first,    \* watch_internal: where it is, start_revision, the first of them
    rx,                     \* what the watch has sent
    cache, filled, put      \* KvCache: the map, events applied to it, a put under way

watchVars == <<log, up, drops, watch, start, first, rx, cache, filled, put>>

WatchInit ==
    /\ log = <<>> /\ up = TRUE /\ drops = 0
    /\ watch = "off" /\ start = 1 /\ first = 1 /\ rx = <<>>
    /\ cache = {} /\ filled = 0 /\ put = <<>>

\* The keys a log leaves behind, and a map after an event.
Apply(known, event) == IF event.op = "put" THEN known \cup {event.key} ELSE known \ {event.key}
Present(entries) == FoldLeft(Apply, {}, entries)
Event(op, k) == [op |-> op, key |-> k]

LinkChanges ==
    /\ up' = ~up /\ (up => drops < MaxDrops) /\ drops' = IF up THEN drops + 1 ELSE drops
    /\ UNCHANGED <<log, watch, start, first, rx, cache, filled, put>>

\* A change under the prefix by anybody, the expiry of a lease included.
WatchChange(op, k) ==
    /\ Len(log) < MaxRevision /\ (op = "delete" => k \in Present(log))
    /\ log' = Append(log, Event(op, k))
    /\ UNCHANGED <<up, drops, watch, start, first, rx, cache, filled, put>>

\* KvCache::new: what is there is read, ...
CachePull ==
    /\ watch = "off" /\ up
    /\ cache' = Present(log) /\ watch' = "pulled"
    /\ UNCHANGED <<log, up, drops, start, first, rx, filled, put>>

\* ... initial_values that were not there are written, ...
CachePutInitial(k) ==
    /\ watch = "pulled" /\ up /\ k \in Initial \ cache
    /\ log' = Append(log, Event("put", k)) /\ cache' = cache \cup {k}
    /\ UNCHANGED <<up, drops, watch, start, first, rx, filled, put>>

\* ... and kv_get_and_watch_prefix (get_start_revision) begins with the keys that exist.
WatchPrefix ==
    /\ watch = "pulled" /\ up /\ Initial \subseteq cache
    /\ rx' = SetToSeq({Event("put", k) : k \in Present(log)})
    /\ start' = Len(log) + 1 /\ first' = Len(log) + 1 /\ watch' = "connect"
    /\ UNCHANGED <<log, up, drops, cache, filled, put>>

\* new_watch_stream: the watch is set up from start_revision; when that fails the connector
\* reconnects, and after ten seconds without success the watch is over.
NewWatchStream ==
    /\ watch = "connect" /\ up /\ watch' = "open"
    /\ UNCHANGED <<log, up, drops, start, first, rx, cache, filled, put>>
ReconnectFails ==
    /\ watch = "connect" /\ ~up /\ watch' = "ended"
    /\ UNCHANGED <<log, up, drops, start, first, rx, cache, filled, put>>

\* Mutant of WatchEvents: the revision to resume from stays where the watch began.
WatchEventsOnly ==
    /\ watch = "open" /\ up /\ start <= Len(log)
    /\ rx' = rx \o SubSeq(log, start, Len(log)) /\ watch' = "connect" /\ UNCHANGED start
    /\ UNCHANGED <<log, up, drops, first, cache, filled, put>>

\* monitor_watch_stream: a response moves start_revision past its header's revision, and its
\* events go to the receiver (process_watch_events).
WatchEvents ==
    /\ watch = "open" /\ up /\ start <= Len(log)
    /\ rx' = rx \o SubSeq(log, start, Len(log)) /\ start' = Len(log) + 1
    /\ UNCHANGED <<log, up, drops, watch, first, cache, filled, put>>

\* The stream fails or ends, and is set up again.
StreamFails ==
    /\ watch = "open" /\ ~up /\ watch' = "connect"
    /\ UNCHANGED <<log, up, drops, start, first, rx, cache, filled, put>>

\* KvCache::start_watcher: the next event is applied.
CacheApply ==
    /\ filled < Len(rx)
    /\ cache' = Apply(cache, rx[filled + 1]) /\ filled' = filled + 1
    /\ UNCHANGED <<log, up, drops, watch, start, first, rx, put>>

\* KvCache::put and delete: first at the server, then in the cache.
CachePut(op, k) ==
    /\ watch \notin {"off", "pulled"} /\ put = <<>> /\ up /\ Len(log) < MaxRevision
    /\ op = "delete" => k \in Present(log)
    /\ log' = Append(log, Event(op, k)) /\ put' = <<Event(op, k)>>
    /\ UNCHANGED <<up, drops, watch, start, first, rx, cache, filled>>
CachePutDone ==
    /\ put # <<>> /\ cache' = Apply(cache, put[1]) /\ put' = <<>>
    /\ UNCHANGED <<log, up, drops, watch, start, first, rx, filled>>

WatchNext ==
    \/ LinkChanges
    \/ \E op \in {"put", "delete"}, k \in WatchKeys : WatchChange(op, k) \/ CachePut(op, k)
    \/ CachePull \/ (\E k \in WatchKeys : CachePutInitial(k)) \/ WatchPrefix
    \/ NewWatchStream \/ ReconnectFails \/ WatchEvents \/ StreamFails \/ CacheApply \/ CachePutDone

-----------------------------------------------------------------------------
\* A watch delivers every change after the revision it began at, once and in order, whatever
\* connections it needed (monitor_watch_stream, new_watch_stream).
WatchExact ==
    watch \notin {"off", "pulled"} =>
        LET replayed == Cardinality(Present(SubSeq(log, 1, first - 1)))
        IN  rx = SubSeq(rx, 1, replayed) \o SubSeq(log, first, start - 1)

-----------------------------------------------------------------------------
(***************************************************************************)
(* etcd/lock.rs: DistributedRWLock, a lock between processes that is a writer   *)
(* key and one key per reader in etcd, each under its process's lease. A guard   *)
(* that is dropped leaves the deletion of its key to a spawned task.             *)
(***************************************************************************)
CONSTANTS Processes,    \* one client and one reader id each
          Writing, Reading,  \* the processes that try to write, and to read
          MaxPolls      \* polls of read_lock_with_wait before its timeout

VARIABLES
    writer, readers,    \* the writer key, by whose lease it lives, or "none"; the reader keys
    guard,              \* where each process is: idle, scan, back, write, wait, read, dead
    polls,
    releasing,          \* the deletions spawned by dropped guards
    leaseLost,          \* the processes whose lease is gone
    robbed              \* history: whose key went in a deletion meant for an earlier one

lockVars == <<writer, readers, guard, polls, releasing, leaseLost, robbed>>

LockInit ==
    /\ writer = "none" /\ readers = {} /\ guard = [p \in Processes |-> "idle"]
    /\ polls = [p \in Processes |-> 0] /\ releasing = {} /\ leaseLost = {} /\ robbed = {}

Goes(p, where) == guard' = [guard EXCEPT ![p] = where]
Free(p) == guard[p] = "idle" /\ p \notin leaseLost

\* try_write_lock: the writer key is created, if there is none, under a lease the server knows;
\* an error, with or without the key, is no lock.
TryWriteLock(p) ==
    /\ Free(p) /\ p \in Writing
    /\ writer = "none" /\ writer' = p /\ (Goes(p, "scan") \/ UNCHANGED guard)
    /\ UNCHANGED <<readers, polls, releasing, leaseLost, robbed>>

\* Mutant of ScanReaders: the readers are not looked for.
ScanNothing(p) ==
    /\ guard[p] = "scan" /\ Goes(p, "write")
    /\ UNCHANGED <<writer, readers, polls, releasing, leaseLost, robbed>>

\* Then the readers are listed: any, or an error, and the writer key is taken back.
ScanReaders(p) ==
    /\ guard[p] = "scan"
    /\ \/ readers = {} /\ Goes(p, "write")
       \/ Goes(p, "back")
    /\ UNCHANGED <<writer, readers, polls, releasing, leaseLost, robbed>>

\* The writer key is deleted, whosever it is by now, or an error leaves it to the lease. A
\* process that is taking or holding the lock by that key does not learn of it.
DeleteWriter(p) ==
    \/ /\ writer' = "none"
       /\ robbed' = (robbed \ {p}) \cup {q \in Processes \ {p} : q = writer /\ guard[q] \in {"scan", "back", "write"}}
    \/ UNCHANGED writer /\ robbed' = robbed \ {p}

RollbackWriter(p) ==
    /\ guard[p] = "back" /\ Goes(p, "idle") /\ DeleteWriter(p)
    /\ UNCHANGED <<readers, polls, releasing, leaseLost>>

\* read_lock_with_wait: each poll puts the reader key if there is no writer key. Nothing keeps
\* a reader id from being used again before the deletion of its key has run.
ReadLockWithWait(p) ==
    /\ Free(p) /\ p \in Reading /\ Goes(p, "wait") /\ polls' = [polls EXCEPT ![p] = 0]
    /\ UNCHANGED <<writer, readers, releasing, leaseLost, robbed>>
Poll(p) ==
    /\ guard[p] = "wait" /\ polls[p] < MaxPolls
    /\ \/ /\ writer = "none" /\ p \notin leaseLost /\ readers' = readers \cup {p}
          /\ \/ Goes(p, "read") /\ UNCHANGED polls
             \/ polls' = [polls EXCEPT ![p] = @ + 1] /\ UNCHANGED guard
       \/ polls' = [polls EXCEPT ![p] = @ + 1] /\ UNCHANGED <<readers, guard>>
    /\ UNCHANGED <<writer, releasing, leaseLost, robbed>>
Timeout(p) ==
    /\ guard[p] = "wait" /\ polls[p] = MaxPolls /\ Goes(p, "idle")
    /\ UNCHANGED <<writer, readers, polls, releasing, leaseLost, robbed>>

\* A guard is dropped; the spawned task deletes its key later. A drop outside the runtime
\* leaves the key to the lease.
DropGuard(p) ==
    /\ guard[p] \in {"write", "read"} /\ <<guard[p], p>> \notin releasing
    /\ releasing' \in {releasing, releasing \cup {<<guard[p], p>>}} /\ Goes(p, "idle")
    /\ robbed' = robbed \ {p}
    /\ UNCHANGED <<writer, readers, polls, leaseLost>>
ReleaseWriter(p) ==
    /\ <<"write", p>> \in releasing /\ releasing' = releasing \ {<<"write", p>>}
    /\ \/ /\ writer' = "none"
          /\ robbed' = robbed \cup {q \in Processes : q = writer /\ guard[q] \in {"scan", "back", "write"}}
       \/ UNCHANGED <<writer, robbed>>
    /\ UNCHANGED <<readers, guard, polls, leaseLost>>
ReleaseReader(p) ==
    /\ <<"read", p>> \in releasing /\ releasing' = releasing \ {<<"read", p>>}
    /\ \/ readers' = readers \ {p} /\ robbed' = robbed \cup {q \in {p} : guard[q] = "read"}
       \/ UNCHANGED <<readers, robbed>>
    /\ UNCHANGED <<writer, guard, polls, leaseLost>>

\* A process dies, and its pending deletions with it.
Crash(p) ==
    /\ guard[p] # "dead" /\ Goes(p, "dead")
    /\ releasing' = {r \in releasing : r[2] # p} /\ robbed' = robbed \ {p}
    /\ UNCHANGED <<writer, readers, polls, leaseLost>>

\* The lease of a process that died, or that cannot reach the server in time, expires with its
\* keys. A process that still runs keeps its guard, and may yet delete.
LeaseExpires(p) ==
    /\ p \notin leaseLost /\ leaseLost' = leaseLost \cup {p}
    /\ writer' = IF writer = p THEN "none" ELSE writer
    /\ readers' = readers \ {p}
    /\ UNCHANGED <<guard, polls, releasing, robbed>>

LockNext ==
    \E p \in Processes :
        \/ TryWriteLock(p) \/ ScanReaders(p) \/ RollbackWriter(p)
        \/ ReadLockWithWait(p) \/ Poll(p) \/ Timeout(p)
        \/ DropGuard(p) \/ ReleaseWriter(p) \/ ReleaseReader(p) \/ Crash(p) \/ LeaseExpires(p)

-----------------------------------------------------------------------------
\* A process that holds the write lock shares it with no other holder, reader or writer, through
\* crashes and failed deletions: the order of putting the writer key and listing the readers,
\* against the readers' single transaction, leaves no gap. Two kinds of holder are excepted:
\* those whose lease is gone, and those whose key went in a deletion meant for an earlier holding
\* (kv_delete at lock.rs:141 and :227 compares nothing). Of the second kind no writer exists
\* until some process has outlived its lease.
WriterExcludes ==
    /\ \A p, q \in Processes \ (leaseLost \cup robbed) :
         guard[p] = "write" /\ q # p => guard[q] \notin {"write", "read"}
    /\ leaseLost = {} => \A p \in robbed : guard[p] = "read"

-----------------------------------------------------------------------------
(***************************************************************************)
(* utils/typed_prefix_watcher.rs: a task that turns the events of an etcd   *)
(* prefix watch into a typed map, published through a watch channel.        *)
(*                                                                         *)
(* A stored value is "v1" or "v2" (a value the extractor keeps), "hidden"   *)
(* (it answers None) or "bad" (it does not deserialise).  A delete event    *)
(* carries the key alone: its lease is 0 (etcd.rs hands on the event's own  *)
(* key-value pair, not the previous one).                                   *)
(***************************************************************************)
CONSTANTS PrefixKeys, Leases,
          Extractor,    \* "key" (key_string, full_key_string) or "lease" (lease_id)
          MaxEvents     \* bound: changes under the prefix

VARIABLES stored,     \* etcd: key -> [value, lease]
          events,     \* what the watch has sent and the task has not taken
          changes,
          closed,     \* the watch stream has ended
          task,       \* "running" or "stopped"
          state,      \* the task's map
          seen,       \* the map in the watch channel
          receivers,  \* is a receiver left
          cancelled

prefixVars == <<stored, events, changes, closed, task, state, seen, receivers, cancelled>>
world == <<stored, changes, closed, receivers, cancelled>>

Put(map, k, v) == [x \in DOMAIN map \cup {k} |-> IF x = k THEN v ELSE map[x]]
Without(map, k) == Restrict(map, DOMAIN map \ {k})

\* the keys of the map: texts, or lease numbers
KeyExtractor(e) == IF Extractor = "key" THEN e.key ELSE e.lease

PrefixInit ==
  /\ stored = << >> /\ events = <<>> /\ changes = 0 /\ closed = FALSE
  /\ task = "running" /\ state = << >> /\ seen = << >> /\ receivers = TRUE /\ cancelled = FALSE

PrefixChange == changes < MaxEvents /\ ~closed /\ changes' = changes + 1

PutKey(k, v, l) ==
  /\ PrefixChange /\ stored' = Put(stored, k, [value |-> v, lease |-> l])
  /\ events' = Append(events, [op |-> "put", key |-> k, value |-> v, lease |-> l])
  /\ UNCHANGED <<closed, task, state, seen, receivers, cancelled>>
DeleteKey(k) ==
  /\ PrefixChange /\ k \in DOMAIN stored /\ stored' = Without(stored, k)
  /\ events' = Append(events, [op |-> "delete", key |-> k, value |-> "none", lease |-> 0])
  /\ UNCHANGED <<closed, task, state, seen, receivers, cancelled>>

\* what the task does with its map: everybody who looks sees the whole of it; with
\* no receiver left the task ends
Publish(map) ==
  /\ state' = map
  /\ IF receivers THEN seen' = map /\ UNCHANGED task ELSE task' = "stopped" /\ UNCHANGED seen
Take(op) == task = "running" /\ events # <<>> /\ Head(events).op = op /\ events' = Tail(events)

\* Mutant of HandlePut: a value the extractor turns away leaves the entry as it is
HandlePutKeeps ==
  /\ Take("put") /\ UNCHANGED world
  /\ IF Head(events).value \in {"bad", "hidden"} THEN UNCHANGED <<task, state, seen>>
     ELSE Publish(Put(state, KeyExtractor(Head(events)), Head(events).value))

\* a value that does not deserialise is skipped, one the extractor turns away removes
HandlePut ==
  /\ Take("put") /\ UNCHANGED world
  /\ LET e == Head(events)
     IN  CASE e.value = "bad" -> UNCHANGED <<task, state, seen>>
           [] e.value = "hidden" -> Publish(Without(state, KeyExtractor(e)))
           [] OTHER -> Publish(Put(state, KeyExtractor(e), e.value))

HandleDelete ==
  /\ Take("delete") /\ UNCHANGED world
  /\ Publish(Without(state, KeyExtractor(Head(events))))

\* the token is cancelled, or the watch stream has ended
Stop ==
  /\ task = "running" /\ (cancelled \/ (closed /\ events = <<>>)) /\ task' = "stopped"
  /\ UNCHANGED <<stored, events, changes, closed, state, seen, receivers, cancelled>>

Cancel == ~cancelled /\ cancelled' = TRUE
  /\ UNCHANGED <<stored, events, changes, closed, task, state, seen, receivers>>
CloseWatch == ~closed /\ closed' = TRUE
  /\ UNCHANGED <<stored, events, changes, task, state, seen, receivers, cancelled>>
DropReceivers == receivers /\ receivers' = FALSE
  /\ UNCHANGED <<stored, events, changes, closed, task, state, seen, cancelled>>

PrefixNext ==
  \/ \E k \in PrefixKeys : DeleteKey(k)
  \/ \E k \in PrefixKeys, v \in {"v1", "v2", "hidden", "bad"}, l \in Leases : PutKey(k, v, l)
  \/ HandlePut \/ HandleDelete \/ Stop \/ Cancel \/ CloseWatch \/ DropReceivers

PrefixSpec == PrefixInit /\ [][PrefixNext]_prefixVars

-----------------------------------------------------------------------------
\* Once the task has taken every event, the map a receiver looks at shows every
\* readable value under its key and nothing that is gone or turned away; only a
\* value that cannot be read leaves its entry as it was (the contract of
\* watch_prefix_with_extraction).
MapFollows ==
  task = "running" /\ receivers /\ events = <<>> =>
    /\ DOMAIN seen \subseteq DOMAIN stored
    /\ \A k \in DOMAIN stored :
         CASE stored[k].value = "bad" -> TRUE
           [] stored[k].value = "hidden" -> k \notin DOMAIN seen
           [] OTHER -> k \in DOMAIN seen /\ seen[k] = stored[k].value
=============================================================================
