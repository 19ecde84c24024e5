------------------------------ MODULE KvStores ------------------------------
(****************************************************************************)
(* storage/kv: the key-value stores behind discovery, in three sections:    *)
(* over etcd or NATS, in memory, and in files.                              *)
(****************************************************************************)
EXTENDS Sequences, FiniteSets, SequencesExt, Integers, FiniteSetsExt

-----------------------------------------------------------------------------
(***************************************************************************)
(* storage/kv/etcd.rs, storage/kv/nats.rs and Manager::publish: publishers of   *)
(* one object under one key, each with the revision it believes in. Calls to     *)
(* the server are atomic; what a publisher does between them is not.             *)
(***************************************************************************)
CONSTANTS Publishers, MaxWrites

VARIABLES
    backend,            \* "none" until the Manager is built, then "etcd" or "nats"
    entry,              \* the key at the server: 0, or its version (etcd) / revision (nats)
    writes,             \* writes so far: the bucket's last sequence number (nats)
    lives,              \* how often the key has been created
    call, found,        \* each publisher: its next call; what it read from the server
    rev, told,          \* its object's revision; what its last publish returned
    creator             \* who was told Created for a creation, in each life of the key

remoteVars == <<backend, entry, writes, lives, call, found, rev, told, creator>>

RemoteInit ==
    /\ backend = "none" /\ entry = 0 /\ writes = 0 /\ lives = 0
    /\ call = [p \in Publishers |-> "idle"] /\ found = [p \in Publishers |-> 0]
    /\ rev = [p \in Publishers |-> 0] /\ told = [p \in Publishers |-> "none"]
    /\ creator = [n \in 1..MaxWrites |-> {}]

Open(kind) ==
    /\ backend = "none" /\ backend' = kind
    /\ UNCHANGED <<entry, writes, lives, call, found, rev, told, creator>>

Goes(p, c) == call' = [call EXCEPT ![p] = c]
\* publish takes the revision from the outcome into the object.
Return(p, outcome, revision) ==
    /\ Goes(p, "idle") /\ told' = [told EXCEPT ![p] = outcome]
    /\ rev' = [rev EXCEPT ![p] = IF outcome \in {"created", "exists"} THEN revision ELSE @]
\* A write at the server: etcd counts the versions of a key, NATS the writes to the bucket.
Write == /\ writes < MaxWrites /\ writes' = writes + 1
         /\ entry' = IF backend = "etcd" THEN entry + 1 ELSE writes + 1
         /\ lives' = IF entry = 0 THEN lives + 1 ELSE lives
Version == IF backend = "etcd" THEN entry + 1 ELSE writes + 1

\* insert: revision 0 creates, any other updates.
Publish(p) ==
    /\ backend # "none" /\ call[p] = "idle"
    /\ Goes(p, IF rev[p] = 0 THEN "create" ELSE IF backend = "etcd" THEN "get" ELSE "update")
    /\ UNCHANGED <<backend, entry, writes, lives, found, rev, told, creator>>

\* Mutant of Create: the key is put whether it exists or not.
CreateAnyway(p) ==
    /\ call[p] = "create"
    /\ Write /\ Return(p, "created", Version)
    /\ creator' = [creator EXCEPT ![lives'] = @ \cup {p}]
    /\ UNCHANGED <<backend, found>>

\* create_path (one transaction) and NATSBucket::create (create, then the entry).
Create(p) ==
    /\ call[p] = "create"
    /\ \/ /\ entry = 0 /\ Write /\ Return(p, "created", IF backend = "etcd" THEN 1 ELSE Version)
          /\ creator' = [creator EXCEPT ![lives'] = @ \cup {p}]
       \/ /\ entry # 0
          /\ IF backend = "etcd" THEN Return(p, "exists", entry)
             ELSE Goes(p, "fetch") /\ UNCHANGED <<rev, told>>
          /\ UNCHANGED <<entry, writes, lives, creator>>
    /\ UNCHANGED <<backend, found>>
Fetch(p) ==
    /\ call[p] = "fetch"
    /\ IF entry # 0 THEN Return(p, "exists", entry) ELSE Return(p, "retry", 0)
    /\ UNCHANGED <<backend, entry, writes, lives, found, creator>>

\* EtcdBucket::update_path: the key is read, then put whatever its version was.
EtcdGet(p) ==
    /\ call[p] = "get"
    /\ IF entry = 0 THEN Return(p, "missing", 0) ELSE Goes(p, "put") /\ UNCHANGED <<rev, told>>
    /\ UNCHANGED <<backend, entry, writes, lives, found, creator>>
EtcdPut(p) ==
    /\ call[p] = "put" /\ Write
    /\ Return(p, "created", IF entry = 0 THEN 1 ELSE IF entry = rev[p] + 1 THEN rev[p] ELSE entry + 1)
    /\ UNCHANGED <<backend, found, creator>>

\* NATSBucket::update: compare and set on the revision; a stale one reads the entry, ...
NatsUpdate(p) ==
    /\ call[p] = "update"
    /\ IF entry = rev[p] THEN Write /\ Return(p, "created", Version)
       ELSE Goes(p, "entry") /\ UNCHANGED <<entry, writes, lives, rev, told>>
    /\ UNCHANGED <<backend, found, creator>>
NatsEntry(p) ==
    /\ call[p] = "entry" /\ found' = [found EXCEPT ![p] = entry]
    /\ Goes(p, IF entry = 0 THEN "create" ELSE "resync")
    /\ UNCHANGED <<backend, entry, writes, lives, rev, told, creator>>
\* ... and updates again, expecting the revision after the one it read (resync_update).
NatsResync(p) ==
    /\ call[p] = "resync"
    /\ IF entry = found[p] + 1 THEN Write /\ Return(p, "created", Version)
       ELSE Return(p, "error", 0) /\ UNCHANGED <<entry, writes, lives>>
    /\ UNCHANGED <<backend, found, creator>>

\* Anybody may delete the key; an expired lease does. With NATS that is a write too.
RemoteDelete ==
    /\ entry # 0 /\ entry' = 0 /\ writes < MaxWrites
    /\ writes' = IF backend = "nats" THEN writes + 1 ELSE writes
    /\ UNCHANGED <<backend, lives, call, found, rev, told, creator>>

RemoteNext ==
    \/ \E kind \in {"etcd", "nats"} : Open(kind)
    \/ RemoteDelete
    \/ \E p \in Publishers : \/ Publish(p) \/ Create(p) \/ Fetch(p) \/ EtcdGet(p) \/ EtcdPut(p)
                             \/ NatsUpdate(p) \/ NatsEntry(p) \/ NatsResync(p)

-----------------------------------------------------------------------------
\* Of the publishers that race to create an object, one is told Created and the others Exists, for
\* as long as the key lives.
OneCreator == \A n \in DOMAIN creator : \A p, q \in creator[n] : p = q

-----------------------------------------------------------------------------
(***************************************************************************)
(* storage/kv/mem.rs behind Manager::watch of storage/kv.rs: one bucket, its    *)
(* writers, and a watcher. A change is made under the bucket's lock and          *)
(* broadcast after it; a subscription comes with a snapshot, and a key of the    *)
(* snapshot is not reported again until it is deleted.                           *)
(***************************************************************************)
CONSTANTS Writers, MemoryKeysOf,      \* KeysOf[w]: the keys a writer may change
          Revisions,            \* what callers pass to insert
          Capacity,             \* WATCH_CAPACITY: events the broadcast channel keeps
          Channel,              \* WATCH_CHANNEL_CAPACITY of Manager::watch
          MaxOps

VARIABLES
    entries,                    \* the map: the revision of each key that is there
    unsent,                     \* what each writer has yet to broadcast
    memoryOutcome,                    \* what each writer was last told
    stage, seen, bus,           \* the watch: listing, snapshot, live; its seen; events for it
    lost,                       \* has an event been dropped on the way (lag, full channel)
    sent, memoryView,                 \* Manager's channel; the keys the consumer holds
    overtaken,                  \* writers whose unsent event is no longer of its key's last change
    crossed,                    \* keys whose last event since the watch began was of such a writer
    ops

memoryVars == <<entries, unsent, memoryOutcome, stage, seen, bus, lost, sent, memoryView, overtaken,
                crossed, ops>>

\* A key as entries() names it, with its bucket, and as watch() does.
Full(k) == <<"bucket", k>>
Bare(k) == <<"key", k>>
Put(name) == [op |-> "put", key |-> name]
MemoryDelete(name) == [op |-> "delete", key |-> name]

MemoryInit ==
    /\ entries = <<>> /\ unsent = [w \in Writers |-> <<>>] /\ memoryOutcome = [w \in Writers |-> "none"]
    /\ stage = "off" /\ seen = {} /\ bus = <<>> /\ lost = FALSE /\ sent = <<>> /\ memoryView = {}
    /\ overtaken = {} /\ crossed = {} /\ ops = 0

Working(w) == unsent[w] = <<>> /\ ops < MaxOps /\ ops' = ops + 1

\* A change of k: what other writers have yet to broadcast of it is out of date.
Overtakes(k) == overtaken' = overtaken \cup {v \in Writers : unsent[v] # <<>> /\ unsent[v][1].key = Bare(k)}

\* insert: a new key is stored; the same revision changes nothing; another revision overwrites
\* the value, which nobody is told of.
Insert(w, k, revision) ==
    /\ Working(w) /\ k \in MemoryKeysOf[w]
    /\ IF k \notin DOMAIN entries
         THEN /\ entries' = [x \in DOMAIN entries \cup {k} |-> IF x = k THEN revision ELSE entries[x]]
              /\ unsent' = [unsent EXCEPT ![w] = <<Put(Bare(k))>>] /\ Overtakes(k)
              /\ memoryOutcome' = [memoryOutcome EXCEPT ![w] = "created"]
         ELSE /\ memoryOutcome' = [memoryOutcome EXCEPT ![w] = IF entries[k] = revision THEN "exists" ELSE "created"]
              /\ entries' = [entries EXCEPT ![k] = revision] /\ UNCHANGED <<unsent, overtaken>>
    /\ UNCHANGED <<stage, seen, bus, lost, sent, memoryView, crossed>>

DeleteKey(w, k) ==
    /\ Working(w) /\ k \in MemoryKeysOf[w]
    /\ entries' = [x \in DOMAIN entries \ {k} |-> entries[x]]
    /\ IF k \in DOMAIN entries
         THEN unsent' = [unsent EXCEPT ![w] = <<MemoryDelete(Bare(k))>>] /\ Overtakes(k)
         ELSE UNCHANGED <<unsent, overtaken>>
    /\ memoryOutcome' = [memoryOutcome EXCEPT ![w] = "ok"]
    /\ UNCHANGED <<stage, seen, bus, lost, sent, memoryView, crossed>>

\* The event goes to the subscriber, if there is one; a full channel overwrites the oldest.
Broadcast(w) ==
    /\ unsent[w] # <<>> /\ unsent' = [unsent EXCEPT ![w] = <<>>]
    /\ LET full == Len(bus) = Capacity
       IN  IF stage \in {"replay", "live"}
             THEN /\ bus' = (IF full THEN Tail(bus) ELSE bus) \o unsent[w]
                  /\ lost' = (lost \/ full)
             ELSE UNCHANGED <<bus, lost>>
    /\ overtaken' = overtaken \ {w}
    /\ LET k == unsent[w][1].key[2]
       IN  crossed' = IF w \in overtaken THEN crossed \cup {k} ELSE crossed \ {k}
    /\ UNCHANGED <<entries, memoryOutcome, stage, seen, sent, memoryView, ops>>

\* Manager::watch: the entries go out first, under their full names; ...
WatchEntries ==
    /\ stage = "off" /\ stage' = "listed"
    /\ sent' = SetToSeq({Put(Full(k)) : k \in DOMAIN entries})
    /\ UNCHANGED <<entries, unsent, memoryOutcome, seen, bus, lost, memoryView, overtaken, crossed, ops>>

\* Mutant of Watch: the subscription does not come with what is there already.
WatchOnly ==
    /\ stage = "listed" /\ stage' = "replay" /\ bus' = <<>> /\ seen' = {} /\ crossed' = {}
    /\ UNCHANGED <<entries, unsent, memoryOutcome, lost, sent, memoryView, overtaken, ops>>

\* ... then MemoryBucketRef::watch: under the lock, a snapshot and the subscription.
Watch ==
    /\ stage = "listed" /\ stage' = "replay"
    /\ seen' = DOMAIN entries
    /\ bus' = <<>> /\ crossed' = {}
    /\ UNCHANGED <<entries, unsent, memoryOutcome, lost, sent, memoryView, overtaken, ops>>

\* try_send to the caller's channel drops what does not fit.
TrySend(events) ==
    IF Len(sent) + Len(events) <= Channel
      THEN sent' = sent \o events /\ UNCHANGED lost
      ELSE sent' = sent \o SubSeq(events, 1, Channel - Len(sent)) /\ lost' = TRUE

\* The snapshot is yielded first ...
Replay ==
    /\ stage = "replay" /\ stage' = "live"
    /\ TrySend(SetToSeq({Put(Bare(k)) : k \in seen}))
    /\ UNCHANGED <<entries, unsent, memoryOutcome, seen, bus, memoryView, overtaken, crossed, ops>>

\* ... then each event, unless it is a Put of a key that is seen.
Forward ==
    /\ stage = "live" /\ bus # <<>> /\ bus' = Tail(bus)
    /\ LET e == Head(bus)  k == e.key[2]
       IN  \/ e.op = "put" /\ k \in seen /\ UNCHANGED <<seen, sent, lost>>
           \/ e.op = "put" /\ k \notin seen /\ seen' = seen \cup {k} /\ TrySend(<<e>>)
           \/ e.op = "delete" /\ seen' = seen \ {k} /\ TrySend(<<e>>)
    /\ UNCHANGED <<entries, unsent, memoryOutcome, stage, memoryView, overtaken, crossed, ops>>

\* The caller keeps the set of keys it has been told of.
Consume ==
    /\ sent # <<>> /\ sent' = Tail(sent)
    /\ memoryView' = IF Head(sent).op = "put" THEN memoryView \cup {Head(sent).key} ELSE memoryView \ {Head(sent).key}
    /\ UNCHANGED <<entries, unsent, memoryOutcome, stage, seen, bus, lost, overtaken, crossed, ops>>

MemoryNext ==
    \/ \E w \in Writers : \/ \E k \in MemoryKeysOf[w] : DeleteKey(w, k) \/ \E r \in Revisions : Insert(w, k, r)
                          \/ Broadcast(w)
    \/ WatchEntries \/ Watch \/ Replay \/ Forward \/ Consume

-----------------------------------------------------------------------------
Quiet == stage = "live" /\ bus = <<>> /\ sent = <<>> /\ \A w \in Writers : unsent[w] = <<>>

\* Once everything has been delivered, and nothing was dropped, the watcher knows the keys that
\* are there, whatever changed while it listed, subscribed and replayed (mem.rs watch).  The
\* exception is a key whose events crossed: insert and delete broadcast after they unlock, so of
\* two writers the one that changed the key first may be the last to tell, and the watcher is
\* wrong about it until it changes again.
ViewConverges ==
    Quiet /\ ~lost => \A w \in Writers : \A k \in MemoryKeysOf[w] \ crossed :
                          Bare(k) \in memoryView <=> k \in DOMAIN entries

-----------------------------------------------------------------------------
(***************************************************************************)
(* storage/kv/file.rs: processes that share a bucket as a directory. Each       *)
(* touches the files it owns and deletes the ones that are too old, every third  *)
(* of its TTL but not more often than once a second; one tick is a second.       *)
(***************************************************************************)
CONSTANTS Processes, FileKeysOf,    \* KeysOf[p]: the keys a process publishes
          TTLs,                 \* of get_or_create_bucket; DefaultTTL is get_bucket's
          Jitter,               \* how late, in ticks, the loop of a live process may run
          Buffer,               \* WATCH_CHANNEL_CAPACITY of the file watcher
          MaxChanges

VARIABLES
    age,                        \* the seconds since each file was last modified; -1: no file
    dir,                        \* active_dirs of each process: the TTL of the bucket, or 0
    owned,                      \* owned_files of each process
    timer, alive,               \* seconds since its expiry_loop ran; is the process running
    writing,                    \* an insert under way: the key and the age of its temporary file
    watcher, notices, fileView,     \* a watch: "off", "listed" or "on"; its channel, the consumer
    gap,                        \* keys that changed after the listing and have not been noticed since
    dropped, changes

fileVars == <<age, dir, owned, timer, alive, writing, watcher, notices, fileView, gap, dropped, changes>>
Keys == UNION {FileKeysOf[p] : p \in Processes}
DefaultTTL == 10
MinKeepAlive == 1

FileInit ==
    /\ age = [k \in Keys |-> -1] /\ dir = [p \in Processes |-> 0]
    /\ owned = [p \in Processes |-> {}] /\ timer = [p \in Processes |-> 0] /\ alive = Processes
    /\ writing = [p \in Processes |-> <<>>]
    /\ watcher = "off" /\ notices = <<>> /\ fileView = {} /\ gap = {} /\ dropped = FALSE /\ changes = 0

Larger(m, n) == IF m > n THEN m ELSE n
Smaller(m, n) == IF m < n THEN m ELSE n
\* Mutant of Interval: one loop per TTL.
IntervalWhole(p) == IF dir[p] = 0 THEN DefaultTTL ELSE Smaller(DefaultTTL, dir[p])

\* expiry_loop's interval, from shortest_ttl.
Interval(p) ==
    Larger((IF dir[p] = 0 THEN DefaultTTL ELSE Smaller(DefaultTTL, dir[p])) \div 3, MinKeepAlive)

\* Files change.  The directory watcher's callback is try_send, which drops what does not fit;
\* nobody tells of a change before the watcher is there.
Notify(op, files) ==
    IF watcher # "on" \/ files = {}
    THEN gap' = (IF watcher = "listed" THEN gap \cup files ELSE gap) /\ UNCHANGED <<notices, dropped>>
    ELSE /\ gap' = gap \ files
         /\ IF Len(notices) + Cardinality(files) > Buffer THEN dropped' = TRUE /\ UNCHANGED notices
            ELSE notices' = notices \o SetToSeq({[op |-> op, key |-> k] : k \in files}) /\ UNCHANGED dropped

\* get_or_create_bucket; get_bucket registers the default TTL. The first TTL stays.
OpenBucket(p, ttl) ==
    /\ p \in alive /\ dir[p] = 0
    /\ dir' = [dir EXCEPT ![p] = Larger(ttl, MinKeepAlive)]
    /\ UNCHANGED <<age, owned, timer, alive, writing, watcher, notices, fileView, gap, dropped, changes>>

\* insert: a temporary file, then its rename, then the path is owned.
InsertTemp(p, k) ==
    /\ p \in alive /\ dir[p] # 0 /\ k \in FileKeysOf[p] /\ writing[p] = <<>> /\ changes < MaxChanges
    /\ writing' = [writing EXCEPT ![p] = <<k, "temp">>] /\ changes' = changes + 1
    /\ UNCHANGED <<age, dir, owned, timer, alive, watcher, notices, fileView, gap, dropped>>
InsertRename(p) ==
    /\ p \in alive /\ writing[p] # <<>> /\ writing[p][2] = "temp"
    /\ writing' = [writing EXCEPT ![p][2] = "renamed"] /\ age' = [age EXCEPT ![writing[p][1]] = 0]
    /\ Notify("put", {writing[p][1]})
    /\ UNCHANGED <<dir, owned, timer, alive, watcher, fileView, changes>>
InsertOwn(p) ==
    /\ p \in alive /\ writing[p] # <<>> /\ writing[p][2] = "renamed"
    /\ owned' = [owned EXCEPT ![p] = @ \cup {writing[p][1]}] /\ writing' = [writing EXCEPT ![p] = <<>>]
    /\ UNCHANGED <<age, dir, timer, alive, watcher, notices, fileView, gap, dropped, changes>>

DeleteFile(p, k) ==
    /\ p \in alive /\ dir[p] # 0 /\ k \in FileKeysOf[p] /\ writing[p] = <<>> /\ changes < MaxChanges
    /\ age[k] # -1
    /\ owned' = [owned EXCEPT ![p] = @ \ {k}] /\ age' = [age EXCEPT ![k] = -1]
    /\ Notify("delete", {k}) /\ changes' = changes + 1
    /\ UNCHANGED <<dir, timer, alive, writing, watcher, fileView>>

\* expiry_loop: keep_alive touches the owned files that are still there, then
\* delete_expired_files removes every file older than this process's TTL.
ExpiryLoop(p) ==
    /\ p \in alive /\ timer[p] >= Interval(p) /\ timer' = [timer EXCEPT ![p] = 0]
    /\ LET touched == [k \in Keys |-> IF dir[p] # 0 /\ k \in owned[p] /\ age[k] # -1 THEN 0 ELSE age[k]]
           expired == {k \in Keys : dir[p] # 0 /\ touched[k] > dir[p]}
       IN  /\ age' = [k \in Keys |-> IF k \in expired THEN -1 ELSE touched[k]]
           /\ Notify("delete", expired)
    /\ UNCHANGED <<dir, owned, alive, writing, watcher, fileView, changes>>

\* A second passes; no live process is later with its loop than Jitter allows, and none stops
\* between the rename and the set of owned files, where it does not await.
Tick ==
    /\ \A p \in Processes : ~(writing[p] # <<>> /\ writing[p][2] = "renamed")
    /\ \A p \in alive : timer[p] < Interval(p) + Jitter
    /\ age' = [k \in Keys |-> IF age[k] = -1 THEN -1 ELSE Smaller(age[k] + 1, DefaultTTL + 1)]
    /\ timer' = [p \in Processes |-> IF p \in alive THEN timer[p] + 1 ELSE 0]
    /\ UNCHANGED <<dir, owned, alive, writing, watcher, notices, fileView, gap, dropped, changes>>

\* shutdown deletes the owned files; a crash does not.
Shutdown(p) ==
    /\ p \in alive /\ alive' = alive \ {p}
    /\ age' = [k \in Keys |-> IF k \in owned[p] THEN -1 ELSE age[k]]
    /\ Notify("delete", {k \in owned[p] : age[k] # -1})
    /\ dir' = [dir EXCEPT ![p] = 0] /\ owned' = [owned EXCEPT ![p] = {}]
    /\ writing' = [writing EXCEPT ![p] = <<>>]
    /\ UNCHANGED <<timer, watcher, fileView, changes>>
Crash(p) ==
    /\ p \in alive /\ alive' = alive \ {p}
    /\ dir' = [dir EXCEPT ![p] = 0] /\ owned' = [owned EXCEPT ![p] = {}]
    /\ writing' = [writing EXCEPT ![p] = <<>>]
    /\ UNCHANGED <<age, timer, watcher, notices, fileView, gap, dropped, changes>>

\* Manager::watch: entries() is read, ...
ListDirectory ==
    /\ watcher = "off" /\ watcher' = "listed" /\ fileView' = {k \in Keys : age[k] # -1}
    /\ UNCHANGED <<age, dir, owned, timer, alive, writing, notices, gap, dropped, changes>>
\* ... then Directory::watch starts, which tells of what changes from then on; ...
WatchDirectory ==
    /\ watcher = "listed" /\ watcher' = "on"
    /\ UNCHANGED <<age, dir, owned, timer, alive, writing, notices, fileView, gap, dropped, changes>>
\* ... and for each notice, a put is reported if the file can be read by now, a removal always.
Report ==
    /\ notices # <<>> /\ notices' = Tail(notices)
    /\ LET n == Head(notices)
       IN  fileView' = IF n.op = "delete" THEN fileView \ {n.key}
                       ELSE IF age[n.key] # -1 THEN fileView \cup {n.key} ELSE fileView
    /\ UNCHANGED <<age, dir, owned, timer, alive, writing, watcher, gap, dropped, changes>>

FileNext ==
    \/ Tick \/ ListDirectory \/ WatchDirectory \/ Report
    \/ \E p \in Processes :
        \/ \E ttl \in TTLs : OpenBucket(p, ttl)
        \/ \E k \in FileKeysOf[p] : InsertTemp(p, k) \/ DeleteFile(p, k)
        \/ InsertRename(p) \/ InsertOwn(p) \/ ExpiryLoop(p) \/ Shutdown(p) \/ Crash(p)

-----------------------------------------------------------------------------
\* The file of a process that is running, and has not deleted it, is there: nobody's sweep takes
\* it, however late the loops run.
LiveKept == \A p \in alive : \A k \in owned[p] : age[k] # -1

\* The watcher of a directory ends up with the keys that are there, but for those that changed
\* between the listing and the start of the watch, and not since: nobody repeats these.
WatchSettles ==
    watcher = "on" /\ notices = <<>> /\ ~dropped => \A k \in Keys \ gap : k \in fileView <=> age[k] # -1
=============================================================================
