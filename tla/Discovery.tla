------------------------------ MODULE Discovery ------------------------------
(****************************************************************************)
(* runtime/src/discovery: who is there, in two sections: over a key-value   *)
(* store, and over the objects of a Kubernetes cluster.                     *)
(****************************************************************************)
EXTENDS Naturals, Sequences, FiniteSets, SequencesExt, TLC

-----------------------------------------------------------------------------
(***************************************************************************)
(* Service discovery as the Discovery trait promises it, over the key-value *)
(* stores that processes share (KVStoreDiscovery on etcd, which stands for  *)
(* NATS too, or on files) and over the in-process registry of the tests     *)
(* (MockDiscovery): specs become instances, models are registered with a    *)
(* conflict check before and after the write, and a watcher folds the       *)
(* stream of discovery events into one value per instance id                *)
(* (watch_and_extract_field).                                               *)
(*                                                                          *)
(* A path is <<namespace, servicegroup, name>> and a query a prefix of one: *)
(* All..., Namespaced..., ServiceGroup... and the exact queries have 0 to 3 *)
(* elements.  A model card is what the code reads of it: its display name,  *)
(* its source, whether it says lora, and whether the watcher can decode it. *)
(***************************************************************************)
CONSTANTS
    Clients,      \* processes, each with its instance_id
    Paths,        \* paths things are registered under
    StoreCards,        \* cards: [name, source, lora, good]
    ModelSuffixes,     \* model suffixes, "none" among them
    Kinds,        \* subset of {"portname", "model", "channel"}
    StartsWith,   \* pairs <<a, b>> of names where a starts with b
    WatchQuery,   \* the watcher's query (of models)
    MaxCalls      \* bound on calls of all clients

VARIABLES
    backend,      \* "none", "etcd", "file" or "mock"
    store,        \* registered instances
    storeCalls,        \* calls made so far
    storeDoing,        \* per client: the call it is in
    held,         \* instances whose registration returned Ok
    watching,     \* the watch: "off", "listed" or "on"
    pending,      \* watch events not consumed yet
    missed,       \* keys that changed after the listing and have had no readable event since
    known,        \* mock: ids the polling watcher has reported
    state,        \* extractor: value per DiscoveryInstanceId
    storeView          \* published: value per instance id

storeVars == <<backend, store, storeCalls, storeDoing, held, watching, pending, missed, known, state,
              storeView>>

-----------------------------------------------------------------------------
\* DiscoverySpec::with_instance_id
Spec2Instance(kind, path, card, suffix, c) ==
    [kind |-> kind, path |-> path, id |-> c, card |-> card, suffix |-> suffix]

\* DiscoveryInstance::id: cards and transports are not part of the identity.
StoreIdOf(i) == [kind |-> i.kind, path |-> i.path, id |-> i.id, suffix |-> i.suffix]

\* KeySchema: an empty suffix is left out of the key.
KeyOf(i) == [StoreIdOf(i) EXCEPT !.suffix = IF @ = "" THEN "none" ELSE @]

\* KeySchema::matches_prefix compares strings: the last element of a query
\* also matches every longer name that starts with it.
MatchesPrefix(path, query) ==
    query = <<>> \/ LET n == Len(query) IN
        /\ SubSeq(path, 1, n - 1) = SubSeq(query, 1, n - 1)
        /\ path[n] = query[n] \/ <<path[n], query[n]>> \in StartsWith

\* QueryMatcher, instance_matches_query: equality element by element.
MatchesQuery(path, query) == SubSeq(path, 1, Len(query)) = query

Matches(path, query) ==
    IF backend # "mock" THEN MatchesPrefix(path, query) ELSE MatchesQuery(path, query)

\* Discovery::list of the models under a query.
ListModels(query) == {i \in store : i.kind = "model" /\ Matches(i.path, query)}

\* ModelRegistrationIdentity: a LoRA is compared by its base, others by name.
IsLora(i) == i.suffix # "none" \/ i.card.lora
Base(i) == IF i.card.source = "none" THEN i.card.name ELSE i.card.source
Compatible(i, j) ==
    IF IsLora(i) \/ IsLora(j) THEN Base(i) = Base(j) ELSE i.card.name = j.card.name

\* find_conflicting_model_name
Conflicts(i) == {j \in ListModels(i.path) : ~Compatible(i, j)}

-----------------------------------------------------------------------------
Put(i) == [type |-> "put", inst |-> i, key |-> KeyOf(i)]
Delete(k) == [type |-> "delete", key |-> k]

\* The key-value store changes at k: an open watch gets the event, and nobody repeats it to one
\* that has listed and not subscribed yet.
Notify(e) ==
    IF watching = "on"
    THEN /\ pending' = Append(pending, e)
         /\ missed' = IF e.type = "put" /\ ~e.inst.card.good THEN missed ELSE missed \ {e.key}
    ELSE /\ missed' = IF watching = "listed" THEN missed \cup {e.key} ELSE missed
         /\ UNCHANGED pending

\* register_internal inserts with revision 0: on etcd that creates a key, and leaves one that is
\* there alone; a file is replaced.
Insert(i) ==
    LET there == {j \in store : KeyOf(j) = KeyOf(i)} IN
    \/ backend = "mock" /\ store' = store \cup {i} /\ UNCHANGED <<pending, missed>>
    \/ backend = "etcd" /\ there # {} /\ UNCHANGED <<store, pending, missed>>
    \/ /\ backend = "file" \/ (backend = "etcd" /\ there = {})
       /\ store' = (store \ there) \cup {i} /\ Notify(Put(i))

\* unregister
Remove1(i) ==
    LET there == {j \in store : KeyOf(j) = KeyOf(i)} IN
    \/ /\ backend = "mock" /\ store' = {j \in store : StoreIdOf(j) # StoreIdOf(i)}
       /\ UNCHANGED <<pending, missed>>
    \/ backend # "mock" /\ there = {} /\ UNCHANGED <<store, pending, missed>>
    \/ backend # "mock" /\ there # {} /\ store' = store \ there /\ Notify(Delete(KeyOf(i)))

StoreInit ==
    /\ backend = "none" /\ store = {} /\ storeCalls = 0
    /\ storeDoing = [c \in Clients |-> [at |-> "idle"]]
    /\ held = {}
    /\ watching = "off" /\ pending = <<>> /\ missed = {} /\ known = {}
    /\ state = <<>> /\ storeView = <<>>

Open(b) ==
    /\ backend = "none" /\ backend' = b
    /\ UNCHANGED <<store, storeCalls, storeDoing, held, watching, pending, missed, known, state, storeView>>

Watcher == <<watching, known, state, storeView>>

\* Discovery::register: a model is first looked up, everything else written.
Register(c, kind, path, card, suffix) ==
    LET i == Spec2Instance(kind, path, card, suffix, c) IN
    /\ backend # "none" /\ storeDoing[c].at = "idle" /\ storeCalls < MaxCalls
    /\ storeCalls' = storeCalls + 1
    /\ IF kind # "model"
       THEN Insert(i) /\ held' = {j \in held : KeyOf(j) # KeyOf(i)} \cup {i}
                      /\ UNCHANGED storeDoing
       ELSE /\ IF Conflicts(i) = {}
               THEN storeDoing' = [storeDoing EXCEPT ![c] = [at |-> "write", inst |-> i]]
               ELSE UNCHANGED storeDoing
            /\ UNCHANGED <<store, pending, missed, held>>
    /\ UNCHANGED <<backend, Watcher>>

\* register_internal of a model that met no conflict.
Write(c) ==
    /\ storeDoing[c].at = "write"
    /\ Insert(storeDoing[c].inst)
    /\ storeDoing' = [storeDoing EXCEPT ![c].at = "recheck"]
    /\ UNCHANGED <<backend, storeCalls, held, Watcher>>

\* Mutant of Recheck: no second list.
RecheckNothing(c) ==
    /\ storeDoing[c].at = "recheck"
    /\ held' = {j \in held : KeyOf(j) # KeyOf(storeDoing[c].inst)} \cup {storeDoing[c].inst}
    /\ storeDoing' = [storeDoing EXCEPT ![c] = [at |-> "idle"]]
    /\ UNCHANGED <<backend, store, storeCalls, pending, missed, Watcher>>

\* The second look: a model written meanwhile makes this one roll back.
Recheck(c) ==
    LET i == storeDoing[c].inst IN
    /\ storeDoing[c].at = "recheck"
    /\ IF Conflicts(i) = {}
       THEN /\ held' = {j \in held : KeyOf(j) # KeyOf(i)} \cup {i}
            /\ storeDoing' = [storeDoing EXCEPT ![c] = [at |-> "idle"]]
       ELSE storeDoing' = [storeDoing EXCEPT ![c].at = "rollback"] /\ UNCHANGED held
    /\ UNCHANGED <<backend, store, storeCalls, pending, missed, Watcher>>

\* The second list fails: the registration is an error, and its entry stays.
RecheckFails(c) ==
    /\ storeDoing[c].at = "recheck"
    /\ storeDoing' = [storeDoing EXCEPT ![c] = [at |-> "idle"]]
    /\ UNCHANGED <<backend, store, storeCalls, held, pending, missed, Watcher>>

\* The roll-back; a failed unregister is reported and leaves the entry.
Rollback(c) ==
    /\ storeDoing[c].at = "rollback"
    /\ \/ Remove1(storeDoing[c].inst)
       \/ UNCHANGED <<store, pending, missed>>
    /\ storeDoing' = [storeDoing EXCEPT ![c] = [at |-> "idle"]]
    /\ UNCHANGED <<backend, storeCalls, held, Watcher>>

Unregister(c, i) ==
    /\ i.id = c /\ storeDoing[c].at = "idle"
    /\ Remove1(i)
    /\ held' = held \ {i}
    /\ UNCHANGED <<backend, storeCalls, storeDoing, Watcher>>

-----------------------------------------------------------------------------
\* list_and_watch: of a key-value store the entries are listed first, ...; the mock starts its
\* polling loop from nothing.
ListAndWatch ==
    /\ backend # "none" /\ watching = "off"
    /\ IF backend = "mock" THEN watching' = "on" /\ UNCHANGED pending
       ELSE LET s == SetToSeq(store) IN
            watching' = "listed" /\ pending' = [n \in DOMAIN s |-> Put(s[n])]
    /\ UNCHANGED <<backend, store, storeCalls, storeDoing, held, missed, known, state, storeView>>

\* ... and then Bucket::watch subscribes to what comes from then on.
Subscribe ==
    /\ watching = "listed" /\ watching' = "on"
    /\ UNCHANGED <<backend, store, storeCalls, storeDoing, held, pending, missed, known, state, storeView>>

\* diff_snapshots: additions first, then what is gone.
DiffSnapshots(current) ==
    LET added == SetToSeq({i \in current : StoreIdOf(i) \notin known})
        removed == SetToSeq(known \ {StoreIdOf(i) : i \in current}) IN
    [n \in DOMAIN added |-> Put(added[n])] \o [n \in DOMAIN removed |-> Delete(removed[n])]

\* MockDiscovery's loop: it polls again once the consumer has taken all it
\* found the last time.
Poll ==
    LET current == ListModels(WatchQuery) IN
    /\ backend = "mock" /\ watching = "on" /\ pending = <<>>
    /\ DiffSnapshots(current) # <<>>
    /\ known' = {StoreIdOf(i) : i \in current}
    /\ pending' = DiffSnapshots(current)
    /\ UNCHANGED <<backend, store, storeCalls, storeDoing, held, watching, missed, state, storeView>>

\* collapse_to_instance_view: one value per instance id, a base model's when
\* there is one; which of several follows from the map's iteration order.
Collapsed(s) ==
    LET ids == {k.id : k \in DOMAIN s}
        of(id) == {k \in DOMAIN s : k.id = id}
        bases(id) == {k \in of(id) : k.suffix = "none"} IN
    {v \in [ids -> {s[k] : k \in DOMAIN s}] :
        \A id \in ids : \E k \in IF bases(id) # {} THEN bases(id) ELSE of(id) : v[id] = s[k]}

\* watch_event_into_discovery_event filters by bucket and prefix and rebuilds
\* the id of a deleted entry from its key; the mock's events are filtered.
Relevant(e) == e.key.kind = "model" /\ (backend # "mock" => MatchesPrefix(e.key.path, WatchQuery))

\* run_extractor_loop: apply one event and publish the folded view.  A card
\* that does not decode is skipped, whatever was there before it.
Extract ==
    LET e == Head(pending)
        skip == ~Relevant(e) \/ (e.type = "put" /\ ~e.inst.card.good)
        next == IF e.type = "put" THEN [k \in DOMAIN state \cup {StoreIdOf(e.inst)} |->
                                          IF k = StoreIdOf(e.inst) THEN e.inst.card ELSE state[k]]
                ELSE [k \in DOMAIN state \ {e.key} |-> state[k]] IN
    /\ pending # <<>>
    /\ pending' = Tail(pending)
    /\ IF skip THEN UNCHANGED <<state, storeView>>
       ELSE state' = next /\ storeView' \in Collapsed(next)
    /\ UNCHANGED <<backend, store, storeCalls, storeDoing, held, watching, missed, known>>

StoreNext ==
    \/ \E b \in {"etcd", "file", "mock"} : Open(b)
    \/ \E c \in Clients :
        \/ \E kind \in Kinds, path \in Paths, card \in StoreCards, suffix \in ModelSuffixes :
              (kind # "model" => suffix = "none") /\ Register(c, kind, path, card, suffix)
        \/ Write(c) \/ Recheck(c) \/ RecheckFails(c) \/ Rollback(c)
        \/ \E i \in held : Unregister(c, i)
    \/ ListAndWatch \/ Subscribe \/ Poll \/ Extract

StoreSpec == StoreInit /\ [][StoreNext]_storeVars

-----------------------------------------------------------------------------
\* What stands under a key for which a registration returned Ok; on etcd that may be what an
\* earlier registration put there.
Standing == {i \in store : \E j \in held : KeyOf(j) = KeyOf(i)}

\* Of two models that stand registered under one path, both by registrations that
\* returned Ok, neither conflicts with the other, whatever the interleaving of
\* their looks and writes and whichever of these fail (Discovery::register's check,
\* write, check again).
OneModelPerPath ==
    \A i, j \in Standing : i.kind = "model" /\ j.kind = "model" /\ i.path = j.path
        => Compatible(i, j)

\* Once the watcher has consumed what there is, it has a value for each instance
\* with a readable model under its query and for none without a model
\* (run_extractor_loop); a file replaced by an unreadable card leaves the old value.
\* Of an instance that changed between the listing and the subscription, and has
\* had no readable event since, nothing is promised: nobody repeats the change
\* (Manager::watch).
\* The mock's polling loop misses what comes back under a known id between two
\* polls, so of it only that it keeps nothing that is gone is promised.
ViewFollows ==
    LET models == ListModels(WatchQuery)
        all == {i.id : i \in models}
        good == {i.id : i \in {m \in models : m.card.good}}
        unsure == {k.id : k \in missed} IN
    watching = "on" /\ pending = <<>> =>
        /\ backend # "mock" => /\ good \ unsure \subseteq DOMAIN storeView
                               /\ DOMAIN storeView \ unsure \subseteq all
        /\ backend = "etcd" => DOMAIN storeView \ unsure = good \ unsure
        /\ backend = "mock" /\ known = {StoreIdOf(i) : i \in models} => DOMAIN storeView \subseteq all

-----------------------------------------------------------------------------
(***************************************************************************)
(* Discovery over native Kubernetes objects.  The portnames of a           *)
(* servicegroup share one Service, which every pod changes by reading,     *)
(* merging and applying it, and have one EndpointSlice per pod; a model is *)
(* a ConfigMap and an event channel a Lease.  Slices, ConfigMaps and       *)
(* Leases are owned by their pod and go with it, the Service stays.  Every *)
(* process runs a daemon with four reflectors that debounces their ticks,  *)
(* aggregates what they hold into a snapshot and publishes it; list and    *)
(* list_and_watch read only that snapshot.                                 *)
(* The servicegroup, the Kubernetes namespace and the observer are fixed.  *)
(***************************************************************************)
CONSTANTS
    Pods,
    PortNames,    \* portnames of the servicegroup
    PortOf,       \* [Pods -> port]: the port of a pod's transport
    KubeCards,        \* model cards
    MaxOps        \* bound on registrations, removals and crashes

VARIABLES
    service,      \* the Service: ports by portname; without ports there is none
    slices,       \* EndpointSlices: [pod, name, port]
    configs,      \* ConfigMaps: [pod, card]
    leases,       \* Leases: [pod]
    meta,         \* per pod: its local DiscoveryMetadata
    kubeDoing,        \* per pod: the call it is in
    ops,          \* calls so far
    stores,       \* what the four reflectors hold
    notify,       \* the Notify permit
    daemon,       \* "wait", "sleep", "drained" or "stopped"
    snapshot,     \* the published snapshot
    fresh,        \* the watch channel has a snapshot its watcher has not seen
    kubeView          \* list_and_watch: what its consumer has been told

objects == <<service, slices, configs, leases>>
kubeCalls == <<meta, kubeDoing, ops>>
observer == <<stores, notify, daemon, snapshot, fresh, kubeView>>
kubeVars == <<service, slices, configs, leases, meta, kubeDoing, ops,
              stores, notify, daemon, snapshot, fresh, kubeView>>

Idle == [at |-> "idle"]

-----------------------------------------------------------------------------
(* Instances and objects. *)

PortInst(p, n) == [kind |-> "portname", pod |-> p, name |-> n]
ModelInst(p, c) == [kind |-> "model", pod |-> p, card |-> c]
EventInst(p) == [kind |-> "event", pod |-> p]
\* DiscoveryInstance::id leaves the card out.
KubeIdOf(i) == IF i.kind = "model" THEN [kind |-> "model", pod |-> i.pod] ELSE i

\* build_service, build_endpoint_slice
ServiceOf(p, n) == n :> PortOf[p]
SliceOf(p, n) == [pod |-> p, name |-> n, port |-> PortOf[p]]

\* apply_or_merge_portname_service: ports of the same name take the new value,
\* the others are kept from the Service that was read.
Merged(read, p, n) == ServiceOf(p, n) @@ read

\* cleanup_portname_service_port: the Service without an unused port,
\* deleted when that was its last.
Without(read, n) ==
    [k \in DOMAIN read \ {n} |-> read[k]]

\* endpoint_instance_from_service_and_slice: a slice counts when the Service
\* has a port of its name with its number.
Recovers(svc, s) == s.name \in DOMAIN svc /\ svc[s.name] = s.port

\* aggregate: everything of the pods that have a ready slice.
Aggregate(o) ==
    LET ready == {s.pod : s \in o.slices}
        all == {PortInst(s.pod, s.name) : s \in {x \in o.slices : Recovers(o.service, x)}}
                 \cup {ModelInst(m.pod, m.card) : m \in o.configs}
                 \cup {EventInst(l.pod) : l \in o.leases} IN
    {i \in all : i.pod \in ready}

-----------------------------------------------------------------------------
KubeInit ==
    /\ service = <<>> /\ slices = {} /\ configs = {} /\ leases = {}
    /\ meta = [p \in Pods |-> {}] /\ kubeDoing = [p \in Pods |-> Idle] /\ ops = 0
    /\ stores = [service |-> <<>>, slices |-> {}, configs |-> {}, leases |-> {}]
    /\ notify = FALSE /\ daemon = "wait" /\ snapshot = {} /\ fresh = FALSE /\ kubeView = <<>>

\* A call takes the pod's write lock on its metadata for its whole duration.
MayStart(p) == kubeDoing[p] = Idle /\ ops < MaxOps

\* register_internal: the local metadata first, then the cluster.
RegisterPortName(p, n) ==
    /\ MayStart(p)
    /\ meta' = [meta EXCEPT ![p] = @ \cup {PortInst(p, n)}]
    /\ kubeDoing' = [kubeDoing EXCEPT ![p] = [at |-> "get", name |-> n, before |-> meta[p]]]
    /\ ops' = ops + 1
    /\ UNCHANGED <<objects, observer>>

GetService(p) ==
    /\ kubeDoing[p].at = "get"
    /\ kubeDoing' = [kubeDoing EXCEPT ![p] = [at |-> "apply", name |-> @.name, before |-> @.before,
                                              read |-> service]]
    /\ UNCHANGED <<objects, meta, ops, observer>>

\* Server-side apply by the one field manager all workers use: the Service
\* becomes what was applied.
ApplyService(p) ==
    /\ kubeDoing[p].at = "apply"
    /\ service' = Merged(kubeDoing[p].read, p, kubeDoing[p].name)
    /\ kubeDoing' = [kubeDoing EXCEPT ![p] = [at |-> "slice", name |-> @.name, before |-> @.before]]
    /\ UNCHANGED <<slices, configs, leases, meta, ops, observer>>

ApplySlice(p) ==
    /\ kubeDoing[p].at = "slice"
    /\ slices' = {s \in slices : s.pod # p \/ s.name # kubeDoing[p].name} \cup {SliceOf(p, kubeDoing[p].name)}
    /\ kubeDoing' = [kubeDoing EXCEPT ![p] = Idle]
    /\ UNCHANGED <<service, configs, leases, meta, ops, observer>>

UnregisterPortName(p, n) ==
    /\ MayStart(p) /\ PortInst(p, n) \in meta[p]
    /\ meta' = [meta EXCEPT ![p] = @ \ {PortInst(p, n)}]
    /\ kubeDoing' = [kubeDoing EXCEPT ![p] = [at |-> "delete", name |-> n, before |-> meta[p]]]
    /\ ops' = ops + 1
    /\ UNCHANGED <<objects, observer>>

DeleteSlice(p) ==
    /\ kubeDoing[p].at = "delete"
    /\ slices' = {s \in slices : s.pod # p \/ s.name # kubeDoing[p].name}
    /\ kubeDoing' = [kubeDoing EXCEPT ![p].at = "remaining"]
    /\ UNCHANGED <<service, configs, leases, meta, ops, observer>>

\* cleanup_portname_service_port: done when another slice has the port.
ListRemaining(p) ==
    /\ kubeDoing[p].at = "remaining"
    /\ kubeDoing' = [kubeDoing EXCEPT ![p] =
                IF \E s \in slices : s.name = @.name /\ s.pod # p THEN Idle
                ELSE [at |-> "cleanup", name |-> @.name, before |-> @.before]]
    /\ UNCHANGED <<objects, meta, ops, observer>>

ReadService(p) ==
    /\ kubeDoing[p].at = "cleanup"
    /\ kubeDoing' = [kubeDoing EXCEPT ![p] =
                IF service = <<>> THEN Idle
                ELSE [at |-> "shrink", name |-> @.name, before |-> @.before, read |-> service]]
    /\ UNCHANGED <<objects, meta, ops, observer>>

ShrinkService(p) ==
    /\ kubeDoing[p].at = "shrink"
    /\ service' = Without(kubeDoing[p].read, kubeDoing[p].name)
    /\ kubeDoing' = [kubeDoing EXCEPT ![p] = Idle]
    /\ UNCHANGED <<slices, configs, leases, meta, ops, observer>>

\* A call to the API server fails: the local metadata is rolled back, what has
\* been done in the cluster is not.
CallFails(p) ==
    /\ kubeDoing[p] # Idle
    /\ meta' = [meta EXCEPT ![p] = kubeDoing[p].before]
    /\ kubeDoing' = [kubeDoing EXCEPT ![p] = Idle]
    /\ UNCHANGED <<objects, ops, observer>>

\* Models and event channels: one object, one call.
RegisterModel(p, c) ==
    /\ MayStart(p)
    /\ configs' = {m \in configs : m.pod # p} \cup {[pod |-> p, card |-> c]}
    /\ meta' = [meta EXCEPT ![p] = {i \in @ : i.kind # "model"} \cup {ModelInst(p, c)}]
    /\ ops' = ops + 1
    /\ UNCHANGED <<service, slices, leases, kubeDoing, observer>>

UnregisterModel(p) ==
    /\ MayStart(p) /\ \E i \in meta[p] : i.kind = "model"
    /\ configs' = {m \in configs : m.pod # p}
    /\ meta' = [meta EXCEPT ![p] = {i \in @ : i.kind # "model"}]
    /\ ops' = ops + 1
    /\ UNCHANGED <<service, slices, leases, kubeDoing, observer>>

RegisterEvent(p) ==
    /\ MayStart(p)
    /\ leases' = leases \cup {[pod |-> p]}
    /\ meta' = [meta EXCEPT ![p] = @ \cup {EventInst(p)}]
    /\ ops' = ops + 1
    /\ UNCHANGED <<service, slices, configs, kubeDoing, observer>>

UnregisterEvent(p) ==
    /\ MayStart(p) /\ EventInst(p) \in meta[p]
    /\ leases' = leases \ {[pod |-> p]}
    /\ meta' = [meta EXCEPT ![p] = @ \ {EventInst(p)}]
    /\ ops' = ops + 1
    /\ UNCHANGED <<service, slices, configs, kubeDoing, observer>>

\* A pod goes and the garbage collector removes what it owns.
PodGone(p) ==
    /\ ops < MaxOps /\ ops' = ops + 1
    /\ slices' = {s \in slices : s.pod # p}
    /\ configs' = {m \in configs : m.pod # p}
    /\ leases' = {l \in leases : l.pod # p}
    /\ meta' = [meta EXCEPT ![p] = {}] /\ kubeDoing' = [kubeDoing EXCEPT ![p] = Idle]
    /\ UNCHANGED <<service, observer>>

-----------------------------------------------------------------------------
Current == [service |-> service, slices |-> slices, configs |-> configs, leases |-> leases]

\* A reflector catches up and ticks (spawn_reflector).
Reflect(kind) ==
    /\ stores[kind] # Current[kind]
    /\ stores' = [stores EXCEPT ![kind] = Current[kind]]
    /\ notify' = TRUE
    /\ UNCHANGED <<objects, kubeCalls, daemon, snapshot, fresh, kubeView>>

Notified ==
    /\ daemon = "wait" /\ notify
    /\ daemon' = "sleep" /\ notify' = FALSE
    /\ UNCHANGED <<objects, kubeCalls, stores, snapshot, fresh, kubeView>>

\* The debounce is over: the ticks that came meanwhile are swallowed.
Debounced ==
    /\ daemon = "sleep"
    /\ daemon' = "drained" /\ notify' = FALSE
    /\ UNCHANGED <<objects, kubeCalls, stores, snapshot, fresh, kubeView>>

\* Mutant of HasChangesFrom: the number of instances is compared, not which.
HasMoreOrFewer(new, old) == Cardinality(new) # Cardinality(old)

\* MetadataSnapshot::has_changes_from compares content fingerprints.
HasChangesFrom(new, old) == new # old

\* aggregate and publish what differs from the last snapshot.
Publish ==
    /\ daemon = "drained"
    /\ daemon' = "wait"
    /\ snapshot' = Aggregate(stores)
    /\ fresh' = (fresh \/ HasChangesFrom(snapshot', snapshot))
    /\ UNCHANGED <<objects, kubeCalls, stores, notify, kubeView>>

CancelDaemon ==
    /\ daemon = "wait"
    /\ daemon' = "stopped"
    /\ UNCHANGED <<objects, kubeCalls, stores, notify, snapshot, fresh, kubeView>>

\* list_and_watch: the difference of the ids, as Added and Removed events; an
\* instance whose id stays is not told again.
Tell ==
    LET ids == {KubeIdOf(i) : i \in snapshot} IN
    /\ fresh
    /\ fresh' = FALSE
    /\ kubeView' = [k \in ids |-> IF k \in DOMAIN kubeView THEN kubeView[k]
                                  ELSE CHOOSE i \in snapshot : KubeIdOf(i) = k]
    /\ UNCHANGED <<objects, kubeCalls, stores, notify, daemon, snapshot>>

KubeNext ==
    \/ \E p \in Pods :
        \/ \E n \in PortNames : RegisterPortName(p, n) \/ UnregisterPortName(p, n)
        \/ GetService(p) \/ ApplyService(p) \/ ApplySlice(p)
        \/ DeleteSlice(p) \/ ListRemaining(p) \/ ReadService(p) \/ ShrinkService(p)
        \/ CallFails(p)
        \/ \E c \in KubeCards : RegisterModel(p, c)
        \/ UnregisterModel(p) \/ RegisterEvent(p) \/ UnregisterEvent(p) \/ PodGone(p)
    \/ \E kind \in DOMAIN stores : Reflect(kind)
    \/ Notified \/ Debounced \/ Publish \/ CancelDaemon \/ Tell

KubeSpec == KubeInit /\ [][KubeNext]_kubeVars

-----------------------------------------------------------------------------
\* When the reflectors have caught up and nothing is in hand, the consumer of
\* list_and_watch has been told exactly the instances the cluster's objects
\* stand for: no tick is lost in the debounce.
ViewFollowsCluster ==
    (daemon = "wait" /\ ~notify /\ ~fresh /\ stores = Current)
        => DOMAIN kubeView = {KubeIdOf(i) : i \in Aggregate(Current)}
=============================================================================
