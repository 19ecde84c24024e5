------------------------------ MODULE Messaging ------------------------------
(****************************************************************************)
(* Messages that are not answers, in two sections: the event plane, and     *)
(* the NATS work queue.                                                     *)
(****************************************************************************)
EXTENDS Naturals, Sequences, SequencesExt, FiniteSets, FiniteSetsExt

-----------------------------------------------------------------------------
(* The event plane: EventPublisher, EventSubscriber, the dynamic subscriber    *)
(* that follows discovery, and the de-duplicating stream that sits behind      *)
(* several brokers (src/lib/runtime/src/transports/event_plane).               *)
(*                                                                             *)
(* One subscriber of Topic is modelled, and any number of publishers.  A link  *)
(* is what the subscriber reads from: one per broker, one for NATS, or one     *)
(* consumer task per directly connected publisher.  A publisher is a record    *)
(* [id, topic]: the id is that of its PROCESS (Discovery::instance_id), so two *)
(* publishers of one process share it while each counts its own sequence.      *)
CONSTANTS
    Publishers,    \* [id, topic] records
    Topic,         \* the topic subscribed to
    Matching,      \* the topics a ZMQ subscription to Topic lets through (prefix match)
    Environments,  \* [kind, url, enabled, listed]: transport kind, broker variables, brokers found
    CacheSize,     \* entries of the de-duplication cache
    MaxGens,       \* bound: how often a publisher is created
    MaxEvents,     \* bound: events published, by mode of transport
    MaxFaults      \* bound: losses and receive errors

VARIABLES
    conf,      \* the resolved transport: mode, xsub, xpub
    channels,  \* discovery: the registered event channels, publisher -> generation (0: none)
    feed,      \* discovery events the watch has not handled
    alive,     \* publisher -> is there an EventPublisher object
    gen,       \* publisher -> how often it was created
    seq,       \* publisher -> its AtomicU64 sequence
    unreg,     \* publishers whose spawned unregister has not run
    watch,     \* "none", "listed" (subscribed to nothing yet), "running" or "ended"
    missed,    \* history: the publishers that came or went while the watch was being set up
    scoped,    \* does the watch follow one topic (service group scope)
    stopped,   \* the dynamic subscriber's cancel token
    active,    \* process id -> the link of its slot (0: none)
    links,     \* [id, from, cancelled, over, queue]
    stream,    \* "none", "open" or "dropped"
    seen,      \* the events let through so far; the LRU cache is the last CacheSize of them
    got,       \* envelopes handed to the caller
    sent, faults

eventsVars == <<conf, channels, feed, alive, gen, seq, unreg, watch, missed, scoped, stopped, active,
                links, stream, seen, got, sent, faults>>
pubVars == <<channels, alive, gen, seq, unreg, sent>>
subVars == <<watch, scoped, stopped, active, links, stream, seen, got>>

Ids == {p.id : p \in Publishers}

EventsInit ==
    /\ conf = [mode |-> "unset", xsub |-> {}, xpub |-> {}]
    /\ channels = [p \in Publishers |-> 0] /\ feed = <<>>
    /\ alive = [p \in Publishers |-> FALSE] /\ gen = [p \in Publishers |-> 0]
    /\ seq = [p \in Publishers |-> 0] /\ unreg = {} /\ sent = 0 /\ faults = 0
    /\ watch = "none" /\ missed = {} /\ scoped = FALSE /\ stopped = FALSE
    /\ active = [i \in Ids |-> 0] /\ links = <<>>
    /\ stream = "none" /\ seen = <<>> /\ got = <<>>

-----------------------------------------------------------------------------
(* Which brokers.  A broker URL has two parts, tagged xsub= and xpub=; a later *)
(* part of a tag replaces an earlier one.                                      *)
ParseBrokerUrl(parts) ==
    LET urls(tag) == LET of == {i \in DOMAIN parts : parts[i].tag = tag}
                     IN  IF of = {} THEN {} ELSE parts[CHOOSE i \in of : \A j \in of : j <= i].urls
    IN  IF Len(parts) = 2 /\ (\A i \in 1..2 : parts[i].tag \in {"xsub", "xpub"})
           /\ urls("xsub") # {} /\ urls("xpub") # {}
        THEN [mode |-> "broker", xsub |-> urls("xsub"), xpub |-> urls("xpub")]
        ELSE [mode |-> "refused", xsub |-> {}, xpub |-> {}]

ResolveZmqBroker(env) ==
    IF env.url # <<>> THEN ParseBrokerUrl(env.url)
    ELSE IF ~env.enabled THEN [mode |-> "direct", xsub |-> {}, xpub |-> {}]
    ELSE IF env.listed.xsub = {} THEN [mode |-> "refused", xsub |-> {}, xpub |-> {}]
    ELSE [mode |-> "broker", xsub |-> env.listed.xsub, xpub |-> env.listed.xpub]

Configure(env) ==
    /\ conf.mode = "unset"
    /\ conf' = IF env.kind = "nats" THEN [mode |-> "nats", xsub |-> {}, xpub |-> {}]
               ELSE ResolveZmqBroker(env)
    /\ UNCHANGED <<pubVars, subVars, feed, missed, faults>>

-----------------------------------------------------------------------------
(* Publishers. *)
Registers == conf.mode \in {"nats", "direct"}     \* broker mode skips discovery
Told(p) == scoped => p.topic = Topic
Tell(p, e) ==
    /\ feed' = IF watch = "running" /\ Told(p) THEN Append(feed, e) ELSE feed
    /\ missed' = IF watch = "listed" /\ Told(p) THEN missed \cup {p} ELSE missed

NewPublisher(p) ==
    /\ conf.mode \in {"nats", "direct", "broker"} /\ ~alive[p] /\ gen[p] < MaxGens
    /\ alive' = [alive EXCEPT ![p] = TRUE]
    /\ gen' = [gen EXCEPT ![p] = @ + 1]
    /\ seq' = [seq EXCEPT ![p] = 0]
    /\ IF Registers
       THEN channels' = [channels EXCEPT ![p] = gen[p] + 1]
            /\ Tell(p, [kind |-> "added", pub |-> p, gen |-> gen[p] + 1])
       ELSE UNCHANGED <<channels, feed, missed>>
    /\ UNCHANGED <<conf, unreg, sent, faults, subVars>>

(* Drop only spawns the unregistration: it runs whenever the runtime gets to it. *)
DropPublisher(p) ==
    /\ alive[p]
    /\ alive' = [alive EXCEPT ![p] = FALSE]
    /\ unreg' = IF Registers THEN unreg \cup {p} ELSE unreg
    /\ UNCHANGED <<conf, channels, feed, missed, gen, seq, sent, faults, subVars>>

Unregister(p) ==
    /\ p \in unreg /\ unreg' = unreg \ {p}
    /\ channels' = [channels EXCEPT ![p] = 0]
    /\ IF channels[p] = 0 THEN UNCHANGED <<feed, missed>>
       ELSE Tell(p, [kind |-> "removed", pub |-> p, gen |-> 0])
    /\ UNCHANGED <<conf, alive, gen, seq, sent, faults, subVars>>

(* An envelope goes to every link the publisher reaches; PUB keeps nothing for *)
(* subscribers that are not there.                                             *)
Reaches(p, l) ==
    /\ ~l.over
    /\ CASE conf.mode = "nats" -> p.topic = Topic
         [] conf.mode = "broker" -> l.from \in {<<b>> : b \in conf.xsub} /\ p.topic \in Matching
         [] OTHER -> l.from = <<p, gen[p]>> /\ p.topic \in Matching
PublishBytes(p) ==
    /\ alive[p] /\ sent < MaxEvents[conf.mode] /\ sent' = sent + 1
    /\ seq' = [seq EXCEPT ![p] = @ + 1]
    /\ LET e == [id |-> p.id, seq |-> seq[p], topic |-> p.topic, gen |-> gen[p]]
       IN  links' = [i \in DOMAIN links |->
                       IF Reaches(p, links[i]) THEN [links[i] EXCEPT !.queue = Append(@, e)] ELSE links[i]]
    /\ UNCHANGED <<conf, channels, feed, missed, alive, gen, unreg, watch, scoped, stopped, active,
                   stream, seen, got, faults>>

-----------------------------------------------------------------------------
(* The subscriber. *)
Link(id, from) == [id |-> id, from |-> from, cancelled |-> FALSE, over |-> FALSE, queue |-> <<>>]

EventSubscriberNew(byTopic) ==
    /\ stream = "none" /\ conf.mode \in {"nats", "direct", "broker"}
    /\ conf.mode = "broker" => conf.xpub # {}          \* "Cannot connect to zero portnames"
    /\ stream' = "open" /\ scoped' = byTopic
    /\ CASE conf.mode = "nats" -> links' = <<Link(0, <<"nats">>)>> /\ UNCHANGED <<watch, feed>>
         [] conf.mode = "broker" ->
              /\ links' = [i \in 1..Len(SetToSeq(conf.xpub)) |-> Link(0, <<SetToSeq(conf.xpub)[i]>>)]
              /\ UNCHANGED <<watch, feed>>
         [] OTHER ->
              /\ watch' = "listed" /\ links' = <<>>
              /\ LET listed == SetToSeq({p \in Publishers : channels[p] > 0 /\ (byTopic => p.topic = Topic)})
                 IN  feed' = [i \in DOMAIN listed |->
                                [kind |-> "added", pub |-> listed[i], gen |-> channels[listed[i]]]]
    /\ UNCHANGED <<conf, pubVars, missed, stopped, active, seen, got, faults>>

(* list_and_watch reads what is registered first and subscribes to changes     *)
(* afterwards: one in between is told to nobody.                               *)
Subscribe ==
    /\ watch = "listed" /\ watch' = "running"
    /\ UNCHANGED <<conf, pubVars, feed, missed, scoped, stopped, active, links, stream, seen, got, faults>>

(* One iteration of watch_loop.  The cancel token is only looked at when an    *)
(* event arrives.                                                              *)
CancelAllPortnames ==
    /\ active' = [i \in Ids |-> 0]
    /\ links' = [i \in DOMAIN links |->
                   IF \E id \in Ids : active[id] = i THEN [links[i] EXCEPT !.cancelled = TRUE] ELSE links[i]]

HandleAdded(e) ==
    IF active[e.pub.id] # 0 THEN UNCHANGED <<active, links>>      \* "Already connected"
    ELSE /\ links' = Append(links, Link(e.pub.id, <<e.pub, e.gen>>))
         /\ active' = [active EXCEPT ![e.pub.id] = Len(links) + 1]

\* Mutant of HandleRemoved: the consumer task goes on.
ForgetOnly(e) == active' = [active EXCEPT ![e.pub.id] = 0] /\ UNCHANGED links
HandleRemoved(e) ==
    /\ active' = [active EXCEPT ![e.pub.id] = 0]
    /\ links' = IF active[e.pub.id] = 0 THEN links
                ELSE [links EXCEPT ![active[e.pub.id]].cancelled = TRUE]

WatchLoop ==
    /\ watch = "running" /\ feed # <<>> /\ feed' = Tail(feed)
    /\ IF stopped THEN watch' = "ended" /\ CancelAllPortnames
       ELSE /\ UNCHANGED watch
            /\ IF Head(feed).kind = "added" THEN HandleAdded(Head(feed)) ELSE HandleRemoved(Head(feed))
    /\ UNCHANGED <<conf, pubVars, missed, scoped, stopped, stream, seen, got, faults>>

WatchFails ==
    /\ watch = "running" /\ faults < MaxFaults /\ faults' = faults + 1
    /\ watch' = "ended" /\ CancelAllPortnames
    /\ UNCHANGED <<conf, pubVars, feed, missed, scoped, stopped, stream, seen, got>>

(* A consumer task ends when it is cancelled, when its socket fails, or when   *)
(* the merged channel is closed; whatever the reason it then removes the slot  *)
(* of its process id.                                                          *)
ConsumeEnds(i) ==
    /\ conf.mode = "direct" /\ ~links[i].over
    /\ \/ links[i].cancelled /\ UNCHANGED faults
       \/ stream = "dropped" /\ links[i].queue # <<>> /\ UNCHANGED faults
       \/ faults < MaxFaults /\ faults' = faults + 1
    /\ links' = [links EXCEPT ![i].over = TRUE, ![i].queue = <<>>]
    /\ active' = [active EXCEPT ![links[i].id] = 0]
    /\ UNCHANGED <<conf, pubVars, feed, missed, watch, scoped, stopped, stream, seen, got>>

(* The high-water mark or a lagging broadcast receiver skips a message. *)
Skip(i) ==
    /\ links[i].queue # <<>> /\ faults < MaxFaults /\ faults' = faults + 1
    /\ links' = [links EXCEPT ![i].queue = Tail(@)]
    /\ UNCHANGED <<conf, pubVars, feed, missed, watch, scoped, stopped, active, stream, seen, got>>

(* DeduplicatingStream::poll_next and the topic filter behind it.              *)
\* Mutant of EventsFresh: nothing is a repetition.
EverythingFresh(e) == TRUE
EventsFresh(e) == \A i \in DOMAIN seen : seen[i] = <<e.id, e.seq>> => i + CacheSize <= Len(seen)

Receive(i) ==
    /\ stream = "open" /\ links[i].queue # <<>> /\ ~links[i].over
    /\ links' = [links EXCEPT ![i].queue = Tail(@)]
    /\ LET e == Head(links[i].queue)
           dedup == Len(links) > 1 /\ conf.mode = "broker"
           passes == (dedup => EventsFresh(e)) /\ e.topic = Topic
       IN  /\ seen' = IF dedup /\ EventsFresh(e) THEN Append(seen, <<e.id, e.seq>>) ELSE seen
           /\ got' = IF passes THEN Append(got, e) ELSE got
    /\ UNCHANGED <<conf, pubVars, feed, missed, watch, scoped, stopped, active, stream, faults>>

(* The caller drops the stream.  DynamicSubscriber::drop would set the token,  *)
(* but the watch loop owns a reference of its own, so it is not the last one.  *)
DropStream ==
    /\ stream = "open" /\ stream' = "dropped"
    /\ stopped' = (stopped \/ watch = "ended")
    /\ UNCHANGED <<conf, pubVars, feed, missed, watch, scoped, active, links, seen, got, faults>>

(* DynamicSubscriber::cancel, for a caller that kept its handle. *)
Cancel ==
    /\ watch \in {"listed", "running"} /\ ~stopped /\ stopped' = TRUE
    /\ UNCHANGED <<conf, pubVars, feed, missed, watch, scoped, active, links, stream, seen, got, faults>>

EventsNext ==
    \/ \E env \in Environments : Configure(env)
    \/ \E p \in Publishers : NewPublisher(p) \/ DropPublisher(p) \/ Unregister(p) \/ PublishBytes(p)
    \/ \E byTopic \in BOOLEAN : EventSubscriberNew(byTopic)
    \/ Subscribe \/ WatchLoop \/ WatchFails \/ DropStream \/ Cancel
    \/ \E i \in DOMAIN links : ConsumeEnds(i) \/ Skip(i) \/ Receive(i)

-----------------------------------------------------------------------------
(* An event is handed out twice, although each broker forwards a copy of it,   *)
(* only where CacheSize others were let through between its copies.            *)
AtMostOnce ==
    \A i, j \in DOMAIN got : i < j /\ got[i] = got[j] =>
        \E a, b \in DOMAIN seen : /\ seen[a] = <<got[i].id, got[i].seq>> /\ seen[b] = seen[a]
                                  /\ b - a > CacheSize

(* Once discovery's events are handled and the tasks have noticed, the links   *)
(* in use are those of the channels registered: a publisher that appears is    *)
(* connected (unless its socket failed) and one that goes is disconnected.     *)
(* Excepted are those that came or went between the listing and the start of   *)
(* the watch.                                                                  *)
Settled == watch = "running" /\ ~stopped /\ feed = <<>> /\ ~\E l \in ToSet(links) : l.cancelled /\ ~l.over
Connected == {l.from : l \in {k \in ToSet(links) : ~k.over}}
Failed == {l.from : l \in {k \in ToSet(links) : k.over}}
Followed ==
    Settled => LET live == {<<p, channels[p]>> : p \in {q \in Publishers : channels[q] > 0 /\ (scoped => q.topic = Topic)}}
                   known(s) == {l \in s : l[1] \notin missed}
               IN  known(Connected) \subseteq live /\ known(live) \subseteq (Connected \cup Failed)

-----------------------------------------------------------------------------
(* transports/nats.rs: NatsQueue, a named queue on a JetStream stream, and the    *)
(* object store calls of Client.  JetStream itself is external: a stream keeps    *)
(* numbered messages, a durable consumer the numbers it delivered and acked, and  *)
(* purging up to a sequence removes the messages below it.                        *)
CONSTANTS Queues,        \* NatsQueue handles
          NameOf,        \* handle -> its consumer_name, or None
          None,
          MaxMessages,   \* bound: messages enqueued
          MaxCalls       \* bound: connects, shutdowns and purges

VARIABLES
    stored,              \* the messages the stream keeps
    lastSeq,             \* the sequence of the newest message
    consumers,           \* the durable consumers: name -> [delivered, acked]
    client,              \* handle -> is there a client
    reader,              \* handle -> is there a message_stream
    purging,             \* handle -> the sequence purge_acknowledged will purge to (0: it is not running)
    floors,              \* handle -> the consumers that sequence comes from, those deleted since left out
    buckets,             \* object store: bucket -> keys
    calls, answered

queueVars == <<stored, lastSeq, consumers, client, reader, purging, floors, buckets, calls, answered>>
Names == {NameOf[q] : q \in Queues} \ {None}
QueueFresh == [there |-> FALSE, delivered |-> {}, acked |-> {}]
There == {n \in Names : consumers[n].there}

QueueInit ==
    /\ stored = {} /\ lastSeq = 0 /\ consumers = [n \in Names |-> QueueFresh]
    /\ client = [q \in Queues |-> FALSE] /\ reader = [q \in Queues |-> FALSE]
    /\ purging = [q \in Queues |-> 0] /\ floors = [q \in Queues |-> {}] /\ buckets = [b \in {} |-> {}]
    /\ calls = 0 /\ answered = <<"none">>

Counted == calls < MaxCalls /\ calls' = calls + 1

\* connect_with_reset: the consumer is created if it is not there; purge only on request.
Connecting(q, reset) ==
    /\ client' = [client EXCEPT ![q] = TRUE]
    /\ stored' = IF reset THEN {} ELSE stored
    /\ reader' = [reader EXCEPT ![q] = NameOf[q] # None]
    /\ consumers' = IF NameOf[q] = None THEN consumers ELSE [consumers EXCEPT ![NameOf[q]].there = TRUE]
ConnectWithReset(q, reset) ==
    /\ Counted
    /\ IF client[q] THEN UNCHANGED <<client, stored, reader, consumers>> ELSE Connecting(q, reset)
    /\ answered' = <<"connected">> /\ UNCHANGED <<lastSeq, purging, floors, buckets>>

Close(q) ==
    /\ client[q] /\ purging[q] = 0 /\ Counted
    /\ client' = [client EXCEPT ![q] = FALSE] /\ reader' = [reader EXCEPT ![q] = FALSE]
    /\ answered' = <<"closed">> /\ UNCHANGED <<stored, lastSeq, consumers, purging, floors, buckets>>

\* shutdown: with no argument the queue's own consumer goes and the queue is closed, with a name
\* that consumer goes and the connection stays. A consumer's acks go with it.
Shutdown(q, name) ==
    LET target == IF name # None THEN name ELSE NameOf[q]
        deletes == client[q] /\ target # None
        fails == deletes /\ ~consumers[target].there
    IN  /\ Counted /\ purging[q] = 0
        /\ consumers' = IF deletes THEN [consumers EXCEPT ![target] = QueueFresh] ELSE consumers
        /\ reader' = [reader EXCEPT ![q] = @ /\ (name # None \/ fails)]
        /\ client' = [client EXCEPT ![q] = @ /\ (name # None \/ fails)]
        /\ floors' = IF deletes THEN [p \in Queues |-> floors[p] \ {target}] ELSE floors
        /\ answered' = <<IF fails THEN "error" ELSE "shutdown">>
        /\ UNCHANGED <<stored, lastSeq, purging, buckets>>

\* ensure_connection comes first in every call below but purge_up_to_sequence.
Ensured(q) == client[q]

EnqueueTask(q) ==
    /\ Ensured(q) /\ lastSeq < MaxMessages
    /\ lastSeq' = lastSeq + 1 /\ stored' = stored \cup {lastSeq + 1} /\ answered' = <<"enqueued">>
    /\ UNCHANGED <<consumers, client, reader, purging, floors, buckets, calls>>

\* dequeue_task: the message is acked before it is returned; an ack that fails leaves it to be
\* delivered again. A consumer deleted under the reader is an error, and the reader stays as it is.
Waiting(name) == {m \in stored : m \notin consumers[name].delivered}
DequeueTask(q) ==
    /\ Ensured(q) /\ UNCHANGED <<stored, lastSeq, client, reader, purging, floors, buckets, calls>>
    /\ IF ~reader[q] \/ ~consumers[NameOf[q]].there
       THEN answered' = <<"error">> /\ UNCHANGED consumers
       ELSE IF Waiting(NameOf[q]) = {} THEN answered' = <<"timeout">> /\ UNCHANGED consumers
       ELSE LET m == Min(Waiting(NameOf[q]))
            IN  \/ /\ consumers' = [consumers EXCEPT ![NameOf[q]].delivered = @ \cup {m},
                                                     ![NameOf[q]].acked = @ \cup {m}]
                   /\ answered' = <<"task", m>>
                \/ /\ consumers' = [consumers EXCEPT ![NameOf[q]].delivered = @ \cup {m}]
                   /\ answered' = <<"ack failed">>
Redeliver(name) ==
    /\ consumers[name].delivered # consumers[name].acked
    /\ consumers' = [consumers EXCEPT ![name].delivered = consumers[name].acked]
    /\ UNCHANGED <<stored, lastSeq, client, reader, purging, floors, buckets, calls, answered>>

\* The ack floor: everything up to it is acked or gone from the stream.
AckFloor(name) ==
    LET open == {m \in 1..lastSeq : m \in stored /\ m \notin consumers[name].acked}
        below == {m \in consumers[name].acked : \A k \in open : m < k}
    IN  IF below = {} THEN 0 ELSE Max(below)

\* Mutant of SmallestFloor: the floor of the consumer that is furthest.
LargestFloor(names) == Max({AckFloor(n) : n \in names} \cup {0})
\* purge_acknowledged: the smallest floor over the consumers, those that acked nothing left out.
SmallestFloor(names) ==
    LET some == {AckFloor(n) : n \in names} \ {0} IN IF some = {} THEN 0 ELSE Min(some)
PurgeAcknowledged(q) ==
    /\ Ensured(q) /\ purging[q] = 0 /\ Counted
    /\ purging' = [purging EXCEPT ![q] = IF SmallestFloor(There) = 0 THEN 0 ELSE SmallestFloor(There) + 1]
    /\ floors' = [floors EXCEPT ![q] = {n \in There : AckFloor(n) > 0}] /\ answered' = <<"purging">>
    /\ UNCHANGED <<stored, lastSeq, consumers, client, reader, buckets>>
PurgeUpToSequence(q) ==
    /\ purging[q] > 0 /\ purging' = [purging EXCEPT ![q] = 0] /\ floors' = [floors EXCEPT ![q] = {}]
    /\ stored' = {m \in stored : m >= purging[q]} /\ answered' = <<"purged">>
    /\ UNCHANGED <<lastSeq, consumers, client, reader, buckets, calls>>

-----------------------------------------------------------------------------
\* Client's object store: uploads create the bucket, downloads do not; deleting none is no error.
ObjectStoreUpload(b, k) ==
    /\ Counted /\ answered' = <<"uploaded">>
    /\ buckets' = [c \in DOMAIN buckets \cup {b} |->
                     (IF c \in DOMAIN buckets THEN buckets[c] ELSE {}) \cup (IF c = b THEN {k} ELSE {})]
    /\ UNCHANGED <<stored, lastSeq, consumers, client, reader, purging, floors>>
ObjectStoreDownload(b, k) ==
    /\ Counted
    /\ answered' = IF b \in DOMAIN buckets /\ k \in buckets[b] THEN <<"downloaded">> ELSE <<"error">>
    /\ UNCHANGED <<stored, lastSeq, consumers, client, reader, purging, floors, buckets>>
ObjectStoreDeleteBucket(b) ==
    /\ Counted /\ answered' = <<"deleted">>
    /\ buckets' = [c \in DOMAIN buckets \ {b} |-> buckets[c]]
    /\ UNCHANGED <<stored, lastSeq, consumers, client, reader, purging, floors>>

QueueNext ==
    \/ \E q \in Queues :
         \/ \E reset \in BOOLEAN : ConnectWithReset(q, reset)
         \/ Close(q) \/ EnqueueTask(q) \/ DequeueTask(q) \/ PurgeAcknowledged(q) \/ PurgeUpToSequence(q)
         \/ \E name \in Names \cup {None} : Shutdown(q, name)
    \/ \E name \in Names : Redeliver(name)
    \/ ObjectStoreUpload("bucket", "key") \/ ObjectStoreDownload("bucket", "key")
    \/ ObjectStoreDeleteBucket("bucket")

-----------------------------------------------------------------------------
\* What purge_acknowledged removes has been acked by every consumer it read a floor of, however
\* many tasks were enqueued, dequeued or failed to be acked between reading and purging.
FloorsRespected ==
    [][\A q \in Queues : \A m \in stored \ stored', n \in floors[q] :
         purging'[q] = 0 => m \in consumers[n].acked]_queueVars
=============================================================================
