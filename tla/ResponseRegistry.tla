-------------------------- MODULE ResponseRegistry --------------------------
(***************************************************************************)
(* Waiting for a worker to call back.                                      *)
(*                                                                         *)
(* AddressedPushRouter::generate (lib/runtime/src/pipeline/network/egress/  *)
(* addressed_router.rs) registers a subject with the TcpStreamServer        *)
(* (tcp/server.rs), associates it with the instance the request goes to,    *)
(* sends the request and waits until the worker connects and names the      *)
(* subject.  A watcher (egress/push_router.rs) cancels the subjects of an   *)
(* instance that leaves discovery; tombstones close the gap between the     *)
(* choice of an instance and the association.                               *)
(*                                                                         *)
(* A request has one subject, so the request stands for it.  Every access   *)
(* to the server's State is one step under its lock; between two of them    *)
(* everybody else may run, and the caller may drop the future.              *)
(***************************************************************************)
EXTENDS Naturals, Sequences

CONSTANTS
    Instance,
    Request,
    MaxEvents,      \* bound: discovery events an instance may have pending
    None

ASSUME RegistryAssumption ==
    /\ None \notin Instance
    /\ MaxEvents \in Nat

VARIABLES
    rx_subjects,        \* subjects whose worker has not connected yet
    subject_instance,   \* the instance of a subject, or None
    instance_subjects,  \* the subjects of an instance
    removed_instances,  \* tombstones
    live,               \* the instances registered with discovery
    events,             \* what the watcher has still to process, per instance
    missed,             \* history: instances of which a reconnection lost a removal
    phase,              \* where generate() is
    target,             \* the instance a request is addressed to
    provider,           \* the oneshot that generate() waits on
    worker,             \* the worker's side of a request
    conn                \* the server's task for the worker's connection

serverVars == <<rx_subjects, subject_instance, instance_subjects, removed_instances>>
discoveryVars == <<live, events, missed>>
requestVars == <<phase, target>>
peerVars == <<worker, conn>>
vars == <<serverVars, discoveryVars, requestVars, provider, peerVars>>

Phase    == {"idle", "registered", "sending", "waiting", "cancel",
             "streaming", "failed", "dropped"}
Provider == {"none", "pending", "ok", "err", "gone"}
Worker   == {"none", "has", "called", "dead"}
Conn     == {"none", "prologue", "streaming", "closed"}
Event    == {"Added", "Removed"}

TypeOK ==
    /\ rx_subjects \in SUBSET Request
    /\ subject_instance \in [Request -> Instance \cup {None}]
    /\ instance_subjects \in [Instance -> SUBSET Request]
    /\ removed_instances \in SUBSET Instance
    /\ live \in SUBSET Instance
    /\ events \in [Instance -> Seq(Event)]
    /\ missed \in SUBSET Instance
    /\ phase \in [Request -> Phase]
    /\ target \in [Request -> Instance \cup {None}]
    /\ provider \in [Request -> Provider]
    /\ worker \in [Request -> Worker]
    /\ conn \in [Request -> Conn]

Init ==
    /\ rx_subjects = {}
    /\ subject_instance = [r \in Request |-> None]
    /\ instance_subjects = [i \in Instance |-> {}]
    /\ removed_instances = {}
    /\ live \in SUBSET Instance
    /\ events = [i \in Instance |-> <<>>] /\ missed = {}
    /\ phase = [r \in Request |-> "idle"]
    /\ target = [r \in Request |-> None]
    /\ provider = [r \in Request |-> "none"]
    /\ worker = [r \in Request |-> "none"]
    /\ conn = [r \in Request |-> "none"]

-----------------------------------------------------------------------------
(***************************************************************************)
(* Discovery and the watcher.                                               *)
(***************************************************************************)

Pending(i) == \E n \in DOMAIN events[i] : events[i][n] = "Removed"

Leave(i) ==
    /\ i \in live /\ Len(events[i]) < MaxEvents
    /\ live' = live \ {i}
    /\ events' = [events EXCEPT ![i] = Append(@, "Removed")]
    /\ UNCHANGED <<missed, serverVars, requestVars, provider, peerVars>>

Join(i) ==
    /\ i \notin live /\ Len(events[i]) < MaxEvents
    /\ live' = live \cup {i}
    /\ events' = [events EXCEPT ![i] = Append(@, "Added")]
    /\ UNCHANGED <<missed, serverVars, requestVars, provider, peerVars>>

\* Mutant of CancelInstanceStreams: the reverse table is left alone.
CancelInstanceStreamsOneTable(i) ==
    /\ rx_subjects' = rx_subjects \ instance_subjects[i]
    /\ provider' = [r \in Request |->
                      IF r \in instance_subjects[i] /\ r \in rx_subjects THEN "gone" ELSE provider[r]]
    /\ instance_subjects' = [instance_subjects EXCEPT ![i] = {}]
    /\ removed_instances' = removed_instances \cup {i}
    /\ UNCHANGED subject_instance

\* cancel_instance_streams: the senders are dropped, the waiters wake up.
CancelInstanceStreams(i) ==
    /\ rx_subjects' = rx_subjects \ instance_subjects[i]
    /\ provider' = [r \in Request |->
                      IF r \in instance_subjects[i] /\ r \in rx_subjects THEN "gone" ELSE provider[r]]
    /\ subject_instance' = [r \in Request |->
                              IF r \in instance_subjects[i] THEN None ELSE subject_instance[r]]
    /\ instance_subjects' = [instance_subjects EXCEPT ![i] = {}]
    /\ removed_instances' = removed_instances \cup {i}

WatchRemoved(i) ==
    /\ events[i] # <<>> /\ Head(events[i]) = "Removed"
    /\ events' = [events EXCEPT ![i] = Tail(@)]
    /\ CancelInstanceStreams(i)
    /\ UNCHANGED <<live, missed, requestVars, peerVars>>

\* clear_instance_tombstone.
WatchAdded(i) ==
    /\ events[i] # <<>> /\ Head(events[i]) = "Added"
    /\ events' = [events EXCEPT ![i] = Tail(@)]
    /\ removed_instances' = removed_instances \ {i}
    /\ UNCHANGED <<rx_subjects, subject_instance, instance_subjects, live, missed,
                   requestVars, provider, peerVars>>

\* The stream ends and is opened again: it starts with the instances there are.
Reconnect ==
    /\ events' = [i \in Instance |-> IF i \in live THEN <<"Added">> ELSE <<>>]
    /\ missed' = missed \cup {i \in Instance : Pending(i)}
    /\ UNCHANGED <<live, serverVars, requestVars, provider, peerVars>>

\* prune_tombstones.  TOMBSTONE_TTL is taken to be longer than a request needs
\* from its choice of an instance to the association.
TombstoneExpires(i) ==
    /\ i \in removed_instances
    /\ \A r \in Request : phase[r] = "registered" => target[r] # i
    /\ removed_instances' = removed_instances \ {i}
    /\ UNCHANGED <<rx_subjects, subject_instance, instance_subjects, discoveryVars,
                   requestVars, provider, peerVars>>

-----------------------------------------------------------------------------
(***************************************************************************)
(* AddressedPushRouter::generate.                                           *)
(***************************************************************************)

Goto(r, p) == phase' = [phase EXCEPT ![r] = p]

\* register() for a request to i, which the router's view may still hold for a
\* moment after it has left.
Register(r, i) ==
    /\ phase[r] = "idle"
    /\ i \in live \/ i \in removed_instances \/ Pending(i)
    /\ rx_subjects' = rx_subjects \cup {r}
    /\ provider' = [provider EXCEPT ![r] = "pending"]
    /\ target' = [target EXCEPT ![r] = i]
    /\ Goto(r, "registered")
    /\ UNCHANGED <<subject_instance, instance_subjects, removed_instances,
                   discoveryVars, peerVars>>

\* associate_instance finds a tombstone: the subject is dropped and generate()
\* fails with Disconnected.
AssociateTombstoned(r) ==
    /\ phase[r] = "registered"
    /\ target[r] \in removed_instances
    /\ rx_subjects' = rx_subjects \ {r}
    /\ provider' = [provider EXCEPT ![r] = "gone"]
    /\ Goto(r, "failed")
    /\ UNCHANGED <<subject_instance, instance_subjects, removed_instances,
                   discoveryVars, target, peerVars>>

\* Mutant of Associate: tombstones are not looked at.
AssociateAlways(r) ==
    /\ phase[r] = "registered"
    /\ subject_instance' = [subject_instance EXCEPT ![r] = target[r]]
    /\ instance_subjects' = [instance_subjects EXCEPT ![target[r]] = @ \cup {r}]
    /\ Goto(r, "sending")
    /\ UNCHANGED <<rx_subjects, removed_instances, discoveryVars, target, provider, peerVars>>

Associate(r) ==
    /\ phase[r] = "registered"
    /\ target[r] \notin removed_instances
    /\ subject_instance' = [subject_instance EXCEPT ![r] = target[r]]
    /\ instance_subjects' = [instance_subjects EXCEPT ![target[r]] = @ \cup {r}]
    /\ Goto(r, "sending")
    /\ UNCHANGED <<rx_subjects, removed_instances, discoveryVars, target, provider, peerVars>>

\* The request reaches the worker, before send_request() returns.
Deliver(r) ==
    /\ phase[r] = "sending" /\ worker[r] = "none"
    /\ worker' = [worker EXCEPT ![r] = "has"]
    /\ UNCHANGED <<serverVars, discoveryVars, requestVars, provider, conn>>

SendOk(r) ==
    /\ phase[r] = "sending" /\ worker[r] # "none"
    /\ Goto(r, "waiting")
    /\ UNCHANGED <<serverVars, discoveryVars, target, provider, peerVars>>

\* Encoding or sending fails, although the worker may have the request.
SendFails(r) ==
    /\ phase[r] = "sending"
    /\ Goto(r, "cancel")
    /\ UNCHANGED <<serverVars, discoveryVars, target, provider, peerVars>>

\* The provider answers: a stream, an error prologue, or its sender is gone.
WaitOk(r) ==
    /\ phase[r] = "waiting" /\ provider[r] = "ok"
    /\ Goto(r, "streaming")
    /\ UNCHANGED <<serverVars, discoveryVars, target, provider, peerVars>>

WaitFails(r) ==
    /\ phase[r] = "waiting" /\ provider[r] \in {"err", "gone"}
    /\ Goto(r, "cancel")
    /\ UNCHANGED <<serverVars, discoveryVars, target, provider, peerVars>>

\* The subject leaves the three tables.
Forget(r) ==
    /\ rx_subjects' = rx_subjects \ {r}
    /\ subject_instance' = [subject_instance EXCEPT ![r] = None]
    /\ instance_subjects' = [i \in Instance |->
                               IF i = subject_instance[r] THEN instance_subjects[i] \ {r}
                               ELSE instance_subjects[i]]
    /\ UNCHANGED removed_instances

\* cancel_recv_stream, then generate() returns its error.
CancelRecvStream(r) ==
    /\ phase[r] = "cancel"
    /\ Forget(r)
    /\ provider' = IF r \in rx_subjects THEN [provider EXCEPT ![r] = "gone"] ELSE provider
    /\ Goto(r, "failed")
    /\ UNCHANGED <<discoveryVars, target, peerVars>>

\* The caller drops the future at an await.
DropFuture(r) ==
    /\ phase[r] \in {"registered", "sending", "waiting", "cancel"}
    /\ Goto(r, "dropped")
    /\ UNCHANGED <<serverVars, discoveryVars, target, provider, peerVars>>

-----------------------------------------------------------------------------
(***************************************************************************)
(* The worker and the server's task for its connection.                     *)
(***************************************************************************)

\* process_response_stream takes the subject's sender, or refuses a subject it
\* does not know.
Handshake(r) ==
    /\ worker[r] = "has"
    /\ worker' = [worker EXCEPT ![r] = "called"]
    /\ \/ /\ r \in rx_subjects
          /\ Forget(r)
          /\ conn' = [conn EXCEPT ![r] = "prologue"]
       \/ /\ r \notin rx_subjects
          /\ conn' = [conn EXCEPT ![r] = "closed"]
          /\ UNCHANGED serverVars
    /\ UNCHANGED <<discoveryVars, requestVars, provider>>

Listening(r) == phase[r] \in {"sending", "waiting"}

\* The worker's prologue: generation started ...
PrologueOk(r) ==
    /\ conn[r] = "prologue" /\ worker[r] = "called"
    /\ provider' = [provider EXCEPT ![r] = IF Listening(r) THEN "ok" ELSE "gone"]
    /\ conn' = [conn EXCEPT ![r] = IF Listening(r) THEN "streaming" ELSE "closed"]
    /\ UNCHANGED <<serverVars, discoveryVars, requestVars, worker>>

\* ... or failed, or something else came.
PrologueErr(r) ==
    /\ conn[r] = "prologue" /\ worker[r] = "called"
    /\ provider' = [provider EXCEPT ![r] = "err"]
    /\ conn' = [conn EXCEPT ![r] = "closed"]
    /\ UNCHANGED <<serverVars, discoveryVars, requestVars, worker>>

\* Mutant of ConnectionLost: the sender is kept.
ConnectionLostKept(r) ==
    /\ conn[r] = "prologue" /\ worker[r] = "dead"
    /\ conn' = [conn EXCEPT ![r] = "closed"]
    /\ UNCHANGED <<serverVars, discoveryVars, requestVars, provider, worker>>

\* The connection ends before the prologue; the sender is dropped.
ConnectionLost(r) ==
    /\ conn[r] = "prologue" /\ worker[r] = "dead"
    /\ provider' = [provider EXCEPT ![r] = "gone"]
    /\ conn' = [conn EXCEPT ![r] = "closed"]
    /\ UNCHANGED <<serverVars, discoveryVars, requestVars, worker>>

WorkerDies(r) ==
    /\ worker[r] \in {"has", "called"}
    /\ worker' = [worker EXCEPT ![r] = "dead"]
    /\ UNCHANGED <<serverVars, discoveryVars, requestVars, provider, conn>>

-----------------------------------------------------------------------------
Watcher == \E i \in Instance : WatchRemoved(i) \/ WatchAdded(i)

Discovery == \E i \in Instance : Leave(i) \/ Join(i) \/ TombstoneExpires(i)

Generate(r) ==
    \/ AssociateTombstoned(r) \/ Associate(r)
    \/ SendOk(r) \/ SendFails(r) \/ WaitOk(r) \/ WaitFails(r) \/ CancelRecvStream(r)

Connection(r) == PrologueOk(r) \/ PrologueErr(r) \/ ConnectionLost(r)

Next ==
    \/ Discovery \/ Watcher \/ Reconnect
    \/ \E r \in Request :
          \/ \E i \in Instance : Register(r, i)
          \/ Generate(r) \/ DropFuture(r)
          \/ Deliver(r) \/ Handshake(r) \/ WorkerDies(r)
          \/ Connection(r)

Spec == Init /\ [][Next]_vars

\* The server process runs its tasks: the watcher its events, one instance at a
\* time, generate() what it is ready for, a connection task a connection that
\* is lost.  Workers and discovery owe nothing.
Fairness ==
    /\ \A i \in Instance : WF_vars(WatchRemoved(i) \/ WatchAdded(i))
    /\ \A r \in Request : WF_vars(Generate(r)) /\ WF_vars(ConnectionLost(r))

FairSpec == Spec /\ Fairness

-----------------------------------------------------------------------------
\* The two tables of instances mirror each other, only subjects that still wait
\* for their worker are in them, and a request that failed or has its stream is
\* in none: register, associate, cancel and the connection task, each under its
\* own lock, leave nothing behind and remove nothing twice.
TablesAgree ==
    /\ \A r \in Request, i \in Instance :
          r \in instance_subjects[i] <=> subject_instance[r] = i
    /\ \A r \in Request : subject_instance[r] # None => r \in rx_subjects
    /\ \A r \in Request :
          phase[r] \in {"idle", "failed", "streaming"} => r \notin rx_subjects

Stranded(r) ==
    /\ phase[r] \in {"sending", "waiting"} /\ r \in rx_subjects /\ target[r] \notin live
    /\ ~(Pending(target[r]) /\ r \in instance_subjects[target[r]])

\* A request that waits for an instance that has left discovery is not
\* stranded: the watcher has still to process the removal, and will find it.
\* However choosing, associating and removing interleave, only a reconnection
\* that swallows the removal leaves a request behind.
NoStrandedWaiter == \A r \in Request : target[r] \notin missed => ~Stranded(r)

\* So it is released, unless its worker calls first; and a request whose worker
\* dies between the handshake and the prologue is released by the connection.
WaitersReleased ==
    \A r \in Request :
        /\ phase[r] = "waiting" /\ r \in rx_subjects /\ target[r] \notin live
           ~> phase[r] # "waiting" \/ conn[r] # "none" \/ target[r] \in missed
        /\ phase[r] = "waiting" /\ worker[r] = "dead" /\ conn[r] = "prologue"
           ~> phase[r] # "waiting"
=============================================================================
