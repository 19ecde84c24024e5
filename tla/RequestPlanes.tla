---------------------------- MODULE RequestPlanes ----------------------------
(****************************************************************************)
(* The transports of requests other than TCP, in two sections: the HTTP     *)
(* and NATS planes, and the ZMQ router of response streams.                 *)
(****************************************************************************)
EXTENDS Naturals, FiniteSets, Sequences

-----------------------------------------------------------------------------
(***************************************************************************)
(* The HTTP and NATS request planes: NetworkManager's single server, a         *)
(* portname registered with it, requests to the portname, and unregistering      *)
(* it, which waits for the requests in flight.                                *)
(*                                                                         *)
(* SharedHttpServer looks a handler up and counts the request in two steps;      *)
(* NatsMultiplexedServer runs one listener task (PushEndpoint::start) for each   *)
(* registration and keeps its handle only some time after it was spawned.        *)
(***************************************************************************)
CONSTANTS
    Requests,
    MaxRegistrations,   \* bound
    Managers            \* NetworkManagers of one process that ask for the server

VARIABLES
    plane,              \* RequestPlaneMode: "http" or "nats"
    server,             \* GLOBAL_HTTP_SERVER, or the one NATS server: "none", "starting", "up"
    serverOf,           \* managers that have their OnceCell set
    gen,                \* registrations so far
    entry,              \* handlers: the registration it holds, 0 if none
    spawning,           \* a NATS registration whose task is not kept yet
    listening,          \* registrations whose listener task accepts requests
    inflight, permit,   \* of each registration; its Notify
    rstate, rgen,       \* where a request is, and with which registration
    client,             \* what send_request returned
    unreg, ugen, owed,  \* unregister_portname: where it is, of which registration,
                        \* and the requests counted when it took the handler
    ready               \* the portname's health status

planeVars == <<plane, server, serverOf, gen, entry, spawning, listening, inflight, permit,
               rstate, rgen, client, unreg, ugen, owed, ready>>
netVars == <<plane, server, serverOf>>
regVars == <<gen, entry, spawning, listening>>
reqVars == <<rstate, rgen, client>>
Gens    == 1..MaxRegistrations

PlaneInit ==
    /\ plane = "none" /\ server = "none" /\ serverOf = {}
    /\ gen = 0 /\ entry = 0 /\ spawning = FALSE /\ listening = {}
    /\ inflight = [g \in Gens |-> 0] /\ permit = {}
    /\ rstate = [r \in Requests |-> "idle"] /\ rgen = [r \in Requests |-> 0]
    /\ client = [r \in Requests |-> "none"]
    /\ unreg = "idle" /\ ugen = 0 /\ owed = {} /\ ready = FALSE

-----------------------------------------------------------------------------
(* NetworkManager *)

Configure ==
    /\ plane = "none" /\ plane' \in {"http", "nats"}
    /\ UNCHANGED <<server, serverOf, regVars, inflight, permit, reqVars, unreg, ugen, owed, ready>>

\* OnceCell::get_or_try_init: one caller runs the initialisation, the others wait.
GetOrTryInit(m) == server = "none" /\ server' = "starting"

Server(m) ==
    /\ plane # "none" /\ m \notin serverOf
    /\ IF server = "up" THEN serverOf' = serverOf \cup {m} /\ UNCHANGED server
       ELSE GetOrTryInit(m) /\ UNCHANGED serverOf
    /\ UNCHANGED <<plane, regVars, inflight, permit, reqVars, unreg, ugen, owed, ready>>

\* create_http_server / create_nats_server; a failure leaves the cell empty.
CreateServer(ok) ==
    /\ server = "starting"
    /\ server' = IF ok THEN "up" ELSE "none"
    /\ UNCHANGED <<plane, serverOf, regVars, inflight, permit, reqVars, unreg, ugen, owed, ready>>

-----------------------------------------------------------------------------
(* Registration *)

RegisterHttp ==
    /\ plane = "http" /\ serverOf # {} /\ gen < MaxRegistrations
    /\ gen' = gen + 1 /\ entry' = gen + 1 /\ ready' = TRUE
    /\ UNCHANGED <<netVars, spawning, listening, inflight, permit, reqVars, unreg, ugen, owed>>

\* The listener is spawned and set_portname_registered is called ...
RegisterNats ==
    /\ plane = "nats" /\ serverOf # {} /\ gen < MaxRegistrations /\ ~spawning
    /\ gen' = gen + 1 /\ spawning' = TRUE /\ listening' = listening \cup {gen + 1} /\ ready' = TRUE
    /\ UNCHANGED <<netVars, entry, inflight, permit, reqVars, unreg, ugen, owed>>

\* ... and 10 ms later the task is kept.
KeepTask ==
    /\ spawning /\ spawning' = FALSE
    /\ entry' = gen
    /\ UNCHANGED <<netVars, gen, listening, inflight, permit, reqVars, unreg, ugen, owed, ready>>

-----------------------------------------------------------------------------
(* Requests *)

\* handle_shared_request finds the handler, or answers 404, which the client takes
\* for an error of the request, not of the connection.
Lookup(r) ==
    /\ plane = "http" /\ server = "up" /\ rstate[r] = "idle"
    /\ IF entry = 0
       THEN /\ rstate' = [rstate EXCEPT ![r] = "done"]
            /\ client' = [client EXCEPT ![r] = "status"] /\ UNCHANGED rgen
       ELSE /\ rstate' = [rstate EXCEPT ![r] = "looked"]
            /\ rgen' = [rgen EXCEPT ![r] = entry] /\ UNCHANGED client
    /\ UNCHANGED <<netVars, regVars, inflight, permit, unreg, ugen, owed, ready>>

\* It counts the request, spawns the handler and answers 202.
Count(r) ==
    /\ rstate[r] = "looked"
    /\ rstate' = [rstate EXCEPT ![r] = "running"]
    /\ inflight' = [inflight EXCEPT ![rgen[r]] = @ + 1]
    /\ client' = [client EXCEPT ![r] = IF @ = "none" THEN "ok" ELSE @]
    /\ UNCHANGED <<netVars, regVars, permit, rgen, unreg, ugen, owed, ready>>

\* PushEndpoint::start: the listener answers, counts and spawns.
PlaneReceive(r, g) ==
    /\ rstate[r] = "idle" /\ g \in listening
    /\ rstate' = [rstate EXCEPT ![r] = "running"] /\ rgen' = [rgen EXCEPT ![r] = g]
    /\ inflight' = [inflight EXCEPT ![g] = @ + 1]
    /\ client' = [client EXCEPT ![r] = IF @ = "none" THEN "ok" ELSE @]
    /\ UNCHANGED <<netVars, regVars, permit, unreg, ugen, owed, ready>>

\* send_request times out, or has nobody to connect to, wherever the request is.
CannotConnect(r) ==
    /\ client[r] = "none" /\ plane # "none"
    /\ client' = [client EXCEPT ![r] = "cannot_connect"]
    /\ UNCHANGED <<netVars, regVars, inflight, permit, rstate, rgen, unreg, ugen, owed, ready>>

\* handle_payload has returned: first the count, then the notification.
Uncount(r) ==
    /\ rstate[r] = "running"
    /\ rstate' = [rstate EXCEPT ![r] = "notify"]
    /\ inflight' = [inflight EXCEPT ![rgen[r]] = @ - 1]
    /\ UNCHANGED <<netVars, regVars, permit, rgen, client, unreg, ugen, owed, ready>>

\* Mutant of NotifyOne: only those are woken who wait already.
NotifyWaiters(r) ==
    /\ rstate[r] = "notify"
    /\ rstate' = [rstate EXCEPT ![r] = "done"]
    /\ permit' = IF unreg = "wait" THEN permit \cup {rgen[r]} ELSE permit
    /\ UNCHANGED <<netVars, regVars, inflight, rgen, client, unreg, ugen, owed, ready>>

NotifyOne(r) ==
    /\ rstate[r] = "notify"
    /\ rstate' = [rstate EXCEPT ![r] = "done"]
    /\ permit' = permit \cup {rgen[r]}
    /\ UNCHANGED <<netVars, regVars, inflight, rgen, client, unreg, ugen, owed, ready>>

-----------------------------------------------------------------------------
(* unregister_portname *)

Counted(g) == {r \in Requests : rgen[r] = g /\ rstate[r] = "running"}

UnregisterHttp ==
    /\ plane = "http" /\ unreg = "idle" /\ gen > 0
    /\ ugen' = entry /\ entry' = 0
    /\ unreg' = IF entry = 0 THEN "done" ELSE "drain"
    /\ owed' = IF entry = 0 THEN {} ELSE Counted(entry)
    /\ ready' = IF entry = 0 THEN ready ELSE FALSE
    /\ UNCHANGED <<netVars, gen, spawning, listening, inflight, permit, reqVars>>

\* The listener is cancelled and joined.
UnregisterNats ==
    /\ plane = "nats" /\ unreg = "idle" /\ gen > 0
    /\ ugen' = entry /\ entry' = 0
    /\ unreg' = IF entry = 0 THEN "done" ELSE "cancel"
    /\ UNCHANGED <<netVars, gen, spawning, listening, inflight, permit, reqVars, owed, ready>>

\* A request that is there already goes first; then the loop ends.
ListenerStops ==
    /\ unreg = "cancel" /\ unreg' = "drain"
    /\ listening' = listening \ {ugen} /\ ready' = FALSE
    /\ owed' = Counted(ugen)
    /\ UNCHANGED <<netVars, gen, entry, spawning, inflight, permit, reqVars, ugen>>

\* Mutant of Drained: the count is not looked at again after a notification.
DrainedOnce == inflight[ugen] = 0 \/ ugen \in permit

Drained == inflight[ugen] = 0

Drain ==
    /\ unreg = "drain" /\ unreg' = IF Drained THEN "done" ELSE "await"
    /\ UNCHANGED <<netVars, regVars, inflight, permit, reqVars, ugen, owed, ready>>

\* notify.notified().await: a stored permit is taken at once.
Notified ==
    /\ \/ /\ unreg \in {"await", "wait"} /\ ugen \in permit
          /\ unreg' = "drain" /\ permit' = permit \ {ugen}
       \/ unreg = "await" /\ ugen \notin permit /\ unreg' = "wait" /\ UNCHANGED permit
    /\ UNCHANGED <<netVars, regVars, inflight, reqVars, ugen, owed, ready>>

-----------------------------------------------------------------------------
Serve(r) == Count(r) \/ Uncount(r) \/ NotifyOne(r)

PlaneNext ==
    \/ Configure
    \/ \E m \in Managers : Server(m)
    \/ \E ok \in BOOLEAN : CreateServer(ok)
    \/ RegisterHttp \/ RegisterNats \/ KeepTask
    \/ \E r \in Requests : Lookup(r) \/ Serve(r) \/ CannotConnect(r)
                           \/ \E g \in Gens : PlaneReceive(r, g)
    \/ UnregisterHttp \/ UnregisterNats \/ ListenerStops \/ Drain \/ Notified

\* Handlers end, and unregister_portname is polled.
PlaneFairness == WF_planeVars(ListenerStops \/ Drain \/ Notified) /\ \A r \in Requests : WF_planeVars(Serve(r))

-----------------------------------------------------------------------------
\* When unregister_portname returns, every request that was counted when the handler
\* was taken away has been handled, and no listener of it accepts another.
UnregisterDrains ==
    unreg = "done" /\ ugen # 0 =>
        /\ owed \cap Counted(ugen) = {}
        /\ ugen \notin listening

\* Unregistering ends once the handlers do: no notification is missed.
PlaneWaits == unreg = "drain"
PlaneAnswered == unreg = "done"
UnregisterEnds == PlaneWaits ~> PlaneAnswered

-----------------------------------------------------------------------------
(***************************************************************************)
(* The ZMQ request server of lib/runtime/src/transports/zmq.rs: a ROUTER   *)
(* socket whose task hands every frame to the response stream of its       *)
(* request, a watch task that cancels the caller's token when the server   *)
(* task fails, and the streams that callers register and drop.             *)
(*                                                                         *)
(* Payloads are numbers.  A frame of the wrong shape is a frame without    *)
(* its three parts.  The socket keeps the order of the frames it got.      *)
(***************************************************************************)
CONSTANTS Ids,         \* request ids, each used for one stream
          Capacity,    \* of a response stream
          MaxFrames,   \* frames the dealers send
          MaxBroken    \* of which so many are of the wrong shape

VARIABLES wire,            \* frames the socket has
          sent, broken,
          active, control, \* RouterState: active_streams, control_channels
          used,            \* ids that were registered
          buffer, open,    \* the streams: what they hold, which receivers are there
          got,             \* got[id]: what the receiver took
          due,             \* due[id]: what came for it while it was registered
          task,            \* the server task: "running", "ended", "failed"
          held,            \* the frame it dispatches, with the sender it has cloned
          child, parent,   \* the tokens: cancelled?
          watch            \* the watch task: "waiting", "done"

streamVars == <<active, control, used, buffer, open, got>>
serverVars == <<task, held, child, parent, watch>>
zmqVars == <<wire, sent, broken, streamVars, serverVars, due>>

None == [id |-> "none", n |-> 0]

ZmqInit ==
  /\ wire = <<>> /\ sent = 0 /\ broken = 0
  /\ active = {} /\ control = {} /\ used = {} /\ open = {}
  /\ buffer = [i \in Ids |-> <<>>] /\ got = [i \in Ids |-> <<>>] /\ due = [i \in Ids |-> <<>>]
  /\ task = "running" /\ held = None /\ child = FALSE /\ parent = FALSE /\ watch = "waiting"

\* A dealer sends a frame; at the socket a frame has three parts, or it is broken.
DealerSends(i) ==
  /\ sent < MaxFrames /\ sent' = sent + 1
  /\ wire' = Append(wire, [id |-> i, n |-> sent + 1, parts |-> 3])
  /\ UNCHANGED <<due, broken, streamVars, serverVars>>
DealerBreaks(i) ==
  /\ broken < MaxBroken /\ broken' = broken + 1
  /\ wire' = Append(wire, [id |-> i, n |-> 0, parts |-> 2])
  /\ UNCHANGED <<due, sent, streamVars, serverVars>>

RegisterStream(i) ==
  /\ i \notin used /\ used' = used \cup {i}
  /\ active' = active \cup {i} /\ control' = control \cup {i} /\ open' = open \cup {i}
  /\ UNCHANGED <<due, wire, sent, broken, buffer, got, serverVars>>

RemoveStream(i) ==
  /\ i \in control /\ active' = active \ {i} /\ control' = control \ {i}
  /\ UNCHANGED <<due, wire, sent, broken, used, buffer, open, got, serverVars>>

\* The caller takes an item, or drops its receiver.
ZmqReceive(i) ==
  /\ i \in open /\ buffer[i] # <<>>
  /\ got' = [got EXCEPT ![i] = Append(@, Head(buffer[i]))]
  /\ buffer' = [buffer EXCEPT ![i] = Tail(@)]
  /\ UNCHANGED <<due, wire, sent, broken, active, control, used, open, serverVars>>
DropReceiver(i) ==
  /\ i \in open /\ open' = open \ {i} /\ buffer' = [buffer EXCEPT ![i] = <<>>]
  /\ UNCHANGED <<due, wire, sent, broken, active, control, used, got, serverVars>>

-----------------------------------------------------------------------------
(* Server::run; the select prefers a frame to the cancellation                *)

\* Mutant of NextFrame: a broken frame is skipped
NextFrameLenient ==
  /\ task = "running" /\ held = None /\ wire # <<>> /\ wire' = Tail(wire)
  /\ due' = (IF Head(wire).id \in active /\ Head(wire).parts = 3
             THEN [due EXCEPT ![Head(wire).id] = Append(@, Head(wire).n)] ELSE due)
  /\ held' = (IF Head(wire).parts = 3 /\ Head(wire).id \in active
              THEN [id |-> Head(wire).id, n |-> Head(wire).n] ELSE None)
  /\ UNCHANGED <<sent, broken, streamVars, task, child, parent, watch>>

\* the frame count, and the stream of the request, whose sender is cloned
NextFrame ==
  /\ task = "running" /\ held = None /\ wire # <<>> /\ wire' = Tail(wire)
  /\ due' = (IF Head(wire).id \in active /\ Head(wire).parts = 3
             THEN [due EXCEPT ![Head(wire).id] = Append(@, Head(wire).n)] ELSE due)
  /\ IF Head(wire).parts # 3 THEN task' = "failed" /\ UNCHANGED held
     ELSE /\ held' = IF Head(wire).id \in active THEN [id |-> Head(wire).id, n |-> Head(wire).n] ELSE None
          /\ UNCHANGED task
  /\ UNCHANGED <<sent, broken, streamVars, child, parent, watch>>

Cancelled ==
  /\ task = "running" /\ held = None /\ wire = <<>> /\ child /\ task' = "ended"
  /\ UNCHANGED <<due, wire, sent, broken, streamVars, held, child, parent, watch>>

\* dispatch_frame: the item goes into the stream as soon as there is room
\* (SendEager, SendDelayed); Close when the receiver is gone.
\* Mutant of SendItem: a full stream loses the item
SendItemOrDrop ==
  /\ held # None /\ held.id \in open
  /\ buffer' = (IF Len(buffer[held.id]) < Capacity
                THEN [buffer EXCEPT ![held.id] = Append(@, held.n)] ELSE buffer)
  /\ held' = None
  /\ UNCHANGED <<due, wire, sent, broken, active, control, used, open, got, task, child, parent, watch>>

SendItem ==
  /\ held # None /\ held.id \in open /\ Len(buffer[held.id]) < Capacity
  /\ buffer' = [buffer EXCEPT ![held.id] = Append(@, held.n)] /\ held' = None
  /\ UNCHANGED <<due, wire, sent, broken, active, control, used, open, got, task, child, parent, watch>>

CloseStream ==
  /\ held # None /\ held.id \notin open
  /\ active' = active \ {held.id} /\ held' = None
  /\ UNCHANGED <<due, wire, sent, broken, control, used, buffer, open, got, task, child, parent, watch>>

\* Mutant of Watch: only a panic reaches the caller's token
WatchPanicOnly ==
  /\ watch = "waiting" /\ task # "running" /\ watch' = "done"
  /\ UNCHANGED <<due, wire, sent, broken, streamVars, task, held, child, parent>>

\* the watch task of Server::new; the child token follows its parent
Watch ==
  /\ watch = "waiting" /\ task # "running" /\ watch' = "done"
  /\ parent' = (parent \/ task = "failed") /\ child' = (child \/ task = "failed")
  /\ UNCHANGED <<due, wire, sent, broken, streamVars, task, held>>

\* ServerExecutionHandle::cancel, or the caller's own token
CancelHandle ==
  /\ ~child /\ child' = TRUE
  /\ UNCHANGED <<due, wire, sent, broken, streamVars, task, held, parent, watch>>
CancelParent ==
  /\ ~parent /\ parent' = TRUE /\ child' = TRUE
  /\ UNCHANGED <<due, wire, sent, broken, streamVars, task, held, watch>>

ZmqNext ==
  \/ \E i \in Ids : \/ DealerSends(i) \/ DealerBreaks(i) \/ RegisterStream(i) \/ RemoveStream(i)
                    \/ ZmqReceive(i) \/ DropReceiver(i)
  \/ NextFrame \/ Cancelled \/ SendItem \/ CloseStream \/ Watch \/ CancelHandle \/ CancelParent

ZmqSpec == ZmqInit /\ [][ZmqNext]_zmqVars

Run == NextFrame \/ Cancelled \/ SendItem \/ CloseStream

\* The tasks of the runtime run; a caller reads its stream or drops it.
ZmqFairness ==
  /\ WF_zmqVars(Run) /\ WF_zmqVars(Watch)
  /\ \A i \in Ids : WF_zmqVars(ZmqReceive(i))
ZmqFairSpec == ZmqSpec /\ ZmqFairness

-----------------------------------------------------------------------------
\* A stream gives its caller, in order and once, everything that came for its
\* request while it was registered, and nothing of another request: a full stream
\* delays the server, it loses nothing.
StreamGetsAll ==
  \A i \in open :
    got[i] \o buffer[i] \o (IF held.id = i THEN <<held.n>> ELSE <<>>) = due[i]

\* A broken frame ends the server and cancels the caller's token (the contract in
\* the module's head); a cancelled server ends when its frames are handed out, and
\* that alone cancels nobody.
ZmqWaits == broken > 0 \/ child
ZmqAnswered == task # "running" /\ (task = "failed" => parent)
ServerEnds == ZmqWaits ~> ZmqAnswered
=============================================================================
