------------------------------ MODULE HostPool ------------------------------
(***************************************************************************)
(* The connections to one host (egress/tcp_client.rs, HostPool and the       *)
(* TcpConnectionPool around it).  Callers take a connection from a snapshot   *)
(* without a lock; when there is none to be had they prune the LRU list       *)
(* under its lock, store a new snapshot after it, and one of them at a time,  *)
(* whoever sets `connecting', opens another connection.                       *)
(*                                                                         *)
(* connect_notify only shortens a wait that connect_timeout ends: a waiter    *)
(* may look again at any time.                                               *)
(***************************************************************************)
EXTENDS Naturals, Sequences, FiniteSets, SequencesExt

CONSTANTS
    Callers,            \* requests; each checks out a connection once
    Warmers,            \* callers that start_warmup_watcher spawns
    MaxConnections,     \* config.pool_size
    Buffer,             \* channel_buffer of a connection
    Retries,            \* MAX_CONNECT_RETRIES (5 in the code)
    Limit,              \* permits of connect_limiter
    MaxChanges          \* bound: changes of the list of instances

VARIABLES
    snapshot, lru,      \* sequences of connections; lru has the latest first
    next_id,            \* connections made so far; they are named 1, 2, ...
    healthy, inflight,  \* of each connection
    connecting,         \* the gate
    limiter,            \* free permits of connect_limiter
    at, conn,           \* where a caller is; the connection it got or made
    snap, need, retry,  \* its locals: the list to store, need_connect, the loop
    hosted,             \* the pool is in `hosts'
    listed, known,      \* the address is discovered; known_addrs has it
    changes

vars == <<snapshot, lru, next_id, healthy, inflight, connecting, limiter, at, conn,
          snap, need, retry, hosted, listed, known, changes>>
poolVars  == <<snapshot, lru, next_id, healthy, inflight>>
localVars == <<snap, need, retry>>
outerVars == <<hosted, listed, known, changes>>

All    == Callers \cup Warmers
Made   == 1..(Cardinality(All))
Guarded == {"limit", "connect", "insert", "publish", "unguard", "error"}

Has(c)  == c \in healthy /\ inflight[c] < Buffer
Elems(q) == {q[i] : i \in DOMAIN q}

Init ==
    /\ snapshot = <<>> /\ lru = <<>> /\ next_id = 0 /\ healthy = {}
    /\ inflight = [c \in Made |-> 0] /\ connecting = FALSE /\ limiter = Limit
    /\ at = [r \in All |-> "idle"] /\ conn = [r \in All |-> 0]
    /\ snap = [r \in All |-> <<>>] /\ need = [r \in All |-> FALSE]
    /\ retry = [r \in All |-> 0]
    /\ hosted = TRUE /\ listed = FALSE /\ known = FALSE /\ changes = 0

Goto(r, p) == at' = [at EXCEPT ![r] = p]

\* A round robin over conns from a shared counter: any of those that qualify.
Take(r, S) == \E c \in S : conn' = [conn EXCEPT ![r] = c] /\ Goto(r, "have")

\* The connections a caller may use: with room; if there is none and the pool is
\* full, any healthy one.
Usable(conns) ==
    LET room == {c \in Elems(conns) : Has(c)}
    IN  IF room # {} THEN room
        ELSE IF Len(conns) > 0 /\ Len(conns) >= MaxConnections
             THEN Elems(conns) \cap healthy ELSE {}

-----------------------------------------------------------------------------
\* HostPool::get_connection, the hot path.
HotPath(r) ==
    /\ IF Usable(snapshot) # {} THEN Take(r, Usable(snapshot))
       ELSE Goto(r, "heal") /\ UNCHANGED conn
    /\ UNCHANGED <<poolVars, connecting, limiter, localVars, hosted, changes>>

\* TcpRequestClient::send_request asks the pool.
GetConnection(r) ==
    /\ r \in Callers /\ at[r] = "idle" /\ hosted
    /\ HotPath(r) /\ UNCHANGED <<listed, known>>

\* start_warmup_watcher: only an address that was not known is warmed up.
WarmupWatch ==
    /\ known # listed
    /\ known' = listed
    /\ IF listed /\ hosted /\ \E r \in Warmers : at[r] = "idle"
       THEN HotPath(CHOOSE r \in Warmers : at[r] = "idle")
       ELSE UNCHANGED <<at, conn, poolVars, connecting, limiter, localVars, hosted, changes>>
    /\ UNCHANGED listed

Discovery ==
    /\ changes < MaxChanges /\ changes' = changes + 1
    /\ listed' = ~listed
    /\ UNCHANGED <<poolVars, connecting, limiter, at, conn, localVars, hosted, known>>

\* Grow when there is no healthy connection, or each is full and there may be more.
ShouldGrow(conns) ==
    \/ conns = <<>>
    \/ Len(conns) < MaxConnections /\ \A c \in Elems(conns) : inflight[c] >= Buffer

Pruned(q) == SelectSeq(q, LAMBDA c : c \in healthy)

\* Phase A, under the lock of lru ...
Prune(r) ==
    /\ at[r] = "heal"
    /\ lru' = Pruned(lru)
    /\ snap' = [snap EXCEPT ![r] = lru'] /\ need' = [need EXCEPT ![r] = ShouldGrow(lru')]
    /\ Goto(r, "store")
    /\ UNCHANGED <<snapshot, next_id, healthy, inflight, connecting, limiter, conn, retry, outerVars>>

\* ... and after it.
StoreSnapshot(r) ==
    /\ at[r] = "store"
    /\ snapshot' = snap[r]
    /\ Goto(r, "recheck")
    /\ UNCHANGED <<lru, next_id, healthy, inflight, connecting, limiter, conn, localVars, outerVars>>

\* Another snapshot may have taken its place by now.
Recheck(r) ==
    /\ at[r] = "recheck"
    /\ LET found == {c \in Elems(snapshot) \cap healthy : ~need[r] \/ Has(c)}
       IN  IF found # {} THEN Take(r, found)
           ELSE Goto(r, IF need[r] THEN "gate" ELSE "failed") /\ UNCHANGED conn
    /\ UNCHANGED <<poolVars, connecting, limiter, localVars, outerVars>>

-----------------------------------------------------------------------------
\* Phase B: whoever swaps `connecting' from false to true connects.
Gate(r) ==
    /\ at[r] = "gate"
    /\ Goto(r, IF connecting THEN "wait" ELSE "limit")
    /\ connecting' = TRUE
    /\ UNCHANGED <<poolVars, limiter, conn, localVars, outerVars>>

AcquireLimit(r) ==
    /\ at[r] = "limit" /\ limiter > 0
    /\ limiter' = limiter - 1
    /\ Goto(r, "connect")
    /\ UNCHANGED <<poolVars, connecting, conn, localVars, outerVars>>

\* TcpConnection::connect returns, and the gate is opened.
Connected(r) ==
    /\ at[r] = "connect"
    /\ next_id' = next_id + 1
    /\ healthy' = healthy \cup {next_id'}
    /\ conn' = [conn EXCEPT ![r] = next_id']
    /\ connecting' = FALSE
    /\ Goto(r, "insert")
    /\ UNCHANGED <<snapshot, lru, inflight, limiter, localVars, outerVars>>

ConnectFails(r) ==
    /\ at[r] = "connect"
    /\ connecting' = FALSE
    /\ Goto(r, "error")
    /\ UNCHANGED <<poolVars, limiter, conn, localVars, outerVars>>

\* Phase C: lru.put drops the least recent connection when the list is full.
Insert(r) ==
    /\ at[r] = "insert"
    /\ LET q == <<conn[r]>> \o Pruned(lru)
       IN  lru' = SubSeq(q, 1, IF Len(q) > MaxConnections THEN MaxConnections ELSE Len(q))
    /\ snap' = [snap EXCEPT ![r] = lru']
    /\ Goto(r, "publish")
    /\ UNCHANGED <<snapshot, next_id, healthy, inflight, connecting, limiter, conn, need, retry, outerVars>>

Publish(r) ==
    /\ at[r] = "publish"
    /\ snapshot' = snap[r]
    /\ Goto(r, "unguard")
    /\ UNCHANGED <<lru, next_id, healthy, inflight, connecting, limiter, conn, localVars, outerVars>>

\* Mutant of Unguard: the guard only wakes the waiters when its future is dropped.
UnguardQuietly(r) ==
    /\ limiter' = IF at[r] = "limit" THEN limiter ELSE limiter + 1
    /\ connecting' = IF at[r] \in {"unguard", "error"} THEN FALSE ELSE connecting

\* The permit and ConnectingGuard are dropped: the gate is opened once more.
Unguard(r) ==
    /\ limiter' = IF at[r] = "limit" THEN limiter ELSE limiter + 1
    /\ connecting' = FALSE

Leave(r) ==
    /\ at[r] \in {"unguard", "error"}
    /\ Unguard(r)
    /\ Goto(r, IF at[r] = "unguard" THEN "have" ELSE "failed")
    /\ UNCHANGED <<poolVars, conn, localVars, outerVars>>

\* A caller that lost looks at the snapshot again, woken or timed out.
Look(r) ==
    /\ at[r] = "wait"
    /\ IF Usable(snapshot) # {} THEN Take(r, Usable(snapshot)) /\ UNCHANGED retry
       ELSE /\ retry' = [retry EXCEPT ![r] = @ + 1]
            /\ Goto(r, IF retry'[r] = Retries THEN "last" ELSE "gate")
            /\ UNCHANGED conn
    /\ UNCHANGED <<poolVars, connecting, limiter, snap, need, outerVars>>

\* After the last retry any healthy connection will do.
LastResort(r) ==
    /\ at[r] = "last"
    /\ IF Elems(snapshot) \cap healthy # {} THEN Take(r, Elems(snapshot) \cap healthy)
       ELSE Goto(r, "failed") /\ UNCHANGED conn
    /\ UNCHANGED <<poolVars, connecting, limiter, localVars, outerVars>>

\* The future is dropped at one of its awaits.
Cancel(r) ==
    /\ at[r] \in {"limit", "connect", "wait"}
    /\ IF at[r] = "wait" THEN UNCHANGED <<connecting, limiter>> ELSE Unguard(r)
    /\ Goto(r, "failed")
    /\ UNCHANGED <<poolVars, conn, localVars, outerVars>>

-----------------------------------------------------------------------------
\* The caller's exchange on its connection; a warm-up drops it at once.
Send(r) ==
    /\ at[r] = "have"
    /\ IF r \in Warmers THEN Goto(r, "done") /\ UNCHANGED inflight
       ELSE Goto(r, "busy") /\ inflight' = [inflight EXCEPT ![conn[r]] = @ + 1]
    /\ UNCHANGED <<snapshot, lru, next_id, healthy, connecting, limiter, conn, localVars, outerVars>>

Finish(r) ==
    /\ at[r] = "busy"
    /\ inflight' = [inflight EXCEPT ![conn[r]] = @ - 1]
    /\ Goto(r, "done")
    /\ UNCHANGED <<snapshot, lru, next_id, healthy, connecting, limiter, conn, localVars, outerVars>>

\* Reader or writer of a connection fail.
Breaks(c) ==
    /\ c \in healthy
    /\ healthy' = healthy \ {c}
    /\ UNCHANGED <<snapshot, lru, next_id, inflight, connecting, limiter, at, conn, localVars, outerVars>>

\* cleanup_idle_hosts: the pool leaves `hosts' if no connection of its snapshot is
\* in use; the connections of the snapshot are closed.
CleanupIdleHosts ==
    /\ hosted /\ \A c \in Elems(snapshot) : inflight[c] = 0
    /\ hosted' = FALSE
    /\ healthy' = healthy \ Elems(snapshot)
    /\ UNCHANGED <<snapshot, lru, next_id, inflight, connecting, limiter, at, conn, localVars, listed, known, changes>>

Caller(r) ==
    \/ Prune(r) \/ StoreSnapshot(r) \/ Recheck(r) \/ Gate(r) \/ AcquireLimit(r)
    \/ Connected(r) \/ ConnectFails(r) \/ Insert(r) \/ Publish(r) \/ Leave(r)
    \/ Look(r) \/ LastResort(r) \/ Send(r) \/ Finish(r)

Next ==
    \/ \E r \in All : GetConnection(r) \/ Caller(r) \/ Cancel(r)
    \/ WarmupWatch \/ Discovery \/ CleanupIdleHosts
    \/ \E c \in Made : Breaks(c)

Spec == Init /\ [][Next]_vars

\* Futures are polled; connecting ends, by connect_timeout if not before.
Fairness == \A r \in All : WF_vars(Caller(r))
FairSpec == Spec /\ Fairness

-----------------------------------------------------------------------------
\* The gate is never left closed: whoever closed it is still on the way to open
\* it, wherever its future was dropped; so growth is not blocked for good, and
\* the permits of connect_limiter come back.
GateHeld ==
    /\ connecting => \E r \in All : at[r] \in Guarded
    /\ limiter + Cardinality({r \in All : at[r] \in Guarded \ {"limit"}}) = Limit

\* Every checkout comes to an end, with a connection or an error.
Waits(r) == at[r] \notin {"idle", "done", "failed"}
Answered(r) == at[r] \in {"done", "failed"}
CheckoutEnds == \A r \in All : Waits(r) ~> Answered(r)

=============================================================================
