----------------------------- MODULE ObjectPool -----------------------------
(***************************************************************************)
(* utils/pool.rs.  Pool hands values out to asynchronous tasks, SyncPool to    *)
(* threads.  A value is in the queue or with one holder; a PoolItem that is     *)
(* shared goes back when the last clone is dropped.  Pool wakes a waiter by     *)
(* Notify::notify_one, which keeps one permit when nobody waits; SyncPool by a   *)
(* condition variable, which keeps nothing, but whose lock the waiter gives up   *)
(* and starts to wait in one step.                                           *)
(***************************************************************************)
EXTENDS Naturals, Sequences, FiniteSets, SequencesExt

CONSTANTS
    Tasks,              \* tasks or threads; each acquires and drops in a loop
    Items,              \* the initial elements
    Clones,             \* bound: clones of a shared item at one time
    Sync                \* TRUE: SyncPool, FALSE: Pool

VARIABLES
    pool,               \* the queue of values
    returned,           \* values on which on_return ran since they were handed out
    pc, item, copies,   \* where a task is, what it holds, with how many clones
    permit,             \* Notify's stored permit
    woken               \* tasks that were notified and have not looked yet

vars == <<pool, returned, pc, item, copies, permit, woken>>
None == "none"

Init ==
    /\ pool = SetToSeq(Items) /\ returned = Items
    /\ pc = [t \in Tasks |-> "idle"] /\ item = [t \in Tasks |-> None]
    /\ copies = [t \in Tasks |-> 0] /\ permit = FALSE /\ woken = {}

Goto(t, p) == pc' = [pc EXCEPT ![t] = p]

Acquire(t) ==
    /\ pc[t] = "idle" /\ Goto(t, "try")
    /\ UNCHANGED <<pool, returned, item, copies, permit, woken>>

\* try_acquire under the lock.
PopFront(t) ==
    /\ pool # <<>>
    /\ item' = [item EXCEPT ![t] = Head(pool)] /\ pool' = Tail(pool)
    /\ returned' = returned \ {Head(pool)}
    /\ copies' = [copies EXCEPT ![t] = 1]
    /\ Goto(t, "have")

\* Pool::acquire unlocks before it waits; SyncPool::acquire_blocking waits while it
\* unlocks.
TryAcquire(t) ==
    /\ pc[t] = "try"
    /\ \/ PopFront(t)
       \/ /\ pool = <<>> /\ Goto(t, IF Sync THEN "waiting" ELSE "await")
          /\ UNCHANGED <<pool, returned, item, copies>>
    /\ UNCHANGED <<permit, woken>>

\* available.notified().await: a stored permit is taken at once.
Notified(t) ==
    /\ pc[t] = "await"
    /\ Goto(t, IF permit THEN "try" ELSE "waiting") /\ permit' = FALSE
    /\ UNCHANGED <<pool, returned, item, copies, woken>>

Wake(t) ==
    /\ pc[t] = "waiting" /\ t \in woken
    /\ woken' = woken \ {t} /\ Goto(t, "try")
    /\ UNCHANGED <<pool, returned, item, copies, permit>>

\* A dropped future that was notified hands the notification on; a thread cannot be
\* dropped.
Cancel(t) ==
    /\ ~Sync /\ pc[t] \in {"await", "waiting"} /\ Goto(t, "idle")
    /\ LET others == {u \in Tasks \ {t} : pc[u] = "waiting" /\ u \notin woken}
       IN  IF t \in woken
           THEN IF others = {} THEN permit' = TRUE /\ woken' = woken \ {t}
                ELSE UNCHANGED permit /\ \E u \in others : woken' = (woken \ {t}) \cup {u}
           ELSE UNCHANGED <<permit, woken>>
    /\ UNCHANGED <<pool, returned, item, copies>>

CloneShared(t) ==
    /\ pc[t] = "have" /\ ~Sync /\ copies[t] <= Clones
    /\ copies' = [copies EXCEPT ![t] = @ + 1]
    /\ UNCHANGED <<pool, returned, pc, item, permit, woken>>

\* Mutant of NotifyOne: nothing is kept when nobody waits yet.
NotifyWaiters ==
    LET waiters == {u \in Tasks : pc[u] = "waiting" /\ u \notin woken}
    IN  IF waiters # {} THEN UNCHANGED permit /\ \E u \in waiters : woken' = woken \cup {u}
        ELSE UNCHANGED <<permit, woken>>

\* notify_one
NotifyOne ==
    LET waiters == {u \in Tasks : pc[u] = "waiting" /\ u \notin woken}
    IN  IF waiters # {} THEN UNCHANGED permit /\ \E u \in waiters : woken' = woken \cup {u}
        ELSE permit' = ~Sync /\ UNCHANGED woken

\* Drop of a PoolItem: on_return, then return_to_pool under the lock.
DropItem(t) ==
    /\ pc[t] = "have"
    /\ copies' = [copies EXCEPT ![t] = @ - 1]
    /\ IF copies[t] > 1 THEN UNCHANGED <<pool, returned, pc, item, permit, woken>>
       ELSE /\ returned' = returned \cup {item[t]}
            /\ pool' = Append(pool, item[t])
            /\ item' = [item EXCEPT ![t] = None]
            /\ Goto(t, "idle") /\ NotifyOne

Next == \E t \in Tasks : Acquire(t) \/ TryAcquire(t) \/ Notified(t) \/ Wake(t) \/ Cancel(t)
                         \/ CloneShared(t) \/ DropItem(t)

-----------------------------------------------------------------------------
\* No value is lost or handed out twice: the queue and the holders have each of them
\* exactly once, and what is in the queue was reset by on_return.
Conserved ==
    LET held == {t \in Tasks : item[t] # None}
    IN  /\ Len(pool) + Cardinality(held) = Cardinality(Items)
        /\ ToSet(pool) \cup {item[t] : t \in held} = Items
        /\ ToSet(pool) \subseteq returned

\* Those that sleep and that nobody has notified.
Asleep == {t \in Tasks : pc[t] = "waiting" /\ t \notin woken}

\* A thread sleeps on SyncPool only while every value in the queue has somebody on its way
\* to it: one notification or one new caller each.
SyncWakes ==
    Asleep # {} =>
        Len(pool) <= Cardinality(woken) + Cardinality({t \in Tasks : pc[t] = "try"})

\* Pool promises less: returns before the sleepers poll share the one permit that Notify
\* keeps, so a task may sleep beside a free value.  But no permit stays with it, and
\* somebody is about to take a value or has one, and returns it with a notification: the
\* task is never left asleep beside an idle pool.
AsyncWakes ==
    Asleep # {} => /\ ~permit
                   /\ \/ pool = <<>> \/ woken # {}
                      \/ \E t \in Tasks : pc[t] \in {"try", "have"}

NoLostWakeup == IF Sync THEN SyncWakes ELSE AsyncWakes
=============================================================================
