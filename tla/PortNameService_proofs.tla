------------------------ MODULE PortNameService_proofs ------------------------
(***************************************************************************)
(* Two theorems about starting, serving and cleaning up portnames, for every *)
(* set of portnames and requests and every layout of their paths.            *)
(*                                                                         *)
(* Published_Reachable: a published portname keeps its handler.  ReachInv    *)
(* says who may remove a path: only the clean-up of a portname of that name,  *)
(* and only once that portname is cancelled.                                  *)
(*                                                                         *)
(* Phase_Order: Runtime::shutdown reaches its third phase only when the       *)
(* clean-ups of the graceful portnames are over and no request that they       *)
(* waited for is open.  DrainInv carries it.  TrackInv: active is the number   *)
(* of portnames that are tracked.  LeftInv: who is not awaited any more has    *)
(* only requests counted later.  It needs InflightInv, that the count a        *)
(* clean-up reads is the number of open requests while every acknowledgement   *)
(* succeeds, and GoneInv, that a clean-up which has gone past removing has     *)
(* taken its own handler away, so that no request finds it.  RequestInv,       *)
(* QueueInv and OwnerInv place each request at one reader, at most once in     *)
(* the queue, and each handler on its own path.                                *)
(***************************************************************************)
EXTENDS PortNameService, FiniteSetTheorems, TLAPS

ShapeInv ==
    /\ layout \in Layouts
    /\ keys \in [Ports -> SUBSET Paths]
    /\ handlers \in [Paths -> Ports \cup {Nobody}]
    /\ DOMAIN clean = Ports /\ DOMAIN start = Ports
    /\ \A s \in Ports : start[s] # "idle" \/ clean[s] # "none" => s \in Configured

\* A clean-up holds only paths of its own name.
KeysInv ==
    \A s \in Ports : keys[s] # {} => s \in Configured /\ \A p \in keys[s] : p.name = Path(s).name

\* A clean-up does nothing before its portname is cancelled.
WaitInv ==
    \A s \in Ports : clean[s] \notin {"none", "waiting"} => Cancelled(s)

\* It is spawned by start() once, and then holds no path yet.
EmptyInv ==
    \A s \in Ports :
        /\ clean[s] \in {"none", "waiting"} => keys[s] = {}
        /\ start[s] \in {"idle", "tracked"} => clean[s] = "none"

UpInv ==
    \A s \in Ports :
        start[s] \in {"up", "published"} /\ ~Cancelled(s) /\ Namesakes(s) = {} =>
            handlers[Path(s)] = s

ReachInv == ShapeInv /\ KeysInv /\ WaitInv /\ EmptyInv /\ UpInv

\* The path of a configured portname is a path of the server.
LEMMA PathKnown ==
    ASSUME layout \in Layouts, NEW s \in Configured
    PROVE  Path(s) \in Paths
BY DEF Path, Configured, Paths

\* A path that the clean-up of s holds is not the path of a portname without
\* namesakes, unless it is the path of s itself.
LEMMA KeyOwner ==
    ASSUME KeysInv, NEW s \in Ports, NEW t \in Configured, t # s,
           Namesakes(t) = {}
    PROVE  Path(t) \notin keys[s]
BY DEF KeysInv, Namesakes

LEMMA ReachInit == Init => ReachInv
BY NobodyAssumption DEF Init, ReachInv, ShapeInv, KeysInv, WaitInv, EmptyInv, UpInv

LEMMA ReachStep == ReachInv /\ [Next]_vars => ReachInv'
<1> SUFFICES ASSUME ReachInv, [Next]_vars PROVE ReachInv'
  OBVIOUS
<1> USE DEF ReachInv, ShapeInv, KeysInv, WaitInv, EmptyInv, UpInv, Cancelled, Namesakes, Path, Configured
<1>1. ASSUME NEW s \in Ports, Track(s) PROVE ReachInv'
  BY <1>1 DEF Track, runtimeVars, cleanVars
<1>2. ASSUME NEW s \in Ports, StartFails(s) PROVE ReachInv'
  BY <1>2 DEF StartFails, runtimeVars, cleanVars
<1>3. ASSUME NEW s \in Ports, Register(s) PROVE ReachInv'
  <2>1. s \in Configured /\ Path(s) \in Paths
    BY <1>3, PathKnown DEF Register
  <2>2. ShapeInv' /\ KeysInv' /\ WaitInv' /\ EmptyInv'
    BY <1>3, <2>1 DEF Register, runtimeVars
  <2>3. ASSUME NEW t \in Ports, start'[t] \in {"up", "published"}, ~Cancelled(t)', Namesakes(t)' = {}
        PROVE  handlers'[Path(t)'] = t
    <3>1. CASE t = s
      BY <1>3, <2>1, <3>1 DEF Register
    <3>2. CASE t # s
      <4>1. t \in Configured /\ Path(t)' = Path(t) /\ Path(t) \in Paths
        BY <1>3, <2>3, <3>2, PathKnown DEF Register
      <4>2. Path(t) # Path(s)
        BY <1>3, <2>1, <2>3, <3>2, <4>1 DEF Register
      <4>3. handlers[Path(t)] = t
        BY <1>3, <2>3, <3>2 DEF Register, runtimeVars
      <4> QED
        BY <1>3, <4>1, <4>2, <4>3 DEF Register
    <3> QED
      BY <3>1, <3>2
  <2> QED
    BY <2>2, <2>3
<1>4. ASSUME NEW s \in Ports, Publish(s) PROVE ReachInv'
  BY <1>4 DEF Publish, runtimeVars, cleanVars
<1>5. ASSUME NEW s \in Ports, CollectKeys(s) PROVE ReachInv'
  <2>1. s \in Configured
    BY <1>5 DEF CollectKeys
  <2>2. keys' \in [Ports -> SUBSET Paths]
    BY <1>5 DEF CollectKeys
  <2>3. ShapeInv' /\ WaitInv' /\ EmptyInv' /\ UpInv'
    BY <1>5, <2>2 DEF CollectKeys, runtimeVars, portVars
  <2>4. KeysInv'
    BY <1>5, <2>1 DEF CollectKeys
  <2> QED
    BY <2>3, <2>4
<1>6. ASSUME NEW s \in Ports, RemoveKey(s) PROVE ReachInv'
  BY <1>6, KeyOwner DEF RemoveKey, runtimeVars, portVars
<1>7. ASSUME NEW s \in Ports, KeysDone(s) \/ LoadInflight(s) \/ DrainWakes(s) \/ Untrack(s)
      PROVE  ReachInv'
  BY <1>7 DEF KeysDone, LoadInflight, DrainWakes, Untrack, runtimeVars, portVars
<1>8. ASSUME Shutdown \/ Signal PROVE ReachInv'
  BY <1>8 DEF Shutdown, Signal, portVars, cleanVars
<1>9. ASSUME ShutdownTask PROVE ReachInv'
  BY <1>9 DEF ShutdownTask, Look, Arm, CheckCount, WaitWakes, portVars, cleanVars
<1>10. ASSUME NEW r \in Requests, ReadLoop(r) \/ Handled(r) \/ Panics(r) PROVE ReachInv'
  BY <1>10 DEF ReadLoop, Lookup, Count, Enqueue, Ack, AckFails, Handled, Panics,
       runtimeVars, portVars, cleanVars
<1>11. ASSUME Dispatch \/ Spawn PROVE ReachInv'
  BY <1>11 DEF Dispatch, Spawn, runtimeVars, portVars, cleanVars
<1>12. ASSUME UNCHANGED vars PROVE ReachInv'
  BY <1>12 DEF vars, runtimeVars, portVars, cleanVars
<1> QED
  BY <1>1, <1>2, <1>3, <1>4, <1>5, <1>6, <1>7, <1>8, <1>9, <1>10, <1>11, <1>12 DEF Next, Cleanup

\* A portname that start() has published and nobody has cancelled is the one its
\* path leads to, unless another portname of the process has the same name.
THEOREM Published_Reachable == Spec => []PublishedReachable
<1>1. ReachInv => PublishedReachable
  BY DEF ReachInv, UpInv, PublishedReachable
<1> QED
  BY <1>1, ReachInit, ReachStep, PTL DEF Spec

-----------------------------------------------------------------------------
(***************************************************************************)
(* The order of the phases.  The counter of the tracker is the number of    *)
(* portnames it tracks, so Phase 3 finds every clean-up ended; a clean-up    *)
(* that has ended has taken its own handler out and nobody waits for it any   *)
(* more; and the wait was over only when the counter of the handler was zero, *)
(* which is the number of its open requests as long as no failed             *)
(* acknowledgement has been subtracted from it.                              *)
(***************************************************************************)

\* Where a request is.
RequestInv ==
    /\ DOMAIN reader = Requests /\ DOMAIN item = Requests
    /\ target \in [Requests -> Ports \cup {Nobody}]
    /\ \A r \in Requests :
        /\ reader[r] \notin {"idle", "refused"} => target[r] \in Ports
        /\ item[r] # "none" => reader[r] \in {"sent", "acked", "unacked"}

\* What is queued or held has not been done.
QueueInv ==
    /\ queue \in Seq(Requests)
    /\ \A i \in 1..Len(queue) : item[queue[i]] = "queued"
    /\ \A i, j \in 1..Len(queue) : queue[i] = queue[j] => i = j
    /\ dispatcher # Nobody => dispatcher \in Requests /\ item[dispatcher] = "held"

\* A path leads to the portname it belongs to, and a clean-up waits only for a
\* handler of its own name.
OwnerInv ==
    /\ \A p \in Paths : handlers[p] # Nobody =>
          handlers[p] \in Configured /\ Path(handlers[p]) = p
    /\ DOMAIN drained = Ports
    /\ \A s \in Ports : clean[s] \in {"load", "asleep"} =>
          drained[s] \in Configured /\ Path(drained[s]).name = Path(s).name

\* A clean-up goes past its own handler only by removing it.
GoneInv ==
    \A s \in Ports : s \in Configured /\ Namesakes(s) = {} =>
        /\ clean[s] \in {"removing", "load", "asleep"} /\ handlers[Path(s)] = s => Path(s) \in keys[s]
        /\ clean[s] \in {"untrack", "done"} => handlers[Path(s)] # s

\* No acknowledgement of a request of s has failed.
AllAcked(s) == Counted(s) \cap Unacked = {}

\* The counter of a handler.
InflightInv ==
    /\ inflight \in [Ports -> Nat]
    /\ \A s \in Ports : AllAcked(s) => inflight[s] = Cardinality(Open(s))

\* Nobody waits for a handler any more: its open requests were counted since.
LeftInv ==
    \A s \in Ports : s \in Configured /\ ~Awaited(s) /\ Namesakes(s) = {} /\ AllAcked(s) =>
        Open(s) \subseteq late

\* What Phase 2 waits for.
TrackInv ==
    /\ active = Cardinality(Tracked)
    /\ early \subseteq Ports
    /\ \A s \in early : Graceful(s) /\ start[s] # "idle"
    /\ shut = "ended" => \A s \in early : clean[s] = "done"

DrainInv == RequestInv /\ QueueInv /\ OwnerInv /\ GoneInv /\ InflightInv /\ LeftInv /\ TrackInv

LEMMA DrainInit == Init => DrainInv
<1> SUFFICES ASSUME Init PROVE DrainInv
  OBVIOUS
<1>1. RequestInv /\ OwnerInv /\ GoneInv
  BY NobodyAssumption DEF Init, RequestInv, OwnerInv, GoneInv
<1>2. QueueInv
  <2>1. queue = <<>> /\ Len(queue) = 0 /\ 1..Len(queue) = {}
    BY DEF Init
  <2> QED
    BY <2>1 DEF Init, QueueInv
<1>3. \A s \in Ports : Counted(s) = {} /\ Open(s) = {}
  BY DEF Init, Counted, Open
<1>4. InflightInv /\ LeftInv
  BY <1>3, FS_EmptySet DEF Init, InflightInv, LeftInv
<1>5. TrackInv
  <2>1. Tracked = {}
    BY DEF Init, Tracked
  <2> QED
    BY <2>1, FS_EmptySet DEF Init, TrackInv
<1> QED
  BY <1>1, <1>2, <1>4, <1>5 DEF DrainInv

\* The steps that requests are concerned in, and those that portnames are.
LEMMA RequestFrame ==
    ASSUME [Next]_vars
    PROVE  \/ \E r \in Requests : ReadLoop(r) \/ Handled(r) \/ Panics(r)
           \/ Dispatch \/ Spawn
           \/ UNCHANGED <<reader, target, item, queue, dispatcher, inflight, late>>
BY DEF Next, vars, Cleanup, Track, StartFails, Register, Publish, CollectKeys, RemoveKey, KeysDone,
     LoadInflight, DrainWakes, Untrack, Shutdown, ShutdownTask, Look, Arm, CheckCount, WaitWakes,
     Signal, readVars, workVars, countVars

LEMMA PortFrame ==
    ASSUME [Next]_vars
    PROVE  /\ layout' = layout
           /\ \/ \E s \in Ports : Track(s) \/ Register(s) \/ StartFails(s) \/ Publish(s) \/ Cleanup(s)
              \/ UNCHANGED <<start, clean, keys, drained, handlers, active>>
BY DEF Next, vars, Cleanup, Track, StartFails, Register, Publish, CollectKeys, RemoveKey, KeysDone,
     LoadInflight, DrainWakes, Untrack, Shutdown, ShutdownTask, Look, Arm, CheckCount, WaitWakes,
     Signal, ReadLoop, Lookup, Count, Enqueue, Ack, AckFails, Handled, Panics, Dispatch, Spawn,
     portVars, cleanVars, trackVars

LEMMA RequestStep ==
    ASSUME ReachInv, RequestInv, QueueInv, [Next]_vars
    PROVE  RequestInv' /\ QueueInv'
<1> USE DEF RequestInv, QueueInv
<1>1. ASSUME NEW r \in Requests, Lookup(r) \/ Count(r) \/ Ack(r) \/ AckFails(r)
      PROVE  RequestInv' /\ QueueInv'
  BY <1>1 DEF Lookup, Count, Ack, AckFails, workVars, ReachInv, ShapeInv
<1>2. ASSUME NEW r \in Requests, Enqueue(r) PROVE RequestInv' /\ QueueInv'
  <2>1. /\ item[r] = "none" /\ queue' = Append(queue, r) /\ UNCHANGED <<target, dispatcher>>
        /\ item' = [item EXCEPT ![r] = "queued"] /\ reader' = [reader EXCEPT ![r] = "sent"]
        /\ reader[r] = "counted"
    BY <1>2 DEF Enqueue
  <2>2. /\ queue' \in Seq(Requests) /\ Len(queue') = Len(queue) + 1 /\ Len(queue) \in Nat
        /\ \A i \in 1..Len(queue) : queue'[i] = queue[i] /\ queue[i] \in Requests
        /\ queue'[Len(queue')] = r
    BY <2>1
  <2>3. \A i \in 1..Len(queue') : i \in 1..Len(queue) \/ i = Len(queue')
    BY <2>2
  <2> QED
    BY <2>1, <2>2, <2>3
<1>3. ASSUME NEW r \in Requests, Handled(r) \/ Panics(r) PROVE RequestInv' /\ QueueInv'
  <2>1. /\ UNCHANGED <<reader, target, queue, dispatcher>> /\ item[r] = "running"
        /\ DOMAIN item' = Requests /\ \A q \in Requests \ {r} : item'[q] = item[q]
    BY <1>3 DEF Handled, Panics, readVars
  <2>2. \A i \in 1..Len(queue) : queue[i] \in Requests
    OBVIOUS
  <2> QED
    BY <2>1, <2>2
<1>4. ASSUME Dispatch PROVE RequestInv' /\ QueueInv'
  <2>1. /\ queue # <<>> /\ queue' = Tail(queue) /\ dispatcher' = queue[1]
        /\ item' = [item EXCEPT ![queue[1]] = "held"] /\ UNCHANGED <<reader, target>>
    BY <1>4 DEF Dispatch, readVars
  <2>2. /\ queue' \in Seq(Requests) /\ Len(queue) \in Nat /\ Len(queue) > 0
        /\ Len(queue') = Len(queue) - 1 /\ queue[1] \in Requests /\ item[queue[1]] = "queued"
        /\ \A i \in 1..Len(queue') : queue'[i] = queue[i + 1] /\ i + 1 \in 1..Len(queue)
                                     /\ queue[i + 1] \in Requests
    BY <2>1
  <2>3. RequestInv'
    BY <2>1, <2>2
  <2>4. \A i \in 1..Len(queue') : queue'[i] # queue[1] /\ item'[queue'[i]] = "queued"
    BY <2>1, <2>2
  <2>5. \A i, j \in 1..Len(queue') : queue'[i] = queue'[j] => i = j
    BY <2>2
  <2> QED
    BY <2>1, <2>2, <2>3, <2>4, <2>5
<1>5. ASSUME Spawn PROVE RequestInv' /\ QueueInv'
  <2>1. \A i \in 1..Len(queue) : queue[i] \in Requests
    OBVIOUS
  <2> QED
    BY <1>5, <2>1 DEF Spawn, readVars
<1> QED
  BY <1>1, <1>2, <1>3, <1>4, <1>5, RequestFrame DEF ReadLoop

LEMMA OwnerStep ==
    ASSUME ReachInv, OwnerInv, GoneInv, [Next]_vars
    PROVE  OwnerInv' /\ GoneInv'
<1> USE DEF OwnerInv, GoneInv, Namesakes, Path, Configured, ReachInv, ShapeInv
<1>1. layout' = layout
  BY PortFrame
<1>2. ASSUME NEW s \in Ports, Track(s) \/ StartFails(s) \/ Publish(s) PROVE OwnerInv' /\ GoneInv'
  BY <1>1, <1>2 DEF Track, StartFails, Publish, cleanVars
<1>3. ASSUME NEW s \in Ports, Register(s) PROVE OwnerInv' /\ GoneInv'
  <2>1. s \in Configured /\ Path(s) \in Paths /\ s # Nobody
    BY <1>3, PathKnown, NobodyAssumption DEF Register
  <2>2. clean[s] = "none"
    BY <1>3 DEF Register, EmptyInv
  <2>3. OwnerInv'
    BY <1>1, <1>3, <2>1, <2>2 DEF Register
  <2>4. ASSUME NEW t \in Ports, t # s, t \in Configured, Namesakes(t) = {}
        PROVE  Path(t) # Path(s)
    BY <2>1, <2>4
  <2>5. GoneInv'
    BY <1>1, <1>3, <2>1, <2>4 DEF Register
  <2> QED
    BY <2>3, <2>5
<1>4. ASSUME NEW s \in Ports, CollectKeys(s) PROVE OwnerInv' /\ GoneInv'
  <2>1. s \in Configured /\ Path(s) \in Paths /\ s # Nobody
    BY <1>4, PathKnown, NobodyAssumption DEF CollectKeys
  <2>2. OwnerInv'
    BY <1>1, <1>4 DEF CollectKeys
  <2>3. handlers[Path(s)] = s => Path(s) \in keys'[s]
    BY <1>4, <2>1 DEF CollectKeys
  <2>4. GoneInv'
    BY <1>1, <1>4, <2>1, <2>3 DEF CollectKeys
  <2> QED
    BY <2>2, <2>4
<1>5. ASSUME NEW s \in Ports, RemoveKey(s) PROVE OwnerInv' /\ GoneInv'
  <2>1. PICK p \in keys[s] :
          /\ keys' = [keys EXCEPT ![s] = @ \ {p}]
          /\ handlers' = [handlers EXCEPT ![p] = Nobody]
          /\ drained' = [drained EXCEPT ![s] = handlers[p]]
          /\ clean' = [clean EXCEPT ![s] = IF handlers[p] = Nobody THEN "removing" ELSE "load"]
    BY <1>5 DEF RemoveKey
  <2>2. p \in Paths /\ clean[s] = "removing" /\ s \in Configured /\ p.name = Path(s).name /\ s # Nobody
    BY <1>5, NobodyAssumption DEF RemoveKey, KeysInv
  <2>3. OwnerInv'
    BY <1>1, <2>1, <2>2
  <2>4. GoneInv'
    BY <1>1, <2>1, <2>2, NobodyAssumption
  <2> QED
    BY <2>3, <2>4
<1>6. ASSUME NEW s \in Ports, KeysDone(s) PROVE OwnerInv' /\ GoneInv'
  BY <1>1, <1>6 DEF KeysDone
<1>7. ASSUME NEW s \in Ports, LoadInflight(s) \/ DrainWakes(s) \/ Untrack(s) PROVE OwnerInv' /\ GoneInv'
  BY <1>1, <1>7 DEF LoadInflight, DrainWakes, Untrack
<1> QED
  BY <1>1, <1>2, <1>3, <1>4, <1>5, <1>6, <1>7, PortFrame DEF Cleanup

LEMMA SmallMod ==
    ASSUME NEW w \in Nat, NEW x \in Nat, x < w
    PROVE  x % w = x /\ (x + w) % w = x
OBVIOUS

LEMMA WrapNat ==
    /\ Wrap \in Nat \ {0}
    /\ \A x \in Nat : (x + 1) % Wrap \in Nat /\ (x + Wrap - 1) % Wrap \in Nat
<1>1. Wrap \in Nat \ {0}
  BY ServiceAssumption, FS_CardinalityType
<1>2. ASSUME NEW y \in Nat PROVE y % Wrap \in Nat
  BY <1>1
<1>3. \A x \in Nat : x + 1 \in Nat /\ x + Wrap - 1 \in Nat
  BY <1>1
<1> QED
  BY <1>1, <1>2, <1>3

LEMMA OpenFinite ==
    ASSUME NEW s \in Ports
    PROVE  /\ IsFiniteSet(Open(s)) /\ Cardinality(Open(s)) \in Nat
           /\ Cardinality(Open(s)) <= Cardinality(Requests) /\ Cardinality(Requests) \in Nat
BY ServiceAssumption, FS_Subset, FS_CardinalityType DEF Open, Counted

\* A step that leaves the sets of a portname alone.
SameSets(s) == Counted(s)' = Counted(s) /\ Open(s)' = Open(s) /\ (AllAcked(s)' => AllAcked(s))

LEMMA InflightStep ==
    ASSUME RequestInv, QueueInv, InflightInv, [Next]_vars
    PROVE  InflightInv'
<1> USE DEF RequestInv, InflightInv
<1>1. ASSUME UNCHANGED inflight, \A s \in Ports : SameSets(s) PROVE InflightInv'
  BY <1>1 DEF SameSets
<1>2. ASSUME NEW r \in Requests, Lookup(r) PROVE InflightInv'
  <2>1. UNCHANGED <<inflight, item>> /\ \A q \in Requests \ {r} : reader'[q] = reader[q] /\ target'[q] = target[q]
    BY <1>2 DEF Lookup, countVars, workVars
  <2>2. reader[r] = "idle" /\ reader'[r] \in {"found", "refused"}
    BY <1>2 DEF Lookup
  <2>3. ASSUME NEW s \in Ports PROVE SameSets(s)
    <3>1. Counted(s)' = Counted(s) /\ Unacked' = Unacked /\ Ended' = Ended
      BY <2>1, <2>2 DEF Counted, Unacked, Ended
    <3> QED
      BY <3>1 DEF SameSets, Open, AllAcked
  <2> QED
    BY <1>1, <2>1, <2>3
<1>3. ASSUME NEW r \in Requests, Enqueue(r) \/ Ack(r) PROVE InflightInv'
  <2>1. UNCHANGED <<inflight, target>> /\ \A q \in Requests \ {r} : reader'[q] = reader[q] /\ item'[q] = item[q]
    BY <1>3 DEF Enqueue, Ack, countVars, workVars
  <2>2. reader[r] \in {"counted", "sent"} /\ reader'[r] \in {"sent", "acked"} /\ (item'[r] = "done" <=> item[r] = "done")
    BY <1>3 DEF Enqueue, Ack, workVars
  <2>3. ASSUME NEW s \in Ports PROVE SameSets(s)
    <3>1. Counted(s)' = Counted(s) /\ Unacked' = Unacked /\ Ended' = Ended
      BY <2>1, <2>2 DEF Counted, Unacked, Ended
    <3> QED
      BY <3>1 DEF SameSets, Open, AllAcked
  <2> QED
    BY <1>1, <2>1, <2>3
<1>4. ASSUME NEW r \in Requests, Count(r) PROVE InflightInv'
  <2>1. /\ UNCHANGED <<item, target>> /\ reader[r] = "found" /\ reader' = [reader EXCEPT ![r] = "counted"]
        /\ inflight' = [inflight EXCEPT ![target[r]] = (@ + 1) % Wrap] /\ target[r] \in Ports
        /\ item[r] = "none"
    BY <1>4 DEF Count, workVars
  <2>2. \A s \in Ports \ {target[r]} : SameSets(s)
    <3>1. Unacked' = Unacked /\ Ended' = Ended /\ \A s \in Ports \ {target[r]} : Counted(s)' = Counted(s)
      BY <2>1 DEF Counted, Unacked, Ended
    <3> QED
      BY <3>1 DEF SameSets, Open, AllAcked
  <2>4. ASSUME NEW u \in Ports, u = target[r]
        PROVE  Open(u)' = Open(u) \cup {r} /\ r \notin Open(u) /\ (AllAcked(u)' => AllAcked(u))
    <3>1. Unacked' = Unacked /\ Ended' = Ended /\ Counted(u)' = Counted(u) \cup {r} /\ r \notin Counted(u)
          /\ r \notin Ended
      BY <2>1, <2>4 DEF Counted, Unacked, Ended
    <3> QED
      BY <3>1 DEF Open, AllAcked
  <2>5. ASSUME NEW u \in Ports, u = target[r], AllAcked(u)'
        PROVE  inflight'[u] = Cardinality(Open(u)')
    <3>1. inflight[u] = Cardinality(Open(u)) /\ Cardinality(Open(u)') = Cardinality(Open(u)) + 1
      BY <2>4, <2>5, OpenFinite, FS_AddElement
    <3>2. Open(u)' \subseteq Requests
      BY DEF Open, Counted
    <3>3. Cardinality(Open(u)') <= Cardinality(Requests)
      BY <3>2, ServiceAssumption, FS_Subset
    <3>4. inflight[u] + 1 \in Nat /\ inflight[u] + 1 < Wrap /\ Wrap \in Nat
      BY <3>1, <3>3, OpenFinite, ServiceAssumption
    <3> QED
      BY <2>1, <2>5, <3>1, <3>4, SmallMod
  <2>6. inflight' \in [Ports -> Nat]
    BY <2>1, WrapNat
  <2> QED
    BY <2>1, <2>2, <2>5, <2>6 DEF SameSets
<1>5. ASSUME NEW r \in Requests, AckFails(r) PROVE InflightInv'
  <2>1. /\ UNCHANGED <<item, target>> /\ reader[r] = "sent" /\ reader' = [reader EXCEPT ![r] = "unacked"]
        /\ inflight' = [inflight EXCEPT ![target[r]] = (@ + Wrap - 1) % Wrap] /\ target[r] \in Ports
    BY <1>5 DEF AckFails, Uncount, workVars
  <2>2. \A s \in Ports : Counted(s)' = Counted(s) /\ Ended' = Ended /\ Unacked' = Unacked \cup {r}
    BY <2>1 DEF Counted, Ended, Unacked
  <2>3. ASSUME NEW s \in Ports, AllAcked(s)' PROVE s # target[r]
    BY <2>1, <2>2, <2>3 DEF AllAcked, Counted
  <2>4. \A s \in Ports : SameSets(s)
    BY <2>2 DEF SameSets, Open, AllAcked
  <2>5. inflight' \in [Ports -> Nat]
    BY <2>1, WrapNat
  <2> QED
    BY <2>1, <2>3, <2>4, <2>5 DEF SameSets
<1>6. ASSUME NEW r \in Requests, Handled(r) PROVE InflightInv'
  <2>1. /\ UNCHANGED <<reader, target>> /\ item[r] = "running" /\ item' = [item EXCEPT ![r] = "done"]
        /\ inflight' = [inflight EXCEPT ![target[r]] = (@ + Wrap - 1) % Wrap] /\ target[r] \in Ports
        /\ reader[r] \in {"sent", "acked", "unacked"}
    BY <1>6 DEF Handled, Uncount, readVars
  <2>2. Unacked' = Unacked /\ Ended' = Ended \cup {r} /\ \A s \in Ports : Counted(s)' = Counted(s)
    BY <2>1 DEF Counted, Ended, Unacked
  <2>3. \A s \in Ports \ {target[r]} : SameSets(s)
    BY <2>1, <2>2 DEF SameSets, Open, AllAcked, Counted
  <2>4. ASSUME NEW u \in Ports, u = target[r], AllAcked(u)'
        PROVE  inflight'[u] = Cardinality(Open(u)')
    <3>1. Open(u)' = Open(u) \ {r} /\ r \in Open(u) /\ AllAcked(u)
      BY <2>1, <2>2, <2>4 DEF Open, Counted, Ended, AllAcked
    <3>2. inflight[u] = Cardinality(Open(u)) /\ Cardinality(Open(u)') = Cardinality(Open(u)) - 1
      BY <3>1, OpenFinite, FS_RemoveElement
    <3>3. Open(u)' \subseteq Requests
      BY DEF Open, Counted
    <3>4. Cardinality(Open(u)') \in Nat
      BY <3>3, ServiceAssumption, FS_Subset, FS_CardinalityType
    <3>5. inflight[u] - 1 \in Nat /\ inflight[u] - 1 < Wrap /\ Wrap \in Nat
          /\ inflight[u] + Wrap - 1 = (inflight[u] - 1) + Wrap
      BY <3>2, <3>4, OpenFinite, ServiceAssumption
    <3> QED
      BY <2>1, <2>4, <3>2, <3>5, SmallMod
  <2>5. inflight' \in [Ports -> Nat]
    BY <2>1, WrapNat
  <2> QED
    BY <2>1, <2>3, <2>4, <2>5 DEF SameSets
<1>7. ASSUME Dispatch \/ Spawn \/ \E r \in Requests : Panics(r) PROVE InflightInv'
  <2>1. UNCHANGED <<reader, target, inflight>>
    BY <1>7 DEF Dispatch, Spawn, Panics, readVars, countVars
  <2>2. Ended' = Ended
    <3>1. CASE Dispatch
      <4>1. queue[1] \in Requests /\ item[queue[1]] = "queued" /\ Head(queue) = queue[1]
        BY <3>1 DEF Dispatch, QueueInv
      <4> QED
        BY <3>1, <4>1 DEF Dispatch, Ended
    <3>2. CASE Spawn
      BY <3>2 DEF Spawn, Ended, QueueInv
    <3>3. CASE \E r \in Requests : Panics(r)
      BY <3>3 DEF Panics, Ended
    <3> QED
      BY <1>7, <3>1, <3>2, <3>3
  <2>3. \A s \in Ports : Counted(s)' = Counted(s) /\ Unacked' = Unacked
    BY <2>1 DEF Counted, Unacked
  <2> QED
    BY <1>1, <2>1, <2>2, <2>3 DEF SameSets, Open, AllAcked
<1>8. ASSUME UNCHANGED <<reader, target, item, inflight>> PROVE InflightInv'
  BY <1>1, <1>8 DEF SameSets, Open, AllAcked, Counted, Unacked, Ended
<1> QED
  BY <1>2, <1>3, <1>4, <1>5, <1>6, <1>7, <1>8, RequestFrame DEF ReadLoop

LEMMA LeftStep ==
    ASSUME ReachInv, RequestInv, QueueInv, OwnerInv, InflightInv, LeftInv, [Next]_vars
    PROVE  LeftInv'
<1>1. layout' = layout
  BY PortFrame
\* A request moves on: the handlers and those who wait for them stay.
<1>2. ASSUME \E r \in Requests : ReadLoop(r) \/ Handled(r) \/ Panics(r)
      PROVE  LeftInv'
  <2>1. PICK r \in Requests : ReadLoop(r) \/ Handled(r) \/ Panics(r)
    BY <1>2
  <2>2. UNCHANGED <<handlers, drained, clean>> /\ late \subseteq late'
    BY <2>1 DEF ReadLoop, Lookup, Count, Enqueue, Ack, AckFails, Handled, Panics, cleanVars
  <2>3. \A q \in Requests :
          /\ reader[q] \notin {"idle", "found", "refused"} =>
                target'[q] = target[q] /\ reader'[q] \notin {"idle", "found", "refused"}
          /\ reader[q] = "unacked" => reader'[q] = "unacked"
          /\ item[q] = "done" => item'[q] = "done"
    BY <2>1 DEF ReadLoop, Lookup, Count, Enqueue, Ack, AckFails, Handled, Panics, readVars, workVars, RequestInv
  <2>4. \A q \in Requests :
          reader[q] \in {"idle", "found", "refused"} /\ reader'[q] \notin {"idle", "found", "refused"} =>
             /\ target'[q] = target[q] /\ target[q] \in Ports
             /\ Awaited(target[q]) \/ q \in late'
    BY <2>1 DEF ReadLoop, Lookup, Count, Enqueue, Ack, AckFails, Handled, Panics, readVars, workVars, RequestInv
  <2>5. ASSUME NEW s \in Ports, s \in Configured', ~Awaited(s)', Namesakes(s)' = {}, AllAcked(s)'
        PROVE  Open(s)' \subseteq late'
    <3>1. s \in Configured /\ ~Awaited(s) /\ Namesakes(s) = {}
      BY <1>1, <2>2, <2>5 DEF Configured, Awaited, Namesakes, Path
    <3>2. Counted(s) \subseteq Counted(s)' /\ Unacked \subseteq Unacked' /\ Ended \subseteq Ended'
      BY <2>3 DEF Counted, Unacked, Ended
    <3>3. Open(s) \subseteq late
      BY <2>5, <3>1, <3>2 DEF LeftInv, AllAcked
    <3>4. ASSUME NEW q \in Open(s)' PROVE q \in late'
      <4>1. q \in Requests /\ target'[q] = s /\ reader'[q] \notin {"idle", "found", "refused"} /\ q \notin Ended'
        BY <3>4 DEF Open, Counted
      <4>2. CASE reader[q] \in {"idle", "found", "refused"}
        BY <2>4, <3>1, <4>1, <4>2
      <4>3. CASE reader[q] \notin {"idle", "found", "refused"}
        BY <2>2, <2>3, <3>2, <3>3, <4>1, <4>3 DEF Open, Counted
      <4> QED
        BY <4>2, <4>3
    <3> QED
      BY <3>4
  <2> QED
    BY <2>5 DEF LeftInv
<1>3. ASSUME Dispatch \/ Spawn PROVE LeftInv'
  <2>1. UNCHANGED <<handlers, drained, clean, late, reader, target>>
    BY <1>3 DEF Dispatch, Spawn, cleanVars, readVars
  <2>2. Ended \subseteq Ended'
    <3>1. CASE Dispatch
      <4>1. queue[1] \in Requests /\ item[queue[1]] = "queued" /\ Head(queue) = queue[1]
        BY <3>1 DEF Dispatch, QueueInv
      <4> QED
        BY <3>1, <4>1 DEF Dispatch, Ended, RequestInv
    <3>2. CASE Spawn
      BY <3>2 DEF Spawn, Ended, QueueInv, RequestInv
    <3> QED
      BY <1>3, <3>1, <3>2
  <2> QED
    BY <1>1, <2>1, <2>2 DEF LeftInv, Configured, Awaited, Namesakes, Path, AllAcked, Open, Counted, Unacked
\* A portname moves on: it is enough that whoever was waited for still is, or has
\* no open request.
<1>4. ASSUME UNCHANGED <<reader, target, item, late>>,
             \A s \in Ports : s \in Configured /\ Namesakes(s) = {} /\ AllAcked(s) /\ Awaited(s) =>
                Awaited(s)' \/ Open(s) = {}
      PROVE  LeftInv'
  <2>1. \A s \in Ports : Counted(s)' = Counted(s) /\ Open(s)' = Open(s) /\ (AllAcked(s)' <=> AllAcked(s))
    BY <1>4 DEF Counted, Open, Ended, Unacked, AllAcked
  <2>2. Configured' = Configured /\ \A s \in Ports : Namesakes(s)' = Namesakes(s)
    BY <1>1 DEF Configured, Namesakes, Path
  <2> QED
    BY <1>4, <2>1, <2>2 DEF LeftInv
<1>5. ASSUME NEW t \in Ports,
             \/ Track(t) \/ StartFails(t) \/ Publish(t) \/ CollectKeys(t) \/ KeysDone(t)
             \/ DrainWakes(t) \/ Untrack(t)
      PROVE  LeftInv'
  <2>1. UNCHANGED <<reader, target, item, late, handlers, drained>>
    BY <1>5 DEF Track, StartFails, Publish, CollectKeys, KeysDone, DrainWakes, Untrack, cleanVars, readVars, workVars
  <2>2. \A u \in Ports : clean[u] \in {"load", "asleep"} => clean'[u] \in {"load", "asleep"}
    BY <1>5 DEF Track, StartFails, Publish, CollectKeys, KeysDone, DrainWakes, Untrack, cleanVars, ReachInv, ShapeInv
  <2>3. \A s \in Ports : Awaited(s) => Awaited(s)'
    BY <1>1, <2>1, <2>2 DEF Awaited, Path
  <2> QED
    BY <1>4, <2>1, <2>3
<1>6. ASSUME NEW t \in Ports, Register(t) PROVE LeftInv'
  <2>1. /\ UNCHANGED <<reader, target, item, late, drained>> /\ handlers' = [handlers EXCEPT ![Path(t)] = t]
        /\ clean' = [clean EXCEPT ![t] = "waiting"] /\ clean[t] = "none" /\ t \in Configured
    BY <1>6 DEF Register, readVars, workVars, ReachInv, ShapeInv, EmptyInv
  <2>2. ASSUME NEW s \in Ports, s \in Configured, Namesakes(s) = {}, Awaited(s) PROVE Awaited(s)'
    <3>1. Path(t) \in Paths /\ Path(s) \in Paths /\ (Path(s) = Path(t) => s = t)
      BY <2>1, <2>2, PathKnown DEF Namesakes, ReachInv, ShapeInv
    <3>2. CASE handlers[Path(s)] = s
      BY <1>1, <2>1, <3>1, <3>2 DEF Awaited, Path, ReachInv, ShapeInv
    <3>3. ASSUME NEW u \in Ports, drained[u] = s, clean[u] \in {"load", "asleep"} PROVE Awaited(s)'
      BY <2>1, <3>3 DEF Awaited, ReachInv, ShapeInv
    <3> QED
      BY <2>2, <3>2, <3>3 DEF Awaited
  <2> QED
    BY <1>4, <2>1, <2>2
<1>7. ASSUME NEW t \in Ports, RemoveKey(t) PROVE LeftInv'
  <2>1. PICK p \in keys[t] :
          /\ handlers' = [handlers EXCEPT ![p] = Nobody]
          /\ drained' = [drained EXCEPT ![t] = handlers[p]]
          /\ clean' = [clean EXCEPT ![t] = IF handlers[p] = Nobody THEN "removing" ELSE "load"]
    BY <1>7 DEF RemoveKey
  <2>2. clean[t] = "removing" /\ p \in Paths /\ UNCHANGED <<reader, target, item, late>>
    BY <1>7 DEF RemoveKey, ReachInv, ShapeInv, readVars, workVars
  <2>3. ASSUME NEW s \in Ports, s \in Configured, Awaited(s) PROVE Awaited(s)'
    <3>1. Path(s) \in Paths /\ Path(s)' = Path(s) /\ s # Nobody
      BY <1>1, <2>3, PathKnown, NobodyAssumption DEF ReachInv, ShapeInv, Path
    <3>2. CASE handlers[Path(s)] = s /\ p # Path(s)
      BY <2>1, <3>1, <3>2 DEF Awaited, ReachInv, ShapeInv
    <3>3. CASE handlers[Path(s)] = s /\ p = Path(s)
      <4>1. drained'[t] = s /\ clean'[t] = "load"
        BY <2>1, <3>1, <3>3 DEF OwnerInv, ReachInv, ShapeInv
      <4> QED
        BY <4>1 DEF Awaited
    <3>4. ASSUME NEW u \in Ports, drained[u] = s, clean[u] \in {"load", "asleep"} PROVE Awaited(s)'
      <4>1. drained'[u] = s /\ clean'[u] \in {"load", "asleep"}
        BY <2>1, <2>2, <3>4 DEF OwnerInv, ReachInv, ShapeInv
      <4> QED
        BY <4>1 DEF Awaited
    <3> QED
      BY <2>3, <3>2, <3>3, <3>4 DEF Awaited
  <2> QED
    BY <1>4, <2>2, <2>3
<1>8. ASSUME NEW t \in Ports, LoadInflight(t) PROVE LeftInv'
  <2>1. UNCHANGED <<reader, target, item, late, handlers>> /\ clean[t] = "load"
    BY <1>8 DEF LoadInflight, readVars, workVars
  <2>2. CASE inflight[drained[t]] > 0
    <3>1. drained' = drained /\ clean' = [clean EXCEPT ![t] = "asleep"]
      BY <1>8, <2>2 DEF LoadInflight
    <3>2. \A s \in Ports : Awaited(s) => Awaited(s)'
      BY <1>1, <2>1, <3>1 DEF Awaited, Path, ReachInv, ShapeInv
    <3> QED
      BY <1>4, <2>1, <3>2
  <2>3. CASE ~(inflight[drained[t]] > 0)
    <3>1. drained' = [drained EXCEPT ![t] = Nobody] /\ clean' = [clean EXCEPT ![t] = "removing"]
      BY <1>8, <2>3 DEF LoadInflight
    <3>2. ASSUME NEW s \in Ports, s \in Configured, AllAcked(s), Awaited(s) PROVE Awaited(s)' \/ Open(s) = {}
      <4>1. CASE handlers[Path(s)] = s
        BY <1>1, <2>1, <4>1 DEF Awaited, Path
      <4>2. CASE drained[t] = s
        <5>1. inflight[s] = 0
          BY <2>3, <4>2 DEF InflightInv
        <5>2. Cardinality(Open(s)) = 0
          BY <3>2, <5>1 DEF InflightInv
        <5> QED
          BY <5>2, OpenFinite, FS_EmptySet
      <4>3. ASSUME NEW u \in Ports, u # t, drained[u] = s, clean[u] \in {"load", "asleep"} PROVE Awaited(s)'
        <5>1. drained'[u] = s /\ clean'[u] \in {"load", "asleep"}
          BY <3>1, <4>3 DEF OwnerInv, ReachInv, ShapeInv
        <5> QED
          BY <5>1 DEF Awaited
      <4> QED
        BY <3>2, <4>1, <4>2, <4>3 DEF Awaited
    <3> QED
      BY <1>4, <2>1, <3>2
  <2> QED
    BY <2>2, <2>3
<1>9. ASSUME UNCHANGED <<reader, target, item, late>>, UNCHANGED <<clean, drained, handlers>>
      PROVE  LeftInv'
  BY <1>1, <1>4, <1>9 DEF Awaited, Path
<1> QED
  BY <1>2, <1>3, <1>5, <1>6, <1>7, <1>8, <1>9, PortFrame, RequestFrame DEF Cleanup

LEMMA TrackedFinite ==
    IsFiniteSet(Tracked) /\ Cardinality(Tracked) \in Nat /\ (Cardinality(Tracked) = 0 <=> Tracked = {})
<1>1. Tracked \subseteq Ports
  BY DEF Tracked
<1>2. IsFiniteSet(Tracked)
  BY <1>1, ServiceAssumption, FS_Subset
<1> QED
  BY <1>2, FS_CardinalityType, FS_EmptySet

LEMMA TrackStep ==
    ASSUME ReachInv, TrackInv, [Next]_vars
    PROVE  TrackInv'
<1>1. layout' = layout
  BY PortFrame
\* The steps that leave the tracked portnames as they are.
<1>2. ASSUME Tracked' = Tracked, UNCHANGED <<active, early, shut>>,
             \A s \in Ports : (start[s] # "idle" => start'[s] # "idle") /\ (clean[s] = "done" => clean'[s] = "done")
      PROVE  TrackInv'
  BY <1>1, <1>2 DEF TrackInv, Graceful
<1>3. ASSUME NEW s \in Ports, Track(s) PROVE TrackInv'
  <2>1. /\ start' = [start EXCEPT ![s] = "tracked"] /\ start[s] = "idle" /\ clean[s] = "none"
        /\ UNCHANGED <<clean, early, shut>> /\ active' = IF Graceful(s) THEN active + 1 ELSE active
    BY <1>3 DEF Track, cleanVars, runtimeVars, ReachInv, EmptyInv
  <2>2. /\ Tracked' = IF Graceful(s) THEN Tracked \cup {s} ELSE Tracked
        /\ s \notin Tracked
    BY <1>1, <2>1 DEF Tracked, Graceful, ReachInv, ShapeInv
  <2>3. active' = Cardinality(Tracked')
    BY <2>1, <2>2, TrackedFinite, FS_AddElement DEF TrackInv
  <2> QED
    BY <1>1, <2>1, <2>3 DEF TrackInv, Graceful, ReachInv, ShapeInv
<1>4. ASSUME NEW s \in Ports, StartFails(s) \/ Register(s) \/ Publish(s) PROVE TrackInv'
  <2>1. /\ UNCHANGED <<active, early, shut>> /\ start[s] # "idle" /\ start'[s] # "idle"
        /\ \A t \in Ports \ {s} : start'[t] = start[t] /\ clean'[t] = clean[t]
        /\ (clean[s] # "done" /\ clean'[s] # "done") \/ clean' = clean
    BY <1>4 DEF StartFails, Register, Publish, cleanVars, runtimeVars, trackVars, ReachInv, ShapeInv, EmptyInv
  <2>2. Tracked' = Tracked
    BY <1>1, <2>1 DEF Tracked, Graceful
  <2> QED
    BY <1>2, <2>1, <2>2
<1>5. ASSUME NEW s \in Ports, CollectKeys(s) \/ RemoveKey(s) \/ KeysDone(s) \/ LoadInflight(s) \/ DrainWakes(s)
      PROVE  TrackInv'
  <2>1. /\ UNCHANGED <<active, early, shut, start>> /\ clean[s] # "done" /\ clean'[s] # "done"
        /\ \A t \in Ports \ {s} : clean'[t] = clean[t]
    BY <1>5 DEF CollectKeys, RemoveKey, KeysDone, LoadInflight, DrainWakes, runtimeVars, trackVars, portVars,
         ReachInv, ShapeInv
  <2>2. Tracked' = Tracked
    BY <1>1, <2>1 DEF Tracked, Graceful
  <2> QED
    BY <1>2, <2>1, <2>2
<1>6. ASSUME NEW s \in Ports, Untrack(s) PROVE TrackInv'
  <2>1. /\ UNCHANGED <<early, shut, start>> /\ clean[s] = "untrack" /\ clean' = [clean EXCEPT ![s] = "done"]
        /\ active' = (IF Graceful(s) THEN active - 1 ELSE active) /\ start[s] # "idle"
    BY <1>6 DEF Untrack, runtimeVars, portVars, ReachInv, EmptyInv
  <2>2. /\ Tracked' = IF Graceful(s) THEN Tracked \ {s} ELSE Tracked
        /\ Graceful(s) => s \in Tracked
    BY <1>1, <2>1 DEF Tracked, Graceful, ReachInv, ShapeInv
  <2>3. active' = Cardinality(Tracked')
    BY <2>1, <2>2, TrackedFinite, FS_RemoveElement DEF TrackInv
  <2> QED
    BY <1>1, <2>1, <2>3 DEF TrackInv, Graceful, ReachInv, ShapeInv
\* Phase 2 looks, and goes on to Phase 3 when nothing is tracked.
<1>7. ASSUME Look \/ CheckCount PROVE TrackInv'
  <2>1. UNCHANGED <<active, start, clean>> /\ Tracked' = Tracked
    BY <1>1, <1>7 DEF Look, CheckCount, trackVars, portVars, cleanVars, Tracked, Graceful
  <2>2. shut' = "ended" => Tracked = {}
    BY <1>7, TrackedFinite DEF Look, CheckCount, TrackInv
  <2>3. early' = Tracked \/ early' = early
    BY <1>7 DEF Look, CheckCount
  <2> QED
    BY <1>1, <2>1, <2>2, <2>3 DEF TrackInv, Tracked, Graceful
<1>8. ASSUME UNCHANGED <<active, start, clean, early>>, shut' = "ended" => shut = "ended" PROVE TrackInv'
  BY <1>1, <1>8 DEF TrackInv, Tracked, Graceful
<1>9. ASSUME Shutdown \/ Signal \/ Arm \/ WaitWakes \/ Dispatch \/ Spawn \/ UNCHANGED vars PROVE TrackInv'
  BY <1>8, <1>9 DEF Shutdown, Signal, Arm, WaitWakes, Dispatch, Spawn, vars, runtimeVars, trackVars, portVars, cleanVars
<1>10. ASSUME NEW r \in Requests, ReadLoop(r) \/ Handled(r) \/ Panics(r) PROVE TrackInv'
  BY <1>8, <1>10 DEF ReadLoop, Lookup, Count, Enqueue, Ack, AckFails, Handled, Panics, runtimeVars, trackVars,
       portVars, cleanVars
<1> QED
  BY <1>3, <1>4, <1>5, <1>6, <1>7, <1>9, <1>10 DEF Next, Cleanup, ShutdownTask

\* Nobody waits for a portname whose clean-up has ended, if no other shares its name.
LEMMA EndedUnawaited ==
    ASSUME ReachInv, OwnerInv, GoneInv, NEW s \in Ports, clean[s] = "done", Namesakes(s) = {}
    PROVE  s \in Configured /\ ~Awaited(s)
<1>1. s \in Configured
  BY DEF ReachInv, ShapeInv
<1>2. handlers[Path(s)] # s
  BY <1>1 DEF GoneInv
<1>3. ASSUME NEW t \in Ports, drained[t] = s, clean[t] \in {"load", "asleep"} PROVE FALSE
  <2>1. t \in Configured /\ t # s /\ Path(t).name = Path(s).name
    BY <1>3 DEF OwnerInv, ReachInv, ShapeInv
  <2> QED
    BY <2>1 DEF Namesakes
<1> QED
  BY <1>1, <1>2, <1>3 DEF Awaited

\* When Runtime::shutdown has cancelled the root token, the clean-up of every
\* graceful portname that it found has ended, and no request that one of them was
\* still waiting for is left open: for every process, however its starts,
\* clean-ups, requests and the shutdown interleave.
THEOREM Phase_Order == Spec => []PhaseOrder
<1>1. Init => ReachInv /\ DrainInv
  BY ReachInit, DrainInit
<1>2. (ReachInv /\ DrainInv) /\ [Next]_vars => (ReachInv /\ DrainInv)'
  BY ReachStep, RequestStep, OwnerStep, InflightStep, LeftStep, TrackStep DEF DrainInv
<1>3. ReachInv /\ DrainInv => PhaseOrder
  <2> SUFFICES ASSUME ReachInv, DrainInv, shut = "ended", NEW s \in early
               PROVE  /\ clean[s] = "done"
                      /\ Open(s) \subseteq late \/ Namesakes(s) # {} \/ Counted(s) \cap Unacked # {}
    BY DEF PhaseOrder
  <2>1. s \in Ports /\ clean[s] = "done"
    BY DEF DrainInv, TrackInv
  <2>2. Namesakes(s) = {} => s \in Configured /\ ~Awaited(s)
    BY <2>1, EndedUnawaited DEF DrainInv
  <2> QED
    BY <2>1, <2>2 DEF DrainInv, LeftInv, AllAcked
<1> QED
  BY <1>1, <1>2, <1>3, PTL DEF Spec
=============================================================================
