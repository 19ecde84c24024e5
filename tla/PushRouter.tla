----------------------------- MODULE PushRouter -----------------------------
(***************************************************************************)
(* Choosing a worker instance for a request.                               *)
(*                                                                         *)
(* lib/runtime/src/servicegroup/client.rs keeps three views of the          *)
(* instances of one port: instance_source (what discovery says),            *)
(* instance_avail (without those reported down) and instance_free (without  *)
(* the busy ones), and counts the requests in flight on each instance.      *)
(* lib/runtime/src/pipeline/network/egress/push_router.rs picks an instance *)
(* from these views, sends the request and reports broken instances.        *)
(*                                                                         *)
(* The views are swapped atomically but never together, and they are        *)
(* written by the monitor task and by every request: a step below is one    *)
(* read or one write of a view.                                             *)
(***************************************************************************)
EXTENDS Integers, FiniteSets, FiniteSetsExt, FiniteSetTheorems, TLAPS

CONSTANTS
    Instance,           \* instance ids
    Request,            \* requests
    Modes,              \* the selections in use: by generate() and by name
    FaultDetection,     \* fault_detection_enabled
    Timeout,            \* is a response inactivity timeout configured?
    Cpu,                \* instances whose device_type is Cpu
    Ratio,              \* PGD_ENCODER_CUDA_TO_CPU_RATIO
    None

RouterMode == {"Random", "Direct", "PowerOfTwoChoices", "LeastLoaded", "DeviceAwareWeighted"}

ASSUME RouterAssumption ==
    /\ IsFiniteSet(Instance) /\ IsFiniteSet(Request)
    /\ None \notin Instance
    /\ Modes \subseteq RouterMode
    /\ FaultDetection \in BOOLEAN /\ Timeout \in BOOLEAN
    /\ Cpu \subseteq Instance
    /\ Ratio \in Nat \ {0}

VARIABLES
    source,     \* instance_source: what the discovery watcher last published
    open,       \* the watcher still holds the sending side of instance_source
    dirty,      \* the monitor has not seen the last published value
    avail,      \* instance_avail
    free,       \* instance_free
    counts,     \* RoutingOccupancyState::counts; no entry reads as 0
    mon,        \* where the monitor task is
    ids,        \* the snapshot the monitor works with
    cancelled,  \* the primary token was cancelled by the monitor
    pc,         \* where each request is
    cand,       \* candidates read before the selection lock
    pick,       \* the instance selected
    target,     \* the instance the request was sent to
    permit,     \* the instance of the request's OccupancyPermit or tracked stream
    list,       \* the filtered list report_instance_down is about to store
    forgotten   \* history: counts dropped by retain() while permits were out

viewVars == <<source, open, dirty, avail, free>>
monVars  == <<mon, ids, cancelled>>
reqVars  == <<pc, cand, pick, target, permit, list>>
vars == <<viewVars, monVars, reqVars, counts, forgotten>>

PC == {"idle", "choosing", "counting", "picked", "sent", "stream",
       "report", "report_err", "report_end", "done"}

\* The requests that count as one on instance i.
Permits(i) == {r \in Request : permit[r] = i}

TypeOK ==
    /\ source \in SUBSET Instance /\ avail \in SUBSET Instance /\ free \in SUBSET Instance
    /\ open \in BOOLEAN /\ dirty \in BOOLEAN /\ cancelled \in BOOLEAN
    /\ counts \in [Instance -> Nat]
    /\ mon \in {"wait", "avail", "free", "retain"}
    /\ ids \in SUBSET Instance
    /\ pc \in [Request -> PC]
    /\ cand \in [Request -> SUBSET Instance]
    /\ list \in [Request -> SUBSET Instance]
    /\ pick \in [Request -> Instance \cup {None}]
    /\ target \in [Request -> Instance \cup {None}]
    /\ permit \in [Request -> Instance \cup {None}]
    /\ forgotten \in SUBSET Instance

\* A client made while the shared discovery source already knows some instances.
Init ==
    /\ source \in SUBSET Instance
    /\ avail = source /\ free = source
    /\ open = TRUE /\ dirty = FALSE
    /\ counts = [i \in Instance |-> 0]
    /\ mon = "wait" /\ ids = {} /\ cancelled = FALSE
    /\ pc = [r \in Request |-> "idle"]
    /\ cand = [r \in Request |-> {}] /\ list = [r \in Request |-> {}]
    /\ pick = [r \in Request |-> None]
    /\ target = [r \in Request |-> None]
    /\ permit = [r \in Request |-> None]
    /\ forgotten = {}

-----------------------------------------------------------------------------
(***************************************************************************)
(* The discovery watcher task shared by the clients of a port.              *)
(***************************************************************************)

Added(i) ==
    /\ open /\ i \notin source
    /\ source' = source \cup {i}
    /\ dirty' = TRUE
    /\ UNCHANGED <<open, avail, free, monVars, reqVars, counts, forgotten>>

Removed(i) ==
    /\ open /\ i \in source
    /\ source' = source \ {i}
    /\ dirty' = TRUE
    /\ UNCHANGED <<open, avail, free, monVars, reqVars, counts, forgotten>>

\* The discovery stream ends or fails: an empty list is published, and the
\* sender dropped.
StreamEnds ==
    /\ open
    /\ source' = {}
    /\ open' = FALSE /\ dirty' = TRUE
    /\ UNCHANGED <<avail, free, monVars, reqVars, counts, forgotten>>

-----------------------------------------------------------------------------
(***************************************************************************)
(* monitor_instance_source.                                                 *)
(***************************************************************************)

\* Mutant of MonitorRead: no periodic reconciliation.
MonitorReadChanged ==
    /\ mon = "wait" /\ ~cancelled
    /\ dirty
    /\ ids' = source /\ dirty' = FALSE
    /\ mon' = "avail"
    /\ UNCHANGED <<source, open, avail, free, cancelled, reqVars, counts, forgotten>>

\* A published change, or reconcile_interval has passed.
MonitorRead ==
    /\ mon = "wait" /\ ~cancelled
    /\ open \/ dirty
    /\ ids' = source /\ dirty' = FALSE
    /\ mon' = "avail"
    /\ UNCHANGED <<source, open, avail, free, cancelled, reqVars, counts, forgotten>>

MonitorAvail ==
    /\ mon = "avail"
    /\ avail' = ids
    /\ mon' = "free"
    /\ UNCHANGED <<source, open, dirty, free, ids, cancelled, reqVars, counts, forgotten>>

MonitorFree ==
    /\ mon = "free"
    /\ free' = ids
    /\ mon' = "retain"
    /\ UNCHANGED <<source, open, dirty, avail, ids, cancelled, reqVars, counts, forgotten>>

\* Occupancy entries of instances that are gone are dropped, unless the
\* registry of states is locked just now.
MonitorRetain ==
    /\ mon = "retain"
    /\ mon' = "wait" /\ ids' = {}
    /\ \/ /\ counts' = [i \in Instance |-> IF i \in ids THEN counts[i] ELSE 0]
          /\ forgotten' = forgotten \cup {i \in Instance \ ids : Permits(i) # {}}
       \/ UNCHANGED <<counts, forgotten>>
    /\ UNCHANGED <<viewVars, cancelled, reqVars>>

\* The sender is gone and its last value has been seen: rx.changed() fails, and
\* the monitor cancels the runtime's primary token and ends.
MonitorClosed ==
    /\ mon = "wait" /\ ~cancelled
    /\ ~open /\ ~dirty
    /\ cancelled' = TRUE
    /\ UNCHANGED <<viewVars, mon, ids, reqVars, counts, forgotten>>

\* A load monitor calls update_free_instances.
UpdateFree(busy) ==
    /\ free' = source \ busy
    /\ UNCHANGED <<source, open, dirty, avail, monVars, reqVars, counts, forgotten>>

-----------------------------------------------------------------------------
(***************************************************************************)
(* Selecting an instance.                                                   *)
(***************************************************************************)

SelectFails(r) ==
    /\ pc' = [pc EXCEPT ![r] = "done"]
    /\ UNCHANGED <<cand, pick, target, permit, list, counts, viewVars, monVars, forgotten>>

Select(r, i) ==
    /\ pick' = [pick EXCEPT ![r] = i]
    /\ pc' = [pc EXCEPT ![r] = "picked"]
    /\ UNCHANGED <<cand, target, permit, list, counts, viewVars, monVars, forgotten>>

\* random(), and round_robin() whose counter selects some position of a list in
\* an order that the watcher's hash map gives.
Random(r) ==
    /\ "Random" \in Modes /\ pc[r] = "idle"
    /\ IF avail = {} THEN SelectFails(r) ELSE \E i \in avail : Select(r, i)

\* direct(): the caller names the instance.
Direct(r, i) ==
    /\ "Direct" \in Modes /\ pc[r] = "idle"
    /\ IF i \in (IF FaultDetection THEN avail ELSE source) THEN Select(r, i) ELSE SelectFails(r)

\* p2c_select_from: the less loaded of two different random instances, the
\* first drawn when they are equal.
P2cSelectFrom(S) ==
    IF Cardinality(S) = 1 THEN S
    ELSE {i \in S : \E j \in S \ {i} : counts[i] <= counts[j]}

\* power_of_two_choices() selects with the loads it reads ...
PowerOfTwoChoices(r) ==
    /\ "PowerOfTwoChoices" \in Modes /\ pc[r] = "idle"
    /\ \/ avail = {} /\ SelectFails(r)
       \/ /\ avail # {}
          /\ \E i \in P2cSelectFrom(avail) : pick' = [pick EXCEPT ![r] = i]
          /\ pc' = [pc EXCEPT ![r] = "counting"]
          /\ UNCHANGED <<cand, target, permit, list, counts, viewVars, monVars, forgotten>>

TakePermit(r, i) ==
    /\ counts' = [counts EXCEPT ![i] = @ + 1]
    /\ permit' = [permit EXCEPT ![r] = i]
    /\ pc' = [pc EXCEPT ![r] = "picked"]

\* ... and increments without a lock.
P2cIncrement(r) ==
    /\ pc[r] = "counting"
    /\ TakePermit(r, pick[r])
    /\ UNCHANGED <<cand, pick, target, list, viewVars, monVars, forgotten>>

\* device_aware_candidate_group.  An instance that is not in the source any more
\* counts as not a CPU.
DeviceAwareCandidateGroup(S) ==
    LET cpu == S \cap Cpu \cap source
        non_cpu == S \ cpu
        inflight(T) == MapThenSumSet(LAMBDA i : counts[i], T)
        allowed == (inflight(non_cpu) * Cardinality(cpu)) \div (Ratio * Cardinality(non_cpu))
    IN  IF cpu = {} THEN non_cpu
        ELSE IF non_cpu = {} THEN cpu
        ELSE IF inflight(cpu) < allowed THEN cpu ELSE non_cpu

\* least_loaded() and device_aware_weighted() read the candidates, then wait
\* for the selection lock ...
ReadCandidates(r) ==
    /\ Modes \cap {"LeastLoaded", "DeviceAwareWeighted"} # {} /\ pc[r] = "idle"
    /\ \/ avail = {} /\ SelectFails(r)
       \/ /\ avail # {}
          /\ \/ "LeastLoaded" \in Modes /\ cand' = [cand EXCEPT ![r] = avail]
             \/ /\ "DeviceAwareWeighted" \in Modes
                /\ cand' = [cand EXCEPT ![r] = DeviceAwareCandidateGroup(avail)]
          /\ pc' = [pc EXCEPT ![r] = "choosing"]
          /\ UNCHANGED <<pick, target, permit, list, counts, viewVars, monVars, forgotten>>

\* ... and under it take one with the least load, and count it.
SelectExactMin(r) ==
    /\ pc[r] = "choosing"
    /\ \E i \in cand[r] :
          /\ \A j \in cand[r] : counts[i] <= counts[j]
          /\ TakePermit(r, i)
          /\ pick' = [pick EXCEPT ![r] = i]
    /\ cand' = [cand EXCEPT ![r] = {}]
    /\ UNCHANGED <<target, list, viewVars, monVars, forgotten>>

-----------------------------------------------------------------------------
(***************************************************************************)
(* generate_with_fault_detection.                                           *)
(***************************************************************************)

\* Mutant of Release: the permit of a request that failed is forgotten.
ReleaseStream(r) ==
    /\ permit' = [permit EXCEPT ![r] = None]
    /\ counts' = [i \in Instance |->
                    IF i = permit[r] /\ pc[r] = "stream" /\ counts[i] > 0 THEN counts[i] - 1
                    ELSE counts[i]]

\* The permit, or the tracked stream that took it over, is dropped.
Release(r) ==
    /\ permit' = [permit EXCEPT ![r] = None]
    /\ counts' = [i \in Instance |->
                    IF i = permit[r] /\ counts[i] > 0 THEN counts[i] - 1 ELSE counts[i]]

\* The request is over.
End(r) ==
    /\ pc' = [pc EXCEPT ![r] = "done"]
    /\ Release(r)
    /\ cand' = [cand EXCEPT ![r] = {}]
    /\ pick' = [pick EXCEPT ![r] = None]
    /\ target' = [target EXCEPT ![r] = None]
    /\ UNCHANGED <<list, viewVars, monVars, forgotten>>

Overloaded == FaultDetection /\ free = {} /\ source # {}

RejectOverloaded(r) ==
    /\ pc[r] = "picked"
    /\ Overloaded
    /\ End(r)

Send(r, i) ==
    /\ i \in source
    /\ target' = [target EXCEPT ![r] = i]
    /\ pick' = [pick EXCEPT ![r] = None]
    /\ pc' = [pc EXCEPT ![r] = "sent"]
    /\ UNCHANGED <<cand, permit, list, counts, viewVars, monVars, forgotten>>

\* The transport of the selected instance is looked up, ...
Resolve(r) ==
    /\ pc[r] = "picked"
    /\ ~Overloaded
    /\ Send(r, pick[r])

\* ... or of another one if it has disappeared: the permit stays where it was.
Fallback(r) ==
    /\ pc[r] = "picked"
    /\ ~Overloaded
    /\ pick[r] \notin source
    /\ \E j \in avail \ {pick[r]} : Send(r, j)

\* Neither the instance nor the fallback is known.
NotFound(r) ==
    /\ pc[r] = "picked"
    /\ ~Overloaded
    /\ pick[r] \notin source
    /\ avail \ {pick[r]} = {} \/ \E j \in avail \ {pick[r]} : j \notin source
    /\ End(r)

\* addressed.generate() gives a stream.
Respond(r) ==
    /\ pc[r] = "sent"
    /\ pc' = [pc EXCEPT ![r] = "stream"]
    /\ UNCHANGED <<cand, pick, target, permit, list, counts, viewVars, monVars, forgotten>>

\* report_instance_down reads the available instances ...
ReportLoad(r, next) ==
    /\ list' = [list EXCEPT ![r] = avail \ {target[r]}]
    /\ pc' = [pc EXCEPT ![r] = next]
    /\ UNCHANGED <<cand, pick, target, permit, counts, viewVars, monVars, forgotten>>

\* generate() fails, with an error that inhibits the instance or another one.
SendFails(r) ==
    /\ pc[r] = "sent"
    /\ End(r)

SendFailsInhibited(r) ==
    /\ FaultDetection
    /\ pc[r] = "sent"
    /\ ReportLoad(r, "report_err")

\* An item of the stream is an inhibiting error; the stream goes on.
ItemFails(r) ==
    /\ FaultDetection
    /\ pc[r] = "stream"
    /\ ReportLoad(r, "report")

\* Nothing came for response_timeout: the stream ends with an error.
InactivityTimeout(r) ==
    /\ FaultDetection /\ Timeout
    /\ pc[r] = "stream"
    /\ ReportLoad(r, "report_end")

\* ... and writes what it read, without the one that is down.
ReportStore(r) ==
    /\ pc[r] = "report"
    /\ avail' = list[r]
    /\ pc' = [pc EXCEPT ![r] = "stream"]
    /\ list' = [list EXCEPT ![r] = {}]
   
    /\ UNCHANGED <<source, open, dirty, free, cand, pick, target, permit, counts,
                   monVars, forgotten>>

ReportStoreEnd(r) ==
    /\ pc[r] \in {"report_err", "report_end"}
    /\ avail' = list[r]
    /\ pc' = [pc EXCEPT ![r] = "done"]
    /\ Release(r)
    /\ target' = [target EXCEPT ![r] = None]
    /\ list' = [list EXCEPT ![r] = {}]
   
    /\ UNCHANGED <<source, open, dirty, free, cand, pick, monVars, forgotten>>

\* The stream ends or is dropped.
StreamDone(r) ==
    /\ pc[r] = "stream"
    /\ End(r)

\* The caller drops the request's future at one of its awaits.
DropRequest(r) ==
    /\ pc[r] \in {"choosing", "sent"}
    /\ End(r)

-----------------------------------------------------------------------------
Discovery == (\E i \in Instance : Added(i) \/ Removed(i)) \/ StreamEnds

Monitor == MonitorRead \/ MonitorAvail \/ MonitorFree \/ MonitorRetain \/ MonitorClosed

RequestStep(r) ==
    \/ Random(r) \/ (\E i \in Instance : Direct(r, i)) \/ PowerOfTwoChoices(r) \/ P2cIncrement(r)
    \/ ReadCandidates(r) \/ SelectExactMin(r)
    \/ RejectOverloaded(r) \/ Resolve(r) \/ Fallback(r) \/ NotFound(r)
    \/ Respond(r) \/ SendFails(r) \/ SendFailsInhibited(r) \/ ItemFails(r) \/ InactivityTimeout(r)
    \/ ReportStore(r) \/ ReportStoreEnd(r) \/ StreamDone(r) \/ DropRequest(r)

Next ==
    \/ Discovery
    \/ Monitor
    \/ \E busy \in SUBSET Instance : UpdateFree(busy)
    \/ \E r \in Request : RequestStep(r)

Spec == Init /\ [][Next]_vars

\* The monitor task is always polled again, by a change or by its timer, and a
\* synchronous report_instance_down runs to its end; discovery, the workers and
\* the callers owe nothing.
Fairness ==
    /\ WF_vars(Monitor)
    /\ \A r \in Request : WF_vars(ReportStore(r) \/ ReportStoreEnd(r))

FairSpec == Spec /\ Fairness

-----------------------------------------------------------------------------
\* In-flight counts never leak: whatever way a request ends, an instance is not
\* left with more requests than are out on it; and as long as retain() has not
\* thrown its entry away under a running request the count is exact.
OccupancyBounded ==
    \A i \in Instance :
        /\ counts[i] <= Cardinality(Permits(i))
        /\ i \notin forgotten => counts[i] = Cardinality(Permits(i))

\* An instance that discovery goes on to report is not inhibited for ever, even
\* when reports race with the monitor.
Restored ==
    \A i \in Instance : <>[](i \in source) => []<>(i \in avail)

Quiet == \A r \in Request : pc[r] \notin {"report", "report_err", "report_end"}

\* An instance that discovery has removed for good is no longer offered once
\* the reports about others stop: the old list that a late report has written
\* back is corrected.
GoneForGood ==
    \A i \in Instance :
        <>[](i \notin source /\ Quiet) => (<>[](i \notin avail) \/ <>cancelled)

-----------------------------------------------------------------------------
(***************************************************************************)
(* Theorems, for every set of instances and requests and every routing      *)
(* mode.                                                                    *)
(***************************************************************************)

\* A request has no permit before it has selected and none when it is over, and
\* one that is about to be counted has selected an instance.
Selected ==
    \A r \in Request :
        /\ permit[r] # None => pc[r] \notin {"idle", "choosing", "counting", "done"}
        /\ pc[r] = "counting" => pick[r] \in Instance

OccupancyInv == TypeOK /\ Selected /\ OccupancyBounded

-----------------------------------------------------------------------------
LEMMA PermitsFinite ==
    ASSUME NEW i PROVE IsFiniteSet(Permits(i)) /\ Cardinality(Permits(i)) \in Nat
<1>1. Permits(i) \subseteq Request
  BY DEF Permits
<1>. QED  BY <1>1, RouterAssumption, FS_Subset, FS_CardinalityType

\* A step that leaves the counts and the permits alone.
LEMMA KeepOccupancy ==
    ASSUME OccupancyBounded, UNCHANGED <<counts, permit, forgotten>>
    PROVE  OccupancyBounded'
BY DEF OccupancyBounded, Permits

\* increment() with the permit made for it.
LEMMA TakeOccupancy ==
    ASSUME TypeOK, OccupancyBounded, NEW r \in Request, NEW i \in Instance,
           permit[r] = None, TakePermit(r, i), UNCHANGED forgotten
    PROVE  /\ counts' \in [Instance -> Nat] /\ permit' \in [Request -> Instance \cup {None}]
           /\ OccupancyBounded'
<1>1. counts' \in [Instance -> Nat] /\ permit' \in [Request -> Instance \cup {None}]
  BY DEF TypeOK, TakePermit
<1>2. ASSUME NEW j \in Instance
      PROVE  /\ counts'[j] <= Cardinality(Permits(j)')
             /\ j \notin forgotten => counts'[j] = Cardinality(Permits(j)')
  <2>a. counts[j] \in Nat /\ Cardinality(Permits(j)) \in Nat /\ IsFiniteSet(Permits(j))
    BY PermitsFinite DEF TypeOK
  <2>1. CASE j = i
    <3>1. Permits(j)' = Permits(j) \cup {r} /\ r \notin Permits(j)
      BY <2>1, RouterAssumption DEF TypeOK, TakePermit, Permits
    <3>2. Cardinality(Permits(j)') = Cardinality(Permits(j)) + 1
      BY <3>1, <2>a, FS_AddElement
    <3>3. counts'[j] = counts[j] + 1
      BY <2>1 DEF TypeOK, TakePermit
    <3>. QED  BY <3>2, <3>3, <2>a DEF OccupancyBounded
  <2>2. CASE j # i
    <3>1. Permits(j)' = Permits(j)
      BY <2>2, RouterAssumption DEF TypeOK, TakePermit, Permits
    <3>2. counts'[j] = counts[j]
      BY <2>2 DEF TypeOK, TakePermit
    <3>. QED  BY <3>1, <3>2 DEF OccupancyBounded
  <2>. QED  BY <2>1, <2>2
<1>. QED  BY <1>1, <1>2 DEF OccupancyBounded

\* decrement(), which saturates at zero.
LEMMA ReleaseOccupancy ==
    ASSUME TypeOK, OccupancyBounded, NEW r \in Request, Release(r), UNCHANGED forgotten
    PROVE  /\ counts' \in [Instance -> Nat] /\ permit' \in [Request -> Instance \cup {None}]
           /\ OccupancyBounded'
<1>1. counts' \in [Instance -> Nat] /\ permit' \in [Request -> Instance \cup {None}]
  BY DEF TypeOK, Release
<1>2. ASSUME NEW j \in Instance
      PROVE  /\ counts'[j] <= Cardinality(Permits(j)')
             /\ j \notin forgotten => counts'[j] = Cardinality(Permits(j)')
  <2>a. counts[j] \in Nat /\ Cardinality(Permits(j)) \in Nat /\ IsFiniteSet(Permits(j))
    BY PermitsFinite DEF TypeOK
  <2>1. CASE j = permit[r]
    <3>1. Permits(j)' = Permits(j) \ {r} /\ r \in Permits(j)
      BY <2>1, RouterAssumption DEF TypeOK, Release, Permits
    <3>2. Cardinality(Permits(j)') = Cardinality(Permits(j)) - 1
      BY <3>1, <2>a, FS_RemoveElement
    <3>3. Cardinality(Permits(j)) # 0
      BY <3>1, <2>a, FS_EmptySet
    <3>4. counts'[j] = IF counts[j] > 0 THEN counts[j] - 1 ELSE counts[j]
      BY <2>1 DEF Release
    <3>. QED  BY <3>2, <3>3, <3>4, <2>a DEF OccupancyBounded
  <2>2. CASE j # permit[r]
    <3>1. Permits(j)' = Permits(j)
      BY <2>2, RouterAssumption DEF TypeOK, Release, Permits
    <3>2. counts'[j] = counts[j]
      BY <2>2 DEF Release
    <3>. QED  BY <3>1, <3>2 DEF OccupancyBounded
  <2>. QED  BY <2>1, <2>2
<1>. QED  BY <1>1, <1>2 DEF OccupancyBounded

-----------------------------------------------------------------------------
LEMMA InitOccupancy == Init => OccupancyInv
<1>. SUFFICES ASSUME Init PROVE OccupancyInv
  OBVIOUS
<1>1. TypeOK /\ Selected
  BY RouterAssumption DEF Init, TypeOK, Selected, PC
<1>2. \A i \in Instance : Permits(i) = {}
  BY RouterAssumption DEF Init, Permits
<1>3. OccupancyBounded
  BY <1>2, FS_EmptySet DEF Init, OccupancyBounded
<1>. QED  BY <1>1, <1>3 DEF OccupancyInv

LEMMA DiscoveryOccupancy == ASSUME OccupancyInv, Discovery PROVE OccupancyInv'
<1>1. UNCHANGED <<counts, permit, forgotten>>
  BY DEF Discovery, Added, Removed, StreamEnds, reqVars
<1>2. TypeOK' /\ Selected'
  BY DEF OccupancyInv, TypeOK, Selected, Discovery, Added, Removed, StreamEnds, reqVars, monVars
<1>. QED  BY <1>1, <1>2, KeepOccupancy DEF OccupancyInv

LEMMA MonitorOccupancy == ASSUME OccupancyInv, Monitor PROVE OccupancyInv'
<1>. USE DEF OccupancyInv
<1>1. CASE MonitorRetain
  <2>1. TypeOK' /\ Selected'
    BY <1>1 DEF MonitorRetain, TypeOK, Selected, viewVars, reqVars
  <2>2. \A i \in Instance : Permits(i)' = Permits(i)
    BY <1>1 DEF MonitorRetain, reqVars, Permits
  <2>3. \A i \in Instance : Cardinality(Permits(i)) \in Nat /\ (Permits(i) = {} => Cardinality(Permits(i)) = 0)
    BY PermitsFinite, FS_EmptySet
  <2>4. OccupancyBounded'
    <3>1. CASE UNCHANGED <<counts, forgotten>>
      BY <3>1, <2>2 DEF OccupancyBounded
    <3>2. CASE /\ counts' = [i \in Instance |-> IF i \in ids THEN counts[i] ELSE 0]
               /\ forgotten' = forgotten \cup {i \in Instance \ ids : Permits(i) # {}}
      BY <3>2, <2>2, <2>3 DEF OccupancyBounded
    <3>. QED  BY <1>1, <3>1, <3>2 DEF MonitorRetain
  <2>. QED  BY <2>1, <2>4
<1>2. CASE MonitorRead \/ MonitorAvail \/ MonitorFree \/ MonitorClosed
  <2>1. UNCHANGED <<counts, permit, forgotten>>
    BY <1>2 DEF MonitorRead, MonitorAvail, MonitorFree, MonitorClosed, reqVars
  <2>2. TypeOK' /\ Selected'
    BY <1>2 DEF MonitorRead, MonitorAvail, MonitorFree, MonitorClosed, TypeOK, Selected,
                viewVars, reqVars
  <2>. QED  BY <2>1, <2>2, KeepOccupancy
<1>. QED  BY <1>1, <1>2 DEF Monitor

\* The ways a request ends outside a report.
LEMMA EndOccupancy == ASSUME OccupancyInv, NEW r \in Request, End(r) PROVE OccupancyInv'
<1>. USE DEF OccupancyInv
<1>1. counts' \in [Instance -> Nat] /\ permit' \in [Request -> Instance \cup {None}] /\ OccupancyBounded'
  BY ReleaseOccupancy DEF End
<1>2. pc' \in [Request -> PC] /\ cand' \in [Request -> SUBSET Instance]
      /\ pick' \in [Request -> Instance \cup {None}] /\ target' \in [Request -> Instance \cup {None}]
  BY DEF End, TypeOK, PC
<1>4. TypeOK'
  BY <1>1, <1>2 DEF End, TypeOK, viewVars, monVars
<1>5. Selected'
  BY DEF End, Release, TypeOK, Selected
<1>. QED  BY <1>1, <1>4, <1>5

\* The steps of a request that touch neither counts nor permits.
LEMMA PlainOccupancy ==
    ASSUME OccupancyInv, NEW r \in Request,
           \/ Random(r) \/ (\E i \in Instance : Direct(r, i)) \/ PowerOfTwoChoices(r)
           \/ ReadCandidates(r) \/ Resolve(r) \/ Fallback(r) \/ Respond(r)
           \/ SendFailsInhibited(r) \/ ItemFails(r) \/ InactivityTimeout(r) \/ ReportStore(r)
    PROVE  OccupancyInv'
<1>. USE DEF OccupancyInv
<1>1. ASSUME SelectFails(r), pc[r] = "idle" PROVE OccupancyInv'
  BY <1>1, KeepOccupancy DEF SelectFails, TypeOK, Selected, PC, viewVars, monVars
<1>2. ASSUME NEW i \in Instance, Select(r, i), pc[r] = "idle" PROVE OccupancyInv'
  BY <1>2, KeepOccupancy DEF Select, TypeOK, Selected, PC, viewVars, monVars
<1>3. ASSUME NEW i \in Instance, Send(r, i), pc[r] = "picked" PROVE OccupancyInv'
  BY <1>3, KeepOccupancy DEF Send, TypeOK, Selected, PC, viewVars, monVars
<1>4. ASSUME NEW n \in {"report", "report_err", "report_end"}, ReportLoad(r, n) PROVE OccupancyInv'
  BY <1>4, KeepOccupancy DEF ReportLoad, TypeOK, Selected, PC, viewVars, monVars
<1>5. CASE Random(r) \/ \E i \in Instance : Direct(r, i)
  <2>1. avail \subseteq Instance
    BY DEF TypeOK
  <2>. QED  BY <1>1, <1>2, <1>5, <2>1 DEF Random, Direct
<1>6. CASE PowerOfTwoChoices(r)
  <2>1. P2cSelectFrom(avail) \subseteq Instance
    BY DEF TypeOK, P2cSelectFrom
  <2>2. CASE avail = {} /\ SelectFails(r)
    BY <2>2, <1>6, <1>1 DEF PowerOfTwoChoices
  <2>3. CASE ~ (avail = {} /\ SelectFails(r))
    BY <2>3, <2>1, <1>6, KeepOccupancy
       DEF PowerOfTwoChoices, TypeOK, Selected, PC, viewVars, monVars
  <2>. QED  BY <2>2, <2>3
<1>7. CASE ReadCandidates(r)
  <2>1. DeviceAwareCandidateGroup(avail) \subseteq Instance
    BY DEF TypeOK, DeviceAwareCandidateGroup
  <2>2. CASE avail = {} /\ SelectFails(r)
    BY <2>2, <1>7, <1>1 DEF ReadCandidates
  <2>3. CASE ~ (avail = {} /\ SelectFails(r))
    <3>1. cand' \in [Request -> SUBSET Instance]
      BY <2>3, <2>1, <1>7 DEF ReadCandidates, TypeOK
    <3>. QED  BY <2>3, <3>1, <1>7, KeepOccupancy
              DEF ReadCandidates, TypeOK, Selected, PC, viewVars, monVars
  <2>. QED  BY <2>2, <2>3
<1>8. CASE Resolve(r) \/ Fallback(r)
  <2>1. avail \subseteq Instance /\ source \subseteq Instance
    BY DEF TypeOK
  <2>. QED  BY <1>3, <1>8, <2>1 DEF Resolve, Fallback, Send
<1>9. CASE Respond(r)
  BY <1>9, KeepOccupancy DEF Respond, TypeOK, Selected, PC, viewVars, monVars
<1>10. CASE SendFailsInhibited(r) \/ ItemFails(r) \/ InactivityTimeout(r)
  BY <1>4, <1>10 DEF SendFailsInhibited, ItemFails, InactivityTimeout
<1>11. CASE ReportStore(r)
  BY <1>11, KeepOccupancy DEF ReportStore, TypeOK, Selected, PC, monVars
<1>. QED  BY <1>5, <1>6, <1>7, <1>8, <1>9, <1>10, <1>11

\* The steps of a request that count it.
LEMMA CountOccupancy ==
    ASSUME OccupancyInv, NEW r \in Request, P2cIncrement(r) \/ SelectExactMin(r)
    PROVE  OccupancyInv'
<1>. USE DEF OccupancyInv
<1>1. permit[r] = None
  BY DEF Selected, P2cIncrement, SelectExactMin
<1>2. PICK i \in Instance :
        /\ TakePermit(r, i)
        /\ pick' = [pick EXCEPT ![r] = i]
        /\ cand' \in [Request -> SUBSET Instance]
        /\ UNCHANGED <<target, list, viewVars, monVars, forgotten>>
  <2>1. CASE P2cIncrement(r)
    <3>1. pick[r] \in Instance /\ pick = [pick EXCEPT ![r] = pick[r]]
      BY <2>1 DEF P2cIncrement, Selected, TypeOK
    <3>. QED  BY <2>1, <3>1 DEF P2cIncrement, TypeOK
  <2>2. CASE SelectExactMin(r)
    <3>1. cand[r] \subseteq Instance /\ [cand EXCEPT ![r] = {}] \in [Request -> SUBSET Instance]
      BY DEF TypeOK
    <3>. QED  BY <2>2, <3>1 DEF SelectExactMin
  <2>. QED  BY <2>1, <2>2
<1>3. counts' \in [Instance -> Nat] /\ permit' \in [Request -> Instance \cup {None}] /\ OccupancyBounded'
  BY <1>1, <1>2, TakeOccupancy
<1>4. TypeOK'
  BY <1>2, <1>3 DEF TypeOK, TakePermit, PC, viewVars, monVars
<1>5. Selected'
  BY <1>2 DEF TypeOK, TakePermit, Selected
<1>. QED  BY <1>3, <1>4, <1>5

LEMMA RequestOccupancy == ASSUME OccupancyInv, NEW r \in Request, RequestStep(r) PROVE OccupancyInv'
<1>. USE DEF OccupancyInv
<1>1. CASE ReportStoreEnd(r)
  <2>1. counts' \in [Instance -> Nat] /\ permit' \in [Request -> Instance \cup {None}] /\ OccupancyBounded'
    BY <1>1, ReleaseOccupancy DEF ReportStoreEnd
  <2>2. TypeOK'
    BY <1>1, <2>1 DEF ReportStoreEnd, TypeOK, PC, monVars
  <2>3. Selected'
    BY <1>1 DEF ReportStoreEnd, Release, TypeOK, Selected
  <2>. QED  BY <2>1, <2>2, <2>3
<1>2. CASE RejectOverloaded(r) \/ NotFound(r) \/ SendFails(r) \/ StreamDone(r) \/ DropRequest(r)
  BY <1>2, EndOccupancy DEF RejectOverloaded, NotFound, SendFails, StreamDone, DropRequest
<1>. QED  BY <1>1, <1>2, PlainOccupancy, CountOccupancy DEF RequestStep

LEMMA NextOccupancy == OccupancyInv /\ [Next]_vars => OccupancyInv'
<1>. SUFFICES ASSUME OccupancyInv, [Next]_vars PROVE OccupancyInv'
  OBVIOUS
<1>1. CASE \E busy \in SUBSET Instance : UpdateFree(busy)
  <2>1. UNCHANGED <<counts, permit, forgotten>> /\ TypeOK' /\ Selected'
    BY <1>1 DEF OccupancyInv, UpdateFree, TypeOK, Selected, monVars, reqVars
  <2>. QED  BY <2>1, KeepOccupancy DEF OccupancyInv
<1>2. CASE UNCHANGED vars
  <2>1. UNCHANGED <<counts, permit, forgotten>> /\ TypeOK' /\ Selected'
    BY <1>2 DEF OccupancyInv, TypeOK, Selected, vars, viewVars, monVars, reqVars
  <2>. QED  BY <2>1, KeepOccupancy DEF OccupancyInv
<1>. QED  BY <1>1, <1>2, DiscoveryOccupancy, MonitorOccupancy, RequestOccupancy DEF Next

\* The in-flight count of an instance never exceeds the permits that are out on
\* it, and equals them unless retain() dropped its entry under a running
\* request: no routing mode, failure or timeout leaks one.
THEOREM Occupancy_Bounded == Spec => []OccupancyBounded
<1>1. Spec => []OccupancyInv
  BY InitOccupancy, NextOccupancy, PTL DEF Spec
<1>2. OccupancyInv => OccupancyBounded
  BY DEF OccupancyInv
<1>. QED  BY <1>1, <1>2, PTL

\* The counts stay natural numbers although decrements reach entries that were
\* dropped: decrement() saturates.
THEOREM Router_Typing == Spec => []TypeOK
<1>1. Spec => []OccupancyInv
  BY InitOccupancy, NextOccupancy, PTL DEF Spec
<1>2. OccupancyInv => TypeOK
  BY DEF OccupancyInv
<1>. QED  BY <1>1, <1>2, PTL
=============================================================================
