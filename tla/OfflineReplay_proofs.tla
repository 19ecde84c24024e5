------------------------ MODULE OfflineReplay_proofs ------------------------
(***************************************************************************)
(* Three theorems about the offline replay, for every trace, configuration,  *)
(* choice of the router, length of a pass and sequence of scalings.           *)
(*                                                                         *)
(* Router_Agrees: the router of a stage knows exactly the workers the engine  *)
(* may give work to, and the loop settles a timestamp before it moves the     *)
(* clock.  EngineInv is what the operations of EngineComponent keep: no       *)
(* worker is both starting and leaving, ids are never used again, and no      *)
(* leaving worker is drained after any of them, which is more than Settled    *)
(* asks for.  KnownInv relates the router to it.  RoundInv is about the loop: *)
(* a round in which nothing has changed so far has found the workers of the   *)
(* stages it has been through idle.                                           *)
(*                                                                         *)
(* In_One_Place: a request that was released is in one core, one queue, one   *)
(* event or one piece of work in hand until it is done.  PlaceInv says so     *)
(* through the four sets; the other parts of OnePlaceInv are why a step keeps  *)
(* it.  TurnInv: a session has one entry in the ready heap and none while a    *)
(* turn of it is out, so the request that is released is not in any place      *)
(* yet.  Fit: the completion of a busy worker is scheduled once and accounts   *)
(* for what its count exceeds its core by; a worker that starts has no work,   *)
(* so scaling it away loses none.  Heard and Sound: the events and the work    *)
(* in hand name stages and workers that exist, and a signal that ends a        *)
(* request is the last of that request.  RotaInv is the counter of the         *)
(* round-robin choice, which must find a worker.                               *)
(*                                                                         *)
(* No_Error: no bail is reached, the cap holds and is_workload_done is right.   *)
(* ErrorInv adds to OnePlaceInv what each bail rests on.  Slots: the phase of   *)
(* a request and its slot follow the place it is in, so a signal finds both.    *)
(* Queues: who waits in a router waits for a load that somebody's prompt makes, *)
(* so the queue empties when nobody runs.  Reports: a pass reports something.   *)
(* DriverInv: the driver counts as out exactly who is, and has released the     *)
(* turns before the current one.  ActiveInv: a stage keeps a worker that may    *)
(* be given work.  ReleaseInv: a quiet round has released what it may.  CapInv  *)
(* bounds the requests of the first stage; cluster_in_flight, a sum of counts   *)
(* over workers and stages, is at least their number, which the sums over       *)
(* finite sets show.                                                          *)
(***************************************************************************)
EXTENDS OfflineReplay, FiniteSetTheorems, SequenceTheorems, TLAPS

\* The workers of an engine and their states.
EngineRecord(e) ==
    /\ DOMAIN e = {"workers", "leaving", "starting", "next"}
    /\ e.next \in Nat /\ DOMAIN e.workers \subseteq 0..(e.next - 1)
    /\ e.leaving \subseteq DOMAIN e.workers /\ e.starting \subseteq DOMAIN e.workers
    /\ e.leaving \cap e.starting = {}
    /\ \A i \in DOMAIN e.workers : DOMAIN e.workers[i] = {"busy", "in_flight", "core"}

\* Who leaves has work; but for the worker in hand.
Occupied(e, S) == \A i \in S : ~Drained(e.workers[i])

EngineInv ==
    /\ DOMAIN eng = Active
    /\ \A st \in Active : EngineRecord(eng[st]) /\ Occupied(eng[st], eng[st].leaving)

KnownInv ==
    /\ DOMAIN rt = Active
    /\ \A st \in Active :
        /\ DOMAIN rt[st] = {"known", "pending", "slots", "heavy"}
        /\ rt[st].known = ActiveIds(eng[st])

RoundInv ==
    /\ conf \in Configs
    /\ pc = "advance" => ~changed
    /\ pc \in {"handoffs", "decode"} => conf.kind = "disagg"
    /\ ~changed =>
        /\ work # <<>> => pc \in {"completions", "failed"}
        /\ pc \in {"decode", "round", "advance"} => AllIdle(First)
        /\ pc \in {"round", "advance"} => \A st \in Active : AllIdle(st)

ReplayInv == EngineInv /\ KnownInv /\ RoundInv

-----------------------------------------------------------------------------
(* The operations of EngineComponent                                         *)

LEMMA RemovesDrained ==
    ASSUME NEW e, EngineRecord(e)
    PROVE  LET f == RemoveDrained(e) IN
           /\ EngineRecord(f) /\ Occupied(f, f.leaving)
           /\ ActiveIds(f) = ActiveIds(e) /\ f.starting = e.starting /\ f.next = e.next
           /\ DOMAIN f.workers \subseteq DOMAIN e.workers
           /\ \A i \in DOMAIN f.workers : f.workers[i] = e.workers[i]
<1> DEFINE f == RemoveDrained(e)
           gone == {i \in e.leaving : Drained(e.workers[i])}
<1>1. /\ DOMAIN f = DOMAIN e /\ f.next = e.next /\ f.starting = e.starting /\ f.leaving = e.leaving \ gone
      /\ DOMAIN f.workers = DOMAIN e.workers \ gone
      /\ \A i \in DOMAIN f.workers : f.workers[i] = e.workers[i]
  BY DEF RemoveDrained, EngineRecord
<1>2. EngineRecord(f)
  BY <1>1 DEF EngineRecord
<1>3. Occupied(f, f.leaving)
  <2>1. ASSUME NEW i \in f.leaving PROVE ~Drained(f.workers[i])
    <3>1. i \in e.leaving /\ ~Drained(e.workers[i]) /\ i \in DOMAIN f.workers
      BY <1>1, <2>1 DEF EngineRecord
    <3> QED
      BY <1>1, <3>1
  <2> QED
    BY <2>1 DEF Occupied
<1>4. ActiveIds(f) = ActiveIds(e)
  BY <1>1 DEF ActiveIds, EngineRecord
<1> QED
  BY <1>1, <1>2, <1>3, <1>4

\* A worker gets work: nothing else is changed, whoever it is.
LEMMA DispatchKeeps ==
    ASSUME NEW e, NEW i, NEW r, NEW n, EngineRecord(e), Occupied(e, e.leaving)
    PROVE  LET f == Dispatched(e, i, r, n) IN
           EngineRecord(f) /\ Occupied(f, f.leaving) /\ ActiveIds(f) = ActiveIds(e)
<1> DEFINE f == Dispatched(e, i, r, n)
<1>1. /\ DOMAIN f = DOMAIN e /\ f.next = e.next /\ f.starting = e.starting /\ f.leaving = e.leaving
      /\ DOMAIN f.workers = DOMAIN e.workers
      /\ \A j \in DOMAIN e.workers : j # i => f.workers[j] = e.workers[j]
      /\ i \in DOMAIN e.workers =>
            DOMAIN f.workers[i] = DOMAIN e.workers[i] /\ r \in DOMAIN f.workers[i].core
  BY DEF Dispatched, EngineRecord
<1>2. EngineRecord(f) /\ ActiveIds(f) = ActiveIds(e)
  BY <1>1 DEF EngineRecord, ActiveIds
<1>3. \A g : (\E x : x \in DOMAIN g) => g # <<>>
  <2>1. DOMAIN <<>> = {}
    OBVIOUS
  <2> QED
    BY <2>1
<1>4. Occupied(f, f.leaving)
  <2>1. ASSUME NEW j \in e.leaving PROVE ~Drained(f.workers[j])
    <3>1. CASE j # i
      BY <1>1, <2>1, <3>1 DEF Occupied, EngineRecord
    <3>2. CASE j = i
      <4>1. f.workers[i].core # <<>>
        BY <1>1, <1>3, <2>1, <3>2 DEF EngineRecord
      <4> QED
        BY <3>2, <4>1 DEF Drained
    <3> QED
      BY <3>1, <3>2
  <2> QED
    BY <1>1, <2>1 DEF Occupied
<1> QED
  BY <1>2, <1>4

\* The end of a pass; the worker in hand may have emptied its core.
LEMMA CompletionKeeps ==
    ASSUME NEW e, NEW i \in DOMAIN e.workers, NEW n, EngineRecord(e), Occupied(e, e.leaving \ {i})
    PROVE  LET f == Completed(e, i, n) IN
           EngineRecord(f) /\ Occupied(f, f.leaving) /\ ActiveIds(f) = ActiveIds(e)
<1> DEFINE m == IF e.workers[i].in_flight < n THEN 0 ELSE e.workers[i].in_flight - n
           g == [e EXCEPT !.workers[i].busy = FALSE, !.workers[i].in_flight = m]
<1> HIDE DEF m
<1>1. /\ DOMAIN g = DOMAIN e /\ g.next = e.next /\ g.starting = e.starting /\ g.leaving = e.leaving
      /\ DOMAIN g.workers = DOMAIN e.workers
      /\ \A j \in DOMAIN e.workers : j # i => g.workers[j] = e.workers[j]
      /\ DOMAIN g.workers[i] = DOMAIN e.workers[i]
  BY DEF EngineRecord
<1>2. EngineRecord(g) /\ ActiveIds(g) = ActiveIds(e)
  BY <1>1 DEF EngineRecord, ActiveIds
<1>3. Completed(e, i, n) = IF i \in e.leaving THEN RemoveDrained(g) ELSE g
  BY DEF Completed, m
<1> HIDE DEF g
<1>4. CASE i \in e.leaving
  BY <1>2, <1>3, <1>4, RemovesDrained
<1>5. CASE i \notin e.leaving
  <2>1. Occupied(g, g.leaving)
    BY <1>1, <1>5 DEF Occupied, EngineRecord
  <2> QED
    BY <1>2, <1>3, <1>5, <2>1
<1> QED
  BY <1>4, <1>5

\* The planner's target: who is active afterwards is who was and is not marked, and
\* who was added if that takes no time.
LEMMA TargetKeeps ==
    ASSUME NEW e, NEW target \in Nat, EngineRecord(e), conf \in Configs
    PROVE  LET to == ApplyTarget(e, target) IN
           /\ EngineRecord(to.e) /\ Occupied(to.e, to.e.leaving)
           /\ ActiveIds(to.e) =
                (ActiveIds(e) \cup (IF conf.startup = 0 THEN to.added ELSE {})) \ to.marked
<1> DEFINE effective == Cardinality(ActiveIds(e)) + Cardinality(e.starting)
           added     == IF target > effective THEN e.next..(e.next + target - effective - 1) ELSE {}
           excess    == IF target < effective THEN effective - target ELSE 0
           cancelled == Largest(e.starting, excess)
           mark      == Largest(ActiveIds(e), excess - Cardinality(cancelled))
           slow      == IF conf.startup > 0 THEN added ELSE {}
           g == [workers  |-> [i \in (DOMAIN e.workers \ cancelled) \cup added |->
                                  IF i \in added THEN Worker ELSE e.workers[i]],
                 leaving  |-> e.leaving \cup mark,
                 starting |-> (e.starting \ cancelled) \cup slow,
                 next     |-> e.next + Cardinality(added)]
<1>1. ApplyTarget(e, target) = [added |-> added, marked |-> mark, e |-> RemoveDrained(g)]
  BY DEF ApplyTarget
<1>2. IsFiniteSet(ActiveIds(e)) /\ IsFiniteSet(e.starting)
  <2>1. IsFiniteSet(0..(e.next - 1))
    <3>1. 0 \in Int /\ e.next - 1 \in Int
      BY DEF EngineRecord
    <3> QED
      BY <3>1, FS_Interval
  <2>2. ActiveIds(e) \subseteq 0..(e.next - 1) /\ e.starting \subseteq 0..(e.next - 1)
    BY DEF EngineRecord, ActiveIds
  <2> QED
    BY <2>1, <2>2, FS_Subset
<1>3. effective \in Nat
  BY <1>2, FS_CardinalityType
<1> HIDE DEF effective
<1>4. /\ Cardinality(added) \in Nat /\ added \cap DOMAIN e.workers = {}
      /\ \A i \in added : i \in 0..(e.next + Cardinality(added) - 1)
  <2>1. CASE target > effective
    <3>1. Cardinality(added) = target - effective
      BY <1>3, <2>1, FS_Interval DEF EngineRecord
    <3> QED
      BY <1>3, <2>1, <3>1 DEF EngineRecord
  <2>2. CASE ~(target > effective)
    BY <2>2, FS_EmptySet
  <2> QED
    BY <2>1, <2>2
<1>5. cancelled \subseteq e.starting /\ mark \subseteq ActiveIds(e) /\ slow \subseteq added
  BY DEF Largest
<1> HIDE DEF added, cancelled, mark, slow
<1>6. EngineRecord(g)
  <2>1. /\ DOMAIN g = {"workers", "leaving", "starting", "next"} /\ g.next \in Nat
        /\ DOMAIN g.workers = (DOMAIN e.workers \ cancelled) \cup added
    BY <1>4 DEF EngineRecord
  <2>2. DOMAIN g.workers \subseteq 0..(g.next - 1)
    BY <1>4, <2>1 DEF EngineRecord
  <2>3. /\ g.leaving \subseteq DOMAIN g.workers /\ g.starting \subseteq DOMAIN g.workers
        /\ g.leaving \cap g.starting = {}
    BY <1>4, <1>5, <2>1 DEF EngineRecord, ActiveIds
  <2>4. \A i \in DOMAIN g.workers : DOMAIN g.workers[i] = {"busy", "in_flight", "core"}
    BY <2>1 DEF EngineRecord, Worker
  <2> QED
    BY <2>1, <2>2, <2>3, <2>4 DEF EngineRecord
<1>7. ActiveIds(g) = (ActiveIds(e) \ mark) \cup (added \ slow)
  BY <1>4, <1>5 DEF ActiveIds, EngineRecord
<1>8. added \ slow = (IF conf.startup = 0 THEN added ELSE {}) /\ added \cap mark = {}
  <2>1. conf.startup \in Nat
    BY ReplayAssumption
  <2> QED
    BY <1>4, <1>5, <2>1 DEF slow, ActiveIds
<1> HIDE DEF g
<1>9. EngineRecord(RemoveDrained(g)) /\ Occupied(RemoveDrained(g), RemoveDrained(g).leaving)
      /\ ActiveIds(RemoveDrained(g)) = ActiveIds(g)
  BY <1>6, RemovesDrained
<1> QED
  BY <1>1, <1>7, <1>8, <1>9

-----------------------------------------------------------------------------
(* The steps of the loop                                                      *)

\* The router and the engine of the stages stay in agreement: no active worker is
\* added or lost.
SameActive ==
    /\ DOMAIN eng' = Active /\ DOMAIN rt' = Active
    /\ \A st \in Active :
        /\ EngineRecord(eng'[st]) /\ Occupied(eng'[st], eng'[st].leaving)
        /\ ActiveIds(eng'[st]) = ActiveIds(eng[st])
        /\ DOMAIN rt'[st] = DOMAIN rt[st] /\ rt'[st].known = rt[st].known

LEMMA AgreementKept ==
    ASSUME EngineInv, KnownInv, SameActive, conf' = conf
    PROVE  EngineInv' /\ KnownInv'
<1>1. Active' = Active
  BY DEF Active
<1>2. EngineInv'
  BY <1>1 DEF EngineInv, SameActive
<1>3. KnownInv'
  BY <1>1 DEF KnownInv, SameActive
<1> QED
  BY <1>2, <1>3

LEMMA SameEngines ==
    ASSUME EngineInv, KnownInv, UNCHANGED eng, DOMAIN rt' = DOMAIN rt,
           \A st \in Active : DOMAIN rt'[st] = DOMAIN rt[st] /\ rt'[st].known = rt[st].known
    PROVE  SameActive
BY DEF EngineInv, KnownInv, SameActive

\* A request comes to a stage, or is taken from its queue.
LEMMA DispatchSame ==
    ASSUME EngineInv, KnownInv, NEW st, NEW i, NEW r, Dispatch(st, i, r),
           DOMAIN rt' = DOMAIN rt,
           \A x \in Active : DOMAIN rt'[x] = DOMAIN rt[x] /\ rt'[x].known = rt[x].known
    PROVE  SameActive
<1>1. \A x \in Active : eng'[x] = IF x = st THEN Dispatched(eng[x], i, r, OutputTokens(st, r)) ELSE eng[x]
  BY DEF Dispatch, EngineInv
<1>2. DOMAIN eng' = Active
  BY DEF Dispatch, EngineInv
<1> QED
  BY <1>1, <1>2, DispatchKeeps DEF EngineInv, KnownInv, SameActive

LEMMA AdmitSame ==
    ASSUME EngineInv, KnownInv, NEW st, NEW r, Admit(st, r)
    PROVE  SameActive
<1>1. PICK i \in rt[st].known \cap DOMAIN eng[st].workers, h \in Weights(st) :
        /\ rt' = [rt EXCEPT ![st] = Slotted(Unqueued(@, r), r, i, h)]
        /\ Dispatch(st, i, r)
  BY DEF Admit
<1>2. /\ DOMAIN rt' = DOMAIN rt
      /\ \A x \in Active : DOMAIN rt'[x] = DOMAIN rt[x] /\ rt'[x].known = rt[x].known
  BY <1>1 DEF Slotted, Unqueued, KnownInv
<1> QED
  BY <1>1, <1>2, DispatchSame

LEMMA EnterSame ==
    ASSUME EngineInv, KnownInv, NEW st, NEW r, Enter(st, r)
    PROVE  SameActive
<1>1. CASE RoundRobin(st, r) /\ UNCHANGED rt
  <2>1. PICK i : Dispatch(st, i, r)
    BY <1>1 DEF RoundRobin
  <2> QED
    BY <1>1, <2>1, DispatchSame
<1>2. CASE OnRequestArrival(st, r)
  <2>1. CASE Admit(st, r)
    BY <2>1, AdmitSame
  <2>2. CASE rt' = [rt EXCEPT ![st].pending = @ \cup {r}] /\ UNCHANGED eng
    BY <2>2, SameEngines DEF KnownInv
  <2> QED
    BY <1>2, <2>1, <2>2 DEF OnRequestArrival
<1> QED
  BY <1>1, <1>2 DEF Enter

LEMMA HandleSame ==
    ASSUME EngineInv, KnownInv, Signal \/ Drain \/ HandOver \/ DecodeHandoff \/ Arrive
    PROVE  SameActive
<1>1. CASE Fail
  BY <1>1, SameEngines DEF Fail
<1>2. ASSUME UNCHANGED eng, NEW st, NEW r,
             rt' = [rt EXCEPT ![st] = Freed(@, r)] \/ rt' = [rt EXCEPT ![st] = PrefillCompleted(@, r)]
      PROVE  SameActive
  BY <1>2, SameEngines DEF Freed, PrefillCompleted, KnownInv
<1>3. CASE Signal
  <2>1. PICK x, rest :
          \/ Fail
          \/ /\ \/ Finish(Head(work).st, x.r, rest) \/ PrefillDone(x.r, rest)
                \/ MarkPrefill(Head(work).st, x.r, rest) \/ Ignored(rest)
             /\ UNCHANGED eng
    BY <1>3 DEF Signal
  <2>2. CASE UNCHANGED <<eng, rt>>
    BY <2>2, SameEngines
  <2> QED
    BY <1>1, <1>2, <2>1, <2>2 DEF Finish, PrefillDone, MarkPrefill, Ignored
<1>4. CASE Drain
  BY <1>1, <1>4, AdmitSame, SameEngines DEF Drain
<1>5. CASE HandOver
  BY <1>1, <1>5, EnterSame, SameEngines DEF HandOver
<1>6. CASE DecodeHandoff
  BY <1>1, <1>6, EnterSame DEF DecodeHandoff
<1>7. CASE Arrive
  BY <1>1, <1>7, EnterSame DEF Arrive
<1> QED
  BY <1>3, <1>4, <1>5, <1>6, <1>7

LEMMA CompletionSame ==
    ASSUME EngineInv, KnownInv, WorkerCompletion
    PROVE  SameActive
<1> DEFINE e == Head(events)
<1>1. CASE Fail
  BY <1>1, SameEngines DEF Fail
<1>2. ASSUME e.worker \in DOMAIN eng[e.st].workers, UNCHANGED rt,
             eng' = [eng EXCEPT ![e.st] = Completed(@, e.worker, Done(e.signals))]
      PROVE  SameActive
  <2>1. \A x \in Active : eng'[x] = IF x = e.st THEN Completed(eng[x], e.worker, Done(e.signals)) ELSE eng[x]
    BY <1>2 DEF EngineInv
  <2>2. DOMAIN eng' = Active
    BY <1>2 DEF EngineInv
  <2>3. \A x \in Active : Occupied(eng[x], eng[x].leaving \ {e.worker})
    BY DEF EngineInv, Occupied
  <2> HIDE DEF e
  <2>4. ASSUME NEW x \in Active
        PROVE  /\ EngineRecord(eng'[x]) /\ Occupied(eng'[x], eng'[x].leaving)
               /\ ActiveIds(eng'[x]) = ActiveIds(eng[x])
    <3>1. CASE x = e.st
      <4>1. eng'[x] = Completed(eng[x], e.worker, Done(e.signals)) /\ e.worker \in DOMAIN eng[x].workers
        BY <1>2, <2>1, <3>1
      <4>2. EngineRecord(eng[x]) /\ Occupied(eng[x], eng[x].leaving \ {e.worker})
        BY <2>3 DEF EngineInv
      <4> QED
        BY <4>1, <4>2, CompletionKeeps
    <3>2. CASE x # e.st
      BY <2>1, <3>2 DEF EngineInv
    <3> QED
      BY <3>1, <3>2
  <2> QED
    BY <1>2, <2>2, <2>4 DEF KnownInv, SameActive
<1> QED
  BY <1>1, <1>2 DEF WorkerCompletion

LEMMA DriveSame ==
    ASSUME EngineInv, KnownInv, NEW st \in Active, Drive(st)
    PROVE  SameActive
<1>1. PICK i \in DOMAIN eng[st].workers, d \in Durations :
        \E S \in SUBSET DOMAIN eng[st].workers[i].core : Pass(st, i, d, S)
  BY DEF Drive
<1>2. PICK S \in SUBSET DOMAIN eng[st].workers[i].core : Pass(st, i, d, S)
  BY <1>1
<1>3. UNCHANGED rt
  BY DEF Drive
<1> DEFINE w    == eng[st].workers[i]
           over == {r \in S : w.core[r] = 1}
           core == [r \in DOMAIN w.core \ over |-> IF r \in S THEN w.core[r] - 1 ELSE w.core[r]]
           e    == [eng[st] EXCEPT !.workers[i].core = core, !.workers[i].busy = d > 0]
<1>4. IF d = 0 THEN eng' = [eng EXCEPT ![st] = Completed(e, i, Cardinality(over))]
               ELSE eng' = [eng EXCEPT ![st] = e]
  BY <1>2, Zenon DEF Pass
<1> HIDE DEF core, over
<1>5. d \in Nat /\ EngineRecord(eng[st]) /\ DOMAIN eng = Active
  BY ReplayAssumption DEF EngineInv
<1>6. /\ DOMAIN e = DOMAIN eng[st] /\ e.next = eng[st].next /\ e.starting = eng[st].starting
      /\ e.leaving = eng[st].leaving /\ DOMAIN e.workers = DOMAIN eng[st].workers
      /\ \A j \in DOMAIN e.workers : j # i => e.workers[j] = eng[st].workers[j]
      /\ DOMAIN e.workers[i] = DOMAIN eng[st].workers[i] /\ (e.workers[i].busy <=> d > 0)
  BY <1>5 DEF EngineRecord
<1> HIDE DEF e
<1>7. EngineRecord(e) /\ ActiveIds(e) = ActiveIds(eng[st])
  BY <1>5, <1>6 DEF EngineRecord, ActiveIds
<1>8. Occupied(e, e.leaving \ {i})
  BY <1>5, <1>6 DEF Occupied, EngineInv, EngineRecord
<1>9. EngineRecord(eng'[st]) /\ Occupied(eng'[st], eng'[st].leaving) /\ ActiveIds(eng'[st]) = ActiveIds(eng[st])
  <2>1. CASE d = 0
    <3>1. eng'[st] = Completed(e, i, Cardinality(over))
      BY <1>4, <1>5, <2>1
    <3>2. i \in DOMAIN e.workers
      BY <1>6
    <3> QED
      BY <1>7, <1>8, <3>1, <3>2, CompletionKeeps
  <2>2. CASE d # 0
    <3>1. eng'[st] = e
      BY <1>4, <1>5, <2>2
    <3>2. ~Drained(e.workers[i])
      <4>1. d > 0
        BY <1>5, <2>2
      <4> QED
        BY <1>6, <4>1 DEF Drained
    <3>3. Occupied(e, e.leaving)
      BY <1>8, <3>2 DEF Occupied
    <3> QED
      BY <1>7, <3>1, <3>3
  <2> QED
    BY <2>1, <2>2
<1>10. DOMAIN eng' = Active /\ \A x \in Active : x # st => eng'[x] = eng[x]
  BY <1>4, <1>5
<1> QED
  BY <1>3, <1>9, <1>10 DEF EngineInv, KnownInv, SameActive

\* A worker has started: the engine may give it work, and the router hears of it.
LEMMA ReadyKnown ==
    ASSUME EngineInv, KnownInv, WorkerReady
    PROVE  EngineInv' /\ KnownInv'
<1> DEFINE s == Head(events).st  i == Head(events).worker
<1>1. /\ eng' = [eng EXCEPT ![s].starting = @ \ {i}] /\ conf' = conf
      /\ IF MarkReady(s, i) THEN rt' = [rt EXCEPT ![s].known = @ \cup {i}] ELSE rt' = rt
  BY DEF WorkerReady, AddReady
<1> HIDE DEF s, i
<1>2. Active' = Active
  BY <1>1 DEF Active
<1>3. DOMAIN eng' = Active /\ DOMAIN rt' = Active
  BY <1>1 DEF EngineInv, KnownInv
<1>4. ASSUME NEW st \in Active, st # s
      PROVE  eng'[st] = eng[st] /\ rt'[st] = rt[st]
  BY <1>1, <1>4 DEF EngineInv, KnownInv
<1>5. ASSUME s \in Active
      PROVE  /\ EngineRecord(eng'[s]) /\ Occupied(eng'[s], eng'[s].leaving)
             /\ DOMAIN rt'[s] = {"known", "pending", "slots", "heavy"}
             /\ rt'[s].known = ActiveIds(eng'[s])
  <2>1. /\ DOMAIN eng'[s] = DOMAIN eng[s] /\ eng'[s].workers = eng[s].workers /\ eng'[s].next = eng[s].next
        /\ eng'[s].leaving = eng[s].leaving /\ eng'[s].starting = eng[s].starting \ {i}
    BY <1>1, <1>5 DEF EngineInv, EngineRecord
  <2>2. EngineRecord(eng'[s]) /\ Occupied(eng'[s], eng'[s].leaving)
    BY <1>5, <2>1 DEF EngineInv, EngineRecord, Occupied
  <2>3. ActiveIds(eng'[s]) = ActiveIds(eng[s]) \cup (IF MarkReady(s, i) THEN {i} ELSE {})
    BY <1>5, <2>1 DEF EngineInv, EngineRecord, ActiveIds, MarkReady
  <2>4. /\ DOMAIN rt'[s] = DOMAIN rt[s]
        /\ rt'[s].known = rt[s].known \cup (IF MarkReady(s, i) THEN {i} ELSE {})
    BY <1>1, <1>5 DEF KnownInv
  <2> QED
    BY <1>5, <2>2, <2>3, <2>4 DEF KnownInv
<1>6. EngineInv'
  BY <1>2, <1>3, <1>4, <1>5 DEF EngineInv
<1>7. KnownInv'
  BY <1>2, <1>3, <1>4, <1>5 DEF KnownInv
<1> QED
  BY <1>6, <1>7

\* The planner scales: the router hears of who is added at once and who is marked.
LEMMA ScalingKnown ==
    ASSUME EngineInv, KnownInv, conf \in Configs, ApplyScaling
    PROVE  EngineInv' /\ KnownInv'
<1>1. PICK target \in [Active -> Targets] :
        LET to == [st \in Active |-> ApplyTarget(eng[st], target[st])] IN
        /\ eng' = [st \in Active |-> to[st].e]
        /\ rt' = [st \in Active |-> [rt[st] EXCEPT !.known =
                     (rt[st].known \cup (IF conf.startup = 0 THEN to[st].added ELSE {})) \ to[st].marked]]
  BY DEF ApplyScaling
<1>2. Active' = Active
  BY DEF ApplyScaling, Active
<1>3. DOMAIN eng' = Active /\ DOMAIN rt' = Active
  BY <1>1
<1>4. ASSUME NEW st \in Active
      PROVE  /\ EngineRecord(eng'[st]) /\ Occupied(eng'[st], eng'[st].leaving)
             /\ DOMAIN rt'[st] = {"known", "pending", "slots", "heavy"}
             /\ rt'[st].known = ActiveIds(eng'[st])
  <2> DEFINE to == ApplyTarget(eng[st], target[st])
  <2>1. target[st] \in Nat /\ EngineRecord(eng[st])
    BY ReplayAssumption DEF EngineInv
  <2>2. /\ EngineRecord(to.e) /\ Occupied(to.e, to.e.leaving)
        /\ ActiveIds(to.e) =
             (ActiveIds(eng[st]) \cup (IF conf.startup = 0 THEN to.added ELSE {})) \ to.marked
    BY <2>1, TargetKeeps
  <2>3. eng'[st] = to.e
    BY <1>1
  <2>4. rt'[st] = [rt[st] EXCEPT !.known =
                     (rt[st].known \cup (IF conf.startup = 0 THEN to.added ELSE {})) \ to.marked]
    BY <1>1
  <2> HIDE DEF to
  <2> QED
    BY <2>2, <2>3, <2>4 DEF KnownInv
<1>5. EngineInv'
  BY <1>2, <1>3, <1>4 DEF EngineInv
<1>6. KnownInv'
  BY <1>2, <1>3, <1>4 DEF KnownInv
<1> QED
  BY <1>5, <1>6

-----------------------------------------------------------------------------
LEMMA Stages ==
    /\ First \in Active
    /\ conf \in Configs /\ conf.kind # "disagg" => Active = {First}
    /\ conf.kind = "disagg" => Active = {First, "Decode"}
<1>1. conf \in Configs => conf.kind \in {"agg", "disagg"}
  BY ReplayAssumption
<1> QED
  BY <1>1 DEF First, Active

LEMMA IndexOf ==
    ASSUME NEW q, NEW k \in DOMAIN q, \A i \in DOMAIN q : q[i] = q[k] => i = k
    PROVE  (CHOOSE i \in DOMAIN q : q[i] = q[k]) = k
OBVIOUS

\* What comes after a phase of the round.
LEMMA Following ==
    /\ conf.kind = "agg" =>
        /\ After("completions") = "ready" /\ After("ready") = "arrivals" /\ After("arrivals") = "drive"
        /\ After("drive") = "round"
    /\ conf.kind = "disagg" =>
        /\ After("completions") = "ready" /\ After("ready") = "handoffs" /\ After("handoffs") = "arrivals"
        /\ After("arrivals") = "drive" /\ After("drive") = "decode" /\ After("decode") = "round"
<1>1. ASSUME conf.kind = "agg"
      PROVE  /\ After("completions") = "ready" /\ After("ready") = "arrivals" /\ After("arrivals") = "drive"
             /\ After("drive") = "round"
  <2>1. /\ DOMAIN AggPhases = 1..5 /\ AggPhases[1] = "completions" /\ AggPhases[2] = "ready"
        /\ AggPhases[3] = "arrivals" /\ AggPhases[4] = "drive" /\ AggPhases[5] = "round"
    BY DEF AggPhases
  <2>2. \A i, k \in 1..5 : AggPhases[i] = AggPhases[k] => i = k
    BY <2>1
  <2>3. ASSUME NEW k \in 1..5 PROVE (CHOOSE i \in DOMAIN AggPhases : AggPhases[i] = AggPhases[k]) = k
    BY <2>1, <2>2, IndexOf
  <2>4. ASSUME NEW k \in 1..4 PROVE After(AggPhases[k]) = AggPhases[1 + k]
    <3>1. After(AggPhases[k]) = AggPhases[1 + (CHOOSE i \in DOMAIN AggPhases : AggPhases[i] = AggPhases[k])]
      BY <1>1, Zenon DEF After
    <3>2. k \in 1..5
      OBVIOUS
    <3> QED
      BY <2>3, <3>1, <3>2
  <2> QED
    BY <2>1, <2>4
<1>2. ASSUME conf.kind = "disagg"
      PROVE  /\ After("completions") = "ready" /\ After("ready") = "handoffs" /\ After("handoffs") = "arrivals"
             /\ After("arrivals") = "drive" /\ After("drive") = "decode" /\ After("decode") = "round"
  <2>1. /\ DOMAIN DisaggPhases = 1..7 /\ DisaggPhases[1] = "completions" /\ DisaggPhases[2] = "ready"
        /\ DisaggPhases[3] = "handoffs" /\ DisaggPhases[4] = "arrivals" /\ DisaggPhases[5] = "drive"
        /\ DisaggPhases[6] = "decode" /\ DisaggPhases[7] = "round"
    BY DEF DisaggPhases
  <2>2. \A i, k \in 1..7 : DisaggPhases[i] = DisaggPhases[k] => i = k
    BY <2>1
  <2>3. ASSUME NEW k \in 1..7 PROVE (CHOOSE i \in DOMAIN DisaggPhases : DisaggPhases[i] = DisaggPhases[k]) = k
    BY <2>1, <2>2, IndexOf
  <2>4. ASSUME NEW k \in 1..6 PROVE After(DisaggPhases[k]) = DisaggPhases[1 + k]
    <3>1. After(DisaggPhases[k]) = DisaggPhases[1 + (CHOOSE i \in DOMAIN DisaggPhases : DisaggPhases[i] = DisaggPhases[k])]
      BY <1>2, Zenon DEF After
    <3>2. k \in 1..7
      OBVIOUS
    <3> QED
      BY <2>3, <3>1, <3>2
  <2> QED
    BY <2>1, <2>4
<1> QED
  BY <1>1, <1>2

LEMMA RoundStep ==
    ASSUME RoundInv, [Next]_vars
    PROVE  RoundInv'
<1>1. conf' = conf /\ First' = First /\ Active' = Active
  BY DEF Next, vars, Loop, Handle, Round, Signal, Drain, HandOver, WorkerCompletion, WorkerReady,
       DecodeHandoff, Arrive, DriveFirst, DriveDecode, Drive, NextPhase, Goto, NextRound, Advance, Stop, Fail,
       ApplyScaling, First, Active
<1>2. ASSUME pc' = "failed" \/ pc' \in {pc, "completions"} \ {"handoffs", "decode", "round", "advance"},
             pc' # "failed" /\ work' # <<>> => pc' = "completions" \/ changed' = TRUE
      PROVE  RoundInv'
  BY <1>1, <1>2 DEF RoundInv
<1>3. CASE Fail
  BY <1>2, <1>3 DEF Fail
<1>4. CASE Handle
  <2>1. work # <<>> /\ changed' = changed /\ pc' \in {pc, "failed"}
    BY <1>4 DEF Handle, Signal, Drain, HandOver, Fail, clockVars
  <2> QED
    BY <1>1, <2>1 DEF RoundInv
<1>5. CASE WorkerCompletion \/ DecodeHandoff \/ Arrive \/ DriveFirst \/ DriveDecode
  <2>1. (pc' = pc /\ changed' = TRUE /\ pc # "advance") \/ Fail
    BY <1>5 DEF WorkerCompletion, DecodeHandoff, Arrive, DriveFirst, DriveDecode, Drive, At
  <2> QED
    BY <1>1, <1>3, <2>1 DEF RoundInv
<1>6. CASE WorkerReady
  <2>1. pc = "ready" /\ pc' = pc /\ work = <<>> /\ (changed' = TRUE \/ work' = work)
    BY <1>6 DEF WorkerReady, AddReady, At
  <2> QED
    BY <1>2, <2>1
<1>7. CASE NextPhase
  <2>1. UNCHANGED <<changed, work, eng>> /\ work = <<>> /\ pc \notin {"round", "advance"}
    BY <1>7 DEF NextPhase, Goto, At
  <2>2. \A st : AllIdle(st)' <=> AllIdle(st)
    BY <2>1 DEF AllIdle
  <2>3. conf.kind \in {"agg", "disagg"}
    BY ReplayAssumption DEF RoundInv
  <2>4. CASE At("drive") /\ AllIdle(First) /\ Goto(After("drive"))
    BY <1>1, <2>1, <2>2, <2>3, <2>4, Following, Stages DEF RoundInv, At, Goto
  <2>5. CASE At("decode") /\ AllIdle("Decode") /\ Goto(After("decode"))
    BY <1>1, <2>1, <2>2, <2>3, <2>5, Following, Stages DEF RoundInv, At, Goto
  <2>6. CASE \/ At("completions") /\ Goto(After("completions"))
             \/ At("ready") /\ Goto(After("ready"))
             \/ At("handoffs") /\ Goto(After("handoffs"))
             \/ At("arrivals") /\ Goto(After("arrivals"))
    BY <1>1, <2>1, <2>3, <2>6, Following DEF RoundInv, At, Goto
  <2> QED
    BY <1>7, <2>4, <2>5, <2>6 DEF NextPhase
<1>8. CASE NextRound
  <2>1. \A st : AllIdle(st)' <=> AllIdle(st)
    BY <1>8 DEF NextRound, AllIdle
  <2> QED
    BY <1>1, <1>8, <2>1, Stages DEF NextRound, At, RoundInv
<1>9. CASE Advance \/ Stop
  BY <1>1, <1>2, <1>3, <1>9 DEF Advance, Stop, At, Goto, RoundInv
<1>10. CASE ApplyScaling
  BY <1>2, <1>10 DEF ApplyScaling
<1>11. CASE UNCHANGED vars
  <2>1. UNCHANGED <<pc, changed, work, eng>>
    BY <1>11 DEF vars, clockVars
  <2>2. \A st : AllIdle(st)' <=> AllIdle(st)
    BY <2>1 DEF AllIdle
  <2> QED
    BY <1>1, <2>1, <2>2 DEF RoundInv
<1> QED
  BY <1>4, <1>5, <1>6, <1>7, <1>8, <1>9, <1>10, <1>11 DEF Next, Loop, Round

LEMMA ReplayInit == Init => ReplayInv
<1> SUFFICES ASSUME Init PROVE ReplayInv
  OBVIOUS
<1>1. conf \in Configs /\ conf.workers \in Nat \ {0}
  BY ReplayAssumption DEF Init
<1>2. /\ eng = [st \in Active |-> NewEngine(conf.workers)]
      /\ rt = [st \in Active |-> NewRouter(conf.workers)]
  BY DEF Init, NewAgg, NewDisagg, NewStages, Active
<1>3. LET e == NewEngine(conf.workers) IN
      EngineRecord(e) /\ Occupied(e, e.leaving) /\ ActiveIds(e) = NewRouter(conf.workers).known
  BY <1>1 DEF NewEngine, NewRouter, Worker, EngineRecord, Occupied, ActiveIds
<1>4. EngineInv /\ KnownInv
  BY <1>2, <1>3 DEF EngineInv, KnownInv, NewRouter
<1>5. RoundInv
  BY <1>1 DEF Init, RoundInv
<1> QED
  BY <1>4, <1>5 DEF ReplayInv

LEMMA ReplayStep == ReplayInv /\ [Next]_vars => ReplayInv'
<1> SUFFICES ASSUME ReplayInv, [Next]_vars PROVE ReplayInv'
  OBVIOUS
<1> USE DEF ReplayInv
<1>1. RoundInv' /\ conf \in Configs
  BY RoundStep DEF RoundInv
<1>2. ASSUME SameActive, conf' = conf PROVE ReplayInv'
  BY <1>1, <1>2, AgreementKept
<1>3. ASSUME UNCHANGED <<eng, rt, conf>> PROVE ReplayInv'
  BY <1>2, <1>3, SameEngines
<1>4. CASE Handle \/ DecodeHandoff \/ Arrive
  BY <1>2, <1>4, HandleSame DEF Handle, Signal, Drain, HandOver, DecodeHandoff, Arrive, Fail
<1>5. CASE WorkerCompletion
  BY <1>2, <1>5, CompletionSame DEF WorkerCompletion, Fail
<1>6. CASE DriveFirst
  BY <1>2, <1>6, DriveSame, Stages DEF DriveFirst, Drive
<1>7. CASE DriveDecode
  <2>1. "Decode" \in Active
    BY <1>7, Stages DEF DriveDecode, At, RoundInv
  <2> QED
    BY <1>2, <1>7, <2>1, DriveSame DEF DriveDecode, Drive
<1>8. CASE WorkerReady
  BY <1>1, <1>8, ReadyKnown
<1>9. CASE ApplyScaling
  BY <1>1, <1>9, ScalingKnown
<1>10. CASE NextPhase \/ NextRound \/ Advance \/ Stop \/ UNCHANGED vars
  BY <1>3, <1>10 DEF NextPhase, NextRound, Advance, Stop, Goto, Fail, vars
<1> QED
  BY <1>4, <1>5, <1>6, <1>7, <1>8, <1>9, <1>10 DEF Next, Loop, Round

\* The router of each stage knows exactly the workers that active_worker_ids gives,
\* and when drain_current_timestamp returns no drained worker is left and no idle
\* worker has work: for every trace, scaling and order of events.
THEOREM Router_Agrees == Spec => []RouterAgrees
<1>1. ReplayInv => RouterAgrees
  BY DEF ReplayInv, EngineInv, KnownInv, RoundInv, RouterAgrees, Settled, At, Occupied
<1> QED
  BY <1>1, ReplayInit, ReplayStep, PTL DEF Spec

-----------------------------------------------------------------------------
(* A request that was released is in one place                                *)

\* Exactly one element.
One(S) == \E x : S = {x}

\* The positions of a sequence whose entry is in H; and f has the only one of q.
Hits(q, H) == {k \in DOMAIN q : q[k] \in H}
Kept(q, f, H) ==
    /\ Hits(q, H) = {} => Hits(f, H) = {}
    /\ \A k : Hits(q, H) = {k} => \E l : Hits(f, H) = {l} /\ f[l] = q[k]

\* A sequence, whatever its entries are; and the entries.
Listed(q) == \E S : q \in Seq(S)
Entries(q) == {q[k] : k \in DOMAIN q}

\* The head of a sequence is taken off.
LEMMA TailHits ==
    ASSUME NEW S, NEW q \in Seq(S), q # <<>>, NEW H
    PROVE  /\ Head(q) \notin H => Kept(q, Tail(q), H)
           /\ Head(q) \in H /\ One(Hits(q, H)) => Hits(q, H) = {1} /\ Hits(Tail(q), H) = {}
<1>1. /\ Len(q) \in Nat \ {0} /\ DOMAIN q = 1..Len(q) /\ DOMAIN Tail(q) = 1..(Len(q) - 1) /\ Head(q) = q[1]
      /\ \A k \in 1..(Len(q) - 1) : Tail(q)[k] = q[k + 1]
  OBVIOUS
<1>2. \A k : k \in Hits(Tail(q), H) <=> k \in 1..(Len(q) - 1) /\ q[k + 1] \in H
  BY <1>1 DEF Hits
<1>3. \A k : k \in Hits(q, H) <=> k \in 1..Len(q) /\ q[k] \in H
  BY <1>1 DEF Hits
<1> DEFINE A == Hits(q, H)  B == Hits(Tail(q), H)
<1>4. ASSUME Head(q) \notin H, A = {} PROVE B = {}
  BY <1>1, <1>2, <1>3, <1>4
<1>5. ASSUME Head(q) \notin H, NEW k, A = {k} PROVE B = {k - 1} /\ Tail(q)[k - 1] = q[k]
  <2>1. k \in 2..Len(q) /\ q[k] \in H /\ \A l \in 1..Len(q) : q[l] \in H => l = k
    BY <1>1, <1>3, <1>5
  <2>2. k - 1 \in B /\ \A l \in B : l = k - 1
    BY <1>1, <1>2, <2>1
  <2> QED
    BY <1>1, <2>1, <2>2
<1>6. ASSUME Head(q) \in H, NEW k, A = {k} PROVE A = {1} /\ B = {}
  <2>1. 1 \in A
    BY <1>1, <1>3, <1>6
  <2>2. k = 1 /\ \A l \in 1..Len(q) : q[l] \in H => l = 1
    BY <1>3, <1>6, <2>1
  <2>3. \A l : l \notin B
    BY <1>1, <1>2, <2>2
  <2> QED
    BY <1>6, <2>2, <2>3
<1> QED
  BY <1>4, <1>5, <1>6 DEF Kept, One

\* xs inserted after the n-th entry of q.
Spliced(q, n, xs) == SubSeq(q, 1, n) \o xs \o SubSeq(q, n + 1, Len(q))

\* Entries are inserted at any place.
LEMMA InsertHits ==
    ASSUME NEW S, NEW q \in Seq(S), NEW xs \in Seq(S), NEW n \in 0..Len(q), NEW H, NEW f,
           f = Spliced(q, n, xs)
    PROVE  /\ f \in Seq(S)
           /\ Entries(f) \subseteq Entries(q) \cup Entries(xs)
           /\ Hits(xs, H) = {} => Kept(q, f, H)
           /\ Hits(q, H) = {} => Kept(xs, f, H)
<1> DEFINE m == Len(xs)  L == Len(q)
<1>1. m \in Nat /\ L \in Nat /\ n \in Nat /\ n <= L /\ DOMAIN q = 1..L /\ DOMAIN xs = 1..m
  OBVIOUS
<1>2. /\ SubSeq(q, 1, n) \in Seq(S) /\ Len(SubSeq(q, 1, n)) = n
      /\ \A k \in 1..n : SubSeq(q, 1, n)[k] = q[k]
  OBVIOUS
<1>3. /\ SubSeq(q, n + 1, L) \in Seq(S) /\ Len(SubSeq(q, n + 1, L)) = L - n
      /\ \A k \in 1..(L - n) : SubSeq(q, n + 1, L)[k] = q[n + k]
  <2>1. n + 1 \in Int /\ L \in Int /\ \A i \in (n + 1)..L : q[i] \in S
    BY <1>1
  <2>2. /\ SubSeq(q, n + 1, L) \in Seq(S)
        /\ Len(SubSeq(q, n + 1, L)) = IF n + 1 <= L THEN L - (n + 1) + 1 ELSE 0
        /\ \A i \in 1..(L - (n + 1) + 1) : SubSeq(q, n + 1, L)[i] = q[n + 1 + i - 1]
    <3> HIDE DEF L
    <3> QED
      BY <2>1, SubSeqProperties
  <2>3. L - (n + 1) + 1 = L - n /\ \A i \in Int : n + 1 + i - 1 = n + i
    BY <1>1
  <2> HIDE DEF L
  <2> QED
    BY <1>1, <2>2, <2>3
<1> DEFINE a == SubSeq(q, 1, n)  b == SubSeq(q, n + 1, L)
<1> HIDE DEF a, b
<1>4. /\ f = (a \o xs) \o b /\ a \in Seq(S) /\ b \in Seq(S) /\ Len(a) = n /\ Len(b) = L - n
      /\ \A k \in 1..n : a[k] = q[k]
      /\ \A k \in 1..(L - n) : b[k] = q[n + k]
  BY <1>2, <1>3 DEF a, b, Spliced
<1>5. /\ a \o xs \in Seq(S) /\ Len(a \o xs) = n + m
      /\ \A k \in 1..(n + m) : (a \o xs)[k] = IF k <= n THEN q[k] ELSE xs[k - n]
  <2> HIDE DEF L
  <2>1. /\ a \o xs \in Seq(S) /\ Len(a \o xs) = Len(a) + Len(xs)
        /\ \A k \in 1..(Len(a) + Len(xs)) : (a \o xs)[k] = IF k <= Len(a) THEN a[k] ELSE xs[k - Len(a)]
    BY <1>4, ConcatProperties
  <2> QED
    BY <1>1, <1>4, <2>1
<1>6. /\ f \in Seq(S) /\ DOMAIN f = 1..(L + m)
      /\ \A k \in 1..n : f[k] = q[k]
      /\ \A k \in (n + 1)..(n + m) : f[k] = xs[k - n]
      /\ \A k \in (n + m + 1)..(L + m) : f[k] = q[k - m]
  <2> DEFINE c == a \o xs
  <2> HIDE DEF L, m, c
  <2>1. /\ c \o b \in Seq(S) /\ Len(c \o b) = Len(c) + Len(b)
        /\ \A k \in 1..(Len(c) + Len(b)) : (c \o b)[k] = IF k <= Len(c) THEN c[k] ELSE b[k - Len(c)]
    BY <1>4, <1>5, ConcatProperties DEF c
  <2>2. /\ f = c \o b /\ Len(c) = n + m /\ Len(b) = L - n
        /\ \A k \in 1..(n + m) : c[k] = IF k <= n THEN q[k] ELSE xs[k - n]
    BY <1>4, <1>5 DEF c
  <2>0. Len(c) + Len(b) = L + m
    BY <1>1, <2>2
  <2>3. f \in Seq(S) /\ DOMAIN f = 1..(L + m)
    <3>1. f \in Seq(S) /\ Len(f) = L + m
      BY <2>0, <2>1, <2>2, Zenon
    <3>2. DOMAIN f = 1..Len(f)
      BY <3>1, LenProperties, Zenon
    <3> QED
      BY <3>1, <3>2, Zenon
  <2>4. ASSUME NEW k \in 1..(L + m) PROVE f[k] = IF k <= n + m THEN c[k] ELSE b[k - (n + m)]
    BY <2>0, <2>1, <2>2
  <2>5. ASSUME NEW k \in (n + m + 1)..(L + m) PROVE f[k] = q[k - m]
    <3>1. k - (n + m) \in 1..(L - n) /\ n + (k - (n + m)) = k - m /\ ~(k <= n + m) /\ k \in 1..(L + m)
      BY <1>1
    <3> QED
      BY <1>4, <2>4, <3>1
  <2>6. ASSUME NEW k \in 1..n PROVE f[k] = q[k]
    BY <1>1, <2>2, <2>4
  <2>7. ASSUME NEW k \in (n + 1)..(n + m) PROVE f[k] = xs[k - n]
    <3>1. k \in 1..(L + m) /\ k <= n + m /\ ~(k <= n) /\ k \in 1..(n + m)
      BY <1>1
    <3> QED
      BY <2>2, <2>4, <3>1
  <2> QED
    BY <2>3, <2>5, <2>6, <2>7
<1> HIDE DEF m, L
<1>7. Entries(f) \subseteq Entries(q) \cup Entries(xs)
  <2>1. ASSUME NEW k \in DOMAIN f
        PROVE  (\E l \in DOMAIN q : f[k] = q[l]) \/ \E l \in DOMAIN xs : f[k] = xs[l]
    <3>1. CASE k \in 1..n
      BY <1>1, <1>6, <3>1
    <3>2. CASE k \in (n + 1)..(n + m)
      <4>1. k - n \in 1..m
        BY <1>1, <3>2
      <4> QED
        BY <1>1, <1>6, <3>2, <4>1
    <3>3. CASE k \in (n + m + 1)..(L + m)
      <4>1. k - m \in 1..L
        BY <1>1, <3>3
      <4> QED
        BY <1>1, <1>6, <3>3, <4>1
    <3>4. k \in 1..(L + m)
      BY <1>6
    <3>5. k \in 1..n \/ k \in (n + 1)..(n + m) \/ k \in (n + m + 1)..(L + m)
      BY <1>1, <3>4
    <3> QED
      BY <3>1, <3>2, <3>3, <3>5
  <2> QED
    BY <2>1 DEF Entries
<1>8. ASSUME Hits(xs, H) = {} PROVE Kept(q, f, H)
  <2> DEFINE h(k) == IF k <= n THEN k ELSE k + m
  <2>1. ASSUME NEW k \in 1..L PROVE h(k) \in DOMAIN f /\ f[h(k)] = q[k]
    <3>1. CASE k <= n
      <4>1. k \in 1..n /\ k \in 1..(L + m) /\ h(k) = k
        BY <1>1, <3>1
      <4> QED
        BY <1>6, <4>1
    <3>2. CASE ~(k <= n)
      <4>1. k + m \in (n + m + 1)..(L + m) /\ k + m \in 1..(L + m) /\ h(k) = k + m /\ (k + m) - m = k
        BY <1>1, <3>2
      <4> QED
        BY <1>6, <4>1
    <3> QED
      BY <3>1, <3>2
  <2>2. \A l \in DOMAIN f : f[l] \in H => \E k \in 1..L : l = h(k)
    <3>1. ASSUME NEW l \in DOMAIN f, f[l] \in H PROVE \E k \in 1..L : l = h(k)
      <4>1. CASE l <= n
        BY <1>1, <1>6, <4>1
      <4>2. CASE l \in (n + 1)..(n + m)
        <5>1. l - n \in 1..m /\ f[l] = xs[l - n]
          BY <1>1, <1>6, <4>2
        <5> QED
          BY <1>1, <1>8, <3>1, <5>1 DEF Hits
      <4>3. CASE l > n + m
        <5>1. l \in 1..(L + m)
          BY <1>6
        <5>2. l - m \in 1..L /\ l = h(l - m)
          BY <1>1, <4>3, <5>1
        <5> QED
          BY <5>2
      <4> QED
        BY <1>1, <1>6, <4>1, <4>2, <4>3
    <3> QED
      BY <3>1
  <2> HIDE DEF h
  <2>3. Hits(q, H) = {} => Hits(f, H) = {}
    BY <1>1, <2>1, <2>2 DEF Hits
  <2>4. ASSUME NEW k, Hits(q, H) = {k} PROVE Hits(f, H) = {h(k)} /\ f[h(k)] = q[k]
    <3>1. k \in 1..L /\ q[k] \in H /\ \A l \in 1..L : q[l] \in H => l = k
      BY <1>1, <2>4 DEF Hits
    <3> QED
      BY <2>1, <2>2, <3>1 DEF Hits
  <2> QED
    BY <2>3, <2>4 DEF Kept
<1>9. ASSUME Hits(q, H) = {} PROVE Kept(xs, f, H)
  <2>1. \A k \in 1..m : n + k \in DOMAIN f /\ f[n + k] = xs[k]
    BY <1>1, <1>6
  <2>2. ASSUME NEW l \in DOMAIN f, f[l] \in H PROVE \E k \in 1..m : l = n + k
    <3>1. \A k \in 1..L : q[k] \notin H
      BY <1>1, <1>9 DEF Hits
    <3>2. ~(l \in 1..n)
      BY <1>1, <1>6, <2>2, <3>1
    <3>3. ~(l \in (n + m + 1)..(L + m))
      <4>1. ASSUME l \in (n + m + 1)..(L + m) PROVE FALSE
        <5>1. l - m \in 1..L /\ f[l] = q[l - m]
          BY <1>1, <1>6, <4>1
        <5> QED
          BY <2>2, <3>1, <5>1
      <4> QED
        BY <4>1
    <3>0. l \in 1..(L + m)
      BY <1>6
    <3>4. l - n \in 1..m /\ l = n + (l - n)
      BY <1>1, <3>0, <3>2, <3>3
    <3> QED
      BY <3>4
  <2>3. Hits(xs, H) = {} => Hits(f, H) = {}
    BY <1>1, <2>1, <2>2 DEF Hits
  <2>4. ASSUME NEW k, Hits(xs, H) = {k} PROVE Hits(f, H) = {n + k} /\ f[n + k] = xs[k]
    <3>1. k \in 1..m /\ xs[k] \in H /\ \A l \in 1..m : xs[l] \in H => l = k
      BY <1>1, <2>4 DEF Hits
    <3> QED
      BY <2>1, <2>2, <3>1 DEF Hits
  <2> QED
    BY <2>3, <2>4 DEF Kept
<1> QED
  BY <1>6, <1>7, <1>8, <1>9

\* But for entries of X, f has what q has, in other positions.
Evolves(q, f, X) ==
    /\ Listed(f) /\ Entries(f) \subseteq Entries(q) \cup X
    /\ \A H : H \cap X = {} => Kept(q, f, H)

\* A sequence is a sequence of its entries.
LEMMA ListedEntries ==
    ASSUME NEW q, Listed(q)
    PROVE  q \in Seq(Entries(q))
<1>1. PICK S : q \in Seq(S)
  BY DEF Listed
<1>2. Len(q) \in Nat /\ DOMAIN q = 1..Len(q) /\ q = [k \in 1..Len(q) |-> q[k]]
  BY <1>1
<1>3. q \in [1..Len(q) -> Entries(q)]
  BY <1>2 DEF Entries
<1> QED
  BY <1>2, <1>3, SeqDef

\* Two sequences are sequences over one set.
LEMMA BothListed ==
    ASSUME NEW q, NEW f, Listed(q), Listed(f)
    PROVE  q \in Seq(Entries(q) \cup Entries(f)) /\ f \in Seq(Entries(q) \cup Entries(f))
<1>1. q \in Seq(Entries(q)) /\ f \in Seq(Entries(f))
  BY ListedEntries
<1>2. ASSUME NEW A, NEW B, A \subseteq B, NEW g \in Seq(A) PROVE g \in Seq(B)
  BY <1>2
<1> QED
  BY <1>1, <1>2

\* Popping an entry (BinaryHeap::pop, VecDeque::pop_front) disturbs that entry alone.
LEMMA Popped ==
    ASSUME NEW q, Listed(q), q # <<>>
    PROVE  /\ Evolves(q, Tail(q), {Head(q)}) /\ Head(q) \in Entries(q) /\ Entries(Tail(q)) \subseteq Entries(q)
           /\ \A H : Head(q) \in H /\ One(Hits(q, H)) => Hits(q, H) = {1} /\ Hits(Tail(q), H) = {}
<1>1. PICK S : q \in Seq(S)
  BY DEF Listed
<1>2. /\ Tail(q) \in Seq(S) /\ DOMAIN Tail(q) = 1..(Len(q) - 1) /\ DOMAIN q = 1..Len(q) /\ Len(q) \in Nat \ {0}
      /\ Head(q) = q[1] /\ \A k \in 1..(Len(q) - 1) : Tail(q)[k] = q[k + 1]
  BY <1>1
<1>3. Head(q) \in Entries(q) /\ Entries(Tail(q)) \subseteq Entries(q)
  BY <1>2 DEF Entries
<1>4. Listed(Tail(q))
  BY <1>2 DEF Listed
<1> QED
  BY <1>1, <1>3, <1>4, TailHits DEF Evolves

\* When the popped entry was the only one in H, none is left.
LEMMA PoppedHead ==
    ASSUME NEW q, Listed(q), q # <<>>, NEW H, Head(q) \in H, One(Hits(q, H))
    PROVE  Hits(q, H) = {1} /\ Hits(Tail(q), H) = {}
BY Popped, Zenon

\* What is left after a pop was there.
LEMMA PoppedEntries ==
    ASSUME NEW q, Listed(q), q # <<>>
    PROVE  Head(q) \in Entries(q) /\ \A k \in DOMAIN Tail(q) : Tail(q)[k] \in Entries(q)
<1>1. Head(q) \in Entries(q) /\ Entries(Tail(q)) \subseteq Entries(q)
  BY Popped, Zenon
<1>2. \A k \in DOMAIN Tail(q) : Tail(q)[k] \in Entries(Tail(q))
  BY DEF Entries
<1> QED
  BY <1>1, <1>2, Zenon

\* Inserting into a sorted sequence disturbs the inserted entries alone.
LEMMA InsertedEvolves ==
    ASSUME NEW q, NEW xs, Listed(q), Listed(xs), NEW ahead, ahead \subseteq DOMAIN q
    PROVE  /\ Evolves(q, Inserted(q, xs, ahead), Entries(xs))
           /\ \A H : Hits(q, H) = {} => Kept(xs, Inserted(q, xs, ahead), H)
<1> DEFINE S == Entries(q) \cup Entries(xs)
           n == Cardinality(ahead)
           f == Inserted(q, xs, ahead)
<1>1. q \in Seq(S) /\ xs \in Seq(S)
  BY BothListed
<1> HIDE DEF S
<1>2. n \in 0..Len(q)
  <2>1. DOMAIN q = 1..Len(q) /\ Len(q) \in Nat
    BY <1>1
  <2>2. IsFiniteSet(1..Len(q)) /\ Cardinality(1..Len(q)) = Len(q)
    BY <2>1, FS_Interval
  <2>3. IsFiniteSet(ahead) /\ n <= Len(q)
    BY <2>1, <2>2, FS_Subset
  <2> QED
    BY <2>1, <2>3, FS_CardinalityType
<1>3. f = Spliced(q, n, xs)
  BY DEF Inserted, Spliced
<1> HIDE DEF f, n
<1>4. ASSUME NEW H
      PROVE  /\ f \in Seq(S)
             /\ Entries(f) \subseteq Entries(q) \cup Entries(xs)
             /\ Hits(xs, H) = {} => Kept(q, f, H)
             /\ Hits(q, H) = {} => Kept(xs, f, H)
  BY <1>1, <1>2, <1>3, InsertHits
<1>5. Listed(f) /\ Entries(f) \subseteq Entries(q) \cup Entries(xs)
  BY <1>4 DEF Listed
<1>6. ASSUME NEW H, H \cap Entries(xs) = {} PROVE Hits(xs, H) = {}
  BY <1>6 DEF Hits, Entries
<1>7. Evolves(q, f, Entries(xs)) /\ \A H : Hits(q, H) = {} => Kept(xs, f, H)
  BY <1>4, <1>5, <1>6 DEF Evolves
<1> QED
  BY <1>7 DEF f

\* In front of q.
LEMMA PrefixEvolves ==
    ASSUME NEW q, NEW xs, Listed(q), Listed(xs)
    PROVE  /\ Evolves(q, xs \o q, Entries(xs))
           /\ \A H : Hits(q, H) = {} => Kept(xs, xs \o q, H)
<1>1. q \in Seq(Entries(q) \cup Entries(xs)) /\ xs \in Seq(Entries(q) \cup Entries(xs))
  BY BothListed
<1>2. Inserted(q, xs, {}) = xs \o q
  <2>1. SubSeq(q, 1, Len(q)) = q /\ <<>> \o xs = xs
    BY <1>1, SubSeqFull, ConcatEmptySeq
  <2>4. SubSeq(q, 1, 0) = <<>>
    <3>1. 1 \in Int /\ 0 \in Int /\ 0 < 1
      OBVIOUS
    <3> QED
      BY <3>1, SubSeqEmpty
  <2>2. Cardinality({}) = 0
    BY FS_EmptySet
  <2>3. Inserted(q, xs, {}) = SubSeq(q, 1, 0) \o xs \o SubSeq(q, 0 + 1, Len(q))
    BY <2>2 DEF Inserted
  <2> QED
    <3>1. 0 + 1 = 1
      OBVIOUS
    <3> QED
      BY <2>1, <2>3, <2>4, <3>1, Zenon
<1>3. {} \subseteq DOMAIN q
  OBVIOUS
<1> QED
  BY <1>2, <1>3, InsertedEvolves

-----------------------------------------------------------------------------
\* None stays none and one stays one.
Stays(A, B) == (A = {} => B = {}) /\ (One(A) => One(B))

\* The events that hold a request, and the work in hand that carries it.
HeapOf(q, r) == {k \in DOMAIN q : Holds(q[k], r)}
HandOf(q, r) == {k \in DOMAIN q : Carries(q[k], r)}

\* An event is the completion of the pass of worker i; and the positions of these.
Completes(e, st, i) == e.kind = "completion" /\ e.st = st /\ e.worker = i
Coming(q, st, i) == {k \in DOMAIN q : Completes(q[k], st, i)}

\* in_flight and busy of a worker, by what is scheduled in q.
Exact(w, q, st, i) ==
    IF w.busy THEN \E k : /\ Coming(q, st, i) = {k}
                          /\ w.in_flight = Cardinality(DOMAIN w.core) + Done(q[k].signals)
    ELSE Coming(q, st, i) = {} /\ w.in_flight = Cardinality(DOMAIN w.core)

\* What is kept stays.
LEMMA KeptStays ==
    ASSUME NEW q, NEW f, NEW H, Kept(q, f, H)
    PROVE  Stays(Hits(q, H), Hits(f, H))
BY DEF Kept, Stays, One

\* A request that no changed event holds stays where it is in the heap.
LEMMA HeapStays ==
    ASSUME NEW q, NEW f, NEW X, Evolves(q, f, X), NEW r, \A x \in X : ~Holds(x, r)
    PROVE  Stays(HeapOf(q, r), HeapOf(f, r))
<1> DEFINE H == {e \in Entries(q) : Holds(e, r)}
<1>1. HeapOf(q, r) = Hits(q, H)
  BY DEF HeapOf, Hits, Entries
<1>2. HeapOf(f, r) = Hits(f, H)
  <2>1. \A k \in DOMAIN f : f[k] \in Entries(q) \cup X
    BY DEF Evolves, Entries
  <2> QED
    BY <2>1 DEF HeapOf, Hits
<1>3. H \cap X = {}
  OBVIOUS
<1> HIDE DEF H
<1>4. Kept(q, f, H)
  BY <1>3 DEF Evolves
<1> QED
  BY <1>1, <1>2, <1>4, KeptStays

\* A request that no changed piece of work carries stays where it is in hand.
LEMMA HandStays ==
    ASSUME NEW q, NEW f, NEW X, Evolves(q, f, X), NEW r, \A x \in X : ~Carries(x, r)
    PROVE  Stays(HandOf(q, r), HandOf(f, r))
<1> DEFINE H == {e \in Entries(q) : Carries(e, r)}
<1>1. HandOf(q, r) = Hits(q, H)
  BY DEF HandOf, Hits, Entries
<1>2. HandOf(f, r) = Hits(f, H)
  <2>1. \A k \in DOMAIN f : f[k] \in Entries(q) \cup X
    BY DEF Evolves, Entries
  <2> QED
    BY <2>1 DEF HandOf, Hits
<1>3. H \cap X = {}
  OBVIOUS
<1> HIDE DEF H
<1>4. Kept(q, f, H)
  BY <1>3 DEF Evolves
<1> QED
  BY <1>1, <1>2, <1>4, KeptStays

\* A worker whose completion is not touched stays exact.
LEMMA ExactStays ==
    ASSUME NEW q, NEW f, NEW X, Evolves(q, f, X), NEW st, NEW i, \A x \in X : ~Completes(x, st, i),
           NEW w, Exact(w, q, st, i)
    PROVE  Exact(w, f, st, i)
<1> DEFINE H == {e \in Entries(q) : Completes(e, st, i)}
<1>1. Coming(q, st, i) = Hits(q, H)
  BY DEF Coming, Hits, Entries
<1>2. Coming(f, st, i) = Hits(f, H)
  <2>1. \A k \in DOMAIN f : f[k] \in Entries(q) \cup X
    BY DEF Evolves, Entries
  <2> QED
    BY <2>1 DEF Coming, Hits
<1>3. H \cap X = {}
  OBVIOUS
<1> HIDE DEF H
<1>4. Kept(q, f, H)
  BY <1>3 DEF Evolves
<1> QED
  BY <1>1, <1>2, <1>4 DEF Kept, Exact

\* A request leaves the heap with the one event that holds it.
LEMMA HeapLeaves ==
    ASSUME NEW q, Listed(q), q # <<>>, NEW r, Holds(Head(q), r), One(HeapOf(q, r))
    PROVE  HeapOf(Tail(q), r) = {}
<1> DEFINE H == {e \in Entries(q) : Holds(e, r)}
<1>1. HeapOf(q, r) = Hits(q, H)
  BY DEF HeapOf, Hits, Entries
<1>2. HeapOf(Tail(q), r) = Hits(Tail(q), H)
  <2>1. \A k \in DOMAIN Tail(q) : Tail(q)[k] \in Entries(q)
    BY PoppedEntries
  <2> QED
    BY <2>1 DEF HeapOf, Hits
<1>3. Head(q) \in H
  BY PoppedEntries
<1> HIDE DEF H
<1> QED
  BY <1>1, <1>2, <1>3, PoppedHead, Zenon

\* A request leaves the work in hand with the one piece that carries it.
LEMMA HandLeaves ==
    ASSUME NEW q, Listed(q), q # <<>>, NEW r, Carries(Head(q), r), One(HandOf(q, r))
    PROVE  HandOf(q, r) = {1} /\ HandOf(Tail(q), r) = {}
<1> DEFINE H == {e \in Entries(q) : Carries(e, r)}
<1>1. HandOf(q, r) = Hits(q, H)
  BY DEF HandOf, Hits, Entries
<1>2. HandOf(Tail(q), r) = Hits(Tail(q), H)
  <2>1. \A k \in DOMAIN Tail(q) : Tail(q)[k] \in Entries(q)
    BY PoppedEntries
  <2> QED
    BY <2>1 DEF HandOf, Hits
<1>3. Head(q) \in H
  BY PoppedEntries
<1> HIDE DEF H
<1> QED
  BY <1>1, <1>2, <1>3, PoppedHead, Zenon

\* The one completion of a worker is popped.
LEMMA ComingLeaves ==
    ASSUME NEW q, Listed(q), q # <<>>, NEW st, NEW i, Completes(Head(q), st, i), One(Coming(q, st, i))
    PROVE  Coming(q, st, i) = {1} /\ Coming(Tail(q), st, i) = {}
<1> DEFINE H == {e \in Entries(q) : Completes(e, st, i)}
<1>1. Coming(q, st, i) = Hits(q, H)
  BY DEF Coming, Hits, Entries
<1>2. Coming(Tail(q), st, i) = Hits(Tail(q), H)
  <2>1. \A k \in DOMAIN Tail(q) : Tail(q)[k] \in Entries(q)
    BY PoppedEntries
  <2> QED
    BY <2>1 DEF Coming, Hits
<1>3. Head(q) \in H
  BY PoppedEntries
<1> HIDE DEF H
<1> QED
  BY <1>1, <1>2, <1>3, PoppedHead, Zenon

\* A sequence of one entry.
LEMMA SingleHit ==
    ASSUME NEW x, NEW H, x \in H
    PROVE  /\ Listed(<<x>>) /\ Entries(<<x>>) = {x} /\ Hits(<<x>>, H) = {1} /\ <<x>>[1] = x
<1>1. <<x>> \in Seq({x}) /\ DOMAIN <<x>> = {1} /\ <<x>>[1] = x
  OBVIOUS
<1> QED
  BY <1>1 DEF Listed, Entries, Hits

\* Scheduling an event, or making a session wait, disturbs that entry alone.
LEMMA PushedEvolves ==
    ASSUME NEW q, NEW x, Listed(q)
    PROVE  Evolves(q, Pushed(q, x), {x}) /\ Evolves(q, Waiting(q, x), {x})
<1>1. Listed(<<x>>) /\ Entries(<<x>>) = {x}
  BY SingleHit
<1> QED
  BY <1>1, InsertedEvolves DEF Pushed, Waiting

\* Scheduling an event that holds a request puts it into the heap once.
LEMMA HeapEnters ==
    ASSUME NEW q, Listed(q), NEW x, NEW r, Holds(x, r), HeapOf(q, r) = {}
    PROVE  One(HeapOf(Pushed(q, x), r))
<1> DEFINE f == Pushed(q, x)
           H == {e \in Entries(q) \cup {x} : Holds(e, r)}
<1>1. HeapOf(q, r) = Hits(q, H)
  BY DEF HeapOf, Hits, Entries
<1>2. HeapOf(f, r) = Hits(f, H)
  <2>1. \A k \in DOMAIN f : f[k] \in Entries(q) \cup {x}
    BY PushedEvolves DEF Evolves, Entries
  <2> HIDE DEF f
  <2> QED
    BY <2>1 DEF HeapOf, Hits
<1>3. x \in H
  OBVIOUS
<1> HIDE DEF H
<1>4. Listed(<<x>>) /\ Hits(<<x>>, H) = {1}
  BY <1>3, SingleHit
<1>5. Kept(<<x>>, f, H)
  BY <1>1, <1>4, InsertedEvolves DEF Pushed
<1> QED
  BY <1>2, <1>4, <1>5 DEF Kept, One

\* Scheduling a completion makes it the one of its worker.
LEMMA ComingEnters ==
    ASSUME NEW q, Listed(q), NEW x, NEW st, NEW i, Completes(x, st, i), Coming(q, st, i) = {}
    PROVE  \E k : Coming(Pushed(q, x), st, i) = {k} /\ Pushed(q, x)[k] = x
<1> DEFINE f == Pushed(q, x)
           H == {e \in Entries(q) \cup {x} : Completes(e, st, i)}
<1>1. Coming(q, st, i) = Hits(q, H)
  BY DEF Coming, Hits, Entries
<1>2. Coming(f, st, i) = Hits(f, H)
  <2>1. \A k \in DOMAIN f : f[k] \in Entries(q) \cup {x}
    BY PushedEvolves DEF Evolves, Entries
  <2> HIDE DEF f
  <2> QED
    BY <2>1 DEF Coming, Hits
<1>3. x \in H
  OBVIOUS
<1> HIDE DEF H
<1>4. Listed(<<x>>) /\ Hits(<<x>>, H) = {1} /\ <<x>>[1] = x
  BY <1>3, SingleHit
<1>5. Kept(<<x>>, f, H)
  BY <1>1, <1>4, InsertedEvolves DEF Pushed
<1> HIDE DEF f
<1>6. \E l : Hits(f, H) = {l} /\ f[l] = <<x>>[1]
  BY <1>4, <1>5 DEF Kept
<1> QED
  BY <1>2, <1>4, <1>6 DEF f

-----------------------------------------------------------------------------
(* The round robin finds a worker                                             *)

\* Every set of naturals that is not empty has a least member: induction on them
\* without a predicate as a parameter.
LEMMA Least ==
    ASSUME NEW T, T \subseteq Nat, T # {}
    PROVE  \E x \in T : \A y \in T : x <= y
<1> DEFINE R == OpToRel(<, Nat)
<1>1. IsWellFoundedOn(R, Nat)
  BY NatLessThanWellFounded, Zenon
<1>2. PICK x \in T : \A y \in T : ~(<<y, x>> \in R)
  <2> HIDE DEF R
  <2> QED
    BY <1>1, WFMin
<1>3. \A y \in T : ~(y < x)
  BY <1>2 DEF OpToRel
<1> QED
  BY <1>3

\* A finite set of ids has a member of every rank.
LEMMA Rank ==
    ASSUME NEW T, IsFiniteSet(T), T \subseteq Nat, NEW k \in Nat, k < Cardinality(T)
    PROVE  \E x \in T : Cardinality({y \in T : y < x}) = k
<1> DEFINE Ranked(n) == \E x \in T : Cardinality({y \in T : y < x}) = n
           B == {n \in Nat : n < Cardinality(T) /\ ~Ranked(n)}
<1>1. SUFFICES ASSUME B # {} PROVE FALSE
  OBVIOUS
<1>2. PICK n \in B : \A m \in B : n <= m
  BY <1>1, Least
<1>3. Cardinality(T) \in Nat /\ n \in Nat /\ n < Cardinality(T) /\ ~Ranked(n)
  BY FS_CardinalityType
<1>4. CASE n = 0
  <2>1. T # {}
    BY <1>3, <1>4, FS_EmptySet
  <2>2. PICK x \in T : \A y \in T : x <= y
    BY <2>1, Least
  <2>3. {y \in T : y < x} = {}
    <3>1. \A y \in T : y \in Nat /\ x \in Nat /\ x <= y
      BY <2>2
    <3>2. \A y \in T : ~(y < x)
      BY <3>1
    <3> QED
      BY <3>2
  <2>4. Cardinality({y \in T : y < x}) = 0
    BY <2>3, FS_EmptySet
  <2> QED
    BY <1>3, <1>4, <2>4
<1>5. CASE n # 0
  <2>1. n - 1 \in Nat /\ n - 1 < Cardinality(T) /\ ~(n <= n - 1)
    BY <1>3, <1>5
  <2>2. Ranked(n - 1)
    BY <1>2, <2>1
  <2>3. PICK x \in T : Cardinality({y \in T : y < x}) = n - 1
    BY <2>2
  <2> DEFINE A == {y \in T : y < x}  C == T \ (A \cup {x})
  <2>4. IsFiniteSet(A) /\ x \notin A
    <3>1. x \notin A /\ A \in SUBSET T
      OBVIOUS
    <3> QED
      BY <3>1, FS_Subset
  <2>5. IsFiniteSet(A \cup {x}) /\ Cardinality(A \cup {x}) = n
    <3>1. IsFiniteSet(A \cup {x}) /\ Cardinality(A \cup {x}) = Cardinality(A) + 1
      BY <2>4, FS_AddElement
    <3> QED
      BY <1>3, <2>3, <3>1
  <2>6. C # {}
    <3>1. ASSUME C = {} PROVE FALSE
      <4>1. T = A \cup {x}
        BY <3>1
      <4> QED
        BY <1>3, <2>5, <4>1
    <3> QED
      BY <3>1
  <2>7. PICK z \in C : \A y \in C : z <= y
    BY <2>6, Least
  <2>8. {y \in T : y < z} = A \cup {x}
    <3>1. z \in T /\ x < z
      BY <2>7
    <3>2. ASSUME NEW y \in T, y < z PROVE y \in A \cup {x}
      <4>1. y \notin C
        BY <2>7, <3>2
      <4> QED
        BY <4>1
    <3>3. ASSUME NEW y \in A \cup {x} PROVE y \in T /\ y < z
      BY <3>1
    <3> QED
      BY <3>2, <3>3
  <2> QED
    BY <1>3, <2>5, <2>7, <2>8
<1> QED
  BY <1>4, <1>5

-----------------------------------------------------------------------------
(* What the operations of the engine do to the workers                        *)

\* EngineComponent::dispatch adds one request to the core of one worker.
LEMMA DispatchedWorkers ==
    ASSUME NEW e, EngineRecord(e), NEW i \in DOMAIN e.workers, NEW r, NEW n
    PROVE  LET f == Dispatched(e, i, r, n)  w == e.workers[i]  v == f.workers[i] IN
           /\ DOMAIN f.workers = DOMAIN e.workers /\ f.starting = e.starting
           /\ \A j \in DOMAIN e.workers : j # i => f.workers[j] = e.workers[j]
           /\ v.busy = w.busy /\ v.in_flight = w.in_flight + 1 /\ DOMAIN v.core = DOMAIN w.core \cup {r}
BY DEF Dispatched, EngineRecord

\* The empty sequence as the empty function.
LEMMA NoneEmpty == \A f : f = <<>> => DOMAIN f = {}
OBVIOUS

\* on_scheduled_completion frees one worker, and only drained workers are removed.
LEMMA CompletedWorkers ==
    ASSUME NEW e, EngineRecord(e), NEW i \in DOMAIN e.workers, NEW n
    PROVE  LET f == Completed(e, i, n)  w == e.workers[i]  v == f.workers[i] IN
           /\ DOMAIN f.workers \subseteq DOMAIN e.workers /\ f.starting = e.starting
           /\ \A j \in DOMAIN f.workers : j # i => f.workers[j] = e.workers[j]
           /\ i \in DOMAIN f.workers =>
                /\ ~v.busy /\ v.core = w.core
                /\ v.in_flight = IF w.in_flight < n THEN 0 ELSE w.in_flight - n
           /\ \A j \in DOMAIN e.workers \ DOMAIN f.workers :
                /\ DOMAIN e.workers[j].core = {} /\ j \in e.leaving
                /\ j # i => ~e.workers[j].busy
<1> DEFINE w == e.workers[i]
           m == IF w.in_flight < n THEN 0 ELSE w.in_flight - n
           g == [e EXCEPT !.workers[i].busy = FALSE, !.workers[i].in_flight = m]
           h == RemoveDrained(g)
           f == Completed(e, i, n)
<1>1. f = IF i \in e.leaving THEN h ELSE g
  BY DEF Completed
<1> HIDE DEF m
<1>2. /\ DOMAIN g.workers = DOMAIN e.workers /\ g.starting = e.starting /\ g.leaving = e.leaving
      /\ \A j \in DOMAIN e.workers : j # i => g.workers[j] = e.workers[j]
      /\ ~g.workers[i].busy /\ g.workers[i].core = w.core /\ g.workers[i].in_flight = m
      /\ DOMAIN g = DOMAIN e
  BY DEF EngineRecord
<1> HIDE DEF g
<1> DEFINE gone == {j \in g.leaving : Drained(g.workers[j])}
<1>3. /\ DOMAIN h.workers = DOMAIN g.workers \ gone /\ h.starting = g.starting
      /\ \A j \in DOMAIN h.workers : h.workers[j] = g.workers[j]
  BY <1>2 DEF RemoveDrained, EngineRecord
<1>4. ASSUME NEW j \in gone PROVE j \in e.leaving /\ DOMAIN g.workers[j].core = {} /\ ~g.workers[j].busy
  BY <1>2, NoneEmpty DEF Drained
<1> HIDE DEF gone, h, f
<1>5. CASE i \in e.leaving
  <2>1. f = h
    BY <1>1, <1>5
  <2>2. DOMAIN e.workers \ DOMAIN f.workers \subseteq gone
    BY <1>2, <1>3, <2>1
  <2>3. ASSUME NEW j \in DOMAIN e.workers \ DOMAIN f.workers
        PROVE  j \in e.leaving /\ DOMAIN e.workers[j].core = {} /\ (j # i => ~e.workers[j].busy)
    BY <1>2, <1>4, <2>2
  <2> QED
    BY <1>2, <1>3, <2>1, <2>3 DEF f, m
<1>6. CASE i \notin e.leaving
  BY <1>1, <1>2, <1>6 DEF f, m
<1> QED
  BY <1>5, <1>6

\* apply_target_count adds fresh workers and removes only idle ones.
LEMMA TargetWorkers ==
    ASSUME NEW e, NEW target \in Nat, EngineRecord(e)
    PROVE  LET f == ApplyTarget(e, target).e IN
           /\ \A j \in DOMAIN f.workers :
                IF j \in DOMAIN e.workers THEN f.workers[j] = e.workers[j] ELSE f.workers[j] = Worker
           /\ \A j \in f.starting : j \in DOMAIN e.workers => j \in e.starting
           /\ \A j \in DOMAIN e.workers \ DOMAIN f.workers :
                j \in e.starting \/ (DOMAIN e.workers[j].core = {} /\ ~e.workers[j].busy)
<1> DEFINE effective == Cardinality(ActiveIds(e)) + Cardinality(e.starting)
           added     == IF target > effective THEN e.next..(e.next + target - effective - 1) ELSE {}
           excess    == IF target < effective THEN effective - target ELSE 0
           cancelled == Largest(e.starting, excess)
           mark      == Largest(ActiveIds(e), excess - Cardinality(cancelled))
           slow      == IF conf.startup > 0 THEN added ELSE {}
           g == [workers  |-> [i \in (DOMAIN e.workers \ cancelled) \cup added |->
                                  IF i \in added THEN Worker ELSE e.workers[i]],
                 leaving  |-> e.leaving \cup mark,
                 starting |-> (e.starting \ cancelled) \cup slow,
                 next     |-> e.next + Cardinality(added)]
           f == RemoveDrained(g)
<1>1. ApplyTarget(e, target).e = f
  BY DEF ApplyTarget
<1>2. /\ cancelled \subseteq e.starting /\ mark \subseteq ActiveIds(e) /\ slow \subseteq added
  BY DEF Largest
<1>3. added \cap DOMAIN e.workers = {}
  BY DEF EngineRecord
<1> HIDE DEF added, cancelled, mark, slow
<1>4. /\ DOMAIN g.workers = (DOMAIN e.workers \ cancelled) \cup added
      /\ \A j \in DOMAIN g.workers : g.workers[j] = IF j \in added THEN Worker ELSE e.workers[j]
      /\ g.leaving = e.leaving \cup mark /\ g.starting = (e.starting \ cancelled) \cup slow
  OBVIOUS
<1> DEFINE gone == {j \in g.leaving : Drained(g.workers[j])}
<1>5. /\ DOMAIN f.workers = DOMAIN g.workers \ gone /\ f.starting = g.starting
      /\ \A j \in DOMAIN f.workers : f.workers[j] = g.workers[j]
  BY DEF RemoveDrained
<1> HIDE DEF g, f
<1>6. ASSUME NEW j \in gone, j \in DOMAIN e.workers \ cancelled
      PROVE  DOMAIN e.workers[j].core = {} /\ ~e.workers[j].busy
  <2>1. g.workers[j] = e.workers[j] /\ Drained(g.workers[j])
    BY <1>3, <1>4, <1>6
  <2> QED
    BY <2>1, NoneEmpty DEF Drained
<1> HIDE DEF gone
<1>7. ASSUME NEW j \in DOMAIN f.workers
      PROVE  IF j \in DOMAIN e.workers THEN f.workers[j] = e.workers[j] ELSE f.workers[j] = Worker
  BY <1>3, <1>4, <1>5
<1>8. ASSUME NEW j \in f.starting, j \in DOMAIN e.workers PROVE j \in e.starting
  BY <1>2, <1>3, <1>4, <1>5, <1>8
<1>9. ASSUME NEW j \in DOMAIN e.workers \ DOMAIN f.workers
      PROVE  j \in e.starting \/ (DOMAIN e.workers[j].core = {} /\ ~e.workers[j].busy)
  BY <1>2, <1>4, <1>5, <1>6
<1> QED
  BY <1>1, <1>7, <1>8, <1>9, Zenon

-----------------------------------------------------------------------------
(* Where the requests are                                                     *)

\* A request that was released and is not done; the cores and the queues it is in.
Live(r) == r \in DOMAIN requests /\ ~Finished(r)

CoresIn(g, r) ==
    {p \in Active \X Nat : /\ p[2] \in DOMAIN g[p[1]].workers
                           /\ r \in DOMAIN g[p[1]].workers[p[2]].core}
QueuesIn(q, r) == {st \in Active : r \in q[st].pending}

\* One of four sets has one element and the others have none.
Whole(A, B, C, D) ==
    \/ One(A) /\ B = {} /\ C = {} /\ D = {}
    \/ A = {} /\ One(B) /\ C = {} /\ D = {}
    \/ A = {} /\ B = {} /\ One(C) /\ D = {}
    \/ A = {} /\ B = {} /\ C = {} /\ One(D)

\* A live request is in one place and any other in none.
Place(r) ==
    LET A == CoresIn(eng, r)  B == QueuesIn(rt, r)  C == HeapOf(events, r)  D == HandOf(work, r)
    IN  IF Live(r) THEN Whole(A, B, C, D) ELSE A = {} /\ B = {} /\ C = {} /\ D = {}

PlaceInv == \A r : Place(r)

\* The workers g have what the events q will complete.
Fit(g, q) ==
    \A st \in Active : \A i \in DOMAIN g[st].workers :
        /\ IsFiniteSet(DOMAIN g[st].workers[i].core) /\ Exact(g[st].workers[i], q, st, i)
        /\ i \in g[st].starting => ~g[st].workers[i].busy /\ DOMAIN g[st].workers[i].core = {}

\* The signals of a pass.
Outcomes(set) == IsFiniteSet(set) /\ \A x \in set : x.done => x = Last(x.r)

\* Completions are of workers that exist.
Heard(g, q) ==
    \A e \in Entries(q) :
        /\ e.kind \in {"completion", "ready"} => e.st \in Active
        /\ e.kind = "completion" => e.worker \in DOMAIN g[e.st].workers /\ Outcomes(e.signals)

\* What is left of an event.
Sound(q) ==
    /\ Listed(q)
    /\ \A x \in Entries(q) :
        /\ x.op \in {"signals", "drain"} => x.st \in Active
        /\ x.op = "signals" => x = [op |-> "signals", st |-> x.st, set |-> x.set] /\ Outcomes(x.set)
        /\ x.op = "handoff" => conf.kind = "disagg"

\* The entries of the ready heap of a session.
SessionIn(q, s) == {k \in DOMAIN q : q[k].s = s}

\* The turns of a session come one after the other.
TurnInv ==
    /\ Listed(ready) /\ DOMAIN turn = DOMAIN Sessions /\ \A s \in DOMAIN Sessions : turn[s] \in Nat
    /\ \A e \in Entries(ready) : e.s \in DOMAIN Sessions /\ e.t = turn[e.s]
    /\ \A s : SessionIn(ready, s) = {} \/ One(SessionIn(ready, s))
    /\ \A r \in DOMAIN requests :
        /\ r \in (DOMAIN Sessions) \X Nat /\ r[2] <= turn[r[1]]
        /\ r[2] = turn[r[1]] => SessionIn(ready, r[1]) = {}
        /\ Live(r) => r[2] = turn[r[1]]

\* The round-robin counter of every stage.
RotaInv == DOMAIN rr = Active /\ \A st \in Active : rr[st] \in Nat

\* The inductive invariant.
OnePlaceInv ==
    /\ ReplayInv /\ RotaInv /\ TurnInv /\ Sound(work) /\ PlaceInv
    /\ Listed(events) /\ Heard(eng, events) /\ Fit(eng, events)

\* A set stays itself.
LEMMA Same == \A S : Stays(S, S)
BY DEF Stays

\* Events other than completions leave the workers exact.
LEMMA FitStays ==
    ASSUME NEW g, NEW q, NEW f, NEW X, Evolves(q, f, X), Fit(g, q), Heard(g, q),
           \A x \in X : x.kind # "completion" /\ (x.kind = "ready" => x.st \in Active)
    PROVE  Fit(g, f) /\ Heard(g, f)
<1>1. \A st, i : \A x \in X : ~Completes(x, st, i)
  BY DEF Completes
<1>2. Fit(g, f)
  <2>1. ASSUME NEW st \in Active, NEW i \in DOMAIN g[st].workers
        PROVE  Exact(g[st].workers[i], f, st, i)
    <3>1. Exact(g[st].workers[i], q, st, i)
      BY DEF Fit
    <3> QED
      BY <1>1, <3>1, ExactStays
  <2> QED
    BY <2>1, Zenon DEF Fit
<1>3. Heard(g, f)
  BY DEF Heard, Evolves
<1> QED
  BY <1>2, <1>3

\* A worker in hand gets the request r, which no worker has.
LEMMA DispatchPlaces ==
    ASSUME EngineInv, Fit(eng, events), Heard(eng, events), NEW st \in Active, NEW r, CoresIn(eng, r) = {},
           NEW i \in ActiveIds(eng[st]), Dispatch(st, i, r)
    PROVE  /\ Fit(eng', events) /\ Heard(eng', events)
           /\ One(CoresIn(eng', r)) /\ \A x : x # r => CoresIn(eng', x) = CoresIn(eng, x)
<1> DEFINE n == OutputTokens(st, r)
           f == Dispatched(eng[st], i, r, n)
<1>1. DOMAIN eng = Active /\ EngineRecord(eng[st]) /\ i \in DOMAIN eng[st].workers /\ i \notin eng[st].starting
      /\ i \in Nat
  BY DEF EngineInv, ActiveIds, EngineRecord
<1>2. /\ eng'[st] = f /\ \A x \in Active : x # st => eng'[x] = eng[x]
  BY <1>1 DEF Dispatch
<1>3. LET w == eng[st].workers[i]  v == f.workers[i] IN
      /\ DOMAIN f.workers = DOMAIN eng[st].workers /\ f.starting = eng[st].starting
      /\ \A j \in DOMAIN eng[st].workers : j # i => f.workers[j] = eng[st].workers[j]
      /\ v.busy = w.busy /\ v.in_flight = w.in_flight + 1 /\ DOMAIN v.core = DOMAIN w.core \cup {r}
  BY <1>1, DispatchedWorkers
<1> HIDE DEF f, n
<1>4. \A x \in Active : DOMAIN eng'[x].workers = DOMAIN eng[x].workers /\ eng'[x].starting = eng[x].starting
  BY <1>2, <1>3
<1>5. Heard(eng', events)
  BY <1>4 DEF Heard
<1>6. r \notin DOMAIN eng[st].workers[i].core
  <2>1. <<st, i>> \in Active \X Nat /\ <<st, i>> \notin CoresIn(eng, r) /\ <<st, i>>[1] = st /\ <<st, i>>[2] = i
    BY <1>1
  <2> QED
    BY <1>1, <2>1, Zenon DEF CoresIn
<1>7. ASSUME NEW x \in Active, NEW j \in DOMAIN eng[x].workers, <<x, j>> # <<st, i>>
      PROVE  eng'[x].workers[j] = eng[x].workers[j]
  BY <1>2, <1>3, <1>7
<1>8. ASSUME NEW x PROVE CoresIn(eng', x) = CoresIn(eng, x) \cup (IF x = r THEN {<<st, i>>} ELSE {})
  <2>1. ASSUME NEW p \in Active \X Nat
        PROVE  p \in CoresIn(eng', x) <=> p \in CoresIn(eng, x) \/ (x = r /\ p = <<st, i>>)
    <3>1. PICK s \in Active, j \in Nat : p = <<s, j>>
      BY <2>1
    <3>2. CASE <<s, j>> = <<st, i>>
      BY <1>1, <1>2, <1>3, <3>1, <3>2 DEF CoresIn
    <3>3. CASE <<s, j>> # <<st, i>>
      BY <1>4, <1>7, <3>1, <3>3 DEF CoresIn
    <3> QED
      BY <3>2, <3>3
  <2>2. CoresIn(eng', x) \subseteq Active \X Nat /\ CoresIn(eng, x) \subseteq Active \X Nat
        /\ <<st, i>> \in Active \X Nat
    BY <1>1 DEF CoresIn
  <2> QED
    BY <2>1, <2>2
<1>9. One(CoresIn(eng', r)) /\ \A x : x # r => CoresIn(eng', x) = CoresIn(eng, x)
  <2>1. CoresIn(eng', r) = {<<st, i>>}
    BY <1>8
  <2>2. \A x : x # r => CoresIn(eng', x) = CoresIn(eng, x)
    BY <1>8
  <2> QED
    BY <2>1, <2>2, Zenon DEF One
<1>10. Fit(eng', events)
  <2>1. ASSUME NEW x \in Active, NEW j \in DOMAIN eng'[x].workers
        PROVE  /\ IsFiniteSet(DOMAIN eng'[x].workers[j].core) /\ Exact(eng'[x].workers[j], events, x, j)
               /\ j \in eng'[x].starting => ~eng'[x].workers[j].busy /\ DOMAIN eng'[x].workers[j].core = {}
    <3>1. CASE <<x, j>> # <<st, i>>
      BY <1>4, <1>7, <3>1 DEF Fit
    <3>2. CASE <<x, j>> = <<st, i>>
      <4> DEFINE w == eng[st].workers[i]  v == eng'[st].workers[i]
      <4>1. IsFiniteSet(DOMAIN w.core) /\ Exact(w, events, st, i)
        BY <1>1 DEF Fit
      <4>2. v.busy = w.busy /\ v.in_flight = w.in_flight + 1 /\ DOMAIN v.core = DOMAIN w.core \cup {r}
        BY <1>2, <1>3
      <4> HIDE DEF w, v
      <4>3. /\ IsFiniteSet(DOMAIN v.core) /\ Cardinality(DOMAIN v.core) = Cardinality(DOMAIN w.core) + 1
            /\ Cardinality(DOMAIN w.core) \in Nat
        BY <1>6, <4>1, <4>2, FS_AddElement, FS_CardinalityType DEF w
      <4>4. ASSUME NEW k, Coming(events, st, i) = {k} PROVE Done(events[k].signals) \in Nat
        <5>1. events[k] \in Entries(events) /\ events[k].kind = "completion"
          BY <4>4 DEF Coming, Completes, Entries
        <5>2. IsFiniteSet(events[k].signals)
          BY <5>1 DEF Heard, Outcomes
        <5>3. IsFiniteSet({y \in events[k].signals : y.done})
          BY <5>2, FS_Subset
        <5> QED
          BY <5>3, FS_CardinalityType DEF Done
      <4>5. Exact(v, events, st, i)
        <5>1. CASE w.busy
          <6>1. PICK k : /\ Coming(events, st, i) = {k}
                         /\ w.in_flight = Cardinality(DOMAIN w.core) + Done(events[k].signals)
            BY <4>1, <5>1 DEF Exact
          <6>2. v.in_flight = Cardinality(DOMAIN v.core) + Done(events[k].signals)
            BY <4>2, <4>3, <4>4, <6>1
          <6> QED
            BY <4>2, <5>1, <6>1, <6>2 DEF Exact
        <5>2. CASE ~w.busy
          BY <4>1, <4>2, <4>3, <5>2 DEF Exact
        <5> QED
          BY <5>1, <5>2
      <4>6. i \notin eng'[st].starting
        BY <1>1, <1>4
      <4> QED
        BY <3>2, <4>3, <4>5, <4>6 DEF v
    <3> QED
      BY <3>1, <3>2
  <2> QED
    BY <2>1 DEF Fit
<1> QED
  BY <1>5, <1>9, <1>10

\* Setting the phase of a request changes that request alone.
LEMMA PhaseSet ==
    ASSUME NEW r, NEW p, SetPhase(r, p)
    PROVE  /\ DOMAIN requests' = DOMAIN requests \cup {r} /\ requests'[r] = p
           /\ \A x \in DOMAIN requests : x # r => requests'[x] = requests[x]
           /\ \A x : x # r => (Live(x)' <=> Live(x))
<1>1. /\ DOMAIN requests' = DOMAIN requests \cup {r} /\ requests'[r] = p
      /\ \A x \in DOMAIN requests : x # r => requests'[x] = requests[x]
  BY DEF SetPhase
<1> QED
  BY <1>1 DEF Live, Finished

\* What a request that comes to a stage, or is taken from its queue, finds.
Arrived(r) ==
    /\ Fit(eng', events) /\ Heard(eng', events) /\ Live(r)'
    /\ \/ One(CoresIn(eng', r)) /\ QueuesIn(rt', r) = {}
       \/ CoresIn(eng', r) = {} /\ One(QueuesIn(rt', r))
    /\ \A x : x # r => /\ CoresIn(eng', x) = CoresIn(eng, x) /\ QueuesIn(rt', x) = QueuesIn(rt, x)
                       /\ Live(x)' <=> Live(x)
    /\ DOMAIN requests' = DOMAIN requests \cup {r}
    /\ \A x \in DOMAIN requests : x # r => requests'[x] = requests[x]

\* A dispatched request is live, and no other request changes.
LEMMA DispatchLive ==
    ASSUME NEW st, NEW i, NEW r, Dispatch(st, i, r)
    PROVE  /\ Live(r)' /\ \A x : x # r => (Live(x)' <=> Live(x))
           /\ DOMAIN requests' = DOMAIN requests \cup {r}
           /\ \A x \in DOMAIN requests : x # r => requests'[x] = requests[x]
<1>1. SetPhase(r, <<st, "running">>)
  BY DEF Dispatch
<1>2. requests'[r] = <<st, "running">> /\ r \in DOMAIN requests'
  BY <1>1, PhaseSet
<1>3. Live(r)'
  BY <1>2 DEF Live, Finished
<1> QED
  BY <1>1, <1>3, PhaseSet

\* Dispatching brings a request to one core.
LEMMA DispatchArrives ==
    ASSUME NEW st, NEW i, NEW r, Dispatch(st, i, r), Fit(eng', events), Heard(eng', events),
           One(CoresIn(eng', r)), QueuesIn(rt', r) = {},
           \A x : x # r => CoresIn(eng', x) = CoresIn(eng, x),
           \A x : x # r => QueuesIn(rt', x) = QueuesIn(rt, x)
    PROVE  Arrived(r)
<1>1. /\ Live(r)' /\ \A x : x # r => (Live(x)' <=> Live(x))
      /\ DOMAIN requests' = DOMAIN requests \cup {r}
      /\ \A x \in DOMAIN requests : x # r => requests'[x] = requests[x]
  BY DispatchLive, Zenon
<1> QED
  BY <1>1, Zenon DEF Arrived

\* admit_request and drain_pending bring a request to one core, or leave it pending.
LEMMA AdmitPlaces ==
    ASSUME EngineInv, KnownInv, Fit(eng, events), Heard(eng, events), NEW st \in Active, NEW r,
           CoresIn(eng, r) = {}, QueuesIn(rt, r) \subseteq {st}, Admit(st, r)
    PROVE  Arrived(r)
<1>1. PICK i \in rt[st].known \cap DOMAIN eng[st].workers, h \in Weights(st) :
        /\ rt' = [rt EXCEPT ![st] = Slotted(Unqueued(@, r), r, i, h)]
        /\ Dispatch(st, i, r)
  BY DEF Admit
<1>2. i \in ActiveIds(eng[st])
  BY DEF KnownInv
<1>3. /\ rt'[st].pending = rt[st].pending \ {r} /\ \A x \in Active : x # st => rt'[x] = rt[x]
  <2> DEFINE q == Unqueued(rt[st], r)
  <2>1. q.pending = rt[st].pending \ {r} /\ DOMAIN q = {"known", "pending", "slots", "heavy"}
    BY DEF KnownInv, Unqueued
  <2> DEFINE u == Slotted(q, r, i, h)
  <2>2. rt'[st] = Slotted(q, r, i, h) /\ \A x \in Active : x # st => rt'[x] = rt[x]
    <3>1. DOMAIN rt = Active
      BY DEF KnownInv
    <3>2. rt' = [rt EXCEPT ![st] = u]
      BY <1>1, Zenon
    <3> HIDE DEF u
    <3>3. rt'[st] = u /\ \A x \in Active : x # st => rt'[x] = rt[x]
      BY <3>1, <3>2
    <3> QED
      BY <3>3, Zenon DEF u
  <2> HIDE DEF q
  <2>3. Slotted(q, r, i, h).pending = q.pending
    BY <2>1 DEF Slotted
  <2> QED
    BY <2>1, <2>2, <2>3
<1>4. QueuesIn(rt', r) = {} /\ \A x : x # r => QueuesIn(rt', x) = QueuesIn(rt, x)
  BY <1>3 DEF QueuesIn
<1>5. /\ Fit(eng', events) /\ Heard(eng', events)
      /\ One(CoresIn(eng', r)) /\ \A x : x # r => CoresIn(eng', x) = CoresIn(eng, x)
  BY <1>1, <1>2, DispatchPlaces
<1>6. Dispatch(st, i, r)
  BY <1>1
<1> QED
  BY <1>4, <1>5, <1>6, DispatchArrives

\* The round-robin choice is a worker that may be given work.
LEMMA RoundRobinFinds ==
    ASSUME EngineInv, RotaInv, NEW st \in Active, NEW r, RoundRobin(st, r)
    PROVE  \E i \in ActiveIds(eng[st]) : Dispatch(st, i, r)
<1> DEFINE ids == ActiveIds(eng[st])
           k   == rr[st] % Cardinality(ids)
           i   == CHOOSE x \in ids : Cardinality({y \in ids : y < x}) = k
<1>1. ids # {} /\ Dispatch(st, i, r)
  BY DEF RoundRobin
<1>2. EngineRecord(eng[st]) /\ rr[st] \in Nat
  BY DEF EngineInv, RotaInv
<1>3. ids \subseteq 0..(eng[st].next - 1) /\ ids \subseteq Nat /\ 0 \in Int /\ eng[st].next - 1 \in Int
  BY <1>2 DEF EngineRecord, ActiveIds
<1>4. IsFiniteSet(ids)
  <2>1. IsFiniteSet(0..(eng[st].next - 1))
    BY <1>3, FS_Interval
  <2> QED
    BY <1>3, <2>1, FS_Subset
<1> HIDE DEF ids
<1>5. Cardinality(ids) \in Nat /\ Cardinality(ids) # 0
  BY <1>1, <1>4, FS_CardinalityType, FS_EmptySet
<1>6. k \in Nat /\ k < Cardinality(ids)
  BY <1>2, <1>5
<1> HIDE DEF k
<1>7. \E x \in ids : Cardinality({y \in ids : y < x}) = k
  BY <1>3, <1>4, <1>6, Rank
<1>8. i \in ids
  BY <1>7
<1> QED
  BY <1>1, <1>8 DEF ids

\* A request that enters a stage is in its queue or in one of its cores.
LEMMA EnterPlaces ==
    ASSUME EngineInv, KnownInv, RotaInv, Fit(eng, events), Heard(eng, events), NEW st \in Active, NEW r,
           CoresIn(eng, r) = {}, QueuesIn(rt, r) = {}, Enter(st, r)
    PROVE  Arrived(r)
<1>1. CASE RoundRobin(st, r) /\ UNCHANGED rt
  <2>1. PICK i \in ActiveIds(eng[st]) : Dispatch(st, i, r)
    BY <1>1, RoundRobinFinds
  <2>2. /\ Fit(eng', events) /\ Heard(eng', events)
        /\ One(CoresIn(eng', r)) /\ \A x : x # r => CoresIn(eng', x) = CoresIn(eng, x)
    BY <2>1, DispatchPlaces
  <2>3. \A x : QueuesIn(rt', x) = QueuesIn(rt, x)
    BY <1>1
  <2> QED
    BY <2>1, <2>2, <2>3, DispatchArrives
<1>2. CASE OnRequestArrival(st, r)
  <2>1. CASE Admit(st, r)
    BY <2>1, AdmitPlaces
  <2>2. CASE rt' = [rt EXCEPT ![st].pending = @ \cup {r}] /\ SetPhase(r, <<st, "queued">>) /\ UNCHANGED eng
    <3>1. rt'[st].pending = rt[st].pending \cup {r} /\ \A x \in Active : x # st => rt'[x] = rt[x]
      BY <2>2 DEF KnownInv
    <3>2. QueuesIn(rt', r) = {st} /\ \A x : x # r => QueuesIn(rt', x) = QueuesIn(rt, x)
      BY <3>1 DEF QueuesIn
    <3>3. requests'[r] = <<st, "queued">> /\ r \in DOMAIN requests'
      BY <2>2, PhaseSet
    <3>4. Live(r)'
      BY <3>3 DEF Live, Finished
    <3>5. One(QueuesIn(rt', r))
      BY <3>2 DEF One
    <3> QED
      BY <2>2, <3>2, <3>4, <3>5, PhaseSet, Zenon DEF Arrived
  <2> QED
    BY <1>2, <2>1, <2>2 DEF OnRequestArrival
<1> QED
  BY <1>1, <1>2 DEF Enter

-----------------------------------------------------------------------------
(* The driver                                                                 *)

\* A session that no changed entry belongs to stays.
LEMMA SessionStays ==
    ASSUME NEW q, NEW f, NEW X, Evolves(q, f, X), NEW s, \A x \in X : x.s # s
    PROVE  Stays(SessionIn(q, s), SessionIn(f, s))
<1> DEFINE H == {e \in Entries(q) : e.s = s}
<1>1. SessionIn(q, s) = Hits(q, H)
  BY DEF SessionIn, Hits, Entries
<1>2. SessionIn(f, s) = Hits(f, H)
  <2>1. \A k \in DOMAIN f : f[k] \in Entries(q) \cup X
    BY DEF Evolves, Entries
  <2> QED
    BY <2>1 DEF SessionIn, Hits
<1>3. H \cap X = {}
  OBVIOUS
<1> HIDE DEF H
<1>4. Kept(q, f, H)
  BY <1>3 DEF Evolves
<1> QED
  BY <1>1, <1>2, <1>4, KeptStays

\* The popped session is in the ready heap no more.
LEMMA SessionLeaves ==
    ASSUME NEW q, Listed(q), q # <<>>, One(SessionIn(q, Head(q).s))
    PROVE  SessionIn(Tail(q), Head(q).s) = {}
<1> DEFINE s == Head(q).s
           H == {e \in Entries(q) : e.s = s}
<1>1. SessionIn(q, s) = Hits(q, H)
  BY DEF SessionIn, Hits, Entries
<1>2. SessionIn(Tail(q), s) = Hits(Tail(q), H)
  <2>1. \A k \in DOMAIN Tail(q) : Tail(q)[k] \in Entries(q)
    BY PoppedEntries
  <2> QED
    BY <2>1 DEF SessionIn, Hits
<1>3. Head(q) \in H
  BY PoppedEntries
<1> HIDE DEF H
<1> QED
  BY <1>1, <1>2, <1>3, PoppedHead, Zenon

\* A session that becomes ready again is there once.
LEMMA SessionEnters ==
    ASSUME NEW q, Listed(q), NEW x, SessionIn(q, x.s) = {}
    PROVE  One(SessionIn(Waiting(q, x), x.s))
<1> DEFINE f == Waiting(q, x)
           H == {e \in Entries(q) \cup {x} : e.s = x.s}
<1>1. SessionIn(q, x.s) = Hits(q, H)
  BY DEF SessionIn, Hits, Entries
<1>2. SessionIn(f, x.s) = Hits(f, H)
  <2>1. \A k \in DOMAIN f : f[k] \in Entries(q) \cup {x}
    BY PushedEvolves DEF Evolves, Entries
  <2> HIDE DEF f
  <2> QED
    BY <2>1 DEF SessionIn, Hits
<1>3. x \in H
  OBVIOUS
<1> HIDE DEF H
<1>4. Listed(<<x>>) /\ Hits(<<x>>, H) = {1}
  BY <1>3, SingleHit
<1>5. Kept(<<x>>, f, H)
  BY <1>1, <1>4, InsertedEvolves DEF Waiting
<1> QED
  BY <1>2, <1>4, <1>5 DEF Kept, One

\* A live request is given another phase, or nothing happens to the requests.
LEMMA TurnSame ==
    ASSUME TurnInv, UNCHANGED <<ready, turn>>, DOMAIN requests' = DOMAIN requests,
           \A x \in DOMAIN requests : Live(x)' => Live(x)
    PROVE  TurnInv'
<1>1. \A r \in DOMAIN requests :
        /\ r \in (DOMAIN Sessions) \X Nat /\ r[2] <= turn[r[1]]
        /\ r[2] = turn[r[1]] => SessionIn(ready, r[1]) = {}
        /\ Live(r)' => r[2] = turn[r[1]]
  BY Zenon DEF TurnInv
<1> QED
  BY <1>1, Zenon DEF TurnInv

\* The next turn of a session is new, and leaves the queue of the driver.
LEMMA TurnReleased ==
    ASSUME TurnInv, ready # <<>>, NEW r, r = <<Head(ready).s, Head(ready).t>>
    PROVE  r \notin DOMAIN requests
<1> DEFINE e == Head(ready)
<1>1. e \in Entries(ready) /\ e.s \in DOMAIN Sessions /\ e.t = turn[e.s]
  BY PoppedEntries DEF TurnInv
<1>2. SessionIn(ready, e.s) # {}
  BY <1>1 DEF SessionIn, Entries
<1>3. r[1] = e.s /\ r[2] = e.t
  OBVIOUS
<1> QED
  BY <1>1, <1>2, <1>3 DEF TurnInv

\* The turn of a ready session is released.
LEMMA TurnArrives ==
    ASSUME TurnInv, ready # <<>>, NEW r, r = <<Head(ready).s, Head(ready).t>>,
           ready' = Tail(ready), turn' = turn, DOMAIN requests' = DOMAIN requests \cup {r},
           \A x : x # r => (Live(x)' <=> Live(x))
    PROVE  TurnInv'
<1> DEFINE e == Head(ready)
<1>1. e \in Entries(ready) /\ e.s \in DOMAIN Sessions /\ e.t = turn[e.s]
  BY PoppedEntries DEF TurnInv
<1>2. SessionIn(ready, e.s) # {}
  BY <1>1 DEF SessionIn, Entries
<1>3. Evolves(ready, Tail(ready), {e}) /\ Listed(ready')
  BY Popped DEF TurnInv, Evolves
<1>4. SessionIn(ready', e.s) = {}
  BY <1>2, SessionLeaves DEF TurnInv
<1>5. \A s : s # e.s => Stays(SessionIn(ready, s), SessionIn(ready', s))
  BY <1>3, SessionStays
<1> HIDE DEF e
<1>6. \A s : SessionIn(ready', s) = {} \/ One(SessionIn(ready', s))
  BY <1>4, <1>5 DEF Stays, TurnInv
<1>7. \A s : SessionIn(ready, s) = {} => SessionIn(ready', s) = {}
  BY <1>4, <1>5 DEF Stays
<1>8. Entries(ready') \subseteq Entries(ready)
  BY Popped DEF TurnInv
<1>9. r = <<e.s, e.t>> /\ r[1] = e.s /\ r[2] = e.t /\ e.t \in Nat /\ r \in (DOMAIN Sessions) \X Nat
  BY <1>1 DEF e, TurnInv
<1>10. \A x \in DOMAIN requests' :
        /\ x \in (DOMAIN Sessions) \X Nat /\ x[2] <= turn[x[1]]
        /\ x[2] = turn[x[1]] => SessionIn(ready', x[1]) = {}
  <2>1. ASSUME NEW x \in DOMAIN requests
        PROVE  /\ x \in (DOMAIN Sessions) \X Nat /\ x[2] <= turn[x[1]]
               /\ x[2] = turn[x[1]] => SessionIn(ready', x[1]) = {}
    BY <1>7, Zenon DEF TurnInv
  <2>2. r \in (DOMAIN Sessions) \X Nat /\ r[2] <= turn[r[1]] /\ SessionIn(ready', r[1]) = {}
    <3>1. e.t <= turn[e.s]
      BY <1>1, <1>9
    <3> QED
      BY <1>4, <1>9, <3>1, Zenon
  <2> QED
    BY <2>1, <2>2, Zenon
<1>11. \A x \in DOMAIN requests' : Live(x)' => x[2] = turn[x[1]]
  <2>1. ASSUME NEW x \in DOMAIN requests', Live(x)' PROVE x[2] = turn[x[1]]
    <3>1. CASE x = r
      BY <1>1, <1>9, <3>1
    <3>2. CASE x # r
      <4>1. Live(x)
        BY <2>1, <3>2, Zenon
      <4>2. x \in DOMAIN requests
        BY <4>1, Zenon DEF Live
      <4> QED
        BY <4>1, <4>2, Zenon DEF TurnInv
    <3> QED
      BY <3>1, <3>2
  <2> QED
    BY <2>1
<1>12. \A x \in Entries(ready') : x.s \in DOMAIN Sessions /\ x.t = turn[x.s]
  BY <1>8 DEF TurnInv
<1>13. DOMAIN turn = DOMAIN Sessions /\ \A s \in DOMAIN Sessions : turn[s] \in Nat
  BY DEF TurnInv
<1> QED
  BY <1>3, <1>6, <1>10, <1>11, <1>12, <1>13, Zenon DEF TurnInv

\* A turn is over, and the session waits for the next one.
LEMMA TurnFinish ==
    ASSUME TurnInv, NEW r, Live(r), OnComplete(r), NEW st, SetPhase(r, <<st, "done">>)
    PROVE  TurnInv'
<1> DEFINE s == r[1]  t == r[2]
           x == [at |-> now + Sessions[s].delays[t + 1], s |-> s, t |-> t + 1]
<1>1. r \in DOMAIN requests /\ requests'[r] = <<st, "done">> /\ DOMAIN requests' = DOMAIN requests
      /\ \A y : y # r => (Live(y)' <=> Live(y))
  BY PhaseSet, Zenon DEF Live
<1>2. /\ s \in DOMAIN Sessions /\ t \in Nat /\ t = turn[s] /\ SessionIn(ready, s) = {}
  BY <1>1 DEF TurnInv
<1>3. ~Live(r)'
  BY <1>1 DEF Live, Finished
<1>4. DOMAIN turn' = DOMAIN Sessions /\ turn'[s] = t + 1 /\ \A y \in DOMAIN Sessions : y # s => turn'[y] = turn[y]
  BY <1>2 DEF OnComplete, TurnInv
<1>5. \A y \in DOMAIN Sessions : turn'[y] \in Nat
  BY <1>2, <1>4 DEF TurnInv
<1>6. x.s = s /\ x.t = t + 1
  OBVIOUS
<1>7. ready' = Waiting(ready, x) \/ ready' = ready
  BY Zenon DEF OnComplete
<1> HIDE DEF x
<1>8. /\ Listed(ready') /\ Entries(ready') \subseteq Entries(ready) \cup {x}
      /\ SessionIn(ready', s) = {} \/ One(SessionIn(ready', s))
      /\ \A y : y # s => Stays(SessionIn(ready, y), SessionIn(ready', y))
  <2>1. CASE ready' = Waiting(ready, x)
    <3>1. Evolves(ready, ready', {x})
      BY <2>1, PushedEvolves DEF TurnInv
    <3>2. One(SessionIn(ready', s))
      BY <1>2, <1>6, <2>1, SessionEnters DEF TurnInv
    <3>3. \A y : y # s => Stays(SessionIn(ready, y), SessionIn(ready', y))
      BY <1>6, <3>1, SessionStays
    <3> QED
      BY <3>1, <3>2, <3>3 DEF Evolves
  <2>2. CASE ready' = ready
    BY <1>2, <2>2, Same, Zenon DEF TurnInv
  <2> QED
    BY <1>7, <2>1, <2>2
<1>9. ASSUME NEW e \in Entries(ready') PROVE e.s \in DOMAIN Sessions /\ e.t = turn'[e.s]
  <2>1. CASE e = x
    BY <1>2, <1>4, <1>6, <2>1
  <2>2. CASE e \in Entries(ready)
    <3>1. e.s # s
      BY <1>2, <2>2 DEF SessionIn, Entries
    <3> QED
      BY <1>4, <2>2, <3>1 DEF TurnInv
  <2> QED
    BY <1>8, <2>1, <2>2
<1>10. \A y : SessionIn(ready', y) = {} \/ One(SessionIn(ready', y))
  BY <1>8, Zenon DEF Stays, TurnInv
<1>11. ASSUME NEW y \in DOMAIN requests
       PROVE  /\ y \in (DOMAIN Sessions) \X Nat /\ y[2] <= turn'[y[1]]
              /\ y[2] = turn'[y[1]] => SessionIn(ready', y[1]) = {}
              /\ Live(y)' => y[2] = turn'[y[1]]
  <2>1. /\ y \in (DOMAIN Sessions) \X Nat /\ y[2] <= turn[y[1]] /\ (Live(y) => y[2] = turn[y[1]])
        /\ y[2] = turn[y[1]] => SessionIn(ready, y[1]) = {}
    BY DEF TurnInv
  <2>2. CASE y[1] = s
    <3>1. y[2] <= t /\ y[2] \in Nat /\ turn'[y[1]] = t + 1
      BY <1>2, <1>4, <2>1, <2>2
    <3>2. y[2] <= turn'[y[1]] /\ y[2] # turn'[y[1]]
      BY <1>2, <3>1
    <3>3. ~Live(y)'
      <4>1. CASE y # r
        <5>1. Live(y) => y = r
          BY <1>1, <1>2, <2>1, <2>2 DEF TurnInv
        <5> QED
          BY <1>1, <4>1, <5>1, Zenon
      <4> QED
        BY <1>3, <4>1
    <3> QED
      BY <2>1, <3>2, <3>3
  <2>3. CASE y[1] # s
    <3>1. turn'[y[1]] = turn[y[1]] /\ y # r
      BY <1>4, <2>1, <2>3
    <3>2. y[2] = turn[y[1]] => SessionIn(ready', y[1]) = {}
      BY <1>8, <2>1, <2>3, Zenon DEF Stays
    <3>3. Live(y)' => y[2] = turn[y[1]]
      BY <1>1, <2>1, <3>1, Zenon
    <3> QED
      BY <2>1, <3>1, <3>2, <3>3
  <2> QED
    BY <2>2, <2>3
<1> QED
  BY <1>1, <1>4, <1>5, <1>8, <1>9, <1>10, <1>11, Zenon DEF TurnInv

-----------------------------------------------------------------------------
(* The event in hand                                                          *)

\* A piece of work is put before the rest.
LEMMA HandPrefix ==
    ASSUME NEW q, Listed(q), NEW x, NEW r
    PROVE  /\ ~Carries(x, r) => Stays(HandOf(q, r), HandOf(<<x>> \o q, r))
           /\ Carries(x, r) /\ HandOf(q, r) = {} => One(HandOf(<<x>> \o q, r))
<1> DEFINE f == <<x>> \o q
           H == {e \in Entries(q) \cup {x} : Carries(e, r)}
<1>1. Listed(<<x>>) /\ Entries(<<x>>) = {x}
  BY SingleHit
<1>2. Evolves(q, f, {x}) /\ \A G : Hits(q, G) = {} => Kept(<<x>>, f, G)
  BY <1>1, PrefixEvolves
<1> HIDE DEF f
<1>3. ASSUME ~Carries(x, r) PROVE Stays(HandOf(q, r), HandOf(f, r))
  BY <1>2, <1>3, HandStays
<1>4. ASSUME Carries(x, r), HandOf(q, r) = {} PROVE One(HandOf(f, r))
  <2>1. HandOf(q, r) = Hits(q, H)
    BY DEF HandOf, Hits, Entries
  <2>2. HandOf(f, r) = Hits(f, H)
    <3>1. \A k \in DOMAIN f : f[k] \in Entries(q) \cup {x}
      BY <1>2 DEF Evolves, Entries
    <3> QED
      BY <3>1 DEF HandOf, Hits
  <2>3. x \in H
    BY <1>4
  <2> HIDE DEF H
  <2>4. Hits(<<x>>, H) = {1}
    BY <2>3, SingleHit
  <2>5. Kept(<<x>>, f, H)
    BY <1>2, <1>4, <2>1
  <2> QED
    BY <2>2, <2>4, <2>5 DEF Kept, One
<1> QED
  BY <1>3, <1>4 DEF f

\* Sound work before sound work.
LEMMA SoundPrefix ==
    ASSUME NEW q, Sound(q), NEW x, Sound(<<x>>)
    PROVE  Sound(<<x>> \o q)
<1>1. Listed(<<x>>) /\ Entries(<<x>>) = {x}
  BY SingleHit
<1>2. Evolves(q, <<x>> \o q, {x})
  BY <1>1, PrefixEvolves DEF Sound
<1>3. Listed(<<x>> \o q) /\ \A y \in Entries(<<x>> \o q) : y \in Entries(q) \/ y \in Entries(<<x>>)
  BY <1>1, <1>2 DEF Evolves
<1> QED
  BY <1>3, Zenon DEF Sound

\* Work that is done leaves sound work.
LEMMA SoundTail ==
    ASSUME NEW q, Sound(q), q # <<>>
    PROVE  Sound(Tail(q)) /\ Head(q) \in Entries(q)
<1>1. Listed(Tail(q)) /\ Head(q) \in Entries(q) /\ Entries(Tail(q)) \subseteq Entries(q)
  BY Popped, Zenon DEF Sound, Evolves
<1> QED
  BY <1>1, Zenon DEF Sound

\* The requests that a queue is looked at for are not in the work that says so.
LEMMA DrainHands ==
    ASSUME NEW st \in Active, NEW q, Sound(q)
    PROVE  Sound(DrainOf(st) \o q) /\ \A r : Stays(HandOf(q, r), HandOf(DrainOf(st) \o q, r))
<1> DEFINE x == [op |-> "drain", st |-> st]
<1>1. CASE DrainOf(st) = <<>>
  <2>1. <<>> \o q = q
    BY ListedEntries, ConcatEmptySeq DEF Sound
  <2> QED
    BY <1>1, <2>1, Same
<1>2. CASE DrainOf(st) = <<x>>
  <2>1. x.op = "drain" /\ x.st = st
    OBVIOUS
  <2> HIDE DEF x
  <2>2. Sound(<<x>>) /\ \A r : ~Carries(x, r)
    <3>1. Listed(<<x>>) /\ Entries(<<x>>) = {x}
      BY SingleHit
    <3> QED
      BY <2>1, <3>1 DEF Sound, Carries
  <2> QED
    BY <1>2, <2>2, SoundPrefix, HandPrefix DEF Sound
<1> QED
  BY <1>1, <1>2 DEF DrainOf

\* The work of one step is put together in any grouping.
LEMMA DrainFirst ==
    ASSUME NEW st, NEW x, NEW q, Listed(q)
    PROVE  (DrainOf(st) \o <<x>>) \o q = DrainOf(st) \o (<<x>> \o q)
<1> DEFINE S == Entries(q) \cup {x, [op |-> "drain", st |-> st]}
<1>0. ASSUME NEW A, NEW B, A \subseteq B, NEW g \in Seq(A) PROVE g \in Seq(B)
  BY <1>0
<1>1. q \in Seq(S) /\ <<x>> \in Seq(S) /\ DrainOf(st) \in Seq(S)
  <2>1. q \in Seq(Entries(q)) /\ Entries(q) \subseteq S
    BY ListedEntries
  <2>2. <<x>> \in Seq({x}) /\ {x} \subseteq S
    OBVIOUS
  <2>3. DrainOf(st) \in Seq({[op |-> "drain", st |-> st]})
    <3>1. \A y : <<>> \in Seq({y}) /\ <<y>> \in Seq({y})
      OBVIOUS
    <3> QED
      BY <3>1, Zenon DEF DrainOf
  <2>4. {[op |-> "drain", st |-> st]} \subseteq S
    OBVIOUS
  <2> HIDE DEF S
  <2> QED
    BY <1>0, <2>1, <2>2, <2>3, <2>4, Zenon
<1> HIDE DEF S
<1> QED
  BY <1>1, ConcatAssociative

\* Taking a signal off a piece of work changes its set alone.
LEMMA FewerSignals ==
    \A h : h = [op |-> "signals", st |-> h.st, set |-> h.set] =>
        \A c : [h EXCEPT !.set = c] = [op |-> "signals", st |-> h.st, set |-> c]
<1>1. ASSUME NEW h, NEW a, NEW b, NEW c, h = [op |-> "signals", st |-> a, set |-> b]
      PROVE  [h EXCEPT !.set = c] = [op |-> "signals", st |-> a, set |-> c]
  BY <1>1
<1>2. ASSUME NEW h, h = [op |-> "signals", st |-> h.st, set |-> h.set], NEW c
      PROVE  [h EXCEPT !.set = c] = [op |-> "signals", st |-> h.st, set |-> c]
  <2> DEFINE a == h.st  b == h.set
  <2>1. h = [op |-> "signals", st |-> a, set |-> b]
    BY <1>2
  <2> HIDE DEF a, b
  <2>2. [h EXCEPT !.set = c] = [op |-> "signals", st |-> a, set |-> c]
    BY <2>1
  <2> QED
    BY <2>2 DEF a
<1> QED
  BY <1>2

\* One signal of a pass is handled; the others stay in hand.
Rest(q, x) ==
    LET left == Head(q).set \ {x}
    IN  IF left = {} THEN Tail(q) ELSE <<[Head(q) EXCEPT !.set = left]>> \o Tail(q)

\* One signal is handled: the request it ends leaves the work in hand.
LEMMA RestLeft ==
    ASSUME NEW q, Sound(q), q # <<>>, Head(q).op = "signals", NEW x, x \in Head(q).set
    PROVE  /\ Sound(Rest(q, x)) /\ Head(q).st \in Active /\ (x.done => x = Last(x.r))
           /\ \A r : Last(r) # x => Stays(HandOf(q, r), HandOf(Rest(q, x), r))
           /\ \A r : Last(r) = x /\ One(HandOf(q, r)) => HandOf(Rest(q, x), r) = {}
           /\ \A r : Last(r) = x => HandOf(q, r) # {}
<1> DEFINE h == Head(q)  left == h.set \ {x}  rest == Rest(q, x)
<1>10. left = {} => rest = Tail(q)
  BY DEF Rest
<1>11. left # {} => rest = <<[h EXCEPT !.set = left]>> \o Tail(q)
  BY DEF Rest
<1>12. h = Head(q) /\ h.op = "signals" /\ x \in h.set
  OBVIOUS
<1>13. left = h.set \ {x}
  OBVIOUS
<1> HIDE DEF h, left, rest
<1>1. /\ Sound(Tail(q)) /\ h \in Entries(q) /\ Listed(q)
  BY <1>12, SoundTail DEF Sound
<1>2. h.st \in Active /\ h = [op |-> "signals", st |-> h.st, set |-> h.set] /\ Outcomes(h.set)
  BY <1>1, <1>12 DEF Sound
<1>0. \A c : [h EXCEPT !.set = c] = [op |-> "signals", st |-> h.st, set |-> c]
  BY <1>2, FewerSignals, Zenon
<1>3. x.done => x = Last(x.r)
  BY <1>2, <1>12 DEF Outcomes
<1>4. \A r : Carries(h, r) <=> Last(r) \in h.set
  BY <1>12 DEF Carries
<1>5. Evolves(q, Tail(q), {h})
  BY <1>1, <1>12, Popped, Zenon
<1>6. ASSUME NEW r, Last(r) = x
      PROVE  HandOf(q, r) # {} /\ (One(HandOf(q, r)) => HandOf(Tail(q), r) = {})
  <2>1. Carries(Head(q), r)
    BY <1>4, <1>6, <1>12
  <2>2. One(HandOf(q, r)) => HandOf(Tail(q), r) = {}
    BY <1>1, <2>1, HandLeaves, Zenon
  <2>3. \E k \in DOMAIN q : q[k] = h
    BY <1>1 DEF Entries
  <2>4. HandOf(q, r) # {}
    BY <1>12, <2>1, <2>3 DEF HandOf
  <2> QED
    BY <2>2, <2>4
<1>7. CASE left = {}
  <2>1. rest = Tail(q) /\ h.set = {x}
    BY <1>7, <1>10, <1>12, <1>13
  <2>2. ASSUME NEW r, Last(r) # x PROVE Stays(HandOf(q, r), HandOf(rest, r))
    <3>1. \A y \in {h} : ~Carries(y, r)
      BY <1>4, <2>1, <2>2
    <3>2. Stays(HandOf(q, r), HandOf(Tail(q), r))
      <4> HIDE <2>2, <1>7
      <4> QED
        BY <1>5, <3>1, HandStays
    <3> QED
      BY <2>1, <3>2, Zenon
  <2> QED
    BY <1>1, <1>2, <1>3, <1>6, <2>1, <2>2, Zenon DEF h, rest
<1>8. CASE left # {}
  <2> DEFINE g == [h EXCEPT !.set = left]
  <2>1. rest = <<g>> \o Tail(q)
    BY <1>8, <1>11
  <2>2. g = [op |-> "signals", st |-> h.st, set |-> left]
    BY <1>0, Zenon
  <2> HIDE DEF g
  <2>3. g.op = "signals" /\ g.st = h.st /\ g.set = left /\ g = [op |-> "signals", st |-> g.st, set |-> g.set]
    BY <2>2
  <2>4. Outcomes(left)
    BY <1>2, <1>13, FS_Subset DEF Outcomes
  <2>5. Sound(rest)
    <3>1. Listed(<<g>>) /\ Entries(<<g>>) = {g}
      BY SingleHit
    <3>2. Sound(<<g>>)
      BY <1>2, <2>3, <2>4, <3>1 DEF Sound
    <3> QED
      BY <1>1, <2>1, <3>2, SoundPrefix, Zenon
  <2>6. \A r : Carries(g, r) <=> Last(r) \in left
    BY <2>3 DEF Carries
  <2>7. \A r : /\ ~Carries(g, r) => Stays(HandOf(Tail(q), r), HandOf(rest, r))
               /\ Carries(g, r) /\ HandOf(Tail(q), r) = {} => One(HandOf(rest, r))
    BY <1>1, <2>1, HandPrefix, Zenon DEF Sound
  <2>8. ASSUME NEW r, Last(r) # x PROVE Stays(HandOf(q, r), HandOf(rest, r))
    <3>1. CASE Last(r) \in left
      <4>1. Carries(Head(q), r)
        BY <1>4, <1>12, <1>13, <3>1
      <4>2. \E k \in DOMAIN q : q[k] = h
        BY <1>1 DEF Entries
      <4>3. HandOf(q, r) # {}
        BY <1>12, <4>1, <4>2 DEF HandOf
      <4>4. One(HandOf(q, r)) => HandOf(Tail(q), r) = {}
        BY <1>1, <4>1, HandLeaves, Zenon
      <4> QED
        BY <2>6, <2>7, <3>1, <4>3, <4>4, Zenon DEF Stays
    <3>2. CASE Last(r) \notin left
      <4>1. \A y \in {h} : ~Carries(y, r)
        BY <1>4, <1>13, <2>8, <3>2
      <4>2. Stays(HandOf(q, r), HandOf(Tail(q), r))
        <5> HIDE <2>8, <3>2
        <5> QED
          BY <1>5, <4>1, HandStays
      <4> QED
        BY <2>6, <2>7, <3>2, <4>2, Zenon DEF Stays
    <3> QED
      BY <3>1, <3>2
  <2>9. ASSUME NEW r, Last(r) = x, One(HandOf(q, r)) PROVE HandOf(rest, r) = {}
    <3>1. Last(r) \notin left
      BY <1>13, <2>9
    <3> QED
      BY <1>6, <2>6, <2>7, <2>9, <3>1, Zenon DEF Stays
  <2> QED
    BY <1>2, <1>3, <1>6, <2>5, <2>8, <2>9, Zenon DEF h, rest
<1> QED
  BY <1>7, <1>8


-----------------------------------------------------------------------------
(* The steps                                                                  *)

\* In none of the four; and where a request is after a step.
Nowhere(A, B, C, D) == A = {} /\ B = {} /\ C = {} /\ D = {}

PlaceStep(r) ==
    LET A == CoresIn(eng', r)  B == QueuesIn(rt', r)  C == HeapOf(events', r)  D == HandOf(work', r)
    IN  IF Live(r)' THEN Whole(A, B, C, D) ELSE Nowhere(A, B, C, D)

\* The invariant after a step, from its parts.
LEMMA Assembled ==
    ASSUME conf' = conf, ReplayInv', RotaInv', TurnInv', Sound(work'), Listed(events'),
           Heard(eng', events'), Fit(eng', events'), \A r : PlaceStep(r)
    PROVE  OnePlaceInv'
<1>1. Active' = Active
  BY DEF Active
<1>2. \A r : CoresIn(eng, r)' = CoresIn(eng', r) /\ QueuesIn(rt, r)' = QueuesIn(rt', r)
  BY <1>1, Zenon DEF CoresIn, QueuesIn
<1>3. \A r : HeapOf(events, r)' = HeapOf(events', r) /\ HandOf(work, r)' = HandOf(work', r)
  BY Zenon DEF HeapOf, HandOf
<1>4. PlaceInv'
  BY <1>2, <1>3, Zenon DEF PlaceInv, Place, PlaceStep, Nowhere
<1>5. Sound(work)'
  BY <1>1, Zenon DEF Sound
<1>6. Heard(eng, events)'
  BY <1>1, Zenon DEF Heard
<1>7. Fit(eng, events)'
  BY <1>1, Zenon DEF Fit
<1> QED
  BY <1>4, <1>5, <1>6, <1>7, Zenon DEF OnePlaceInv

\* A request that the step does not move.
LEMMA StepStays ==
    ASSUME NEW r, Place(r), Live(r)' <=> Live(r), Stays(CoresIn(eng, r), CoresIn(eng', r)),
           Stays(QueuesIn(rt, r), QueuesIn(rt', r)), Stays(HeapOf(events, r), HeapOf(events', r)),
           Stays(HandOf(work, r), HandOf(work', r))
    PROVE  PlaceStep(r)
BY Zenon DEF Place, PlaceStep, Whole, Nowhere, Stays

\* Nothing moves but what is in hand.
LEMMA InHand ==
    ASSUME OnePlaceInv, conf' = conf, ReplayInv', TurnInv', UNCHANGED <<eng, rr, events>>, Sound(work'),
           \A r : QueuesIn(rt', r) = QueuesIn(rt, r),
           \A r : PlaceStep(r)
    PROVE  OnePlaceInv'
<1>1. RotaInv'
  <2>1. Active' = Active
    BY DEF Active
  <2> QED
    BY <2>1 DEF OnePlaceInv, RotaInv
<1>2. Listed(events') /\ Heard(eng', events') /\ Fit(eng', events')
  BY DEF OnePlaceInv
<1> QED
  BY <1>1, <1>2, Assembled

\* Freeing a request or marking its prefill leaves the queue of the router alone.
LEMMA SamePending ==
    ASSUME KnownInv, NEW st, NEW r,
           rt' = [rt EXCEPT ![st] = Freed(@, r)] \/ rt' = [rt EXCEPT ![st] = PrefillCompleted(@, r)] \/ rt' = rt
    PROVE  \A x : QueuesIn(rt', x) = QueuesIn(rt, x)
<1>1. \A x \in Active : rt'[x].pending = rt[x].pending
  <2>1. ASSUME NEW q, DOMAIN q = {"known", "pending", "slots", "heavy"}
        PROVE  Freed(q, r).pending = q.pending /\ PrefillCompleted(q, r).pending = q.pending
    BY <2>1 DEF Freed, PrefillCompleted
  <2>2. \A x \in Active : \/ rt'[x] = rt[x]
                          \/ rt'[x] = Freed(rt[x], r) \/ rt'[x] = PrefillCompleted(rt[x], r)
    BY DEF KnownInv
  <2>3. \A x \in Active : DOMAIN rt[x] = {"known", "pending", "slots", "heavy"}
    BY DEF KnownInv
  <2> QED
    BY <2>1, <2>2, <2>3, Zenon
<1> QED
  BY <1>1 DEF QueuesIn

\* A request whose end is in hand is nowhere else.
LEMMA HeldInHand ==
    ASSUME NEW r, Place(r), HandOf(work, r) # {}
    PROVE  /\ Live(r) /\ One(HandOf(work, r)) /\ CoresIn(eng, r) = {} /\ QueuesIn(rt, r) = {}
           /\ HeapOf(events, r) = {}
BY Zenon DEF Place, Whole

\* process_output_signal: the last signal ends the request and releases its session.
LEMMA SignalPlaces ==
    ASSUME OnePlaceInv, ReplayInv', Signal
    PROVE  OnePlaceInv' \/ Fail
<1>1. PICK x \in Head(work).set :
        LET st   == Head(work).st
            left == Head(work).set \ {x}
            rest == IF left = {} THEN Tail(work) ELSE <<[Head(work) EXCEPT !.set = left]>> \o Tail(work)
        IN  \/ Fail
            \/ /\ \/ x.done /\ st # "Prefill" /\ Finish(st, x.r, rest)
                  \/ x.done /\ st = "Prefill" /\ PrefillDone(x.r, rest)
                  \/ ~x.done /\ st = "Aggregated" /\ MarkPrefill(st, x.r, rest)
                  \/ ~x.done /\ st # "Aggregated" /\ Ignored(rest)
               /\ UNCHANGED <<conf, clockVars, eng, rr, events, scalings>>
  BY Zenon DEF Signal
<1> DEFINE h == Head(work)  st == h.st  left == h.set \ {x}
           rest == IF left = {} THEN Tail(work) ELSE <<[h EXCEPT !.set = left]>> \o Tail(work)
           r == x.r
<1>2. work # <<>> /\ h.op = "signals" /\ Sound(work)
  BY DEF Signal, OnePlaceInv
<1>3. /\ Sound(rest) /\ st \in Active /\ (x.done => x = Last(r))
      /\ \A y : Last(y) # x => Stays(HandOf(work, y), HandOf(rest, y))
      /\ \A y : Last(y) = x /\ One(HandOf(work, y)) => HandOf(rest, y) = {}
      /\ \A y : Last(y) = x => HandOf(work, y) # {}
  <2>1. rest = Rest(work, x)
    BY Zenon DEF Rest
  <2>2. Head(work).op = "signals" /\ x \in Head(work).set
    BY <1>2
  <2> HIDE DEF rest
  <2>3. /\ Sound(Rest(work, x)) /\ Head(work).st \in Active /\ (x.done => x = Last(x.r))
        /\ \A y : Last(y) # x => Stays(HandOf(work, y), HandOf(Rest(work, x), y))
        /\ \A y : Last(y) = x /\ One(HandOf(work, y)) => HandOf(Rest(work, x), y) = {}
        /\ \A y : Last(y) = x => HandOf(work, y) # {}
    BY <1>2, <2>2, RestLeft
  <2> QED
    BY <2>1, <2>3, Zenon
<1>4. \/ Fail
      \/ /\ \/ x.done /\ st # "Prefill" /\ Finish(st, r, rest)
            \/ x.done /\ st = "Prefill" /\ PrefillDone(r, rest)
            \/ ~x.done /\ st = "Aggregated" /\ MarkPrefill(st, r, rest)
            \/ ~x.done /\ st # "Aggregated" /\ Ignored(rest)
         /\ UNCHANGED <<conf, eng, rr, events>>
  BY <1>1, Zenon
<1> HIDE DEF rest, r, st, h
<1> SUFFICES ASSUME UNCHANGED <<conf, eng, rr, events>>,
                    \/ x.done /\ st # "Prefill" /\ Finish(st, r, rest)
                    \/ x.done /\ st = "Prefill" /\ PrefillDone(r, rest)
                    \/ ~x.done /\ st = "Aggregated" /\ MarkPrefill(st, r, rest)
                    \/ ~x.done /\ st # "Aggregated" /\ Ignored(rest)
             PROVE  OnePlaceInv'
  BY <1>4, Zenon
<1>5. KnownInv /\ TurnInv /\ \A y : Place(y)
  BY DEF OnePlaceInv, ReplayInv, PlaceInv
<1>6. \A y : QueuesIn(rt', y) = QueuesIn(rt, y)
  <2>1. rt' = [rt EXCEPT ![st] = Freed(@, r)] \/ rt' = [rt EXCEPT ![st] = PrefillCompleted(@, r)] \/ rt' = rt
    BY Zenon DEF Finish, PrefillDone, MarkPrefill, Ignored
  <2> QED
    BY <1>5, <2>1, SamePending
<1>7. ASSUME NEW y, Live(y)' <=> Live(y), Stays(HandOf(work, y), HandOf(work', y)) PROVE PlaceStep(y)
  BY <1>5, <1>6, <1>7, Same, StepStays
<1>8. ASSUME NEW y, NEW z, Last(y) = Last(z) PROVE y = z
  BY <1>8 DEF Last
<1>9. CASE ~x.done
  <2>1. ASSUME NEW y PROVE Last(y) # x
    BY <1>9 DEF Last
  <2>2. Sound(work') /\ \A y : Stays(HandOf(rest, y), HandOf(work', y))
    <3>1. work' = rest \/ work' = DrainOf(st) \o rest
      BY <1>9, Zenon DEF MarkPrefill, Ignored
    <3> QED
      BY <1>3, <3>1, DrainHands, Same
  <2>3. \A y : Stays(HandOf(work, y), HandOf(work', y))
    BY <1>3, <2>1, <2>2, Zenon DEF Stays
  <2>4. UNCHANGED <<ready, turn, requests>>
    BY <1>9 DEF MarkPrefill, Ignored, driverVars
  <2>5. \A y : Live(y)' <=> Live(y)
    BY <2>4 DEF Live, Finished
  <2>6. TurnInv'
    BY <1>5, <2>4, <2>5, TurnSame
  <2> QED
    BY <1>6, <1>7, <2>2, <2>3, <2>5, <2>6, InHand
<1>10. CASE x.done
  <2>1. x = Last(r) /\ \A y : y # r => Last(y) # x
    BY <1>3, <1>8, <1>10
  <2>2. /\ Live(r) /\ HandOf(rest, r) = {} /\ CoresIn(eng, r) = {} /\ QueuesIn(rt, r) = {}
        /\ HeapOf(events, r) = {}
    BY <1>3, <1>5, <2>1, HeldInHand, Zenon
  <2>3. CASE st # "Prefill" /\ Finish(st, r, rest)
    <3>1. Sound(work') /\ \A y : Stays(HandOf(rest, y), HandOf(work', y))
      BY <1>3, <2>3, DrainHands, Zenon DEF Finish
    <3>2. OnComplete(r) /\ SetPhase(r, <<st, "done">>)
      BY <2>3 DEF Finish
    <3>3. TurnInv'
      BY <1>5, <2>2, <3>2, TurnFinish
    <3>4. requests'[r] = <<st, "done">> /\ \A y : y # r => (Live(y)' <=> Live(y))
      BY <3>2, PhaseSet
    <3>5. ~Live(r)'
      BY <3>4 DEF Live, Finished
    <3>6. ASSUME NEW y PROVE PlaceStep(y)
      <4>1. CASE y = r
        <5>1. HandOf(work', r) = {}
          BY <2>2, <3>1, Zenon DEF Stays
        <5>2. QueuesIn(rt', r) = {} /\ CoresIn(eng', r) = {} /\ HeapOf(events', r) = {}
          BY <1>6, <2>2
        <5> QED
          BY <3>5, <4>1, <5>1, <5>2, Zenon DEF PlaceStep, Nowhere
      <4>2. CASE y # r
        <5>1. Stays(HandOf(work, y), HandOf(work', y))
          BY <1>3, <2>1, <3>1, <4>2, Zenon DEF Stays
        <5> QED
          BY <1>7, <3>4, <4>2, <5>1, Zenon
      <4> QED
        BY <4>1, <4>2
    <3> QED
      BY <1>6, <3>1, <3>3, <3>6, InHand
  <2>4. CASE st = "Prefill" /\ PrefillDone(r, rest)
    <3> DEFINE g == [op |-> "handoff", r |-> r]  tail == <<g>> \o rest
    <3>1. g.op = "handoff" /\ g.r = r
      OBVIOUS
    <3>2. work' = DrainOf("Prefill") \o <<g>> \o rest /\ UNCHANGED <<ready, turn, requests>>
      BY <2>4, Zenon DEF PrefillDone, driverVars
    <3> HIDE DEF g
    <3>3. Sound(<<g>>)
      <4>1. Listed(<<g>>) /\ Entries(<<g>>) = {g}
        BY SingleHit
      <4>2. conf.kind = "disagg"
        <5>1. conf.kind # "agg" /\ conf \in Configs
          BY <1>3, <2>4 DEF Active, OnePlaceInv, ReplayInv, RoundInv
        <5> QED
          BY <5>1, ReplayAssumption
      <4> QED
        BY <3>1, <4>1, <4>2 DEF Sound
    <3>4. \A y : Carries(g, y) <=> y = r
      BY <3>1 DEF Carries
    <3>5. /\ Sound(tail) /\ \A y : ~Carries(g, y) => Stays(HandOf(rest, y), HandOf(tail, y))
          /\ \A y : Carries(g, y) /\ HandOf(rest, y) = {} => One(HandOf(tail, y))
      <4>1. Listed(rest)
        BY <1>3 DEF Sound
      <4> QED
        BY <1>3, <3>3, <4>1, SoundPrefix, HandPrefix
    <3>6. work' = DrainOf("Prefill") \o tail
      <4>1. Listed(rest)
        BY <1>3 DEF Sound
      <4>2. (DrainOf("Prefill") \o <<g>>) \o rest = DrainOf("Prefill") \o (<<g>> \o rest)
        BY <4>1, DrainFirst
      <4> QED
        BY <3>2, <4>2
    <3> HIDE DEF tail
    <3>7. Sound(work') /\ \A y : Stays(HandOf(tail, y), HandOf(work', y))
      BY <1>3, <2>4, <3>5, <3>6, DrainHands, Zenon
    <3>8. \A y : Live(y)' <=> Live(y)
      BY <3>2 DEF Live, Finished
    <3>9. TurnInv'
      BY <1>5, <3>2, <3>8, TurnSame
    <3>10. ASSUME NEW y PROVE PlaceStep(y)
      <4>1. CASE y = r
        <5>1. One(HandOf(work', r))
          BY <2>2, <3>4, <3>5, <3>7, Zenon DEF Stays
        <5>2. QueuesIn(rt', r) = {} /\ CoresIn(eng', r) = {} /\ HeapOf(events', r) = {}
          BY <1>6, <2>2
        <5> QED
          BY <2>2, <3>8, <4>1, <5>1, <5>2, Zenon DEF PlaceStep, Whole
      <4>2. CASE y # r
        <5>1. Stays(HandOf(work, y), HandOf(work', y))
          BY <1>3, <2>1, <3>4, <3>5, <3>7, <4>2, Zenon DEF Stays
        <5> QED
          BY <1>7, <3>8, <5>1, Zenon
      <4> QED
        BY <4>1, <4>2
    <3> QED
      BY <1>6, <3>7, <3>9, <3>10, InHand
  <2> QED
    BY <1>10, <2>3, <2>4
<1> QED
  BY <1>9, <1>10

\* The loop goes on, or gives up, and everything is where it was.
LEMMA FrozenPlaces ==
    ASSUME OnePlaceInv, ReplayInv', UNCHANGED <<conf, driverVars, requests, eng, rr, rt, events, work>>
    PROVE  OnePlaceInv'
<1>1. UNCHANGED <<conf, ready, turn, requests, eng, rr, rt, events, work>>
  BY DEF driverVars
<1>2. \A y : Live(y)' <=> Live(y)
  BY <1>1 DEF Live, Finished
<1>3. TurnInv'
  BY <1>1, <1>2, TurnSame DEF OnePlaceInv
<1>4. \A y : PlaceStep(y)
  BY <1>1, <1>2, Same, StepStays DEF OnePlaceInv, PlaceInv
<1> QED
  BY <1>1, <1>3, <1>4, InHand DEF OnePlaceInv

\* Entering a stage keeps the counters.
LEMMA RotaKept ==
    ASSUME EngineInv, RotaInv, NEW st \in Active, NEW r, Enter(st, r), conf' = conf
    PROVE  RotaInv'
<1>1. Active' = Active
  BY DEF Active
<1>2. CASE UNCHANGED rr
  BY <1>1, <1>2 DEF RotaInv
<1>3. CASE RoundRobin(st, r)
  <2> DEFINE ids == ActiveIds(eng[st])  k == rr[st] % Cardinality(ids)
  <2>1. ids # {} /\ rr' = [rr EXCEPT ![st] = k + 1]
    BY <1>3 DEF RoundRobin
  <2>2. EngineRecord(eng[st]) /\ rr[st] \in Nat /\ DOMAIN rr = Active
    BY DEF EngineInv, RotaInv
  <2>3. ids \subseteq 0..(eng[st].next - 1) /\ 0 \in Int /\ eng[st].next - 1 \in Int
    BY <2>2 DEF EngineRecord, ActiveIds
  <2>4. IsFiniteSet(ids)
    <3>1. IsFiniteSet(0..(eng[st].next - 1))
      BY <2>3, FS_Interval
    <3> QED
      BY <2>3, <3>1, FS_Subset
  <2> HIDE DEF ids
  <2>5. Cardinality(ids) \in Nat /\ Cardinality(ids) # 0
    BY <2>1, <2>4, FS_CardinalityType, FS_EmptySet
  <2>6. k + 1 \in Nat
    BY <2>2, <2>5
  <2> HIDE DEF k
  <2> QED
    BY <1>1, <2>1, <2>2, <2>6 DEF RotaInv
<1> QED
  BY <1>2, <1>3 DEF Enter

\* A request has come to a stage from where it was, the hands or the heap.
LEMMA ArrivedPlaces ==
    ASSUME OnePlaceInv, ReplayInv', conf' = conf, NEW r, Arrived(r), RotaInv', TurnInv', Sound(work'),
           NEW X, Evolves(events, events', X),
           \A x \in X : x.kind # "completion" /\ (x.kind = "ready" => x.st \in Active),
           HeapOf(events', r) = {}, HandOf(work', r) = {},
           \A y : y # r => Stays(HeapOf(events, y), HeapOf(events', y)),
           \A y : y # r => Stays(HandOf(work, y), HandOf(work', y))
    PROVE  OnePlaceInv'
<1>1. Fit(eng', events) /\ Heard(eng', events)
  BY DEF Arrived
<1>2. Fit(eng', events') /\ Heard(eng', events') /\ Listed(events')
  BY <1>1, FitStays DEF Evolves
<1>3. ASSUME NEW y PROVE PlaceStep(y)
  <2>1. CASE y = r
    BY <2>1, Zenon DEF Arrived, PlaceStep, Whole
  <2>2. CASE y # r
    <3>1. /\ CoresIn(eng', y) = CoresIn(eng, y) /\ QueuesIn(rt', y) = QueuesIn(rt, y)
          /\ Live(y)' <=> Live(y)
      BY <2>2, Zenon DEF Arrived
    <3>2. Stays(CoresIn(eng, y), CoresIn(eng', y)) /\ Stays(QueuesIn(rt, y), QueuesIn(rt', y))
      BY <3>1, Same
    <3>3. Place(y)
      BY DEF OnePlaceInv, PlaceInv
    <3> QED
      BY <2>2, <3>1, <3>2, <3>3, StepStays, Zenon
  <2> QED
    BY <2>1, <2>2
<1> QED
  BY <1>2, <1>3, Assembled

\* A sequence that is left alone.
LEMMA Unmoved ==
    ASSUME NEW q, Listed(q)
    PROVE  Evolves(q, q, {})
BY DEF Evolves, Kept

\* dispatch_router_admissions: from the queue of the router to a core.
LEMMA DrainPlaces ==
    ASSUME OnePlaceInv, ReplayInv', Drain
    PROVE  OnePlaceInv'
<1> DEFINE st == Head(work).st
<1>1. Head(work) \in Entries(work) /\ Sound(Tail(work)) /\ Head(work).op = "drain" /\ Listed(work) /\ work # <<>>
  BY SoundTail DEF OnePlaceInv, Sound, Drain
<1>2. st \in Active
  BY <1>1 DEF OnePlaceInv, Sound
<1>3. CASE Fail
  BY <1>3, FrozenPlaces DEF Fail
<1>4. ASSUME NEW r \in rt[st].pending, Admit(st, r),
             UNCHANGED <<conf, driverVars, rr, events, work>>
      PROVE  OnePlaceInv'
  <2>1. st \in QueuesIn(rt, r)
    BY <1>2 DEF QueuesIn
  <2>2. /\ Live(r) /\ CoresIn(eng, r) = {} /\ One(QueuesIn(rt, r)) /\ HeapOf(events, r) = {} /\ HandOf(work, r) = {}
    <3>1. Place(r)
      BY DEF OnePlaceInv, PlaceInv
    <3> QED
      BY <2>1, <3>1, Zenon DEF Place, Whole
  <2>3. QueuesIn(rt, r) \subseteq {st}
    BY <2>1, <2>2 DEF One
  <2>4. Arrived(r)
    BY <1>2, <1>4, <2>2, <2>3, AdmitPlaces DEF OnePlaceInv, ReplayInv
  <2>5. RotaInv'
    <3>1. Active' = Active
      BY <1>4 DEF Active
    <3> QED
      BY <1>4, <3>1 DEF OnePlaceInv, RotaInv
  <2>6. TurnInv'
    <3>1. DOMAIN requests' = DOMAIN requests /\ \A x \in DOMAIN requests : Live(x)' => Live(x)
      BY <2>2, <2>4, Zenon DEF Arrived, Live
    <3> QED
      BY <1>4, <3>1, TurnSame DEF OnePlaceInv, driverVars
  <2>7. Evolves(events, events', {})
    BY <1>4, Unmoved DEF OnePlaceInv
  <2>8. Sound(work') /\ HeapOf(events', r) = {} /\ HandOf(work', r) = {}
    BY <1>4, <2>2 DEF OnePlaceInv
  <2>9. \A y : Stays(HeapOf(events, y), HeapOf(events', y)) /\ Stays(HandOf(work, y), HandOf(work', y))
    BY <1>4, Same
  <2>10. conf' = conf
    BY <1>4
  <2> QED
    BY <2>4, <2>5, <2>6, <2>7, <2>8, <2>9, <2>10, ArrivedPlaces
<1>5. ASSUME work' = Tail(work), UNCHANGED <<conf, driverVars, requests, eng, rr, rt, events>>
      PROVE  OnePlaceInv'
  <2>1. \A y : \A x \in {Head(work)} : ~Carries(x, y)
    BY <1>1 DEF Carries
  <2>2. Evolves(work, Tail(work), {Head(work)})
    BY <1>1, Popped, Zenon
  <2>3. \A y : Stays(HandOf(work, y), HandOf(work', y))
    BY <1>5, <2>1, <2>2, HandStays
  <2>4. \A y : Live(y)' <=> Live(y)
    BY <1>5 DEF Live, Finished
  <2>5. UNCHANGED <<ready, turn, requests>>
    BY <1>5 DEF driverVars
  <2>6. TurnInv'
    BY <2>4, <2>5, TurnSame DEF OnePlaceInv
  <2>7. \A y : QueuesIn(rt', y) = QueuesIn(rt, y)
    BY <1>5
  <2>8. \A y : PlaceStep(y)
    BY <1>5, <2>3, <2>4, Same, StepStays DEF OnePlaceInv, PlaceInv
  <2>9. Sound(work') /\ UNCHANGED <<eng, rr, events>> /\ conf' = conf
    BY <1>1, <1>5
  <2> QED
    BY <2>6, <2>7, <2>8, <2>9, InHand
<1> QED
  BY <1>3, <1>4, <1>5, Zenon DEF Drain

\* A live request that is given another phase is in its turn still.
LEMMA TurnStill ==
    ASSUME OnePlaceInv, NEW r, Live(r), Arrived(r), UNCHANGED driverVars
    PROVE  TurnInv'
<1>1. DOMAIN requests' = DOMAIN requests /\ \A x \in DOMAIN requests : Live(x)' => Live(x)
  BY Zenon DEF Arrived, Live
<1> QED
  BY <1>1, TurnSame DEF OnePlaceInv, driverVars

\* The prefill is done: the request leaves the work in hand for the event of its handoff.
LEMMA HandOverPlaces ==
    ASSUME OnePlaceInv, ReplayInv', HandOver
    PROVE  OnePlaceInv'
<1>0. PICK r : Head(work).r = r
  OBVIOUS
<1>1. /\ Head(work) \in Entries(work) /\ Sound(Tail(work)) /\ Head(work).op = "handoff" /\ Listed(work)
      /\ work # <<>> /\ Listed(events)
  BY SoundTail DEF OnePlaceInv, Sound, HandOver
<1>2. "Decode" \in Active
  <2>1. conf.kind = "disagg"
    BY <1>1 DEF OnePlaceInv, Sound
  <2> QED
    BY <2>1 DEF Active
<1>3. Carries(Head(work), r) /\ \A y : y # r => ~Carries(Head(work), y)
  BY <1>0, <1>1 DEF Carries
<1>4. HandOf(work, r) # {}
  <2>1. PICK k \in DOMAIN work : work[k] = Head(work)
    BY <1>1 DEF Entries
  <2>2. k \in HandOf(work, r)
    BY <1>3, <2>1, Zenon DEF HandOf
  <2> QED
    BY <2>2
<1>5. /\ Live(r) /\ CoresIn(eng, r) = {} /\ QueuesIn(rt, r) = {} /\ HeapOf(events, r) = {} /\ One(HandOf(work, r))
  BY <1>4, HeldInHand DEF OnePlaceInv, PlaceInv
<1>6. HandOf(Tail(work), r) = {}
  BY <1>1, <1>3, <1>5, HandLeaves, Zenon
<1>7. \A y : y # r => Stays(HandOf(work, y), HandOf(Tail(work), y))
  <2>1. Evolves(work, Tail(work), {Head(work)})
    BY <1>1, Popped, Zenon
  <2>2. \A y : y # r => \A x \in {Head(work)} : ~Carries(x, y)
    BY <1>3
  <2> QED
    BY <2>1, <2>2, HandStays
<1>8. CASE Fail
  BY <1>8, FrozenPlaces DEF Fail
<1>9. ASSUME NEW d, events' = Pushed(events, Handoff(now + d, r)), work' = Tail(work),
             UNCHANGED <<conf, driverVars, requests, eng, rr, rt>>
      PROVE  OnePlaceInv'
  <2> DEFINE x == Handoff(now + d, r)
  <2>1. x.kind = "handoff" /\ x.r = r
    BY DEF Handoff
  <2> HIDE DEF x
  <2>2. Evolves(events, events', {x})
    BY <1>1, <1>9, PushedEvolves DEF x
  <2>3. Holds(x, r) /\ \A y : y # r => ~Holds(x, y)
    BY <2>1 DEF Holds
  <2>4. One(HeapOf(events', r))
    BY <1>1, <1>5, <1>9, <2>3, HeapEnters DEF x
  <2>5. \A y : y # r => Stays(HeapOf(events, y), HeapOf(events', y))
    BY <2>2, <2>3, HeapStays
  <2>6. \A y : Live(y)' <=> Live(y)
    BY <1>9 DEF Live, Finished
  <2>7. TurnInv' /\ RotaInv'
    <3>1. UNCHANGED <<ready, turn, requests>> /\ Active' = Active
      BY <1>9 DEF driverVars, Active
    <3> QED
      BY <1>9, <2>6, <3>1, TurnSame DEF OnePlaceInv, RotaInv
  <2>8. Fit(eng', events') /\ Heard(eng', events') /\ Listed(events')
    <3>1. Fit(eng, events') /\ Heard(eng, events')
      BY <2>1, <2>2, FitStays DEF OnePlaceInv
    <3> QED
      BY <1>9, <2>2, <3>1 DEF Evolves
  <2>9. ASSUME NEW y PROVE PlaceStep(y)
    <3>1. CASE y = r
      <4>1. HandOf(work', r) = {} /\ CoresIn(eng', r) = {} /\ QueuesIn(rt', r) = {}
        BY <1>5, <1>6, <1>9
      <4> QED
        BY <1>5, <2>4, <2>6, <3>1, <4>1, Zenon DEF PlaceStep, Whole
    <3>2. CASE y # r
      <4>1. Stays(CoresIn(eng, y), CoresIn(eng', y)) /\ Stays(QueuesIn(rt, y), QueuesIn(rt', y))
        BY <1>9, Same
      <4>2. Stays(HandOf(work, y), HandOf(work', y)) /\ Place(y)
        BY <1>7, <1>9, <3>2 DEF OnePlaceInv, PlaceInv
      <4> QED
        BY <2>5, <2>6, <3>2, <4>1, <4>2, StepStays, Zenon
    <3> QED
      BY <3>1, <3>2
  <2>10. Sound(work') /\ conf' = conf
    BY <1>1, <1>9
  <2> QED
    BY <2>7, <2>8, <2>9, <2>10, Assembled
<1>10. ASSUME Enter("Decode", r), work' = Tail(work), UNCHANGED <<conf, driverVars, events>>
       PROVE  OnePlaceInv'
  <2>1. Arrived(r)
    BY <1>2, <1>5, <1>10, EnterPlaces DEF OnePlaceInv, ReplayInv
  <2>2. RotaInv'
    BY <1>2, <1>10, RotaKept DEF OnePlaceInv, ReplayInv
  <2>3. TurnInv'
    BY <1>5, <1>10, <2>1, TurnStill
  <2>4. Evolves(events, events', {}) /\ HeapOf(events', r) = {} /\ Sound(work') /\ HandOf(work', r) = {} /\ conf' = conf
    BY <1>1, <1>5, <1>6, <1>10, Unmoved
  <2>5. \A y : y # r => Stays(HeapOf(events, y), HeapOf(events', y)) /\ Stays(HandOf(work, y), HandOf(work', y))
    BY <1>7, <1>10, Same
  <2> QED
    BY <2>1, <2>2, <2>3, <2>4, <2>5, ArrivedPlaces
<1> QED
  BY <1>0, <1>8, <1>9, <1>10, Zenon DEF HandOver

\* A request that an event holds is nowhere else.
LEMMA HeldInHeap ==
    ASSUME NEW r, Place(r), HeapOf(events, r) # {}
    PROVE  /\ Live(r) /\ One(HeapOf(events, r)) /\ CoresIn(eng, r) = {} /\ QueuesIn(rt, r) = {}
           /\ HandOf(work, r) = {}
BY Zenon DEF Place, Whole

\* The next event is handled.
LEMMA NextEvent ==
    ASSUME OnePlaceInv, events # <<>>, NEW e, e = Head(events)
    PROVE  /\ e \in Entries(events) /\ Listed(events) /\ Evolves(events, Tail(events), {e})
           /\ \A r : Holds(e, r) =>
                /\ Live(r) /\ One(HeapOf(events, r)) /\ CoresIn(eng, r) = {} /\ QueuesIn(rt, r) = {}
                /\ HandOf(work, r) = {} /\ HeapOf(Tail(events), r) = {}
           /\ \A r : ~Holds(e, r) => Stays(HeapOf(events, r), HeapOf(Tail(events), r))
<1>1. e \in Entries(events) /\ Listed(events) /\ Evolves(events, Tail(events), {e})
  BY Popped, Zenon DEF OnePlaceInv
<1>2. ASSUME NEW r, Holds(e, r)
      PROVE  /\ Live(r) /\ One(HeapOf(events, r)) /\ CoresIn(eng, r) = {} /\ QueuesIn(rt, r) = {}
             /\ HandOf(work, r) = {} /\ HeapOf(Tail(events), r) = {}
  <2>1. PICK k \in DOMAIN events : events[k] = e
    BY <1>1 DEF Entries
  <2>2. k \in HeapOf(events, r)
    BY <1>2, <2>1, Zenon DEF HeapOf
  <2>3. /\ Live(r) /\ One(HeapOf(events, r)) /\ CoresIn(eng, r) = {} /\ QueuesIn(rt, r) = {}
        /\ HandOf(work, r) = {}
    BY <2>2, HeldInHeap DEF OnePlaceInv, PlaceInv
  <2>4. HeapOf(Tail(events), r) = {}
    BY <1>1, <1>2, <2>3, HeapLeaves, Zenon
  <2> QED
    BY <2>3, <2>4
<1>3. ASSUME NEW r, ~Holds(e, r) PROVE Stays(HeapOf(events, r), HeapOf(Tail(events), r))
  <2>1. \A x \in {e} : ~Holds(x, r)
    BY <1>3
  <2> QED
    BY <1>1, <2>1, HeapStays
<1> QED
  BY <1>1, <1>2, <1>3

\* No work in hand carries nothing.
LEMMA NoWork == work = <<>> => \A r : HandOf(work, r) = {}
<1>1. work = <<>> => DOMAIN work = {}
  BY NoneEmpty
<1> QED
  BY <1>1 DEF HandOf

\* apply_decode_handoffs: from the event to the decode stage.
LEMMA HandoffPlaces ==
    ASSUME OnePlaceInv, ReplayInv', DecodeHandoff
    PROVE  OnePlaceInv'
<1> DEFINE e == Head(events)
<1>0. PICK r : e.r = r
  OBVIOUS
<1>1. events # <<>> /\ e.kind = "handoff" /\ pc = "handoffs"
  BY DEF DecodeHandoff, Due, At
<1>2. "Decode" \in Active
  BY <1>1 DEF OnePlaceInv, ReplayInv, RoundInv, Active
<1>3. Holds(e, r) /\ \A y : y # r => ~Holds(e, y)
  BY <1>0, <1>1 DEF Holds
<1>4. /\ Evolves(events, Tail(events), {e})
      /\ Live(r) /\ CoresIn(eng, r) = {} /\ QueuesIn(rt, r) = {}
      /\ HandOf(work, r) = {} /\ HeapOf(Tail(events), r) = {}
      /\ \A y : y # r => Stays(HeapOf(events, y), HeapOf(Tail(events), y))
  BY <1>1, <1>3, NextEvent, Zenon
<1>5. CASE Fail
  BY <1>5, FrozenPlaces DEF Fail
<1> HIDE DEF e
<1>6. ASSUME Enter("Decode", r), events' = Tail(events), UNCHANGED <<conf, driverVars, work>>
      PROVE  OnePlaceInv'
  <2>1. Arrived(r)
    BY <1>2, <1>4, <1>6, EnterPlaces DEF OnePlaceInv, ReplayInv
  <2>2. RotaInv'
    BY <1>2, <1>6, RotaKept DEF OnePlaceInv, ReplayInv
  <2>3. TurnInv'
    BY <1>4, <1>6, <2>1, TurnStill
  <2>4. Evolves(events, events', {e}) /\ HeapOf(events', r) = {} /\ Sound(work') /\ HandOf(work', r) = {} /\ conf' = conf
    BY <1>4, <1>6 DEF OnePlaceInv
  <2>5. \A y : y # r => Stays(HeapOf(events, y), HeapOf(events', y)) /\ Stays(HandOf(work, y), HandOf(work', y))
    BY <1>4, <1>6, Same
  <2> QED
    BY <1>1, <2>1, <2>2, <2>3, <2>4, <2>5, ArrivedPlaces
<1> QED
  BY <1>0, <1>5, <1>6, Zenon DEF DecodeHandoff, e

\* A ready turn is released into the first stage.
LEMMA ArrivePlaces ==
    ASSUME OnePlaceInv, ReplayInv', Arrive
    PROVE  OnePlaceInv'
<1>0. PICK r : r = <<Head(ready).s, Head(ready).t>>
  OBVIOUS
<1>1. ready # <<>> /\ TurnInv
  BY DEF Arrive, MayRelease, OnePlaceInv
<1>2. r \notin DOMAIN requests
  BY <1>0, <1>1, TurnReleased
<1>3. CoresIn(eng, r) = {} /\ QueuesIn(rt, r) = {} /\ HeapOf(events, r) = {} /\ HandOf(work, r) = {}
  <2>1. ~Live(r) /\ Place(r)
    BY <1>2 DEF Live, OnePlaceInv, PlaceInv
  <2> QED
    BY <2>1, Zenon DEF Place
<1>4. CASE Fail
  BY <1>4, FrozenPlaces DEF Fail
<1>5. ASSUME Enter(First, r), ready' = Tail(ready), UNCHANGED <<conf, turn, events, work>>
      PROVE  OnePlaceInv'
  <2>2. Arrived(r)
    BY <1>3, <1>5, Stages, EnterPlaces DEF OnePlaceInv, ReplayInv
  <2>3. RotaInv'
    BY <1>5, Stages, RotaKept DEF OnePlaceInv, ReplayInv
  <2>4. TurnInv'
    <3>1. DOMAIN requests' = DOMAIN requests \cup {r} /\ \A x : x # r => (Live(x)' <=> Live(x))
      BY <2>2, Zenon DEF Arrived
    <3> QED
      BY <1>0, <1>1, <1>5, <3>1, TurnArrives
  <2>5. /\ Evolves(events, events', {}) /\ HeapOf(events', r) = {} /\ Sound(work') /\ HandOf(work', r) = {}
        /\ conf' = conf
    BY <1>3, <1>5, Unmoved DEF OnePlaceInv
  <2>6. \A y : y # r => Stays(HeapOf(events, y), HeapOf(events', y)) /\ Stays(HandOf(work, y), HandOf(work', y))
    BY <1>5, Same
  <2> QED
    BY <2>2, <2>3, <2>4, <2>5, <2>6, ArrivedPlaces
<1> QED
  BY <1>0, <1>4, <1>5, Zenon DEF Arrive

\* The queue of a stage is looked at, and nothing else is in hand.
LEMMA OnlyDrain ==
    ASSUME NEW st \in Active
    PROVE  Sound(DrainOf(st)) /\ \A r : HandOf(DrainOf(st), r) = {}
<1>1. \A y : Sound(<<>>) /\ HandOf(<<>>, y) = {}
  <2>1. <<>> \in Seq({}) /\ DOMAIN <<>> = {}
    OBVIOUS
  <2> QED
    BY <2>1 DEF Sound, HandOf, Listed, Entries
<1>2. DrainOf(st) \o <<>> = DrainOf(st)
  <2>1. \A y : <<>> \in Seq({y}) /\ <<y>> \in Seq({y})
    OBVIOUS
  <2>2. DrainOf(st) \in Seq({[op |-> "drain", st |-> st]})
    BY <2>1, Zenon DEF DrainOf
  <2> QED
    BY <2>2, ConcatEmptySeq
<1>3. Sound(DrainOf(st) \o <<>>) /\ \A r : Stays(HandOf(<<>>, r), HandOf(DrainOf(st) \o <<>>, r))
  BY <1>1, DrainHands
<1> QED
  BY <1>1, <1>2, <1>3 DEF Stays

\* A request is where it was, but for the events and the hands.
LEMMA EngineSameCores ==
    ASSUME NEW g, NEW h, \A st \in Active : DOMAIN h[st].workers = DOMAIN g[st].workers,
           \A st \in Active : \A i \in DOMAIN g[st].workers : h[st].workers[i] = g[st].workers[i]
    PROVE  \A r : CoresIn(h, r) = CoresIn(g, r)
<1>1. ASSUME NEW r, NEW p \in Active \X Nat PROVE p \in CoresIn(h, r) <=> p \in CoresIn(g, r)
  <2>1. p[1] \in Active
    OBVIOUS
  <2> QED
    BY <2>1, Zenon DEF CoresIn
<1> QED
  BY <1>1 DEF CoresIn

\* A worker that has started is made known to the router.
LEMMA ReadyPlaces ==
    ASSUME OnePlaceInv, ReplayInv', WorkerReady
    PROVE  OnePlaceInv'
<1> DEFINE e == Head(events)  s == e.st  i == e.worker
<1>1. events # <<>> /\ e.kind = "ready" /\ work = <<>>
  BY DEF WorkerReady, Due, At
<1>2. \A r : ~Holds(e, r)
  BY <1>1 DEF Holds
<1>3. /\ e \in Entries(events) /\ Evolves(events, Tail(events), {e})
      /\ \A y : Stays(HeapOf(events, y), HeapOf(Tail(events), y))
  BY <1>1, <1>2, NextEvent, Zenon
<1>4. s \in Active
  BY <1>1, <1>3 DEF OnePlaceInv, Heard
<1>5. /\ eng' = [eng EXCEPT ![s].starting = @ \ {i}]
      /\ IF MarkReady(s, i) THEN rt' = [rt EXCEPT ![s].known = @ \cup {i}] /\ work' = DrainOf(s)
         ELSE rt' = rt /\ work' = work
      /\ events' = Tail(events) /\ UNCHANGED <<conf, ready, turn, requests, rr>>
  BY Zenon DEF WorkerReady, AddReady, driverVars
<1> HIDE DEF e, s, i
<1>6. /\ DOMAIN eng = Active /\ DOMAIN rt = Active /\ \A st \in Active : EngineRecord(eng[st])
      /\ \A st \in Active : DOMAIN rt[st] = {"known", "pending", "slots", "heavy"}
  BY DEF OnePlaceInv, ReplayInv, EngineInv, KnownInv
<1>7. \A st \in Active : eng'[st].workers = eng[st].workers /\ eng'[st].starting \subseteq eng[st].starting
  BY <1>4, <1>5, <1>6 DEF EngineRecord
<1>8. \A st \in Active : rt'[st].pending = rt[st].pending
  BY <1>4, <1>5, <1>6
<1>9. \A r : CoresIn(eng', r) = CoresIn(eng, r) /\ QueuesIn(rt', r) = QueuesIn(rt, r)
  BY <1>7, <1>8, EngineSameCores DEF QueuesIn
<1>10. Fit(eng', events') /\ Heard(eng', events') /\ Listed(events')
  <2>1. Fit(eng', events)
    BY <1>7 DEF OnePlaceInv, Fit
  <2>2. Heard(eng', events)
    BY <1>7 DEF OnePlaceInv, Heard
  <2> QED
    BY <1>1, <1>3, <1>4, <1>5, <2>1, <2>2, FitStays DEF Evolves, s
<1>11. Sound(work') /\ \A y : HandOf(work', y) = {}
  BY <1>1, <1>4, <1>5, OnlyDrain, NoWork, Zenon DEF OnePlaceInv
<1>12. \A y : Live(y)' <=> Live(y)
  BY <1>5 DEF Live, Finished
<1>13. TurnInv' /\ RotaInv' /\ conf' = conf
  <2>1. Active' = Active
    BY <1>5 DEF Active
  <2> QED
    BY <1>5, <1>12, <2>1, TurnSame DEF OnePlaceInv, RotaInv
<1>14. ASSUME NEW y PROVE PlaceStep(y)
  <2>1. HandOf(work, y) = {} /\ HandOf(work', y) = {} /\ Place(y)
    BY <1>1, <1>11, NoWork DEF OnePlaceInv, PlaceInv
  <2>2. /\ Stays(HandOf(work, y), HandOf(work', y)) /\ Stays(CoresIn(eng, y), CoresIn(eng', y))
        /\ Stays(QueuesIn(rt, y), QueuesIn(rt', y)) /\ Stays(HeapOf(events, y), HeapOf(events', y))
    BY <1>3, <1>5, <1>9, <2>1, Same
  <2> QED
    BY <1>12, <2>1, <2>2, StepStays, Zenon
<1> QED
  BY <1>10, <1>11, <1>13, <1>14, Assembled

\* A worker whose completion is scheduled is busy, and has only that one.
LEMMA OneComing ==
    ASSUME NEW w, NEW q, NEW st, NEW i, Exact(w, q, st, i), NEW k \in DOMAIN q, Completes(q[k], st, i)
    PROVE  w.busy /\ Coming(q, st, i) = {k} /\ w.in_flight = Cardinality(DOMAIN w.core) + Done(q[k].signals)
<1>1. k \in Coming(q, st, i)
  BY DEF Coming
<1> QED
  BY <1>1 DEF Exact

\* The requests that end with a pass are counted by a natural number.
LEMMA DoneCount ==
    ASSUME NEW set, Outcomes(set)
    PROVE  Done(set) \in Nat
<1>1. IsFiniteSet({y \in set : y.done})
  BY FS_Subset DEF Outcomes
<1> QED
  BY <1>1, FS_CardinalityType DEF Done

\* on_scheduled_completion: what the pass ended goes from the event to the work in hand.
LEMMA CompletionPlaces ==
    ASSUME OnePlaceInv, ReplayInv', WorkerCompletion
    PROVE  OnePlaceInv'
<1> DEFINE e == Head(events)  s == e.st  i == e.worker  n == Done(e.signals)
           f == Completed(eng[s], i, n)
           x == [op |-> "signals", st |-> s, set |-> e.signals]
<1>1. CASE Fail
  BY <1>1, FrozenPlaces DEF Fail
<1>2. CASE /\ eng' = [eng EXCEPT ![s] = Completed(@, i, n)] /\ work' = <<x>> /\ events' = Tail(events)
           /\ UNCHANGED <<conf, driverVars, requests, rr, rt>>
  <2>1. events # <<>> /\ e.kind = "completion" /\ work = <<>> /\ Listed(events)
    BY DEF WorkerCompletion, Due, At, OnePlaceInv
  <2>2. x = [op |-> "signals", st |-> x.st, set |-> x.set] /\ x.op = "signals" /\ x.st = s /\ x.set = e.signals
    OBVIOUS
  <2>3. /\ e \in Entries(events) /\ Evolves(events, Tail(events), {e})
        /\ \A r : Holds(e, r) =>
             /\ Live(r) /\ CoresIn(eng, r) = {} /\ QueuesIn(rt, r) = {} /\ HeapOf(Tail(events), r) = {}
        /\ \A r : ~Holds(e, r) => Stays(HeapOf(events, r), HeapOf(Tail(events), r))
    BY <2>1, NextEvent, Zenon
  <2>4. e = events[1] /\ 1 \in DOMAIN events /\ e = Head(events)
    <3>1. PICK S : events \in Seq(S)
      BY <2>1 DEF Listed
    <3> QED
      BY <2>1, <3>1
  <2> HIDE DEF e, x
  <2>5. s \in Active /\ i \in DOMAIN eng[s].workers /\ Outcomes(e.signals)
    BY <2>1, <2>3 DEF OnePlaceInv, Heard
  <2>6. DOMAIN eng = Active /\ \A st \in Active : EngineRecord(eng[st])
    BY DEF OnePlaceInv, ReplayInv, EngineInv
  <2>7. n \in Nat
    BY <2>5, DoneCount
  <2>8. Completes(e, s, i) /\ \A st, j : Completes(e, st, j) => st = s /\ j = i
    BY <2>1 DEF Completes
  <2> DEFINE w == eng[s].workers[i]  v == f.workers[i]
  <2>9. /\ DOMAIN f.workers \subseteq DOMAIN eng[s].workers /\ f.starting = eng[s].starting
        /\ \A j \in DOMAIN f.workers : j # i => f.workers[j] = eng[s].workers[j]
        /\ i \in DOMAIN f.workers =>
             ~v.busy /\ v.core = w.core /\ v.in_flight = IF w.in_flight < n THEN 0 ELSE w.in_flight - n
        /\ \A j \in DOMAIN eng[s].workers \ DOMAIN f.workers :
             /\ DOMAIN eng[s].workers[j].core = {} /\ j \in eng[s].leaving /\ (j # i => ~eng[s].workers[j].busy)
    BY <2>5, <2>6, CompletedWorkers, Zenon
  <2>10. /\ IsFiniteSet(DOMAIN w.core) /\ Exact(w, events, s, i)
         /\ i \in eng[s].starting => ~w.busy /\ DOMAIN w.core = {}
    BY <2>5 DEF OnePlaceInv, Fit
  <2>11. Coming(events, s, i) = {1} /\ w.in_flight = Cardinality(DOMAIN w.core) + n /\ w.busy
    BY <2>4, <2>8, <2>10, OneComing
  <2>12. Coming(events', s, i) = {}
    <3>1. One(Coming(events, s, i))
      BY <2>11 DEF One
    <3>2. Completes(Head(events), s, i)
      BY <2>4, <2>8
    <3> QED
      BY <1>2, <2>1, <3>1, <3>2, ComingLeaves, Zenon
  <2>13. eng'[s] = f /\ \A st \in Active : st # s => eng'[st] = eng[st]
    BY <1>2, <2>5, <2>6
  <2> HIDE DEF f
  <2>14. ASSUME NEW st \in Active, NEW j \in DOMAIN eng'[st].workers
         PROVE  /\ j \in DOMAIN eng[st].workers
                /\ <<st, j>> # <<s, i>> => eng'[st].workers[j] = eng[st].workers[j]
                /\ eng'[st].workers[j].core = eng[st].workers[j].core
                /\ eng'[st].starting = eng[st].starting
    BY <2>9, <2>13
  <2>15. ASSUME NEW st \in Active, NEW j \in DOMAIN eng[st].workers, j \notin DOMAIN eng'[st].workers
         PROVE  DOMAIN eng[st].workers[j].core = {} /\ (<<st, j>> # <<s, i>> => ~eng[st].workers[j].busy)
    BY <2>9, <2>13, <2>15
  <2>16. ASSUME NEW r PROVE CoresIn(eng', r) = CoresIn(eng, r)
    <3>1. ASSUME NEW st \in Active, NEW j \in Nat
          PROVE  <<st, j>> \in CoresIn(eng', r) <=> <<st, j>> \in CoresIn(eng, r)
      BY <2>14, <2>15 DEF CoresIn
    <3> QED
      BY <3>1 DEF CoresIn
  <2>17. Fit(eng', events')
    <3>1. ASSUME NEW st \in Active, NEW j \in DOMAIN eng'[st].workers
          PROVE  /\ IsFiniteSet(DOMAIN eng'[st].workers[j].core) /\ Exact(eng'[st].workers[j], events', st, j)
                 /\ j \in eng'[st].starting => ~eng'[st].workers[j].busy /\ DOMAIN eng'[st].workers[j].core = {}
      <4>1. CASE <<st, j>> = <<s, i>>
        <5>1. i \in DOMAIN f.workers /\ eng'[st].workers[j] = v
          BY <2>13, <4>1
        <5>2. ~v.busy /\ v.core = w.core /\ v.in_flight = IF w.in_flight < n THEN 0 ELSE w.in_flight - n
          BY <2>9, <5>1
        <5>3. Cardinality(DOMAIN w.core) \in Nat
          BY <2>10, FS_CardinalityType
        <5>4. v.in_flight = Cardinality(DOMAIN v.core)
          <6> HIDE DEF v, w, n
          <6> QED
            BY <2>7, <2>11, <5>2, <5>3
        <5>5. Exact(v, events', s, i)
          BY <2>12, <5>2, <5>4 DEF Exact
        <5>6. i \notin eng'[s].starting
          BY <2>9, <2>10, <2>11, <2>13
        <5> QED
          BY <2>10, <4>1, <5>1, <5>2, <5>5, <5>6
      <4>2. CASE <<st, j>> # <<s, i>>
        <5>1. j \in DOMAIN eng[st].workers /\ eng'[st].workers[j] = eng[st].workers[j] /\ eng'[st].starting = eng[st].starting
          BY <2>14, <4>2
        <5>2. /\ IsFiniteSet(DOMAIN eng[st].workers[j].core) /\ Exact(eng[st].workers[j], events, st, j)
              /\ j \in eng[st].starting => ~eng[st].workers[j].busy /\ DOMAIN eng[st].workers[j].core = {}
          BY <5>1 DEF OnePlaceInv, Fit
        <5>3. \A y \in {e} : ~Completes(y, st, j)
          BY <2>8, <4>2
        <5>4. Evolves(events, events', {e})
          BY <1>2, <2>3
        <5>5. Exact(eng[st].workers[j], events', st, j)
          BY <5>2, <5>3, <5>4, ExactStays
        <5> QED
          BY <5>1, <5>2, <5>5
      <4> QED
        BY <4>1, <4>2
    <3> QED
      BY <3>1, Zenon DEF Fit
  <2>18. Heard(eng', events')
    <3>1. Entries(events') \subseteq Entries(events)
      BY <1>2, <2>1, Popped, Zenon
    <3>2. ASSUME NEW y \in Entries(events'), y.kind = "completion"
          PROVE  y.worker \in DOMAIN eng'[y.st].workers
      <4> DEFINE st == y.st  j == y.worker
      <4>1. st \in Active /\ j \in DOMAIN eng[st].workers /\ Completes(y, st, j)
        BY <3>1, <3>2 DEF OnePlaceInv, Heard, Completes
      <4>2. PICK k \in DOMAIN events' : events'[k] = y
        BY DEF Entries
      <4>3. <<st, j>> # <<s, i>>
        BY <2>12, <4>1, <4>2 DEF Coming
      <4>4. PICK l \in DOMAIN events : events[l] = y
        BY <3>1 DEF Entries
      <4>5. Exact(eng[st].workers[j], events, st, j)
        BY <4>1 DEF OnePlaceInv, Fit
      <4>6. eng[st].workers[j].busy
        BY <4>1, <4>4, <4>5, OneComing
      <4> HIDE DEF st, j
      <4>7. j \in DOMAIN eng'[st].workers
        BY <2>15, <4>1, <4>3, <4>6
      <4> QED
        BY <4>7 DEF st, j
    <3> QED
      BY <3>1, <3>2 DEF OnePlaceInv, Heard
  <2>19. Listed(events') /\ Sound(work')
    <3>1. Listed(events')
      BY <1>2, <2>3 DEF Evolves
    <3>2. Listed(<<x>>) /\ Entries(<<x>>) = {x}
      BY SingleHit
    <3> QED
      BY <1>2, <2>2, <2>5, <3>1, <3>2 DEF Sound
  <2>20. \A y : Live(y)' <=> Live(y)
    BY <1>2 DEF Live, Finished
  <2>21. TurnInv' /\ RotaInv' /\ conf' = conf
    <3>1. Active' = Active /\ UNCHANGED <<ready, turn, requests, rr, conf>>
      BY <1>2 DEF Active, driverVars
    <3> QED
      BY <2>20, <3>1, TurnSame DEF OnePlaceInv, RotaInv
  <2>22. ASSUME NEW y PROVE PlaceStep(y)
    <3>1. Carries(x, y) <=> Holds(e, y)
      BY <2>1, <2>2 DEF Carries, Holds
    <3>2. HandOf(work', y) = IF Carries(x, y) THEN {1} ELSE {}
      <4>1. DOMAIN <<x>> = {1} /\ <<x>>[1] = x
        OBVIOUS
      <4> QED
        BY <1>2, <4>1 DEF HandOf
    <3>3. CASE Holds(e, y)
      <4>1. /\ One(HandOf(work', y)) /\ HeapOf(events', y) = {} /\ CoresIn(eng', y) = {} /\ QueuesIn(rt', y) = {}
            /\ Live(y)
        BY <1>2, <2>3, <2>16, <3>1, <3>2, <3>3 DEF One
      <4> QED
        BY <2>20, <4>1, Zenon DEF PlaceStep, Whole
    <3>4. CASE ~Holds(e, y)
      <4>1. HandOf(work, y) = {} /\ HandOf(work', y) = {} /\ Place(y)
        BY <2>1, <3>1, <3>2, <3>4, NoWork DEF OnePlaceInv, PlaceInv
      <4>2. /\ Stays(HandOf(work, y), HandOf(work', y)) /\ Stays(CoresIn(eng, y), CoresIn(eng', y))
            /\ Stays(QueuesIn(rt, y), QueuesIn(rt', y)) /\ Stays(HeapOf(events, y), HeapOf(events', y))
        BY <1>2, <2>3, <2>16, <3>4, <4>1, Same
      <4> QED
        BY <2>20, <4>1, <4>2, StepStays, Zenon
    <3> QED
      BY <3>3, <3>4
  <2> QED
    BY <2>17, <2>18, <2>19, <2>21, <2>22, Assembled
<1> QED
  BY <1>1, <1>2, Zenon DEF WorkerCompletion

\* The workers that a target adds are counted by a natural number.
LEMMA AddedCount ==
    ASSUME NEW e, NEW target \in Nat, EngineRecord(e)
    PROVE  Cardinality(ApplyTarget(e, target).added) \in Nat
<1> DEFINE effective == Cardinality(ActiveIds(e)) + Cardinality(e.starting)
           added == IF target > effective THEN e.next..(e.next + target - effective - 1) ELSE {}
<1>1. ApplyTarget(e, target).added = added
  BY DEF ApplyTarget
<1>2. IsFiniteSet(ActiveIds(e)) /\ IsFiniteSet(e.starting)
  <2>1. 0 \in Int /\ e.next - 1 \in Int
    BY DEF EngineRecord
  <2>2. IsFiniteSet(0..(e.next - 1))
    BY <2>1, FS_Interval
  <2>3. ActiveIds(e) \subseteq 0..(e.next - 1) /\ e.starting \subseteq 0..(e.next - 1)
    BY DEF EngineRecord, ActiveIds
  <2> QED
    BY <2>2, <2>3, FS_Subset
<1>3. effective \in Nat
  BY <1>2, FS_CardinalityType
<1> HIDE DEF effective
<1>4. IsFiniteSet(added)
  <2>1. e.next \in Int /\ e.next + target - effective - 1 \in Int
    BY <1>3 DEF EngineRecord
  <2>2. IsFiniteSet(e.next..(e.next + target - effective - 1))
    BY <2>1, FS_Interval
  <2> QED
    BY <2>2, FS_EmptySet
<1> QED
  BY <1>1, <1>4, FS_CardinalityType

\* The events of workers that start hold no request and complete nothing.
LEMMA StartsEvolve ==
    ASSUME NEW q, Listed(q), NEW n \in Nat, NEW st \in Active, NEW g, Fit(g, q), Heard(g, q)
    PROVE  LET f == StartEvents(q, st, n) IN
           Listed(f) /\ Fit(g, f) /\ Heard(g, f) /\ \A r : Stays(HeapOf(q, r), HeapOf(f, r))
<1> DEFINE f  == StartEvents(q, st, n)
           at == now + conf.startup
           xs == [k \in 1..n |-> Started(at, st, eng[st].next + k - 1)]
           ahead == {i \in DOMAIN q : q[i].at <= at}
<1>1. CASE conf.startup = 0
  <2>1. f = q
    BY <1>1 DEF StartEvents
  <2> QED
    BY <2>1, Same
<1>2. CASE conf.startup # 0
  <2>1. f = Inserted(q, xs, ahead)
    BY <1>2 DEF StartEvents
  <2>2. \A x \in Entries(xs) : x.kind = "ready" /\ x.st = st
    BY DEF Entries, Started
  <2>3. Listed(xs)
    <3>1. xs \in [1..n -> Entries(xs)]
      BY DEF Entries
    <3>2. xs \in Seq(Entries(xs))
      <4> HIDE DEF xs
      <4> QED
        BY <3>1, SeqDef
    <3> QED
      BY <3>2 DEF Listed
  <2>4. ahead \subseteq DOMAIN q
    OBVIOUS
  <2> HIDE DEF xs, ahead, f
  <2>5. Evolves(q, f, Entries(xs))
    BY <2>1, <2>3, <2>4, InsertedEvolves
  <2>6. \A r : \A x \in Entries(xs) : ~Holds(x, r)
    BY <2>2 DEF Holds
  <2>7. Fit(g, f) /\ Heard(g, f)
    BY <2>2, <2>5, FitStays
  <2>8. \A r : Stays(HeapOf(q, r), HeapOf(f, r))
    BY <2>5, <2>6, HeapStays
  <2>9. Listed(f)
    BY <2>5 DEF Evolves
  <2> QED
    BY <2>7, <2>8, <2>9 DEF f
<1> QED
  BY <1>1, <1>2

\* Who goes has nothing, and who comes has nothing yet.
LEMMA ScaledWorkers ==
    ASSUME OnePlaceInv, NEW target \in [Active -> Targets], NEW g,
           \A st \in Active : g[st] = ApplyTarget(eng[st], target[st]).e
    PROVE  Fit(g, events) /\ Heard(g, events) /\ \A r : CoresIn(g, r) = CoresIn(eng, r)
<1>1. ASSUME NEW st \in Active
      PROVE  /\ \A j \in DOMAIN g[st].workers :
                  IF j \in DOMAIN eng[st].workers THEN g[st].workers[j] = eng[st].workers[j]
                  ELSE g[st].workers[j] = Worker
             /\ \A j \in g[st].starting : j \in DOMAIN eng[st].workers => j \in eng[st].starting
             /\ \A j \in DOMAIN eng[st].workers \ DOMAIN g[st].workers :
                  j \in eng[st].starting \/ (DOMAIN eng[st].workers[j].core = {} /\ ~eng[st].workers[j].busy)
  <2>1. target[st] \in Nat /\ EngineRecord(eng[st])
    BY ReplayAssumption DEF OnePlaceInv, ReplayInv, EngineInv
  <2> QED
    BY <2>1, TargetWorkers
<1>2. ASSUME NEW st \in Active, NEW j \in DOMAIN eng[st].workers, j \notin DOMAIN g[st].workers
      PROVE  DOMAIN eng[st].workers[j].core = {} /\ ~eng[st].workers[j].busy
  BY <1>1, <1>2 DEF OnePlaceInv, Fit
<1>3. ASSUME NEW st \in Active, NEW j, NEW k \in DOMAIN events, Completes(events[k], st, j)
      PROVE  j \in DOMAIN eng[st].workers /\ eng[st].workers[j].busy
  <2>1. j \in DOMAIN eng[st].workers
    BY <1>3 DEF OnePlaceInv, Heard, Completes, Entries
  <2>2. Exact(eng[st].workers[j], events, st, j)
    BY <2>1 DEF OnePlaceInv, Fit
  <2> QED
    BY <1>3, <2>1, <2>2, OneComing
<1>4. ~Worker.busy /\ Worker.in_flight = 0 /\ DOMAIN Worker.core = {}
  BY NoneEmpty DEF Worker
<1>5. ASSUME NEW st \in Active, NEW j \in DOMAIN g[st].workers
      PROVE  /\ IsFiniteSet(DOMAIN g[st].workers[j].core) /\ Exact(g[st].workers[j], events, st, j)
             /\ j \in g[st].starting => ~g[st].workers[j].busy /\ DOMAIN g[st].workers[j].core = {}
  <2>1. CASE j \in DOMAIN eng[st].workers
    <3>1. g[st].workers[j] = eng[st].workers[j] /\ (j \in g[st].starting => j \in eng[st].starting)
      BY <1>1, <2>1
    <3> QED
      BY <2>1, <3>1 DEF OnePlaceInv, Fit
  <2>2. CASE j \notin DOMAIN eng[st].workers
    <3>1. g[st].workers[j] = Worker
      BY <1>1, <2>2
    <3>2. Coming(events, st, j) = {}
      BY <1>3, <2>2 DEF Coming
    <3>3. IsFiniteSet(DOMAIN Worker.core) /\ Cardinality(DOMAIN Worker.core) = 0
      BY <1>4, FS_EmptySet
    <3> QED
      BY <1>4, <3>1, <3>2, <3>3 DEF Exact
  <2> QED
    BY <2>1, <2>2
<1>6. Fit(g, events)
  BY <1>5, Zenon DEF Fit
<1>7. Heard(g, events)
  <2>1. ASSUME NEW e \in Entries(events), e.kind = "completion" PROVE e.worker \in DOMAIN g[e.st].workers
    <3>1. e.st \in Active
      BY <2>1 DEF OnePlaceInv, Heard
    <3>2. PICK k \in DOMAIN events : events[k] = e
      BY DEF Entries
    <3>3. Completes(events[k], e.st, e.worker)
      BY <2>1, <3>2 DEF Completes
    <3> QED
      BY <1>2, <1>3, <3>1, <3>3
  <2> QED
    BY <2>1 DEF OnePlaceInv, Heard
<1>8. ASSUME NEW r PROVE CoresIn(g, r) = CoresIn(eng, r)
  <2>1. ASSUME NEW st \in Active, NEW j \in Nat
        PROVE  <<st, j>> \in CoresIn(g, r) <=> <<st, j>> \in CoresIn(eng, r)
    <3>1. CASE j \in DOMAIN g[st].workers /\ j \in DOMAIN eng[st].workers
      <4>1. g[st].workers[j] = eng[st].workers[j]
        BY <1>1, <3>1
      <4> QED
        BY <3>1, <4>1 DEF CoresIn
    <3>2. CASE j \in DOMAIN g[st].workers /\ j \notin DOMAIN eng[st].workers
      <4>1. g[st].workers[j] = Worker
        BY <1>1, <3>2
      <4> QED
        BY <1>4, <3>2, <4>1 DEF CoresIn
    <3>3. CASE j \notin DOMAIN g[st].workers
      BY <1>2, <3>3 DEF CoresIn
    <3> QED
      BY <3>1, <3>2, <3>3
  <2> QED
    BY <2>1 DEF CoresIn
<1> QED
  BY <1>6, <1>7, <1>8

\* apply_scaling removes no worker that holds a request.
LEMMA ScalingPlaces ==
    ASSUME OnePlaceInv, ReplayInv', ApplyScaling
    PROVE  OnePlaceInv'
<1>1. PICK target \in [Active -> Targets] :
        LET to == [st \in Active |-> ApplyTarget(eng[st], target[st])] IN
        /\ eng' = [st \in Active |-> to[st].e]
        /\ rt' = [st \in Active |-> [rt[st] EXCEPT !.known =
                     (rt[st].known \cup (IF conf.startup = 0 THEN to[st].added ELSE {})) \ to[st].marked]]
        /\ IF conf.kind = "agg" THEN ScaleAgg(to) ELSE ScaleDisagg(to)
  BY DEF ApplyScaling
<1>2. UNCHANGED <<conf, ready, turn, requests, rr>> /\ work = <<>>
  BY DEF ApplyScaling, driverVars, At
<1> DEFINE to == [st \in Active |-> ApplyTarget(eng[st], target[st])]
           n(st) == Cardinality(to[st].added)
<1>3. \A st \in Active : eng'[st] = ApplyTarget(eng[st], target[st]).e
  BY <1>1
<1>4. \A st \in Active : rt'[st].pending = rt[st].pending
  <2>1. \A st \in Active : DOMAIN rt[st] = {"known", "pending", "slots", "heavy"}
    BY DEF OnePlaceInv, ReplayInv, KnownInv
  <2> QED
    BY <1>1, <2>1
<1>5. \A r : QueuesIn(rt', r) = QueuesIn(rt, r)
  BY <1>4 DEF QueuesIn
<1>6. Fit(eng', events) /\ Heard(eng', events) /\ Listed(events) /\ \A r : CoresIn(eng', r) = CoresIn(eng, r)
  BY <1>3, ScaledWorkers DEF OnePlaceInv
<1>7. \A st \in Active : n(st) \in Nat
  <2>1. ASSUME NEW st \in Active PROVE Cardinality(ApplyTarget(eng[st], target[st]).added) \in Nat
    <3>1. target[st] \in Nat /\ EngineRecord(eng[st])
      BY ReplayAssumption DEF OnePlaceInv, ReplayInv, EngineInv
    <3> QED
      BY <3>1, AddedCount
  <2> QED
    BY <2>1
<1>8. IF conf.kind = "agg" THEN ScaleAgg(to) ELSE ScaleDisagg(to)
  BY <1>1
<1> HIDE DEF to
<1>9. /\ Listed(events') /\ Fit(eng', events') /\ Heard(eng', events')
      /\ \A r : Stays(HeapOf(events, r), HeapOf(events', r))
      /\ Sound(work') /\ \A r : HandOf(work', r) = {}
  <2>1. CASE conf.kind = "agg"
    <3>1. "Aggregated" \in Active
      BY <2>1 DEF Active
    <3>2. events' = StartEvents(events, "Aggregated", n("Aggregated")) /\ work' = DrainOf("Aggregated")
      BY <1>8, <2>1 DEF ScaleAgg
    <3>3. n("Aggregated") \in Nat
      BY <1>7, <3>1
    <3> HIDE DEF n
    <3> QED
      BY <1>6, <3>1, <3>2, <3>3, StartsEvolve, OnlyDrain
  <2>2. CASE conf.kind # "agg"
    <3>1. "Prefill" \in Active /\ "Decode" \in Active
      BY <2>2 DEF Active
    <3> DEFINE q == StartEvents(events, "Prefill", n("Prefill"))
    <3>2. events' = StartEvents(q, "Decode", n("Decode")) /\ work' = DrainOf("Prefill") \o DrainOf("Decode")
      BY <1>8, <2>2 DEF ScaleDisagg
    <3>3. n("Prefill") \in Nat /\ n("Decode") \in Nat
      BY <1>7, <3>1
    <3> HIDE DEF n
    <3>4. Listed(q) /\ Fit(eng', q) /\ Heard(eng', q) /\ \A r : Stays(HeapOf(events, r), HeapOf(q, r))
      BY <1>6, <3>1, <3>3, StartsEvolve
    <3> HIDE DEF q
    <3>5. /\ Listed(events') /\ Fit(eng', events') /\ Heard(eng', events')
          /\ \A r : Stays(HeapOf(q, r), HeapOf(events', r))
      BY <3>1, <3>2, <3>3, <3>4, StartsEvolve
    <3>6. Sound(DrainOf("Decode")) /\ \A r : HandOf(DrainOf("Decode"), r) = {}
      BY <3>1, OnlyDrain
    <3>7. Sound(work') /\ \A r : Stays(HandOf(DrainOf("Decode"), r), HandOf(work', r))
      BY <3>1, <3>2, <3>6, DrainHands
    <3> QED
      BY <3>4, <3>5, <3>6, <3>7, Zenon DEF Stays
  <2> QED
    BY <2>1, <2>2
<1>10. \A y : Live(y)' <=> Live(y)
  BY <1>2 DEF Live, Finished
<1>11. TurnInv' /\ RotaInv' /\ conf' = conf
  <2>1. Active' = Active
    BY <1>2 DEF Active
  <2> QED
    BY <1>2, <1>10, <2>1, TurnSame DEF OnePlaceInv, RotaInv
<1>12. ASSUME NEW y PROVE PlaceStep(y)
  <2>1. HandOf(work, y) = {} /\ HandOf(work', y) = {} /\ Place(y)
    BY <1>2, <1>9, NoWork DEF OnePlaceInv, PlaceInv
  <2>2. /\ Stays(HandOf(work, y), HandOf(work', y)) /\ Stays(CoresIn(eng, y), CoresIn(eng', y))
        /\ Stays(QueuesIn(rt, y), QueuesIn(rt', y)) /\ Stays(HeapOf(events, y), HeapOf(events', y))
    BY <1>5, <1>6, <1>9, <2>1, Same
  <2> QED
    BY <1>10, <2>1, <2>2, StepStays, Zenon
<1> QED
  BY <1>9, <1>11, <1>12, Assembled

-----------------------------------------------------------------------------
(* A pass                                                                     *)

\* A bijection counts.
LEMMA Counted ==
    ASSUME NEW A, NEW B, IsFiniteSet(A), NEW f \in [A -> B], \A x, y \in A : f[x] = f[y] => x = y,
           \A z \in B : \E x \in A : f[x] = z
    PROVE  IsFiniteSet(B) /\ Cardinality(B) = Cardinality(A)
<1>1. f \in Bijection(A, B)
  BY DEF Bijection, Injection, Surjection, IsInjective
<1>2. ExistsBijection(A, B)
  BY <1>1 DEF ExistsBijection
<1> QED
  BY <1>2, FS_Bijection

\* What a pass says of a request of its core.
Emits(core, r) == [r |-> r, done |-> core[r] = 1]

\* What a pass says of a request in its last step.
LEMMA Emitted ==
    ASSUME NEW core, NEW r
    PROVE  Emits(core, r).r = r /\ (Emits(core, r).done <=> core[r] = 1) /\ (core[r] = 1 => Emits(core, r) = Last(r))
<1>1. Emits(core, r).r = r /\ (Emits(core, r).done <=> core[r] = 1)
  BY DEF Emits
<1>2. core[r] = 1 => Emits(core, r) = Last(r)
  <2>1. ASSUME NEW b, b = TRUE PROVE [r |-> r, done |-> b] = Last(r)
    BY <2>1 DEF Last
  <2>2. ASSUME core[r] = 1 PROVE (core[r] = 1) = TRUE
    BY <2>2, Zenon
  <2> QED
    BY <2>1, <2>2, Zenon DEF Emits
<1> QED
  BY <1>1, <1>2

\* The signals of a pass: one for each request that emits a token.
LEMMA PassSignals ==
    ASSUME NEW core, NEW S, IsFiniteSet(S), NEW set, set = {Emits(core, r) : r \in S},
           NEW over, over = {r \in S : core[r] = 1}
    PROVE  /\ Outcomes(set) /\ \A r : Last(r) \in set <=> r \in over
           /\ IsFiniteSet(over) /\ Cardinality(over) \in Nat /\ Done(set) = Cardinality(over)
<1>1. IsFiniteSet(set)
  <2> DEFINE f == [r \in S |-> Emits(core, r)]
  <2>1. /\ f \in [S -> set] /\ \A r \in S : f[r].r = r
        /\ \A z \in set : \E x \in S : f[x] = z
    BY Emitted
  <2>2. \A x, y \in S : f[x] = f[y] => x = y
    BY <2>1
  <2> HIDE DEF f
  <2> QED
    BY <2>1, <2>2, Counted
<1>2. ASSUME NEW x \in set, x.done PROVE x = Last(x.r) /\ x.r \in over
  <2>1. PICK r \in S : x = Emits(core, r)
    OBVIOUS
  <2>2. x.r = r /\ core[r] = 1 /\ x = Last(r)
    BY <1>2, <2>1, Emitted
  <2> QED
    BY <2>2
<1>3. ASSUME NEW r PROVE Last(r) \in set <=> r \in over
  <2>1. Last(r).done /\ Last(r).r = r
    BY DEF Last
  <2>2. Last(r) \in set => r \in over
    BY <1>2, <2>1, Zenon
  <2>3. r \in over => Last(r) \in set
    BY Emitted
  <2> QED
    BY <2>2, <2>3
<1>4. IsFiniteSet(over) /\ Cardinality(over) \in Nat
  BY FS_Subset, FS_CardinalityType
<1>5. Done(set) = Cardinality(over)
  <2> DEFINE f == [r \in over |-> Last(r)]  B == {x \in set : x.done}
  <2>1. \A r : Last(r).done /\ Last(r).r = r
    BY DEF Last
  <2>2. ASSUME NEW r \in over PROVE Last(r) \in B
    BY <1>3, <2>1
  <2>3. f \in [over -> B] /\ \A r \in over : f[r].r = r
    BY <2>1, <2>2
  <2>4. ASSUME NEW z \in B PROVE \E x \in over : f[x] = z
    <3>1. z \in set /\ z.done
      OBVIOUS
    <3>2. z = Last(z.r) /\ z.r \in over
      BY <1>2, <3>1
    <3>3. f[z.r] = Last(z.r)
      BY <3>2
    <3> QED
      BY <3>2, <3>3
  <2>5. \A x, y \in over : f[x] = f[y] => x = y
    BY <2>3
  <2> HIDE DEF f, B
  <2>6. Cardinality(B) = Cardinality(over)
    BY <1>4, <2>3, <2>4, <2>5, Counted
  <2> QED
    BY <2>6 DEF B, Done
<1>6. Outcomes(set)
  BY <1>1, <1>2 DEF Outcomes
<1> QED
  BY <1>3, <1>4, <1>5, <1>6

\* The requests that are over leave the core of worker i, and nobody else leaves one.
Leave(g, h, st, i, over) ==
    /\ i \in DOMAIN g[st].workers /\ over \subseteq DOMAIN g[st].workers[i].core
    /\ \A x \in Active : \A j \in DOMAIN h[x].workers :
          /\ j \in DOMAIN g[x].workers
          /\ <<x, j>> # <<st, i>> => h[x].workers[j].core = g[x].workers[j].core
    /\ i \in DOMAIN h[st].workers => DOMAIN h[st].workers[i].core = DOMAIN g[st].workers[i].core \ over
    /\ \A x \in Active : \A j \in DOMAIN g[x].workers : j \notin DOMAIN h[x].workers =>
          /\ <<x, j>> # <<st, i>> => DOMAIN g[x].workers[j].core = {}
          /\ <<x, j>> = <<st, i>> => DOMAIN g[x].workers[j].core \subseteq over

\* The requests that a pass ends leave the core they were in and no other core changes.
LEMMA CoresLeft ==
    ASSUME NEW g, NEW h, NEW st \in Active, NEW i \in Nat, NEW over, Leave(g, h, st, i, over)
    PROVE  \A r : CoresIn(h, r) = CoresIn(g, r) \ (IF r \in over THEN {<<st, i>>} ELSE {})
<1>1. ASSUME NEW r, NEW x \in Active, NEW j \in Nat
      PROVE  <<x, j>> \in CoresIn(h, r) <=> <<x, j>> \in CoresIn(g, r) \ (IF r \in over THEN {<<st, i>>} ELSE {})
  <2>1. \A k : <<x, j>> \in CoresIn(k, r) <=> j \in DOMAIN k[x].workers /\ r \in DOMAIN k[x].workers[j].core
    BY DEF CoresIn
  <2>2. CASE <<x, j>> = <<st, i>>
    <3>1. x = st /\ j = i
      BY <2>2
    <3>2. CASE i \in DOMAIN h[st].workers
      BY <2>1, <3>1, <3>2 DEF Leave
    <3>3. CASE i \notin DOMAIN h[st].workers
      BY <2>1, <3>1, <3>3 DEF Leave
    <3> QED
      BY <3>2, <3>3
  <2>3. CASE <<x, j>> # <<st, i>>
    <3>1. j \in DOMAIN h[x].workers => j \in DOMAIN g[x].workers /\ h[x].workers[j].core = g[x].workers[j].core
      BY <2>3, Zenon DEF Leave
    <3>2. j \in DOMAIN g[x].workers /\ j \notin DOMAIN h[x].workers => DOMAIN g[x].workers[j].core = {}
      BY <2>3, Zenon DEF Leave
    <3> QED
      BY <2>1, <2>3, <3>1, <3>2
  <2> QED
    BY <2>2, <2>3
<1> QED
  BY <1>1 DEF CoresIn

\* drive_ready: what the pass ends goes from the core to the completion, and the worker is busy.
LEMMA DrivePlaces ==
    ASSUME OnePlaceInv, ReplayInv', NEW st \in Active, work = <<>>, Drive(st)
    PROVE  OnePlaceInv'
<1>1. PICK i \in DOMAIN eng[st].workers, d \in Durations :
        /\ IsReady(eng[st].workers[i])
        /\ \E S \in (SUBSET DOMAIN eng[st].workers[i].core) \ {{}} : Pass(st, i, d, S)
  BY DEF Drive
<1>2. PICK S \in SUBSET DOMAIN eng[st].workers[i].core : S # {} /\ Pass(st, i, d, S)
  BY <1>1
<1>3. UNCHANGED <<conf, ready, turn, requests, rr, rt>>
  BY DEF Drive, driverVars
<1> DEFINE w    == eng[st].workers[i]
           set  == {Emits(w.core, r) : r \in S}
           over == {r \in S : w.core[r] = 1}
           core == [r \in DOMAIN w.core \ over |-> IF r \in S THEN w.core[r] - 1 ELSE w.core[r]]
           e    == [eng[st] EXCEPT !.workers[i].core = core, !.workers[i].busy = d > 0]
           x    == [op |-> "signals", st |-> st, set |-> set]
           y    == Completion(now + d, st, i, set)
<1>4. IF d = 0
      THEN /\ eng' = [eng EXCEPT ![st] = Completed(e, i, Cardinality(over))]
           /\ work' = <<x>> /\ events' = events
      ELSE /\ eng' = [eng EXCEPT ![st] = e]
           /\ events' = Pushed(events, y) /\ work' = work
  BY <1>2, Zenon DEF Pass, Emits
<1>5. /\ x = [op |-> "signals", st |-> x.st, set |-> x.set] /\ x.op = "signals" /\ x.st = st /\ x.set = set
      /\ y.kind = "completion" /\ y.st = st /\ y.worker = i /\ y.signals = set
  BY DEF Completion
<1>6. DOMAIN core = DOMAIN w.core \ over
  OBVIOUS
<1> HIDE DEF x, y, core
<1>7. /\ d \in Nat /\ EngineRecord(eng[st]) /\ DOMAIN eng = Active /\ i \in Nat /\ Listed(events)
  BY ReplayAssumption DEF OnePlaceInv, ReplayInv, EngineInv, EngineRecord
<1>8. /\ ~w.busy /\ IsFiniteSet(DOMAIN w.core) /\ Exact(w, events, st, i) /\ i \notin eng[st].starting
      /\ Coming(events, st, i) = {} /\ w.in_flight = Cardinality(DOMAIN w.core)
  <2>1. /\ IsFiniteSet(DOMAIN w.core) /\ Exact(w, events, st, i)
        /\ i \in eng[st].starting => ~w.busy /\ DOMAIN w.core = {}
    BY DEF OnePlaceInv, Fit
  <2>2. ~w.busy /\ DOMAIN w.core # {}
    BY <1>1, <1>2 DEF IsReady
  <2> QED
    BY <2>1, <2>2 DEF Exact
<1>9. /\ DOMAIN e = DOMAIN eng[st] /\ e.next = eng[st].next /\ e.starting = eng[st].starting
      /\ e.leaving = eng[st].leaving /\ DOMAIN e.workers = DOMAIN eng[st].workers
      /\ \A j \in DOMAIN e.workers : j # i => e.workers[j] = eng[st].workers[j]
      /\ DOMAIN e.workers[i] = DOMAIN eng[st].workers[i] /\ (e.workers[i].busy <=> d > 0)
      /\ e.workers[i].core = core /\ e.workers[i].in_flight = w.in_flight
  BY <1>7 DEF EngineRecord
<1> HIDE DEF e
<1>10. EngineRecord(e)
  BY <1>7, <1>9 DEF EngineRecord
<1>11. /\ Outcomes(set) /\ \A r : Last(r) \in set <=> r \in over
       /\ IsFiniteSet(over) /\ Cardinality(over) \in Nat /\ Done(set) = Cardinality(over)
  <2>1. IsFiniteSet(S)
    BY <1>8, FS_Subset
  <2> QED
    BY <2>1, PassSignals
<1>12. over \subseteq DOMAIN w.core
  OBVIOUS
<1> HIDE DEF set, over
<1>13. /\ Cardinality(DOMAIN w.core) \in Nat /\ Cardinality(over) <= Cardinality(DOMAIN w.core)
       /\ IsFiniteSet(DOMAIN core) /\ Cardinality(DOMAIN core) = Cardinality(DOMAIN w.core) - Cardinality(over)
  <2>1. Cardinality(over) <= Cardinality(DOMAIN w.core)
    BY <1>8, <1>12, FS_Subset
  <2>2. /\ IsFiniteSet(DOMAIN w.core \ over)
        /\ Cardinality(DOMAIN w.core \ over) = Cardinality(DOMAIN w.core) - Cardinality(DOMAIN w.core \cap over)
    BY <1>8, FS_Difference
  <2>3. DOMAIN w.core \cap over = over
    BY <1>12
  <2> QED
    BY <1>6, <1>8, <2>1, <2>2, <2>3, FS_CardinalityType
<1>14. ASSUME NEW r \in over
       PROVE  /\ Live(r) /\ CoresIn(eng, r) = {<<st, i>>} /\ QueuesIn(rt, r) = {} /\ HeapOf(events, r) = {}
  <2>1. <<st, i>> \in CoresIn(eng, r)
    <3>1. <<st, i>> \in Active \X Nat /\ <<st, i>>[1] = st /\ <<st, i>>[2] = i
      BY <1>7
    <3>2. r \in DOMAIN eng[st].workers[i].core
      BY <1>12
    <3> QED
      BY <3>1, <3>2, Zenon DEF CoresIn
  <2>2. /\ Live(r) /\ One(CoresIn(eng, r)) /\ QueuesIn(rt, r) = {} /\ HeapOf(events, r) = {}
    <3>1. Place(r)
      BY DEF OnePlaceInv, PlaceInv
    <3> QED
      BY <2>1, <3>1, Zenon DEF Place, Whole
  <2> QED
    BY <2>1, <2>2 DEF One
<1>15. \A z : (Live(z)' <=> Live(z)) /\ QueuesIn(rt', z) = QueuesIn(rt, z)
  BY <1>3 DEF Live, Finished
<1>16. TurnInv' /\ RotaInv' /\ conf' = conf
  <2>1. Active' = Active
    BY <1>3 DEF Active
  <2> QED
    BY <1>3, <1>15, <2>1, TurnSame DEF OnePlaceInv, RotaInv
<1>17. \A z : HandOf(work, z) = {}
  BY NoWork
<1>18. CASE d # 0
  <2>1. eng'[st] = e /\ events' = Pushed(events, y) /\ work' = work /\ \A a \in Active : a # st => eng'[a] = eng[a]
    BY <1>4, <1>7, <1>18
  <2>2. ASSUME NEW a \in Active, NEW j \in DOMAIN eng'[a].workers
        PROVE  /\ j \in DOMAIN eng[a].workers /\ eng'[a].starting = eng[a].starting
               /\ <<a, j>> # <<st, i>> => eng'[a].workers[j] = eng[a].workers[j]
    BY <1>9, <2>1
  <2>3. \A a \in Active : DOMAIN eng'[a].workers = DOMAIN eng[a].workers
    BY <1>9, <2>1
  <2>4. \A r : CoresIn(eng', r) = CoresIn(eng, r) \ (IF r \in over THEN {<<st, i>>} ELSE {})
    <3>1. DOMAIN eng'[st].workers[i].core = DOMAIN eng[st].workers[i].core \ over
      BY <1>6, <1>9, <2>1
    <3>2. \A a \in Active : \A j \in DOMAIN eng'[a].workers :
              /\ j \in DOMAIN eng[a].workers
              /\ <<a, j>> # <<st, i>> => eng'[a].workers[j].core = eng[a].workers[j].core
      BY <2>2
    <3>3. \A a \in Active : \A j \in DOMAIN eng[a].workers : j \notin DOMAIN eng'[a].workers =>
              /\ <<a, j>> # <<st, i>> => DOMAIN eng[a].workers[j].core = {}
              /\ <<a, j>> = <<st, i>> => DOMAIN eng[a].workers[j].core \subseteq over
      BY <2>3
    <3>4. i \in Nat /\ i \in DOMAIN eng[st].workers /\ over \subseteq DOMAIN eng[st].workers[i].core
      BY <1>7, <1>12
    <3>5. Leave(eng, eng', st, i, over)
      BY <3>1, <3>2, <3>3, <3>4, Zenon DEF Leave
    <3> QED
      BY <3>4, <3>5, CoresLeft
  <2>5. Evolves(events, events', {y})
    BY <1>7, <2>1, PushedEvolves
  <2>6. Completes(y, st, i) /\ \A a, j : Completes(y, a, j) => a = st /\ j = i
    BY <1>5 DEF Completes
  <2>7. \A r : Holds(y, r) <=> r \in over
    BY <1>5, <1>11 DEF Holds
  <2>8. ASSUME NEW a \in Active, NEW j \in DOMAIN eng'[a].workers
        PROVE  /\ IsFiniteSet(DOMAIN eng'[a].workers[j].core) /\ Exact(eng'[a].workers[j], events', a, j)
               /\ j \in eng'[a].starting => ~eng'[a].workers[j].busy /\ DOMAIN eng'[a].workers[j].core = {}
    <3>1. CASE <<a, j>> = <<st, i>>
      <4> DEFINE v == eng'[st].workers[i]
      <4>1. v.busy /\ v.core = core /\ v.in_flight = w.in_flight /\ eng'[st].starting = eng[st].starting
        BY <1>7, <1>9, <1>18, <2>1
      <4>2. PICK k : Coming(events', st, i) = {k} /\ events'[k] = y
        BY <1>7, <1>8, <2>1, <2>6, ComingEnters
      <4> HIDE DEF v
      <4>3. v.in_flight = Cardinality(DOMAIN v.core) + Done(events'[k].signals)
        <5>1. Done(events'[k].signals) = Cardinality(over) /\ Cardinality(DOMAIN v.core) = Cardinality(DOMAIN core)
              /\ v.in_flight = Cardinality(DOMAIN w.core)
          BY <1>5, <1>8, <1>11, <4>1, <4>2
        <5> QED
          BY <1>11, <1>13, <5>1
      <4>4. Exact(v, events', st, i)
        BY <4>1, <4>2, <4>3, Zenon DEF Exact
      <4>5. i \notin eng'[st].starting /\ IsFiniteSet(DOMAIN v.core)
        BY <1>8, <1>13, <4>1
      <4> QED
        BY <3>1, <4>4, <4>5 DEF v
    <3>2. CASE <<a, j>> # <<st, i>>
      <4>1. /\ IsFiniteSet(DOMAIN eng[a].workers[j].core) /\ Exact(eng[a].workers[j], events, a, j)
            /\ j \in eng[a].starting => ~eng[a].workers[j].busy /\ DOMAIN eng[a].workers[j].core = {}
        BY <2>2 DEF OnePlaceInv, Fit
      <4>2. \A z \in {y} : ~Completes(z, a, j)
        BY <2>6, <3>2
      <4>3. Exact(eng[a].workers[j], events', a, j)
        BY <2>5, <4>1, <4>2, ExactStays
      <4> QED
        BY <2>2, <3>2, <4>1, <4>3
    <3> QED
      BY <3>1, <3>2
  <2>9. Fit(eng', events')
    BY <2>8, Zenon DEF Fit
  <2>10. Heard(eng', events') /\ Listed(events') /\ Sound(work')
    <3>1. Entries(events') \subseteq Entries(events) \cup {y} /\ Listed(events')
      BY <2>5 DEF Evolves
    <3>2. Heard(eng', events')
      BY <1>5, <1>11, <2>3, <3>1 DEF OnePlaceInv, Heard
    <3> QED
      BY <2>1, <3>1, <3>2 DEF OnePlaceInv
  <2>11. ASSUME NEW r PROVE PlaceStep(r)
    <3>1. CASE r \in over
      <4>1. One(HeapOf(events', r))
        BY <1>7, <1>14, <2>1, <2>7, <3>1, HeapEnters
      <4>2. CoresIn(eng', r) = {} /\ QueuesIn(rt', r) = {} /\ HandOf(work', r) = {} /\ Live(r)
        BY <1>14, <1>15, <1>17, <2>1, <2>4, <3>1
      <4> QED
        BY <1>15, <4>1, <4>2, Zenon DEF PlaceStep, Whole
    <3>2. CASE r \notin over
      <4>1. CoresIn(eng', r) = CoresIn(eng, r)
        BY <2>4, <3>2
      <4>2. \A z \in {y} : ~Holds(z, r)
        BY <2>7, <3>2
      <4>3. /\ Stays(HandOf(work, r), HandOf(work', r)) /\ Stays(CoresIn(eng, r), CoresIn(eng', r))
            /\ Stays(QueuesIn(rt, r), QueuesIn(rt', r))
        BY <1>15, <2>1, <4>1, Same
      <4>4. Stays(HeapOf(events, r), HeapOf(events', r)) /\ Place(r)
        BY <2>5, <4>2, HeapStays DEF OnePlaceInv, PlaceInv
      <4> QED
        BY <1>15, <4>3, <4>4, StepStays, Zenon
    <3> QED
      BY <3>1, <3>2
  <2> QED
    BY <1>16, <2>9, <2>10, <2>11, Assembled
<1>19. CASE d = 0
  <2> DEFINE n == Cardinality(over)  f == Completed(e, i, n)  v == f.workers[i]
  <2>1. eng'[st] = f /\ events' = events /\ work' = <<x>> /\ \A a \in Active : a # st => eng'[a] = eng[a]
    BY <1>4, <1>7, <1>19
  <2>2. /\ DOMAIN f.workers \subseteq DOMAIN e.workers /\ f.starting = e.starting
        /\ \A j \in DOMAIN f.workers : j # i => f.workers[j] = e.workers[j]
        /\ i \in DOMAIN f.workers =>
             /\ ~v.busy /\ v.core = core
             /\ v.in_flight = IF w.in_flight < n THEN 0 ELSE w.in_flight - n
        /\ \A j \in DOMAIN e.workers \ DOMAIN f.workers :
             /\ DOMAIN e.workers[j].core = {} /\ (j # i => ~e.workers[j].busy)
    <3>1. i \in DOMAIN e.workers
      BY <1>9
    <3>2. LET u == e.workers[i] IN
          /\ DOMAIN f.workers \subseteq DOMAIN e.workers /\ f.starting = e.starting
          /\ \A j \in DOMAIN f.workers : j # i => f.workers[j] = e.workers[j]
          /\ i \in DOMAIN f.workers =>
               /\ ~v.busy /\ v.core = u.core
               /\ v.in_flight = IF u.in_flight < n THEN 0 ELSE u.in_flight - n
          /\ \A j \in DOMAIN e.workers \ DOMAIN f.workers :
               /\ DOMAIN e.workers[j].core = {} /\ j \in e.leaving /\ (j # i => ~e.workers[j].busy)
      BY <1>10, <3>1, CompletedWorkers, Zenon
    <3> HIDE DEF f, n
    <3> QED
      BY <1>9, <3>2
  <2> HIDE DEF f
  <2>3. ASSUME NEW a \in Active, NEW j \in DOMAIN eng'[a].workers
        PROVE  /\ j \in DOMAIN eng[a].workers /\ eng'[a].starting = eng[a].starting
               /\ <<a, j>> # <<st, i>> => eng'[a].workers[j] = eng[a].workers[j]
    BY <1>9, <2>1, <2>2
  <2>4. ASSUME NEW a \in Active, NEW j \in DOMAIN eng[a].workers, j \notin DOMAIN eng'[a].workers
        PROVE  /\ <<a, j>> # <<st, i>> => DOMAIN eng[a].workers[j].core = {} /\ ~eng[a].workers[j].busy
               /\ <<a, j>> = <<st, i>> => DOMAIN eng[a].workers[j].core \subseteq over
    <3>1. a = st /\ j \in DOMAIN e.workers \ DOMAIN f.workers
      BY <1>9, <2>1, <2>4
    <3>2. DOMAIN e.workers[j].core = {} /\ (j # i => ~e.workers[j].busy)
      BY <2>2, <3>1
    <3>3. CASE j = i
      BY <1>6, <1>9, <3>1, <3>2, <3>3
    <3>4. CASE j # i
      BY <1>9, <3>1, <3>2, <3>4
    <3> QED
      BY <3>3, <3>4
  <2>5. \A r : CoresIn(eng', r) = CoresIn(eng, r) \ (IF r \in over THEN {<<st, i>>} ELSE {})
    <3>1. i \in DOMAIN eng'[st].workers => DOMAIN eng'[st].workers[i].core = DOMAIN eng[st].workers[i].core \ over
      BY <1>6, <2>1, <2>2
    <3>2. \A a \in Active : \A j \in DOMAIN eng'[a].workers :
              /\ j \in DOMAIN eng[a].workers
              /\ <<a, j>> # <<st, i>> => eng'[a].workers[j].core = eng[a].workers[j].core
      BY <2>3
    <3>3. \A a \in Active : \A j \in DOMAIN eng[a].workers : j \notin DOMAIN eng'[a].workers =>
              /\ <<a, j>> # <<st, i>> => DOMAIN eng[a].workers[j].core = {}
              /\ <<a, j>> = <<st, i>> => DOMAIN eng[a].workers[j].core \subseteq over
      BY <2>4
    <3>4. i \in Nat /\ i \in DOMAIN eng[st].workers /\ over \subseteq DOMAIN eng[st].workers[i].core
      BY <1>7, <1>12
    <3>5. Leave(eng, eng', st, i, over)
      BY <3>1, <3>2, <3>3, <3>4, Zenon DEF Leave
    <3> QED
      BY <3>4, <3>5, CoresLeft
  <2>6. ASSUME NEW a \in Active, NEW j \in DOMAIN eng'[a].workers
        PROVE  /\ IsFiniteSet(DOMAIN eng'[a].workers[j].core) /\ Exact(eng'[a].workers[j], events, a, j)
               /\ j \in eng'[a].starting => ~eng'[a].workers[j].busy /\ DOMAIN eng'[a].workers[j].core = {}
    <3>1. CASE <<a, j>> = <<st, i>>
      <4>1. eng'[st].workers[i] = v /\ ~v.busy /\ v.core = core /\ eng'[st].starting = eng[st].starting
            /\ v.in_flight = IF w.in_flight < n THEN 0 ELSE w.in_flight - n
        BY <1>9, <2>1, <2>2, <3>1
      <4>2. v.in_flight = Cardinality(DOMAIN v.core)
        <5> HIDE DEF v
        <5>1. w.in_flight = Cardinality(DOMAIN w.core)
          BY <1>8
        <5> HIDE DEF w
        <5> QED
          BY <1>11, <1>13, <4>1, <5>1
      <4>3. Exact(v, events, st, i)
        BY <1>8, <4>1, <4>2 DEF Exact
      <4> QED
        BY <1>8, <1>13, <3>1, <4>1, <4>3
    <3>2. CASE <<a, j>> # <<st, i>>
      BY <2>3, <3>2 DEF OnePlaceInv, Fit
    <3> QED
      BY <3>1, <3>2
  <2>7. Fit(eng', events')
    BY <2>1, <2>6, Zenon DEF Fit
  <2>8. Heard(eng', events')
    <3>1. ASSUME NEW z \in Entries(events), z.kind = "completion"
          PROVE  z.worker \in DOMAIN eng'[z.st].workers
      <4> DEFINE a == z.st  j == z.worker
      <4>1. a \in Active /\ j \in DOMAIN eng[a].workers /\ Completes(z, a, j)
        BY <3>1 DEF OnePlaceInv, Heard, Completes
      <4>2. PICK k \in DOMAIN events : events[k] = z
        BY DEF Entries
      <4>3. <<a, j>> # <<st, i>>
        BY <1>8, <4>1, <4>2 DEF Coming
      <4>4. Exact(eng[a].workers[j], events, a, j)
        BY <4>1 DEF OnePlaceInv, Fit
      <4>5. eng[a].workers[j].busy
        BY <4>1, <4>2, <4>4, OneComing
      <4> HIDE DEF a, j
      <4>6. j \in DOMAIN eng'[a].workers
        BY <2>4, <4>1, <4>3, <4>5
      <4> QED
        BY <4>6 DEF a, j
    <3> QED
      BY <2>1, <3>1 DEF OnePlaceInv, Heard
  <2>9. Listed(events') /\ Sound(work')
    <3>1. Listed(<<x>>) /\ Entries(<<x>>) = {x}
      BY SingleHit
    <3> QED
      BY <1>5, <1>7, <1>11, <2>1, <3>1 DEF Sound
  <2>10. ASSUME NEW r PROVE PlaceStep(r)
    <3>1. Carries(x, r) <=> r \in over
      BY <1>5, <1>11 DEF Carries
    <3>2. HandOf(work', r) = IF Carries(x, r) THEN {1} ELSE {}
      <4>1. DOMAIN <<x>> = {1} /\ <<x>>[1] = x
        OBVIOUS
      <4> QED
        BY <2>1, <4>1 DEF HandOf
    <3>3. CASE r \in over
      <4>1. /\ One(HandOf(work', r)) /\ HeapOf(events', r) = {} /\ CoresIn(eng', r) = {} /\ QueuesIn(rt', r) = {}
            /\ Live(r)
        BY <1>14, <1>15, <2>1, <2>5, <3>1, <3>2, <3>3 DEF One
      <4> QED
        BY <1>15, <4>1, Zenon DEF PlaceStep, Whole
    <3>4. CASE r \notin over
      <4>1. HandOf(work', r) = {} /\ CoresIn(eng', r) = CoresIn(eng, r) /\ Place(r)
        BY <2>5, <3>1, <3>2, <3>4 DEF OnePlaceInv, PlaceInv
      <4>2. /\ Stays(HandOf(work, r), HandOf(work', r)) /\ Stays(CoresIn(eng, r), CoresIn(eng', r))
            /\ Stays(QueuesIn(rt, r), QueuesIn(rt', r)) /\ Stays(HeapOf(events, r), HeapOf(events', r))
        BY <1>15, <1>17, <2>1, <4>1, Same
      <4> QED
        BY <1>15, <4>1, <4>2, StepStays, Zenon
    <3> QED
      BY <3>3, <3>4
  <2> QED
    BY <1>16, <2>7, <2>8, <2>9, <2>10, Assembled
<1> QED
  BY <1>18, <1>19

-----------------------------------------------------------------------------
(* The invariant                                                              *)

\* At the start every session waits for its first turn, once.
LEMMA FirstTurns == Init => TurnInv
<1> SUFFICES ASSUME Init PROVE TurnInv
  OBVIOUS
<1>1. /\ ready \in [DOMAIN Sessions -> {FirstTurn(s) : s \in DOMAIN Sessions}]
      /\ \A i, j \in DOMAIN ready : i < j => Before(ready[i], ready[j])
      /\ turn = [s \in DOMAIN Sessions |-> 1] /\ requests = <<>>
  BY DEF Init
<1>2. DOMAIN Sessions = 1..Len(Sessions) /\ Len(Sessions) \in Nat
  BY ReplayAssumption
<1>3. Listed(ready)
  <2>1. ready \in [1..Len(Sessions) -> Entries(ready)]
    BY <1>1, <1>2 DEF Entries
  <2> QED
    BY <1>2, <2>1, SeqDef DEF Listed
<1>4. \A s \in DOMAIN Sessions : /\ FirstTurn(s).s = s /\ FirstTurn(s).t = 1 /\ FirstTurn(s).at \in Nat
                                 /\ s \in Nat
  BY <1>2, ReplayAssumption DEF FirstTurn
<1>5. \A k \in DOMAIN ready : ready[k].s \in DOMAIN Sessions /\ ready[k] = FirstTurn(ready[k].s)
  BY <1>1, <1>4
<1>6. ASSUME NEW i \in DOMAIN ready, NEW j \in DOMAIN ready, ready[i].s = ready[j].s PROVE ~(i < j)
  <2>1. ready[i] = ready[j]
    BY <1>5, <1>6
  <2>2. ready[i].at \in Nat /\ ready[i].s \in Nat
    BY <1>4, <1>5
  <2>3. ~Before(ready[i], ready[j])
    BY <2>1, <2>2 DEF Before
  <2> QED
    BY <1>1, <2>3
<1>7. ASSUME NEW i \in DOMAIN ready, NEW j \in DOMAIN ready, ready[i].s = ready[j].s PROVE i = j
  <2>1. ~(i < j) /\ ~(j < i) /\ i \in Nat /\ j \in Nat
    BY <1>1, <1>2, <1>6, <1>7
  <2> QED
    BY <2>1
<1>8. ASSUME NEW s PROVE SessionIn(ready, s) = {} \/ One(SessionIn(ready, s))
  <2>1. ASSUME NEW k \in SessionIn(ready, s) PROVE SessionIn(ready, s) = {k}
    BY <1>7 DEF SessionIn
  <2> QED
    BY <2>1 DEF One
<1>9. DOMAIN requests = {}
  BY <1>1, NoneEmpty
<1>10. \A e \in Entries(ready) : e.s \in DOMAIN Sessions /\ e.t = turn[e.s]
  <2> SUFFICES ASSUME NEW k \in DOMAIN ready
               PROVE  ready[k].s \in DOMAIN Sessions /\ ready[k].t = turn[ready[k].s]
    BY DEF Entries
  <2>1. ready[k].s \in DOMAIN Sessions /\ ready[k] = FirstTurn(ready[k].s)
    BY <1>5
  <2>2. FirstTurn(ready[k].s).t = 1
    BY <1>4, <2>1
  <2>3. ready[k].t = 1
    BY <2>1, <2>2, Zenon
  <2>4. turn[ready[k].s] = 1
    BY <1>1, <2>1
  <2> QED
    BY <2>1, <2>3, <2>4
<1>11. DOMAIN turn = DOMAIN Sessions /\ \A s \in DOMAIN Sessions : turn[s] \in Nat
  BY <1>1
<1> QED
  BY <1>3, <1>8, <1>9, <1>10, <1>11, Zenon DEF TurnInv

\* The invariant at the start.
LEMMA OnePlaceInit == Init => OnePlaceInv
<1> SUFFICES ASSUME Init PROVE OnePlaceInv
  OBVIOUS
<1>1. ReplayInv /\ TurnInv
  BY ReplayInit, FirstTurns
<1>2. /\ eng = [st \in Active |-> NewEngine(conf.workers)]
      /\ rt = [st \in Active |-> NewRouter(conf.workers)] /\ rr = [st \in Active |-> 0]
  BY DEF Init, NewAgg, NewDisagg, NewStages, Active
<1>3. events = <<>> /\ work = <<>> /\ requests = <<>>
  BY DEF Init
<1>4. RotaInv
  BY <1>2 DEF RotaInv
<1>5. <<>> \in Seq({}) /\ DOMAIN <<>> = {}
  OBVIOUS
<1>6. Listed(events) /\ Entries(events) = {} /\ Listed(work) /\ Entries(work) = {} /\ DOMAIN requests = {}
  BY <1>3, <1>5 DEF Listed, Entries
<1>7. Sound(work) /\ Heard(eng, events)
  BY <1>6 DEF Sound, Heard
<1>8. \A st \in Active : \A i \in DOMAIN eng[st].workers : eng[st].workers[i] = Worker
  BY <1>2 DEF NewEngine
<1>9. ~Worker.busy /\ Worker.in_flight = 0 /\ DOMAIN Worker.core = {}
  BY NoneEmpty DEF Worker
<1>10. \A st \in Active : eng[st].starting = {} /\ rt[st].pending = {}
  BY <1>2 DEF NewEngine, NewRouter
<1>11. \A r : HeapOf(events, r) = {} /\ HandOf(work, r) = {}
  BY <1>3, <1>5 DEF HeapOf, HandOf
<1>12. \A st, i : Coming(events, st, i) = {}
  BY <1>3, <1>5 DEF Coming
<1>13. Fit(eng, events)
  <2>1. IsFiniteSet(DOMAIN Worker.core) /\ Cardinality(DOMAIN Worker.core) = 0
    BY <1>9, FS_EmptySet
  <2>2. \A st, i : Exact(Worker, events, st, i)
    BY <1>9, <1>12, <2>1 DEF Exact
  <2> QED
    BY <1>8, <1>10, <2>1, <2>2, Zenon DEF Fit
<1>14. ASSUME NEW r PROVE CoresIn(eng, r) = {} /\ QueuesIn(rt, r) = {}
  <2>1. QueuesIn(rt, r) = {}
    BY <1>10 DEF QueuesIn
  <2>2. ASSUME NEW st \in Active, NEW j \in Nat PROVE <<st, j>> \notin CoresIn(eng, r)
    BY <1>8, <1>9 DEF CoresIn
  <2>3. CoresIn(eng, r) = {}
    BY <2>2 DEF CoresIn
  <2> QED
    BY <2>1, <2>3
<1>15. PlaceInv
  <2>1. \A r : ~Live(r)
    BY <1>6 DEF Live
  <2> QED
    BY <1>11, <1>14, <2>1, Zenon DEF PlaceInv, Place
<1> QED
  BY <1>1, <1>4, <1>6, <1>7, <1>13, <1>15 DEF OnePlaceInv

\* Every step keeps it.
LEMMA OnePlaceStep == OnePlaceInv /\ [Next]_vars => OnePlaceInv'
<1> SUFFICES ASSUME OnePlaceInv, [Next]_vars PROVE OnePlaceInv'
  OBVIOUS
<1>1. ReplayInv'
  BY ReplayStep DEF OnePlaceInv
<1>2. CASE Fail
  BY <1>1, <1>2, FrozenPlaces DEF Fail
<1>3. CASE Signal
  BY <1>1, <1>2, <1>3, SignalPlaces
<1>4. CASE Drain
  BY <1>1, <1>4, DrainPlaces
<1>5. CASE HandOver
  BY <1>1, <1>5, HandOverPlaces
<1>6. CASE WorkerCompletion
  BY <1>1, <1>6, CompletionPlaces
<1>7. CASE WorkerReady
  BY <1>1, <1>7, ReadyPlaces
<1>8. CASE DecodeHandoff
  BY <1>1, <1>8, HandoffPlaces
<1>9. CASE Arrive
  BY <1>1, <1>9, ArrivePlaces
<1>10. CASE DriveFirst
  BY <1>1, <1>10, Stages, DrivePlaces DEF DriveFirst, At
<1>11. CASE DriveDecode
  <2>1. "Decode" \in Active /\ work = <<>> /\ Drive("Decode")
    BY <1>11, Stages DEF DriveDecode, At, RoundInv, ReplayInv, OnePlaceInv
  <2> QED
    BY <1>1, <2>1, DrivePlaces
<1>12. CASE ApplyScaling
  BY <1>1, <1>12, ScalingPlaces
<1>13. CASE NextPhase \/ NextRound \/ Advance \/ Stop \/ UNCHANGED vars
  <2>1. UNCHANGED <<conf, driverVars, requests, eng, rr, rt, events, work>>
    BY <1>13 DEF NextPhase, NextRound, Advance, Stop, Goto, Fail, vars
  <2> QED
    BY <1>1, <2>1, FrozenPlaces
<1> QED
  BY <1>3, <1>4, <1>5, <1>6, <1>7, <1>8, <1>9, <1>10, <1>11, <1>12, <1>13 DEF Next, Loop, Handle, Round

\* The places of a request, by where the invariant looks for it.
LEMMA PlacesCounted ==
    ASSUME OnePlaceInv, NEW r
    PROVE  Cardinality(Places(r)) = IF Live(r) THEN 1 ELSE 0
<1> DEFINE A == CoresIn(eng, r)  B == QueuesIn(rt, r)  C == HeapOf(events, r)  D == HandOf(work, r)
           P == UNION {{<<"core", st, i>> : i \in {j \in DOMAIN eng[st].workers :
                                              r \in DOMAIN eng[st].workers[j].core}} : st \in Active}
           Q == {<<"pending", st>> : st \in {x \in Active : r \in rt[x].pending}}
           R == {<<"event", k>> : k \in {j \in DOMAIN events : Holds(events[j], r)}}
           T == {<<"work", k>> : k \in {j \in DOMAIN work : Carries(work[j], r)}}
<1>1. Places(r) = P \cup Q \cup R \cup T
  <2>1. Places(r) = UNION {P, Q, R, T}
    BY Zenon DEF Places
  <2> HIDE DEF P, Q, R, T
  <2> QED
    BY <2>1
<1>2. P = {<<"core", p[1], p[2]>> : p \in A}
  <2>1. \A st \in Active : DOMAIN eng[st].workers \subseteq Nat
    BY DEF OnePlaceInv, ReplayInv, EngineInv, EngineRecord
  <2>2. ASSUME NEW st \in Active, NEW i \in DOMAIN eng[st].workers, r \in DOMAIN eng[st].workers[i].core
        PROVE  \E p \in A : <<"core", st, i>> = <<"core", p[1], p[2]>>
    <3>1. <<st, i>> \in A
      BY <2>1, <2>2 DEF CoresIn
    <3> QED
      BY <3>1
  <2>3. ASSUME NEW p \in A
        PROVE  /\ p[1] \in Active /\ p[2] \in DOMAIN eng[p[1]].workers
               /\ r \in DOMAIN eng[p[1]].workers[p[2]].core
    BY DEF CoresIn
  <2> HIDE DEF A
  <2>4. \A z : z \in P <=> \E st \in Active : \E i \in DOMAIN eng[st].workers :
                              r \in DOMAIN eng[st].workers[i].core /\ z = <<"core", st, i>>
    <3> DEFINE E(st) == {<<"core", st, i>> : i \in {j \in DOMAIN eng[st].workers :
                                              r \in DOMAIN eng[st].workers[j].core}}
    <3>1. \A z, st : z \in E(st) <=> \E i \in DOMAIN eng[st].workers :
                              r \in DOMAIN eng[st].workers[i].core /\ z = <<"core", st, i>>
      OBVIOUS
    <3>2. P = UNION {E(st) : st \in Active}
      OBVIOUS
    <3> HIDE DEF E, P
    <3>3. \A z : z \in P <=> \E st \in Active : z \in E(st)
      BY <3>2
    <3> QED
      BY <3>1, <3>3
  <2>5. \A z : z \in P <=> \E p \in A : z = <<"core", p[1], p[2]>>
    <3> HIDE DEF P
    <3> QED
      BY <2>2, <2>3, <2>4
  <2> HIDE DEF P
  <2> QED
    BY <2>5
<1>3. Q = {<<"pending", st>> : st \in B} /\ R = {<<"event", k>> : k \in C} /\ T = {<<"work", k>> : k \in D}
  BY Zenon DEF QueuesIn, HeapOf, HandOf
<1> HIDE DEF P, Q, R, T
<1>4. /\ A = {} => P = {}
      /\ B = {} => Q = {}
      /\ C = {} => R = {}
      /\ D = {} => T = {}
  <2> HIDE DEF A, B, C, D
  <2> QED
    BY <1>2, <1>3
<1>5. /\ One(A) => One(P)
      /\ One(B) => One(Q)
      /\ One(C) => One(R)
      /\ One(D) => One(T)
  <2> HIDE DEF A, B, C, D
  <2>1. ASSUME NEW p, A = {p} PROVE P = {<<"core", p[1], p[2]>>}
    BY <1>2, <2>1
  <2>2. ASSUME NEW p, B = {p} PROVE Q = {<<"pending", p>>}
    BY <1>3, <2>2
  <2>3. ASSUME NEW p, C = {p} PROVE R = {<<"event", p>>}
    BY <1>3, <2>3
  <2>4. ASSUME NEW p, D = {p} PROVE T = {<<"work", p>>}
    BY <1>3, <2>4
  <2> QED
    BY <2>1, <2>2, <2>3, <2>4, Zenon DEF One
<1>6. IF Live(r) THEN Whole(A, B, C, D) ELSE A = {} /\ B = {} /\ C = {} /\ D = {}
  BY Zenon DEF OnePlaceInv, PlaceInv, Place
<1> HIDE DEF A, B, C, D
<1>7. CASE Live(r)
  <2>1. Whole(P, Q, R, T)
    BY <1>4, <1>5, <1>6, <1>7, Zenon DEF Whole
  <2>2. One(Places(r))
    BY <1>1, <2>1 DEF Whole, One
  <2> QED
    BY <1>7, <2>2, FS_Singleton DEF One
<1>8. CASE ~Live(r)
  BY <1>1, <1>4, <1>6, <1>8, FS_EmptySet
<1> QED
  BY <1>7, <1>8

\* A request that was released is in exactly one place until it is done, and then in
\* none; the count of what is in flight of each worker, and whether it is busy, agree
\* with its core and with the one completion that is scheduled for it: for every
\* trace, configuration, length of passes, choice of the router and scaling.
THEOREM In_One_Place == Spec => []InOnePlace
<1>1. OnePlaceInv => InOnePlace
  <2> SUFFICES ASSUME OnePlaceInv PROVE InOnePlace
    OBVIOUS
  <2>1. ASSUME NEW r \in DOMAIN requests PROVE Cardinality(Places(r)) = IF Finished(r) THEN 0 ELSE 1
    BY PlacesCounted DEF Live
  <2>2. InFlightExact
    <3>1. ASSUME NEW st \in Active, NEW i \in DOMAIN eng[st].workers
          PROVE  LET w    == eng[st].workers[i]
                     held == Cardinality(DOMAIN w.core)
                 IN  IF w.busy THEN \E k \in DOMAIN events : /\ Scheduled(st, i) = {k}
                                                             /\ w.in_flight = held + Done(events[k].signals)
                     ELSE Scheduled(st, i) = {} /\ w.in_flight = held
      <4>1. Exact(eng[st].workers[i], events, st, i)
        BY DEF OnePlaceInv, Fit
      <4>2. Scheduled(st, i) = Coming(events, st, i) /\ Coming(events, st, i) \subseteq DOMAIN events
        BY Zenon DEF Scheduled, Coming, Completes
      <4> QED
        BY <4>1, <4>2 DEF Exact
    <3> QED
      BY <3>1, Zenon DEF InFlightExact
  <2> QED
    BY <2>1, <2>2 DEF InOnePlace
<1> QED
  BY <1>1, OnePlaceInit, OnePlaceStep, PTL DEF Spec

-----------------------------------------------------------------------------
(* None of the bails is reached: sums over finite sets                        *)

\* g has the sum of n over every subset of D, the way the folds compute it.
Sums(g, n, D) ==
    g = [s \in SUBSET D |-> IF s = {} THEN 0
                            ELSE n[CHOOSE x \in s : TRUE] + g[s \ {CHOOSE x \in s : TRUE}]]

\* Taking a chosen member out of a finite set.
LEMMA ChosenOut ==
    ASSUME NEW D, IsFiniteSet(D), NEW s \in SUBSET D, s # {}
    PROVE  LET x == CHOOSE x \in s : TRUE IN
           /\ x \in s /\ x \in D /\ s \ {x} \in SUBSET D /\ IsFiniteSet(s)
           /\ Cardinality(s) \in Nat \ {0} /\ Cardinality(s \ {x}) = Cardinality(s) - 1
<1> DEFINE x == CHOOSE x \in s : TRUE
<1>1. x \in s
  OBVIOUS
<1>2. IsFiniteSet(s)
  BY FS_Subset
<1> HIDE DEF x
<1>3. Cardinality(s \ {x}) = Cardinality(s) - 1
  BY <1>1, <1>2, FS_RemoveElement
<1>4. Cardinality(s) \in Nat /\ Cardinality(s) # 0
  BY <1>2, FS_CardinalityType, FS_EmptySet
<1> QED
  BY <1>1, <1>2, <1>3, <1>4 DEF x

\* There is such a function.
LEMMA SumExists ==
    ASSUME NEW D, IsFiniteSet(D), NEW n \in [D -> Nat]
    PROVE  \E g : Sums(g, n, D)
<1> DEFINE c(s) == CHOOSE x \in s : TRUE
           Step(g, s) == IF s = {} THEN 0 ELSE n[c(s)] + g[s \ {c(s)}]
           UpTo(k) == \E g \in [SUBSET D -> Nat] : \A s \in SUBSET D : Cardinality(s) <= k => g[s] = Step(g, s)
           B == {k \in Nat : ~UpTo(k)}
<1>1. \A s \in SUBSET D : Cardinality(s) \in Nat /\ (Cardinality(s) = 0 <=> s = {})
  <2>1. ASSUME NEW s \in SUBSET D PROVE Cardinality(s) \in Nat /\ (Cardinality(s) = 0 <=> s = {})
    BY FS_Subset, FS_CardinalityType, FS_EmptySet
  <2> QED
    BY <2>1
<1>2. \A s \in SUBSET D : s # {} => /\ c(s) \in D /\ s \ {c(s)} \in SUBSET D
                                    /\ Cardinality(s \ {c(s)}) = Cardinality(s) - 1
  BY ChosenOut
<1> HIDE DEF c
<1>3. UpTo(0)
  <2> DEFINE g == [s \in SUBSET D |-> 0]
  <2>1. g \in [SUBSET D -> Nat]
    OBVIOUS
  <2>2. \A s \in SUBSET D : Cardinality(s) <= 0 => g[s] = Step(g, s)
    BY <1>1
  <2> QED
    BY <2>1, <2>2
<1>4. ASSUME NEW k \in Nat, UpTo(k) PROVE UpTo(k + 1)
  <2>1. PICK g \in [SUBSET D -> Nat] : \A s \in SUBSET D : Cardinality(s) <= k => g[s] = Step(g, s)
    BY <1>4
  <2> DEFINE h == [s \in SUBSET D |-> IF Cardinality(s) = k + 1 THEN Step(g, s) ELSE g[s]]
  <2>2. \A s \in SUBSET D : Step(g, s) \in Nat
    BY <1>2
  <2>3. h \in [SUBSET D -> Nat]
    BY <2>2
  <2>4. ASSUME NEW s \in SUBSET D, Cardinality(s) <= k + 1 PROVE h[s] = Step(h, s)
    <3>1. s # {} => h[s \ {c(s)}] = g[s \ {c(s)}]
      BY <1>1, <1>2, <2>4
    <3>2. h[s] = Step(g, s)
      BY <1>1, <2>1, <2>4
    <3> QED
      BY <3>1, <3>2
  <2> QED
    BY <2>3, <2>4
<1>5. \A k \in Nat : UpTo(k)
  <2> SUFFICES ASSUME B # {} PROVE FALSE
    OBVIOUS
  <2>1. PICK k \in B : \A m \in B : k <= m
    <3>1. B \subseteq Nat
      OBVIOUS
    <3> HIDE DEF B
    <3> QED
      BY <3>1, Least
  <2>2. k # 0
    BY <1>3, <2>1
  <2>3. k - 1 \in Nat /\ UpTo(k - 1)
    <3>1. k - 1 \in Nat /\ ~(k <= k - 1)
      BY <2>2
    <3>2. k - 1 \notin B
      BY <2>1, <3>1
    <3> HIDE DEF UpTo
    <3> QED
      BY <3>1, <3>2
  <2>4. UpTo((k - 1) + 1)
    <3> HIDE DEF UpTo, B
    <3> QED
      BY <1>4, <2>3
  <2>5. (k - 1) + 1 = k
    OBVIOUS
  <2> HIDE DEF UpTo
  <2> QED
    BY <2>4, <2>5
<1>6. Cardinality(D) \in Nat /\ \A s \in SUBSET D : Cardinality(s) <= Cardinality(D)
  BY FS_CardinalityType, FS_Subset
<1>7. PICK g \in [SUBSET D -> Nat] : \A s \in SUBSET D : g[s] = Step(g, s)
  BY <1>1, <1>5, <1>6
<1>8. g = [s \in SUBSET D |-> Step(g, s)]
  BY <1>7
<1> QED
  BY <1>8 DEF Sums, c

\* A sum of naturals is at least each of them, is zero when all are, and bounds the
\* size of a union of sets that they bound.
LEMMA SumFacts ==
    ASSUME NEW D, IsFiniteSet(D), NEW n \in [D -> Nat], NEW g, Sums(g, n, D), NEW F,
           \A i \in D : IsFiniteSet(F[i]) /\ Cardinality(F[i]) <= n[i]
    PROVE  \A s \in SUBSET D :
             /\ g[s] \in Nat /\ (\A i \in s : n[i] <= g[s]) /\ ((\A i \in s : n[i] = 0) => g[s] = 0)
             /\ IsFiniteSet(UNION {F[i] : i \in s}) /\ Cardinality(UNION {F[i] : i \in s}) <= g[s]
<1> DEFINE P(s) ==
             /\ g[s] \in Nat /\ (\A i \in s : n[i] <= g[s]) /\ ((\A i \in s : n[i] = 0) => g[s] = 0)
             /\ IsFiniteSet(UNION {F[i] : i \in s}) /\ Cardinality(UNION {F[i] : i \in s}) <= g[s]
           B == {k \in Nat : \E s \in SUBSET D : Cardinality(s) = k /\ ~P(s)}
<1>1. SUFFICES B = {}
  <2>1. \A s \in SUBSET D : Cardinality(s) \in Nat
    BY FS_Subset, FS_CardinalityType
  <2> HIDE DEF P
  <2>2. B = {} => \A s \in SUBSET D : P(s)
    BY <2>1
  <2> QED
    BY <2>2 DEF P
<1>2. SUFFICES ASSUME B # {} PROVE FALSE
  OBVIOUS
<1>3. PICK k \in B : \A m \in B : k <= m
  <2>1. B \subseteq Nat
    OBVIOUS
  <2> HIDE DEF B
  <2> QED
    BY <1>2, <2>1, Least
<1>4. PICK s \in SUBSET D : Cardinality(s) = k /\ ~P(s)
  <2> HIDE DEF P
  <2> QED
    BY <1>3
<1>5. CASE s = {}
  <2>1. g[s] = 0
    BY <1>5 DEF Sums
  <2>2. UNION {F[i] : i \in s} = {}
    BY <1>5
  <2>3. IsFiniteSet({}) /\ Cardinality({}) = 0
    BY FS_EmptySet
  <2> QED
    BY <1>4, <1>5, <2>1, <2>2, <2>3
<1>6. CASE s # {}
  <2> DEFINE x == CHOOSE x \in s : TRUE
             t == s \ {x}
             U == UNION {F[i] : i \in s}
             V == UNION {F[i] : i \in t}
  <2>1. x \in s /\ x \in D /\ t \in SUBSET D /\ k \in Nat \ {0} /\ Cardinality(t) = k - 1
    BY <1>4, <1>6, ChosenOut
  <2>2. g[s] = n[x] + g[t]
    BY <1>6 DEF Sums
  <2> HIDE DEF x
  <2>3. P(t)
    <3> HIDE DEF P, t
    <3>1. k - 1 \in Nat /\ ~(k <= k - 1)
      BY <2>1
    <3>2. k - 1 \notin B
      BY <1>3, <3>1
    <3> QED
      BY <2>1, <3>1, <3>2
  <2>4. s = t \cup {x} /\ U = V \cup F[x]
    BY <2>1
  <2>5. n[x] \in Nat /\ g[t] \in Nat /\ IsFiniteSet(V) /\ Cardinality(V) <= g[t]
    BY <2>1, <2>3
  <2>6. IsFiniteSet(F[x]) /\ Cardinality(F[x]) <= n[x]
    BY <2>1
  <2>7. /\ g[s] \in Nat /\ (\A i \in s : n[i] <= g[s]) /\ ((\A i \in s : n[i] = 0) => g[s] = 0)
    <3>1. \A i \in t : n[i] \in Nat /\ n[i] <= g[t]
      BY <2>1, <2>3
    <3>2. (\A i \in t : n[i] = 0) => g[t] = 0
      BY <2>3
    <3> HIDE DEF t, P
    <3>3. \A i \in s : i \in t \/ i = x
      BY <2>4
    <3>4. \A i \in t : i \in s
      BY <2>4
    <3> QED
      BY <2>1, <2>2, <2>5, <3>1, <3>2, <3>3, <3>4
  <2>8. IsFiniteSet(U) /\ Cardinality(U) <= g[s]
    <3> HIDE DEF U, V
    <3>1. IsFiniteSet(V \cup F[x]) /\ Cardinality(V \cup F[x]) = Cardinality(V) + Cardinality(F[x]) - Cardinality(V \cap F[x])
      BY <2>5, <2>6, FS_Union
    <3>2. Cardinality(V \cap F[x]) \in Nat
      BY <2>5, FS_Intersection, FS_CardinalityType
    <3>3. Cardinality(V) \in Nat /\ Cardinality(F[x]) \in Nat
      BY <2>5, <2>6, FS_CardinalityType
    <3> QED
      BY <2>2, <2>4, <2>5, <2>6, <3>1, <3>2, <3>3
  <2> QED
    BY <1>4, <2>7, <2>8
<1> QED
  BY <1>5, <1>6

\* InFlight is such a sum over the workers of a stage.
LEMMA InFlightSums ==
    ASSUME NEW e, IsFiniteSet(DOMAIN e.workers), \A i \in DOMAIN e.workers : e.workers[i].in_flight \in Nat
    PROVE  LET n == [i \in DOMAIN e.workers |-> e.workers[i].in_flight] IN
           \E g : Sums(g, n, DOMAIN e.workers) /\ InFlight(e) = g[DOMAIN e.workers]
<1> DEFINE D == DOMAIN e.workers
           n == [i \in D |-> e.workers[i].in_flight]
           Eq(f) == f = [s \in SUBSET D |-> IF s = {} THEN 0
                          ELSE e.workers[CHOOSE x \in s : TRUE].in_flight + f[s \ {CHOOSE x \in s : TRUE}]]
           h == CHOOSE f : Eq(f)
<1>1. InFlight(e) = h[D]
  BY DEF InFlight, MapThenSumSet, MapThenFoldSet
<1>2. n \in [D -> Nat]
  OBVIOUS
<1>3. \A f : Eq(f) <=> Sums(f, n, D)
  <2>1. \A s \in SUBSET D : s # {} => n[CHOOSE x \in s : TRUE] = e.workers[CHOOSE x \in s : TRUE].in_flight
    OBVIOUS
  <2> HIDE DEF n
  <2> QED
    BY <2>1 DEF Sums
<1>4. \E f : Sums(f, n, D)
  <2> HIDE DEF n, D
  <2> QED
    BY <1>2, SumExists DEF D
<1> HIDE DEF Eq
<1>5. Eq(h)
  BY <1>3, <1>4
<1> QED
  BY <1>1, <1>3, <1>5

\* There are one or two stages.
LEMMA FiniteActive == IsFiniteSet(Active)
<1>1. IsFiniteSet({"Aggregated"}) /\ IsFiniteSet({"Prefill"})
  BY FS_Singleton
<1>2. IsFiniteSet({"Prefill"} \cup {"Decode"})
  BY <1>1, FS_AddElement
<1>3. {"Prefill"} \cup {"Decode"} = {"Prefill", "Decode"}
  OBVIOUS
<1> QED
  BY <1>1, <1>2, <1>3 DEF Active

\* ClusterInFlight is one over the stages.
LEMMA ClusterSums ==
    ASSUME \A st \in Active : StageInFlight(st) \in Nat
    PROVE  \E g : Sums(g, [st \in Active |-> StageInFlight(st)], Active) /\ ClusterInFlight = g[Active]
<1> DEFINE D == Active
           n == [st \in D |-> StageInFlight(st)]
           Eq(f) == f = [s \in SUBSET D |-> IF s = {} THEN 0
                          ELSE StageInFlight(CHOOSE x \in s : TRUE) + f[s \ {CHOOSE x \in s : TRUE}]]
           h == CHOOSE f : Eq(f)
<1>1. ClusterInFlight = h[D]
  BY DEF ClusterInFlight, MapThenSumSet, MapThenFoldSet
<1>2. n \in [D -> Nat]
  OBVIOUS
<1>3. \A f : Eq(f) <=> Sums(f, n, D)
  <2>1. \A s \in SUBSET D : s # {} => n[CHOOSE x \in s : TRUE] = StageInFlight(CHOOSE x \in s : TRUE)
    OBVIOUS
  <2> HIDE DEF n
  <2> QED
    BY <2>1 DEF Sums
<1>4. \E f : Sums(f, n, D)
  <2>1. IsFiniteSet(D)
    BY FiniteActive
  <2> HIDE DEF n, D
  <2> QED
    BY <1>2, <2>1, SumExists DEF D
<1> HIDE DEF Eq
<1>5. Eq(h)
  BY <1>3, <1>4
<1> QED
  BY <1>1, <1>3, <1>5

-----------------------------------------------------------------------------
(* The entries of a sequence                                                  *)

\* One sequence before another.
LEMMA ConcatEntries ==
    ASSUME NEW a, NEW b, Listed(a), Listed(b)
    PROVE  Listed(a \o b) /\ Entries(a \o b) = Entries(a) \cup Entries(b)
<1> DEFINE S == Entries(a) \cup Entries(b)  m == Len(a)  n == Len(b)  f == a \o b
<1>1. a \in Seq(S) /\ b \in Seq(S)
  BY BothListed
<1>2. /\ m \in Nat /\ n \in Nat /\ DOMAIN a = 1..m /\ DOMAIN b = 1..n
  BY <1>1
<1> HIDE DEF S
<1>3. /\ f \in Seq(S) /\ Len(f) = m + n
      /\ \A k \in 1..(m + n) : f[k] = IF k <= m THEN a[k] ELSE b[k - m]
  BY <1>1, ConcatProperties
<1>4. DOMAIN f = 1..(m + n)
  BY <1>3
<1> HIDE DEF m, n, f
<1>5. Entries(f) \subseteq Entries(a) \cup Entries(b)
  <2>1. ASSUME NEW k \in 1..(m + n) PROVE f[k] \in Entries(a) \cup Entries(b)
    <3>1. CASE k <= m
      BY <1>2, <1>3, <3>1 DEF Entries
    <3>2. CASE ~(k <= m)
      <4>1. k - m \in 1..n /\ f[k] = b[k - m]
        BY <1>2, <1>3, <3>2
      <4> QED
        BY <1>2, <4>1 DEF Entries
    <3> QED
      BY <3>1, <3>2
  <2> QED
    BY <1>4, <2>1 DEF Entries
<1>6. ASSUME NEW k \in 1..m PROVE a[k] \in Entries(f)
  <2>1. k \in 1..(m + n) /\ f[k] = a[k]
    BY <1>2, <1>3
  <2> QED
    BY <1>4, <2>1 DEF Entries
<1>7. ASSUME NEW k \in 1..n PROVE b[k] \in Entries(f)
  <2>1. k + m \in 1..(m + n) /\ ~(k + m <= m) /\ (k + m) - m = k
    BY <1>2
  <2>2. f[k + m] = b[k]
    BY <1>3, <2>1
  <2> QED
    BY <1>4, <2>1, <2>2 DEF Entries
<1>8. Entries(a) \cup Entries(b) \subseteq Entries(f)
  BY <1>2, <1>6, <1>7 DEF Entries
<1> QED
  BY <1>3, <1>5, <1>8 DEF f, Listed

\* A sequence cut in two.
LEMMA CutEntries ==
    ASSUME NEW q, Listed(q), NEW n \in 0..Len(q)
    PROVE  LET a == SubSeq(q, 1, n)  b == SubSeq(q, n + 1, Len(q)) IN
           Listed(a) /\ Listed(b) /\ Entries(q) = Entries(a) \cup Entries(b)
<1> DEFINE L == Len(q)  a == SubSeq(q, 1, n)  b == SubSeq(q, n + 1, L)
<1>0. PICK S : q \in Seq(S)
  BY DEF Listed
<1>1. L \in Nat /\ n \in Nat /\ n <= L /\ DOMAIN q = 1..L
  BY <1>0
<1>2. a \in Seq(S) /\ Len(a) = n /\ \A k \in 1..n : a[k] = q[k]
  BY <1>0
<1>3. b \in Seq(S) /\ Len(b) = L - n /\ \A k \in 1..(L - n) : b[k] = q[n + k]
  <2>1. n + 1 \in Int /\ L \in Int /\ \A i \in (n + 1)..L : q[i] \in S
    BY <1>0, <1>1
  <2>2. /\ b \in Seq(S)
        /\ Len(b) = IF n + 1 <= L THEN L - (n + 1) + 1 ELSE 0
        /\ \A i \in 1..(L - (n + 1) + 1) : b[i] = q[n + 1 + i - 1]
    <3> HIDE DEF L
    <3> QED
      BY <1>0, <2>1, SubSeqProperties
  <2>3. L - (n + 1) + 1 = L - n /\ \A i \in Int : n + 1 + i - 1 = n + i
    BY <1>1
  <2> HIDE DEF L
  <2> QED
    BY <1>1, <2>2, <2>3
<1>4. DOMAIN a = 1..n /\ DOMAIN b = 1..(L - n)
  BY <1>1, <1>2, <1>3
<1> HIDE DEF a, b, L
<1>5. ASSUME NEW k \in 1..L PROVE q[k] \in Entries(a) \cup Entries(b)
  <2>1. CASE k <= n
    BY <1>1, <1>2, <1>4, <2>1 DEF Entries
  <2>2. CASE ~(k <= n)
    <3>1. k - n \in 1..(L - n) /\ n + (k - n) = k
      BY <1>1, <2>2
    <3>2. b[k - n] = q[k]
      BY <1>3, <3>1
    <3> QED
      BY <1>4, <3>1, <3>2 DEF Entries
  <2> QED
    BY <2>1, <2>2
<1>6. Entries(a) \subseteq Entries(q)
  <2>1. \A k \in 1..n : k \in 1..L
    BY <1>1
  <2> QED
    BY <1>1, <1>2, <1>4, <2>1 DEF Entries
<1>7. Entries(b) \subseteq Entries(q)
  <2>1. \A k \in 1..(L - n) : n + k \in 1..L
    BY <1>1
  <2> QED
    BY <1>1, <1>3, <1>4, <2>1 DEF Entries
<1>8. Entries(q) \subseteq Entries(a) \cup Entries(b)
  BY <1>1, <1>5 DEF Entries
<1> QED
  BY <1>2, <1>3, <1>6, <1>7, <1>8 DEF Listed, a, b, L

\* An insertion adds the entries that it inserts.
LEMMA InsertedEntries ==
    ASSUME NEW q, NEW xs, Listed(q), Listed(xs), NEW ahead, ahead \subseteq DOMAIN q
    PROVE  Listed(Inserted(q, xs, ahead)) /\ Entries(Inserted(q, xs, ahead)) = Entries(q) \cup Entries(xs)
<1> DEFINE n == Cardinality(ahead)  a == SubSeq(q, 1, n)  b == SubSeq(q, n + 1, Len(q))
<1>1. DOMAIN q = 1..Len(q) /\ Len(q) \in Nat
  BY DEF Listed
<1>2. n \in 0..Len(q)
  <2>2. IsFiniteSet(1..Len(q)) /\ Cardinality(1..Len(q)) = Len(q)
    BY <1>1, FS_Interval
  <2>3. IsFiniteSet(ahead) /\ n <= Len(q)
    BY <1>1, <2>2, FS_Subset
  <2> QED
    BY <1>1, <2>3, FS_CardinalityType
<1> HIDE DEF n
<1>3. Listed(a) /\ Listed(b) /\ Entries(q) = Entries(a) \cup Entries(b)
  BY <1>2, CutEntries
<1>4. Inserted(q, xs, ahead) = (a \o xs) \o b
  BY DEF Inserted, n
<1> HIDE DEF a, b
<1>5. Listed(a \o xs) /\ Entries(a \o xs) = Entries(a) \cup Entries(xs)
  BY <1>3, ConcatEntries
<1>6. Listed((a \o xs) \o b) /\ Entries((a \o xs) \o b) = Entries(a \o xs) \cup Entries(b)
  BY <1>3, <1>5, ConcatEntries
<1> QED
  BY <1>3, <1>4, <1>5, <1>6

\* A pushed event, a session that waits, and the event that is popped.
LEMMA PushedEntries ==
    ASSUME NEW q, Listed(q), NEW x
    PROVE  /\ Listed(Pushed(q, x)) /\ Entries(Pushed(q, x)) = Entries(q) \cup {x}
           /\ Listed(Waiting(q, x)) /\ Entries(Waiting(q, x)) = Entries(q) \cup {x}
<1>1. Listed(<<x>>) /\ Entries(<<x>>) = {x}
  BY SingleHit
<1> QED
  BY <1>1, InsertedEntries DEF Pushed, Waiting

\* The entries of a sequence are its head and those of its tail.
LEMMA TailEntries ==
    ASSUME NEW q, Listed(q), q # <<>>
    PROVE  Listed(Tail(q)) /\ Entries(q) = {Head(q)} \cup Entries(Tail(q))
<1>1. PICK S : q \in Seq(S)
  BY DEF Listed
<1>2. /\ Tail(q) \in Seq(S) /\ DOMAIN Tail(q) = 1..(Len(q) - 1) /\ DOMAIN q = 1..Len(q) /\ Len(q) \in Nat \ {0}
      /\ Head(q) = q[1] /\ \A k \in 1..(Len(q) - 1) : Tail(q)[k] = q[k + 1]
  BY <1>1
<1>3. Head(q) \in Entries(q) /\ Entries(Tail(q)) \subseteq Entries(q)
  BY Popped, Zenon
<1>4. ASSUME NEW k \in 1..Len(q) PROVE q[k] = Head(q) \/ q[k] \in Entries(Tail(q))
  <2>1. CASE k = 1
    BY <1>2, <2>1
  <2>2. CASE k # 1
    <3>1. k - 1 \in 1..(Len(q) - 1) /\ (k - 1) + 1 = k
      BY <1>2, <2>2
    <3>2. Tail(q)[k - 1] = q[k]
      BY <1>2, <3>1
    <3> QED
      BY <1>2, <3>1, <3>2 DEF Entries
  <2> QED
    BY <2>1, <2>2
<1>5. Entries(q) \subseteq {Head(q)} \cup Entries(Tail(q))
  BY <1>2, <1>4 DEF Entries
<1> QED
  BY <1>2, <1>3, <1>5 DEF Listed

\* Nothing is listed in the empty sequence.
LEMMA NoEntries == Listed(<<>>) /\ Entries(<<>>) = {}
<1>1. <<>> \in Seq({}) /\ DOMAIN <<>> = {}
  OBVIOUS
<1> QED
  BY <1>1 DEF Listed, Entries

\* The look at a queue that a router asks for.
LEMMA DrainEntries ==
    ASSUME NEW st
    PROVE  /\ Listed(DrainOf(st))
           /\ Entries(DrainOf(st)) = IF conf.router = "none" THEN {} ELSE {[op |-> "drain", st |-> st]}
<1>1. Listed(<<[op |-> "drain", st |-> st]>>) /\ Entries(<<[op |-> "drain", st |-> st]>>) = {[op |-> "drain", st |-> st]}
  BY SingleHit
<1> QED
  BY <1>1, NoEntries DEF DrainOf

-----------------------------------------------------------------------------
(* What keeps the loop from its bails                                         *)

\* A worker of st has the request; an event will report its last token; work does.
Has(g, st, r)    == \E i \in Nat : <<st, i>> \in CoresIn(g, r)
Ending(q, st, r) == \E e \in Entries(q) : e.kind = "completion" /\ e.st = st /\ Last(r) \in e.signals
Ended(w, st, r)  == \E x \in Entries(w) : x.op = "signals" /\ x.st = st /\ Last(r) \in x.set

Served(g, q, w, st, r) == Has(g, st, r) \/ Ending(q, st, r) \/ Ended(w, st, r)

\* The request is between its two stages.
Passed(q, r)    == \E e \in Entries(q) : e.kind = "handoff" /\ e.r = r
Passing(w, r)   == \E x \in Entries(w) : x.op = "handoff" /\ x.r = r
Handed(q, w, r) == Passed(q, r) \/ Passing(w, r)

\* A pass reports something, and a token that is not the last one is of a request
\* that its worker still has.
Reports(g, q) ==
    \A e \in Entries(q) : e.kind = "completion" =>
        e.signals # {} /\ \A x \in e.signals : ~x.done => <<e.st, e.worker>> \in CoresIn(g, x.r)
Reported(g, w) ==
    \A y \in Entries(w) : y.op = "signals" => \A x \in y.set : ~x.done => Has(g, y.st, x.r)

\* The phase of a request and its slot in the router of a stage follow it.
Slots(g, q, w, t, R) ==
    \A st \in Active :
        /\ t[st].heavy \subseteq DOMAIN t[st].slots
        /\ \A r : /\ Served(g, q, w, st, r) => R[r] = <<st, "running">>
                  /\ r \in t[st].pending => R[r] = <<st, "queued">>
                  /\ r \in DOMAIN t[st].slots <=> conf.router # "none" /\ Served(g, q, w, st, r)

\* Who waits in a router waits for a load to go down, or is about to be looked at.
Queues(t, w) ==
    \A st \in Active : t[st].pending # {} =>
        /\ conf.router = "queue"
        /\ AllWorkersBusy(t[st]) \/ \E x \in Entries(w) : x.op = "drain" /\ x.st = st

ActiveInv == \A st \in Active : ActiveIds(eng[st]) # {}

\* The driver knows what is out, and the turns before the current one were released.
DriverInv ==
    /\ conf.source = "workload" => \A r : r \in flying <=> Live(r)
    /\ \A r \in DOMAIN requests : r[2] \in Turns(r[1]) /\ (r[2] = turn[r[1]] => Live(r))
    /\ \A e \in Entries(ready) : e.t \in Turns(e.s)
    /\ \A s \in DOMAIN Sessions :
        /\ turn[s] >= 1
        /\ \A t \in Turns(s) :
            /\ t < turn[s] => <<s, t>> \in DOMAIN requests
            /\ t = turn[s] => <<s, t>> \in DOMAIN requests \/ SessionIn(ready, s) # {}

\* An event of the loop.
Timed(e) == e.at \in Nat /\ e.kind \in {"completion", "ready", "handoff"}

\* Times are natural numbers; requests without turns do not wait in concurrency mode.
TimeInv ==
    /\ now \in Nat
    /\ \A e \in Entries(events) : Timed(e)
    /\ \A e \in Entries(ready) :
        e.at \in Nat /\ (conf.source = "requests" /\ conf.cap > 0 => e.at = 0)

\* A round in which nothing has changed so far has released what it may.
ReleaseInv == ~changed /\ pc \in {"drive", "decode", "round", "advance"} => ~MayRelease

\* What the cap is about: those that wait for or run in the first stage.
FirstOf(q, w, R) ==
    {r \in DOMAIN R : R[r][1] = First /\ R[r][2] # "done" /\ ~Handed(q, w, r)}
CapInv ==
    /\ IsFiniteSet(DOMAIN requests)
    /\ conf.cap > 0 => Cardinality(FirstOf(events, work, requests)) <= conf.cap

ErrorInv ==
    /\ OnePlaceInv /\ pc # "failed"
    /\ Reports(eng, events) /\ Reported(eng, work)
    /\ Slots(eng, events, work, rt, requests) /\ Queues(rt, work)
    /\ ActiveInv /\ DriverInv /\ TimeInv /\ ReleaseInv /\ CapInv

-----------------------------------------------------------------------------
(* What the parts have to do with each other                                  *)

\* A request is in one place or in none.
OneOf(g, t, q, w, r) ==
    LET A == CoresIn(g, r)  B == QueuesIn(t, r)  C == HeapOf(q, r)  D == HandOf(w, r)
    IN  Whole(A, B, C, D) \/ Nowhere(A, B, C, D)

\* An event or a piece of work that names a request holds it.
LEMMA Held ==
    ASSUME NEW q, NEW w, NEW r
    PROVE  /\ \A st : Ending(q, st, r) => HeapOf(q, r) # {}
           /\ \A st : Ended(w, st, r) => HandOf(w, r) # {}
           /\ Passed(q, r) => HeapOf(q, r) # {}
           /\ Passing(w, r) => HandOf(w, r) # {}
<1>1. HeapOf(q, r) # {} <=> \E e \in Entries(q) : Holds(e, r)
  BY DEF HeapOf, Entries
<1>2. HandOf(w, r) # {} <=> \E x \in Entries(w) : Carries(x, r)
  BY DEF HandOf, Entries
<1> QED
  BY <1>1, <1>2, Zenon DEF Holds, Carries, Ending, Ended, Passed, Passing

\* In a core or in a queue, it is not also on its way.
LEMMA Apart ==
    ASSUME NEW g, NEW t, NEW q, NEW w, NEW r, OneOf(g, t, q, w, r)
    PROVE  /\ CoresIn(g, r) # {} => /\ QueuesIn(t, r) = {} /\ ~Handed(q, w, r)
                                    /\ \A st : ~Ending(q, st, r) /\ ~Ended(w, st, r)
           /\ QueuesIn(t, r) # {} => /\ CoresIn(g, r) = {} /\ ~Handed(q, w, r)
                                     /\ \A st : ~Served(g, q, w, st, r)
           /\ HeapOf(q, r) # {} => /\ CoresIn(g, r) = {} /\ QueuesIn(t, r) = {} /\ ~Passing(w, r)
                                   /\ \A st : ~Ended(w, st, r)
           /\ HandOf(w, r) # {} => /\ CoresIn(g, r) = {} /\ QueuesIn(t, r) = {} /\ ~Passed(q, r)
                                   /\ \A st : ~Ending(q, st, r)
<1>1. /\ \A st : Ending(q, st, r) => HeapOf(q, r) # {}
      /\ \A st : Ended(w, st, r) => HandOf(w, r) # {}
      /\ Passed(q, r) => HeapOf(q, r) # {}
      /\ Passing(w, r) => HandOf(w, r) # {}
  BY Held
<1>2. \A S : One(S) => S # {}
  BY DEF One
<1>3. \A st : Has(g, st, r) => CoresIn(g, r) # {}
  BY DEF Has
<1>4. \/ CoresIn(g, r) # {} /\ QueuesIn(t, r) = {} /\ HeapOf(q, r) = {} /\ HandOf(w, r) = {}
      \/ CoresIn(g, r) = {} /\ QueuesIn(t, r) # {} /\ HeapOf(q, r) = {} /\ HandOf(w, r) = {}
      \/ CoresIn(g, r) = {} /\ QueuesIn(t, r) = {} /\ HeapOf(q, r) # {} /\ HandOf(w, r) = {}
      \/ CoresIn(g, r) = {} /\ QueuesIn(t, r) = {} /\ HeapOf(q, r) = {} /\ HandOf(w, r) # {}
      \/ CoresIn(g, r) = {} /\ QueuesIn(t, r) = {} /\ HeapOf(q, r) = {} /\ HandOf(w, r) = {}
  BY <1>2, Zenon DEF OneOf, Whole, Nowhere
<1> QED
  BY <1>1, <1>3, <1>4, Zenon DEF Handed, Served

\* The places before and after a step, and that a request in one of them is live.
LEMMA Placement ==
    ASSUME OnePlaceInv, NEW r
    PROVE  /\ OneOf(eng, rt, events, work, r)
           /\ CoresIn(eng, r) # {} \/ QueuesIn(rt, r) # {} \/ HeapOf(events, r) # {} \/ HandOf(work, r) # {}
                <=> Live(r)
<1>1. Place(r)
  BY Zenon DEF OnePlaceInv, PlaceInv
<1>2. \A S : One(S) => S # {}
  BY DEF One
<1>3. OneOf(eng, rt, events, work, r)
  BY <1>1, Zenon DEF Place, OneOf, Nowhere
<1> QED
  BY <1>1, <1>2, <1>3, Zenon DEF Place, Whole

\* The configuration never changes, and so what is said of the next state is said of
\* its parts.
LEMMA SameStages ==
    ASSUME conf' = conf
    PROVE  /\ Active' = Active /\ First' = First
           /\ FirstOf(events, work, requests)' = FirstOf(events', work', requests')
           /\ \A s : Turns(s)' = Turns(s)
BY DEF Active, First, Turns, FirstOf, Handed, Passed, Passing, Entries

\* The places of a request after a step, said of the next parts.
LEMMA NextPlacement ==
    ASSUME OnePlaceInv', conf' = conf, NEW r
    PROVE  OneOf(eng', rt', events', work', r)
<1>1. Place(r)'
  BY Zenon DEF OnePlaceInv, PlaceInv
<1>2. Active' = Active
  BY SameStages
<1>3. /\ CoresIn(eng, r)' = CoresIn(eng', r) /\ QueuesIn(rt, r)' = QueuesIn(rt', r)
      /\ HeapOf(events, r)' = HeapOf(events', r) /\ HandOf(work, r)' = HandOf(work', r)
  BY <1>2 DEF CoresIn, QueuesIn, HeapOf, HandOf, Holds, Carries, Last
<1> QED
  BY <1>1, <1>3, Zenon DEF Place, OneOf, Nowhere, Whole, One

\* The invariant after a step, from what is said of the next parts.
LEMMA NextParts ==
    ASSUME conf' = conf, OnePlaceInv', pc' # "failed", Reports(eng', events'), Reported(eng', work'),
           Slots(eng', events', work', rt', requests'), Queues(rt', work'),
           ActiveInv', DriverInv', TimeInv', ReleaseInv', CapInv'
    PROVE  ErrorInv'
<1>1. Active' = Active
  BY SameStages
<1>3. Reports(eng, events)' = Reports(eng', events')
  BY <1>1 DEF Reports, CoresIn, Entries
<1>4. Reported(eng, work)' = Reported(eng', work')
  BY <1>1 DEF Reported, Has, CoresIn, Entries
<1>5. Slots(eng, events, work, rt, requests)' = Slots(eng', events', work', rt', requests')
  BY <1>1 DEF Slots, Served, Has, Ending, Ended, CoresIn, Entries, Last
<1>6. Queues(rt, work)' = Queues(rt', work')
  BY <1>1 DEF Queues, AllWorkersBusy, Load, Entries
<1> QED
  BY <1>3, <1>4, <1>5, <1>6 DEF ErrorInv

-----------------------------------------------------------------------------
(* What the kinds of step do to the parts                                     *)

\* Nobody leaves a core, and no pass is added.
LEMMA ReportsKept ==
    ASSUME NEW g, NEW h, \A r : CoresIn(g, r) \subseteq CoresIn(h, r), NEW q, NEW f, Reports(g, q),
           \A e \in Entries(f) : e \in Entries(q) \/ e.kind # "completion"
    PROVE  Reports(h, f)
BY DEF Reports

\* The same of the work in hand.
LEMMA ReportedKept ==
    ASSUME NEW g, NEW h, \A r : CoresIn(g, r) \subseteq CoresIn(h, r), NEW w, NEW v, Reported(g, w),
           \A y \in Entries(v) : \/ y.op # "signals"
                                 \/ \E x \in Entries(w) : x.op = "signals" /\ x.st = y.st /\ y.set \subseteq x.set
    PROVE  Reported(h, v)
<1>1. \A st, r : Has(g, st, r) => Has(h, st, r)
  BY DEF Has
<1> QED
  BY <1>1 DEF Reported

\* A router that keeps its queue and who has a slot.
Steady(t, u) ==
    \A st \in Active : /\ u[st].pending = t[st].pending /\ DOMAIN u[st].slots = DOMAIN t[st].slots
                       /\ u[st].heavy \subseteq t[st].heavy

\* Requests move from a core to the end of their pass, or do not move.
LEMMA SlotsKept ==
    ASSUME NEW g, NEW q, NEW w, NEW t, NEW R, Slots(g, q, w, t, R), NEW h, NEW f, NEW v, NEW u, Steady(t, u),
           \A st \in Active : \A r : Served(h, f, v, st, r) <=> Served(g, q, w, st, r)
    PROVE  Slots(h, f, v, u, R)
<1> HIDE DEF Served
<1> QED
  BY DEF Slots, Steady

\* Queues stay, and nothing but a look at one leaves the work in hand.
LEMMA QueuesKept ==
    ASSUME NEW t, NEW w, Queues(t, w), NEW u, NEW v,
           \A st \in Active : u[st].pending \subseteq t[st].pending,
           \A st \in Active : u[st] = t[st] \/ conf.router # "queue" \/ \E x \in Entries(v) : x.op = "drain" /\ x.st = st,
           \A st \in Active : \A x \in Entries(w) : x.op = "drain" /\ x.st = st /\ u[st].pending # {} =>
                \E y \in Entries(v) : y.op = "drain" /\ y.st = st
    PROVE  Queues(u, v)
<1> SUFFICES ASSUME NEW st \in Active, u[st].pending # {}
             PROVE  /\ conf.router = "queue"
                    /\ AllWorkersBusy(u[st]) \/ \E x \in Entries(v) : x.op = "drain" /\ x.st = st
  BY DEF Queues
<1>1. t[st].pending # {}
  OBVIOUS
<1>2. /\ conf.router = "queue"
      /\ AllWorkersBusy(t[st]) \/ \E x \in Entries(w) : x.op = "drain" /\ x.st = st
  BY <1>1 DEF Queues
<1> QED
  BY <1>2

\* The requests of the first stage: none is added.
LEMMA CapKept ==
    ASSUME CapInv, conf \in Configs, conf' = conf, IsFiniteSet(DOMAIN requests'),
           FirstOf(events', work', requests') \subseteq FirstOf(events, work, requests)
    PROVE  CapInv'
<1> DEFINE A == FirstOf(events, work, requests)  B == FirstOf(events', work', requests')
<1>1. IsFiniteSet(A)
  BY FS_Subset DEF FirstOf, CapInv
<1> HIDE DEF A, B
<1>2. B \subseteq A
  BY DEF A, B
<1>3. IsFiniteSet(B) /\ Cardinality(B) <= Cardinality(A) /\ Cardinality(A) \in Nat /\ Cardinality(B) \in Nat
  BY <1>1, <1>2, FS_Subset, FS_CardinalityType
<1>4. conf.cap \in Nat /\ FirstOf(events, work, requests)' = B
  BY ReplayAssumption, SameStages DEF B
<1>5. conf.cap > 0 => Cardinality(A) <= conf.cap
  BY DEF CapInv, A
<1>6. conf.cap > 0 => Cardinality(B) <= conf.cap
  BY <1>3, <1>4, <1>5
<1> QED
  BY <1>4, <1>6 DEF CapInv

\* The sets of the first stage, when nothing comes back from a hand-off.
LEMMA FirstKept ==
    ASSUME NEW q, NEW w, NEW R, NEW f, NEW v, \A r : Handed(q, w, r) => Handed(f, v, r)
    PROVE  FirstOf(f, v, R) \subseteq FirstOf(q, w, R)
BY DEF FirstOf

\* The driver is left alone and the same requests are live.
LEMMA DriverKept ==
    ASSUME DriverInv, conf' = conf, UNCHANGED driverVars, DOMAIN requests' = DOMAIN requests,
           \A r : Live(r)' <=> Live(r)
    PROVE  DriverInv'
<1>1. \A s : Turns(s)' = Turns(s)
  BY SameStages
<1>2. UNCHANGED <<ready, turn, flying>>
  BY DEF driverVars
<1>3. Entries(ready)' = Entries(ready) /\ \A s : SessionIn(ready, s)' = SessionIn(ready, s)
  BY <1>2 DEF Entries, SessionIn
<1>4. conf.source = "workload" => \A r : r \in flying' <=> Live(r)'
  BY <1>2, Zenon DEF DriverInv
<1>5. \A r \in DOMAIN requests' : r[2] \in Turns(r[1]) /\ (r[2] = turn'[r[1]] => Live(r)')
  BY <1>2, Zenon DEF DriverInv
<1>6. \A e \in Entries(ready) : e.t \in Turns(e.s)
  BY DEF DriverInv
<1>7. \A s \in DOMAIN Sessions :
        /\ turn[s] >= 1
        /\ \A t \in Turns(s) :
            /\ t < turn[s] => <<s, t>> \in DOMAIN requests'
            /\ t = turn[s] => <<s, t>> \in DOMAIN requests' \/ SessionIn(ready, s) # {}
  BY DEF DriverInv
<1>8. DriverInv' =
        (/\ conf'.source = "workload" => \A r : r \in flying' <=> Live(r)'
         /\ \A r \in DOMAIN requests' : r[2] \in Turns(r[1])' /\ (r[2] = turn'[r[1]] => Live(r)')
         /\ \A e \in Entries(ready)' : e.t \in Turns(e.s)'
         /\ \A s \in DOMAIN Sessions :
            /\ turn'[s] >= 1
            /\ \A t \in Turns(s)' :
                /\ t < turn'[s] => <<s, t>> \in DOMAIN requests'
                /\ t = turn'[s] => <<s, t>> \in DOMAIN requests' \/ SessionIn(ready, s)' # {})
  BY Zenon DEF DriverInv
<1> QED
  BY <1>1, <1>2, <1>3, <1>4, <1>5, <1>6, <1>7, <1>8, Zenon

\* No time changes, but for events that are added at a later time.
LEMMA TimeKept ==
    ASSUME TimeInv, conf' = conf, now' = now, ready' = ready,
           \A e \in Entries(events') : e \in Entries(events) \/ Timed(e)
    PROVE  TimeInv'
BY DEF TimeInv, Entries

\* A handler runs in a round that changes something, or before the arrivals.
LEMMA ReleaseKept ==
    ASSUME ReplayInv, UNCHANGED <<pc, changed>>, work # <<>> \/ changed
    PROVE  ReleaseInv'
<1>1. ~changed /\ pc \in {"drive", "decode", "round", "advance"} => FALSE
  BY DEF ReplayInv, RoundInv
<1> QED
  BY <1>1 DEF ReleaseInv

\* A round that has changed something, or is in its early phases, owes no release.
LEMMA ReleaseFree ==
    ASSUME changed' \/ pc' \notin {"drive", "decode", "round", "advance"}
    PROVE  ReleaseInv'
BY DEF ReleaseInv

-----------------------------------------------------------------------------
(* A request comes to a stage                                                 *)

\* It is given to a worker, and has a slot if there is a router.
Runs(st, r) ==
    /\ requests'[r] = <<st, "running">> /\ \E i \in Nat : CoresIn(eng', r) = {<<st, i>>}
    /\ \A x \in Active : x # st => rt'[x] = rt[x]
    /\ IF conf.router = "none" THEN rt'[st] = rt[st]
       ELSE /\ rt'[st].pending = rt[st].pending \ {r} /\ rt'[st].heavy \subseteq rt[st].heavy \cup {r}
            /\ DOMAIN rt'[st].slots = DOMAIN rt[st].slots \cup {r}

\* It waits in the queue of a router whose workers are busy.
Waits(st, r) ==
    /\ requests'[r] = <<st, "queued">> /\ CoresIn(eng', r) = {}
    /\ \A x \in Active : x # st => rt'[x] = rt[x]
    /\ conf.router = "queue" /\ AllWorkersBusy(rt'[st])
    /\ rt'[st].pending = rt[st].pending \cup {r} /\ rt'[st].heavy = rt[st].heavy
    /\ rt'[st].slots = rt[st].slots

\* The worker it is dispatched to.
LEMMA DispatchCore ==
    ASSUME EngineInv, NEW st \in Active, NEW r, NEW i \in ActiveIds(eng[st]), Dispatch(st, i, r),
           One(CoresIn(eng', r))
    PROVE  requests'[r] = <<st, "running">> /\ \E j \in Nat : CoresIn(eng', r) = {<<st, j>>}
<1>1. DOMAIN eng = Active /\ EngineRecord(eng[st]) /\ i \in DOMAIN eng[st].workers /\ i \in Nat
  BY DEF EngineInv, ActiveIds, EngineRecord
<1> DEFINE f == Dispatched(eng[st], i, r, OutputTokens(st, r))
<1>2. eng'[st] = f
  BY <1>1 DEF Dispatch
<1>3. DOMAIN f.workers = DOMAIN eng[st].workers /\ r \in DOMAIN f.workers[i].core
  BY <1>1, DispatchedWorkers
<1> HIDE DEF f
<1>4. <<st, i>> \in CoresIn(eng', r)
  BY <1>1, <1>2, <1>3 DEF CoresIn
<1>5. requests'[r] = <<st, "running">>
  BY PhaseSet DEF Dispatch
<1>6. CoresIn(eng', r) = {<<st, i>>}
  BY <1>4 DEF One
<1> QED
  BY <1>1, <1>5, <1>6

\* admit_request gives it a slot.
LEMMA AdmitRuns ==
    ASSUME EngineInv, KnownInv, Fit(eng, events), Heard(eng, events), NEW st \in Active, NEW r,
           CoresIn(eng, r) = {}, QueuesIn(rt, r) \subseteq {st}, Admit(st, r), conf.router # "none"
    PROVE  Arrived(r) /\ Runs(st, r)
<1>1. PICK i \in rt[st].known \cap DOMAIN eng[st].workers, h \in Weights(st) :
        /\ rt' = [rt EXCEPT ![st] = Slotted(Unqueued(@, r), r, i, h)]
        /\ Dispatch(st, i, r)
  BY DEF Admit
<1>2. i \in ActiveIds(eng[st]) /\ Dispatch(st, i, r)
  BY <1>1 DEF KnownInv
<1>3. Arrived(r)
  BY AdmitPlaces
<1>4. One(CoresIn(eng', r))
  BY <1>2, DispatchPlaces
<1>5. requests'[r] = <<st, "running">> /\ \E j \in Nat : CoresIn(eng', r) = {<<st, j>>}
  BY <1>2, <1>4, DispatchCore
<1> DEFINE q == Unqueued(rt[st], r)  u == Slotted(q, r, i, h)
<1>6. rt' = [rt EXCEPT ![st] = u] /\ DOMAIN rt = Active
  BY <1>1, Zenon DEF KnownInv
<1>7. /\ q.pending = rt[st].pending \ {r} /\ DOMAIN q = {"known", "pending", "slots", "heavy"}
      /\ q.slots = rt[st].slots /\ q.heavy = rt[st].heavy
  BY DEF KnownInv, Unqueued
<1> HIDE DEF q
<1>8. u.pending = q.pending /\ DOMAIN u.slots = DOMAIN q.slots \cup {r} /\ u.heavy \subseteq q.heavy \cup {r}
  BY <1>7 DEF Slotted
<1> HIDE DEF u
<1>9. rt'[st] = u /\ \A x \in Active : x # st => rt'[x] = rt[x]
  BY <1>6
<1> QED
  BY <1>3, <1>5, <1>7, <1>8, <1>9 DEF Runs

\* on_request_arrival queues it only while all workers are busy.
LEMMA EnterMoves ==
    ASSUME EngineInv, KnownInv, RotaInv, Fit(eng, events), Heard(eng, events), NEW st \in Active, NEW r,
           CoresIn(eng, r) = {}, QueuesIn(rt, r) = {}, Enter(st, r)
    PROVE  /\ Arrived(r)
           /\ Waits(st, r) \/ (Runs(st, r) /\ (conf.router = "queue" => ~AllWorkersBusy(rt[st])))
<1>0. Arrived(r)
  BY EnterPlaces
<1>1. CASE conf.router = "none" /\ RoundRobin(st, r) /\ UNCHANGED rt
  <2>1. PICK i \in ActiveIds(eng[st]) : Dispatch(st, i, r)
    BY <1>1, RoundRobinFinds
  <2>2. One(CoresIn(eng', r))
    BY <2>1, DispatchPlaces
  <2>3. requests'[r] = <<st, "running">> /\ \E j \in Nat : CoresIn(eng', r) = {<<st, j>>}
    BY <2>1, <2>2, DispatchCore
  <2> QED
    BY <1>0, <1>1, <2>3 DEF Runs
<1>2. CASE conf.router # "none" /\ OnRequestArrival(st, r)
  <2>1. CASE Admit(st, r) /\ (conf.router = "queue" => ~AllWorkersBusy(rt[st]))
    BY <1>2, <2>1, AdmitRuns
  <2>2. CASE /\ rt' = [rt EXCEPT ![st].pending = @ \cup {r}] /\ SetPhase(r, <<st, "queued">>) /\ UNCHANGED eng
             /\ conf.router = "queue" /\ AllWorkersBusy(rt[st])
    <3>1. /\ rt'[st].pending = rt[st].pending \cup {r} /\ rt'[st].heavy = rt[st].heavy
          /\ rt'[st].slots = rt[st].slots /\ rt'[st].known = rt[st].known
          /\ \A x \in Active : x # st => rt'[x] = rt[x]
      BY <2>2 DEF KnownInv
    <3>2. AllWorkersBusy(rt'[st])
      BY <2>2, <3>1 DEF AllWorkersBusy, Load
    <3>3. requests'[r] = <<st, "queued">>
      BY <2>2, PhaseSet
    <3> QED
      BY <1>0, <2>2, <3>1, <3>2, <3>3 DEF Waits
  <2> QED
    BY <1>2, <2>1, <2>2 DEF OnRequestArrival
<1> QED
  BY <1>1, <1>2 DEF Enter

\* The slots and the phases follow it; the events and the work that change complete nothing.
LEMMA SlotsEntered ==
    ASSUME OnePlaceInv, OnePlaceInv', conf' = conf, Slots(eng, events, work, rt, requests), NEW st \in Active, NEW r,
           Arrived(r), Waits(st, r) \/ Runs(st, r),
           CoresIn(eng, r) = {}, QueuesIn(rt, r) \subseteq {st},
           \A x \in Active : \A z : /\ Ending(events', x, z) <=> Ending(events, x, z)
                                    /\ Ended(work', x, z) <=> Ended(work, x, z)
    PROVE  Slots(eng', events', work', rt', requests')
<1>1. QueuesIn(rt', r) # {} \/ CoresIn(eng', r) # {}
  <2>1. \A S : One(S) => S # {}
    BY DEF One
  <2> QED
    BY <2>1, Zenon DEF Arrived
<1>2. \A x \in Active : ~Ending(events', x, r) /\ ~Ended(work', x, r)
  <2>1. OneOf(eng', rt', events', work', r)
    BY NextPlacement
  <2> QED
    BY <1>1, <2>1, Apart, Zenon DEF Served
<1>3. \A x \in Active : ~Served(eng, events, work, x, r)
  <2>1. \A x \in Active : ~Has(eng, x, r)
    BY DEF Has
  <2> QED
    BY <1>2, <2>1, Zenon DEF Served
<1>4. ASSUME NEW z, z # r
      PROVE  \A x \in Active : Served(eng', events', work', x, z) <=> Served(eng, events, work, x, z)
  <2>1. CoresIn(eng', z) = CoresIn(eng, z)
    BY <1>4 DEF Arrived
  <2>2. \A x : Has(eng', x, z) <=> Has(eng, x, z)
    BY <2>1 DEF Has
  <2> QED
    BY <2>2, Zenon DEF Served
<1>5. \A x \in Active : /\ rt[x].heavy \subseteq DOMAIN rt[x].slots
                        /\ \A z : /\ Served(eng, events, work, x, z) => requests[z] = <<x, "running">>
                                  /\ z \in rt[x].pending => requests[z] = <<x, "queued">>
                                  /\ z \in DOMAIN rt[x].slots <=> conf.router # "none" /\ Served(eng, events, work, x, z)
  BY DEF Slots
<1>6. ASSUME NEW x \in Active, NEW z
      PROVE  /\ Served(eng, events, work, x, z) => z \in DOMAIN requests
             /\ z \in rt[x].pending => z \in DOMAIN requests
  <2>1. OneOf(eng, rt, events, work, z) /\
        (CoresIn(eng, z) # {} \/ QueuesIn(rt, z) # {} \/ HeapOf(events, z) # {} \/ HandOf(work, z) # {}
                <=> Live(z))
    BY Placement
  <2>2. Served(eng, events, work, x, z) => CoresIn(eng, z) # {} \/ HeapOf(events, z) # {} \/ HandOf(work, z) # {}
    BY Held DEF Served, Has
  <2>3. z \in rt[x].pending => QueuesIn(rt, z) # {}
    BY DEF QueuesIn
  <2> QED
    BY <2>1, <2>2, <2>3 DEF Live
<1>7. \A z \in DOMAIN requests : z # r => requests'[z] = requests[z]
  BY DEF Arrived
<1>8. CASE Waits(st, r)
  <2>1. \A x \in Active : ~Served(eng', events', work', x, r)
    <3>1. \A x \in Active : ~Has(eng', x, r)
      BY <1>8 DEF Has, Waits
    <3> QED
      BY <1>2, <3>1, Zenon DEF Served
  <2>2. \A x \in Active : /\ DOMAIN rt'[x].slots = DOMAIN rt[x].slots /\ rt'[x].heavy = rt[x].heavy
                          /\ rt'[x].pending = rt[x].pending \cup (IF x = st THEN {r} ELSE {})
    BY <1>8 DEF Waits
  <2>3. requests'[r] = <<st, "queued">>
    BY <1>8 DEF Waits
  <2>4. \A x \in Active : r \in rt[x].pending => x = st
    BY DEF QueuesIn
  <2>5. ASSUME NEW x \in Active, NEW z
        PROVE  /\ Served(eng', events', work', x, z) => requests'[z] = <<x, "running">>
               /\ z \in rt'[x].pending => requests'[z] = <<x, "queued">>
               /\ z \in DOMAIN rt'[x].slots <=> conf.router # "none" /\ Served(eng', events', work', x, z)
    <3>1. CASE z = r
      BY <1>3, <1>5, <2>1, <2>2, <2>3, <2>4, <3>1
    <3>2. CASE z # r
      BY <1>4, <1>5, <1>6, <1>7, <2>2, <3>2
    <3> QED
      BY <3>1, <3>2
  <2> QED
    BY <1>5, <2>2, <2>5 DEF Slots
<1>9. CASE Runs(st, r)
  <2>1. \A x \in Active : Served(eng', events', work', x, r) <=> x = st
    <3>1. PICK i \in Nat : CoresIn(eng', r) = {<<st, i>>}
      BY <1>9 DEF Runs
    <3>2. \A x : Has(eng', x, r) <=> x = st
      BY <3>1 DEF Has
    <3> QED
      BY <1>2, <3>2 DEF Served
  <2>2. requests'[r] = <<st, "running">>
    BY <1>9 DEF Runs
  <2>3. \A x \in Active : r \notin rt'[x].pending
    <3>1. QueuesIn(rt', r) = {}
      <4>1. CoresIn(eng', r) # {} /\ OneOf(eng', rt', events', work', r)
        BY <1>9, NextPlacement DEF Runs
      <4> QED
        BY <4>1, Apart
    <3> QED
      BY <3>1 DEF QueuesIn
  <2>4. \A x \in Active : rt'[x].pending \subseteq rt[x].pending
    BY <1>9 DEF Runs
  <2>5. \A x \in Active : \A z : z # r => (z \in DOMAIN rt'[x].slots <=> z \in DOMAIN rt[x].slots)
    BY <1>9 DEF Runs
  <2>6. \A x \in Active : r \in DOMAIN rt'[x].slots <=> conf.router # "none" /\ x = st
    BY <1>3, <1>5, <1>9 DEF Runs
  <2>7. \A x \in Active : rt'[x].heavy \subseteq DOMAIN rt'[x].slots
    BY <1>5, <1>9 DEF Runs
  <2>8. ASSUME NEW x \in Active, NEW z
        PROVE  /\ Served(eng', events', work', x, z) => requests'[z] = <<x, "running">>
               /\ z \in rt'[x].pending => requests'[z] = <<x, "queued">>
               /\ z \in DOMAIN rt'[x].slots <=> conf.router # "none" /\ Served(eng', events', work', x, z)
    <3>1. CASE z = r
      BY <2>1, <2>2, <2>3, <2>6, <3>1
    <3>2. CASE z # r
      BY <1>4, <1>5, <1>6, <1>7, <2>4, <2>5, <3>2
    <3> QED
      BY <3>1, <3>2
  <2> QED
    BY <2>7, <2>8 DEF Slots
<1> QED
  BY <1>8, <1>9

\* What it leaves behind is at most its own hand-off.
Sheds(q, f, r, kind) ==
    /\ Entries(f) \subseteq Entries(q)
    /\ \A e \in Entries(q) \ Entries(f) :
          e.r = r /\ (IF kind = "event" THEN e.kind = "handoff" ELSE e.op = "handoff")

\* The parts of the invariant that are about places, after a request has come to st.
LEMMA Comes ==
    ASSUME ErrorInv, OnePlaceInv', conf' = conf, NEW st \in Active, NEW r, Arrived(r),
           Waits(st, r) \/ (Runs(st, r) /\ (conf.router = "queue" => ~AllWorkersBusy(rt[st]))),
           CoresIn(eng, r) = {}, QueuesIn(rt, r) \subseteq {st},
           Sheds(events, events', r, "event"), Sheds(work, work', r, "work")
    PROVE  /\ Reports(eng', events') /\ Reported(eng', work')
           /\ Slots(eng', events', work', rt', requests') /\ Queues(rt', work')
           /\ IsFiniteSet(DOMAIN requests')
           /\ FirstOf(events', work', requests') \subseteq
                FirstOf(events, work, requests) \cup (IF st = First THEN {r} ELSE {})
<1>1. \A z : CoresIn(eng, z) \subseteq CoresIn(eng', z)
  <2>1. \A z : z # r => CoresIn(eng', z) = CoresIn(eng, z)
    BY DEF Arrived
  <2> QED
    BY <2>1
<1>2. /\ \A e \in Entries(events') : e \in Entries(events)
      /\ \A e \in Entries(events) : e \in Entries(events') \/ (e.kind = "handoff" /\ e.r = r)
      /\ \A x \in Entries(work') : x \in Entries(work)
      /\ \A x \in Entries(work) : x \in Entries(work') \/ (x.op = "handoff" /\ x.r = r)
  BY DEF Sheds
<1>3. Reports(eng', events')
  BY <1>1, <1>2, ReportsKept DEF ErrorInv
<1>4. Reported(eng', work')
  <2>1. \A y \in Entries(work') : \/ y.op # "signals"
                                  \/ \E x \in Entries(work) : x.op = "signals" /\ x.st = y.st /\ y.set \subseteq x.set
    BY <1>2
  <2> QED
    BY <1>1, <2>1, ReportedKept DEF ErrorInv
<1>5. Slots(eng', events', work', rt', requests')
  <2>1. \A x \in Active : \A z : /\ Ending(events', x, z) <=> Ending(events, x, z)
                                 /\ Ended(work', x, z) <=> Ended(work, x, z)
    BY <1>2 DEF Ending, Ended
  <2> QED
    BY <2>1, SlotsEntered DEF ErrorInv
<1>6. \A x \in Active : (\E y \in Entries(work) : y.op = "drain" /\ y.st = x) =>
                        \E y \in Entries(work') : y.op = "drain" /\ y.st = x
  BY <1>2
<1>7. Queues(rt', work')
  <2> SUFFICES ASSUME NEW x \in Active, rt'[x].pending # {}
               PROVE  /\ conf.router = "queue"
                      /\ AllWorkersBusy(rt'[x]) \/ \E y \in Entries(work') : y.op = "drain" /\ y.st = x
    BY DEF Queues
  <2>0. rt[x].pending # {} => /\ conf.router = "queue"
                              /\ AllWorkersBusy(rt[x]) \/ \E y \in Entries(work) : y.op = "drain" /\ y.st = x
    BY DEF ErrorInv, Queues
  <2>1. CASE rt'[x] = rt[x]
    BY <1>6, <2>0, <2>1
  <2>2. CASE x = st /\ Waits(st, r)
    BY <2>2 DEF Waits
  <2>3. CASE x = st /\ Runs(st, r) /\ (conf.router = "queue" => ~AllWorkersBusy(rt[st])) /\ conf.router # "none"
    <3>1. rt[x].pending # {}
      BY <2>3 DEF Runs
    <3> QED
      BY <1>6, <2>0, <2>3, <3>1
  <2> QED
    BY <2>1, <2>2, <2>3 DEF Waits, Runs
<1>8. IsFiniteSet(DOMAIN requests')
  BY FS_AddElement DEF Arrived, ErrorInv, CapInv
<1>9. ASSUME NEW z \in FirstOf(events', work', requests'), ~(st = First /\ z = r)
      PROVE  z \in FirstOf(events, work, requests)
  <2>1. z \in DOMAIN requests' /\ requests'[z][1] = First /\ requests'[z][2] # "done" /\ ~Handed(events', work', z)
    BY DEF FirstOf
  <2>2. z # r
    <3>1. requests'[r][1] = st
      BY DEF Waits, Runs
    <3> QED
      BY <1>9, <2>1, <3>1
  <2>3. z \in DOMAIN requests /\ requests'[z] = requests[z]
    BY <2>1, <2>2 DEF Arrived
  <2>4. ~Handed(events, work, z)
    BY <1>2, <2>1, <2>2 DEF Handed, Passed, Passing
  <2> QED
    BY <2>1, <2>3, <2>4 DEF FirstOf
<1> QED
  BY <1>3, <1>4, <1>5, <1>7, <1>8, <1>9

-----------------------------------------------------------------------------
(* A signal is handled                                                        *)

\* What is in hand after one signal of a pass was taken.
LEMMA RestEntries ==
    ASSUME NEW q, Sound(q), q # <<>>, Head(q).op = "signals", NEW x, x \in Head(q).set
    PROVE  /\ Listed(Rest(q, x)) /\ Head(q) \in Entries(q)
           /\ \A y \in Entries(Rest(q, x)) :
                y \in Entries(q) \/ (y.op = "signals" /\ y.st = Head(q).st /\ y.set \subseteq Head(q).set)
           /\ \A y \in Entries(q) : y.op # "signals" => y \in Entries(Rest(q, x))
           /\ \A s, r : Ended(Rest(q, x), s, r) => Ended(q, s, r)
           /\ \A s, r : Ended(q, s, r) /\ Last(r) # x => Ended(Rest(q, x), s, r)
<1> DEFINE h == Head(q)  left == h.set \ {x}  rest == Rest(q, x)  g == [h EXCEPT !.set = left]
<1>1. Listed(q) /\ Listed(Tail(q)) /\ Entries(q) = {h} \cup Entries(Tail(q))
  BY TailEntries DEF Sound
<1>2. h.op = "signals" /\ h = [op |-> "signals", st |-> h.st, set |-> h.set]
  BY <1>1 DEF Sound
<1>3. g = [op |-> "signals", st |-> h.st, set |-> left]
  BY <1>2, FewerSignals, Zenon
<1>4. left = {} => rest = Tail(q)
  BY DEF Rest
<1>5. left # {} => rest = <<g>> \o Tail(q)
  BY DEF Rest
<1>6. left = h.set \ {x}
  OBVIOUS
<1> HIDE DEF h, left, rest, g
<1>7. g.op = "signals" /\ g.st = h.st /\ g.set = left
  BY <1>3
<1>8. Listed(rest) /\ Entries(rest) = (IF left = {} THEN {} ELSE {g}) \cup Entries(Tail(q))
  <2>1. Listed(<<g>>) /\ Entries(<<g>>) = {g}
    BY SingleHit
  <2>2. Listed(<<g>> \o Tail(q)) /\ Entries(<<g>> \o Tail(q)) = {g} \cup Entries(Tail(q))
    BY <1>1, <2>1, ConcatEntries
  <2> QED
    BY <1>1, <1>4, <1>5, <2>2
<1>9. \A s, r : Ended(rest, s, r) => Ended(q, s, r)
  BY <1>1, <1>2, <1>6, <1>7, <1>8 DEF Ended
<1>10. \A s, r : Ended(q, s, r) /\ Last(r) # x => Ended(rest, s, r)
  <2> SUFFICES ASSUME NEW s, NEW r, NEW y \in Entries(q), y.op = "signals", y.st = s, Last(r) \in y.set, Last(r) # x
               PROVE  Ended(rest, s, r)
    BY DEF Ended
  <2>1. CASE y = h
    BY <1>6, <1>7, <1>8, <2>1 DEF Ended
  <2>2. CASE y # h
    BY <1>1, <1>8, <2>2 DEF Ended
  <2> QED
    BY <2>1, <2>2
<1>11. \A y \in Entries(rest) : y \in Entries(q) \/ (y.op = "signals" /\ y.st = h.st /\ y.set \subseteq h.set)
  BY <1>1, <1>6, <1>7, <1>8
<1>12. \A y \in Entries(q) : y.op # "signals" => y \in Entries(rest)
  BY <1>1, <1>2, <1>8
<1> QED
  BY <1>1, <1>8, <1>9, <1>10, <1>11, <1>12 DEF h, rest

\* Every request that a signal names is known to the loop, to the router and to the
\* driver.
LEMMA SignalKnown ==
    ASSUME ErrorInv, work # <<>>, Head(work).op = "signals", NEW x \in Head(work).set
    PROVE  /\ Head(work).st \in Active /\ Served(eng, events, work, Head(work).st, x.r) /\ Live(x.r)
           /\ ~Unknown(Head(work).st, x.r, x.done)
           /\ x.done => x = Last(x.r) /\ Ended(work, Head(work).st, x.r)
<1> DEFINE h == Head(work)  st == h.st  r == x.r
<1>1. Sound(work) /\ OnePlaceInv
  BY DEF ErrorInv, OnePlaceInv
<1>2. h \in Entries(work)
  BY <1>1, RestEntries
<1>3. st \in Active /\ Outcomes(h.set) /\ h.op = "signals" /\ x \in h.set
  BY <1>1, <1>2 DEF Sound
<1> HIDE DEF h
<1>4. x.done => x = Last(r) /\ Ended(work, st, r)
  BY <1>2, <1>3 DEF Ended, Outcomes
<1>5. ~x.done => Has(eng, st, r)
  BY <1>2, <1>3 DEF ErrorInv, Reported
<1>6. Served(eng, events, work, st, r)
  BY <1>4, <1>5 DEF Served
<1>7. Live(r)
  <2>1. CoresIn(eng, r) # {} \/ QueuesIn(rt, r) # {} \/ HeapOf(events, r) # {} \/ HandOf(work, r) # {} => Live(r)
    BY <1>1, Placement
  <2>2. Has(eng, st, r) => CoresIn(eng, r) # {}
    BY DEF Has
  <2>3. Ended(work, st, r) => HandOf(work, r) # {}
    BY Held
  <2> QED
    BY <1>4, <1>5, <2>1, <2>2, <2>3
<1>8. conf.router # "none" => r \in DOMAIN rt[st].slots
  BY <1>3, <1>6 DEF ErrorInv, Slots
<1>9. conf.source = "workload" => r \in flying
  BY <1>7 DEF ErrorInv, DriverInv
<1>10. ~Unknown(st, r, x.done)
  BY <1>7, <1>8, <1>9 DEF Unknown, Live, Finished
<1> QED
  BY <1>3, <1>4, <1>6, <1>7, <1>10 DEF h

\* What a signal changes at the router of its stage: its last one frees the slot.
Frees(st, x) ==
    /\ \A a \in Active : a # st => rt'[a] = rt[a]
    /\ rt'[st].pending = rt[st].pending
    /\ IF x.done THEN /\ DOMAIN rt'[st].slots = DOMAIN rt[st].slots \ {x.r}
                      /\ rt'[st].heavy \subseteq rt[st].heavy \ {x.r}
       ELSE DOMAIN rt'[st].slots = DOMAIN rt[st].slots /\ rt'[st].heavy \subseteq rt[st].heavy

\* The parts that are about places, after a signal; Pre is what it adds to the work.
LEMMA SignalParts ==
    ASSUME ErrorInv, OnePlaceInv', conf' = conf, UNCHANGED <<eng, events>>,
           work # <<>>, Head(work).op = "signals", NEW x \in Head(work).set, NEW st, st = Head(work).st,
           NEW Pre, Entries(work') = Pre \cup Entries(Rest(work, x)), \A y \in Pre : y.op # "signals",
           Frees(st, x), rt'[st] = rt[st] \/ conf.router = "none" \/ \E y \in Pre : y.op = "drain" /\ y.st = st,
           DOMAIN requests' = DOMAIN requests,
           \A z \in DOMAIN requests : requests'[z] = requests[z] \/ (z = x.r /\ x.done /\ requests'[z][2] = "done")
    PROVE  /\ Reports(eng', events') /\ Reported(eng', work')
           /\ Slots(eng', events', work', rt', requests') /\ Queues(rt', work')
           /\ IsFiniteSet(DOMAIN requests')
           /\ FirstOf(events', work', requests') \subseteq FirstOf(events, work, requests)
<1> DEFINE h == Head(work)  rest == Rest(work, x)  r == x.r
<1>1. /\ st \in Active /\ Live(r) /\ (x.done => x = Last(r) /\ Ended(work, st, r))
      /\ Served(eng, events, work, st, r)
  BY SignalKnown
<1>2. Sound(work) /\ OnePlaceInv
  BY DEF ErrorInv, OnePlaceInv
<1>3. /\ h \in Entries(work)
      /\ \A y \in Entries(rest) : y \in Entries(work) \/ (y.op = "signals" /\ y.st = h.st /\ y.set \subseteq h.set)
      /\ \A y \in Entries(work) : y.op # "signals" => y \in Entries(rest)
      /\ \A s, z : Ended(rest, s, z) => Ended(work, s, z)
      /\ \A s, z : Ended(work, s, z) /\ Last(z) # x => Ended(rest, s, z)
  BY <1>2, RestEntries
<1>4. h.op = "signals"
  OBVIOUS
<1> HIDE DEF h, rest
<1>5. Reports(eng', events') /\ \A z : CoresIn(eng', z) = CoresIn(eng, z)
  BY DEF ErrorInv
<1>6. Reported(eng', work')
  <2>1. \A y \in Entries(work') :
          \/ y.op # "signals"
          \/ \E u \in Entries(work) : u.op = "signals" /\ u.st = y.st /\ y.set \subseteq u.set
    BY <1>3, <1>4 DEF rest
  <2>2. Reported(eng, work) /\ \A z : CoresIn(eng, z) \subseteq CoresIn(eng', z)
    BY <1>5 DEF ErrorInv
  <2> QED
    BY <2>1, <2>2, ReportedKept
<1>7. \A s, z : Ended(work', s, z) <=> Ended(rest, s, z)
  BY DEF Ended, rest
<1>8. x.done => \A s : ~Ended(work', s, r)
  <2>1. ASSUME x.done, NEW s PROVE ~Ended(work', s, r)
    <3>1. HandOf(work, r) # {} /\ Place(r)
      BY <1>1, <1>2, <2>1, Held DEF OnePlaceInv, PlaceInv
    <3>2. One(HandOf(work, r))
      BY <3>1, HeldInHand
    <3>3. HandOf(rest, r) = {}
      BY <1>1, <1>2, <1>4, <2>1, <3>2, RestLeft DEF h, rest
    <3> QED
      BY <1>7, <3>3, Held
  <2> QED
    BY <2>1
<1>9. x.done => \A s : ~Has(eng, s, r) /\ ~Ending(events, s, r)
  <2>1. ASSUME x.done PROVE \A s : ~Has(eng, s, r) /\ ~Ending(events, s, r)
    <3>1. HandOf(work, r) # {} /\ OneOf(eng, rt, events, work, r)
      BY <1>1, <1>2, <2>1, Held, Placement
    <3>2. CoresIn(eng, r) = {} /\ \A s : ~Ending(events, s, r)
      BY <3>1, Apart
    <3> QED
      BY <3>2 DEF Has
  <2> QED
    BY <2>1
<1>10. \A s, z : Served(eng', events', work', s, z) <=> Served(eng, events, work, s, z) /\ ~(x.done /\ z = r)
  <2>1. ASSUME NEW s, NEW z, x.done, z = r PROVE ~Served(eng', events', work', s, z)
    BY <1>8, <1>9, <2>1 DEF Served, Has, Ending
  <2>2. ASSUME NEW s, NEW z, ~(x.done /\ z = r)
        PROVE  Served(eng', events', work', s, z) <=> Served(eng, events, work, s, z)
    <3>1. Last(z) # x
      <4>1. Last(z).done = TRUE /\ Last(z).r = z
        BY DEF Last
      <4> QED
        BY <2>2, <4>1
    <3>2. Ended(work', s, z) <=> Ended(work, s, z)
      BY <1>3, <1>7, <3>1
    <3>3. Has(eng', s, z) <=> Has(eng, s, z)
      OBVIOUS
    <3> QED
      BY <3>2, <3>3, Zenon DEF Served
  <2> QED
    BY <2>1, <2>2
<1>11. \A a \in Active : /\ rt[a].heavy \subseteq DOMAIN rt[a].slots
                         /\ \A z : /\ Served(eng, events, work, a, z) => requests[z] = <<a, "running">>
                                   /\ z \in rt[a].pending => requests[z] = <<a, "queued">>
                                   /\ z \in DOMAIN rt[a].slots <=> conf.router # "none" /\ Served(eng, events, work, a, z)
  BY DEF ErrorInv, Slots
<1>12. ASSUME NEW a \in Active, NEW z, Served(eng, events, work, a, z) \/ z \in rt[a].pending
       PROVE  z \in DOMAIN requests
  <2>1. CoresIn(eng, z) # {} \/ QueuesIn(rt, z) # {} \/ HeapOf(events, z) # {} \/ HandOf(work, z) # {} => Live(z)
    BY <1>2, Placement
  <2>2. Served(eng, events, work, a, z) => CoresIn(eng, z) # {} \/ HeapOf(events, z) # {} \/ HandOf(work, z) # {}
    BY Held DEF Served, Has
  <2>3. z \in rt[a].pending => QueuesIn(rt, z) # {}
    BY DEF QueuesIn
  <2> QED
    BY <1>12, <2>1, <2>2, <2>3 DEF Live
<1>13. x.done => \A a \in Active : r \notin rt[a].pending /\ (r \in DOMAIN rt[a].slots => a = st)
  <2>1. requests[r] = <<st, "running">>
    BY <1>1, <1>11
  <2>2. \A a \in Active : r \notin rt[a].pending
    BY <1>11, <2>1
  <2>3. \A a \in Active : r \in DOMAIN rt[a].slots => a = st
    BY <1>11, <2>1
  <2> QED
    BY <2>2, <2>3
<1>14. Slots(eng', events', work', rt', requests')
  <2>1. ASSUME NEW a \in Active PROVE rt'[a].heavy \subseteq DOMAIN rt'[a].slots
    <3>1. CASE a = st
      BY <1>11, <3>1 DEF Frees
    <3>2. CASE a # st
      BY <1>11, <3>2 DEF Frees
    <3> QED
      BY <3>1, <3>2
  <2>2. ASSUME NEW a \in Active, NEW z
        PROVE  /\ Served(eng', events', work', a, z) => requests'[z] = <<a, "running">>
               /\ z \in rt'[a].pending => requests'[z] = <<a, "queued">>
               /\ z \in DOMAIN rt'[a].slots <=> conf.router # "none" /\ Served(eng', events', work', a, z)
    <3>1. rt'[a].pending = rt[a].pending
      BY DEF Frees
    <3>2. CASE x.done /\ z = r
      <4>1. ~Served(eng', events', work', a, z)
        BY <1>10, <3>2
      <4>2. z \notin rt'[a].pending
        BY <1>13, <3>1, <3>2
      <4>3. z \notin DOMAIN rt'[a].slots
        BY <1>13, <3>2 DEF Frees
      <4> QED
        BY <4>1, <4>2, <4>3
    <3>3. CASE ~(x.done /\ z = r)
      <4>1. z \in DOMAIN rt'[a].slots <=> z \in DOMAIN rt[a].slots
        BY <3>3 DEF Frees
      <4>2. z \in DOMAIN requests => requests'[z] = requests[z]
        BY <3>3
      <4> QED
        BY <1>10, <1>11, <1>12, <3>1, <3>3, <4>1, <4>2
    <3> QED
      BY <3>2, <3>3
  <2> QED
    BY <2>1, <2>2 DEF Slots
<1>15. Queues(rt', work')
  <2>1. \A a \in Active : rt'[a].pending \subseteq rt[a].pending
    BY DEF Frees
  <2>2. \A a \in Active : rt'[a] = rt[a] \/ conf.router # "queue" \/ \E y \in Entries(work') : y.op = "drain" /\ y.st = a
    BY DEF Frees
  <2>3. \A a \in Active : \A y \in Entries(work) : y.op = "drain" /\ y.st = a /\ rt'[a].pending # {} =>
                \E u \in Entries(work') : u.op = "drain" /\ u.st = a
    BY <1>3 DEF rest
  <2>4. Queues(rt, work)
    BY DEF ErrorInv
  <2> QED
    BY <2>1, <2>2, <2>3, <2>4, QueuesKept
<1>16. FirstOf(events', work', requests') \subseteq FirstOf(events, work, requests)
  <2>1. \A z : Handed(events, work, z) => Handed(events', work', z)
    BY <1>3 DEF Handed, Passed, Passing, rest
  <2> QED
    BY <2>1 DEF FirstOf
<1> QED
  BY <1>5, <1>6, <1>14, <1>15, <1>16 DEF ErrorInv, CapInv

\* A session is in the queue of the driver.
LEMMA SessionWaits ==
    ASSUME NEW q, NEW s
    PROVE  SessionIn(q, s) # {} <=> \E e \in Entries(q) : e.s = s
BY DEF SessionIn, Entries

\* The turns of a session are numbered.
LEMMA TurnNumbers ==
    ASSUME conf \in Configs, NEW s \in DOMAIN Sessions
    PROVE  Turns(s) = IF conf.source = "workload" THEN 1..Len(Sessions[s].delays) ELSE {1}
<1>1. Sessions[s].delays \in Seq(Nat)
  BY ReplayAssumption
<1>2. DOMAIN Sessions[s].delays = 1..Len(Sessions[s].delays)
  BY <1>1
<1> QED
  BY <1>2 DEF Turns

\* WorkloadDriver::on_complete: the turn is over, and the next one of the session waits.
LEMMA DriverFinish ==
    ASSUME TurnInv, DriverInv, TimeInv, conf \in Configs, conf' = conf, UNCHANGED <<now, events>>,
           NEW r, Live(r), OnComplete(r), NEW st, SetPhase(r, <<st, "done">>)
    PROVE  DriverInv' /\ TimeInv'
<1> DEFINE s == r[1]  t == r[2]
           e == [at |-> now + Sessions[s].delays[t + 1], s |-> s, t |-> t + 1]
<1>1. r \in DOMAIN requests /\ r \in (DOMAIN Sessions) \X Nat /\ t = turn[s] /\ s \in DOMAIN Sessions /\ t \in Nat
  BY DEF Live, TurnInv
<1>2. r = <<s, t>>
  BY <1>1
<1>3. /\ flying' = flying \ {r} /\ turn' = [turn EXCEPT ![s] = t + 1]
      /\ ready' = IF t + 1 \in Turns(s) THEN Waiting(ready, e) ELSE ready
  BY DEF OnComplete
<1>4. /\ DOMAIN requests' = DOMAIN requests /\ requests'[r] = <<st, "done">>
      /\ \A z : z # r => (Live(z)' <=> Live(z))
  BY <1>1, PhaseSet
<1>5. ~Live(r)'
  BY <1>4 DEF Live, Finished
<1>6. \A a \in DOMAIN Sessions : turn[a] \in Nat /\ turn'[a] = IF a = s THEN t + 1 ELSE turn[a]
  BY <1>3 DEF TurnInv
<1>7. Listed(ready) /\ Entries(ready') = Entries(ready) \cup (IF t + 1 \in Turns(s) THEN {e} ELSE {})
  <2>1. Listed(ready)
    BY DEF TurnInv
  <2> HIDE DEF e
  <2> QED
    BY <1>3, <2>1, PushedEntries
<1>8. e.s = s /\ e.t = t + 1 /\ e.at = now + Sessions[s].delays[t + 1]
  OBVIOUS
<1> HIDE DEF e
<1>9. \A a : Turns(a)' = Turns(a)
  BY SameStages
<1>10. conf.source = "workload" => \A z : z \in flying' <=> Live(z)'
  <2>1. ASSUME conf.source = "workload", NEW z PROVE z \in flying' <=> Live(z)'
    <3>1. z \in flying <=> Live(z)
      BY <2>1 DEF DriverInv
    <3>2. CASE z = r
      BY <1>3, <1>5, <3>2
    <3>3. CASE z # r
      <4>1. Live(z)' <=> Live(z)
        BY <1>4, <3>3
      <4>2. z \in flying' <=> z \in flying
        BY <1>3, <3>3
      <4> QED
        BY <3>1, <4>1, <4>2, Zenon
    <3> QED
      BY <3>2, <3>3
  <2> QED
    BY <2>1, Zenon
<1>11. ASSUME NEW z \in DOMAIN requests', z[2] = turn'[z[1]] PROVE Live(z)'
  <2>1. z \in DOMAIN requests /\ z[1] \in DOMAIN Sessions /\ z[2] \in Nat /\ z[2] <= turn[z[1]]
    BY <1>4 DEF TurnInv
  <2>2. z[1] # s
    BY <1>1, <1>6, <1>11, <2>1
  <2>3. turn'[z[1]] = turn[z[1]]
    BY <1>6, <2>1, <2>2
  <2>4. Live(z)
    BY <1>11, <2>1, <2>3 DEF DriverInv
  <2>5. z # r
    BY <2>2
  <2> QED
    BY <1>4, <2>4, <2>5, Zenon
<1>12. \A z \in DOMAIN requests' : z[2] \in Turns(z[1])
  BY <1>4 DEF DriverInv
<1>13. \A y \in Entries(ready') : y.t \in Turns(y.s)
  BY <1>7, <1>8 DEF DriverInv
<1>14. ASSUME NEW a \in DOMAIN Sessions
       PROVE  /\ turn'[a] >= 1
              /\ \A b \in Turns(a) :
                  /\ b < turn'[a] => <<a, b>> \in DOMAIN requests'
                  /\ b = turn'[a] => <<a, b>> \in DOMAIN requests' \/ SessionIn(ready', a) # {}
  <2>1. Turns(a) \subseteq Nat
    <3>1. Len(Sessions[a].delays) \in Nat
      BY ReplayAssumption
    <3> QED
      BY <3>1, TurnNumbers
  <2>2. /\ turn[a] >= 1
        /\ \A b \in Turns(a) :
             /\ b < turn[a] => <<a, b>> \in DOMAIN requests
             /\ b = turn[a] => <<a, b>> \in DOMAIN requests \/ SessionIn(ready, a) # {}
    BY DEF DriverInv
  <2>3. CASE a = s
    <3>1. turn'[a] = t + 1 /\ turn[a] = t
      BY <1>1, <1>6, <2>3
    <3>2. ASSUME NEW b \in Turns(a), b < t + 1 PROVE <<a, b>> \in DOMAIN requests'
      <4>1. b < t \/ b = t
        BY <1>1, <2>1, <3>2
      <4>2. b = t => <<a, b>> = r
        BY <1>2, <2>3
      <4> QED
        BY <1>1, <1>4, <2>2, <3>1, <4>1, <4>2
    <3>3. ASSUME NEW b \in Turns(a), b = t + 1 PROVE SessionIn(ready', a) # {}
      <4>1. e \in Entries(ready')
        BY <1>7, <2>3, <3>3
      <4> QED
        BY <1>8, <2>3, <4>1, SessionWaits
    <3> QED
      BY <1>1, <3>1, <3>2, <3>3
  <2>4. CASE a # s
    <3>1. turn'[a] = turn[a]
      BY <1>6, <2>4
    <3>2. SessionIn(ready, a) # {} => SessionIn(ready', a) # {}
      BY <1>7, SessionWaits
    <3> QED
      BY <1>4, <2>2, <3>1, <3>2
  <2> QED
    BY <2>3, <2>4
<1>15. DriverInv'
  <2>1. DriverInv' =
        (/\ conf'.source = "workload" => \A z : z \in flying' <=> Live(z)'
         /\ \A z \in DOMAIN requests' : z[2] \in Turns(z[1])' /\ (z[2] = turn'[z[1]] => Live(z)')
         /\ \A y \in Entries(ready') : y.t \in Turns(y.s)'
         /\ \A a \in DOMAIN Sessions :
            /\ turn'[a] >= 1
            /\ \A b \in Turns(a)' :
                /\ b < turn'[a] => <<a, b>> \in DOMAIN requests'
                /\ b = turn'[a] => <<a, b>> \in DOMAIN requests' \/ SessionIn(ready', a) # {})
    BY Zenon DEF DriverInv, Entries, SessionIn
  <2> QED
    BY <1>9, <1>10, <1>11, <1>13, <1>14, <1>12, <2>1, Zenon
<1>16. TimeInv'
  <2>1. t + 1 \in Turns(s) => e.at \in Nat /\ conf.source # "requests"
    <3>1. turn[s] >= 1
      BY <1>1 DEF DriverInv
    <3>2. Sessions[s].delays \in Seq(Nat) /\ conf.source \in {"requests", "workload"} /\ now \in Nat
      BY <1>1, ReplayAssumption DEF TimeInv
    <3>3. ASSUME t + 1 \in Turns(s) PROVE conf.source = "workload" /\ t + 1 \in 1..Len(Sessions[s].delays)
      BY <1>1, <3>1, <3>2, <3>3, TurnNumbers
    <3>4. ASSUME t + 1 \in Turns(s) PROVE Sessions[s].delays[t + 1] \in Nat
      BY <3>2, <3>3, <3>4
    <3> QED
      BY <1>8, <3>2, <3>3, <3>4
  <2>2. \A y \in Entries(ready) : y.at \in Nat /\ (conf.source = "requests" /\ conf.cap > 0 => y.at = 0)
    BY DEF TimeInv
  <2>3. \A y \in Entries(ready') : y.at \in Nat /\ (conf.source = "requests" /\ conf.cap > 0 => y.at = 0)
    BY <1>7, <2>1, <2>2
  <2>4. now \in Nat /\ \A y \in Entries(events) : Timed(y)
    BY DEF TimeInv
  <2> QED
    BY <2>3, <2>4 DEF TimeInv, Entries
<1> QED
  BY <1>15, <1>16

\* No active worker is added or lost.
LEMMA ActiveKept ==
    ASSUME ActiveInv, SameActive, conf' = conf
    PROVE  ActiveInv'
<1>1. Active' = Active
  BY SameStages
<1>3. \A st \in Active : ActiveIds(eng[st])' = ActiveIds(eng'[st])
  BY DEF ActiveIds
<1> QED
  BY <1>1, <1>3 DEF ActiveInv, SameActive, ActiveIds

\* Freeing a slot, or marking the end of a prefill.
LEMMA FreesSlot ==
    ASSUME KnownInv, NEW st \in Active, NEW x
    PROVE  /\ x.done /\ rt' = [rt EXCEPT ![st] = Freed(@, x.r)] => Frees(st, x)
           /\ ~x.done /\ rt' = [rt EXCEPT ![st] = PrefillCompleted(@, x.r)] => Frees(st, x)
           /\ ~x.done /\ rt' = rt => Frees(st, x)
<1> DEFINE q == rt[st]  r == x.r
<1>1. DOMAIN rt = Active /\ DOMAIN q = {"known", "pending", "slots", "heavy"}
  BY DEF KnownInv
<1>2. /\ Freed(q, r).pending = q.pending /\ Freed(q, r).heavy = q.heavy \ {r}
      /\ DOMAIN Freed(q, r).slots = DOMAIN q.slots \ {r}
  <2> HIDE DEF q, r
  <2> QED
    BY <1>1 DEF Freed
<1>3. /\ PrefillCompleted(q, r).pending = q.pending /\ PrefillCompleted(q, r).heavy = q.heavy \ {r}
      /\ PrefillCompleted(q, r).slots = q.slots
  <2> HIDE DEF q, r
  <2> QED
    BY <1>1 DEF PrefillCompleted
<1>4. ASSUME x.done, rt' = [rt EXCEPT ![st] = Freed(@, r)] PROVE Frees(st, x)
  <2>1. rt'[st] = Freed(q, r) /\ \A a \in Active : a # st => rt'[a] = rt[a]
    BY <1>1, <1>4
  <2> QED
    BY <1>2, <1>4, <2>1 DEF Frees
<1>5. ASSUME ~x.done, rt' = [rt EXCEPT ![st] = PrefillCompleted(@, r)] PROVE Frees(st, x)
  <2>1. rt'[st] = PrefillCompleted(q, r) /\ \A a \in Active : a # st => rt'[a] = rt[a]
    BY <1>1, <1>5
  <2> QED
    BY <1>3, <1>5, <2>1 DEF Frees
<1>6. ASSUME ~x.done, rt' = rt PROVE Frees(st, x)
  BY <1>6 DEF Frees
<1> QED
  BY <1>4, <1>5, <1>6

\* It is a drain of that stage, if there is a router.
LEMMA DrainOps ==
    ASSUME NEW st
    PROVE  /\ Listed(DrainOf(st)) /\ \A y \in Entries(DrainOf(st)) : y.op = "drain" /\ y.st = st
           /\ conf.router = "none" \/ \E y \in Entries(DrainOf(st)) : y.op = "drain" /\ y.st = st
<1> DEFINE d == [op |-> "drain", st |-> st]
<1>1. d.op = "drain" /\ d.st = st
  OBVIOUS
<1>2. Listed(DrainOf(st)) /\ Entries(DrainOf(st)) = IF conf.router = "none" THEN {} ELSE {d}
  BY DrainEntries
<1> HIDE DEF d
<1> QED
  BY <1>1, <1>2

\* process_output_signal, process_prefill_signal, process_decode_signal.
LEMMA SignalError ==
    ASSUME ErrorInv, OnePlaceInv', Signal
    PROVE  ErrorInv'
<1>1. PICK x \in Head(work).set :
        \/ Unknown(Head(work).st, x.r, x.done)
        \/ /\ \/ x.done /\ Head(work).st # "Prefill" /\ Finish(Head(work).st, x.r, Rest(work, x))
              \/ x.done /\ Head(work).st = "Prefill" /\ PrefillDone(x.r, Rest(work, x))
              \/ ~x.done /\ Head(work).st = "Aggregated" /\ MarkPrefill(Head(work).st, x.r, Rest(work, x))
              \/ ~x.done /\ Head(work).st # "Aggregated" /\ Ignored(Rest(work, x))
           /\ UNCHANGED <<conf, clockVars, eng, rr, events, scalings>>
  BY Zenon DEF Signal, Rest
<1> DEFINE st == Head(work).st  r == x.r  rest == Rest(work, x)
<1>2. work # <<>> /\ Head(work).op = "signals" /\ pc # "failed"
  BY DEF Signal
<1>3. st \in Active /\ Live(r) /\ ~Unknown(st, r, x.done) /\ (x.done => x = Last(r))
  BY <1>2, SignalKnown
<1>4. /\ \/ x.done /\ st # "Prefill" /\ Finish(st, r, rest)
         \/ x.done /\ st = "Prefill" /\ PrefillDone(r, rest)
         \/ ~x.done /\ st = "Aggregated" /\ MarkPrefill(st, r, rest)
         \/ ~x.done /\ st # "Aggregated" /\ Ignored(rest)
      /\ UNCHANGED <<conf, now, pc, changed, eng, rr, events>>
  BY <1>1, <1>3, Zenon DEF clockVars
<1>5. OnePlaceInv /\ KnownInv /\ Sound(work) /\ TurnInv /\ conf \in Configs /\ ReplayInv
  BY DEF ErrorInv, OnePlaceInv, ReplayInv, RoundInv
<1>6. Listed(rest)
  BY <1>2, <1>5, RestEntries
<1>7. ErrorInv /\ st = Head(work).st /\ rest = Rest(work, x)
  OBVIOUS
<1> HIDE DEF st, r, rest
<1>8. /\ Listed(DrainOf(st)) /\ \A y \in Entries(DrainOf(st)) : y.op = "drain" /\ y.st = st
      /\ conf.router = "none" \/ \E y \in Entries(DrainOf(st)) : y.op = "drain" /\ y.st = st
  BY DrainOps
<1>9. Listed(DrainOf(st) \o rest) /\ Entries(DrainOf(st) \o rest) = Entries(DrainOf(st)) \cup Entries(rest)
  BY <1>6, <1>8, ConcatEntries
<1>10. ASSUME NEW Pre, Entries(work') = Pre \cup Entries(rest), \A y \in Pre : y.op # "signals",
              Frees(st, x), rt'[st] = rt[st] \/ conf.router = "none" \/ \E y \in Pre : y.op = "drain" /\ y.st = st,
              DOMAIN requests' = DOMAIN requests, DriverInv', TimeInv',
              \A z \in DOMAIN requests : requests'[z] = requests[z] \/ (z = x.r /\ x.done /\ requests'[z][2] = "done")
       PROVE  ErrorInv'
  <2>1. /\ Reports(eng', events') /\ Reported(eng', work')
        /\ Slots(eng', events', work', rt', requests') /\ Queues(rt', work')
        /\ IsFiniteSet(DOMAIN requests')
        /\ FirstOf(events', work', requests') \subseteq FirstOf(events, work, requests)
    BY <1>2, <1>4, <1>7, <1>10, SignalParts
  <2>2. CapInv'
    BY <1>4, <1>5, <2>1, CapKept DEF ErrorInv
  <2>3. ActiveInv'
    BY <1>4, SameStages DEF ErrorInv, ActiveInv
  <2>4. ReleaseInv'
    BY <1>2, <1>4, <1>5, ReleaseKept
  <2> QED
    BY <1>2, <1>4, <1>10, <2>1, <2>2, <2>3, <2>4, NextParts
<1>11. ASSUME UNCHANGED <<driverVars, requests>> PROVE DriverInv' /\ TimeInv'
  <2>1. \A z : Live(z)' <=> Live(z)
    BY <1>11 DEF Live, Finished
  <2>2. DriverInv'
    BY <1>4, <1>11, <2>1, DriverKept DEF ErrorInv
  <2>3. TimeInv'
    BY <1>4, <1>11, TimeKept DEF ErrorInv, driverVars
  <2> QED
    BY <2>2, <2>3
<1>12. CASE x.done /\ Finish(st, r, rest)
  <2>1. /\ rt' = [rt EXCEPT ![st] = Freed(@, r)] /\ OnComplete(r) /\ SetPhase(r, <<st, "done">>)
        /\ work' = DrainOf(st) \o rest
    BY <1>12 DEF Finish
  <2>2. Frees(st, x)
    BY <1>3, <1>5, <1>12, <2>1, FreesSlot DEF r
  <2>3. DriverInv' /\ TimeInv'
    BY <1>3, <1>4, <1>5, <2>1, DriverFinish DEF ErrorInv
  <2>4. /\ DOMAIN requests' = DOMAIN requests
        /\ \A z \in DOMAIN requests : requests'[z] = requests[z] \/ (z = x.r /\ x.done /\ requests'[z][2] = "done")
    <3>1. /\ DOMAIN requests' = DOMAIN requests \cup {r} /\ requests'[r] = <<st, "done">>
          /\ \A z \in DOMAIN requests : z # r => requests'[z] = requests[z]
      BY <2>1, PhaseSet
    <3>2. r \in DOMAIN requests
      BY <1>3 DEF Live
    <3> QED
      BY <1>12, <3>1, <3>2 DEF r
  <2> QED
    BY <1>8, <1>9, <1>10, <2>1, <2>2, <2>3, <2>4
<1>13. CASE x.done /\ st = "Prefill" /\ PrefillDone(r, rest)
  <2> DEFINE g == [op |-> "handoff", r |-> r]
  <2>1. /\ rt' = [rt EXCEPT ![st] = Freed(@, r)] /\ UNCHANGED <<driverVars, requests>>
        /\ work' = DrainOf(st) \o <<g>> \o rest
    BY <1>13 DEF PrefillDone
  <2>2. g.op = "handoff"
    OBVIOUS
  <2> HIDE DEF g
  <2>3. Listed(<<g>>) /\ Entries(<<g>>) = {g}
    BY SingleHit
  <2>4. Listed(DrainOf(st) \o <<g>>) /\ Entries(DrainOf(st) \o <<g>>) = Entries(DrainOf(st)) \cup {g}
    BY <1>8, <2>3, ConcatEntries
  <2>5. Entries((DrainOf(st) \o <<g>>) \o rest) = Entries(DrainOf(st) \o <<g>>) \cup Entries(rest)
    BY <1>6, <2>4, ConcatEntries
  <2>6. Frees(st, x)
    BY <1>3, <1>5, <1>13, <2>1, FreesSlot DEF r
  <2>7. DriverInv' /\ TimeInv'
    BY <1>11, <2>1
  <2> DEFINE Pre == Entries(DrainOf(st)) \cup {g}
  <2>8. /\ Entries(work') = Pre \cup Entries(rest) /\ \A y \in Pre : y.op # "signals"
        /\ conf.router = "none" \/ \E y \in Pre : y.op = "drain" /\ y.st = st
    BY <1>8, <2>1, <2>2, <2>4, <2>5
  <2>9. DOMAIN requests' = DOMAIN requests /\ \A z \in DOMAIN requests : requests'[z] = requests[z]
    BY <2>1
  <2> HIDE DEF Pre
  <2> QED
    BY <1>10, <2>6, <2>7, <2>8, <2>9
<1>14. CASE ~x.done /\ (MarkPrefill(st, r, rest) \/ Ignored(rest))
  <2>1. UNCHANGED <<driverVars, requests>>
    BY <1>14 DEF MarkPrefill, Ignored
  <2>2. /\ DriverInv' /\ TimeInv'
        /\ DOMAIN requests' = DOMAIN requests /\ \A z \in DOMAIN requests : requests'[z] = requests[z]
    BY <1>11, <2>1
  <2>3. CASE work' = rest /\ rt' = rt
    <3> DEFINE Pre == {}
    <3>1. Frees(st, x) /\ Entries(work') = Pre \cup Entries(rest) /\ rt'[st] = rt[st]
      BY <1>3, <1>5, <1>14, <2>3, FreesSlot
    <3>2. \A y \in Pre : y.op # "signals"
      OBVIOUS
    <3> HIDE DEF Pre
    <3> QED
      BY <1>10, <2>2, <3>1, <3>2
  <2>4. CASE work' = DrainOf(st) \o rest /\ rt' = [rt EXCEPT ![st] = PrefillCompleted(@, r)]
    <3>1. Frees(st, x)
      BY <1>3, <1>5, <1>14, <2>4, FreesSlot DEF r
    <3> QED
      BY <1>8, <1>9, <1>10, <2>2, <2>4, <3>1
  <2> QED
    BY <1>14, <2>3, <2>4 DEF MarkPrefill, Ignored
<1> QED
  BY <1>4, <1>12, <1>13, <1>14

-----------------------------------------------------------------------------
(* Requests move between the queues, the hand-offs and the stages              *)

\* There is always a worker to select.
LEMMA SomeWorker ==
    ASSUME ErrorInv, NEW st \in Active
    PROVE  ~NoWorker(st)
<1>1. ActiveIds(eng[st]) # {} /\ rt[st].known = ActiveIds(eng[st])
  BY DEF ErrorInv, ActiveInv, OnePlaceInv, ReplayInv, KnownInv
<1>2. ActiveIds(eng[st]) \subseteq DOMAIN eng[st].workers
  BY DEF ActiveIds
<1> QED
  BY <1>1, <1>2 DEF NoWorker

\* A request that is out comes to a stage.
LEMMA MoveError ==
    ASSUME ErrorInv, OnePlaceInv', SameActive, ReleaseInv', UNCHANGED <<conf, now, pc, driverVars>>, NEW st \in Active, NEW r,
           Live(r), Arrived(r), st = First => r \in FirstOf(events, work, requests),
           Waits(st, r) \/ (Runs(st, r) /\ (conf.router = "queue" => ~AllWorkersBusy(rt[st]))),
           CoresIn(eng, r) = {}, QueuesIn(rt, r) \subseteq {st},
           Sheds(events, events', r, "event"), Sheds(work, work', r, "work")
    PROVE  ErrorInv'
<1>1. conf' = conf /\ now' = now /\ pc' = pc /\ ready' = ready
  BY DEF driverVars
<1>2. /\ Reports(eng', events') /\ Reported(eng', work')
      /\ Slots(eng', events', work', rt', requests') /\ Queues(rt', work')
      /\ IsFiniteSet(DOMAIN requests')
      /\ FirstOf(events', work', requests') \subseteq
           FirstOf(events, work, requests) \cup (IF st = First THEN {r} ELSE {})
  BY <1>1, Comes
<1>3. CapInv'
  <2>1. FirstOf(events', work', requests') \subseteq FirstOf(events, work, requests)
    BY <1>2
  <2> QED
    BY <1>1, <1>2, <2>1, CapKept DEF ErrorInv, OnePlaceInv, ReplayInv, RoundInv
<1>4. DriverInv'
  <2>1. DOMAIN requests' = DOMAIN requests /\ \A z : Live(z)' <=> Live(z)
    BY Zenon DEF Arrived, Live
  <2> QED
    BY <1>1, <2>1, DriverKept DEF ErrorInv
<1>5. TimeInv'
  BY <1>1, TimeKept DEF ErrorInv, Sheds
<1>6. ActiveInv' /\ pc' # "failed"
  BY <1>1, ActiveKept DEF ErrorInv
<1> QED
  BY <1>1, <1>2, <1>3, <1>4, <1>5, <1>6, NextParts

\* Nothing is left behind.
LEMMA ShedsNone ==
    ASSUME NEW q, NEW r, NEW kind
    PROVE  Sheds(q, q, r, kind)
BY DEF Sheds

\* drain_pending: who waited is admitted, or nobody is to be.
LEMMA DrainError ==
    ASSUME ErrorInv, OnePlaceInv', Drain
    PROVE  ErrorInv'
<1> DEFINE st == Head(work).st
<1>1. work # <<>> /\ Head(work).op = "drain" /\ pc # "failed" /\ Sound(work) /\ OnePlaceInv /\ EngineInv /\ KnownInv
  BY DEF Drain, ErrorInv, OnePlaceInv, ReplayInv
<1>2. Head(work) \in Entries(work) /\ Listed(work) /\ Entries(work) = {Head(work)} \cup Entries(Tail(work))
  BY <1>1, TailEntries, SoundTail DEF Sound
<1>3. st \in Active
  BY <1>1, <1>2 DEF Sound
<1>4. ~NoWorker(st)
  BY <1>3, SomeWorker
<1>5. SameActive /\ ReplayInv
  BY <1>1, HandleSame DEF OnePlaceInv
<1>6. ASSUME NEW r \in rt[st].pending, conf.router = "queue", ~AllWorkersBusy(rt[st]), Admit(st, r), requests[r] = <<st, "queued">>,
             UNCHANGED <<conf, clockVars, driverVars, marked, rr, events, work, scalings>>
      PROVE  ErrorInv'
  <2>1. QueuesIn(rt, r) # {} /\ st \in QueuesIn(rt, r)
    BY <1>3 DEF QueuesIn
  <2>2. Place(r)
    BY <1>1 DEF OnePlaceInv, PlaceInv
  <2>3. Live(r) /\ CoresIn(eng, r) = {} /\ One(QueuesIn(rt, r))
    BY <2>1, <2>2, Zenon DEF Place, Whole
  <2>4. QueuesIn(rt, r) \subseteq {st}
    BY <2>1, <2>3 DEF One
  <2>5. Arrived(r) /\ Runs(st, r)
    BY <1>1, <1>3, <1>6, <2>3, <2>4, AdmitRuns DEF OnePlaceInv
  <2>6. ~Handed(events, work, r)
    <3>1. OneOf(eng, rt, events, work, r)
      BY <1>1, Placement
    <3> QED
      BY <2>1, <3>1, Apart
  <2>7. st = First => r \in FirstOf(events, work, requests)
    BY <1>6, <2>3, <2>6 DEF FirstOf, Live
  <2>8. UNCHANGED <<conf, now, pc, changed, driverVars, events, work>>
    BY <1>6 DEF clockVars
  <2>9. ReleaseInv'
    BY <1>1, <1>5, <2>8, ReleaseKept
  <2>10. Sheds(events, events', r, "event") /\ Sheds(work, work', r, "work")
    BY <2>8, ShedsNone
  <2> HIDE DEF st
  <2> QED
    BY <1>3, <1>5, <1>6, <2>3, <2>4, <2>5, <2>7, <2>8, <2>9, <2>10, MoveError
<1>7. ASSUME ~(conf.router = "queue" /\ ~AllWorkersBusy(rt[st]) /\ rt[st].pending # {}), work' = Tail(work),
             UNCHANGED <<conf, clockVars, driverVars, requests, marked, eng, rr, rt, events, scalings>>
      PROVE  ErrorInv'
  <2>1. UNCHANGED <<conf, now, pc, changed, driverVars, ready, requests, eng, rt, events>>
    BY <1>7 DEF clockVars, driverVars
  <2>2. /\ \A y \in Entries(work') : y \in Entries(work)
        /\ \A y \in Entries(work) : y \in Entries(work') \/ (y.op = "drain" /\ y.st = st)
    BY <1>1, <1>2, <1>7
  <2>3. \A a, z : Ended(work', a, z) <=> Ended(work, a, z)
    BY <2>2 DEF Ended
  <2>4. \A z : Handed(events', work', z) <=> Handed(events, work, z)
    BY <2>1, <2>2 DEF Handed, Passed, Passing
  <2>5. Reports(eng', events') /\ Reported(eng', work')
    <3>1. \A z : CoresIn(eng, z) \subseteq CoresIn(eng', z)
      BY <2>1
    <3>2. \A y \in Entries(work') : \/ y.op # "signals"
              \/ \E u \in Entries(work) : u.op = "signals" /\ u.st = y.st /\ y.set \subseteq u.set
      BY <2>2
    <3>3. Reported(eng', work')
      BY <3>1, <3>2, ReportedKept DEF ErrorInv
    <3> QED
      BY <2>1, <3>3 DEF ErrorInv
  <2>6. Slots(eng', events', work', rt', requests')
    <3>1. Steady(rt, rt') /\ requests' = requests
      BY <2>1 DEF Steady
    <3>2. \A a \in Active : \A z : Served(eng', events', work', a, z) <=> Served(eng, events, work, a, z)
      BY <2>1, <2>3 DEF Served
    <3> QED
      BY <3>1, <3>2, SlotsKept DEF ErrorInv
  <2>7. Queues(rt', work')
    <3> SUFFICES ASSUME NEW a \in Active, rt[a].pending # {}
                 PROVE  /\ conf.router = "queue"
                        /\ AllWorkersBusy(rt[a]) \/ \E y \in Entries(work') : y.op = "drain" /\ y.st = a
      BY <2>1 DEF Queues
    <3>1. conf.router = "queue" /\ (AllWorkersBusy(rt[a]) \/ \E y \in Entries(work) : y.op = "drain" /\ y.st = a)
      BY DEF ErrorInv, Queues
    <3>2. a = st => AllWorkersBusy(rt[a])
      BY <1>7, <3>1
    <3> QED
      BY <2>2, <3>1, <3>2
  <2>8. CapInv'
    <3>1. FirstOf(events', work', requests') \subseteq FirstOf(events, work, requests)
      BY <2>1, <2>4 DEF FirstOf
    <3> QED
      BY <1>5, <2>1, <3>1, CapKept DEF ErrorInv, CapInv, ReplayInv, RoundInv
  <2>9. DriverInv'
    <3>1. \A z : Live(z)' <=> Live(z)
      BY <2>1 DEF Live, Finished
    <3> QED
      BY <2>1, <3>1, DriverKept DEF ErrorInv
  <2>10. TimeInv'
    BY <2>1, TimeKept DEF ErrorInv
  <2>11. ReleaseInv'
    BY <1>1, <1>5, <2>1, ReleaseKept
  <2>12. ActiveInv'
    BY <1>5, <2>1, ActiveKept DEF ErrorInv
  <2> QED
    BY <1>1, <2>1, <2>5, <2>6, <2>7, <2>8, <2>9, <2>10, <2>11, <2>12, NextParts
<1>8. \/ NoWorker(st)
      \/ /\ conf.router = "queue" /\ ~AllWorkersBusy(rt[st])
         /\ \E r \in rt[st].pending : requests[r] = <<st, "queued">> /\ Admit(st, r)
         /\ UNCHANGED <<conf, clockVars, driverVars, marked, rr, events, work, scalings>>
      \/ /\ ~(conf.router = "queue" /\ ~AllWorkersBusy(rt[st]) /\ rt[st].pending # {})
         /\ work' = Tail(work)
         /\ UNCHANGED <<conf, clockVars, driverVars, requests, marked, eng, rr, rt, events, scalings>>
  BY Zenon DEF Drain
<1> HIDE DEF st
<1> QED
  BY <1>4, <1>6, <1>7, <1>8

\* A step that moves requests only from a core to the end of a pass.
LEMMA PassError ==
    ASSUME ErrorInv, OnePlaceInv', UNCHANGED <<conf, driverVars, requests>>, pc' # "failed", ActiveInv', ReleaseInv', TimeInv',
           Reports(eng', events'), Reported(eng', work'),
           \A a \in Active : \A z : Served(eng', events', work', a, z) <=> Served(eng, events, work, a, z),
           \A z : Handed(events, work, z) => Handed(events', work', z),
           Steady(rt, rt'), Queues(rt', work')
    PROVE  ErrorInv'
<1>1. conf' = conf /\ requests' = requests /\ conf \in Configs
  BY DEF ErrorInv, OnePlaceInv, ReplayInv, RoundInv
<1>2. Slots(eng', events', work', rt', requests')
  BY <1>1, SlotsKept DEF ErrorInv
<1>3. CapInv'
  <2>1. FirstOf(events', work', requests') \subseteq FirstOf(events, work, requests)
    BY <1>1 DEF FirstOf
  <2> QED
    BY <1>1, <2>1, CapKept DEF ErrorInv, CapInv
<1>4. DriverInv'
  <2>1. \A z : Live(z)' <=> Live(z)
    BY <1>1 DEF Live, Finished
  <2> QED
    BY <1>1, <2>1, DriverKept DEF ErrorInv
<1> QED
  BY <1>1, <1>2, <1>3, <1>4, NextParts

\* A step that moves no request but between two hand-offs: no pass starts or is
\* reported.
LEMMA StillError ==
    ASSUME ErrorInv, OnePlaceInv', UNCHANGED <<conf, driverVars, requests>>, pc' # "failed", ActiveInv', ReleaseInv', TimeInv',
           \A z : CoresIn(eng', z) = CoresIn(eng, z),
           \A e \in Entries(events') : e \in Entries(events) \/ e.kind # "completion",
           \A e \in Entries(events) : e \in Entries(events') \/ e.kind # "completion",
           \A y \in Entries(work') : y \in Entries(work) \/ y.op # "signals",
           \A y \in Entries(work) : y \in Entries(work') \/ y.op # "signals",
           \A z : Handed(events, work, z) => Handed(events', work', z),
           Steady(rt, rt'), Queues(rt', work')
    PROVE  ErrorInv'
<1>1. \A z : CoresIn(eng, z) \subseteq CoresIn(eng', z)
  OBVIOUS
<1>2. Reports(eng', events')
  BY <1>1, ReportsKept DEF ErrorInv
<1>3. Reported(eng', work')
  <2>1. \A y \in Entries(work') : \/ y.op # "signals"
            \/ \E u \in Entries(work) : u.op = "signals" /\ u.st = y.st /\ y.set \subseteq u.set
    OBVIOUS
  <2> QED
    BY <1>1, <2>1, ReportedKept DEF ErrorInv
<1>4. \A a \in Active : \A z : Served(eng', events', work', a, z) <=> Served(eng, events, work, a, z)
  <2>1. \A a, z : (Ended(work', a, z) <=> Ended(work, a, z)) /\ (Ending(events', a, z) <=> Ending(events, a, z))
    BY DEF Ended, Ending
  <2>2. \A a, z : Has(eng', a, z) <=> Has(eng, a, z)
    BY DEF Has
  <2> QED
    BY <2>1, <2>2, Zenon DEF Served
<1> QED
  BY <1>2, <1>3, <1>4, PassError

\* enqueue_decode_after_handoff: to the decode stage, or to the event that will do it.
LEMMA HandOverError ==
    ASSUME ErrorInv, OnePlaceInv', HandOver
    PROVE  ErrorInv'
<1>0. PICK r : Head(work).r = r
  OBVIOUS
<1>1. /\ work # <<>> /\ Head(work).op = "handoff" /\ pc # "failed" /\ Sound(work) /\ OnePlaceInv /\ EngineInv /\ KnownInv
      /\ RotaInv /\ Listed(events)
  BY DEF HandOver, ErrorInv, OnePlaceInv, ReplayInv
<1>2. Head(work) \in Entries(work) /\ Listed(work) /\ Entries(work) = {Head(work)} \cup Entries(Tail(work))
  BY <1>1, TailEntries, SoundTail DEF Sound
<1>3. conf.kind = "disagg" /\ "Decode" \in Active /\ First = "Prefill"
  BY <1>1, <1>2 DEF Sound, Active, First
<1>4. ~NoWorker("Decode")
  BY <1>3, SomeWorker
<1>5. SameActive /\ ReplayInv
  BY <1>1, HandleSame DEF OnePlaceInv
<1>6. Live(r) /\ CoresIn(eng, r) = {} /\ QueuesIn(rt, r) = {} /\ HandOf(work, r) # {}
  <2>1. Passing(work, r)
    BY <1>0, <1>1, <1>2 DEF Passing
  <2>2. HandOf(work, r) # {}
    BY <2>1, Held
  <2> QED
    BY <1>1, <2>2, HeldInHand DEF OnePlaceInv, PlaceInv
<1>8. ASSUME NEW d \in Handoffs, d > 0, events' = Pushed(events, Handoff(now + d, r)), work' = Tail(work),
             UNCHANGED <<conf, clockVars, driverVars, requests, marked, eng, rr, rt, scalings>>
      PROVE  ErrorInv'
  <2> DEFINE x == Handoff(now + d, r)
  <2>1. UNCHANGED <<conf, now, pc, changed, driverVars, ready, requests, eng, rt>>
    BY <1>8 DEF clockVars, driverVars
  <2>2. x.kind = "handoff" /\ x.r = r /\ x.at = now + d
    BY DEF Handoff
  <2> HIDE DEF x
  <2>3. Entries(events') = Entries(events) \cup {x}
    BY <1>1, <1>8, PushedEntries DEF x
  <2>4. /\ \A y \in Entries(work') : y \in Entries(work)
        /\ \A y \in Entries(work) : y \in Entries(work') \/ (y.op = "handoff" /\ y.r = r)
    BY <1>0, <1>1, <1>2, <1>8
  <2>5. \A z : Handed(events, work, z) => Handed(events', work', z)
    BY <2>2, <2>3, <2>4 DEF Handed, Passed, Passing
  <2>6. TimeInv'
    <3>1. now \in Nat /\ d \in Nat
      BY ReplayAssumption DEF ErrorInv, TimeInv
    <3>2. Timed(x)
      BY <2>2, <3>1 DEF Timed
    <3> QED
      BY <2>1, <2>3, <3>2, TimeKept DEF ErrorInv
  <2>7. ReleaseInv'
    BY <1>1, <1>5, <2>1, ReleaseKept
  <2>8. ActiveInv'
    BY <1>5, <2>1, ActiveKept DEF ErrorInv
  <2>9. Queues(rt', work')
    BY <2>1, <2>4 DEF ErrorInv, Queues
  <2>10. Steady(rt, rt') /\ \A z : CoresIn(eng', z) = CoresIn(eng, z)
    BY <2>1 DEF Steady
  <2>11. \A e \in Entries(events') : e \in Entries(events) \/ e.kind # "completion"
    BY <2>2, <2>3
  <2>12. \A e \in Entries(events) : e \in Entries(events') \/ e.kind # "completion"
    BY <2>3
  <2>13. /\ \A y \in Entries(work') : y \in Entries(work) \/ y.op # "signals"
         /\ \A y \in Entries(work) : y \in Entries(work') \/ y.op # "signals"
    BY <2>4
  <2> QED
    BY <1>1, <2>1, <2>5, <2>6, <2>7, <2>8, <2>9, <2>10, <2>11, <2>12, <2>13, StillError
<1>9. ASSUME Enter("Decode", r), work' = Tail(work), UNCHANGED <<conf, clockVars, driverVars, marked, events, scalings>>
      PROVE  ErrorInv'
  <2>1. UNCHANGED <<conf, now, pc, changed, driverVars, events>>
    BY <1>9 DEF clockVars
  <2>2. /\ Arrived(r)
        /\ Waits("Decode", r) \/ (Runs("Decode", r) /\ (conf.router = "queue" => ~AllWorkersBusy(rt["Decode"])))
    BY <1>1, <1>3, <1>6, <1>9, EnterMoves DEF OnePlaceInv
  <2>3. Sheds(events, events', r, "event") /\ Sheds(work, work', r, "work")
    BY <1>0, <1>1, <1>2, <1>9, <2>1 DEF Sheds
  <2>4. ReleaseInv'
    BY <1>1, <1>5, <2>1, ReleaseKept
  <2>5. "Decode" = First => r \in FirstOf(events, work, requests)
    BY <1>3
  <2>6. QueuesIn(rt, r) \subseteq {"Decode"}
    BY <1>6
  <2> QED
    BY <1>3, <1>5, <1>6, <2>1, <2>2, <2>3, <2>4, <2>5, <2>6, MoveError
<1>10. \/ NoWorker("Decode")
       \/ \E d \in Handoffs : /\ d > 0 /\ events' = Pushed(events, Handoff(now + d, r)) /\ work' = Tail(work)
                              /\ UNCHANGED <<conf, clockVars, driverVars, requests, marked, eng, rr, rt, scalings>>
       \/ Enter("Decode", r) /\ work' = Tail(work) /\ UNCHANGED <<conf, clockVars, driverVars, marked, events, scalings>>
  BY <1>0, Zenon DEF HandOver
<1> QED
  BY <1>4, <1>8, <1>9, <1>10

\* apply_decode_handoffs.
LEMMA HandoffError ==
    ASSUME ErrorInv, OnePlaceInv', DecodeHandoff
    PROVE  ErrorInv'
<1> DEFINE e == Head(events)
<1>0. PICK r : e.r = r
  OBVIOUS
<1>1. /\ events # <<>> /\ e.kind = "handoff" /\ pc = "handoffs" /\ OnePlaceInv /\ EngineInv /\ KnownInv
      /\ RotaInv /\ Listed(events)
  BY DEF DecodeHandoff, Due, At, ErrorInv, OnePlaceInv, ReplayInv
<1>2. e \in Entries(events) /\ Entries(events) = {e} \cup Entries(Tail(events))
  BY <1>1, TailEntries
<1>3. conf.kind = "disagg" /\ "Decode" \in Active /\ First = "Prefill"
  BY <1>1 DEF OnePlaceInv, ReplayInv, RoundInv, Active, First
<1>4. ~NoWorker("Decode")
  BY <1>3, SomeWorker
<1>5. SameActive
  BY <1>1, HandleSame
<1>6. Live(r) /\ CoresIn(eng, r) = {} /\ QueuesIn(rt, r) = {}
  <2>1. Passed(events, r)
    BY <1>0, <1>1, <1>2 DEF Passed
  <2>2. HeapOf(events, r) # {}
    BY <2>1, Held
  <2> QED
    BY <1>1, <2>2, HeldInHeap DEF OnePlaceInv, PlaceInv
<1>7. Enter("Decode", r) /\ events' = Tail(events) /\ changed' = TRUE
      /\ UNCHANGED <<conf, now, pc, driverVars, marked, work, scalings>>
  BY <1>0, <1>4, Zenon DEF DecodeHandoff
<1>8. /\ Arrived(r)
      /\ Waits("Decode", r) \/ (Runs("Decode", r) /\ (conf.router = "queue" => ~AllWorkersBusy(rt["Decode"])))
  BY <1>1, <1>3, <1>6, <1>7, EnterMoves DEF OnePlaceInv
<1>9. Sheds(events, events', r, "event") /\ Sheds(work, work', r, "work")
  <2>1. Sheds(events, events', r, "event")
    BY <1>0, <1>1, <1>2, <1>7 DEF Sheds
  <2>2. work' = work
    BY <1>7
  <2> QED
    BY <2>1, <2>2, ShedsNone
<1>10. ReleaseInv'
  BY <1>7, ReleaseFree
<1>11. ("Decode" = First => r \in FirstOf(events, work, requests)) /\ QueuesIn(rt, r) \subseteq {"Decode"}
  BY <1>3, <1>6
<1>12. UNCHANGED <<conf, now, pc, driverVars>>
  BY <1>7
<1> QED
  BY <1>3, <1>5, <1>6, <1>8, <1>9, <1>10, <1>11, <1>12, MoveError

-----------------------------------------------------------------------------
(* The counts of what is in flight                                            *)

\* What the count of a worker is about: its core and what its pass ends.
MineOf(st, i) ==
    {r \in DOMAIN requests : \/ r \in DOMAIN eng[st].workers[i].core
                             \/ \E e \in Entries(events) : Completes(e, st, i) /\ Last(r) \in e.signals}

StageOf(st) == (UNION {MineOf(st, i) : i \in DOMAIN eng[st].workers}) \cup rt[st].pending

\* in_flight of a worker counts them all.
LEMMA WorkerCounted ==
    ASSUME OnePlaceInv, NEW st \in Active, NEW i \in DOMAIN eng[st].workers
    PROVE  /\ eng[st].workers[i].in_flight \in Nat
           /\ IsFiniteSet(MineOf(st, i)) /\ Cardinality(MineOf(st, i)) <= eng[st].workers[i].in_flight
<1> DEFINE w == eng[st].workers[i]  C == DOMAIN w.core  M == MineOf(st, i)
<1>1. IsFiniteSet(C) /\ Exact(w, events, st, i)
  BY DEF OnePlaceInv, Fit
<1>2. Cardinality(C) \in Nat
  BY <1>1, FS_CardinalityType
<1>3. CASE ~w.busy
  <2>1. Coming(events, st, i) = {} /\ w.in_flight = Cardinality(C)
    BY <1>1, <1>3 DEF Exact
  <2>2. \A e \in Entries(events) : ~Completes(e, st, i)
    BY <2>1 DEF Entries, Coming
  <2>3. M \subseteq C
    BY <2>2 DEF MineOf
  <2> HIDE DEF M, C, w
  <2>4. IsFiniteSet(M) /\ Cardinality(M) <= Cardinality(C)
    BY <1>1, <2>3, FS_Subset
  <2>5. w.in_flight \in Nat /\ Cardinality(M) <= w.in_flight
    BY <1>2, <2>1, <2>4
  <2> QED
    BY <2>4, <2>5 DEF w, M
<1>4. CASE w.busy
  <2>1. PICK k : Coming(events, st, i) = {k} /\ w.in_flight = Cardinality(C) + Done(events[k].signals)
    BY <1>1, <1>4 DEF Exact
  <2> DEFINE e == events[k]  D == {x \in e.signals : x.done}  E == {r \in DOMAIN requests : Last(r) \in e.signals}
             f == [r \in E |-> Last(r)]
  <2>2. k \in DOMAIN events /\ Completes(e, st, i)
    BY <2>1 DEF Coming
  <2>3. e \in Entries(events) /\ \A g \in Entries(events) : Completes(g, st, i) => g = e
    BY <2>1, <2>2 DEF Entries, Coming
  <2>4. Outcomes(e.signals)
    BY <2>2, <2>3 DEF OnePlaceInv, Heard, Completes
  <2>5. IsFiniteSet(D) /\ Cardinality(D) = Done(e.signals) /\ Cardinality(D) \in Nat
    <3>1. IsFiniteSet(D)
      BY <2>4, FS_Subset DEF Outcomes
    <3> QED
      BY <3>1, FS_CardinalityType DEF Done
  <2>6. \A r : Last(r).done = TRUE /\ Last(r).r = r
    BY DEF Last
  <2>7. f \in Injection(E, D)
    <3>1. f \in [E -> D]
      BY <2>6
    <3>2. \A x, y \in E : f[x] = f[y] => x = y
      BY <2>6
    <3> HIDE DEF f
    <3> QED
      BY <3>1, <3>2 DEF Injection, IsInjective
  <2>8. IsFiniteSet(E) /\ Cardinality(E) <= Cardinality(D)
    BY <2>5, <2>7, FS_Injection
  <2>9. M \subseteq C \cup E
    BY <2>3 DEF MineOf
  <2>10. Cardinality(E) \in Nat
    BY <2>8, FS_CardinalityType
  <2> HIDE DEF M, C, E, w, D, e
  <2>11. IsFiniteSet(C \cup E) /\ Cardinality(C \cup E) = Cardinality(C) + Cardinality(E) - Cardinality(C \cap E)
    BY <1>1, <2>8, FS_Union
  <2>12. Cardinality(C \cap E) \in Nat
    BY <1>1, FS_Intersection, FS_CardinalityType
  <2>13. IsFiniteSet(M) /\ Cardinality(M) <= Cardinality(C \cup E)
    BY <2>9, <2>11, FS_Subset
  <2>14. Cardinality(M) \in Nat /\ w.in_flight = Cardinality(C) + Cardinality(D)
    BY <2>1, <2>5, <2>13, FS_CardinalityType DEF e
  <2>15. w.in_flight \in Nat /\ Cardinality(M) <= w.in_flight
    BY <1>2, <2>5, <2>8, <2>10, <2>11, <2>12, <2>13, <2>14
  <2> QED
    BY <2>13, <2>15 DEF w, M
<1> QED
  BY <1>3, <1>4

\* So does the count of a stage.
LEMMA StageCounted ==
    ASSUME OnePlaceInv, IsFiniteSet(DOMAIN requests), NEW st \in Active
    PROVE  /\ StageInFlight(st) \in Nat
           /\ IsFiniteSet(StageOf(st)) /\ Cardinality(StageOf(st)) <= StageInFlight(st)
           /\ StageInFlight(st) = 0 <=> /\ rt[st].pending = {}
                                        /\ \A i \in DOMAIN eng[st].workers : eng[st].workers[i].in_flight = 0
<1> DEFINE e == eng[st]  D == DOMAIN e.workers  P == rt[st].pending
           n == [i \in D |-> e.workers[i].in_flight]  F == [i \in D |-> MineOf(st, i)]
           U == UNION {F[i] : i \in D}
<1>1. \A i \in D : /\ e.workers[i].in_flight \in Nat
                   /\ IsFiniteSet(F[i]) /\ Cardinality(F[i]) <= n[i]
  BY WorkerCounted
<1>2. IsFiniteSet(D)
  <2>1. e.next \in Nat /\ D \subseteq 0..(e.next - 1)
    BY DEF OnePlaceInv, ReplayInv, EngineInv, EngineRecord
  <2>2. 0 \in Int /\ e.next - 1 \in Int
    BY <2>1
  <2>3. IsFiniteSet(0..(e.next - 1))
    BY <2>2, FS_Interval
  <2> QED
    BY <2>1, <2>3, FS_Subset
<1>3. P \subseteq DOMAIN requests
  <2>1. ASSUME NEW r \in P PROVE r \in DOMAIN requests
    <3>1. QueuesIn(rt, r) # {}
      BY DEF QueuesIn
    <3>2. Live(r)
      BY <3>1, Placement
    <3> QED
      BY <3>2 DEF Live
  <2> QED
    BY <2>1
<1>4. IsFiniteSet(P) /\ Cardinality(P) \in Nat /\ (Cardinality(P) = 0 <=> P = {})
  <2>1. IsFiniteSet(P)
    BY <1>3, FS_Subset
  <2> QED
    BY <2>1, FS_CardinalityType, FS_EmptySet
<1>5. PICK g : Sums(g, n, D) /\ InFlight(e) = g[D]
  <2> HIDE DEF e
  <2> QED
    BY <1>1, <1>2, InFlightSums
<1>6. n \in [D -> Nat] /\ D \in SUBSET D
  BY <1>1
<1>7. StageOf(st) = U \cup P
  <2>1. {F[i] : i \in D} = {MineOf(st, i) : i \in D}
    OBVIOUS
  <2> QED
    BY <2>1 DEF StageOf
<1>8. /\ g[D] \in Nat /\ (\A i \in D : n[i] <= g[D]) /\ ((\A i \in D : n[i] = 0) => g[D] = 0)
      /\ IsFiniteSet(U) /\ Cardinality(U) <= g[D]
  <2>1. \A i \in D : IsFiniteSet(F[i]) /\ Cardinality(F[i]) <= n[i]
    BY <1>1
  <2>2. Sums(g, n, D)
    BY <1>5
  <2> HIDE DEF n, F, D, e
  <2>3. \A s \in SUBSET D :
           /\ g[s] \in Nat /\ (\A i \in s : n[i] <= g[s]) /\ ((\A i \in s : n[i] = 0) => g[s] = 0)
           /\ IsFiniteSet(UNION {F[i] : i \in s}) /\ Cardinality(UNION {F[i] : i \in s}) <= g[s]
    BY <1>2, <1>6, <2>1, <2>2, SumFacts
  <2> QED
    BY <1>6, <2>3
<1>9. StageInFlight(st) = g[D] + Cardinality(P)
  BY <1>5 DEF StageInFlight
<1>10. (\A i \in D : n[i] = 0) <=> g[D] = 0
  <2>1. \A i \in D : n[i] \in Nat
    BY <1>1
  <2> HIDE DEF n, D
  <2> QED
    BY <1>8, <2>1
<1>11. \A i \in D : n[i] = e.workers[i].in_flight
  OBVIOUS
<1> HIDE DEF U, P, n, D, F
<1>12. IsFiniteSet(U \cup P) /\ Cardinality(U \cup P) = Cardinality(U) + Cardinality(P) - Cardinality(U \cap P)
  BY <1>4, <1>8, FS_Union
<1>13. Cardinality(U \cap P) \in Nat /\ Cardinality(U) \in Nat
  BY <1>8, FS_Intersection, FS_CardinalityType
<1>14. StageInFlight(st) \in Nat /\ Cardinality(U \cup P) <= StageInFlight(st)
  BY <1>4, <1>8, <1>9, <1>12, <1>13
<1>15. StageInFlight(st) = 0 <=> g[D] = 0 /\ P = {}
  BY <1>4, <1>8, <1>9
<1>16. StageInFlight(st) = 0 <=> P = {} /\ \A i \in D : e.workers[i].in_flight = 0
  BY <1>10, <1>11, <1>15
<1> QED
  BY <1>7, <1>12, <1>14, <1>16 DEF P, D

\* And that of the cluster.
LEMMA ClusterCounted ==
    ASSUME OnePlaceInv, IsFiniteSet(DOMAIN requests)
    PROVE  LET U == UNION {StageOf(st) : st \in Active} IN
           /\ ClusterInFlight \in Nat
           /\ IsFiniteSet(U) /\ Cardinality(U) <= ClusterInFlight
           /\ ClusterInFlight = 0 <=>
                \A st \in Active : /\ rt[st].pending = {}
                                   /\ \A i \in DOMAIN eng[st].workers : eng[st].workers[i].in_flight = 0
<1> DEFINE n == [st \in Active |-> StageInFlight(st)]  F == [st \in Active |-> StageOf(st)]
           U == UNION {F[st] : st \in Active}
           V == UNION {StageOf(st) : st \in Active}
<1>1. \A st \in Active : StageInFlight(st) \in Nat /\ IsFiniteSet(F[st]) /\ Cardinality(F[st]) <= n[st]
  BY StageCounted
<1>2. PICK g : Sums(g, n, Active) /\ ClusterInFlight = g[Active]
  BY <1>1, ClusterSums
<1>3. n \in [Active -> Nat] /\ Active \in SUBSET Active /\ IsFiniteSet(Active)
  BY <1>1, FiniteActive
<1>4. U = V
  OBVIOUS
<1>5. \A st \in Active : n[st] = StageInFlight(st) /\ n[st] \in Nat
  BY <1>1
<1> HIDE DEF n
<1>6. /\ g[Active] \in Nat /\ (\A i \in Active : n[i] <= g[Active]) /\ ((\A i \in Active : n[i] = 0) => g[Active] = 0)
      /\ IsFiniteSet(U) /\ Cardinality(U) <= g[Active]
  <2> HIDE DEF F
  <2> QED
    BY <1>1, <1>2, <1>3, SumFacts
<1>7. (\A i \in Active : n[i] = 0) <=> g[Active] = 0
  BY <1>5, <1>6
<1>8. ClusterInFlight = 0 <=> \A st \in Active : StageInFlight(st) = 0
  BY <1>2, <1>5, <1>7
<1>9. \A st \in Active : StageInFlight(st) = 0 <=>
         /\ rt[st].pending = {} /\ \A i \in DOMAIN eng[st].workers : eng[st].workers[i].in_flight = 0
  BY StageCounted
<1> HIDE DEF U, V
<1>10. /\ ClusterInFlight \in Nat /\ IsFiniteSet(V) /\ Cardinality(V) <= ClusterInFlight
  BY <1>2, <1>4, <1>6
<1> QED
  BY <1>8, <1>9, <1>10 DEF V

\* With no work in hand, a request that is out is between its stages or counted.
LEMMA WhereLive ==
    ASSUME OnePlaceInv, work = <<>>, NEW r, Live(r)
    PROVE  Passed(events, r) \/ \E st \in Active : r \in StageOf(st)
<1>1. r \in DOMAIN requests
  BY DEF Live
<1>2. \A st \in Active : DOMAIN eng[st].workers \subseteq Nat
  BY DEF OnePlaceInv, ReplayInv, EngineInv, EngineRecord
<1>3. CoresIn(eng, r) # {} \/ QueuesIn(rt, r) # {} \/ HeapOf(events, r) # {}
  <2>1. HandOf(work, r) = {}
    BY NoWork
  <2> QED
    BY <2>1, Placement
<1>4. CASE CoresIn(eng, r) # {}
  <2>1. PICK p \in CoresIn(eng, r) : TRUE
    BY <1>4
  <2>2. p[1] \in Active /\ p[2] \in DOMAIN eng[p[1]].workers /\ r \in DOMAIN eng[p[1]].workers[p[2]].core
    BY DEF CoresIn
  <2>3. r \in MineOf(p[1], p[2])
    BY <1>1, <2>2 DEF MineOf
  <2> QED
    BY <2>2, <2>3 DEF StageOf
<1>5. CASE QueuesIn(rt, r) # {}
  BY <1>5 DEF QueuesIn, StageOf
<1>6. CASE HeapOf(events, r) # {}
  <2>1. PICK e \in Entries(events) : Holds(e, r)
    BY <1>6 DEF HeapOf, Entries
  <2>2. CASE e.kind = "handoff" /\ e.r = r
    BY <2>2 DEF Passed
  <2>3. CASE e.kind = "completion" /\ Last(r) \in e.signals
    <3>1. e.st \in Active /\ e.worker \in DOMAIN eng[e.st].workers
      BY <2>3 DEF OnePlaceInv, Heard
    <3>2. r \in MineOf(e.st, e.worker)
      BY <1>1, <2>3 DEF MineOf, Completes
    <3> QED
      BY <3>1, <3>2 DEF StageOf
  <2> QED
    BY <2>1, <2>2, <2>3 DEF Holds
<1> QED
  BY <1>3, <1>4, <1>5, <1>6

\* Those that the cap is about are among those the cluster counts.
LEMMA FirstCounted ==
    ASSUME ErrorInv, work = <<>>
    PROVE  LET A == FirstOf(events, work, requests) IN
           IsFiniteSet(A) /\ Cardinality(A) \in Nat /\ ClusterInFlight \in Nat /\ Cardinality(A) <= ClusterInFlight
<1> DEFINE A == FirstOf(events, work, requests)  U == UNION {StageOf(st) : st \in Active}
<1>1. OnePlaceInv /\ IsFiniteSet(DOMAIN requests)
  BY DEF ErrorInv, CapInv
<1>2. ClusterInFlight \in Nat /\ IsFiniteSet(U) /\ Cardinality(U) <= ClusterInFlight
  BY <1>1, ClusterCounted
<1>3. A \subseteq U
  <2>1. ASSUME NEW r \in A PROVE r \in U
    <3>1. Live(r) /\ ~Passed(events, r)
      BY DEF FirstOf, Live, Finished, Handed
    <3> QED
      BY <1>1, <3>1, WhereLive
  <2> QED
    BY <2>1
<1> HIDE DEF A, U
<1>4. IsFiniteSet(A) /\ Cardinality(A) <= Cardinality(U) /\ Cardinality(A) \in Nat /\ Cardinality(U) \in Nat
  BY <1>2, <1>3, FS_Subset, FS_CardinalityType
<1>5. Cardinality(A) <= ClusterInFlight
  BY <1>2, <1>4
<1> QED
  BY <1>2, <1>4, <1>5 DEF A

\* WorkloadDriver::pop_ready: the turn of the session is out.
LEMMA DriverRelease ==
    ASSUME TurnInv, DriverInv, conf' = conf, ready # <<>>, NEW r, r = <<Head(ready).s, Head(ready).t>>,
           ready' = Tail(ready), turn' = turn,
           flying' = IF conf.source = "workload" THEN flying \cup {r} ELSE flying,
           DOMAIN requests' = DOMAIN requests \cup {r}, Live(r)', \A z : z # r => (Live(z)' <=> Live(z))
    PROVE  DriverInv'
<1> DEFINE h == Head(ready)
<1>1. Listed(ready) /\ Entries(ready) = {h} \cup Entries(ready') /\ h \in Entries(ready)
  BY TailEntries DEF TurnInv
<1>2. h.s \in DOMAIN Sessions /\ h.t = turn[h.s]
  BY <1>1 DEF TurnInv
<1>3. r[1] = h.s /\ r[2] = h.t
  OBVIOUS
<1> HIDE DEF h
<1>4. \A s : Turns(s)' = Turns(s)
  BY SameStages
<1>5. conf.source = "workload" => \A z : z \in flying' <=> Live(z)'
  <2>1. ASSUME conf.source = "workload", NEW z PROVE z \in flying' <=> Live(z)'
    <3>1. (z \in flying <=> Live(z)) /\ flying' = flying \cup {r}
      BY <2>1, Zenon DEF DriverInv
    <3>2. CASE z = r
      BY <3>1, <3>2
    <3>3. CASE z # r
      <4>1. (Live(z)' <=> Live(z)) /\ (z \in flying' <=> z \in flying)
        BY <3>1, <3>3
      <4> QED
        BY <3>1, <4>1, Zenon
    <3> QED
      BY <3>2, <3>3
  <2> QED
    BY <2>1, Zenon
<1>6. ASSUME NEW z \in DOMAIN requests', z[2] = turn'[z[1]] PROVE Live(z)'
  <2>1. CASE z = r
    BY <2>1
  <2>2. CASE z # r
    <3>1. z \in DOMAIN requests /\ z[2] = turn[z[1]]
      BY <1>6, <2>2
    <3>2. Live(z)
      BY <3>1 DEF DriverInv
    <3> QED
      BY <2>2, <3>2, Zenon
  <2> QED
    BY <2>1, <2>2
<1>7. \A z \in DOMAIN requests' : z[2] \in Turns(z[1])
  BY <1>1, <1>2, <1>3 DEF DriverInv
<1>8. \A e \in Entries(ready') : e.t \in Turns(e.s)
  BY <1>1 DEF DriverInv
<1>9. ASSUME NEW s \in DOMAIN Sessions
      PROVE  /\ turn[s] >= 1
             /\ \A t \in Turns(s) :
                  /\ t < turn[s] => <<s, t>> \in DOMAIN requests'
                  /\ t = turn[s] => <<s, t>> \in DOMAIN requests' \/ SessionIn(ready', s) # {}
  <2>1. /\ turn[s] >= 1
        /\ \A t \in Turns(s) :
             /\ t < turn[s] => <<s, t>> \in DOMAIN requests
             /\ t = turn[s] => <<s, t>> \in DOMAIN requests \/ SessionIn(ready, s) # {}
    BY DEF DriverInv
  <2>2. ASSUME NEW t \in Turns(s), t = turn[s], SessionIn(ready, s) # {}
        PROVE  <<s, t>> \in DOMAIN requests' \/ SessionIn(ready', s) # {}
    <3>1. PICK e \in Entries(ready) : e.s = s
      BY <2>2, SessionWaits
    <3>2. CASE e = h
      <4>1. <<s, t>> = r
        BY <1>2, <2>2, <3>1, <3>2 DEF h
      <4> QED
        BY <4>1
    <3>3. CASE e # h
      <4>1. e \in Entries(ready')
        BY <1>1, <3>3
      <4> QED
        BY <3>1, <4>1, SessionWaits
    <3> QED
      BY <3>2, <3>3
  <2> QED
    BY <2>1, <2>2
<1>10. DriverInv' =
        (/\ conf'.source = "workload" => \A z : z \in flying' <=> Live(z)'
         /\ \A z \in DOMAIN requests' : z[2] \in Turns(z[1])' /\ (z[2] = turn'[z[1]] => Live(z)')
         /\ \A e \in Entries(ready') : e.t \in Turns(e.s)'
         /\ \A s \in DOMAIN Sessions :
            /\ turn'[s] >= 1
            /\ \A t \in Turns(s)' :
                /\ t < turn'[s] => <<s, t>> \in DOMAIN requests'
                /\ t = turn'[s] => <<s, t>> \in DOMAIN requests' \/ SessionIn(ready', s) # {})
  BY Zenon DEF DriverInv, Entries, SessionIn
<1> QED
  BY <1>4, <1>5, <1>6, <1>8, <1>9, <1>10, <1>7, Zenon

\* release_ready_arrivals: below the cap, and never above it.
LEMMA ArriveError ==
    ASSUME ErrorInv, OnePlaceInv', Arrive
    PROVE  ErrorInv'
<1>0. PICK r : r = <<Head(ready).s, Head(ready).t>>
  OBVIOUS
<1>1. /\ ready # <<>> /\ (conf.cap = 0 \/ ClusterInFlight < conf.cap) /\ work = <<>> /\ pc = "arrivals"
      /\ OnePlaceInv /\ EngineInv /\ KnownInv /\ RotaInv /\ TurnInv /\ conf \in Configs
  BY DEF Arrive, At, MayRelease, ErrorInv, OnePlaceInv, ReplayInv, RoundInv
<1>2. First \in Active
  BY Stages
<1>3. ~NoWorker(First)
  BY <1>2, SomeWorker
<1>4. SameActive
  BY <1>1, HandleSame
<1>5. /\ Enter(First, r) /\ ready' = Tail(ready) /\ changed' = TRUE
      /\ flying' = IF conf.source = "workload" THEN flying \cup {r} ELSE flying
      /\ UNCHANGED <<conf, now, pc, turn, marked, events, work, scalings>>
  BY <1>0, <1>3, Zenon DEF Arrive
<1>6. r \notin DOMAIN requests
  BY <1>0, <1>1, TurnReleased
<1>8. CoresIn(eng, r) = {} /\ QueuesIn(rt, r) = {}
  <2>1. ~Live(r)
    BY <1>6 DEF Live
  <2> QED
    BY <1>1, <2>1, Placement
<1>9. /\ Arrived(r)
      /\ Waits(First, r) \/ (Runs(First, r) /\ (conf.router = "queue" => ~AllWorkersBusy(rt[First])))
  BY <1>1, <1>2, <1>5, <1>8, EnterMoves DEF OnePlaceInv
<1>10. Sheds(events, events', r, "event") /\ Sheds(work, work', r, "work") /\ QueuesIn(rt, r) \subseteq {First}
  BY <1>5, <1>8, ShedsNone
<1>11. /\ Reports(eng', events') /\ Reported(eng', work')
       /\ Slots(eng', events', work', rt', requests') /\ Queues(rt', work')
       /\ IsFiniteSet(DOMAIN requests')
       /\ FirstOf(events', work', requests') \subseteq FirstOf(events, work, requests) \cup {r}
  BY <1>2, <1>5, <1>8, <1>9, <1>10, Comes
<1>12. CapInv'
  <2> DEFINE A == FirstOf(events, work, requests)  B == FirstOf(events', work', requests')
  <2>1. IsFiniteSet(A) /\ Cardinality(A) \in Nat /\ ClusterInFlight \in Nat /\ Cardinality(A) <= ClusterInFlight
    BY <1>1, FirstCounted
  <2>2. B \subseteq A \cup {r}
    BY <1>11
  <2>3. conf.cap \in Nat /\ FirstOf(events, work, requests)' = B
    BY <1>1, <1>5, ReplayAssumption, SameStages
  <2> HIDE DEF A, B
  <2>4. IsFiniteSet(A \cup {r}) /\ Cardinality(A \cup {r}) <= Cardinality(A) + 1 /\ Cardinality(A \cup {r}) \in Nat
    <3>1. IsFiniteSet(A \cup {r}) /\ (Cardinality(A \cup {r}) = IF r \in A THEN Cardinality(A) ELSE Cardinality(A) + 1)
      BY <2>1, FS_AddElement
    <3> QED
      BY <2>1, <3>1
  <2>5. Cardinality(B) <= Cardinality(A \cup {r}) /\ Cardinality(B) \in Nat
    BY <2>2, <2>4, FS_Subset, FS_CardinalityType
  <2>6. conf.cap > 0 => Cardinality(B) <= conf.cap
    BY <1>1, <2>1, <2>3, <2>4, <2>5
  <2> QED
    BY <1>5, <1>11, <2>3, <2>6 DEF CapInv
<1>13. DriverInv'
  <2>1. DOMAIN requests' = DOMAIN requests \cup {r} /\ Live(r)' /\ \A z : z # r => (Live(z)' <=> Live(z))
    BY <1>9, Zenon DEF Arrived
  <2> QED
    BY <1>0, <1>1, <1>5, <2>1, DriverRelease DEF ErrorInv
<1>14. TimeInv'
  <2>1. \A e \in Entries(ready') : e \in Entries(ready)
    BY <1>1, <1>5, TailEntries DEF TurnInv
  <2>2. TimeInv' = (/\ now' \in Nat
                    /\ \A e \in Entries(events') : Timed(e)
                    /\ \A e \in Entries(ready') :
                        e.at \in Nat /\ (conf'.source = "requests" /\ conf'.cap > 0 => e.at = 0))
    BY Zenon DEF TimeInv, Entries
  <2> QED
    BY <1>5, <2>1, <2>2 DEF ErrorInv, TimeInv
<1>15. ReleaseInv' /\ ActiveInv' /\ pc' # "failed"
  BY <1>1, <1>4, <1>5, ReleaseFree, ActiveKept DEF ErrorInv
<1> QED
  BY <1>5, <1>11, <1>12, <1>13, <1>14, <1>15, NextParts

-----------------------------------------------------------------------------
(* The rounds                                                                 *)

\* on_scheduled_completion leaves the cores as they are.
LEMMA CompletedCores ==
    ASSUME OnePlaceInv, NEW s \in Active, NEW i \in DOMAIN eng[s].workers, NEW n,
           eng' = [eng EXCEPT ![s] = Completed(@, i, n)]
    PROVE  \A r : CoresIn(eng', r) = CoresIn(eng, r)
<1> DEFINE f == Completed(eng[s], i, n)  w == eng[s].workers[i]  v == f.workers[i]
<1>1. DOMAIN eng = Active /\ \A st \in Active : EngineRecord(eng[st])
  BY DEF OnePlaceInv, ReplayInv, EngineInv
<1>2. /\ DOMAIN f.workers \subseteq DOMAIN eng[s].workers
      /\ \A j \in DOMAIN f.workers : j # i => f.workers[j] = eng[s].workers[j]
      /\ i \in DOMAIN f.workers => v.core = w.core
      /\ \A j \in DOMAIN eng[s].workers \ DOMAIN f.workers : DOMAIN eng[s].workers[j].core = {}
  <2>1. /\ DOMAIN f.workers \subseteq DOMAIN eng[s].workers /\ f.starting = eng[s].starting
        /\ \A j \in DOMAIN f.workers : j # i => f.workers[j] = eng[s].workers[j]
        /\ i \in DOMAIN f.workers =>
             ~v.busy /\ v.core = w.core /\ v.in_flight = IF w.in_flight < n THEN 0 ELSE w.in_flight - n
        /\ \A j \in DOMAIN eng[s].workers \ DOMAIN f.workers :
             /\ DOMAIN eng[s].workers[j].core = {} /\ j \in eng[s].leaving /\ (j # i => ~eng[s].workers[j].busy)
    BY <1>1, CompletedWorkers, Zenon
  <2> HIDE DEF f
  <2> QED
    BY <2>1
<1>3. eng'[s] = f /\ \A st \in Active : st # s => eng'[st] = eng[st]
  BY <1>1
<1> HIDE DEF f
<1>4. ASSUME NEW st \in Active, NEW j \in DOMAIN eng'[st].workers
      PROVE  j \in DOMAIN eng[st].workers /\ eng'[st].workers[j].core = eng[st].workers[j].core
  BY <1>2, <1>3
<1>5. ASSUME NEW st \in Active, NEW j \in DOMAIN eng[st].workers, j \notin DOMAIN eng'[st].workers
      PROVE  DOMAIN eng[st].workers[j].core = {}
  BY <1>2, <1>3, <1>5
<1>6. ASSUME NEW r PROVE CoresIn(eng', r) = CoresIn(eng, r)
  <2>1. ASSUME NEW st \in Active, NEW j \in Nat
        PROVE  <<st, j>> \in CoresIn(eng', r) <=> <<st, j>> \in CoresIn(eng, r)
    BY <1>4, <1>5 DEF CoresIn
  <2> QED
    BY <2>1 DEF CoresIn
<1> QED
  BY <1>6

\* A request in a core of a stage is one that the stage has.
LEMMA CoreHas ==
    ASSUME NEW g, NEW st, NEW i, NEW r, <<st, i>> \in CoresIn(g, r)
    PROVE  Has(g, st, r)
BY DEF CoresIn, Has

\* The times, when one event is gone.
LEMMA TimePopped ==
    ASSUME TimeInv, Listed(events), events # <<>>, events' = Tail(events), UNCHANGED <<conf, now, ready>>
    PROVE  TimeInv'
<1>1. \A e \in Entries(events') : e \in Entries(events)
  BY TailEntries
<1> QED
  BY <1>1, TimeKept

\* apply_worker_completions: the signals go from the event to the work in hand.
LEMMA CompletionError ==
    ASSUME ErrorInv, OnePlaceInv', WorkerCompletion
    PROVE  ErrorInv'
<1> DEFINE e == Head(events)  s == e.st  i == e.worker  n == Done(e.signals)
           x == [op |-> "signals", st |-> s, set |-> e.signals]
<1>1. /\ events # <<>> /\ e.kind = "completion" /\ work = <<>> /\ Listed(events) /\ OnePlaceInv
      /\ EngineInv /\ KnownInv
  BY DEF WorkerCompletion, Due, At, ErrorInv, OnePlaceInv, ReplayInv
<1>2. e \in Entries(events) /\ Entries(events) = {e} \cup Entries(Tail(events))
  BY <1>1, TailEntries
<1>3. s \in Active /\ i \in DOMAIN eng[s].workers
  BY <1>1, <1>2 DEF OnePlaceInv, Heard
<1>4. /\ eng' = [eng EXCEPT ![s] = Completed(@, i, n)] /\ work' = <<x>> /\ events' = Tail(events) /\ changed' = TRUE
      /\ UNCHANGED <<conf, now, pc, driverVars, requests, marked, rr, rt, scalings>>
  BY <1>3, Zenon DEF WorkerCompletion
<1>5. x.op = "signals" /\ x.st = s /\ x.set = e.signals
  OBVIOUS
<1>6. Entries(work') = {x} /\ Entries(work) = {}
  BY <1>1, <1>4, SingleHit, NoEntries
<1>7. SameActive
  BY <1>1, CompletionSame
<1> HIDE DEF e, x, n
<1>8. \A r : CoresIn(eng', r) = CoresIn(eng, r)
  BY <1>1, <1>3, <1>4, CompletedCores
<1>9. Reports(eng', events')
  BY <1>2, <1>4, <1>8 DEF ErrorInv, Reports
<1>10. Reported(eng', work')
  <2>1. ASSUME NEW y \in e.signals, ~y.done PROVE Has(eng', s, y.r)
    <3>1. <<s, i>> \in CoresIn(eng', y.r)
      BY <1>1, <1>2, <1>8, <2>1 DEF ErrorInv, Reports
    <3> QED
      BY <3>1, CoreHas
  <2> QED
    BY <1>5, <1>6, <2>1 DEF Reported
<1>11. ASSUME NEW a \in Active, NEW z
       PROVE  Served(eng', events', work', a, z) <=> Served(eng, events, work, a, z)
  <2>1. Has(eng', a, z) <=> Has(eng, a, z)
    BY <1>8 DEF Has
  <2>2. Ending(events, a, z) <=> Ending(events', a, z) \/ (s = a /\ Last(z) \in e.signals)
    BY <1>1, <1>2, <1>4 DEF Ending
  <2>3. ~Ended(work, a, z) /\ (Ended(work', a, z) <=> s = a /\ Last(z) \in e.signals)
    BY <1>5, <1>6 DEF Ended
  <2> QED
    BY <2>1, <2>2, <2>3, Zenon DEF Served
<1>12. \A z : Handed(events, work, z) => Handed(events', work', z)
  BY <1>1, <1>2, <1>4, <1>6 DEF Handed, Passed, Passing
<1>13. Steady(rt, rt') /\ Queues(rt', work')
  BY <1>4, <1>6 DEF Steady, ErrorInv, Queues
<1>14. UNCHANGED <<conf, now, ready>> /\ UNCHANGED <<conf, driverVars, requests>> /\ pc' # "failed"
  BY <1>4 DEF driverVars, ErrorInv
<1>15. TimeInv' /\ ReleaseInv' /\ ActiveInv'
  BY <1>1, <1>4, <1>7, <1>14, TimePopped, ReleaseFree, ActiveKept DEF ErrorInv
<1> QED
  BY <1>9, <1>10, <1>11, <1>12, <1>13, <1>14, <1>15, PassError

\* apply_worker_ready_events: the router looks at its queue when it hears of the worker.
LEMMA ReadyError ==
    ASSUME ErrorInv, OnePlaceInv', WorkerReady
    PROVE  ErrorInv'
<1> DEFINE e == Head(events)  s == e.st  i == e.worker
<1>1. /\ events # <<>> /\ e.kind = "ready" /\ work = <<>> /\ pc = "ready" /\ Listed(events) /\ OnePlaceInv
      /\ DOMAIN eng = Active /\ DOMAIN rt = Active /\ \A st \in Active : EngineRecord(eng[st])
      /\ \A st \in Active : DOMAIN rt[st] = {"known", "pending", "slots", "heavy"}
  BY DEF WorkerReady, Due, At, ErrorInv, OnePlaceInv, ReplayInv, EngineInv, KnownInv
<1>2. e \in Entries(events) /\ Entries(events) = {e} \cup Entries(Tail(events))
  BY <1>1, TailEntries
<1>3. s \in Active
  BY <1>1, <1>2 DEF OnePlaceInv, Heard
<1>4. /\ eng' = [eng EXCEPT ![s].starting = @ \ {i}]
      /\ IF MarkReady(s, i) THEN rt' = [rt EXCEPT ![s].known = @ \cup {i}] /\ work' = DrainOf(s)
         ELSE rt' = rt /\ work' = work
      /\ events' = Tail(events) /\ UNCHANGED <<conf, now, pc, driverVars, requests, marked, rr, scalings>>
  BY Zenon DEF WorkerReady, AddReady
<1> HIDE DEF e, s, i
<1>5. UNCHANGED <<conf, now, ready>> /\ UNCHANGED <<conf, driverVars, requests>> /\ pc' = "ready"
  BY <1>1, <1>4 DEF driverVars
<1>6. \A st \in Active : /\ eng'[st].workers = eng[st].workers /\ eng'[st].starting \subseteq eng[st].starting
                         /\ eng'[st].leaving = eng[st].leaving
  BY <1>1, <1>3, <1>4 DEF EngineRecord
<1>7. \A r : CoresIn(eng', r) = CoresIn(eng, r)
  BY <1>6, EngineSameCores
<1>8. /\ \A st \in Active : rt'[st].pending = rt[st].pending /\ rt'[st].slots = rt[st].slots /\ rt'[st].heavy = rt[st].heavy
      /\ \A st \in Active : st # s => rt'[st] = rt[st]
      /\ ~MarkReady(s, i) => rt' = rt
  BY <1>1, <1>3, <1>4
<1>9. Entries(work) = {} /\ \A y \in Entries(work') : y.op = "drain"
  BY <1>1, <1>4, NoEntries, DrainOps
<1>10. Queues(rt', work')
  <2>1. \A st \in Active : \/ rt'[st] = rt[st] \/ conf.router # "queue"
                           \/ \E y \in Entries(work') : y.op = "drain" /\ y.st = st
    BY <1>4, <1>8, DrainOps
  <2>2. \A st \in Active : rt'[st].pending \subseteq rt[st].pending
    BY <1>8
  <2> QED
    BY <1>9, <2>1, <2>2, QueuesKept DEF ErrorInv
<1>11. ActiveInv'
  <2>1. \A st \in Active : ActiveIds(eng[st]) \subseteq ActiveIds(eng'[st])
    BY <1>6 DEF ActiveIds
  <2>2. Active' = Active
    BY <1>5, SameStages
  <2>3. ActiveInv' = \A st \in Active' : ActiveIds(eng'[st]) # {}
    BY Zenon DEF ActiveInv, ActiveIds
  <2> QED
    BY <2>1, <2>2, <2>3 DEF ErrorInv, ActiveInv
<1>12. TimeInv' /\ ReleaseInv'
  BY <1>1, <1>4, <1>5, TimePopped, ReleaseFree DEF ErrorInv
<1>13. \A z : Handed(events, work, z) => Handed(events', work', z)
  BY <1>1, <1>2, <1>4, <1>9 DEF Handed, Passed, Passing
<1>14. /\ \A y \in Entries(events') : y \in Entries(events) \/ y.kind # "completion"
       /\ \A y \in Entries(events) : y \in Entries(events') \/ y.kind # "completion"
  BY <1>1, <1>2, <1>4
<1>15. Steady(rt, rt')
  BY <1>8 DEF Steady
<1> QED
  BY <1>5, <1>7, <1>9, <1>10, <1>11, <1>12, <1>13, <1>14, <1>15, StillError

\* A pass of worker i ends the requests of over, and its signals go to an event or
\* are in hand.
Driven(st, i, set, over) ==
    /\ i \in Nat /\ set # {} /\ Coming(events, st, i) = {}
    /\ \A r : Last(r) \in set <=> r \in over
    /\ \A x \in set : ~x.done => x.r \notin over /\ <<st, i>> \in CoresIn(eng, x.r)
    /\ \A r \in over : CoresIn(eng, r) = {<<st, i>>}
    /\ \A r : CoresIn(eng', r) = CoresIn(eng, r) \ (IF r \in over THEN {<<st, i>>} ELSE {})

\* The event of such a pass, and the work in hand.
Scheduling(y, st, i, set) == y.kind = "completion" /\ y.st = st /\ y.worker = i /\ y.signals = set /\ Timed(y)
Emitting(x, st, set) == x.op = "signals" /\ x.st = st /\ x.set = set

\* drive_ready.
LEMMA DriveMoves ==
    ASSUME OnePlaceInv, TimeInv, NEW st \in Active, Drive(st)
    PROVE  \E i, set, over :
             /\ Driven(st, i, set, over)
             /\ \/ work' = work /\ \E y : Scheduling(y, st, i, set) /\ Entries(events') = Entries(events) \cup {y}
                \/ events' = events /\ \E x : Emitting(x, st, set) /\ Entries(work') = {x}
<1>1. PICK i \in DOMAIN eng[st].workers, d \in Durations :
        /\ IsReady(eng[st].workers[i])
        /\ \E S \in (SUBSET DOMAIN eng[st].workers[i].core) \ {{}} : Pass(st, i, d, S)
  BY DEF Drive
<1>2. PICK S \in SUBSET DOMAIN eng[st].workers[i].core : S # {} /\ Pass(st, i, d, S)
  BY <1>1
<1> DEFINE w    == eng[st].workers[i]
           set  == {Emits(w.core, r) : r \in S}
           over == {r \in S : w.core[r] = 1}
           core == [r \in DOMAIN w.core \ over |-> IF r \in S THEN w.core[r] - 1 ELSE w.core[r]]
           e    == [eng[st] EXCEPT !.workers[i].core = core, !.workers[i].busy = d > 0]
           x    == [op |-> "signals", st |-> st, set |-> set]
           y    == Completion(now + d, st, i, set)
<1>3. IF d = 0
      THEN /\ eng' = [eng EXCEPT ![st] = Completed(e, i, Cardinality(over))]
           /\ work' = <<x>> /\ events' = events
      ELSE /\ eng' = [eng EXCEPT ![st] = e]
           /\ events' = Pushed(events, y) /\ work' = work
  BY <1>2, Zenon DEF Pass, Emits
<1>4. /\ d \in Nat /\ EngineRecord(eng[st]) /\ DOMAIN eng = Active /\ i \in Nat /\ Listed(events) /\ now \in Nat
  BY ReplayAssumption DEF OnePlaceInv, ReplayInv, EngineInv, EngineRecord, TimeInv
<1>5. Emitting(x, st, set) /\ Scheduling(y, st, i, set)
  <2>1. now + d \in Nat
    BY <1>4
  <2> QED
    BY <2>1 DEF Completion, Emitting, Scheduling, Timed
<1>6. DOMAIN core = DOMAIN w.core \ over /\ over \subseteq DOMAIN w.core /\ set # {}
  BY <1>2
<1> HIDE DEF x, y, core
<1>7. ~w.busy /\ IsFiniteSet(DOMAIN w.core) /\ Coming(events, st, i) = {}
  <2>1. IsFiniteSet(DOMAIN w.core) /\ Exact(w, events, st, i)
    BY DEF OnePlaceInv, Fit
  <2>2. ~w.busy
    BY <1>1 DEF IsReady
  <2> QED
    BY <2>1, <2>2 DEF Exact
<1>8. /\ DOMAIN e = DOMAIN eng[st] /\ e.next = eng[st].next /\ e.starting = eng[st].starting
      /\ e.leaving = eng[st].leaving /\ DOMAIN e.workers = DOMAIN eng[st].workers
      /\ \A j \in DOMAIN e.workers : j # i => e.workers[j] = eng[st].workers[j]
      /\ DOMAIN e.workers[i] = DOMAIN eng[st].workers[i] /\ e.workers[i].core = core
  BY <1>4 DEF EngineRecord
<1> HIDE DEF e
<1>9. EngineRecord(e)
  BY <1>4, <1>8 DEF EngineRecord
<1>10. /\ Outcomes(set) /\ \A r : Last(r) \in set <=> r \in over
       /\ IsFiniteSet(over) /\ Cardinality(over) \in Nat /\ Done(set) = Cardinality(over)
  <2>1. IsFiniteSet(S)
    BY <1>7, FS_Subset
  <2> QED
    BY <2>1, PassSignals
<1>11. ASSUME NEW r \in S PROVE <<st, i>> \in CoresIn(eng, r)
  <2>1. <<st, i>> \in Active \X Nat /\ <<st, i>>[1] = st /\ <<st, i>>[2] = i /\ r \in DOMAIN eng[st].workers[i].core
    BY <1>4
  <2> QED
    BY <2>1, Zenon DEF CoresIn
<1>12. ASSUME NEW u \in set, ~u.done PROVE u.r \notin over /\ <<st, i>> \in CoresIn(eng, u.r)
  <2>1. PICK r \in S : u = Emits(w.core, r)
    OBVIOUS
  <2>2. u.r = r /\ w.core[r] # 1
    BY <1>12, <2>1, Emitted
  <2> QED
    BY <1>11, <2>2
<1>13. ASSUME NEW r \in over PROVE CoresIn(eng, r) = {<<st, i>>}
  <2>1. <<st, i>> \in CoresIn(eng, r)
    BY <1>11
  <2>2. Place(r)
    BY DEF OnePlaceInv, PlaceInv
  <2>3. One(CoresIn(eng, r))
    BY <2>1, <2>2, Zenon DEF Place, Whole
  <2> QED
    BY <2>1, <2>3 DEF One
<1>14. i \in Nat /\ i \in DOMAIN eng[st].workers /\ over \subseteq DOMAIN eng[st].workers[i].core
  BY <1>4, <1>6
<1> HIDE DEF set, over
<1>15. Leave(eng, eng', st, i, over) => Driven(st, i, set, over)
  <2>1. ASSUME Leave(eng, eng', st, i, over)
        PROVE  \A r : CoresIn(eng', r) = CoresIn(eng, r) \ (IF r \in over THEN {<<st, i>>} ELSE {})
    BY <1>14, <2>1, CoresLeft
  <2>2. \A u \in set : ~u.done => u.r \notin over /\ <<st, i>> \in CoresIn(eng, u.r)
    BY <1>12, Zenon
  <2>3. \A r \in over : CoresIn(eng, r) = {<<st, i>>}
    BY <1>13, Zenon
  <2> QED
    BY <1>6, <1>7, <1>10, <1>14, <2>1, <2>2, <2>3 DEF Driven
<1>16. CASE d # 0
  <2>1. eng'[st] = e /\ events' = Pushed(events, y) /\ work' = work /\ \A a \in Active : a # st => eng'[a] = eng[a]
    BY <1>3, <1>4, <1>16
  <2>2. Leave(eng, eng', st, i, over)
    <3>1. DOMAIN eng'[st].workers[i].core = DOMAIN eng[st].workers[i].core \ over
      BY <1>6, <1>8, <2>1
    <3>2. \A a \in Active : \A j \in DOMAIN eng'[a].workers :
              /\ j \in DOMAIN eng[a].workers
              /\ <<a, j>> # <<st, i>> => eng'[a].workers[j].core = eng[a].workers[j].core
      BY <1>8, <2>1
    <3>3. \A a \in Active : \A j \in DOMAIN eng[a].workers : j \notin DOMAIN eng'[a].workers =>
              /\ <<a, j>> # <<st, i>> => DOMAIN eng[a].workers[j].core = {}
              /\ <<a, j>> = <<st, i>> => DOMAIN eng[a].workers[j].core \subseteq over
      BY <1>8, <2>1
    <3> QED
      BY <1>14, <3>1, <3>2, <3>3, Zenon DEF Leave
  <2>3. Entries(events') = Entries(events) \cup {y}
    BY <1>4, <2>1, PushedEntries
  <2> QED
    BY <1>5, <1>15, <2>1, <2>2, <2>3, Zenon
<1>17. CASE d = 0
  <2> DEFINE n == Cardinality(over)  f == Completed(e, i, n)  v == f.workers[i]  u == e.workers[i]
  <2>1. eng'[st] = f /\ events' = events /\ work' = <<x>> /\ \A a \in Active : a # st => eng'[a] = eng[a]
    BY <1>3, <1>4, <1>17
  <2>2. /\ DOMAIN f.workers \subseteq DOMAIN e.workers
        /\ \A j \in DOMAIN f.workers : j # i => f.workers[j] = e.workers[j]
        /\ i \in DOMAIN f.workers => v.core = core
        /\ \A j \in DOMAIN e.workers \ DOMAIN f.workers : DOMAIN e.workers[j].core = {}
    <3>1. i \in DOMAIN e.workers
      BY <1>8
    <3>2. /\ DOMAIN f.workers \subseteq DOMAIN e.workers /\ f.starting = e.starting
          /\ \A j \in DOMAIN f.workers : j # i => f.workers[j] = e.workers[j]
          /\ i \in DOMAIN f.workers =>
               /\ ~v.busy /\ v.core = u.core
               /\ v.in_flight = IF u.in_flight < n THEN 0 ELSE u.in_flight - n
          /\ \A j \in DOMAIN e.workers \ DOMAIN f.workers :
               /\ DOMAIN e.workers[j].core = {} /\ j \in e.leaving /\ (j # i => ~e.workers[j].busy)
      BY <1>9, <3>1, CompletedWorkers, Zenon
    <3> HIDE DEF f, n
    <3> QED
      BY <1>8, <3>2
  <2> HIDE DEF f
  <2>3. Leave(eng, eng', st, i, over)
    <3>1. i \in DOMAIN eng'[st].workers => DOMAIN eng'[st].workers[i].core = DOMAIN eng[st].workers[i].core \ over
      BY <1>6, <2>1, <2>2
    <3>2. \A a \in Active : \A j \in DOMAIN eng'[a].workers :
              /\ j \in DOMAIN eng[a].workers
              /\ <<a, j>> # <<st, i>> => eng'[a].workers[j].core = eng[a].workers[j].core
      BY <1>8, <2>1, <2>2
    <3>3. ASSUME NEW a \in Active, NEW j \in DOMAIN eng[a].workers, j \notin DOMAIN eng'[a].workers
          PROVE  /\ <<a, j>> # <<st, i>> => DOMAIN eng[a].workers[j].core = {}
                 /\ <<a, j>> = <<st, i>> => DOMAIN eng[a].workers[j].core \subseteq over
      <4>1. a = st /\ j \in DOMAIN e.workers \ DOMAIN f.workers
        BY <1>8, <2>1, <3>3
      <4>2. DOMAIN e.workers[j].core = {}
        BY <2>2, <4>1
      <4>3. CASE j = i
        BY <1>6, <1>8, <4>1, <4>2, <4>3
      <4>4. CASE j # i
        BY <1>8, <4>1, <4>2, <4>4
      <4> QED
        BY <4>3, <4>4
    <3> QED
      BY <1>14, <3>1, <3>2, <3>3, Zenon DEF Leave
  <2>4. Entries(work') = {x}
    BY <2>1, SingleHit
  <2> QED
    BY <1>5, <1>15, <2>1, <2>3, <2>4, Zenon
<1> QED
  BY <1>16, <1>17

\* What a pass ends is still served by its stage, and who is not at its end is still in the core.
LEMMA DriveError ==
    ASSUME ErrorInv, OnePlaceInv', NEW st \in Active, work = <<>>, Drive(st)
    PROVE  ErrorInv'
<1>1. OnePlaceInv /\ TimeInv /\ EngineInv /\ KnownInv /\ Listed(events)
  BY DEF ErrorInv, OnePlaceInv, ReplayInv
<1>2. PICK i, set, over :
        /\ Driven(st, i, set, over)
        /\ \/ work' = work /\ \E y : Scheduling(y, st, i, set) /\ Entries(events') = Entries(events) \cup {y}
           \/ events' = events /\ \E x : Emitting(x, st, set) /\ Entries(work') = {x}
  BY <1>1, DriveMoves
<1>3. /\ UNCHANGED <<conf, driverVars, requests>> /\ UNCHANGED <<conf, now, ready, rt>>
      /\ pc' # "failed" /\ changed' = TRUE
  BY DEF Drive, driverVars, ErrorInv
<1>4. Entries(work) = {}
  BY NoEntries
<1>5. \A e \in Entries(events) : e.kind = "completion" => <<e.st, e.worker>> # <<st, i>>
  <2>1. ASSUME NEW e \in Entries(events), e.kind = "completion", e.st = st, e.worker = i PROVE FALSE
    <3>1. PICK k \in DOMAIN events : events[k] = e
      BY DEF Entries
    <3>2. k \in Coming(events, st, i)
      BY <2>1, <3>1 DEF Coming, Completes
    <3> QED
      BY <1>2, <3>2 DEF Driven
  <2> QED
    BY <2>1
<1>6. ASSUME NEW r, NEW p \in CoresIn(eng, r), p # <<st, i>> \/ r \notin over PROVE p \in CoresIn(eng', r)
  BY <1>2, <1>6 DEF Driven
<1>7. ASSUME NEW e \in Entries(events), e.kind = "completion"
      PROVE  e.signals # {} /\ \A u \in e.signals : ~u.done => <<e.st, e.worker>> \in CoresIn(eng', u.r)
  <2>1. e.signals # {} /\ \A u \in e.signals : ~u.done => <<e.st, e.worker>> \in CoresIn(eng, u.r)
    BY <1>7 DEF ErrorInv, Reports
  <2> QED
    BY <1>5, <1>6, <1>7, <2>1
<1>8. set # {} /\ \A u \in set : ~u.done => <<st, i>> \in CoresIn(eng', u.r)
  BY <1>2, <1>6 DEF Driven
<1>9. ASSUME NEW a, NEW z PROVE Has(eng, a, z) <=> Has(eng', a, z) \/ (z \in over /\ a = st)
  <2>1. CASE z \in over
    <3>1. CoresIn(eng, z) = {<<st, i>>} /\ CoresIn(eng', z) = {} /\ i \in Nat
      BY <1>2, <2>1 DEF Driven
    <3> QED
      BY <2>1, <3>1 DEF Has
  <2>2. CASE z \notin over
    <3>1. CoresIn(eng', z) = CoresIn(eng, z)
      BY <1>2, <2>2 DEF Driven
    <3> QED
      BY <2>2, <3>1 DEF Has
  <2> QED
    BY <2>1, <2>2
<1>10. \A r : Last(r) \in set <=> r \in over
  BY <1>2 DEF Driven
<1>11. ASSUME TimeInv', Reports(eng', events'), Reported(eng', work'),
              \A a, z : (Ending(events', a, z) \/ Ended(work', a, z)) <=>
                        (Ending(events, a, z) \/ Ended(work, a, z) \/ (z \in over /\ a = st)),
              \A z : Handed(events, work, z) => Handed(events', work', z)
       PROVE  ErrorInv'
  <2>1. \A a \in Active : \A z : Served(eng', events', work', a, z) <=> Served(eng, events, work, a, z)
    BY <1>9, <1>11, Zenon DEF Served
  <2>2. Steady(rt, rt') /\ Queues(rt', work')
    BY <1>3, <1>4 DEF Steady, ErrorInv, Queues
  <2>3. SameActive
    BY <1>1, DriveSame
  <2>4. ActiveInv' /\ ReleaseInv'
    BY <1>3, <2>3, ActiveKept, ReleaseFree DEF ErrorInv
  <2> QED
    BY <1>3, <1>11, <2>1, <2>2, <2>4, PassError
<1>12. ASSUME work' = work, NEW y, Scheduling(y, st, i, set), Entries(events') = Entries(events) \cup {y}
       PROVE  ErrorInv'
  <2>1. y.kind = "completion" /\ y.st = st /\ y.worker = i /\ y.signals = set /\ Timed(y)
    BY <1>12 DEF Scheduling
  <2>2. TimeInv'
    BY <1>1, <1>3, <1>12, <2>1, TimeKept
  <2>3. Reports(eng', events')
    BY <1>7, <1>8, <1>12, <2>1 DEF Reports
  <2>4. Reported(eng', work')
    BY <1>4, <1>12 DEF Reported
  <2>5. \A a, z : (Ending(events', a, z) \/ Ended(work', a, z)) <=>
                  (Ending(events, a, z) \/ Ended(work, a, z) \/ (z \in over /\ a = st))
    <3>1. \A a, z : Ending(events', a, z) <=> Ending(events, a, z) \/ (z \in over /\ a = st)
      BY <1>10, <1>12, <2>1 DEF Ending
    <3>2. \A a, z : Ended(work', a, z) <=> Ended(work, a, z)
      BY <1>12
    <3> HIDE DEF Ending, Ended
    <3> QED
      BY <3>1, <3>2
  <2>6. \A z : Handed(events, work, z) => Handed(events', work', z)
    BY <1>12 DEF Handed, Passed, Passing
  <2> QED
    BY <1>11, <2>2, <2>3, <2>4, <2>5, <2>6
<1>13. ASSUME events' = events, NEW x, Emitting(x, st, set), Entries(work') = {x}
       PROVE  ErrorInv'
  <2>1. x.op = "signals" /\ x.st = st /\ x.set = set
    BY <1>13 DEF Emitting
  <2>2. TimeInv'
    BY <1>1, <1>3, <1>13, TimeKept
  <2>3. Reports(eng', events')
    BY <1>7, <1>13 DEF Reports
  <2>4. Reported(eng', work')
    <3>1. \A u \in set : ~u.done => Has(eng', st, u.r)
      BY <1>8, CoreHas
    <3> QED
      BY <1>13, <2>1, <3>1 DEF Reported
  <2>5. \A a, z : (Ending(events', a, z) \/ Ended(work', a, z)) <=>
                  (Ending(events, a, z) \/ Ended(work, a, z) \/ (z \in over /\ a = st))
    <3>1. \A a, z : Ended(work', a, z) <=> z \in over /\ a = st
      BY <1>10, <1>13, <2>1 DEF Ended
    <3>2. \A a, z : ~Ended(work, a, z)
      BY <1>4 DEF Ended
    <3>3. \A a, z : Ending(events', a, z) <=> Ending(events, a, z)
      BY <1>13
    <3> QED
      BY <3>1, <3>2, <3>3, Zenon
  <2>6. \A z : Handed(events, work, z) => Handed(events', work', z)
    BY <1>4, <1>13 DEF Handed, Passed, Passing
  <2> QED
    BY <1>11, <2>2, <2>3, <2>4, <2>5, <2>6
<1> QED
  BY <1>2, <1>12, <1>13

-----------------------------------------------------------------------------
(* Scaling                                                                    *)

\* All but the least one are above it.
LEMMA Above ==
    ASSUME NEW S \in SUBSET Nat, IsFiniteSet(S), NEW x \in S
    PROVE  LET up == {j \in S : j > x}  lo == {j \in S : j < x} IN
           /\ IsFiniteSet(up) /\ Cardinality(up) \in Nat /\ Cardinality(lo) \in Nat /\ Cardinality(S) \in Nat
           /\ Cardinality(S) = Cardinality(lo) + Cardinality(up) + 1
<1> DEFINE up == {j \in S : j > x}  lo == {j \in S : j < x}
<1>1. IsFiniteSet(up) /\ IsFiniteSet(lo) /\ Cardinality(up) \in Nat /\ Cardinality(lo) \in Nat
  BY FS_Subset, FS_CardinalityType
<1>2. S = (lo \cup up) \cup {x} /\ lo \cap up = {} /\ x \notin lo \cup up
  <2>1. \A y \in S : y < x \/ y > x \/ y = x
    OBVIOUS
  <2>2. \A y \in S : ~(y < x /\ y > x) /\ ~(x < x) /\ ~(x > x)
    OBVIOUS
  <2> QED
    BY <2>1, <2>2, Zenon
<1> HIDE DEF up, lo
<1>3. IsFiniteSet(lo \cup up) /\ Cardinality(lo \cup up) = Cardinality(lo) + Cardinality(up) - Cardinality(lo \cap up)
  BY <1>1, FS_Union
<1>4. Cardinality(lo \cap up) = 0
  BY <1>2, FS_EmptySet
<1>5. Cardinality((lo \cup up) \cup {x}) = Cardinality(lo \cup up) + 1
  BY <1>2, <1>3, FS_AddElement
<1>6. Cardinality(S) = Cardinality(lo) + Cardinality(up) + 1
  BY <1>1, <1>2, <1>3, <1>4, <1>5
<1> QED
  BY <1>1, <1>6, FS_CardinalityType DEF up, lo

\* The n largest are n, or all.
LEMMA LargestCount ==
    ASSUME NEW S \in SUBSET Nat, IsFiniteSet(S), NEW n \in Nat
    PROVE  /\ Cardinality(Largest(S, n)) \in Nat /\ Cardinality(S) \in Nat
           /\ n < Cardinality(S) => Cardinality(Largest(S, n)) >= n /\ Largest(S, n) # S
           /\ n >= Cardinality(S) => Cardinality(Largest(S, n)) = Cardinality(S)
<1> DEFINE T == Largest(S, n)
<1>1. T \subseteq S
  BY DEF Largest
<1>2. IsFiniteSet(T) /\ Cardinality(T) \in Nat /\ Cardinality(S) \in Nat
  BY <1>1, FS_Subset, FS_CardinalityType
<1>3. ASSUME n < Cardinality(S) PROVE Cardinality(T) >= n /\ T # S
  <2> DEFINE k == Cardinality(S) - 1 - n
  <2>1. k \in Nat /\ k < Cardinality(S)
    BY <1>2, <1>3
  <2>2. PICK x \in S : Cardinality({y \in S : y < x}) = k
    <3> HIDE DEF k
    <3> QED
      BY <2>1, Rank
  <2> DEFINE up == {j \in S : j > x}
  <2>3. IsFiniteSet(up) /\ Cardinality(up) = n /\ x \notin up
    <3>1. /\ IsFiniteSet(up) /\ Cardinality(up) \in Nat
          /\ Cardinality(S) = Cardinality({y \in S : y < x}) + Cardinality(up) + 1
      BY Above
    <3> QED
      BY <1>2, <2>2, <3>1
  <2>4. x \notin T
    BY <2>3 DEF Largest
  <2>5. ASSUME NEW j \in up PROVE j \in T
    <3> DEFINE more == {z \in S : z > j}
    <3>1. more \subseteq up /\ j \notin more /\ j \in S /\ j \in Nat
      <4>1. j \in S /\ j > x
        OBVIOUS
      <4>2. ~(j > j) /\ \A z \in S : z > j => z > x
        BY <4>1
      <4> QED
        BY <4>1, <4>2, Zenon
    <3>2. IsFiniteSet(more) /\ Cardinality(more) <= Cardinality(up) /\ Cardinality(more) \in Nat
          /\ (Cardinality(more) = Cardinality(up) => more = up)
      <4> HIDE DEF more, up
      <4> QED
        BY <2>3, <3>1, FS_Subset, FS_CardinalityType
    <3>3. Cardinality(more) < n
      BY <2>3, <3>1, <3>2
    <3> QED
      BY <3>1, <3>3 DEF Largest
  <2>6. up \subseteq T
    BY <2>5
  <2> HIDE DEF up, T
  <2>7. Cardinality(up) <= Cardinality(T)
    BY <1>2, <2>6, FS_Subset
  <2> QED
    BY <1>2, <2>3, <2>4, <2>7
<1>4. ASSUME n >= Cardinality(S) PROVE T = S
  <2>1. ASSUME NEW x \in S PROVE x \in T
    <3> DEFINE up == {j \in S : j > x}
    <3>1. /\ Cardinality(up) \in Nat /\ Cardinality({y \in S : y < x}) \in Nat
          /\ Cardinality(S) = Cardinality({y \in S : y < x}) + Cardinality(up) + 1
      BY Above
    <3>2. Cardinality(up) < n
      BY <1>2, <1>4, <3>1
    <3> QED
      BY <3>2 DEF Largest
  <2> QED
    BY <1>1, <2>1
<1> QED
  BY <1>2, <1>3, <1>4

\* apply_target_count leaves a worker active, if it is asked for one.
LEMMA TargetActive ==
    ASSUME NEW e, NEW target \in Nat \ {0}, EngineRecord(e), conf \in Configs, ActiveIds(e) # {}
    PROVE  ActiveIds(ApplyTarget(e, target).e) # {}
<1> DEFINE A         == ActiveIds(e)
           S         == e.starting
           effective == Cardinality(A) + Cardinality(S)
           excess    == IF target < effective THEN effective - target ELSE 0
           cancelled == Largest(S, excess)
           m         == excess - Cardinality(cancelled)
           to        == ApplyTarget(e, target)
<1>1. to.marked = Largest(A, m)
  BY DEF ApplyTarget
<1>2. ActiveIds(to.e) = (A \cup (IF conf.startup = 0 THEN to.added ELSE {})) \ to.marked
  BY TargetKeeps
<1>3. IsFiniteSet(A) /\ IsFiniteSet(S) /\ A \in SUBSET Nat /\ S \in SUBSET Nat
  <2>1. 0 \in Int /\ e.next - 1 \in Int
    BY DEF EngineRecord
  <2>2. IsFiniteSet(0..(e.next - 1))
    BY <2>1, FS_Interval
  <2>3. A \subseteq 0..(e.next - 1) /\ S \subseteq 0..(e.next - 1)
    BY DEF EngineRecord, ActiveIds
  <2>4. \A z \in 0..(e.next - 1) : z \in Nat
    BY <2>1
  <2>5. IsFiniteSet(A) /\ IsFiniteSet(S)
    BY <2>2, <2>3, FS_Subset
  <2> QED
    BY <2>3, <2>4, <2>5, Zenon
<1>4. Cardinality(A) \in Nat \ {0} /\ Cardinality(S) \in Nat
  BY <1>3, FS_CardinalityType, FS_EmptySet
<1> HIDE DEF to, A, S
<1>5. excess \in Nat /\ (excess = 0 \/ excess < effective)
  BY <1>4
<1>6. /\ Cardinality(cancelled) \in Nat
      /\ excess < Cardinality(S) => Cardinality(cancelled) >= excess
      /\ excess >= Cardinality(S) => Cardinality(cancelled) = Cardinality(S)
  <2> HIDE DEF excess
  <2> QED
    BY <1>3, <1>5, LargestCount
<1>7. m \in Int /\ m < Cardinality(A)
  <2> HIDE DEF excess, cancelled
  <2> QED
    BY <1>4, <1>5, <1>6
<1> HIDE DEF m
<1>8. Largest(A, m) # A
  <2>1. CASE m \in Nat
    BY <1>3, <1>7, <2>1, LargestCount
  <2>2. CASE m \notin Nat
    <3>1. ASSUME NEW x \in A PROVE x \notin Largest(A, m)
      <4>1. Cardinality({j \in A : j > x}) \in Nat
        BY <1>3, Above
      <4> QED
        BY <1>7, <2>2, <4>1 DEF Largest
    <3> QED
      BY <1>4, <3>1, FS_EmptySet
  <2> QED
    BY <2>1, <2>2
<1>9. Largest(A, m) \subseteq A
  BY DEF Largest
<1> QED
  BY <1>1, <1>2, <1>8, <1>9 DEF to

\* The events of workers that start.
LEMMA StartEntries ==
    ASSUME NEW q, Listed(q), NEW n \in Nat, NEW st, now \in Nat, conf \in Configs
    PROVE  LET f == StartEvents(q, st, n) IN
           /\ Listed(f) /\ Entries(q) \subseteq Entries(f)
           /\ \A x \in Entries(f) : x \in Entries(q) \/ (x.kind = "ready" /\ x.at \in Nat)
<1> DEFINE f  == StartEvents(q, st, n)
           at == now + conf.startup
           xs == [k \in 1..n |-> Started(at, st, eng[st].next + k - 1)]
           ahead == {i \in DOMAIN q : q[i].at <= at}
<1>1. CASE conf.startup = 0
  <2>1. f = q
    BY <1>1 DEF StartEvents
  <2> QED
    BY <2>1
<1>2. CASE conf.startup # 0
  <2>1. f = Inserted(q, xs, ahead)
    BY <1>2 DEF StartEvents
  <2>2. at \in Nat
    BY ReplayAssumption
  <2> HIDE DEF at
  <2>3. \A x \in Entries(xs) : x.kind = "ready" /\ x.at = at
    BY DEF Entries, Started
  <2>4. Listed(xs)
    <3>1. xs \in [1..n -> Entries(xs)]
      BY DEF Entries
    <3>2. xs \in Seq(Entries(xs))
      <4> HIDE DEF xs
      <4> QED
        BY <3>1, SeqDef
    <3> QED
      BY <3>2 DEF Listed
  <2>5. ahead \subseteq DOMAIN q
    OBVIOUS
  <2> HIDE DEF xs, ahead, f
  <2>6. Listed(f) /\ Entries(f) = Entries(q) \cup Entries(xs)
    BY <2>1, <2>4, <2>5, InsertedEntries
  <2> QED
    BY <2>2, <2>3, <2>6 DEF f
<1> QED
  BY <1>1, <1>2

\* apply_scaling: every queue is looked at, and the workers that start are heard of later.
LEMMA ScalingError ==
    ASSUME ErrorInv, OnePlaceInv', ApplyScaling
    PROVE  ErrorInv'
<1>1. PICK target \in [Active -> Targets] :
        LET to == [st \in Active |-> ApplyTarget(eng[st], target[st])] IN
        /\ eng' = [st \in Active |-> to[st].e]
        /\ rt' = [st \in Active |-> [rt[st] EXCEPT !.known =
                     (rt[st].known \cup (IF conf.startup = 0 THEN to[st].added ELSE {})) \ to[st].marked]]
        /\ IF conf.kind = "agg" THEN ScaleAgg(to) ELSE ScaleDisagg(to)
  BY DEF ApplyScaling
<1>2. /\ UNCHANGED <<conf, now, ready>> /\ UNCHANGED <<conf, driverVars, requests>>
      /\ work = <<>> /\ pc' = "completions"
  BY DEF ApplyScaling, driverVars, At
<1>3. /\ OnePlaceInv /\ conf \in Configs /\ now \in Nat /\ Listed(events) /\ ActiveInv
      /\ \A st \in Active : EngineRecord(eng[st]) /\ DOMAIN rt[st] = {"known", "pending", "slots", "heavy"}
  BY DEF ErrorInv, OnePlaceInv, ReplayInv, RoundInv, EngineInv, KnownInv, TimeInv
<1> DEFINE to == [st \in Active |-> ApplyTarget(eng[st], target[st])]
           n(st) == Cardinality(to[st].added)
<1>4. \A st \in Active : eng'[st] = ApplyTarget(eng[st], target[st]).e
  BY <1>1
<1>5. \A st \in Active : target[st] \in Nat \ {0}
  BY ReplayAssumption
<1>6. \A st \in Active : /\ rt'[st].pending = rt[st].pending /\ rt'[st].slots = rt[st].slots
                         /\ rt'[st].heavy = rt[st].heavy
  BY <1>1, <1>3
<1>7. \A r : CoresIn(eng', r) = CoresIn(eng, r)
  BY <1>3, <1>4, ScaledWorkers
<1>8. \A st \in Active : n(st) \in Nat
  <2>1. ASSUME NEW st \in Active PROVE Cardinality(ApplyTarget(eng[st], target[st]).added) \in Nat
    <3>1. target[st] \in Nat
      BY <1>5
    <3> QED
      BY <1>3, <3>1, AddedCount
  <2> QED
    BY <2>1
<1>9. IF conf.kind = "agg" THEN ScaleAgg(to) ELSE ScaleDisagg(to)
  BY <1>1
<1> HIDE DEF to
<1>10. /\ Entries(events) \subseteq Entries(events')
       /\ \A x \in Entries(events') : x \in Entries(events) \/ (x.kind = "ready" /\ x.at \in Nat)
       /\ \A y \in Entries(work') : y.op = "drain"
       /\ conf.router = "queue" => \A st \in Active : \E y \in Entries(work') : y.op = "drain" /\ y.st = st
  <2>1. CASE conf.kind = "agg"
    <3>1. Active = {"Aggregated"}
      BY <2>1 DEF Active
    <3>2. events' = StartEvents(events, "Aggregated", n("Aggregated")) /\ work' = DrainOf("Aggregated")
      BY <1>9, <2>1 DEF ScaleAgg
    <3>3. n("Aggregated") \in Nat
      BY <1>8, <3>1
    <3> HIDE DEF n
    <3>4. /\ Entries(events) \subseteq Entries(events')
          /\ \A x \in Entries(events') : x \in Entries(events) \/ (x.kind = "ready" /\ x.at \in Nat)
      BY <1>3, <3>2, <3>3, StartEntries
    <3> QED
      BY <3>1, <3>2, <3>4, DrainOps
  <2>2. CASE conf.kind # "agg"
    <3>1. Active = {"Prefill", "Decode"}
      BY <2>2 DEF Active
    <3> DEFINE q == StartEvents(events, "Prefill", n("Prefill"))  a == DrainOf("Prefill")  b == DrainOf("Decode")
    <3>2. events' = StartEvents(q, "Decode", n("Decode")) /\ work' = a \o b
      BY <1>9, <2>2 DEF ScaleDisagg
    <3>3. n("Prefill") \in Nat /\ n("Decode") \in Nat
      BY <1>8, <3>1
    <3> HIDE DEF n
    <3>4. /\ Listed(q) /\ Entries(events) \subseteq Entries(q)
          /\ \A x \in Entries(q) : x \in Entries(events) \/ (x.kind = "ready" /\ x.at \in Nat)
      BY <1>3, <3>3, StartEntries
    <3> HIDE DEF q
    <3>5. /\ Entries(q) \subseteq Entries(events')
          /\ \A x \in Entries(events') : x \in Entries(q) \/ (x.kind = "ready" /\ x.at \in Nat)
      BY <1>3, <3>2, <3>3, <3>4, StartEntries
    <3>6. /\ Listed(a) /\ Listed(b) /\ \A y \in Entries(a) \cup Entries(b) : y.op = "drain"
          /\ conf.router = "none" \/ \E y \in Entries(a) : y.op = "drain" /\ y.st = "Prefill"
          /\ conf.router = "none" \/ \E y \in Entries(b) : y.op = "drain" /\ y.st = "Decode"
      BY DrainOps
    <3> HIDE DEF a, b
    <3>7. Entries(work') = Entries(a) \cup Entries(b)
      BY <3>2, <3>6, ConcatEntries
    <3>8. ASSUME conf.router = "queue", NEW st \in Active PROVE \E y \in Entries(work') : y.op = "drain" /\ y.st = st
      <4>1. conf.router # "none" /\ (st = "Prefill" \/ st = "Decode")
        BY <3>1, <3>8
      <4> QED
        BY <3>6, <3>7, <4>1
    <3> QED
      BY <3>4, <3>5, <3>6, <3>7, <3>8
  <2> QED
    BY <2>1, <2>2
<1>11. Entries(work) = {}
  BY <1>2, NoEntries
<1>12. Queues(rt', work')
  <2>1. \A st \in Active : rt[st].pending # {} => conf.router = "queue"
    BY DEF ErrorInv, Queues
  <2> QED
    BY <1>6, <1>10, <2>1 DEF Queues
<1>13. ActiveInv'
  <2>1. ASSUME NEW st \in Active PROVE ActiveIds(eng'[st]) # {}
    BY <1>3, <1>4, <1>5, TargetActive DEF ActiveInv
  <2>2. Active' = Active
    BY <1>2, SameStages
  <2>3. ActiveInv' = \A st \in Active' : ActiveIds(eng'[st]) # {}
    BY Zenon DEF ActiveInv, ActiveIds
  <2> QED
    BY <2>1, <2>2, <2>3
<1>14. TimeInv'
  BY <1>2, <1>10, TimeKept DEF ErrorInv, Timed
<1>15. ReleaseInv'
  BY <1>2, ReleaseFree
<1>16. Steady(rt, rt')
  BY <1>6 DEF Steady
<1>17. \A z : Handed(events, work, z) => Handed(events', work', z)
  BY <1>10, <1>11 DEF Handed, Passed, Passing
<1>18. /\ \A x \in Entries(events') : x \in Entries(events) \/ x.kind # "completion"
       /\ \A x \in Entries(events) : x \in Entries(events') \/ x.kind # "completion"
       /\ \A y \in Entries(work') : y \in Entries(work) \/ y.op # "signals"
       /\ \A y \in Entries(work) : y \in Entries(work') \/ y.op # "signals"
  BY <1>10, <1>11
<1>19. pc' # "failed"
  BY <1>2
<1> QED
  BY <1>2, <1>7, <1>12, <1>13, <1>14, <1>15, <1>16, <1>17, <1>18, <1>19, StillError

-----------------------------------------------------------------------------
(* The phases and the clock                                                   *)

\* Only the clock, the phase or nothing changes.
LEMMA FrozenError ==
    ASSUME ErrorInv, OnePlaceInv', UNCHANGED <<conf, driverVars, requests, eng, rt, events, work>>, pc' # "failed",
           ReleaseInv', TimeInv'
    PROVE  ErrorInv'
<1>1. UNCHANGED <<conf, driverVars, requests>> /\ eng' = eng /\ rt' = rt /\ events' = events /\ work' = work
  OBVIOUS
<1>2. ActiveInv'
  <2>1. Active' = Active
    BY <1>1, SameStages
  <2> QED
    BY <1>1, <2>1 DEF ErrorInv, ActiveInv, ActiveIds
<1>3. (\A z : CoresIn(eng', z) = CoresIn(eng, z)) /\ (\A z : Handed(events, work, z) => Handed(events', work', z))
  BY <1>1
<1>4. Steady(rt, rt') /\ Queues(rt', work')
  BY <1>1 DEF Steady, ErrorInv
<1>5. Entries(events') = Entries(events) /\ Entries(work') = Entries(work)
  BY <1>1
<1> QED
  BY <1>1, <1>2, <1>3, <1>4, <1>5, StillError

\* What may be released depends on the queue, the clock and what is in flight.
LEMMA ReleaseSame ==
    ASSUME UNCHANGED <<conf, now, ready, eng, rt>>
    PROVE  MayRelease' <=> MayRelease
<1>1. ClusterInFlight' = ClusterInFlight
  BY DEF ClusterInFlight, StageInFlight, InFlight, Active, MapThenSumSet, MapThenFoldSet
<1> QED
  BY <1>1 DEF MayRelease

\* The phases of the round follow each other, and the round begins again or is over.
LEMMA PhaseError ==
    ASSUME ErrorInv, OnePlaceInv', NextPhase \/ NextRound \/ Stop \/ UNCHANGED vars
    PROVE  ErrorInv'
<1>1. /\ UNCHANGED <<conf, driverVars, requests, eng, rt, events, work>> /\ UNCHANGED <<conf, now, ready, eng, rt>>
      /\ UNCHANGED <<conf, now, ready, events>>
  BY DEF NextPhase, NextRound, Stop, Goto, vars, clockVars, driverVars
<1>2. MayRelease' <=> MayRelease
  BY <1>1, ReleaseSame
<1>3. TimeInv'
  BY <1>1, TimeKept DEF ErrorInv
<1>4. conf.kind \in {"agg", "disagg"} /\ (pc = "decode" \/ pc = "handoffs" => conf.kind = "disagg")
  BY ReplayAssumption DEF ErrorInv, OnePlaceInv, ReplayInv, RoundInv
<1>5. ReleaseInv' /\ pc' # "failed"
  <2>1. CASE NextPhase
    <3>1. CASE \/ At("completions") /\ Goto(After("completions"))
               \/ At("ready") /\ Goto(After("ready"))
               \/ At("handoffs") /\ Goto(After("handoffs"))
      BY <1>4, <3>1, Following, ReleaseFree DEF At, Goto
    <3>2. CASE At("arrivals") /\ ~MayRelease /\ Goto(After("arrivals"))
      BY <1>2, <1>4, <3>2, Following DEF At, Goto, ReleaseInv
    <3>3. CASE \/ At("drive") /\ Goto(After("drive"))
               \/ At("decode") /\ Goto(After("decode"))
      BY <1>2, <1>4, <3>3, Following DEF At, Goto, ReleaseInv, ErrorInv
    <3> QED
      BY <2>1, <3>1, <3>2, <3>3 DEF NextPhase
  <2>2. CASE NextRound
    BY <1>2, <2>2 DEF NextRound, At, ReleaseInv, ErrorInv
  <2>3. CASE Stop
    BY <2>3, ReleaseFree DEF Stop, Goto
  <2>4. CASE UNCHANGED vars
    BY <1>2, <2>4 DEF vars, clockVars, ReleaseInv, ErrorInv
  <2> QED
    BY <2>1, <2>2, <2>3, <2>4
<1> QED
  BY <1>1, <1>3, <1>5, FrozenError

\* With no event to come and no idle worker that has work, nobody is in flight.
LEMMA NoneInFlight ==
    ASSUME ErrorInv, work = <<>>, events = <<>>, \A st \in Active : AllIdle(st)
    PROVE  /\ ClusterInFlight = 0 /\ EnginesDrained /\ \A r : ~Live(r)
<1>1. OnePlaceInv /\ IsFiniteSet(DOMAIN requests) /\ conf \in Configs /\ conf.threshold \in Nat
  BY ReplayAssumption DEF ErrorInv, OnePlaceInv, CapInv, ReplayInv, RoundInv
<1>2. Entries(work) = {} /\ Entries(events) = {} /\ DOMAIN events = {} /\ DOMAIN work = {}
  BY NoEntries, NoneEmpty
<1>3. ASSUME NEW st \in Active, NEW i \in DOMAIN eng[st].workers
      PROVE  Drained(eng[st].workers[i]) /\ DOMAIN eng[st].workers[i].core = {}
  <2> DEFINE w == eng[st].workers[i]
  <2>1. Exact(w, events, st, i)
    BY <1>1 DEF OnePlaceInv, Fit
  <2>2. Coming(events, st, i) = {}
    BY <1>2 DEF Coming
  <2>3. ~w.busy /\ w.in_flight = Cardinality(DOMAIN w.core)
    BY <2>1, <2>2 DEF Exact
  <2>4. w.core = <<>>
    BY <2>3 DEF AllIdle, IsReady
  <2>5. DOMAIN w.core = {} /\ Cardinality(DOMAIN w.core) = 0
    BY <2>4, NoneEmpty, FS_EmptySet
  <2> QED
    BY <2>3, <2>4, <2>5 DEF Drained
<1>4. \A r : CoresIn(eng, r) = {}
  BY <1>3 DEF CoresIn
<1>5. ASSUME NEW st \in Active PROVE rt[st].pending = {}
  <2>1. \A r : ~Served(eng, events, work, st, r)
    BY <1>2, <1>4 DEF Served, Has, Ending, Ended
  <2>2. rt[st].heavy = {}
    BY <2>1 DEF ErrorInv, Slots
  <2>3. \A i : Load(rt[st], i) = 0
    BY <2>2, FS_EmptySet DEF Load
  <2>4. ~AllWorkersBusy(rt[st])
    BY <1>1, <2>3 DEF AllWorkersBusy
  <2> QED
    BY <1>2, <2>4 DEF ErrorInv, Queues
<1>6. ClusterInFlight = 0
  <2>1. \A st \in Active : rt[st].pending = {} /\ \A i \in DOMAIN eng[st].workers : eng[st].workers[i].in_flight = 0
    BY <1>3, <1>5 DEF Drained
  <2> QED
    BY <1>1, <2>1, ClusterCounted
<1>7. ASSUME NEW r PROVE ~Live(r)
  <2>1. CoresIn(eng, r) = {} /\ QueuesIn(rt, r) = {} /\ HeapOf(events, r) = {} /\ HandOf(work, r) = {}
    BY <1>2, <1>4, <1>5 DEF QueuesIn, HeapOf, HandOf
  <2> QED
    BY <1>1, <2>1, Placement
<1> QED
  BY <1>3, <1>6, <1>7 DEF EnginesDrained

\* A session of a workload that neither waits nor is out is over.
LEMMA SessionsOver ==
    ASSUME ErrorInv, \A r : ~Live(r), ready = <<>>, NEW s \in DOMAIN Sessions
    PROVE  conf.source = "workload" => turn[s] > Len(Sessions[s].delays)
<1>1. /\ conf \in Configs /\ turn[s] \in Nat /\ turn[s] >= 1 /\ Len(Sessions[s].delays) \in Nat
      /\ SessionIn(ready, s) = {}
  <2>1. Entries(ready) = {}
    BY NoEntries
  <2> QED
    BY <2>1, SessionWaits, ReplayAssumption DEF ErrorInv, OnePlaceInv, ReplayInv, RoundInv, TurnInv, DriverInv
<1>2. ASSUME conf.source = "workload", ~(turn[s] > Len(Sessions[s].delays)) PROVE FALSE
  <2>1. turn[s] \in Turns(s)
    BY <1>1, <1>2, TurnNumbers
  <2>2. <<s, turn[s]>> \in DOMAIN requests
    BY <1>1, <2>1 DEF ErrorInv, DriverInv
  <2>3. <<s, turn[s]>>[1] = s /\ <<s, turn[s]>>[2] = turn[s]
    OBVIOUS
  <2>4. Live(<<s, turn[s]>>)
    BY <2>2, <2>3, Zenon DEF ErrorInv, DriverInv
  <2> QED
    BY <2>4
<1> QED
  BY <1>2

\* The dead end of advance_to: with neither an event nor an arrival, all is done.
LEMMA NoDeadEnd ==
    ASSUME ErrorInv, At("advance"), NextTimes = {}
    PROVE  IsDone
<1>1. /\ work = <<>> /\ ~changed /\ pc = "advance" /\ conf \in Configs /\ conf.cap \in Nat /\ \A st \in Active : AllIdle(st)
      /\ conf.source \in {"requests", "workload"}
  BY ReplayAssumption DEF At, ErrorInv, OnePlaceInv, ReplayInv, RoundInv
<1>2. events = <<>>
  BY DEF NextTimes, EventTimes
<1>3. /\ ClusterInFlight = 0 /\ EnginesDrained /\ \A r : ~Live(r)
  BY <1>1, <1>2, NoneInFlight
<1>4. conf.cap = 0 \/ conf.source = "workload" => ready = <<>>
  <2>1. conf.cap = 0 \/ (conf.source = "workload" /\ ClusterInFlight < conf.cap) => ready = <<>>
    BY DEF NextTimes
  <2>2. conf.cap = 0 \/ ClusterInFlight < conf.cap
    BY <1>1, <1>3
  <2> QED
    BY <2>1, <2>2
<1>5. CASE conf.source = "workload"
  <2>1. ready = <<>> /\ flying = {}
    BY <1>3, <1>4, <1>5 DEF ErrorInv, DriverInv
  <2>2. \A s \in DOMAIN Sessions : turn[s] > Len(Sessions[s].delays)
    BY <1>3, <1>5, <2>1, SessionsOver
  <2> QED
    BY <1>2, <1>3, <1>5, <2>1, <2>2 DEF IsDone, AdmissionDrained
<1>6. CASE conf.source = "requests"
  <2>1. ASSUME ready # <<>> PROVE FALSE
    <3>1. conf.cap > 0 /\ ClusterInFlight < conf.cap
      BY <1>1, <1>3, <1>4, <2>1
    <3>2. Listed(ready)
      BY DEF ErrorInv, OnePlaceInv, TurnInv
    <3>3. Head(ready) \in Entries(ready)
      BY <2>1, <3>2, TailEntries
    <3>4. Head(ready).at = 0 /\ now \in Nat
      BY <1>6, <3>1, <3>3 DEF ErrorInv, TimeInv
    <3>5. MayRelease
      BY <2>1, <3>1, <3>4 DEF MayRelease
    <3> QED
      BY <1>1, <3>5 DEF ErrorInv, ReleaseInv
  <2> QED
    BY <1>2, <1>3, <1>6, <2>1 DEF IsDone, AdmissionDrained
<1> QED
  BY <1>1, <1>5, <1>6

\* advance_to: the clock goes to the next event or arrival.
LEMMA AdvanceError ==
    ASSUME ErrorInv, OnePlaceInv', Advance
    PROVE  ErrorInv'
<1>1. At("advance") /\ ~IsDone
  BY DEF Advance
<1>2. NextTimes # {}
  BY <1>1, NoDeadEnd
<1>3. /\ now' = Min(NextTimes) /\ pc' = "completions"
      /\ UNCHANGED <<conf, changed, driverVars, requests, marked, eng, rr, rt, events, work, scalings>>
  BY <1>2, Zenon DEF Advance
<1>4. UNCHANGED <<conf, driverVars, requests, eng, rt, events, work>> /\ UNCHANGED <<conf, ready, events>>
  BY <1>3 DEF driverVars
<1>5. NextTimes \subseteq Nat
  <2>1. Listed(events) /\ Listed(ready)
    BY DEF ErrorInv, OnePlaceInv, TurnInv
  <2>2. events # <<>> => Head(events).at \in Nat
    <3>1. events # <<>> => Head(events) \in Entries(events)
      BY <2>1, TailEntries
    <3> QED
      BY <3>1 DEF ErrorInv, TimeInv, Timed
  <2>3. ready # <<>> => Head(ready).at \in Nat
    <3>1. ready # <<>> => Head(ready) \in Entries(ready)
      BY <2>1, TailEntries
    <3> QED
      BY <3>1 DEF ErrorInv, TimeInv
  <2> QED
    BY <2>2, <2>3 DEF NextTimes, EventTimes
<1>6. now' \in Nat
  <2>1. \E x \in NextTimes : \A y \in NextTimes : x <= y
    BY <1>2, <1>5, Least
  <2>2. Min(NextTimes) \in NextTimes
    BY <2>1 DEF Min
  <2> QED
    BY <1>3, <1>5, <2>2
<1>7. TimeInv'
  BY <1>4, <1>6 DEF ErrorInv, TimeInv, Entries, Timed
<1>8. ReleaseInv' /\ pc' # "failed"
  BY <1>3, ReleaseFree
<1> QED
  BY <1>4, <1>7, <1>8, FrozenError

-----------------------------------------------------------------------------
(* The invariant holds                                                        *)

\* At the start every session waits.
LEMMA AllWait ==
    ASSUME Init, NEW s \in DOMAIN Sessions
    PROVE  SessionIn(ready, s) # {}
<1> DEFINE D == DOMAIN Sessions  f == [i \in D |-> ready[i].s]
<1>1. ready \in [D -> {FirstTurn(a) : a \in D}] /\ TurnInv
  BY FirstTurns DEF Init
<1>2. \A a \in D : FirstTurn(a).s = a
  BY DEF FirstTurn
<1>3. f \in [D -> D]
  BY <1>1, <1>2
<1>4. ASSUME NEW i \in D, NEW j \in D, f[i] = f[j] PROVE i = j
  <2>1. i \in SessionIn(ready, ready[i].s) /\ j \in SessionIn(ready, ready[i].s)
    BY <1>1, <1>4 DEF SessionIn
  <2>2. One(SessionIn(ready, ready[i].s))
    BY <1>1, <2>1 DEF TurnInv
  <2> QED
    BY <2>1, <2>2 DEF One
<1>5. IsFiniteSet(D)
  <2>1. D = 1..Len(Sessions) /\ Len(Sessions) \in Nat
    BY ReplayAssumption
  <2> HIDE DEF D
  <2> QED
    BY <2>1, FS_Interval
<1>6. s \in D
  OBVIOUS
<1>7. \A i \in D : f[i] = ready[i].s
  OBVIOUS
<1>8. DOMAIN ready = D
  BY <1>1
<1> HIDE DEF D, f
<1>9. f \in Injection(D, D)
  BY <1>3, <1>4 DEF Injection, IsInjective
<1>10. f \in Surjection(D, D)
  BY <1>5, <1>9, FS_Injection
<1>11. PICK i \in D : f[i] = s
  BY <1>6, <1>10 DEF Surjection
<1> QED
  BY <1>7, <1>8, <1>11 DEF SessionIn

\* The invariant at the start.
LEMMA ErrorInit == Init => ErrorInv
<1> SUFFICES ASSUME Init PROVE ErrorInv
  OBVIOUS
<1>1. OnePlaceInv /\ conf \in Configs /\ conf.workers \in Nat \ {0} /\ TurnInv
  BY OnePlaceInit, ReplayAssumption DEF Init, OnePlaceInv
<1>2. /\ eng = [st \in Active |-> NewEngine(conf.workers)]
      /\ rt = [st \in Active |-> NewRouter(conf.workers)]
  BY DEF Init, NewAgg, NewDisagg, NewStages, Active
<1>3. /\ events = <<>> /\ work = <<>> /\ requests = <<>> /\ pc = "completions" /\ now = 0 /\ flying = {}
      /\ ready \in [DOMAIN Sessions -> {FirstTurn(s) : s \in DOMAIN Sessions}]
      /\ turn = [s \in DOMAIN Sessions |-> 1]
  BY DEF Init
<1>4. Entries(events) = {} /\ Entries(work) = {} /\ DOMAIN requests = {}
  BY <1>3, NoEntries, NoneEmpty
<1>5. \A r : ~Live(r)
  BY <1>4 DEF Live
<1>6. Reports(eng, events) /\ Reported(eng, work)
  BY <1>4 DEF Reports, Reported
<1>7. \A st \in Active : rt[st].pending = {} /\ rt[st].heavy = {} /\ DOMAIN rt[st].slots = {}
  <2>1. \A st \in Active : rt[st].pending = {} /\ rt[st].heavy = {} /\ rt[st].slots = <<>>
    BY <1>2 DEF NewRouter
  <2> QED
    BY <2>1, NoneEmpty
<1>8. Slots(eng, events, work, rt, requests)
  <2>1. ASSUME NEW r PROVE CoresIn(eng, r) = {}
    BY <1>1, <1>5, Placement
  <2>2. \A st, r : ~Served(eng, events, work, st, r)
    BY <1>4, <2>1 DEF Served, Has, Ending, Ended
  <2> QED
    BY <1>7, <2>2 DEF Slots
<1>9. Queues(rt, work)
  BY <1>7 DEF Queues
<1>10. ActiveInv
  <2>1. ASSUME NEW st \in Active PROVE 0 \in ActiveIds(eng[st])
    <3>1. eng[st] = NewEngine(conf.workers)
      BY <1>2
    <3> QED
      BY <1>1, <3>1 DEF NewEngine, ActiveIds
  <2> QED
    BY <2>1 DEF ActiveInv
<1>11. ASSUME NEW e \in Entries(ready)
       PROVE  e.t = 1 /\ e.s \in DOMAIN Sessions /\ e.at \in Nat /\ (conf.cap > 0 => e.at = 0)
  <2>1. PICK s \in DOMAIN Sessions : e = FirstTurn(s)
    BY <1>3 DEF Entries
  <2>2. Sessions[s].at \in Nat /\ conf.cap \in Nat
    BY <1>1, ReplayAssumption
  <2> QED
    BY <2>1, <2>2 DEF FirstTurn
<1>12. ASSUME NEW s \in DOMAIN Sessions PROVE 1 \in Turns(s) /\ Turns(s) \subseteq Nat \ {0}
  <2>1. Len(Sessions[s].delays) \in Nat \ {0}
    BY ReplayAssumption
  <2> QED
    BY <1>1, <2>1, TurnNumbers
<1>13. DriverInv
  <2>1. \A s \in DOMAIN Sessions : SessionIn(ready, s) # {}
    BY AllWait
  <2>2. \A s \in DOMAIN Sessions : turn[s] = 1 /\ turn[s] >= 1 /\ \A t \in Turns(s) : ~(t < turn[s])
    BY <1>3, <1>12
  <2>3. conf.source = "workload" => \A r : r \in flying <=> Live(r)
    BY <1>3, <1>5
  <2>4. \A r \in DOMAIN requests : r[2] \in Turns(r[1]) /\ (r[2] = turn[r[1]] => Live(r))
    BY <1>4
  <2>5. \A e \in Entries(ready) : e.t \in Turns(e.s)
    BY <1>11, <1>12
  <2> QED
    BY <2>1, <2>2, <2>3, <2>4, <2>5, Zenon DEF DriverInv
<1>14. TimeInv
  BY <1>3, <1>4, <1>11 DEF TimeInv
<1>15. ReleaseInv
  BY <1>3 DEF ReleaseInv
<1>16. CapInv
  <2>1. FirstOf(events, work, requests) = {}
    BY <1>4 DEF FirstOf
  <2>2. IsFiniteSet(DOMAIN requests) /\ Cardinality(FirstOf(events, work, requests)) = 0 /\ conf.cap \in Nat
    BY <1>1, <1>4, <2>1, FS_EmptySet, ReplayAssumption
  <2> QED
    BY <2>2 DEF CapInv
<1> QED
  BY <1>1, <1>3, <1>6, <1>8, <1>9, <1>10, <1>13, <1>14, <1>15, <1>16 DEF ErrorInv

\* Every step keeps it.
LEMMA ErrorStep == ErrorInv /\ [Next]_vars => ErrorInv'
<1> SUFFICES ASSUME ErrorInv, [Next]_vars PROVE ErrorInv'
  OBVIOUS
<1>1. OnePlaceInv'
  BY OnePlaceStep DEF ErrorInv
<1>2. CASE Signal
  BY <1>1, <1>2, SignalError
<1>3. CASE Drain
  BY <1>1, <1>3, DrainError
<1>4. CASE HandOver
  BY <1>1, <1>4, HandOverError
<1>5. CASE WorkerCompletion
  BY <1>1, <1>5, CompletionError
<1>6. CASE WorkerReady
  BY <1>1, <1>6, ReadyError
<1>7. CASE DecodeHandoff
  BY <1>1, <1>7, HandoffError
<1>8. CASE Arrive
  BY <1>1, <1>8, ArriveError
<1>9. CASE DriveFirst
  BY <1>1, <1>9, Stages, DriveError DEF DriveFirst, At
<1>10. CASE DriveDecode
  <2>1. "Decode" \in Active /\ work = <<>> /\ Drive("Decode")
    BY <1>10, Stages DEF DriveDecode, At, RoundInv, ReplayInv, OnePlaceInv, ErrorInv
  <2> QED
    BY <1>1, <2>1, DriveError
<1>11. CASE ApplyScaling
  BY <1>1, <1>11, ScalingError
<1>12. CASE Advance
  BY <1>1, <1>12, AdvanceError
<1>13. CASE NextPhase \/ NextRound \/ Stop \/ UNCHANGED vars
  BY <1>1, <1>13, PhaseError
<1> QED
  BY <1>2, <1>3, <1>4, <1>5, <1>6, <1>7, <1>8, <1>9, <1>10, <1>11, <1>12, <1>13 DEF Next, Loop, Handle, Round

-----------------------------------------------------------------------------
(* What the invariant says                                                    *)

\* A request is being handed off when an event or a piece of work says so.
LEMMA HandedOff ==
    ASSUME NEW r
    PROVE  BeingHandedOff(r) <=> Handed(events, work, r)
<1> DEFINE A == UNION {{<<"core", st, i>> : i \in {j \in DOMAIN eng[st].workers :
                                  r \in DOMAIN eng[st].workers[j].core}} : st \in Active}
           B == {<<"pending", st>> : st \in {x \in Active : r \in rt[x].pending}}
           C == {<<"event", k>> : k \in {j \in DOMAIN events : Holds(events[j], r)}}
           D == {<<"work", k>> : k \in {j \in DOMAIN work : Carries(work[j], r)}}
<1>1. Places(r) = A \cup B \cup C \cup D
  BY DEF Places
<1>2. \A p \in A \cup B : p[1] # "event" /\ p[1] # "work"
  OBVIOUS
<1>3. ASSUME BeingHandedOff(r) PROVE Handed(events, work, r)
  <2>1. PICK p \in Places(r) : \/ p[1] = "event" /\ events[p[2]].kind = "handoff"
                               \/ p[1] = "work" /\ work[p[2]].op = "handoff"
    BY <1>3 DEF BeingHandedOff
  <2>2. p \in C \/ p \in D
    <3> HIDE DEF A, B, C, D
    <3> QED
      BY <1>1, <1>2, <2>1
  <2>3. CASE p \in C
    <3>1. p[1] = "event" /\ p[2] \in DOMAIN events /\ Holds(events[p[2]], r)
      BY <2>3
    <3>2. events[p[2]] \in Entries(events) /\ events[p[2]].kind = "handoff" /\ events[p[2]].r = r
      BY <2>1, <3>1 DEF Entries, Holds
    <3> QED
      BY <3>2, Zenon DEF Handed, Passed
  <2>4. CASE p \in D
    <3>1. p[1] = "work" /\ p[2] \in DOMAIN work /\ Carries(work[p[2]], r)
      BY <2>4
    <3>2. work[p[2]] \in Entries(work) /\ work[p[2]].op = "handoff" /\ work[p[2]].r = r
      BY <2>1, <3>1 DEF Entries, Carries
    <3> QED
      BY <3>2, Zenon DEF Handed, Passing
  <2> QED
    BY <2>2, <2>3, <2>4
<1>4. ASSUME Handed(events, work, r) PROVE BeingHandedOff(r)
  <2>1. CASE Passed(events, r)
    <3>1. PICK k \in DOMAIN events : events[k].kind = "handoff" /\ events[k].r = r
      BY <2>1 DEF Passed, Entries
    <3>2. <<"event", k>> \in C
      BY <3>1 DEF Holds
    <3>3. <<"event", k>> \in Places(r) /\ <<"event", k>>[1] = "event" /\ <<"event", k>>[2] = k
      BY <1>1, <3>2
    <3> QED
      BY <3>1, <3>3 DEF BeingHandedOff
  <2>2. CASE Passing(work, r)
    <3>1. PICK k \in DOMAIN work : work[k].op = "handoff" /\ work[k].r = r
      BY <2>2 DEF Passing, Entries
    <3>2. <<"work", k>> \in D
      BY <3>1 DEF Carries
    <3>3. <<"work", k>> \in Places(r) /\ <<"work", k>>[1] = "work" /\ <<"work", k>>[2] = k
      BY <1>1, <3>2
    <3> QED
      BY <3>1, <3>3 DEF BeingHandedOff
  <2> QED
    BY <1>4, <2>1, <2>2 DEF Handed
<1> QED
  BY <1>3, <1>4

\* The cap holds.
LEMMA CapFollows ==
    ASSUME ErrorInv
    PROVE  CapHeld
<1> DEFINE A == {r \in DOMAIN requests : requests[r][1] = First /\ ~Finished(r) /\ ~BeingHandedOff(r)}
<1>1. \A r : BeingHandedOff(r) <=> Handed(events, work, r)
  BY HandedOff
<1>2. A = FirstOf(events, work, requests)
  BY <1>1 DEF FirstOf, Finished
<1>3. conf.cap > 0 => Cardinality(FirstOf(events, work, requests)) <= conf.cap
  BY DEF ErrorInv, CapInv
<1>4. conf.cap > 0 => Cardinality(A) <= conf.cap
  <2> HIDE DEF A
  <2> QED
    BY <1>2, <1>3
<1> QED
  BY <1>4, Zenon DEF CapHeld

\* is_workload_done does not answer too early.
LEMMA DoneIsTrue ==
    ASSUME ErrorInv, At("advance"), IsWorkloadDone, NEW s \in DOMAIN Sessions, NEW t \in Turns(s)
    PROVE  <<s, t>> \in DOMAIN requests /\ Finished(<<s, t>>)
<1>1. /\ OnePlaceInv /\ work = <<>> /\ IsFiniteSet(DOMAIN requests) /\ conf \in Configs
      /\ conf.source \in {"requests", "workload"} /\ turn[s] \in Nat /\ turn[s] >= 1
      /\ Len(Sessions[s].delays) \in Nat
  <2>1. OnePlaceInv /\ TurnInv /\ CapInv /\ DriverInv /\ conf \in Configs
    BY DEF ErrorInv, OnePlaceInv, ReplayInv, RoundInv
  <2>2. work = <<>> /\ IsFiniteSet(DOMAIN requests) /\ turn[s] \in Nat /\ turn[s] >= 1
    BY <2>1 DEF At, CapInv, TurnInv, DriverInv
  <2>3. conf.source \in {"requests", "workload"} /\ Sessions[s].delays \in Seq(Nat)
    BY <2>1, ReplayAssumption
  <2> QED
    BY <2>1, <2>2, <2>3
<1>2. ClusterInFlight = 0 /\ AdmissionDrained /\ OnlyReadyEventsRemain
  BY DEF IsWorkloadDone
<1>3. ASSUME NEW r, Live(r) PROVE FALSE
  <2> DEFINE U == UNION {StageOf(st) : st \in Active}
  <2>1. ~Passed(events, r)
    BY <1>2 DEF OnlyReadyEventsRemain, Passed, Entries
  <2>2. r \in U
    BY <1>1, <1>3, <2>1, WhereLive
  <2>3. IsFiniteSet(U) /\ Cardinality(U) <= 0
    BY <1>1, <1>2, ClusterCounted
  <2> HIDE DEF U
  <2>4. Cardinality(U) \in Nat /\ (Cardinality(U) = 0 <=> U = {})
    BY <2>3, FS_CardinalityType, FS_EmptySet
  <2> QED
    BY <2>2, <2>3, <2>4
<1>4. t \in Nat /\ (t < turn[s] \/ (t = turn[s] /\ SessionIn(ready, s) = {}))
  <2>1. CASE conf.source = "workload"
    BY <1>1, <1>2, <2>1, TurnNumbers DEF AdmissionDrained
  <2>2. CASE conf.source = "requests"
    <3>1. t = 1
      BY <1>1, <2>2, TurnNumbers
    <3>2. Entries(ready) = {}
      BY <1>2, <2>2, NoEntries DEF AdmissionDrained
    <3>3. SessionIn(ready, s) = {}
      BY <3>2, SessionWaits
    <3> QED
      BY <1>1, <3>1, <3>3
  <2> QED
    BY <1>1, <2>1, <2>2
<1>5. <<s, t>> \in DOMAIN requests
  BY <1>4 DEF ErrorInv, DriverInv
<1> QED
  BY <1>3, <1>5 DEF Live

\* When every turn is done, nobody is out.
LEMMA NobodyOut ==
    ASSUME ErrorInv,
           \A s \in DOMAIN Sessions : \A t \in Turns(s) : <<s, t>> \in DOMAIN requests /\ Finished(<<s, t>>)
    PROVE  /\ \A r : ~Live(r)
           /\ \A s \in DOMAIN Sessions : turn[s] \notin Turns(s)
<1>1. ASSUME NEW s \in DOMAIN Sessions, turn[s] \in Turns(s) PROVE FALSE
  <2>1. <<s, turn[s]>> \in DOMAIN requests /\ Finished(<<s, turn[s]>>)
    BY <1>1
  <2>2. <<s, turn[s]>>[1] = s /\ <<s, turn[s]>>[2] = turn[s]
    OBVIOUS
  <2>3. Live(<<s, turn[s]>>)
    BY <2>1, <2>2, Zenon DEF ErrorInv, DriverInv
  <2> QED
    BY <2>1, <2>3 DEF Live
<1>2. ASSUME NEW r, Live(r) PROVE FALSE
  <2>1. r \in DOMAIN requests
    BY <1>2 DEF Live
  <2>2. r \in (DOMAIN Sessions) \X Nat /\ r[2] = turn[r[1]] /\ r[2] \in Turns(r[1])
    BY <1>2, <2>1, Zenon DEF ErrorInv, OnePlaceInv, TurnInv, DriverInv
  <2>3. r[1] \in DOMAIN Sessions /\ turn[r[1]] \in Turns(r[1])
    BY <2>2
  <2> QED
    BY <1>1, <2>3
<1> QED
  BY <1>1, <1>2

\* Nor does it answer too late.
LEMMA DoneIsTold ==
    ASSUME ErrorInv, At("advance"),
           \A s \in DOMAIN Sessions : \A t \in Turns(s) : <<s, t>> \in DOMAIN requests /\ Finished(<<s, t>>)
    PROVE  IsWorkloadDone
<1>1. /\ OnePlaceInv /\ work = <<>> /\ IsFiniteSet(DOMAIN requests) /\ conf \in Configs
      /\ conf.source \in {"requests", "workload"} /\ \A st \in Active : AllIdle(st)
  BY ReplayAssumption DEF At, ErrorInv, OnePlaceInv, CapInv, ReplayInv, RoundInv
<1>2. /\ \A r : ~Live(r)
      /\ \A s \in DOMAIN Sessions : turn[s] \notin Turns(s)
  BY NobodyOut
<1>3. \A r : CoresIn(eng, r) = {} /\ QueuesIn(rt, r) = {} /\ HeapOf(events, r) = {}
  BY <1>1, <1>2, Placement
<1>4. ASSUME NEW e \in Entries(events) PROVE e.kind = "ready"
  <2>1. e.kind \in {"completion", "ready", "handoff"}
    BY DEF ErrorInv, TimeInv, Timed
  <2>2. \A r : ~Holds(e, r)
    BY <1>3 DEF HeapOf, Entries
  <2>3. e.kind # "handoff"
    BY <2>2 DEF Holds
  <2>4. ASSUME e.kind = "completion" PROVE FALSE
    <3>1. PICK x \in e.signals : ~x.done => <<e.st, e.worker>> \in CoresIn(eng, x.r)
      BY <2>4 DEF ErrorInv, Reports
    <3>2. x.done => x = Last(x.r)
      BY <1>1, <2>4 DEF OnePlaceInv, Heard, Outcomes
    <3>3. x.done
      BY <1>3, <3>1
    <3> QED
      BY <2>2, <2>4, <3>2, <3>3 DEF Holds
  <2> QED
    BY <2>1, <2>3, <2>4
<1>5. OnlyReadyEventsRemain
  BY <1>4 DEF OnlyReadyEventsRemain, Entries
<1>6. ASSUME NEW st \in Active, NEW i \in DOMAIN eng[st].workers PROVE Drained(eng[st].workers[i])
  <2> DEFINE w == eng[st].workers[i]
  <2>1. Exact(w, events, st, i)
    BY <1>1 DEF OnePlaceInv, Fit
  <2>2. Coming(events, st, i) = {}
    BY <1>5 DEF Coming, Completes, OnlyReadyEventsRemain
  <2>3. ~w.busy /\ w.in_flight = Cardinality(DOMAIN w.core)
    BY <2>1, <2>2 DEF Exact
  <2>4. w.core = <<>>
    BY <1>1, <2>3 DEF AllIdle, IsReady
  <2>5. DOMAIN w.core = {} /\ Cardinality(DOMAIN w.core) = 0
    BY <2>4, NoneEmpty, FS_EmptySet
  <2> QED
    BY <2>3, <2>4, <2>5 DEF Drained
<1>7. \A st \in Active : rt[st].pending = {}
  BY <1>3 DEF QueuesIn
<1>8. ClusterInFlight = 0
  <2>1. \A st \in Active : rt[st].pending = {} /\ \A i \in DOMAIN eng[st].workers : eng[st].workers[i].in_flight = 0
    BY <1>6, <1>7 DEF Drained
  <2> QED
    BY <1>1, <2>1, ClusterCounted
<1>9. ready = <<>>
  <2>1. Listed(ready) /\ \A e \in Entries(ready) : e.s \in DOMAIN Sessions /\ e.t = turn[e.s] /\ e.t \in Turns(e.s)
    BY DEF ErrorInv, OnePlaceInv, TurnInv, DriverInv
  <2>2. ready # <<>> => Head(ready) \in Entries(ready)
    BY <2>1, TailEntries
  <2> QED
    BY <1>2, <2>1, <2>2
<1>10. AdmissionDrained
  <2>1. \A s \in DOMAIN Sessions : conf.source = "workload" => turn[s] > Len(Sessions[s].delays)
    BY <1>2, <1>9, SessionsOver
  <2>2. conf.source = "workload" => flying = {}
    BY <1>2 DEF ErrorInv, DriverInv
  <2> QED
    BY <1>1, <1>9, <2>1, <2>2 DEF AdmissionDrained
<1> QED
  BY <1>5, <1>6, <1>8, <1>10 DEF IsWorkloadDone, EnginesDrained

\* What the loop relies on and never says is that its books agree.  For every trace,
\* every number of workers, every order in which the engine finishes what it has, and
\* whatever the planner asks for as long as it is a worker of each stage, no bail of
\* the loop (agg.rs, disagg.rs), of the router (replay/router/offline.rs) or of the
\* driver (loadgen/driver.rs) is reached, advance_to's "dead end" included; in
\* concurrency mode no more requests than the cap wait for or run in the first stage
\* (admission.rs); and is_workload_done tells the planner that the trace is over
\* exactly when every turn of it is.
THEOREM No_Error == Spec => []NoError
<1>1. Init => ErrorInv
  BY ErrorInit
<1>2. ErrorInv /\ [Next]_vars => ErrorInv'
  BY ErrorStep
<1>3. ErrorInv => NoError
  <2> SUFFICES ASSUME ErrorInv PROVE NoError
    OBVIOUS
  <2>1. pc # "failed"
    BY DEF ErrorInv
  <2>2. CapHeld
    BY CapFollows
  <2>3. ASSUME At("advance")
        PROVE  IsWorkloadDone <=> \A s \in DOMAIN Sessions : \A t \in Turns(s) :
                                      <<s, t>> \in DOMAIN requests /\ Finished(<<s, t>>)
    <3>1. IsWorkloadDone => \A s \in DOMAIN Sessions : \A t \in Turns(s) :
                                <<s, t>> \in DOMAIN requests /\ Finished(<<s, t>>)
      BY <2>3, DoneIsTrue
    <3>2. (\A s \in DOMAIN Sessions : \A t \in Turns(s) : <<s, t>> \in DOMAIN requests /\ Finished(<<s, t>>))
              => IsWorkloadDone
      BY <2>3, DoneIsTold
    <3> QED
      BY <3>1, <3>2
  <2> QED
    BY <2>1, <2>2, <2>3, Zenon DEF NoError
<1> QED
  BY <1>1, <1>2, <1>3, PTL DEF Spec
=============================================================================
