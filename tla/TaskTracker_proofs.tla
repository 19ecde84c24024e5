------------------------ MODULE TaskTracker_proofs ------------------------
(***************************************************************************)
(* Proofs about the task tracker, for every tree of trackers, every finite *)
(* set of tasks and every assignment of schedulers and policies.           *)
(***************************************************************************)
EXTENDS TaskTracker, FiniteSetTheorems, TLAPS

-----------------------------------------------------------------------------
LEMMA InitTypeOK == Init => TypeOK
BY TreeAssumption, SizeAssumption DEF Init, TypeOK, Counter, Phase, SpawnKind

\* The parts of a task's step that are shared by several actions.
LEMMA BumpType ==
    ASSUME TypeOK, NEW x, NEW c \in Counter, Bump(x, c)
    PROVE  metrics' \in [Tracker -> [Counter -> Nat]]
BY DEF TypeOK, Bump, Incremented

LEMMA ReleaseType ==
    ASSUME TypeOK, NEW t \in Task, Release(t)
    PROVE  holds' \in [Task -> BOOLEAN] /\ permits' \in [Scheduler -> Nat]
<1>1. holds' \in [Task -> BOOLEAN]
  BY DEF TypeOK, Release
<1>2. permits' \in [Scheduler -> Nat]
  <2>. DEFINE s == sched[owner[t]]
  <2>1. permits' = [permits EXCEPT ![s] = permits[s] + 1] \/ permits' = permits
    BY DEF Release
  <2>2. permits \in [Scheduler -> Nat]
    BY DEF TypeOK
  <2>. HIDE DEF s
  <2>. QED  BY <2>1, <2>2
<1>. QED  BY <1>1, <1>2

LEMMA FinishType ==
    ASSUME TypeOK, NEW t \in Task, NEW r \in Ended \ {"aborted"}, Finish(t, r)
    PROVE  /\ phase' \in [Task -> Phase]
           /\ holds' \in [Task -> BOOLEAN] /\ permits' \in [Scheduler -> Nat]
           /\ metrics' \in [Tracker -> [Counter -> Nat]]
<1>1. phase' \in [Task -> Phase]
  BY DEF TypeOK, Finish, Phase
<1>2. r \in Counter
  BY DEF Ended, Counter
<1>. QED  BY <1>1, <1>2, BumpType, ReleaseType DEF Finish

LEMMA StartType ==
    ASSUME TypeOK, NEW t \in Task, Start(t)
    PROVE  /\ phase' \in [Task -> Phase]
           /\ started' \in [Task -> BOOLEAN]
           /\ metrics' \in [Tracker -> [Counter -> Nat]]
<1>1. phase' \in [Task -> Phase] /\ started' \in [Task -> BOOLEAN]
  BY DEF TypeOK, Start, Phase, Live
<1>2. "started" \in Counter
  BY DEF Counter
<1>3. CASE started[t]
  BY <1>1, <1>3 DEF Start, TypeOK
<1>4. CASE ~started[t]
  BY <1>1, <1>2, <1>4, BumpType DEF Start
<1>. QED  BY <1>3, <1>4

LEMMA TrackerStepType == ASSUME TypeOK, TrackerStep PROVE TypeOK'
<1>1. CASE \E c, p \in Tracker : ChildCheck(c, p)
  BY <1>1 DEF TypeOK, ChildCheck, tokenVars, countVars, taskVars
<1>2. CASE \E c, p \in Tracker : ChildTracker(c, p)
  BY <1>2 DEF TypeOK, ChildTracker, tokenVars, countVars, taskVars
<1>3. CASE \E c, p \in Tracker : ChildBuild(c, p)
  BY <1>3 DEF TypeOK, ChildBuild, tokenVars, countVars, taskVars
<1>4. CASE \E x \in Tracker : DropHandle(x)
  BY <1>4 DEF TypeOK, DropHandle, tokenVars, countVars, taskVars
<1>5. CASE \E x \in Tracker : CancelTracker(x)
  BY <1>5 DEF TypeOK, CancelTracker, trackerVars, countVars, taskVars
<1>6. CASE \E x \in Tracker : CancelToken(x)
  BY <1>6 DEF TypeOK, CancelToken, trackerVars, countVars, taskVars
<1>. QED  BY <1>1, <1>2, <1>3, <1>4, <1>5, <1>6 DEF TrackerStep

LEMMA JoinStepType == ASSUME TypeOK, JoinStep PROVE TypeOK'
<1>. DEFINE J == [pc : {"idle", "close", "wait", "done"}, at : Tracker \cup {NoTracker},
                  todo : SUBSET Tracker, done : SUBSET Tracker]
            JoinOK == /\ join \in [Tracker -> J]
                      /\ \A x \in Tracker : join[x].pc = "wait" => join[x].at \in join[x].todo
<1>1. ASSUME NEW x \in Tracker, JoinStart(x) PROVE TypeOK'
  <2>1. Hierarchy(x) \subseteq Tracker
    BY DEF Hierarchy, Below
  <2>2. JoinOK'
    BY <1>1, <2>1 DEF JoinStart, TypeOK
  <2>. QED  BY <1>1, <2>2 DEF JoinStart, TypeOK, trackerVars, tokenVars, countVars, taskVars
<1>2. ASSUME NEW x \in Tracker, JoinWait(x) PROVE TypeOK'
  <2>1. join[x] \in J /\ join[x].at \in Tracker
    BY <1>2 DEF TypeOK, JoinWait
  <2>. DEFINE rest == join[x].todo \ {join[x].at}
              more == join[x].done \cup {join[x].at}
              pc   == IF rest = {} THEN "done" ELSE "close"
  <2>2. join' = [join EXCEPT ![x] = [pc |-> pc, at |-> NoTracker, todo |-> rest, done |-> more]]
    BY <1>2 DEF JoinWait
  <2>3. rest \in SUBSET Tracker /\ pc \in {"done", "close"} /\ more \in SUBSET Tracker
    BY <2>1
  <2>4. JoinOK'
    <3>. HIDE DEF rest, more, pc
    <3>. QED  BY <2>2, <2>3 DEF TypeOK
  <2>. QED  BY <1>2, <2>4 DEF JoinWait, TypeOK, trackerVars, tokenVars, countVars, taskVars
<1>3. ASSUME NEW x \in Tracker, NEW y \in Tracker, JoinClose(x, y) PROVE TypeOK'
  <2>. DEFINE j == [join[x] EXCEPT !.pc = "wait", !.at = y]
  <2>0. j \in J /\ j.at \in j.todo
    BY <1>3 DEF JoinClose, TypeOK
  <2>1. JoinOK'
    <3>1. join' = [join EXCEPT ![x] = j]
      BY <1>3 DEF JoinClose
    <3>. HIDE DEF j
    <3>. QED  BY <2>0, <3>1 DEF TypeOK
  <2>2. closed' \in [Tracker -> BOOLEAN]
    BY <1>3 DEF JoinClose, TypeOK
  <2>. QED  BY <1>3, <2>1, <2>2 DEF JoinClose, TypeOK, trackerVars, countVars, taskVars
<1>. QED  BY <1>1, <1>2, <1>3 DEF JoinStep

LEMMA SpawnStepType == ASSUME TypeOK, SpawnStep PROVE TypeOK'
<1>1. ASSUME NEW t \in Task, NEW x \in Tracker, NEW k \in Kind, SpawnCheck(t, x, k) PROVE TypeOK'
  BY <1>1, SizeAssumption DEF SpawnCheck, TypeOK, Phase, Live, trackerVars, tokenVars, countVars
<1>2. ASSUME NEW t \in Task, SpawnRegister(t) PROVE TypeOK'
  <2>1. metrics' \in [Tracker -> [Counter -> Nat]]
    BY <1>2, BumpType DEF SpawnRegister, Counter
  <2>2. late' \in [Task -> BOOLEAN]
    <3>1. closed[owner[t]] \in BOOLEAN
      BY <1>2 DEF SpawnRegister, TypeOK
    <3>. QED  BY <1>2, <3>1 DEF SpawnRegister, TypeOK
  <2>. QED  BY <1>2, <2>1, <2>2 DEF SpawnRegister, TypeOK, Phase, Live, trackerVars, tokenVars
<1>. QED  BY <1>1, <1>2 DEF SpawnStep

LEMMA TaskStepType == ASSUME TypeOK, NEW t \in Task, TaskStep(t) PROVE TypeOK'
<1>. USE DEF TypeOK, trackerVars, tokenVars, countVars
<1>a. {"success", "cancelled", "failed", "rejected"} \subseteq Ended \ {"aborted"}
  BY DEF Ended
<1>1. CASE CancelTask(t)
  BY <1>1 DEF CancelTask
<1>2. CASE Abort(t)
  <2>1. phase' \in [Task -> Phase]
    BY <1>2 DEF Abort, Phase, Ended
  <2>. QED  BY <1>2, <2>1, ReleaseType DEF Abort, Live
<1>3. CASE AcquireCancelled(t)
  BY <1>3, <1>a, FinishType DEF AcquireCancelled, Finish
<1>4. CASE AcquireRejected(t)
  BY <1>4, <1>a, FinishType DEF AcquireRejected, Finish
<1>5. CASE AcquireUnlimited(t)
  BY <1>5, StartType DEF AcquireUnlimited, Start
<1>6. CASE AcquireWait(t)
  <2>1. phase' \in [Task -> Phase]
    BY <1>6 DEF AcquireWait, Phase, Live
  <2>. QED  BY <1>6, <2>1 DEF AcquireWait
<1>7. CASE AcquirePermit(t)
  <2>1. permits' \in [Scheduler -> Nat]
    <3>1. sched[owner[t]] \in Scheduler
      BY <1>7 DEF AcquirePermit
    <3>. QED  BY <1>7, <3>1 DEF AcquirePermit
  <2>2. holds' \in [Task -> BOOLEAN]
    BY <1>7 DEF AcquirePermit
  <2>. QED  BY <1>7, <2>1, <2>2, StartType DEF AcquirePermit, Start
<1>8. CASE Succeed(t)
  BY <1>8, <1>a, FinishType DEF Succeed, Finish
<1>9. CASE ReturnCancelled(t)
  BY <1>9, <1>a, FinishType DEF ReturnCancelled, Finish
<1>10. CASE FailWithContinuation(t)
  <2>1. phase' \in [Task -> Phase]
    BY <1>10 DEF FailWithContinuation, Continue, Phase, Live
  <2>. QED  BY <1>10, <2>1 DEF FailWithContinuation, Continue
<1>11. CASE FailWithError(t)
  <2>1. attempts' \in [Task -> Nat] /\ errors' \in [Task -> Nat] /\ failures' \in [Tracker -> Nat]
    BY <1>11 DEF FailWithError
  <2>2. CASE Finish(t, "failed")
    <3>1. token' \in [Tracker -> BOOLEAN] /\ closed' \in [Tracker -> BOOLEAN]
      BY <1>11 DEF FailWithError, Continue
    <3>. QED  BY <1>11, <2>1, <2>2, <3>1, <1>a, FinishType DEF FailWithError, Finish
  <2>3. CASE Continue(t, policy[owner[t]])
    <3>1. phase' \in [Task -> Phase]
      BY <2>3 DEF Continue, Phase, Live
    <3>. QED  BY <1>11, <2>1, <2>3, <3>1 DEF FailWithError, Continue
  <2>. QED  BY <1>11, <2>2, <2>3 DEF FailWithError
<1>. QED  BY <1>1, <1>2, <1>3, <1>4, <1>5, <1>6, <1>7, <1>8, <1>9, <1>10, <1>11 DEF TaskStep

LEMMA NextTypeOK == TypeOK /\ [Next]_vars => TypeOK'
<1>. SUFFICES ASSUME TypeOK, [Next]_vars PROVE TypeOK'
  OBVIOUS
<1>1. CASE Next
  BY <1>1, TrackerStepType, JoinStepType, SpawnStepType, TaskStepType DEF Next
<1>2. CASE UNCHANGED vars
  BY <1>2 DEF TypeOK, vars, trackerVars, tokenVars, countVars, taskVars
<1>. QED  BY <1>1, <1>2

\* Every variable keeps its type: in particular a permit is only taken when one
\* is free, a task past spawn() belongs to a tracker, and join() waits on a
\* tracker of its own snapshot.
THEOREM Typing == Spec => []TypeOK
BY InitTypeOK, NextTypeOK, PTL DEF Spec

-----------------------------------------------------------------------------
(***************************************************************************)
(* Permits.  A tracker's scheduler is fixed once it is built, and a task    *)
(* belongs to a built tracker: so the scheduler a permit was taken from is  *)
(* the one it is given back to.                                             *)
(***************************************************************************)

OwnersBuilt == \A t \in Task : phase[t] # "idle" => tracker[owner[t]] = "built"
HoldersLive == \A t \in Task : holds[t] => phase[t] \in {"running", "rescheduled", "rewaiting"}
PermitInv   == OwnersBuilt /\ HoldersLive /\ PermitsConserved

LEMMA HoldersFinite ==
    ASSUME NEW s PROVE IsFiniteSet(Holders(s)) /\ Cardinality(Holders(s)) \in Nat
<1>1. Holders(s) \subseteq Task
  BY DEF Holders
<1>. QED  BY <1>1, SizeAssumption, FS_Subset, FS_CardinalityType

\* A step that leaves permits, their holders and the holders' schedulers alone.
LEMMA KeepPermits ==
    ASSUME PermitsConserved, UNCHANGED <<holds, permits>>,
           \A t \in Task : holds[t] => sched'[owner'[t]] = sched[owner[t]]
    PROVE  PermitsConserved'
<1>1. \A s \in Scheduler : Holders(s)' = Holders(s)
  BY DEF Holders
<1>. QED  BY <1>1 DEF PermitsConserved

\* A task drops its guard.
LEMMA ReleasePermits ==
    ASSUME TypeOK, PermitsConserved, NEW t \in Task, phase[t] # "idle",
           Release(t), UNCHANGED <<sched, owner>>
    PROVE  PermitsConserved'
<1>. SUFFICES ASSUME NEW s \in Scheduler
              PROVE  permits'[s] + Cardinality(Holders(s)') = Permits[s]
  BY DEF PermitsConserved
<1>1. permits[s] + Cardinality(Holders(s)) = Permits[s] /\ permits[s] \in Nat
  BY DEF PermitsConserved, TypeOK
<1>2. CASE t \in Holders(s)
  <2>1. Holders(s)' = Holders(s) \ {t}
    BY DEF Holders, Release, TypeOK
  <2>2. permits'[s] = permits[s] + 1
    BY <1>2 DEF Holders, Release, TypeOK
  <2>3. Cardinality(Holders(s) \ {t}) = Cardinality(Holders(s)) - 1
    BY <1>2, HoldersFinite, FS_RemoveElement
  <2>. QED  BY <1>1, <2>1, <2>2, <2>3, HoldersFinite
<1>3. CASE t \notin Holders(s)
  <2>1. Holders(s)' = Holders(s)
    BY <1>3 DEF Holders, Release, TypeOK
  <2>2. permits'[s] = permits[s]
    <3>1. ~(holds[t] /\ sched[owner[t]] = s)
      BY <1>3 DEF Holders
    <3>2. sched[owner[t]] \in Scheduler
      BY DEF TypeOK
    <3>. QED  BY <3>1, <3>2 DEF Release, TypeOK
  <2>. QED  BY <1>1, <2>1, <2>2
<1>. QED  BY <1>2, <1>3

\* A task gets a permit, its first or one that replaces the one it holds.
LEMMA AcquirePermits ==
    ASSUME TypeOK, PermitsConserved, NEW t \in Task, AcquirePermit(t)
    PROVE  PermitsConserved'
<1>. SUFFICES ASSUME NEW s \in Scheduler
              PROVE  permits'[s] + Cardinality(Holders(s)') = Permits[s]
  BY DEF PermitsConserved
<1>1. permits[s] + Cardinality(Holders(s)) = Permits[s] /\ permits[s] \in Nat
  BY DEF PermitsConserved, TypeOK
<1>2. sched[owner[t]] \in Scheduler /\ UNCHANGED <<sched, owner>>
  BY DEF TypeOK, AcquirePermit, trackerVars
<1>3. CASE holds[t]
  <2>1. Holders(s)' = Holders(s)
    BY <1>2, <1>3 DEF Holders, AcquirePermit, TypeOK
  <2>. QED  BY <1>1, <1>3, <2>1 DEF AcquirePermit
<1>4. CASE ~holds[t] /\ sched[owner[t]] = s
  <2>1. Holders(s)' = Holders(s) \cup {t}
    BY <1>2, <1>4 DEF Holders, AcquirePermit, TypeOK
  <2>2. permits'[s] = permits[s] - 1
    BY <1>2, <1>4 DEF AcquirePermit, TypeOK
  <2>3. t \notin Holders(s)
    BY <1>4 DEF Holders
  <2>4. Cardinality(Holders(s) \cup {t}) = Cardinality(Holders(s)) + 1
    BY <2>3, HoldersFinite, FS_AddElement
  <2>. QED  BY <1>1, <2>1, <2>2, <2>4, HoldersFinite
<1>5. CASE ~holds[t] /\ sched[owner[t]] # s
  <2>1. Holders(s)' = Holders(s)
    BY <1>2, <1>5 DEF Holders, AcquirePermit, TypeOK
  <2>2. permits'[s] = permits[s]
    BY <1>2, <1>5 DEF AcquirePermit, TypeOK
  <2>. QED  BY <1>1, <2>1, <2>2
<1>. QED  BY <1>3, <1>4, <1>5

LEMMA TrackerStepPermits == ASSUME TypeOK, PermitInv, TrackerStep PROVE PermitInv'
<1>1. UNCHANGED <<phase, owner, holds, permits>>
  BY DEF TrackerStep, ChildCheck, ChildTracker, ChildBuild, DropHandle, CancelTracker,
         CancelToken, taskVars
<1>2. \A x \in Tracker : tracker[x] = "built" => tracker'[x] = "built" /\ sched'[x] = sched[x]
  BY DEF TrackerStep, ChildCheck, ChildTracker, ChildBuild, DropHandle, CancelTracker,
         CancelToken, trackerVars, TypeOK
<1>3. \A t \in Task : holds[t] => sched'[owner'[t]] = sched[owner[t]]
  BY <1>1, <1>2 DEF TypeOK, PermitInv, OwnersBuilt, HoldersLive
<1>4. OwnersBuilt'
  BY <1>1, <1>2 DEF TypeOK, PermitInv, OwnersBuilt
<1>5. HoldersLive'
  BY <1>1 DEF PermitInv, HoldersLive
<1>. QED  BY <1>1, <1>3, <1>4, <1>5, KeepPermits DEF PermitInv

LEMMA SpawnStepPermits == ASSUME TypeOK, PermitInv, SpawnStep PROVE PermitInv'
<1>1. UNCHANGED <<tracker, sched, holds, permits>>
  BY DEF SpawnStep, SpawnCheck, SpawnRegister, trackerVars
<1>2. \A t \in Task : phase[t] # "idle" => owner'[t] = owner[t] /\ phase'[t] # "idle"
  BY DEF SpawnStep, SpawnCheck, SpawnRegister, TypeOK
<1>3. HoldersLive'
  BY <1>1 DEF PermitInv, HoldersLive, SpawnStep, SpawnCheck, SpawnRegister, TypeOK
<1>4. OwnersBuilt'
  BY <1>1, <1>2 DEF PermitInv, OwnersBuilt, SpawnStep, SpawnCheck, SpawnRegister, TypeOK
<1>5. \A t \in Task : holds[t] => sched'[owner'[t]] = sched[owner[t]]
  BY <1>1, <1>2 DEF PermitInv, HoldersLive
<1>. QED  BY <1>1, <1>3, <1>4, <1>5, KeepPermits DEF PermitInv

LEMMA TaskStepPermits == ASSUME TypeOK, PermitInv, NEW t \in Task, TaskStep(t) PROVE PermitInv'
<1>1. UNCHANGED <<tracker, sched, owner>> /\ phase[t] # "idle"
  BY DEF TaskStep, CancelTask, Abort, AcquireCancelled, AcquireRejected, AcquireUnlimited,
         AcquireWait, AcquirePermit, Succeed, ReturnCancelled, FailWithContinuation,
         FailWithError, trackerVars, Live
<1>2. \A u \in Task : u # t => phase'[u] = phase[u] /\ holds'[u] = holds[u]
  BY DEF TaskStep, CancelTask, Abort, AcquireCancelled, AcquireRejected, AcquireUnlimited,
         AcquireWait, AcquirePermit, Succeed, ReturnCancelled, FailWithContinuation,
         FailWithError, Finish, Start, Release, Continue, TypeOK
<1>3. OwnersBuilt'
  BY <1>1, <1>2 DEF PermitInv, OwnersBuilt
<1>4. CASE Release(t)
  BY <1>1, <1>2, <1>3, <1>4, ReleasePermits DEF PermitInv, HoldersLive, Release, TypeOK
<1>5. CASE AcquirePermit(t)
  BY <1>2, <1>3, <1>5, AcquirePermits DEF PermitInv, HoldersLive, AcquirePermit, Start, TypeOK
<1>6. CASE CancelTask(t) \/ AcquireUnlimited(t) \/ AcquireWait(t) \/ Continue(t, policy[owner[t]])
  <2>1. UNCHANGED <<holds, permits>>
    BY <1>6 DEF CancelTask, AcquireUnlimited, AcquireWait, Continue
  <2>2. phase'[t] = phase[t] \/ phase'[t] \in {"running", "rescheduled", "rewaiting"}
                             \/ phase[t] = "scheduled"
    BY <1>6 DEF CancelTask, AcquireUnlimited, AcquireWait, Continue, Start, TypeOK
  <2>3. HoldersLive'
    BY <1>2, <2>1, <2>2 DEF PermitInv, HoldersLive
  <2>. QED  BY <1>1, <1>3, <2>1, <2>3, KeepPermits DEF PermitInv
<1>. QED  BY <1>4, <1>5, <1>6 DEF TaskStep, Abort, AcquireCancelled, AcquireRejected, Succeed,
             ReturnCancelled, FailWithContinuation, FailWithError, Finish

\* SemaphoreScheduler: on no way through the retry loop is a permit lost or
\* invented.  PermitsConserved is not inductive alone; PermitInv adds that the
\* holder of a permit is running or reacquiring and that its tracker, hence its
\* scheduler, is settled.
THEOREM Permits_Conserved == Spec => []PermitsConserved
<1>1. Init => PermitInv
  <2>. SUFFICES ASSUME Init PROVE PermitInv
    OBVIOUS
  <2>1. \A s \in Scheduler : Holders(s) = {}
    BY DEF Init, Holders
  <2>2. PermitsConserved
    <3>. SUFFICES ASSUME NEW s \in Scheduler
                  PROVE  permits[s] + Cardinality(Holders(s)) = Permits[s]
      BY DEF PermitsConserved
    <3>1. Cardinality(Holders(s)) = 0
      BY <2>1, FS_EmptySet
    <3>2. permits[s] = Permits[s] /\ Permits[s] \in Nat
      BY SizeAssumption DEF Init
    <3>. QED  BY <3>1, <3>2
  <2>. QED  BY <2>2 DEF Init, PermitInv, OwnersBuilt, HoldersLive
<1>2. TypeOK /\ PermitInv /\ [Next]_vars => PermitInv'
  <2>. SUFFICES ASSUME TypeOK, PermitInv, [Next]_vars PROVE PermitInv'
    OBVIOUS
  <2>1. CASE JoinStep \/ UNCHANGED vars
    <3>1. UNCHANGED <<tracker, sched, phase, owner, holds, permits>>
      BY <2>1 DEF JoinStep, JoinStart, JoinClose, JoinWait, vars, trackerVars, taskVars
    <3>2. OwnersBuilt' /\ HoldersLive'
      BY <3>1 DEF PermitInv, OwnersBuilt, HoldersLive
    <3>. QED  BY <3>1, <3>2, KeepPermits DEF PermitInv
  <2>. QED  BY <2>1, TrackerStepPermits, SpawnStepPermits, TaskStepPermits DEF Next
<1>. QED  BY <1>1, <1>2, Typing, PTL DEF Spec, PermitInv

-----------------------------------------------------------------------------
(***************************************************************************)
(* join().  What it has waited for stays ended because the tracker was      *)
(* closed first: whatever registers there afterwards is late.               *)
(***************************************************************************)

JoinClosed ==
    \A x \in Tracker :
        /\ \A y \in join[x].done : closed[y]
        /\ join[x].pc = "wait" =>
              /\ closed[join[x].at]
              /\ \A z \in join[x].todo : join[x].at \in Ancestors[z] => z = join[x].at
JoinInv == JoinClosed /\ JoinWaited

\* No step of a tracker or of a task makes join() wrong about a tracker it has
\* got past.
LEMMA KeepJoin ==
    ASSUME TypeOK, JoinInv, UNCHANGED join,
           \A x \in Tracker : closed[x] => closed'[x],
           \A t \in Task : Registered(t) => owner'[t] = owner[t] /\ late'[t] = late[t],
           \A t \in Task : phase[t] \in Ended => phase'[t] = phase[t],
           \A t \in Task : Registered(t)' /\ ~Registered(t) => late'[t] = closed[owner'[t]]
    PROVE  JoinInv'
<1>1. JoinClosed'
  BY DEF JoinInv, JoinClosed, TypeOK
<1>2. ASSUME NEW x \in Tracker, NEW y \in join[x].done, NEW t \in Task,
             owner'[t] = y, Registered(t)', ~late'[t]
      PROVE  phase'[t] \in Ended
  <2>1. closed[y]
    BY DEF JoinInv, JoinClosed
  <2>2. Registered(t)
    BY <1>2, <2>1
  <2>. QED  BY <1>2, <2>2 DEF JoinInv, JoinWaited
<1>3. \A x \in Tracker : \A y \in join[x].done : \A z \in join[x].todo : y \notin Ancestors[z]
  BY DEF JoinInv, JoinWaited
<1>. QED  BY <1>1, <1>2, <1>3 DEF JoinInv, JoinWaited

LEMMA JoinStepJoin == ASSUME TypeOK, JoinInv, JoinStep PROVE JoinInv'
<1>. USE DEF JoinInv, JoinWaited, JoinClosed, Registered
<1>1. ASSUME NEW x \in Tracker, JoinStart(x) PROVE JoinInv'
  BY <1>1 DEF JoinStart, TypeOK, tokenVars, taskVars
<1>2. ASSUME NEW x \in Tracker, NEW y \in Tracker, JoinClose(x, y) PROVE JoinInv'
  <2>1. join'[x].pc = "wait" /\ join'[x].at = y /\ join'[x].todo = join[x].todo /\ join'[x].done = join[x].done
    BY <1>2 DEF JoinClose, TypeOK
  <2>2. \A u \in Tracker : u # x => join'[u] = join[u]
    BY <1>2 DEF JoinClose, TypeOK
  <2>3. closed'[y] /\ \A z \in Tracker : closed[z] => closed'[z]
    BY <1>2 DEF JoinClose, TypeOK
  <2>4. UNCHANGED <<phase, owner, late>>
    BY <1>2 DEF JoinClose, taskVars
  <2>5. JoinClosed'
    BY <1>2, <2>1, <2>2, <2>3 DEF JoinClose, TypeOK
  <2>6. JoinWaited'
    BY <2>1, <2>2, <2>4
  <2>. QED  BY <2>5, <2>6
<1>3. ASSUME NEW x \in Tracker, JoinWait(x) PROVE JoinInv'
  <2>. DEFINE y == join[x].at
  <2>1. /\ join'[x].pc # "wait"
        /\ join'[x].todo = join[x].todo \ {y}
        /\ join'[x].done = join[x].done \cup {y}
    BY <1>3 DEF JoinWait, TypeOK
  <2>2. \A u \in Tracker : u # x => join'[u] = join[u]
    BY <1>3 DEF JoinWait, TypeOK
  <2>3. UNCHANGED <<phase, owner, late, closed>>
    BY <1>3 DEF JoinWait, tokenVars, taskVars
  <2>4. /\ closed[y]
        /\ \A z \in join[x].todo : y \in Ancestors[z] => z = y
        /\ \A t \in Task : owner[t] = y => phase[t] \in Ended \cup {"spawning"}
    BY <1>3 DEF JoinWait
  <2>. HIDE DEF y
  <2>5. JoinClosed'
    BY <2>1, <2>2, <2>3, <2>4
  <2>6. JoinWaited'
    BY <2>1, <2>2, <2>3, <2>4
  <2>. QED  BY <2>5, <2>6
<1>. QED  BY <1>1, <1>2, <1>3 DEF JoinStep

LEMMA OthersJoin == ASSUME TypeOK, JoinInv, TrackerStep \/ SpawnStep PROVE JoinInv'
<1>1. CASE TrackerStep
  <2>1. UNCHANGED <<join, phase, owner, late>>
    BY <1>1 DEF TrackerStep, ChildCheck, ChildTracker, ChildBuild, DropHandle, CancelTracker,
           CancelToken, taskVars
  <2>2. \A x \in Tracker : closed[x] => closed'[x]
    BY <1>1 DEF TrackerStep, ChildCheck, ChildTracker, ChildBuild, DropHandle, CancelTracker,
           CancelToken, tokenVars, TypeOK
  <2>. QED  BY <2>1, <2>2, KeepJoin DEF Registered
<1>2. CASE SpawnStep
  <2>1. UNCHANGED <<join, closed>>
    BY <1>2 DEF SpawnStep, SpawnCheck, SpawnRegister, tokenVars
  <2>2. ASSUME NEW t \in Task, NEW x \in Tracker, NEW k \in Kind, SpawnCheck(t, x, k) PROVE JoinInv'
    BY <2>1, <2>2, KeepJoin DEF SpawnCheck, Registered, Ended, TypeOK
  <2>3. ASSUME NEW t \in Task, SpawnRegister(t) PROVE JoinInv'
    BY <2>1, <2>3, KeepJoin DEF SpawnRegister, Registered, Ended, TypeOK
  <2>. QED  BY <1>2, <2>2, <2>3 DEF SpawnStep
<1>. QED  BY <1>1, <1>2

LEMMA TaskStepJoin == ASSUME TypeOK, JoinInv, NEW t \in Task, TaskStep(t) PROVE JoinInv'
<1>1. UNCHANGED <<join, owner, late>> /\ phase[t] \in Live \ {"spawning"}
  BY DEF TaskStep, CancelTask, Abort, AcquireCancelled, AcquireRejected, AcquireUnlimited,
         AcquireWait, AcquirePermit, Succeed, ReturnCancelled, FailWithContinuation,
         FailWithError, Live
<1>2. \A u \in Task : u # t => phase'[u] = phase[u]
  BY DEF TaskStep, CancelTask, Abort, AcquireCancelled, AcquireRejected, AcquireUnlimited,
         AcquireWait, AcquirePermit, Succeed, ReturnCancelled, FailWithContinuation,
         FailWithError, Finish, Start, Continue, TypeOK
<1>3. \A x \in Tracker : closed[x] => closed'[x]
  BY DEF TaskStep, CancelTask, Abort, AcquireCancelled, AcquireRejected, AcquireUnlimited,
         AcquireWait, AcquirePermit, Succeed, ReturnCancelled, FailWithContinuation,
         FailWithError, Continue, TypeOK, tokenVars
<1>. QED  BY <1>1, <1>2, <1>3, KeepJoin DEF Registered, Ended, Live

\* TaskTracker::join: when it has got past a tracker, every task that was
\* registered there before the tracker closed has ended, and no tracker of the
\* snapshot below it is still to come, whatever cancels, spawns, builds or
\* drops trackers meanwhile.
THEOREM Join_Waited == Spec => []JoinWaited
<1>1. Init => JoinInv
  BY DEF Init, JoinInv, JoinClosed, JoinWaited
<1>2. TypeOK /\ JoinInv /\ [Next]_vars => JoinInv'
  <2>. SUFFICES ASSUME TypeOK, JoinInv, [Next]_vars PROVE JoinInv'
    OBVIOUS
  <2>1. CASE UNCHANGED vars
    BY <2>1, KeepJoin DEF vars, tokenVars, taskVars, Registered
  <2>. QED  BY <2>1, OthersJoin, JoinStepJoin, TaskStepJoin DEF Next
<1>. QED  BY <1>1, <1>2, Typing, PTL DEF Spec, JoinInv

-----------------------------------------------------------------------------
(***************************************************************************)
(* Counters.  A step changes what at most one task counts for, by at most   *)
(* one counter, and it is that counter it increments.                       *)
(***************************************************************************)

LEMMA CountedFinite ==
    ASSUME NEW x, NEW c PROVE IsFiniteSet(Counted(x, c)) /\ Cardinality(Counted(x, c)) \in Nat
<1>1. Counted(x, c) \subseteq Task
  BY DEF Counted
<1>. QED  BY <1>1, SizeAssumption, FS_Subset, FS_CardinalityType

\* No task starts or stops to count for anything.
LEMMA KeepCounts ==
    ASSUME MetricsMatch, UNCHANGED metrics,
           \A t \in Task, c \in Counter : Counts(t, c)' <=> Counts(t, c),
           \A t \in Task : Registered(t) => owner'[t] = owner[t]
    PROVE  MetricsMatch'
<1>1. \A x \in Tracker, c \in Counter : Counted(x, c)' = Counted(x, c)
  BY DEF Counted, Counts
<1>. QED  BY <1>1 DEF MetricsMatch

\* Task t starts to count for c, and c is incremented on its tracker and above.
LEMMA AddCount ==
    ASSUME TypeOK, MetricsMatch, NEW t \in Task, NEW c \in Counter,
           Bump(owner[t], c), UNCHANGED owner, owner[t] \in Tracker,
           ~Counts(t, c), Counts(t, c)',
           \A u \in Task, d \in Counter : u # t \/ d # c => (Counts(u, d)' <=> Counts(u, d))
    PROVE  MetricsMatch'
<1>. SUFFICES ASSUME NEW x \in Tracker, NEW d \in Counter
              PROVE  metrics'[x][d] = Cardinality(Counted(x, d)')
  BY DEF MetricsMatch
<1>1. metrics[x][d] = Cardinality(Counted(x, d)) /\ metrics[x][d] \in Nat
  BY DEF MetricsMatch, TypeOK
<1>2. CASE d = c /\ x \in Ancestors[owner[t]]
  <2>1. Counted(x, d)' = Counted(x, d) \cup {t}
    BY <1>2 DEF Counted
  <2>2. t \notin Counted(x, d)
    BY <1>2 DEF Counted
  <2>3. metrics'[x][d] = metrics[x][d] + 1
    BY <1>2 DEF Bump, Incremented, TypeOK
  <2>4. Cardinality(Counted(x, d) \cup {t}) = Cardinality(Counted(x, d)) + 1
    BY <2>2, CountedFinite, FS_AddElement
  <2>. QED  BY <1>1, <2>1, <2>3, <2>4
<1>3. CASE d # c \/ x \notin Ancestors[owner[t]]
  <2>1. Counted(x, d)' = Counted(x, d)
    BY <1>3 DEF Counted
  <2>2. metrics'[x][d] = metrics[x][d]
    BY <1>3 DEF Bump, Incremented, TypeOK
  <2>. QED  BY <1>1, <2>1, <2>2
<1>. QED  BY <1>2, <1>3

LEMMA FinishCounts ==
    ASSUME TypeOK, MetricsMatch, NEW t \in Task, NEW r \in Ended \ {"aborted"},
           phase[t] \in Live \ {"spawning"}, Finish(t, r), UNCHANGED <<owner, started>>
    PROVE  MetricsMatch'
<1>1. r \in Counter /\ r \notin {"issued", "started", "idle", "spawning"} /\ r \notin Live
  BY DEF Ended, Counter, Live
<1>2. phase'[t] = r /\ \A u \in Task : u # t => phase'[u] = phase[u]
  BY DEF Finish, TypeOK
<1>3. ~Counts(t, r) /\ Counts(t, r)'
  BY <1>1, <1>2 DEF Counts, Registered
<1>4. \A u \in Task, d \in Counter : u # t \/ d # r => (Counts(u, d)' <=> Counts(u, d))
  <2>1. \A u \in Task, d \in Counter : u # t => (Counts(u, d)' <=> Counts(u, d))
    BY <1>2 DEF Counts, Registered
  <2>2. \A d \in Counter \ {r} : Counts(t, d)' <=> Counts(t, d)
    BY <1>1, <1>2 DEF Counts, Registered, Live, Counter
  <2>. QED  BY <2>1, <2>2
<1>5. owner[t] \in Tracker /\ Bump(owner[t], r)
  BY DEF TypeOK, Live, Finish
<1>. QED  BY <1>1, <1>3, <1>4, <1>5, AddCount

LEMMA StartCounts ==
    ASSUME TypeOK, MetricsMatch, NEW t \in Task,
           phase[t] \in Live \ {"spawning"}, Start(t), UNCHANGED owner
    PROVE  MetricsMatch'
<1>1. /\ phase'[t] = "running" /\ started'[t] = TRUE
      /\ \A u \in Task : u # t => phase'[u] = phase[u] /\ started'[u] = started[u]
  BY DEF Start, TypeOK
<1>2. \A u \in Task, d \in Counter : u # t \/ d # "started" => (Counts(u, d)' <=> Counts(u, d))
  <2>1. \A u \in Task, d \in Counter : u # t => (Counts(u, d)' <=> Counts(u, d))
    BY <1>1 DEF Counts, Registered
  <2>2. \A d \in Counter \ {"started"} : Counts(t, d)' <=> Counts(t, d)
    BY <1>1 DEF Counts, Registered, Live, Counter
  <2>. QED  BY <2>1, <2>2
<1>3. Registered(t) /\ Registered(t)' /\ owner[t] \in Tracker
  BY <1>1 DEF Registered, Live, TypeOK
<1>4. CASE started[t] = TRUE
  <2>1. Counts(t, "started")' <=> Counts(t, "started")
    BY <1>1, <1>3, <1>4 DEF Counts
  <2>2. UNCHANGED metrics
    BY <1>4 DEF Start
  <2>. QED  BY <1>2, <2>1, <2>2, KeepCounts
<1>5. CASE started[t] = FALSE
  <2>1. ~Counts(t, "started") /\ Counts(t, "started")'
    BY <1>1, <1>3, <1>5 DEF Counts
  <2>2. Bump(owner[t], "started")
    BY <1>5 DEF Start
  <2>3. "started" \in Counter
    BY DEF Counter
  <2>. QED  BY <1>2, <1>3, <2>1, <2>2, <2>3, AddCount
<1>. QED  BY <1>4, <1>5 DEF TypeOK

\* A task goes from one live phase to another, or is aborted, uncounted.
LEMMA MoveCounts ==
    ASSUME TypeOK, MetricsMatch, NEW t \in Task, UNCHANGED <<owner, started, metrics>>,
           phase[t] \in Live \ {"spawning"}, phase'[t] \in (Live \ {"spawning"}) \cup {"aborted"},
           \A u \in Task : u # t => phase'[u] = phase[u]
    PROVE  MetricsMatch'
<1>1. \A d \in Counter : Counts(t, d)' <=> Counts(t, d)
  BY DEF Counts, Registered, Live, Counter
<1>2. \A u \in Task, d \in Counter : Counts(u, d)' <=> Counts(u, d)
  <2>1. \A u \in Task, d \in Counter : u # t => (Counts(u, d)' <=> Counts(u, d))
    BY DEF Counts, Registered
  <2>. QED  BY <1>1, <2>1
<1>. QED  BY <1>2, KeepCounts

LEMMA TaskStepCounts == ASSUME TypeOK, MetricsMatch, NEW t \in Task, TaskStep(t) PROVE MetricsMatch'
<1>1. UNCHANGED owner /\ phase[t] \in Live \ {"spawning"}
  BY DEF TaskStep, CancelTask, Abort, AcquireCancelled, AcquireRejected, AcquireUnlimited,
         AcquireWait, AcquirePermit, Succeed, ReturnCancelled, FailWithContinuation,
         FailWithError, Live
<1>2. ASSUME NEW r \in {"success", "cancelled", "failed", "rejected"}, Finish(t, r), UNCHANGED started
      PROVE  MetricsMatch'
  BY <1>1, <1>2, FinishCounts DEF Ended
<1>3. CASE AcquireUnlimited(t) \/ AcquirePermit(t)
  BY <1>1, <1>3, StartCounts DEF AcquireUnlimited, AcquirePermit
<1>4. CASE CancelTask(t) \/ AcquireWait(t) \/ Abort(t) \/ (Continue(t, policy[owner[t]]) /\ UNCHANGED started)
  <2>1. UNCHANGED <<started, metrics>>
    BY <1>4 DEF CancelTask, AcquireWait, Abort, Continue, countVars
  <2>2. phase'[t] \in (Live \ {"spawning"}) \cup {"aborted"}
    BY <1>1, <1>4 DEF CancelTask, AcquireWait, Abort, Continue, TypeOK, Live
  <2>3. \A u \in Task : u # t => phase'[u] = phase[u]
    BY <1>4 DEF CancelTask, AcquireWait, Abort, Continue, TypeOK
  <2>. QED  BY <1>1, <2>1, <2>2, <2>3, MoveCounts
<1>. QED  BY <1>2, <1>3, <1>4 DEF TaskStep, AcquireCancelled, AcquireRejected, Succeed,
             ReturnCancelled, FailWithContinuation, FailWithError

StartedRegistered == \A t \in Task : started[t] => Registered(t)

LEMMA SpawnStepCounts ==
    ASSUME TypeOK, MetricsMatch, StartedRegistered, SpawnStep PROVE MetricsMatch'
<1>1. ASSUME NEW t \in Task, NEW x \in Tracker, NEW k \in Kind, SpawnCheck(t, x, k)
      PROVE  MetricsMatch'
  <2>1. UNCHANGED <<metrics, started>>
    BY <1>1 DEF SpawnCheck, countVars
  <2>2. \A u \in Task, d \in Counter : Counts(u, d)' <=> Counts(u, d)
    BY <1>1, <2>1 DEF SpawnCheck, Counts, Registered, TypeOK
  <2>3. \A u \in Task : Registered(u) => owner'[u] = owner[u]
    BY <1>1 DEF SpawnCheck, Registered, TypeOK
  <2>. QED  BY <2>1, <2>2, <2>3, KeepCounts
<1>2. ASSUME NEW t \in Task, SpawnRegister(t) PROVE MetricsMatch'
  <2>0. ~started[t]
    BY <1>2 DEF SpawnRegister, StartedRegistered, Registered
  <2>1. phase'[t] = "scheduled" /\ \A u \in Task : u # t => phase'[u] = phase[u]
    BY <1>2 DEF SpawnRegister, TypeOK
  <2>2. UNCHANGED <<owner, started>> /\ phase[t] = "spawning"
    BY <1>2 DEF SpawnRegister
  <2>3. ~Counts(t, "issued") /\ Counts(t, "issued")'
    BY <2>1, <2>2 DEF Counts, Registered
  <2>4. \A u \in Task, d \in Counter : u # t => (Counts(u, d)' <=> Counts(u, d))
    BY <2>1, <2>2 DEF Counts, Registered
  <2>5. \A d \in Counter \ {"issued"} : Counts(t, d)' <=> Counts(t, d)
    BY <2>0, <2>1, <2>2 DEF Counts, Registered, Counter
  <2>6. owner[t] \in Tracker /\ Bump(owner[t], "issued") /\ "issued" \in Counter
    BY <1>2, <2>2 DEF TypeOK, SpawnRegister, Counter
  <2>. QED  BY <2>2, <2>3, <2>4, <2>5, <2>6, AddCount
<1>. QED  BY <1>1, <1>2 DEF SpawnStep

LEMMA NextStartedRegistered == TypeOK /\ StartedRegistered /\ [Next]_vars => StartedRegistered'
<1>. SUFFICES ASSUME TypeOK, StartedRegistered, [Next]_vars PROVE StartedRegistered'
  OBVIOUS
<1>. USE DEF StartedRegistered, Registered
<1>1. CASE TrackerStep \/ JoinStep \/ UNCHANGED vars
  BY <1>1 DEF TrackerStep, ChildCheck, ChildTracker, ChildBuild, DropHandle, CancelTracker,
         CancelToken, JoinStep, JoinStart, JoinClose, JoinWait, taskVars, vars
<1>2. CASE SpawnStep
  BY <1>2 DEF SpawnStep, SpawnCheck, SpawnRegister, TypeOK
<1>3. ASSUME NEW t \in Task, TaskStep(t) PROVE StartedRegistered'
  <2>1. \A u \in Task : u # t => phase'[u] = phase[u] /\ started'[u] = started[u]
    BY <1>3 DEF TaskStep, CancelTask, Abort, AcquireCancelled, AcquireRejected, AcquireUnlimited,
           AcquireWait, AcquirePermit, Succeed, ReturnCancelled, FailWithContinuation,
           FailWithError, Finish, Start, Continue, TypeOK
  <2>2. phase'[t] \notin {"idle", "spawning"}
    BY <1>3 DEF TaskStep, CancelTask, Abort, AcquireCancelled, AcquireRejected, AcquireUnlimited,
           AcquireWait, AcquirePermit, Succeed, ReturnCancelled, FailWithContinuation,
           FailWithError, Finish, Start, Continue, TypeOK, Live
  <2>. QED  BY <2>1, <2>2
<1>. QED  BY <1>1, <1>2, <1>3 DEF Next

\* HierarchicalTaskMetrics: every counter of every tracker is the number of
\* tasks at or below it that it stands for, through retries, aborts, races of
\* spawn with close and every way a task can end.
THEOREM Metrics_Match == Spec => []MetricsMatch
<1>. DEFINE CountInv == MetricsMatch /\ StartedRegistered
<1>1. Init => CountInv
  <2>. SUFFICES ASSUME Init PROVE CountInv
    OBVIOUS
  <2>1. \A x \in Tracker, c \in Counter : Counted(x, c) = {} /\ metrics[x][c] = 0
    BY DEF Init, Counted, Counts, Registered
  <2>. QED  BY <2>1, FS_EmptySet DEF Init, MetricsMatch, StartedRegistered
<1>2. TypeOK /\ CountInv /\ [Next]_vars => CountInv'
  <2>. SUFFICES ASSUME TypeOK, CountInv, [Next]_vars PROVE MetricsMatch'
    BY NextStartedRegistered
  <2>1. CASE TrackerStep \/ JoinStep \/ UNCHANGED vars
    <3>1. UNCHANGED <<phase, owner, started, metrics>>
      BY <2>1 DEF TrackerStep, ChildCheck, ChildTracker, ChildBuild, DropHandle, CancelTracker,
             CancelToken, JoinStep, JoinStart, JoinClose, JoinWait, taskVars, countVars, vars
    <3>2. \A t \in Task, c \in Counter : Counts(t, c)' <=> Counts(t, c)
      BY <3>1 DEF Counts, Registered
    <3>. QED  BY <3>1, <3>2, KeepCounts
  <2>. QED  BY <2>1, SpawnStepCounts, TaskStepCounts DEF Next
<1>. QED  BY <1>1, <1>2, Typing, PTL DEF Spec
=============================================================================
