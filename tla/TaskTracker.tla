---------------------------- MODULE TaskTracker ----------------------------
(***************************************************************************)
(* The hierarchical task tracker of lib/runtime/src/utils/tasks/tracker.rs. *)
(*                                                                         *)
(* A tracker owns a tokio TaskTracker (open or closed), a cancellation     *)
(* token that is a child of its parent's token, a scheduler that hands out *)
(* execution slots, an error policy and counters that are also propagated  *)
(* to every ancestor.  A task is issued on a tracker, acquires a slot, runs,*)
(* and on an error either ends or goes on with a continuation.              *)
(*                                                                         *)
(* A step below is what one thread does between two points where another   *)
(* thread can interfere: an await, or a check of is_closed() that is not    *)
(* under a lock with what follows it.                                       *)
(***************************************************************************)
EXTENDS Integers, FiniteSets

CONSTANTS
    Tracker,        \* tracker identities
    Root,           \* the tracker made by TaskTracker::new
    Ancestors,      \* Ancestors[x]: x and every tracker above it
    Task,           \* task identities
    Scheduler,      \* scheduler objects
    Unlimited,      \* those of them that are UnlimitedScheduler
    Permits,        \* Permits[s]: permits of a SemaphoreScheduler
    Rejecting,      \* those whose acquire_execution_slot may answer Rejected
    Policy,         \* error policies in use, a subset of PolicyKind
    Kind,           \* how tasks are spawned, a subset of SpawnKind
    Joined,         \* trackers on which some caller may call join()
    MaxFailures,    \* ThresholdCancelPolicy::max_failures
    MaxAttempts,    \* bound: how often one task may ask for a continuation
    NoTracker

PolicyKind == {"LogOnly", "CancelOnError", "CancelOnPatterns", "Threshold",
               "Rate", "TriggerToken", "Custom"}

SpawnKind == {"regular", "cancellable"}

ASSUME TreeAssumption ==
    /\ Root \in Tracker
    /\ NoTracker \notin Tracker
    /\ Ancestors \in [Tracker -> SUBSET Tracker]
    /\ Ancestors[Root] = {Root}
    /\ \A x \in Tracker : x \in Ancestors[x] /\ Root \in Ancestors[x]
    /\ \A x, y \in Tracker : x \in Ancestors[y] => Ancestors[x] \subseteq Ancestors[y]
    /\ \A x, y \in Tracker : x \in Ancestors[y] /\ y \in Ancestors[x] => x = y
    /\ \A x \in Tracker : \A y, z \in Ancestors[x] : y \in Ancestors[z] \/ z \in Ancestors[y]

ASSUME SizeAssumption ==
    /\ IsFiniteSet(Task)
    /\ Scheduler # {} /\ Unlimited \subseteq Scheduler /\ Rejecting \subseteq Scheduler
    /\ Permits \in [Scheduler -> Nat]
    /\ Policy # {} /\ Policy \subseteq PolicyKind
    /\ Kind # {} /\ Kind \subseteq SpawnKind
    /\ Joined \subseteq Tracker
    /\ MaxFailures \in Nat \ {0}
    /\ MaxAttempts \in Nat

VARIABLES
    tracker,    \* life of each tracker: absent, building, built
    handle,     \* does the caller still hold a TaskTracker for it?
    strong,     \* does its TaskTrackerInner hold an Arc to its parent?
    closed,     \* tokio_tracker.is_closed()
    token,      \* its own cancel_token has been cancelled
    sched,      \* scheduler of each tracker
    policy,     \* error policy of each tracker
    metrics,    \* counters of each tracker, descendants included
    failures,   \* ThresholdCancelPolicy::failure_count of each tracker's policy
    permits,    \* available permits of each scheduler's semaphore
    phase,      \* where each task is in execute_with_retry_loop
    owner,      \* the tracker a task was spawned on
    kind,       \* spawn or spawn_cancellable
    ttoken,     \* the task's own token has been cancelled
    holds,      \* does the task hold a permit?
    started,    \* ActiveCountGuard::is_active
    attempts,   \* OnErrorContext::attempt_count
    errors,     \* ThresholdState::failure_count of the task's context
    late,       \* history: the task was registered on an already closed tracker
    join        \* progress of join() on each tracker

trackerVars == <<tracker, handle, strong, sched, policy>>
tokenVars   == <<closed, token>>
countVars   == <<metrics, failures>>
taskVars    == <<phase, owner, kind, ttoken, holds, started, attempts, errors, late, permits>>
vars == <<trackerVars, tokenVars, countVars, taskVars, join>>

Counter == {"issued", "started", "success", "cancelled", "failed", "rejected"}
Live    == {"spawning", "scheduled", "waiting", "running", "rescheduled", "rewaiting"}
Ended   == {"success", "cancelled", "failed", "rejected", "aborted"}
Phase   == {"idle"} \cup Live \cup Ended

TypeOK ==
    /\ tracker \in [Tracker -> {"absent", "building", "built"}]
    /\ handle \in [Tracker -> BOOLEAN]
    /\ strong \in [Tracker -> BOOLEAN]
    /\ closed \in [Tracker -> BOOLEAN]
    /\ token \in [Tracker -> BOOLEAN]
    /\ sched \in [Tracker -> Scheduler]
    /\ policy \in [Tracker -> Policy]
    /\ metrics \in [Tracker -> [Counter -> Nat]]
    /\ failures \in [Tracker -> Nat]
    /\ permits \in [Scheduler -> Nat]
    /\ phase \in [Task -> Phase]
    /\ owner \in [Task -> Tracker \cup {NoTracker}]
    /\ kind \in [Task -> SpawnKind]
    /\ ttoken \in [Task -> BOOLEAN]
    /\ holds \in [Task -> BOOLEAN]
    /\ started \in [Task -> BOOLEAN]
    /\ attempts \in [Task -> Nat]
    /\ errors \in [Task -> Nat]
    /\ late \in [Task -> BOOLEAN]
    /\ join \in [Tracker -> [pc   : {"idle", "close", "wait", "done"},
                             at   : Tracker \cup {NoTracker},
                             todo : SUBSET Tracker,
                             done : SUBSET Tracker]]
    /\ \A t \in Task : phase[t] # "idle" => owner[t] \in Tracker
    /\ \A x \in Tracker : join[x].pc = "wait" => join[x].at \in join[x].todo

-----------------------------------------------------------------------------
(***************************************************************************)
(* The tree of trackers, its tokens and its reference counts.               *)
(***************************************************************************)

Below(x) == {y \in Tracker : x \in Ancestors[y]}

IsChildOf(c, p) == c # p /\ Ancestors[c] = {c} \cup Ancestors[p]

\* The trackers on the way from x down to y, both included.
Path(x, y) == {z \in Ancestors[y] : x \in Ancestors[z]}

\* A child token is cancelled as soon as any token above it is.
Cancelled(x) == \E a \in Ancestors[x] : token[a]

TaskCancelled(t) == ttoken[t] \/ Cancelled(owner[t])

\* A TaskTrackerInner is kept alive by the caller's handle, by a task being
\* spawned or running on it, and by a living child that holds its parent.
Alive(x) ==
    \E y \in Below(x) :
        /\ tracker[y] = "built"
        /\ handle[y] \/ \E t \in Task : owner[t] = y /\ phase[t] \in Live
        /\ \A z \in Path(x, y) \ {x} : strong[z] /\ tracker[z] = "built"

\* What collect_hierarchy finds: it upgrades the weak reference of each child,
\* so a tracker below one that has been dropped is not reached.
Hierarchy(x) == {y \in Below(x) : \A z \in Path(x, y) : tracker[z] = "built" /\ Alive(z)}

\* PrometheusTaskMetrics: one counter of the six
Incremented(m, c) == [m EXCEPT ![c] = @ + 1]

\* A metric of x is incremented on x and, through parent_metrics, on all above.
Bump(x, c) ==
    metrics' = [y \in Tracker |->
                  IF y \in Ancestors[x] THEN Incremented(metrics[y], c) ELSE metrics[y]]

-----------------------------------------------------------------------------
Init ==
    /\ tracker  = [x \in Tracker |-> IF x = Root THEN "built" ELSE "absent"]
    /\ handle   = [x \in Tracker |-> x = Root]
    /\ strong   = [x \in Tracker |-> FALSE]
    /\ closed   = [x \in Tracker |-> FALSE]
    /\ token    = [x \in Tracker |-> FALSE]
    /\ \E s \in Scheduler, p \in Policy :
          sched = [x \in Tracker |-> s] /\ policy = [x \in Tracker |-> p]
    /\ metrics  = [x \in Tracker |-> [c \in Counter |-> 0]]
    /\ failures = [x \in Tracker |-> 0]
    /\ permits  = Permits
    /\ phase    = [t \in Task |-> "idle"]
    /\ owner    = [t \in Task |-> NoTracker]
    /\ kind     = [t \in Task |-> "regular"]
    /\ ttoken   = [t \in Task |-> FALSE]
    /\ holds    = [t \in Task |-> FALSE]
    /\ started  = [t \in Task |-> FALSE]
    /\ attempts = [t \in Task |-> 0]
    /\ errors   = [t \in Task |-> 0]
    /\ late     = [t \in Task |-> FALSE]
    /\ join     = [x \in Tracker |-> [pc |-> "idle", at |-> NoTracker, todo |-> {}, done |-> {}]]

-----------------------------------------------------------------------------
(***************************************************************************)
(* Building trackers.                                                       *)
(***************************************************************************)

\* child_tracker and ChildTrackerBuilder::build test is_closed() first ...
ChildCheck(c, p) ==
    /\ IsChildOf(c, p)
    /\ tracker[p] = "built" /\ handle[p]
    /\ tracker[c] = "absent"
    /\ ~closed[p]
    /\ tracker' = [tracker EXCEPT ![c] = "building"]
    /\ UNCHANGED <<handle, strong, sched, policy, tokenVars, countVars, taskVars, join>>

\* ... and then push the child, whatever happened to the parent in between.
\* child_tracker inherits scheduler and policy and keeps the parent alive.
ChildTracker(c, p) ==
    /\ IsChildOf(c, p)
    /\ tracker[c] = "building"
    /\ tracker' = [tracker EXCEPT ![c] = "built"]
    /\ handle' = [handle EXCEPT ![c] = TRUE]
    /\ strong' = [strong EXCEPT ![c] = TRUE]
    /\ sched' = [sched EXCEPT ![c] = sched[p]]
    /\ policy' = [policy EXCEPT ![c] = policy[p]]
    /\ UNCHANGED <<tokenVars, countVars, taskVars, join>>

\* The builder may be given a scheduler and a policy of its own; it sets the
\* parent reference to None.
ChildBuild(c, p) ==
    /\ IsChildOf(c, p)
    /\ tracker[c] = "building"
    /\ tracker' = [tracker EXCEPT ![c] = "built"]
    /\ handle' = [handle EXCEPT ![c] = TRUE]
    /\ strong' = [strong EXCEPT ![c] = FALSE]
    /\ \E s \in Scheduler : sched' = [sched EXCEPT ![c] = s]
    /\ \E q \in Policy : policy' = [policy EXCEPT ![c] = q]
    /\ UNCHANGED <<tokenVars, countVars, taskVars, join>>

\* The caller drops its handle; nobody is in the middle of a call on it.
DropHandle(x) ==
    /\ tracker[x] = "built" /\ handle[x]
    /\ \A c \in Tracker : IsChildOf(c, x) => tracker[c] # "building"
    /\ \A t \in Task : owner[t] = x => phase[t] # "spawning"
    /\ join[x].pc \in {"idle", "done"}
    /\ handle' = [handle EXCEPT ![x] = FALSE]
    /\ UNCHANGED <<tracker, strong, sched, policy, tokenVars, countVars, taskVars, join>>

-----------------------------------------------------------------------------
(***************************************************************************)
(* Spawning and cancelling.                                                 *)
(***************************************************************************)

\* spawn and spawn_cancellable read is_closed() ...
SpawnCheck(t, x, k) ==
    /\ tracker[x] = "built" /\ handle[x]
    /\ phase[t] = "idle"
    /\ ~closed[x]
    /\ phase' = [phase EXCEPT ![t] = "spawning"]
    /\ owner' = [owner EXCEPT ![t] = x]
    /\ kind' = [kind EXCEPT ![t] = k]
    /\ UNCHANGED <<ttoken, holds, started, attempts, errors, late, permits,
                   trackerVars, tokenVars, countVars, join>>

\* ... and then register with the tokio tracker, which accepts tasks even if it
\* has been closed since.
SpawnRegister(t) ==
    /\ phase[t] = "spawning"
    /\ phase' = [phase EXCEPT ![t] = "scheduled"]
    /\ late' = [late EXCEPT ![t] = closed[owner[t]]]
    /\ Bump(owner[t], "issued")
    /\ UNCHANGED <<owner, kind, ttoken, holds, started, attempts, errors, permits,
                   trackerVars, tokenVars, failures, join>>

\* TaskTracker::cancel
CancelTracker(x) ==
    /\ tracker[x] = "built" /\ handle[x]
    /\ token' = [token EXCEPT ![x] = TRUE]
    /\ closed' = [closed EXCEPT ![x] = TRUE]
    /\ UNCHANGED <<trackerVars, countVars, taskVars, join>>

\* cancellation_token().cancel(): the token alone, the tracker stays open.
CancelToken(x) ==
    /\ tracker[x] = "built" /\ handle[x]
    /\ token' = [token EXCEPT ![x] = TRUE]
    /\ UNCHANGED <<closed, trackerVars, countVars, taskVars, join>>

\* TaskHandle::cancellation_token().cancel()
CancelTask(t) ==
    /\ phase[t] \in Live \ {"spawning"}
    /\ ttoken' = [ttoken EXCEPT ![t] = TRUE]
    /\ UNCHANGED <<phase, owner, kind, holds, started, attempts, errors, late, permits,
                   trackerVars, tokenVars, countVars, join>>

-----------------------------------------------------------------------------
(***************************************************************************)
(* execute_with_retry_loop.                                                 *)
(***************************************************************************)

Semaphore(t) == sched[owner[t]] \notin Unlimited

\* Mutant of Release: only a running task gives its permit back.
ReleaseRunning(t) ==
    /\ holds' = [holds EXCEPT ![t] = FALSE]
    /\ permits' = IF holds[t] /\ phase[t] = "running"
                  THEN [permits EXCEPT ![sched[owner[t]]] = @ + 1] ELSE permits

\* What dropping guard_result does when the task's future ends.
Release(t) ==
    /\ holds' = [holds EXCEPT ![t] = FALSE]
    /\ permits' = IF holds[t] THEN [permits EXCEPT ![sched[owner[t]]] = @ + 1] ELSE permits

\* The task leaves the loop with a result that is counted.
Finish(t, result) ==
    /\ phase' = [phase EXCEPT ![t] = result]
    /\ Release(t)
    /\ Bump(owner[t], result)

\* Mutant of SlotCancelled: a rescheduled task is given no token.
SlotCancelledOnce(t) == phase[t] \in {"scheduled", "waiting"} /\ TaskCancelled(t)

\* The token the scheduler is given: the task's on the first acquisition, the
\* tracker's when a continuation is rescheduled.
SlotCancelled(t) ==
    IF phase[t] \in {"scheduled", "waiting"} THEN TaskCancelled(t) ELSE Cancelled(owner[t])

\* Mutant of Start: every acquisition counts as a start.
StartAgain(t) ==
    /\ phase' = [phase EXCEPT ![t] = "running"]
    /\ started' = [started EXCEPT ![t] = TRUE]
    /\ Bump(owner[t], "started")

\* active_guard.activate() and the first poll of the body.
Start(t) ==
    /\ phase' = [phase EXCEPT ![t] = "running"]
    /\ started' = [started EXCEPT ![t] = TRUE]
    /\ IF started[t] THEN UNCHANGED metrics ELSE Bump(owner[t], "started")

\* The scheduler sees a cancelled token, before or while it waits for a permit.
AcquireCancelled(t) ==
    /\ phase[t] \in {"scheduled", "waiting", "rescheduled", "rewaiting"}
    /\ SlotCancelled(t)
    /\ Finish(t, "cancelled")
    /\ UNCHANGED <<owner, kind, ttoken, started, attempts, errors, late,
                   trackerVars, tokenVars, failures, join>>

\* A scheduler of the user's may refuse; neither of the two built in ever does.
AcquireRejected(t) ==
    /\ phase[t] \in {"scheduled", "rescheduled"}
    /\ sched[owner[t]] \in Rejecting
    /\ Finish(t, "rejected")
    /\ UNCHANGED <<owner, kind, ttoken, started, attempts, errors, late,
                   trackerVars, tokenVars, failures, join>>

\* UnlimitedScheduler, with no cancellation seen, starts the body at once.
AcquireUnlimited(t) ==
    /\ phase[t] \in {"scheduled", "rescheduled"}
    /\ ~SlotCancelled(t)
    /\ ~Semaphore(t)
    /\ Start(t)
    /\ UNCHANGED <<owner, kind, ttoken, holds, attempts, errors, late, permits,
                   trackerVars, tokenVars, failures, join>>

\* SemaphoreScheduler, with no cancellation seen, enters the select!.
AcquireWait(t) ==
    /\ phase[t] \in {"scheduled", "rescheduled"}
    /\ ~SlotCancelled(t)
    /\ Semaphore(t)
    /\ phase' = [phase EXCEPT ![t] = IF @ = "scheduled" THEN "waiting" ELSE "rewaiting"]
    /\ UNCHANGED <<owner, kind, ttoken, holds, started, attempts, errors, late, permits,
                   trackerVars, tokenVars, countVars, join>>

\* The permit branch of the select!; it may win against a ready cancellation.
\* A rescheduled task still holds its old guard, which is dropped only when the
\* new one is assigned over it: it needs a second permit to be free.
AcquirePermit(t) ==
    /\ phase[t] \in {"waiting", "rewaiting"}
    /\ permits[sched[owner[t]]] > 0
    /\ permits' = IF holds[t] THEN permits ELSE [permits EXCEPT ![sched[owner[t]]] = @ - 1]
    /\ holds' = [holds EXCEPT ![t] = TRUE]
    /\ Start(t)
    /\ UNCHANGED <<owner, kind, ttoken, attempts, errors, late,
                   trackerVars, tokenVars, failures, join>>

Succeed(t) ==
    /\ phase[t] = "running"
    /\ Finish(t, "success")
    /\ UNCHANGED <<owner, kind, ttoken, started, attempts, errors, late,
                   trackerVars, tokenVars, failures, join>>

\* A cancellable body, or a cancellable continuation of any body, returns
\* Cancelled; nothing makes it wait for its token to do so.
ReturnCancelled(t) ==
    /\ phase[t] = "running"
    /\ kind[t] = "cancellable" \/ attempts[t] > 0
    /\ Finish(t, "cancelled")
    /\ UNCHANGED <<owner, kind, ttoken, started, attempts, errors, late,
                   trackerVars, tokenVars, failures, join>>

\* ThresholdCancelPolicy: by the failures of this task, not of the tracker
ThresholdAnswer(n) == IF n >= MaxFailures THEN {"Shutdown"} ELSE {"Fail"}

\* RateCancelPolicy, whose window is not implemented
RateAnswer == {"Fail"}

\* TriggerCancellationTokenOnError: its action cancels the token it was given and
\* asks for a shutdown
TriggerAnswer == {"Shutdown"}

\* What OnErrorPolicy::on_error may answer, given the on_error calls made for
\* this task, this one included.
OnError(p, n) ==
    CASE p = "LogOnly"          -> {"Fail"}
      [] p = "CancelOnError"    -> {"Shutdown"}
      [] p = "CancelOnPatterns" -> {"Fail", "Shutdown"}
      [] p = "Threshold"        -> ThresholdAnswer(n)
      [] p = "Rate"             -> RateAnswer
      [] p = "TriggerToken"     -> TriggerAnswer
      [] p = "Custom"           -> {"Fail", "Shutdown", "Continue"}

\* should_reschedule: only a user's policy overrides the default.
ShouldReschedule(p) == IF p = "Custom" THEN {TRUE, FALSE} ELSE {FALSE}

\* The loop goes round with a continuation, with the same guard or a new one.
Continue(t, p) ==
    /\ \E r \in ShouldReschedule(p) :
          phase' = [phase EXCEPT ![t] = IF r THEN "rescheduled" ELSE "running"]
    /\ UNCHANGED <<holds, permits, metrics, tokenVars>>

\* The body failed with FailedWithContinuation and the policy allows it: the
\* policy's on_error is not consulted.
FailWithContinuation(t) ==
    /\ phase[t] = "running"
    /\ attempts[t] < MaxAttempts
    /\ attempts' = [attempts EXCEPT ![t] = @ + 1]
    /\ Continue(t, policy[owner[t]])
    /\ UNCHANGED <<owner, kind, ttoken, started, errors, late, trackerVars, failures, join>>

\* The body failed with a plain error, or with a continuation the policy does
\* not allow: handle_task_error asks the policy and the loop acts on the answer.
FailWithError(t) ==
    LET x == owner[t]
        p == policy[x]
        n == errors[t] + 1
    IN
    /\ phase[t] = "running"
    /\ attempts' = [attempts EXCEPT ![t] = @ + 1]
    /\ errors' = [errors EXCEPT ![t] = n]
    /\ failures' = IF p = "Threshold" THEN [failures EXCEPT ![x] = @ + 1] ELSE failures
    /\ \/ /\ "Fail" \in OnError(p, n)
          /\ Finish(t, "failed")
          /\ UNCHANGED tokenVars
       \/ /\ "Shutdown" \in OnError(p, n)
          /\ Finish(t, "failed")
          /\ token' = [token EXCEPT ![x] = TRUE]
          /\ closed' = [closed EXCEPT ![x] = TRUE]
       \/ /\ "Continue" \in OnError(p, n)
          /\ attempts[t] < MaxAttempts
          /\ Continue(t, p)
    /\ UNCHANGED <<owner, kind, ttoken, started, late, trackerVars, join>>

\* TaskHandle::abort, or a panic of the body: the future is dropped where it
\* stands, its guard with it, and no counter is touched.
Abort(t) ==
    /\ phase[t] \in Live \ {"spawning"}
    /\ phase' = [phase EXCEPT ![t] = "aborted"]
    /\ Release(t)
    /\ UNCHANGED <<owner, kind, ttoken, started, attempts, errors, late,
                   trackerVars, tokenVars, countVars, join>>

-----------------------------------------------------------------------------
(***************************************************************************)
(* join().                                                                  *)
(***************************************************************************)

\* collect_hierarchy takes its snapshot of the trackers to go through.
JoinStart(x) ==
    /\ x \in Joined
    /\ tracker[x] = "built" /\ handle[x]
    /\ join[x].pc = "idle"
    /\ join' = [join EXCEPT ![x] = [pc |-> "close", at |-> NoTracker,
                                    todo |-> Hierarchy(x), done |-> {}]]
    /\ UNCHANGED <<trackerVars, tokenVars, countVars, taskVars>>

\* The next tracker in children-first order is closed ...
JoinClose(x, y) ==
    /\ join[x].pc = "close"
    /\ y \in join[x].todo
    /\ \A z \in join[x].todo : y \in Ancestors[z] => z = y
    /\ closed' = [closed EXCEPT ![y] = TRUE]
    /\ join' = [join EXCEPT ![x] = [@ EXCEPT !.pc = "wait", !.at = y]]
    /\ UNCHANGED <<token, trackerVars, countVars, taskVars>>

\* Mutants of JoinWait: queued tasks are not waited for; an aborted one always is;
\* the next tracker is not closed.
JoinPast(x) ==
    LET y == join[x].at
        rest == join[x].todo \ {y}
    IN
    /\ join[x].pc = "wait"
    /\ join' = [join EXCEPT ![x] = [pc |-> IF rest = {} THEN "done" ELSE "close",
                                    at |-> NoTracker, todo |-> rest, done |-> @.done \cup {y}]]
    /\ UNCHANGED <<trackerVars, tokenVars, countVars, taskVars>>

JoinWaitRunning(x) ==
    /\ \A t \in Task : owner[t] = join[x].at => phase[t] # "running"
    /\ JoinPast(x)

JoinWaitResult(x) ==
    /\ \A t \in Task : owner[t] = join[x].at => phase[t] \in (Ended \ {"aborted"}) \cup {"spawning"}
    /\ JoinPast(x)

\* ... and join waits until no registered task of it is left.
JoinWait(x) ==
    LET y == join[x].at
        rest == join[x].todo \ {y}
    IN
    /\ join[x].pc = "wait"
    /\ \A t \in Task : owner[t] = y => phase[t] \in Ended \cup {"spawning"}
    /\ join' = [join EXCEPT ![x] = [pc |-> IF rest = {} THEN "done" ELSE "close",
                                    at |-> NoTracker, todo |-> rest, done |-> @.done \cup {y}]]
    /\ UNCHANGED <<trackerVars, tokenVars, countVars, taskVars>>

-----------------------------------------------------------------------------
TrackerStep ==
    \/ \E c, p \in Tracker : ChildCheck(c, p) \/ ChildTracker(c, p) \/ ChildBuild(c, p)
    \/ \E x \in Tracker : DropHandle(x) \/ CancelTracker(x) \/ CancelToken(x)

JoinStep ==
    \/ \E x \in Tracker : JoinStart(x) \/ JoinWait(x)
    \/ \E x, y \in Tracker : JoinClose(x, y)

SpawnStep ==
    \/ \E t \in Task, x \in Tracker, k \in Kind : SpawnCheck(t, x, k)
    \/ \E t \in Task : SpawnRegister(t)

TaskStep(t) ==
    \/ CancelTask(t) \/ Abort(t)
    \/ AcquireCancelled(t) \/ AcquireRejected(t) \/ AcquireUnlimited(t) \/ AcquireWait(t) \/ AcquirePermit(t)
    \/ Succeed(t) \/ ReturnCancelled(t) \/ FailWithContinuation(t) \/ FailWithError(t)

Next ==
    \/ TrackerStep
    \/ JoinStep
    \/ SpawnStep
    \/ \E t \in Task : TaskStep(t)

Spec == Init /\ [][Next]_vars

\* A call on a tracker or a poll of a task that can go on does go on: tokio
\* polls every woken task, and its semaphore serves waiters in order (hence
\* strong fairness on taking a permit, which others may take in between).
SchedulingFairness ==
    /\ \A t \in Task :
          /\ WF_vars(SpawnRegister(t))
          /\ WF_vars(AcquireCancelled(t) \/ AcquireUnlimited(t) \/ AcquireWait(t))
          /\ SF_vars(AcquirePermit(t))
    /\ \A x \in Tracker : WF_vars(JoinWait(x)) /\ WF_vars(\E y \in Tracker : JoinClose(x, y))

\* Bodies that are given a token end once it is cancelled.  That token is a
\* child of the tracker's, not of the task's own.
ObedientBodies == \A t \in Task : WF_vars(ReturnCancelled(t) /\ Cancelled(owner[t]))

ObedientSpec == Spec /\ SchedulingFairness /\ ObedientBodies

-----------------------------------------------------------------------------
(***************************************************************************)
(* Safety.                                                                  *)
(***************************************************************************)

Registered(t) == phase[t] \notin {"idle", "spawning"}

\* What each counter stands for.
Counts(t, c) ==
    /\ Registered(t)
    /\ CASE c = "issued"  -> TRUE
         [] c = "started" -> started[t]
         [] OTHER         -> phase[t] = c

\* The tasks of x and of the trackers below it that a counter of x counts.
Counted(x, c) == {t \in Task : Counts(t, c) /\ x \in Ancestors[owner[t]]}

\* Hierarchical counters: whatever the order of spawns, retries, aborts and
\* cancellations, each counter of a tracker (HierarchicalTaskMetrics) is the
\* number of tasks below it that it stands for: a task is counted once however
\* often it is retried, and on every ancestor.
MetricsMatch == \A x \in Tracker, c \in Counter : metrics[x][c] = Cardinality(Counted(x, c))

Holders(s) == {t \in Task : holds[t] /\ sched[owner[t]] = s}

\* No permit of a SemaphoreScheduler leaks or is made up on any way out of
\* execute_with_retry_loop: success, failure, cancellation, abort or retry.
PermitsConserved == \A s \in Scheduler : permits[s] + Cardinality(Holders(s)) = Permits[s]

\* Once join() has got past a tracker, every task registered there before the
\* tracker was closed has ended, and a tracker is got past only after all the
\* trackers of the snapshot below it.
JoinWaited ==
    \A x \in Tracker : \A y \in join[x].done :
        /\ \A t \in Task : owner[t] = y /\ Registered(t) /\ ~late[t] => phase[t] \in Ended
        /\ \A z \in join[x].todo : y \notin Ancestors[z]

-----------------------------------------------------------------------------
(***************************************************************************)
(* Liveness.                                                                *)
(***************************************************************************)

\* Cancelling a tracker (cancel(), its token, or a Shutdown answer of its
\* policy) ends every cancellable task below it, queued, running or retrying.
CancelledTasksEnd ==
    \A t \in Task :
        (Registered(t) /\ kind[t] = "cancellable" /\ Cancelled(owner[t])) ~> phase[t] \in Ended

\* cancel() followed by join(), in either order, shuts a tracker down: join()
\* gets through its snapshot, tasks that came in behind the check of
\* is_closed() included, unless a body that was given no token runs on.
JoinReturns ==
    \A x \in Tracker :
        join[x].pc = "close" /\ Cancelled(x)
        ~> join[x].pc = "done" \/ \E t \in Task : kind[t] = "regular" /\ phase[t] = "running"

-----------------------------------------------------------------------------
(***************************************************************************)
(* What a comment says and the code does not do.                            *)
(***************************************************************************)

\* join() shuts the whole hierarchy down: every task that is registered below
\* the tracker when it starts is on a tracker that it goes through.
JoinCoversHierarchy ==
    [][\A x \in Tracker : join[x].pc = "idle" /\ join'[x].pc = "close" =>
          \A t \in Task : Registered(t) /\ phase[t] \notin Ended /\ x \in Ancestors[owner[t]]
                              => owner[t] \in join'[x].todo]_vars
=============================================================================
