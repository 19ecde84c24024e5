---------------------------- MODULE Cancellation ----------------------------
(****************************************************************************)
(* Signals to stop, in two sections: through the contexts of requests,      *)
(* and between critical tasks.                                              *)
(****************************************************************************)
EXTENDS Naturals, Sequences, FiniteSets, SequencesExt

-----------------------------------------------------------------------------
(***************************************************************************)
(* Request contexts and the pipeline graph (pipeline/context.rs, nodes.rs).   *)
(*                                                                         *)
(* A Controller holds the state of a stream in a watch channel and a list of   *)
(* child contexts.  stop and kill copy the list under its lock, call the       *)
(* children in turn and only then send the state: every step between is one    *)
(* where other threads run.  A Frontend parks a oneshot sender under the id of *)
(* the request, pushes the request down its edge and waits for the response.   *)
(***************************************************************************)
CONSTANTS
    Contexts,           \* controllers; each request has the one of its id
    Links,              \* pairs <<parent, child>> that may be linked
    Callers,            \* threads that stop or kill
    Requests,           \* those of Contexts that go through a pipeline
    MaxAttempts         \* bound: times a request is generated with the same id

VARIABLES
    state, children,    \* of each controller: Live, Stopped, Killed; its list
    stack,              \* frames <<controller, children to call>> of a caller
    kind, reach,        \* what it calls; the contexts below it when it began
    edge,               \* the Frontend's edge is set
    sinks,              \* the ids that have a parked sender
    phase, attempts,       \* where a request is
    orphans             \* contexts whose response nobody received

pipeVars == <<state, children, stack, kind, reach, edge, sinks, phase, attempts, orphans>>
treeVars  == <<state, children, stack, kind, reach>>
frontVars == <<edge, sinks, phase, attempts, orphans>>

PipeInit ==
    /\ state = [c \in Contexts |-> "Live"] /\ children = [c \in Contexts |-> <<>>]
    /\ stack = [t \in Callers |-> <<>>] /\ kind = [t \in Callers |-> "none"]
    /\ reach = [t \in Callers |-> {}]
    /\ edge = FALSE /\ sinks = {} /\ phase = [r \in Requests |-> "idle"]
    /\ attempts = [r \in Requests |-> 0] /\ orphans = {}

-----------------------------------------------------------------------------
(* Controller *)

\* A context and those linked below it: what is in every set that has it and, with a
\* context, the children of that.
Closed(S) == \A c \in S : ToSet(children[c]) \subseteq S
Below(c) == {d \in Contexts : \A S \in SUBSET Contexts : Closed(S) /\ c \in S => d \in S}

LinkChild(l) ==
    /\ ~Contains(children[l[1]], l[2])
    /\ children' = [children EXCEPT ![l[1]] = Append(@, l[2])]
    /\ UNCHANGED <<state, stack, kind, reach, frontVars>>

\* stop, stop_generating and kill begin alike: the list is copied under the lock.
Call(t, c, k) ==
    /\ kind[t] = "none"
    /\ kind' = [kind EXCEPT ![t] = k]
    /\ stack' = [stack EXCEPT ![t] = <<<<c, children[c]>>>>]
    /\ reach' = [reach EXCEPT ![t] = Below(c)]
    /\ UNCHANGED <<state, children, frontVars>>

Enter(t) ==
    /\ stack[t] # <<>> /\ Last(stack[t])[2] # <<>>
    /\ LET f == Last(stack[t]) d == Head(f[2])
       IN  stack' = [stack EXCEPT ![t] = Append(Append(Front(@), <<f[1], Tail(f[2])>>),
                                                <<d, children[d]>>)]
    /\ UNCHANGED <<state, children, kind, reach, frontVars>>

\* Whatever the state is, send replaces it.
Send(t) ==
    /\ stack[t] # <<>> /\ Last(stack[t])[2] = <<>>
    /\ state' = [state EXCEPT ![Last(stack[t])[1]] =
                    IF kind[t] = "kill" THEN "Killed" ELSE "Stopped"]
    /\ stack' = [stack EXCEPT ![t] = Front(@)]
    /\ UNCHANGED <<children, kind, reach, frontVars>>

IsStopped(c) == state[c] # "Live"
IsKilled(c)  == state[c] = "Killed"

-----------------------------------------------------------------------------
(* Frontend, edges and the backend behind them *)

SetEdge ==
    /\ ~edge /\ edge' = TRUE
    /\ UNCHANGED <<treeVars, sinks, phase, attempts, orphans>>

\* A sender parked under the same id before is dropped by the insert.
Generate(r) ==
    /\ phase[r] \in {"idle", "failed", "dropped"} /\ attempts[r] < MaxAttempts
    /\ attempts' = [attempts EXCEPT ![r] = @ + 1]
    /\ sinks' = sinks \cup {r}
    /\ phase' = [phase EXCEPT ![r] = IF edge THEN "engine" ELSE "failed"]
    /\ UNCHANGED <<treeVars, edge, orphans>>

\* The operator or the engine at the end fails: the error goes up through on_next.
EngineFails(r) ==
    /\ phase[r] = "engine" /\ phase' = [phase EXCEPT ![r] = "failed"]
    /\ UNCHANGED <<treeVars, edge, sinks, attempts, orphans>>

\* Behind a network edge the engine runs on when the caller's future is dropped.
DropRequest(r) ==
    /\ phase[r] = "engine" /\ phase' = [phase EXCEPT ![r] = "dropped"]
    /\ UNCHANGED <<treeVars, edge, sinks, attempts, orphans>>

\* Mutant of Orphaned: the response is dropped, and the stream goes on.
OrphanedQuietly(r) == orphans' = orphans \cup {r} /\ UNCHANGED state

Orphaned(r) ==
    /\ orphans' = orphans \cup {r}
    /\ state' = [state EXCEPT ![r] = "Stopped"]

\* Frontend::on_data: without a sender, or with a receiver that is gone, the
\* stream's context is told to stop.
OnData(r) ==
    /\ phase[r] \in {"engine", "dropped"}
    /\ sinks' = sinks \ {r}
    /\ IF phase[r] = "engine" /\ r \in sinks
       THEN phase' = [phase EXCEPT ![r] = "response"] /\ UNCHANGED <<state, orphans>>
       ELSE phase' = [phase EXCEPT ![r] = "failed"] /\ Orphaned(r)
    /\ UNCHANGED <<children, stack, kind, reach, edge, attempts>>

-----------------------------------------------------------------------------
Step(t) == Enter(t) \/ Send(t)

PipeNext ==
    \/ \E l \in Links : LinkChild(l)
    \/ \E t \in Callers : Step(t) \/ \E c \in Contexts, k \in {"stop", "kill"} : Call(t, c, k)
    \/ SetEdge
    \/ \E r \in Requests : Generate(r) \/ EngineFails(r) \/ DropRequest(r) \/ OnData(r)

-----------------------------------------------------------------------------
\* When a stop or a kill has returned, the context and every context that was below
\* it when the call began have been told, whatever was linked or called meanwhile.
StopReaches ==
    \A t \in Callers : kind[t] # "none" /\ stack[t] = <<>> =>
        \A c \in reach[t] :
            /\ IsStopped(c)
            /\ kind[t] = "kill" /\ orphans = {} /\ (\A u \in Callers : kind[u] # "stop") => IsKilled(c)

\* A response that nobody received has its stream stopped, not left to run.
OrphansStopped == \A r \in orphans : IsStopped(r)

-----------------------------------------------------------------------------
(***************************************************************************)
(* utils/tasks/critical.rs: tasks without which the process must not go on.     *)
(* A task runs under a child of its parent's token; a monitor joins it and, if   *)
(* it failed or panicked, cancels the parent and then hands the result over.     *)
(***************************************************************************)
CONSTANT Tasks

VARIABLES
    parentCancelled,    \* parent_token, of which every task's token is a child
    childCancelled,     \* graceful_shutdown_token of each task
    body, result,       \* the task's future; what the monitor sent
    handle              \* CriticalTaskExecutionHandle: owned, joining, joined, detached, panicked

critVars == <<parentCancelled, childCancelled, body, result, handle>>
Failed == {"error", "panic", "lost"}

CritInit ==
    /\ parentCancelled = FALSE /\ childCancelled = {}
    /\ body = [t \in Tasks |-> "none"] /\ result = [t \in Tasks |-> "none"]
    /\ handle = [t \in Tasks |-> "none"]

Cancelled(t) == parentCancelled \/ t \in childCancelled

NewWithRuntime(t) ==
    /\ handle[t] = "none"
    /\ handle' = [handle EXCEPT ![t] = "owned"] /\ body' = [body EXCEPT ![t] = "running"]
    /\ UNCHANGED <<parentCancelled, childCancelled, result>>

\* The future ends: by itself, with an error or a panic, or with the runtime.
Ends(t, how) ==
    /\ body[t] = "running"
    /\ body' = [body EXCEPT ![t] = how]
    /\ UNCHANGED <<parentCancelled, childCancelled, result, handle>>

\* The monitor cancels the parent first ...
CancelParent(t) ==
    /\ body[t] \in Failed /\ result[t] = "none" /\ ~parentCancelled
    /\ parentCancelled' = TRUE
    /\ UNCHANGED <<childCancelled, body, result, handle>>

\* Mutant of SendResult: ... the result goes out as soon as the task ended.
SendEarly(t) ==
    /\ body[t] \in Failed \cup {"ok"} /\ result[t] = "none"
    /\ result' = [result EXCEPT ![t] = IF body[t] = "ok" THEN "ok" ELSE "error"]
    /\ UNCHANGED <<parentCancelled, childCancelled, body, handle>>

\* ... then sends the result.
SendResult(t) ==
    /\ body[t] = "ok" \/ (body[t] \in Failed /\ parentCancelled)
    /\ result[t] = "none"
    /\ result' = [result EXCEPT ![t] = IF body[t] = "ok" THEN "ok" ELSE "error"]
    /\ UNCHANGED <<parentCancelled, childCancelled, body, handle>>

CancelTask(t) ==
    /\ handle[t] = "owned" /\ childCancelled' = childCancelled \cup {t}
    /\ UNCHANGED <<parentCancelled, body, result, handle>>

CancelAll ==
    /\ ~parentCancelled /\ parentCancelled' = TRUE
    /\ UNCHANGED <<childCancelled, body, result, handle>>

Join(t) ==
    /\ \/ handle[t] = "owned" /\ handle' = [handle EXCEPT ![t] = "joining"]
       \/ handle[t] = "joining" /\ result[t] # "none" /\ handle' = [handle EXCEPT ![t] = "joined"]
    /\ UNCHANGED <<parentCancelled, childCancelled, body, result>>

\* detach; or a drop without one, which panics.
Release(t, how) ==
    /\ handle[t] = "owned" /\ handle' = [handle EXCEPT ![t] = how]
    /\ UNCHANGED <<parentCancelled, childCancelled, body, result>>

CritNext ==
    \/ CancelAll
    \/ \E t \in Tasks :
         \/ NewWithRuntime(t) \/ CancelParent(t) \/ SendResult(t) \/ CancelTask(t) \/ Join(t)
         \/ \E how \in Failed \cup {"ok"} : Ends(t, how)
         \/ \E how \in {"detached", "panicked"} : Release(t, how)

\* The monitor is polled to its end.
Monitor(t) == CancelParent(t) \/ SendResult(t)

-----------------------------------------------------------------------------
\* Whoever learns from join that a critical task failed finds the others cancelled
\* already; and no failure goes without it, whether anybody joins or not.
FailureStopsAll ==
    /\ \A t \in Tasks : result[t] = "error" => \A u \in Tasks : Cancelled(u)
    /\ \A t \in Tasks : result[t] # "none" => (result[t] = "ok" <=> body[t] = "ok")
=============================================================================
