----------------------------- MODULE ThreadPool -----------------------------
(***************************************************************************)
(* The thread pool with its workers and futures (fcp/base/scheduler.cc,    *)
(* fcp/base/future.h), used as the InterruptibleRunner and the SecAgg      *)
(* server use it: an owner schedules tasks, some through a Worker that     *)
(* runs its tasks one after the other, some with a future it waits for,    *)
(* then waits until the pool is idle and destroys it.                      *)
(*                                                                         *)
(* Every critical section of busy_ is one step; between them any thread    *)
(* may run.  A condition variable wakes one of the threads parked on it,   *)
(* and may wake one that nobody signalled.                                 *)
(***************************************************************************)
EXTENDS Integers, Sequences, FiniteSets

LOCAL INSTANCE SequencesExt

CONSTANTS
    Threads,   \* the threads of the pool
    MaxTasks   \* bound on the tasks the owner schedules

VARIABLES
    todo,      \* todo_: the tasks of the pool
    active,    \* active_count_
    joining,   \* threads_should_join_
    thread,    \* each thread: where it is, and the task it has
    strand,    \* the Worker: running_ and steps_
    future,    \* the state of each task's future
    owner,     \* where the owner is
    history    \* the tasks scheduled on the Worker, started and finished there, in order

poolVars == <<todo, active, joining, thread, strand, future, owner, history>>

\* A task: its number, and whether it is one of the Worker's.
Task(n, ofWorker) == [n |-> n, ofWorker |-> ofWorker]
NoTask == Task(0, FALSE)

-----------------------------------------------------------------------------
(* ThreadPoolScheduler.                                                    *)

Parked == {t \in Threads : thread[t].pc = "parked"}

\* Schedule, under busy_: the task is queued and a single parked thread is woken.
PoolSchedule(task, threads) ==
    /\ todo' = Append(todo, task)
    /\ \/ /\ \E t \in Threads : /\ threads[t].pc = "parked"
                                /\ thread' = [threads EXCEPT ![t].pc = "woken"]
       \/ /\ \A t \in Threads : threads[t].pc # "parked"
          /\ thread' = threads

\* Defective variant: the tasks that run are not looked at.
IdleConditionOfQueue == todo = <<>>

IdleCondition == todo = <<>> /\ active = 0

\* The inside of PerThreadActivity's loop from the wait on, with n threads active.
NextTask(t, n) ==
    IF todo = <<>>
    THEN /\ thread' = [thread EXCEPT ![t] = [pc |-> IF joining THEN "joined" ELSE "parked", task |-> NoTask]]
         /\ active' = n
         /\ UNCHANGED todo
    ELSE /\ thread' = [thread EXCEPT ![t] = [pc |-> "running", task |-> Head(todo)]]
         /\ todo' = Tail(todo)
         /\ active' = n + 1

\* A thread that has started, or has done its task.
Arrive(t) ==
    /\ thread[t].pc \in {"started", "finished"}
    /\ NextTask(t, active - 1)
    /\ UNCHANGED <<joining, strand, future, owner, history>>

\* A thread that was woken, and has the lock again.
Wake(t) ==
    /\ thread[t].pc = "woken"
    /\ NextTask(t, active)
    /\ UNCHANGED <<joining, strand, future, owner, history>>

WakeSpuriously(t) ==
    /\ thread[t].pc = "parked"
    /\ thread' = [thread EXCEPT ![t].pc = "woken"]
    /\ UNCHANGED <<todo, active, joining, strand, future, owner, history>>

-----------------------------------------------------------------------------
(* WorkerImpl.                                                             *)

\* MaybeRunNext, under the worker's busy_, for a worker in state s.
MaybeRunNext(s, threads) ==
    IF s.running \/ s.steps = <<>>
    THEN strand' = s /\ thread' = threads /\ UNCHANGED todo
    ELSE /\ strand' = [running |-> TRUE, steps |-> Tail(s.steps)]
         /\ PoolSchedule(Head(s.steps), threads)

-----------------------------------------------------------------------------
(* What a thread does with its task.                                       *)

\* The task's own function begins and ends; its future is set when it has ended.
StartTask(t) ==
    /\ thread[t].pc = "running"
    /\ thread' = [thread EXCEPT ![t].pc = "inside"]
    /\ history' = IF thread[t].task.ofWorker
                  THEN [history EXCEPT !.started = Append(@, thread[t].task.n)] ELSE history
    /\ UNCHANGED <<todo, active, joining, strand, future, owner>>

EndTask(t) ==
    /\ thread[t].pc = "inside"
    /\ IF thread[t].task.ofWorker
       THEN /\ thread' = [thread EXCEPT ![t].pc = "ran"]
            /\ history' = [history EXCEPT !.finished = Append(@, thread[t].task.n)]
            /\ UNCHANGED future
       ELSE /\ thread' = [thread EXCEPT ![t].pc = "finished"]
            /\ future' = [future EXCEPT ![thread[t].task.n] = "kSet"]
            /\ UNCHANGED history
    /\ UNCHANGED <<todo, active, joining, strand, owner>>

\* After a task of the Worker: its next one, if there is one, goes to the pool.
WorkerTaskEnds(t) ==
    /\ thread[t].pc = "ran"
    /\ MaybeRunNext([strand EXCEPT !.running = FALSE], [thread EXCEPT ![t].pc = "finished"])
    /\ UNCHANGED <<active, joining, future, owner, history>>

-----------------------------------------------------------------------------
(* The owner.                                                              *)

Scheduled == Cardinality({n \in 1..MaxTasks : future[n] # "none"}) + Len(history.scheduled)

\* ScheduleFuture.
ScheduleFuture ==
    /\ owner = "scheduling" /\ Scheduled < MaxTasks
    /\ PoolSchedule(Task(Scheduled + 1, FALSE), thread)
    /\ future' = [future EXCEPT ![Scheduled + 1] = "kNotSet"]
    /\ UNCHANGED <<active, joining, strand, owner, history>>

\* Worker::Schedule.
WorkerSchedule ==
    /\ owner = "scheduling" /\ Scheduled < MaxTasks
    /\ MaybeRunNext([strand EXCEPT !.steps = Append(@, Task(Scheduled + 1, TRUE))], thread)
    /\ history' = [history EXCEPT !.scheduled = Append(@, Scheduled + 1)]
    /\ UNCHANGED <<active, joining, future, owner>>

\* Future::Take of one of the tasks: it waits until the value is there.
Take(n) ==
    /\ owner = "scheduling" /\ future[n] = "kSet"
    /\ future' = [future EXCEPT ![n] = "kTaken"]
    /\ UNCHANGED <<todo, active, joining, thread, strand, owner, history>>

\* The destructor of the owner waits until the pool is idle ...
StopScheduling ==
    /\ owner = "scheduling"
    /\ owner' = "waiting"
    /\ UNCHANGED <<todo, active, joining, thread, strand, future, history>>

WaitUntilIdle ==
    /\ owner = "waiting" /\ IdleCondition
    /\ owner' = "idle"
    /\ UNCHANGED <<todo, active, joining, thread, strand, future, history>>

\* ... and destroys it, which crashes if it is not; every thread is woken to leave.
DestroyPool ==
    /\ owner = "idle"
    /\ IF IdleCondition
       THEN /\ owner' = "joining" /\ joining' = TRUE
            /\ thread' = [t \in Threads |-> IF t \in Parked THEN [thread[t] EXCEPT !.pc = "woken"] ELSE thread[t]]
       ELSE owner' = "crashed" /\ UNCHANGED <<joining, thread>>
    /\ UNCHANGED <<todo, active, strand, future, history>>

Join ==
    /\ owner = "joining" /\ \A t \in Threads : thread[t].pc = "joined"
    /\ owner' = "destroyed"
    /\ UNCHANGED <<todo, active, joining, thread, strand, future, history>>

-----------------------------------------------------------------------------
PoolInit ==
    /\ todo = <<>>
    /\ active = Cardinality(Threads)
    /\ joining = FALSE
    /\ thread = [t \in Threads |-> [pc |-> "started", task |-> NoTask]]
    /\ strand = [running |-> FALSE, steps |-> <<>>]
    /\ future = [n \in 1..MaxTasks |-> "none"]
    /\ owner = "scheduling"
    /\ history = [scheduled |-> <<>>, started |-> <<>>, finished |-> <<>>]

ThreadStep(t) == Arrive(t) \/ Wake(t) \/ StartTask(t) \/ EndTask(t) \/ WorkerTaskEnds(t)

OwnerEnds == StopScheduling \/ WaitUntilIdle \/ DestroyPool \/ Join

OwnerStep ==
    \/ ScheduleFuture \/ WorkerSchedule \/ OwnerEnds
    \/ \E n \in 1..MaxTasks : Take(n)

PoolNext == OwnerStep \/ \E t \in Threads : ThreadStep(t) \/ WakeSpuriously(t)

\* Every thread that can go on does, and so do the owner's waits.
PoolFairness ==
    /\ \A t \in Threads : WF_poolVars(ThreadStep(t))
    /\ WF_poolVars(OwnerEnds)

PoolSpec == PoolInit /\ [][PoolNext]_poolVars /\ PoolFairness

-----------------------------------------------------------------------------
(* Properties.                                                             *)

\* The tasks of a Worker start in the order in which they were scheduled, each after the one before
\* has ended, on whatever threads they run; and once WaitUntilIdle has returned every task has
\* run, so that the pool can be destroyed.
WorkersAreSequential ==
    /\ IsPrefix(history.started, history.scheduled)
    /\ IsPrefix(history.finished, history.started)
    /\ Len(history.started) - Len(history.finished) \in {0, 1}
    /\ owner \in {"idle", "joining", "destroyed"} =>
           /\ history.finished = history.scheduled
           /\ \A n \in 1..MaxTasks : future[n] # "kNotSet"
    /\ owner # "crashed"

\* No wake-up is lost: the owner gets to destroy the pool, for which whatever was scheduled must have
\* run.
EveryTaskRuns == <>(owner = "destroyed")
=============================================================================
