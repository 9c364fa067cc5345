----------------------------- MODULE Accumulator -----------------------------
(***************************************************************************)
(* Accumulator<T> of secagg_scheduler.h: generators run in parallel, their *)
(* results are accumulated one at a time on the sequential scheduler, an   *)
(* observer is called when all scheduled work is done, and the whole can   *)
(* be cancelled.                                                           *)
(*                                                                         *)
(* Every critical section of mutex_ is one action.  Between them run three *)
(* kinds of threads: the owner's (Schedule, SetAsyncObserver, Cancel,      *)
(* GetResultAndCancel), those of the parallel scheduler, and the one of    *)
(* the sequential scheduler.  Neither scheduler promises an order, so any  *)
(* ready task may run next.                                                *)
(***************************************************************************)
EXTENDS Integers, FiniteSets

CONSTANTS
  Tasks,      \* the generators that may be scheduled
  Observers   \* the callbacks that may be given to SetAsyncObserver

ASSUME TasksAssumption == IsFiniteSet(Tasks)

VARIABLES
  pc,          \* how far each task has come
  obs,         \* what became of each observer; "pending" is async_callback_
  remaining,   \* remaining_sequential_tasks_count_
  active,      \* active_count_
  cancelled,   \* is_cancelled_
  unobserved,  \* has_unobserved_work_
  value,       \* the tasks whose results are in accumulated_value_
  taken,       \* whether accumulated_value_ was moved out
  cancelPc,    \* the owner's call of Cancel
  woken        \* whether inactive_cv_ was signalled to the waiting owner

accVars == <<pc, obs, remaining, active, cancelled, unobserved, value, taken,
             cancelPc, woken>>

TaskState == {"new", "parallel", "generating", "generated", "sequential",
              "accumulating", "done", "skipped"}
ObserverState == {"new", "refused", "pending", "replaced", "queued",
                  "running", "called"}

Init ==
  /\ pc = [t \in Tasks |-> "new"]
  /\ obs = [o \in Observers |-> "new"]
  /\ remaining = 0 /\ active = 0
  /\ cancelled = FALSE /\ unobserved = FALSE
  /\ value = {} /\ taken = FALSE
  /\ cancelPc = "none" /\ woken = FALSE

OwnerFree == cancelPc # "waiting"

(* Defective variant: no callable is running right now.                    *)
IsIdleByActiveCount == active = 0

IsIdle == remaining = 0

(* The sequential scheduler runs one closure at a time.                    *)
SequentialFree ==
  /\ \A t \in Tasks : pc[t] # "accumulating"
  /\ \A o \in Observers : obs[o] # "running"

Move(t, s) == pc' = [pc EXCEPT ![t] = s]

(* The task goes on to s, or is skipped when the accumulator is cancelled. *)
MaybeIncrementActiveCount(t, s) ==
  IF cancelled THEN Move(t, "skipped") /\ UNCHANGED active
  ELSE Move(t, s) /\ active' = active + 1

(* Defective variant: the waiting owner is not signalled.                  *)
DecrementWithoutSignal == active' = active - 1 /\ UNCHANGED woken

(* --active_count_, waking a cancelling owner at zero.                     *)
DecrementActiveCount ==
  /\ active' = active - 1
  /\ woken' = (woken \/ (active' = 0 /\ cancelled))

IncrementRemainingCount ==
  /\ unobserved' = (unobserved \/ remaining = 0)
  /\ remaining' = remaining + 1

(* Both overloads; a delay is just a later start of the generator.         *)
Schedule(t) ==
  /\ OwnerFree
  /\ pc[t] = "new"
  /\ Move(t, "parallel")
  /\ IncrementRemainingCount
  /\ UNCHANGED <<obs, active, cancelled, value, taken, cancelPc, woken>>

(* A parallel thread enters the closure of GetParallelScheduleFunc.        *)
StartGenerator(t) ==
  /\ pc[t] = "parallel"
  /\ MaybeIncrementActiveCount(t, "generating")
  /\ UNCHANGED <<obs, remaining, cancelled, unobserved, value, taken, cancelPc,
                 woken>>

FinishGenerator(t) ==
  /\ pc[t] = "generating"
  /\ Move(t, "generated")
  /\ DecrementActiveCount
  /\ UNCHANGED <<obs, remaining, cancelled, unobserved, value, taken, cancelPc>>

HandOver(t) ==
  /\ pc[t] = "generated"
  /\ Move(t, IF cancelled THEN "skipped" ELSE "sequential")
  /\ UNCHANGED <<obs, remaining, active, cancelled, unobserved, value, taken,
                 cancelPc, woken>>

StartSequential(t) ==
  /\ SequentialFree
  /\ pc[t] = "sequential"
  /\ MaybeIncrementActiveCount(t, "accumulating")
  /\ UNCHANGED <<obs, remaining, cancelled, unobserved, value, taken, cancelPc,
                 woken>>

HasCallback == \E o \in Observers : obs[o] = "pending"

CallbackIsDue == remaining' = 0 /\ HasCallback

(* accumulator_func_, then UpdateCountsAndGetCallback; a callback that is  *)
(* due runs next, still inside the closure of the sequential task.         *)
FinishSequential(t) ==
  /\ pc[t] = "accumulating"
  /\ Move(t, "done")
  /\ value' = value \cup {t}
  /\ DecrementActiveCount
  /\ remaining' = remaining - 1
  /\ IF CallbackIsDue
     THEN /\ unobserved' = FALSE
          /\ obs' = [o \in Observers |->
                       IF obs[o] = "pending" THEN "running" ELSE obs[o]]
     ELSE UNCHANGED <<unobserved, obs>>
  /\ UNCHANGED <<cancelled, taken, cancelPc>>

(* async_callback_ is overwritten, so a pending observer is replaced.      *)
SetAsyncObserver(o) ==
  /\ OwnerFree
  /\ obs[o] = "new"
  /\ IF ~unobserved
     THEN obs' = [obs EXCEPT ![o] = "refused"] /\ UNCHANGED unobserved
     ELSE IF IsIdle
     THEN obs' = [obs EXCEPT ![o] = "queued"] /\ unobserved' = FALSE
     ELSE /\ obs' = [p \in Observers |->
                       IF p = o THEN "pending"
                       ELSE IF obs[p] = "pending" THEN "replaced" ELSE obs[p]]
          /\ UNCHANGED unobserved
  /\ UNCHANGED <<pc, remaining, active, cancelled, value, taken, cancelPc, woken>>

StartObserver(o) ==
  /\ SequentialFree
  /\ obs[o] = "queued"
  /\ obs' = [obs EXCEPT ![o] = "running"]
  /\ UNCHANGED <<pc, remaining, active, cancelled, unobserved, value, taken,
                 cancelPc, woken>>

FinishObserver(o) ==
  /\ obs[o] = "running"
  /\ obs' = [obs EXCEPT ![o] = "called"]
  /\ UNCHANGED <<pc, remaining, active, cancelled, unobserved, value, taken,
                 cancelPc, woken>>

(* Its FCP_CHECK is property IdleMeansAccumulated.                         *)
GetResultAndCancel ==
  /\ ~taken
  /\ cancelled' = TRUE
  /\ taken' = TRUE
  /\ UNCHANGED <<pc, obs, remaining, active, unobserved, value, cancelPc, woken>>

Cancel ==
  /\ cancelPc = "none"
  /\ cancelled' = TRUE
  /\ cancelPc' = IF active > 0 THEN "waiting" ELSE "returned"
  /\ UNCHANGED <<pc, obs, remaining, active, unobserved, value, taken, woken>>

(* The owner leaves inactive_cv_.Wait and tests active_count_ again.       *)
CancelWakesUp ==
  /\ cancelPc = "waiting" /\ woken
  /\ woken' = FALSE
  /\ cancelPc' = IF active > 0 THEN "waiting" ELSE "returned"
  /\ UNCHANGED <<pc, obs, remaining, active, cancelled, unobserved, value, taken>>

(* The owner takes the result of an idle accumulator, as the end of round  *)
(* 2 does.                                                                 *)
OwnerTakesResult ==
  /\ OwnerFree /\ ~cancelled /\ IsIdle
  /\ GetResultAndCancel

ParallelStep(t) == StartGenerator(t) \/ FinishGenerator(t) \/ HandOver(t)
SequentialStep ==
  \/ \E t \in Tasks : StartSequential(t) \/ FinishSequential(t)
  \/ \E o \in Observers : StartObserver(o) \/ FinishObserver(o)

Next ==
  \/ \E t \in Tasks : Schedule(t) \/ ParallelStep(t)
  \/ \E o \in Observers : SetAsyncObserver(o)
  \/ SequentialStep
  \/ OwnerTakesResult
  \/ Cancel
  \/ CancelWakesUp

(* The schedulers run what they were given, and a signalled owner wakes.   *)
WorkerFairness ==
  /\ \A t \in Tasks : WF_accVars(ParallelStep(t))
  /\ WF_accVars(SequentialStep)
  /\ WF_accVars(CancelWakesUp)

Spec == Init /\ [][Next]_accVars
FairSpec == Spec /\ WorkerFairness

-----------------------------------------------------------------------------
(* Properties.                                                             *)

Running == {"generating", "accumulating"}
Waiting == {"parallel", "generated", "sequential"}
InState(S) == {t \in Tasks : pc[t] \in S}

(* Type correctness of the accumulator's state. *)
TypeOK ==
  /\ pc \in [Tasks -> TaskState]
  /\ obs \in [Observers -> ObserverState]
  /\ remaining \in Nat /\ active \in Nat
  /\ cancelled \in BOOLEAN /\ unobserved \in BOOLEAN
  /\ value \in SUBSET Tasks /\ taken \in BOOLEAN
  /\ cancelPc \in {"none", "waiting", "returned"}
  /\ woken \in BOOLEAN

(* The two counters, changed on three kinds of threads, always tell how    *)
(* many callables are running and how many scheduled tasks are not         *)
(* accumulated; a skipped task stays among the remaining ones.             *)
CountsMatchTasks ==
  /\ active = Cardinality(InState(Running))
  /\ remaining = Cardinality(InState(Running \cup Waiting \cup {"skipped"}))

(* IsIdle is a safe moment to take the result: no callable is running, so  *)
(* the FCP_CHECK of GetResultAndCancel holds, and the value contains every *)
(* task that was scheduled.                                                *)
IdleMeansAccumulated ==
  IsIdle => active = 0 /\ value = {t \in Tasks : pc[t] # "new"}

(* Once Cancel has returned, or the result was taken, no generator and no  *)
(* accumulation is running, and the accumulated value has its last value.  *)
CancelIsFinal ==
  /\ cancelPc = "returned" \/ taken => InState(Running) = {} /\ cancelled
  /\ taken => value = {t \in Tasks : pc[t] = "done"}

(* A pending observer is never forgotten: tasks that will deliver it are   *)
(* still to be accumulated, and outstanding work is always observable.     *)
PendingObserverHasWork ==
  /\ HasCallback => remaining > 0
  /\ remaining > 0 => unobserved

(* What a user of the accumulator relies on in every state: the counters   *)
(* of AsyncAccumulator's three kinds of threads are exact, an idle         *)
(* accumulator can be emptied, a cancelled one stays quiet, and no         *)
(* observer is forgotten.                                                  *)
AccumulatorIsSound ==
  CountsMatchTasks /\ IdleMeansAccumulated /\ CancelIsFinal /\ PendingObserverHasWork

(* Cancel returns: the last running callable always wakes the owner up.    *)
CancelReturns == cancelPc = "waiting" ~> cancelPc = "returned"

(* A pending observer is called, unless work is cancelled or another       *)
(* observer takes its place: as there are finitely many, again and again   *)
(* none is pending.                                                        *)
ObserverIsCalled == []<>(cancelled \/ \A o \in Observers : obs[o] # "pending")
=============================================================================
