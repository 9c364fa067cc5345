--------------------------- MODULE MCServerThreads ---------------------------
(***************************************************************************)
(* Instances of what runs on the server's threads, as parts of one run:    *)
(* the accumulator alone under any owner, the queue of masked inputs of    *)
(* the asynchronous round 2, the PRNG running state, and below them the    *)
(* thread pool with its workers and the clock.  Each part does nothing but *)
(* its own steps.                                                          *)
(***************************************************************************)
EXTENDS MaskedInputQueue

CONSTANTS
  QueueObservers,  \* bound: the observers that are set during round 2
  Threads, MaxTasks,                      \* of ThreadPool; Threads and Callers are among Tasks
  Callers, MaxTime, MaxWaiters, MaxLevel  \* of AlarmClock

VARIABLES
  prng, completion, result, done, finishing,                     \* of PrngRunner
  todo, busy, joining, thread, strand, future, owner, history,   \* of ThreadPool
  kind, now, deadline, pending, level, dispatcher, timer, rung,  \* of AlarmClock
  part                                                           \* what runs

Prng == INSTANCE PrngRunner
Pool == INSTANCE ThreadPool WITH active <- busy
Alarm == INSTANCE AlarmClock WITH thread <- dispatcher, woken <- rung

prngVars == <<prng, completion, result, done, finishing>>
poolVars == <<todo, busy, joining, thread, strand, future, owner, history>>
clockVars == <<kind, now, deadline, pending, level, dispatcher, timer, rung>>
allVars == <<accVars, queueVars, prngVars, poolVars, clockVars, part>>

ThreadsInit ==
  /\ part \in {"accumulator", "queue", "prng", "pool", "clock"}
  /\ QueueInit /\ Prng!RunnerInit /\ Pool!PoolInit
  /\ Alarm!ClockInit /\ (part # "clock" => kind = "real")

OfAccumulator(A) ==
  part = "accumulator" /\ A /\ UNCHANGED <<queueVars, prngVars, poolVars, clockVars, part>>
OfQueue(A) ==
  /\ part = "queue" /\ A /\ UNCHANGED <<prngVars, poolVars, clockVars, part>>
  /\ \A o \in Observers \ QueueObservers : obs'[o] = "new"
OfPrng(A) == part = "prng" /\ A /\ UNCHANGED <<queueVars, poolVars, clockVars, part>>
OfPool(A) == part = "pool" /\ A /\ UNCHANGED <<accVars, queueVars, prngVars, clockVars, part>>
OfClock(A) == part = "clock" /\ A /\ UNCHANGED <<accVars, queueVars, prngVars, poolVars, part>>

ThreadsNext ==
  \/ OfAccumulator(Next)
  \/ OfQueue(QueueNext)
  \/ OfPrng(Prng!RunnerNext)
  \/ OfPool(Pool!PoolNext)
  \/ OfClock(Alarm!ClockNext)

(* The fairness of the specifications.  As a behaviour has steps of one    *)
(* part only, an action of each part shares a conjunct; for that the       *)
(* threads of the parts have the same names.                               *)
ThreadsFairness ==
  /\ \A t \in Tasks :
       WF_allVars(\/ OfAccumulator(ParallelStep(t)) \/ OfQueue(ParallelWorker(t))
                  \/ t \in Threads /\ OfPool(Pool!ThreadStep(t))
                  \/ t \in Callers /\ OfClock(Alarm!Dispatch(t)))
  /\ WF_allVars(\/ OfAccumulator(SequentialStep) \/ OfQueue(SequentialWorker)
                \/ OfPrng(Prng!WorkerStep) \/ OfPool(Pool!OwnerEnds) \/ OfClock(Alarm!WorkerStep))
  /\ WF_allVars(\/ OfAccumulator(CancelWakesUp) \/ OfQueue(ScheduleTask)
                \/ OfPrng(Prng!StartPrngSchedules) \/ OfClock(Alarm!Dispatch("worker")))
  /\ WF_allVars(OfPrng(Prng!StartPrngReturns))
  /\ WF_allVars(OfPrng(Prng!ObserverTakesResult))
  /\ WF_allVars(OfPrng(Prng!PrngRunnerFinished))
  /\ WF_allVars(OfPrng(Prng!ObserverReturns))

ThreadsSpec == ThreadsInit /\ [][ThreadsNext]_allVars /\ ThreadsFairness

-----------------------------------------------------------------------------
(* Properties.                                                             *)

(* A call of Cancel returns although tasks keep being scheduled and run,   *)
(* as the last running task signals the owner; without one, an observer is *)
(* called or replaced.                                                     *)
AccumulatorAnswers == part = "accumulator" => CancelReturns /\ ObserverIsCalled

(* The asynchronous round 2: an idle accumulator means that every accepted *)
(* input was summed once, because exactly one task is outstanding for a    *)
(* queue that is not empty; and every accepted input is eventually in the  *)
(* sum, unless round 2 aborts.                                             *)
QueuedInputsAreSummed ==
  part = "queue" => [](IdleMeansSummed /\ OneTaskPerQueue) /\ InputsAreSummed

(* The PRNG state completes only with every batch of masks removed; unless *)
(* the session is aborted it does complete, and a callback is called       *)
(* however setting it races with the end of the PRNG.                      *)
PrngEndIsReported ==
  part = "prng" => []Prng!ResultIsComplete /\ Prng!PrngFinishes /\ Prng!DoneCallbackIsCalled

(* The tasks of a Worker run one at a time and in the order in which they  *)
(* were scheduled, on whatever threads of the pool; every task that was    *)
(* scheduled is run before the pool is gone, and its future is set.        *)
PoolRunsEverything == part = "pool" => []Pool!WorkersAreSequential /\ Pool!EveryTaskRuns

(* Waiters of the clock are woken once, by one thread at a time, in the    *)
(* order in which they came if due in that order; and they are woken,      *)
(* though the thread or the timer that was to do it found another dispatch *)
(* in progress.                                                            *)
AlarmsRing == part = "clock" => []Alarm!WokenInOrder /\ Alarm!DueWaitersAreWoken

(* What the comments of the PRNG running state say and the code does not   *)
(* ensure: mutex_ "protects this object from being destroyed" while it is  *)
(* in use, so PrngRunnerFinished is never about to run on a destroyed one. *)
FinishesOnLiveState == part = "prng" => Prng!FinishesOnLiveState
=============================================================================
