-------------------------- MODULE MaskedInputQueue --------------------------
(***************************************************************************)
(* The asynchronous round 2 of AesSecAggServerProtocolImpl: the server's   *)
(* thread queues every accepted masked input and schedules a task on an    *)
(* Accumulator whenever the queue was empty; a task takes the whole queue  *)
(* and adds it to masked_input_.  The round is left when the accumulator   *)
(* is idle, or cancelled when the session aborts.                          *)
(***************************************************************************)
EXTENDS Accumulator

CONSTANT Inputs   \* the masked inputs that may be accepted

ASSUME InputsAssumption ==
  IsFiniteSet(Inputs) /\ Cardinality(Inputs) <= Cardinality(Tasks)

VARIABLES
  received,  \* the inputs HandleMaskedInputCollectionResponse accepted
  queue,     \* masked_input_queue_
  inHandler, \* the server's thread has queued an input and must schedule
  step,      \* how far each task's generator has come
  batch,     \* what each task took from the queue
  sum        \* masked_input_: how often each input was added

queueVars == <<received, queue, inHandler, step, batch, sum>>
vars == <<accVars, queueVars>>

QueueInit ==
  /\ Init
  /\ received = {} /\ queue = {} /\ inHandler = FALSE
  /\ step = [t \in Tasks |-> "start"]
  /\ batch = [t \in Tasks |-> {}]
  /\ sum = [i \in Inputs |-> 0]

(* Round 2 goes on until it is finalized or aborted.                       *)
Collecting == cancelPc = "none" /\ ~taken

(* Defective variant: a task is scheduled only when none is outstanding.   *)
MustScheduleWhenIdle == IsIdle

(* is_queue_empty, read under the lock before the input is queued.         *)
MustSchedule == queue = {}

(* The first half of HandleMaskedInputCollectionResponse, under mutex_.    *)
Enqueue(i) ==
  /\ Collecting /\ ~inHandler
  /\ i \in Inputs \ received
  /\ inHandler' = MustSchedule
  /\ received' = received \cup {i}
  /\ queue' = queue \cup {i}
  /\ UNCHANGED <<accVars, step, batch, sum>>

(* The second half: the lock is released before the task is scheduled.     *)
ScheduleTask ==
  /\ inHandler
  /\ \E t \in Tasks : Schedule(t)
  /\ inHandler' = FALSE
  /\ UNCHANGED <<received, queue, step, batch, sum>>

TakeMaskedInputQueue(t) ==
  /\ pc[t] = "generating" /\ step[t] = "start"
  /\ step' = [step EXCEPT ![t] = "took"]
  /\ batch' = [batch EXCEPT ![t] = queue]
  /\ queue' = {}
  /\ UNCHANGED <<accVars, received, inHandler, sum>>

Added(t) == batch[t]

AddReduce(t) ==
  /\ pc[t] = "generating" /\ step[t] = "took"
  /\ step' = [step EXCEPT ![t] = "added"]
  /\ sum' = [i \in Inputs |-> IF i \in Added(t) THEN sum[i] + 1 ELSE sum[i]]
  /\ UNCHANGED <<accVars, received, queue, inHandler, batch>>

(* The other steps of the worker threads.                                  *)
ParallelWorker(t) ==
  \/ TakeMaskedInputQueue(t)
  \/ AddReduce(t)
  \/ /\ \/ StartGenerator(t) \/ HandOver(t)
        \/ step[t] = "added" /\ FinishGenerator(t)
     /\ UNCHANGED queueVars

SequentialWorker == SequentialStep /\ UNCHANGED queueVars

(* The server's thread, outside the handler.                               *)
SetObserver ==
  /\ Collecting /\ ~inHandler
  /\ \E o \in Observers : SetAsyncObserver(o)
  /\ UNCHANGED queueVars

FinalizeMaskedInputCollection ==
  /\ Collecting /\ ~inHandler
  /\ OwnerTakesResult
  /\ UNCHANGED queueVars

HandleAbort ==
  /\ ~taken /\ ~inHandler
  /\ Cancel \/ CancelWakesUp
  /\ UNCHANGED queueVars

QueueNext ==
  \/ \E i \in Inputs : Enqueue(i)
  \/ ScheduleTask
  \/ \E t \in Tasks : ParallelWorker(t)
  \/ SequentialWorker
  \/ SetObserver
  \/ FinalizeMaskedInputCollection
  \/ HandleAbort

QueueFairness ==
  /\ \A t \in Tasks : WF_vars(ParallelWorker(t))
  /\ WF_vars(SequentialWorker)
  /\ WF_vars(ScheduleTask)

QueueSpec == QueueInit /\ [][QueueNext]_vars
FairQueueSpec == QueueSpec /\ QueueFairness

-----------------------------------------------------------------------------
(* Properties.                                                             *)

(* When the server's thread sees the accumulator idle, every accepted      *)
(* input is in the sum and none is queued, so the round may be finalized.  *)
IdleMeansSummed ==
  IsIdle /\ ~inHandler =>
    /\ queue = {}
    /\ \A i \in Inputs : sum[i] = IF i \in received THEN 1 ELSE 0

(* The number of tasks that have not taken the queue is one when there is  *)
(* something queued and zero otherwise, so AddReduce's check that its      *)
(* queue is not empty holds and no input waits without a task.             *)
OneTaskPerQueue ==
  ~cancelled =>
    Cardinality({t \in Tasks : pc[t] \in {"parallel", "generating"}
                               /\ step[t] = "start"})
      = IF queue = {} \/ inHandler THEN 0 ELSE 1

(* Every accepted input is eventually in the sum, unless the round aborts: *)
(* again and again all that were accepted are.                             *)
InputsAreSummed == []<>(cancelPc # "none" \/ \A i \in received : sum[i] = 1)
=============================================================================
