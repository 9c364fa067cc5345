----------------------------- MODULE PrngRunner -----------------------------
(***************************************************************************)
(* SecAggServerPrngRunningState and AesSecAggServerProtocolImpl::StartPrng *)
(* on top of the Accumulator.  Entering the state schedules one task per   *)
(* batch of PRNG keys and registers an observer, which runs on the         *)
(* sequential scheduler, takes the unmasked sum, stores it as the result   *)
(* and tells the state through PrngRunnerFinished.  Meanwhile the owner of *)
(* the server sets a callback, polls, proceeds or aborts.                  *)
(***************************************************************************)
EXTENDS Accumulator

VARIABLES
  prng,        \* the server's thread: the state object and what became of it
  completion,  \* completion_status_
  result,      \* result_ of the protocol implementation; {} until it is set
  done,        \* prng_done_callback_ and the calls of it
  finishing    \* how far the observer has come on the sequential thread

runnerVars == <<prng, completion, result, done, finishing>>
vars == <<accVars, runnerVars>>

(* Tasks are the batches of masks to remove, at least one as there is      *)
(* always a self mask; StartPrng sets one of the Observers.                *)
RunnerInit ==
  /\ Init
  /\ prng = "entering"
  /\ completion = "none"
  /\ result = {}
  /\ done = "unset"
  /\ finishing = "none"

(* EnterState when Initialize fails: there is no async_token_.              *)
InitializeFails ==
  /\ prng = "entering" /\ \A t \in Tasks : pc[t] = "new"
  /\ prng' = "running"
  /\ completion' = "error"
  /\ UNCHANGED <<accVars, result, done, finishing>>

(* StartPrng: the tasks are scheduled one after the other, and the first   *)
(* may be finished before the last is scheduled.                           *)
StartPrngSchedules ==
  /\ prng = "entering"
  /\ \E t \in Tasks : Schedule(t)
  /\ UNCHANGED runnerVars

ObserverMayBeSet == \A t \in Tasks : pc[t] # "new"

StartPrngReturns ==
  /\ prng = "entering"
  /\ ObserverMayBeSet
  /\ \E o \in Observers : SetAsyncObserver(o)
  /\ prng' = "running"
  /\ UNCHANGED <<completion, result, done, finishing>>

WorkerStep ==
  /\ \/ \E t \in Tasks :
          ParallelStep(t) \/ StartSequential(t) \/ FinishSequential(t)
     \/ \E o \in Observers : StartObserver(o)
  /\ UNCHANGED runnerVars

(* The observer: GetResultAndCancel, SetResult ...                         *)
ObserverTakesResult ==
  /\ \E o \in Observers : obs[o] = "running"
  /\ finishing = "none"
  /\ GetResultAndCancel
  /\ result' = value
  /\ finishing' = "took"
  /\ UNCHANGED <<prng, completion, done>>

(* ... the critical section of PrngRunnerFinished ...                      *)
PrngRunnerFinished ==
  /\ finishing = "took"
  /\ completion' = "ok"
  /\ finishing' = IF done = "set" THEN "calling" ELSE "finished"
  /\ UNCHANGED <<accVars, prng, result, done>>

(* ... and the call of prng_done_callback, after which the task returns.   *)
ObserverReturns ==
  /\ \/ finishing = "calling" /\ done' = "called"
     \/ finishing = "finished" /\ UNCHANGED done
  /\ finishing' = "none"
  /\ \E o \in Observers : FinishObserver(o)
  /\ UNCHANGED <<prng, completion, result>>

(* Defective variant: a callback set after completion is only stored.      *)
SetAsyncCallbackAlwaysStores ==
  /\ prng = "running" /\ done = "unset"
  /\ done' = "set"
  /\ UNCHANGED <<accVars, prng, completion, result, finishing>>

SetAsyncCallback ==
  /\ prng = "running" /\ done = "unset"
  /\ done' = IF completion # "none" THEN "called" ELSE "set"
  /\ UNCHANGED <<accVars, prng, completion, result, finishing>>

(* The state is replaced, and destroyed, in one step of the owner.         *)
ProceedToNextRound ==
  /\ prng = "running"
  /\ completion # "none"
  /\ prng' = IF completion = "ok" THEN "completed" ELSE "aborted"
  /\ UNCHANGED <<accVars, completion, result, done, finishing>>

HandleAbort ==
  /\ prng \in {"running", "aborting"}
  /\ \/ completion # "error" /\ (Cancel \/ CancelWakesUp)
        /\ prng' = IF cancelPc' = "returned" THEN "aborted" ELSE "aborting"
     \/ completion = "error" /\ UNCHANGED accVars /\ prng' = "aborted"
  /\ UNCHANGED <<completion, result, done, finishing>>

RunnerNext ==
  \/ InitializeFails
  \/ StartPrngSchedules
  \/ StartPrngReturns
  \/ WorkerStep
  \/ ObserverTakesResult
  \/ PrngRunnerFinished
  \/ ObserverReturns
  \/ SetAsyncCallback
  \/ ProceedToNextRound
  \/ HandleAbort

RunnerFairness ==
  /\ WF_vars(StartPrngSchedules) /\ WF_vars(StartPrngReturns)
  /\ WF_vars(WorkerStep)
  /\ WF_vars(ObserverTakesResult) /\ WF_vars(PrngRunnerFinished)
  /\ WF_vars(ObserverReturns)

RunnerSpec == RunnerInit /\ [][RunnerNext]_vars
FairRunnerSpec == RunnerSpec /\ RunnerFairness

-----------------------------------------------------------------------------
(* Properties.                                                             *)

(* The state completes only after every batch of masks was removed, and    *)
(* the result that the next state hands out is then set for good.          *)
ResultIsComplete == completion = "ok" => result = Tasks

(* Unless the session is aborted the PRNG finishes.                        *)
PrngFinishes == <>(completion # "none" \/ cancelPc # "none")

(* A callback set while the PRNG runs is called, however setting it races  *)
(* with the end of the PRNG, unless the session is aborted.                *)
DoneCallbackIsCalled == done = "set" ~> done = "called" \/ cancelPc # "none"

-----------------------------------------------------------------------------
(* What the comments of the PRNG running state say and the code does not   *)
(* ensure.                                                                 *)

(* mutex_ "protects this object from being destroyed" while it is in use,  *)
(* and Cancel "blocks waiting for any currently active ongoing tasks":     *)
(* PrngRunnerFinished is never about to run on a destroyed state.          *)
FinishesOnLiveState == prng = "aborted" => finishing # "took"
=============================================================================
