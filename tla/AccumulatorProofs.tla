-------------------------- MODULE AccumulatorProofs --------------------------
(***************************************************************************)
(* Proofs, for any number of tasks and observers, of the safety properties *)
(* of Accumulator.  The inductive invariant is their conjunction together  *)
(* with what value contains.                                               *)
(***************************************************************************)
EXTENDS Accumulator, FiniteSetTheorems, TLAPS

Tally(f, S) == Cardinality({t \in Tasks : f[t] \in S})

(* f2 is f with the state of task t changed to s.                          *)
Moves(f, f2, t, s) ==
  /\ f \in [Tasks -> TaskState]
  /\ t \in Tasks
  /\ f2 = [f EXCEPT ![t] = s]

Has(s, S) == IF s \in S THEN 1 ELSE 0

(* Tallies are natural numbers because there are finitely many tasks. *)
LEMMA TallyType ==
  ASSUME NEW f, NEW S
  PROVE  /\ IsFiniteSet({t \in Tasks : f[t] \in S})
         /\ Tally(f, S) \in Nat
         /\ Tally(f, S) = 0 <=> {t \in Tasks : f[t] \in S} = {}
<1>1. IsFiniteSet({t \in Tasks : f[t] \in S})
  BY TasksAssumption, FS_Subset
<1>2. QED
  BY <1>1, FS_CardinalityType, FS_EmptySet DEF Tally

(* Moving one task changes a tally by what it adds in its new state less   *)
(* what it added in its old one.                                           *)
LEMMA TallyMove ==
  ASSUME NEW f, NEW f2, NEW t, NEW s, NEW S, Moves(f, f2, t, s)
  PROVE  /\ Tally(f2, S) = Tally(f, S) + Has(s, S) - Has(f[t], S)
         /\ Tally(f, S) \in Nat /\ Tally(f2, S) \in Nat
<1> DEFINE A == {u \in Tasks : f[u] \in S}
           B == {u \in Tasks : f2[u] \in S}
<1>1. IsFiniteSet(A) /\ Tally(f, S) \in Nat /\ Tally(f2, S) \in Nat
  BY TallyType
<1>2. CASE s \in S /\ f[t] \notin S
  <2>1. B = A \cup {t} /\ t \notin A
    BY <1>2 DEF Moves
  <2>2. Tally(f2, S) = Tally(f, S) + 1
    BY <1>1, <2>1, FS_AddElement DEF Tally
  <2>3. QED
    BY <1>1, <1>2, <2>2 DEF Has
<1>3. CASE s \notin S /\ f[t] \in S
  <2>1. B = A \ {t} /\ t \in A
    BY <1>3 DEF Moves
  <2>2. Cardinality(A \ {t}) = Cardinality(A) - 1
    BY <1>1, <2>1, FS_RemoveElement
  <2>3. Tally(f2, S) = Tally(f, S) - 1
    BY <2>1, <2>2 DEF Tally
  <2>4. QED
    BY <1>1, <1>3, <2>3 DEF Has
<1>4. CASE s \in S <=> f[t] \in S
  <2>1. B = A
    BY <1>4 DEF Moves
  <2>2. Tally(f2, S) = Tally(f, S)
    BY <2>1 DEF Tally
  <2>3. QED
    BY <1>1, <1>4, <2>2 DEF Has
<1>5. QED
  BY <1>2, <1>3, <1>4

-----------------------------------------------------------------------------
(* The inductive invariant.                                                *)

Unfinished == Running \cup Waiting \cup {"skipped"}

CountInv ==
  /\ active = Tally(pc, Running)
  /\ remaining = Tally(pc, Unfinished)

StopInv ==
  /\ cancelPc = "returned" \/ taken => active = 0
  /\ cancelPc # "none" \/ taken => cancelled
  /\ value = {t \in Tasks : pc[t] = "done"}

IInv == TypeOK /\ CountInv /\ StopInv /\ PendingObserverHasWork

(* How a task can move, and what the move does to the counters.            *)
LEMMA MoveCounts ==
  ASSUME TypeOK, CountInv, NEW t \in Tasks, NEW s \in TaskState, Move(t, s)
  PROVE  /\ active + Has(s, Running) - Has(pc[t], Running) = Tally(pc', Running)
         /\ remaining + Has(s, Unfinished) - Has(pc[t], Unfinished)
              = Tally(pc', Unfinished)
         /\ pc' \in [Tasks -> TaskState]
<1>1. Moves(pc, pc', t, s)
  BY DEF TypeOK, Moves, Move
<1>2. /\ Tally(pc', Running)
           = Tally(pc, Running) + Has(s, Running) - Has(pc[t], Running)
      /\ Tally(pc', Unfinished)
           = Tally(pc, Unfinished) + Has(s, Unfinished) - Has(pc[t], Unfinished)
  BY <1>1, TallyMove
<1>3. pc' \in [Tasks -> TaskState]
  BY DEF TypeOK, Move
<1>4. QED
  BY <1>2, <1>3 DEF CountInv

(* Which states count as running and as unfinished. *)
LEMMA HasValues ==
  /\ Has("new", Running) = 0 /\ Has("new", Unfinished) = 0
  /\ Has("parallel", Running) = 0 /\ Has("parallel", Unfinished) = 1
  /\ Has("generating", Running) = 1 /\ Has("generating", Unfinished) = 1
  /\ Has("generated", Running) = 0 /\ Has("generated", Unfinished) = 1
  /\ Has("sequential", Running) = 0 /\ Has("sequential", Unfinished) = 1
  /\ Has("accumulating", Running) = 1 /\ Has("accumulating", Unfinished) = 1
  /\ Has("done", Running) = 0 /\ Has("done", Unfinished) = 0
  /\ Has("skipped", Running) = 0 /\ Has("skipped", Unfinished) = 1
BY DEF Has, Running, Unfinished, Waiting

(* A task's move keeps CountInv when the counters follow it. *)
LEMMA CountStep ==
  ASSUME TypeOK, CountInv, NEW t \in Tasks, NEW s \in TaskState, Move(t, s),
         active' = active + Has(s, Running) - Has(pc[t], Running),
         remaining' = remaining + Has(s, Unfinished) - Has(pc[t], Unfinished)
  PROVE  CountInv' /\ pc' \in [Tasks -> TaskState]
         /\ active' \in Nat /\ remaining' \in Nat
<1>1. Tally(pc', Running) \in Nat /\ Tally(pc', Unfinished) \in Nat
  BY TallyType
<1>2. QED
  BY <1>1, MoveCounts DEF CountInv

(* Initially nothing is scheduled. *)
LEMMA InitIInv == Init => IInv
<1> SUFFICES ASSUME Init PROVE IInv
  OBVIOUS
<1>1. TypeOK
  BY DEF Init, TypeOK, TaskState, ObserverState
<1>2. CountInv
  <2>1. /\ {t \in Tasks : pc[t] \in Running} = {}
        /\ {t \in Tasks : pc[t] \in Unfinished} = {}
    BY DEF Init, Running, Unfinished, Waiting
  <2>2. Tally(pc, Running) = 0 /\ Tally(pc, Unfinished) = 0
    BY <2>1, TallyType
  <2>3. QED
    BY <2>2 DEF Init, CountInv
<1>3. StopInv
  BY DEF Init, StopInv
<1>4. PendingObserverHasWork
  BY DEF Init, PendingObserverHasWork, HasCallback
<1>5. QED
  BY <1>1, <1>2, <1>3, <1>4 DEF IInv

-----------------------------------------------------------------------------
(* Every action preserves the invariant.                                   *)

(* Scheduling a task. *)
LEMMA ScheduleIInv ==
  ASSUME IInv, NEW t \in Tasks, Schedule(t)
  PROVE  IInv'
<1>1. TypeOK /\ CountInv /\ StopInv /\ PendingObserverHasWork
  BY DEF IInv
<1>2. /\ pc[t] = "new" /\ Move(t, "parallel") /\ "parallel" \in TaskState
      /\ remaining' = remaining + 1 /\ active' = active
      /\ unobserved' = (unobserved \/ remaining = 0)
      /\ UNCHANGED <<obs, cancelled, value, taken, cancelPc, woken>>
  BY DEF Schedule, IncrementRemainingCount, TaskState
<1>3. /\ active' = active + Has("parallel", Running) - Has(pc[t], Running)
      /\ remaining' = remaining + Has("parallel", Unfinished) - Has(pc[t], Unfinished)
  BY <1>1, <1>2, HasValues DEF TypeOK
<1>4. CountInv' /\ pc' \in [Tasks -> TaskState] /\ active' \in Nat /\ remaining' \in Nat
  BY <1>1, <1>2, <1>3, CountStep
<1>5. StopInv'
  BY <1>1, <1>2 DEF StopInv, Move, TypeOK
<1>6. unobserved' = TRUE
  <2>1. unobserved \/ remaining = 0
    BY <1>1 DEF TypeOK, PendingObserverHasWork
  <2>2. QED
    BY <1>2, <2>1, Zenon
<1>7. remaining' > 0
  BY <1>1, <1>2 DEF TypeOK
<1>8. PendingObserverHasWork'
  BY <1>6, <1>7 DEF PendingObserverHasWork
<1>9. TypeOK'
  BY <1>1, <1>2, <1>4, <1>6 DEF TypeOK
<1>10. QED
  BY <1>4, <1>5, <1>8, <1>9 DEF IInv
(* A task moves on, or is skipped, before it is accumulated. *)
LEMMA TaskStepIInv ==
  ASSUME IInv, NEW t \in Tasks, NEW s \in TaskState, Move(t, s),
         pc[t] \in Unfinished, s \in Unfinished,
         s \in Running => ~cancelled,
         active' = active + Has(s, Running) - Has(pc[t], Running),
         woken' \in BOOLEAN,
         UNCHANGED <<obs, remaining, cancelled, unobserved, value, taken, cancelPc>>
  PROVE  IInv'
<1>1. TypeOK /\ CountInv /\ StopInv /\ PendingObserverHasWork
  BY DEF IInv
<1>2. Has(s, Unfinished) = 1 /\ Has(pc[t], Unfinished) = 1
  BY DEF Has
<1>3. remaining' = remaining + Has(s, Unfinished) - Has(pc[t], Unfinished)
  BY <1>1, <1>2 DEF TypeOK
<1>4. CountInv' /\ pc' \in [Tasks -> TaskState] /\ active' \in Nat
  BY <1>1, <1>3, CountStep
<1>5. StopInv'
  <2>1. pc[t] # "done" /\ s # "done"
    BY DEF Unfinished, Running, Waiting
  <2>2. value' = {u \in Tasks : pc'[u] = "done"}
    BY <1>1, <2>1 DEF StopInv, Move, TypeOK
  <2>3. ASSUME cancelPc' = "returned" \/ taken' PROVE active' = 0
    <3>1. active = 0 /\ s \notin Running
      BY <1>1, <2>3 DEF StopInv
    <3>2. Has(s, Running) = 0 /\ Has(pc[t], Running) \in Nat
      BY <3>1 DEF Has
    <3>3. QED
      BY <1>4, <3>1, <3>2
  <2>4. QED
    BY <1>1, <2>2, <2>3 DEF StopInv
<1>6. PendingObserverHasWork'
  BY <1>1 DEF PendingObserverHasWork, HasCallback
<1>7. TypeOK'
  BY <1>1, <1>4 DEF TypeOK
<1>8. QED
  BY <1>4, <1>5, <1>6, <1>7 DEF IInv

(* The three steps of a parallel thread and the start of an accumulation. *)
LEMMA WorkerStepIInv ==
  ASSUME IInv, NEW t \in Tasks, ParallelStep(t) \/ StartSequential(t)
  PROVE  IInv'
<1>1. active \in Nat /\ woken \in BOOLEAN /\ cancelled \in BOOLEAN
  BY DEF IInv, TypeOK
<1>2. /\ "parallel" \in Unfinished \ Running /\ "skipped" \in Unfinished \ Running
      /\ "generated" \in Unfinished \ Running /\ "sequential" \in Unfinished \ Running
      /\ "generating" \in Unfinished /\ "accumulating" \in Unfinished
      /\ {"skipped", "generating", "generated", "sequential", "accumulating"}
           \subseteq TaskState
  BY DEF Unfinished, Running, Waiting, TaskState
<1>3. ASSUME StartGenerator(t) \/ StartSequential(t), cancelled PROVE IInv'
  <2>1. /\ Move(t, "skipped") /\ pc[t] \in {"parallel", "sequential"}
        /\ UNCHANGED <<active, woken, obs, remaining, cancelled, unobserved,
                       value, taken, cancelPc>>
    BY <1>3 DEF StartGenerator, StartSequential, MaybeIncrementActiveCount
  <2>2. active' = active + Has("skipped", Running) - Has(pc[t], Running)
    BY <1>1, <2>1, HasValues
  <2>3. QED
    BY <1>1, <1>2, <2>1, <2>2, TaskStepIInv
<1>4. ASSUME StartGenerator(t), ~cancelled PROVE IInv'
  <2>1. /\ Move(t, "generating") /\ pc[t] = "parallel" /\ active' = active + 1
        /\ UNCHANGED <<woken, obs, remaining, cancelled, unobserved,
                       value, taken, cancelPc>>
    BY <1>4 DEF StartGenerator, MaybeIncrementActiveCount
  <2>2. active' = active + Has("generating", Running) - Has(pc[t], Running)
    BY <1>1, <2>1, HasValues
  <2>3. QED
    BY <1>1, <1>2, <1>4, <2>1, <2>2, TaskStepIInv
<1>5. ASSUME StartSequential(t), ~cancelled PROVE IInv'
  <2>1. /\ Move(t, "accumulating") /\ pc[t] = "sequential" /\ active' = active + 1
        /\ UNCHANGED <<woken, obs, remaining, cancelled, unobserved,
                       value, taken, cancelPc>>
    BY <1>5 DEF StartSequential, MaybeIncrementActiveCount
  <2>2. active' = active + Has("accumulating", Running) - Has(pc[t], Running)
    BY <1>1, <2>1, HasValues
  <2>3. QED
    BY <1>1, <1>2, <1>5, <2>1, <2>2, TaskStepIInv
<1>6. ASSUME FinishGenerator(t) PROVE IInv'
  <2>1. /\ Move(t, "generated") /\ pc[t] = "generating" /\ active' = active - 1
        /\ woken' \in BOOLEAN
        /\ UNCHANGED <<obs, remaining, cancelled, unobserved, value, taken, cancelPc>>
    BY <1>6 DEF FinishGenerator, DecrementActiveCount
  <2>2. active' = active + Has("generated", Running) - Has(pc[t], Running)
    BY <1>1, <2>1, HasValues
  <2>3. QED
    BY <1>1, <1>2, <2>1, <2>2, TaskStepIInv
<1>7. ASSUME HandOver(t) PROVE IInv'
  <2>1. PICK s \in {"skipped", "sequential"} : Move(t, s)
    BY <1>7 DEF HandOver
  <2>2. /\ pc[t] = "generated"
        /\ UNCHANGED <<active, woken, obs, remaining, cancelled, unobserved,
                       value, taken, cancelPc>>
    BY <1>7 DEF HandOver
  <2>3. active' = active + Has(s, Running) - Has(pc[t], Running)
    BY <1>1, <2>1, <2>2, HasValues
  <2>4. QED
    BY <1>1, <1>2, <2>1, <2>2, <2>3, TaskStepIInv
<1>8. QED
  BY <1>3, <1>4, <1>5, <1>6, <1>7 DEF ParallelStep

(* A result is accumulated. *)
LEMMA FinishSequentialIInv ==
  ASSUME IInv, NEW t \in Tasks, FinishSequential(t)
  PROVE  IInv'
<1>1. TypeOK /\ CountInv /\ StopInv /\ PendingObserverHasWork
  BY DEF IInv
<1>2. /\ pc[t] = "accumulating" /\ Move(t, "done") /\ "done" \in TaskState
      /\ value' = value \cup {t}
      /\ active' = active - 1 /\ remaining' = remaining - 1
      /\ woken' \in BOOLEAN
      /\ UNCHANGED <<cancelled, taken, cancelPc>>
  BY DEF FinishSequential, DecrementActiveCount, TaskState
<1>3. /\ active' = active + Has("done", Running) - Has(pc[t], Running)
      /\ remaining' = remaining + Has("done", Unfinished) - Has(pc[t], Unfinished)
  BY <1>1, <1>2, HasValues DEF TypeOK
<1>4. CountInv' /\ pc' \in [Tasks -> TaskState] /\ active' \in Nat /\ remaining' \in Nat
  BY <1>1, <1>2, <1>3, CountStep
<1>5. StopInv'
  <2>1. value' = {u \in Tasks : pc'[u] = "done"}
    BY <1>1, <1>2 DEF StopInv, Move, TypeOK
  <2>2. active # 0
    BY <1>1, <1>2, <1>4 DEF TypeOK
  <2>3. QED
    BY <1>1, <1>2, <2>1, <2>2 DEF StopInv
<1>6. CASE CallbackIsDue
  <2>1. /\ remaining' = 0 /\ unobserved' = FALSE
        /\ obs' = [o \in Observers |->
                     IF obs[o] = "pending" THEN "running" ELSE obs[o]]
    BY <1>6 DEF FinishSequential, CallbackIsDue
  <2>2. PendingObserverHasWork'
    BY <2>1 DEF PendingObserverHasWork, HasCallback
  <2>3. TypeOK'
    BY <1>1, <1>2, <1>4, <2>1 DEF TypeOK, ObserverState
  <2>4. QED
    BY <1>4, <1>5, <2>2, <2>3 DEF IInv
<1>7. CASE ~CallbackIsDue
  <2>1. UNCHANGED <<unobserved, obs>>
    BY <1>7 DEF FinishSequential
  <2>2. remaining' # 0 \/ ~HasCallback
    BY <1>7 DEF CallbackIsDue
  <2>3. remaining > 0
    BY <1>1, <1>2, <1>4 DEF TypeOK
  <2>4. PendingObserverHasWork'
    BY <1>1, <1>4, <2>1, <2>2, <2>3 DEF PendingObserverHasWork, HasCallback
  <2>5. TypeOK'
    BY <1>1, <1>2, <1>4, <2>1 DEF TypeOK
  <2>6. QED
    BY <1>4, <1>5, <2>4, <2>5 DEF IInv
<1>8. QED
  BY <1>6, <1>7
(* Registering, starting and finishing an observer. *)
LEMMA ObserverIInv ==
  ASSUME IInv, NEW o \in Observers,
         SetAsyncObserver(o) \/ StartObserver(o) \/ FinishObserver(o)
  PROVE  IInv'
<1>1. TypeOK /\ CountInv /\ StopInv /\ PendingObserverHasWork
  BY DEF IInv
<1>2. UNCHANGED <<pc, remaining, active, cancelled, value, taken, cancelPc, woken>>
  BY DEF SetAsyncObserver, StartObserver, FinishObserver
<1>3. CountInv' /\ StopInv'
  BY <1>1, <1>2 DEF CountInv, StopInv
<1>4. obs' \in [Observers -> ObserverState] /\ unobserved' \in BOOLEAN
  BY <1>1
  DEF SetAsyncObserver, StartObserver, FinishObserver, TypeOK, ObserverState
<1>5. PendingObserverHasWork'
  <2>1. CASE SetAsyncObserver(o) /\ unobserved /\ IsIdle
    BY <1>1, <1>2, <2>1
    DEF SetAsyncObserver, PendingObserverHasWork, HasCallback, IsIdle, TypeOK
  <2>2. CASE SetAsyncObserver(o) /\ unobserved /\ ~IsIdle
    BY <1>1, <1>2, <2>2
    DEF SetAsyncObserver, PendingObserverHasWork, HasCallback, IsIdle, TypeOK
  <2>3. CASE \/ SetAsyncObserver(o) /\ ~unobserved
             \/ StartObserver(o) \/ FinishObserver(o)
    <3>1. unobserved' = unobserved /\ (HasCallback' => HasCallback)
      BY <1>1, <2>3
      DEF SetAsyncObserver, StartObserver, FinishObserver, HasCallback, TypeOK
    <3>2. QED
      BY <1>1, <1>2, <3>1 DEF PendingObserverHasWork
  <2>4. QED
    BY <2>1, <2>2, <2>3
<1>6. TypeOK'
  BY <1>1, <1>2, <1>4 DEF TypeOK
<1>7. QED
  BY <1>3, <1>5, <1>6 DEF IInv

(* The owner cancels, wakes up in Cancel, or takes the result.  A result   *)
(* is only taken when the accumulator is idle, hence inactive.             *)
LEMMA OwnerIInv ==
  ASSUME IInv, Cancel \/ CancelWakesUp \/ OwnerTakesResult
  PROVE  IInv'
<1>1. TypeOK /\ CountInv /\ StopInv /\ PendingObserverHasWork
  BY DEF IInv
<1>2. UNCHANGED <<pc, obs, remaining, active, unobserved, value>>
  BY DEF Cancel, CancelWakesUp, OwnerTakesResult, GetResultAndCancel
<1>3. CountInv' /\ PendingObserverHasWork'
  BY <1>1, <1>2 DEF CountInv, PendingObserverHasWork, HasCallback
<1>4. ASSUME remaining = 0 PROVE active = 0
  <2>1. {t \in Tasks : pc[t] \in Unfinished} = {}
    BY <1>1, <1>4, TallyType DEF CountInv
  <2>2. {t \in Tasks : pc[t] \in Running} = {}
    BY <2>1 DEF Unfinished
  <2>3. QED
    BY <1>1, <2>2, TallyType DEF CountInv
<1>5. StopInv'
  <2>1. CASE Cancel \/ CancelWakesUp
    BY <1>1, <1>2, <2>1 DEF Cancel, CancelWakesUp, StopInv, TypeOK
  <2>2. CASE OwnerTakesResult
    BY <1>1, <1>2, <1>4, <2>2
    DEF OwnerTakesResult, GetResultAndCancel, StopInv, IsIdle
  <2>3. QED
    BY <2>1, <2>2
<1>6. TypeOK'
  BY <1>1, <1>2
  DEF Cancel, CancelWakesUp, OwnerTakesResult, GetResultAndCancel, TypeOK
<1>7. QED
  BY <1>3, <1>5, <1>6 DEF IInv

(* The invariant holds in every reachable state. *)
THEOREM IInvHolds == Spec => []IInv
<1>1. IInv /\ [Next]_accVars => IInv'
  <2> SUFFICES ASSUME IInv, [Next]_accVars PROVE IInv'
    OBVIOUS
  <2>1. CASE UNCHANGED accVars
    BY <2>1
    DEF accVars, IInv, TypeOK, CountInv, StopInv, PendingObserverHasWork,
        HasCallback
  <2>2. CASE Next
    BY <2>2, ScheduleIInv, WorkerStepIInv, FinishSequentialIInv, ObserverIInv,
       OwnerIInv
    DEF Next, SequentialStep
  <2>3. QED
    BY <2>1, <2>2
<1>2. QED
  BY <1>1, InitIInv, PTL DEF Spec

-----------------------------------------------------------------------------
(* What follows from it.                                                   *)

(* The variables of the accumulator keep their types; in particular the    *)
(* unsigned counters never wrap around.                                    *)
THEOREM TypeCorrect == Spec => []TypeOK
<1>1. IInv => TypeOK
  BY DEF IInv
<1>2. QED
  BY <1>1, IInvHolds, PTL

(* Both counters are exact in every reachable state. *)
THEOREM CountsCorrect == Spec => []CountsMatchTasks
<1>1. IInv => CountsMatchTasks
  BY DEF IInv, CountInv, Tally, CountsMatchTasks, InState, Unfinished
<1>2. QED
  BY <1>1, IInvHolds, PTL

(* An idle accumulator has accumulated everything that was scheduled, and  *)
(* its result may be taken.                                                *)
THEOREM IdleIsSafe == Spec => []IdleMeansAccumulated
<1>1. IInv => IdleMeansAccumulated
  <2> SUFFICES ASSUME IInv, remaining = 0
               PROVE  active = 0 /\ value = {t \in Tasks : pc[t] # "new"}
    BY DEF IdleMeansAccumulated, IsIdle
  <2>1. {t \in Tasks : pc[t] \in Unfinished} = {}
    BY TallyType DEF IInv, CountInv
  <2>2. {t \in Tasks : pc[t] \in Running} = {}
    BY <2>1 DEF Unfinished
  <2>3. active = 0
    BY <2>2, TallyType DEF IInv, CountInv
  <2>4. value = {t \in Tasks : pc[t] # "new"}
    BY <2>1
    DEF IInv, TypeOK, TaskState, StopInv, Unfinished, Running, Waiting
  <2>5. QED
    BY <2>3, <2>4
<1>2. QED
  BY <1>1, IInvHolds, PTL

(* After Cancel returned or the result was taken, no generator and no      *)
(* accumulation runs.                                                      *)
THEOREM CancelIsSafe == Spec => []CancelIsFinal
<1>1. IInv => CancelIsFinal
  BY TallyType DEF IInv, CountInv, StopInv, CancelIsFinal, InState
<1>2. QED
  BY <1>1, IInvHolds, PTL

(* No registered observer is forgotten while work is outstanding. *)
THEOREM ObserversAreKept == Spec => []PendingObserverHasWork
<1>1. IInv => PendingObserverHasWork
  BY DEF IInv
<1>2. QED
  BY <1>1, IInvHolds, PTL

(* The four guarantees together, for any number of tasks and observers. *)
THEOREM AccumulatorCorrect == Spec => []AccumulatorIsSound
<1>1. CountsMatchTasks /\ IdleMeansAccumulated /\ CancelIsFinal /\ PendingObserverHasWork
        => AccumulatorIsSound
  BY DEF AccumulatorIsSound
<1>2. QED
  BY <1>1, CountsCorrect, IdleIsSafe, CancelIsSafe, ObserversAreKept, PTL
=============================================================================
