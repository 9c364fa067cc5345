---------------------------- MODULE PlanEngine -----------------------------
(***************************************************************************)
(* Running a plan on the device: the checks of RunPlanWithTensorflowSpec   *)
(* and its siblings (fcp/client/fl_runner.cc), all of a local computation  *)
(* (fcp/client/lc_runner.cc), the TensorFlow, TFLite and example query     *)
(* engines, and the InterruptibleRunner that lets the calling thread give  *)
(* up on a computation which runs on another one (fcp/client/engine,       *)
(* fcp/client/interruptible_runner.cc).                                    *)
(*                                                                         *)
(* main is the calling thread, worker the thread of the runner; the data   *)
(* record holds the iterators (ExampleIterators), which the threads of     *)
(* TensorFlow use while a computation runs.  TensorFlow itself is          *)
(* external: it makes iterators, asks them for examples and ends, however  *)
(* it likes.                                                               *)
(***************************************************************************)
EXTENDS ExampleIterators

CONSTANTS
    Queries,    \* the iterator of each query of an example query plan
    DataTypes,  \* the types of result vectors that are told apart
    MaxMade,    \* bound on the iterators TensorFlow makes
    MaxLogged   \* bound on the examples a query result says it stands for

VARIABLES
    plan,      \* what the server sent, and the flags that choose the engine
    main,      \* the calling thread: where it is, and its PlanResult
    worker,    \* the runner's thread: where it is, and its result
    abort,     \* what should_abort answers
    session,   \* TensorFlow's session
    delegate,  \* delegate_raw_ptr, whether its delegate exists and whether it was cancelled
    data       \* the iterators

planVars == <<plan, main, worker, abort, session, delegate, data>>

-----------------------------------------------------------------------------
(* The plan and its checks.                                                *)

\* A query has no tensors, only the outputs of a task are aggregated, and only a local computation
\* has none and is given resources: a directory or what the plan maps, both, or more than it maps.
Plans ==
    {p \in [kind : {"eligibility", "computation", "query", "local"}, hasSpec : BOOLEAN,
            routed : BOOLEAN, aggregated : BOOLEAN, tflite : BOOLEAN,
            inputSpecs : {<<"input">>, <<"input", "output">>, <<"other">>, <<>>},
            outputSpecs : {<<"update">>, <<"update", "update">>, <<>>},
            resources : {"one", "both", "extra"}] :
        /\ p.kind \in {"eligibility", "local"} => p.aggregated
        /\ p.kind = "query" => ~p.tflite /\ p.inputSpecs = <<>> /\ p.outputSpecs = <<"update">>
        /\ p.kind # "local" => p.resources = "one" /\ p.outputSpecs # <<>>}

ConstructInputsForEligibilityEvalPlan == {"input"}

ConstructInputsForTensorflowSpecPlan == {"input", "output"}

\* The inputs of a local computation cannot be made.  TFLite leaves out what the plan does not map.
LocalInputsFail(p) == p.resources = "both" \/ (p.resources = "extra" /\ ~p.tflite)

Inputs(p) ==
    IF p.kind = "eligibility" THEN ConstructInputsForEligibilityEvalPlan
    ELSE ConstructInputsForTensorflowSpecPlan

\* The outputs of a computation, in the order of their specs; each must be aggregated securely.
ConstructOutputsWithDeterministicOrder(p) == IF p.aggregated THEN p.outputSpecs ELSE <<"error">>

OutputNames(p) ==
    CASE p.kind = "eligibility" -> <<"update">>
      [] p.kind = "local" -> <<>>
      [] OTHER -> ConstructOutputsWithDeterministicOrder(p)

Elements(s) == {s[k] : k \in DOMAIN s}

\* As many specs as there are inputs and outputs, and none with another name.
ValidateTensorflowSpec(p) ==
    /\ Len(p.inputSpecs) = Cardinality(Inputs(p))
    /\ Elements(p.inputSpecs) \subseteq Inputs(p)
    /\ Len(p.outputSpecs) = Cardinality(Elements(OutputNames(p)))
    /\ Elements(p.outputSpecs) \subseteq Elements(OutputNames(p))

\* The plan has the spec of its kind, an IO router, and every output is aggregated.
RunEligibilityEvalPlanWithTensorflowSpec(p) == p.hasSpec /\ p.routed

RunPlanWithTensorflowSpec(p) == p.hasSpec /\ p.routed /\ OutputNames(p) # <<"error">>

RunPlanWithExampleQuerySpec(p) == p.hasSpec /\ p.routed /\ p.aggregated

RunLocalPlanWithTensorflowSpec(p) == p.hasSpec /\ p.routed /\ ~LocalInputsFail(p)

RunPlanChecks(p) ==
    CASE p.kind = "eligibility" -> RunEligibilityEvalPlanWithTensorflowSpec(p)
      [] p.kind = "computation" -> RunPlanWithTensorflowSpec(p)
      [] p.kind = "query" -> RunPlanWithExampleQuerySpec(p)
      [] OTHER -> RunLocalPlanWithTensorflowSpec(p)

UsesTfLite(p) == p.kind # "query" /\ p.tflite

-----------------------------------------------------------------------------
(* Results.                                                                *)

CreateComputationErrorPlanResult(status) ==
    CASE status \in {"OK", "OUT_OF_RANGE"} -> "kTensorflowError"
      [] status = "CANCELLED" -> "kInterrupted"
      [] OTHER -> "kExampleIteratorError"

\* Both engines: the outcome of a computation that ended so.
OutcomeOf(code) ==
    CASE code = "OK" -> "kSuccess"
      [] code = "CANCELLED" -> "kInterrupted"
      [] OTHER -> CreateComputationErrorPlanResult(data.status)

\* What RunLocalComputation returns.
ConvertPlanOutcomeToStatus(outcome) ==
    CASE outcome = "kSuccess" -> "OK"
      [] outcome = "kInterrupted" -> "CANCELLED"
      [] OTHER -> "INTERNAL"

\* The phase a local computation logs at its end; the logs of the others are the runner's.
LogComputationOutcome(outcome) ==
    CASE outcome = "kSuccess" -> "completed"
      [] outcome = "kInterrupted" -> "interrupted"
      [] outcome = "kInvalidArgument" -> "invalid argument"
      [] outcome = "kTensorflowError" -> "tensorflow error"
      [] OTHER -> "example iterator error"

Returned(m, outcome) ==
    IF plan.kind = "local"
    THEN [m EXCEPT !.pc = "returned", !.outcome = outcome, !.logged = LogComputationOutcome(outcome),
                   !.status = ConvertPlanOutcomeToStatus(outcome)]
    ELSE [m EXCEPT !.pc = "returned", !.outcome = outcome]

Return(outcome) == main' = Returned(main, outcome)

Crash == main' = [main EXCEPT !.pc = "crashed"]

-----------------------------------------------------------------------------
(* The calling thread, up to the computation.                              *)

\* TensorFlowWrapper::Create: the configuration, the session or the graph is no use, or all are.
WrapperCreated(flaw) == flaw # "graph"

\* The session is closed unless an abort closed it, and freed with the iterators it still has.
CloseAndRelease == session' = "released" /\ data' = Destroyed(data, Iters)

\* Up to its plan: the device may not run it now, or the plan cannot be read or parsed.
RunLocalComputation(read) ==
    /\ main.pc = "start" /\ plan.kind = "local"
    /\ main' = CASE abort -> [main EXCEPT !.pc = "returned", !.logged = "not started", !.status = "CANCELLED"]
                 [] read = "fails" -> [main EXCEPT !.pc = "returned", !.logged = "io error", !.status = "error"]
                 [] read = "garbled" ->
                        [main EXCEPT !.pc = "returned", !.logged = "invalid argument", !.status = "INVALID_ARGUMENT"]
                 [] OTHER -> [main EXCEPT !.pc = "plan", !.logged = "started"]
    /\ UNCHANGED <<plan, worker, abort, session, delegate, data>>

\* RunPlan of the two TensorFlow engines: flaw is what TensorFlow finds wrong with the graph, with
\* the constant inputs, or with nothing.
RunPlan(flaw) ==
    LET tflite == UsesTfLite(plan)
    IN  /\ main.pc = (IF plan.kind = "local" THEN "plan" ELSE "start")
        /\ CASE ~RunPlanChecks(plan) -> Return("kInvalidArgument")
             [] plan.kind = "query" -> main' = [main EXCEPT !.pc = "query"]
             [] ~ValidateTensorflowSpec(plan) -> Return("kInvalidArgument")
             [] tflite /\ flaw = "constants" -> Return("kInvalidArgument")
             [] ~tflite /\ ~WrapperCreated(flaw) -> Return("kTensorflowError")
             [] ~tflite /\ flaw = "constants" ->
                    main' = [main EXCEPT !.pc = "conclude", !.result = "INVALID_ARGUMENT"]
             [] OTHER -> main' = [main EXCEPT !.pc = "run"]
        /\ UNCHANGED <<plan, worker, abort, session, delegate, data>>

\* InterruptibleRunner::Run.
Run ==
    /\ main.pc = "run"
    /\ IF abort
       THEN /\ main' = [main EXCEPT !.pc = "conclude", !.result = "CANCELLED"]
            /\ UNCHANGED worker
       ELSE /\ main' = [main EXCEPT !.pc = "wait"]
            /\ worker' = [worker EXCEPT !.pc = IF UsesTfLite(plan) THEN "initialize" ELSE "compute"]
    /\ UNCHANGED <<plan, abort, session, delegate, data>>

-----------------------------------------------------------------------------
(* The thread of the runner, and TensorFlow's.                             *)

\* A dataset provider is registered, and TensorFlow has its token among the inputs, while the
\* calling thread waits.
DatasetProviderRegistered == main.pc \in {"wait", "cancel", "graceful", "extended"}

Computing == DatasetProviderRegistered /\ worker.pc = "compute"

CreateIterator(i) ==
    /\ Computing
    /\ data.iter[i].pc = "none"
    /\ Cardinality({j \in Iters : data.iter[j].pc # "none"}) < MaxMade
    /\ \E made \in CreateExampleIterator(data, i) : data' = MakeIterator(data, i, made)
    /\ UNCHANGED <<plan, main, worker, abort, session, delegate>>

AskForExample(i) ==
    /\ Computing
    /\ data.iter[i].pc \in {"open", "finished", "failing"}
    /\ \E a \in NextAnswers(data, i) : data' = GetNext(data, i, a)
    /\ UNCHANGED <<plan, main, worker, abort, session, delegate>>

DestroyIterator(i) ==
    /\ Computing
    /\ data.iter[i].pc \in {"open", "finished", "failing"}
    /\ data' = Destroyed(data, {i})
    /\ UNCHANGED <<plan, main, worker, abort, session, delegate>>

\* ToFcpStatus: every error of TensorFlow but OUT_OF_RANGE is an invalid argument, and
\* RunTensorFlowInternal takes OUT_OF_RANGE for success.
ToFcpStatus(code) == IF code \in {"OK", "OUT_OF_RANGE"} THEN "OK" ELSE "INVALID_ARGUMENT"

\* Session::Run returns.
SessionRunReturns ==
    /\ Computing /\ ~UsesTfLite(plan)
    /\ \E code \in {"OK", "OUT_OF_RANGE", "error"} :
           worker' = [pc |-> "done", result |-> ToFcpStatus(code)]
    /\ UNCHANGED <<plan, main, abort, session, delegate, data>>

\* The interpreter and its delegate exist and the pointer to the delegate is stored, or not.
InitializeInterpreter ==
    /\ main.pc # "crashed" /\ worker.pc = "initialize"
    /\ \/ /\ worker' = [pc |-> "done", result |-> "INVALID_ARGUMENT"]
          /\ UNCHANGED delegate
       \/ /\ worker' = [worker EXCEPT !.pc = "compute"]
          /\ delegate' = [delegate EXCEPT !.ptr = "set", !.exists = TRUE]
    /\ UNCHANGED <<plan, main, abort, session, data>>

ConvertTfLiteStatusInternal(r) ==
    CASE r = "ok" -> "OK"
      [] r = "error" /\ delegate.cancelled -> "CANCELLED"
      [] OTHER -> "INVALID_ARGUMENT"

InvokeReturns ==
    /\ Computing /\ UsesTfLite(plan)
    /\ \E r \in {"ok", "error", "delegate error"} :
           worker' = [pc |-> "clear", result |-> ConvertTfLiteStatusInternal(r)]
    /\ UNCHANGED <<plan, main, abort, session, delegate, data>>

ClearDelegate ==
    /\ main.pc # "crashed" /\ worker.pc = "clear"
    /\ worker' = [worker EXCEPT !.pc = "outputs"]
    /\ delegate' = [delegate EXCEPT !.ptr = "null"]
    /\ UNCHANGED <<plan, main, abort, session, data>>

\* The outputs are taken from the interpreter, if they are the ones asked for; the interpreter,
\* the delegate and the iterators go.
ConstructOutputsInternal ==
    /\ main.pc # "crashed" /\ worker.pc = "outputs"
    /\ \E result \in {worker.result, IF worker.result = "OK" THEN "INVALID_ARGUMENT" ELSE worker.result} :
           worker' = [pc |-> "done", result |-> result]
    /\ delegate' = [delegate EXCEPT !.exists = FALSE]
    /\ data' = Destroyed(data, Iters)
    /\ UNCHANGED <<plan, main, abort, session>>

-----------------------------------------------------------------------------
(* WaitUntilDone and Abort.                                                *)

RequestAbort ==
    /\ ~abort /\ main.pc \notin {"returned", "crashed", "exited"}
    /\ abort' = TRUE
    /\ UNCHANGED <<plan, main, worker, session, delegate, data>>

\* What the caller of Run gets: once it has aborted, that it was cancelled.
TakenResult(pc) == IF pc = "wait" THEN worker.result ELSE "CANCELLED"

TakeResult ==
    /\ main.pc \in {"wait", "graceful", "extended"} /\ worker.pc = "done"
    /\ main' = [main EXCEPT !.pc = "conclude", !.result = TakenResult(main.pc)]
    /\ UNCHANGED <<plan, worker, abort, session, delegate, data>>

\* The abort function: TensorFlow's session is closed; of TFLite the pointer is read ...
Abort ==
    /\ main.pc = "wait" /\ abort
    /\ IF UsesTfLite(plan)
       THEN main' = [main EXCEPT !.pc = "cancel", !.ptr = delegate.ptr] /\ UNCHANGED session
       ELSE main' = [main EXCEPT !.pc = "graceful"] /\ session' = "closed"
    /\ UNCHANGED <<plan, worker, abort, delegate, data>>

\* ... and then used.  No constructor sets the pointer, and the delegate may have gone since it was
\* read: the call then has no defined effect.
CancelDelegate ==
    /\ main.pc = "cancel"
    /\ \/ /\ main' = [main EXCEPT !.pc = "graceful"]
          /\ delegate' = [delegate EXCEPT !.cancelled = @ \/ (main.ptr = "set" /\ delegate.exists)]
       \/ /\ main.ptr = "uninitialised" \/ (main.ptr = "set" /\ ~delegate.exists)
          /\ Crash
          /\ UNCHANGED delegate
    /\ UNCHANGED <<plan, worker, abort, session, data>>

\* The graceful and then the extended period pass; after both the process exits.
ShutdownTimeout ==
    /\ main.pc \in {"graceful", "extended"} /\ worker.pc # "done"
    /\ main' = [main EXCEPT !.pc = IF main.pc = "graceful" THEN "extended" ELSE "exited"]
    /\ worker' = IF main.pc = "graceful" THEN worker ELSE [worker EXCEPT !.pc = "exited"]
    /\ UNCHANGED <<plan, abort, session, delegate, data>>

\* The engine's RunPlan after the run.
Conclude ==
    /\ main.pc = "conclude"
    /\ main' = [Returned(main, OutcomeOf(main.result)) EXCEPT
                    !.count = IF main.result = "OK" THEN data.total ELSE 0]
    /\ IF UsesTfLite(plan) THEN UNCHANGED <<session, data>> ELSE CloseAndRelease
    /\ UNCHANGED <<plan, worker, abort, delegate>>

-----------------------------------------------------------------------------
(* The example query engine: everything on the calling thread.             *)

\* One query: its iterator is made, asked once and destroyed.  parsed says whether the answer is a
\* query result, logged how many examples it stands for; want and got are the types of its vector
\* in the spec and in the result.
RunQuery(parsed, logged, want, got) ==
    LET i == Queries[Len(main.vectors) + 1]
    IN  /\ main.pc = "query" /\ Len(main.vectors) < Len(Queries)
        /\ \E made \in CreateExampleIterator(data, i) :
               IF made.code # "OK"
               THEN /\ Return("kExampleIteratorError")
                    /\ data' = [Remembered(data, made.code) EXCEPT !.scratch[i] = made.file]
               ELSE \E a \in NextAnswers(MakeIterator(data, i, made), i) :
                        /\ data' = Destroyed(GetNext(MakeIterator(data, i, made), i, a), {i})
                        /\ IF a.code # "OK" \/ ~parsed
                           THEN Return("kExampleIteratorError")
                           ELSE main' = [main EXCEPT !.vectors = Append(@, <<want, got>>),
                                                     !.count = @ + logged]
        /\ UNCHANGED <<plan, worker, abort, session, delegate>>

\* The checkpoint file: a vector is missing, of no type, or of another type than the spec's.
WriteCheckpoint(vectors) ==
    IF \A v \in Elements(vectors) : v[1] = v[2] THEN "OK" ELSE "error"

\* The lightweight format knows no BOOL and no BYTES.
GenerateAggregationTensors(vectors) ==
    IF \A v \in Elements(vectors) : v[1] = v[2] /\ v[2] \notin {"BOOL", "BYTES"} THEN "OK" ELSE "error"

\* For a vector of BYTES, WriteCheckpoint copies the result's string values, of which there are
\* none, and reads as many as there are BYTES: no defined content, if the process survives.
WriteResults(lightweight) ==
    LET status == IF lightweight THEN GenerateAggregationTensors(main.vectors)
                  ELSE WriteCheckpoint(main.vectors)
        undefined == ~lightweight /\ \E v \in Elements(main.vectors) : v = <<"BYTES", "BYTES">>
    IN  /\ main.pc = "query" /\ Len(main.vectors) = Len(Queries)
        /\ \/ main' = [main EXCEPT !.pc = "returned",
                          !.outcome = IF status = "OK" THEN "kSuccess" ELSE "kExampleIteratorError",
                          !.checkpoint = CASE status # "OK" -> "none"
                                           [] undefined -> "undefined"
                                           [] OTHER -> "results"]
           \/ undefined /\ Crash
        /\ UNCHANGED <<plan, worker, abort, session, delegate, data>>

-----------------------------------------------------------------------------
PlanInit ==
    /\ plan \in Plans
    /\ main = [pc |-> "start", ptr |-> "null", result |-> "none", outcome |-> "none", count |-> 0,
               vectors |-> <<>>, checkpoint |-> "none", logged |-> "none", status |-> "none"]
    /\ worker = [pc |-> "idle", result |-> "none"]
    /\ abort = FALSE
    /\ session = "open"
    /\ delegate = [ptr |-> "uninitialised", exists |-> FALSE, cancelled |-> FALSE]
    /\ data = NewData(plan.kind)

MainStep ==
    \/ \E read \in {"fails", "garbled", "parses"} : RunLocalComputation(read)
    \/ \E flaw \in {"graph", "constants", "none"} : RunPlan(flaw)
    \/ Run \/ TakeResult \/ Abort \/ CancelDelegate \/ ShutdownTimeout \/ Conclude
    \/ \E parsed \in BOOLEAN, logged \in 0..MaxLogged, want \in DataTypes,
          got \in DataTypes \cup {"missing"} : RunQuery(parsed, logged, want, got)
    \/ \E lightweight \in BOOLEAN : WriteResults(lightweight)

WorkerStep == SessionRunReturns \/ InitializeInterpreter \/ InvokeReturns \/ ClearDelegate \/ ConstructOutputsInternal

IteratorStep == \E i \in Iters : CreateIterator(i) \/ AskForExample(i) \/ DestroyIterator(i)

PlanNext == MainStep \/ WorkerStep \/ IteratorStep \/ RequestAbort

\* The calling thread is scheduled, its waits end.  Nothing is assumed of TensorFlow.
PlanSpec == PlanInit /\ [][PlanNext]_planVars /\ WF_planVars(MainStep)

-----------------------------------------------------------------------------
(* Properties.                                                             *)

CollectedBy(S) ==
    LET sum[T \in SUBSET S] == IF T = {} THEN 0
                               ELSE LET i == CHOOSE i \in T : TRUE IN data.stats[i] + sum[T \ {i}]
    IN  sum[S]

\* The outcome RunPlan returns says what happened: TensorFlow is blamed only when no iterator
\* failed, an iterator only when one did or a query's result was no use, and the plan is
\* interrupted only if it was asked to stop or an iterator was; by then nothing of the computation
\* runs or lives, and the examples it counts are those the statistics got and the iterators gave.
PlanResultIsTruthful ==
    main.pc = "returned" =>
        /\ main.outcome = "kTensorflowError" => data.errors = {}
        /\ main.outcome = "kExampleIteratorError" => data.errors # {} \/ plan.kind = "query"
        /\ main.outcome = "kInterrupted" \/ main.status = "CANCELLED" => abort \/ "CANCELLED" \in data.errors
        /\ worker.pc \in {"idle", "done"} /\ ~delegate.exists
        /\ \A i \in Iters : data.iter[i].pc \in {"none", "destroyed"}
        /\ \A i \in Iters : data.stats[i] = IF ShouldCollectStats(data, i) THEN data.iter[i].recorded ELSE 0
        /\ main.outcome = "kSuccess" /\ plan.kind # "query" => main.count = CollectedBy(Iters)

\* The iterator over federated select slices: the file it names holds the next slice, also after a
\* write that failed (or a part of it, if closing the file failed), and never another one; it ends
\* when every slice was served, and leaves no file.
SlicesAreServedInOrder ==
    \A i \in Iters : FactoryOf(data, i) = "federated_select" =>
        LET it == data.iter[i]
        IN  /\ it.pc = "open" /\ it.last = "OK" => data.scratch[i] \in {it.recorded, Torn}
            /\ it.pc = "finished" => it.recorded = NumSlices
            /\ it.pc \in {"finished", "destroyed"} /\ it.code = "OK" => data.scratch[i] = NoFile

\* A plan that is asked to stop is over at last, if need be with the process: whatever TensorFlow
\* does, the calling thread waits only so long.
AbortedPlanEnds == abort ~> main.pc \in {"returned", "crashed", "exited"}
=============================================================================
