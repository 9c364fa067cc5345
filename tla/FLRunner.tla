------------------------------- MODULE FLRunner -------------------------------
(***************************************************************************)
(* The federated computation runner (fcp/client/fl_runner.cc): the runs a  *)
(* device makes one after another, each a sequence of check-ins,           *)
(* computations and uploads.  It composes the protocol object              *)
(* (HttpFederatedProtocol), the operational statistics and their logger    *)
(* (OpStats, PhaseLogger) and the eligibility decision                     *)
(* (EligibilityDecider).                                                   *)
(*                                                                         *)
(* An action is what the runner does between two points where a crash is   *)
(* told apart: a request answered, a computation finished, the statistics  *)
(* committed.  The device may crash at any of them; what is on disk and    *)
(* what the server got survive.                                            *)
(***************************************************************************)
EXTENDS EligibilityDecider, HttpFederatedProtocol

CONSTANTS
    Configs,      \* what the runs meet: [phaseStats, spec, index]
    Devices,      \* what the eligibility policies may find on the device
    EetAnswers,   \* the answers to the eligibility check-in the server may give
    MaxRuns,      \* bound on the number of runs
    Budget,       \* bound on the runs and the troubles (failures, refusals, crashes) together
    MaxTime       \* bound on the clock

VARIABLES
    pc,           \* what the runner does next
    log,          \* the OpStatsLogger of the run
    run,          \* the locals of RunFederatedComputation
    runs,         \* how many runs were started
    troubles,     \* how many things went wrong, for the bound
    contributed   \* history: the results the server may hold, with their upload times

vars == <<now, db, proto, pc, log, run, runs, troubles, contributed>>

NoSpec == [tasks |-> <<>>, mode |-> <<>>, policies |-> <<>>, uses |-> <<>>]

\* window and result make up the FLRunnerResult; queue holds the assigned tasks still to be run,
\* single tells that the single check-in is still to come, done holds the successful tasks, permanent
\* tells that a permanent error was met.
NewRun(config) ==
    [config |-> config, spec |-> NoSpec, names |-> {}, single |-> FALSE, hasInfo |-> FALSE,
     eligible |-> {}, queue |-> <<>>, outcome |-> "none", results |-> FALSE, uploadAt |-> NoTime,
     expected |-> 0, done |-> {}, window |-> "none", result |-> "FAIL", permanent |-> FALSE]

\* Between two runs only the device's configuration stays.
NoRun == NewRun(run.config)

Init ==
    /\ now = 0
    /\ db = [entries |-> <<>>, trust |-> 0]
    /\ proto = NewProtocol
    /\ pc = "idle"
    /\ log = NewLogger(FALSE, FALSE)
    /\ run \in {NewRun(config) : config \in Configs}
    /\ runs = 0
    /\ troubles = 0
    /\ contributed = {}

\* UpdateRetryWindowAndNetworkStats, after a step that left the protocol object as p.
Updated(r, p) == [r EXCEPT !.window = GetLatestRetryWindow(p)]

Failed(r, code) == [r EXCEPT !.permanent = @ \/ code \in PermanentCodes]

-----------------------------------------------------------------------------
(* The start of a run, and its eligibility check-in.                       *)

\* The outer RunFederatedComputation and the inner one up to its first request.  A logger whose
\* database could not be opened records nothing; a cache that could not is "lost", or "fatal" with
\* the flag that says so.  uri tells whether the entry point is valid, abort what should_abort
\* answers.
StartRun(real, cache, uri, abort) ==
    /\ pc = "idle"
    /\ runs' = runs + 1
    /\ proto' = NewProtocol
    /\ LET new == NewLogger(real, run.config.phaseStats)
           logger == IF real THEN new ELSE LogInitializationError(new)
           cached == IF cache = "ok" THEN logger ELSE LogInitializationError(logger)
           starts == cache # "fatal" /\ uri
       IN  /\ log' = IF starts /\ abort THEN LogTaskNotStarted(cached) ELSE cached
           /\ run' = IF starts THEN Updated(NoRun, NewProtocol) ELSE NoRun
           /\ pc' = IF starts /\ ~abort THEN "eligibility check-in" ELSE "commit"
    /\ UNCHANGED <<now, db, contributed>>

\* From the weights (eligible) or their absence, and the spec: the tasks to ask for together and
\* whether the single check-in follows.
CreateEligibilityEvalResult(r, hasInfo, eligible, spec) ==
    LET multiple == {t \in ToSet(spec.tasks) : spec.mode[t] = "multiple"}
    IN  [r EXCEPT !.hasInfo = hasInfo, !.spec = spec,
                  !.names = IF hasInfo THEN multiple \cap eligible ELSE multiple,
                  !.eligible = IF hasInfo THEN eligible \ multiple ELSE Tasks \ multiple,
                  !.single = spec = NoSpec \/ ToSet(spec.tasks) \ multiple # {}]

WithoutPolicies(spec) == [spec EXCEPT !.policies = <<>>, !.uses = [t \in DOMAIN @ |-> {}]]

\* The spec the server's answer carries.
OfferedSpec(a, spec) ==
    CASE a.kind = "task" -> spec
      [] a.kind = "no policies" -> WithoutPolicies(spec)
      [] OTHER -> NoSpec

IssueEligibilityEvalCheckin(a) ==
    /\ pc = "eligibility check-in"
    /\ EligibilityEvalCheckin(a)
    /\ LET started == LogEligibilityEvalCheckinStarted(log)
           received == IF EligibilityEvalUrisReceived(a)
                       THEN LogEligibilityEvalCheckinPlanUriReceived(started) ELSE started
           updated == Updated(Failed(run, a.code), proto')
           spec == OfferedSpec(a, run.config.spec)
       IN  \/ /\ a.code # "OK" \/ a.kind = "rejected"
              /\ log' = LogEligibilityEvalCheckinFailed(received)
              /\ run' = updated
              /\ pc' = "commit"
           \/ /\ a.kind \in {"not configured", "no policies"}
              /\ log' = LogEligibilityEvalCheckinFailed(received)
              /\ run' = CreateEligibilityEvalResult(updated, FALSE, {}, spec)
              /\ pc' = "assignments"
           \/ /\ a.kind \in {"task", "task without spec"}
              /\ log' = received
              /\ run' = [updated EXCEPT !.spec = spec]
              /\ pc' = "eligibility plan"
    /\ UNCHANGED <<now, db, runs, contributed>>

\* RunEligibilityEvalPlan when the plan cannot be parsed or the checkpoint cannot be stored.
RejectEligibilityEvalPayload ==
    /\ pc = "eligibility plan"
    /\ ReportEligibilityEvalError
    /\ log' = LogEligibilityEvalCheckinFailed(log)
    /\ run' = Updated(run, proto)
    /\ pc' = "commit"
    /\ UNCHANGED <<now, db, runs, contributed>>

\* What a no-op database answers: no entries, and a trustworthy time of zero.
ReadHistory == IF log.real THEN Read ELSE {[db |-> [entries |-> <<>>, trust |-> 0], ok |-> TRUE]}

\* RunEligibilityEvalPlan with the policies of the spec, which read the history (ReportEligibilityEvalError
\* follows a failed read); without a spec there is nothing to compute.
RunEligibilityEvalPlan(read, dev) ==
    /\ pc = "eligibility plan"
    /\ ReportEligibilityEvalError
    /\ db' = IF log.real /\ run.spec # NoSpec THEN read.db ELSE db
    /\ LET started == LogEligibilityEvalComputationStarted(LogEligibilityEvalCheckinCompleted(log))
           eligible == ComputeEligibility(run.spec, read.db, dev)
           completed == run.spec = NoSpec \/ read.ok
       IN  /\ log' = IF completed THEN LogEligibilityEvalComputationCompleted(started)
                                  ELSE LogEligibilityEvalComputationFailed(started)
           /\ run' = CASE run.spec = NoSpec -> CreateEligibilityEvalResult(run, FALSE, {}, NoSpec)
                       [] read.ok -> CreateEligibilityEvalResult(run, run.spec.tasks # <<>>, eligible, run.spec)
                       [] OTHER -> Updated(run, proto)
           /\ pc' = IF completed THEN "assignments" ELSE "commit"
    /\ UNCHANGED <<now, runs, contributed>>

-----------------------------------------------------------------------------
(* Task assignment.                                                        *)

\* Where the runner goes with the tasks and the check-in it still has before it.
NextStep(r) == CASE r.queue # <<>> -> "compute" [] r.single -> "check-in" [] OTHER -> "finish"

\* An FCP_CHECK that does not hold ends the process: nothing is logged or written any more.
CheckFails ==
    /\ pc' = "check failed"
    /\ UNCHANGED <<now, db, proto, log, run, runs, contributed>>

\* order lists the tasks whose plan and checkpoint file could be made, in the order of the map of
\* assignments.
IssueMultipleTaskAssignments(a, order) ==
    /\ pc = "assignments"
    /\ run.names # {}
    /\ IF ~PerformMultipleTaskAssignmentsAllowed THEN CheckFails ELSE
       /\ PerformMultipleTaskAssignments(a)
       /\ LET started == LogMultipleTaskAssignmentsStarted(log)
              received == IF MultipleTaskAssignmentsUrisReceived(a)
                          THEN LogMultipleTaskAssignmentsPlanUriReceived(started) ELSE started
              queue == [i \in DOMAIN order |-> [task |-> order[i], id |-> order[i]]]
              next == [Updated(Failed(run, a.code), proto')
                          EXCEPT !.expected = Cardinality(run.names), !.names = {},
                                 !.queue = IF a.code = "OK" THEN queue ELSE <<>>]
          IN  /\ log' = CASE a.code # "OK" \/ DOMAIN a.outcome = {} -> LogMultipleTaskAssignmentsFailed(received)
                          [] ToSet(order) = DOMAIN a.outcome -> LogMultipleTaskAssignmentsCompleted(received)
                          [] OTHER -> LogMultipleTaskAssignmentsCompleted(
                                          LogMultipleTaskAssignmentsPayloadError(received))
              /\ run' = next
              /\ pc' = NextStep(next)
       /\ UNCHANGED <<now, db, runs, contributed>>

SkipMultipleTaskAssignments ==
    /\ pc = "assignments"
    /\ run.names = {}
    /\ pc' = NextStep(run)
    /\ UNCHANGED <<now, db, proto, log, run, runs, contributed>>

\* The plan cannot be parsed or its input checkpoint cannot be stored, or the task can be run.
CreateCheckinResultFromTaskAssignment == {"invalid payload", "IO error", "ok"}

\* payload is the outcome of CreateCheckinResultFromTaskAssignment; the min-sep index is that of
\* the plan.
IssueCheckin(a, payload) ==
    /\ pc = "check-in"
    /\ IF ~CheckinAllowed(run.hasInfo) THEN CheckFails ELSE
       /\ Checkin(a)
       /\ LET started == LogCheckinStarted(log)
              received == IF a.task = NoSession THEN started ELSE LogCheckinPlanUriReceived(started, a.task)
              assigned == a.kind = "task" /\ payload = "ok"
              next == [Updated(Failed(run, a.code), proto')
                          EXCEPT !.expected = @ + 1, !.single = FALSE,
                                 !.queue = IF assigned THEN <<[task |-> a.task, id |-> NoSession]>> ELSE <<>>]
          IN  /\ log' = IF assigned THEN LogCheckinCompleted(received, run.config.index)
                                    ELSE LogCheckinFailed(received)
              /\ run' = next
              /\ pc' = NextStep(next)
       /\ UNCHANGED <<now, db, runs, contributed>>

-----------------------------------------------------------------------------
(* Computing a task and reporting it.                                      *)

\* RunPlanWithTensorflowSpec and RunPlanWithExampleQuerySpec: the plan is refused, or the engine
\* runs it and it succeeds or fails.
RunPlan == {"failed", "success"}

\* A successful plan may still leave results that cannot be read or are not allowed.
CreateComputationResults(outcome) == IF outcome = "success" THEN {"completed", "bad results"} ELSE {outcome}

ComputationEnds == {"no output file"} \cup UNION {CreateComputationResults(o) : o \in RunPlan}

LogComputationOutcome(l, end) == IF end = "completed" THEN LogComputationCompleted(l) ELSE LogComputationFailed(l)

\* It reads the history (which may reset the database), and goes on if it cannot.
FillSelectorContextWithTaskLevelDetails(read) == db' = IF log.real THEN read.db ELSE db

\* Where the output file cannot be made it returns before the retry window is updated.
RunComputation(read, end) ==
    /\ pc = "compute"
    /\ FillSelectorContextWithTaskLevelDetails(read)
    /\ LET started == LogComputationStarted(log, Head(run.queue).task)
           ended == [run EXCEPT !.outcome = IF end \in {"completed", "bad results"} THEN "success" ELSE "failed",
                                !.results = end = "completed"]
       IN  /\ log' = LogComputationOutcome(started, end)
           /\ run' = IF end = "no output file" THEN ended ELSE Updated(ended, proto)
    /\ pc' = "upload"
    /\ UNCHANGED <<now, proto, runs, contributed>>

\* A task counts as successful when the computation succeeded and its report did.
TaskEnds(reported) ==
    [run EXCEPT !.queue = Tail(@), !.outcome = "none", !.results = FALSE, !.uploadAt = NoTime,
                !.done = IF run.outcome = "success" /\ reported THEN @ \cup {Head(run.queue)} ELSE @]

\* The first half of ReportPlanResult: the upload is logged and committed before anything is sent,
\* and nothing is sent if the commit fails.
UploadStarted == IF run.results THEN LogResultUploadStarted(log) ELSE LogFailureUploadStarted(log)

StartUpload(commit) ==
    /\ pc = "upload"
    /\ LET next == IF commit.ok THEN [run EXCEPT !.uploadAt = now] ELSE TaskEnds(FALSE)
       IN  /\ db' = commit.db
           /\ log' = [UploadStarted EXCEPT !.committed = TRUE]
           /\ run' = next
           /\ pc' = IF commit.ok THEN "report" ELSE NextStep(next)
    /\ UNCHANGED <<now, proto, runs, contributed>>

\* The periods of the without-replacement policies the task was selected under.
SworPolicies(task) ==
    {run.spec.policies[i] : i \in {j \in DOMAIN run.spec.policies :
        /\ task \in ToSet(run.spec.tasks) /\ j \in run.spec.uses[task]
        /\ run.spec.policies[j].type = "swor"}}

Contribution == [task |-> Head(run.queue).task, at |-> run.uploadAt, run |-> runs,
                 logged |-> log.real, swor |-> SworPolicies(Head(run.queue).task)]

LogResultUploadStatus(code) ==
    CASE code = "OK" -> LogResultUploadCompleted(log)
      [] code = "ABORTED" -> LogResultUploadServerAborted(log)
      [] OTHER -> LogResultUploadFailed(log)

\* The second half of ReportPlanResult, and the task's part in the result of the run.
ReportResult(a) ==
    /\ pc = "report"
    /\ run.results
    /\ IF ~ReportAllowed(Head(run.queue).id) THEN CheckFails ELSE
       /\ ReportCompleted(Head(run.queue).id, a)
       /\ log' = LogResultUploadStatus(a.code)
       /\ contributed' = contributed \cup (IF ResultSent(a) /\ a.code # "ABORTED" THEN {Contribution} ELSE {})
       /\ LET next == TaskEnds(a.code = "OK")
          IN  /\ run' = [next EXCEPT !.permanent =
                             @ \/ TaskState(proto', Head(run.queue).id) = "ReportFailedPermanentError"]
              /\ pc' = NextStep(next)
       /\ UNCHANGED <<now, db, runs>>

\* ok tells whether the server took the report of the failure.
ReportFailure(ok) ==
    /\ pc = "report"
    /\ ~run.results
    /\ IF ~ReportAllowed(Head(run.queue).id) THEN CheckFails ELSE
       /\ ReportNotCompleted(Head(run.queue).id)
       /\ log' = LogFailureUploadEnded(log)
       /\ run' = TaskEnds(ok)
       /\ pc' = NextStep(run')
       /\ UNCHANGED <<now, db, runs, contributed>>

-----------------------------------------------------------------------------
(* The end of a run.                                                       *)

Finish ==
    /\ pc = "finish"
    /\ run' = [Updated(run, proto)
                  EXCEPT !.result = CASE run.done = {} -> "FAIL"
                                      [] Cardinality(run.done) = run.expected -> "SUCCESS"
                                      [] OTHER -> "PARTIAL"]
    /\ pc' = "commit"
    /\ UNCHANGED <<now, db, proto, log, runs, contributed>>

\* The destructor of the logger commits what it has; its result is ignored.
CommitRun(commit) ==
    /\ pc = "commit"
    /\ db' = commit.db
    /\ log' = NewLogger(FALSE, FALSE)
    /\ run' = NoRun
    /\ proto' = NewProtocol
    /\ pc' = "idle"
    /\ UNCHANGED <<now, runs, contributed>>

\* The process ends at any point; a result being reported may have reached the server.
Crash(sent) ==
    /\ "crash" \in Faults
    /\ pc # "idle"
    /\ contributed' = contributed \cup (IF sent /\ pc = "report" /\ run.results THEN {Contribution} ELSE {})
    /\ log' = NewLogger(FALSE, FALSE)
    /\ run' = NoRun
    /\ proto' = NewProtocol
    /\ pc' = "idle"
    /\ UNCHANGED <<now, db, runs>>

\* Time passes between runs and while a task is computed: the steps in between take none.
Tick ==
    /\ pc \in {"idle", "upload"}
    /\ now < MaxTime
    /\ now' = now + 1
    /\ UNCHANGED <<db, proto, pc, log, run, runs, contributed>>

\* Counts a step against the budget if something goes wrong in it.
Trouble(wrong) ==
    /\ wrong => runs + troubles < Budget
    /\ troubles' = IF wrong THEN troubles + 1 ELSE troubles

\* What a run starts with: all is well, or one thing is not.
Starts ==
    LET well == [real |-> TRUE, cache |-> "ok", uri |-> TRUE, abort |-> FALSE]
    IN  {well, [well EXCEPT !.abort = TRUE]} \cup
        (IF "start" \notin Faults THEN {}
         ELSE {[well EXCEPT !.real = FALSE], [well EXCEPT !.cache = "lost"],
               [well EXCEPT !.cache = "fatal"], [well EXCEPT !.uri = FALSE]})

\* The steps, with what they meet chosen once it is their turn.
Begin ==
    /\ pc = "idle" /\ runs < MaxRuns /\ runs + troubles < Budget
    /\ \E s \in Starts :
           /\ Trouble(s.abort \/ ~s.real \/ s.cache # "ok" \/ ~s.uri)
           /\ StartRun(s.real, s.cache, s.uri, s.abort)

CheckEligibility ==
    /\ pc = "eligibility check-in"
    /\ \E a \in EetAnswers :
           Trouble(a.code # "OK" \/ a.kind = "rejected") /\ IssueEligibilityEvalCheckin(a)

ComputeEligible ==
    /\ pc = "eligibility plan"
    /\ \E read \in ReadHistory, dev \in Devices :
           Trouble(~read.ok) /\ RunEligibilityEvalPlan(read, dev)

AssignTogether ==
    /\ pc = "assignments"
    /\ \E a \in MultipleTaskAssignmentsAnswers(run.names) :
           \E order \in SetToAllKPermutations({t \in DOMAIN a.outcome : a.outcome[t] = "ok"}) :
               Trouble(ToSet(order) # run.names) /\ IssueMultipleTaskAssignments(a, order)

AssignSingle ==
    /\ pc = "check-in"
    /\ \E a \in CheckinAnswers(run.eligible), payload \in CreateCheckinResultFromTaskAssignment :
           Trouble(a.kind # "task" \/ payload # "ok") /\ IssueCheckin(a, payload)

Compute ==
    /\ pc = "compute"
    /\ \E read \in ReadHistory, end \in ComputationEnds :
           Trouble(~read.ok \/ end # "completed") /\ RunComputation(read, end)

CommitUpload ==
    /\ pc = "upload"
    /\ \E commit \in CommitToStorage(UploadStarted) : Trouble(commit.faulty) /\ StartUpload(commit)

Report ==
    /\ pc = "report"
    /\ \/ \E a \in ReportAnswers : Trouble(a.code # "OK") /\ ReportResult(a)
       \/ \E ok \in BOOLEAN : Trouble(~ok) /\ ReportFailure(ok)

End ==
    /\ pc = "commit"
    /\ \E commit \in CommitToStorage(log) : Trouble(commit.faulty) /\ CommitRun(commit)

Next ==
    \/ Begin \/ CheckEligibility
    \/ Trouble(TRUE) /\ RejectEligibilityEvalPayload
    \/ ComputeEligible
    \/ AssignTogether
    \/ Trouble(FALSE) /\ SkipMultipleTaskAssignments
    \/ AssignSingle \/ Compute \/ CommitUpload \/ Report
    \/ Trouble(FALSE) /\ Finish
    \/ End
    \/ \E sent \in BOOLEAN : Trouble(TRUE) /\ Crash(sent)
    \/ Trouble(FALSE) /\ Tick

Spec == Init /\ [][Next]_vars

-----------------------------------------------------------------------------
(* Properties.                                                             *)

\* The history tells the truth about the time it claims to cover: a result the server may hold, sent
\* by a run with a working database after the trustworthy time, is in the database.  This is what
\* committing before sending is for (LogResultUploadStarted), and what pruning, expiry and reset
\* of the database have to move the trustworthy time for.
HistoryIsTrustworthy ==
    \A c \in contributed :
        c.logged /\ c.at > db.trust =>
            \E i \in DOMAIN db.entries : \E j \in DOMAIN db.entries[i].contributions :
                /\ db.entries[i].contributions[j].task = c.task
                /\ db.entries[i].contributions[j].at = c.at

\* Sampling without replacement: a result sent under a policy of period p comes at least p after
\* any result an earlier run sent for the task, or for one of its group, whatever was pruned,
\* expired, reset or lost to a crash in between.
SworSeparation ==
    \A c, d \in contributed :
        \A policy \in c.swor :
            /\ d.run < c.run /\ d.logged /\ c.logged
            /\ d.task \in (IF policy.group = {} THEN {c.task} ELSE policy.group)
            => c.at - d.at >= policy.period

\* The runner calls the protocol object in an order all its FCP_CHECKs accept, and never asks it
\* for a window of the server it did not get.
ChecksHold == pc # "check failed" /\ run.window # "check failed"

\* What the run returns fits together: full success comes with the server's window for accepted
\* devices, that window only comes if a task was assigned, and the window for permanent errors only
\* if one was met.
WindowMatchesOutcome ==
    pc = "commit" =>
        /\ run.window # "none" => run.window = GetLatestRetryWindow(proto)
        /\ run.result = "SUCCESS" => run.window = "accepted"
        /\ run.window = "accepted" => proto.default # "Initialized" \/ DOMAIN proto.tasks # {}
        /\ run.window = "permanent" => run.permanent

\* Every phase a run leaves in the statistics opens with its start event, and every one that was
\* left closes with an event that says how it ended, in the middle of none.
PhasesAreWellFormed ==
    /\ \A i \in DOMAIN log.phases :
           LET events == log.phases[i].events
           IN  /\ \A j \in DOMAIN events : (events[j].kind \in Opening) <=> (j = 1)
               /\ \A j \in DOMAIN events : (events[j].kind \in Closing) <=> (j = Len(events))
    /\ pc = "commit" => ~InPhase(log)

\* The tasks a run reports as contributed to are tasks whose result it sent
\* (contributed_task_names of FLRunnerResult).
ContributedTasksWereSent ==
    \A t \in run.done : \E c \in contributed : c.run = runs /\ c.task = t.task
=============================================================================
