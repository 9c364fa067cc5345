----------------------------- MODULE PhaseLogger -----------------------------
(***************************************************************************)
(* PhaseLoggerImpl (fcp/client/phase_logger_impl.cc): what each report of  *)
(* the runner's progress leaves in the operational statistics.  Published  *)
(* events, diagnostics and histograms are left out.  Every operator takes  *)
(* the logger record of OpStats and returns the record after the call.     *)
(*                                                                         *)
(* The many ways a phase ends (completed, interrupted, aborted, ...) make  *)
(* one event kind, ENDED, since only RESULT_UPLOAD_STARTED and             *)
(* RESULT_UPLOAD_SERVER_ABORTED are ever read back.                        *)
(***************************************************************************)
EXTENDS OpStats

Opening == {"STARTED", "RESULT_UPLOAD_STARTED"}
Closing == {"ENDED", "RESULT_UPLOAD_SERVER_ABORTED"}

Started(l, phase, kind) == AddEvent(StartLoggingForPhase(l, phase), kind)
Ended(l, kind) == StopLoggingForTheCurrentPhase(AddEvent(l, kind))

\* The two initialisation errors, and a run that is not started, are logged outside of any phase.
LogInitializationError(l) == AddEvent(l, "INFO")
LogTaskNotStarted(l) == AddEvent(l, "INFO")

LogEligibilityEvalCheckinStarted(l) == Started(l, "ELIGIBILITY_EVAL_CHECKIN", "STARTED")
LogEligibilityEvalCheckinPlanUriReceived(l) == AddEvent(l, "INFO")
\* IOError, ClientInterrupted, ServerAborted, NotConfigured, TurnedAway, InvalidPayload.
LogEligibilityEvalCheckinFailed(l) == Ended(l, "ENDED")
LogEligibilityEvalCheckinCompleted(l) == Ended(l, "ENDED")

LogEligibilityEvalComputationStarted(l) == Started(l, "ELIGIBILITY_COMPUTATION", "STARTED")
\* InvalidArgument, ExampleIteratorError, TensorflowError, IOError, Interrupted.
LogEligibilityEvalComputationFailed(l) == Ended(l, "ENDED")
LogEligibilityEvalComputationCompleted(l) == Ended(l, "ENDED")

LogMultipleTaskAssignmentsStarted(l) == Started(l, "MULTIPLE_TASK_ASSIGNMENTS", "STARTED")
\* PayloadIOError and InvalidPayload concern one of the tasks and leave the phase open.
LogMultipleTaskAssignmentsPayloadError(l) == AddEvent(l, "INFO")
\* IOError, ClientInterrupted, ServerAborted, TurnedAway.
LogMultipleTaskAssignmentsFailed(l) == Ended(l, "ENDED")
\* PlanUriReceived and PlanUriPartialReceived.
LogMultipleTaskAssignmentsPlanUriReceived(l) == AddEvent(l, "INFO")
\* PartialCompleted and Completed.
LogMultipleTaskAssignmentsCompleted(l) == Ended(l, "ENDED")

LogCheckinStarted(l) == Started(l, "CHECKIN", "STARTED")
\* Defective variant: the phase is not left.
LogCheckinFailedStays(l) == AddEvent(l, "ENDED")

\* IOError, ClientInterrupted, ServerAborted, TurnedAway, InvalidPayload.
LogCheckinFailed(l) == Ended(l, "ENDED")
LogCheckinPlanUriReceived(l, task) == AddEventAndSetTaskName(l, task, "INFO")
LogCheckinCompleted(l, index) ==
    LET done == AddEvent(l, "ENDED")
    IN  StopLoggingForTheCurrentPhase(IF index = NoIndex THEN done ELSE SetMinSepPolicyIndex(done, index))

LogComputationStarted(l, task) ==
    AddEventAndSetTaskName(StartLoggingForPhase(l, "COMPUTATION"), task, "STARTED")
\* InvalidArgument, IOError, ExampleIteratorError, TensorflowError, Interrupted.
LogComputationFailed(l) == Ended(l, "ENDED")
LogComputationCompleted(l) == Ended(l, "ENDED")

\* The upload phases commit the run before anything is sent; the commit is CommitToStorage.
LogResultUploadStarted(l) == Started(l, "UPLOAD", "RESULT_UPLOAD_STARTED")
LogFailureUploadStarted(l) == Started(l, "UPLOAD", "STARTED")
\* IOError and ClientInterrupted.
LogResultUploadFailed(l) == Ended(l, "ENDED")
LogResultUploadServerAborted(l) == Ended(l, "RESULT_UPLOAD_SERVER_ABORTED")
LogResultUploadCompleted(l) == Ended(l, "ENDED")
\* IOError, ClientInterrupted, ServerAborted, Completed.
LogFailureUploadEnded(l) == Ended(l, "ENDED")
=============================================================================
