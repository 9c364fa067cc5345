------------------------ MODULE HttpFederatedProtocol ------------------------
(***************************************************************************)
(* The device's side of the federated compute protocol                     *)
(* (fcp/client/http/http_federated_protocol.cc): the state the object goes *)
(* through as the runner calls it, the state of every assigned task, and   *)
(* the retry window it gives back.                                         *)
(*                                                                         *)
(* One action per method.  What the server and the network answer is the   *)
(* action's parameter, a record [kind, code, ...] of the method's set of   *)
(* answers: kind says how far the method got, code is the status it        *)
(* returns.  Requests, URIs and payloads are left out.                     *)
(***************************************************************************)
EXTENDS Integers, FiniteSets, TLC

CONSTANTS Tasks  \* the task names the server may assign; also their aggregation session ids

VARIABLES
    proto  \* the HttpFederatedProtocol object

\* The error codes the client tells apart; INVALID_ARGUMENT stands for the permanent ones
\* (NOT_FOUND, INVALID_ARGUMENT, UNIMPLEMENTED) and UNAVAILABLE for all others but ABORTED.
ErrorCodes == {"ABORTED", "UNAVAILABLE", "INVALID_ARGUMENT"}
PermanentCodes == {"INVALID_ARGUMENT"}

NoSession == "no session"

\* state is object_state_, retry tells whether retry_times_ is set, default and tasks are the
\* states in default_task_info_ and task_info_map_.
NewProtocol ==
    [state |-> "Initialized", retry |-> FALSE, eetEnabled |-> FALSE, eetReported |-> FALSE,
     multiple |-> FALSE, default |-> "Initialized", tasks |-> [t \in {} |-> "Initialized"]]

UpdateObjectStateIfPermanentError(p, code, state) ==
    IF code \in PermanentCodes THEN [p EXCEPT !.state = state] ELSE p

-----------------------------------------------------------------------------
(* EligibilityEvalCheckin.                                                 *)

\* The request fails: nothing is known of the server's windows.
PerformEligibilityEvalTaskRequestErrors == [kind : {"request error"}, code : ErrorCodes]

\* A plan, checkpoint or population spec of the answer cannot be fetched (FetchTaskResources).
FetchTaskResourcesErrors == [kind : {"fetch error"}, code : ErrorCodes]

\* The errors, an answer without a result among them, then the good answers: a spec without
\* policies disables the evaluation.
EligibilityEvalAnswers ==
    PerformEligibilityEvalTaskRequestErrors \cup FetchTaskResourcesErrors
    \cup [kind : {"response error"}, code : {"INVALID_ARGUMENT"}]
    \cup [kind : {"rejected", "not configured", "no policies", "task", "task without spec"}, code : {"OK"}]

\* The callback for received URIs runs before anything is fetched.
EligibilityEvalUrisReceived(a) == a.kind \in {"fetch error", "no policies", "task", "task without spec"}

HandleEligibilityEvalTaskResponse(p, a) ==
    [p EXCEPT !.retry = a.kind # "request error",
              !.state = CASE a.kind = "rejected" -> "EligibilityEvalCheckinRejected"
                          [] a.kind \in {"not configured", "no policies"} -> "EligibilityEvalDisabled"
                          [] a.kind \in {"task", "task without spec"} -> "EligibilityEvalEnabled"
                          [] OTHER -> "EligibilityEvalCheckinFailed"]

EligibilityEvalCheckin(a) ==
    /\ proto.state = "Initialized"
    /\ LET handled == [HandleEligibilityEvalTaskResponse(proto, a)
                          EXCEPT !.eetEnabled = a.kind \in {"task", "task without spec"}]
       IN  proto' = UpdateObjectStateIfPermanentError(handled, a.code,
                                                      "EligibilityEvalCheckinFailedPermanentError")

\* A best-effort request that changes nothing in the object.
ReportEligibilityEvalError == UNCHANGED proto

-----------------------------------------------------------------------------
(* Checkin and PerformMultipleTaskAssignments.                             *)

\* The result of the eligibility evaluation is reported with the first of the two requests.
WithEligibilityEvalReport(p) == [p EXCEPT !.eetReported = @ \/ p.eetEnabled]

\* Defective variant: a permanent error of the assignment before is not expected.
CheckinAllowedUnlessPermanent(hasInfo) ==
    /\ proto.state \in {"EligibilityEvalDisabled", "EligibilityEvalEnabled",
                        "MultipleTaskAssignmentsAccepted", "MultipleTaskAssignmentsFailed",
                        "MultipleTaskAssignmentsNoAvailableTask"}
    /\ hasInfo <=> proto.eetEnabled

\* The FCP_CHECKs of Checkin: hasInfo tells whether task_eligibility_info has a value.
CheckinAllowed(hasInfo) ==
    /\ proto.state \in {"EligibilityEvalDisabled", "EligibilityEvalEnabled",
                        "MultipleTaskAssignmentsAccepted", "MultipleTaskAssignmentsFailed",
                        "MultipleTaskAssignmentsFailedPermanentError",
                        "MultipleTaskAssignmentsNoAvailableTask"}
    /\ hasInfo <=> proto.eetEnabled

\* PerformTaskAssignmentAndReportEligibilityEvalResultRequests.
TaskAssignmentRequestErrors == [kind : {"request error"}, code : ErrorCodes, task : {NoSession}]

\* The operation fails or is cancelled, or its answer cannot be understood.
HandleTaskAssignmentOperationResponseErrors ==
    [kind : {"operation error"}, code : ErrorCodes, task : {NoSession}]
    \cup [kind : {"response error"}, code : {"INVALID_ARGUMENT"}, task : {NoSession}]

\* The task's aggregation is not one the client knows.
CreatePerTaskInfoErrors(tasks) == [kind : {"task info error"}, code : {"INVALID_ARGUMENT"}, task : tasks]

CheckinAnswers(tasks) ==
    TaskAssignmentRequestErrors
    \cup HandleTaskAssignmentOperationResponseErrors
    \cup [kind : {"rejected"}, code : {"OK"}, task : {NoSession}]
    \cup {[kind |-> e.kind, code |-> e.code, task |-> t] : e \in FetchTaskResourcesErrors, t \in tasks}
    \cup CreatePerTaskInfoErrors(tasks)
    \cup [kind : {"task"}, code : {"OK"}, task : tasks]

HandleTaskAssignmentInnerResponse(p, a) ==
    CASE a.kind = "rejected" -> [p EXCEPT !.state = "CheckinRejected"]
      [] a.kind = "task" -> [p EXCEPT !.state = "CheckinAccepted", !.default = "CheckinAccepted"]
      [] OTHER -> [p EXCEPT !.state = "CheckinFailed"]

Checkin(a) ==
    proto' = UpdateObjectStateIfPermanentError(
                 HandleTaskAssignmentInnerResponse(WithEligibilityEvalReport(proto), a),
                 a.code, "CheckinFailedPermanentError")

PerformMultipleTaskAssignmentsAllowed ==
    proto.state \in {"EligibilityEvalDisabled", "EligibilityEvalEnabled"}

\* PerformMultipleTaskAssignmentsAndReportEligibilityEvalResult.
MultipleTaskAssignmentsRequestErrors ==
    [kind : {"request error"}, code : ErrorCodes, outcome : {[t \in {} |-> "ok"]}]

\* outcome gives every assigned task "ok", "no info" (its PerTaskInfo cannot be made) or
\* "no payload" (its resources cannot be fetched).
MultipleTaskAssignmentsAnswers(names) ==
    MultipleTaskAssignmentsRequestErrors
    \cup [kind : {"fetch error"}, code : ErrorCodes, outcome : UNION {[S -> {"ok"}] : S \in SUBSET names \ {{}}}]
    \cup [kind : {"assigned"}, code : {"OK"},
          outcome : UNION {[S -> {"ok", "no info", "no payload"}] : S \in SUBSET names}]

\* The assignments that got as far as the map of tasks and the fetching of resources.
PendingFetch(a) == {t \in DOMAIN a.outcome : a.outcome[t] # "no info"}

\* The callback runs once the assignments are known, even if none is pending.
MultipleTaskAssignmentsUrisReceived(a) == a.kind # "request error" /\ DOMAIN a.outcome # {}

HandleMultipleTaskAssignmentsInnerResponse(p, a) ==
    [p EXCEPT !.tasks = [t \in PendingFetch(a) |-> "MultipleTaskAssignmentsAccepted"] @@ @,
              !.state = CASE a.kind = "assigned" /\ DOMAIN a.outcome = {} ->
                                 "MultipleTaskAssignmentsNoAvailableTask"
                          [] a.kind = "assigned" /\ PendingFetch(a) # {} -> "MultipleTaskAssignmentsAccepted"
                          [] OTHER -> "MultipleTaskAssignmentsFailed"]

PerformMultipleTaskAssignments(a) ==
    LET called == [WithEligibilityEvalReport(proto) EXCEPT !.multiple = TRUE]
    IN  proto' = UpdateObjectStateIfPermanentError(
                     HandleMultipleTaskAssignmentsInnerResponse(called, a),
                     a.code, "MultipleTaskAssignmentsFailedPermanentError")

-----------------------------------------------------------------------------
(* Reporting.                                                              *)

\* The task a call is about: NoSession is the task of the single check-in.
TaskState(p, id) == IF id = NoSession THEN p.default ELSE p.tasks[id]

WithTaskState(id, state) ==
    IF id = NoSession THEN [proto EXCEPT !.default = state] ELSE [proto EXCEPT !.tasks[id] = state]

KnownSession(id) == id = NoSession \/ id \in DOMAIN proto.tasks

\* The FCP_CHECK of both report methods.
ReportAllowed(id) == TaskState(proto, id) \in {"CheckinAccepted", "MultipleTaskAssignmentsAccepted"}

\* How ReportCompleted ends with simple and confidential aggregation: the results have the wrong
\* format and nothing is sent, or one of the steps fails.
PerformStartDataUploadRequestErrors == [kind : {"start error"}, code : ErrorCodes]

HandleStartDataAggregationUploadErrors ==
    [kind : {"start operation error"}, code : ErrorCodes]

ValidateConfidentialEncryptionConfigErrors == [kind : {"not attested"}, code : {"INTERNAL"}]

EncryptPayloadErrors == [kind : {"not encrypted"}, code : {"INTERNAL"}]

UploadDataViaByteStreamProtocolErrors == [kind : {"upload error"}, code : ErrorCodes]

SubmitAggregationResultErrors == [kind : {"submit error"}, code : ErrorCodes]

\* With secure aggregation it cannot be started, or its rounds fail.
StartSecureAggregationErrors == [kind : {"secagg start error"}, code : ErrorCodes]

ReportAnswers ==
    [kind : {"wrong format"}, code : {"INTERNAL"}]
    \cup PerformStartDataUploadRequestErrors \cup HandleStartDataAggregationUploadErrors
    \cup ValidateConfidentialEncryptionConfigErrors \cup EncryptPayloadErrors
    \cup UploadDataViaByteStreamProtocolErrors \cup SubmitAggregationResultErrors
    \cup StartSecureAggregationErrors \cup [kind : {"secagg error"}, code : ErrorCodes]
    \cup [kind : {"reported"}, code : {"OK"}]

\* The server may hold the device's result after these.
ResultSent(a) == a.kind \in {"upload error", "submit error", "secagg error", "reported"}

ReportViaSimpleOrConfidentialAggregation(a) ==
    IF a.kind \in {"start error", "start operation error", "not attested", "not encrypted", "upload error"}
    THEN "ReportFailedPermanentError" ELSE "ReportCalled"

\* Whatever the secure aggregation comes to, the task stays as reported.
ReportViaSecureAggregation == "ReportCalled"

ReportCompleted(id, a) ==
    /\ KnownSession(id)
    /\ proto' = WithTaskState(id, IF a.kind \in {"secagg start error", "secagg error"}
                                  THEN ReportViaSecureAggregation
                                  ELSE ReportViaSimpleOrConfidentialAggregation(a))

ReportNotCompleted(id) ==
    /\ KnownSession(id)
    /\ proto' = WithTaskState(id, "ReportCalled")

-----------------------------------------------------------------------------
(* The retry window.                                                       *)

\* Defective variant: the task of the single check-in is not among all tasks.
GetTheLatestStateWithoutDefault(p) ==
    LET all == Cardinality(DOMAIN p.tasks)
        Count(s) == Cardinality({t \in DOMAIN p.tasks : p.tasks[t] = s}) + (IF p.default = s THEN 1 ELSE 0)
    IN  IF p.state \notin {"CheckinAccepted", "MultipleTaskAssignmentsAccepted"} THEN p.state
        ELSE IF ~p.multiple THEN p.default
        ELSE IF Count("ReportFailedPermanentError") = all THEN "ReportFailedPermanentError"
        ELSE IF Count("ReportCalled") = all THEN "ReportCalled"
        ELSE "ReportMultipleTaskPartialError"

\* One state for all the tasks of the run, once some were assigned.
GetTheLatestStateFromAllTasks(p) ==
    LET states == [t \in DOMAIN p.tasks |-> p.tasks[t]]
        all == Cardinality(DOMAIN states) + (IF p.default = "Initialized" THEN 0 ELSE 1)
        Count(s) == Cardinality({t \in DOMAIN states : states[t] = s}) + (IF p.default = s THEN 1 ELSE 0)
    IN  IF p.state \notin {"CheckinAccepted", "MultipleTaskAssignmentsAccepted"} THEN p.state
        ELSE IF ~p.multiple THEN p.default
        ELSE IF Count("ReportFailedPermanentError") = all THEN "ReportFailedPermanentError"
        ELSE IF Count("ReportCalled") = all THEN "ReportCalled"
        ELSE "ReportMultipleTaskPartialError"

\* "accepted" and "rejected" are the server's two windows, the other two come from the flags.
\* FCP_CHECKs stop the client where a server window is due and none was received.
GetLatestRetryWindow(p) ==
    LET state == GetTheLatestStateFromAllTasks(p)
        Server(window) == IF p.retry THEN window ELSE "check failed"
    IN  CASE state = "ReportCalled" -> Server("accepted")
          [] state \in {"EligibilityEvalCheckinRejected", "EligibilityEvalDisabled",
                        "EligibilityEvalEnabled", "CheckinRejected",
                        "MultipleTaskAssignmentsNoAvailableTask", "MultipleTaskAssignmentsAccepted",
                        "ReportMultipleTaskPartialError"} -> Server("rejected")
          [] state = "CheckinAccepted" -> Server(IF p.multiple THEN "rejected" ELSE "accepted")
          [] state \in {"Initialized", "EligibilityEvalCheckinFailed", "CheckinFailed",
                        "MultipleTaskAssignmentsFailed"} -> IF p.retry THEN "rejected" ELSE "transient"
          [] state \in {"EligibilityEvalCheckinFailedPermanentError", "CheckinFailedPermanentError",
                        "MultipleTaskAssignmentsFailedPermanentError",
                        "ReportFailedPermanentError"} -> "permanent"
=============================================================================
