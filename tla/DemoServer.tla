----------------------------- MODULE DemoServer -----------------------------
(***************************************************************************)
(* The in-process server of fcp/demo: the computations that                *)
(* InProcessServer.run_computation runs as coroutines of one event loop,   *)
(* and the HTTP requests of the devices, each served by a thread of its    *)
(* own (ThreadingMixIn).  The four services share their state under three  *)
(* locks; a step below is a section of code under one lock, or one call    *)
(* of the aggregation protocol or of the media service.                    *)
(*                                                                         *)
(* The aggregation protocol is TensorFlow Federated's                      *)
(* SimpleAggregationProtocol, which is not part of the repository; it is   *)
(* modelled from the calls aggregations.py makes.                          *)
(***************************************************************************)
EXTENDS Naturals, Sequences, FiniteSets, SequencesExt

CONSTANTS
    Computations,     \* the calls of run_computation
    Devices,          \* the devices that check in, once each
    Mode,             \* "single" or "multiple", for each computation
    TaskName,         \* its task_name
    NumberOfClients,  \* its number_of_clients
    MaxAssignments,   \* bound: the contributions that are ever authorized
    Faults            \* what may go wrong: "cancel", "receive", "result"

VARIABLES
    session,   \* Service._sessions, and the states popped from it
    protocol,  \* the AggregationProtocol of each session
    uploads,   \* media.Service._uploads: by device and computation
    single,    \* task_assignments.Service._single_assignment_tasks
    multiple,  \* task_assignments.Service._multiple_assignment_tasks
    tasks,     \* eligibility_eval_tasks.Service._tasks: the names present
    loop,      \* the computation whose coroutine the event loop is running
    comp,      \* the coroutines of run_computation
    device,    \* the check-in of each device
    request    \* its contribution to each computation

services == <<session, protocol, uploads, single, multiple, tasks>>
vars == <<services, loop, comp, device, request>>

Contributions == Devices \X Computations

NoComputation == "none"

(***************************************************************************)
(* The external aggregation protocol.                                      *)
(***************************************************************************)
NewProtocol ==
    [state |-> "started", clients |-> [d \in Devices |-> "none"]]

Included(c) == {d \in Devices : protocol[c].clients[d] = "completed"}

\* Complete and Abort close the connections that are still open.
Ended(p, state) ==
    [state |-> state,
     clients |-> [d \in Devices |-> IF p.clients[d] = "pending"
                                    THEN "aborted" ELSE p.clients[d]]]

CloseClient(p, d) ==
    IF p.clients[d] = "pending" THEN [p EXCEPT !.clients[d] = "failed"] ELSE p

-----------------------------------------------------------------------------
NewSession == [open |-> FALSE, status |-> "PENDING", tokens |-> {},
               active |-> {}, waiting |-> FALSE]

NewComputation == [pc |-> "create", future |-> "unset", raised |-> FALSE,
                   todo |-> {}, size |-> 0, result |-> {}, aggregate |-> FALSE]

Init ==
    /\ session = [c \in Computations |-> NewSession]
    /\ protocol = [c \in Computations |-> NewProtocol]
    /\ uploads = [k \in Contributions |-> "none"]
    /\ single = <<>>
    /\ multiple = {}
    /\ tasks = {}
    /\ loop = NoComputation
    /\ comp = [c \in Computations |-> NewComputation]
    /\ device = [d \in Devices |-> [pc |-> "eligibility", names |-> {},
                                    task |-> NoComputation]]
    /\ request = [k \in Contributions |-> "none"]

(***************************************************************************)
(* The coroutine of one computation.  Between two awaits no other          *)
(* coroutine runs; the request threads do.                                 *)
(***************************************************************************)
At(c, pc) == loop = c /\ comp[c].pc = pc

Goto(c, pc) == comp' = [comp EXCEPT ![c].pc = pc]

Requests == UNCHANGED <<device, request>>

\* An exception leaves the try block: its finally clause runs next.
Raise(c, pc) == comp' = [comp EXCEPT ![c].pc = pc, ![c].raised = TRUE]

\* The result, or the exception, is the coroutine's last act.
Finish(c, result) ==
    /\ comp' = [comp EXCEPT ![c].pc = "done", ![c].result = result]
    /\ loop' = NoComputation

CreateSession(c) ==
    /\ loop = NoComputation
    /\ comp[c].pc = "create"
    /\ loop' = c
    /\ session' = [session EXCEPT ![c].open = TRUE]
    /\ Goto(c, "add_eligibility")
    /\ Requests
    /\ UNCHANGED <<protocol, uploads, single, multiple, tasks>>

AddEligibilityTask(c) ==
    /\ At(c, "add_eligibility")
    /\ tasks' = tasks \cup {TaskName[c]}
    /\ Goto(c, "add_task")
    /\ Requests
    /\ UNCHANGED <<session, protocol, uploads, single, multiple, loop>>

AddTask(c) ==
    /\ At(c, "add_task")
    /\ IF Mode[c] = "single"
       THEN single' = Append(single, c) /\ UNCHANGED multiple
       ELSE multiple' = multiple \cup {c} /\ UNCHANGED single
    /\ Goto(c, "wait")
    /\ Requests
    /\ UNCHANGED <<session, protocol, uploads, tasks, loop>>

Enough(c) == Cardinality(Included(c)) >= NumberOfClients[c]

\* Defective variant: the condition is not tested when the wait is registered.
WaitUntested(c) ==
    /\ At(c, "wait")
    /\ session' = [session EXCEPT ![c].waiting = TRUE]
    /\ loop' = NoComputation
    /\ Goto(c, "await")
    /\ Requests
    /\ UNCHANGED <<protocol, uploads, single, multiple, tasks>>

\* Service.wait: the condition is tested and the wait registered under the
\* lock that submit_aggregation_result takes before it looks for waits.
Wait(c) ==
    /\ At(c, "wait")
    /\ IF Enough(c)
       THEN /\ comp' = [comp EXCEPT ![c].pc = "remove_task",
                                    ![c].future = session[c].status]
            /\ UNCHANGED <<session, loop>>
       ELSE /\ session' = [session EXCEPT ![c].waiting = TRUE]
            /\ loop' = NoComputation
            /\ Goto(c, "await")
    /\ Requests
    /\ UNCHANGED <<protocol, uploads, single, multiple, tasks>>

\* The event loop resumes the coroutine once its future has a status.
Resume(c) ==
    /\ loop = NoComputation
    /\ comp[c].pc = "await"
    /\ comp[c].future # "unset"
    /\ loop' = c
    /\ comp' = [comp EXCEPT ![c].pc = "remove_task",
                            ![c].raised = comp[c].future # "PENDING"]
    /\ Requests
    /\ UNCHANGED services

\* The task of the coroutine is cancelled while it waits.
CancelWait(c) ==
    /\ "cancel" \in Faults
    /\ loop = NoComputation
    /\ comp[c].pc = "await"
    /\ loop' = c
    /\ Raise(c, "remove_task")
    /\ Requests
    /\ UNCHANGED services

\* Defective variant: only the tasks of single assignments are removed.
RemoveTaskOfSingle(c) ==
    /\ At(c, "remove_task")
    /\ single' = SelectSeq(single, LAMBDA e : e # c)
    /\ Goto(c, "remove_eligibility")
    /\ Requests
    /\ UNCHANGED <<session, protocol, uploads, multiple, tasks, loop>>

\* The finally clause of run_computation.
RemoveTask(c) ==
    /\ At(c, "remove_task")
    /\ single' = SelectSeq(single, LAMBDA e : e # c)
    /\ multiple' = multiple \ {c}
    /\ Goto(c, "remove_eligibility")
    /\ Requests
    /\ UNCHANGED <<session, protocol, uploads, tasks, loop>>

\* del self._tasks[task_name] raises when another computation of the same
\* name has removed the entry the two share.
RemoveEligibilityTask(c) ==
    /\ At(c, "remove_eligibility")
    /\ tasks' = tasks \ {TaskName[c]}
    /\ IF comp[c].raised \/ TaskName[c] \notin tasks
       THEN Raise(c, "abort")
       ELSE Goto(c, "complete")
    /\ Requests
    /\ UNCHANGED <<session, protocol, uploads, single, multiple, loop>>

\* The first lock section of complete_session and of abort_session.
PopSession(c) ==
    /\ comp[c].pc \in {"complete", "abort"}
    /\ loop = c
    /\ session' = [session EXCEPT ![c].open = FALSE]
    /\ Goto(c, IF comp[c].pc = "complete" THEN "protocol" ELSE "abort_protocol")
    /\ Requests
    /\ UNCHANGED <<protocol, uploads, single, multiple, tasks, loop>>

\* complete_session, up to its finally clause: too few inputs, or a result
\* that is an error, fail the session.
CompleteProtocol(c, ok) ==
    /\ At(c, "protocol")
    /\ ok \/ "result" \in Faults
    /\ protocol' = [protocol EXCEPT
           ![c] = Ended(@, IF Enough(c) THEN "completed" ELSE "aborted")]
    /\ session' = [session EXCEPT
           ![c].status = IF Enough(c) /\ ok THEN "COMPLETED" ELSE "FAILED"]
    /\ comp' = [comp EXCEPT ![c].pc = "tokens",
                            ![c].aggregate = Enough(c) /\ ok,
                            ![c].result = IF Enough(c) /\ ok THEN Included(c) ELSE {},
                            ![c].raised = ~(Enough(c) /\ ok)]
    /\ Requests
    /\ UNCHANGED <<uploads, single, multiple, tasks, loop>>

AbortProtocol(c) ==
    /\ At(c, "abort_protocol")
    /\ protocol' = [protocol EXCEPT ![c] = Ended(@, "aborted")]
    /\ session' = [session EXCEPT ![c].status = "ABORTED"]
    /\ Goto(c, "tokens")
    /\ Requests
    /\ UNCHANGED <<uploads, single, multiple, tasks, loop>>

\* _cleanup_session, which holds no lock: the iterator over active_clients
\* remembers the size of the dictionary.
CleanupTokens(c) ==
    /\ At(c, "tokens")
    /\ session' = [session EXCEPT ![c].tokens = {}]
    /\ comp' = [comp EXCEPT ![c].pc = "cleanup",
                            ![c].todo = session[c].active,
                            ![c].size = Cardinality(session[c].active)]
    /\ Requests
    /\ UNCHANGED <<protocol, uploads, single, multiple, tasks, loop>>

\* A dictionary that has grown makes the iterator raise, and the coroutine
\* ends with that exception.
CleanupActive(c) ==
    /\ At(c, "cleanup")
    /\ IF Cardinality(session[c].active) # comp[c].size
       THEN Finish(c, {}) /\ UNCHANGED <<session, uploads>>
       ELSE IF comp[c].todo # {}
       THEN \E d \in comp[c].todo :
              /\ uploads' = [uploads EXCEPT ![<<d, c>>] = "none"]
              /\ comp' = [comp EXCEPT ![c].todo = @ \ {d}]
              /\ UNCHANGED <<session, loop>>
       ELSE /\ session' = [session EXCEPT ![c].active = {}]
            /\ Goto(c, "notify")
            /\ UNCHANGED <<uploads, loop>>
    /\ Requests
    /\ UNCHANGED <<protocol, single, multiple, tasks>>

\* The waits of a session that is over are woken, and run_computation
\* returns the aggregate, or raises.
Notify(c) ==
    /\ At(c, "notify")
    /\ session' = [session EXCEPT ![c].waiting = FALSE]
    /\ Finish(c, IF comp[c].raised THEN {} ELSE comp[c].result)
    /\ Requests
    /\ UNCHANGED <<protocol, uploads, single, multiple, tasks>>

Coroutine(c) ==
    \/ CreateSession(c)
    \/ AddEligibilityTask(c)
    \/ AddTask(c)
    \/ Wait(c)
    \/ Resume(c)
    \/ RemoveTask(c)
    \/ RemoveEligibilityTask(c)
    \/ PopSession(c)
    \/ \E ok \in BOOLEAN : CompleteProtocol(c, ok)
    \/ AbortProtocol(c)
    \/ CleanupTokens(c)
    \/ CleanupActive(c)
    \/ Notify(c)

(***************************************************************************)
(* The requests of a device: the eligibility check-in, the multiple task   *)
(* assignment for the names it was told of, the single task assignment.    *)
(***************************************************************************)
RequestEligibilityEvalTask(d) ==
    /\ device[d].pc = "eligibility"
    /\ device' = [device EXCEPT ![d].pc = "multiple", ![d].names = tasks]
    /\ UNCHANGED <<services, loop, comp, request>>

\* pre_authorize_clients raises KeyError when the session is gone; no
\* handler catches it, and the request gets no answer.
PreAuthorize(d, cs) ==
    IF \A c \in cs : session[c].open
    THEN /\ session' = [c \in Computations |->
                IF c \in cs THEN [session[c] EXCEPT !.tokens = @ \cup {d}]
                            ELSE session[c]]
         /\ request' = [k \in Contributions |->
                IF k \in {d} \X cs THEN "start" ELSE request[k]]
    ELSE UNCHANGED <<session, request>>

Bounded ==
    Cardinality({k \in Contributions : request'[k] # "none"})
        + Cardinality({d \in Devices : device'[d].pc = "authorize"}) <= MaxAssignments

\* The whole handler holds the lock that remove_task needs.
PerformMultipleTaskAssignments(d) ==
    /\ device[d].pc = "multiple"
    /\ device' = [device EXCEPT ![d].pc = "single", ![d].names = {}]
    /\ PreAuthorize(d, {c \in multiple : TaskName[c] \in device[d].names})
    /\ Bounded
    /\ UNCHANGED <<protocol, uploads, single, multiple, tasks, loop, comp>>

\* start_task_assignment reads the first task under the lock ...
StartTaskAssignment(d) ==
    /\ device[d].pc = "single"
    /\ device' = [device EXCEPT
           ![d].pc = IF single = <<>> THEN "done" ELSE "authorize",
           ![d].task = IF single = <<>> THEN NoComputation ELSE Head(single)]
    /\ UNCHANGED <<services, loop, comp, request>>
    /\ Bounded

\* ... and asks for the token without it.
FinishTaskAssignment(d) ==
    /\ device[d].pc = "authorize"
    /\ device' = [device EXCEPT ![d].pc = "done", ![d].task = NoComputation]
    /\ PreAuthorize(d, {device[d].task})
    /\ UNCHANGED <<protocol, uploads, single, multiple, tasks, loop, comp>>

(***************************************************************************)
(* The requests of one contribution.  "refused" is any answer but OK: the  *)
(* device then stops, whatever the HTTP status.                            *)
(***************************************************************************)
Answer(k, pc) == request' = [request EXCEPT ![k] = pc]

NotTheServices == UNCHANGED <<single, multiple, tasks, loop, comp, device>>

StartAggregationDataUpload(d, c) ==
    /\ request[<<d, c>>] = "start"
    /\ IF session[c].open /\ d \in session[c].tokens
       THEN /\ session' = [session EXCEPT ![c].tokens = @ \ {d}]
            /\ Answer(<<d, c>>, "add")
       ELSE UNCHANGED session /\ Answer(<<d, c>>, "refused")
    /\ UNCHANGED <<protocol, uploads>>
    /\ NotTheServices

\* AddClients raises once the protocol is over.
AddClient(d, c) ==
    /\ request[<<d, c>>] = "add"
    /\ IF protocol[c].state = "started"
       THEN /\ protocol' = [protocol EXCEPT ![c].clients[d] = "pending"]
            /\ uploads' = [uploads EXCEPT ![<<d, c>>] = "empty"]
            /\ Answer(<<d, c>>, "activate")
       ELSE UNCHANGED <<protocol, uploads>> /\ Answer(<<d, c>>, "refused")
    /\ UNCHANGED session
    /\ NotTheServices

\* The session may be over by now: its state is kept by this thread only.
ActivateClient(d, c) ==
    /\ request[<<d, c>>] = "activate"
    /\ session' = [session EXCEPT ![c].active = @ \cup {d}]
    /\ Answer(<<d, c>>, "upload")
    /\ UNCHANGED <<protocol, uploads>>
    /\ NotTheServices

Upload(d, c) ==
    /\ request[<<d, c>>] = "upload"
    /\ IF uploads[<<d, c>>] = "empty"
       THEN /\ uploads' = [uploads EXCEPT ![<<d, c>>] = "data"]
            /\ Answer(<<d, c>>, "submit")
       ELSE UNCHANGED uploads /\ Answer(<<d, c>>, "abort")
    /\ UNCHANGED <<session, protocol>>
    /\ NotTheServices

\* The device could not upload its result.
UploadFails(d, c) ==
    /\ request[<<d, c>>] = "upload"
    /\ Answer(<<d, c>>, "abort")
    /\ UNCHANGED services
    /\ NotTheServices

\* The lock section that submit_aggregation_result and abort_aggregation
\* start with.
PopClient(d, c, from, to) ==
    /\ request[<<d, c>>] = from
    /\ IF session[c].open /\ d \in session[c].active
       THEN /\ session' = [session EXCEPT ![c].active = @ \ {d}]
            /\ Answer(<<d, c>>, to)
       ELSE UNCHANGED session /\ Answer(<<d, c>>, "refused")
    /\ UNCHANGED <<protocol, uploads>>
    /\ NotTheServices

SubmitAggregationResult(d, c) == PopClient(d, c, "submit", "poll")

AbortAggregation(d, c) == PopClient(d, c, "abort", "close")

\* A client the protocol has closed loses its upload.
PollServerMessage(d, c) ==
    /\ request[<<d, c>>] = "poll"
    /\ IF protocol[c].clients[d] = "pending"
       THEN UNCHANGED uploads /\ Answer(<<d, c>>, "finalize")
       ELSE /\ uploads' = [uploads EXCEPT ![<<d, c>>] = "none"]
            /\ Answer(<<d, c>>, "refused")
    /\ UNCHANGED <<session, protocol>>
    /\ NotTheServices

FinalizeUpload(d, c) ==
    /\ request[<<d, c>>] = "finalize"
    /\ uploads' = [uploads EXCEPT ![<<d, c>>] = "none"]
    /\ IF uploads[<<d, c>>] = "data"
       THEN UNCHANGED protocol /\ Answer(<<d, c>>, "receive")
       ELSE /\ protocol' = [protocol EXCEPT ![c] = CloseClient(@, d)]
            /\ Answer(<<d, c>>, "refused")
    /\ UNCHANGED session
    /\ NotTheServices

\* Defective variant: a submission is accepted although the protocol has closed it.
ReceiveClientMessageAnyway(d, c, ok) ==
    /\ request[<<d, c>>] = "receive"
    /\ ok
    /\ protocol' = IF protocol[c].clients[d] = "pending"
                   THEN [protocol EXCEPT ![c].clients[d] = "completed"] ELSE protocol
    /\ Answer(<<d, c>>, "check_waits")
    /\ UNCHANGED <<session, uploads>>
    /\ NotTheServices

\* The protocol aggregates the input, or closes the client with an error;
\* it raises when it has closed the client before.
ReceiveClientMessage(d, c, ok) ==
    /\ request[<<d, c>>] = "receive"
    /\ ok \/ "receive" \in Faults
    /\ IF protocol[c].clients[d] = "pending"
       THEN /\ protocol' = [protocol EXCEPT
                   ![c].clients[d] = IF ok THEN "completed" ELSE "failed"]
            /\ Answer(<<d, c>>, IF ok THEN "check_waits" ELSE "refused")
       ELSE UNCHANGED protocol /\ Answer(<<d, c>>, "refused")
    /\ UNCHANGED <<session, uploads>>
    /\ NotTheServices

\* The wait this input satisfies is woken, and the submission is answered.
CheckWaits(d, c) ==
    /\ request[<<d, c>>] = "check_waits"
    /\ IF session[c].waiting /\ Enough(c)
       THEN /\ session' = [session EXCEPT ![c].waiting = FALSE]
            /\ comp' = [comp EXCEPT ![c].future = session[c].status]
       ELSE UNCHANGED <<session, comp>>
    /\ Answer(<<d, c>>, "accepted")
    /\ UNCHANGED <<protocol, uploads, single, multiple, tasks, loop, device>>

CloseAborted(d, c) ==
    /\ request[<<d, c>>] = "close"
    /\ uploads' = [uploads EXCEPT ![<<d, c>>] = "none"]
    /\ protocol' = [protocol EXCEPT ![c] = CloseClient(@, d)]
    /\ Answer(<<d, c>>, "refused")
    /\ UNCHANGED session
    /\ NotTheServices

\* What a device asks for, which it may never do ...
Ask(d) ==
    \/ RequestEligibilityEvalTask(d)
    \/ PerformMultipleTaskAssignments(d)
    \/ StartTaskAssignment(d)
    \/ \E c \in Computations :
         \/ StartAggregationDataUpload(d, c)
         \/ Upload(d, c)
         \/ UploadFails(d, c)
         \/ SubmitAggregationResult(d, c)
         \/ AbortAggregation(d, c)

\* ... and the rest of a handler, which its thread executes.
Handler(d) ==
    \/ FinishTaskAssignment(d)
    \/ \E c \in Computations :
         \/ AddClient(d, c)
         \/ ActivateClient(d, c)
         \/ PollServerMessage(d, c)
         \/ FinalizeUpload(d, c)
         \/ \E ok \in BOOLEAN : ReceiveClientMessage(d, c, ok)
         \/ CheckWaits(d, c)
         \/ CloseAborted(d, c)

Next ==
    \/ \E c \in Computations : Coroutine(c) \/ CancelWait(c)
    \/ \E d \in Devices : Ask(d) \/ Handler(d)

\* The event loop runs a coroutine that can run, and a thread of the server
\* finishes the request it has taken.  No device has to come.
Fairness ==
    /\ \A c \in Computations : WF_vars(Coroutine(c))
    /\ \A d \in Devices : WF_vars(Handler(d))

Spec == Init /\ [][Next]_vars /\ Fairness

-----------------------------------------------------------------------------
\* The upload a device of an open session was given is registered for as
\* long as the session counts the device as active: _cleanup_session and the
\* two handlers find every upload they finalize, although the media service
\* and the sessions are under different locks.
ActiveClientHasUpload ==
    \A c \in Computations : session[c].open =>
        \A d \in session[c].active : uploads[<<d, c>>] # "none"

\* A task that is on offer has a session that takes tokens, so that
\* perform_multiple_task_assignments never loses a device's request: the
\* session is created before, and completed or aborted after, the time the
\* task is listed.
ListedTaskHasSession ==
    \A c \in multiple \cup ToSet(single) : session[c].open

\* The services agree on what a session owns, although each has its own
\* lock: the uploads of its active devices and the tasks that lead to it.
ServicesAgree == ActiveClientHasUpload /\ ListedTaskHasSession

\* What run_computation returns is the aggregate of at least the number of
\* clients asked for, and every device whose submission was answered with OK
\* is in it.
ResultHoldsAcceptedInputs ==
    \A c \in Computations : comp[c].pc = "done" /\ comp[c].result # {} =>
        /\ Cardinality(comp[c].result) >= NumberOfClients[c]
        /\ {d \in Devices : request[<<d, c>>] = "accepted"} \subseteq comp[c].result

\* Once enough inputs are aggregated, the coroutine that waits for them runs
\* to its end: no wake-up is lost between Service.wait and the submissions
\* that satisfy it.
EnoughInputsEndTheWait ==
    \A c \in Computations : Enough(c) ~> comp[c].pc = "done"

\* complete_session "returns its results": an aggregation that completed is
\* what run_computation returns.
CompletedMeansReturned ==
    \A c \in Computations : comp[c].pc = "done" /\ comp[c].aggregate =>
        comp[c].result # {}

\* _cleanup_session "releases any resources": when a computation is over and
\* no request is being handled, the media service holds no upload of it.
CleanupReleasesUploads ==
    \A c \in Computations :
        comp[c].pc = "done" /\ (\A d \in Devices :
                 request[<<d, c>>] \notin {"add", "activate", "poll", "finalize", "close"})
            => \A d \in Devices : uploads[<<d, c>>] = "none"
=============================================================================
