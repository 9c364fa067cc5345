--------------------------- MODULE CurlHttpClient ---------------------------
(***************************************************************************)
(* The libcurl HTTP client under PerformMultipleRequestsInMemory.  libcurl *)
(* runs on the runner's thread, inside PerformMultiHandlesBlocked; the     *)
(* calling thread meets it only in Cancel.  A transfer that fails sends no *)
(* message of its own: libcurl reports it, like any other, by a            *)
(* CURLMSG_DONE message that carries a result code.                        *)
(***************************************************************************)
EXTENDS InMemoryHttp

VARIABLES
    handle,   \* per request: callback_, response_ (set or not), is_cancelled_, is_completed_
    transfer  \* per request, libcurl's transfer: [pc, sent]

vars == <<httpVars, handle, transfer>>

Init ==
    /\ HttpInit
    /\ handle = [r \in Requests |-> [callback |-> FALSE, response |-> FALSE, cancelled |-> FALSE, completed |-> FALSE]]
    /\ transfer = [r \in Requests |-> [pc |-> "none", sent |-> 0]]

AddToMulti ==
    /\ pool.pc = "set"
    /\ LET r == pool.i
       IN  IF handle[r].cancelled
           THEN /\ cb' = [cb EXCEPT ![r] = OnError(@, "CANCELLED")]
                /\ pool' = [pool EXCEPT !.pc = "done", !.result = "CANCELLED"]
                /\ UNCHANGED <<handle, transfer>>
           ELSE /\ handle' = [handle EXCEPT ![r].callback = TRUE]
                /\ transfer' = [transfer EXCEPT ![r].pc = "headers"]
                /\ pool' = IF r = NumRequests THEN [pool EXCEPT !.pc = "perform"] ELSE [pool EXCEPT !.i = @ + 1]
                /\ UNCHANGED cb
    /\ UNCHANGED <<answer, abort, main>>

\* Cancel has no effect on a handle that was not passed to PerformRequests yet.
Cancel ==
    /\ main.pc = "cancelling"
    /\ main.i <= NumRequests
    /\ main' = [main EXCEPT !.i = @ + 1]
    /\ LET h == handle[main.i]
       IN  IF ~h.callback \/ h.cancelled \/ h.completed
           THEN UNCHANGED <<cb, handle>>
           ELSE /\ cb' = [cb EXCEPT ![main.i] = OnError(@, "CANCELLED")]
                /\ handle' = [handle EXCEPT ![main.i].cancelled = TRUE]
    /\ UNCHANGED <<answer, abort, pool, transfer>>

\* A refusal is told to the callback once more, and the transfer goes on.
HeaderCallback(r) ==
    /\ pool.pc = "perform"
    /\ transfer[r].pc = "headers"
    /\ LET c == OnResponseStarted(cb[r], answer[r])
       IN  cb' = [cb EXCEPT ![r] = IF c.call = "refused" THEN OnError(c, c.status) ELSE c]
    /\ handle' = [handle EXCEPT ![r].response = TRUE]
    /\ transfer' = [transfer EXCEPT ![r].pc = "body"]
    /\ UNCHANGED <<answer, abort, main, pool>>

DownloadCallback(r) ==
    /\ pool.pc = "perform"
    /\ transfer[r].pc = "body"
    /\ transfer[r].sent < answer[r].chunks
    /\ LET c == OnResponseBody(cb[r])
       IN  cb' = [cb EXCEPT ![r] = IF c.call = "refused" THEN OnError(c, c.status) ELSE c]
    /\ transfer' = [transfer EXCEPT ![r].sent = @ + 1]
    /\ UNCHANGED <<answer, abort, main, pool, handle>>

\* The transfer ends, with all of the body, with an error of the network, or because
\* ProgressCallback said so; ReadCompleteMessages does not look at the result code.
MarkAsCompleted(r) ==
    /\ pool.pc = "perform"
    /\ transfer[r].pc \in {"headers", "body"}
    /\ transfer' = [transfer EXCEPT ![r].pc = "over"]
    /\ handle' = [handle EXCEPT ![r].completed = TRUE]
    /\ LET h == handle[r]
       IN  cb' = [cb EXCEPT ![r] = IF h.cancelled \/ h.completed THEN @
                                   ELSE IF h.response THEN OnResponseCompleted(@)
                                   ELSE OnError(@, "INTERNAL")]
    /\ UNCHANGED <<answer, abort, main, pool>>

PerformMultiHandlesBlockedReturns ==
    /\ pool.pc = "perform"
    /\ \A r \in Requests : transfer[r].pc = "over"
    /\ pool' = [pool EXCEPT !.pc = "done", !.result = "OK"]
    /\ UNCHANGED <<answer, cb, abort, main, handle, transfer>>

Next ==
    /\ main.pc # "exited"
    /\ \/ (Runner \/ ShouldAbort \/ ShutdownTimeout) /\ UNCHANGED <<handle, transfer>>
       \/ AddToMulti \/ Cancel \/ PerformMultiHandlesBlockedReturns
       \/ \E r \in Requests : HeaderCallback(r) \/ DownloadCallback(r) \/ MarkAsCompleted(r)

Spec == Init /\ [][Next]_vars

\* What http_client.h says of OnResponseCompleted: the request completed successfully, and if there
\* was a response body then it was delivered (ReadCompleteMessages, curl_http_client.cc).
CompletedMeansDelivered ==
    \A r \in Requests : cb[r].call = "completed" => cb[r].received = answer[r].chunks
=============================================================================
