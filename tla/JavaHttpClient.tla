--------------------------- MODULE JavaHttpClient ---------------------------
(***************************************************************************)
(* The Java HTTP client under PerformMultipleRequestsInMemory:             *)
(* JavaHttpClient and JavaHttpRequestHandle on the native side of JNI,     *)
(* HttpClientForNativeImpl and HttpRequestHandleImpl on the Java side.     *)
(*                                                                         *)
(* Three kinds of threads meet at a handle: the runner's thread in         *)
(* PerformRequests, the calling thread in Cancel and in the destructor,    *)
(* and one thread of the executor per request.  The synchronized methods   *)
(* of HttpRequestHandleImpl are the atomic steps; the network may fail     *)
(* between any two of them.  Java strips the Content-Length header.        *)
(***************************************************************************)
EXTENDS InMemoryHttp

VARIABLES
    handle,  \* per request: [performed, state, work, cancelled]
    thread   \* per request: where its executor thread is in runRequestToCompletion

vars == <<httpVars, handle, thread>>

\* performed_ is a native field, state and ongoingWork (submitted, cancelled) are Java ones.
NewHandle == [performed |-> FALSE, state |-> "NOT_STARTED", work |-> FALSE, cancelled |-> FALSE]

Init ==
    /\ HttpInit
    /\ handle = [r \in Requests |-> NewHandle]
    /\ thread = [r \in Requests |-> "none"]

Closed(r) == handle[r].state = "CLOSED"

\* doError(code, message, state): the callback a failure in the given state is told to.
DoError(c, state, code) ==
    IF state \in {"BEFORE_RESPONSE_HEADERS", "AFTER_RESPONSE_HEADERS"} THEN OnError(c, code) ELSE c

\* Defective variant: the Future is left to run.
CloseKeepsFuture(h) == [h EXCEPT !.state = "CLOSED"]

\* close(): the state is CLOSED from here on, and the Future is cancelled, which a running thread
\* notices only at its next check.
Close(h) == [h EXCEPT !.state = "CLOSED", !.cancelled = @ \/ (h.work /\ h.state # "CLOSED")]

-----------------------------------------------------------------------------
(* The runner's thread: PerformRequests.                                   *)

\* The next request of the loop, or the first one of the loop that follows.
PoolNext(pc) == IF pool.i = NumRequests THEN [pool EXCEPT !.i = 1, !.pc = pc] ELSE [pool EXCEPT !.i = @ + 1]

SetCallback ==
    /\ pool.pc = "set"
    /\ LET h == handle[pool.i]
       IN  IF h.performed
           THEN /\ pool' = [pool EXCEPT !.pc = "done", !.result = "INVALID_ARGUMENT"]
                /\ handle' = handle
           ELSE /\ pool' = PoolNext("perform")
                /\ handle' = [handle EXCEPT ![pool.i].performed = TRUE]
    /\ UNCHANGED <<answer, cb, abort, main, thread>>

\* performRequest throws for a handle that was closed since SetCallback, and nobody catches that.
PerformRequest ==
    /\ pool.pc = "perform"
    /\ IF handle[pool.i].state = "NOT_STARTED"
       THEN /\ pool' = PoolNext("wait")
            /\ handle' = [handle EXCEPT ![pool.i].state = "BEFORE_RESPONSE_HEADERS", ![pool.i].work = TRUE]
            /\ thread' = [thread EXCEPT ![pool.i] = "queued"]
       ELSE /\ pool' = [pool EXCEPT !.pc = "crashed"]
            /\ UNCHANGED <<handle, thread>>
    /\ UNCHANGED <<answer, cb, abort, main>>

\* ongoingWork.get() returns when the thread is through, and at once when the Future was cancelled.
WaitForRequestCompletion ==
    /\ pool.pc = "wait"
    /\ thread[pool.i] = "over" \/ handle[pool.i].cancelled
    /\ pool' = IF pool.i = NumRequests THEN [pool EXCEPT !.pc = "done", !.result = "OK"]
                                       ELSE [pool EXCEPT !.i = @ + 1]
    /\ UNCHANGED <<answer, cb, abort, main, handle, thread>>

-----------------------------------------------------------------------------
(* The calling thread: Cancel in two steps, and the destructors.           *)

CancelMarksPerformed ==
    /\ main.pc = "cancelling"
    /\ main.i <= NumRequests
    /\ handle' = [handle EXCEPT ![main.i].performed = TRUE]
    /\ main' = [main EXCEPT !.pc = "closing"]
    /\ UNCHANGED <<answer, cb, abort, pool, thread>>

CancelCloses ==
    /\ main.pc = "closing"
    /\ handle' = [handle EXCEPT ![main.i] = Close(@)]
    /\ cb' = [cb EXCEPT ![main.i] = DoError(@, handle[main.i].state, "CANCELLED")]
    /\ main' = [main EXCEPT !.pc = "cancelling", !.i = @ + 1]
    /\ UNCHANGED <<answer, abort, pool, thread>>

\* The results are gathered and the handles are destroyed: close() once more, then nativeHandle = 0.
DestroyHandles ==
    /\ main.pc = "returned"
    /\ main' = [main EXCEPT !.pc = "destroyed"]
    /\ handle' = [r \in Requests |-> Close(handle[r])]
    /\ cb' = [r \in Requests |-> DoError(cb[r], handle[r].state, "CANCELLED")]
    /\ UNCHANGED <<answer, abort, pool, thread>>

-----------------------------------------------------------------------------
(* The executor's threads: runRequestToCompletion.                         *)

Goto(r, pc) == thread' = [thread EXCEPT ![r] = pc]
SetState(r, state) == handle' = [handle EXCEPT ![r].state = state]

\* A thread that finds its handle closed ends without a call.
StopIfClosed(r) ==
    /\ Goto(r, "over")
    /\ UNCHANGED <<httpVars, handle>>

\* A cancelled Future is not started; isClosed() comes before the connection is made.
StartWork(r) ==
    /\ thread[r] = "queued"
    /\ Goto(r, IF Closed(r) THEN "over" ELSE "configure")
    /\ UNCHANGED <<httpVars, handle>>

\* doError(message, e), reached from every step that fails: an IOException, a timeout, a request
\* that cannot be sent.
Fail(r) ==
    /\ thread[r] \in {"configure", "send", "connect", "headers", "body"}
    /\ \E code \in {"UNAVAILABLE", "DEADLINE_EXCEEDED", "INVALID_ARGUMENT"} :
           /\ code = "INVALID_ARGUMENT" => thread[r] = "configure"
           /\ cb' = [cb EXCEPT ![r] = DoError(@, handle[r].state, code)]
    /\ SetState(r, "CLOSED")
    /\ Goto(r, "over")
    /\ UNCHANGED <<answer, abort, main, pool>>

ConfigureConnection(r) ==
    /\ thread[r] = "configure"
    /\ Goto(r, "send")
    /\ UNCHANGED <<httpVars, handle>>

\* checkClosed() comes before and after each chunk of the request body.
SendRequestBody(r) ==
    /\ thread[r] = "send"
    /\ IF Closed(r) THEN StopIfClosed(r) ELSE Goto(r, "connect") /\ UNCHANGED <<httpVars, handle>>

Connect(r) ==
    /\ thread[r] = "connect"
    /\ IF Closed(r) THEN StopIfClosed(r) ELSE Goto(r, "headers") /\ UNCHANGED <<httpVars, handle>>

\* receiveResponseHeaders drops Content-Length and decodes gzip; doOnResponseStarted.
ReceiveResponseHeaders(r) ==
    /\ thread[r] = "headers"
    /\ IF Closed(r) THEN StopIfClosed(r)
       ELSE LET c == OnResponseStarted(cb[r], [answer[r] EXCEPT !.length = NoLength])
            IN  /\ cb' = [cb EXCEPT ![r] = c]
                /\ SetState(r, IF c.call = "refused" THEN "CLOSED" ELSE "AFTER_RESPONSE_HEADERS")
                /\ Goto(r, IF c.call = "refused" THEN "over" ELSE "body")
                /\ UNCHANGED <<answer, abort, main, pool>>

\* Defective variant: the state is not looked at before the call.
ReceiveResponseBodyUnchecked(r) ==
    /\ thread[r] = "body"
    /\ cb[r].received < answer[r].chunks
    /\ LET c == OnResponseBody(cb[r])
       IN  /\ cb' = [cb EXCEPT ![r] = c]
           /\ SetState(r, IF c.call = "refused" THEN "CLOSED" ELSE handle[r].state)
           /\ Goto(r, IF c.call = "refused" THEN "over" ELSE "body")
           /\ UNCHANGED <<answer, abort, main, pool>>

\* doOnResponseBody.
ReceiveResponseBody(r) ==
    /\ thread[r] = "body"
    /\ cb[r].received < answer[r].chunks
    /\ IF Closed(r) THEN StopIfClosed(r)
       ELSE LET c == OnResponseBody(cb[r])
            IN  /\ cb' = [cb EXCEPT ![r] = c]
                /\ SetState(r, IF c.call = "refused" THEN "CLOSED" ELSE handle[r].state)
                /\ Goto(r, IF c.call = "refused" THEN "over" ELSE "body")
                /\ UNCHANGED <<answer, abort, main, pool>>

\* Defective variant: a connection that breaks off in the body passes for its end.
CompleteResponseEarly(r) ==
    /\ thread[r] = "body"
    /\ IF Closed(r) THEN StopIfClosed(r)
       ELSE /\ cb' = [cb EXCEPT ![r] = OnResponseCompleted(@)]
            /\ SetState(r, "CLOSED")
            /\ Goto(r, "over")
            /\ UNCHANGED <<answer, abort, main, pool>>

\* The end of the stream; doOnResponseCompleted.
CompleteResponse(r) ==
    /\ thread[r] = "body"
    /\ cb[r].received = answer[r].chunks
    /\ IF Closed(r) THEN StopIfClosed(r)
       ELSE /\ cb' = [cb EXCEPT ![r] = OnResponseCompleted(@)]
            /\ SetState(r, "CLOSED")
            /\ Goto(r, "over")
            /\ UNCHANGED <<answer, abort, main, pool>>

-----------------------------------------------------------------------------
Local ==
    \/ Runner /\ UNCHANGED <<handle, thread>>
    \/ SetCallback \/ PerformRequest \/ WaitForRequestCompletion
    \/ CancelMarksPerformed \/ CancelCloses \/ DestroyHandles

Network(r) ==
    \/ StartWork(r) \/ ConfigureConnection(r) \/ SendRequestBody(r) \/ Connect(r)
    \/ ReceiveResponseHeaders(r) \/ ReceiveResponseBody(r) \/ CompleteResponse(r)
    \/ Fail(r)

Running == main.pc # "exited" /\ pool.pc # "crashed"

Next ==
    /\ Running
    /\ \/ Local
       \/ (ShouldAbort \/ ShutdownTimeout) /\ UNCHANGED <<handle, thread>>
       \/ \E r \in Requests : Network(r)

\* Only the two threads of this process are scheduled fairly: the network, and with it the
\* executor's threads, may hang, and no timer has to go off.
Spec == Init /\ [][Next]_vars /\ WF_vars(Running /\ Local)
-----------------------------------------------------------------------------
(* Properties.                                                             *)

Contract == INSTANCE HttpRequestCallback WITH call <- [r \in Requests |-> cb[r].call], over <- pool.pc = "done"

\* Whatever the order of cancellation, network failures and callbacks, each request sees the calls
\* http_client.h promises: none after a refusal or an error, none after PerformRequests returned
\* although executor threads may still run then, none from the destructor (the state checks of
\* HttpRequestHandleImpl).
HonoursContract == Contract!Spec

\* An abort gets the calling thread out of Run even when the network hangs forever and no shutdown
\* period passes: close() cancels the Future the runner's thread waits for.
AbortEnds == abort ~> (main.pc \in {"returned", "destroyed", "exited"} \/ pool.pc = "crashed")
=============================================================================
