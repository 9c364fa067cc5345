---------------------------- MODULE InMemoryHttp ----------------------------
(***************************************************************************)
(* PerformMultipleRequestsInMemory: one call, up to the destruction of its *)
(* request handles.  The calling thread runs HttpClient::PerformRequests   *)
(* on the one thread of an InterruptibleRunner and waits for it, aborting  *)
(* it when should_abort says so; every response is gathered by an          *)
(* InMemoryHttpRequestCallback.  The HTTP client is left open here: a      *)
(* module that extends this one adds its handles and its threads.          *)
(*                                                                         *)
(* A body is a number of chunks of one byte; a request is its place in the *)
(* vector.  The server's answer is fixed in the initial state.             *)
(***************************************************************************)
EXTENDS Integers, FiniteSets

CONSTANTS
    NumRequests,  \* requests.size()
    Answers       \* what a server may answer: [code, length, chunks, encoded]

VARIABLES
    answer,   \* per request, the answer the server has for it
    cb,       \* per request, its InMemoryHttpRequestCallback
    abort,    \* should_abort_
    main,     \* the calling thread: [pc, i, result]
    pool      \* the runner's thread: [pc, i, result]; pc "done" sets the promise

httpVars == <<answer, cb, abort, main, pool>>

Requests == 1..NumRequests
NoLength == -1

-----------------------------------------------------------------------------
(* InMemoryHttpRequestCallback.  call is a history variable: the last call *)
(* of the client, with "refused" for one that was answered by an error.    *)

NewCallback == [status |-> "UNAVAILABLE", code |-> 0, expected |-> NoLength, received |-> 0, call |-> "none"]

ConvertHttpCodeToStatus(code) ==
    CASE code = 400 -> "INVALID_ARGUMENT"
      [] code = 403 -> "PERMISSION_DENIED"
      [] code = 404 -> "NOT_FOUND"
      [] code = 409 -> "ABORTED"
      [] code = 429 -> "RESOURCE_EXHAUSTED"
      [] code = 499 -> "CANCELLED"
      [] code = 504 -> "DEADLINE_EXCEEDED"
      [] code = 501 -> "UNIMPLEMENTED"
      [] code = 503 -> "UNAVAILABLE"
      [] code = 401 -> "UNAUTHENTICATED"
      [] code \in 200..299 -> "OK"
      [] code \in (400..499) \ {400, 401, 403, 404, 409, 429, 499} -> "FAILED_PRECONDITION"
      [] code \in (500..599) \ {501, 503, 504} -> "INTERNAL"
      [] OTHER -> "UNKNOWN"

\* An answer that is still encoded is refused; a negative Content-Length is out of range.
OnResponseStarted(c, a) ==
    CASE a.encoded -> [c EXCEPT !.code = a.code, !.status = "INVALID_ARGUMENT", !.call = "refused"]
      [] a.length < NoLength -> [c EXCEPT !.code = a.code, !.status = "OUT_OF_RANGE", !.call = "refused"]
      [] OTHER -> [c EXCEPT !.code = a.code, !.expected = a.length, !.call = "started"]

OnResponseBody(c) ==
    IF c.expected # NoLength /\ c.received + 1 > c.expected
    THEN [c EXCEPT !.status = "OUT_OF_RANGE", !.call = "refused"]
    ELSE [c EXCEPT !.received = @ + 1, !.call = "body"]

\* OnResponseError and OnResponseBodyError.
OnError(c, code) == [c EXCEPT !.status = code, !.call = "error"]

OnResponseCompleted(c) ==
    [c EXCEPT !.call = "completed",
              !.status = IF c.expected # NoLength /\ c.received # c.expected THEN "INVALID_ARGUMENT"
                         ELSE ConvertHttpCodeToStatus(c.code)]

-----------------------------------------------------------------------------
(* The calling thread.                                                     *)

HttpInit ==
    /\ answer \in [Requests -> Answers]
    /\ cb = [r \in Requests |-> NewCallback]
    /\ abort = FALSE
    /\ main = [pc |-> "post", i |-> 1, result |-> "none"]
    /\ pool = [pc |-> "idle", i |-> 1, result |-> "none"]

\* The platform asks for the run to stop.
ShouldAbort ==
    /\ ~abort
    /\ abort' = TRUE
    /\ UNCHANGED <<answer, cb, main, pool>>

\* InterruptibleRunner::Run up to ScheduleFuture.
Post ==
    /\ main.pc = "post"
    /\ IF abort THEN /\ main' = [main EXCEPT !.pc = "returned", !.result = "CANCELLED"]
                     /\ pool' = pool
                ELSE /\ main' = [main EXCEPT !.pc = "waiting"]
                     /\ pool' = [pool EXCEPT !.pc = "set"]
    /\ UNCHANGED <<answer, cb, abort>>

\* WaitUntilDone finds the promise set.
TakeResult ==
    /\ main.pc = "waiting"
    /\ pool.pc = "done"
    /\ main' = [main EXCEPT !.pc = "returned", !.result = pool.result]
    /\ UNCHANGED <<answer, cb, abort, pool>>

\* The polling period passes first, and the run is to be aborted.
StartAbort ==
    /\ main.pc = "waiting"
    /\ abort
    /\ main' = [main EXCEPT !.pc = "cancelling"]
    /\ UNCHANGED <<answer, cb, abort, pool>>

\* abort_function has cancelled the last handle; the client's Cancel moves i on.
EndCancel ==
    /\ main.pc = "cancelling"
    /\ main.i > NumRequests
    /\ main' = [main EXCEPT !.pc = "graceful"]
    /\ UNCHANGED <<answer, cb, abort, pool>>

TakeCancelled ==
    /\ main.pc \in {"graceful", "extended"}
    /\ pool.pc = "done"
    /\ main' = [main EXCEPT !.pc = "returned", !.result = "CANCELLED"]
    /\ UNCHANGED <<answer, cb, abort, pool>>

\* A shutdown period passes; after the second one the process exits.
ShutdownTimeout ==
    /\ main.pc \in {"graceful", "extended"}
    /\ main' = [main EXCEPT !.pc = IF main.pc = "graceful" THEN "extended" ELSE "exited"]
    /\ UNCHANGED <<answer, cb, abort, pool>>

\* The responses the caller gets: none if the call failed as a whole.
Response(r) == IF main.result = "OK" THEN cb[r].status ELSE main.result

Runner ==
    \/ Post
    \/ TakeResult
    \/ StartAbort
    \/ EndCancel
    \/ TakeCancelled

-----------------------------------------------------------------------------
(* What callers rely on, whatever the client.                              *)

\* A response handed to the caller as OK carries the whole body the server sent, aborted or not,
\* cut off or not (Response() returns what the callback gathered as soon as its status is OK).
OkMeansWhole ==
    main.pc = "returned" =>
        \A r \in Requests : Response(r) = "OK" => cb[r].received = answer[r].chunks
=============================================================================
