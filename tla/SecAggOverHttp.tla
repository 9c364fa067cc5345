--------------------------- MODULE SecAggOverHttp ---------------------------
(***************************************************************************)
(* Reporting through Secure Aggregation: SecAggRunnerImpl::Run drives the  *)
(* SecAgg client on the thread of an InterruptibleRunner, and              *)
(* HttpSecAggSendToServerImpl turns each message of the client into HTTP   *)
(* requests whose answer it leaves in server_response_holder_, where the   *)
(* loop of Run picks it up.  The calling thread aborts the client from     *)
(* outside, which sends a message too.                                     *)
(*                                                                         *)
(* The client is reduced to its round (module SecAggClient models what it  *)
(* does inside a round); it holds mu_ while it sends.                      *)
(***************************************************************************)
EXTENDS Integers, Sequences, FiniteSets

CONSTANT HasCheckpoint  \* tf_checkpoint_ has a value

VARIABLES
    abort,    \* should_abort_
    signal,   \* the abort signal of the client
    round,    \* the client's state: 0..4, where 4 is COMPLETED, or "ABORTED"
    mu,       \* the thread that holds the client's mu_
    sending,  \* the message that thread is sending: [message, step, polling]
    holder,   \* server_response_holder_
    worker,   \* the runner's thread in the loop of Run: [pc, result]
    main,     \* the thread that called Run: [pc, result]
    arrived,  \* the requests the server has received, in order
    senders   \* the threads that called Send

vars == <<abort, signal, round, mu, sending, holder, worker, main, arrived, senders>>

ABORTED == 5
COMPLETED == 4
Terminal == {COMPLETED, ABORTED}
Error == "error"
NoMessage == [message |-> "none", step |-> 1, polling |-> FALSE]

\* The message each round of the client sends, and the one it waits for.
Sent == <<"share_keys_response", "masked_input_response", "unmasking_response">>
Expected == <<"share_keys_request", "masked_input_request", "unmasking_request">>

Init ==
    /\ abort = FALSE /\ signal = FALSE
    /\ round = 0
    /\ mu = "none" /\ sending = NoMessage /\ holder = Error
    /\ worker = [pc |-> "idle", result |-> "none"]
    /\ main = [pc |-> "post", result |-> "none"]
    /\ arrived = <<>> /\ senders = {}

-----------------------------------------------------------------------------
(* HttpSecAggSendToServerImpl: the requests of a message, some at a time,  *)
(* whether the last one starts an operation to be polled, and what is put  *)
(* in the holder at the end.                                               *)

DoR0AdvertiseKeys == [steps |-> <<{"AdvertiseKeys"}>>, polled |-> TRUE, answer |-> "share_keys_request"]

DoR1ShareKeys == [steps |-> <<{"ShareKeys"}>>, polled |-> TRUE, answer |-> "masked_input_request"]

\* The uploads go first; the result is submitted only when all of them succeeded.
DoR2SubmitSecureAggregationResult ==
    [steps |-> <<{"UploadMasked"} \cup (IF HasCheckpoint THEN {"UploadNonmasked"} ELSE {}), {"Submit"}>>,
     polled |-> TRUE, answer |-> "unmasking_request"]

DoR3Unmask == [steps |-> <<{"Unmask"}>>, polled |-> FALSE, answer |-> "empty"]

AbortSecureAggregation == [steps |-> <<{"Abort"}>>, polled |-> FALSE, answer |-> "abort"]

Exchange(message) ==
    CASE message = "advertise_keys" -> DoR0AdvertiseKeys
      [] message = "share_keys_response" -> DoR1ShareKeys
      [] message = "masked_input_response" -> DoR2SubmitSecureAggregationResult
      [] message = "unmasking_response" -> DoR3Unmask
      [] message = "abort" -> AbortSecureAggregation

\* Send is called by a thread that holds mu_, or takes it.
Send(thread, message) ==
    /\ mu' = thread
    /\ sending' = [NoMessage EXCEPT !.message = message]
    /\ senders' = senders \cup {thread}

\* Send returns: the answer or the error is in the holder.
SendReturns(answer) ==
    /\ holder' = answer
    /\ sending' = NoMessage

SeqsOf(S) == {q \in [1..Cardinality(S) -> S] : {q[k] : k \in DOMAIN q} = S}

\* PerformProtocolRequest, PerformMultipleProtocolRequests.  A request that fails may have arrived.
\* An interrupted runner makes the whole call fail; the request to abort has a runner of its own,
\* which is interrupted only once waiting_period_for_cancellation_ has passed.
PerformProtocolRequests ==
    /\ sending # NoMessage
    /\ ~sending.polling
    /\ LET x == Exchange(sending.message)
           requests == x.steps[sending.step]
           last == sending.step = Len(x.steps)
       IN  \/ /\ \E order \in SeqsOf(requests) : arrived' = arrived \o order
              /\ CASE ~last -> sending' = [sending EXCEPT !.step = @ + 1] /\ holder' = holder
                   [] last /\ x.polled -> sending' = [sending EXCEPT !.polling = TRUE] /\ holder' = holder
                   [] last /\ ~x.polled -> SendReturns(x.answer)
           \/ /\ \E some \in SUBSET requests : \E order \in SeqsOf(some) : arrived' = arrived \o order
              /\ SendReturns(Error)
    /\ UNCHANGED <<abort, signal, round, mu, worker, main, senders>>

\* PollOperationResponseUntilDone: the operation completes, or it or a request of the loop fails.
PollOperationResponseUntilDone ==
    /\ sending.polling
    /\ \/ SendReturns(Exchange(sending.message).answer)
       \/ SendReturns(Error)
    /\ UNCHANGED <<abort, signal, round, mu, worker, main, arrived, senders>>

\* An interrupted request is given up, and so is an abort request whose waiting period is over.
Interrupted ==
    /\ sending # NoMessage
    /\ abort \/ sending.message = "abort"
    /\ SendReturns(Error)
    /\ UNCHANGED <<abort, signal, round, mu, worker, main, arrived, senders>>

-----------------------------------------------------------------------------
(* The loop of SecAggRunnerImpl::Run.                                      *)

WorkerAt(pc) == worker' = [worker EXCEPT !.pc = pc]
WorkerReturns(result) == worker' = [pc |-> "done", result |-> result]
Holds(thread) == mu = thread /\ sending = NoMessage

\* secagg_client_->Start().
StartClient ==
    /\ worker.pc = "start"
    /\ mu = "none"
    /\ IF round = 0
       THEN /\ Send("worker", "advertise_keys")
            /\ round' = 1
            /\ WorkerAt("started")
       ELSE /\ WorkerReturns("FAILED_PRECONDITION")
            /\ UNCHANGED <<mu, sending, senders, round>>
    /\ UNCHANGED <<abort, signal, holder, main, arrived>>

\* Start returns and releases mu_.
Started ==
    /\ worker.pc = "started"
    /\ Holds("worker")
    /\ mu' = "none"
    /\ WorkerAt("input")
    /\ UNCHANGED <<abort, signal, round, sending, holder, main, arrived, senders>>

SetInput ==
    /\ worker.pc = "input"
    /\ mu = "none"
    /\ IF round = ABORTED THEN WorkerReturns("FAILED_PRECONDITION") ELSE WorkerAt("loop")
    /\ UNCHANGED <<abort, signal, round, mu, sending, holder, main, arrived, senders>>

CheckCompleted ==
    /\ worker.pc = "loop"
    /\ mu = "none"
    /\ IF round = COMPLETED THEN WorkerReturns("OK") ELSE WorkerAt("receive")
    /\ UNCHANGED <<abort, signal, round, mu, sending, holder, main, arrived, senders>>

\* ReceiveServerMessage reads the holder, without mu_.
ReceiveServerMessage ==
    /\ worker.pc = "receive"
    /\ worker' = IF holder = Error THEN [pc |-> "done", result |-> "error"]
                                   ELSE [pc |-> "handle", result |-> holder]
    /\ UNCHANGED <<abort, signal, round, mu, sending, holder, main, arrived, senders>>

\* secagg_client_->ReceiveMessage(): the next message of the protocol; an abort, because the request
\* is not acceptable or because the client sees the signal; or an error, for another message.
ReceiveMessage ==
    /\ worker.pc = "handle"
    /\ mu = "none"
    /\ IF round \in Terminal \/ worker.result # Expected[round]
       THEN /\ WorkerReturns("FAILED_PRECONDITION")
            /\ UNCHANGED <<mu, sending, senders, round>>
       ELSE /\ worker' = [pc |-> "handled", result |-> "none"]
            /\ \/ Send("worker", Sent[round]) /\ round' = round + 1
               \/ Send("worker", "abort") /\ round' = ABORTED
    /\ UNCHANGED <<abort, signal, holder, main, arrived>>

\* ReceiveMessage returns and releases mu_; IsAborted() is asked next.
Handled ==
    /\ worker.pc = "handled"
    /\ Holds("worker")
    /\ mu' = "none"
    /\ IF round = ABORTED THEN WorkerReturns("CANCELLED") ELSE WorkerAt("loop")
    /\ UNCHANGED <<abort, signal, round, sending, holder, main, arrived, senders>>

-----------------------------------------------------------------------------
(* The calling thread: InterruptibleRunner::Run with AbortInternal as its  *)
(* abort function.                                                         *)

MainReturns(result) == main' = [pc |-> "returned", result |-> result]

ShouldAbort ==
    /\ ~abort
    /\ abort' = TRUE
    /\ UNCHANGED <<signal, round, mu, sending, holder, worker, main, arrived, senders>>

Post ==
    /\ main.pc = "post"
    /\ IF abort THEN MainReturns("CANCELLED") /\ worker' = worker
                ELSE main' = [main EXCEPT !.pc = "waiting"] /\ WorkerAt("start")
    /\ UNCHANGED <<abort, signal, round, mu, sending, holder, arrived, senders>>

\* WaitUntilDone, and Abort once the abort function has returned: CANCELLED whatever the result.
TakeResult ==
    /\ main.pc \in {"waiting", "graceful", "extended"}
    /\ worker.pc = "done"
    /\ MainReturns(IF main.pc = "waiting" THEN worker.result ELSE "CANCELLED")
    /\ UNCHANGED <<abort, signal, round, mu, sending, holder, worker, arrived, senders>>

\* AbortInternal: SecAggClient::Abort raises the signal first.
AbortSignals ==
    /\ main.pc = "waiting"
    /\ abort
    /\ signal' = TRUE
    /\ main' = [main EXCEPT !.pc = "locking"]
    /\ UNCHANGED <<abort, round, mu, sending, holder, worker, arrived, senders>>

\* Defective variant: the server is told even when the client is through.
AbortLocksAlways ==
    /\ main.pc = "locking"
    /\ mu = "none"
    /\ Send("main", "abort")
    /\ round' = ABORTED
    /\ main' = [main EXCEPT !.pc = "aborting"]
    /\ UNCHANGED <<abort, signal, holder, worker, arrived>>

\* With mu_, a client that is not through yet tells the server.
AbortLocks ==
    /\ main.pc = "locking"
    /\ mu = "none"
    /\ IF round \in Terminal
       THEN /\ main' = [main EXCEPT !.pc = "graceful"]
            /\ UNCHANGED <<round, mu, sending, senders>>
       ELSE /\ Send("main", "abort")
            /\ round' = ABORTED
            /\ main' = [main EXCEPT !.pc = "aborting"]
    /\ UNCHANGED <<abort, signal, holder, worker, arrived>>

AbortReturns ==
    /\ main.pc = "aborting"
    /\ Holds("main")
    /\ mu' = "none"
    /\ main' = [main EXCEPT !.pc = "graceful"]
    /\ UNCHANGED <<abort, signal, round, sending, holder, worker, arrived, senders>>

ShutdownTimeout ==
    /\ main.pc \in {"graceful", "extended"}
    /\ main' = [main EXCEPT !.pc = IF main.pc = "graceful" THEN "extended" ELSE "exited"]
    /\ UNCHANGED <<abort, signal, round, mu, sending, holder, worker, arrived, senders>>

-----------------------------------------------------------------------------
Worker == StartClient \/ Started \/ SetInput \/ CheckCompleted \/ ReceiveServerMessage \/ ReceiveMessage \/ Handled

Main == Post \/ TakeResult \/ AbortSignals \/ AbortLocks \/ AbortReturns

Next ==
    \/ main.pc # "exited" /\ Worker
    \/ Main
    \/ main.pc # "exited" /\ (PerformProtocolRequests \/ PollOperationResponseUntilDone \/ Interrupted)
    \/ ShouldAbort \/ ShutdownTimeout

\* The two threads run, and an interrupted request ends; no answer of the server is promised.
Spec == Init /\ [][Next]_vars /\ WF_vars(Worker) /\ WF_vars(Main) /\ WF_vars(Interrupted)

-----------------------------------------------------------------------------
(* Properties.                                                             *)

Protocol == <<{"AdvertiseKeys"}, {"ShareKeys"}, {"UploadMasked", "UploadNonmasked"}, {"Submit"}, {"Unmask"}>>
Stage(request) == CHOOSE k \in 1..5 : request \in Protocol[k]

\* The server receives the requests in the order of the protocol, each at most once, a result only
\* after what it refers to was uploaded, and nothing after the request to abort, whichever thread
\* sent that: Send is called under mu_ and an aborted client sends nothing.
ServerSeesProtocol ==
    \A i \in 1..Len(arrived) :
        \/ arrived[i] = "Abort" /\ i = Len(arrived)
        \/ /\ arrived[i] # "Abort"
           /\ \A j \in 1..(i - 1) : arrived[j] # arrived[i] /\ Stage(arrived[j]) <= Stage(arrived[i])
           /\ arrived[i] = "Submit" =>
                  DoR2SubmitSecureAggregationResult.steps[1] \subseteq {arrived[j] : j \in 1..(i - 1)}

\* A run that is reported as a success has submitted its result, and was not aborted.
OkMeansSubmitted ==
    main = [pc |-> "returned", result |-> "OK"] =>
        /\ \E i \in 1..Len(arrived) : arrived[i] = "Submit"
        /\ \A i \in 1..Len(arrived) : arrived[i] # "Abort"

\* The message the client is given is never one left over from an earlier round: Send overwrites the
\* holder even when the exchange failed.
NoStaleMessage ==
    worker.pc = "handle" /\ mu = "none" /\ round \notin Terminal => worker.result = Expected[round]

\* Once the device wants to stop, Run returns although the server never answers, a request may be
\* under way with mu_ held, and the client has to be told first.
AbortEnds == abort ~> (main.pc \in {"returned", "exited"})

\* What secagg_runner.h says of Run: the sender and the delegate are only invoked from one thread.
InvokedFromSingleThread == Cardinality(senders) <= 1
=============================================================================
