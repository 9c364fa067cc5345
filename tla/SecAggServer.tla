---------------------------- MODULE SecAggServer ----------------------------
(***************************************************************************)
(* The state machine of the Secure Aggregation server: SecAggServer, the   *)
(* base class SecAggServerState and its subclasses, one per round.         *)
(*                                                                         *)
(* A SecAggServer is not thread-safe: its public methods are called one at *)
(* a time, so each is one atomic action.  Two things happen on other       *)
(* threads and are actions of their own: the asynchronous aggregation of   *)
(* round 2 becomes idle, and the PRNG runner finishes.                     *)
(*                                                                         *)
(* Cryptographic payloads live in SecAggServerProtocolImpl.  Here a client *)
(* message is its type and the verdict of the protocol implementation on   *)
(* it; a message to a client is its type.                                  *)
(***************************************************************************)
EXTENDS Integers, FiniteSets, Sequences

CONSTANTS
  Clients,      \* the cohort, total_number_of_clients of them
  MinClients,   \* minimum_number_of_clients_to_proceed
  AsyncRound2   \* whether kSecAggAsyncRound2Experiment is enabled

ASSUME CohortAssumption ==
  /\ IsFiniteSet(Clients)
  /\ MinClients \in 1..Cardinality(Clients)
  /\ AsyncRound2 \in BOOLEAN

VARIABLES
  state,         \* the kind of the current SecAggServerState
  status,        \* client_statuses_ of the protocol implementation
  needsToAbort,  \* needs_to_abort_
  ready,         \* number_of_clients_ready_for_next_round_
  received,      \* number_of_messages_received_in_this_round_
  failedBefore,  \* number_of_clients_failed_before_sending_masked_input_
  failedAfter,   \* number_of_clients_failed_after_sending_masked_input_
  terminated,    \* number_of_clients_terminated_without_unmasking_
  abortedAt2,    \* clients_aborted_at_round_2_
  idle,          \* whether the round 2 accumulator has no remaining task
  completion,    \* completion_status_ of the PRNG running state
  prngCallback,  \* what became of the callback given to SetAsyncCallback
  sent,          \* the messages sent to each client, oldest first
  dropReason     \* the ClientDropReason each client was dropped for

counters == <<ready, received, failedBefore, failedAfter, terminated>>
prngVars == <<completion, prngCallback>>
vars == <<state, status, needsToAbort, counters, abortedAt2, idle, prngVars,
          sent, dropReason>>

ClientStatus ==
  {"READY_TO_START", "DEAD_BEFORE_SENDING_ANYTHING",
   "ADVERTISE_KEYS_RECEIVED", "DEAD_AFTER_ADVERTISE_KEYS_RECEIVED",
   "SHARE_KEYS_RECEIVED", "DEAD_AFTER_SHARE_KEYS_RECEIVED",
   "MASKED_INPUT_RESPONSE_RECEIVED",
   "DEAD_AFTER_MASKED_INPUT_RESPONSE_RECEIVED",
   "UNMASKING_RESPONSE_RECEIVED", "DEAD_AFTER_UNMASKING_RESPONSE_RECEIVED"}

Collecting == {"R0_ADVERTISE_KEYS", "R1_SHARE_KEYS",
               "R2_MASKED_INPUT_COLLECTION", "R3_UNMASKING"}
Terminal == {"COMPLETED", "ABORTED"}
StateKind == Collecting \cup {"PRNG_RUNNING"} \cup Terminal

ClientMessageType == {"abort", "advertise_keys", "share_keys_response",
                      "masked_input_response", "unmasking_response"}
ServerMessageType == {"share_keys_request", "masked_input_request",
                      "unmasking_request", "abort", "early_success"}
DropReason == {"NONE", "SENT_ABORT_MESSAGE", "UNEXPECTED", "INVALID",
               "NO_RESPONSE", "EARLY_SUCCESS", "CONNECTION_CLOSED",
               "SERVER_PROTOCOL_ABORT_CLIENT"}

-----------------------------------------------------------------------------
(* Queries of SecAggServerState.                                           *)

DeadStatus ==
  {"DEAD_BEFORE_SENDING_ANYTHING", "DEAD_AFTER_ADVERTISE_KEYS_RECEIVED",
   "DEAD_AFTER_SHARE_KEYS_RECEIVED",
   "DEAD_AFTER_MASKED_INPUT_RESPONSE_RECEIVED",
   "DEAD_AFTER_UNMASKING_RESPONSE_RECEIVED"}

IsClientDead(c) == status[c] \in DeadStatus

NumberOfAliveClients ==
  Cardinality(Clients) - failedBefore - failedAfter - terminated

NumberOfPendingClients ==
  IF state \in Collecting THEN NumberOfAliveClients - ready ELSE 0

NumberOfIncludedInputs ==
  CASE state = "R2_MASKED_INPUT_COLLECTION" -> received
    [] state \in {"R3_UNMASKING", "PRNG_RUNNING", "COMPLETED"} ->
         Cardinality(Clients) - failedBefore
    [] OTHER -> 0

IsNumberOfIncludedInputsCommitted ==
  state \in {"R3_UNMASKING", "PRNG_RUNNING", "COMPLETED", "ABORTED"}

R0ReadyForNextRound == ready >= MinClients \/ needsToAbort
R1ReadyForNextRound == ready >= MinClients \/ needsToAbort

(* Defective variant: clients that are merely alive are counted.           *)
R2ReadyByAliveClients == idle /\ (NumberOfAliveClients >= MinClients \/ needsToAbort)

R2ReadyForNextRound == idle /\ (ready >= MinClients \/ needsToAbort)

(* Defective variants: clients that are merely alive are counted; the      *)
(* round is not left when it needs to abort.                               *)
R3ReadyByAliveClients == NumberOfAliveClients >= MinClients \/ needsToAbort
R3ReadyOnlyOnSuccess == received >= MinClients

R3ReadyForNextRound == received >= MinClients \/ needsToAbort

PrngReadyForNextRound == completion # "none"

ReadyForNextRound ==
  \/ state = "R0_ADVERTISE_KEYS" /\ R0ReadyForNextRound
  \/ state = "R1_SHARE_KEYS" /\ R1ReadyForNextRound
  \/ state = "R2_MASKED_INPUT_COLLECTION" /\ R2ReadyForNextRound
  \/ state = "R3_UNMASKING" /\ R3ReadyForNextRound
  \/ state = "PRNG_RUNNING" /\ PrngReadyForNextRound

(* What HandleMessage and the checks before it return. *)
ReceiveMessageStatus ==
  IF state \in Terminal THEN "FAILED_PRECONDITION" ELSE "OK"

-----------------------------------------------------------------------------
(* Dropping one client: SecAggServerState::AbortClient.                    *)

AbortMessage(reason) ==
  IF reason = "EARLY_SUCCESS" THEN "early_success" ELSE "abort"

Send(c, m) == sent' = [sent EXCEPT ![c] = Append(@, m)]

(* Every alive client that is not in the set D gets m; those in D get n.   *)
SendRound(D, n, m) ==
  sent' = [c \in Clients |->
             IF IsClientDead(c) THEN sent[c]
             ELSE Append(sent[c], IF c \in D THEN n ELSE m)]

TooFewAlive == NumberOfAliveClients < MinClients

R0HandleAbortClient(c) ==
  /\ failedBefore' = failedBefore + 1
  /\ ready' = IF status[c] = "ADVERTISE_KEYS_RECEIVED" THEN ready - 1 ELSE ready
  /\ status' = [status EXCEPT ![c] = "DEAD_BEFORE_SENDING_ANYTHING"]
  /\ UNCHANGED <<failedAfter, terminated, abortedAt2>>
  /\ needsToAbort' = (needsToAbort \/ TooFewAlive')

R1HandleAbortClient(c) ==
  /\ failedBefore' = failedBefore + 1
  /\ ready' = IF status[c] = "SHARE_KEYS_RECEIVED" THEN ready - 1 ELSE ready
  /\ status' = [status EXCEPT ![c] = "DEAD_AFTER_ADVERTISE_KEYS_RECEIVED"]
  /\ UNCHANGED <<failedAfter, terminated, abortedAt2>>
  /\ needsToAbort' = (needsToAbort \/ TooFewAlive')

R2HandleAbortClient(c) ==
  /\ IF status[c] = "MASKED_INPUT_RESPONSE_RECEIVED"
     THEN /\ ready' = ready - 1
          /\ failedAfter' = failedAfter + 1
          /\ status' = [status EXCEPT
                          ![c] = "DEAD_AFTER_MASKED_INPUT_RESPONSE_RECEIVED"]
          /\ UNCHANGED <<failedBefore, abortedAt2>>
     ELSE /\ failedBefore' = failedBefore + 1
          /\ abortedAt2' = abortedAt2 \cup {c}
          /\ status' = [status EXCEPT ![c] = "DEAD_AFTER_SHARE_KEYS_RECEIVED"]
          /\ UNCHANGED <<ready, failedAfter>>
  /\ UNCHANGED terminated
  /\ needsToAbort' = (needsToAbort \/ TooFewAlive')

(* Defective variant: gives up although exactly the minimum can answer.    *)
TooFewCanUnmaskOffByOne == NumberOfPendingClients + received <= MinClients

(* NumberOfPendingClients() + number_of_messages_received_in_this_round_.  *)
TooFewCanUnmask == NumberOfPendingClients + received < MinClients

R3HandleAbortClient(c, reason) ==
  IF status[c] = "UNMASKING_RESPONSE_RECEIVED"
  THEN /\ status' = [status EXCEPT
                       ![c] = "DEAD_AFTER_UNMASKING_RESPONSE_RECEIVED"]
       /\ UNCHANGED <<ready, failedBefore, failedAfter, terminated,
                      abortedAt2, needsToAbort>>
  ELSE /\ IF reason = "EARLY_SUCCESS"
          THEN terminated' = terminated + 1 /\ UNCHANGED failedAfter
          ELSE failedAfter' = failedAfter + 1 /\ UNCHANGED terminated
       /\ status' = [status EXCEPT
                       ![c] = "DEAD_AFTER_MASKED_INPUT_RESPONSE_RECEIVED"]
       /\ UNCHANGED <<ready, failedBefore, abortedAt2>>
       /\ needsToAbort' = (needsToAbort \/ TooFewCanUnmask')

PrngHandleAbortClient(c) ==
  /\ status' = [status EXCEPT ![c] = "DEAD_AFTER_UNMASKING_RESPONSE_RECEIVED"]
  /\ UNCHANGED <<ready, failedBefore, failedAfter, terminated, abortedAt2,
                 needsToAbort>>

HandleAbortClient(c, reason) ==
  \/ state = "R0_ADVERTISE_KEYS" /\ R0HandleAbortClient(c)
  \/ state = "R1_SHARE_KEYS" /\ R1HandleAbortClient(c)
  \/ state = "R2_MASKED_INPUT_COLLECTION" /\ R2HandleAbortClient(c)
  \/ state = "R3_UNMASKING" /\ R3HandleAbortClient(c, reason)
  \/ state = "PRNG_RUNNING" /\ PrngHandleAbortClient(c)

(* Defective variant: clients that are already dead are handled again.     *)
AbortClientWithoutDeadCheck(c, reason, notify) ==
  /\ UNCHANGED <<state, received, idle, prngVars>>
  /\ HandleAbortClient(c, reason)
  /\ dropReason' = [dropReason EXCEPT ![c] = reason]
  /\ IF notify THEN Send(c, AbortMessage(reason)) ELSE UNCHANGED sent

AbortClient(c, reason, notify) ==
  /\ UNCHANGED <<state, received, idle, prngVars>>
  /\ IF IsClientDead(c)
     THEN UNCHANGED <<status, needsToAbort, ready, failedBefore, failedAfter,
                      terminated, abortedAt2, sent, dropReason>>
     ELSE /\ HandleAbortClient(c, reason)
          /\ dropReason' = [dropReason EXCEPT ![c] = reason]
          /\ IF notify THEN Send(c, AbortMessage(reason)) ELSE UNCHANGED sent

-----------------------------------------------------------------------------
(* Receiving a message: HandleMessage of each state.                       *)

AcceptMessage(c, newStatus) ==
  /\ status' = [status EXCEPT ![c] = newStatus]
  /\ ready' = ready + 1
  /\ received' = received + 1
  /\ UNCHANGED <<state, needsToAbort, failedBefore, failedAfter, terminated,
                 abortedAt2, prngVars, sent, dropReason>>

(* The four collecting rounds differ only in the status they await, the    *)
(* message they expect and the status they grant.                          *)
Unexpected(c, type, awaited, expected) ==
  status[c] # awaited \/ type # expected

Reject(c, type, valid, awaited, expected) ==
  \/ /\ type = "abort"
     /\ AbortClient(c, "SENT_ABORT_MESSAGE", FALSE)
  \/ /\ type # "abort"
     /\ Unexpected(c, type, awaited, expected)
     /\ AbortClient(c, "UNEXPECTED", TRUE)
  \/ /\ ~Unexpected(c, type, awaited, expected)
     /\ ~valid
     /\ AbortClient(c, "INVALID", TRUE)

R0HandleMessage(c, type, valid) ==
  \/ Reject(c, type, valid, "READY_TO_START", "advertise_keys")
  \/ /\ valid /\ ~Unexpected(c, type, "READY_TO_START", "advertise_keys")
     /\ AcceptMessage(c, "ADVERTISE_KEYS_RECEIVED")
     /\ UNCHANGED idle

R1HandleMessage(c, type, valid) ==
  \/ Reject(c, type, valid, "ADVERTISE_KEYS_RECEIVED", "share_keys_response")
  \/ /\ valid
     /\ ~Unexpected(c, type, "ADVERTISE_KEYS_RECEIVED", "share_keys_response")
     /\ AcceptMessage(c, "SHARE_KEYS_RECEIVED")
     /\ UNCHANGED idle

(* With the asynchronous experiment an accepted input is queued for the    *)
(* accumulator, which is then no longer idle.                              *)
R2HandleMessage(c, type, valid) ==
  \/ Reject(c, type, valid, "SHARE_KEYS_RECEIVED", "masked_input_response")
  \/ /\ valid
     /\ ~Unexpected(c, type, "SHARE_KEYS_RECEIVED", "masked_input_response")
     /\ AcceptMessage(c, "MASKED_INPUT_RESPONSE_RECEIVED")
     /\ idle' = (idle /\ ~AsyncRound2)

R3HandleMessage(c, type, valid) ==
  \/ Reject(c, type, valid, "MASKED_INPUT_RESPONSE_RECEIVED",
            "unmasking_response")
  \/ /\ valid
     /\ ~Unexpected(c, type, "MASKED_INPUT_RESPONSE_RECEIVED",
                    "unmasking_response")
     /\ AcceptMessage(c, "UNMASKING_RESPONSE_RECEIVED")
     /\ UNCHANGED idle

PrngHandleMessage(c, type) ==
  \/ type = "abort" /\ AbortClient(c, "SENT_ABORT_MESSAGE", FALSE)
  \/ type # "abort" /\ AbortClient(c, "UNEXPECTED", TRUE)

ReceiveMessage(c, type, valid) ==
  \/ state = "R0_ADVERTISE_KEYS" /\ R0HandleMessage(c, type, valid)
  \/ state = "R1_SHARE_KEYS" /\ R1HandleMessage(c, type, valid)
  \/ state = "R2_MASKED_INPUT_COLLECTION" /\ R2HandleMessage(c, type, valid)
  \/ state = "R3_UNMASKING" /\ R3HandleMessage(c, type, valid)
  \/ state = "PRNG_RUNNING" /\ PrngHandleMessage(c, type)

(* SecAggServer::AbortClient, called by the owner of the server.           *)
ClientAbortReason == {"INVALID_MESSAGE", "CONNECTION_DROPPED", "OTHER"}

ServerAbortClient(c, reason) ==
  /\ state \notin Terminal
  /\ AbortClient(c,
                 IF reason = "CONNECTION_DROPPED" THEN "CONNECTION_CLOSED"
                 ELSE "SERVER_PROTOCOL_ABORT_CLIENT",
                 reason = "INVALID_MESSAGE")

-----------------------------------------------------------------------------
(* Leaving a round: ProceedToNextRound and Abort.                          *)

Pending(done) == {c \in Clients : ~IsClientDead(c) /\ status[c] # done}

(* The constructor of SecAggServerState resets what counts one round.      *)
EnterRound(kind) ==
  /\ state' = kind
  /\ needsToAbort' = FALSE
  /\ ready' = 0
  /\ received' = 0

(* Defective variant: the abort is not broadcast.                          *)
AbortAllSilently ==
  /\ EnterRound("ABORTED")
  /\ UNCHANGED <<status, failedBefore, failedAfter, terminated, abortedAt2,
                 idle, prngVars, sent, dropReason>>

(* BroadcastMessage of an abort, then AbortState.                          *)
AbortAll ==
  /\ SendRound({}, "abort", "abort")
  /\ EnterRound("ABORTED")
  /\ UNCHANGED <<status, failedBefore, failedAfter, terminated, abortedAt2,
                 idle, prngVars, dropReason>>

DropPending(D, newStatus, reason) ==
  /\ status' = [c \in Clients |-> IF c \in D THEN newStatus ELSE status[c]]
  /\ dropReason' = [c \in Clients |-> IF c \in D THEN reason
                                       ELSE dropReason[c]]

R0ProceedToNextRound ==
  /\ state = "R0_ADVERTISE_KEYS"
  /\ ReadyForNextRound /\ ~needsToAbort
  /\ LET D == Pending("ADVERTISE_KEYS_RECEIVED")
     IN  /\ DropPending(D, "DEAD_BEFORE_SENDING_ANYTHING", "NO_RESPONSE")
         /\ failedBefore' = failedBefore + Cardinality(D)
         /\ SendRound(D, "abort", "share_keys_request")
  /\ EnterRound("R1_SHARE_KEYS")
  /\ UNCHANGED <<failedAfter, terminated, abortedAt2, idle, prngVars>>

R1ProceedToNextRound ==
  /\ state = "R1_SHARE_KEYS"
  /\ ReadyForNextRound /\ ~needsToAbort
  /\ LET D == Pending("SHARE_KEYS_RECEIVED")
     IN  /\ DropPending(D, "DEAD_AFTER_ADVERTISE_KEYS_RECEIVED", "NO_RESPONSE")
         /\ failedBefore' = failedBefore + Cardinality(D)
         /\ SendRound(D, "abort", "masked_input_request")
  /\ EnterRound("R2_MASKED_INPUT_COLLECTION")
  /\ UNCHANGED <<failedAfter, terminated, abortedAt2, idle, prngVars>>

(* Defective variant: clients dropped by the transition itself are not     *)
(* added to the list of clients aborted in round 2.                        *)
R2ProceedToNextRoundForgetsPending ==
  /\ state = "R2_MASKED_INPUT_COLLECTION"
  /\ ReadyForNextRound /\ ~needsToAbort
  /\ LET D == Pending("MASKED_INPUT_RESPONSE_RECEIVED")
     IN  /\ DropPending(D, "DEAD_AFTER_SHARE_KEYS_RECEIVED", "NO_RESPONSE")
         /\ failedBefore' = failedBefore + Cardinality(D)
         /\ SendRound(D, "abort", "unmasking_request")
  /\ EnterRound("R3_UNMASKING")
  /\ UNCHANGED <<failedAfter, terminated, abortedAt2, idle, prngVars>>

R2ProceedToNextRound ==
  /\ state = "R2_MASKED_INPUT_COLLECTION"
  /\ ReadyForNextRound /\ ~needsToAbort
  /\ LET D == Pending("MASKED_INPUT_RESPONSE_RECEIVED")
     IN  /\ DropPending(D, "DEAD_AFTER_SHARE_KEYS_RECEIVED", "NO_RESPONSE")
         /\ failedBefore' = failedBefore + Cardinality(D)
         /\ abortedAt2' = abortedAt2 \cup D
         /\ SendRound(D, "abort", "unmasking_request")
  /\ EnterRound("R3_UNMASKING")
  /\ UNCHANGED <<failedAfter, terminated, idle, prngVars>>

(* Entering PRNG_RUNNING reconstructs the shared secrets; when that fails  *)
(* the state completes at once with an error, otherwise the PRNG starts.   *)
R3ProceedToNextRound(initialized) ==
  /\ state = "R3_UNMASKING"
  /\ ReadyForNextRound /\ ~needsToAbort
  /\ LET D == Pending("UNMASKING_RESPONSE_RECEIVED")
     IN  /\ DropPending(D, "DEAD_AFTER_MASKED_INPUT_RESPONSE_RECEIVED",
                        "EARLY_SUCCESS")
         /\ terminated' = terminated + Cardinality(D)
         /\ sent' = [c \in Clients |->
                       IF c \in D THEN Append(sent[c], "early_success")
                       ELSE sent[c]]
  /\ EnterRound("PRNG_RUNNING")
  /\ completion' = IF initialized THEN "none" ELSE "error"
  /\ UNCHANGED <<failedBefore, failedAfter, abortedAt2, idle, prngCallback>>

PrngProceedToNextRound ==
  /\ state = "PRNG_RUNNING"
  /\ ReadyForNextRound
  /\ EnterRound(IF completion = "ok" THEN "COMPLETED" ELSE "ABORTED")
  /\ UNCHANGED <<status, failedBefore, failedAfter, terminated, abortedAt2,
                 idle, prngVars, sent, dropReason>>

(* The branch all four rounds take when too many clients were dropped.     *)
ProceedToAborted ==
  /\ state \in Collecting
  /\ ReadyForNextRound /\ needsToAbort
  /\ AbortAll

ProceedToNextRound ==
  \/ R0ProceedToNextRound
  \/ R1ProceedToNextRound
  \/ R2ProceedToNextRound
  \/ \E initialized \in BOOLEAN : R3ProceedToNextRound(initialized)
  \/ PrngProceedToNextRound
  \/ ProceedToAborted

Abort ==
  /\ state \notin Terminal
  /\ AbortAll

-----------------------------------------------------------------------------
(* Asynchronous work.                                                      *)

AccumulatorBecomesIdle ==
  /\ state = "R2_MASKED_INPUT_COLLECTION"
  /\ ~idle
  /\ idle' = TRUE
  /\ UNCHANGED <<state, status, needsToAbort, counters, abortedAt2, prngVars,
                 sent, dropReason>>

(* The owner of the server sets one callback while the PRNG runs.          *)
SetAsyncCallback ==
  /\ state = "PRNG_RUNNING"
  /\ prngCallback = "unset"
  /\ prngCallback' = IF completion = "none" THEN "set" ELSE "scheduled"
  /\ UNCHANGED <<state, status, needsToAbort, counters, abortedAt2, idle,
                 completion, sent, dropReason>>

PrngRunnerFinished ==
  /\ state = "PRNG_RUNNING"
  /\ completion = "none"
  /\ completion' = "ok"
  /\ prngCallback' = IF prngCallback = "set" THEN "scheduled" ELSE prngCallback
  /\ UNCHANGED <<state, status, needsToAbort, counters, abortedAt2, idle,
                 sent, dropReason>>

(* The callback runs outside mutex_, so the state may already be gone.     *)
RunCallback ==
  /\ prngCallback = "scheduled"
  /\ prngCallback' = "called"
  /\ UNCHANGED <<state, status, needsToAbort, counters, abortedAt2, idle,
                 completion, sent, dropReason>>

-----------------------------------------------------------------------------
Init ==
  /\ state = "R0_ADVERTISE_KEYS"
  /\ status = [c \in Clients |-> "READY_TO_START"]
  /\ needsToAbort = FALSE
  /\ ready = 0 /\ received = 0
  /\ failedBefore = 0 /\ failedAfter = 0 /\ terminated = 0
  /\ abortedAt2 = {}
  /\ idle = TRUE
  /\ completion = "none" /\ prngCallback = "unset"
  /\ sent = [c \in Clients |-> <<>>]
  /\ dropReason = [c \in Clients |-> "NONE"]

ReceiveSomeMessage ==
  \E c \in Clients, type \in ClientMessageType, valid \in BOOLEAN :
    ReceiveMessage(c, type, valid)

AbortSomeClient ==
  \E c \in Clients, reason \in ClientAbortReason : ServerAbortClient(c, reason)

Next ==
  \/ ReceiveSomeMessage
  \/ AbortSomeClient
  \/ ProceedToNextRound
  \/ Abort
  \/ AccumulatorBecomesIdle
  \/ SetAsyncCallback
  \/ PrngRunnerFinished
  \/ RunCallback

(* The status of the clients that the current round still waits for.       *)
Awaited ==
  CASE state = "R0_ADVERTISE_KEYS" -> "READY_TO_START"
    [] state = "R1_SHARE_KEYS" -> "ADVERTISE_KEYS_RECEIVED"
    [] state = "R2_MASKED_INPUT_COLLECTION" -> "SHARE_KEYS_RECEIVED"
    [] state = "R3_UNMASKING" -> "MASKED_INPUT_RESPONSE_RECEIVED"
    [] OTHER -> "none"

(* A client the round waits for answers or loses its connection.           *)
PendingClientAnswers ==
  \E c \in Clients :
    /\ status[c] = Awaited
    /\ \/ \E type \in ClientMessageType : ReceiveMessage(c, type, TRUE)
       \/ ServerAbortClient(c, "CONNECTION_DROPPED")

(* The owner proceeds once the server says it is ready; scheduled work and *)
(* the PRNG runner are not starved; a pending client answers or drops.     *)
Fairness ==
  /\ WF_vars(ProceedToNextRound)
  /\ WF_vars(PendingClientAnswers)
  /\ WF_vars(AccumulatorBecomesIdle)
  /\ WF_vars(PrngRunnerFinished)
  /\ WF_vars(RunCallback)

Spec == Init /\ [][Next]_vars
FairSpec == Spec /\ Fairness

-----------------------------------------------------------------------------
(* Properties.                                                             *)

With(S) == {c \in Clients : status[c] \in S}

FailedBeforeStatus ==
  {"DEAD_BEFORE_SENDING_ANYTHING", "DEAD_AFTER_ADVERTISE_KEYS_RECEIVED",
   "DEAD_AFTER_SHARE_KEYS_RECEIVED"}
UnmaskedStatus == {"UNMASKING_RESPONSE_RECEIVED",
                   "DEAD_AFTER_UNMASKING_RESPONSE_RECEIVED"}
(* The clients whose masked input is part of the server's sum.             *)
IncludedStatus == {"MASKED_INPUT_RESPONSE_RECEIVED",
                   "DEAD_AFTER_MASKED_INPUT_RESPONSE_RECEIVED"}
                  \cup UnmaskedStatus
IncludedClients == With(IncludedStatus)

(* Type correctness of the server's state. *)
TypeOK ==
  /\ state \in StateKind
  /\ status \in [Clients -> ClientStatus]
  /\ needsToAbort \in BOOLEAN
  /\ ready \in Nat /\ received \in Nat
  /\ failedBefore \in Nat /\ failedAfter \in Nat /\ terminated \in Nat
  /\ abortedAt2 \in SUBSET Clients
  /\ idle \in BOOLEAN
  /\ completion \in {"none", "ok", "error"}
  /\ prngCallback \in {"unset", "set", "scheduled", "called"}
  /\ sent \in [Clients -> Seq(ServerMessageType)]
  /\ dropReason \in [Clients -> DropReason]

(* The failure counters, which are carried from state object to state      *)
(* object and incremented in five HandleAbortClient methods and four       *)
(* round transitions, never drift from the client statuses they count.     *)
FailureCountersMatchStatuses ==
  /\ failedBefore = Cardinality(With(FailedBeforeStatus))
  /\ failedAfter + terminated =
       Cardinality(With({"DEAD_AFTER_MASKED_INPUT_RESPONSE_RECEIVED"}))

(* The per-round counters agree with the statuses: a client dropped after  *)
(* it answered leaves the ready count in rounds 0 to 2 but stays in it in  *)
(* round 3, where its shares are already usable, and a round 2 input stays *)
(* among the received ones because it cannot be removed from the sum.      *)
RoundCountersMatchStatuses ==
  /\ state = "R0_ADVERTISE_KEYS" =>
       ready = Cardinality(With({"ADVERTISE_KEYS_RECEIVED"}))
  /\ state = "R1_SHARE_KEYS" =>
       ready = Cardinality(With({"SHARE_KEYS_RECEIVED"}))
  /\ state = "R2_MASKED_INPUT_COLLECTION" =>
       /\ ready = Cardinality(With({"MASKED_INPUT_RESPONSE_RECEIVED"}))
       /\ received = Cardinality(IncludedClients)
  /\ state = "R3_UNMASKING" =>
       /\ ready = Cardinality(With(UnmaskedStatus))
       /\ received = ready

(* needs_to_abort_ is set exactly when the clients that answered and those *)
(* that still may are fewer than the minimum: a round never waits for      *)
(* answers that cannot come, and is never given up while it could succeed. *)
AbortsOnlyWhenHopeless ==
  state \in Collecting =>
    (needsToAbort <=> NumberOfPendingClients + ready < MinClients)

(* Once unmasking is over, at least the minimum number of clients sent     *)
(* their shares, and the number of inputs the server reports is the number *)
(* of masked inputs it added up.                                           *)
UnmaskedByQuorum ==
  /\ state \in {"PRNG_RUNNING", "COMPLETED"} =>
       Cardinality(With(UnmaskedStatus)) >= MinClients
  /\ state \in {"R3_UNMASKING", "PRNG_RUNNING", "COMPLETED"} =>
       NumberOfIncludedInputs = Cardinality(IncludedClients)

(* The clients named in the unmasking requests as dropped in round 2 are   *)
(* exactly those that shared keys but whose input is not in the sum: for   *)
(* these, and no others, the server later reconstructs pairwise keys.      *)
DroppedListMatchesStatuses ==
  state \notin {"R0_ADVERTISE_KEYS", "R1_SHARE_KEYS"} =>
    abortedAt2 = With({"DEAD_AFTER_SHARE_KEYS_RECEIVED"})

(* What a client is sent, in order: the requests of consecutive rounds,    *)
(* then at most one closing message and nothing after it.  Early success   *)
(* closes only clients whose input is in the sum.                          *)
Requests == <<"share_keys_request", "masked_input_request",
              "unmasking_request">>
Closing == {"abort", "early_success"}
ConversationWellFormed ==
  \A c \in Clients :
    /\ \A i \in 1..Len(sent[c]) :
         \/ i <= 3 /\ sent[c][i] = Requests[i]
         \/ i = Len(sent[c]) /\ sent[c][i] \in Closing
    /\ \A i \in 1..Len(sent[c]) :
         sent[c][i] = "early_success" =>
           c \in IncludedClients /\ state \notin Collecting

(* No client is left waiting: when the server has aborted, every client    *)
(* that was not dropped and that has not finished its own part has been    *)
(* told so.                                                                *)
NobodyLeftWaiting ==
  state \in Terminal =>
    \A c \in Clients :
      \/ IsClientDead(c)
      \/ status[c] = "UNMASKING_RESPONSE_RECEIVED"
      \/ sent[c] # <<>> /\ sent[c][Len(sent[c])] = "abort"

(* A dropped client stays dropped, and whether its input counts no longer  *)
(* changes once the number of included inputs is committed.                *)
DropStays ==
  \A c \in Clients :
    IsClientDead(c) =>
      IsClientDead(c)' /\ (c \in IncludedClients <=> c \in IncludedClients')

(* No step of the server revives a client or changes what its drop counts. *)
DropsAreFinal == [][DropStays]_vars

(* The counters and lists the server decides by never drift from the       *)
(* client statuses they summarise, whatever order of answers, aborts and   *)
(* forced transitions led to the state.                                    *)
BookkeepingMatchesStatuses ==
  /\ FailureCountersMatchStatuses
  /\ RoundCountersMatchStatuses
  /\ DroppedListMatchesStatuses

(* A client that is dropped, by its own abort, by the server's or in a     *)
(* round transition, gets one closing message and nothing after it, and    *)
(* is never revived.                                                       *)
ClientsAreClosedOnce == [][ConversationWellFormed' /\ DropStays]_vars

(* The session the server implements: a client is included from the moment *)
(* its masked input is accepted, and the set is committed by leaving       *)
(* round 2.                                                                *)
SessionPhase ==
  CASE state \in {"R0_ADVERTISE_KEYS", "R1_SHARE_KEYS",
                  "R2_MASKED_INPUT_COLLECTION"} -> "collecting"
    [] state \in {"R3_UNMASKING", "PRNG_RUNNING"} -> "committed"
    [] state = "COMPLETED" -> "released"
    [] OTHER -> "aborted"

Quorums == {S \in SUBSET Clients : Cardinality(S) >= MinClients}

Session == INSTANCE AggregationSession
             WITH phase <- SessionPhase, included <- IncludedClients

(* The server implements the abstract session: the set of clients whose    *)
(* inputs are included never changes after round 2, has at least the       *)
(* minimum size, and nothing is released after an abort.                   *)
ImplementsSession == Session!SessionSpec

(* Under the stated fairness every execution reaches a terminal state.     *)
EventuallyTerminal == <>(state \in Terminal)

-----------------------------------------------------------------------------
(* What the documentation of SecAggServer says and the code does not do.   *)

(* ReceiveMessage "returns a FAILED_PRECONDITION status if the server is   *)
(* in a terminal state or the PRNG_RUNNING state".                         *)
PrngRunningRejectsMessages ==
  state \in Terminal \cup {"PRNG_RUNNING"} =>
    ReceiveMessageStatus = "FAILED_PRECONDITION"
=============================================================================
