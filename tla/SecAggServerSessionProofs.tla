---------------------- MODULE SecAggServerSessionProofs ----------------------
(***************************************************************************)
(* What the server's steps do to the set of included clients: drops are    *)
(* final, the list of clients dropped in round 2 is right, and the server  *)
(* implements the abstract AggregationSession.  Everything rests on the    *)
(* inductive invariant IInv of SecAggServerProofs.                         *)
(***************************************************************************)
EXTENDS SecAggServerProofs

(* How one step may change the statuses: nothing changes, one alive client *)
(* gets another status, or the alive clients of a set D are dropped.       *)
Moves(c, v) == status' = [status EXCEPT ![c] = v]

(* The statuses a client can be given when it is dropped in each round.    *)
(* Only in round 2 does it depend on the status the client had.            *)
DropStatus(s) ==
  CASE state = "R0_ADVERTISE_KEYS" -> "DEAD_BEFORE_SENDING_ANYTHING"
    [] state = "R1_SHARE_KEYS" -> "DEAD_AFTER_ADVERTISE_KEYS_RECEIVED"
    [] state = "R2_MASKED_INPUT_COLLECTION" ->
         IF s = "MASKED_INPUT_RESPONSE_RECEIVED"
         THEN "DEAD_AFTER_MASKED_INPUT_RESPONSE_RECEIVED"
         ELSE "DEAD_AFTER_SHARE_KEYS_RECEIVED"
    [] state = "R3_UNMASKING" ->
         IF s = "UNMASKING_RESPONSE_RECEIVED"
         THEN "DEAD_AFTER_UNMASKING_RESPONSE_RECEIVED"
         ELSE "DEAD_AFTER_MASKED_INPUT_RESPONSE_RECEIVED"
    [] OTHER -> "DEAD_AFTER_UNMASKING_RESPONSE_RECEIVED"

(* The status an accepted message leads to.                                *)
NextStatus ==
  CASE state = "R0_ADVERTISE_KEYS" -> "ADVERTISE_KEYS_RECEIVED"
    [] state = "R1_SHARE_KEYS" -> "SHARE_KEYS_RECEIVED"
    [] state = "R2_MASKED_INPUT_COLLECTION" -> "MASKED_INPUT_RESPONSE_RECEIVED"
    [] OTHER -> "UNMASKING_RESPONSE_RECEIVED"

Dropped2 == With({"DEAD_AFTER_SHARE_KEYS_RECEIVED"})

(* The effect of a step on what the session depends on.                    *)
AcceptStep(c) ==
  /\ state \in Collecting /\ status[c] = Awaited
  /\ Moves(c, NextStatus)
  /\ UNCHANGED <<state, abortedAt2>>

DropStep(c) ==
  /\ state \notin Terminal /\ ~IsClientDead(c)
  /\ Moves(c, DropStatus(status[c]))
  /\ abortedAt2' = IF DropStatus(status[c]) = "DEAD_AFTER_SHARE_KEYS_RECEIVED"
                   THEN abortedAt2 \cup {c} ELSE abortedAt2
  /\ UNCHANGED state

(* Dropping a client is a DropStep, or nothing when it was dead already.   *)
LEMMA AbortClientStep ==
  ASSUME IInv, NEW c \in Clients, NEW reason, NEW notify,
         AbortClient(c, reason, notify)
  PROVE  DropStep(c) \/ UNCHANGED <<state, status, abortedAt2>>
<1>1. CASE IsClientDead(c)
  BY <1>1 DEF AbortClient
<1>2. CASE ~IsClientDead(c)
  <2>1. HandleAbortClient(c, reason) /\ UNCHANGED state
    BY <1>2 DEF AbortClient
  <2>2. state \notin Terminal
    BY <2>1 DEF HandleAbortClient, Terminal
  <2>3. status[c] \in RoundStatus(state)
    BY DEF IInv, StatusesOfRound
  <2>4. CASE state = "R0_ADVERTISE_KEYS"
    BY <1>2, <2>1, <2>2, <2>4
    DEF HandleAbortClient, R0HandleAbortClient, DropStep, DropStatus, Moves
  <2>5. CASE state = "R1_SHARE_KEYS"
    BY <1>2, <2>1, <2>2, <2>5
    DEF HandleAbortClient, R1HandleAbortClient, DropStep, DropStatus, Moves
  <2>6. CASE state = "R2_MASKED_INPUT_COLLECTION"
    BY <1>2, <2>1, <2>2, <2>6
    DEF HandleAbortClient, R2HandleAbortClient, DropStep, DropStatus, Moves
  <2>7. CASE state = "R3_UNMASKING"
    BY <1>2, <2>1, <2>2, <2>7
    DEF HandleAbortClient, R3HandleAbortClient, DropStep, DropStatus, Moves
  <2>8. CASE state = "PRNG_RUNNING"
    BY <1>2, <2>1, <2>2, <2>8
    DEF HandleAbortClient, PrngHandleAbortClient, DropStep, DropStatus, Moves
  <2>9. QED
    BY <2>1, <2>4, <2>5, <2>6, <2>7, <2>8 DEF HandleAbortClient
<1>3. QED
  BY <1>1, <1>2

(* Receiving a message accepts it, drops its sender or changes nothing.    *)
LEMMA ReceiveMessageStep ==
  ASSUME IInv, NEW c \in Clients, NEW type, NEW valid,
         ReceiveMessage(c, type, valid)
  PROVE  AcceptStep(c) \/ DropStep(c) \/ UNCHANGED <<state, status, abortedAt2>>
<1>1. \/ \E reason, notify : AbortClient(c, reason, notify)
      \/ AcceptStep(c)
  BY DEF ReceiveMessage, R0HandleMessage, R1HandleMessage, R2HandleMessage,
         R3HandleMessage, PrngHandleMessage, Reject, Unexpected, AcceptMessage,
         AcceptStep, Moves, NextStatus, Awaited, Collecting
<1>2. QED
  BY <1>1, AbortClientStep

(* A transition that only changes the kind of the state.                   *)
QuietStep ==
  /\ UNCHANGED <<status, abortedAt2>>
  /\ \/ state' = state
     \/ state \notin Terminal /\ state' = "ABORTED"
     \/ state = "PRNG_RUNNING" /\ state' = "COMPLETED"

(* Every step of the server is of one of these kinds.                      *)
LEMMA StepKinds ==
  ASSUME IInv, [Next]_vars
  PROVE  \/ \E c \in Clients : AcceptStep(c)
         \/ \E c \in Clients : DropStep(c)
         \/ R0ProceedToNextRound
         \/ R1ProceedToNextRound
         \/ R2ProceedToNextRound
         \/ \E initialized \in BOOLEAN : R3ProceedToNextRound(initialized)
         \/ QuietStep
<1>1. CASE ReceiveSomeMessage
  BY <1>1, ReceiveMessageStep DEF ReceiveSomeMessage, QuietStep
<1>2. CASE AbortSomeClient
  BY <1>2, AbortClientStep DEF AbortSomeClient, ServerAbortClient, QuietStep
<1>3. CASE PrngProceedToNextRound
  BY <1>3 DEF PrngProceedToNextRound, EnterRound, QuietStep, Terminal
<1>4. CASE ProceedToAborted \/ Abort
  BY <1>4
  DEF ProceedToAborted, Abort, AbortAll, EnterRound, QuietStep, Terminal,
      Collecting
<1>5. CASE \/ AccumulatorBecomesIdle \/ SetAsyncCallback
           \/ PrngRunnerFinished \/ RunCallback \/ UNCHANGED vars
  BY <1>5
  DEF AccumulatorBecomesIdle, SetAsyncCallback, PrngRunnerFinished,
      RunCallback, QuietStep, vars
<1>6. QED
  BY <1>1, <1>2, <1>3, <1>4, <1>5 DEF Next, ProceedToNextRound

(* What the transitions between rounds do to the statuses.                 *)
LEMMA ProceedSteps ==
  ASSUME IInv
  PROVE  /\ R0ProceedToNextRound =>
              /\ state = "R0_ADVERTISE_KEYS" /\ state' = "R1_SHARE_KEYS"
              /\ status' = [c \in Clients |->
                   IF status[c] = "READY_TO_START"
                   THEN "DEAD_BEFORE_SENDING_ANYTHING" ELSE status[c]]
              /\ abortedAt2' = abortedAt2
         /\ R1ProceedToNextRound =>
              /\ state = "R1_SHARE_KEYS"
              /\ state' = "R2_MASKED_INPUT_COLLECTION"
              /\ status' = [c \in Clients |->
                   IF status[c] = "ADVERTISE_KEYS_RECEIVED"
                   THEN "DEAD_AFTER_ADVERTISE_KEYS_RECEIVED" ELSE status[c]]
              /\ abortedAt2' = abortedAt2
         /\ R2ProceedToNextRound =>
              /\ state = "R2_MASKED_INPUT_COLLECTION"
              /\ state' = "R3_UNMASKING"
              /\ ready >= MinClients
              /\ status' = [c \in Clients |->
                   IF status[c] = "SHARE_KEYS_RECEIVED"
                   THEN "DEAD_AFTER_SHARE_KEYS_RECEIVED" ELSE status[c]]
              /\ abortedAt2' = abortedAt2 \cup With({"SHARE_KEYS_RECEIVED"})
         /\ \A initialized : R3ProceedToNextRound(initialized) =>
              /\ state = "R3_UNMASKING" /\ state' = "PRNG_RUNNING"
              /\ status' = [c \in Clients |->
                   IF status[c] = "MASKED_INPUT_RESPONSE_RECEIVED"
                   THEN "DEAD_AFTER_MASKED_INPUT_RESPONSE_RECEIVED"
                   ELSE status[c]]
              /\ abortedAt2' = abortedAt2
<1>1. \A c \in Clients : status[c] \in RoundStatus(state)
  BY DEF IInv, StatusesOfRound
<1>2. ASSUME R0ProceedToNextRound
      PROVE  Pending("ADVERTISE_KEYS_RECEIVED")
               = {c \in Clients : status[c] = "READY_TO_START"}
  BY <1>1, <1>2 DEF R0ProceedToNextRound, RoundStatus, Pending, IsClientDead,
                    DeadStatus
<1>3. ASSUME R1ProceedToNextRound
      PROVE  Pending("SHARE_KEYS_RECEIVED")
               = {c \in Clients : status[c] = "ADVERTISE_KEYS_RECEIVED"}
  BY <1>1, <1>3 DEF R1ProceedToNextRound, RoundStatus, Pending, IsClientDead,
                    DeadStatus
<1>4. ASSUME R2ProceedToNextRound
      PROVE  Pending("MASKED_INPUT_RESPONSE_RECEIVED")
               = {c \in Clients : status[c] = "SHARE_KEYS_RECEIVED"}
  BY <1>1, <1>4 DEF R2ProceedToNextRound, RoundStatus, Pending, IsClientDead,
                    DeadStatus, FailedBeforeStatus, DeadMasked
<1>5. ASSUME NEW initialized, R3ProceedToNextRound(initialized)
      PROVE  Pending("UNMASKING_RESPONSE_RECEIVED")
               = {c \in Clients : status[c] = "MASKED_INPUT_RESPONSE_RECEIVED"}
  BY <1>1, <1>5 DEF R3ProceedToNextRound, RoundStatus, Pending, IsClientDead,
                    DeadStatus, FailedBeforeStatus, DeadMasked, UnmaskedStatus
<1>6. QED
  BY <1>2, <1>3, <1>4, <1>5
  DEF R0ProceedToNextRound, R1ProceedToNextRound, R2ProceedToNextRound,
      R3ProceedToNextRound, DropPending, EnterRound, With, ReadyForNextRound,
      R2ReadyForNextRound

-----------------------------------------------------------------------------
(* Dropped clients.                                                        *)

(* No step changes the status of a client that is dead. *)
LEMMA DeadUnchanged ==
  ASSUME IInv, [Next]_vars, NEW c \in Clients, IsClientDead(c)
  PROVE  status'[c] = status[c]
<1>1. status \in [Clients -> ClientStatus]
  BY DEF IInv, TypeOK
<1>2. ASSUME NEW d \in Clients, AcceptStep(d) PROVE status'[c] = status[c]
  BY <1>1, <1>2 DEF AcceptStep, Moves, Awaited, IsClientDead, DeadStatus
<1>3. ASSUME NEW d \in Clients, DropStep(d) PROVE status'[c] = status[c]
  BY <1>1, <1>3 DEF DropStep, Moves
<1>4. ASSUME \/ R0ProceedToNextRound \/ R1ProceedToNextRound
             \/ R2ProceedToNextRound
             \/ \E initialized \in BOOLEAN : R3ProceedToNextRound(initialized)
      PROVE  status'[c] = status[c]
  BY <1>1, <1>4, ProceedSteps DEF IsClientDead, DeadStatus
<1>5. ASSUME QuietStep PROVE status'[c] = status[c]
  BY <1>5 DEF QuietStep
<1>6. QED
  BY <1>2, <1>3, <1>4, <1>5, StepKinds

(* A client that was dropped stays dropped, and its input stays in the sum *)
(* or out of it, whatever messages of it still arrive.                     *)
THEOREM DropsFinal == Spec => DropsAreFinal
<1>1. ASSUME IInv, [Next]_vars, NEW c \in Clients, IsClientDead(c)
      PROVE  IsClientDead(c)' /\ (c \in IncludedClients <=> c \in IncludedClients')
  <2>1. status'[c] = status[c]
    BY <1>1, DeadUnchanged
  <2>2. QED
    BY <1>1, <2>1 DEF IsClientDead, IncludedClients, With
<1>2. IInv /\ [Next]_vars => [DropStays]_vars
  BY <1>1 DEF DropStays
<1>3. QED
  BY <1>2, IInvHolds, PTL DEF Spec, DropsAreFinal

-----------------------------------------------------------------------------
(* The list of clients dropped in round 2.                                 *)

DropInv == abortedAt2 = Dropped2

(* A step keeps clients_aborted_at_round_2_ equal to the set of clients    *)
(* with the status that stands for it.                                     *)
LEMMA DropInvStep ==
  ASSUME IInv, DropInv, [Next]_vars
  PROVE  DropInv'
<1>1. /\ status \in [Clients -> ClientStatus]
      /\ \A c \in Clients : status[c] \in RoundStatus(state)
  BY DEF IInv, TypeOK, StatusesOfRound
<1>2. ASSUME NEW d \in Clients, AcceptStep(d) PROVE DropInv'
  BY <1>1, <1>2
  DEF AcceptStep, Moves, NextStatus, Awaited, Collecting, DropInv, Dropped2, With
<1>3. ASSUME NEW d \in Clients, DropStep(d) PROVE DropInv'
  <2>1. status[d] # "DEAD_AFTER_SHARE_KEYS_RECEIVED"
    BY <1>3 DEF DropStep, IsClientDead, DeadStatus
  <2>2. CASE DropStatus(status[d]) = "DEAD_AFTER_SHARE_KEYS_RECEIVED"
    BY <1>1, <1>3, <2>1, <2>2 DEF DropStep, Moves, DropInv, Dropped2, With
  <2>3. CASE DropStatus(status[d]) # "DEAD_AFTER_SHARE_KEYS_RECEIVED"
    BY <1>1, <1>3, <2>1, <2>3 DEF DropStep, Moves, DropInv, Dropped2, With
  <2>4. QED
    BY <2>2, <2>3
<1>4. ASSUME \/ R0ProceedToNextRound \/ R1ProceedToNextRound
             \/ R2ProceedToNextRound
             \/ \E initialized \in BOOLEAN : R3ProceedToNextRound(initialized)
      PROVE  DropInv'
  BY <1>1, <1>4, ProceedSteps DEF DropInv, Dropped2, With
<1>5. ASSUME QuietStep PROVE DropInv'
  BY <1>5 DEF QuietStep, DropInv, Dropped2, With
<1>6. QED
  BY <1>2, <1>3, <1>4, <1>5, StepKinds

(* The unmasking requests name as dropped exactly the clients that shared  *)
(* their keys and whose input is not in the sum.                           *)
THEOREM DroppedListCorrect == Spec => []DroppedListMatchesStatuses
<1>1. Init => DropInv
  BY DEF Init, DropInv, Dropped2, With
<1>2. IInv /\ DropInv /\ [Next]_vars => DropInv'
  BY DropInvStep
<1>3. DropInv => DroppedListMatchesStatuses
  BY DEF DropInv, Dropped2, DroppedListMatchesStatuses
<1>4. QED
  BY <1>1, <1>2, <1>3, IInvHolds, PTL DEF Spec

(* All the bookkeeping of the server agrees with the client statuses: the  *)
(* failure counters, the counters of the round and the list of the clients *)
(* dropped in round 2.                                                     *)
THEOREM BookkeepingCorrect == Spec => []BookkeepingMatchesStatuses
<1>1. FailureCountersMatchStatuses /\ RoundCountersMatchStatuses
        /\ DroppedListMatchesStatuses => BookkeepingMatchesStatuses
  BY DEF BookkeepingMatchesStatuses
<1>2. QED
  BY <1>1, FailureCountersCorrect, RoundCountersCorrect, DroppedListCorrect, PTL

-----------------------------------------------------------------------------
(* Refinement of the abstract session.                                     *)

(* The set of included clients changes only by an accepted masked input.   *)
LEMMA IncludedStep ==
  ASSUME IInv, [Next]_vars
  PROVE  \/ IncludedClients' = IncludedClients
         \/ /\ state = "R2_MASKED_INPUT_COLLECTION" /\ state' = state
            /\ \E c \in Clients \ IncludedClients :
                 IncludedClients' = IncludedClients \cup {c}
<1>1. /\ status \in [Clients -> ClientStatus]
      /\ \A c \in Clients : status[c] \in RoundStatus(state)
  BY DEF IInv, TypeOK, StatusesOfRound
<1> DEFINE Goal == \/ IncludedClients' = IncludedClients
                   \/ /\ state = "R2_MASKED_INPUT_COLLECTION" /\ state' = state
                      /\ \E c \in Clients \ IncludedClients :
                           IncludedClients' = IncludedClients \cup {c}
<1>2. ASSUME NEW d \in Clients, AcceptStep(d) PROVE Goal
  <2>1. CASE state = "R2_MASKED_INPUT_COLLECTION"
    <3>1. d \in Clients \ IncludedClients
      BY <1>2, <2>1
      DEF AcceptStep, Awaited, IncludedClients, IncludedStatus, UnmaskedStatus, With
    <3>2. IncludedClients' = IncludedClients \cup {d}
      BY <1>1, <1>2, <2>1
      DEF AcceptStep, Moves, NextStatus, IncludedClients, IncludedStatus, With
    <3>3. QED
      BY <1>2, <2>1, <3>1, <3>2 DEF AcceptStep
  <2>2. CASE state # "R2_MASKED_INPUT_COLLECTION"
    <3>1. NextStatus \in IncludedStatus <=> status[d] \in IncludedStatus
      BY <1>2, <2>2
      DEF AcceptStep, NextStatus, Awaited, Collecting, IncludedStatus,
          UnmaskedStatus
    <3>2. IncludedClients' = IncludedClients
      BY <1>1, <1>2, <3>1 DEF AcceptStep, Moves, IncludedClients, With
    <3>3. QED
      BY <3>2
  <2>3. QED
    BY <2>1, <2>2
<1>3. ASSUME NEW d \in Clients, DropStep(d) PROVE Goal
  <2>1. DropStatus(status[d]) \in IncludedStatus <=> status[d] \in IncludedStatus
    <3>1. /\ state \in Collecting \cup {"PRNG_RUNNING"}
          /\ ~IsClientDead(d) /\ status[d] \in RoundStatus(state)
      BY <1>1, <1>3 DEF DropStep, IInv, TypeOK, StateKind
    <3>2. QED
      BY <3>1
      DEF DropStatus, RoundStatus, IsClientDead, DeadStatus, Collecting,
          IncludedStatus, UnmaskedStatus, DeadMasked, FailedBeforeStatus
  <2>2. IncludedClients' = IncludedClients
    BY <1>1, <1>3, <2>1 DEF DropStep, Moves, IncludedClients, With
  <2>3. QED
    BY <2>2
<1>4. ASSUME \/ R0ProceedToNextRound \/ R1ProceedToNextRound
             \/ R2ProceedToNextRound
             \/ \E initialized \in BOOLEAN : R3ProceedToNextRound(initialized)
      PROVE  IncludedClients' = IncludedClients
  BY <1>1, <1>4, ProceedSteps
  DEF IncludedClients, IncludedStatus, UnmaskedStatus, With
<1>5. ASSUME QuietStep PROVE IncludedClients' = IncludedClients
  BY <1>5 DEF QuietStep, IncludedClients, With
<1>6. QED
  BY <1>2, <1>3, <1>4, <1>5, StepKinds

(* The inputs committed when round 2 ends are at least the minimum number. *)
LEMMA CommitQuorum ==
  ASSUME IInv, R2ProceedToNextRound
  PROVE  IncludedClients \in Quorums
<1> DEFINE Rest == {"DEAD_AFTER_MASKED_INPUT_RESPONSE_RECEIVED"} \cup UnmaskedStatus
<1>1. /\ ready \in Nat /\ ready >= MinClients /\ MinClients \in Nat
      /\ ready = Count(status, Masked)
  BY CohortAssumption, ProceedSteps DEF IInv, TypeOK, CountInv
<1>2. IncludedStatus = Masked \cup Rest /\ Masked \cap Rest = {}
  BY DEF IncludedStatus, Masked, UnmaskedStatus
<1>3. Count(status, Masked \cup Rest) = Count(status, Masked) + Count(status, Rest)
  BY <1>2, CountUnion
<1>4. PICK n \in Nat : n = Count(status, Rest)
  BY CountType
<1>5. Count(status, IncludedStatus) = ready + n
  BY <1>1, <1>2, <1>3, <1>4
<1>6. ready + n >= MinClients
  BY <1>1, <1>4
<1>7. QED
  BY <1>5, <1>6 DEF Count, IncludedClients, With, Quorums

(* Every step of the server is a step of the session or leaves it alone.   *)
LEMMA SessionStep ==
  ASSUME IInv, [Next]_vars
  PROVE  [Session!SessionNext]_(Session!sessionVars)
<1>1. CASE /\ state = "R2_MASKED_INPUT_COLLECTION" /\ state' = state
           /\ \E c \in Clients \ IncludedClients :
                IncludedClients' = IncludedClients \cup {c}
  BY <1>1 DEF Session!SessionNext, Session!AddInput, SessionPhase
<1>2. CASE IncludedClients' = IncludedClients
  <2>1. CASE \/ \E c \in Clients : AcceptStep(c)
             \/ \E c \in Clients : DropStep(c)
    BY <1>2, <2>1 DEF AcceptStep, DropStep, Session!sessionVars, SessionPhase
  <2>2. CASE R0ProceedToNextRound \/ R1ProceedToNextRound
    BY <1>2, <2>2, ProceedSteps DEF Session!sessionVars, SessionPhase
  <2>3. CASE R2ProceedToNextRound
    <3>1. SessionPhase = "collecting" /\ SessionPhase' = "committed"
      BY <2>3, ProceedSteps DEF SessionPhase
    <3>2. IncludedClients \in Quorums
      BY <2>3, CommitQuorum
    <3>3. Session!Commit
      BY <1>2, <3>1, <3>2 DEF Session!Commit
    <3>4. QED
      BY <3>3 DEF Session!SessionNext
  <2>4. CASE \E initialized \in BOOLEAN : R3ProceedToNextRound(initialized)
    BY <1>2, <2>4, ProceedSteps DEF Session!sessionVars, SessionPhase
  <2>5. CASE QuietStep
    <3>1. CASE state' = state
      BY <1>2, <3>1 DEF Session!sessionVars, SessionPhase
    <3>2. CASE state \notin Terminal /\ state' = "ABORTED"
      <4>1. state \in Collecting \cup {"PRNG_RUNNING"}
        BY <3>2 DEF IInv, TypeOK, StateKind
      <4>2. SessionPhase \in {"collecting", "committed"} /\ SessionPhase' = "aborted"
        BY <3>2, <4>1 DEF SessionPhase, Collecting
      <4>3. QED
        BY <1>2, <4>2 DEF Session!SessionNext, Session!GiveUp
    <3>3. CASE state = "PRNG_RUNNING" /\ state' = "COMPLETED"
      BY <1>2, <3>3 DEF Session!SessionNext, Session!Release, SessionPhase
    <3>4. QED
      BY <2>5, <3>1, <3>2, <3>3 DEF QuietStep
  <2>6. QED
    BY <2>1, <2>2, <2>3, <2>4, <2>5, StepKinds
<1>3. QED
  BY <1>1, <1>2, IncludedStep

(* The server implements the abstract session: inputs are only added while *)
(* it collects, the committed set has at least the minimum size and is the *)
(* set that is released, and after an abort nothing is released.           *)
THEOREM SessionRefinement == Spec => ImplementsSession
<1>1. Init => Session!SessionInit
  BY DEF Init, Session!SessionInit, SessionPhase, IncludedClients,
         IncludedStatus, UnmaskedStatus, With
<1>2. IInv /\ [Next]_vars => [Session!SessionNext]_(Session!sessionVars)
  BY SessionStep
<1>3. QED
  BY <1>1, <1>2, IInvHolds, PTL DEF Spec, ImplementsSession, Session!SessionSpec
=============================================================================
