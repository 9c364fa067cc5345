------------------------- MODULE SecAggServerProofs -------------------------
(***************************************************************************)
(* Proofs, for every cohort and every threshold, of the safety properties  *)
(* of SecAggServer.  The inductive invariant adds to the properties the    *)
(* statuses clients can have in each round, which is what lets the         *)
(* counters of the code be compared with the statuses they stand for.      *)
(***************************************************************************)
EXTENDS SecAggServer, FiniteSetTheorems, TLAPS

Count(st, S) == Cardinality({c \in Clients : st[c] \in S})

(* Counting is well defined because the cohort is finite. *)
LEMMA CountType ==
  ASSUME NEW st, NEW S
  PROVE  /\ IsFiniteSet({c \in Clients : st[c] \in S})
         /\ Count(st, S) \in Nat
         /\ Cardinality(Clients) \in Nat
<1>1. IsFiniteSet({c \in Clients : st[c] \in S})
  BY CohortAssumption, FS_Subset
<1>2. QED
  BY <1>1, CohortAssumption, FS_CardinalityType DEF Count

(* st2 is st with the status of client c changed to v.                     *)
Changes(st, st2, c, v) ==
  /\ st \in [Clients -> ClientStatus]
  /\ c \in Clients
  /\ st2 = [st EXCEPT ![c] = v]

In(x, S) == IF x \in S THEN 1 ELSE 0

(* Changing the status of one client moves each count by what the client   *)
(* adds with its new status less what it added with its old one.           *)
LEMMA CountChange ==
  ASSUME NEW st, NEW st2, NEW c, NEW v, NEW S, Changes(st, st2, c, v)
  PROVE  /\ Count(st2, S) = Count(st, S) + In(v, S) - In(st[c], S)
         /\ Count(st, S) \in Nat /\ Count(st2, S) \in Nat
<1> DEFINE A == {d \in Clients : st[d] \in S}
           B == {d \in Clients : st2[d] \in S}
<1>1. IsFiniteSet(A) /\ Cardinality(A) \in Nat
  BY CountType, FS_CardinalityType
<1>2. Count(st, S) \in Nat /\ Count(st2, S) \in Nat
  BY CountType
<1>3. CASE v \in S /\ st[c] \notin S
  <2>1. B = A \cup {c} /\ c \notin A
    BY <1>3 DEF Changes
  <2>2. Cardinality(A \cup {c}) = Cardinality(A) + 1
    BY <1>1, <2>1, FS_AddElement
  <2>3. Count(st2, S) = Count(st, S) + 1
    BY <2>1, <2>2 DEF Count
  <2>4. QED
    BY <1>2, <1>3, <2>3 DEF In
<1>4. CASE v \notin S /\ st[c] \in S
  <2>1. B = A \ {c} /\ c \in A
    BY <1>4 DEF Changes
  <2>2. Cardinality(A \ {c}) = Cardinality(A) - 1
    BY <1>1, <2>1, FS_RemoveElement
  <2>3. Count(st2, S) = Count(st, S) - 1
    BY <2>1, <2>2 DEF Count
  <2>4. QED
    BY <1>2, <1>4, <2>3 DEF In
<1>5. CASE v \in S <=> st[c] \in S
  <2>1. B = A
    BY <1>5 DEF Changes
  <2>2. Count(st2, S) = Count(st, S)
    BY <2>1 DEF Count
  <2>3. QED
    BY <1>2, <1>5, <2>2 DEF In
<1>6. QED
  BY <1>2, <1>3, <1>4, <1>5

(* Counts of disjoint sets of statuses add up. *)
LEMMA CountUnion ==
  ASSUME NEW st, NEW S, NEW T, S \cap T = {}
  PROVE  Count(st, S \cup T) = Count(st, S) + Count(st, T)
<1> DEFINE A == {c \in Clients : st[c] \in S}
           B == {c \in Clients : st[c] \in T}
<1>1. /\ IsFiniteSet(A) /\ IsFiniteSet(B)
      /\ Cardinality(A) \in Nat /\ Cardinality(B) \in Nat
  BY CountType, FS_CardinalityType
<1>2. /\ A \cap B = {}
      /\ {c \in Clients : st[c] \in S \cup T} = A \cup B
  OBVIOUS
<1>3. Cardinality(A \cup B) = Cardinality(A) + Cardinality(B)
                              - Cardinality(A \cap B)
  BY <1>1, FS_Union
<1>4. Cardinality(A \cap B) = 0
  BY <1>2, FS_EmptySet
<1>5. /\ Count(st, S) = Cardinality(A) /\ Count(st, T) = Cardinality(B)
      /\ Count(st, S \cup T) = Cardinality(A \cup B)
  BY <1>2 DEF Count
<1> HIDE DEF A, B
<1>6. QED
  BY <1>1, <1>3, <1>4, <1>5

(* A set of statuses that every client has counts the whole cohort. *)
LEMMA CountAll ==
  ASSUME NEW st, NEW S, \A c \in Clients : st[c] \in S
  PROVE  Count(st, S) = Cardinality(Clients)
<1>1. {c \in Clients : st[c] \in S} = Clients
  OBVIOUS
<1>2. QED
  BY <1>1 DEF Count

(* st2 is st with the status a of the clients D changed to v.              *)
Drops(st, st2, D, a, v) ==
  /\ D = {c \in Clients : st[c] = a}
  /\ st2 = [c \in Clients |-> IF c \in D THEN v ELSE st[c]]

DropIn(v, S, D) == IF v \in S THEN Cardinality(D) ELSE 0

(* Dropping, in one transition, every client whose status is a. *)
LEMMA CountDrop ==
  ASSUME NEW st, NEW st2, NEW D, NEW a, NEW v, NEW S, Drops(st, st2, D, a, v),
         a \notin S
  PROVE  /\ Count(st2, S) = Count(st, S) + DropIn(v, S, D)
         /\ Cardinality(D) \in Nat /\ Count(st, S) \in Nat
         /\ Count(st2, S) \in Nat
<1> DEFINE A == {c \in Clients : st[c] \in S}
           B == {c \in Clients : st2[c] \in S}
<1>1. /\ IsFiniteSet(A) /\ IsFiniteSet(D)
      /\ Cardinality(A) \in Nat /\ Cardinality(D) \in Nat
  BY CountType, CohortAssumption, FS_Subset, FS_CardinalityType DEF Drops
<1>2. Count(st, S) \in Nat /\ Count(st2, S) \in Nat
  BY CountType
<1>3. CASE v \in S
  <2>1. B = A \cup D /\ A \cap D = {}
    BY <1>3 DEF Drops
  <2>2. Cardinality(A \cup D) = Cardinality(A) + Cardinality(D)
                                - Cardinality(A \cap D)
    BY <1>1, FS_Union
  <2>3. Cardinality(A \cap D) = 0
    BY <2>1, FS_EmptySet
  <2>4. Count(st, S) = Cardinality(A) /\ Count(st2, S) = Cardinality(A \cup D)
    BY <2>1 DEF Count
  <2> HIDE DEF A, B
  <2>5. Count(st2, S) = Count(st, S) + Cardinality(D)
    BY <1>1, <2>2, <2>3, <2>4
  <2>6. QED
    BY <1>1, <1>2, <1>3, <2>5 DEF DropIn
<1>4. CASE v \notin S
  <2>1. B = A
    BY <1>4 DEF Drops
  <2>2. Count(st2, S) = Count(st, S)
    BY <2>1 DEF Count
  <2>3. QED
    BY <1>1, <1>2, <1>4, <2>2 DEF DropIn
<1>5. QED
  BY <1>3, <1>4

-----------------------------------------------------------------------------
(* The inductive invariant.                                                *)

Advertised == {"ADVERTISE_KEYS_RECEIVED"}
Shared == {"SHARE_KEYS_RECEIVED"}
Masked == {"MASKED_INPUT_RESPONSE_RECEIVED"}
DeadMasked == {"DEAD_AFTER_MASKED_INPUT_RESPONSE_RECEIVED"}

(* The statuses a client can have in each round.                           *)
RoundStatus(kind) ==
  CASE kind = "R0_ADVERTISE_KEYS" ->
         {"READY_TO_START", "ADVERTISE_KEYS_RECEIVED",
          "DEAD_BEFORE_SENDING_ANYTHING"}
    [] kind = "R1_SHARE_KEYS" ->
         {"ADVERTISE_KEYS_RECEIVED", "SHARE_KEYS_RECEIVED",
          "DEAD_BEFORE_SENDING_ANYTHING", "DEAD_AFTER_ADVERTISE_KEYS_RECEIVED"}
    [] kind = "R2_MASKED_INPUT_COLLECTION" ->
         {"SHARE_KEYS_RECEIVED", "MASKED_INPUT_RESPONSE_RECEIVED"}
           \cup FailedBeforeStatus \cup DeadMasked
    [] kind = "R3_UNMASKING" ->
         {"MASKED_INPUT_RESPONSE_RECEIVED"}
           \cup UnmaskedStatus \cup FailedBeforeStatus \cup DeadMasked
    [] kind \in {"PRNG_RUNNING", "COMPLETED"} ->
         UnmaskedStatus \cup FailedBeforeStatus \cup DeadMasked
    [] OTHER -> ClientStatus

StatusesOfRound == \A c \in Clients : status[c] \in RoundStatus(state)

(* The counters in terms of Count.                                         *)
CountInv ==
  /\ failedBefore = Count(status, FailedBeforeStatus)
  /\ failedAfter + terminated = Count(status, DeadMasked)
  /\ state = "R0_ADVERTISE_KEYS" =>
       ready = Count(status, Advertised)
  /\ state = "R1_SHARE_KEYS" =>
       ready = Count(status, Shared)
  /\ state = "R2_MASKED_INPUT_COLLECTION" =>
       /\ ready = Count(status, Masked)
       /\ received = Count(status, IncludedStatus)
  /\ state = "R3_UNMASKING" =>
       ready = Count(status, UnmaskedStatus) /\ received = ready
  /\ state \in {"PRNG_RUNNING", "COMPLETED"} =>
       Count(status, UnmaskedStatus) >= MinClients

HopeInv ==
  state \in Collecting => (needsToAbort <=> NumberOfAliveClients < MinClients)

IInv == TypeOK /\ StatusesOfRound /\ CountInv /\ HopeInv

(* The initial state satisfies the invariant: no client has answered or    *)
(* failed, and the whole cohort is at least the minimum.                   *)
LEMMA InitIInv == Init => IInv
<1> SUFFICES ASSUME Init PROVE IInv
  OBVIOUS
<1>1. TypeOK
  <2>1. sent \in [Clients -> Seq(ServerMessageType)]
    BY DEF Init
  <2>2. dropReason \in [Clients -> DropReason]
    BY DEF Init, DropReason
  <2>3. status \in [Clients -> ClientStatus]
    BY DEF Init, ClientStatus
  <2>4. QED
    BY <2>1, <2>2, <2>3
    DEF Init, TypeOK, StateKind, Collecting
<1>2. StatusesOfRound
  BY DEF Init, StatusesOfRound, RoundStatus
<1>3. ASSUME NEW S, "READY_TO_START" \notin S PROVE Count(status, S) = 0
  <2>1. {c \in Clients : status[c] \in S} = {}
    BY <1>3 DEF Init
  <2>2. QED
    BY <2>1, FS_EmptySet DEF Count
<1>4. /\ Count(status, FailedBeforeStatus) = 0
      /\ Count(status, DeadMasked) = 0
      /\ Count(status, Advertised) = 0
  BY <1>3 DEF FailedBeforeStatus, DeadMasked, Advertised
<1>5. CountInv
  BY <1>4 DEF Init, CountInv
<1>6. Cardinality(Clients) \in Nat /\ MinClients \in Nat
      /\ MinClients <= Cardinality(Clients)
  BY CohortAssumption, FS_CardinalityType
<1>7. HopeInv
  BY <1>6 DEF Init, HopeInv, NumberOfAliveClients
<1>8. QED
  BY <1>1, <1>2, <1>5, <1>7 DEF IInv

-----------------------------------------------------------------------------
(* Dropping a client preserves the invariant.                              *)

(* The invariant depends on the state kind, the statuses and the counters  *)
(* only.                                                                   *)
LEMMA StutterIInv ==
  ASSUME IInv, TypeOK',
         UNCHANGED <<state, status, needsToAbort, counters>>
  PROVE  IInv'
BY DEF IInv, StatusesOfRound, CountInv, HopeInv, NumberOfAliveClients, counters

(* One client fewer is alive and needs_to_abort_ is set accordingly. *)
LEMMA HopeStep ==
  ASSUME HopeInv, state \in Collecting, UNCHANGED state,
         NumberOfAliveClients \in Int, MinClients \in Nat,
         NumberOfAliveClients' = NumberOfAliveClients - 1,
         needsToAbort' <=> (needsToAbort \/ NumberOfAliveClients' < MinClients)
  PROVE  HopeInv'
<1>1. needsToAbort <=> NumberOfAliveClients < MinClients
  BY DEF HopeInv
<1>2. NumberOfAliveClients < MinClients => NumberOfAliveClients' < MinClients
  OBVIOUS
<1>3. QED
  BY <1>1, <1>2, Zenon DEF HopeInv

(* A client that sent its shares and is dropped afterwards moves no count. *)
LEMMA SameCounts ==
  ASSUME NEW st, NEW st2, NEW c, st[c] = "UNMASKING_RESPONSE_RECEIVED",
         Changes(st, st2, c, "DEAD_AFTER_UNMASKING_RESPONSE_RECEIVED")
  PROVE  /\ Count(st2, FailedBeforeStatus) = Count(st, FailedBeforeStatus)
         /\ Count(st2, DeadMasked) = Count(st, DeadMasked)
         /\ Count(st2, UnmaskedStatus) = Count(st, UnmaskedStatus)
<1>1. /\ In("DEAD_AFTER_UNMASKING_RESPONSE_RECEIVED", FailedBeforeStatus) = 0
      /\ In("DEAD_AFTER_UNMASKING_RESPONSE_RECEIVED", DeadMasked) = 0
      /\ In("DEAD_AFTER_UNMASKING_RESPONSE_RECEIVED", UnmaskedStatus) = 1
      /\ In(st[c], FailedBeforeStatus) = 0
      /\ In(st[c], DeadMasked) = 0
      /\ In(st[c], UnmaskedStatus) = 1
  BY DEF FailedBeforeStatus, DeadMasked, UnmaskedStatus, In
<1>2. QED
  BY <1>1, CountChange

(* One client is dropped in a state that is not terminal: every counter    *)
(* that HandleAbortClient changes follows the status it changes.           *)
LEMMA HandleAbortClientIInv ==
  ASSUME IInv, NEW c \in Clients, NEW reason \in DropReason,
         ~IsClientDead(c), HandleAbortClient(c, reason),
         UNCHANGED <<state, received>>
  PROVE  /\ StatusesOfRound' /\ CountInv' /\ HopeInv'
         /\ status' \in [Clients -> ClientStatus]
         /\ needsToAbort' \in BOOLEAN
         /\ ready' \in Nat /\ received' \in Nat
         /\ failedBefore' \in Nat /\ failedAfter' \in Nat /\ terminated' \in Nat
         /\ abortedAt2' \in SUBSET Clients
<1>0. /\ TypeOK /\ StatusesOfRound /\ CountInv /\ HopeInv
      /\ Cardinality(Clients) \in Nat /\ MinClients \in Nat
  BY CohortAssumption, FS_CardinalityType DEF IInv
<1>1. CASE state = "R0_ADVERTISE_KEYS"
  <2>1. R0HandleAbortClient(c)
    BY <1>1 DEF HandleAbortClient
  <2>2. status[c] \in {"READY_TO_START", "ADVERTISE_KEYS_RECEIVED"}
    BY <1>0, <1>1
    DEF StatusesOfRound, RoundStatus, IsClientDead, DeadStatus,
        FailedBeforeStatus, UnmaskedStatus, DeadMasked
  <2>3. Changes(status, status', c, "DEAD_BEFORE_SENDING_ANYTHING")
    BY <2>1, <1>0 DEF R0HandleAbortClient, TypeOK, Changes
  <2>4. /\ In("DEAD_BEFORE_SENDING_ANYTHING", FailedBeforeStatus) = 1 /\ In(status[c], FailedBeforeStatus) = 0
        /\ In("DEAD_BEFORE_SENDING_ANYTHING", DeadMasked) = 0 /\ In(status[c], DeadMasked) = 0
        /\ In("DEAD_BEFORE_SENDING_ANYTHING", Advertised) = 0 /\ In(status[c], Advertised) = IF status[c] = "ADVERTISE_KEYS_RECEIVED" THEN 1 ELSE 0
    BY <2>2
    DEF In, FailedBeforeStatus, DeadMasked, Advertised
  <2>5. /\ failedBefore' = Count(status', FailedBeforeStatus)
        /\ failedAfter' + terminated' = Count(status', DeadMasked)
        /\ ready' = Count(status', Advertised)
    <3>1. /\ failedBefore = Count(status, FailedBeforeStatus)
          /\ failedAfter + terminated = Count(status, DeadMasked)
          /\ ready = Count(status, Advertised)
      BY <1>0, <1>1 DEF CountInv
    <3>2. QED
      BY <1>0, <2>1, <2>3, <2>4, <3>1, CountChange DEF R0HandleAbortClient, TypeOK
  <2>6. StatusesOfRound'
    BY <1>0, <1>1, <2>3
    DEF StatusesOfRound, RoundStatus, Changes, ClientStatus, FailedBeforeStatus,
        DeadMasked
  <2>7. CountInv'
    BY <1>0, <1>1, <2>1, <2>5, CountType DEF CountInv, R0HandleAbortClient
  <2>8. /\ failedBefore' \in Nat /\ failedAfter' \in Nat /\ terminated' \in Nat
         /\ received' \in Nat /\ abortedAt2' \in SUBSET Clients
    BY <1>0, <2>1 DEF R0HandleAbortClient, TypeOK
  <2>9. HopeInv'
    <3>1. /\ NumberOfAliveClients \in Int
          /\ NumberOfAliveClients' = NumberOfAliveClients - 1
      <4>1. /\ failedBefore' = failedBefore + 1 /\ failedAfter' = failedAfter /\ terminated' = terminated
        BY <2>1 DEF R0HandleAbortClient
      <4>2. QED
        BY <1>0, <4>1 DEF TypeOK, NumberOfAliveClients
    <3>2. needsToAbort' <=> (needsToAbort \/ NumberOfAliveClients' < MinClients)
      BY <2>1, Zenon DEF R0HandleAbortClient, TooFewAlive
    <3>3. QED
      BY <1>0, <1>1, <3>1, <3>2, HopeStep DEF Collecting
  <2>10. needsToAbort' \in BOOLEAN
    BY <1>0, <2>1, Zenon DEF R0HandleAbortClient, TypeOK
  <2>11. ready' \in Nat
    BY <2>5, CountType
  <2>12. QED
    BY <2>3, <2>6, <2>7, <2>9, <2>10, <2>8, <2>11 DEF Changes, ClientStatus
<1>2. CASE state = "R1_SHARE_KEYS"
  <2>1. R1HandleAbortClient(c)
    BY <1>2 DEF HandleAbortClient
  <2>2. status[c] \in {"ADVERTISE_KEYS_RECEIVED", "SHARE_KEYS_RECEIVED"}
    BY <1>0, <1>2
    DEF StatusesOfRound, RoundStatus, IsClientDead, DeadStatus,
        FailedBeforeStatus, UnmaskedStatus, DeadMasked
  <2>3. Changes(status, status', c, "DEAD_AFTER_ADVERTISE_KEYS_RECEIVED")
    BY <2>1, <1>0 DEF R1HandleAbortClient, TypeOK, Changes
  <2>4. /\ In("DEAD_AFTER_ADVERTISE_KEYS_RECEIVED", FailedBeforeStatus) = 1 /\ In(status[c], FailedBeforeStatus) = 0
        /\ In("DEAD_AFTER_ADVERTISE_KEYS_RECEIVED", DeadMasked) = 0 /\ In(status[c], DeadMasked) = 0
        /\ In("DEAD_AFTER_ADVERTISE_KEYS_RECEIVED", Shared) = 0 /\ In(status[c], Shared) = IF status[c] = "SHARE_KEYS_RECEIVED" THEN 1 ELSE 0
    BY <2>2
    DEF In, FailedBeforeStatus, DeadMasked, Shared
  <2>5. /\ failedBefore' = Count(status', FailedBeforeStatus)
        /\ failedAfter' + terminated' = Count(status', DeadMasked)
        /\ ready' = Count(status', Shared)
    <3>1. /\ failedBefore = Count(status, FailedBeforeStatus)
          /\ failedAfter + terminated = Count(status, DeadMasked)
          /\ ready = Count(status, Shared)
      BY <1>0, <1>2 DEF CountInv
    <3>2. QED
      BY <1>0, <2>1, <2>3, <2>4, <3>1, CountChange DEF R1HandleAbortClient, TypeOK
  <2>6. StatusesOfRound'
    BY <1>0, <1>2, <2>3
    DEF StatusesOfRound, RoundStatus, Changes, ClientStatus, FailedBeforeStatus,
        DeadMasked
  <2>7. CountInv'
    BY <1>0, <1>2, <2>1, <2>5, CountType DEF CountInv, R1HandleAbortClient
  <2>8. /\ failedBefore' \in Nat /\ failedAfter' \in Nat /\ terminated' \in Nat
         /\ received' \in Nat /\ abortedAt2' \in SUBSET Clients
    BY <1>0, <2>1 DEF R1HandleAbortClient, TypeOK
  <2>9. HopeInv'
    <3>1. /\ NumberOfAliveClients \in Int
          /\ NumberOfAliveClients' = NumberOfAliveClients - 1
      <4>1. /\ failedBefore' = failedBefore + 1 /\ failedAfter' = failedAfter /\ terminated' = terminated
        BY <2>1 DEF R1HandleAbortClient
      <4>2. QED
        BY <1>0, <4>1 DEF TypeOK, NumberOfAliveClients
    <3>2. needsToAbort' <=> (needsToAbort \/ NumberOfAliveClients' < MinClients)
      BY <2>1, Zenon DEF R1HandleAbortClient, TooFewAlive
    <3>3. QED
      BY <1>0, <1>2, <3>1, <3>2, HopeStep DEF Collecting
  <2>10. needsToAbort' \in BOOLEAN
    BY <1>0, <2>1, Zenon DEF R1HandleAbortClient, TypeOK
  <2>11. ready' \in Nat
    BY <2>5, CountType
  <2>12. QED
    BY <2>3, <2>6, <2>7, <2>9, <2>10, <2>8, <2>11 DEF Changes, ClientStatus
<1>3. CASE state = "R2_MASKED_INPUT_COLLECTION"
  <2>1. R2HandleAbortClient(c)
    BY <1>3 DEF HandleAbortClient
  <2>2. status[c] \in {"SHARE_KEYS_RECEIVED", "MASKED_INPUT_RESPONSE_RECEIVED"}
    BY <1>0, <1>3
    DEF StatusesOfRound, RoundStatus, IsClientDead, DeadStatus,
        FailedBeforeStatus, UnmaskedStatus, DeadMasked
  <2>3. CASE status[c] = "MASKED_INPUT_RESPONSE_RECEIVED"
    <3>3. Changes(status, status', c, "DEAD_AFTER_MASKED_INPUT_RESPONSE_RECEIVED")
      BY <2>1, <2>3, <1>0 DEF R2HandleAbortClient, TypeOK, Changes
    <3>4. /\ In("DEAD_AFTER_MASKED_INPUT_RESPONSE_RECEIVED", FailedBeforeStatus) = 0 /\ In(status[c], FailedBeforeStatus) = 0
          /\ In("DEAD_AFTER_MASKED_INPUT_RESPONSE_RECEIVED", DeadMasked) = 1 /\ In(status[c], DeadMasked) = 0
          /\ In("DEAD_AFTER_MASKED_INPUT_RESPONSE_RECEIVED", Masked) = 0 /\ In(status[c], Masked) = 1
          /\ In("DEAD_AFTER_MASKED_INPUT_RESPONSE_RECEIVED", IncludedStatus) = 1 /\ In(status[c], IncludedStatus) = 1
      BY <2>2, <2>3
      DEF In, FailedBeforeStatus, DeadMasked, Masked, IncludedStatus, UnmaskedStatus
    <3>5. /\ failedBefore' = Count(status', FailedBeforeStatus)
          /\ failedAfter' + terminated' = Count(status', DeadMasked)
          /\ ready' = Count(status', Masked)
          /\ received' = Count(status', IncludedStatus)
      <4>1. /\ failedBefore = Count(status, FailedBeforeStatus)
            /\ failedAfter + terminated = Count(status, DeadMasked)
            /\ ready = Count(status, Masked)
            /\ received = Count(status, IncludedStatus)
        BY <1>0, <1>3 DEF CountInv
      <4>2. QED
        BY <1>0, <2>1, <2>3, <3>3, <3>4, <4>1, CountChange DEF R2HandleAbortClient, TypeOK
    <3>6. StatusesOfRound'
      BY <1>0, <1>3, <3>3
      DEF StatusesOfRound, RoundStatus, Changes, ClientStatus, FailedBeforeStatus,
          DeadMasked
    <3>7. CountInv'
      BY <1>0, <1>3, <2>1, <2>3, <3>5, CountType DEF CountInv, R2HandleAbortClient
    <3>8. /\ failedBefore' \in Nat /\ failedAfter' \in Nat /\ terminated' \in Nat
           /\ received' \in Nat /\ abortedAt2' \in SUBSET Clients
      BY <1>0, <2>1, <2>3 DEF R2HandleAbortClient, TypeOK
    <3>9. HopeInv'
      <4>1. /\ NumberOfAliveClients \in Int
            /\ NumberOfAliveClients' = NumberOfAliveClients - 1
        <5>1. /\ failedBefore' = failedBefore /\ failedAfter' = failedAfter + 1 /\ terminated' = terminated
          BY <2>1, <2>3 DEF R2HandleAbortClient
        <5>2. QED
          BY <1>0, <5>1 DEF TypeOK, NumberOfAliveClients
      <4>2. needsToAbort' <=> (needsToAbort \/ NumberOfAliveClients' < MinClients)
        BY <2>1, <2>3, Zenon DEF R2HandleAbortClient, TooFewAlive
      <4>3. QED
        BY <1>0, <1>3, <4>1, <4>2, HopeStep DEF Collecting
    <3>10. needsToAbort' \in BOOLEAN
      BY <1>0, <2>1, <2>3, Zenon DEF R2HandleAbortClient, TypeOK
    <3>11. ready' \in Nat
      BY <3>5, CountType
    <3>12. QED
      BY <3>3, <3>6, <3>7, <3>9, <3>10, <3>8, <3>11 DEF Changes, ClientStatus
  <2>4. CASE status[c] = "SHARE_KEYS_RECEIVED"
    <3>3. Changes(status, status', c, "DEAD_AFTER_SHARE_KEYS_RECEIVED")
      BY <2>1, <2>4, <1>0 DEF R2HandleAbortClient, TypeOK, Changes
    <3>4. /\ In("DEAD_AFTER_SHARE_KEYS_RECEIVED", FailedBeforeStatus) = 1 /\ In(status[c], FailedBeforeStatus) = 0
          /\ In("DEAD_AFTER_SHARE_KEYS_RECEIVED", DeadMasked) = 0 /\ In(status[c], DeadMasked) = 0
          /\ In("DEAD_AFTER_SHARE_KEYS_RECEIVED", Masked) = 0 /\ In(status[c], Masked) = 0
          /\ In("DEAD_AFTER_SHARE_KEYS_RECEIVED", IncludedStatus) = 0 /\ In(status[c], IncludedStatus) = 0
      BY <2>2, <2>4
      DEF In, FailedBeforeStatus, DeadMasked, Masked, IncludedStatus, UnmaskedStatus
    <3>5. /\ failedBefore' = Count(status', FailedBeforeStatus)
          /\ failedAfter' + terminated' = Count(status', DeadMasked)
          /\ ready' = Count(status', Masked)
          /\ received' = Count(status', IncludedStatus)
      <4>1. /\ failedBefore = Count(status, FailedBeforeStatus)
            /\ failedAfter + terminated = Count(status, DeadMasked)
            /\ ready = Count(status, Masked)
            /\ received = Count(status, IncludedStatus)
        BY <1>0, <1>3 DEF CountInv
      <4>2. QED
        BY <1>0, <2>1, <2>4, <3>3, <3>4, <4>1, CountChange DEF R2HandleAbortClient, TypeOK
    <3>6. StatusesOfRound'
      BY <1>0, <1>3, <3>3
      DEF StatusesOfRound, RoundStatus, Changes, ClientStatus, FailedBeforeStatus,
          DeadMasked
    <3>7. CountInv'
      BY <1>0, <1>3, <2>1, <2>4, <3>5, CountType DEF CountInv, R2HandleAbortClient
    <3>8. /\ failedBefore' \in Nat /\ failedAfter' \in Nat /\ terminated' \in Nat
           /\ received' \in Nat /\ abortedAt2' \in SUBSET Clients
      BY <1>0, <2>1, <2>4 DEF R2HandleAbortClient, TypeOK
    <3>9. HopeInv'
      <4>1. /\ NumberOfAliveClients \in Int
            /\ NumberOfAliveClients' = NumberOfAliveClients - 1
        <5>1. /\ failedBefore' = failedBefore + 1 /\ failedAfter' = failedAfter /\ terminated' = terminated
          BY <2>1, <2>4 DEF R2HandleAbortClient
        <5>2. QED
          BY <1>0, <5>1 DEF TypeOK, NumberOfAliveClients
      <4>2. needsToAbort' <=> (needsToAbort \/ NumberOfAliveClients' < MinClients)
        BY <2>1, <2>4, Zenon DEF R2HandleAbortClient, TooFewAlive
      <4>3. QED
        BY <1>0, <1>3, <4>1, <4>2, HopeStep DEF Collecting
    <3>10. needsToAbort' \in BOOLEAN
      BY <1>0, <2>1, <2>4, Zenon DEF R2HandleAbortClient, TypeOK
    <3>11. ready' \in Nat
      BY <3>5, CountType
    <3>12. QED
      BY <3>3, <3>6, <3>7, <3>9, <3>10, <3>8, <3>11 DEF Changes, ClientStatus
  <2>5. QED
    BY <2>2, <2>3, <2>4
<1>4. CASE state = "R3_UNMASKING"
  <2>1. R3HandleAbortClient(c, reason)
    BY <1>4 DEF HandleAbortClient
  <2>2. status[c] \in {"MASKED_INPUT_RESPONSE_RECEIVED", "UNMASKING_RESPONSE_RECEIVED"}
    BY <1>0, <1>4
    DEF StatusesOfRound, RoundStatus, IsClientDead, DeadStatus,
        FailedBeforeStatus, UnmaskedStatus, DeadMasked
  <2>3. CASE status[c] = "UNMASKING_RESPONSE_RECEIVED"
    <3>1. /\ Changes(status, status', c, "DEAD_AFTER_UNMASKING_RESPONSE_RECEIVED")
          /\ UNCHANGED <<ready, failedBefore, failedAfter, terminated, abortedAt2,
                        needsToAbort>>
      BY <1>0, <2>1, <2>3 DEF R3HandleAbortClient, TypeOK, Changes
    <3>2. /\ Count(status', FailedBeforeStatus) = Count(status, FailedBeforeStatus)
          /\ Count(status', DeadMasked) = Count(status, DeadMasked)
          /\ Count(status', UnmaskedStatus) = Count(status, UnmaskedStatus)
      BY <2>3, <3>1, SameCounts
    <3>3. StatusesOfRound'
      BY <1>0, <1>4, <3>1
      DEF StatusesOfRound, RoundStatus, Changes, ClientStatus, UnmaskedStatus
    <3>4. CountInv' /\ HopeInv'
      BY <1>0, <1>4, <3>1, <3>2 DEF CountInv, HopeInv, NumberOfAliveClients
    <3>5. QED
      BY <1>0, <3>1, <3>3, <3>4 DEF TypeOK, Changes, ClientStatus
  <2>4. CASE status[c] = "MASKED_INPUT_RESPONSE_RECEIVED" /\ reason = "EARLY_SUCCESS"
    <3>3. Changes(status, status', c, "DEAD_AFTER_MASKED_INPUT_RESPONSE_RECEIVED")
      BY <2>1, <2>4, <1>0 DEF R3HandleAbortClient, TypeOK, Changes
    <3>4. /\ In("DEAD_AFTER_MASKED_INPUT_RESPONSE_RECEIVED", FailedBeforeStatus) = 0 /\ In(status[c], FailedBeforeStatus) = 0
          /\ In("DEAD_AFTER_MASKED_INPUT_RESPONSE_RECEIVED", DeadMasked) = 1 /\ In(status[c], DeadMasked) = 0
          /\ In("DEAD_AFTER_MASKED_INPUT_RESPONSE_RECEIVED", UnmaskedStatus) = 0 /\ In(status[c], UnmaskedStatus) = 0
      BY <2>2, <2>4
      DEF In, FailedBeforeStatus, DeadMasked, UnmaskedStatus
    <3>5. /\ failedBefore' = Count(status', FailedBeforeStatus)
          /\ failedAfter' + terminated' = Count(status', DeadMasked)
          /\ ready' = Count(status', UnmaskedStatus)
      <4>1. /\ failedBefore = Count(status, FailedBeforeStatus)
            /\ failedAfter + terminated = Count(status, DeadMasked)
            /\ ready = Count(status, UnmaskedStatus)
        BY <1>0, <1>4 DEF CountInv
      <4>2. QED
        BY <1>0, <2>1, <2>4, <3>3, <3>4, <4>1, CountChange DEF R3HandleAbortClient, TypeOK
    <3>6. StatusesOfRound'
      BY <1>0, <1>4, <3>3
      DEF StatusesOfRound, RoundStatus, Changes, ClientStatus, FailedBeforeStatus,
          DeadMasked
    <3>7. CountInv'
      BY <1>0, <1>4, <2>1, <2>4, <3>5, CountType DEF CountInv, R3HandleAbortClient
    <3>8. /\ failedBefore' \in Nat /\ failedAfter' \in Nat /\ terminated' \in Nat
           /\ received' \in Nat /\ abortedAt2' \in SUBSET Clients
      BY <1>0, <2>1, <2>4 DEF R3HandleAbortClient, TypeOK
    <3>9. HopeInv'
      <4>1. /\ NumberOfAliveClients \in Int
            /\ NumberOfAliveClients' = NumberOfAliveClients - 1
        <5>1. /\ failedBefore' = failedBefore /\ failedAfter' = failedAfter /\ terminated' = terminated + 1
          BY <2>1, <2>4 DEF R3HandleAbortClient
        <5>2. QED
          BY <1>0, <5>1 DEF TypeOK, NumberOfAliveClients
      <4>2. needsToAbort' <=> (needsToAbort \/ NumberOfAliveClients' < MinClients)
        <5>1. needsToAbort' <=> (needsToAbort \/ TooFewCanUnmask')
          BY <2>1, <2>4, Zenon DEF R3HandleAbortClient
        <5>2. TooFewCanUnmask' <=> NumberOfAliveClients' < MinClients
          <6>1. /\ state' \in Collecting
                /\ ready' = ready /\ received' = ready /\ ready \in Nat
            BY <1>0, <1>4, <2>1, <2>4 DEF CountInv, Collecting, R3HandleAbortClient, TypeOK
          <6>2. QED
            BY <1>0, <4>1, <6>1
            DEF TooFewCanUnmask, NumberOfPendingClients
        <5>3. QED
          BY <5>1, <5>2, Zenon
      <4>3. QED
        BY <1>0, <1>4, <4>1, <4>2, HopeStep DEF Collecting
    <3>10. needsToAbort' \in BOOLEAN
      BY <1>0, <2>1, <2>4, Zenon DEF R3HandleAbortClient, TypeOK
    <3>11. ready' \in Nat
      BY <3>5, CountType
    <3>12. QED
      BY <3>3, <3>6, <3>7, <3>9, <3>10, <3>8, <3>11 DEF Changes, ClientStatus
  <2>5. CASE status[c] = "MASKED_INPUT_RESPONSE_RECEIVED" /\ reason # "EARLY_SUCCESS"
    <3>3. Changes(status, status', c, "DEAD_AFTER_MASKED_INPUT_RESPONSE_RECEIVED")
      BY <2>1, <2>5, <1>0 DEF R3HandleAbortClient, TypeOK, Changes
    <3>4. /\ In("DEAD_AFTER_MASKED_INPUT_RESPONSE_RECEIVED", FailedBeforeStatus) = 0 /\ In(status[c], FailedBeforeStatus) = 0
          /\ In("DEAD_AFTER_MASKED_INPUT_RESPONSE_RECEIVED", DeadMasked) = 1 /\ In(status[c], DeadMasked) = 0
          /\ In("DEAD_AFTER_MASKED_INPUT_RESPONSE_RECEIVED", UnmaskedStatus) = 0 /\ In(status[c], UnmaskedStatus) = 0
      BY <2>2, <2>5
      DEF In, FailedBeforeStatus, DeadMasked, UnmaskedStatus
    <3>5. /\ failedBefore' = Count(status', FailedBeforeStatus)
          /\ failedAfter' + terminated' = Count(status', DeadMasked)
          /\ ready' = Count(status', UnmaskedStatus)
      <4>1. /\ failedBefore = Count(status, FailedBeforeStatus)
            /\ failedAfter + terminated = Count(status, DeadMasked)
            /\ ready = Count(status, UnmaskedStatus)
        BY <1>0, <1>4 DEF CountInv
      <4>2. QED
        BY <1>0, <2>1, <2>5, <3>3, <3>4, <4>1, CountChange DEF R3HandleAbortClient, TypeOK
    <3>6. StatusesOfRound'
      BY <1>0, <1>4, <3>3
      DEF StatusesOfRound, RoundStatus, Changes, ClientStatus, FailedBeforeStatus,
          DeadMasked
    <3>7. CountInv'
      BY <1>0, <1>4, <2>1, <2>5, <3>5, CountType DEF CountInv, R3HandleAbortClient
    <3>8. /\ failedBefore' \in Nat /\ failedAfter' \in Nat /\ terminated' \in Nat
           /\ received' \in Nat /\ abortedAt2' \in SUBSET Clients
      BY <1>0, <2>1, <2>5 DEF R3HandleAbortClient, TypeOK
    <3>9. HopeInv'
      <4>1. /\ NumberOfAliveClients \in Int
            /\ NumberOfAliveClients' = NumberOfAliveClients - 1
        <5>1. /\ failedBefore' = failedBefore /\ failedAfter' = failedAfter + 1 /\ terminated' = terminated
          BY <2>1, <2>5 DEF R3HandleAbortClient
        <5>2. QED
          BY <1>0, <5>1 DEF TypeOK, NumberOfAliveClients
      <4>2. needsToAbort' <=> (needsToAbort \/ NumberOfAliveClients' < MinClients)
        <5>1. needsToAbort' <=> (needsToAbort \/ TooFewCanUnmask')
          BY <2>1, <2>5, Zenon DEF R3HandleAbortClient
        <5>2. TooFewCanUnmask' <=> NumberOfAliveClients' < MinClients
          <6>1. /\ state' \in Collecting
                /\ ready' = ready /\ received' = ready /\ ready \in Nat
            BY <1>0, <1>4, <2>1, <2>5 DEF CountInv, Collecting, R3HandleAbortClient, TypeOK
          <6>2. QED
            BY <1>0, <4>1, <6>1
            DEF TooFewCanUnmask, NumberOfPendingClients
        <5>3. QED
          BY <5>1, <5>2, Zenon
      <4>3. QED
        BY <1>0, <1>4, <4>1, <4>2, HopeStep DEF Collecting
    <3>10. needsToAbort' \in BOOLEAN
      BY <1>0, <2>1, <2>5, Zenon DEF R3HandleAbortClient, TypeOK
    <3>11. ready' \in Nat
      BY <3>5, CountType
    <3>12. QED
      BY <3>3, <3>6, <3>7, <3>9, <3>10, <3>8, <3>11 DEF Changes, ClientStatus
  <2>6. QED
    BY <2>2, <2>3, <2>4, <2>5
<1>5. CASE state = "PRNG_RUNNING"
  <2>1. PrngHandleAbortClient(c)
    BY <1>5 DEF HandleAbortClient
  <2>2. status[c] \in {"UNMASKING_RESPONSE_RECEIVED"}
    BY <1>0, <1>5
    DEF StatusesOfRound, RoundStatus, IsClientDead, DeadStatus,
        FailedBeforeStatus, UnmaskedStatus, DeadMasked
  <2>3. /\ Changes(status, status', c, "DEAD_AFTER_UNMASKING_RESPONSE_RECEIVED")
        /\ UNCHANGED <<ready, failedBefore, failedAfter, terminated, abortedAt2,
                      needsToAbort>>
    BY <1>0, <2>1 DEF PrngHandleAbortClient, TypeOK, Changes
  <2>4. /\ Count(status', FailedBeforeStatus) = Count(status, FailedBeforeStatus)
        /\ Count(status', DeadMasked) = Count(status, DeadMasked)
        /\ Count(status', UnmaskedStatus) = Count(status, UnmaskedStatus)
    BY <2>2, <2>3, SameCounts
  <2>5. StatusesOfRound'
    BY <1>0, <1>5, <2>3
    DEF StatusesOfRound, RoundStatus, Changes, ClientStatus, UnmaskedStatus
  <2>6. CountInv' /\ HopeInv'
    BY <1>0, <1>5, <2>3, <2>4 DEF CountInv, HopeInv, Collecting
  <2>7. QED
    BY <1>0, <2>3, <2>5, <2>6 DEF TypeOK, Changes, ClientStatus
<1>6. QED
  BY <1>1, <1>2, <1>3, <1>4, <1>5 DEF HandleAbortClient

(* AbortClient, whatever the reason and whether or not the client is told. *)
LEMMA AbortClientIInv ==
  ASSUME IInv, NEW c \in Clients, NEW reason \in DropReason,
         NEW notify \in BOOLEAN, AbortClient(c, reason, notify)
  PROVE  IInv'
<1>1. CASE IsClientDead(c)
  <2>1. UNCHANGED vars
    BY <1>1 DEF AbortClient, vars, counters, prngVars
  <2>2. QED
    BY <2>1, StutterIInv DEF IInv, TypeOK, vars, counters, prngVars
<1>2. CASE ~IsClientDead(c)
  <2>1. /\ HandleAbortClient(c, reason)
        /\ UNCHANGED <<state, received, idle, completion, prngCallback>>
        /\ dropReason' = [dropReason EXCEPT ![c] = reason]
        /\ \/ sent' = [sent EXCEPT ![c] = Append(@, AbortMessage(reason))]
           \/ UNCHANGED sent
    BY <1>2 DEF AbortClient, Send, prngVars
  <2>2. /\ StatusesOfRound' /\ CountInv' /\ HopeInv'
        /\ status' \in [Clients -> ClientStatus]
        /\ needsToAbort' \in BOOLEAN
        /\ ready' \in Nat /\ received' \in Nat
        /\ failedBefore' \in Nat /\ failedAfter' \in Nat /\ terminated' \in Nat
        /\ abortedAt2' \in SUBSET Clients
    BY <1>2, <2>1, HandleAbortClientIInv
  <2>3. dropReason' \in [Clients -> DropReason]
    BY <2>1 DEF IInv, TypeOK
  <2>4. sent' \in [Clients -> Seq(ServerMessageType)]
    <3>1. AbortMessage(reason) \in ServerMessageType
      BY DEF AbortMessage, ServerMessageType
    <3>2. sent \in [Clients -> Seq(ServerMessageType)]
      BY DEF IInv, TypeOK
    <3>3. Append(sent[c], AbortMessage(reason)) \in Seq(ServerMessageType)
      BY <3>1, <3>2
    <3>4. QED
      BY <2>1, <3>2, <3>3
  <2>5. TypeOK'
    BY <2>1, <2>2, <2>3, <2>4 DEF IInv, TypeOK
  <2>6. QED
    BY <2>2, <2>5 DEF IInv
<1>3. QED
  BY <1>1, <1>2

(* A message the round waits for is accepted. *)
LEMMA AcceptMessageIInv ==
  ASSUME IInv, NEW c \in Clients, NEW v,
         \/ /\ state = "R0_ADVERTISE_KEYS"
            /\ status[c] = "READY_TO_START" /\ v = "ADVERTISE_KEYS_RECEIVED"
         \/ /\ state = "R1_SHARE_KEYS"
            /\ status[c] = "ADVERTISE_KEYS_RECEIVED" /\ v = "SHARE_KEYS_RECEIVED"
         \/ /\ state = "R2_MASKED_INPUT_COLLECTION"
            /\ status[c] = "SHARE_KEYS_RECEIVED"
            /\ v = "MASKED_INPUT_RESPONSE_RECEIVED"
         \/ /\ state = "R3_UNMASKING"
            /\ status[c] = "MASKED_INPUT_RESPONSE_RECEIVED"
            /\ v = "UNMASKING_RESPONSE_RECEIVED",
         AcceptMessage(c, v), idle' \in BOOLEAN
  PROVE  IInv'
<1>1. TypeOK /\ StatusesOfRound /\ CountInv /\ HopeInv
  BY DEF IInv
<1>2. Changes(status, status', c, v)
  BY <1>1 DEF AcceptMessage, TypeOK, Changes
<1>3. /\ In(v, FailedBeforeStatus) = 0 /\ In(status[c], FailedBeforeStatus) = 0
      /\ In(v, DeadMasked) = 0 /\ In(status[c], DeadMasked) = 0
  BY DEF In, FailedBeforeStatus, DeadMasked
<1>4. /\ Count(status', FailedBeforeStatus) = Count(status, FailedBeforeStatus)
      /\ Count(status', DeadMasked) = Count(status, DeadMasked)
  BY <1>2, <1>3, CountChange
<1>5. TypeOK'
  BY <1>1, <1>2 DEF AcceptMessage, TypeOK, Changes, ClientStatus, prngVars
<1>6. HopeInv'
  BY <1>1 DEF HopeInv, AcceptMessage, NumberOfAliveClients
<1>7. StatusesOfRound'
  BY <1>1, <1>2
  DEF AcceptMessage, StatusesOfRound, RoundStatus, Changes, ClientStatus,
      UnmaskedStatus
<1>8. CountInv'
  <2>1. CASE state = "R0_ADVERTISE_KEYS"
    <3>1. In(v, Advertised) = 1 /\ In(status[c], Advertised) = 0
      BY <2>1 DEF In, Advertised
    <3>2. Count(status', Advertised) = Count(status, Advertised) + 1
      BY <1>2, <3>1, CountChange
    <3>3. QED
      BY <1>1, <1>4, <2>1, <3>2 DEF CountInv, AcceptMessage
  <2>2. CASE state = "R1_SHARE_KEYS"
    <3>1. In(v, Shared) = 1 /\ In(status[c], Shared) = 0
      BY <2>2 DEF In, Shared
    <3>2. Count(status', Shared) = Count(status, Shared) + 1
      BY <1>2, <3>1, CountChange
    <3>3. QED
      BY <1>1, <1>4, <2>2, <3>2 DEF CountInv, AcceptMessage
  <2>3. CASE state = "R2_MASKED_INPUT_COLLECTION"
    <3>1. /\ In(v, Masked) = 1 /\ In(status[c], Masked) = 0
          /\ In(v, IncludedStatus) = 1 /\ In(status[c], IncludedStatus) = 0
      BY <2>3 DEF In, Masked, IncludedStatus, UnmaskedStatus
    <3>2. /\ Count(status', Masked) = Count(status, Masked) + 1
          /\ Count(status', IncludedStatus) = Count(status, IncludedStatus) + 1
      BY <1>2, <3>1, CountChange
    <3>3. QED
      BY <1>1, <1>4, <2>3, <3>2 DEF CountInv, AcceptMessage
  <2>4. CASE state = "R3_UNMASKING"
    <3>1. In(v, UnmaskedStatus) = 1 /\ In(status[c], UnmaskedStatus) = 0
      BY <2>4 DEF In, UnmaskedStatus
    <3>2. Count(status', UnmaskedStatus) = Count(status, UnmaskedStatus) + 1
      BY <1>2, <3>1, CountChange
    <3>3. QED
      BY <1>1, <1>4, <2>4, <3>2 DEF CountInv, AcceptMessage
  <2>5. QED
    BY <2>1, <2>2, <2>3, <2>4
<1>9. QED
  BY <1>5, <1>6, <1>7, <1>8 DEF IInv

(* ReceiveMessage: the message is accepted, or its sender is dropped. *)
LEMMA ReceiveMessageIInv ==
  ASSUME IInv, NEW c \in Clients, NEW type \in ClientMessageType,
         NEW valid \in BOOLEAN, ReceiveMessage(c, type, valid)
  PROVE  IInv'
<1>0. {"SENT_ABORT_MESSAGE", "UNEXPECTED", "INVALID"} \subseteq DropReason
  BY DEF DropReason
<1>1. ASSUME NEW awaited, NEW expected,
             Reject(c, type, valid, awaited, expected)
      PROVE  IInv'
  BY <1>0, <1>1, AbortClientIInv DEF Reject
<1>2. idle \in BOOLEAN
  BY DEF IInv, TypeOK
<1>3. CASE state = "R0_ADVERTISE_KEYS" /\ R0HandleMessage(c, type, valid)
  BY <1>1, <1>2, <1>3, AcceptMessageIInv DEF R0HandleMessage, Unexpected
<1>4. CASE state = "R1_SHARE_KEYS" /\ R1HandleMessage(c, type, valid)
  BY <1>1, <1>2, <1>4, AcceptMessageIInv DEF R1HandleMessage, Unexpected
<1>5. CASE state = "R2_MASKED_INPUT_COLLECTION" /\ R2HandleMessage(c, type, valid)
  BY <1>1, <1>2, <1>5, AcceptMessageIInv DEF R2HandleMessage, Unexpected
<1>6. CASE state = "R3_UNMASKING" /\ R3HandleMessage(c, type, valid)
  BY <1>1, <1>2, <1>6, AcceptMessageIInv DEF R3HandleMessage, Unexpected
<1>7. CASE state = "PRNG_RUNNING" /\ PrngHandleMessage(c, type)
  BY <1>0, <1>7, AbortClientIInv DEF PrngHandleMessage
<1>8. QED
  BY <1>3, <1>4, <1>5, <1>6, <1>7 DEF ReceiveMessage

(* SecAggServer::AbortClient. *)
LEMMA ServerAbortClientIInv ==
  ASSUME IInv, NEW c \in Clients, NEW reason \in ClientAbortReason,
         ServerAbortClient(c, reason)
  PROVE  IInv'
BY AbortClientIInv DEF ServerAbortClient, DropReason

-----------------------------------------------------------------------------
(* Leaving a round preserves the invariant.                                *)

(* Counting a set of statuses that no client has. *)
LEMMA CountNone ==
  ASSUME NEW st, NEW S, \A c \in Clients : st[c] \notin S
  PROVE  Count(st, S) = 0
<1>1. {c \in Clients : st[c] \in S} = {}
  OBVIOUS
<1>2. QED
  BY <1>1, FS_EmptySet DEF Count

(* Four disjoint sets of statuses that cover the cohort add up to it. *)
LEMMA CountFour ==
  ASSUME NEW st, NEW S, NEW T, NEW U, NEW V,
         S \cap T = {}, (S \cup T) \cap U = {}, (S \cup T \cup U) \cap V = {},
         \A c \in Clients : st[c] \in S \cup T \cup U \cup V
  PROVE  Cardinality(Clients)
           = Count(st, S) + Count(st, T) + Count(st, U) + Count(st, V)
<1>1. Count(st, S \cup T) = Count(st, S) + Count(st, T)
  BY CountUnion
<1>2. Count(st, S \cup T \cup U) = Count(st, S \cup T) + Count(st, U)
  BY CountUnion
<1>3. Count(st, S \cup T \cup U \cup V) = Count(st, S \cup T \cup U) + Count(st, V)
  BY CountUnion
<1>4. Count(st, S \cup T \cup U \cup V) = Cardinality(Clients)
  BY CountAll
<1>5. QED
  BY <1>1, <1>2, <1>3, <1>4

(* The clients a round still waits for, those that answered and are not    *)
(* lost, and those counted as failed or terminated make up the cohort.     *)
LEMMA CohortPartition ==
  ASSUME IInv, NEW D,
         \/ /\ state = "R0_ADVERTISE_KEYS"
            /\ D = {c \in Clients : status[c] = "READY_TO_START"}
         \/ /\ state = "R1_SHARE_KEYS"
            /\ D = {c \in Clients : status[c] = "ADVERTISE_KEYS_RECEIVED"}
         \/ /\ state = "R2_MASKED_INPUT_COLLECTION"
            /\ D = {c \in Clients : status[c] = "SHARE_KEYS_RECEIVED"}
         \/ /\ state = "R3_UNMASKING"
            /\ D = {c \in Clients : status[c] = "MASKED_INPUT_RESPONSE_RECEIVED"}
  PROVE  /\ Cardinality(D) \in Nat
         /\ Cardinality(Clients)
              = Cardinality(D) + ready + failedBefore + (failedAfter + terminated)
<1>1. StatusesOfRound /\ CountInv
  BY DEF IInv
<1>2. ASSUME NEW a, D = {c \in Clients : status[c] = a}
      PROVE  Cardinality(D) = Count(status, {a}) /\ Cardinality(D) \in Nat
  <2>1. D = {c \in Clients : status[c] \in {a}}
    BY <1>2
  <2>2. QED
    BY <2>1, CountType DEF Count
<1>3. CASE state = "R0_ADVERTISE_KEYS" /\ D = {c \in Clients : status[c] = "READY_TO_START"}
  <2>1. Cardinality(D) = Count(status, {"READY_TO_START"}) /\ Cardinality(D) \in Nat
    BY <1>2, <1>3
  <2>2. Cardinality(Clients)
          = Count(status, {"READY_TO_START"}) + Count(status, Advertised)
            + Count(status, FailedBeforeStatus) + Count(status, DeadMasked)
    <3>1. /\ {"READY_TO_START"} \cap Advertised = {}
          /\ ({"READY_TO_START"} \cup Advertised) \cap FailedBeforeStatus = {}
          /\ ({"READY_TO_START"} \cup Advertised \cup FailedBeforeStatus)
               \cap DeadMasked = {}
      BY DEF Advertised, FailedBeforeStatus, DeadMasked
    <3>2. \A c \in Clients :
            status[c] \in {"READY_TO_START"} \cup Advertised \cup FailedBeforeStatus
                           \cup DeadMasked
      BY <1>1, <1>3
      DEF StatusesOfRound, RoundStatus, Advertised, FailedBeforeStatus, DeadMasked
    <3>3. QED
      BY <3>1, <3>2, CountFour
  <2>3. QED
    BY <1>1, <1>3, <2>1, <2>2 DEF CountInv
<1>4. CASE state = "R1_SHARE_KEYS" /\ D = {c \in Clients : status[c] = "ADVERTISE_KEYS_RECEIVED"}
  <2>1. Cardinality(D) = Count(status, {"ADVERTISE_KEYS_RECEIVED"}) /\ Cardinality(D) \in Nat
    BY <1>2, <1>4
  <2>2. Cardinality(Clients)
          = Count(status, {"ADVERTISE_KEYS_RECEIVED"}) + Count(status, Shared)
            + Count(status, FailedBeforeStatus) + Count(status, DeadMasked)
    <3>1. /\ {"ADVERTISE_KEYS_RECEIVED"} \cap Shared = {}
          /\ ({"ADVERTISE_KEYS_RECEIVED"} \cup Shared) \cap FailedBeforeStatus = {}
          /\ ({"ADVERTISE_KEYS_RECEIVED"} \cup Shared \cup FailedBeforeStatus)
               \cap DeadMasked = {}
      BY DEF Shared, FailedBeforeStatus, DeadMasked
    <3>2. \A c \in Clients :
            status[c] \in {"ADVERTISE_KEYS_RECEIVED"} \cup Shared \cup FailedBeforeStatus
                           \cup DeadMasked
      BY <1>1, <1>4
      DEF StatusesOfRound, RoundStatus, Shared, FailedBeforeStatus, DeadMasked
    <3>3. QED
      BY <3>1, <3>2, CountFour
  <2>3. QED
    BY <1>1, <1>4, <2>1, <2>2 DEF CountInv
<1>5. CASE state = "R2_MASKED_INPUT_COLLECTION" /\ D = {c \in Clients : status[c] = "SHARE_KEYS_RECEIVED"}
  <2>1. Cardinality(D) = Count(status, {"SHARE_KEYS_RECEIVED"}) /\ Cardinality(D) \in Nat
    BY <1>2, <1>5
  <2>2. Cardinality(Clients)
          = Count(status, {"SHARE_KEYS_RECEIVED"}) + Count(status, Masked)
            + Count(status, FailedBeforeStatus) + Count(status, DeadMasked)
    <3>1. /\ {"SHARE_KEYS_RECEIVED"} \cap Masked = {}
          /\ ({"SHARE_KEYS_RECEIVED"} \cup Masked) \cap FailedBeforeStatus = {}
          /\ ({"SHARE_KEYS_RECEIVED"} \cup Masked \cup FailedBeforeStatus)
               \cap DeadMasked = {}
      BY DEF Masked, FailedBeforeStatus, DeadMasked
    <3>2. \A c \in Clients :
            status[c] \in {"SHARE_KEYS_RECEIVED"} \cup Masked \cup FailedBeforeStatus
                           \cup DeadMasked
      BY <1>1, <1>5
      DEF StatusesOfRound, RoundStatus, Masked, FailedBeforeStatus, DeadMasked
    <3>3. QED
      BY <3>1, <3>2, CountFour
  <2>3. QED
    BY <1>1, <1>5, <2>1, <2>2 DEF CountInv
<1>6. CASE state = "R3_UNMASKING" /\ D = {c \in Clients : status[c] = "MASKED_INPUT_RESPONSE_RECEIVED"}
  <2>1. Cardinality(D) = Count(status, {"MASKED_INPUT_RESPONSE_RECEIVED"}) /\ Cardinality(D) \in Nat
    BY <1>2, <1>6
  <2>2. Cardinality(Clients)
          = Count(status, {"MASKED_INPUT_RESPONSE_RECEIVED"}) + Count(status, UnmaskedStatus)
            + Count(status, FailedBeforeStatus) + Count(status, DeadMasked)
    <3>1. /\ {"MASKED_INPUT_RESPONSE_RECEIVED"} \cap UnmaskedStatus = {}
          /\ ({"MASKED_INPUT_RESPONSE_RECEIVED"} \cup UnmaskedStatus) \cap FailedBeforeStatus = {}
          /\ ({"MASKED_INPUT_RESPONSE_RECEIVED"} \cup UnmaskedStatus \cup FailedBeforeStatus)
               \cap DeadMasked = {}
      BY DEF UnmaskedStatus, FailedBeforeStatus, DeadMasked
    <3>2. \A c \in Clients :
            status[c] \in {"MASKED_INPUT_RESPONSE_RECEIVED"} \cup UnmaskedStatus \cup FailedBeforeStatus
                           \cup DeadMasked
      BY <1>1, <1>6
      DEF StatusesOfRound, RoundStatus, UnmaskedStatus, FailedBeforeStatus, DeadMasked
    <3>3. QED
      BY <3>1, <3>2, CountFour
  <2>3. QED
    BY <1>1, <1>6, <2>1, <2>2 DEF CountInv
<1>7. QED
  BY <1>3, <1>4, <1>5, <1>6

(* The messages of a round transition keep the type of sent. *)
LEMMA SendRoundType ==
  ASSUME TypeOK, NEW D, NEW n \in ServerMessageType, NEW m \in ServerMessageType,
         SendRound(D, n, m)
  PROVE  sent' \in [Clients -> Seq(ServerMessageType)]
<1>1. sent \in [Clients -> Seq(ServerMessageType)]
  BY DEF TypeOK
<1>2. ASSUME NEW c \in Clients
      PROVE  /\ Append(sent[c], n) \in Seq(ServerMessageType)
             /\ Append(sent[c], m) \in Seq(ServerMessageType)
  BY <1>1, <1>2
<1>3. QED
  BY <1>1, <1>2 DEF SendRound

(* Leaving round 0 with enough answers. *)
LEMMA R0ProceedIInv ==
  ASSUME IInv, R0ProceedToNextRound
  PROVE  IInv'
<1> DEFINE D == Pending("ADVERTISE_KEYS_RECEIVED")
<1>1. /\ TypeOK /\ StatusesOfRound /\ CountInv /\ state = "R0_ADVERTISE_KEYS"
      /\ Cardinality(Clients) \in Nat /\ MinClients \in Nat
  BY CohortAssumption, FS_CardinalityType DEF IInv, R0ProceedToNextRound
<1>2. D = {c \in Clients : status[c] = "READY_TO_START"}
  BY <1>1
  DEF Pending, IsClientDead, DeadStatus, StatusesOfRound, RoundStatus,
      FailedBeforeStatus, DeadMasked
<1>3. /\ failedBefore' = failedBefore + Cardinality(D)
      /\ state' = "R1_SHARE_KEYS" /\ needsToAbort' = FALSE
      /\ ready' = 0 /\ received' = 0
      /\ UNCHANGED <<failedAfter, terminated, idle, completion, prngCallback>>
      /\ abortedAt2' \in {abortedAt2, abortedAt2 \cup D}
      /\ SendRound(D, "abort", "share_keys_request")
      /\ DropPending(D, "DEAD_BEFORE_SENDING_ANYTHING", "NO_RESPONSE")
  BY DEF R0ProceedToNextRound, EnterRound, prngVars
<1>4. Drops(status, status', D, "READY_TO_START", "DEAD_BEFORE_SENDING_ANYTHING")
  BY <1>2, <1>3 DEF Drops, DropPending
<1>5. /\ Count(status', FailedBeforeStatus)
           = Count(status, FailedBeforeStatus) + Cardinality(D)
      /\ Count(status', DeadMasked) = Count(status, DeadMasked) + 0
  <2>1. /\ "READY_TO_START" \notin FailedBeforeStatus
        /\ DropIn("DEAD_BEFORE_SENDING_ANYTHING", FailedBeforeStatus, D)
             = Cardinality(D)
        /\ "READY_TO_START" \notin DeadMasked
        /\ DropIn("DEAD_BEFORE_SENDING_ANYTHING", DeadMasked, D) = 0
    BY DEF FailedBeforeStatus, DeadMasked, DropIn
  <2>2. QED
    BY <1>4, <2>1, CountDrop
<1>6. status' \in [Clients -> ClientStatus] /\ StatusesOfRound'
  BY <1>1, <1>2, <1>3
  DEF TypeOK, DropPending, ClientStatus, StatusesOfRound, RoundStatus,
      FailedBeforeStatus, DeadMasked
<1>7. Count(status', Shared) = 0
  <2>1. \A c \in Clients : status'[c] \notin Shared
    BY <1>1, <1>2, <1>3
    DEF TypeOK, DropPending, StatusesOfRound, RoundStatus, FailedBeforeStatus,
        DeadMasked, Shared, UnmaskedStatus
  <2>2. QED
    BY <2>1, CountNone
<1>8. CountInv'
  <2>1. failedBefore' = Count(status', FailedBeforeStatus)
    BY <1>1, <1>3, <1>5 DEF CountInv
  <2>2. failedAfter' + terminated' = Count(status', DeadMasked)
    <3>1. /\ failedAfter \in Nat /\ terminated \in Nat
          /\ failedAfter + terminated = Count(status, DeadMasked)
      BY <1>1 DEF TypeOK, CountInv
    <3>2. Count(status', DeadMasked) = failedAfter + terminated
      BY <1>5, <3>1
    <3>3. QED
      BY <1>3, <3>2
  <2>3. QED
    BY <1>3, <1>7, <2>1, <2>2 DEF CountInv
<1>9. HopeInv'
  <2>1. PICK d \in Nat : d = Cardinality(D)
    BY <1>1, <1>2, CohortPartition
  <2>2. Cardinality(Clients) = d + ready + failedBefore + (failedAfter + terminated)
    BY <1>1, <1>2, <2>1, CohortPartition
  <2>3. NumberOfAliveClients' = ready
    <3>1. /\ ready \in Nat /\ failedBefore \in Nat
          /\ failedAfter \in Nat /\ terminated \in Nat
      BY <1>1 DEF TypeOK
    <3>2. NumberOfAliveClients'
            = Cardinality(Clients) - (failedBefore + d) - failedAfter - terminated
      BY <1>3, <2>1 DEF NumberOfAliveClients
    <3>3. QED
      BY <2>2, <3>1, <3>2
  <2>4. ready >= MinClients
    BY <1>1 DEF R0ProceedToNextRound, ReadyForNextRound, R0ReadyForNextRound
  <2>5. ~(NumberOfAliveClients' < MinClients)
    BY <1>1, <2>3, <2>4 DEF TypeOK
  <2>6. QED
    BY <1>3, <2>5 DEF HopeInv
<1>10. TypeOK'
  <2>1. sent' \in [Clients -> Seq(ServerMessageType)]
    BY <1>1, <1>3, SendRoundType DEF ServerMessageType
  <2>2. dropReason' \in [Clients -> DropReason]
    BY <1>1, <1>3 DEF DropPending, TypeOK, DropReason
  <2>3. failedBefore' \in Nat /\ abortedAt2' \in SUBSET Clients
    BY <1>1, <1>2, <1>3, CohortPartition DEF TypeOK
  <2>4. QED
    BY <1>1, <1>3, <1>6, <2>1, <2>2, <2>3 DEF TypeOK, StateKind, Collecting
<1>11. QED
  BY <1>6, <1>8, <1>9, <1>10 DEF IInv

(* Leaving round 1 with enough answers. *)
LEMMA R1ProceedIInv ==
  ASSUME IInv, R1ProceedToNextRound
  PROVE  IInv'
<1> DEFINE D == Pending("SHARE_KEYS_RECEIVED")
<1>1. /\ TypeOK /\ StatusesOfRound /\ CountInv /\ state = "R1_SHARE_KEYS"
      /\ Cardinality(Clients) \in Nat /\ MinClients \in Nat
  BY CohortAssumption, FS_CardinalityType DEF IInv, R1ProceedToNextRound
<1>2. D = {c \in Clients : status[c] = "ADVERTISE_KEYS_RECEIVED"}
  BY <1>1
  DEF Pending, IsClientDead, DeadStatus, StatusesOfRound, RoundStatus,
      FailedBeforeStatus, DeadMasked
<1>3. /\ failedBefore' = failedBefore + Cardinality(D)
      /\ state' = "R2_MASKED_INPUT_COLLECTION" /\ needsToAbort' = FALSE
      /\ ready' = 0 /\ received' = 0
      /\ UNCHANGED <<failedAfter, terminated, idle, completion, prngCallback>>
      /\ abortedAt2' \in {abortedAt2, abortedAt2 \cup D}
      /\ SendRound(D, "abort", "masked_input_request")
      /\ DropPending(D, "DEAD_AFTER_ADVERTISE_KEYS_RECEIVED", "NO_RESPONSE")
  BY DEF R1ProceedToNextRound, EnterRound, prngVars
<1>4. Drops(status, status', D, "ADVERTISE_KEYS_RECEIVED", "DEAD_AFTER_ADVERTISE_KEYS_RECEIVED")
  BY <1>2, <1>3 DEF Drops, DropPending
<1>5. /\ Count(status', FailedBeforeStatus)
           = Count(status, FailedBeforeStatus) + Cardinality(D)
      /\ Count(status', DeadMasked) = Count(status, DeadMasked) + 0
  <2>1. /\ "ADVERTISE_KEYS_RECEIVED" \notin FailedBeforeStatus
        /\ DropIn("DEAD_AFTER_ADVERTISE_KEYS_RECEIVED", FailedBeforeStatus, D)
             = Cardinality(D)
        /\ "ADVERTISE_KEYS_RECEIVED" \notin DeadMasked
        /\ DropIn("DEAD_AFTER_ADVERTISE_KEYS_RECEIVED", DeadMasked, D) = 0
    BY DEF FailedBeforeStatus, DeadMasked, DropIn
  <2>2. QED
    BY <1>4, <2>1, CountDrop
<1>6. status' \in [Clients -> ClientStatus] /\ StatusesOfRound'
  BY <1>1, <1>2, <1>3
  DEF TypeOK, DropPending, ClientStatus, StatusesOfRound, RoundStatus,
      FailedBeforeStatus, DeadMasked
<1>7. Count(status', Masked) = 0 /\ Count(status', IncludedStatus) = 0
  <2>1. \A c \in Clients : status'[c] \notin Masked /\ status'[c] \notin IncludedStatus
    BY <1>1, <1>2, <1>3
    DEF TypeOK, DropPending, StatusesOfRound, RoundStatus, FailedBeforeStatus,
        DeadMasked, Masked, IncludedStatus, UnmaskedStatus
  <2>2. QED
    BY <2>1, CountNone
<1>8. CountInv'
  <2>1. failedBefore' = Count(status', FailedBeforeStatus)
    BY <1>1, <1>3, <1>5 DEF CountInv
  <2>2. failedAfter' + terminated' = Count(status', DeadMasked)
    <3>1. /\ failedAfter \in Nat /\ terminated \in Nat
          /\ failedAfter + terminated = Count(status, DeadMasked)
      BY <1>1 DEF TypeOK, CountInv
    <3>2. Count(status', DeadMasked) = failedAfter + terminated
      BY <1>5, <3>1
    <3>3. QED
      BY <1>3, <3>2
  <2>3. QED
    BY <1>3, <1>7, <2>1, <2>2 DEF CountInv
<1>9. HopeInv'
  <2>1. PICK d \in Nat : d = Cardinality(D)
    BY <1>1, <1>2, CohortPartition
  <2>2. Cardinality(Clients) = d + ready + failedBefore + (failedAfter + terminated)
    BY <1>1, <1>2, <2>1, CohortPartition
  <2>3. NumberOfAliveClients' = ready
    <3>1. /\ ready \in Nat /\ failedBefore \in Nat
          /\ failedAfter \in Nat /\ terminated \in Nat
      BY <1>1 DEF TypeOK
    <3>2. NumberOfAliveClients'
            = Cardinality(Clients) - (failedBefore + d) - failedAfter - terminated
      BY <1>3, <2>1 DEF NumberOfAliveClients
    <3>3. QED
      BY <2>2, <3>1, <3>2
  <2>4. ready >= MinClients
    BY <1>1 DEF R1ProceedToNextRound, ReadyForNextRound, R1ReadyForNextRound
  <2>5. ~(NumberOfAliveClients' < MinClients)
    BY <1>1, <2>3, <2>4 DEF TypeOK
  <2>6. QED
    BY <1>3, <2>5 DEF HopeInv
<1>10. TypeOK'
  <2>1. sent' \in [Clients -> Seq(ServerMessageType)]
    BY <1>1, <1>3, SendRoundType DEF ServerMessageType
  <2>2. dropReason' \in [Clients -> DropReason]
    BY <1>1, <1>3 DEF DropPending, TypeOK, DropReason
  <2>3. failedBefore' \in Nat /\ abortedAt2' \in SUBSET Clients
    BY <1>1, <1>2, <1>3, CohortPartition DEF TypeOK
  <2>4. QED
    BY <1>1, <1>3, <1>6, <2>1, <2>2, <2>3 DEF TypeOK, StateKind, Collecting
<1>11. QED
  BY <1>6, <1>8, <1>9, <1>10 DEF IInv

(* Leaving round 2 with enough answers. *)
LEMMA R2ProceedIInv ==
  ASSUME IInv, R2ProceedToNextRound
  PROVE  IInv'
<1> DEFINE D == Pending("MASKED_INPUT_RESPONSE_RECEIVED")
<1>1. /\ TypeOK /\ StatusesOfRound /\ CountInv /\ state = "R2_MASKED_INPUT_COLLECTION"
      /\ Cardinality(Clients) \in Nat /\ MinClients \in Nat
  BY CohortAssumption, FS_CardinalityType DEF IInv, R2ProceedToNextRound
<1>2. D = {c \in Clients : status[c] = "SHARE_KEYS_RECEIVED"}
  BY <1>1
  DEF Pending, IsClientDead, DeadStatus, StatusesOfRound, RoundStatus,
      FailedBeforeStatus, DeadMasked
<1>3. /\ failedBefore' = failedBefore + Cardinality(D)
      /\ state' = "R3_UNMASKING" /\ needsToAbort' = FALSE
      /\ ready' = 0 /\ received' = 0
      /\ UNCHANGED <<failedAfter, terminated, idle, completion, prngCallback>>
      /\ abortedAt2' \in {abortedAt2, abortedAt2 \cup D}
      /\ SendRound(D, "abort", "unmasking_request")
      /\ DropPending(D, "DEAD_AFTER_SHARE_KEYS_RECEIVED", "NO_RESPONSE")
  BY DEF R2ProceedToNextRound, EnterRound, prngVars
<1>4. Drops(status, status', D, "SHARE_KEYS_RECEIVED", "DEAD_AFTER_SHARE_KEYS_RECEIVED")
  BY <1>2, <1>3 DEF Drops, DropPending
<1>5. /\ Count(status', FailedBeforeStatus)
           = Count(status, FailedBeforeStatus) + Cardinality(D)
      /\ Count(status', DeadMasked) = Count(status, DeadMasked) + 0
  <2>1. /\ "SHARE_KEYS_RECEIVED" \notin FailedBeforeStatus
        /\ DropIn("DEAD_AFTER_SHARE_KEYS_RECEIVED", FailedBeforeStatus, D)
             = Cardinality(D)
        /\ "SHARE_KEYS_RECEIVED" \notin DeadMasked
        /\ DropIn("DEAD_AFTER_SHARE_KEYS_RECEIVED", DeadMasked, D) = 0
    BY DEF FailedBeforeStatus, DeadMasked, DropIn
  <2>2. QED
    BY <1>4, <2>1, CountDrop
<1>6. status' \in [Clients -> ClientStatus] /\ StatusesOfRound'
  BY <1>1, <1>2, <1>3
  DEF TypeOK, DropPending, ClientStatus, StatusesOfRound, RoundStatus,
      FailedBeforeStatus, DeadMasked
<1>7. Count(status', UnmaskedStatus) = 0
  <2>1. \A c \in Clients : status'[c] \notin UnmaskedStatus
    BY <1>1, <1>2, <1>3
    DEF TypeOK, DropPending, StatusesOfRound, RoundStatus, FailedBeforeStatus,
        DeadMasked, UnmaskedStatus
  <2>2. QED
    BY <2>1, CountNone
<1>8. CountInv'
  <2>1. failedBefore' = Count(status', FailedBeforeStatus)
    BY <1>1, <1>3, <1>5 DEF CountInv
  <2>2. failedAfter' + terminated' = Count(status', DeadMasked)
    <3>1. /\ failedAfter \in Nat /\ terminated \in Nat
          /\ failedAfter + terminated = Count(status, DeadMasked)
      BY <1>1 DEF TypeOK, CountInv
    <3>2. Count(status', DeadMasked) = failedAfter + terminated
      BY <1>5, <3>1
    <3>3. QED
      BY <1>3, <3>2
  <2>3. QED
    BY <1>3, <1>7, <2>1, <2>2 DEF CountInv
<1>9. HopeInv'
  <2>1. PICK d \in Nat : d = Cardinality(D)
    BY <1>1, <1>2, CohortPartition
  <2>2. Cardinality(Clients) = d + ready + failedBefore + (failedAfter + terminated)
    BY <1>1, <1>2, <2>1, CohortPartition
  <2>3. NumberOfAliveClients' = ready
    <3>1. /\ ready \in Nat /\ failedBefore \in Nat
          /\ failedAfter \in Nat /\ terminated \in Nat
      BY <1>1 DEF TypeOK
    <3>2. NumberOfAliveClients'
            = Cardinality(Clients) - (failedBefore + d) - failedAfter - terminated
      BY <1>3, <2>1 DEF NumberOfAliveClients
    <3>3. QED
      BY <2>2, <3>1, <3>2
  <2>4. ready >= MinClients
    BY <1>1 DEF R2ProceedToNextRound, ReadyForNextRound, R2ReadyForNextRound
  <2>5. ~(NumberOfAliveClients' < MinClients)
    BY <1>1, <2>3, <2>4 DEF TypeOK
  <2>6. QED
    BY <1>3, <2>5 DEF HopeInv
<1>10. TypeOK'
  <2>1. sent' \in [Clients -> Seq(ServerMessageType)]
    BY <1>1, <1>3, SendRoundType DEF ServerMessageType
  <2>2. dropReason' \in [Clients -> DropReason]
    BY <1>1, <1>3 DEF DropPending, TypeOK, DropReason
  <2>3. failedBefore' \in Nat /\ abortedAt2' \in SUBSET Clients
    BY <1>1, <1>2, <1>3, CohortPartition DEF TypeOK
  <2>4. QED
    BY <1>1, <1>3, <1>6, <2>1, <2>2, <2>3 DEF TypeOK, StateKind, Collecting
<1>11. QED
  BY <1>6, <1>8, <1>9, <1>10 DEF IInv

(* Leaving round 3 with enough unmasking responses. *)
LEMMA R3ProceedIInv ==
  ASSUME IInv, NEW initialized \in BOOLEAN, R3ProceedToNextRound(initialized)
  PROVE  IInv'
<1> DEFINE D == Pending("UNMASKING_RESPONSE_RECEIVED")
<1>1. TypeOK /\ StatusesOfRound /\ CountInv /\ state = "R3_UNMASKING"
  BY DEF IInv, R3ProceedToNextRound
<1>2. D = {c \in Clients : status[c] = "MASKED_INPUT_RESPONSE_RECEIVED"}
  BY <1>1
  DEF Pending, IsClientDead, DeadStatus, StatusesOfRound, RoundStatus,
      FailedBeforeStatus, DeadMasked, UnmaskedStatus
<1>3. /\ terminated' = terminated + Cardinality(D)
      /\ state' = "PRNG_RUNNING" /\ needsToAbort' = FALSE
      /\ ready' = 0 /\ received' = 0
      /\ UNCHANGED <<failedBefore, failedAfter, abortedAt2, idle, prngCallback>>
      /\ completion' \in {"none", "error"}
      /\ sent' = [c \in Clients |->
                    IF c \in D THEN Append(sent[c], "early_success")
                    ELSE sent[c]]
      /\ DropPending(D, "DEAD_AFTER_MASKED_INPUT_RESPONSE_RECEIVED", "EARLY_SUCCESS")
  BY DEF R3ProceedToNextRound, EnterRound
<1>4. Drops(status, status', D, "MASKED_INPUT_RESPONSE_RECEIVED",
            "DEAD_AFTER_MASKED_INPUT_RESPONSE_RECEIVED")
  BY <1>2, <1>3 DEF Drops, DropPending
<1>5. /\ Count(status', DeadMasked) = Count(status, DeadMasked) + Cardinality(D)
      /\ Count(status', FailedBeforeStatus)
           = Count(status, FailedBeforeStatus) + 0
      /\ Count(status', UnmaskedStatus) = Count(status, UnmaskedStatus) + 0
  <2>1. /\ "MASKED_INPUT_RESPONSE_RECEIVED" \notin FailedBeforeStatus
        /\ DropIn("DEAD_AFTER_MASKED_INPUT_RESPONSE_RECEIVED", FailedBeforeStatus, D) = 0
        /\ "MASKED_INPUT_RESPONSE_RECEIVED" \notin DeadMasked
        /\ DropIn("DEAD_AFTER_MASKED_INPUT_RESPONSE_RECEIVED", DeadMasked, D)
             = Cardinality(D)
        /\ "MASKED_INPUT_RESPONSE_RECEIVED" \notin UnmaskedStatus
        /\ DropIn("DEAD_AFTER_MASKED_INPUT_RESPONSE_RECEIVED", UnmaskedStatus, D) = 0
    BY DEF FailedBeforeStatus, DeadMasked, UnmaskedStatus, DropIn
  <2>2. QED
    BY <1>4, <2>1, CountDrop
<1>6. status' \in [Clients -> ClientStatus] /\ StatusesOfRound'
  BY <1>1, <1>2, <1>3
  DEF TypeOK, DropPending, ClientStatus, StatusesOfRound, RoundStatus,
      FailedBeforeStatus, DeadMasked, UnmaskedStatus
<1>7. PICK d \in Nat : d = Cardinality(D)
  BY <1>1, <1>2, CohortPartition
<1>8. ready >= MinClients
  BY <1>1 DEF R3ProceedToNextRound, ReadyForNextRound, R3ReadyForNextRound, CountInv
<1>9. CountInv'
  <2>1. failedBefore' = Count(status', FailedBeforeStatus)
    <3>1. failedBefore \in Nat /\ failedBefore = Count(status, FailedBeforeStatus)
      BY <1>1 DEF TypeOK, CountInv
    <3>2. Count(status', FailedBeforeStatus) = failedBefore
      BY <1>5, <3>1
    <3>3. QED
      BY <1>3, <3>2
  <2>2. failedAfter' + terminated' = Count(status', DeadMasked)
    BY <1>1, <1>3, <1>5, <1>7 DEF CountInv, TypeOK
  <2>3. Count(status', UnmaskedStatus) >= MinClients
    BY <1>1, <1>5, <1>8 DEF CountInv, TypeOK
  <2>4. QED
    BY <1>3, <2>1, <2>2, <2>3 DEF CountInv
<1>10. HopeInv'
  BY <1>3 DEF HopeInv, Collecting
<1>11. TypeOK'
  <2>1. sent' \in [Clients -> Seq(ServerMessageType)]
    <3>1. sent \in [Clients -> Seq(ServerMessageType)]
      BY <1>1 DEF TypeOK
    <3>2. \A c \in Clients :
            Append(sent[c], "early_success") \in Seq(ServerMessageType)
      BY <3>1 DEF ServerMessageType
    <3>3. QED
      BY <1>3, <3>1, <3>2
  <2>2. dropReason' \in [Clients -> DropReason]
    BY <1>1, <1>3 DEF DropPending, TypeOK, DropReason
  <2>3. terminated' \in Nat
    BY <1>1, <1>3, <1>7 DEF TypeOK
  <2>4. QED
    BY <1>1, <1>3, <1>6, <2>1, <2>2, <2>3 DEF TypeOK, StateKind
<1>12. QED
  BY <1>6, <1>9, <1>10, <1>11 DEF IInv

(* Aborting sends a message to every alive client and forgets the round.   *)
LEMMA AbortAllIInv ==
  ASSUME IInv, AbortAll
  PROVE  IInv'
<1>1. TypeOK /\ CountInv
  BY DEF IInv
<1>2. sent' \in [Clients -> Seq(ServerMessageType)]
  BY <1>1, SendRoundType DEF AbortAll, ServerMessageType
<1>3. TypeOK'
  BY <1>1, <1>2 DEF AbortAll, EnterRound, TypeOK, StateKind, Terminal, prngVars
<1>4. StatusesOfRound'
  BY <1>3 DEF AbortAll, EnterRound, StatusesOfRound, RoundStatus, TypeOK
<1>5. CountInv' /\ HopeInv'
  BY <1>1 DEF AbortAll, EnterRound, CountInv, HopeInv, Collecting
<1>6. QED
  BY <1>3, <1>4, <1>5 DEF IInv

(* Leaving PRNG_RUNNING changes no client. *)
LEMMA PrngProceedIInv ==
  ASSUME IInv, PrngProceedToNextRound
  PROVE  IInv'
<1>1. TypeOK /\ StatusesOfRound /\ CountInv /\ state = "PRNG_RUNNING"
  BY DEF IInv, PrngProceedToNextRound
<1>2. /\ state' \in {"COMPLETED", "ABORTED"} /\ needsToAbort' = FALSE
      /\ ready' = 0 /\ received' = 0
      /\ UNCHANGED <<status, failedBefore, failedAfter, terminated, abortedAt2,
                     idle, completion, prngCallback, sent, dropReason>>
  BY DEF PrngProceedToNextRound, EnterRound, prngVars
<1>3. TypeOK'
  BY <1>1, <1>2 DEF TypeOK, StateKind, Terminal
<1>4. StatusesOfRound'
  BY <1>1, <1>2, <1>3 DEF StatusesOfRound, RoundStatus, TypeOK
<1>5. CountInv' /\ HopeInv'
  BY <1>1, <1>2 DEF CountInv, HopeInv, Collecting
<1>6. QED
  BY <1>3, <1>4, <1>5 DEF IInv

(* Every step of the server, and every step that leaves it alone, preserves *)
(* the invariant.                                                          *)
LEMMA NextIInv ==
  ASSUME IInv, [Next]_vars
  PROVE  IInv'
<1>1. CASE ReceiveSomeMessage
  BY <1>1, ReceiveMessageIInv DEF ReceiveSomeMessage
<1>2. CASE AbortSomeClient
  BY <1>2, ServerAbortClientIInv DEF AbortSomeClient
<1>3. CASE ProceedToNextRound
  BY <1>3, R0ProceedIInv, R1ProceedIInv, R2ProceedIInv, R3ProceedIInv,
     PrngProceedIInv, AbortAllIInv
  DEF ProceedToNextRound, ProceedToAborted
<1>4. CASE Abort
  BY <1>4, AbortAllIInv DEF Abort
<1>5. CASE \/ AccumulatorBecomesIdle \/ SetAsyncCallback
           \/ PrngRunnerFinished \/ RunCallback
  <2>1. /\ UNCHANGED <<state, status, needsToAbort, counters, abortedAt2,
                       sent, dropReason>>
        /\ idle' \in {idle, TRUE}
        /\ completion' \in {completion, "ok"}
        /\ prngCallback' \in {prngCallback, "set", "scheduled", "called"}
    BY <1>5
    DEF AccumulatorBecomesIdle, SetAsyncCallback, PrngRunnerFinished,
        RunCallback, prngVars
  <2>2. TypeOK
    BY DEF IInv
  <2>3. TypeOK'
    BY <2>1, <2>2 DEF TypeOK, counters
  <2>4. QED
    BY <2>1, <2>3, StutterIInv
<1>6. CASE UNCHANGED vars
  <2>1. TypeOK'
    BY <1>6 DEF IInv, TypeOK, vars, counters, prngVars
  <2>2. QED
    BY <1>6, <2>1, StutterIInv DEF vars
<1>7. QED
  BY <1>1, <1>2, <1>3, <1>4, <1>5, <1>6 DEF Next

(* The inductive invariant holds in every reachable state. *)
THEOREM IInvHolds == Spec => []IInv
<1>1. Init => IInv
  BY InitIInv
<1>2. IInv /\ [Next]_vars => IInv'
  BY NextIInv
<1>3. QED
  BY <1>1, <1>2, PTL DEF Spec

-----------------------------------------------------------------------------
(* What follows from it.                                                   *)

(* The server's variables always have their types: no counter of clients,  *)
(* however they were dropped, ever becomes negative.                       *)
THEOREM TypeCorrect == Spec => []TypeOK
<1>1. IInv => TypeOK
  BY DEF IInv
<1>2. QED
  BY <1>1, IInvHolds, PTL

(* The failure counters that the state objects hand on to each other       *)
(* always equal the number of clients with the statuses they stand for.    *)
THEOREM FailureCountersCorrect == Spec => []FailureCountersMatchStatuses
<1>1. IInv => FailureCountersMatchStatuses
  BY DEF IInv, CountInv, Count, FailureCountersMatchStatuses, With, DeadMasked
<1>2. QED
  BY <1>1, IInvHolds, PTL

(* The counters of one round always agree with the client statuses.        *)
THEOREM RoundCountersCorrect == Spec => []RoundCountersMatchStatuses
<1>1. IInv => RoundCountersMatchStatuses
  BY DEF IInv, CountInv, Count, RoundCountersMatchStatuses, With, Advertised,
         Shared, Masked, IncludedClients
<1>2. QED
  BY <1>1, IInvHolds, PTL

(* A round is given up exactly when its quorum has become unreachable.     *)
THEOREM AbortDecisionCorrect == Spec => []AbortsOnlyWhenHopeless
<1>1. IInv => AbortsOnlyWhenHopeless
  <2> SUFFICES ASSUME IInv, state \in Collecting
               PROVE  needsToAbort <=> NumberOfPendingClients + ready < MinClients
    BY DEF AbortsOnlyWhenHopeless
  <2>1. needsToAbort <=> NumberOfAliveClients < MinClients
    BY DEF IInv, HopeInv
  <2>2. NumberOfPendingClients + ready = NumberOfAliveClients
    BY CohortAssumption, FS_CardinalityType
    DEF IInv, TypeOK, NumberOfPendingClients, NumberOfAliveClients
  <2>3. QED
    BY <2>1, <2>2, Zenon
<1>2. QED
  BY <1>1, IInvHolds, PTL

(* A sum is only ever unmasked by a quorum, and the number of inputs the   *)
(* server reports is the number of masked inputs in the sum.               *)
THEOREM UnmaskingCorrect == Spec => []UnmaskedByQuorum
<1>1. IInv => UnmaskedByQuorum
  <2> SUFFICES ASSUME IInv PROVE UnmaskedByQuorum
    OBVIOUS
  <2>1. state \in {"PRNG_RUNNING", "COMPLETED"} =>
          Cardinality(With(UnmaskedStatus)) >= MinClients
    BY DEF IInv, CountInv, Count, With
  <2>2. ASSUME state \in {"R3_UNMASKING", "PRNG_RUNNING", "COMPLETED"}
        PROVE  NumberOfIncludedInputs = Cardinality(IncludedClients)
    <3>1. \A c \in Clients : status[c] \in FailedBeforeStatus \cup IncludedStatus
      BY <2>2
      DEF IInv, StatusesOfRound, RoundStatus, IncludedStatus, DeadMasked
    <3>2. FailedBeforeStatus \cap IncludedStatus = {}
      BY DEF FailedBeforeStatus, IncludedStatus, UnmaskedStatus
    <3>3. Cardinality(Clients)
            = Count(status, FailedBeforeStatus) + Count(status, IncludedStatus)
      <4>1. Count(status, FailedBeforeStatus \cup IncludedStatus)
              = Cardinality(Clients)
        BY <3>1, CountAll
      <4>2. Count(status, FailedBeforeStatus \cup IncludedStatus)
              = Count(status, FailedBeforeStatus) + Count(status, IncludedStatus)
        BY <3>2, CountUnion
      <4>3. QED
        BY <4>1, <4>2
    <3>4. /\ failedBefore \in Nat
          /\ failedBefore = Count(status, FailedBeforeStatus)
      BY DEF IInv, TypeOK, CountInv
    <3>5. PICK n \in Nat : n = Count(status, IncludedStatus)
      BY CountType
    <3>6. Cardinality(Clients) - failedBefore = n
      BY <3>3, <3>4, <3>5
    <3>7. NumberOfIncludedInputs = Cardinality(Clients) - failedBefore
      BY <2>2 DEF NumberOfIncludedInputs
    <3>8. QED
      BY <3>5, <3>6, <3>7 DEF Count, IncludedClients, With
  <2>3. QED
    BY <2>1, <2>2 DEF UnmaskedByQuorum
<1>2. QED
  BY <1>1, IInvHolds, PTL
=============================================================================
