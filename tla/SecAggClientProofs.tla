------------------------- MODULE SecAggClientProofs -------------------------
(***************************************************************************)
(* Proofs of the safety properties of SecAggClient for any number of       *)
(* neighbours, any threshold and any number of threads calling Abort.      *)
(*                                                                         *)
(* The inductive invariant adds to the properties how many messages have   *)
(* been sent in each state, and that the masks of the masked input that    *)
(* was sent are those of the neighbours now marked alive.                  *)
(***************************************************************************)
EXTENDS SecAggClient, FiniteSetTheorems, SequenceTheorems, TLAPS

(* The first k messages of the protocol were sent, and no other.           *)
Ordered(s, k) ==
  /\ s \in Seq(Message) /\ Len(s) = k
  /\ \A i \in 1..k : s[i].type = Types[i]

(* The properties of sent, for any sequence of messages.                   *)
InOrder(s) ==
  \A i \in 1..Len(s) :
    \/ i <= 4 /\ s[i].type = Types[i]
    \/ i = Len(s) /\ s[i].type = "abort"
Matches(s) ==
  Len(s) = 4 /\ s[4].type = "unmasking_response" =>
    /\ s[4].prf \cap s[4].noise = {}
    /\ \E own \in s[4].prf :
         /\ own \notin s[3].masks
         /\ s[4].prf \cup s[4].noise = s[3].masks \cup {own}
    /\ Cardinality(s[4].prf) >= MinSurviving

MessagesMatchRound ==
  /\ round = "R0_ADVERTISE_KEYS" => Ordered(sent, 0)
  /\ round = "R1_SHARE_KEYS" => Ordered(sent, 1)
  /\ round \in {"R2_MASKED_INPUT_COLL", "R2_WAITING_FOR_INPUT"} =>
       Ordered(sent, 2)
  /\ round = "R3_UNMASKING" =>
       Ordered(sent, 3) /\ sent[3].masks = Masks(others, ownId)

ReturnedMeansTerminal ==
  (\E a \in Aborters : abortPc[a] = "returned") => round \in Terminal

SentOk == InOrder(sent) /\ Matches(sent)

IInv ==
  /\ TypeOK
  /\ AliveCountMatches
  /\ MessagesMatchRound
  /\ SentOk
  /\ ReturnedMeansTerminal

-----------------------------------------------------------------------------
(* Lemmas about the messages sent.                                         *)

(* A sequence of the first few messages has the properties of sent.        *)
LEMMA OrderedIsOk ==
  ASSUME NEW s, NEW k \in 0..3, Ordered(s, k)
  PROVE  InOrder(s) /\ Matches(s)
  BY DEF Ordered, InOrder, Matches

(* An abort message may be sent as long as the last response is not.       *)
LEMMA AbortIsOk ==
  ASSUME NEW s, NEW k \in 0..3, Ordered(s, k)
  PROVE  LET t == Append(s, Plain("abort"))
         IN  t \in Seq(Message) /\ InOrder(t) /\ Matches(t)
<1> DEFINE m == Plain("abort")
           t == Append(s, m)
<1>1. m \in Message /\ m.type = "abort"
  BY DEF Plain, Message
<1>2. /\ t \in Seq(Message) /\ Len(t) = k + 1 /\ t[k + 1] = m
      /\ \A i \in 1..k : t[i] = s[i]
  BY <1>1 DEF Ordered
<1> HIDE DEF t
<1>3. InOrder(t)
  <2>1. \A i \in 1..k : i <= 4 /\ t[i].type = Types[i]
    BY <1>2 DEF Ordered
  <2>2. QED
    BY <1>1, <1>2, <2>1 DEF InOrder
<1>4. Matches(t)
  BY <1>1, <1>2 DEF Matches
<1>5. QED
  BY <1>2, <1>3, <1>4 DEF t

(* The messages of the first two rounds are messages. *)
LEMMA PlainTypes ==
  /\ Plain("advertise_keys") \in Message
  /\ Plain("share_keys_response") \in Message
  /\ Plain("advertise_keys").type = Types[1]
  /\ Plain("share_keys_response").type = Types[2]
<1>1. Types[1] = "advertise_keys" /\ Types[2] = "share_keys_response"
  BY DEF Types
<1>2. QED
  BY <1>1 DEF Plain, Message

(* So is a masked input whose masks are neighbours. *)
LEMMA MaskedInputType ==
  ASSUME NEW M \in SUBSET Ids
  PROVE  /\ MaskedInput(M) \in Message /\ MaskedInput(M).type = Types[3]
         /\ MaskedInput(M).masks = M
<1>1. Types[3] = "masked_input_response"
  BY DEF Types
<1>2. QED
  BY <1>1 DEF MaskedInput, Message

(* Sending a message appends it. *)
LEMMA Appended ==
  ASSUME NEW s \in Seq(Message), NEW m \in Message, NEW t, t = Append(s, m)
  PROVE  /\ t \in Seq(Message) /\ Len(t) = Len(s) + 1 /\ t[Len(s) + 1] = m
         /\ \A i \in 1..Len(s) : t[i] = s[i]
<1>1. t \in Seq(Message)
  BY AppendProperties
<1>2. Len(t) = Len(s) + 1
  BY AppendProperties
<1>3. t[Len(s) + 1] = m
  BY AppendProperties
<1>4. \A i \in 1..Len(s) : t[i] = s[i]
  BY AppendProperties
<1>5. QED
  BY <1>1, <1>2, <1>3, <1>4

(* The next message of the protocol extends the sequence of those sent.    *)
LEMMA FirstMessage ==
  ASSUME NEW s, NEW t, NEW m \in Message, m.type = Types[1],
         Ordered(s, 0), t = Append(s, m)
  PROVE  Ordered(t, 1) /\ t[1] = m
<1>1. s \in Seq(Message) /\ Len(s) = 0
  BY DEF Ordered
<1>3. /\ t \in Seq(Message) /\ Len(t) = Len(s) + 1 /\ t[Len(s) + 1] = m
      /\ \A i \in 1..Len(s) : t[i] = s[i]
  BY <1>1, Appended
<1>4. Len(t) = 1
  BY <1>1, <1>3
<1>5. t[1] = m
  BY <1>1, <1>3
<1>7. \A i \in 1..1 : t[i].type = Types[i]
  BY <1>5
<1>8. QED
  BY <1>3, <1>4, <1>5, <1>7 DEF Ordered

(* The same for the second message. *)
LEMMA SecondMessage ==
  ASSUME NEW s, NEW t, NEW m \in Message, m.type = Types[2],
         Ordered(s, 1), t = Append(s, m)
  PROVE  Ordered(t, 2) /\ t[2] = m
<1>1. s \in Seq(Message) /\ Len(s) = 1
  BY DEF Ordered
<1>2. s[1].type = Types[1]
  BY DEF Ordered
<1>3. /\ t \in Seq(Message) /\ Len(t) = Len(s) + 1 /\ t[Len(s) + 1] = m
      /\ \A i \in 1..Len(s) : t[i] = s[i]
  BY <1>1, Appended
<1>4. Len(t) = 2
  BY <1>1, <1>3
<1>5. t[2] = m
  BY <1>1, <1>3
<1>6. t[1] = s[1]
  BY <1>1, <1>3
<1>7. \A i \in 1..2 : t[i].type = Types[i]
  BY <1>1, <1>2, <1>5, <1>6
<1>8. QED
  BY <1>3, <1>4, <1>5, <1>7 DEF Ordered

(* The same for the third message. *)
LEMMA ThirdMessage ==
  ASSUME NEW s, NEW t, NEW m \in Message, m.type = Types[3],
         Ordered(s, 2), t = Append(s, m)
  PROVE  Ordered(t, 3) /\ t[3] = m
<1>1. s \in Seq(Message) /\ Len(s) = 2
  BY DEF Ordered
<1>2. s[1].type = Types[1] /\ s[2].type = Types[2]
  BY DEF Ordered
<1>3. /\ t \in Seq(Message) /\ Len(t) = Len(s) + 1 /\ t[Len(s) + 1] = m
      /\ \A i \in 1..Len(s) : t[i] = s[i]
  BY <1>1, Appended
<1>4. Len(t) = 3
  BY <1>1, <1>3
<1>5. t[3] = m
  BY <1>1, <1>3
<1>6. t[1] = s[1] /\ t[2] = s[2]
  BY <1>1, <1>3
<1>7. \A i \in 1..3 : t[i].type = Types[i]
  BY <1>1, <1>2, <1>5, <1>6
<1>8. QED
  BY <1>3, <1>4, <1>5, <1>7 DEF Ordered

(* The same for the fourth message. *)
LEMMA FourthMessage ==
  ASSUME NEW s, NEW t, NEW m \in Message, m.type = Types[4],
         Ordered(s, 3), t = Append(s, m)
  PROVE  Ordered(t, 4) /\ t[4] = m /\ t[3] = s[3]
<1>1. s \in Seq(Message) /\ Len(s) = 3
  BY DEF Ordered
<1>2. /\ s[1].type = Types[1] /\ s[2].type = Types[2]
      /\ s[3].type = Types[3]
  BY DEF Ordered
<1>3. /\ t \in Seq(Message) /\ Len(t) = Len(s) + 1 /\ t[Len(s) + 1] = m
      /\ \A i \in 1..Len(s) : t[i] = s[i]
  BY <1>1, Appended
<1>4. Len(t) = 4
  BY <1>1, <1>3
<1>5. t[4] = m
  BY <1>1, <1>3
<1>6. t[1] = s[1] /\ t[2] = s[2] /\ t[3] = s[3]
  BY <1>1, <1>3
<1>7. \A i \in 1..4 : t[i].type = Types[i]
  BY <1>1, <1>2, <1>5, <1>6
<1>8. QED
  BY <1>3, <1>4, <1>5, <1>6, <1>7 DEF Ordered

(* And an unmasking response about neighbours. *)
LEMMA UnmaskingType ==
  ASSUME NEW P \in SUBSET Ids, NEW N \in SUBSET Ids
  PROVE  /\ Unmasking(P, N) \in Message /\ Unmasking(P, N).type = Types[4]
         /\ Unmasking(P, N).prf = P /\ Unmasking(P, N).noise = N
<1>1. Types[4] = "unmasking_response"
  BY DEF Types
<1>2. QED
  BY <1>1 DEF Unmasking, Message

-----------------------------------------------------------------------------
(* Lemmas about the neighbours.                                            *)

(* There are finitely many neighbours and their ids are in range. *)
LEMMA NeighborsFinite ==
  ASSUME TypeOK, NEW S \in SUBSET Neighbors
  PROVE  IsFiniteSet(S) /\ Cardinality(S) \in Nat /\ S \subseteq Ids
<1>1. PICK n \in 0..MaxNeighbors : others \in [0..(n - 1) -> OtherClientState]
  BY DEF TypeOK
<1>2. Neighbors = 0..(n - 1)
  BY <1>1 DEF Neighbors
<1>3. IsFiniteSet(0..(n - 1))
  BY <1>1, FS_Interval
<1>4. IsFiniteSet(S) /\ Cardinality(S) \in Nat
  BY <1>2, <1>3, FS_Subset, FS_CardinalityType
<1>5. 0..(n - 1) \subseteq Ids
  BY <1>1, ClientAssumption DEF Ids
<1>6. QED
  BY <1>2, <1>4, <1>5

(* A list of k ids names at most k clients. *)
LEMMA NoiseSharesBound ==
  ASSUME NEW n \in Nat, NEW dead \in [1..n -> 0..(MaxNeighbors + 1)]
  PROVE  /\ Len(dead) = n
         /\ IsFiniteSet(NoiseShares(dead))
         /\ Cardinality(NoiseShares(dead)) <= n
         /\ Cardinality(NoiseShares(dead)) \in Nat
<1> DEFINE f == [p \in 1..n |-> NeighborId(dead[p])]
<1>1. Len(dead) = n
  OBVIOUS
<1>2. IsFiniteSet(1..n) /\ Cardinality(1..n) = n
  BY FS_Interval
<1>3. NoiseShares(dead) = {f[p] : p \in 1..n}
  BY <1>1 DEF NoiseShares
<1>4. f \in Surjection(1..n, NoiseShares(dead))
  BY <1>3 DEF Surjection
<1>5. /\ IsFiniteSet(NoiseShares(dead))
      /\ Cardinality(NoiseShares(dead)) <= Cardinality(1..n)
  BY <1>2, <1>4, FS_Surjection
<1>6. QED
  BY <1>1, <1>2, <1>5, FS_CardinalityType

-----------------------------------------------------------------------------
(* Preservation of the invariant, one lemma per action.                    *)

AbortPcOk == abortPc \in [Aborters -> {"idle", "locking", "returned"}]

(* Entering a terminal state erases everything the invariant speaks about. *)
LEMMA TerminalStep ==
  ASSUME IInv, Erase, round' \in Terminal,
         sent' \in Seq(Message), InOrder(sent'), Matches(sent'),
         signalled' \in BOOLEAN, AbortPcOk'
  PROVE  IInv'
<1>1. NoNeighbors \in [0..(0 - 1) -> OtherClientState]
  BY DEF NoNeighbors
<1>2. \E n \in 0..MaxNeighbors : others' \in [0..(n - 1) -> OtherClientState]
  BY <1>1, ClientAssumption DEF Erase
<1>3. TypeOK'
  <2>1. ownId' \in Ids /\ alive' \in 0..MaxNeighbors
    BY ClientAssumption DEF Erase, Ids
  <2>2. round' \in Round /\ inputSet' \in BOOLEAN
    BY DEF Erase, Terminal, Round
  <2>3. QED
    BY <1>2, <2>1, <2>2 DEF TypeOK, AbortPcOk
<1>4. QED
  BY <1>3 DEF IInv, AliveCountMatches, MessagesMatchRound, SentOk,
              ReturnedMeansTerminal, Terminal

(* The number of messages sent in a state that is not terminal. *)
LEMMA OrderedInRound ==
  ASSUME IInv, round \notin Terminal
  PROVE  \E k \in 0..3 : Ordered(sent, k)
  BY DEF IInv, TypeOK, Round, Terminal, MessagesMatchRound

(* Aborting and telling the server. *)
LEMMA AbortStep ==
  ASSUME IInv, round \notin Terminal, AbortAndNotifyServer,
         signalled' \in BOOLEAN, AbortPcOk'
  PROVE  IInv'
<1>1. PICK k \in 0..3 : Ordered(sent, k)
  BY OrderedInRound
<1>2. sent' \in Seq(Message) /\ InOrder(sent') /\ Matches(sent')
  BY <1>1, AbortIsOk DEF AbortAndNotifyServer, Send
<1>3. QED
  BY <1>2, TerminalStep DEF AbortAndNotifyServer, Terminal

(* A step that changes neither the state nor what was sent. *)
LEMMA StutterStep ==
  ASSUME IInv, UNCHANGED <<stateVars, sent>>,
         signalled' \in BOOLEAN, AbortPcOk', ReturnedMeansTerminal'
  PROVE  IInv'
  BY DEF IInv, stateVars, TypeOK, AliveCountMatches, MessagesMatchRound, SentOk,
         AbortPcOk, InState, Neighbors, Masks, Ordered, InOrder, Matches

(* Start. *)
LEMMA StartStep ==
  ASSUME IInv, Start
  PROVE  IInv'
<1> USE DEF IInv
<1>1. signalled' \in BOOLEAN /\ AbortPcOk' /\ abortPc' = abortPc
  BY DEF Start, TypeOK, AbortPcOk
<1>2. CASE round = "R0_ADVERTISE_KEYS"
  <2>1. /\ sent' = Append(sent, Plain("advertise_keys"))
        /\ round' = "R1_SHARE_KEYS"
        /\ UNCHANGED <<inputSet, ownId, others, alive>>
    BY <1>2 DEF Start, Send
  <2>2. Ordered(sent', 1)
    <3>1. Ordered(sent, 0)
      BY <1>2 DEF MessagesMatchRound
    <3>2. QED
      BY <2>1, <3>1, FirstMessage, PlainTypes
  <2>3. TypeOK'
    BY <1>1, <2>1, <2>2 DEF TypeOK, Ordered, Round, AbortPcOk
  <2>4. SentOk'
    BY <2>2, OrderedIsOk DEF SentOk
  <2>5. ReturnedMeansTerminal'
    BY <1>1, <1>2 DEF ReturnedMeansTerminal, Terminal
  <2>6. QED
    BY <2>1, <2>2, <2>3, <2>4, <2>5
       DEF AliveCountMatches, MessagesMatchRound
<1>3. CASE round # "R0_ADVERTISE_KEYS"
  <2>1. UNCHANGED <<stateVars, sent>>
    BY <1>3 DEF Start, Reject
  <2>2. ReturnedMeansTerminal'
    BY <1>1, <2>1 DEF ReturnedMeansTerminal, stateVars
  <2>3. QED
    BY <1>1, <2>1, <2>2, StutterStep
<1>4. QED
  BY <1>2, <1>3

(* Sending the masked input, now or when the request arrived before. *)
LEMMA MaskedInputSent ==
  ASSUME TypeOK', Ordered(sent, 2), round' = "R3_UNMASKING",
         sent' = Append(sent, MaskedInput(Masks(others', ownId')))
  PROVE  MessagesMatchRound' /\ SentOk'
<1> DEFINE M == Masks(others', ownId')
<1>1. M \in SUBSET Neighbors'
  BY DEF Masks, Neighbors
<1>2. M \in SUBSET Ids
  <2>1. PICK n \in 0..MaxNeighbors :
          others' \in [0..(n - 1) -> OtherClientState]
    BY DEF TypeOK
  <2>2. M \subseteq 0..(n - 1)
    BY <1>1, <2>1 DEF Neighbors
  <2>3. QED
    BY <2>1, <2>2, ClientAssumption DEF Ids
<1>3. Ordered(sent', 3) /\ sent'[3].masks = M
  <2> DEFINE m == MaskedInput(M)
  <2>1. /\ m \in Message /\ m.type = Types[3] /\ m.masks = M
        /\ sent' = Append(sent, m)
    BY <1>2, MaskedInputType
  <2> HIDE DEF m
  <2>2. Ordered(sent', 3) /\ sent'[3] = m
    BY <2>1, ThirdMessage
  <2>3. QED
    BY <2>1, <2>2
<1>4. SentOk'
  BY <1>3, OrderedIsOk DEF SentOk
<1>5. QED
  BY <1>3, <1>4 DEF MessagesMatchRound

(* SetInput. *)
LEMMA SetInputStep ==
  ASSUME IInv, NEW valid \in BOOLEAN, SetInput(valid)
  PROVE  IInv'
<1> USE DEF IInv
<1>1. signalled' \in BOOLEAN /\ AbortPcOk' /\ abortPc' = abortPc
  BY DEF SetInput, TypeOK, AbortPcOk
<1>2. CASE UNCHANGED <<stateVars, sent>>
  <2>1. ReturnedMeansTerminal'
    BY <1>1, <1>2 DEF ReturnedMeansTerminal, stateVars
  <2>2. QED
    BY <1>1, <1>2, <2>1, StutterStep
<1>3. CASE /\ AcceptsInput /\ inputSet' = TRUE
           /\ round = "R2_WAITING_FOR_INPUT" /\ round' = "R3_UNMASKING"
           /\ Send(MaskedInput(Masks(others, ownId)))
           /\ UNCHANGED <<ownId, others, alive>>
  <2>1. sent' = Append(sent, MaskedInput(Masks(others', ownId')))
    BY <1>3 DEF Send
  <2>2. Masks(others, ownId) \in SUBSET Ids
    BY NeighborsFinite DEF Masks, Neighbors
  <2>3. Ordered(sent, 2)
    BY <1>3 DEF MessagesMatchRound
  <2>4. sent' \in Seq(Message)
    BY <1>3, <2>2, <2>3, MaskedInputType DEF Send, Ordered
  <2>5. TypeOK'
    BY <1>1, <1>3, <2>4 DEF TypeOK, Round, AbortPcOk
  <2>6. MessagesMatchRound' /\ SentOk'
    BY <1>3, <2>1, <2>3, <2>5, MaskedInputSent
  <2>7. AliveCountMatches'
    BY <1>3 DEF AliveCountMatches, InState, Neighbors
  <2>8. ReturnedMeansTerminal'
    BY <1>1, <1>3 DEF ReturnedMeansTerminal, Terminal
  <2>9. QED
    BY <2>5, <2>6, <2>7, <2>8
<1>4. CASE /\ AcceptsInput /\ inputSet' = TRUE
           /\ UNCHANGED <<round, sent, ownId, others, alive>>
  <2>1. TypeOK'
    BY <1>1, <1>4 DEF TypeOK, AbortPcOk
  <2>2. AliveCountMatches' /\ MessagesMatchRound' /\ SentOk'
    BY <1>4 DEF AliveCountMatches, MessagesMatchRound, SentOk, InState,
                Neighbors, Masks, Ordered, InOrder, Matches
  <2>3. ReturnedMeansTerminal'
    BY <1>1, <1>4 DEF ReturnedMeansTerminal
  <2>4. QED
    BY <2>1, <2>2, <2>3
<1>5. QED
  BY <1>2, <1>3, <1>4 DEF SetInput, Reject

(* An abort message of the server. *)
LEMMA ServerAbortStep ==
  ASSUME IInv, NEW earlySuccess \in BOOLEAN, HandleServerAbort(earlySuccess)
  PROVE  IInv'
<1>1. /\ round' \in Terminal /\ Erase /\ sent' = sent
      /\ signalled' \in BOOLEAN /\ AbortPcOk'
  BY DEF HandleServerAbort, Terminal, IInv, TypeOK, AbortPcOk
<1>2. sent' \in Seq(Message) /\ InOrder(sent') /\ Matches(sent')
  BY <1>1 DEF IInv, TypeOK, SentOk
<1>3. QED
  BY <1>1, <1>2, TerminalStep

(* A message the state does not expect. *)
LEMMA UnexpectedStep ==
  ASSUME IInv, NEW type, HandleUnexpected(type)
  PROVE  IInv'
<1>1. UNCHANGED <<stateVars, sent>> /\ signalled' = signalled /\ abortPc' = abortPc
  BY DEF HandleUnexpected, Reject
<1>2. signalled' \in BOOLEAN /\ AbortPcOk' /\ ReturnedMeansTerminal'
  BY <1>1 DEF IInv, TypeOK, AbortPcOk, ReturnedMeansTerminal, stateVars
<1>3. QED
  BY <1>1, <1>2, StutterStep

(* A handler that fails. *)
LEMMA HandlerFailsStep ==
  ASSUME IInv, round \notin Terminal, NEW ok, HandlerFails(ok)
  PROVE  IInv'
<1>1. signalled' \in BOOLEAN /\ AbortPcOk'
  BY DEF HandlerFails, IInv, TypeOK, AbortPcOk
<1>2. QED
  BY <1>1, AbortStep DEF HandlerFails

(* The share keys request. *)
LEMMA ShareKeysStep ==
  ASSUME IInv, NEW keys \in Vectors(KeyKind), NEW sessionId \in BOOLEAN,
         HandleShareKeysRequest(keys, sessionId)
  PROVE  IInv'
<1> USE DEF IInv
<1>1. CASE HandlerFails(ShareKeysRequestOk(keys, sessionId))
  <2>1. round \notin Terminal
    BY DEF HandleShareKeysRequest, Terminal
  <2>2. QED
    BY <1>1, <2>1, HandlerFailsStep
<1>2. CASE /\ ShareKeysRequestOk(keys, sessionId)
           /\ ownId' \in Own(keys)
           /\ others' = [i \in DOMAIN keys |-> IF keys[i] = "empty"
                                               THEN "kDeadAtRound1" ELSE "kAlive"]
           /\ alive' = Cardinality(Present(keys))
           /\ round' = "R2_MASKED_INPUT_COLL"
           /\ Send(Plain("share_keys_response"))
           /\ UNCHANGED <<inputSet, signalled, abortPc>>
  <2>1. PICK n \in 0..(MaxNeighbors + 1) : keys \in [0..(n - 1) -> KeyKind]
    BY DEF Vectors
  <2>2. n \in 1..MaxNeighbors /\ IsFiniteSet(0..(n - 1)) /\ Cardinality(0..(n - 1)) = n
    <3>1. DOMAIN keys = 0..(n - 1)
      BY <2>1
    <3>2. Cardinality(0..(n - 1)) \in MinSurviving..MaxNeighbors
      BY <1>2, <3>1 DEF ShareKeysRequestOk, RightSize
    <3>3. /\ IsFiniteSet(0..(n - 1))
          /\ Cardinality(0..(n - 1)) = IF 0 > n - 1 THEN 0 ELSE (n - 1) - 0 + 1
      BY <2>1, FS_Interval
    <3>4. QED
      BY <2>1, <3>2, <3>3, ClientAssumption
  <2>3. others' \in [0..(n - 1) -> OtherClientState]
    BY <1>2, <2>1 DEF OtherClientState
  <2>4. ownId' \in 0..(n - 1) /\ ownId' \in Ids /\ ownId' \in Present(keys)
    <3>1. ownId' \in 0..(n - 1) /\ ownId' \in Present(keys)
      BY <1>2, <2>1 DEF Own, Present
    <3>2. QED
      BY <3>1, <2>2, ClientAssumption DEF Ids
  <2>5. InState("kAlive")' = Present(keys)
    BY <1>2, <2>1 DEF InState, Neighbors, Present
  <2>6. Present(keys) \subseteq 0..(n - 1)
    BY <2>1 DEF Present
  <2>7. Cardinality(Present(keys)) \in 0..MaxNeighbors
    <3>1. Cardinality(Present(keys)) <= n /\ Cardinality(Present(keys)) \in Nat
      BY <2>2, <2>6, FS_Subset, FS_CardinalityType
    <3>2. QED
      BY <3>1, <2>2, ClientAssumption
  <2>8. Ordered(sent', 2)
    <3>1. Ordered(sent, 1)
      BY DEF HandleShareKeysRequest, MessagesMatchRound
    <3>2. sent' = Append(sent, Plain("share_keys_response"))
      BY <1>2 DEF Send
    <3>3. QED
      BY <3>1, <3>2, SecondMessage, PlainTypes
  <2>9. TypeOK'
    <3>1. \E j \in 0..MaxNeighbors : others' \in [0..(j - 1) -> OtherClientState]
      BY <2>2, <2>3
    <3>2. round' \in Round /\ alive' \in 0..MaxNeighbors /\ sent' \in Seq(Message)
      BY <1>2, <2>7, <2>8 DEF Round, Ordered
    <3>3. QED
      BY <1>2, <2>4, <3>1, <3>2 DEF TypeOK
  <2>10. AliveCountMatches'
    <3>1. Cardinality(Present(keys)) >= MinSurviving
      BY <1>2 DEF ShareKeysRequestOk
    <3>2. QED
      BY <1>2, <2>4, <2>5, <3>1 DEF AliveCountMatches
  <2>11. MessagesMatchRound' /\ SentOk'
    BY <1>2, <2>8, OrderedIsOk DEF MessagesMatchRound, SentOk
  <2>12. ReturnedMeansTerminal'
    BY <1>2 DEF HandleShareKeysRequest, ReturnedMeansTerminal, Terminal
  <2>13. QED
    BY <2>9, <2>10, <2>11, <2>12
<1>3. QED
  BY <1>1, <1>2 DEF HandleShareKeysRequest

(* The masked input request. *)
LEMMA MaskedInputStep ==
  ASSUME IInv, NEW shares \in Vectors(ShareKind),
         HandleMaskedInputCollectionRequest(shares)
  PROVE  IInv'
<1> USE DEF IInv
<1>1. round = "R2_MASKED_INPUT_COLL"
  BY DEF HandleMaskedInputCollectionRequest
<1>2. CASE HandlerFails(MaskedInputRequestOk(shares))
  BY <1>1, <1>2, HandlerFailsStep DEF Terminal
<1>3. CASE /\ MaskedInputRequestOk(shares)
           /\ others' = [i \in Neighbors |-> IF i \in Lost(shares)
                                             THEN "kDeadAtRound2" ELSE others[i]]
           /\ alive' = alive - Cardinality(Lost(shares))
           /\ IF inputSet
              THEN /\ Send(MaskedInput(Masks(others', ownId)))
                   /\ round' = "R3_UNMASKING"
              ELSE round' = "R2_WAITING_FOR_INPUT" /\ UNCHANGED sent
           /\ UNCHANGED <<inputSet, ownId, signalled, abortPc>>
  <2> DEFINE A == InState("kAlive")
             L == Lost(shares)
  <2>1. /\ alive = Cardinality(A) /\ ownId \in A
        /\ alive - Cardinality(L) >= MinSurviving
    BY <1>1, <1>3 DEF AliveCountMatches, MaskedInputRequestOk
  <2>2. PICK n \in 0..MaxNeighbors : others \in [0..(n - 1) -> OtherClientState]
    BY DEF TypeOK
  <2>3. others' \in [0..(n - 1) -> OtherClientState]
    BY <1>3, <2>2 DEF Neighbors, OtherClientState
  <2>4. L \subseteq A /\ ownId \notin L
    BY DEF Lost, InState, Neighbors
  <2>5. InState("kAlive")' = A \ L
    BY <1>3, <2>2, <2>3 DEF InState, Neighbors
  <2>6. /\ IsFiniteSet(A) /\ IsFiniteSet(L)
        /\ Cardinality(A) \in Nat /\ Cardinality(L) \in Nat
    <3>1. A \subseteq Neighbors /\ L \subseteq Neighbors
      BY DEF InState, Lost
    <3>2. QED
      BY <3>1, NeighborsFinite
  <2>7. Cardinality(A \ L) = Cardinality(A) - Cardinality(L)
    <3>1. A \cap L = L
      BY <2>4
    <3>2. QED
      BY <2>6, <3>1, FS_Difference
  <2>8. alive' = Cardinality(InState("kAlive"))'
    BY <1>3, <2>1, <2>5, <2>7
  <2>9. alive' \in 0..MaxNeighbors /\ alive' >= MinSurviving
    BY <1>3, <2>1, <2>6, ClientAssumption DEF TypeOK
  <2>10. AliveCountMatches'
    BY <1>3, <2>1, <2>4, <2>5, <2>8, <2>9 DEF AliveCountMatches
  <2>11. Ordered(sent, 2)
    BY <1>1 DEF MessagesMatchRound
  <2>12. sent' \in Seq(Message) /\ round' \in Round
    <3>1. Masks(others', ownId) \subseteq 0..(n - 1)
      BY <2>3 DEF Masks
    <3>2. 0..(n - 1) \subseteq Ids
      BY <2>2, ClientAssumption DEF Ids
    <3>3. MaskedInput(Masks(others', ownId)) \in Message
      BY <3>1, <3>2, MaskedInputType
    <3>4. CASE inputSet
      <4> DEFINE m == MaskedInput(Masks(others', ownId))
      <4>1. sent' = Append(sent, m) /\ m \in Message
        BY <1>3, <3>3, <3>4 DEF Send
      <4> HIDE DEF m
      <4>2. sent' \in Seq(Message)
        BY <2>11, <4>1, AppendProperties DEF Ordered
      <4>3. QED
        BY <1>3, <3>4, <4>2 DEF Round
    <3>5. CASE ~inputSet
      BY <1>3, <2>11, <3>5 DEF Round, Ordered
    <3>6. QED
      BY <3>4, <3>5
  <2>13. TypeOK'
    BY <1>3, <2>2, <2>3, <2>9, <2>12 DEF TypeOK
  <2>14. MessagesMatchRound' /\ SentOk'
    <3>1. CASE inputSet
      BY <1>3, <2>11, <2>13, <3>1, MaskedInputSent DEF Send
    <3>2. CASE ~inputSet
      <4>1. Ordered(sent', 2) /\ round' = "R2_WAITING_FOR_INPUT"
        BY <1>3, <2>11, <3>2
      <4>2. QED
        BY <4>1, OrderedIsOk DEF MessagesMatchRound, SentOk
    <3>3. QED
      BY <3>1, <3>2
  <2>15. ReturnedMeansTerminal'
    BY <1>1, <1>3 DEF ReturnedMeansTerminal, Terminal
  <2>16. QED
    BY <2>10, <2>13, <2>14, <2>15
<1>4. QED
  BY <1>2, <1>3 DEF HandleMaskedInputCollectionRequest

(* The unmasking request. *)
LEMMA UnmaskingStep ==
  ASSUME IInv, NEW dead \in IdLists, HandleUnmaskingRequest(dead)
  PROVE  IInv'
<1> USE DEF IInv
<1>1. round = "R3_UNMASKING"
  BY DEF HandleUnmaskingRequest
<1>2. CASE HandlerFails(UnmaskingRequestOk(dead))
  BY <1>1, <1>2, HandlerFailsStep DEF Terminal
<1> DEFINE A == InState("kAlive")
           N == NoiseShares(dead)
<1>3. CASE /\ UnmaskingRequestOk(dead)
           /\ Send(Unmasking(A \ N, N))
           /\ round' = "COMPLETED" /\ Erase
           /\ UNCHANGED <<signalled, abortPc>>
  <2>1. PICK n \in 0..MaxNeighbors : dead \in [1..n -> 0..(MaxNeighbors + 1)]
    BY DEF IdLists
  <2>2. /\ Len(dead) = n /\ IsFiniteSet(N)
        /\ Cardinality(N) <= n /\ Cardinality(N) \in Nat
    BY <2>1, NoiseSharesBound
  <2>3. N \subseteq A /\ ownId \notin N
    BY <1>3 DEF UnmaskingRequestOk, MayDie, NoiseShares
  <2>4. A \subseteq Neighbors /\ IsFiniteSet(A) /\ Cardinality(A) \in Nat /\ A \subseteq Ids
    <3>1. A \subseteq Neighbors
      BY DEF InState
    <3>2. QED
      BY <3>1, NeighborsFinite
  <2>5. ownId \in A /\ alive = Cardinality(A)
    BY <1>1 DEF AliveCountMatches
  <2>6. Cardinality(A \ N) >= MinSurviving
    <3>1. A \cap N = N
      BY <2>3
    <3>2. Cardinality(A \ N) = Cardinality(A) - Cardinality(N)
      BY <2>4, <3>1, FS_Difference
    <3>3. Cardinality(A) - n >= MinSurviving
      BY <1>3, <2>2, <2>5 DEF UnmaskingRequestOk
    <3>4. QED
      BY <2>2, <2>4, <3>2, <3>3, ClientAssumption
  <2>7. Ordered(sent, 3) /\ sent[3].masks = A \ {ownId}
    BY <1>1 DEF MessagesMatchRound, Masks, InState, Neighbors
  <2> DEFINE m == Unmasking(A \ N, N)
  <2>8. /\ m \in Message /\ m.type = Types[4] /\ m.prf = A \ N /\ m.noise = N
    <3>1. A \ N \in SUBSET Ids /\ N \in SUBSET Ids
      BY <2>3, <2>4
    <3>2. QED
      BY <3>1, UnmaskingType
  <2>9. sent' = Append(sent, m)
    BY <1>3 DEF Send
  <2> HIDE DEF m
  <2>10. Ordered(sent', 4) /\ sent'[4] = m /\ sent'[3] = sent[3]
    BY <2>7, <2>8, <2>9, FourthMessage
  <2>11. InOrder(sent')
    BY <2>10 DEF Ordered, InOrder
  <2>12. Matches(sent')
    <3>1. sent'[4].prf \cap sent'[4].noise = {}
      BY <2>8, <2>10
    <3>2. /\ ownId \in sent'[4].prf /\ ownId \notin sent'[3].masks
          /\ sent'[4].prf \cup sent'[4].noise = sent'[3].masks \cup {ownId}
      BY <2>3, <2>5, <2>7, <2>8, <2>10
    <3>3. Cardinality(sent'[4].prf) >= MinSurviving
      BY <2>6, <2>8, <2>10
    <3>4. QED
      BY <3>1, <3>2, <3>3 DEF Matches
  <2>13. /\ round' \in Terminal /\ sent' \in Seq(Message)
         /\ signalled' \in BOOLEAN /\ AbortPcOk'
    BY <1>3, <2>10 DEF Terminal, Ordered, TypeOK, AbortPcOk
  <2>14. QED
    BY <1>3, <2>11, <2>12, <2>13, TerminalStep
<1>4. QED
  BY <1>2, <1>3 DEF HandleUnmaskingRequest

(* The first half of Abort. *)
LEMMA AbortSignalsStep ==
  ASSUME IInv, NEW a \in Aborters, AbortSignals(a)
  PROVE  IInv'
<1>1. AbortPcOk'
  BY DEF IInv, TypeOK, AbortSignals, AbortPcOk
<1>2. \A b \in Aborters : abortPc'[b] = "returned" => abortPc[b] = "returned"
  BY DEF IInv, TypeOK, AbortSignals
<1>3. ReturnedMeansTerminal'
  BY <1>2 DEF IInv, AbortSignals, ReturnedMeansTerminal, stateVars
<1>4. QED
  BY <1>1, <1>3, StutterStep DEF AbortSignals

(* The second half of Abort. *)
LEMMA AbortLocksStep ==
  ASSUME IInv, NEW a \in Aborters, AbortLocks(a)
  PROVE  IInv'
<1>1. AbortPcOk' /\ signalled' \in BOOLEAN
  BY DEF IInv, TypeOK, AbortLocks, AbortPcOk
<1>2. CASE round \in Terminal
  <2>1. UNCHANGED <<stateVars, sent>>
    BY <1>2 DEF AbortLocks, AbortUnlessTerminal
  <2>2. ReturnedMeansTerminal'
    BY <1>2, <2>1 DEF ReturnedMeansTerminal, stateVars
  <2>3. QED
    BY <1>1, <2>1, <2>2, StutterStep
<1>3. CASE round \notin Terminal
  BY <1>1, <1>3, AbortStep DEF AbortLocks, AbortUnlessTerminal
<1>4. QED
  BY <1>2, <1>3

-----------------------------------------------------------------------------
(* The theorems.                                                           *)

(* The invariant holds in every reachable state of the client. *)
THEOREM IInvHolds == Spec => []IInv
<1>1. Init => IInv
  <2> SUFFICES ASSUME Init PROVE IInv
    OBVIOUS
  <2>1. others \in [0..(0 - 1) -> OtherClientState]
    BY DEF Init, NoNeighbors
  <2>2. TypeOK
    <3>1. \E n \in 0..MaxNeighbors : others \in [0..(n - 1) -> OtherClientState]
      <4>1. 0 \in 0..MaxNeighbors
        BY ClientAssumption
      <4>2. QED
        BY <2>1, <4>1
    <3>2. ownId \in Ids /\ alive \in 0..MaxNeighbors
      BY ClientAssumption DEF Init, Ids
    <3>3. inputSet \in BOOLEAN /\ signalled \in BOOLEAN
      BY DEF Init
    <3>4. round \in Round /\ sent \in Seq(Message)
      BY DEF Init, Round
    <3>5. abortPc \in [Aborters -> {"idle", "locking", "returned"}]
      BY DEF Init
    <3>6. QED
      BY <3>1, <3>2, <3>3, <3>4, <3>5 DEF TypeOK
  <2>3. Ordered(sent, 0)
    BY DEF Init, Ordered
  <2>4. SentOk
    BY <2>3, OrderedIsOk DEF SentOk
  <2>5. QED
    BY <2>2, <2>3, <2>4 DEF Init, IInv, AliveCountMatches, MessagesMatchRound,
                            ReturnedMeansTerminal
<1>2. IInv /\ [Next]_vars => IInv'
  <2> SUFFICES ASSUME IInv, [Next]_vars PROVE IInv'
    OBVIOUS
  <2>1. CASE Start
    BY <2>1, StartStep
  <2>2. CASE \E valid \in BOOLEAN : SetInput(valid)
    BY <2>2, SetInputStep
  <2>3. CASE ReceiveMessage
    BY <2>3, ServerAbortStep, UnexpectedStep, ShareKeysStep, MaskedInputStep,
       UnmaskingStep DEF ReceiveMessage
  <2>4. CASE \E a \in Aborters : AbortSignals(a) \/ AbortLocks(a)
    BY <2>4, AbortSignalsStep, AbortLocksStep
  <2>5. CASE UNCHANGED vars
    <3>1. UNCHANGED <<stateVars, sent>> /\ signalled' = signalled /\ abortPc' = abortPc
      BY <2>5 DEF vars, stateVars
    <3>2. signalled' \in BOOLEAN /\ AbortPcOk' /\ ReturnedMeansTerminal'
      BY <3>1 DEF IInv, TypeOK, AbortPcOk, ReturnedMeansTerminal, stateVars
    <3>3. QED
      BY <3>1, <3>2, StutterStep
  <2>6. QED
    BY <2>1, <2>2, <2>3, <2>4, <2>5 DEF Next
<1>3. QED
  BY <1>1, <1>2, PTL DEF Spec

(* The client's state is always well typed, and there are never more       *)
(* neighbours than max_neighbors_expected.                                 *)
THEOREM TypeCorrect == Spec => []TypeOK
<1>1. IInv => TypeOK
  BY DEF IInv
<1>2. QED
  BY <1>1, IInvHolds, PTL

(* number_of_alive_neighbors_ is exact and never below the threshold. *)
THEOREM AliveCountCorrect == Spec => []AliveCountMatches
<1>1. IInv => AliveCountMatches
  BY DEF IInv
<1>2. QED
  BY <1>1, IInvHolds, PTL

(* The client's messages are sent in order, each at most once. *)
THEOREM OrderCorrect == Spec => []SentInProtocolOrder
<1>1. IInv => SentInProtocolOrder
  BY DEF IInv, SentOk, InOrder, SentInProtocolOrder
<1>2. QED
  BY <1>1, IInvHolds, PTL

(* The shares in the unmasking response match the masks of the masked      *)
(* input: one share of each masked neighbour, never both.                  *)
THEOREM UnmaskingCorrect == Spec => []UnmaskingMatchesMasks
<1>1. IInv => UnmaskingMatchesMasks
  BY DEF IInv, SentOk, Matches, UnmaskingMatchesMasks
<1>2. QED
  BY <1>1, IInvHolds, PTL

(* The count of live neighbours and the revealed shares are both right in  *)
(* every reachable state.                                                  *)
THEOREM UnmaskingSound == Spec => []UnmaskingIsSound
<1>1. AliveCountMatches /\ UnmaskingMatchesMasks => UnmaskingIsSound
  BY DEF UnmaskingIsSound
<1>2. QED
  BY <1>1, AliveCountCorrect, UnmaskingCorrect, PTL

(* Once Abort has returned the client stays as it is: no handler that was  *)
(* under way revives it or sends another message.                          *)
THEOREM AbortFinal == Spec => AbortIsFinal
<1> DEFINE Stays == (\E a \in Aborters : abortPc[a] = "returned") =>
                      round \in Terminal /\ UNCHANGED <<round, sent>>
<1>1. IInv /\ [Next]_vars => [Stays]_vars
  <2> SUFFICES ASSUME IInv, [Next]_vars, round \in Terminal
               PROVE  UNCHANGED <<round, sent>>
    BY DEF IInv, ReturnedMeansTerminal
  <2>1. CASE Start
    BY <2>1 DEF Start, Reject, Terminal, stateVars
  <2>2. CASE \E valid \in BOOLEAN : SetInput(valid)
    BY <2>2 DEF SetInput, AcceptsInput, Reject, stateVars
  <2>3. CASE ReceiveMessage
    BY <2>3 DEF ReceiveMessage, HandleServerAbort, HandleUnexpected, Reject,
       HandleShareKeysRequest, HandleMaskedInputCollectionRequest,
       HandleUnmaskingRequest, Terminal, stateVars
  <2>4. CASE \E a \in Aborters : AbortSignals(a) \/ AbortLocks(a)
    BY <2>4 DEF AbortSignals, AbortLocks, AbortUnlessTerminal, stateVars
  <2>5. CASE UNCHANGED vars
    BY <2>5 DEF vars, stateVars
  <2>6. QED
    BY <2>1, <2>2, <2>3, <2>4, <2>5 DEF Next
<1>2. QED
  BY <1>1, IInvHolds, PTL DEF Spec, AbortIsFinal
=============================================================================
