---------------------------- MODULE SecAggClient ----------------------------
(***************************************************************************)
(* The Secure Aggregation client: SecAggClient, the base classes of its    *)
(* states and the ten states themselves.                                   *)
(*                                                                         *)
(* mu_ serialises Start, SetInput, ReceiveMessage and the second half of   *)
(* Abort; the first half of Abort raises the abort signal without it.  The *)
(* handlers poll that signal between steps that only touch local data, so  *)
(* a handler is one action: when the signal is up it has either seen it at *)
(* some poll or passed its last poll before it was raised.                 *)
(*                                                                         *)
(* Nothing is assumed of the server: any message may arrive at any time.   *)
(* Keys and shares are reduced to what the client tells apart.             *)
(***************************************************************************)
EXTENDS Integers, FiniteSets, Sequences

CONSTANTS
  MaxNeighbors,   \* max_neighbors_expected
  MinSurviving,   \* minimum_surviving_neighbors_for_reconstruction
  Width,          \* the width of the client ids on the wire, in bits
  Aborters        \* the threads that may call Abort

ASSUME ClientAssumption ==
  /\ MaxNeighbors \in Nat /\ MinSurviving \in 1..MaxNeighbors
  /\ Width \in Nat /\ MaxNeighbors < 2^Width

VARIABLES
  round,     \* the kind of the current SecAggClientState ...
  inputSet,  \* ... and whether it is an INPUT_SET one
  ownId,     \* client_id_
  others,    \* other_client_states_, indexed from 0 as in the code
  alive,     \* number_of_alive_neighbors_
  sent,      \* the messages given to sender_, oldest first
  signalled, \* abort_signal_
  abortPc,   \* how far each caller of Abort has come
  ret        \* the last return of a public method: <<method, status>>

stateVars == <<round, inputSet, ownId, others, alive>>
vars == <<stateVars, sent, signalled, abortPc, ret>>

Terminal == {"COMPLETED", "ABORTED"}
Round == {"R0_ADVERTISE_KEYS", "R1_SHARE_KEYS", "R2_MASKED_INPUT_COLL",
          "R2_WAITING_FOR_INPUT", "R3_UNMASKING"} \cup Terminal
OtherClientState == {"kAlive", "kDeadAtRound1", "kDeadAtRound2",
                     "kDeadAtRound3"}

Neighbors == DOMAIN others
NoNeighbors == [i \in {} |-> "kAlive"]
InState(s) == {i \in Neighbors : others[i] = s}

(* Messages to the server; what matters of the last two is whose pairwise  *)
(* masks were applied and which shares are revealed.                       *)
Plain(type) == [type |-> type, masks |-> {}, prf |-> {}, noise |-> {}]
MaskedInput(M) ==
  [type |-> "masked_input_response", masks |-> M, prf |-> {}, noise |-> {}]
Unmasking(P, N) ==
  [type |-> "unmasking_response", masks |-> {}, prf |-> P, noise |-> N]

Send(m) == sent' = Append(sent, m)
Return(call, status) == ret' = <<call, status>>

-----------------------------------------------------------------------------
(* Transitions shared by the states.                                       *)

(* The objects of the old state are destroyed with it.                     *)
Erase == inputSet' = FALSE /\ ownId' = 0 /\ others' = NoNeighbors /\ alive' = 0

AbortAndNotifyServer ==
  /\ round' = "ABORTED" /\ Erase
  /\ Send(Plain("abort"))

Reject(call, status) ==
  /\ Return(call, status)
  /\ UNCHANGED <<stateVars, sent>>

(* What every alive state does with an abort message of the server.        *)
HandleServerAbort(earlySuccess) ==
  /\ round \notin Terminal
  /\ round' = IF earlySuccess THEN "COMPLETED" ELSE "ABORTED"
  /\ Erase
  /\ Return("ReceiveMessage", "FALSE")
  /\ UNCHANGED <<sent, signalled, abortPc>>

(* SecAggClientState::HandleMessage: a message the state does not expect.  *)
Expected == [R1_SHARE_KEYS |-> "share_keys_request",
             R2_MASKED_INPUT_COLL |-> "masked_input_request",
             R3_UNMASKING |-> "unmasking_request"]

HandleUnexpected(type) ==
  /\ type = "abort" => round \in Terminal
  /\ round \in DOMAIN Expected => type # Expected[round]
  /\ Reject("ReceiveMessage", "FAILED_PRECONDITION")
  /\ UNCHANGED <<signalled, abortPc>>

(* A handler fails when it finds a fault in the request or sees the abort  *)
(* signal at one of its polls.                                             *)
HandlerFails(requestOk) ==
  /\ ~requestOk \/ signalled
  /\ AbortAndNotifyServer
  /\ Return("ReceiveMessage", "FALSE")
  /\ UNCHANGED <<signalled, abortPc>>

-----------------------------------------------------------------------------
(* Public methods.                                                         *)

Start ==
  /\ IF round = "R0_ADVERTISE_KEYS"
     THEN /\ round' = "R1_SHARE_KEYS"
          /\ Send(Plain("advertise_keys"))
          /\ Return("Start", "OK")
          /\ UNCHANGED <<inputSet, ownId, others, alive>>
     ELSE Reject("Start", "FAILED_PRECONDITION")
  /\ UNCHANGED <<signalled, abortPc>>

AcceptsInput ==
  round \notin Terminal \cup {"R3_UNMASKING"} /\ ~inputSet

(* The neighbours whose pairwise keys go into the masks.                   *)
Masks(o, own) == {i \in DOMAIN o \ {own} : o[i] = "kAlive"}

(* SetInput of each state; valid is the outcome of ValidateInput.  When    *)
(* the request for the input is already here, the input is sent at once.   *)
SetInput(valid) ==
  /\ \/ ~AcceptsInput /\ Reject("SetInput", "FAILED_PRECONDITION")
     \/ AcceptsInput /\ ~valid /\ Reject("SetInput", "INVALID_ARGUMENT")
     \/ /\ AcceptsInput /\ valid
        /\ Return("SetInput", "OK")
        /\ inputSet' = TRUE
        /\ IF round = "R2_WAITING_FOR_INPUT"
           THEN /\ Send(MaskedInput(Masks(others, ownId)))
                /\ round' = "R3_UNMASKING"
           ELSE UNCHANGED <<round, sent>>
        /\ UNCHANGED <<ownId, others, alive>>
  /\ UNCHANGED <<signalled, abortPc>>

(* Round 1.  keys gives, for each neighbour, whether its public keys are   *)
(* empty, bad (wrong size or not on the curve), this client's or another's.*)
KeyKind == {"empty", "bad", "own", "other"}
Own(keys) == {i \in DOMAIN keys : keys[i] = "own"}
Present(keys) == {i \in DOMAIN keys : keys[i] # "empty"}

RightSize(keys) == Cardinality(DOMAIN keys) \in MinSurviving..MaxNeighbors

ShareKeysRequestOk(keys, sessionId) ==
  /\ RightSize(keys)
  /\ sessionId
  /\ \A i \in DOMAIN keys : keys[i] # "bad"
  /\ Cardinality(Own(keys)) = 1
  /\ Cardinality(Present(keys)) >= MinSurviving

HandleShareKeysRequest(keys, sessionId) ==
  /\ round = "R1_SHARE_KEYS"
  /\ \/ HandlerFails(ShareKeysRequestOk(keys, sessionId))
     \/ /\ ShareKeysRequestOk(keys, sessionId)
        /\ ownId' \in Own(keys)
        /\ others' = [i \in DOMAIN keys |-> IF keys[i] = "empty"
                                            THEN "kDeadAtRound1" ELSE "kAlive"]
        /\ alive' = Cardinality(Present(keys))
        /\ round' = "R2_MASKED_INPUT_COLL"
        /\ Send(Plain("share_keys_response"))
        /\ Return("ReceiveMessage", "TRUE")
        /\ UNCHANGED <<inputSet, signalled, abortPc>>

(* Round 2.  shares gives the encrypted key shares of each neighbour:      *)
(* empty, undecipherable or good.  This client's own entry is not looked   *)
(* at.                                                                     *)
ShareKind == {"empty", "bad", "good"}

Lost(shares) ==
  {i \in Neighbors \ {ownId} : others[i] = "kAlive" /\ shares[i] = "empty"}

MaskedInputRequestOk(shares) ==
  /\ DOMAIN shares = Neighbors
  /\ \A i \in Neighbors \ {ownId} :
       IF others[i] = "kAlive" THEN shares[i] # "bad" ELSE shares[i] = "empty"
  /\ alive - Cardinality(Lost(shares)) >= MinSurviving

HandleMaskedInputCollectionRequest(shares) ==
  /\ round = "R2_MASKED_INPUT_COLL"
  /\ \/ HandlerFails(MaskedInputRequestOk(shares))
     \/ /\ MaskedInputRequestOk(shares)
        /\ others' = [i \in Neighbors |-> IF i \in Lost(shares)
                                          THEN "kDeadAtRound2" ELSE others[i]]
        /\ alive' = alive - Cardinality(Lost(shares))
        /\ IF inputSet
           THEN /\ Send(MaskedInput(Masks(others', ownId)))
                /\ round' = "R3_UNMASKING"
           ELSE round' = "R2_WAITING_FOR_INPUT" /\ UNCHANGED sent
        /\ Return("ReceiveMessage", "TRUE")
        /\ UNCHANGED <<inputSet, ownId, signalled, abortPc>>

(* Round 3.  The request lists the clients that died, with ids from one;   *)
(* the subtraction is unsigned, so the id 0 wraps around.                  *)
NeighborId(i) == (i - 1) % 2^Width

(* The p-th entry names a neighbour, other than this client, that is alive *)
(* and not named before.                                                   *)
MayDie(dead, p) ==
  LET id == NeighborId(dead[p])
  IN  /\ id # ownId /\ id \in InState("kAlive")
      /\ \A q \in 1..(p - 1) : NeighborId(dead[q]) # id

UnmaskingRequestOk(dead) ==
  /\ \A p \in 1..Len(dead) : MayDie(dead, p)
  /\ alive - Len(dead) >= MinSurviving

(* Defective variant: a pairwise share is revealed for every dead client.  *)
NoiseSharesOfAllDead(dead) ==
  {NeighborId(dead[p]) : p \in 1..Len(dead)} \cup InState("kDeadAtRound2")

NoiseShares(dead) == {NeighborId(dead[p]) : p \in 1..Len(dead)}

HandleUnmaskingRequest(dead) ==
  /\ round = "R3_UNMASKING"
  /\ \/ HandlerFails(UnmaskingRequestOk(dead))
     \/ /\ UnmaskingRequestOk(dead)
        /\ LET N == NoiseShares(dead)
           IN  Send(Unmasking(InState("kAlive") \ N, N))
        /\ round' = "COMPLETED" /\ Erase
        /\ Return("ReceiveMessage", "FALSE")
        /\ UNCHANGED <<signalled, abortPc>>

-----------------------------------------------------------------------------
(* Abort: the signal first, then the lock.                                 *)

AbortSignals(a) ==
  /\ abortPc[a] = "idle"
  /\ signalled' = TRUE
  /\ abortPc' = [abortPc EXCEPT ![a] = "locking"]
  /\ UNCHANGED <<stateVars, sent, ret>>

(* Defective variants: a client that a handler already aborted is aborted  *)
(* again; a running handler is relied upon to see the signal.              *)
AbortAlways == AbortAndNotifyServer
AbortLeftToHandlers == UNCHANGED <<stateVars, sent>>

AbortUnlessTerminal ==
  IF round \in Terminal THEN UNCHANGED <<stateVars, sent>>
  ELSE AbortAndNotifyServer

AbortLocks(a) ==
  /\ abortPc[a] = "locking"
  /\ AbortUnlessTerminal
  /\ Return("Abort", "OK")
  /\ abortPc' = [abortPc EXCEPT ![a] = "returned"]
  /\ UNCHANGED signalled

-----------------------------------------------------------------------------
Init ==
  /\ round = "R0_ADVERTISE_KEYS" /\ inputSet = FALSE
  /\ ownId = 0 /\ others = NoNeighbors /\ alive = 0
  /\ sent = <<>>
  /\ signalled = FALSE
  /\ abortPc = [a \in Aborters |-> "idle"]
  /\ ret = <<"none", "OK">>

(* What a server may send: vectors of up to one entry too many, and lists  *)
(* of up to MaxNeighbors ids from 0 to one past the last.                  *)
Vectors(S) == UNION {[0..(n - 1) -> S] : n \in 0..(MaxNeighbors + 1)}
IdLists == UNION {[1..n -> 0..(MaxNeighbors + 1)] : n \in 0..MaxNeighbors}

ReceiveMessage ==
  \/ \E earlySuccess \in BOOLEAN : HandleServerAbort(earlySuccess)
  \/ \E type \in {Expected[r] : r \in DOMAIN Expected} \cup {"abort", "unset"} :
       HandleUnexpected(type)
  \/ \E keys \in Vectors(KeyKind), sessionId \in BOOLEAN :
       HandleShareKeysRequest(keys, sessionId)
  \/ \E shares \in Vectors(ShareKind) :
       HandleMaskedInputCollectionRequest(shares)
  \/ \E dead \in IdLists : HandleUnmaskingRequest(dead)

Next ==
  \/ Start
  \/ \E valid \in BOOLEAN : SetInput(valid)
  \/ ReceiveMessage
  \/ \E a \in Aborters : AbortSignals(a) \/ AbortLocks(a)

Spec == Init /\ [][Next]_vars

-----------------------------------------------------------------------------
(* Properties.                                                             *)

Types == <<"advertise_keys", "share_keys_response", "masked_input_response",
           "unmasking_response">>
Ids == 0..(MaxNeighbors - 1)
Message == [type : {"abort"} \cup {Types[k] : k \in 1..4},
            masks : SUBSET Ids, prf : SUBSET Ids, noise : SUBSET Ids]

(* Type correctness; there are never more neighbours than expected.        *)
TypeOK ==
  /\ round \in Round /\ inputSet \in BOOLEAN
  /\ ownId \in Ids
  /\ \E n \in 0..MaxNeighbors : others \in [0..(n - 1) -> OtherClientState]
  /\ alive \in 0..MaxNeighbors
  /\ sent \in Seq(Message)
  /\ signalled \in BOOLEAN
  /\ abortPc \in [Aborters -> {"idle", "locking", "returned"}]

(* number_of_alive_neighbors_, which three handlers in three state classes *)
(* maintain, is the number of neighbours marked alive, this client is one  *)
(* of them, and they are enough to reconstruct.                            *)
AliveCountMatches ==
  round \in {"R2_MASKED_INPUT_COLL", "R2_WAITING_FOR_INPUT", "R3_UNMASKING"} =>
    /\ alive = Cardinality(InState("kAlive"))
    /\ ownId \in InState("kAlive")
    /\ alive >= MinSurviving

(* Whatever the server sends and whenever Abort is called, the client      *)
(* sends its messages in the order of the rounds, each at most once, and   *)
(* nothing after it has said that it aborts.                               *)
SentInProtocolOrder ==
  \A i \in 1..Len(sent) :
    \/ i <= 4 /\ sent[i].type = Types[i]
    \/ i = Len(sent) /\ sent[i].type = "abort"

(* The unmasking response reveals exactly one share of each neighbour      *)
(* whose pairwise mask is in the masked input that was sent, and none of   *)
(* any other: neither a mask the server could not remove, nor both keys of *)
(* one client.  Self shares are revealed only if enough clients survive.   *)
UnmaskingMatchesMasks ==
  Len(sent) = 4 /\ sent[4].type = "unmasking_response" =>
    /\ sent[4].prf \cap sent[4].noise = {}
    /\ \E own \in sent[4].prf :
         /\ own \notin sent[3].masks
         /\ sent[4].prf \cup sent[4].noise = sent[3].masks \cup {own}
    /\ Cardinality(sent[4].prf) >= MinSurviving

(* What the client reveals in the last round rests on its count of live    *)
(* neighbours: the count matches their states in every round, and the      *)
(* shares revealed match the masks that were applied.                      *)
UnmaskingIsSound == AliveCountMatches /\ UnmaskingMatchesMasks

(* Once a call of Abort has returned, the client is terminal for good and  *)
(* never sends again, even if a handler missed the signal.                 *)
AbortIsFinal ==
  [][(\E a \in Aborters : abortPc[a] = "returned") =>
       round \in Terminal /\ UNCHANGED <<round, sent>>]_vars

-----------------------------------------------------------------------------
(* What the documentation of SecAggClient says and the code does not do.   *)

(* Start "will be OK unless it is called more than once".                  *)
StartFailsOnlyWhenRepeated ==
  ret = <<"Start", "FAILED_PRECONDITION">> =>
    sent # <<>> /\ sent[1].type = "advertise_keys"
=============================================================================
