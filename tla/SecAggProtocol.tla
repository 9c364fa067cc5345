--------------------------- MODULE SecAggProtocol ---------------------------
(***************************************************************************)
(* One Secure Aggregation session end to end: the server's state machine   *)
(* (SecAggServer), the protocol data behind it (SecAggServerProtocolImpl), *)
(* the sharing graph, the clients, and the streams between them.           *)
(*                                                                         *)
(* Cryptography is symbolic.  A mask is named by the pair of clients that  *)
(* can compute it, <<c, c>> being the self mask of c; a masked vector is   *)
(* the coefficient of every mask in it.  The share that client c deals to  *)
(* position i of its neighbour list is <<c, i>>, and only the neighbour at *)
(* that position can decrypt it.                                           *)
(*                                                                         *)
(* The public keys, the encrypted shares and the list of dropped clients   *)
(* no longer change once the request made of them has been sent, so a      *)
(* client reads the content of a request where the server keeps it, rather *)
(* than from a copy.  Round 2 is the synchronous one; MaskedInputQueue and *)
(* Accumulator model the asynchronous one.                                 *)
(***************************************************************************)
EXTENDS SecAggServer

CONSTANTS
  Graph,       \* secret_sharing_graph_
  Unreliable   \* bound: the clients that may abort or lose their connection

VARIABLES
  keys,        \* the clients whose entry of pairs_of_public_keys_ is set
  encShares,   \* encrypted_shares_
  sum,         \* coefficient of each mask in the sum of the masked inputs
  inputs,      \* how often each client's input was added to the sum
  pairwiseTable, \* pairwise_shamir_share_table_
  selfTable,   \* self_shamir_share_table_
  work,        \* the PRNG work items, as coefficients of the masks
  round,       \* the round each client is in
  alive,       \* the positions each client has as kAlive
  up,          \* all messages each client sent, oldest first
  got,         \* how many of these the server has received
  read         \* how many messages of the server each client has read

serverData == <<keys, encShares, sum, inputs, pairwiseTable, selfTable,
                work>>
clientVars == <<round, alive, read>>
protocolVars == <<vars, serverData, clientVars, up, got>>

G == INSTANCE SecretSharingGraph WITH graph <- Graph, MaxNodes <- Graph.nodes

Neighbor(c, i) == G!GetNeighbor(Graph, c, i)
Index(c, d) == G!GetNeighborIndex(Graph, c, d)
Pos == G!Positions(Graph)
Threshold == Graph.threshold

ASSUME GraphAssumption ==
  /\ Clients = G!Nodes(Graph)
  /\ Graph.kind = "complete" => Graph.threshold = MinClients
  /\ ~AsyncRound2 /\ Unreliable \subseteq Clients

NoShare == <<>>
MaskKeys == {<<a, b>> \in Clients \X Clients : a <= b}
MaskOf(c, d) == IF c <= d THEN <<c, d>> ELSE <<d, c>>

(* The messages of a client: data is a share for each position, or the     *)
(* masked vector; kind tells noise from prf shares.                        *)
Msg(type, data, kind) == [type |-> type, data |-> data, kind |-> kind]
Bare(type) == Msg(type, NoShare, NoShare)

-----------------------------------------------------------------------------
(* The clients.                                                            *)

Sends(c, m) == up' = [up EXCEPT ![c] = Append(@, m)]
Enters(c, r) == round' = [round EXCEPT ![c] = r]
Own(c) == CHOOSE i \in Pos : Neighbor(c, i) = c

ClientStart(c) ==
  /\ round[c] = "R0"
  /\ Enters(c, "R1") /\ Sends(c, Bare("advertise_keys"))
  /\ UNCHANGED <<vars, serverData, alive, got, read>>

(* A fault in a request, too few neighbours, or a call of Abort.           *)
GivesUp(c) ==
  /\ Enters(c, "done") /\ Sends(c, Bare("abort"))
  /\ UNCHANGED alive

OnShareKeysRequest(c) ==
  LET A == {i \in Pos : Neighbor(c, i) \in keys}
  IN  IF Cardinality(A) < Threshold \/ Own(c) \notin A THEN GivesUp(c)
      ELSE /\ alive' = [alive EXCEPT ![c] = A]
           /\ Enters(c, "R2")
           /\ Sends(c, Msg("share_keys_response",
                           [i \in Pos |-> IF i \in A \ {Own(c)} THEN <<c, i>>
                                          ELSE NoShare], NoShare))

(* Position i of c holds a share dealt by the neighbour there, for c.      *)
Decrypts(c, i) ==
  /\ encShares[c][i][1] = Neighbor(c, i)
  /\ Neighbor(encShares[c][i][1], encShares[c][i][2]) = c

(* The self mask is added, so are the masks shared with the neighbours     *)
(* listed before this client; the others are subtracted.                   *)
Masked(c, A) ==
  [k \in MaskKeys |->
     CASE k = <<c, c>> -> 1
       [] \E i \in A : i < Own(c) /\ k = MaskOf(c, Neighbor(c, i)) -> 1
       [] \E i \in A : i > Own(c) /\ k = MaskOf(c, Neighbor(c, i)) -> -1
       [] OTHER -> 0]

OnMaskedInputRequest(c) ==
  LET A == {i \in alive[c] : i = Own(c) \/ encShares[c][i] # NoShare}
  IN  IF \/ \E i \in Pos \ alive[c] : encShares[c][i] # NoShare
         \/ \E i \in A \ {Own(c)} : ~Decrypts(c, i)
         \/ Cardinality(A) < Threshold
      THEN GivesUp(c)
      ELSE /\ alive' = [alive EXCEPT ![c] = A]
           /\ Enters(c, "R3")
           /\ Sends(c, Msg("masked_input_response", Masked(c, A), NoShare))

(* Defective variant: the clients that did not answer are dropped in the   *)
(* loop that sends the requests, so earlier requests do not name them.     *)
DeadPositionsSoFar(c) ==
  {Index(c, d) : d \in {x \in abortedAt2 : dropReason[x] # "NO_RESPONSE" \/ x < c}}
    \cap Pos

(* dead_3_client_ids, without the shift by one.                            *)
DeadPositions(c) == {Index(c, d) : d \in abortedAt2} \cap Pos

OnUnmaskingRequest(c) ==
  LET D == DeadPositions(c)
      share(i) == IF i = Own(c) THEN <<c, i>> ELSE encShares[c][i]
  IN  IF \/ ~(D \subseteq alive[c] \ {Own(c)})
         \/ Cardinality(alive[c] \ D) < Threshold
      THEN GivesUp(c)
      ELSE /\ UNCHANGED alive
           /\ Enters(c, "done")
           /\ Sends(c, Msg("unmasking_response",
                           [i \in Pos |-> IF i \in alive[c] THEN share(i)
                                          ELSE NoShare],
                           [i \in Pos |-> CASE i \in D -> "noise"
                                            [] i \in alive[c] \ D -> "prf"
                                            [] OTHER -> "none"]))

Unread(c) == sent[c][read[c] + 1]

ClientReceives(c) ==
  /\ read[c] < Len(sent[c]) /\ round[c] # "done"
  /\ read' = [read EXCEPT ![c] = @ + 1]
  /\ \/ /\ Unread(c) \in Closing
        /\ Enters(c, "done") /\ UNCHANGED <<up, alive>>
     \/ Unread(c) = "share_keys_request" /\ OnShareKeysRequest(c)
     \/ Unread(c) = "masked_input_request" /\ OnMaskedInputRequest(c)
     \/ Unread(c) = "unmasking_request" /\ OnUnmaskingRequest(c)
  /\ UNCHANGED <<vars, serverData, got>>

ClientAborts(c) ==
  /\ round[c] # "done"
  /\ GivesUp(c)
  /\ UNCHANGED <<vars, serverData, got, read>>

-----------------------------------------------------------------------------
(* SecAggServerProtocolImpl.                                               *)

(* Defective variant: the sharing of a client that has died since is also  *)
(* taken for an unexpected one.                                            *)
ShareExpectedFromLive(c, i) ==
  Neighbor(c, i) # c /\ ~IsClientDead(Neighbor(c, i))

ShareExpected(c, i) ==
  /\ Neighbor(c, i) # c
  /\ status[Neighbor(c, i)] # "DEAD_BEFORE_SENDING_ANYTHING"

MaskType(s) ==
  CASE s \in {"SHARE_KEYS_RECEIVED", "DEAD_AFTER_SHARE_KEYS_RECEIVED"} -> "noise"
    [] s \in IncludedStatus -> "prf"
    [] OTHER -> "none"

(* The verdict of the protocol implementation on a message.                *)
Valid(c, m) ==
  CASE m.type = "share_keys_response" ->
         \A i \in Pos : (m.data[i] # NoShare) <=> ShareExpected(c, i)
    [] m.type = "unmasking_response" ->
         \A i \in Pos : m.kind[i] = MaskType(status[Neighbor(c, i)])
    [] OTHER -> TRUE

(* What c sends for its i-th neighbour goes to that neighbour's row, where *)
(* the table has one, at the position c has in the neighbour's list.       *)
Routed(c, data, table) ==
  [d \in DOMAIN table |->
     LET from == {i \in Pos : Neighbor(c, i) = d}
     IN  IF from = {} THEN table[d]
         ELSE [table[d] EXCEPT ![Index(d, c)] = data[CHOOSE i \in from : TRUE]]]

Erased(c) == Routed(c, [i \in Pos |-> NoShare], encShares)

HandleAdvertiseKeys(c) ==
  keys' = keys \cup {c} /\ UNCHANGED <<encShares, sum, inputs, pairwiseTable,
                                       selfTable, work>>

HandleShareKeysResponse(c, m) ==
  /\ encShares' = Routed(c, m.data, encShares)
  /\ UNCHANGED <<keys, sum, inputs, pairwiseTable, selfTable, work>>

HandleMaskedInputCollectionResponse(c, m) ==
  /\ sum' = [k \in MaskKeys |-> sum[k] + m.data[k]]
  /\ inputs' = [inputs EXCEPT ![c] = @ + 1]
  /\ UNCHANGED <<keys, encShares, pairwiseTable, selfTable, work>>

HandleUnmaskingResponse(c, m) ==
  /\ pairwiseTable' = Routed(c, m.data, pairwiseTable)
  /\ selfTable' = Routed(c, m.data, selfTable)
  /\ UNCHANGED <<keys, encShares, sum, inputs, work>>

(* HandleAbortClient erases what a client dropped in rounds 0 and 1 sent.  *)
EraseDropped(c) ==
  /\ keys' = IF state = "R0_ADVERTISE_KEYS" THEN keys \ {c} ELSE keys
  /\ encShares' = IF /\ state = "R1_SHARE_KEYS"
                     /\ status[c] = "SHARE_KEYS_RECEIVED"
                  THEN Erased(c) ELSE encShares
  /\ UNCHANGED <<sum, inputs, pairwiseTable, selfTable, work>>

Accepted == received' > received
Dropped(c) == ~IsClientDead(c) /\ IsClientDead(c)'

ServerReceives(c) ==
  /\ got[c] < Len(up[c])
  /\ got' = [got EXCEPT ![c] = @ + 1]
  /\ LET m == up[c][got[c] + 1]
     IN  /\ ReceiveMessage(c, m.type, Valid(c, m))
         /\ CASE Accepted /\ m.type = "advertise_keys" -> HandleAdvertiseKeys(c)
              [] Accepted /\ m.type = "share_keys_response" ->
                   HandleShareKeysResponse(c, m)
              [] Accepted /\ m.type = "masked_input_response" ->
                   HandleMaskedInputCollectionResponse(c, m)
              [] Accepted /\ m.type = "unmasking_response" ->
                   HandleUnmaskingResponse(c, m)
              [] Dropped(c) -> EraseDropped(c)
              [] OTHER -> UNCHANGED serverData
  /\ UNCHANGED <<clientVars, up>>

(* The owner of the server reports a lost connection; what was still under *)
(* way is lost with it.                                                    *)
Disconnect(c) ==
  /\ round[c] # "done" \/ got[c] < Len(up[c])
  /\ ServerAbortClient(c, "CONNECTION_DROPPED")
  /\ IF Dropped(c) THEN EraseDropped(c) ELSE UNCHANGED serverData
  /\ Enters(c, "done")
  /\ got' = [got EXCEPT ![c] = Len(up[c])]
  /\ UNCHANGED <<alive, read, up>>

-----------------------------------------------------------------------------
(* Leaving a round.                                                        *)

SetUpShamirSharesTables ==
  LET Rows(type) == {c \in Clients : MaskType(status'[c]) = type}
      Empty(S) == [c \in S |-> [i \in Pos |-> NoShare]]
  IN  pairwiseTable' = Empty(Rows("noise")) /\ selfTable' = Empty(Rows("prf"))

(* ShamirSecretSharing::Reconstruct uses the first Threshold shares, and   *)
(* returns the dealt secret if each of them is where it belongs.           *)
Used(row) ==
  {i \in Pos : /\ row[i] # NoShare
              /\ Cardinality({j \in Pos : j < i /\ row[j] # NoShare}) < Threshold}
Recovered(table) ==
  {c \in DOMAIN table : \A i \in Used(table[c]) : table[c][i] = <<c, i>>}

Enough(row) == Cardinality(Used(row)) = Threshold

HandleShamirReconstruction ==
  /\ \A c \in DOMAIN pairwiseTable : Enough(pairwiseTable[c])
  /\ \A c \in DOMAIN selfTable : Enough(selfTable[c])

(* Defective variant: a client that died after it sent its masked input is *)
(* left out, although its input is in the sum.                             *)
SummedAndUnmasked == With(UnmaskedStatus)

Summed == With(UnmaskedStatus \cup {"DEAD_AFTER_MASKED_INPUT_RESPONSE_RECEIVED"})

InitializePrng(S) ==
  LET correction(i, x) ==
        IF i \in S /\ x \in Recovered(pairwiseTable) /\ G!AreNeighbors(Graph, i, x)
        THEN IF G!IsOutgoingNeighbor(Graph, i, x) THEN 1 ELSE -1
        ELSE 0
  IN  [k \in MaskKeys |->
         IF k[1] = k[2]
         THEN IF k[1] \in S \cap Recovered(selfTable) THEN -1 ELSE 0
         ELSE correction(k[1], k[2]) + correction(k[2], k[1])]

ServerProceeds ==
  /\ \/ /\ R0ProceedToNextRound \/ R1ProceedToNextRound
        /\ UNCHANGED serverData
     \/ /\ R2ProceedToNextRound
        /\ SetUpShamirSharesTables
        /\ UNCHANGED <<keys, encShares, sum, inputs, work>>
     \/ /\ R3ProceedToNextRound(HandleShamirReconstruction)
        /\ work' = IF HandleShamirReconstruction THEN InitializePrng(Summed')
                   ELSE work
        /\ UNCHANGED <<keys, encShares, sum, inputs, pairwiseTable, selfTable>>
     \/ /\ PrngProceedToNextRound \/ ProceedToAborted
        /\ UNCHANGED serverData
  /\ UNCHANGED <<clientVars, up, got>>

ServerAborts ==
  /\ Abort
  /\ UNCHANGED <<serverData, clientVars, up, got>>

PrngFinishes ==
  /\ PrngRunnerFinished
  /\ sum' = [k \in MaskKeys |-> sum[k] + work[k]]
  /\ UNCHANGED <<keys, encShares, inputs, pairwiseTable, selfTable, work,
                 clientVars, up, got>>

-----------------------------------------------------------------------------
NoMasks == [k \in MaskKeys |-> 0]

ProtocolInit ==
  /\ Init
  /\ keys = {} /\ encShares = [c \in Clients |-> [i \in Pos |-> NoShare]]
  /\ sum = NoMasks /\ inputs = [c \in Clients |-> 0] /\ work = NoMasks
  /\ pairwiseTable = <<>> /\ selfTable = <<>>
  /\ round = [c \in Clients |-> "R0"] /\ alive = [c \in Clients |-> {}]
  /\ up = [c \in Clients |-> <<>>]
  /\ got = [c \in Clients |-> 0] /\ read = [c \in Clients |-> 0]

ClientRuns(c) == ClientStart(c) \/ ClientReceives(c)

ProtocolNext ==
  \/ \E c \in Clients :
       ClientStart(c) \/ ClientReceives(c) \/ ServerReceives(c)
  \/ \E c \in Unreliable : ClientAborts(c) \/ Disconnect(c)
  \/ ServerProceeds \/ ServerAborts \/ PrngFinishes

(* Connected clients run, their messages arrive, the owner of the server   *)
(* proceeds when it may, and the PRNG runner is not starved.               *)
ProtocolFairness ==
  /\ \A c \in Clients :
       WF_protocolVars(ClientRuns(c)) /\ WF_protocolVars(ServerReceives(c))
  /\ WF_protocolVars(ServerProceeds) /\ WF_protocolVars(PrngFinishes)

ProtocolSpec == ProtocolInit /\ [][ProtocolNext]_protocolVars
ProtocolFairSpec == ProtocolSpec /\ ProtocolFairness

-----------------------------------------------------------------------------
(* Properties.                                                             *)

(* What the session is for: a completed session releases the sum of the    *)
(* inputs of the included clients, each counted once, with every mask      *)
(* removed, whichever clients were lost in whichever round.                *)
ResultIsExactSum ==
  state = "COMPLETED" =>
    /\ sum = NoMasks
    /\ \A c \in Clients : inputs[c] = IF c \in IncludedClients THEN 1 ELSE 0

(* No client's input can be uncovered: the clients never reveal shares of  *)
(* both the pairwise key and the self key of the same client, even counted *)
(* over all of them and over answers the server does not use.              *)
Revealed(kind) ==
  {d \in Clients : \E c \in Clients : \E p \in 1..Len(up[c]) :
     /\ up[c][p].type = "unmasking_response"
     /\ \E i \in Pos : Neighbor(c, i) = d /\ up[c][p].kind[i] = kind}

NeverBothKeys == Revealed("noise") \cap Revealed("prf") = {}

(* A client that follows the protocol is never dropped for an invalid or   *)
(* an unexpected message, however late its messages are and whatever has   *)
(* happened to its neighbours in the meantime.                             *)
HonestClientsAreNotBlamed ==
  \A c \in Clients : dropReason[c] \notin {"INVALID", "UNEXPECTED"}

(* With the complete graph, whose threshold is the number of clients       *)
(* needed to proceed, every key needed is recovered; a session that gets   *)
(* past round 3 cannot fail.                                               *)
FullGraphUnmasks ==
  Graph.kind = "complete" => completion # "error"

(* Under the stated fairness the session ends for everyone.                *)
EveryoneFinishes ==
  <>[](state \in Terminal /\ \A c \in Clients : round[c] = "done")
=============================================================================
