-------------------------- MODULE MCSecAggProtocol --------------------------
(***************************************************************************)
(* Two instances of SecAggProtocol for TLC, as two parts of one run: three *)
(* clients that may all fail, on the complete graph, and four clients of   *)
(* which two may fail, on a Harary graph in which each client shares keys  *)
(* with two of the others.                                                 *)
(***************************************************************************)
EXTENDS SecAggProtocol

VARIABLE part   \* the instance this behaviour is of

FullGraph ==
  [kind |-> "complete", nodes |-> Cardinality(Clients),
   degree |-> Cardinality(Clients), threshold |-> MinClients,
   perm |-> <<>>, inv |-> <<>>]

(* Exchanges two nodes, so it is its own inverse.                         *)
Renaming == [i \in 0..3 |-> CASE i = 0 -> 1 [] i = 1 -> 0 [] OTHER -> i]

HararyGraph ==
  [kind |-> "harary", nodes |-> 4, degree |-> 3, threshold |-> 2,
   perm |-> Renaming, inv |-> Renaming]

Sub == INSTANCE SecAggProtocol
         WITH Clients <- 0..3, MinClients <- 3, Graph <- HararyGraph, Unreliable <- {0, 3}

allVars == <<protocolVars, part>>

SessionsInit ==
  \/ part = "complete" /\ ProtocolInit
  \/ part = "harary" /\ Sub!ProtocolInit

OfComplete(A) == part = "complete" /\ A /\ UNCHANGED part

SessionsNext ==
  \/ OfComplete(ProtocolNext)
  \/ part = "harary" /\ Sub!ProtocolNext /\ UNCHANGED part

(* The fairness of SecAggProtocol, for the smaller instance.               *)
SessionsFairness ==
  /\ \A c \in Clients : /\ WF_allVars(OfComplete(ClientRuns(c)))
                        /\ WF_allVars(OfComplete(ServerReceives(c)))
  /\ WF_allVars(OfComplete(ServerProceeds)) /\ WF_allVars(OfComplete(PrngFinishes))

SessionsSpec == SessionsInit /\ [][SessionsNext]_allVars /\ SessionsFairness

-----------------------------------------------------------------------------
(* Properties, of both instances unless they say otherwise.                *)

(* A completed session releases the exact sum of the included inputs, with *)
(* every mask removed, whoever was lost in whichever round; on the         *)
(* complete graph, unmasking cannot fail once the session is past round 3. *)
SessionsAreExact ==
  IF part = "complete" THEN ResultIsExactSum /\ FullGraphUnmasks ELSE Sub!ResultIsExactSum

(* The clients never reveal shares of both the pairwise key and the self   *)
(* key of the same client.                                                 *)
NoClientIsUncovered == IF part = "complete" THEN NeverBothKeys ELSE Sub!NeverBothKeys

(* A client that follows the protocol is never dropped for an invalid or   *)
(* an unexpected message, however late its messages are.                   *)
HonestClientsAreKept ==
  IF part = "complete" THEN HonestClientsAreNotBlamed ELSE Sub!HonestClientsAreNotBlamed

(* On the complete graph, the session ends for everyone.                   *)
SessionEndsForEveryone == part = "complete" => EveryoneFinishes
=============================================================================
