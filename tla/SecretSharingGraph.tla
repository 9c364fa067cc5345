------------------------- MODULE SecretSharingGraph -------------------------
(***************************************************************************)
(* Which clients share keys with which: SecretSharingGraph, its two        *)
(* implementations, the factory, and the choice SecAggServer::Create makes *)
(* between them.                                                           *)
(*                                                                         *)
(* Nodes are numbered from zero.  Each node has a list of Degree           *)
(* neighbours, itself included; everything that travels between the server *)
(* and a client is addressed by positions in that list.                    *)
(***************************************************************************)
EXTENDS Integers, FiniteSets

CONSTANTS
  MaxNodes   \* bound on the cohorts that are tried

ASSUME NodesAssumption == MaxNodes \in Nat \ {0}

VARIABLES
  graph      \* secret_sharing_graph_, or NoGraph before Create

NoGraph == [kind |-> "none", nodes |-> 0, degree |-> 0, threshold |-> 0,
            perm |-> <<>>, inv |-> <<>>]
Nodes(g) == 0..(g.nodes - 1)
Positions(g) == 0..(g.degree - 1)

AbsDiff(a, b) == IF a >= b THEN a - b ELSE b - a
LeastOf(a, b) == IF a <= b THEN a ELSE b

-----------------------------------------------------------------------------
(* SecretSharingHararyGraph: a circle whose nodes are renamed by perm.     *)

(* Defective variant: the zeroth neighbour is one too far to the left.     *)
HararyNeighborShifted(g, c, i) ==
  g.perm[(g.inv[c] - (g.degree + 1) \div 2 + i + g.nodes) % g.nodes]

HararyNeighbor(g, c, i) ==
  g.perm[(g.inv[c] - g.degree \div 2 + i + g.nodes) % g.nodes]

ModDist(g, a, b) ==
  LET sub == AbsDiff(g.inv[a], g.inv[b]) IN LeastOf(sub, g.nodes - sub)

(* b is found by walking back from a, so it is an incoming neighbour.      *)
Precedes(g, a, b) ==
  (g.inv[a] - ModDist(g, a, b) + g.nodes) % g.nodes = g.inv[b]

(* std::optional: -1 stands for no value.                                  *)
HararyIndex(g, a, b) ==
  IF ModDist(g, a, b) > g.degree \div 2 THEN -1
  ELSE IF Precedes(g, a, b) THEN g.degree \div 2 - ModDist(g, a, b)
  ELSE g.degree \div 2 + ModDist(g, a, b)

-----------------------------------------------------------------------------
(* The interface, by dispatch on the kind of graph.                        *)

GetNeighbor(g, c, i) ==
  IF g.kind = "complete" THEN i ELSE HararyNeighbor(g, c, i)

GetNeighborIndex(g, a, b) ==
  IF g.kind = "complete" THEN b ELSE HararyIndex(g, a, b)

AreNeighbors(g, a, b) == GetNeighborIndex(g, a, b) >= 0

IsOutgoingNeighbor(g, a, b) ==
  IF g.kind = "complete" THEN b >= a
  ELSE HararyIndex(g, a, b) >= g.degree \div 2

-----------------------------------------------------------------------------
(* SecretSharingGraphFactory.  A failed FCP_CHECK ends the process.        *)

Crashed == [NoGraph EXCEPT !.kind = "crashed"]

CreateCompleteGraph(nodes, threshold) ==
  graph' = IF threshold \in 1..nodes
           THEN [kind |-> "complete", nodes |-> nodes, degree |-> nodes,
                 threshold |-> threshold, perm |-> <<>>, inv |-> <<>>]
           ELSE Crashed

HararyParametersOk(nodes, degree, threshold) ==
  degree <= nodes /\ degree % 2 = 1 /\ threshold \in 1..degree

Permutations0(nodes) ==
  {p \in [0..(nodes - 1) -> 0..(nodes - 1)] :
     /\ \A i, j \in 0..(nodes - 1) : p[i] = p[j] => i = j
     /\ \A c \in 0..(nodes - 1) : \E i \in 0..(nodes - 1) : p[i] = c}

Inverted(p) == [c \in DOMAIN p |-> CHOOSE i \in DOMAIN p : p[i] = c]

CreateHararyGraph(nodes, degree, threshold) ==
  IF HararyParametersOk(nodes, degree, threshold)
  THEN \E p \in Permutations0(nodes) :
         graph' = [kind |-> "harary", nodes |-> nodes, degree |-> degree,
                   threshold |-> threshold, perm |-> p, inv |-> Inverted(p)]
  ELSE graph' = Crashed

(* kForceSubgraphSecAggExperiment, "only for testing purposes".            *)
ForcedDegree(nodes) ==
  LET half == nodes \div 2 IN IF half % 2 = 0 THEN half + 1 ELSE half
ForcedThreshold(nodes) ==
  IF ForcedDegree(nodes) \div 2 > 2 THEN ForcedDegree(nodes) \div 2 ELSE 2

(* SecAggServer::Create.  ComputeHararyGraphParameters, which works with   *)
(* floating point tail bounds, either fails, and the complete graph is     *)
(* used, or returns an even degree and a threshold.                        *)
CreateForced(nodes) ==
  /\ graph = NoGraph
  /\ CreateHararyGraph(nodes, ForcedDegree(nodes), ForcedThreshold(nodes))

CreateComputed(nodes, degree, threshold) ==
  /\ graph = NoGraph
  /\ CreateHararyGraph(nodes, degree + 1, threshold)

CreateFull(nodes, minClients) ==
  /\ graph = NoGraph
  /\ CreateCompleteGraph(nodes, minClients)

Init == graph = NoGraph

Next ==
  \E nodes \in 1..MaxNodes :
    \/ CreateForced(nodes)
    \/ \E minClients \in 1..nodes : CreateFull(nodes, minClients)
    \/ \E degree \in {d \in 2..(nodes - 1) : d % 2 = 0} :
         \E threshold \in 1..(degree + 1) :
           CreateComputed(nodes, degree, threshold)

Spec == Init /\ [][Next]_graph

-----------------------------------------------------------------------------
(* Properties.                                                             *)

Usable == graph.kind \in {"complete", "harary"}

(* GetNeighbor and GetNeighborIndex are inverse to each other on the       *)
(* neighbours of a node, and each node finds itself in its own list: what  *)
(* a client puts at a position is what the server stores under the node at *)
(* that position.                                                          *)
IndexInvertsNeighbor ==
  Usable => \A c \in Nodes(graph) :
    /\ \A i \in Positions(graph) :
         /\ GetNeighbor(graph, c, i) \in Nodes(graph)
         /\ GetNeighborIndex(graph, c, GetNeighbor(graph, c, i)) = i
    /\ \A d \in Nodes(graph) :
         AreNeighbors(graph, c, d) =>
           GetNeighbor(graph, c, GetNeighborIndex(graph, c, d)) = d
    /\ AreNeighbors(graph, c, c)

(* Being neighbours is symmetric, so GetNeighborIndexOrDie never dies when *)
(* the server looks up the sender in the list of one of its neighbours.    *)
NeighborsAreMutual ==
  Usable => \A c, d \in Nodes(graph) :
    AreNeighbors(graph, c, d) <=> AreNeighbors(graph, d, c)

(* Of two neighbours exactly one is the outgoing one, and it is the one    *)
(* the client takes it to be: a client subtracts the mask it shares with a *)
(* neighbour listed after itself and adds the others, and the server must  *)
(* undo the same sign.                                                     *)
SignsAgree ==
  Usable => \A c, d \in Nodes(graph) :
    c # d /\ AreNeighbors(graph, c, d) =>
      /\ IsOutgoingNeighbor(graph, c, d) # IsOutgoingNeighbor(graph, d, c)
      /\ IsOutgoingNeighbor(graph, c, d) <=>
           GetNeighborIndex(graph, c, c) < GetNeighborIndex(graph, c, d)

(* What the server and the clients rely on when they address each other    *)
(* by positions, for every graph SecAggServer::Create can make.            *)
GraphIsConsistent == IndexInvertsNeighbor /\ NeighborsAreMutual /\ SignsAgree

-----------------------------------------------------------------------------
(* What an assertion of the factory says and Create does not ensure.       *)

(* CreateHararyGraph checks that "threshold must be <= degree".            *)
FactoryChecksHold == graph.kind # "crashed"
=============================================================================
