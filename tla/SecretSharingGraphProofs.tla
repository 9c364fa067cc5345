---------------------- MODULE SecretSharingGraphProofs ----------------------
(***************************************************************************)
(* Proofs about the sharing graphs, for cohorts of every size, every odd   *)
(* degree and every renaming of the nodes.                                 *)
(*                                                                         *)
(* A Harary graph is a circle seen through a permutation.  The lemmas of   *)
(* the first part are about positions on the circle, numbers below n; h is *)
(* degree / 2, so a list has 2h + 1 <= n entries.                          *)
(***************************************************************************)
EXTENDS SecretSharingGraph, TLAPS

Dist(n, x, y) == LeastOf(AbsDiff(x, y), n - AbsDiff(x, y))
Before(n, x, y) == (x - Dist(n, x, y) + n) % n = y
Slot(n, h, x, y) ==
  IF Dist(n, x, y) > h THEN -1
  ELSE IF Before(n, x, y) THEN h - Dist(n, x, y) ELSE h + Dist(n, x, y)
At(n, h, x, i) == (x - h + i + n) % n

(* The remainder of a number below 3n. *)
LEMMA Wrap ==
  ASSUME NEW n \in Nat, n > 0, NEW z \in 0..(3 * n - 1)
  PROVE  z % n = IF z < n THEN z ELSE IF z < 2 * n THEN z - n ELSE z - 2 * n
<1>1. CASE z < n
  BY <1>1
<1>2. CASE z >= n /\ z < 2 * n
  BY <1>2
<1>3. CASE z >= 2 * n
  BY <1>3
<1>4. QED
  BY <1>1, <1>2, <1>3

(* An odd degree is twice its half and one. *)
LEMMA OddHalf ==
  ASSUME NEW d \in Nat, d % 2 = 1
  PROVE  (d \div 2) \in Nat /\ d = 2 * (d \div 2) + 1
OBVIOUS

(* The distance in plain arithmetic. *)
LEMMA DistCases ==
  ASSUME NEW n \in Nat, n > 0, NEW x \in 0..(n - 1), NEW y \in 0..(n - 1)
  PROVE  /\ Dist(n, x, y) \in Nat /\ 2 * Dist(n, x, y) <= n
         /\ Dist(n, x, y) = Dist(n, y, x)
         /\ \/ x - y = Dist(n, x, y) \/ y - x = Dist(n, x, y)
            \/ x - y = n - Dist(n, x, y) \/ y - x = n - Dist(n, x, y)
BY DEF Dist, AbsDiff, LeastOf

(* y is before x when walking back from x by the distance reaches it. *)
LEMMA BeforeCases ==
  ASSUME NEW n \in Nat, n > 0, NEW x \in 0..(n - 1), NEW y \in 0..(n - 1)
  PROVE  Before(n, x, y) <=> \/ x - y = Dist(n, x, y)
                             \/ y - x = n - Dist(n, x, y)
<1> DEFINE z == x - Dist(n, x, y) + n
<1>1. z \in 0..(3 * n - 1) /\ z < 2 * n
  BY DistCases
<1>2. z % n = IF z < n THEN z ELSE z - n
  BY <1>1, Wrap
<1>3. Before(n, x, y) <=> z % n = y
  BY DEF Before
<1>4. PICK d \in Nat : d = Dist(n, x, y)
  BY DistCases
<1>5. \/ x - y = d \/ y - x = d \/ x - y = n - d \/ y - x = n - d
  BY <1>4, DistCases
<1>6. z = x - d + n /\ 2 * d <= n
  BY <1>4, DistCases
<1> HIDE DEF z
<1>7. (IF z < n THEN z ELSE z - n) = y <=> x - y = d \/ y - x = n - d
  BY <1>5, <1>6
<1>8. QED
  BY <1>2, <1>3, <1>4, <1>7

(* The neighbour at slot i is found again at slot i. *)
LEMMA SlotOfAt ==
  ASSUME NEW n \in Nat, NEW h \in Nat, 2 * h + 1 <= n,
         NEW x \in 0..(n - 1), NEW i \in 0..(2 * h)
  PROVE  At(n, h, x, i) \in 0..(n - 1) /\ Slot(n, h, x, At(n, h, x, i)) = i
<1> DEFINE y == At(n, h, x, i)
           z == x - h + i + n
<1>1. z \in 0..(3 * n - 1)
  OBVIOUS
<1>2. y = IF z < n THEN z ELSE IF z < 2 * n THEN z - n ELSE z - 2 * n
  BY <1>1, Wrap DEF At
<1>3. y \in 0..(n - 1)
  BY <1>1, <1>2
<1> HIDE DEF y
<1>4. Dist(n, x, y) = IF i <= h THEN h - i ELSE i - h
  BY <1>2, <1>3 DEF Dist, AbsDiff, LeastOf
<1>5. Before(n, x, y) <=> i <= h
  BY <1>2, <1>3, <1>4, BeforeCases
<1>6. Slot(n, h, x, y) = i
  BY <1>4, <1>5 DEF Slot
<1>7. QED
  BY <1>3, <1>6 DEF y

(* A slot that exists leads back to the neighbour. *)
LEMMA AtSlot ==
  ASSUME NEW n \in Nat, NEW h \in Nat, 2 * h + 1 <= n,
         NEW x \in 0..(n - 1), NEW y \in 0..(n - 1), Slot(n, h, x, y) >= 0
  PROVE  /\ Slot(n, h, x, y) \in 0..(2 * h)
         /\ At(n, h, x, Slot(n, h, x, y)) = y
<1>1. PICK d \in Nat : d = Dist(n, x, y)
  BY DistCases
<1>2. PICK s \in Int : s = Slot(n, h, x, y)
  BY <1>1 DEF Slot
<1>3. d <= h
  BY <1>1 DEF Slot
<1>4. \/ x - y = d \/ y - x = d \/ x - y = n - d \/ y - x = n - d
  BY <1>1, DistCases
<1>5. s = IF Before(n, x, y) THEN h - d ELSE h + d
  BY <1>1, <1>2, <1>3 DEF Slot
<1>6. Before(n, x, y) <=> x - y = d \/ y - x = n - d
  BY <1>1, BeforeCases
<1>7. s \in 0..(2 * h)
  BY <1>3, <1>5
<1> DEFINE z == x - h + s + n
<1>8. z \in 0..(3 * n - 1)
  BY <1>7
<1>9. z % n = IF z < n THEN z ELSE IF z < 2 * n THEN z - n ELSE z - 2 * n
  BY <1>8, Wrap
<1>10. (IF z < n THEN z ELSE IF z < 2 * n THEN z - n ELSE z - 2 * n) = y
  BY <1>3, <1>4, <1>5, <1>6
<1>11. QED
  BY <1>2, <1>7, <1>9, <1>10 DEF At

(* Slots exist in both directions or in neither, the slot of a position    *)
(* in its own list is h, and of two different positions one is before the  *)
(* other.                                                                  *)
LEMMA SlotSymmetry ==
  ASSUME NEW n \in Nat, NEW h \in Nat, 2 * h + 1 <= n,
         NEW x \in 0..(n - 1), NEW y \in 0..(n - 1)
  PROVE  /\ Slot(n, h, x, y) >= 0 <=> Slot(n, h, y, x) >= 0
         /\ Slot(n, h, x, x) = h
         /\ x # y /\ Slot(n, h, x, y) >= 0 =>
              /\ Slot(n, h, x, y) # h
              /\ Slot(n, h, x, y) >= h <=> ~(Slot(n, h, y, x) >= h)
<1>1. PICK d \in Nat : d = Dist(n, x, y)
  BY DistCases
<1>0. d = Dist(n, y, x)
  BY <1>1, DistCases
<1>2. \/ x - y = d \/ y - x = d \/ x - y = n - d \/ y - x = n - d
  BY <1>1, DistCases
<1>3. Before(n, x, y) <=> x - y = d \/ y - x = n - d
  BY <1>1, BeforeCases
<1>4. Before(n, y, x) <=> y - x = d \/ x - y = n - d
  BY <1>0, BeforeCases
<1>5. Slot(n, h, x, y) >= 0 <=> d <= h
  BY <1>1 DEF Slot
<1>6. Slot(n, h, y, x) >= 0 <=> d <= h
  BY <1>0 DEF Slot
<1>7. Slot(n, h, x, x) = h
  BY DEF Slot, Dist, AbsDiff, LeastOf
<1>8. ASSUME x # y, d <= h
      PROVE  /\ Slot(n, h, x, y) # h
             /\ Slot(n, h, x, y) >= h <=> ~(Slot(n, h, y, x) >= h)
  <2>1. d > 0
    BY <1>2, <1>8
  <2>2. Before(n, x, y) <=> ~Before(n, y, x)
    BY <1>2, <1>3, <1>4, <1>8, <2>1
  <2>3. Slot(n, h, x, y) = IF Before(n, x, y) THEN h - d ELSE h + d
    BY <1>1, <1>8 DEF Slot
  <2>4. Slot(n, h, y, x) = IF Before(n, y, x) THEN h - d ELSE h + d
    BY <1>0, <1>8 DEF Slot
  <2>5. QED
    BY <2>1, <2>2, <2>3, <2>4
<1>9. QED
  BY <1>5, <1>6, <1>7, <1>8

-----------------------------------------------------------------------------
(* The second part is about the graphs the factory makes.                  *)

CompleteOK(g) == g.kind = "complete" /\ g.nodes \in Nat /\ g.degree = g.nodes

HararyOK(g) ==
  /\ g.kind = "harary"
  /\ g.nodes \in Nat /\ g.degree \in Nat
  /\ g.degree % 2 = 1 /\ g.degree <= g.nodes
  /\ g.perm \in [Nodes(g) -> Nodes(g)] /\ g.inv \in [Nodes(g) -> Nodes(g)]
  /\ \A c \in Nodes(g) : g.perm[g.inv[c]] = c /\ g.inv[g.perm[c]] = c

(* The inductive invariant: a graph that exists has the shape the factory  *)
(* checks for, and the two tables of a Harary graph invert each other.     *)
GraphOK == graph = NoGraph \/ graph = Crashed \/ CompleteOK(graph)
           \/ HararyOK(graph)

(* Inverting a permutation of the nodes.                                   *)
LEMMA InvertedInverts ==
  ASSUME NEW nodes \in Nat, NEW p \in Permutations0(nodes)
  PROVE  /\ p \in [0..(nodes - 1) -> 0..(nodes - 1)]
         /\ Inverted(p) \in [0..(nodes - 1) -> 0..(nodes - 1)]
         /\ \A c \in 0..(nodes - 1) :
              p[Inverted(p)[c]] = c /\ Inverted(p)[p[c]] = c
<1> DEFINE N == 0..(nodes - 1)
<1>1. /\ p \in [N -> N]
      /\ \A i, j \in N : p[i] = p[j] => i = j
      /\ \A c \in N : \E i \in N : p[i] = c
  BY DEF Permutations0
<1>2. DOMAIN p = N
  BY <1>1
<1> HIDE DEF N
<1>3. \A c \in N : Inverted(p)[c] \in N /\ p[Inverted(p)[c]] = c
  BY <1>1, <1>2 DEF Inverted
<1>4. Inverted(p) \in [N -> N]
  BY <1>2, <1>3 DEF Inverted
<1>5. \A c \in N : Inverted(p)[p[c]] = c
  BY <1>1, <1>3
<1>6. QED
  BY <1>1, <1>3, <1>4, <1>5 DEF N

(* CreateHararyGraph makes a well-formed graph or crashes.                 *)
LEMMA HararyCreated ==
  ASSUME NEW nodes \in Nat, NEW degree \in Nat, NEW threshold \in Nat,
         CreateHararyGraph(nodes, degree, threshold)
  PROVE  GraphOK'
<1>1. CASE ~HararyParametersOk(nodes, degree, threshold)
  BY <1>1 DEF CreateHararyGraph, GraphOK
<1>2. CASE HararyParametersOk(nodes, degree, threshold)
  <2>1. PICK p \in Permutations0(nodes) :
          graph' = [kind |-> "harary", nodes |-> nodes, degree |-> degree,
                    threshold |-> threshold, perm |-> p, inv |-> Inverted(p)]
    BY <1>2 DEF CreateHararyGraph
  <2>2. /\ graph'.kind = "harary" /\ graph'.nodes = nodes
        /\ graph'.degree = degree
        /\ graph'.perm = p /\ graph'.inv = Inverted(p)
    BY <2>1
  <2>3. Nodes(graph') = 0..(nodes - 1)
    BY <2>2 DEF Nodes
  <2>4. HararyOK(graph')
    BY <1>2, <2>2, <2>3, InvertedInverts DEF HararyOK, HararyParametersOk
  <2>5. QED
    BY <2>4 DEF GraphOK
<1>3. QED
  BY <1>1, <1>2

(* Every graph SecAggServer::Create ends up with is well formed.           *)
THEOREM GraphsWellFormed == Spec => []GraphOK
<1>1. Init => GraphOK
  BY DEF Init, GraphOK
<1>2. GraphOK /\ [Next]_graph => GraphOK'
  <2> SUFFICES ASSUME GraphOK, [Next]_graph PROVE GraphOK'
    OBVIOUS
  <2>1. CASE UNCHANGED graph
    BY <2>1 DEF GraphOK, CompleteOK, HararyOK, Nodes
  <2>2. ASSUME NEW nodes \in 1..MaxNodes, CreateForced(nodes)
        PROVE  GraphOK'
    <3>1. nodes \in Nat
      BY NodesAssumption
    <3>2. ForcedDegree(nodes) \in Nat
      BY <3>1 DEF ForcedDegree
    <3>3. ForcedThreshold(nodes) \in Nat
      BY <3>2 DEF ForcedThreshold
    <3>4. QED
      BY <2>2, <3>1, <3>2, <3>3, HararyCreated DEF CreateForced
  <2>3. ASSUME NEW nodes \in 1..MaxNodes, NEW minClients \in 1..nodes,
               CreateFull(nodes, minClients)
        PROVE  GraphOK'
    <3>1. nodes \in Nat /\ minClients \in Nat
      BY NodesAssumption
    <3>2. CompleteOK(graph')
      BY <2>3, <3>1 DEF CreateFull, CreateCompleteGraph, CompleteOK
    <3>3. QED
      BY <3>2 DEF GraphOK
  <2>4. ASSUME NEW nodes \in 1..MaxNodes,
               NEW degree \in {d \in 2..(nodes - 1) : d % 2 = 0},
               NEW threshold \in 1..(degree + 1),
               CreateComputed(nodes, degree, threshold)
        PROVE  GraphOK'
    <3>1. nodes \in Nat /\ degree + 1 \in Nat /\ threshold \in Nat
      BY NodesAssumption
    <3>2. QED
      BY <2>4, <3>1, HararyCreated DEF CreateComputed
  <2>5. QED
    BY <2>1, <2>2, <2>3, <2>4 DEF Next
<1>3. QED
  BY <1>1, <1>2, PTL DEF Spec

(* The operations of a Harary graph are those of the circle, seen through  *)
(* the permutation.                                                        *)
LEMMA HararyIsCircle ==
  ASSUME NEW g, HararyOK(g), NEW a \in Nodes(g), NEW b \in Nodes(g),
         NEW i \in Positions(g)
  PROVE  LET h == g.degree \div 2
         IN  /\ h \in Nat /\ 2 * h + 1 <= g.nodes /\ Positions(g) = 0..(2 * h)
             /\ HararyIndex(g, a, b) = Slot(g.nodes, h, g.inv[a], g.inv[b])
             /\ HararyNeighbor(g, a, i) = g.perm[At(g.nodes, h, g.inv[a], i)]
<1> DEFINE h == g.degree \div 2
<1>1. h \in Nat /\ g.degree = 2 * h + 1
  BY OddHalf DEF HararyOK
<1>2. ModDist(g, a, b) = Dist(g.nodes, g.inv[a], g.inv[b])
  BY DEF ModDist, Dist
<1>3. Precedes(g, a, b) <=> Before(g.nodes, g.inv[a], g.inv[b])
  BY <1>2 DEF Precedes, Before
<1>4. HararyIndex(g, a, b) = Slot(g.nodes, h, g.inv[a], g.inv[b])
  BY <1>2, <1>3 DEF HararyIndex, Slot
<1>5. HararyNeighbor(g, a, i) = g.perm[At(g.nodes, h, g.inv[a], i)]
  BY DEF HararyNeighbor, At
<1>6. Positions(g) = 0..(2 * h) /\ 2 * h + 1 <= g.nodes
  BY <1>1 DEF Positions, HararyOK
<1>7. QED
  BY <1>1, <1>4, <1>5, <1>6

(* A well-formed Harary graph has the three properties.                    *)
LEMMA HararyCorrect ==
  ASSUME HararyOK(graph)
  PROVE  IndexInvertsNeighbor /\ NeighborsAreMutual /\ SignsAgree
<1> DEFINE n == graph.nodes
           h == graph.degree \div 2
           S(a, b) == Slot(n, h, graph.inv[a], graph.inv[b])
           A(a, i) == At(n, h, graph.inv[a], i)
<1>1. /\ graph.kind = "harary" /\ graph.kind # "complete" /\ n \in Nat
      /\ Nodes(graph) = 0..(n - 1)
      /\ \A c \in Nodes(graph) :
           /\ graph.inv[c] \in 0..(n - 1) /\ graph.perm[c] \in 0..(n - 1)
           /\ graph.perm[graph.inv[c]] = c /\ graph.inv[graph.perm[c]] = c
  BY DEF HararyOK, Nodes
<1>2. h \in Nat /\ 2 * h + 1 <= n /\ Positions(graph) = 0..(2 * h)
  BY OddHalf DEF HararyOK, Positions
<1>3. 0 \in Positions(graph)
  BY <1>2
<1>4. \A a, b \in Nodes(graph) : GetNeighborIndex(graph, a, b) = S(a, b)
  BY <1>1, <1>3, HararyIsCircle DEF GetNeighborIndex
<1>5. \A a \in Nodes(graph), i \in Positions(graph) :
        GetNeighbor(graph, a, i) = graph.perm[A(a, i)]
  BY <1>1, HararyIsCircle DEF GetNeighbor
<1>6. \A a, b \in Nodes(graph) :
        IsOutgoingNeighbor(graph, a, b) <=> S(a, b) >= h
  BY <1>1, <1>4 DEF IsOutgoingNeighbor, GetNeighborIndex
<1> HIDE DEF h, n
<1>7. ASSUME NEW c \in Nodes(graph), NEW i \in Positions(graph)
      PROVE  /\ GetNeighbor(graph, c, i) \in Nodes(graph)
             /\ GetNeighborIndex(graph, c, GetNeighbor(graph, c, i)) = i
  <2>0. graph.inv[c] \in 0..(n - 1) /\ i \in 0..(2 * h)
    BY <1>1, <1>2
  <2>1. A(c, i) \in 0..(n - 1)
        /\ Slot(n, h, graph.inv[c], A(c, i)) = i
    BY <1>1, <1>2, <2>0, SlotOfAt
  <2>2. GetNeighbor(graph, c, i) \in Nodes(graph)
        /\ graph.inv[GetNeighbor(graph, c, i)] = A(c, i)
    BY <1>1, <1>5, <2>1
  <2>3. QED
    BY <1>4, <2>1, <2>2
<1>8. ASSUME NEW c \in Nodes(graph), NEW d \in Nodes(graph),
             AreNeighbors(graph, c, d)
      PROVE  GetNeighbor(graph, c, GetNeighborIndex(graph, c, d)) = d
  <2>1. S(c, d) >= 0
    BY <1>4, <1>8 DEF AreNeighbors
  <2>2. S(c, d) \in 0..(2 * h) /\ A(c, S(c, d)) = graph.inv[d]
    BY <1>1, <1>2, <2>1, AtSlot
  <2>3. QED
    BY <1>1, <1>2, <1>4, <1>5, <2>2
<1>9. ASSUME NEW c \in Nodes(graph), NEW d \in Nodes(graph)
      PROVE  /\ S(c, d) >= 0 <=> S(d, c) >= 0
             /\ S(c, c) = h
             /\ c # d /\ S(c, d) >= 0 =>
                  S(c, d) # h /\ (S(c, d) >= h <=> ~(S(d, c) >= h))
  <2>1. c # d => graph.inv[c] # graph.inv[d]
    BY <1>1
  <2>2. QED
    BY <1>1, <1>2, <2>1, SlotSymmetry
<1>10. IndexInvertsNeighbor
  <2>1. \A c \in Nodes(graph) : AreNeighbors(graph, c, c)
    BY <1>2, <1>4, <1>9 DEF AreNeighbors
  <2>2. QED
    BY <1>7, <1>8, <2>1 DEF IndexInvertsNeighbor
<1>11. NeighborsAreMutual
  BY <1>4, <1>9 DEF NeighborsAreMutual, AreNeighbors
<1>12. SignsAgree
  <2> SUFFICES ASSUME NEW c \in Nodes(graph), NEW d \in Nodes(graph),
                      c # d, AreNeighbors(graph, c, d)
               PROVE  /\ IsOutgoingNeighbor(graph, c, d)
                           # IsOutgoingNeighbor(graph, d, c)
                      /\ IsOutgoingNeighbor(graph, c, d) <=>
                           GetNeighborIndex(graph, c, c)
                             < GetNeighborIndex(graph, c, d)
    BY DEF SignsAgree
  <2>1. S(c, d) >= 0
    BY <1>4 DEF AreNeighbors
  <2>2. /\ S(c, c) = h /\ S(c, d) # h
        /\ S(c, d) >= h <=> ~(S(d, c) >= h)
    BY <1>9, <2>1
  <2>3. IsOutgoingNeighbor(graph, c, d) <=> ~IsOutgoingNeighbor(graph, d, c)
    BY <1>6, <2>2
  <2>4. /\ IsOutgoingNeighbor(graph, c, d) \in BOOLEAN
        /\ IsOutgoingNeighbor(graph, d, c) \in BOOLEAN
    BY <1>1 DEF IsOutgoingNeighbor
  <2>5. S(c, d) \in Int
    BY <1>1, <1>2, <2>1, AtSlot
  <2>6. QED
    BY <1>2, <1>4, <1>6, <2>2, <2>3, <2>4, <2>5
<1>13. QED
  BY <1>10, <1>11, <1>12

(* So has the complete graph.                                              *)
LEMMA CompleteCorrect ==
  ASSUME CompleteOK(graph)
  PROVE  IndexInvertsNeighbor /\ NeighborsAreMutual /\ SignsAgree
BY DEF CompleteOK, IndexInvertsNeighbor, NeighborsAreMutual, SignsAgree,
       GetNeighbor, GetNeighborIndex, AreNeighbors, IsOutgoingNeighbor,
       Nodes, Positions

(* Well-formed graphs have the three properties.                           *)
LEMMA GraphCorrect ==
  GraphOK => IndexInvertsNeighbor /\ NeighborsAreMutual /\ SignsAgree
<1>1. ASSUME graph = NoGraph \/ graph = Crashed
      PROVE  ~Usable
  BY <1>1 DEF Usable, NoGraph, Crashed
<1>2. QED
  BY <1>1, HararyCorrect, CompleteCorrect
     DEF GraphOK, IndexInvertsNeighbor, NeighborsAreMutual, SignsAgree

(* GetNeighbor and GetNeighborIndex are inverse for every cohort, degree   *)
(* and permutation.                                                        *)
THEOREM IndexCorrect == Spec => []IndexInvertsNeighbor
BY GraphsWellFormed, GraphCorrect, PTL

(* Being neighbours is symmetric for every cohort, degree and permutation: *)
(* GetNeighborIndexOrDie finds the sender in the list of its neighbour.    *)
THEOREM MutualCorrect == Spec => []NeighborsAreMutual
BY GraphsWellFormed, GraphCorrect, PTL

(* Client and server agree on the sign of every pairwise mask for every    *)
(* cohort, degree and permutation.                                         *)
THEOREM SignsCorrect == Spec => []SignsAgree
BY GraphsWellFormed, GraphCorrect, PTL

(* Positions, neighbourhood and signs agree for every cohort, degree and   *)
(* permutation.                                                            *)
THEOREM ConsistencyCorrect == Spec => []GraphIsConsistent
<1>1. IndexInvertsNeighbor /\ NeighborsAreMutual /\ SignsAgree => GraphIsConsistent
  BY DEF GraphIsConsistent
<1>2. QED
  BY <1>1, IndexCorrect, MutualCorrect, SignsCorrect, PTL
=============================================================================
