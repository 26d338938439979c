---------------------------- MODULE ShortestPaths ----------------------------
(***************************************************************************)
(* What compute_spf promises, without the algorithm: the cost of a         *)
(* shortest path in a graph of Router LSAs and, with its tie-break, the    *)
(* shortest-path tree and the first hops.                                  *)
(*                                                                         *)
(* A graph gives each node the adjacencies of its Router LSA (none if the  *)
(* database holds no LSA of it).  Node ids are numbers because the code    *)
(* compares them; costs saturate at MaxCost, the u16::MAX that also stands *)
(* for "unreachable".                                                      *)
(***************************************************************************)
EXTENDS Naturals, FiniteSets

CONSTANTS Nodes,     \* node ids
          MaxCost    \* u16::MAX

ASSUME NodesAreOrdered == Nodes \subseteq Nat
ASSUME NodesAreFinite == IsFiniteSet(Nodes)
ASSUME MaxCostPositive == MaxCost \in Nat \ {0}

\* Cost + Cost.
SatAdd(a, b) == IF a + b < MaxCost THEN a + b ELSE MaxCost

\* Entry::better on (cost, node id): lower cost wins, then the lower id.
Better(d, m, e, n) == d < e \/ (d = e /\ m < n)

Least(S) == CHOOSE x \in S : \A y \in S : x <= y

\* The costs at which u advertises an adjacency to n.
ArcCosts(graph, u, n) == {a.cost : a \in {b \in graph[u] : b.peer = n}}

\* The paths of k nodes from s to t that visit no node twice.
Paths(graph, k, s, t) ==
    {p \in [1..k -> Nodes] :
        /\ p[1] = s /\ p[k] = t
        /\ \A i, j \in 1..k : p[i] = p[j] => i = j
        /\ \A i \in 1..(k - 1) : ArcCosts(graph, p[i], p[i + 1]) # {}}

PathCost(graph, k, p) ==
    LET C[i \in 1..k] ==
          IF i = 1 THEN 0
          ELSE SatAdd(C[i - 1], Least(ArcCosts(graph, p[i - 1], p[i])))
    IN  C[k]

\* The cost of a cheapest path, MaxCost if there is none.
Dist(graph) ==
    [s \in Nodes |-> [t \in Nodes |->
       Least({MaxCost} \cup
             UNION {{PathCost(graph, k, p) : p \in Paths(graph, k, s, t)} :
                      k \in 1..Cardinality(Nodes)})]]

\* The nodes over which a shortest path from root may enter n.
Entrances(graph, dist, root, n) ==
    {u \in Nodes : \E c \in ArcCosts(graph, u, n) :
        SatAdd(dist[root][u], c) = dist[root][n]}

\* Among them the closest one, by id among equals.
TreeParent(graph, dist, root, n) ==
    LET E == Entrances(graph, dist, root, n)
    IN  CHOOSE u \in E : \A v \in E \ {u} : Better(dist[root][u], u, dist[root][v], v)

Reachable(dist, root, n) == n # root /\ dist[root][n] < MaxCost

\* The neighbour of root on the tree's path to each node.
FirstHop(graph, dist, root) ==
    LET H[k \in 0..Cardinality(Nodes)] ==
          [n \in Nodes |->
             IF k = 0 \/ ~Reachable(dist, root, n) THEN root
             ELSE LET p == TreeParent(graph, dist, root, n)
                  IN  IF p = root THEN n ELSE H[k - 1][p]]
    IN  H[Cardinality(Nodes)]
=============================================================================
