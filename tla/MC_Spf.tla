-------------------------------- MODULE MC_Spf --------------------------------
(* Small instances of Spf for TLC.                                         *)
EXTENDS Spf

CONSTANTS LinkCosts

\* The root has a link for each of its adjacencies and a second one to node 2.
ViewOf(graph) ==
    [graph |-> graph,
     links |-> {[conn |-> 1, peer |-> a.peer] : a \in graph[Root]}
               \cup {[conn |-> 2, peer |-> 2] : a \in {b \in graph[Root] : b.peer = 2}}]

Adj(w, n) ==
    {[peer |-> m, cost |-> w[{n, m}]] : m \in {k \in Nodes \ {n} : w[{n, k}] # 0}}

\* All graphs in which both ends of a link advertise it at the same cost.
SymmetricGraphs ==
    {[n \in Nodes |-> Adj(w, n)] :
        w \in [{S \in SUBSET Nodes : Cardinality(S) = 2} -> {0} \cup LinkCosts]}

\* What the Router LSA of a node among the first three may say: for each of the
\* other two one cost, another or none.
RouterLsas(n) ==
    {S \in SUBSET [peer : (1..3) \ {n}, cost : {1, 3}] :
        \A a, b \in S : a.peer = b.peer => a = b}

\* All graphs of three nodes, only one end of a link having advertised it yet,
\* or the two at different costs.
DirectedGraphs ==
    {[n \in Nodes |-> IF n \in 1..3 THEN <<x, y, z>>[n] ELSE {}] :
        x \in RouterLsas(1), y \in RouterLsas(2), z \in RouterLsas(3)}

AllViews == {ViewOf(g) : g \in SymmetricGraphs \cup DirectedGraphs}
===============================================================================
