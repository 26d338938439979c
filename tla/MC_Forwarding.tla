---------------------------- MODULE MC_Forwarding ----------------------------
(* Small networks for Forwarding: four nodes in a ring 1-2-4-3 with a chord *)
(* between 2 and 3 and a second connection between 1 and 2.                 *)
EXTENDS Forwarding, Integers

CONSTANTS LinkCosts

EndA == [l \in Conns |-> CASE l \in {12, 13, 120} -> 1 [] l \in {24, 23} -> 2 [] l = 34 -> 3]
EndB == [l \in Conns |-> CASE l \in {12, 120} -> 2 [] l \in {13, 23} -> 3 [] l \in {24, 34} -> 4]

\* The connection between two nodes; p is what a node finds towards node 1 or 2
\* where there are two.
Between(n, m, p) ==
    IF {n, m} = {1, 2} THEN p
    ELSE 10 * (IF n < m THEN n ELSE m) + (IF n < m THEN m ELSE n)

Ring(cost, p1, p2, kind, listeners, price) ==
    [a |-> EndA, b |-> EndB, cost |-> cost,
     find |-> [w \in Nodes \X Nodes |-> Between(w[1], w[2], IF w[1] = 1 THEN p1 ELSE p2)],
     rank |-> [n \in Nodes |-> [m \in Nodes |-> IF n = 2 THEN 5 - m ELSE m]],
     kind |-> kind, listeners |-> listeners, price |-> price, lossy |-> FALSE]

\* Who listens: everyone or two nodes for broadcast, one node for unicast, two
\* of different cost for anycast.
Audiences ==
    {<<"Broadcast", L, [n \in Nodes |-> 0]>> : L \in {Nodes, {1, 4}, {3, 4}}}
    \cup {<<"Unicast", {n}, [m \in Nodes |-> 0]>> : n \in Nodes}
    \cup {<<"Anycast", L, [m \in Nodes |-> IF m = 4 THEN 1 ELSE 0]>> : L \in {{1, 4}, {2, 4}, {3, 4}}}

\* Every choice of cost, or no connection, on the ring and the chord.
OneLink(costs) == {c \in [Conns -> costs \cup {0}] : c[120] = 0}

RingNets ==
    {Ring(c, 12, 12, x[1], x[2], x[3]) : c \in OneLink(LinkCosts), x \in Audiences}

\* Two connections between nodes 1 and 2, of the same or of different costs.
ParallelNets ==
    {Ring([l \in Conns |-> IF l = 120 THEN k ELSE 1], p1, p2, x[1], x[2], x[3]) :
        k \in LinkCosts, p1 \in {12, 120}, p2 \in {12, 120}, x \in Audiences}

\* All of them, with losses and without.
AllNets == {[g EXCEPT !.lossy = b] : g \in RingNets \cup ParallelNets, b \in BOOLEAN}
==============================================================================
