--------------------------------- MODULE Spf ---------------------------------
(***************************************************************************)
(* LsDb::compute_spf (routing/linkstate/db.rs): the loop that fills cost,  *)
(* parent and next_hop of one node, the root, from the Router LSAs in its  *)
(* database and its own links.  Adjacencies of a node are taken in any     *)
(* order: a Router LSA lists them in the order the links came up.          *)
(***************************************************************************)
EXTENDS ShortestPaths, Integers, Sequences

CONSTANTS Root,     \* self_id
          Views     \* what the root may know: its graph and its links

Adjacency == [peer : Nodes, cost : Nat \ {0}]
Link      == [conn : Nat \ {0}, peer : Nodes]

\* No entry in parent or next_hop.
NoNode == -1
NoLink == [conn |-> 0, peer |-> NoNode]

\* graph: the adjacencies of each Router LSA in db; links: self.links.  The
\* adjacencies of the root's own LSA are those of its links (add_adjacency,
\* remove_peer).
ViewOK(v) ==
    /\ v.graph \in [Nodes -> SUBSET Adjacency]
    /\ v.links \subseteq Link
    /\ \A a \in v.graph[Root] : \E l \in v.links : l.peer = a.peer

ASSUME ViewsTyped == \A v \in Views : ViewOK(v)
ASSUME RootIsANode == Root \in Nodes

VARIABLES view,     \* nodes and self.links
          cost, parent, hop,   \* self.cost, self.parent, self.next_hop
          queue,    \* entries (cost, node), best first
          cur,      \* current_entry
          todo      \* its adjacencies the for loop has not seen

vars == <<view, cost, parent, hop, queue, cur, todo>>

Entry(c, n) == [cost |-> c, node |-> n]

EntryBetter(a, b) == Better(a.cost, a.node, b.cost, b.node)

Init ==
    /\ view \in Views
    /\ cost = [n \in Nodes |-> IF n = Root THEN 0 ELSE MaxCost]
    /\ parent = [n \in Nodes |-> NoNode]
    /\ hop = [n \in Nodes |-> NoLink]
    /\ queue = <<Entry(0, Root)>>
    /\ cur = Entry(0, Root)
    /\ todo = {}

PopFront ==
    /\ todo = {}
    /\ queue # <<>>
    /\ cur' = Head(queue)
    /\ queue' = Tail(queue)
    /\ todo' = view.graph[Head(queue).node]
    /\ UNCHANGED <<view, cost, parent, hop>>

\* find_position and queue.remove(pos); a node has at most one entry.
Dequeue(q, n) ==
    IF \E i \in 1..Len(q) : q[i].node = n
    THEN LET i == CHOOSE i \in 1..Len(q) : q[i].node = n
         IN  SubSeq(q, 1, i - 1) \o SubSeq(q, i + 1, Len(q))
    ELSE q

\* Mutant of Enqueue: the entry goes to the back of the queue.
EnqueueAtBack(q, e, q1) == q1 = Append(q, e)

\* partition_point and queue.insert(pos, entry).
Enqueue(q, e, q1) ==
    \E p \in 1..(Len(q) + 1) :
        /\ \A i \in 1..(p - 1) : EntryBetter(q[i], e)
        /\ \A i \in p..Len(q) : ~EntryBetter(q[i], e)
        /\ q1 = SubSeq(q, 1, p - 1) \o <<e>> \o SubSeq(q, p, Len(q))

\* Mutant of NextHop: only the root's neighbours get a next hop.
NextHopOfNeighbours(n, h) ==
    IF cur.node = Root
    THEN \E l \in view.links : l.peer = n /\ h = [hop EXCEPT ![n] = l]
    ELSE h = hop

\* Of several links to a neighbour any may be found; a node further away
\* inherits the hop of the node it is reached over, which is unwrapped.
NextHop(n, h) ==
    IF cur.node = Root
    THEN \/ \E l \in view.links : l.peer = n /\ h = [hop EXCEPT ![n] = l]
         \/ (\A l \in view.links : l.peer # n) /\ h = hop
    ELSE hop[cur.node] # NoLink /\ h = [hop EXCEPT ![n] = hop[cur.node]]

\* Mutants of Improves: an equal path replaces the one found first; the first
\* path found is kept.
ImprovesOrEqual(n, alt) == alt.cost <= cost[n]
ImprovesUnseen(n, alt)  == cost[n] = MaxCost

Improves(n, alt) == EntryBetter(alt, Entry(cost[n], n))

Relax(a) ==
    LET n   == a.peer
        alt == Entry(SatAdd(cur.cost, a.cost), n)
    IN  /\ todo' = todo \ {a}
        /\ \/ /\ Improves(n, alt)
              /\ cost' = [cost EXCEPT ![n] = alt.cost]
              /\ parent' = [parent EXCEPT ![n] = cur.node]
              /\ NextHop(n, hop')
              /\ Enqueue(Dequeue(queue, n), alt, queue')
           \/ /\ ~Improves(n, alt)
              /\ UNCHANGED <<cost, parent, hop, queue>>
        /\ UNCHANGED <<view, cur>>

Done == queue = <<>> /\ todo = {}

Next ==
    \/ PopFront
    \/ \E a \in todo : Relax(a)

Spec == Init /\ [][Next]_vars

\* The loop runs to its end inside one call.
FairSpec == Spec /\ WF_vars(Next)

-----------------------------------------------------------------------------
(* Properties.                                                             *)

\* The types of the variables; next hops are links of the root, and what is left
\* of the for loop are adjacencies of the node being expanded.
TypeOK ==
    /\ ViewOK(view)
    /\ cost \in [Nodes -> 0..MaxCost]
    /\ parent \in [Nodes -> Nodes \cup {NoNode}]
    /\ hop \in [Nodes -> view.links \cup {NoLink}]
    /\ queue \in Seq([cost : 0..MaxCost, node : Nodes])
    /\ cur \in [cost : 0..MaxCost, node : Nodes]
    /\ todo \subseteq view.graph[cur.node]

\* next_hop.get(&current_entry.1).unwrap() never panics: every node the loop
\* expands, or still has to, is the root or has a next hop.
HopBeforeExpansion ==
    \A n \in {cur.node} \cup {queue[i].node : i \in 1..Len(queue)} :
        n # Root => hop[n] # NoLink

\* When the loop ends, cost is the cost of a shortest path for every node,
\* saturated at u16::MAX, whatever the order of the adjacencies.
CostsAreShortest ==
    Done => \A n \in Nodes : cost[n] = Dist(view.graph)[Root][n]

\* When the loop ends, every reachable node hangs off the closest of the nodes
\* a shortest path may enter it from, by id among equals, and its next hop is
\* a link to the first node on that path of the tree: the tree is the same for
\* every order of the adjacencies, so nodes with the same database agree on it.
TreeIsDeterministic ==
    Done => LET dist  == Dist(view.graph)
                first == FirstHop(view.graph, dist, Root)
            IN  \A n \in Nodes :
                  IF Reachable(dist, Root, n)
                  THEN /\ parent[n] = TreeParent(view.graph, dist, Root, n)
                       /\ hop[n] # NoLink /\ hop[n].peer = first[n]
                  ELSE parent[n] = NoNode /\ hop[n] = NoLink

\* The loop ends: an entry is queued again only at a lower cost.
Terminates == <>Done
=============================================================================
