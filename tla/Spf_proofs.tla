------------------------------ MODULE Spf_proofs ------------------------------
(***************************************************************************)
(* compute_spf is right for every graph, every set of links that covers    *)
(* the root's own adjacencies and every order of the adjacencies: it never *)
(* unwraps a missing next hop, its costs are those of shortest paths, and  *)
(* parents and next hops form the one tree the tie-break fixes.            *)
(*                                                                         *)
(* The argument has three layers: entries and next hops (TypeOK,           *)
(* HopBeforeExpansion), the costs (CostInv), and the order of the queue    *)
(* with the tree grown so far (QueueInv, TreeInv).                         *)
(***************************************************************************)
EXTENDS Spf, Routing_proofs

SpfEntry == [cost : 0..MaxCost, node : Nodes]

\* r is q without its k-th entry; r is q with e inserted at p.
Without(q, k, r) ==
    /\ r \in Seq(SpfEntry) /\ Len(r) = Len(q) - 1
    /\ \A i \in 1..Len(r) : r[i] = IF i < k THEN q[i] ELSE q[i + 1]

With(q, p, e, r) ==
    /\ r \in Seq(SpfEntry) /\ Len(r) = Len(q) + 1
    /\ \A i \in 1..Len(r) :
         r[i] = IF i < p THEN q[i] ELSE IF i = p THEN e ELSE q[i - 1]

\* Dequeue takes out one entry of the node, if there is any.
LEMMA DequeueAt ==
    ASSUME NEW q \in Seq(SpfEntry), NEW n \in Nodes, \E i \in 1..Len(q) : q[i].node = n
    PROVE  \E k \in 1..Len(q) : q[k].node = n /\ Without(q, k, Dequeue(q, n))
<1>1. PICK k \in 1..Len(q) :
         q[k].node = n /\ Dequeue(q, n) = SubSeq(q, 1, k - 1) \o SubSeq(q, k + 1, Len(q))
  BY DEF Dequeue
<1> DEFINE l == SubSeq(q, 1, k - 1)
           r == SubSeq(q, k + 1, Len(q))
<1>2. /\ l \in Seq(SpfEntry) /\ Len(l) = k - 1
      /\ \A i \in 1..(k - 1) : l[i] = q[i]
  OBVIOUS
<1>3. /\ r \in Seq(SpfEntry) /\ Len(r) = Len(q) - k
      /\ \A i \in 1..(Len(q) - k) : r[i] = q[i + k]
  OBVIOUS
<1> HIDE DEF l, r
<1>4. Len(l) \in Nat /\ Len(r) \in Nat /\ l \in Seq(SpfEntry) /\ r \in Seq(SpfEntry)
  BY <1>2, <1>3
<1>5. /\ l \o r \in Seq(SpfEntry) /\ Len(l \o r) = Len(l) + Len(r)
      /\ \A i \in 1..Len(l \o r) :
           (l \o r)[i] = IF i <= Len(l) THEN l[i] ELSE r[i - Len(l)]
  BY <1>4
<1>6. ASSUME NEW i \in 1..Len(l \o r)
      PROVE  (l \o r)[i] = IF i < k THEN q[i] ELSE q[i + 1]
  <2>1. CASE i <= k - 1
    BY <1>2, <1>5, <2>1
  <2>2. CASE ~(i <= k - 1)
    <3>1. i - Len(l) \in 1..(Len(q) - k) /\ i + 1 \in 1..Len(q)
      BY <1>2, <1>3, <1>5, <2>2
    <3>2. (l \o r)[i] = q[i + 1]
      BY <1>2, <1>3, <1>5, <2>2, <3>1
    <3> QED BY <2>2, <3>1, <3>2
  <2> QED BY <2>1, <2>2
<1>7. Len(l \o r) = Len(q) - 1
  BY <1>2, <1>3, <1>5
<1> QED
  BY <1>1, <1>5, <1>6, <1>7 DEF l, r, Without

\* Enqueue puts an entry in front of the first one that is not better.
LEMMA EnqueueAt ==
    ASSUME NEW q \in Seq(SpfEntry), NEW e \in SpfEntry, NEW q1, Enqueue(q, e, q1)
    PROVE  \E p \in 1..(Len(q) + 1) :
              /\ \A i \in 1..(p - 1) : EntryBetter(q[i], e)
              /\ \A i \in p..Len(q) : ~EntryBetter(q[i], e)
              /\ With(q, p, e, q1)
<1>1. PICK p \in 1..(Len(q) + 1) :
         /\ \A i \in 1..(p - 1) : EntryBetter(q[i], e)
         /\ \A i \in p..Len(q) : ~EntryBetter(q[i], e)
         /\ q1 = SubSeq(q, 1, p - 1) \o <<e>> \o SubSeq(q, p, Len(q))
  BY DEF Enqueue
<1> DEFINE l == SubSeq(q, 1, p - 1)
           r == SubSeq(q, p, Len(q))
<1>2. /\ l \in Seq(SpfEntry) /\ Len(l) = p - 1
      /\ \A i \in 1..(p - 1) : l[i] = q[i]
  OBVIOUS
<1>3. /\ r \in Seq(SpfEntry) /\ Len(r) = Len(q) - p + 1
      /\ \A i \in 1..(Len(q) - p + 1) : r[i] = q[i + p - 1]
  OBVIOUS
<1> HIDE DEF l, r
<1>4. /\ l \o <<e>> \in Seq(SpfEntry) /\ Len(l \o <<e>>) = p
      /\ \A i \in 1..(p - 1) : (l \o <<e>>)[i] = l[i]
      /\ (l \o <<e>>)[p] = e
  BY <1>2
<1> DEFINE le == l \o <<e>>
<1> HIDE DEF le
<1>5. le \in Seq(SpfEntry) /\ Len(le) = p
  BY <1>4 DEF le
<1>6. /\ le \o r \in Seq(SpfEntry) /\ Len(le \o r) = p + Len(r)
      /\ \A i \in 1..Len(le \o r) :
           (le \o r)[i] = IF i <= p THEN le[i] ELSE r[i - p]
  BY <1>3, <1>5
<1>7. ASSUME NEW i \in 1..Len(le \o r)
      PROVE  (le \o r)[i] = IF i < p THEN q[i] ELSE IF i = p THEN e ELSE q[i - 1]
  <2>1. CASE i <= p - 1
    <3>1. i \in 1..(p - 1) /\ i \in 1..Len(q) /\ i <= p
      BY <1>6, <2>1
    <3> QED BY <1>2, <1>4, <1>6, <3>1 DEF le
  <2>2. CASE i = p
    BY <1>4, <1>6, <2>2 DEF le
  <2>3. CASE i > p
    <3>1. i - p \in 1..(Len(q) - p + 1) /\ i - 1 \in 1..Len(q)
      BY <1>3, <1>6, <2>3
    <3>2. (le \o r)[i] = q[i - 1]
      BY <1>3, <1>6, <2>3, <3>1
    <3> QED BY <2>3, <3>1, <3>2
  <2> QED BY <2>1, <2>2, <2>3
<1>8. Len(le \o r) = Len(q) + 1
  BY <1>3, <1>6
<1> QED
  BY <1>1, <1>6, <1>7, <1>8 DEF le, l, r, With

\* Taking out a node's entry leaves a queue of entries of the old one, those of
\* other nodes among them.
LEMMA DequeueResult ==
    ASSUME NEW q \in Seq(SpfEntry), NEW n \in Nodes
    PROVE  /\ Dequeue(q, n) \in Seq(SpfEntry)
           /\ \A i \in 1..Len(Dequeue(q, n)) :
                \E j \in 1..Len(q) : Dequeue(q, n)[i] = q[j]
           /\ \A j \in 1..Len(q) : q[j].node # n =>
                \E i \in 1..Len(Dequeue(q, n)) : Dequeue(q, n)[i] = q[j]
<1>1. CASE \E i \in 1..Len(q) : q[i].node = n
  <2>1. PICK k \in 1..Len(q) : q[k].node = n /\ Without(q, k, Dequeue(q, n))
    BY <1>1, DequeueAt
  <2>2. PICK r : r = Dequeue(q, n)
    OBVIOUS
  <2>3. /\ r \in Seq(SpfEntry) /\ Len(r) = Len(q) - 1
        /\ \A i \in 1..Len(r) : r[i] = IF i < k THEN q[i] ELSE q[i + 1]
    BY <2>1, <2>2 DEF Without
  <2>4. ASSUME NEW i \in 1..Len(r) PROVE \E j \in 1..Len(q) : r[i] = q[j]
    <3>1. i \in 1..Len(q) /\ i + 1 \in 1..Len(q)
      BY <2>3
    <3> QED BY <2>3, <3>1
  <2>5. ASSUME NEW j \in 1..Len(q), q[j].node # n PROVE \E i \in 1..Len(r) : r[i] = q[j]
    <3>1. j # k
      BY <2>1, <2>5
    <3>2. CASE j < k
      <4>1. j \in 1..Len(r)
        BY <2>3, <3>2
      <4> QED BY <2>3, <3>2, <4>1
    <3>3. CASE j > k
      <4>1. j - 1 \in 1..Len(r) /\ ~(j - 1 < k) /\ (j - 1) + 1 = j
        BY <2>3, <3>3
      <4> QED BY <2>3, <4>1
    <3> QED BY <3>1, <3>2, <3>3
  <2> QED
    BY <2>2, <2>3, <2>4, <2>5
<1>2. CASE ~\E i \in 1..Len(q) : q[i].node = n
  <2>1. Dequeue(q, n) = q
    BY <1>2 DEF Dequeue
  <2> QED BY <2>1
<1> QED
  BY <1>1, <1>2

\* Putting an entry in adds that one to the queue and nothing else.
LEMMA EnqueueResult ==
    ASSUME NEW q \in Seq(SpfEntry), NEW e \in SpfEntry, NEW q1, Enqueue(q, e, q1)
    PROVE  /\ q1 \in Seq(SpfEntry)
           /\ \A i \in 1..Len(q1) : q1[i] = e \/ \E j \in 1..Len(q) : q1[i] = q[j]
           /\ \E i \in 1..Len(q1) : q1[i] = e
           /\ \A j \in 1..Len(q) : \E i \in 1..Len(q1) : q1[i] = q[j]
<1>1. PICK p \in 1..(Len(q) + 1) : With(q, p, e, q1)
  BY EnqueueAt
<1>2. /\ q1 \in Seq(SpfEntry) /\ Len(q1) = Len(q) + 1
      /\ \A i \in 1..Len(q1) :
           q1[i] = IF i < p THEN q[i] ELSE IF i = p THEN e ELSE q[i - 1]
  BY <1>1 DEF With
<1>3. ASSUME NEW i \in 1..Len(q1) PROVE q1[i] = e \/ \E j \in 1..Len(q) : q1[i] = q[j]
  <2>1. CASE i < p
    <3>1. i \in 1..Len(q)
      BY <2>1
    <3> QED BY <1>2, <2>1, <3>1
  <2>2. CASE i = p
    BY <1>2, <2>2
  <2>3. CASE i > p
    <3>1. i - 1 \in 1..Len(q)
      BY <1>2, <2>3
    <3> QED BY <1>2, <2>3, <3>1
  <2> QED BY <2>1, <2>2, <2>3
<1>4. \E i \in 1..Len(q1) : q1[i] = e
  <2>1. p \in 1..Len(q1)
    BY <1>2
  <2> QED BY <1>2, <2>1
<1>5. ASSUME NEW j \in 1..Len(q) PROVE \E i \in 1..Len(q1) : q1[i] = q[j]
  <2>1. CASE j < p
    <3>1. j \in 1..Len(q1)
      BY <1>2
    <3> QED BY <1>2, <2>1, <3>1
  <2>2. CASE ~(j < p)
    <3>1. j + 1 \in 1..Len(q1) /\ ~(j + 1 < p) /\ j + 1 # p /\ (j + 1) - 1 = j
      BY <1>2, <2>2
    <3> QED BY <1>2, <3>1
  <2> QED BY <2>1, <2>2
<1> QED
  BY <1>2, <1>3, <1>4, <1>5

\* The loop starts with the root alone, which needs no next hop.
LEMMA InitSafe == Init => TypeOK /\ HopBeforeExpansion
<1> SUFFICES ASSUME Init PROVE TypeOK /\ HopBeforeExpansion
  OBVIOUS
<1>1. Entry(0, Root) \in [cost : 0..MaxCost, node : Nodes]
  BY RootIsANode, MaxCostPositive DEF Entry
<1>2. TypeOK
  BY <1>1, ViewsTyped, MaxCostPositive DEF Init, TypeOK
<1>3. HopBeforeExpansion
  BY DEF Init, HopBeforeExpansion, Entry
<1> QED
  BY <1>2, <1>3

\* An expanded node hands its next hop on, and the root's neighbours have a
\* link each, so whatever is queued can be expanded.
LEMMA NextSafe ==
    TypeOK /\ HopBeforeExpansion /\ [Next]_vars => TypeOK' /\ HopBeforeExpansion'
<1> SUFFICES ASSUME TypeOK, HopBeforeExpansion, [Next]_vars
             PROVE  TypeOK' /\ HopBeforeExpansion'
  OBVIOUS
<1>t. queue \in Seq(SpfEntry) /\ cur \in SpfEntry /\ cur.node \in Nodes
  BY DEF TypeOK, SpfEntry
<1>1. CASE PopFront
  <2>1. /\ Head(queue) \in SpfEntry /\ Tail(queue) \in Seq(SpfEntry)
        /\ Head(queue) = queue[1] /\ 1 \in 1..Len(queue)
        /\ \A i \in 1..Len(Tail(queue)) :
             i + 1 \in 1..Len(queue) /\ Tail(queue)[i] = queue[i + 1]
    BY <1>1, <1>t DEF PopFront
  <2>2. TypeOK'
    BY <1>1, <2>1 DEF PopFront, TypeOK, SpfEntry
  <2>3. HopBeforeExpansion'
    BY <1>1, <2>1 DEF PopFront, HopBeforeExpansion
  <2> QED BY <2>2, <2>3
<1>2. ASSUME NEW a \in todo, Relax(a) PROVE TypeOK' /\ HopBeforeExpansion'
  <2> DEFINE n == a.peer
             alt == Entry(SatAdd(cur.cost, a.cost), n)
  <2>1. a \in view.graph[cur.node] /\ n \in Nodes /\ a.cost \in Nat
    BY <1>t DEF TypeOK, ViewOK, Adjacency
  <2>2. alt \in SpfEntry /\ alt.node = n
    BY <1>t, <2>1, SatAddIs DEF Entry, SpfEntry
  <2>3. view' = view /\ cur' = cur /\ todo' \subseteq todo
    BY <1>2 DEF Relax
  <2>4. CASE ~Improves(n, alt)
    <3>1. UNCHANGED <<cost, parent, hop, queue>>
      BY <1>2, <2>4 DEF Relax
    <3> QED BY <2>3, <3>1 DEF TypeOK, ViewOK, HopBeforeExpansion
  <2>5. CASE Improves(n, alt)
    <3>1. /\ cost' = [cost EXCEPT ![n] = alt.cost]
          /\ parent' = [parent EXCEPT ![n] = cur.node]
          /\ NextHop(n, hop')
          /\ Enqueue(Dequeue(queue, n), alt, queue')
      BY <1>2, <2>5 DEF Relax
    <3> HIDE DEF n, alt
    <3>2. PICK l \in view.links \cup {NoLink} :
             l # NoLink /\ hop' = [hop EXCEPT ![n] = l]
      <4>1. CASE cur.node = Root
        <5>1. PICK l0 \in view.links : l0.peer = n
          BY <2>1, <4>1 DEF TypeOK, ViewOK, n
        <5>2. \E l \in view.links : l.peer = n /\ hop' = [hop EXCEPT ![n] = l]
          BY <3>1, <4>1, <5>1 DEF NextHop
        <5>3. \A l \in view.links : l # NoLink
          BY DEF TypeOK, ViewOK, Link, NoLink
        <5> QED BY <5>2, <5>3
      <4>2. CASE cur.node # Root
        BY <1>t, <3>1, <4>2 DEF NextHop, TypeOK
      <4> QED BY <4>1, <4>2
    <3>3. /\ queue' \in Seq(SpfEntry)
          /\ \A i \in 1..Len(queue') :
               queue'[i] = alt \/ \E j \in 1..Len(queue) : queue'[i] = queue[j]
      <4>1. /\ Dequeue(queue, n) \in Seq(SpfEntry)
            /\ \A i \in 1..Len(Dequeue(queue, n)) :
                 \E j \in 1..Len(queue) : Dequeue(queue, n)[i] = queue[j]
        BY <1>t, <2>1, DequeueResult
      <4>2. /\ queue' \in Seq(SpfEntry)
            /\ \A i \in 1..Len(queue') :
                 queue'[i] = alt \/ \E j \in 1..Len(Dequeue(queue, n)) :
                                       queue'[i] = Dequeue(queue, n)[j]
        BY <2>2, <3>1, <4>1, EnqueueResult
      <4> QED BY <4>1, <4>2
    <3>4. TypeOK'
      <4>1. cost' \in [Nodes -> 0..MaxCost] /\ parent' \in [Nodes -> Nodes \cup {NoNode}]
        BY <1>t, <2>1, <2>2, <3>1 DEF TypeOK, SpfEntry
      <4>2. hop' \in [Nodes -> view'.links \cup {NoLink}]
        BY <2>3, <3>2 DEF TypeOK
      <4> QED BY <2>3, <3>3, <4>1, <4>2 DEF TypeOK, ViewOK, SpfEntry
    <3>5. HopBeforeExpansion'
      <4>1. \A m \in Nodes : hop[m] # NoLink => hop'[m] # NoLink
        BY <2>1, <3>2 DEF TypeOK
      <4>2. hop'[n] # NoLink
        BY <2>1, <3>2 DEF TypeOK
      <4>3. \A j \in 1..Len(queue) : queue[j].node \in Nodes
        <5>1. \A j \in 1..Len(queue) : queue[j] \in SpfEntry
          BY <1>t
        <5> QED BY <5>1 DEF SpfEntry
      <4> QED
        BY <1>t, <2>2, <2>3, <3>3, <4>1, <4>2, <4>3 DEF HopBeforeExpansion
    <3> QED BY <3>4, <3>5
  <2> QED BY <2>4, <2>5
<1>3. CASE UNCHANGED vars
  BY <1>3 DEF vars, TypeOK, ViewOK, HopBeforeExpansion
<1> QED
  BY <1>1, <1>2, <1>3 DEF Next

\* compute_spf never panics on next_hop.get(..).unwrap().
THEOREM UnwrapIsSafe == Spec => []HopBeforeExpansion
<1>1. Init => TypeOK /\ HopBeforeExpansion
  BY InitSafe
<1>2. TypeOK /\ HopBeforeExpansion /\ [Next]_vars => TypeOK' /\ HopBeforeExpansion'
  BY NextSafe
<1> QED
  BY <1>1, <1>2, PTL DEF Spec

\* The tables and the queue of compute_spf keep their types; next hops are links
\* of the root.
THEOREM TypeCorrect == Spec => []TypeOK
<1>1. Init => TypeOK /\ HopBeforeExpansion
  BY InitSafe
<1>2. TypeOK /\ HopBeforeExpansion /\ [Next]_vars => TypeOK' /\ HopBeforeExpansion'
  BY NextSafe
<1> QED
  BY <1>1, <1>2, PTL DEF Spec

-----------------------------------------------------------------------------
(* The costs.                                                              *)

\* The entry of a node as it stands.
Now(n) == Entry(cost[n], n)

Queued(e) == \E i \in 1..Len(queue) : queue[i] = e

\* No arc of u among these improves on the cost of its other end.
Relaxed(u, arcs) == \A a \in arcs : cost[a.peer] <= SatAdd(cost[u], a.cost)

\* Costs are never below the distance; every node is waiting in the queue with
\* its present cost, is being expanded, or has nothing to improve.
CostInv ==
    /\ cost[Root] = 0
    /\ \A n \in Nodes : Dist(view.graph)[Root][n] <= cost[n]
    /\ Dist(view.graph)[Root][cur.node] <= cur.cost
    /\ \A i \in 1..Len(queue) : Dist(view.graph)[Root][queue[i].node] <= queue[i].cost
    /\ \A u \in Nodes : \/ Queued(Now(u))
                        \/ cur = Now(u) /\ Relaxed(u, view.graph[u] \ todo)
                        \/ Relaxed(u, view.graph[u])

\* A node's adjacencies are arcs to nodes at positive costs.
LEMMA ViewIsGraph ==
    ASSUME ViewOK(view), NEW u \in Nodes, NEW a \in view.graph[u]
    PROVE  /\ GraphOK(view.graph)
           /\ a.peer \in Nodes /\ a.cost \in Nat \ {0}
           /\ a.cost \in ArcCosts(view.graph, u, a.peer)
<1>1. view.graph \in [Nodes -> SUBSET Adjacency]
  BY DEF ViewOK
<1>2. \A v \in Nodes : view.graph[v] \in SUBSET [peer : Nodes, cost : Nat]
  BY <1>1 DEF Adjacency
<1>3. GraphOK(view.graph)
  BY <1>1, <1>2 DEF GraphOK
<1> QED
  BY <1>1, <1>3 DEF Adjacency, ArcCosts

\* In particular a view's graph is one.
LEMMA ViewGraphOK == ViewOK(view) => GraphOK(view.graph)
<1> SUFFICES ASSUME ViewOK(view) PROVE GraphOK(view.graph)
  OBVIOUS
<1>1. view.graph \in [Nodes -> SUBSET Adjacency]
  BY DEF ViewOK
<1>2. \A v \in Nodes : view.graph[v] \in SUBSET [peer : Nodes, cost : Nat]
  BY <1>1 DEF Adjacency
<1> QED
  BY <1>1, <1>2 DEF GraphOK

\* The root is at distance 0 and queued; from no other node is there anything to
\* improve yet.
LEMMA InitCosts == Init => CostInv
<1> SUFFICES ASSUME Init PROVE CostInv
  OBVIOUS
<1>1. TypeOK /\ ViewOK(view)
  BY InitSafe DEF TypeOK
<1> DEFINE d(n) == Dist(view.graph)[Root][n]
<1>2. \A n \in Nodes : d(n) \in 0..MaxCost /\ IsDist(view.graph, d(n), Root, n)
  BY <1>1, ViewGraphOK, DistIs, RootIsANode DEF IsDist
<1>3. d(Root) <= 0
  <2>1. PICK p : p = [i \in 1..1 |-> Root]
    OBVIOUS
  <2>2. p \in Paths(view.graph, 1, Root, Root)
    BY <2>1, RootIsANode DEF Paths
  <2>3. 1 \in Nat \ {0}
    OBVIOUS
  <2>4. PICK C : Along(view.graph, 1, p, C) /\ PathCost(view.graph, 1, p) = C[1]
    BY <1>1, <2>2, <2>3, ViewGraphOK, PathCostIs
  <2>5. PathCost(view.graph, 1, p) = 0
    BY <2>4 DEF Along
  <2> QED BY <1>2, <2>2, <2>3, <2>5, RootIsANode DEF IsDist
<1> HIDE DEF d
<1>4. cost[Root] = 0 /\ \A n \in Nodes : n # Root => cost[n] = MaxCost
  BY RootIsANode DEF Init
<1>5. \A n \in Nodes : d(n) <= cost[n]
  BY <1>2, <1>3, <1>4, MaxCostPositive
<1>6. /\ cur.node = Root /\ cur.cost = 0 /\ Len(queue) = 1
      /\ queue[1] = Entry(0, Root) /\ queue[1].node = Root /\ queue[1].cost = 0
  BY DEF Init, Entry
<1>7. \A i \in 1..Len(queue) : queue[i].node = Root /\ queue[i].cost = 0
  BY <1>6
<1>8. ASSUME NEW u \in Nodes PROVE Queued(Now(u)) \/ Relaxed(u, view.graph[u])
  <2>1. CASE u = Root
    BY <1>4, <1>6, <2>1 DEF Queued, Now
  <2>2. CASE u # Root
    <3> SUFFICES ASSUME NEW a \in view.graph[u]
                 PROVE  cost[a.peer] <= SatAdd(cost[u], a.cost)
      BY DEF Relaxed
    <3>1. a.peer \in Nodes /\ a.cost \in Nat
      BY <1>1, ViewIsGraph
    <3>2. cost[a.peer] \in 0..MaxCost /\ cost[u] = MaxCost
      BY <1>1, <1>4, <2>2, <3>1 DEF TypeOK
    <3> QED BY <3>1, <3>2, MaxCostPositive DEF SatAdd
  <2> QED BY <2>1, <2>2
<1> QED
  BY <1>3, <1>4, <1>5, <1>6, <1>7, <1>8 DEF CostInv, d

\* The next entry is taken: its node is queued no more, but being expanded.
LEMMA PopFrontCosts == TypeOK /\ CostInv /\ PopFront => CostInv'
<1> SUFFICES ASSUME TypeOK, CostInv, PopFront PROVE CostInv'
  OBVIOUS
<1>1. /\ view' = view /\ cost' = cost /\ todo = {}
      /\ cur' = Head(queue) /\ queue' = Tail(queue)
      /\ todo' = view.graph[Head(queue).node]
  BY DEF PopFront
<1>2. /\ queue \in Seq(SpfEntry) /\ queue # <<>>
      /\ Head(queue) = queue[1] /\ 1 \in 1..Len(queue)
      /\ Len(queue') = Len(queue) - 1
      /\ \A i \in 1..Len(queue') : i + 1 \in 1..Len(queue) /\ queue'[i] = queue[i + 1]
  BY <1>1 DEF PopFront, TypeOK, SpfEntry
<1>3. ASSUME NEW u \in Nodes
      PROVE  \/ Queued(Now(u))'
             \/ (cur = Now(u) /\ Relaxed(u, view.graph[u] \ todo))'
             \/ Relaxed(u, view.graph[u])'
  <2>0. Now(u)' = Now(u) /\ \A S : Relaxed(u, S)' <=> Relaxed(u, S)
    BY <1>1 DEF Now, Relaxed
  <2>1. CASE Queued(Now(u))
    <3>1. PICK i \in 1..Len(queue) : queue[i] = Now(u)
      BY <2>1 DEF Queued
    <3>2. CASE i = 1
      <4>1. cur' = Now(u) /\ cur'.node = u
        BY <1>1, <1>2, <3>1, <3>2 DEF Now, Entry
      <4>2. todo' = view.graph[u]
        BY <1>1, <4>1
      <4>3. Relaxed(u, view.graph[u] \ todo)'
        BY <1>1, <4>2 DEF Relaxed
      <4> QED BY <2>0, <4>1, <4>3
    <3>3. CASE i # 1
      <4>1. i - 1 \in 1..Len(queue') /\ (i - 1) + 1 = i
        BY <1>2, <3>3
      <4>2. queue'[i - 1] = Now(u)'
        BY <1>2, <2>0, <3>1, <4>1
      <4> QED BY <4>1, <4>2 DEF Queued
    <3> QED BY <3>2, <3>3
  <2>2. CASE Relaxed(u, view.graph[u] \ todo) \/ Relaxed(u, view.graph[u])
    <3>1. Relaxed(u, view.graph[u])
      BY <1>1, <2>2 DEF Relaxed
    <3> QED BY <1>1, <3>1 DEF Relaxed
  <2> QED BY <2>1, <2>2 DEF CostInv
<1>4. /\ Dist(view'.graph)[Root][cur'.node] <= cur'.cost
      /\ \A i \in 1..Len(queue') : Dist(view'.graph)[Root][queue'[i].node] <= queue'[i].cost
  BY <1>1, <1>2 DEF CostInv
<1>5. cost'[Root] = 0 /\ \A n \in Nodes : Dist(view'.graph)[Root][n] <= cost'[n]
  BY <1>1 DEF CostInv
<1> QED
  BY <1>3, <1>4, <1>5 DEF CostInv

\* The entry that adjacency a of the node being expanded offers.
Alt(a) == Entry(SatAdd(cur.cost, a.cost), a.peer)

\* Relax with an improvement, which is one of cost.
Improvement(a) ==
    /\ SatAdd(cur.cost, a.cost) < cost[a.peer]
    /\ cost' = [cost EXCEPT ![a.peer] = SatAdd(cur.cost, a.cost)]
    /\ parent' = [parent EXCEPT ![a.peer] = cur.node]
    /\ NextHop(a.peer, hop')
    /\ Enqueue(Dequeue(queue, a.peer), Alt(a), queue')

\* What a step of the for loop has to do with.
RelaxFacts(a) ==
    /\ GraphOK(view.graph)
    /\ cur.node \in Nodes /\ cur.cost \in 0..MaxCost
    /\ a \in view.graph[cur.node]
    /\ a.peer \in Nodes /\ a.cost \in Nat \ {0}
    /\ a.cost \in ArcCosts(view.graph, cur.node, a.peer)
    /\ SatAdd(cur.cost, a.cost) \in 0..MaxCost
    /\ Alt(a) \in SpfEntry /\ Alt(a).node = a.peer /\ Alt(a).cost = SatAdd(cur.cost, a.cost)
    /\ view' = view /\ cur' = cur /\ todo' = todo \ {a}
    /\ \/ Improvement(a)
       \/ /\ cost[a.peer] <= SatAdd(cur.cost, a.cost)
          /\ UNCHANGED <<cost, parent, hop, queue>>

\* It improves the cost of the other end or changes nothing but the loop.
LEMMA RelaxIs ==
    ASSUME TypeOK, NEW a \in todo, Relax(a)
    PROVE  RelaxFacts(a)
<1>1. cur \in SpfEntry /\ cur.node \in Nodes /\ cur.cost \in 0..MaxCost
  BY DEF TypeOK, SpfEntry
<1>2. ViewOK(view) /\ a \in view.graph[cur.node]
  BY DEF TypeOK
<1>3. /\ GraphOK(view.graph)
      /\ a.peer \in Nodes /\ a.cost \in Nat \ {0}
      /\ a.cost \in ArcCosts(view.graph, cur.node, a.peer)
  BY <1>1, <1>2, ViewIsGraph
<1>4. SatAdd(cur.cost, a.cost) \in 0..MaxCost
  BY <1>1, <1>3, SatAddIs
<1>5. Alt(a) \in SpfEntry /\ Alt(a).node = a.peer /\ Alt(a).cost = SatAdd(cur.cost, a.cost)
  BY <1>3, <1>4 DEF Alt, Entry, SpfEntry
<1>6. view' = view /\ cur' = cur /\ todo' = todo \ {a}
  BY DEF Relax
<1>7. cost[a.peer] \in 0..MaxCost /\ a.peer \in Nat
  BY <1>3, NodesAreOrdered DEF TypeOK
<1>8. Improves(a.peer, Alt(a)) <=> SatAdd(cur.cost, a.cost) < cost[a.peer]
  <2>1. Improves(a.peer, Alt(a)) <=> Better(SatAdd(cur.cost, a.cost), a.peer, cost[a.peer], a.peer)
    BY <1>5 DEF Improves, EntryBetter, Entry
  <2>2. \A x, y, m \in Nat : Better(x, m, y, m) <=> x < y
    BY DEF Better
  <2> QED BY <1>4, <1>7, <2>1, <2>2
<1>9. CASE Improves(a.peer, Alt(a))
  <2>1. Improvement(a)
    BY <1>5, <1>8, <1>9 DEF Relax, Alt, Improvement
  <2> QED BY <1>1, <1>2, <1>3, <1>4, <1>5, <1>6, <2>1 DEF RelaxFacts
<1>10. CASE ~Improves(a.peer, Alt(a))
  <2>1. UNCHANGED <<cost, parent, hop, queue>>
    BY <1>10 DEF Relax, Alt
  <2>2. cost[a.peer] <= SatAdd(cur.cost, a.cost)
    BY <1>4, <1>7, <1>8, <1>10
  <2> QED BY <1>1, <1>2, <1>3, <1>4, <1>5, <1>6, <2>1, <2>2 DEF RelaxFacts
<1> QED BY <1>9, <1>10

\* An improvement queues the node at its new cost and leaves the others alone.
QueueFacts(a) ==
    /\ Queued(Alt(a))'
    /\ \A i \in 1..Len(queue') :
         queue'[i] = Alt(a) \/ \E j \in 1..Len(queue) : queue'[i] = queue[j]
    /\ \A j \in 1..Len(queue) : queue[j].node # a.peer => \E i \in 1..Len(queue') : queue'[i] = queue[j]

\* See Dequeue and Enqueue.
LEMMA ImprovementQueues ==
    ASSUME TypeOK, NEW a, RelaxFacts(a), Improvement(a)
    PROVE  QueueFacts(a)
<1>1. queue \in Seq(SpfEntry) /\ a.peer \in Nodes /\ Alt(a) \in SpfEntry
  BY DEF TypeOK, SpfEntry, RelaxFacts
<1>2. PICK q : q = Dequeue(queue, a.peer)
  OBVIOUS
<1>3. /\ q \in Seq(SpfEntry)
      /\ \A i \in 1..Len(q) : \E j \in 1..Len(queue) : q[i] = queue[j]
      /\ \A j \in 1..Len(queue) : queue[j].node # a.peer => \E i \in 1..Len(q) : q[i] = queue[j]
  BY <1>1, <1>2, DequeueResult
<1>4. Enqueue(q, Alt(a), queue')
  BY <1>2 DEF Improvement
<1>5. PICK e \in SpfEntry : e = Alt(a)
  BY <1>1
<1>6. /\ \A i \in 1..Len(queue') : queue'[i] = e \/ \E j \in 1..Len(q) : queue'[i] = q[j]
      /\ \E i \in 1..Len(queue') : queue'[i] = e
      /\ \A j \in 1..Len(q) : \E i \in 1..Len(queue') : queue'[i] = q[j]
  BY <1>3, <1>4, <1>5, EnqueueResult
<1>7. Alt(a)' = Alt(a)
  BY DEF Alt, RelaxFacts
<1>8. Queued(Alt(a))'
  BY <1>5, <1>6, <1>7 DEF Queued
<1>9. \A i \in 1..Len(queue') :
         queue'[i] = Alt(a) \/ \E j \in 1..Len(queue) : queue'[i] = queue[j]
  BY <1>3, <1>5, <1>6
<1>10. \A j \in 1..Len(queue) : queue[j].node # a.peer =>
          \E i \in 1..Len(queue') : queue'[i] = queue[j]
  BY <1>3, <1>6
<1> QED
  BY <1>8, <1>9, <1>10 DEF QueueFacts

\* One adjacency more is relaxed: costs only fall, to what an arc allows.
LEMMA RelaxCosts ==
    ASSUME TypeOK, CostInv, NEW a \in todo, Relax(a)
    PROVE  CostInv'
<1>1. RelaxFacts(a)
  BY RelaxIs
<1> DEFINE n == a.peer
           new == SatAdd(cur.cost, a.cost)
           d(m) == Dist(view.graph)[Root][m]
<1>2. /\ n \in Nodes /\ new \in 0..MaxCost /\ cur.node \in Nodes /\ cur.cost \in 0..MaxCost
      /\ a \in view.graph[cur.node] /\ a.cost \in Nat /\ GraphOK(view.graph)
      /\ view' = view /\ cur' = cur /\ todo' = todo \ {a}
  BY <1>1 DEF RelaxFacts
<1>3. cost \in [Nodes -> 0..MaxCost] /\ \A u \in Nodes : \A b \in view.graph[u] :
          b.peer \in Nodes /\ b.cost \in Nat
  BY ViewIsGraph DEF TypeOK
<1>4. d(n) <= new
  <2>1. d(n) <= SatAdd(d(cur.node), a.cost)
    BY <1>1, <1>2, RootIsANode, Triangle DEF RelaxFacts
  <2>2. d(cur.node) \in 0..MaxCost /\ d(n) \in 0..MaxCost /\ d(cur.node) <= cur.cost
    BY <1>2, RootIsANode, DistIs DEF CostInv
  <2> HIDE DEF d
  <2>3. SatAdd(d(cur.node), a.cost) <= new /\ SatAdd(d(cur.node), a.cost) \in 0..MaxCost
    BY <1>2, <2>2, SatAddIs
  <2> QED BY <1>2, <2>1, <2>2, <2>3
<1> HIDE DEF d
<1>5. CASE Improvement(a)
  <2>1. QueueFacts(a)
    BY <1>1, <1>5, ImprovementQueues
  <2>2. /\ new < cost[n] /\ cost' = [cost EXCEPT ![n] = new]
    BY <1>5 DEF Improvement
  <2>3. /\ \A m \in Nodes : cost'[m] = IF m = n THEN new ELSE cost[m]
        /\ \A m \in Nodes : cost'[m] <= cost[m] /\ cost'[m] \in 0..MaxCost
    BY <1>2, <1>3, <2>2
  <2>4. cost'[Root] = 0
    <3>1. cost'[Root] <= 0 /\ cost'[Root] \in 0..MaxCost
      BY <2>3, RootIsANode DEF CostInv
    <3> QED BY <3>1
  <2>5. \A m \in Nodes : d(m) <= cost'[m]
    BY <1>4, <2>3 DEF CostInv, d
  <2>6. \A i \in 1..Len(queue') : d(queue'[i].node) <= queue'[i].cost
    <3> SUFFICES ASSUME NEW i \in 1..Len(queue') PROVE d(queue'[i].node) <= queue'[i].cost
      OBVIOUS
    <3>1. CASE queue'[i] = Alt(a)
      BY <1>1, <1>4, <3>1 DEF RelaxFacts
    <3>2. CASE \E j \in 1..Len(queue) : queue'[i] = queue[j]
      BY <3>2 DEF CostInv, d
    <3> QED BY <2>1, <3>1, <3>2 DEF QueueFacts
  <2>7. ASSUME NEW u \in Nodes
        PROVE  \/ Queued(Now(u))'
               \/ (cur = Now(u) /\ Relaxed(u, view.graph[u] \ todo))'
               \/ Relaxed(u, view.graph[u])'
    <3>1. CASE u = n
      <4>1. Now(u)' = Alt(a)'
        BY <1>2, <2>3, <3>1 DEF Now, Alt
      <4> QED BY <2>1, <4>1 DEF QueueFacts, Queued
    <3>2. CASE u # n
      <4>1. cost'[u] = cost[u] /\ Now(u)' = Now(u) /\ Now(u).node = u
        BY <2>3, <3>2 DEF Now, Entry
      <4>2. ASSUME NEW b \in view.graph[u], cost[b.peer] <= SatAdd(cost[u], b.cost)
            PROVE  cost'[b.peer] <= SatAdd(cost'[u], b.cost)
        <5>1. b.peer \in Nodes /\ b.cost \in Nat
          BY <1>3
        <5>2. SatAdd(cost[u], b.cost) \in 0..MaxCost /\ cost[b.peer] \in 0..MaxCost
          BY <1>3, <5>1, SatAddIs
        <5>3. cost'[b.peer] <= cost[b.peer] /\ cost'[b.peer] \in 0..MaxCost
          BY <2>3, <5>1
        <5> QED BY <4>1, <4>2, <5>2, <5>3
      <4>3. CASE Queued(Now(u))
        <5>1. PICK j \in 1..Len(queue) : queue[j] = Now(u)
          BY <4>3 DEF Queued
        <5>2. queue[j].node # a.peer
          BY <3>2, <4>1, <5>1
        <5>3. PICK i \in 1..Len(queue') : queue'[i] = queue[j]
          BY <2>1, <5>2 DEF QueueFacts
        <5> QED BY <4>1, <5>1, <5>3 DEF Queued
      <4>4. CASE cur = Now(u) /\ Relaxed(u, view.graph[u] \ todo)
        <5>1. u = cur.node /\ cost[u] = cur.cost
          BY <4>4 DEF Now, Entry
        <5>2. cost'[a.peer] <= SatAdd(cost'[u], a.cost)
          BY <1>2, <2>3, <4>1, <5>1
        <5>3. \A b \in view.graph[u] \ todo' : cost'[b.peer] <= SatAdd(cost'[u], b.cost)
          BY <1>2, <4>2, <4>4, <5>2 DEF Relaxed
        <5>4. Relaxed(u, view.graph[u] \ todo)'
          BY <1>2, <5>3 DEF Relaxed
        <5> QED BY <1>2, <4>1, <4>4, <5>4
      <4>5. CASE Relaxed(u, view.graph[u])
        BY <1>2, <4>2, <4>5 DEF Relaxed
      <4> QED BY <4>3, <4>4, <4>5 DEF CostInv
    <3> QED BY <3>1, <3>2
  <2>8. d(cur.node) <= cur.cost
    BY DEF CostInv, d
  <2> QED
    BY <1>2, <2>4, <2>5, <2>6, <2>7, <2>8 DEF CostInv, d
<1>6. CASE cost[n] <= new /\ UNCHANGED <<cost, parent, hop, queue>>
  <2>1. ASSUME NEW u \in Nodes
        PROVE  \/ Queued(Now(u))'
               \/ (cur = Now(u) /\ Relaxed(u, view.graph[u] \ todo))'
               \/ Relaxed(u, view.graph[u])'
    <3>1. Now(u)' = Now(u) /\ cost' = cost /\ queue' = queue
      BY <1>6 DEF Now
    <3>2. CASE Queued(Now(u))
      BY <3>1, <3>2 DEF Queued
    <3>3. CASE cur = Now(u) /\ Relaxed(u, view.graph[u] \ todo)
      <4>1. u = cur.node /\ cost[u] = cur.cost
        BY <3>3 DEF Now, Entry
      <4>2. \A b \in view.graph[u] \ todo' : cost[b.peer] <= SatAdd(cost[u], b.cost)
        BY <1>2, <1>6, <3>3, <4>1 DEF Relaxed
      <4>3. Relaxed(u, view.graph[u] \ todo)'
        BY <1>2, <3>1, <4>2 DEF Relaxed
      <4> QED BY <1>2, <3>1, <3>3, <4>3
    <3>4. CASE Relaxed(u, view.graph[u])
      BY <1>2, <3>1, <3>4 DEF Relaxed
    <3> QED BY <3>2, <3>3, <3>4 DEF CostInv
  <2> QED BY <1>2, <1>6, <2>1 DEF CostInv
<1> QED
  BY <1>1, <1>5, <1>6 DEF RelaxFacts

\* Once nothing is left to improve, no path is cheaper than the cost of its end:
\* by induction along the path.
LEMMA DoneCosts == TypeOK /\ CostInv /\ Done =>
    \A n \in Nodes : cost[n] = Dist(view.graph)[Root][n]
<1> SUFFICES ASSUME TypeOK, CostInv, Done, NEW n \in Nodes
             PROVE  cost[n] = Dist(view.graph)[Root][n]
  OBVIOUS
<1>1. GraphOK(view.graph) /\ cost \in [Nodes -> 0..MaxCost]
  BY ViewGraphOK DEF TypeOK
<1>2. ASSUME NEW u \in Nodes, NEW m \in Nodes, NEW c \in ArcCosts(view.graph, u, m)
      PROVE  cost[m] <= SatAdd(cost[u], c)
  <2>1. PICK a \in view.graph[u] : a.peer = m /\ a.cost = c
    BY DEF ArcCosts
  <2>2. ~Queued(Now(u))
    BY DEF Done, Queued
  <2>3. Relaxed(u, view.graph[u])
    BY <2>2 DEF CostInv, Done, Relaxed
  <2> QED BY <2>1, <2>3 DEF Relaxed
<1>3. PICK d : d = Dist(view.graph)[Root][n]
  OBVIOUS
<1>4. IsDist(view.graph, d, Root, n) /\ d <= cost[n] /\ d \in 0..MaxCost /\ cost[n] \in 0..MaxCost
  BY <1>1, <1>3, DistIs, RootIsANode DEF CostInv, IsDist
<1>5. CASE d < MaxCost
  <2>1. PICK k \in Nat \ {0} : \E p \in Paths(view.graph, k, Root, n) : PathCost(view.graph, k, p) = d
    BY <1>4, <1>5 DEF IsDist
  <2>2. PICK p \in Paths(view.graph, k, Root, n) : PathCost(view.graph, k, p) = d
    BY <2>1
  <2>3. PICK C : Along(view.graph, k, p, C) /\ PathCost(view.graph, k, p) = C[k]
    BY <1>1, <2>2, PathCostIs
  <2> DEFINE S == {i \in Nat : i + 1 \in 1..k => cost[p[i + 1]] <= C[i + 1]}
  <2>4. 0 \in S
    <3>1. p[1] = Root /\ C[1] = 0
      BY <2>2, <2>3 DEF Paths, Along
    <3> QED BY <3>1 DEF CostInv
  <2>5. ASSUME NEW j \in 0..k, j \in S, j < k PROVE j + 1 \in S
    <3> SUFFICES ASSUME (j + 1) + 1 \in 1..k PROVE cost[p[(j + 1) + 1]] <= C[(j + 1) + 1]
      OBVIOUS
    <3>1. PICK i : i = (j + 1) + 1
      OBVIOUS
    <3>2. i \in 2..k /\ i \in 1..k /\ i - 1 = j + 1 /\ i - 1 \in 1..k /\ i - 1 \in 1..(k - 1) /\ (i - 1) + 1 = i
      BY <3>1
    <3>3. cost[p[i - 1]] <= C[i - 1]
      BY <2>5, <3>2
    <3>4. p[i - 1] \in Nodes /\ p[i] \in Nodes /\ ArcCosts(view.graph, p[i - 1], p[i]) # {}
      BY <2>2, <3>2 DEF Paths
    <3>5. PICK w \in ArcCosts(view.graph, p[i - 1], p[i]) :
             w \in Nat /\ w = Least(ArcCosts(view.graph, p[i - 1], p[i]))
      BY <1>1, <3>4, ArcCostsAre
    <3>6. C[i] = SatAdd(C[i - 1], w) /\ C[i - 1] \in 0..MaxCost /\ C[i] \in 0..MaxCost
      BY <2>3, <3>2, <3>5 DEF Along
    <3>7. cost[p[i]] <= SatAdd(cost[p[i - 1]], w)
      BY <1>2, <3>4
    <3>8. cost[p[i - 1]] \in 0..MaxCost /\ cost[p[i]] \in 0..MaxCost
      BY <1>1, <3>4
    <3>9. /\ SatAdd(cost[p[i - 1]], w) <= SatAdd(C[i - 1], w)
          /\ SatAdd(cost[p[i - 1]], w) \in 0..MaxCost
      BY <3>3, <3>5, <3>6, <3>8, SatAddIs
    <3>10. cost[p[i]] <= C[i]
      BY <3>6, <3>7, <3>8, <3>9
    <3> QED BY <3>1, <3>10
  <2> HIDE DEF S
  <2>6. 0..k \subseteq S
    BY <2>4, <2>5, UpTo
  <2>7. k - 1 \in S /\ (k - 1) + 1 = k /\ k \in 1..k
    BY <2>6
  <2>8. cost[p[k]] <= C[k] /\ p[k] = n
    BY <2>2, <2>7 DEF S, Paths
  <2> QED BY <1>3, <1>4, <2>2, <2>3, <2>8
<1>6. CASE ~(d < MaxCost)
  BY <1>3, <1>4, <1>6, MaxCostPositive
<1> QED BY <1>5, <1>6

\* The costs keep their invariant.
LEMMA NextCosts == TypeOK /\ CostInv /\ [Next]_vars => CostInv'
<1> SUFFICES ASSUME TypeOK, CostInv, [Next]_vars PROVE CostInv'
  OBVIOUS
<1>1. CASE PopFront
  BY <1>1, PopFrontCosts
<1>2. CASE \E a \in todo : Relax(a)
  BY <1>2, RelaxCosts
<1>3. CASE UNCHANGED vars
  BY <1>3 DEF vars, CostInv, Queued, Now, Relaxed, Entry
<1> QED BY <1>1, <1>2, <1>3 DEF Next

\* When the loop of compute_spf ends, the cost of every node is that of a
\* shortest path, saturated, for every graph and every order of adjacencies.
THEOREM CostsAreDistances == Spec => []CostsAreShortest
<1>1. TypeOK /\ CostInv => CostsAreShortest
  BY DoneCosts DEF CostsAreShortest
<1>2. Spec => []CostInv
  BY InitCosts, NextCosts, TypeCorrect, PTL DEF Spec
<1> QED BY <1>1, <1>2, TypeCorrect, PTL

-----------------------------------------------------------------------------
(* The tree.                                                               *)

\* Expanded, or being expanded.
Settled(n) ==
    cost[n] < MaxCost /\ (n = cur.node \/ EntryBetter(Now(n), cur))

\* The loop has seen adjacency a of v.
Seen(v, a) == Settled(v) /\ (v = cur.node => a \notin todo)

Sorted(q) == \A i, j \in 1..Len(q) : i < j => EntryBetter(q[i], q[j])

\* The queue is sorted and up to date, and what it holds is worse than the entry
\* being expanded, which at first it holds itself.
QueueInv ==
    /\ Sorted(queue)
    /\ \A i \in 1..Len(queue) : queue[i] = Now(queue[i].node) /\ queue[i].cost < MaxCost
    /\ cur = Now(cur.node) /\ cur.cost < MaxCost
    /\ \/ \A i \in 1..Len(queue) : EntryBetter(cur, queue[i])
       \/ queue = <<cur>> /\ todo = {} /\ cur.node = Root
    /\ \A n \in Nodes : cost[n] < MaxCost => Queued(Now(n)) \/ Settled(n)

\* A node with a cost hangs off a settled node over an arc of the right cost and
\* has its next hop from it.
Hangs(n) ==
    /\ parent[n] \in Nodes /\ Settled(parent[n])
    /\ \E a \in view.graph[parent[n]] :
         a.peer = n /\ SatAdd(cost[parent[n]], a.cost) = cost[n]
    /\ hop[n] # NoLink
    /\ IF parent[n] = Root THEN hop[n].peer = n ELSE hop[n] = hop[parent[n]]

\* Of the nodes seen to lead to n at its cost the parent is the first.
FirstSeen(n) ==
    \A v \in Nodes : \A a \in view.graph[v] :
        a.peer = n /\ Seen(v, a) /\ SatAdd(cost[v], a.cost) = cost[n]
          => v = parent[n] \/ EntryBetter(Now(parent[n]), Now(v))

TreeInv ==
    \A n \in Nodes :
        IF n = Root \/ cost[n] = MaxCost
        THEN parent[n] = NoNode /\ hop[n] = NoLink
        ELSE Hangs(n) /\ FirstSeen(n)

\* Entry::better orders entries strictly and totally.
LEMMA BetterIsOrder ==
    ASSUME NEW e \in SpfEntry, NEW f \in SpfEntry
    PROVE  /\ ~(EntryBetter(e, f) /\ EntryBetter(f, e))
           /\ e # f => EntryBetter(e, f) \/ EntryBetter(f, e)
           /\ \A g \in SpfEntry : EntryBetter(e, f) /\ EntryBetter(f, g) => EntryBetter(e, g)
           /\ e.cost < f.cost => EntryBetter(e, f)
           /\ EntryBetter(e, f) => e.cost <= f.cost
<1>1. \A g \in SpfEntry : g.cost \in Nat /\ g.node \in Nat
  <2>1. \A g \in SpfEntry : g.cost \in 0..MaxCost /\ g.node \in Nodes
    BY DEF SpfEntry
  <2>2. \A x \in 0..MaxCost : x \in Nat
    BY MaxCostPositive
  <2>3. \A x \in Nodes : x \in Nat
    BY NodesAreOrdered
  <2> QED BY <2>1, <2>2, <2>3
<1>2. e # f => e.cost # f.cost \/ e.node # f.node
  BY DEF SpfEntry
<1>3. \A a, b, x, y \in Nat :
         /\ ~(Better(a, x, b, y) /\ Better(b, y, a, x))
         /\ a # b \/ x # y => Better(a, x, b, y) \/ Better(b, y, a, x)
         /\ a < b => Better(a, x, b, y)
         /\ Better(a, x, b, y) => a <= b
  BY DEF Better
<1>4. \A a, b, c, x, y, z \in Nat : Better(a, x, b, y) /\ Better(b, y, c, z) => Better(a, x, c, z)
  BY DEF Better
<1> QED BY <1>1, <1>2, <1>3, <1>4 DEF EntryBetter

\* A queue stays sorted without one of its entries ...
LEMMA SortedWithout ==
    ASSUME NEW q \in Seq(SpfEntry), Sorted(q), NEW k \in 1..Len(q), NEW r, Without(q, k, r)
    PROVE  Sorted(r)
<1>1. /\ r \in Seq(SpfEntry) /\ Len(r) = Len(q) - 1
      /\ \A i \in 1..Len(r) : r[i] = IF i < k THEN q[i] ELSE q[i + 1]
  BY DEF Without
<1> SUFFICES ASSUME NEW i \in 1..Len(r), NEW j \in 1..Len(r), i < j
             PROVE  EntryBetter(r[i], r[j])
  BY DEF Sorted
<1> DEFINE up(m) == IF m < k THEN m ELSE m + 1
<1>2. up(i) \in 1..Len(q) /\ up(j) \in 1..Len(q) /\ up(i) < up(j)
  BY <1>1
<1>3. r[i] = q[up(i)] /\ r[j] = q[up(j)]
  BY <1>1
<1> HIDE DEF up
<1> QED BY <1>2, <1>3 DEF Sorted

\* ... and with one put in its place.
LEMMA SortedWith ==
    ASSUME NEW q \in Seq(SpfEntry), Sorted(q), NEW e \in SpfEntry, NEW p \in 1..(Len(q) + 1),
           \A i \in 1..(p - 1) : EntryBetter(q[i], e),
           \A i \in p..Len(q) : ~EntryBetter(q[i], e),
           \A i \in 1..Len(q) : q[i] # e,
           NEW r, With(q, p, e, r)
    PROVE  Sorted(r)
<1>1. /\ r \in Seq(SpfEntry) /\ Len(r) = Len(q) + 1
      /\ \A i \in 1..Len(r) : r[i] = IF i < p THEN q[i] ELSE IF i = p THEN e ELSE q[i - 1]
  BY DEF With
<1>2. \A i \in p..Len(q) : EntryBetter(e, q[i])
  <2> SUFFICES ASSUME NEW i \in p..Len(q) PROVE EntryBetter(e, q[i])
    OBVIOUS
  <2>1. i \in 1..Len(q) /\ q[i] \in SpfEntry
    OBVIOUS
  <2> QED BY <2>1, BetterIsOrder
<1> SUFFICES ASSUME NEW i \in 1..Len(r), NEW j \in 1..Len(r), i < j
             PROVE  EntryBetter(r[i], r[j])
  BY DEF Sorted
<1>3. CASE i # p /\ j # p
  <2> DEFINE down(m) == IF m < p THEN m ELSE m - 1
  <2>1. down(i) \in 1..Len(q) /\ down(j) \in 1..Len(q) /\ down(i) < down(j)
    BY <1>1, <1>3
  <2>2. r[i] = q[down(i)] /\ r[j] = q[down(j)]
    BY <1>1, <1>3
  <2> HIDE DEF down
  <2> QED BY <2>1, <2>2 DEF Sorted
<1>4. CASE i = p
  <2>1. r[i] = e /\ r[j] = q[j - 1] /\ j - 1 \in p..Len(q)
    BY <1>1, <1>4
  <2> QED BY <1>2, <2>1
<1>5. CASE j = p
  <2>1. r[j] = e /\ r[i] = q[i] /\ i \in 1..(p - 1)
    BY <1>1, <1>5
  <2> QED BY <2>1
<1> QED BY <1>3, <1>4, <1>5

\* Node numbers determine present entries.
LEMMA NowIs ==
    ASSUME TypeOK, NEW n \in Nodes
    PROVE  /\ Now(n) \in SpfEntry /\ Now(n).node = n /\ Now(n).cost = cost[n]
           /\ cost[n] \in 0..MaxCost
  BY DEF TypeOK, Now, Entry, SpfEntry

\* At first the root is queued and nothing has been expanded.
LEMMA InitQueue == Init => QueueInv
<1> SUFFICES ASSUME Init PROVE QueueInv
  OBVIOUS
<1>1. /\ cur = Entry(0, Root) /\ cur.node = Root /\ cur.cost = 0 /\ queue = <<cur>>
      /\ Len(queue) = 1 /\ queue[1] = cur /\ todo = {}
  BY DEF Init, Entry
<1>2. cost[Root] = 0 /\ \A n \in Nodes : n # Root => cost[n] = MaxCost
  BY RootIsANode DEF Init
<1>3. Now(Root) = cur
  BY <1>1, <1>2 DEF Now
<1>4. Sorted(queue)
  BY <1>1 DEF Sorted
<1>5. \A i \in 1..Len(queue) : queue[i] = Now(queue[i].node) /\ queue[i].cost < MaxCost
  BY <1>1, <1>3, MaxCostPositive
<1>6. cur = Now(cur.node) /\ cur.cost < MaxCost
  BY <1>1, <1>3, MaxCostPositive
<1>7. \A n \in Nodes : cost[n] < MaxCost => Queued(Now(n)) \/ Settled(n)
  <2> SUFFICES ASSUME NEW n \in Nodes, cost[n] < MaxCost PROVE Settled(n)
    OBVIOUS
  <2>1. n = Root
    BY <1>2, MaxCostPositive
  <2> QED BY <1>1, <2>1 DEF Settled
<1> QED
  BY <1>1, <1>4, <1>5, <1>6, <1>7 DEF QueueInv

\* What taking the next entry settles: its node, and no other.
PopSettles ==
    \A v \in Nodes : /\ Settled(v) => Settled(v)'
                     /\ Settled(v)' /\ v # cur'.node => Settled(v)

\* The best entry is taken.
LEMMA PopFrontQueue ==
    ASSUME TypeOK, QueueInv, PopFront
    PROVE  QueueInv' /\ PopSettles
<1>1. /\ view' = view /\ cost' = cost /\ todo = {}
      /\ cur' = Head(queue) /\ queue' = Tail(queue)
      /\ todo' = view.graph[Head(queue).node]
  BY DEF PopFront
<1>2. /\ queue \in Seq(SpfEntry) /\ queue # <<>> /\ cur \in SpfEntry
      /\ 1 \in 1..Len(queue) /\ cur' = queue[1] /\ cur' \in SpfEntry
      /\ Len(queue') = Len(queue) - 1
      /\ \A i \in 1..Len(queue') : i + 1 \in 1..Len(queue) /\ queue'[i] = queue[i + 1]
  <2>1. queue \in Seq(SpfEntry) /\ queue # <<>> /\ cur \in SpfEntry
    BY DEF PopFront, TypeOK, SpfEntry
  <2>2. Head(queue) = queue[1] /\ 1 \in 1..Len(queue) /\ Head(queue) \in SpfEntry
    BY <2>1
  <2>3. /\ Len(Tail(queue)) = Len(queue) - 1
        /\ \A i \in 1..Len(Tail(queue)) : i + 1 \in 1..Len(queue) /\ Tail(queue)[i] = queue[i + 1]
    BY <2>1
  <2> QED BY <1>1, <2>1, <2>2, <2>3
<1>3. \A n \in Nodes : Now(n)' = Now(n)
  BY <1>1 DEF Now
<1>4. \A i \in 1..Len(queue) : queue[i] \in SpfEntry /\ queue[i].node \in Nodes
  <2>1. \A i \in 1..Len(queue) : queue[i] \in SpfEntry
    BY <1>2
  <2> QED BY <2>1 DEF SpfEntry
<1>5. Sorted(queue')
  <2> SUFFICES ASSUME NEW i \in 1..Len(queue'), NEW j \in 1..Len(queue'), i < j
               PROVE  EntryBetter(queue'[i], queue'[j])
    BY DEF Sorted
  <2>1. i + 1 \in 1..Len(queue) /\ j + 1 \in 1..Len(queue) /\ i + 1 < j + 1
    BY <1>2
  <2>2. EntryBetter(queue[i + 1], queue[j + 1])
    BY <2>1 DEF QueueInv, Sorted
  <2> QED BY <1>2, <2>2
<1>6. \A i \in 1..Len(queue') : (queue[i] = Now(queue[i].node))' /\ queue'[i].cost < MaxCost
  BY <1>1, <1>2 DEF QueueInv, Now
<1>7. (cur = Now(cur.node))' /\ cur'.cost < MaxCost /\ cur'.node \in Nodes
  BY <1>1, <1>2, <1>4 DEF QueueInv, Now
<1>8. \A i \in 1..Len(queue') : EntryBetter(cur', queue'[i])
  <2> SUFFICES ASSUME NEW i \in 1..Len(queue') PROVE EntryBetter(cur', queue'[i])
    OBVIOUS
  <2>1. i + 1 \in 1..Len(queue) /\ 1 < i + 1
    BY <1>2
  <2> QED BY <1>2, <2>1 DEF QueueInv, Sorted
<1>9. cur' = cur \/ EntryBetter(cur, cur')
  <2>1. CASE \A i \in 1..Len(queue) : EntryBetter(cur, queue[i])
    BY <1>2, <2>1
  <2>2. CASE queue = <<cur>>
    BY <1>2, <2>2
  <2> QED BY <2>1, <2>2 DEF QueueInv
<1>10. ASSUME NEW v \in Nodes, Settled(v) PROVE Settled(v)'
  <2>1. CASE cur' = cur
    BY <1>1, <1>3, <1>10, <2>1 DEF Settled
  <2>2. CASE EntryBetter(cur, cur')
    <3>1. Now(v) \in SpfEntry
      BY NowIs
    <3>2. CASE v = cur.node
      <4>1. Now(v) = cur
        BY <3>2 DEF QueueInv
      <4> QED BY <1>1, <1>3, <1>10, <2>2, <4>1 DEF Settled
    <3>3. CASE EntryBetter(Now(v), cur)
      <4>1. EntryBetter(Now(v), cur')
        BY <1>2, <2>2, <3>1, <3>3, BetterIsOrder
      <4> QED BY <1>1, <1>3, <1>10, <4>1 DEF Settled
    <3> QED BY <1>10, <3>2, <3>3 DEF Settled
  <2> QED BY <1>9, <2>1, <2>2
<1>11. ASSUME NEW v \in Nodes, Queued(Now(v)), v # cur'.node
       PROVE  Queued(Now(v))' /\ EntryBetter(cur', Now(v))
  <2>1. PICK i \in 1..Len(queue) : queue[i] = Now(v)
    BY <1>11 DEF Queued
  <2>2. i # 1
    BY <1>2, <1>11, <2>1, NowIs
  <2>3. i - 1 \in 1..Len(queue') /\ (i - 1) + 1 = i
    BY <1>2, <2>2
  <2>4. queue'[i - 1] = Now(v)
    BY <1>2, <2>1, <2>3
  <2> QED BY <1>3, <1>8, <2>3, <2>4 DEF Queued
<1>12. ASSUME NEW v \in Nodes, Settled(v)', v # cur'.node PROVE Settled(v)
  <2>1. cost[v] < MaxCost /\ EntryBetter(Now(v), cur')
    BY <1>1, <1>3, <1>12 DEF Settled
  <2>2. ~Queued(Now(v))
    <3>1. Now(v) \in SpfEntry
      BY NowIs
    <3> QED BY <1>2, <1>11, <1>12, <2>1, <3>1, BetterIsOrder
  <2> QED BY <2>1, <2>2 DEF QueueInv
<1>13. ASSUME NEW v \in Nodes, cost'[v] < MaxCost PROVE Queued(Now(v))' \/ Settled(v)'
  <2>1. CASE Settled(v)
    BY <1>10, <2>1
  <2>2. CASE Queued(Now(v)) /\ v # cur'.node
    BY <1>11, <2>2
  <2>3. CASE v = cur'.node
    BY <1>13, <2>3 DEF Settled
  <2> QED BY <1>1, <1>13, <2>1, <2>2, <2>3 DEF QueueInv
<1>14. QueueInv'
  BY <1>5, <1>6, <1>7, <1>8, <1>13 DEF QueueInv
<1> QED
  BY <1>10, <1>12, <1>14 DEF PopSettles

\* While a node is expanded everything queued is worse.
LEMMA ExpandingIsBest ==
    ASSUME QueueInv, NEW a \in todo
    PROVE  \A i \in 1..Len(queue) : EntryBetter(cur, queue[i])
  BY DEF QueueInv

\* A node that is improved is neither settled before nor after, and the settled
\* ones stay as they are.
Unsettled(n) ==
    /\ n # cur.node /\ ~Settled(n) /\ ~Settled(n)'
    /\ \A v \in Nodes : v # n => Now(v)' = Now(v) /\ cost'[v] = cost[v] /\ (Settled(v)' <=> Settled(v))

\* See Improvement: costs are positive.
LEMMA ImprovedIsUnsettled ==
    ASSUME TypeOK, QueueInv, NEW a, RelaxFacts(a), Improvement(a)
    PROVE  /\ Unsettled(a.peer)
           /\ EntryBetter(cur, Alt(a)) /\ Alt(a).cost < MaxCost
           /\ Now(a.peer)' = Alt(a) /\ cost'[a.peer] = Alt(a).cost
<1> DEFINE n == a.peer
           new == SatAdd(cur.cost, a.cost)
<1>1. /\ n \in Nodes /\ new \in 0..MaxCost /\ cur.node \in Nodes /\ cur.cost \in 0..MaxCost
      /\ a.cost \in Nat \ {0} /\ cur' = cur
      /\ Alt(a) \in SpfEntry /\ Alt(a).node = n /\ Alt(a).cost = new /\ cur \in SpfEntry
  BY DEF RelaxFacts, TypeOK, SpfEntry
<1>2. new < cost[n] /\ cost' = [cost EXCEPT ![n] = new]
  BY DEF Improvement
<1>3. cost[n] \in 0..MaxCost /\ cost \in [Nodes -> 0..MaxCost]
  BY <1>1 DEF TypeOK
<1>4. \A v \in Nodes : cost'[v] = IF v = n THEN new ELSE cost[v]
  BY <1>1, <1>2, <1>3
<1>5. cur.cost < new /\ new < MaxCost
  <2>1. new < MaxCost
    BY <1>1, <1>2, <1>3, MaxCostPositive
  <2>2. new = cur.cost + a.cost
    BY <1>1, <2>1, MaxCostPositive DEF SatAdd
  <2> QED BY <1>1, <2>1, <2>2
<1>6. EntryBetter(cur, Alt(a))
  BY <1>1, <1>5, BetterIsOrder
<1>7. cost[cur.node] = cur.cost
  BY DEF QueueInv, Now, Entry
<1>8. n # cur.node
  BY <1>1, <1>2, <1>3, <1>5, <1>7
<1>9. Now(n)' = Alt(a)
  BY <1>1, <1>4 DEF Now, Alt
<1>10. ~Settled(n)'
  BY <1>1, <1>6, <1>8, <1>9, BetterIsOrder DEF Settled
<1>11. ~Settled(n)
  <2>1. Now(n) \in SpfEntry /\ Now(n).cost = cost[n]
    BY <1>1, NowIs
  <2>2. EntryBetter(cur, Now(n))
    <3>1. cur.cost < Now(n).cost
      BY <1>1, <1>2, <1>3, <1>5, <2>1
    <3> QED BY <1>1, <2>1, <3>1, BetterIsOrder
  <2> QED BY <1>1, <1>8, <2>1, <2>2, BetterIsOrder DEF Settled
<1>12. \A v \in Nodes : v # n => Now(v)' = Now(v) /\ cost'[v] = cost[v]
  BY <1>4 DEF Now
<1>13. \A v \in Nodes : v # n => (Settled(v)' <=> Settled(v))
  BY <1>1, <1>12 DEF Settled
<1> QED
  BY <1>1, <1>4, <1>5, <1>6, <1>8, <1>9, <1>10, <1>11, <1>12, <1>13 DEF Unsettled

\* An improved node is taken out of the queue and put in where it belongs now.
LEMMA ImprovementSorts ==
    ASSUME TypeOK, QueueInv, NEW a, RelaxFacts(a), Improvement(a)
    PROVE  /\ Sorted(queue')
           /\ \A i \in 1..Len(queue') :
                \/ queue'[i] = Alt(a)
                \/ queue'[i].node # a.peer /\ \E j \in 1..Len(queue) : queue'[i] = queue[j]
<1> DEFINE n == a.peer
           e == Alt(a)
<1>1. queue \in Seq(SpfEntry) /\ n \in Nodes /\ e \in SpfEntry /\ e.node = n
  BY DEF TypeOK, SpfEntry, RelaxFacts
<1>2. PICK q : q = Dequeue(queue, n)
  OBVIOUS
<1>3. /\ q \in Seq(SpfEntry)
      /\ \A i \in 1..Len(q) : \E j \in 1..Len(queue) : q[i] = queue[j]
  BY <1>1, <1>2, DequeueResult
<1>4. Sorted(q) /\ \A i \in 1..Len(q) : q[i].node # n
  <2>1. CASE \E i \in 1..Len(queue) : queue[i].node = n
    <3>1. PICK k \in 1..Len(queue) : queue[k].node = n /\ Without(queue, k, q)
      BY <1>1, <1>2, <2>1, DequeueAt
    <3>2. Sorted(q)
      BY <1>1, <3>1, SortedWithout DEF QueueInv
    <3>3. \A j \in 1..Len(queue) : queue[j].node = n => j = k
      <4> SUFFICES ASSUME NEW j \in 1..Len(queue), queue[j].node = n, j # k PROVE FALSE
        OBVIOUS
      <4>1. queue[j] = queue[k] /\ queue[k] \in SpfEntry
        BY <1>1, <3>1 DEF QueueInv
      <4>2. EntryBetter(queue[j], queue[k]) \/ EntryBetter(queue[k], queue[j])
        BY DEF QueueInv, Sorted
      <4> QED BY <4>1, <4>2, BetterIsOrder
    <3>4. ASSUME NEW i \in 1..Len(q) PROVE q[i].node # n
      <4>1. Len(q) = Len(queue) - 1 /\ q[i] = IF i < k THEN queue[i] ELSE queue[i + 1]
        BY <3>1 DEF Without
      <4>2. i \in 1..Len(queue) /\ i + 1 \in 1..Len(queue)
        BY <1>1, <4>1
      <4>3. CASE i < k
        BY <3>3, <4>1, <4>2, <4>3
      <4>4. CASE ~(i < k)
        <5>1. i + 1 # k
          BY <4>4
        <5> QED BY <3>3, <4>1, <4>2, <4>4, <5>1
      <4> QED BY <4>3, <4>4
    <3> QED BY <3>2, <3>4
  <2>2. CASE ~\E i \in 1..Len(queue) : queue[i].node = n
    <3>1. q = queue
      BY <1>2, <2>2 DEF Dequeue
    <3> QED BY <2>2, <3>1 DEF QueueInv
  <2> QED BY <2>1, <2>2
<1> HIDE DEF e, n
<1>5. Enqueue(q, e, queue')
  BY <1>2 DEF Improvement, e, n
<1>6. PICK p \in 1..(Len(q) + 1) :
         /\ \A i \in 1..(p - 1) : EntryBetter(q[i], e)
         /\ \A i \in p..Len(q) : ~EntryBetter(q[i], e)
         /\ With(q, p, e, queue')
  BY <1>1, <1>3, <1>5, EnqueueAt
<1>7. \A i \in 1..Len(q) : q[i] # e
  BY <1>1, <1>4
<1>8. Sorted(queue')
  BY <1>1, <1>3, <1>4, <1>6, <1>7, SortedWith
<1>9. \A i \in 1..Len(queue') : queue'[i] = e \/ \E j \in 1..Len(q) : queue'[i] = q[j]
  BY <1>1, <1>3, <1>5, EnqueueResult
<1>10. ASSUME NEW i \in 1..Len(queue')
       PROVE  \/ queue'[i] = e
              \/ queue'[i].node # n /\ \E j \in 1..Len(queue) : queue'[i] = queue[j]
  <2>1. CASE queue'[i] = e
    BY <2>1
  <2>2. CASE \E j \in 1..Len(q) : queue'[i] = q[j]
    BY <1>3, <1>4, <2>2
  <2> QED BY <1>9, <2>1, <2>2
<1> QED
  BY <1>8, <1>10 DEF e, n

\* A step of the for loop keeps the queue in order.
LEMMA RelaxQueue ==
    ASSUME TypeOK, QueueInv, NEW a \in todo, RelaxFacts(a)
    PROVE  QueueInv'
<1>0. /\ cur' = cur /\ view' = view /\ cur.node \in Nodes /\ a.peer \in Nodes
      /\ \A i \in 1..Len(queue) : queue[i] \in SpfEntry /\ queue[i].node \in Nodes
  <2>0. queue \in Seq(SpfEntry)
    BY DEF TypeOK, SpfEntry
  <2>1. \A i \in 1..Len(queue) : queue[i] \in SpfEntry
    BY <2>0
  <2>2. \A i \in 1..Len(queue) : queue[i].node \in Nodes
    BY <2>1 DEF SpfEntry
  <2> QED BY <2>1, <2>2 DEF RelaxFacts
<1>1. \A i \in 1..Len(queue) : EntryBetter(cur, queue[i])
  BY ExpandingIsBest
<1>2. CASE Improvement(a)
  <2>1. /\ Unsettled(a.peer)
        /\ EntryBetter(cur, Alt(a)) /\ Alt(a).cost < MaxCost
        /\ Now(a.peer)' = Alt(a) /\ cost'[a.peer] = Alt(a).cost
    BY <1>2, ImprovedIsUnsettled
  <2>2. /\ Sorted(queue')
        /\ \A i \in 1..Len(queue') :
             \/ queue'[i] = Alt(a)
             \/ queue'[i].node # a.peer /\ \E j \in 1..Len(queue) : queue'[i] = queue[j]
    BY <1>2, ImprovementSorts
  <2>3. QueueFacts(a)
    BY <1>2, ImprovementQueues
  <2>4. ASSUME NEW i \in 1..Len(queue')
        PROVE  /\ (queue[i] = Now(queue[i].node))' /\ queue'[i].cost < MaxCost
               /\ EntryBetter(cur', queue'[i])
    <3>1. CASE queue'[i] = Alt(a)
      <4>1. Alt(a).node = a.peer
        BY DEF RelaxFacts
      <4>2. (queue[i] = Now(queue[i].node))'
        BY <2>1, <3>1, <4>1 DEF Now
      <4> QED BY <1>0, <2>1, <3>1, <4>2
    <3>2. CASE queue'[i].node # a.peer /\ \E j \in 1..Len(queue) : queue'[i] = queue[j]
      <4>1. PICK j \in 1..Len(queue) : queue'[i] = queue[j]
        BY <3>2
      <4>2. PICK v \in Nodes : v = queue[j].node /\ v # a.peer
        BY <1>0, <3>2, <4>1
      <4>3. queue[j] = Now(v) /\ queue[j].cost < MaxCost
        BY <4>2 DEF QueueInv
      <4>4. Now(v)' = Now(v) /\ cost'[v] = cost[v]
        BY <2>1, <4>2 DEF Unsettled
      <4>5. (queue[i] = Now(queue[i].node))'
        BY <4>1, <4>2, <4>3, <4>4 DEF Now
      <4> QED BY <1>0, <1>1, <4>1, <4>3, <4>5
    <3> QED BY <2>2, <3>1, <3>2
  <2>5. (cur = Now(cur.node))' /\ cur'.cost < MaxCost
    <3>1. cur = Now(cur.node) /\ cur.node # a.peer /\ cur.cost < MaxCost
      BY <2>1 DEF Unsettled, QueueInv
    <3>2. cost'[cur.node] = cost[cur.node]
      BY <1>0, <2>1, <3>1 DEF Unsettled
    <3> QED BY <1>0, <3>1, <3>2 DEF Now
  <2>6. ASSUME NEW v \in Nodes, cost'[v] < MaxCost PROVE Queued(Now(v))' \/ Settled(v)'
    <3>1. CASE v = a.peer
      <4>1. Alt(a)' = Alt(a)
        BY <1>0 DEF Alt
      <4> QED BY <2>1, <2>3, <3>1, <4>1 DEF QueueFacts, Queued
    <3>2. CASE v # a.peer
      <4>1. Now(v)' = Now(v) /\ cost'[v] = cost[v] /\ (Settled(v)' <=> Settled(v))
        BY <2>1, <3>2 DEF Unsettled
      <4>2. CASE Settled(v)
        BY <4>1, <4>2
      <4>3. CASE Queued(Now(v))
        <5>1. PICK j \in 1..Len(queue) : queue[j] = Now(v)
          BY <4>3 DEF Queued
        <5>2. queue[j].node # a.peer
          BY <3>2, <5>1, NowIs
        <5>3. \E i \in 1..Len(queue') : queue'[i] = queue[j]
          BY <2>3, <5>2 DEF QueueFacts
        <5> QED BY <4>1, <5>1, <5>3 DEF Queued
      <4> QED BY <2>6, <4>1, <4>2, <4>3 DEF QueueInv
    <3> QED BY <3>1, <3>2
  <2> QED
    BY <2>2, <2>4, <2>5, <2>6 DEF QueueInv
<1>3. CASE UNCHANGED <<cost, parent, hop, queue>>
  <2>1. \A n : Now(n)' = Now(n)
    BY <1>3 DEF Now
  <2>2. \A n : Settled(n)' <=> Settled(n)
    BY <1>0, <1>3, <2>1 DEF Settled
  <2>3. \A i \in 1..Len(queue') : EntryBetter(cur', queue'[i])
    BY <1>0, <1>1, <1>3
  <2>4. \A i \in 1..Len(queue') : (queue[i] = Now(queue[i].node))' /\ queue'[i].cost < MaxCost
    BY <1>3 DEF QueueInv, Now
  <2>5. (cur = Now(cur.node))' /\ cur'.cost < MaxCost
    BY <1>0, <1>3 DEF QueueInv, Now
  <2>6. \A n \in Nodes : cost'[n] < MaxCost => Queued(Now(n))' \/ Settled(n)'
    BY <1>3, <2>1, <2>2 DEF QueueInv, Queued
  <2>7. Sorted(queue')
    BY <1>3 DEF QueueInv
  <2> QED
    BY <2>3, <2>4, <2>5, <2>6, <2>7 DEF QueueInv
<1> QED
  BY <1>2, <1>3 DEF RelaxFacts

\* Nothing hangs anywhere at first.
LEMMA InitTree == Init => TreeInv
<1> SUFFICES ASSUME Init PROVE TreeInv
  OBVIOUS
<1>1. \A n \in Nodes : n = Root \/ cost[n] = MaxCost
  BY DEF Init
<1>2. \A n \in Nodes : parent[n] = NoNode /\ hop[n] = NoLink
  BY DEF Init
<1> QED BY <1>1, <1>2 DEF TreeInv

\* Taking the next entry settles one node more, of which no adjacency is seen yet.
LEMMA PopFrontTree ==
    ASSUME TypeOK, QueueInv, TreeInv, PopFront
    PROVE  TreeInv'
<1>1. /\ view' = view /\ cost' = cost /\ parent' = parent /\ hop' = hop /\ todo = {}
      /\ cur' = Head(queue) /\ todo' = view.graph[cur'.node]
  BY DEF PopFront
<1>2. PopSettles
  BY PopFrontQueue
<1>3. \A n : Now(n)' = Now(n)
  BY <1>1 DEF Now
<1>4. ASSUME NEW n \in Nodes, Hangs(n) PROVE Hangs(n)'
  <2>1. parent[n] \in Nodes /\ Settled(parent[n])
    BY <1>4 DEF Hangs
  <2>2. PICK p \in Nodes : p = parent[n] /\ p = parent'[n] /\ Settled(p)
    BY <1>1, <2>1
  <2>3. Settled(p)'
    BY <1>2, <2>2 DEF PopSettles
  <2>4. Settled(parent[n])'
    BY <2>2, <2>3 DEF Settled, Now
  <2> QED BY <1>1, <1>4, <2>4 DEF Hangs
<1>5. ASSUME NEW n \in Nodes, FirstSeen(n) PROVE FirstSeen(n)'
  <2> SUFFICES ASSUME NEW v \in Nodes, NEW a \in view.graph[v], a.peer = n, Seen(v, a)',
                      SatAdd(cost[v], a.cost) = cost[n]
               PROVE  v = parent[n] \/ EntryBetter(Now(parent[n]), Now(v))
    BY <1>1, <1>3 DEF FirstSeen, Now
  <2>1. v # cur'.node /\ Settled(v)'
    BY <1>1 DEF Seen
  <2>2. Settled(v)
    BY <1>2, <2>1 DEF PopSettles
  <2>3. Seen(v, a)
    BY <1>1, <2>2 DEF Seen
  <2> QED BY <1>5, <2>3 DEF FirstSeen
<1> QED
  BY <1>1, <1>4, <1>5 DEF TreeInv

\* An improved node hangs off the node being expanded, and of those seen before
\* none led to it at that cost.
LEMMA ImprovementTree ==
    ASSUME TypeOK, HopBeforeExpansion, CostInv, QueueInv, TreeInv,
           NEW a \in todo, RelaxFacts(a), Improvement(a)
    PROVE  TreeInv'
<1> DEFINE n == a.peer
           new == SatAdd(cur.cost, a.cost)
<1>0. /\ cur' = cur /\ view' = view /\ todo' = todo \ {a}
      /\ n \in Nodes /\ cur.node \in Nodes /\ cur.cost \in 0..MaxCost /\ new \in 0..MaxCost
      /\ a \in view.graph[cur.node] /\ a.cost \in Nat \ {0}
  BY DEF RelaxFacts
<1>1. /\ Unsettled(n)
      /\ new < MaxCost /\ cost'[n] = new
  BY ImprovedIsUnsettled DEF RelaxFacts
<1>2. /\ new < cost[n]
      /\ parent' = [parent EXCEPT ![n] = cur.node]
      /\ NextHop(n, hop')
  BY DEF Improvement
<1>3. parent'[n] = cur.node /\ \A m \in Nodes : m # n => parent'[m] = parent[m]
  BY <1>0, <1>2 DEF TypeOK
<1>4. PICK l \in view.links \cup {NoLink} :
         /\ l # NoLink /\ hop' = [hop EXCEPT ![n] = l]
         /\ IF cur.node = Root THEN l.peer = n ELSE l = hop[cur.node]
  <2>1. CASE cur.node = Root
    <3>1. PICK l0 \in view.links : l0.peer = n
      BY <1>0, <2>1 DEF TypeOK, ViewOK
    <3>2. \E l \in view.links : l.peer = n /\ hop' = [hop EXCEPT ![n] = l]
      BY <1>2, <2>1, <3>1 DEF NextHop
    <3>3. \A l \in view.links : l # NoLink
      BY DEF TypeOK, ViewOK, Link, NoLink
    <3> QED BY <2>1, <3>2, <3>3
  <2>2. CASE cur.node # Root
    BY <1>0, <1>2, <2>2 DEF NextHop, TypeOK
  <2> QED BY <2>1, <2>2
<1>5. hop'[n] = l /\ \A m \in Nodes : m # n => hop'[m] = hop[m]
  BY <1>0, <1>4 DEF TypeOK
<1>6. \A v \in Nodes : v # n => Now(v)' = Now(v) /\ cost'[v] = cost[v] /\ (Settled(v)' <=> Settled(v))
  BY <1>1 DEF Unsettled
<1>7. n # cur.node /\ ~Settled(n) /\ ~Settled(n)'
  BY <1>1 DEF Unsettled
<1>8. Settled(cur.node) /\ cost[cur.node] = cur.cost
  <2>1. cur = Now(cur.node) /\ cur.cost < MaxCost
    BY DEF QueueInv
  <2> QED BY <2>1 DEF Settled, Now, Entry
<1>9. n # Root /\ cost'[n] # MaxCost
  <2>1. cost[Root] = 0
    BY DEF CostInv
  <2> QED BY <1>0, <1>1, <1>2, <2>1, MaxCostPositive
<1> HIDE DEF n, new
<1>10. Hangs(n)'
  <2>1. Settled(cur.node)' /\ cost'[cur.node] = cur.cost
    BY <1>0, <1>6, <1>7, <1>8
  <2>2. Settled(parent[n])'
    BY <1>0, <1>3, <2>1 DEF Settled, Now
  <2>3. a \in view'.graph[parent'[n]] /\ a.peer = n /\ SatAdd(cost'[parent'[n]], a.cost) = cost'[n]
    BY <1>0, <1>1, <1>3, <2>1 DEF n, new
  <2>4. hop'[n] # NoLink
    BY <1>4, <1>5
  <2>5. IF cur.node = Root THEN hop'[n].peer = n ELSE hop'[n] = hop'[cur.node]
    BY <1>0, <1>4, <1>5, <1>7
  <2> QED BY <1>0, <1>3, <2>2, <2>3, <2>4, <2>5 DEF Hangs
<1>11. ASSUME NEW m \in Nodes, m # n, Hangs(m) PROVE Hangs(m)'
  <2>1. PICK p \in Nodes : p = parent[m] /\ p = parent'[m] /\ Settled(p)
    BY <1>3, <1>11 DEF Hangs
  <2>2. p # n
    BY <1>7, <2>1
  <2>3. Settled(p)' /\ cost'[p] = cost[p] /\ cost'[m] = cost[m] /\ hop'[p] = hop[p] /\ hop'[m] = hop[m]
    BY <1>5, <1>6, <1>11, <2>1, <2>2
  <2>4. Settled(parent[m])'
    BY <2>1, <2>3 DEF Settled, Now
  <2> QED BY <1>0, <1>11, <2>1, <2>3, <2>4 DEF Hangs
<1>12. ASSUME NEW v \in Nodes, NEW b \in view.graph[v], Seen(v, b)'
       PROVE  v # n /\ (Seen(v, b) \/ (v = cur.node /\ b = a))
  <2>1. v # n
    BY <1>7, <1>12 DEF Seen
  <2> QED BY <1>0, <1>6, <1>12, <2>1 DEF Seen
<1>13. FirstSeen(n)'
  <2> SUFFICES ASSUME NEW v \in Nodes, NEW b \in view.graph[v], b.peer = n, Seen(v, b)',
                      SatAdd(cost'[v], b.cost) = cost'[n]
               PROVE  v = parent'[n]
    BY <1>0 DEF FirstSeen
  <2>1. v # n /\ (Seen(v, b) \/ (v = cur.node /\ b = a))
    BY <1>12
  <2>2. CASE v = cur.node
    BY <1>3, <2>2
  <2>3. CASE v # cur.node
    <3>1. Settled(v) /\ SatAdd(cost[v], b.cost) = new
      BY <1>1, <1>6, <2>1, <2>3 DEF Seen
    <3>2. ~Queued(Now(v))
      <4>1. EntryBetter(Now(v), cur) /\ Now(v) \in SpfEntry /\ cur \in SpfEntry
        BY <2>3, <3>1, NowIs DEF Settled, TypeOK, SpfEntry
      <4>2. ASSUME NEW i \in 1..Len(queue), queue[i] = Now(v) PROVE FALSE
        <5>1. EntryBetter(cur, queue[i])
          BY ExpandingIsBest
        <5> QED BY <4>1, <4>2, <5>1, BetterIsOrder
      <4> QED BY <4>2 DEF Queued
    <3>3. cur # Now(v)
      BY <2>3, NowIs
    <3>4. Relaxed(v, view.graph[v])
      BY <3>2, <3>3 DEF CostInv
    <3>5. cost[n] <= new
      BY <3>1, <3>4 DEF Relaxed
    <3>6. cost[n] \in 0..MaxCost
      BY <1>0 DEF TypeOK
    <3> QED BY <1>0, <1>2, <3>5, <3>6
  <2> QED BY <2>2, <2>3
<1>14. ASSUME NEW m \in Nodes, m # n, Hangs(m), FirstSeen(m) PROVE FirstSeen(m)'
  <2>1. PICK p \in Nodes : p = parent[m] /\ p = parent'[m] /\ Settled(p)
    BY <1>3, <1>14 DEF Hangs
  <2>2. p # n
    BY <1>7, <2>1
  <2>3. Now(parent[m])' = Now(parent[m])
    BY <1>6, <2>1, <2>2 DEF Now
  <2> SUFFICES ASSUME NEW v \in Nodes, NEW b \in view.graph[v], b.peer = m, Seen(v, b)',
                      SatAdd(cost'[v], b.cost) = cost'[m]
               PROVE  v = parent[m] \/ EntryBetter(Now(parent[m]), Now(v)')
    BY <1>0, <2>1, <2>3 DEF FirstSeen
  <2>4. v # n /\ Seen(v, b)
    BY <1>12, <1>14 DEF n
  <2>5. cost'[v] = cost[v] /\ Now(v)' = Now(v) /\ cost'[m] = cost[m]
    BY <1>6, <1>14, <2>4
  <2> QED BY <1>14, <2>4, <2>5 DEF FirstSeen
<1>15. ASSUME NEW m \in Nodes, m # n, m = Root \/ cost'[m] = MaxCost
       PROVE  parent'[m] = NoNode /\ hop'[m] = NoLink
  BY <1>3, <1>5, <1>6, <1>15 DEF TreeInv
<1>16. ASSUME NEW m \in Nodes, m # n, ~(m = Root \/ cost'[m] = MaxCost)
       PROVE  Hangs(m)' /\ FirstSeen(m)'
  <2>1. Hangs(m) /\ FirstSeen(m)
    BY <1>6, <1>16 DEF TreeInv
  <2> QED BY <1>11, <1>14, <1>16, <2>1
<1> QED
  BY <1>9, <1>10, <1>13, <1>15, <1>16 DEF TreeInv

\* Without an improvement one adjacency more is seen; a node it leads to at the
\* same cost hangs off one that was settled before.
LEMMA TieTree ==
    ASSUME TypeOK, QueueInv, TreeInv, NEW a \in todo, RelaxFacts(a),
           UNCHANGED <<cost, parent, hop, queue>>
    PROVE  TreeInv'
<1>0. cur' = cur /\ view' = view /\ todo' = todo \ {a} /\ cur.node \in Nodes
  BY DEF RelaxFacts
<1>1. \A n : Now(n)' = Now(n) /\ (Settled(n)' <=> Settled(n))
  BY <1>0 DEF Now, Settled
<1>2. ASSUME NEW n \in Nodes, Hangs(n) PROVE Hangs(n)'
  <2>1. Settled(parent[n])'
    BY <1>0, <1>2 DEF Hangs, Settled, Now
  <2> QED BY <1>0, <1>2, <2>1 DEF Hangs
<1>3. ASSUME NEW n \in Nodes, Hangs(n), FirstSeen(n) PROVE FirstSeen(n)'
  <2> SUFFICES ASSUME NEW v \in Nodes, NEW b \in view.graph[v], b.peer = n, Seen(v, b)',
                      SatAdd(cost[v], b.cost) = cost[n]
               PROVE  v = parent[n] \/ EntryBetter(Now(parent[n]), Now(v))
    BY <1>0 DEF FirstSeen, Now
  <2>1. Seen(v, b) \/ v = cur.node
    BY <1>0, <1>1 DEF Seen
  <2>2. CASE Seen(v, b)
    BY <1>3, <2>2 DEF FirstSeen
  <2>3. CASE v = cur.node
    <3>1. parent[n] = cur.node \/ EntryBetter(Now(parent[n]), cur)
      BY <1>3 DEF Hangs, Settled
    <3>2. Now(v) = cur
      BY <2>3 DEF QueueInv
    <3> QED BY <2>3, <3>1, <3>2
  <2> QED BY <2>1, <2>2, <2>3
<1> QED
  BY <1>2, <1>3 DEF TreeInv

\* Everything together.
SpfInv == TypeOK /\ HopBeforeExpansion /\ CostInv /\ QueueInv /\ TreeInv

\* Every step keeps the queue and the tree in order.
LEMMA NextTree == SpfInv /\ [Next]_vars => QueueInv' /\ TreeInv'
<1> SUFFICES ASSUME SpfInv, [Next]_vars PROVE QueueInv' /\ TreeInv'
  OBVIOUS
<1> USE DEF SpfInv
<1>1. CASE PopFront
  BY <1>1, PopFrontQueue, PopFrontTree
<1>2. ASSUME NEW a \in todo, Relax(a) PROVE QueueInv' /\ TreeInv'
  <2>1. RelaxFacts(a)
    BY <1>2, RelaxIs
  <2>2. QueueInv'
    BY <2>1, RelaxQueue
  <2>3. TreeInv'
    BY <2>1, ImprovementTree, TieTree DEF RelaxFacts
  <2> QED BY <2>2, <2>3
<1>3. CASE UNCHANGED vars
  <2>1. /\ view' = view /\ cost' = cost /\ parent' = parent /\ hop' = hop
        /\ queue' = queue /\ cur' = cur /\ todo' = todo
    BY <1>3 DEF vars
  <2>2. QueueInv'
    BY <2>1 DEF QueueInv, Queued, Now, Settled
  <2>3. TreeInv'
    BY <2>1 DEF TreeInv, Hangs, FirstSeen, Seen, Settled, Now
  <2> QED BY <2>2, <2>3
<1> QED BY <1>1, <1>2, <1>3 DEF Next

\* compute_spf keeps its invariant.
LEMMA SpfInvariant == Spec => []SpfInv
<1>1. Init => SpfInv
  BY InitSafe, InitCosts, InitQueue, InitTree DEF SpfInv
<1>2. SpfInv /\ [Next]_vars => SpfInv'
  BY NextSafe, NextCosts, NextTree DEF SpfInv
<1> QED BY <1>1, <1>2, PTL DEF Spec

\* When the loop has ended every node with a cost has been expanded, costs are
\* distances, and the tree hangs together.
Finished ==
    /\ GraphOK(view.graph)
    /\ todo = {}
    /\ \A n \in Nodes : /\ cost[n] \in 0..MaxCost
                        /\ Dist(view.graph)[Root][n] = cost[n]
                        /\ cost[n] < MaxCost => Settled(n)
                        /\ Reachable(Dist(view.graph), Root, n) => Hangs(n) /\ FirstSeen(n)

\* That follows from the invariant.
LEMMA DoneIsFinished == SpfInv /\ Done => Finished
<1> SUFFICES ASSUME SpfInv, Done PROVE Finished
  OBVIOUS
<1>1. GraphOK(view.graph) /\ cost \in [Nodes -> 0..MaxCost]
  BY ViewGraphOK DEF SpfInv, TypeOK
<1>2. \A n \in Nodes : Dist(view.graph)[Root][n] = cost[n]
  BY DoneCosts DEF SpfInv
<1>3. \A n \in Nodes : cost[n] < MaxCost => Settled(n)
  <2>1. \A n \in Nodes : ~Queued(Now(n))
    BY DEF Done, Queued
  <2> QED BY <2>1 DEF SpfInv, QueueInv
<1>4. \A n \in Nodes : Reachable(Dist(view.graph), Root, n) => n # Root /\ cost[n] # MaxCost
  BY <1>1, <1>2, MaxCostPositive DEF Reachable
<1>5. \A n \in Nodes : Reachable(Dist(view.graph), Root, n) => Hangs(n) /\ FirstSeen(n)
  BY <1>4 DEF SpfInv, TreeInv
<1> QED BY <1>1, <1>2, <1>3, <1>5 DEF Finished, Done

\* The parent is then the closest entrance, by id among equals.
LEMMA ParentIsTreeParent ==
    ASSUME Finished, NEW n \in Nodes, Reachable(Dist(view.graph), Root, n)
    PROVE  parent[n] \in Nodes /\ parent[n] = TreeParent(view.graph, Dist(view.graph), Root, n)
<1> DEFINE dist == Dist(view.graph)
           E == Entrances(view.graph, dist, Root, n)
<1>1. /\ GraphOK(view.graph) /\ todo = {}
      /\ \A v \in Nodes : cost[v] \in 0..MaxCost /\ dist[Root][v] = cost[v] /\ (cost[v] < MaxCost => Settled(v))
      /\ Hangs(n) /\ FirstSeen(n)
  BY DEF Finished
<1>2. cost[n] < MaxCost
  BY <1>1 DEF Reachable
<1>3. PICK p \in Nodes : p = parent[n]
  BY <1>1 DEF Hangs
<1>4. p \in E
  <2>1. PICK a \in view.graph[p] : a.peer = n /\ SatAdd(cost[p], a.cost) = cost[n]
    BY <1>1, <1>3 DEF Hangs
  <2>2. a.cost \in ArcCosts(view.graph, p, n)
    BY <2>1 DEF ArcCosts
  <2>3. SatAdd(dist[Root][p], a.cost) = dist[Root][n]
    BY <1>1, <2>1
  <2> QED BY <2>2, <2>3 DEF Entrances
<1>5. ASSUME NEW v \in E \ {p} PROVE Better(dist[Root][p], p, dist[Root][v], v)
  <2>1. v \in Nodes /\ \E c \in ArcCosts(view.graph, v, n) : SatAdd(dist[Root][v], c) = dist[Root][n]
    BY DEF Entrances
  <2>2. PICK c \in ArcCosts(view.graph, v, n) : SatAdd(cost[v], c) = cost[n]
    BY <1>1, <2>1
  <2>3. PICK a \in view.graph[v] : a.peer = n /\ a.cost = c
    BY <2>2 DEF ArcCosts
  <2>4. c \in Nat
    BY <1>1, <2>1, <2>2, ArcCostsAre
  <2>5. cost[v] \in 0..MaxCost /\ cost[v] <= SatAdd(cost[v], c)
    BY <1>1, <2>1, <2>4, SatAddIs
  <2>6. cost[v] < MaxCost
    BY <1>2, <1>1, <2>2, <2>5, MaxCostPositive
  <2>7. Seen(v, a)
    BY <1>1, <2>1, <2>6 DEF Seen
  <2>8. EntryBetter(Now(p), Now(v))
    BY <1>1, <1>3, <2>1, <2>2, <2>3, <2>7 DEF FirstSeen
  <2>9. Better(cost[p], p, cost[v], v)
    BY <2>8 DEF EntryBetter, Now, Entry
  <2> QED BY <1>1, <2>1, <2>9
<1>6. PICK x : x = TreeParent(view.graph, dist, Root, n)
  OBVIOUS
<1>7. x \in E /\ \A v \in E \ {x} : Better(dist[Root][x], x, dist[Root][v], v)
  <2>1. x = CHOOSE u \in E : \A v \in E \ {u} : Better(dist[Root][u], u, dist[Root][v], v)
    BY <1>6 DEF TreeParent
  <2>2. \E u \in E : \A v \in E \ {u} : Better(dist[Root][u], u, dist[Root][v], v)
    BY <1>4, <1>5
  <2> HIDE DEF E, dist
  <2> QED BY <2>1, <2>2
<1>8. x = p
  <2> SUFFICES ASSUME x # p PROVE FALSE
    OBVIOUS
  <2>1. x \in Nodes
    BY <1>7 DEF Entrances
  <2>2. Better(dist[Root][p], p, dist[Root][x], x) /\ Better(dist[Root][x], x, dist[Root][p], p)
    BY <1>4, <1>5, <1>7
  <2>3. x \in Nat /\ p \in Nat /\ dist[Root][x] \in Nat /\ dist[Root][p] \in Nat
    BY <1>1, <2>1, NodesAreOrdered, MaxCostPositive
  <2>4. \A a, b, y, z \in Nat : ~(Better(a, y, b, z) /\ Better(b, z, a, y))
    BY DEF Better
  <2> QED BY <2>2, <2>3, <2>4
<1> QED BY <1>3, <1>6, <1>8

\* The nodes closer to the root than n.
Closer(n) == {m \in Nodes : cost[m] < cost[n]}

\* A node's parent is closer to the root than the node: arcs are not free.  So
\* fewer nodes are closer than the parent, and never all of them.
LEMMA ParentIsCloser ==
    ASSUME Finished, ViewOK(view), NEW n \in Nodes, Reachable(Dist(view.graph), Root, n)
    PROVE  /\ Cardinality(Closer(n)) \in Nat
           /\ Cardinality(Closer(n)) < Cardinality(Nodes)
           /\ parent[n] \in Nodes
           /\ Cardinality(Closer(parent[n])) < Cardinality(Closer(n))
<1>1. \A v \in Nodes : cost[v] \in 0..MaxCost
  BY DEF Finished
<1>2. PICK p \in Nodes : p = parent[n]
  BY DEF Finished, Hangs
<1>3. cost[p] < cost[n]
  <2>1. Hangs(n) /\ cost[n] < MaxCost
    BY DEF Finished, Reachable
  <2>2. PICK a \in view.graph[p] : SatAdd(cost[p], a.cost) = cost[n]
    BY <1>2, <2>1 DEF Hangs
  <2>3. a.cost \in Nat \ {0}
    BY ViewIsGraph
  <2>4. \A x \in 0..MaxCost : \A c \in Nat \ {0} : SatAdd(x, c) < MaxCost => x < SatAdd(x, c)
    BY MaxCostPositive DEF SatAdd
  <2> QED BY <1>1, <2>1, <2>2, <2>3, <2>4
<1>4. \A v \in Nodes : cost[v] \in Nat
  BY <1>1, MaxCostPositive
<1>5. Closer(p) \in SUBSET Closer(n) /\ p \in Closer(n) /\ p \notin Closer(p)
  BY <1>3, <1>4 DEF Closer
<1>6. Closer(n) \in SUBSET Nodes /\ n \notin Closer(n)
  BY <1>4 DEF Closer
<1>7. /\ IsFiniteSet(Closer(n)) /\ Cardinality(Closer(n)) <= Cardinality(Nodes)
      /\ Cardinality(Closer(n)) # Cardinality(Nodes)
  BY <1>6, NodesAreFinite, FS_Subset
<1>8. /\ IsFiniteSet(Closer(p)) /\ Cardinality(Closer(p)) <= Cardinality(Closer(n))
      /\ Cardinality(Closer(p)) # Cardinality(Closer(n))
  BY <1>5, <1>7, FS_Subset
<1>9. Cardinality(Closer(n)) \in Nat /\ Cardinality(Closer(p)) \in Nat /\ Cardinality(Nodes) \in Nat
  BY <1>7, <1>8, NodesAreFinite, FS_CardinalityType
<1> QED BY <1>2, <1>7, <1>8, <1>9

\* The next hop is a link to the first node on the tree's path: by induction on
\* the number of nodes that are closer.
LEMMA HopIsFirstHop ==
    ASSUME Finished, ViewOK(view), NEW n \in Nodes, Reachable(Dist(view.graph), Root, n)
    PROVE  hop[n].peer = FirstHop(view.graph, Dist(view.graph), Root)[n]
<1> DEFINE N == Cardinality(Nodes)
           far(m) == Reachable(Dist(view.graph), Root, m)
           rank(m) == Cardinality(Closer(m))
           up(m) == TreeParent(view.graph, Dist(view.graph), Root, m)
<1>1. N \in Nat
  BY NodesAreFinite, FS_CardinalityType
<1>2. GraphOK(view.graph)
  BY DEF Finished
<1>3. PICK H : /\ Climbs(view.graph, Dist(view.graph), Root, H)
               /\ FirstHop(view.graph, Dist(view.graph), Root) = H[N]
  BY <1>2, RootIsANode, FirstHopClimbs
<1>4. \A k \in 0..N : H[k] = [m \in Nodes |->
                             IF k = 0 \/ ~far(m) THEN Root
                             ELSE LET p == up(m) IN IF p = Root THEN m ELSE H[k - 1][p]]
  BY <1>3 DEF Climbs
<1>5. ASSUME NEW m \in Nodes, far(m)
      PROVE  /\ parent[m] \in Nodes /\ parent[m] = up(m)
             /\ rank(m) \in Nat /\ rank(m) < N /\ rank(parent[m]) < rank(m)
  BY <1>5, ParentIsTreeParent, ParentIsCloser
<1>6. ASSUME NEW m \in Nodes, far(m)
      PROVE  IF parent[m] = Root THEN hop[m].peer = m
             ELSE hop[m].peer = hop[parent[m]].peer /\ far(parent[m])
  <2>1. Hangs(m)
    BY <1>6 DEF Finished
  <2>2. parent[m] # Root => far(parent[m])
    BY <2>1 DEF Finished, Hangs, Settled, Reachable
  <2> QED BY <2>1, <2>2 DEF Hangs
<1>7. \A m \in Nodes : rank(m) \in Nat
  <2> SUFFICES ASSUME NEW m \in Nodes PROVE rank(m) \in Nat
    OBVIOUS
  <2>1. Closer(m) \in SUBSET Nodes
    BY DEF Closer
  <2> QED BY <2>1, NodesAreFinite, FS_Subset, FS_CardinalityType
<1> HIDE DEF N, far, rank, up
<1> DEFINE S == {k \in Nat : k \in 0..N =>
                    \A m \in Nodes : far(m) /\ rank(m) < k => H[k][m] = hop[m].peer}
<1>8. 0 \in S
  BY <1>7
<1>9. ASSUME NEW k \in 0..N, k \in S, k < N PROVE k + 1 \in S
  <2> SUFFICES ASSUME NEW m \in Nodes, far(m), rank(m) < k + 1
               PROVE  H[k + 1][m] = hop[m].peer
    BY <1>1
  <2>1. PICK j \in 0..N : j = k + 1 /\ j # 0 /\ j - 1 = k
    BY <1>1, <1>9
  <2>2. H[j][m] = IF up(m) = Root THEN m ELSE H[k][up(m)]
    <3>1. H[j] = [v \in Nodes |-> IF j = 0 \/ ~far(v) THEN Root
                                  ELSE IF up(v) = Root THEN v ELSE H[j - 1][up(v)]]
      BY <1>4
    <3> QED BY <2>1, <3>1
  <2>3. CASE parent[m] = Root
    BY <1>5, <1>6, <2>1, <2>2, <2>3
  <2>4. CASE parent[m] # Root
    <3>1. /\ parent[m] \in Nodes /\ far(parent[m]) /\ up(m) = parent[m]
          /\ hop[m].peer = hop[parent[m]].peer
      BY <1>5, <1>6, <2>4
    <3>2. rank(parent[m]) < k
      BY <1>5, <1>7, <3>1
    <3>3. H[k][parent[m]] = hop[parent[m]].peer
      BY <1>9, <3>1, <3>2
    <3> QED BY <2>1, <2>2, <2>4, <3>1, <3>3
  <2> QED BY <2>3, <2>4
<1> HIDE DEF S
<1>10. 0..N \subseteq S
  BY <1>1, <1>8, <1>9, UpTo
<1>11. N \in 0..N /\ N \in S
  BY <1>1, <1>10
<1>12. far(n)
  BY DEF far
<1>13. H[N][n] = hop[n].peer
  BY <1>5, <1>11, <1>12 DEF S
<1> QED BY <1>3, <1>13

\* When the loop of compute_spf ends, the tree is the one the tie-break fixes,
\* and next hops are links to its first nodes, for every graph and every order
\* of adjacencies: nodes with the same database agree on the tree.
THEOREM TreeIsUnique == Spec => []TreeIsDeterministic
<1>1. SpfInv => TreeIsDeterministic
  <2> SUFFICES ASSUME SpfInv, Done, NEW n \in Nodes
               PROVE  IF Reachable(Dist(view.graph), Root, n)
                      THEN /\ parent[n] = TreeParent(view.graph, Dist(view.graph), Root, n)
                           /\ hop[n] # NoLink
                           /\ hop[n].peer = FirstHop(view.graph, Dist(view.graph), Root)[n]
                      ELSE parent[n] = NoNode /\ hop[n] = NoLink
    BY DEF TreeIsDeterministic
  <2>1. Finished /\ ViewOK(view)
    BY DoneIsFinished DEF SpfInv, TypeOK
  <2>2. CASE Reachable(Dist(view.graph), Root, n)
    <3>1. hop[n] # NoLink
      BY <2>1, <2>2 DEF Finished, Hangs
    <3> QED BY <2>1, <2>2, <3>1, ParentIsTreeParent, HopIsFirstHop
  <2>3. CASE ~Reachable(Dist(view.graph), Root, n)
    <3>1. n = Root \/ cost[n] = MaxCost
      BY <2>1, <2>3, MaxCostPositive DEF Finished, Reachable
    <3> QED BY <2>3, <3>1 DEF SpfInv, TreeInv
  <2> QED BY <2>2, <2>3
<1> QED BY <1>1, SpfInvariant, PTL
===============================================================================
