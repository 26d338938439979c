----------------------------- MODULE Forwarding -----------------------------
(***************************************************************************)
(* One packet on its way through a network of nodes whose link-state       *)
(* databases have converged (db/forward_table.rs): send at the source,     *)
(* forward at every other node, with the forwarding tables build_from_db   *)
(* makes of the shortest-path trees of ShortestPaths.                      *)
(*                                                                         *)
(* A node takes a packet only from the connection it would itself use      *)
(* towards the packet's source (reverse-path check).                       *)
(***************************************************************************)
EXTENDS ShortestPaths

CONSTANTS Conns,    \* connections
          NoConn,   \* no entry in next_hop
          Nets      \* networks to consider

ASSUME NoConnIsNone == NoConn \notin Conns

\* a, b: the nodes a connection joins; cost: its cost; find: which connection
\* to a neighbour links.values().find(..) comes upon; kind: of the endpoint;
\* listeners: the nodes with a listener; price: the costs of their listeners;
\* rank: the order of the routes in each node's table; lossy: may connections
\* lose packets?  A network that lacks a connection gives it cost 0.
Up(net) == {l \in Conns : net.cost[l] # 0}

Attached(net, n) == {l \in Up(net) : n \in {net.a[l], net.b[l]}}

\* Link::peer_id as node n sees it.
Peer(net, l, n) == IF n = net.a[l] THEN net.b[l] ELSE net.a[l]

NetOK(net) ==
    /\ net.a \in [Conns -> Nodes] /\ net.b \in [Conns -> Nodes]
    /\ net.cost \in [Conns -> Nat]
    /\ \A l \in Conns : net.a[l] # net.b[l]
    /\ \A n \in Nodes : \A l \in Attached(net, n) :
         /\ net.find[<<n, Peer(net, l, n)>>] \in Attached(net, n)
         /\ Peer(net, net.find[<<n, Peer(net, l, n)>>], n) = Peer(net, l, n)
    /\ net.listeners \subseteq Nodes
    /\ net.kind \in {"Unicast", "Anycast", "Broadcast"}
    /\ net.price \in [Nodes -> 0..MaxCost]
    /\ net.rank \in [Nodes -> [Nodes -> Nat]]
    /\ \A n, t, u \in Nodes : net.rank[n][t] = net.rank[n][u] => t = u
    /\ net.lossy \in BOOLEAN
    /\ net.kind = "Unicast" => Cardinality(net.listeners) <= 1

ASSUME NetsOK == \A net \in Nets : NetOK(net)

VARIABLES net,      \* the network, which does not change
          phase,    \* "Lsas", "Spf", "Fib": how far the nodes' tables are built
          dist,     \* cost of each node
          hop,      \* next_hop of each node
          fib,      \* table entry of the endpoint at each node
          src,      \* the sending node
          sent,     \* has it sent?
          flight,   \* copies on each connection towards each node
          handled   \* how often a node sent the packet or let it in

tables == <<net, phase, dist, hop, fib, src>>
vars == <<net, phase, dist, hop, fib, src, sent, flight, handled>>

-----------------------------------------------------------------------------
(* The tables.                                                             *)

Graph == [n \in Nodes |-> {[peer |-> Peer(net, l, n), cost |-> net.cost[l]] :
                             l \in Attached(net, n)}]

\* Mutant of NextHop: over the last node before the destination, if that is a
\* neighbour, rather than over the first node of the path.
NextHopOverParent(n) ==
    LET first == FirstHop(Graph, dist, n)
    IN  [m \in Nodes |->
           IF ~Reachable(dist, n, m) THEN NoConn
           ELSE LET p == TreeParent(Graph, dist, n, m)
                IN  IF \E l \in Attached(net, n) : Peer(net, l, n) = p
                    THEN net.find[<<n, p>>] ELSE net.find[<<n, first[m]>>]]

\* compute_spf at node n: a connection to the first hop of each path.
NextHop(n) ==
    LET first == FirstHop(Graph, dist, n)
    IN  [m \in Nodes |->
           IF /\ Reachable(dist, n, m)
              /\ \E l \in Attached(net, n) : Peer(net, l, n) = first[m]
           THEN net.find[<<n, first[m]>>] ELSE NoConn]

\* anycast_total
AnycastTotal(n, t) ==
    IF t = n THEN net.price[t] ELSE SatAdd(net.price[t], dist[n][t])

\* The listeners for which node n, with next hops h, has somewhere to send.
Usable(h, n) == {t \in net.listeners : t = n \/ h[t] # NoConn}

\* Mutant of Chosen: by the cost of the listener alone.
ChosenByPrice(h, n) ==
    CHOOSE t \in Usable(h, n) : \A u \in Usable(h, n) \ {t} :
        Better(net.price[t], net.rank[n][t], net.price[u], net.rank[n][u])

\* The route of the least total cost, the first in the table among equals.
Chosen(h, n) ==
    CHOOSE t \in Usable(h, n) : \A u \in Usable(h, n) \ {t} :
        Better(AnycastTotal(n, t), net.rank[n][t], AnycastTotal(n, u), net.rank[n][u])

\* Mutant of MultiCastEntry: a node without a next hop gives an empty hop.
MultiCastEntryUnchecked(h, n) ==
    [local  |-> n \in net.listeners,
     remote |-> {h[t] : t \in net.listeners \ {n}}]

\* Local listeners and one copy for every neighbour that leads to a listener.
MultiCastEntry(h, n) ==
    LET remotes == {Peer(net, h[t], n) : t \in Usable(h, n) \ {n}}
    IN  [local  |-> n \in net.listeners,
         remote |-> {h[p] : p \in remotes} \ {NoConn}]

\* Mutant of SingleEntry: a local listener gets the packet as well.
SingleEntryBoth(h, n) ==
    LET to == {t \in Usable(h, n) : t = Chosen(h, n)}
    IN  [local |-> n \in net.listeners, remote |-> {h[t] : t \in to \ {n}}]

\* FibEntry::Single, none without a usable route; a unicast endpoint has one
\* route to choose from.
SingleEntry(h, n) ==
    LET to == {t \in Usable(h, n) : t = Chosen(h, n)}
    IN  [local |-> n \in to, remote |-> {h[t] : t \in to \ {n}}]

\* build_from_db
FibEntryOf(h, n) ==
    IF net.kind = "Broadcast" THEN MultiCastEntry(h, n) ELSE SingleEntry(h, n)

NoHops == [m \in Nodes |-> NoConn]

Init ==
    /\ net \in Nets
    /\ src \in Nodes
    /\ phase = "Lsas"
    /\ dist = [n \in Nodes |-> [m \in Nodes |-> MaxCost]]
    /\ hop = [n \in Nodes |-> NoHops]
    /\ fib = [n \in Nodes |-> [local |-> FALSE, remote |-> {}]]
    /\ sent = FALSE
    /\ flight = [w \in Conns \X Nodes |-> 0]
    /\ handled = [n \in Nodes |-> 0]

\* RouteChange at every node: compute_spf ...
ComputeSpf ==
    /\ phase = "Lsas"
    /\ phase' = "Spf"
    /\ dist' = Dist(Graph)
    /\ UNCHANGED <<net, hop, fib, src, sent, flight, handled>>

\* ... and build_from_db.
BuildFib ==
    /\ phase = "Spf"
    /\ phase' = "Fib"
    /\ hop' = [n \in Nodes |-> NextHop(n)]
    /\ fib' = [n \in Nodes |-> FibEntryOf(NextHop(n), n)]
    /\ UNCHANGED <<net, dist, src, sent, flight, handled>>

-----------------------------------------------------------------------------
\* Node n puts a copy on each of these connections.
Transmit(fl, n, out) ==
    [w \in Conns \X Nodes |->
       IF w[1] \in out /\ w[2] = Peer(net, w[1], n) THEN fl[w] + 1 ELSE fl[w]]

\* ForwardingTable::send at the source.
Send ==
    /\ phase = "Fib"
    /\ ~sent
    /\ sent' = TRUE
    /\ handled' = [handled EXCEPT ![src] = @ + 1]
    /\ flight' = Transmit(flight, src, fib[src].remote)
    /\ UNCHANGED tables

Taken(l, n) == [flight EXCEPT ![<<l, n>>] = @ - 1]

\* Mutant of Accepts: no reverse-path check.
AcceptsAny(l, n) == n # src /\ hop[n][src] # NoConn

\* Not our own packet, and it came over the way back to its source.
Accepts(l, n) == n # src /\ hop[n][src] = l

\* Mutant of Onward: a packet with a local listener stops here.
OnwardUnlessLocal(n) == IF fib[n].local THEN {} ELSE fib[n].remote

\* tx_remote: no copy goes to the neighbour on the way back.
Onward(n) ==
    {l \in fib[n].remote : Peer(net, l, n) # Peer(net, hop[n][src], n)}

\* ForwardingTable::forward.
Forward(l, n) ==
    /\ flight[<<l, n>>] > 0
    /\ \/ /\ ~Accepts(l, n)
          /\ flight' = Taken(l, n)
          /\ UNCHANGED handled
       \/ /\ Accepts(l, n)
          /\ handled' = [handled EXCEPT ![n] = @ + 1]
          /\ flight' = Transmit(Taken(l, n), n, Onward(n))
    /\ UNCHANGED <<sent, tables>>

\* The copy finds the connection's channel full, or goes down with it.
Lose(l, n) ==
    /\ net.lossy
    /\ flight[<<l, n>>] > 0
    /\ flight' = Taken(l, n)
    /\ UNCHANGED <<sent, handled, tables>>

Next ==
    \/ ComputeSpf
    \/ BuildFib
    \/ Send
    \/ \E l \in Conns, n \in Nodes : Forward(l, n) \/ Lose(l, n)

Spec == Init /\ [][Next]_vars

-----------------------------------------------------------------------------
(* Properties.                                                             *)

\* The types of the variables; a node's next hops and the connections of its
\* table entry are its own (build_from_db).
TypeOK ==
    /\ NetOK(net)
    /\ src \in Nodes
    /\ phase \in {"Lsas", "Spf", "Fib"}
    /\ dist \in [Nodes -> [Nodes -> 0..MaxCost]]
    /\ hop \in [Nodes -> [Nodes -> Conns \cup {NoConn}]]
    /\ fib \in [Nodes -> [local : BOOLEAN, remote : SUBSET Conns]]
    /\ \A n \in Nodes : fib[n].remote \subseteq Attached(net, n)
    /\ \A n, m \in Nodes : hop[n][m] # NoConn => hop[n][m] \in Attached(net, n)
    /\ sent \in BOOLEAN
    /\ flight \in [Conns \X Nodes -> Nat]
    /\ handled \in [Nodes -> Nat]

\* A connection that leads to some node over a neighbour is also the way to that
\* neighbour.  build_from_db collects the neighbours and then looks up the next
\* hop of each: were it another connection, that one would be listed twice and
\* a broadcast sent over it twice.
NeighboursAreDirect ==
    \A n, m \in Nodes :
        hop[n][m] # NoConn => hop[n][Peer(net, hop[n][m], n)] = hop[n][m]

Receivers == {n \in Nodes : fib[n].local /\ handled[n] > 0}

Quiet == sent /\ \A w \in Conns \X Nodes : flight[w] = 0

\* No listener gets a packet twice, whatever the topology and the costs, over
\* cycles and parallel connections too (the reverse-path check of forward).
NoDuplicates == \A n \in Nodes : fib[n].local => handled[n] <= 1

\* An anycast or unicast packet goes to at most one listener.
OneReceiver == net.kind # "Broadcast" => Cardinality(Receivers) <= 1

\* The listeners that the source has a path to, itself included.
Connected == {t \in net.listeners : t = src \/ Reachable(dist, src, t)}

\* Once nothing is under way any more, a broadcast has reached every listener
\* that is connected to its source.  It does not hold: where the shortest paths
\* there and back differ the reverse-path check drops the only copy (README).
BroadcastReachesAll == Quiet /\ net.kind = "Broadcast" => Receivers = Connected

\* Both ends of a connection choose the same one of those that join them.
SameLinks == \A n, m \in Nodes : \A l \in Attached(net, n) :
    Peer(net, l, n) = m => net.find[<<n, m>>] = net.find[<<m, n>>]

\* No two shortest paths between two nodes.
UniquePaths == \A n, m \in Nodes : \A l, k \in Attached(net, n) :
    /\ n # m /\ Reachable(dist, n, m)
    /\ net.cost[l] + dist[Peer(net, l, n)][m] = dist[n][m]
    /\ net.cost[k] + dist[Peer(net, k, n)][m] = dist[n][m]
    => Peer(net, l, n) = Peer(net, k, n)

\* All connections have the same cost, and two of them lead from any node to any
\* other.
TwoHops == \A l \in Up(net) :
    /\ \A k \in Up(net) : net.cost[k] = net.cost[l]
    /\ \A n, m \in Nodes : Reachable(dist, n, m) => dist[n][m] <= 2 * net.cost[l]

\* Where nothing is lost a broadcast does reach every connected listener, if
\* there is one shortest path between any two nodes, or paths are short and of
\* equal connections, so that both ends break a tie alike: then the reverse-path
\* check of forward turns away no copy that was needed.
BroadcastOverAgreedPaths ==
    ~net.lossy /\ SameLinks /\ (UniquePaths \/ TwoHops) => BroadcastReachesAll

\* The source has a listener to choose whose total cost is not saturated, which
\* for a unicast endpoint, with its one route, does not matter.
HasChoice == \E t \in Connected :
    net.kind = "Unicast" \/ AnycastTotal(src, t) < MaxCost

\* Where nothing is lost and shortest paths are unique, a unicast or anycast
\* packet that has a connected listener reaches one, and one of the least total
\* cost as the source sees it, although every node on the way chooses again.
\* Among saturated totals nodes may send it back and forth (README).
ClosestServed ==
    /\ ~net.lossy /\ SameLinks /\ UniquePaths
    /\ Quiet /\ net.kind # "Broadcast" /\ HasChoice
    => \E t \in Connected :
            /\ Receivers = {t}
            /\ \A u \in Connected : AnycastTotal(src, t) <= AnycastTotal(src, u)
=============================================================================
