------------------------------ MODULE LinkState ------------------------------
(***************************************************************************)
(* The link-state databases of a network of nodes (linkstate/db.rs) as     *)
(* their routers drive them: peers come and go, listeners register, change *)
(* their cost and drop, and LSAs are originated, flooded, refreshed,       *)
(* withdrawn and purged.                                                   *)
(*                                                                         *)
(* Every handler of a router is one step, its RouteChange included: the    *)
(* router is a single task, and next_hop is read by nobody else.  Peer     *)
(* tasks hand what they receive to the router through send_broker, in      *)
(* tasks of its own, so that nothing arrives in a particular order.        *)
(*                                                                         *)
(* pending_tx and the acknowledgements are left out: nothing reads them.   *)
(***************************************************************************)
EXTENDS RouteTable, ShortestPaths

CONSTANTS Endpoints,  \* endpoint ids
          Scenarios   \* networks, and what may happen in them

Ids == Nodes \cup Endpoints

\* net: the ends, the cost and the realms of each connection, which is set up
\* once; listener: the node, the endpoint and the EndpointInfo of each channel;
\* costs: arguments of set_cost; maxSeq: the bound at which cost changes and
\* refreshes stop; lossy: may a connection that is up lose messages; timers:
\* nodes on which time passes (refresh and purge); mayBreak, mayClose, mayStop:
\* connections that may break, listeners that may be dropped, nodes that may go.
ScenarioOK(s) ==
    /\ \A l \in DOMAIN s.net :
         /\ s.net[l] \in [a : Nodes, b : Nodes, cost : Nat \ {0}, realms : SUBSET Realms]
         /\ s.net[l].a # s.net[l].b /\ "Global" \in s.net[l].realms
    /\ DOMAIN s.listener \subseteq Channels
    /\ \A c \in DOMAIN s.listener :
         /\ s.listener[c] \in [node : Nodes, ep : Endpoints, info : EndpointInfo]
         /\ s.listener[c].info.kind # "Node"
    /\ s.costs \subseteq Nat /\ s.maxSeq \in Nat
    /\ s.lossy \in BOOLEAN /\ s.timers \subseteq Nodes
    /\ s.mayBreak \subseteq DOMAIN s.net
    /\ s.mayClose \subseteq DOMAIN s.listener
    /\ s.mayStop \subseteq Nodes

ASSUME NodesAreRemotes == Remotes = Nodes
ASSUME NamesDisjoint == Nodes \cap Endpoints = {}
ASSUME ScenariosTyped == \A s \in Scenarios : ScenarioOK(s)

VARIABLES
    scn,      \* the scenario, which does not change
    db,       \* LSAs in each node's database
    links,    \* connections in each node's links
    hop,      \* next_hop of each node: the peer it leads to
    routes,   \* RouteTable of each node
    ends,     \* the peer task at each end of a connection
    lst,      \* the state of each listener
    spawned,  \* router messages under way to their router
    wire,     \* LSAs under way to a router
    stopped   \* nodes whose router has shut down

vars == <<scn, db, links, hop, routes, ends, lst, spawned, wire, stopped>>

Net == scn.net
Conns == DOMAIN Net
Listener == scn.listener
Listeners == DOMAIN Listener

\* No entry in next_hop.
NoNode == -1

-----------------------------------------------------------------------------
(* LSAs.                                                                   *)

\* Lsa; the key of a Router LSA is the node id twice.  A Router LSA has the
\* EndpointInfo under which it enters the route table.
Adjacency == [conn : Conns, peer : Nodes, cost : Nat, realms : SUBSET Realms]
Lsa == [origin : Nodes, ep : Ids, seq : Nat, dead : BOOLEAN,
        info : EndpointInfo, adj : SUBSET Adjacency]

NodeInfo == [kind |-> "Node", realm |-> "Global", cost |-> 0]

NewLsa(n, e, info) ==
    [origin |-> n, ep |-> e, seq |-> 0, dead |-> FALSE, info |-> info, adj |-> {}]

IsRouter(lsa) == lsa.ep = lsa.origin

SameKey(r, s) == r.origin = s.origin /\ r.ep = s.ep

\* db.get(&key) as a set.
Held(D, lsa) == {r \in D : SameKey(r, lsa)}

\* Mutant of Insert: the old record stays.
InsertBeside(D, lsa) == D \cup {lsa}

\* db.insert(key, record)
Insert(D, lsa) == (D \ Held(D, lsa)) \cup {lsa}

\* Mutant of Bumped: the number stays.
BumpedNot(lsa) == lsa

\* The same LSA, changed: its sequence number goes up.
Bumped(lsa) == [lsa EXCEPT !.seq = @ + 1]

Recosted(lsa, k) == Bumped([lsa EXCEPT !.info.cost = k])

Withdrawn(lsa) == Bumped([lsa EXCEPT !.dead = TRUE])

Peer(l, n) == IF n = Net[l].a THEN Net[l].b ELSE Net[l].a

Attached(n) == {l \in Conns : n \in {Net[l].a, Net[l].b}}

\* Link::send_lsa: what is left of an LSA on a connection.  Adjacencies keep the
\* realms they share with it, and those that share none are left out.
Narrowed(lsa, l) ==
    [lsa EXCEPT !.adj = {[a EXCEPT !.realms = @ \cap Net[l].realms] :
                           a \in {b \in @ : b.realms \cap Net[l].realms # {}}}]

\* Mutant of Passes: the realm of an endpoint is not looked at.
PassesAnyRealm(lsa, l) == IsRouter(lsa) => Narrowed(lsa, l).adj # {}

\* Link::send_lsa: what realm rules let over a connection.
Passes(lsa, l) ==
    IF IsRouter(lsa) THEN Narrowed(lsa, l).adj # {} ELSE lsa.info.realm \in Net[l].realms

\* What reaches the wire: the peer task at this end still takes messages and
\* the one at the other end has not gone.
Carries(l, n) == ends[n][l] = "open" /\ ends[Peer(l, n)][l] # "closed"

Sent(n, l, L) ==
    {[conn |-> l, to |-> Peer(l, n), lsa |-> Narrowed(lsa, l)] :
        lsa \in {x \in L : Carries(l, n) /\ Passes(x, l)}}

\* flood_all_neighbors, over links K and not over those in skip: not to the
\* originator, and not to the neighbour on the way to the originator.
Flood(n, K, lsa, skip) ==
    UNION {Sent(n, l, {lsa}) :
             l \in {k \in K \ skip : Peer(k, n) \notin {lsa.origin, hop[n][lsa.origin]}}}

FloodAll(n, K, L) == UNION {Flood(n, K, lsa, {}) : lsa \in L}

-----------------------------------------------------------------------------
(* RouteChange.                                                            *)

Graph(D) ==
    [n \in Nodes |->
       UNION {{[peer |-> a.peer, cost |-> a.cost] : a \in r.adj} :
                r \in {s \in D : s.origin = n /\ IsRouter(s)}}]

\* compute_spf at node n; a neighbour without a link gets no next hop.
NextHops(n, D, K) ==
    LET graph == Graph(D)
        dist  == Dist(graph)
        first == FirstHop(graph, dist, n)
    IN  [m \in Nodes |->
           IF Reachable(dist, n, m) /\ \E l \in K : Peer(l, n) = first[m]
           THEN first[m] ELSE NoNode]

\* The database and the links of node n are now D and K.
Change(n, D, K) ==
    /\ db' = [db EXCEPT ![n] = D]
    /\ links' = [links EXCEPT ![n] = K]
    /\ hop' = IF Graph(D) = Graph(db[n]) /\ K = links[n] THEN hop
              ELSE [hop EXCEPT ![n] = NextHops(n, D, K)]

Init ==
    /\ scn \in Scenarios
    /\ db = [n \in Nodes |-> {NewLsa(n, n, NodeInfo)}]
    /\ links = [n \in Nodes |-> {}]
    /\ hop = [n \in Nodes |-> [m \in Nodes |-> NoNode]]
    /\ routes = [n \in Nodes |-> [e \in Ids |-> NoEntry]]
    /\ ends = [n \in Nodes |-> [l \in Attached(n) |-> "idle"]]
    /\ lst = [c \in Listeners |-> "new"]
    /\ spawned = {}
    /\ wire = {}
    /\ stopped = {}

-----------------------------------------------------------------------------
(* Peers.                                                                  *)

PeerMsg(type, n, l) == [type |-> type, node |-> n, conn |-> l]

\* Peer::register_peer, after the handshake.
StartPeer(n, l) ==
    /\ l \in Attached(n)
    /\ ends[n][l] = "idle"
    /\ n \notin stopped
    /\ ends' = [ends EXCEPT ![n][l] = "open"]
    /\ spawned' = spawned \cup {PeerMsg("RegisterPeer", n, l)}
    /\ UNCHANGED <<db, links, hop, routes, lst, wire, stopped, scn>>

\* The connection was closed at the other end, or a node has shut down.
HungUp(n, l) == ends[Peer(l, n)][l] = "closed" \/ {n, Peer(l, n)} \cap stopped # {}

\* Peer::unregister: the connection broke, timed out or was closed.
StopPeer(n, l) ==
    /\ l \in Attached(n)
    /\ ends[n][l] = "open"
    /\ l \in scn.mayBreak \/ HungUp(n, l)
    /\ ends' = [ends EXCEPT ![n][l] = "closed"]
    /\ spawned' = spawned \cup {PeerMsg("UnRegisterPeer", x, l) : x \in {n} \ stopped}
    /\ UNCHANGED <<db, links, hop, routes, lst, wire, stopped, scn>>

Own(n) == CHOOSE r \in db[n] : r.origin = n /\ IsRouter(r)

\* Mutant of RegisterPeer: the new peer is not sent the database.
RegisterPeerNoSync(n, l) ==
    /\ PeerMsg("RegisterPeer", n, l) \in spawned
    /\ n \notin stopped
    /\ LET adj == [conn |-> l, peer |-> Peer(l, n), cost |-> Net[l].cost,
                   realms |-> Net[l].realms]
           own == Bumped([Own(n) EXCEPT !.adj = @ \cup {adj}])
           D   == Insert(db[n], own)
           K   == links[n] \cup {l}
       IN  /\ Change(n, D, K)
           /\ wire' = wire \cup Flood(n, K, own, {l}) \cup Sent(n, l, {own})
    /\ spawned' = spawned \ {PeerMsg("RegisterPeer", n, l)}
    /\ UNCHANGED <<routes, ends, lst, stopped, scn>>

\* add_peer: the new adjacency goes to the other neighbours, the whole database
\* to the new one.
RegisterPeer(n, l) ==
    /\ PeerMsg("RegisterPeer", n, l) \in spawned
    /\ n \notin stopped
    /\ LET adj == [conn |-> l, peer |-> Peer(l, n), cost |-> Net[l].cost,
                   realms |-> Net[l].realms]
           own == Bumped([Own(n) EXCEPT !.adj = @ \cup {adj}])
           D   == Insert(db[n], own)
           K   == links[n] \cup {l}
       IN  /\ Change(n, D, K)
           /\ wire' = wire \cup Flood(n, K, own, {l}) \cup Sent(n, l, D)
    /\ spawned' = spawned \ {PeerMsg("RegisterPeer", n, l)}
    /\ UNCHANGED <<routes, ends, lst, stopped, scn>>

\* remove_peer
UnRegisterPeer(n, l) ==
    /\ PeerMsg("UnRegisterPeer", n, l) \in spawned
    /\ n \notin stopped
    /\ \/ /\ l \in links[n]
          /\ LET own == Bumped([Own(n) EXCEPT !.adj = {a \in @ : a.conn # l}])
                 K   == links[n] \ {l}
             IN  /\ Change(n, Insert(db[n], own), K)
                 /\ wire' = wire \cup Flood(n, K, own, {})
       \/ /\ l \notin links[n]
          /\ UNCHANGED <<db, links, hop, wire>>
    /\ spawned' = spawned \ {PeerMsg("UnRegisterPeer", n, l)}
    /\ UNCHANGED <<routes, ends, lst, stopped, scn>>

-----------------------------------------------------------------------------
(* LSAs from other nodes.                                                  *)

\* Mutant of Forget: the routes stay.
ForgetNothing(table, E, origin) == table

\* remove_remote_endpoint for each of the endpoints E.
Forget(table, E, origin) ==
    [e \in Ids |-> IF e \in E THEN RemoveRemoteEndpoint(table[e], origin) ELSE table[e]]

\* upsert_lsa, flood_all_neighbors and compute_spf.  The record is kept even if
\* the route table refuses the route.
Upsert(n, lsa, in) ==
    /\ \A r \in Held(db[n], lsa) : lsa.seq > r.seq
    /\ Change(n, Insert(db[n], lsa), links[n])
    /\ routes' = [routes EXCEPT ![n][lsa.ep] = AddRemoteEndpoint(@, lsa.origin, lsa.info).entry]
    /\ wire' = (wire \ {in}) \cup Flood(n, links[n], lsa, {in.conn})

\* remove_dead_lsa: with its Router LSA everything a node originated goes.
RemoveDead(n, lsa, in) ==
    LET held == Held(db[n], lsa)
        gone == IF IsRouter(lsa) THEN {r \in db[n] : r.origin = lsa.origin} ELSE held
    IN  \/ /\ \E r \in held : r.seq < lsa.seq
           /\ Change(n, db[n] \ gone, links[n])
           /\ routes' = [routes EXCEPT ![n] = Forget(@, {r.ep : r \in gone}, lsa.origin)]
           /\ wire' = (wire \ {in}) \cup Flood(n, links[n], lsa, {})
        \/ /\ held = {}
           /\ routes' = [routes EXCEPT ![n] = Forget(@, {lsa.ep}, lsa.origin)]
           /\ wire' = wire \ {in}
           /\ UNCHANGED <<db, links, hop>>

\* handle_lsa ignores what the node originated itself and what is not newer.
Ignored(n, lsa) ==
    \/ lsa.origin = n
    \/ \E r \in Held(db[n], lsa) : lsa.seq <= r.seq

HandleLsa(n, in) ==
    /\ in \in wire
    /\ in.to = n
    /\ ends[n][in.conn] # "idle"
    /\ n \notin stopped
    /\ \/ /\ Ignored(n, in.lsa)
          /\ wire' = wire \ {in}
          /\ UNCHANGED <<db, links, hop, routes>>
       \/ ~Ignored(n, in.lsa) /\ in.lsa.dead /\ RemoveDead(n, in.lsa, in)
       \/ ~Ignored(n, in.lsa) /\ ~in.lsa.dead /\ Upsert(n, in.lsa, in)
    /\ UNCHANGED <<ends, lst, spawned, stopped, scn>>

\* A connection that breaks takes what is on it along, and nobody reads what is
\* for a node that has stopped.
Lose(in) ==
    /\ \/ scn.lossy
       \/ in.to \in stopped
       \/ ends[in.to][in.conn] = "closed"
       \/ ends[Peer(in.conn, in.to)][in.conn] = "closed"
    /\ wire' = wire \ {in}
    /\ UNCHANGED <<db, links, hop, routes, ends, lst, spawned, stopped, scn>>

-----------------------------------------------------------------------------
(* Local listeners.                                                        *)

Advertised(n, e) == {r \in db[n] : r.origin = n /\ r.ep = e}

\* The LSA work of an effect of the route table: a new LSA, another cost in the
\* one there is, or its withdrawal.
CarryOut(n, e, info, effect) ==
    LET old   == Advertised(n, e)
        stale == {r \in old : r.info.cost \notin effect.cost}
        fresh == {Recosted(r, k) : r \in stale, k \in effect.cost}
        dead  == {Withdrawn(r) : r \in old}
    IN  \/ /\ effect.lsa = "Add"
           /\ Change(n, Insert(db[n], NewLsa(n, e, info)), links[n])
           /\ wire' = wire \cup Flood(n, links[n], NewLsa(n, e, info), {})
        \/ /\ effect.lsa = "Update"
           /\ Change(n, (db[n] \ stale) \cup fresh, links[n])
           /\ wire' = wire \cup FloodAll(n, links[n], fresh)
        \/ /\ effect.lsa = "Remove"
           /\ Change(n, db[n] \ old, links[n])
           /\ wire' = wire \cup FloodAll(n, links[n], dead)
        \/ /\ effect.lsa \in {"Rebuild", "Noop"}
           /\ UNCHANGED <<db, links, hop, wire>>

\* add_endpoint
RegisterEndpoint(c) ==
    LET n   == Listener[c].node
        e   == Listener[c].ep
        add == AddEndpoint(routes[n][e], Listener[c].info, c)
    IN  /\ lst[c] = "new"
        /\ n \notin stopped
        /\ lst' = [lst EXCEPT ![c] = IF add.ok THEN "open" ELSE "closed"]
        /\ routes' = [routes EXCEPT ![n][e] = add.entry]
        /\ CarryOut(n, e, Listener[c].info, add.effect)
        /\ UNCHANGED <<ends, spawned, stopped, scn>>

\* set_anycast_cost and update_endpoint_cost
SetCost(c, k) ==
    LET n   == Listener[c].node
        e   == Listener[c].ep
        set == SetAnycastCost(routes[n][e], c, k)
    IN  /\ lst[c] = "open"
        /\ Listener[c].info.kind = "Anycast"
        /\ n \notin stopped
        /\ set.result = "Changed"
        /\ \A r \in Advertised(n, e) : r.seq < scn.maxSeq
        /\ routes' = [routes EXCEPT ![n][e] = set.entry]
        /\ CarryOut(n, e, Listener[c].info, set.effect)
        /\ UNCHANGED <<ends, lst, spawned, stopped, scn>>

DeadLinkMsg(n, e) == [type |-> "DeadLink", node |-> n, ep |-> e]

\* The receiver is dropped (LocalBus has the steps in between).
CloseListener(c) ==
    /\ c \in scn.mayClose
    /\ lst[c] = "open"
    /\ lst' = [lst EXCEPT ![c] = "closed"]
    /\ spawned' = spawned \cup {DeadLinkMsg(Listener[c].node, Listener[c].ep)}
    /\ UNCHANGED <<db, links, hop, routes, ends, wire, stopped, scn>>

Closed == {c \in Listeners : lst[c] = "closed"}

\* remove_endpoint
DeadLink(n, e) ==
    LET rem == RemoveEndpoint(routes[n][e], Closed)
    IN  /\ DeadLinkMsg(n, e) \in spawned
        /\ n \notin stopped
        /\ routes' = [routes EXCEPT ![n][e] = rem.entry]
        /\ CarryOut(n, e, NodeInfo, rem.effect)
        /\ spawned' = spawned \ {DeadLinkMsg(n, e)}
        /\ UNCHANGED <<ends, lst, stopped, scn>>

-----------------------------------------------------------------------------
(* Time, shutdown and crashes.                                             *)

\* No refresh of this LSA has come for lsa_timeout: every way from its origin
\* to n is cut or closed to it.
Silent(n, lsa) ==
    \/ lsa.origin \in stopped
    \/ \E S \in SUBSET Nodes :
         /\ n \in S /\ lsa.origin \notin S
         /\ \A l \in Conns :
              {Net[l].a, Net[l].b} \cap S # {} /\ ~({Net[l].a, Net[l].b} \subseteq S)
                => \/ ends[Net[l].a][l] # "open" \/ ends[Net[l].b][l] # "open"
                   \/ ~Passes(lsa, l)

\* refresh_and_purge_lsas: own LSAs S are old enough to be sent again.  Of the
\* LSAs of others that are too old one is dropped, whichever is met first, and
\* its route stays: `dirty || ..` does not run the iterator that would drop the
\* others and remove the routes.
RefreshAndPurge(n, S, P) ==
    /\ n \notin stopped
    /\ S \subseteq {r \in db[n] : r.origin = n /\ r.seq < scn.maxSeq}
    /\ P \subseteq {r \in db[n] : r.origin # n /\ Silent(n, r)}
    /\ Cardinality(P) <= 1
    /\ S \cup P # {}
    /\ LET fresh == {Bumped(r) : r \in S}
       IN  /\ Change(n, (db[n] \ (S \cup P)) \cup fresh, links[n])
           /\ wire' = wire \cup FloodAll(n, links[n], fresh)
    /\ UNCHANGED <<routes, ends, lst, spawned, stopped, scn>>

\* What becomes of a node whose router ends.
Stop(n) ==
    /\ n \in scn.mayStop \ stopped
    /\ stopped' = stopped \cup {n}
    /\ db' = [db EXCEPT ![n] = {}]
    /\ links' = [links EXCEPT ![n] = {}]
    /\ routes' = [routes EXCEPT ![n] = [e \in Ids |-> NoEntry]]
    /\ spawned' = {m \in spawned : m.node # n}
    /\ lst' = [c \in Listeners |-> IF Listener[c].node = n THEN "closed" ELSE lst[c]]
    /\ UNCHANGED <<hop, scn>>

\* LsDb::shutdown withdraws the Router LSA.
Shutdown(n) ==
    /\ Stop(n)
    /\ wire' = wire \cup Flood(n, links[n], Withdrawn(Own(n)), {})
    /\ UNCHANGED ends

\* The process dies.
Crash(n) ==
    /\ Stop(n)
    /\ ends' = [ends EXCEPT ![n] = [l \in Attached(n) |-> "closed"]]
    /\ UNCHANGED wire

-----------------------------------------------------------------------------
PeerNext(n) ==
    \E l \in Conns : StartPeer(n, l) \/ StopPeer(n, l)

RouterNext(n) ==
    \/ \E l \in Conns : RegisterPeer(n, l) \/ UnRegisterPeer(n, l)
    \/ \E in \in wire : HandleLsa(n, in)
    \/ \E e \in Endpoints : DeadLink(n, e)

ListenerNext(c) ==
    \/ RegisterEndpoint(c)
    \/ \E k \in scn.costs : SetCost(c, k)
    \/ CloseListener(c)

TimerNext(n) == n \in scn.timers /\ \E S, P \in SUBSET db[n] : RefreshAndPurge(n, S, P)

Next ==
    \/ \E n \in Nodes : PeerNext(n) \/ RouterNext(n) \/ TimerNext(n)
    \/ \E n \in Nodes : Shutdown(n) \/ Crash(n)
    \/ \E c \in Listeners : ListenerNext(c)
    \/ \E in \in wire : Lose(in)

Spec == Init /\ [][Next]_vars

\* The tasks run: routers take what is sent to them, peers are started and
\* notice that the other end has gone, and timers fire.
Fairness ==
    \A n \in Nodes :
        /\ WF_vars(RouterNext(n))
        /\ WF_vars(TimerNext(n))
        /\ WF_vars(\E l \in Conns : StartPeer(n, l) \/ (StopPeer(n, l) /\ HungUp(n, l)))

FairSpec == Spec /\ Fairness

-----------------------------------------------------------------------------
(* Properties.                                                             *)

\* The types of the variables; a database has one record per key (HashMap::insert
\* in upsert_lsa and add_endpoint), and links are the node's own.
TypeOK ==
    /\ \A n \in Nodes : db[n] \subseteq Lsa
    /\ \A n \in Nodes : \A r, s \in db[n] : SameKey(r, s) => r = s
    /\ \A n \in Nodes : links[n] \subseteq Attached(n)
    /\ hop \in [Nodes -> [Nodes -> Nodes \cup {NoNode}]]
    /\ routes \in [Nodes -> [Ids -> LsRouteEntry]]
    /\ \A n \in Nodes : ends[n] \in [Attached(n) -> {"idle", "open", "closed"}]
    /\ lst \in [Listeners -> {"new", "open", "closed"}]
    /\ \A m \in wire : m.conn \in Conns /\ m.to \in Nodes /\ m.lsa \in Lsa
    /\ stopped \subseteq scn.mayStop

\* Connections of this realm lead from node a to node b.
Reaches(a, realm, b) ==
    \A S \in SUBSET Nodes :
        /\ a \in S
        /\ \A l \in Conns : realm \in Net[l].realms => (Net[l].a \in S <=> Net[l].b \in S)
        => b \in S

\* An LSA of some realm is known only where connections of that realm lead from
\* its origin, whatever path it is flooded along and whatever is re-registered,
\* refreshed or synchronised with a new peer (Link::send_lsa, flood_peer).
RealmConfinement ==
    \A n \in Nodes : \A r \in db[n] : Reaches(r.origin, r.info.realm, n)

Everywhere == (UNION {db[n] : n \in Nodes}) \cup {m.lsa : m \in wire}

\* The adjacencies of an LSA without their realms.
Bare(lsa) == {[conn |-> a.conn, peer |-> a.peer, cost |-> a.cost] : a \in lsa.adj}

\* Two copies of one LSA.  Every connection narrows the realms of adjacencies,
\* so that is the one thing in which copies may differ.
Copy(r, s) ==
    SameKey(r, s) /\ r.seq = s.seq /\ r.dead = s.dead /\ Bare(r) = Bare(s)

\* Two nodes, or a node and the wire, that have a Router LSA of the same node
\* and sequence number have copies of the same one, whatever connections each
\* has come over: no adjacency was left out on the way (Link::send_lsa), and a
\* node that refuses an LSA because it is not newer (upsert_lsa,
\* remove_dead_lsa) misses nothing that compute_spf looks at.
RouterLsasAgree ==
    \A r, s \in {x \in Everywhere : IsRouter(x)} :
        SameKey(r, s) /\ r.seq = s.seq => Copy(r, s)

\* Every route to another node has its LSA in the database, of the same cost
\* and realm: upsert_lsa and remove_dead_lsa keep the two tables in step, and a
\* route goes away with the LSA.  Only the purge drops an LSA without its route,
\* and a change of an endpoint's kind at its origin leaves an old route behind.
RoutesBacked ==
    scn.timers = {} => \A n \in Nodes, e \in Ids : \A r \in routes[n][e].routes :
        r.via \in Nodes => \E x \in db[n] : /\ x.origin = r.via /\ x.ep = e
                                            /\ x.info.cost = r.cost
                                            /\ x.info.realm = r.realm

Listening(n, e) == {c \in Listeners : /\ Listener[c].node = n /\ Listener[c].ep = e
                                     /\ lst[c] = "open"}

\* Nothing is lost, and nothing registered goes away.
Undisturbed == ~scn.lossy /\ scn.mayBreak = {} /\ scn.mayClose = {}

\* The nodes that connections lead to from the peer on connection l of node n,
\* those between the two left out.
Beyond(l, n) ==
    {m \in Nodes : \A S \in SUBSET Nodes :
        /\ Peer(l, n) \in S
        /\ \A k \in Conns : {Net[k].a, Net[k].b} # {n, Peer(l, n)}
                             => (Net[k].a \in S <=> Net[k].b \in S)
        => m \in S}

\* Connections form no ring of three nodes or more.  In a ring of five, two nodes
\* on either side may each leave an LSA to the other: flood_all_neighbors does
\* not send it to the neighbour their next hops, of different age, lead over.
NoRings == \A n \in Nodes : \A l \in Attached(n) : n \notin Beyond(l, n)

\* The listeners of one endpoint are of one kind and realm, on one node if it is
\* unicast, and the broadcast listeners of one node have the same cost: what a
\* route table refuses, or takes without another LSA, the others do not learn.
Compatible ==
    \A c, d \in Listeners : Listener[c].ep = Listener[d].ep =>
        LET i == Listener[c].info
            j == Listener[d].info
            together == Listener[c].node = Listener[d].node
        IN  /\ i.kind = j.kind /\ i.realm = j.realm
            /\ i.kind = "Unicast" => together
            /\ i.kind = "Broadcast" /\ together => i.cost = j.cost

\* Everything under way has arrived and every connection is in use at both ends.
Quiet ==
    /\ wire = {} /\ spawned = {} /\ stopped = {}
    /\ \A n \in Nodes : links[n] = Attached(n)

\* Advertisements get through: when all is quiet every node has a copy of the
\* latest Router LSA of every other node and a route to the listeners of the nodes
\* that may reach it, at the cost those have now, and to no others, in whatever
\* order peers came up, databases were synchronised, LSAs were refreshed and
\* arrived (flood_peer, handle_lsa, flood_all_neighbors and its back-path rule).
Converged ==
    Undisturbed /\ Quiet /\ NoRings /\ Compatible => \A n, m \in Nodes :
        /\ Reaches(m, "Global", n) => \E r \in db[n] : Copy(r, Own(m))
        /\ \A e \in Endpoints :
             LET via == {r \in routes[n][e].routes : r.via = m}
             IN  n # m =>
                   IF \E c \in Listening(m, e) : Reaches(m, Listener[c].info.realm, n)
                   THEN {r.cost : r \in via} = MinLocalCost(routes[m][e].routes)
                   ELSE via = {}

-----------------------------------------------------------------------------
(* What one might expect as well, and the code does not keep; the README      *)
(* tells how each of them fails.                                              *)

\* A node does not go on advertising an endpoint it has no listener for
\* (remove_endpoint; linkstate.rs: "withdraw / max-age").
AdvertisedIsServed ==
    \A n \in Nodes, e \in Endpoints :
        Advertised(n, e) # {} =>
            Listening(n, e) # {} \/ DeadLinkMsg(n, e) \in spawned

\* Once a node has gone no other node keeps a route to it: its exclusive
\* endpoints are free again (remove_dead_lsa, purge_stale_lsas).
DepartedAreForgotten ==
    \A m \in Nodes : m \in stopped ~>
        \A n \in Nodes, e \in Endpoints : m \notin Targets(routes[n][e])
==============================================================================
