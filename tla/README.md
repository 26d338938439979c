# A TLA+ model of Anybus

Anybus is a message bus for Rust programs: listeners register endpoints, senders
address them, and the buses of several processes form a network with a link-state
routing protocol. This directory holds TLA+ modules translated from its source, the
TLC configurations that check them on small instances, and proofs checked by TLAPS.
Source paths are relative to the repository.

## The system

| Part | State | Operations | Where it is hard |
|---|---|---|---|
| Route table (`src/routing/linkstate/db/route_table.rs`) | per endpoint a kind and routes to local channels or remote nodes | add, remove, change cost, local and remote; each returns the LSA work it entails | closed channels, late removals, mixed local and remote routes |
| Router task (`src/routing/router.rs`) | owns the link-state database, publishes the forwarding table in an `ArcSwap` | one broker message at a time, then `RouteChange`; a 50 ms tick | listeners and senders run in parallel with it and see the table of the last swap |
| Handle and receivers (`src/handle.rs`, `src/receivers/`) | an mpsc channel of 32 per listener | register and wait for the answer, send, set cost, drop, shut down | the channel carries answers and data; drops and peers talk to the router through spawned tasks that overtake each other |
| Link-state database (`src/routing/linkstate/db.rs`) | LSAs by key, links, next hops, route table | peers come and go, LSAs are flooded, refreshed, withdrawn and purged | loss, reordering, crashes, sequence numbers, realms |
| Shortest paths (`compute_spf` in `db.rs`) | cost, parent and next hop per node | a queue ordered by cost and node id | inconsistent LSAs, saturation at `u16::MAX`, an `unwrap`, ties |
| Forwarding table (`db/forward_table.rs`) | per endpoint one target, or local ones and neighbours | `send`, `forward` with a reverse-path check | asymmetric paths, ties, cycles, parallel links, tables that change under way |
| WebSocket peers (`src/peers/ws/`) | a task per session; a manager with lists of peers that are pending, waiting for their backoff or connected | dial, accept, handshake, heartbeat, close, reconnect; add and remove peers | timeouts against late messages, close notifications against new sessions, requests while a dial is under way |
| IPC peers (`src/peers/ipc/`) | a task per session; a manager with a list of peers, nodes being dialled, and one of two well-known directory names | query and serve a directory, dial, replace a session, probe, take over | both sides dialling, stale probe results, names left behind by a crash, everyone starting at once |
| RPC (`src/handle.rs`, `src/receivers/rpc_receiver.rs`, depots in `src/anybus.rs`) | an endpoint per helper, one request at a time per depot | request, reply, give up | late replies, requests a depot cannot read, depots that ask each other, shutdown under way |
| Lifecycle (`src/anybus/`), `localrpc` | debounce times | suspend and resume, call with timeout | clock steps |

Listeners, senders and peer tasks reach the router through one bounded channel
(32 messages): registrations and `set_cost` in the caller's own task, everything
else through `Handle::send_broker`, which spawns a task per message. The router
answers through the listener's channel. Peers hand packets straight to the
published forwarding table and LSAs to the router.

What makes it correct: registrations are exclusive where they should be and
reachable from the moment they return; every node's tables converge to the truth
when the network is quiet; LSAs keep to their realm; a packet reaches whom it
should, once; nothing waits for ever. `PROJECT.json` lists the hazards one by one.

## Modules

| Module | Models | Used by |
|---|---|---|
| `RouteTable` | `route_table.rs` as operators on an entry | `LocalBus`, `LinkState` |
| `LocalBus` | one process: router, listeners, senders, shutdown (built without `remote`) | |
| `ShortestPaths` | what `compute_spf` promises, by paths | `Spf`, `Forwarding`, `LinkState` |
| `Spf` | the loop of `compute_spf` | |
| `Forwarding` | one packet over a network with converged tables | |
| `LinkState` | the databases of several nodes, peers, LSAs, timers, crashes | |
| `WsPeer` | both ends of a WebSocket session with their heartbeats | |
| `WsManager` | the WebSocket manager, its listener, and sessions by when they begin and end | |
| `IpcSession` | all IPC sessions between two nodes and what their managers know of them | |
| `IpcDirectory` | how the nodes of a machine find each other | |
| `RequestReply` | abstract: what a request promises its caller | `Rpc` |
| `Rpc` | helpers, requests, depots and replies on one bus; implements `RequestReply` | |
| `*_proofs` | theorems and proofs about the module of that name; about `WsManager` in `WsPeer_proofs`, about `IpcDirectory` in `IpcSession_proofs` | |
| `Routing_proofs` | lemmas on the operators of `RouteTable` and `ShortestPaths` | the proofs of `LocalBus`, `LinkState`, `Spf`, `Forwarding` |
| `MC_*` | networks, requests and views for TLC; one `.cfg` per run | |

**RouteTable.** The routes of an entry are a set: a channel belongs to one
registration and an origin's route is updated in place, so only the insertion order
is lost, which decides among routes of equal cost. Where that matters (`BuildFib` of
`LocalBus`, `rank` in `Forwarding`) the choice is left open.

**LocalBus.** `pc` is the life of a listener (idle, waiting for the answer,
listening, setting a cost, told of the shutdown, dropping, done). `queue` is the
broker channel, `spawned` the messages in tasks of `send_broker`, `snd` what a sender
still has to try of the table entry it loaded. A router handler and the
`RouteChange` after it are separate steps, as is the answer after the swap, because
senders run in between. `HandleShutdown` drops the queue and the reply channels in
it; the published table stays.

**Spf.** One step per queue pop and per adjacency. The view (Router LSAs in the
database, own links) is any of a set; adjacencies are taken in any order. The loop
is checked against `Dist`, `TreeParent` and `FirstHop` of `ShortestPaths`, which
enumerate paths.

**Forwarding.** The network, whether it loses packets, the endpoint, its listeners and
the order of routes in every node's table are chosen at the start, the tables are built, then one packet is
sent. `flight` counts copies per connection and direction. `BroadcastOverAgreedPaths` is
claimed where shortest paths are unique, or where all connections cost the same and two
lead from any node to any other (`TwoHops`); `ClosestServed` where shortest paths are
unique and some listener's total is not saturated (`HasChoice`): without these the code
does not keep them (see the observed behaviours).

**LinkState.** Every handler is one step with its `RouteChange`: the router is one
task and nobody else reads what it changes here. `wire` holds LSAs from the send to
their handling, in no order. `scn` is the scenario: the connections, the listeners and
what may happen to them, chosen at the start. `ends` is the peer task at each end of a connection,
`spawned` the messages of peers and drops. A connection is set up once; a
reconnection is another connection between the same nodes. `Narrowed` is what
`Link::send_lsa` does to a Router LSA: every connection cuts the realms of adjacencies down
to its own and leaves out the adjacencies that share none with it. Copies of one LSA
therefore differ in these realms on either side of an IPC and a WebSocket connection;
`RouterLsasAgree` says that they differ in nothing else, because every connection has realm
Global and so no adjacency is left out. Left out:
acknowledgements and `pending_tx`, which nothing reads, and the cost of
the route to a node, which nothing uses. Time is a guard: an LSA may be purged once
nothing can have refreshed it (`Silent`). `Converged` is claimed for networks without
rings (`NoRings`; parallel connections are allowed) and listeners that the route tables of
all nodes accept and tell of (`Compatible`): for one endpoint of one kind and realm, unicast
ones on one node, broadcast ones of one node at one cost.

**WsPeer.** `phase`, `effects` and `followUp` are the state machine and the loop of
`run_ws_peer`; each effect is a step of its own and may fail. `silence` and `poked`
are the times since `last_rx` and `last_ping`, so that time needs no bound. A unit of
time passes only when no timer has run out and no message has been under way for
`MaxDelay`. A connection may be cut, so that nothing gets through and nobody is told,
or reset. Writes never block.

**WsManager.** `pending`, `disconnected` and `current` are the three lists of the
manager, `commands` its channel. A connection is followed through one of the `slots`,
from the dial or accept to the end of its session; `WsPeer` has what happens inside.
Waiting times count down to `when_ready`, and time passes only while the manager has
nothing to do. Calls of `localrpc` are `AddWsPeer` and `RemoveWsPeer`: they take effect
whether or not the caller still waits. `EqualInstants` says whether two `Instant`s may
be equal (see the observed behaviours). `wanted` is a history variable. `Retained` is
`Vec::retain` as the set of the lists that keep what is to be kept, in its order: there is
one, and no recursion is needed to say so.

**IpcSession.** Two nodes and several connections between them. The stages of a session
are its states until it is established, `wire` what its socket holds, `control` and
`commands` the channels from and to the manager. A connection that has ended everywhere
may be used again for a new one. A timeout may come whenever what it waits for has not;
`late` remembers that a manager took longer than `HANDSHAKE_TIMEOUT` to answer. The routers
of both nodes are not part of it: sessions tell them by spawned tasks, which `LinkState` has.

**IpcDirectory.** `dir` is the directory part of each manager: names held, misses,
failed binds, wake-up and probe task. `name` is what the operating system knows: for
abstract names the holder, for paths whoever bound last (dropping a listener removes the
path, a crash leaves it). A connection is a `link` from the node that dialled it, of which
each end hears by itself. A node leaves out those it knows or is dialling itself
(`Strangers`), so two nodes may dial each other at once; each then lists one of the two
connections after the other and stops the one before, and one of them survives or none
(`Settle`; `IpcSession` has the steps). Time is a sequence of rounds of `DIRECTORY_HEALTH_INTERVAL` (15 s): a
round ends when nothing is under way, because queries and handshakes time out after 2 s.

**Rpc and RequestReply.** `helper` is the life of a caller's `RequestHelper`, `rx` its
channel, `gen` tells successive helpers, and so their endpoints, apart. A depot's
`on_request` may make one request itself before the reply (`Uses`). `Misfits` are requests
of a type the depot does not read; like a message without `reply_to` (`Plain`) they are taken
from the channel and get no reply. The mapping to `RequestReply`: a caller waits if its helper
does, open requests are those in a depot's channel or being served. `CallsEnd` is claimed for
requests that can be read and depots whose requests form no circle (`NoCircle`).

## Runs

Passing runs:

| Run | Shows | Bounds |
|---|---|---|
| `bus_all` | `ExclusiveRegistration`, `ReachableOnceRegistered`, `AnycastPrefersCheapest`, types | three listeners of every kind, one endpoint, capacities 2, one sender, a cost change, shutdown |
| `bus_live` | `RegistrationAnswered` | two listeners of every kind, fair tasks, shutdown |
| `spf_all` | `CostsAreShortest`, `TreeIsDeterministic`, `HopBeforeExpansion`, `Terminates` | all symmetric graphs on 4 nodes, all directed ones on 3, costs up to saturation, parallel links |
| `fwd_all` | `NoDuplicates`, `OneReceiver`, `NeighboursAreDirect`, `BroadcastOverAgreedPaths`, `ClosestServed`, types | rings of 4 with a chord, of costs 1 and 3 or missing links, and parallel links, with losses and without |
| `ls_all` | `RealmConfinement`, `RouterLsasAgree`, `RoutesBacked`, `Converged`, types | the scenarios below |
| `ws_session` | `LivePeerIsHeard`, `SilenceIsNoticed`, `EndsTogether`, types | interval 2, timeout 5, delay 1, two inputs from outside (messages, commands, stray frames, cut, reset) |
| `ws_manager` | `NoPeerForgotten`, `EarliestFirst`, `WaitingIsDialled`, types | two configurations, one of them given at the start, one node that dials in, exponent capped at 1, three further incidents |
| `ipc_session` | `EntriesAreServed`, `OpenIsListed`, `PendingEnds`, `QuietAgreement`, types | three connections at a time, two dials because of a directory, two timeouts or shutdowns |
| `ipc_directory` | `EventuallyMeshed`, `DirectoryReturns`, types | three nodes, two at a time, both kinds of names, two misses or failed binds before a takeover, two faults |
| `ipc_mesh` | `EventuallyMeshed` | three nodes at once, abstract names, no faults |
| `rpc` | `ImplementsRequestReply`, `CallsEnd`, types | a client that keeps its helper, one that uses a helper per call and may give up, two depots of which one asks the other and the other also gets messages that are no requests, two calls each, of which one cannot be read, channels of 2 |

The scenarios of `ls_all`: a line of an IPC and a WebSocket connection coming up while
a userspace listener registers and drops (`Dropping`) or an anycast listener changes
its cost (`Converge`); two connections between two nodes of which one breaks
(`Reconnect`); listeners on both nodes, cost changes, drops, losses and a break
(`Break`); losses, refreshes, purges, shutdown and crash (`Stopping`); refreshes and
cost changes while a connection comes up (`Refresh`). `RoutesBacked`
is claimed where no purge runs, `Converged` where nothing is lost, nothing
registered goes away, there is no ring and listeners are compatible; outside of these the
code does not keep them (see below).

Two nodes are enough for the races between an advertisement and its withdrawal and
between registering and unregistering a peer; three for an LSA passed on and for
realms; rings of four for ties between paths of two hops. Capacities of one or two
make full channels happen. A timeout that is no multiple of the interval makes the
deadline matter. Three connections let a session be replaced while its predecessor is
still closing; two directory names and a third node let a newcomer, the holder and the
one that takes over meet.

One run shows a disagreement between the code and its own comment (`findings` in
`PROJECT.json`): `ws_lost`. A session that ends by its own heartbeat does not tell the
manager, which keeps the entry and never dials the configured peer again.

**Observed behaviours.** Met while the properties were being found, and the reason for
some of their conditions. Where a property is named it is defined in the module and can be
checked by adding it to the configuration; TLC then shows the behaviour.

- a message sent between the swap of the table and the answer reaches a new channel
  first, and the registration fails (`RegistrationNotPreempted`, `src/handle.rs:332`);
- a DeadLink handled while the receiver's channel is still open removes nothing: the
  endpoint stays taken (`ReleasedAfterDrop`, `packet_receiver.rs:87`, with `FairSpec`);
- a listener with a full channel is not told of the shutdown
  (`ShutdownReachesListeners`, `route_table.rs:37`, with `FairSpec`);
- on rings of unequal costs the reverse-path check drops the only copy of a broadcast
  (`BroadcastReachesAll`, `forward_table.rs:117`), and so it may on a ring of six equal
  ones: with the source at 5, the listener at 6 and connections 5-1, 5-2, 6-3, 6-4, 1-4 and
  2-3 the two ends break the tie between the two ways differently, the copy goes one way and
  the check expects it from the other;
- anycast totals saturate at `u16::MAX`, where the closer of two listeners looks no closer:
  on a line of three with such a price at both ends the first node sends the packet to the
  far end and the next sends it back, where the reverse-path check drops it
  (`forward_table.rs:206`);
- in a ring of five nodes (1-2, 2-3, 3-4, 4-5 of cost 1 and 1-5 of cost 10) whose connection
  1-2 comes up last, nodes 3 and 5 may each leave node 1's new Router LSA to the other when
  it should go to node 4, because `flood_all_neighbors` leaves out the neighbour on the way
  back to the origin by next hops of different age (`db.rs:645`): node 4 lacks the LSA until
  the next refresh, hence `NoRings` in `Converged`;
- a node whose last anycast listener drops goes on advertising the endpoint while it
  knows a remote one (`AdvertisedIsServed`, `route_table.rs:194`, `ServedScenarios`);
- the route to a node that died outlives the purge of its LSA, because one peek removes
  a record and skips the rest (`DepartedAreForgotten`, `db.rs:191`,
  `DepartedScenarios`, with `FairSpec`);
- two IPC nodes that dial each other at once may each keep the connection that the other
  one closes (`DialledAreConnected`, `ipc_manager.rs:779`). A later probe dials again, but
  nothing keeps the next dials from colliding too: nodes 2 and 3 that learn of each other from
  the directory of node 1 at the same probe may lose both connections at every probe, as may
  two holders of a directory name that take it from each other. `EventuallyMeshed` is
  therefore claimed unless dials go on colliding for ever; without this condition it fails in
  `ipc_mesh` and in `ipc_directory`;
- an IPC session that waits longer than 2 s for the manager's `Accepted` gives up with
  `HandshakeFailed`, which leaves the entry that `SessionReady` has made
  (`ipc_peer.rs:168`, `ipc_manager.rs:793`): hence `late` in `IpcSession`;
- where directory names are paths, dropping a listener removes the path even if another
  node has it by now; with a single miss before a takeover, or probes slower than a
  round, nodes can go on taking the name from each other, and `DirectoryReturns` claims
  only that the directory comes back time and again;
- a wake-up that was to retry the backup name is turned into a probe by the next
  `schedule_directory_health` (`ipc_manager.rs:237`), so that a backup name left behind
  may stay unused;
- a `RequestHelper` that is used again after a request was given up returns the late reply
  to that one (`src/handle.rs:531`; `Rpc` with a client that is neither in `Patient` nor
  in `Once` violates `ImplementsRequestReply`), and likewise one that is used on after
  `Err(Shutdown)`, as such a client does;
- a request that the depot cannot deserialize is dropped without a reply
  (`rpc_receiver.rs:81`, `src/anybus.rs:254`): its caller waits until the bus shuts down;
- `rpc_helper` waits for ever once the router is gone: it holds a sender of its own
  channel (`src/handle.rs:405`); depots whose requests form a cycle wait for each other
  without a timeout (`src/anybus.rs:253`); the loop of a depot or bus stop goes on after
  the shutdown (`src/services.rs:48`);
- an entry of `disconnected_peers` whose instant equals that of another one is dropped
  (`ws_manager.rs:290`; `NoPeerForgotten` fails with `EqualInstants`); `PeerClosed` names
  a node and not a connection, so that with two connections to a node the wrong entry
  may go (`ws_manager.rs:280`); a peer that is being dialled is unknown to `AddPeer` and
  `RemovePeer`; one failed handshake ends the listener that has no TLS
  (`listener.rs:132`);
- a registration of any kind whose request is behind the `Shutdown` in the router's channel
  never returns: the request is dropped with the channel, and the caller waits on a channel of
  which it holds a sender itself, in the `_via` of the route it registers
  (`src/handle.rs:325`); `RegistrationAnswered` is about all others;
- among equally close anycast listeners nodes may choose differently, and a packet that
  is turned round on the way fails the reverse-path check (`forward_table.rs:206`);
- a withdrawal handled before the advertisement it withdraws is forgotten
  (`db.rs:204`);
- a node that drops a unicast listener of cost 0, registers an anycast one on the same
  endpoint and sets its cost may be heard of the new cost before the withdrawal: the
  record is replaced, the route table refuses the other kind, and the old route stays
  (`db.rs:301`; `RoutesBacked` fails for a scenario with such listeners, hence
  `KindsAgree` in its theorem);
- the sequence number of an endpoint's LSA starts again at 0 when the endpoint is
  registered again (`db.rs:705`);
- two nodes that register a unicast endpoint before they hear of each other both keep
  it (`db.rs:301`), and a listener whose kind another node refuses for that endpoint has no
  route there; a second broadcast listener of a node at another cost is taken without
  another LSA: hence `Compatible`;
- `UnRegisterPeer` may overtake `RegisterPeer` (`src/handle.rs:461`): the link of an
  ended connection is then added and stays;
- a write that fails while a WebSocket session is closing clears the `Unregister`
  (`ws_peer.rs:147`), and a session that closes itself, on a heartbeat timeout too, does
  not tell its manager (`ws_peer.rs:223`), which then does not connect again.

**Fairness.** `LocalBus`: the router, a delivery or drop that has begun, a waiting
registration and a receive loop are tasks the runtime schedules (weak fairness);
spawned sends wait in the first-come first-served queue of the channel's semaphore
(strong fairness). `Spf`: the loop runs to its end within one call. `LinkState`:
routers, timers and the start of peers and their noticing that the other end is
gone. `WsPeer`: the loop of each session, and time. `WsManager`: the manager, its
tasks, whose dials end by a timeout, and time. `IpcDirectory`: some manager does something, or the
next round begins, as long as that is possible, which is enough because what is due in a
round is finite, and colliding dials are settled. `Rpc`: the router, depots and calls under
way; clients need not go on. What users and networks choose (register, drop, send, break, crash) is not fair.

## Proofs

All for every value of the constants that satisfies the named assumptions: `Nodes` a
finite set of numbers, `MaxCost` positive, well-typed requests, views, networks (prices and
ranks included) and scenarios, capacities and bounds that are numbers. `WsPeer_proofs`
extends `WsPeer` and `WsManager`, and `IpcSession_proofs` extends `IpcSession` and
`IpcDirectory`, which is why `WsManager` and `IpcDirectory` have specifications with names of
their own (`ManagerSpec`, `DirectorySpec`). `ManagerTypes` says of `Backoff` that it yields
numbers, because the provers know nothing of `^`.

- `LocalBus_proofs`: `TypeCorrect`, `RegistrationsAreExclusive`,
  `RegisteredAreReachable`, `AnycastGoesToCheapest`. The inductive invariant `IInv` says
  besides the types that routes belong to listeners that asked for that endpoint and kind
  (`TableConsistent`), that whoever is to be notified is in the table, and after the
  swap in the published one (`NotifyConsistent`), and that a listener that is
  registered *or has the answer in its channel* is in both tables and compatible with
  the others (`HoldersInTable`, `HoldersInFib`, `HoldersCompatible`). The answer under
  way is what the properties lack to be inductive. For the cheapest listener `CheapInv`
  adds that a listener not yet in the table has the cost it asked with and asks once
  (`FreshInv`), that routes carry the costs told (`CostsRecorded`) and that the router,
  back in its loop, has published a cheapest route (`FibCurrent`).
- `Spf_proofs`: `TypeCorrect`, `UnwrapIsSafe`, `CostsAreDistances`, `TreeIsUnique`:
  `compute_spf` is right for every graph and every order of adjacencies, saturation and
  ties included. Three layers. Every node with an entry in the queue, or being expanded,
  is the root or has a next hop. Costs never fall below the distance, and every node is
  queued at its present cost, is being expanded, or improves nobody (`CostInv`); once
  the queue is empty the triangle inequality along any path gives the other direction.
  The queue is sorted, up to date and worse than what is being expanded (`QueueInv`), so
  that nodes settle in the order of cost and id; hence the parent of a node is the first
  of the settled nodes that lead to it at its cost, and its next hop comes from there
  (`TreeInv`). The next hop is then the first hop of `FirstHop` by induction on the
  number of nodes that are closer to the root.
- `Routing_proofs` has no theorem of its own. Besides what the operations of the route
  table return it shows that `Dist` is the least cost of a path or `MaxCost`
  (`DistIs`), the triangle inequality (`Triangle`), that a reachable node has an
  entrance and the tree a parent for it (`ReachableIsEntered`, `TreeParentIs`), and that
  a first hop is a child of the root (`FirstHopIs`). In a network whose connections are the
  same from both ends distances are a metric below `MaxCost` (`DistIsGreatest`,
  `TriangleOver`), and the first hop of a shortest path is one hop nearer to its end
  (`FirstHopOnTheWay`). Induction is for the elements of a
  set (`LeastNumber`, `UpTo`), from the well-foundedness of `<`, which needs no operator
  as parameter; `Recursion` makes of it functions over an interval.
- `Forwarding_proofs`: `TypeCorrect`, `PacketsAreNotDuplicated`, `AnycastHasOneReceiver`,
  `NeighboursAreReachedDirectly`, `BroadcastsArrive`, `ClosestIsServed`. Copies under way plus handlings at a node never exceed
  the handlings of the neighbour its reverse path leads to (`NoMoreThanUpstream`), so
  nobody handles a packet twice (`AtMostOnce`); for one listener there is never more than
  one copy (`OneCopy`). A next hop stands for a first hop of the tree, whose own first
  hop it is (`HopInv`). Delivery needs one more invariant: a copy that its
  receiver would let in is under way or was let in (`Delivery`). Of the nodes on a shortest
  path to a listener that handled the packet, once all is quiet, take the last: had it a
  next node, that one's way back would lead over it and it would have let the copy in. For
  this the ways there and back must agree, which unique shortest paths give; of paths of two
  equal connections both ends take the one over the same middle node. For an anycast packet
  the nodes on the way must also agree on the choice (`Bound`): a listener of the least total
  for the source is one for every node on the shortest path to it.
- `LinkState_proofs`: `TypeCorrect`, `RealmsAreKept`, `RouterLsasAreOne`,
  `RoutesAreBacked`. An LSA in a database *or on the wire* comes from where its realm
  leads from and tells of what its origin registers, and a database has one record per
  key (`LsaInv`); a running node has its own Router LSA, and nobody has a newer one or
  another of that number (`OwnInv`). What a copy tells of adjacencies is compared without
  their realms, of which each connection leaves at least Global. `RoutesAreBacked` assumes `KindsAgree`, that the
  listeners of a node for one endpoint are of one kind, and is false without it (see the
  observed behaviours); it also keeps the kind of record and route equal (`Backed`).
- `LinkState_proofs`, second half: `NetworksConverge` (`Converged`), for every network
  without rings and every order in which peers come up, listeners register and change their
  cost, LSAs are refreshed and arrive. The invariant (`Calm`) is about the two sides that each
  connection has where there is no ring. Next hops lead only to their own side (`HopsLead`),
  so that what `flood_all_neighbors` leaves out is on the way to the origin. Over a link in
  use and away from its origin an LSA has been handed on: the peer has it, or a newer one, or
  it is under way there (`Away`). Towards its origin the next node has it (`Towards`), up to
  the origin, which has the newest (`NewestAtHome`). What is on the wire its sender has, too
  (`WireUp`), and an LSA is only where connections that let it pass and are open at both
  ends lead (`Ways`). When nothing is under way and all connections are in use, the nodes
  that have an LSA are therefore all that it may reach (`QuietHasAll`).
  `TablesTell` ties tables to databases: remote routes are those of others' LSAs, local
  routes are the listeners, and the node's own LSA names the least of their costs, which
  needs `Compatible`.
- `WsPeer_proofs`, sessions: `TypeCorrect`, `SilenceNeverOverslept`, `LivePeersAreHeard`. Time
  passes only up to `next_deadline`, which is never later than the end of the timeout,
  and every other step leaves the clock of an open session alone or sets it back
  (`ClockInv`). An open session has at most one effect to
  apply, a closing one those of the close (`EffectsFew`). Between live ends
  something is always on its way: a ping was sent within the interval and it, or its
  pong, is young enough to arrive before the timeout (`HeardInv`), which is where
  `RoundTripFits` comes in.
- `WsPeer_proofs`, manager: `ManagerTypeCorrect`, `DueComesFirst`, `PeersAreKept`
  (`NoPeerForgotten`). The invariant `KeeperInv` has, besides the types, that
  `disconnected_peers` is sorted, which inserting, removing, resuming and the passing of time
  keep, and that every wanted peer is in a list, in a command under way or in a connection
  that has not ended. It assumes that no two instants are equal (`~EqualInstants`) where
  nothing is to be forgotten, and is false without it (see the observed behaviours).
- `IpcSession_proofs`: `TypeCorrect`, `EntriesStandForSessions`, `SessionsAreListed`,
  `PendingIsServed`, `QuietNodesAgree`. `Core` relates stages, lists and both channels
  of a manager: what a command or a control message in a channel says of its session
  (`CommandInv`, `ControlInv`), that a session reports once (`ReadyOnce`) and that
  entries and `pending` have someone who will end them. `Streams` says what the end of a
  session leaves on the wire (`EofInv`), without which the two nodes could not agree.
- `IpcSession_proofs`, directories: `DirectoryTypeCorrect`, for any number of nodes, faults
  and misses. The types are inductive with the clause that a manager has a wake-up if and
  only if it listens, which every way back into Listen re-establishes: this is what keeps a
  manager from waiting without a timer.
- `Rpc_proofs`: `TypeCorrect`, `Refinement` (`ImplementsRequestReply`). A request is in
  one place at most (`Unique`), of a call its caller has made (`Numbered`, `Current`),
  and a reply in a caller's channel is to the call it waits in (`Answers`); what is served
  or replied to could be read (`Readable`). Every step then is a step of `RequestReply` or a
  stutter. It assumes that callers that keep a helper see each request through and stop after
  a shutdown (`HelpersAreSeenThrough`), without which it is false (see above).

Only model-checked: liveness (`RegistrationAnswered`, `Terminates`, `EndsTogether`,
`WaitingIsDialled`, `EventuallyMeshed`, `DirectoryReturns`, `CallsEnd`), which is out of the
prover's reach. Every invariant of the passing runs, and the refinement of `RequestReply`,
is proved.

## Not modelled

`Stream` polling, socket buffers that fill up, the debounce of suspend and resume;
configuration, the typed builder, macros, serialisation and transports (construction
code or pure I/O).

## Plan

1. Done: route table, local bus, shortest paths, forwarding, link state, WebSocket
   sessions and manager, IPC sessions and directory, RPC with its abstract
   specification; the theorems above.
2. Left: forwarding while tables change, lifecycle events.
