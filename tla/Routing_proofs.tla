---------------------------- MODULE Routing_proofs ----------------------------
(***************************************************************************)
(* Lemmas that several components share: what the operations of the route  *)
(* table return, for every entry, and what the path-based definitions of   *)
(* distance, tree and first hop mean, for every graph.                     *)
(***************************************************************************)
EXTENDS RouteTable, ShortestPaths, Integers, FiniteSetTheorems, WellFoundedInduction, TLAPS

-----------------------------------------------------------------------------
(* The route table.                                                        *)

\* A registration leaves a well-typed entry.
LEMMA AddEndpointType ==
    ASSUME NEW entry \in LsRouteEntry, NEW info \in EndpointInfo,
           NEW c \in Channels
    PROVE  AddEndpoint(entry, info, c).entry \in LsRouteEntry
<1>1. OrInsert(entry, info.kind) \in LsRouteEntry
  BY DEF OrInsert, LsRouteEntry, EndpointInfo
<1>2. Route(c, info) \in LsRoute
  BY DEF Route, LsRoute, EndpointInfo
<1>3. PushRoute(OrInsert(entry, info.kind), Route(c, info)) \in LsRouteEntry
  BY <1>1, <1>2 DEF PushRoute, LsRouteEntry
<1> QED
  BY <1>1, <1>3 DEF AddEndpoint

\* A registration is refused and leaves the entry alone, or its route joins the
\* routes of an entry of the same kind; a unicast route joins only an empty
\* entry (RouteTable::add_endpoint).
LEMMA AddEndpointResult ==
    ASSUME NEW entry \in LsRouteEntry, NEW info \in EndpointInfo,
           NEW c \in Channels,
           entry.kind = "None" => entry.routes = {}
    PROVE  LET add == AddEndpoint(entry, info, c)
           IN  /\ add.ok \in BOOLEAN
               /\ add.entry \in LsRouteEntry
               /\ ~add.ok => add.entry = entry
               /\ add.ok =>
                    /\ add.entry.kind = info.kind
                    /\ add.entry.routes = entry.routes \cup {Route(c, info)}
                    /\ \/ entry.routes = {}
                       \/ entry.kind = info.kind /\ info.kind # "Unicast"
<1> DEFINE entry1 == OrInsert(entry, info.kind)
           add == AddEndpoint(entry, info, c)
<1>1. /\ entry1 \in LsRouteEntry
      /\ entry1.routes = entry.routes
      /\ entry1.kind = info.kind \/ entry1 = entry
  BY DEF OrInsert, LsRouteEntry, EndpointInfo
<1>2. Route(c, info) \in LsRoute
  BY DEF Route, LsRoute, EndpointInfo
<1>3. CASE AddRefused(entry1, info)
  <2>1. add.ok = FALSE /\ add.entry = entry1
    BY <1>3 DEF AddEndpoint
  <2>2. entry1 = entry
    BY <1>3 DEF AddRefused, OrInsert
  <2> QED
    BY <1>1, <2>1, <2>2
<1>4. CASE ~AddRefused(entry1, info)
  <2>1. add.ok = TRUE /\ add.entry = PushRoute(entry1, Route(c, info))
    BY <1>4 DEF AddEndpoint
  <2>2. /\ add.entry \in LsRouteEntry
        /\ add.entry.kind = entry1.kind
        /\ add.entry.routes = entry1.routes \cup {Route(c, info)}
    BY <1>1, <1>2, <2>1 DEF PushRoute, LsRouteEntry
  <2>3. entry1.kind = info.kind
    BY <1>4 DEF AddRefused
  <2>4. entry.routes = {} \/ (entry.kind = info.kind /\ info.kind # "Unicast")
    BY <1>1, <1>4, <2>3 DEF AddRefused, OrInsert
  <2> QED
    BY <1>1, <2>1, <2>2, <2>3, <2>4
<1> QED
  BY <1>3, <1>4

\* A change of cost keeps an entry's kind and its targets
\* (RouteTable::set_anycast_cost).
LEMMA SetAnycastCostResult ==
    ASSUME NEW entry \in LsRouteEntry, NEW c \in Channels, NEW k \in Nat
    PROVE  LET set == SetAnycastCost(entry, c, k)
           IN  /\ set.entry \in LsRouteEntry
               /\ set.entry.kind = entry.kind
               /\ Targets(set.entry) = Targets(entry)
<1> DEFINE mine == {r \in entry.routes : r.via = c}
           new  == {[r EXCEPT !.cost = k] : r \in mine}
           changed == [entry EXCEPT !.routes = (@ \ mine) \cup new]
           set == SetAnycastCost(entry, c, k)
<1>1. set.entry = changed \/ set.entry = entry
  BY DEF SetAnycastCost
<1>2. \A r \in entry.routes : r \in LsRoute
  BY DEF LsRouteEntry
<1>3. \A r \in mine : [r EXCEPT !.cost = k] \in LsRoute /\ [r EXCEPT !.cost = k].via = r.via
  BY <1>2 DEF LsRoute
<1>4. new \subseteq LsRoute
  BY <1>3
<1>5. changed \in LsRouteEntry /\ changed.kind = entry.kind
      /\ changed.routes = (entry.routes \ mine) \cup new
  BY <1>4 DEF LsRouteEntry
<1> HIDE DEF changed
<1>6. Targets(changed) = Targets(entry)
  <2>1. ASSUME NEW t, t \in Targets(changed) PROVE t \in Targets(entry)
    BY <1>3, <1>5, <2>1 DEF Targets
  <2>2. ASSUME NEW t, t \in Targets(entry) PROVE t \in Targets(changed)
    <3>1. PICK r \in entry.routes : t = r.via
      BY <2>2 DEF Targets
    <3>2. CASE r \in mine
      BY <1>3, <1>5, <3>1, <3>2 DEF Targets
    <3>3. CASE r \notin mine
      BY <1>5, <3>1, <3>3 DEF Targets
    <3> QED BY <3>2, <3>3
  <2> QED BY <2>1, <2>2
<1> QED
  BY <1>1, <1>5, <1>6

\* A DeadLink keeps exactly the routes whose channel is not closed
\* (RouteTable::remove_endpoint).
LEMMA RemoveEndpointResult ==
    ASSUME NEW entry \in LsRouteEntry, NEW closed
    PROVE  LET rem == RemoveEndpoint(entry, closed)
           IN  /\ rem.entry \in LsRouteEntry
               /\ rem.entry.routes = {r \in entry.routes : r.via \notin closed}
               /\ rem.entry.routes = {} \/ rem.entry.kind = entry.kind
               /\ rem.entry.kind = entry.kind \/ rem.entry.kind = "None"
<1> DEFINE kept == {r \in entry.routes : r.via \notin closed}
           rem == RemoveEndpoint(entry, closed)
<1>1. rem.entry = IF kept = {} THEN NoEntry ELSE [entry EXCEPT !.routes = kept]
  BY DEF RemoveEndpoint
<1>2. NoEntry \in LsRouteEntry /\ NoEntry.routes = {} /\ NoEntry.kind = "None"
  BY DEF NoEntry, LsRouteEntry
<1>3. /\ [entry EXCEPT !.routes = kept] \in LsRouteEntry
      /\ [entry EXCEPT !.routes = kept].routes = kept
      /\ [entry EXCEPT !.routes = kept].kind = entry.kind
  BY DEF LsRouteEntry
<1> QED
  BY <1>1, <1>2, <1>3

\* The LSA of another node is refused and leaves the routes alone, which is never
\* so for a node that has a route in an entry of this kind; or its route replaces
\* the one there was, or joins the others (RouteTable::add_remote_endpoint).
LEMMA AddRemoteEndpointResult ==
    ASSUME NEW entry \in LsRouteEntry, NEW info \in EndpointInfo,
           NEW origin \in Remotes,
           entry.kind = "None" => entry.routes = {}
    PROVE  LET add == AddRemoteEndpoint(entry, origin, info)
           IN  /\ add.entry \in LsRouteEntry
               /\ add.entry.kind # "None"
               /\ add.entry.kind = entry.kind \/ entry.kind = "None"
               /\ \/ /\ add.entry.routes = entry.routes
                     /\ entry.kind = info.kind => \A r \in entry.routes : r.via # origin
                  \/ /\ add.entry.kind = info.kind
                     /\ add.entry.routes = {r \in entry.routes : r.via # origin}
                                              \cup {Route(origin, info)}
<1> DEFINE entry1 == OrInsert(entry, info.kind)
           old == {r \in entry.routes : r.via = origin}
           add == AddRemoteEndpoint(entry, origin, info)
<1>1. /\ entry1 \in LsRouteEntry
      /\ entry1.routes = entry.routes
      /\ entry1.kind # "None"
      /\ \/ entry1.kind = entry.kind
         \/ entry.kind = "None" /\ entry1.kind = info.kind
  BY DEF OrInsert, LsRouteEntry, EndpointInfo, Kinds
<1>2. Route(origin, info) \in LsRoute
  BY DEF Route, LsRoute, EndpointInfo
<1>3. old = {r \in entry1.routes : r.via = origin}
  BY <1>1
<1>4. CASE \/ entry1.kind # info.kind
           \/ old = {} /\ AddRefused(entry1, info)
  <2>1. add.entry = entry1
    BY <1>3, <1>4 DEF AddRemoteEndpoint
  <2> QED
    BY <1>1, <1>4, <2>1
<1>5. CASE ~ \/ entry1.kind # info.kind
             \/ old = {} /\ AddRefused(entry1, info)
  <2> DEFINE new == (entry1.routes \ old) \cup {Route(origin, info)}
  <2>1. add.entry = [entry1 EXCEPT !.routes = new]
    BY <1>3, <1>5 DEF AddRemoteEndpoint
  <2>2. new \subseteq LsRoute
    BY <1>1, <1>2 DEF LsRouteEntry
  <2>3. [entry1 EXCEPT !.routes = new] \in LsRouteEntry
    BY <1>1, <2>2 DEF LsRouteEntry
  <2>4. add.entry.routes = new /\ add.entry.kind = entry1.kind
    BY <1>1, <2>1 DEF LsRouteEntry
  <2>5. new = {r \in entry.routes : r.via # origin} \cup {Route(origin, info)}
    BY <1>1
  <2> QED
    BY <1>1, <1>5, <2>1, <2>3, <2>4, <2>5
<1> QED
  BY <1>4, <1>5

\* A withdrawal drops the routes to its origin and no others
\* (RouteTable::remove_remote_endpoint).
LEMMA RemoveRemoteEndpointResult ==
    ASSUME NEW entry \in LsRouteEntry, NEW origin
    PROVE  LET now == RemoveRemoteEndpoint(entry, origin)
           IN  /\ now \in LsRouteEntry
               /\ now.routes = {r \in entry.routes : r.via # origin}
               /\ now.routes = {} \/ now.kind = entry.kind
               /\ now.kind = "None" => now.routes = {} \/ entry.kind = "None"
<1> DEFINE kept == {r \in entry.routes : r.via # origin}
<1>1. NoEntry \in LsRouteEntry /\ NoEntry.routes = {} /\ NoEntry.kind = "None"
  BY DEF NoEntry, LsRouteEntry
<1>2. /\ [entry EXCEPT !.routes = kept] \in LsRouteEntry
      /\ [entry EXCEPT !.routes = kept].routes = kept
      /\ [entry EXCEPT !.routes = kept].kind = entry.kind
  BY DEF LsRouteEntry
<1> QED
  BY <1>1, <1>2 DEF RemoveRemoteEndpoint

\* An effect has at most one cost.
EffectOK(effect) ==
    effect.cost \subseteq Nat /\ \A a, b \in effect.cost : a = b

\* The cheapest local cost is one number, or none.
LEMMA MinLocalCostOne ==
    ASSUME NEW routes \in SUBSET LsRoute
    PROVE  /\ MinLocalCost(routes) \subseteq Nat
           /\ \A a, b \in MinLocalCost(routes) : a = b
  BY DEF MinLocalCost, Cheapest, Locals, LsRoute

\* The cost an operation wants advertised is one (add_endpoint,
\* set_anycast_cost, remove_endpoint).
LEMMA AddEffectOK ==
    ASSUME NEW entry \in LsRouteEntry, NEW info \in EndpointInfo, NEW c
    PROVE  EffectOK(AddEndpoint(entry, info, c).effect)
<1>1. EffectOK(Noop) /\ EffectOK(AddLsa)
  BY DEF EffectOK, Noop, AddLsa
<1>2. EffectOK(UpdateLsa({info.cost}))
  BY DEF EffectOK, UpdateLsa, EndpointInfo
<1>3. ASSUME NEW f PROVE EffectOK(AddEffect(f, info))
  BY <1>1, <1>2 DEF AddEffect, EndpointInfo, Kinds
<1> QED
  BY <1>1, <1>3 DEF AddEndpoint

\* The same for set_anycast_cost ...
LEMMA SetEffectOK ==
    ASSUME NEW entry \in LsRouteEntry, NEW c, NEW k \in Nat
    PROVE  EffectOK(SetAnycastCost(entry, c, k).effect)
<1> DEFINE mine == {r \in entry.routes : r.via = c}
           new == {[r EXCEPT !.cost = k] : r \in mine}
           changed == [entry EXCEPT !.routes = (@ \ mine) \cup new]
<1>1. entry.routes \subseteq LsRoute
  BY DEF LsRouteEntry
<1>2. new \subseteq LsRoute
  BY <1>1 DEF LsRoute
<1>3. changed.routes \in SUBSET LsRoute
  BY <1>1, <1>2 DEF LsRouteEntry
<1>4. EffectOK(UpdateLsa(MinLocalCost(changed.routes)))
  BY <1>3, MinLocalCostOne DEF EffectOK, UpdateLsa
<1>5. EffectOK(Noop)
  BY DEF EffectOK, Noop
<1> QED
  BY <1>4, <1>5 DEF SetAnycastCost

\* ... and for the removal of closed channels.
LEMMA RemoveEffectOK ==
    ASSUME NEW entry \in LsRouteEntry, NEW closed
    PROVE  EffectOK(RemoveEndpoint(entry, closed).effect)
<1> DEFINE kept == {r \in entry.routes : r.via \notin closed}
<1>1. kept \in SUBSET LsRoute
  BY DEF LsRouteEntry
<1>2. EffectOK(UpdateLsa(MinLocalCost(kept)))
  BY <1>1, MinLocalCostOne DEF EffectOK, UpdateLsa
<1>3. EffectOK(Noop) /\ EffectOK(RemoveLsa) /\ EffectOK(RebuildFib)
  BY DEF EffectOK, Noop, RemoveLsa, RebuildFib
<1> QED
  BY <1>2, <1>3 DEF RemoveEndpoint

\* A change of cost leaves the other routes alone.
LEMMA SetAnycastCostOthers ==
    ASSUME NEW entry \in LsRouteEntry, NEW c, NEW k,
           NEW r \in SetAnycastCost(entry, c, k).entry.routes, r.via # c
    PROVE  r \in entry.routes
<1> DEFINE mine == {q \in entry.routes : q.via = c}
           new == {[q EXCEPT !.cost = k] : q \in mine}
           changed == [entry EXCEPT !.routes = (@ \ mine) \cup new]
<1>1. SetAnycastCost(entry, c, k).entry \in {changed, entry}
  BY DEF SetAnycastCost
<1>2. entry.routes \subseteq LsRoute
  BY DEF LsRouteEntry
<1>3. \A q \in new : q.via = c
  BY <1>2 DEF LsRoute
<1>4. changed.routes = (entry.routes \ mine) \cup new
  BY DEF LsRouteEntry
<1> HIDE DEF changed, new
<1> QED
  BY <1>1, <1>3, <1>4

\* After set_anycast_cost the route of the channel has that cost, unless the call
\* was refused; the entry is another only if it says so.
LEMMA SetAnycastCostCosts ==
    ASSUME NEW entry \in LsRouteEntry, NEW c, NEW k
    PROVE  LET set == SetAnycastCost(entry, c, k)
           IN  /\ set.result # "Changed" => set.entry = entry
               /\ set.result \in {"Changed", "Unchanged"} =>
                     \A r \in set.entry.routes : r.via = c => r.cost = k
<1> DEFINE mine == {q \in entry.routes : q.via = c}
           new == {[q EXCEPT !.cost = k] : q \in mine}
           changed == [entry EXCEPT !.routes = (@ \ mine) \cup new]
           set == SetAnycastCost(entry, c, k)
<1>1. set.result # "Changed" => set.entry = entry
  BY DEF SetAnycastCost
<1>2. set.result \in {"Changed", "Unchanged"} => set.entry = changed
  BY DEF SetAnycastCost
<1>3. changed.routes = (entry.routes \ mine) \cup new
  BY DEF LsRouteEntry
<1>4. ASSUME NEW r \in changed.routes, r.via = c PROVE r.cost = k
  <2>1. r \in new
    BY <1>3, <1>4
  <2>2. PICK q \in mine : r = [q EXCEPT !.cost = k]
    BY <2>1
  <2>3. q \in LsRoute
    BY DEF LsRouteEntry
  <2> QED BY <2>2, <2>3 DEF LsRoute
<1> HIDE DEF set, changed
<1>5. set.result \in {"Changed", "Unchanged"} => \A r \in set.entry.routes : r.via = c => r.cost = k
  BY <1>2, <1>4
<1> QED BY <1>1, <1>5 DEF set

-----------------------------------------------------------------------------
(* Least numbers, induction and recursion, by which the recursive functions *)
(* of ShortestPaths are shown to have the values they are meant to have.    *)

\* Every set of numbers has a least one.
LEMMA LeastNumber ==
    ASSUME NEW T \in SUBSET Nat, T # {}
    PROVE  \E x \in T : \A y \in T : x <= y
<1>1. PICK R : R = OpToRel(<, Nat)
  OBVIOUS
<1>2. IsWellFoundedOn(R, Nat)
  BY <1>1, NatLessThanWellFounded
<1>3. PICK x \in T : \A y \in T : ~(<<y, x>> \in R)
  BY <1>2, WFMin
<1>4. \A a, b \in Nat : a < b => <<a, b>> \in R
  BY <1>1 DEF OpToRel
<1>5. \A y \in T : ~(y < x)
  BY <1>3, <1>4
<1>6. \A y \in T : x <= y
  BY <1>5
<1> QED BY <1>6

\* Induction up to N, for what a set holds.
LEMMA UpTo ==
    ASSUME NEW N \in Nat, NEW S, 0 \in S, \A n \in 0..N : n \in S /\ n < N => n + 1 \in S
    PROVE  0..N \subseteq S
<1> SUFFICES ASSUME (0..N) \ S # {} PROVE FALSE
  OBVIOUS
<1>1. PICK x \in (0..N) \ S : \A y \in (0..N) \ S : x <= y
  <2>1. (0..N) \ S \in SUBSET Nat
    OBVIOUS
  <2> QED BY <2>1, LeastNumber
<1>2. x # 0 /\ x \in Nat /\ x - 1 \in 0..N /\ x - 1 < N
  BY <1>1
<1>3. x - 1 \in S
  BY <1>1, <1>2
<1>4. (x - 1) + 1 \in S
  BY <1>2, <1>3
<1> QED BY <1>1, <1>2, <1>4

\* The least number of a set is in it and below the others.
LEMMA LeastIs ==
    ASSUME NEW S \in SUBSET Nat, S # {}
    PROVE  Least(S) \in S /\ \A y \in S : Least(S) <= y
<1>1. \E x \in S : \A y \in S : x <= y
  BY LeastNumber
<1> QED BY <1>1 DEF Least

\* What a recursive function over 0..k computes, when a step is a function.
IsRecursion(g, k, V, v0, step) ==
    /\ g \in [0..k -> V]
    /\ g[0] = v0
    /\ \A i \in 1..k : g[i] = step[i][g[i - 1]]

\* There is such a function.
LEMMA Recursion ==
    ASSUME NEW k \in Nat, NEW V, NEW v0 \in V, NEW step \in [1..k -> [V -> V]]
    PROVE  \E g : IsRecursion(g, k, V, v0, step)
<1> DEFINE S == {n \in 0..k : \E g : IsRecursion(g, n, V, v0, step)}
<1>1. 0 \in S
  <2>1. PICK g : g = [i \in 0..0 |-> v0]
    OBVIOUS
  <2>2. IsRecursion(g, 0, V, v0, step)
    BY <2>1 DEF IsRecursion
  <2> QED BY <2>2
<1>2. ASSUME NEW n \in 0..k, n \in S, n < k PROVE n + 1 \in S
  <2>1. PICK g : IsRecursion(g, n, V, v0, step)
    BY <1>2
  <2>2. n \in Nat /\ n + 1 \in 1..k /\ n + 1 \in 0..k /\ g[n] \in V
    BY <1>2, <2>1 DEF IsRecursion
  <2>3. PICK v \in V : v = step[n + 1][g[n]]
    BY <2>2
  <2>4. PICK h : h = [i \in 0..n + 1 |-> IF i = n + 1 THEN v ELSE g[i]]
    OBVIOUS
  <2>5. \A i \in 0..n + 1 : i = n + 1 \/ i \in 0..n
    BY <2>2
  <2>6. h \in [0..n + 1 -> V]
    BY <2>1, <2>4, <2>5 DEF IsRecursion
  <2>7. h[n + 1] = v /\ \A i \in 0..n : h[i] = g[i]
    BY <2>2, <2>4
  <2>8. h[0] = v0
    BY <2>1, <2>2, <2>7 DEF IsRecursion
  <2>9. ASSUME NEW i \in 1..n + 1 PROVE h[i] = step[i][h[i - 1]]
    <3>1. CASE i = n + 1
      <4>1. i - 1 = n /\ n \in 0..n
        BY <2>2, <3>1
      <4> QED BY <2>3, <2>7, <3>1, <4>1
    <3>2. CASE i # n + 1
      <4>1. i \in 1..n /\ i \in 0..n /\ i - 1 \in 0..n
        BY <2>2, <3>2
      <4> QED BY <2>1, <2>7, <4>1 DEF IsRecursion
    <3> QED BY <3>1, <3>2
  <2>10. IsRecursion(h, n + 1, V, v0, step)
    BY <2>6, <2>8, <2>9 DEF IsRecursion
  <2> QED BY <2>2, <2>10
<1> HIDE DEF S
<1>3. 0..k \subseteq S
  BY <1>1, <1>2, UpTo
<1>4. k \in S
  BY <1>3
<1> QED BY <1>4 DEF S

\* Arcs lead to nodes at costs that are numbers.
GraphOK(graph) == graph \in [Nodes -> SUBSET [peer : Nodes, cost : Nat]]

\* Saturating addition stays in range, does not lower a cost and is monotone.
LEMMA SatAddIs ==
    ASSUME NEW a \in 0..MaxCost, NEW b \in Nat
    PROVE  /\ SatAdd(a, b) \in 0..MaxCost
           /\ a <= SatAdd(a, b)
           /\ \A c \in 0..MaxCost : c <= a => SatAdd(c, b) <= SatAdd(a, b)
  BY MaxCostPositive DEF SatAdd

\* Arcs have costs, and the least of them is the cost of an arc.
LEMMA ArcCostsAre ==
    ASSUME NEW graph, GraphOK(graph), NEW u \in Nodes, NEW n \in Nodes
    PROVE  /\ ArcCosts(graph, u, n) \in SUBSET Nat
           /\ ArcCosts(graph, u, n) # {} => Least(ArcCosts(graph, u, n)) \in ArcCosts(graph, u, n)
<1>1. graph[u] \in SUBSET [peer : Nodes, cost : Nat]
  BY DEF GraphOK
<1>2. ArcCosts(graph, u, n) \in SUBSET Nat
  BY <1>1 DEF ArcCosts
<1> QED BY <1>2, LeastIs

\* The costs of a path's prefixes.
Along(graph, k, p, C) ==
    /\ C \in [1..k -> 0..MaxCost]
    /\ C[1] = 0
    /\ \A i \in 2..k : C[i] = SatAdd(C[i - 1], Least(ArcCosts(graph, p[i - 1], p[i])))

\* Every path has them.
LEMMA AlongExists ==
    ASSUME NEW graph, GraphOK(graph), NEW k \in Nat \ {0}, NEW s, NEW t,
           NEW p \in Paths(graph, k, s, t)
    PROVE  \E C : Along(graph, k, p, C)
<1> DEFINE arc(i) == Least(ArcCosts(graph, p[i], p[i + 1]))
           V == 0..MaxCost
<1>0. k - 1 \in Nat /\ 0 \in V
  BY MaxCostPositive
<1>1. \A i \in 1..(k - 1) : arc(i) \in Nat
  <2> SUFFICES ASSUME NEW i \in 1..(k - 1) PROVE arc(i) \in Nat
    OBVIOUS
  <2>1. p[i] \in Nodes /\ p[i + 1] \in Nodes /\ ArcCosts(graph, p[i], p[i + 1]) # {}
    BY DEF Paths
  <2> QED BY <2>1, ArcCostsAre
<1> HIDE DEF arc
<1>2. PICK step : step = [i \in 1..(k - 1) |-> [v \in V |-> SatAdd(v, arc(i))]]
  OBVIOUS
<1>3. step \in [1..(k - 1) -> [V -> V]]
  BY <1>1, <1>2, SatAddIs
<1> HIDE DEF V
<1>4. PICK g : IsRecursion(g, k - 1, V, 0, step)
  BY <1>0, <1>3, Recursion
<1>5. PICK C : C = [i \in 1..k |-> g[i - 1]]
  OBVIOUS
<1>6. \A i \in 1..k : i - 1 \in 0..(k - 1)
  BY <1>0
<1>7. C \in [1..k -> V] /\ C[1] = 0
  <2>1. \A i \in 1..k : g[i - 1] \in V
    BY <1>4, <1>6 DEF IsRecursion
  <2>2. 1 \in 1..k /\ 1 - 1 = 0
    BY <1>0
  <2> QED BY <1>4, <1>5, <2>1, <2>2 DEF IsRecursion
<1>8. ASSUME NEW i \in 2..k
      PROVE  C[i] = SatAdd(C[i - 1], Least(ArcCosts(graph, p[i - 1], p[i])))
  <2>1. i \in 1..k /\ i - 1 \in 1..k /\ i - 1 \in 1..(k - 1) /\ (i - 1) + 1 = i
    BY <1>0
  <2>2. C[i] = g[i - 1] /\ C[i - 1] = g[(i - 1) - 1]
    BY <1>5, <2>1
  <2>3. g[i - 1] = step[i - 1][g[(i - 1) - 1]] /\ g[(i - 1) - 1] \in V
    BY <1>4, <1>6, <2>1 DEF IsRecursion
  <2>4. step[i - 1][g[(i - 1) - 1]] = SatAdd(g[(i - 1) - 1], arc(i - 1))
    BY <1>2, <2>1, <2>3
  <2> QED BY <2>1, <2>2, <2>3, <2>4 DEF arc
<1> QED BY <1>7, <1>8 DEF Along, V

\* They are determined by the path.
LEMMA AlongIsOne ==
    ASSUME NEW graph, NEW k \in Nat \ {0}, NEW j \in 1..k, NEW p, NEW q, NEW C, NEW D,
           \A i \in 1..j : q[i] = p[i],
           Along(graph, k, p, C), Along(graph, j, q, D)
    PROVE  \A i \in 1..j : C[i] = D[i]
<1> DEFINE S == {i \in Nat : i + 1 \in 1..j => C[i + 1] = D[i + 1]}
<1>1. 0 \in S
  BY DEF Along
<1>2. ASSUME NEW n \in 0..j, n \in S, n < j PROVE n + 1 \in S
  <2> SUFFICES ASSUME (n + 1) + 1 \in 1..j PROVE C[(n + 1) + 1] = D[(n + 1) + 1]
    OBVIOUS
  <2>1. PICK i : i = n + 2
    OBVIOUS
  <2>2. i \in 2..j /\ i \in 2..k /\ i - 1 = n + 1 /\ i = (n + 1) + 1 /\ i \in 1..j /\ i - 1 \in 1..j
    BY <2>1
  <2>3. C[i - 1] = D[i - 1]
    BY <1>2, <2>2
  <2>4. C[i] = SatAdd(C[i - 1], Least(ArcCosts(graph, p[i - 1], p[i])))
    BY <2>2 DEF Along
  <2>5. D[i] = SatAdd(D[i - 1], Least(ArcCosts(graph, q[i - 1], q[i])))
    BY <2>2 DEF Along
  <2>6. q[i] = p[i] /\ q[i - 1] = p[i - 1]
    BY <2>2
  <2> QED BY <2>2, <2>3, <2>4, <2>5, <2>6
<1> HIDE DEF S
<1>3. 0..j \subseteq S
  BY <1>1, <1>2, UpTo
<1> SUFFICES ASSUME NEW i \in 1..j PROVE C[i] = D[i]
  OBVIOUS
<1>4. i - 1 \in S /\ (i - 1) + 1 = i
  BY <1>3
<1> QED BY <1>4 DEF S

\* A path costs no less than its prefixes.
LEMMA AlongGrows ==
    ASSUME NEW graph, GraphOK(graph), NEW k \in Nat \ {0}, NEW s, NEW t,
           NEW p \in Paths(graph, k, s, t), NEW C, Along(graph, k, p, C), NEW i \in 1..k
    PROVE  C[i] <= C[k]
<1> DEFINE S == {d \in Nat : i + d \in 1..k => C[i] <= C[i + d]}
<1>1. 0 \in S
  <2>1. C[i] \in 0..MaxCost
    BY DEF Along
  <2> QED BY <2>1
<1>2. ASSUME NEW n \in 0..(k - i), n \in S, n < k - i PROVE n + 1 \in S
  <2>1. PICK m : m = i + (n + 1)
    OBVIOUS
  <2>2. m \in 2..k /\ m - 1 = i + n /\ m - 1 \in 1..(k - 1) /\ i + n \in 1..k /\ m \in 1..k /\ (m - 1) + 1 = m
    <3>1. n \in Nat /\ i \in Nat /\ 1 <= i /\ i <= k /\ n < k - i
      BY <1>2
    <3> HIDE DEF S
    <3> QED BY <2>1, <3>1
  <2>3. C[i] <= C[m - 1] /\ C[m - 1] \in 0..MaxCost /\ C[i] \in 0..MaxCost /\ C[m] \in 0..MaxCost
    BY <1>2, <2>2 DEF Along
  <2>4. p[m - 1] \in Nodes /\ p[m] \in Nodes /\ ArcCosts(graph, p[m - 1], p[m]) # {}
    BY <2>2 DEF Paths
  <2>5. Least(ArcCosts(graph, p[m - 1], p[m])) \in Nat
    BY <2>4, ArcCostsAre
  <2>6. C[m] = SatAdd(C[m - 1], Least(ArcCosts(graph, p[m - 1], p[m])))
    BY <2>2 DEF Along
  <2>7. C[m - 1] <= C[m]
    BY <2>3, <2>5, <2>6, SatAddIs
  <2>8. C[i] <= C[m]
    BY <2>3, <2>7
  <2> QED BY <2>1, <2>8
<1> HIDE DEF S
<1>3. k - i \in Nat
  OBVIOUS
<1>4. 0..(k - i) \subseteq S
  BY <1>1, <1>2, <1>3, UpTo
<1>5. k - i \in S /\ i + (k - i) = k
  BY <1>3, <1>4
<1> QED BY <1>5 DEF S

\* PathCost is the last of them.
LEMMA PathCostIs ==
    ASSUME NEW graph, GraphOK(graph), NEW k \in Nat \ {0}, NEW s, NEW t,
           NEW p \in Paths(graph, k, s, t)
    PROVE  \E C : Along(graph, k, p, C) /\ PathCost(graph, k, p) = C[k]
<1> DEFINE Rec(C) == C = [i \in 1..k |->
             IF i = 1 THEN 0
             ELSE SatAdd(C[i - 1], Least(ArcCosts(graph, p[i - 1], p[i])))]
<1>1. PICK B : Along(graph, k, p, B)
  BY AlongExists
<1>2. Rec(B)
  <2>1. \A i \in 1..k : i = 1 \/ i \in 2..k
    OBVIOUS
  <2>2. B = [i \in 1..k |-> B[i]]
    BY <1>1 DEF Along
  <2>3. ASSUME NEW i \in 1..k
        PROVE  B[i] = IF i = 1 THEN 0
                      ELSE SatAdd(B[i - 1], Least(ArcCosts(graph, p[i - 1], p[i])))
    BY <1>1, <2>1 DEF Along
  <2> QED BY <2>2, <2>3
<1>3. PICK C : C = CHOOSE D : Rec(D)
  OBVIOUS
<1>4. Rec(C)
  BY <1>2, <1>3
<1>5. PathCost(graph, k, p) = C[k]
  BY <1>3 DEF PathCost
<1>6. C[1] = 0 /\ \A i \in 2..k : C[i] = SatAdd(C[i - 1], Least(ArcCosts(graph, p[i - 1], p[i])))
  <2>1. 1 \in 1..k /\ \A i \in 2..k : i \in 1..k /\ i # 1
    OBVIOUS
  <2> QED BY <1>4, <2>1
<1>7. DOMAIN C = 1..k /\ C = [i \in 1..k |-> C[i]]
  BY <1>4
<1> HIDE DEF Rec
<1> DEFINE S == {i \in Nat : i + 1 \in 1..k => C[i + 1] \in 0..MaxCost}
<1>8. 0 \in S
  BY <1>6, MaxCostPositive
<1>9. ASSUME NEW n \in 0..k, n \in S, n < k PROVE n + 1 \in S
  <2> SUFFICES ASSUME (n + 1) + 1 \in 1..k PROVE C[(n + 1) + 1] \in 0..MaxCost
    OBVIOUS
  <2>1. PICK i : i = n + 2
    OBVIOUS
  <2>2. /\ i \in 2..k /\ i - 1 = n + 1 /\ i = (n + 1) + 1
        /\ i - 1 \in 1..k /\ i - 1 \in 1..(k - 1) /\ (i - 1) + 1 = i
    BY <2>1
  <2>3. C[i - 1] \in 0..MaxCost
    BY <1>9, <2>2
  <2>4. p[i - 1] \in Nodes /\ p[i] \in Nodes /\ ArcCosts(graph, p[i - 1], p[i]) # {}
    BY <2>2 DEF Paths
  <2>5. Least(ArcCosts(graph, p[i - 1], p[i])) \in Nat
    BY <2>4, ArcCostsAre
  <2>6. C[i] \in 0..MaxCost
    BY <1>6, <2>2, <2>3, <2>5, SatAddIs
  <2> QED BY <2>2, <2>6
<1> HIDE DEF S
<1>10. 0..k \subseteq S
  BY <1>8, <1>9, UpTo
<1>11. \A i \in 1..k : C[i] \in 0..MaxCost
  <2> SUFFICES ASSUME NEW i \in 1..k PROVE C[i] \in 0..MaxCost
    OBVIOUS
  <2>1. i - 1 \in S /\ (i - 1) + 1 = i
    BY <1>10
  <2> QED BY <2>1 DEF S
<1>12. Along(graph, k, p, C)
  BY <1>6, <1>7, <1>11 DEF Along
<1> QED BY <1>5, <1>12

\* A path's prefix is a path, and costs no more.
LEMMA PrefixIsPath ==
    ASSUME NEW graph, GraphOK(graph), NEW k \in Nat \ {0}, NEW s, NEW t,
           NEW p \in Paths(graph, k, s, t), NEW C, Along(graph, k, p, C), NEW j \in 1..k
    PROVE  \E q \in Paths(graph, j, s, p[j]) : PathCost(graph, j, q) = C[j]
<1>1. PICK q : q = [i \in 1..j |-> p[i]]
  OBVIOUS
<1>2. \A i \in 1..j : q[i] = p[i] /\ i \in 1..k
  BY <1>1
<1>3. q \in Paths(graph, j, s, p[j])
  <2>1. q \in [1..j -> Nodes]
    BY <1>1, <1>2 DEF Paths
  <2>2. q[1] = s /\ q[j] = p[j]
    BY <1>2 DEF Paths
  <2>3. \A a, b \in 1..j : q[a] = q[b] => a = b
    BY <1>2 DEF Paths
  <2>4. \A i \in 1..(j - 1) : i \in 1..(k - 1) /\ i \in 1..j /\ i + 1 \in 1..j
    OBVIOUS
  <2>5. \A i \in 1..(j - 1) : ArcCosts(graph, q[i], q[i + 1]) # {}
    BY <1>2, <2>4 DEF Paths
  <2> QED BY <2>1, <2>2, <2>3, <2>5 DEF Paths
<1>4. j \in Nat \ {0}
  OBVIOUS
<1>5. PICK D : Along(graph, j, q, D) /\ PathCost(graph, j, q) = D[j]
  BY <1>3, <1>4, PathCostIs
<1>6. C[j] = D[j]
  <2>1. \A i \in 1..j : C[i] = D[i]
    BY <1>2, <1>5, AlongIsOne
  <2> QED BY <1>4, <2>1
<1> QED BY <1>3, <1>5, <1>6

\* A path that does not visit n can be extended to it over an arc.
LEMMA ExtensionIsPath ==
    ASSUME NEW graph, GraphOK(graph), NEW k \in Nat \ {0}, NEW s, NEW u \in Nodes, NEW n \in Nodes,
           NEW p \in Paths(graph, k, s, u), \A i \in 1..k : p[i] # n,
           ArcCosts(graph, u, n) # {}
    PROVE  \E q \in Paths(graph, k + 1, s, n) :
              PathCost(graph, k + 1, q) =
                SatAdd(PathCost(graph, k, p), Least(ArcCosts(graph, u, n)))
<1>1. PICK q : q = [i \in 1..(k + 1) |-> IF i = k + 1 THEN n ELSE p[i]]
  OBVIOUS
<1>2. \A i \in 1..(k + 1) : i = k + 1 \/ i \in 1..k
  OBVIOUS
<1>3. (\A i \in 1..k : q[i] = p[i]) /\ q[k + 1] = n
  BY <1>1
<1>4. q \in Paths(graph, k + 1, s, n)
  <2>1. q \in [1..(k + 1) -> Nodes]
    BY <1>1, <1>2 DEF Paths
  <2>2. 1 \in 1..k /\ k \in 1..k /\ k + 1 - 1 = k
    OBVIOUS
  <2>3. q[1] = s /\ q[k + 1] = n
    BY <1>3, <2>2 DEF Paths
  <2>4. \A a, b \in 1..(k + 1) : q[a] = q[b] => a = b
    <3>1. \A a, b \in 1..k : p[a] = p[b] => a = b
      BY DEF Paths
    <3> SUFFICES ASSUME NEW a \in 1..(k + 1), NEW b \in 1..(k + 1), q[a] = q[b] PROVE a = b
      OBVIOUS
    <3>2. CASE a \in 1..k /\ b \in 1..k
      BY <1>3, <3>1, <3>2
    <3>3. CASE a = k + 1 \/ b = k + 1
      BY <1>2, <1>3, <3>3
    <3> QED BY <1>2, <3>2, <3>3
  <2>5. \A i \in 1..k : i = k \/ (i \in 1..(k - 1) /\ i + 1 \in 1..k)
    OBVIOUS
  <2>6. \A i \in 1..k : ArcCosts(graph, q[i], q[i + 1]) # {}
    BY <1>3, <2>5 DEF Paths
  <2> QED BY <2>1, <2>2, <2>3, <2>4, <2>6 DEF Paths
<1>5. k + 1 \in Nat \ {0} /\ k \in 1..(k + 1)
  OBVIOUS
<1>6. PICK C : Along(graph, k + 1, q, C) /\ PathCost(graph, k + 1, q) = C[k + 1]
  BY <1>4, <1>5, PathCostIs
<1>7. PICK D : Along(graph, k, p, D) /\ PathCost(graph, k, p) = D[k]
  BY PathCostIs
<1>8. C[k] = D[k]
  <2>1. \A i \in 1..k : p[i] = q[i]
    BY <1>3
  <2>2. PICK N : N = k + 1
    OBVIOUS
  <2>3. N \in Nat \ {0} /\ k \in 1..N /\ Along(graph, N, q, C) /\ Along(graph, k, p, D)
    BY <1>5, <1>6, <1>7, <2>2
  <2>4. \A i \in 1..k : C[i] = D[i]
    BY <2>1, <2>3, AlongIsOne
  <2> QED BY <2>4
<1>9. C[k + 1] = SatAdd(C[k], Least(ArcCosts(graph, u, n)))
  <2>1. k + 1 \in 2..(k + 1) /\ (k + 1) - 1 = k /\ k \in 1..k
    OBVIOUS
  <2>2. q[k] = u
    BY <1>3, <2>1 DEF Paths
  <2> QED BY <1>3, <1>6, <2>1, <2>2 DEF Along
<1> QED BY <1>4, <1>6, <1>7, <1>8, <1>9

\* A path without repetition is no longer than there are nodes.
LEMMA PathsAreShort ==
    ASSUME NEW graph, NEW k \in Nat, NEW s, NEW t, NEW p \in Paths(graph, k, s, t)
    PROVE  k <= Cardinality(Nodes)
<1>1. p \in Injection(1..k, Nodes)
  BY DEF Paths, Injection, IsInjective
<1>2. IsFiniteSet(1..k) /\ Cardinality(1..k) = k
  BY FS_Interval
<1>3. Cardinality(1..k) <= Cardinality(Nodes)
  BY <1>1, NodesAreFinite, FS_Injection DEF ExistsInjection
<1> QED BY <1>2, <1>3

\* The costs of the paths from s to t.
PathCosts(graph, s, t) ==
    UNION {{PathCost(graph, k, p) : p \in Paths(graph, k, s, t)} : k \in 1..Cardinality(Nodes)}

\* d is a cost; no path is cheaper, and below MaxCost it is the cost of one.
IsDist(graph, d, s, t) ==
    /\ d \in 0..MaxCost
    /\ \A k \in Nat \ {0} : \A p \in Paths(graph, k, s, t) : d <= PathCost(graph, k, p)
    /\ d < MaxCost => \E k \in Nat \ {0} : \E p \in Paths(graph, k, s, t) : PathCost(graph, k, p) = d

\* That is what Dist computes.
LEMMA DistIs ==
    ASSUME NEW graph, GraphOK(graph)
    PROVE  /\ Dist(graph) \in [Nodes -> [Nodes -> 0..MaxCost]]
           /\ \A s, t \in Nodes : IsDist(graph, Dist(graph)[s][t], s, t)
<1>1. Cardinality(Nodes) \in Nat
  BY NodesAreFinite, FS_CardinalityType
<1>2. ASSUME NEW s \in Nodes, NEW t \in Nodes
      PROVE  IsDist(graph, Dist(graph)[s][t], s, t)
  <2> DEFINE S == {MaxCost} \cup PathCosts(graph, s, t)
  <2>1. Dist(graph)[s][t] = Least(S)
    BY DEF Dist, PathCosts
  <2>2. ASSUME NEW k \in Nat \ {0}, NEW p \in Paths(graph, k, s, t)
        PROVE  PathCost(graph, k, p) \in PathCosts(graph, s, t)
    <3>1. k <= Cardinality(Nodes)
      BY <2>2, PathsAreShort
    <3>2. k \in 1..Cardinality(Nodes)
      BY <1>1, <3>1
    <3> QED BY <3>2 DEF PathCosts
  <2>3. ASSUME NEW c \in PathCosts(graph, s, t)
        PROVE  \E k \in Nat \ {0} : \E p \in Paths(graph, k, s, t) : PathCost(graph, k, p) = c
    <3>1. PICK k \in 1..Cardinality(Nodes) : c \in {PathCost(graph, k, p) : p \in Paths(graph, k, s, t)}
      BY DEF PathCosts
    <3>2. k \in Nat \ {0}
      BY <1>1
    <3> QED BY <3>1, <3>2
  <2>4. \A c \in PathCosts(graph, s, t) : c \in 0..MaxCost
    <3> SUFFICES ASSUME NEW c \in PathCosts(graph, s, t) PROVE c \in 0..MaxCost
      OBVIOUS
    <3>1. PICK k \in Nat \ {0} : \E p \in Paths(graph, k, s, t) : PathCost(graph, k, p) = c
      BY <2>3
    <3>2. PICK p \in Paths(graph, k, s, t) : PathCost(graph, k, p) = c
      BY <3>1
    <3>3. PICK C : Along(graph, k, p, C) /\ PathCost(graph, k, p) = C[k]
      BY PathCostIs
    <3>4. k \in 1..k
      OBVIOUS
    <3> QED BY <3>2, <3>3, <3>4 DEF Along
  <2>5. S \in SUBSET Nat /\ S # {} /\ MaxCost \in S
    BY <2>4, MaxCostPositive
  <2>6. PICK d : d = Least(S)
    OBVIOUS
  <2>7. d \in S /\ \A y \in S : d <= y
    BY <2>5, <2>6, LeastIs
  <2>8. d \in 0..MaxCost
    BY <2>4, <2>7, MaxCostPositive
  <2>9. \A k \in Nat \ {0} : \A p \in Paths(graph, k, s, t) : d <= PathCost(graph, k, p)
    BY <2>2, <2>7
  <2>10. ASSUME d < MaxCost
         PROVE  \E k \in Nat \ {0} : \E p \in Paths(graph, k, s, t) : PathCost(graph, k, p) = d
    <3>1. d # MaxCost
      BY <2>8, <2>10, MaxCostPositive
    <3>2. d \in PathCosts(graph, s, t)
      BY <2>7, <3>1
    <3> QED BY <2>3, <3>2
  <2> QED BY <2>1, <2>6, <2>8, <2>9, <2>10 DEF IsDist
<1>3. \A s, t \in Nodes : Dist(graph)[s][t] \in 0..MaxCost
  BY <1>2 DEF IsDist
<1>4. Dist(graph) \in [Nodes -> [Nodes -> 0..MaxCost]]
  BY <1>3 DEF Dist
<1> QED BY <1>2, <1>4

\* No arc shortens a distance.
LEMMA Triangle ==
    ASSUME NEW graph, GraphOK(graph), NEW dist, dist = Dist(graph),
           NEW root \in Nodes, NEW u \in Nodes, NEW n \in Nodes,
           NEW c \in ArcCosts(graph, u, n)
    PROVE  dist[root][n] <= SatAdd(dist[root][u], c)
<1> DEFINE d(m) == dist[root][m]
<1>1. \A m \in Nodes : IsDist(graph, d(m), root, m)
  BY DistIs
<1> HIDE DEF d
<1>2. d(u) \in 0..MaxCost /\ d(n) \in 0..MaxCost /\ ArcCosts(graph, u, n) \in SUBSET Nat
  BY <1>1, ArcCostsAre DEF IsDist
<1>3. PICK w \in Nat : w = Least(ArcCosts(graph, u, n)) /\ w <= c
  BY <1>2, LeastIs
<1>4. c \in Nat /\ SatAdd(d(u), w) <= SatAdd(d(u), c)
  <2>1. c \in Nat
    BY <1>2
  <2> QED BY <1>2, <1>3, <2>1, MaxCostPositive DEF SatAdd
<1>5. d(u) <= SatAdd(d(u), c) /\ SatAdd(d(u), c) \in 0..MaxCost /\ SatAdd(d(u), w) \in 0..MaxCost
  BY <1>2, <1>3, <1>4, SatAddIs
<1>6. CASE d(u) = MaxCost
  BY <1>2, <1>5, <1>6, MaxCostPositive DEF d
<1>7. CASE d(u) # MaxCost
  <2>1. d(u) < MaxCost
    BY <1>2, <1>7, MaxCostPositive
  <2>2. PICK j \in Nat \ {0} : \E q \in Paths(graph, j, root, u) : PathCost(graph, j, q) = d(u)
    BY <1>1, <2>1 DEF IsDist
  <2>3. PICK q \in Paths(graph, j, root, u) : PathCost(graph, j, q) = d(u)
    BY <2>2
  <2>4. CASE \A i \in 1..j : q[i] # n
    <3>1. \E r \in Paths(graph, j + 1, root, n) :
            PathCost(graph, j + 1, r) = SatAdd(PathCost(graph, j, q), Least(ArcCosts(graph, u, n)))
      BY <2>3, <2>4, ExtensionIsPath
    <3>2. PICK r \in Paths(graph, j + 1, root, n) : PathCost(graph, j + 1, r) = SatAdd(d(u), w)
      BY <1>3, <2>3, <3>1
    <3>3. j + 1 \in Nat \ {0}
      OBVIOUS
    <3>4. d(n) <= SatAdd(d(u), w)
      BY <1>1, <3>2, <3>3 DEF IsDist
    <3>5. d(n) <= SatAdd(d(u), c)
      BY <1>2, <1>4, <1>5, <3>4
    <3> QED BY <3>5 DEF d
  <2>5. CASE \E i \in 1..j : q[i] = n
    <3>1. PICK i \in 1..j : q[i] = n
      BY <2>5
    <3>2. PICK D : Along(graph, j, q, D) /\ PathCost(graph, j, q) = D[j]
      BY <2>3, PathCostIs
    <3>3. D[i] \in 0..MaxCost
      BY <3>2 DEF Along
    <3>4. D[i] <= D[j]
      BY <2>3, <3>2, AlongGrows
    <3>5. PICK r \in Paths(graph, i, root, n) : PathCost(graph, i, r) = D[i]
      BY <2>3, <3>1, <3>2, PrefixIsPath
    <3>6. i \in Nat \ {0}
      OBVIOUS
    <3>7. d(n) <= D[i]
      BY <1>1, <3>5, <3>6 DEF IsDist
    <3>8. d(n) <= SatAdd(d(u), c)
      BY <1>2, <1>5, <2>3, <3>2, <3>3, <3>4, <3>7
    <3> QED BY <3>8 DEF d
  <2> QED BY <2>4, <2>5
<1> QED BY <1>6, <1>7

\* Whatever is 0 at root and satisfies the triangle inequality for every arc is
\* nowhere above the distance: by induction along a shortest path.
LEMMA DistIsGreatest ==
    ASSUME NEW graph, GraphOK(graph), NEW root \in Nodes, NEW f \in [Nodes -> 0..MaxCost],
           f[root] = 0,
           \A u, m \in Nodes : \A c \in ArcCosts(graph, u, m) : f[m] <= SatAdd(f[u], c)
    PROVE  \A n \in Nodes : f[n] <= Dist(graph)[root][n]
<1> SUFFICES ASSUME NEW n \in Nodes PROVE f[n] <= Dist(graph)[root][n]
  OBVIOUS
<1>3. PICK d : d = Dist(graph)[root][n]
  OBVIOUS
<1>4. IsDist(graph, d, root, n) /\ d \in 0..MaxCost /\ f[n] \in 0..MaxCost
  BY <1>3, DistIs DEF IsDist
<1>5. CASE d < MaxCost
  <2>1. PICK k \in Nat \ {0} : \E p \in Paths(graph, k, root, n) : PathCost(graph, k, p) = d
    BY <1>4, <1>5 DEF IsDist
  <2>2. PICK p \in Paths(graph, k, root, n) : PathCost(graph, k, p) = d
    BY <2>1
  <2>3. PICK C : Along(graph, k, p, C) /\ PathCost(graph, k, p) = C[k]
    BY <2>2, PathCostIs
  <2> DEFINE S == {i \in Nat : i + 1 \in 1..k => f[p[i + 1]] <= C[i + 1]}
  <2>4. 0 \in S
    <3>1. p[1] = root /\ C[1] = 0
      BY <2>2, <2>3 DEF Paths, Along
    <3> QED BY <3>1
  <2>5. ASSUME NEW j \in 0..k, j \in S, j < k PROVE j + 1 \in S
    <3> SUFFICES ASSUME (j + 1) + 1 \in 1..k PROVE f[p[(j + 1) + 1]] <= C[(j + 1) + 1]
      OBVIOUS
    <3>1. PICK i : i = (j + 1) + 1
      OBVIOUS
    <3>2. i \in 2..k /\ i \in 1..k /\ i - 1 = j + 1 /\ i - 1 \in 1..k /\ i - 1 \in 1..(k - 1) /\ (i - 1) + 1 = i
      BY <3>1
    <3>3. f[p[i - 1]] <= C[i - 1]
      BY <2>5, <3>2
    <3>4. p[i - 1] \in Nodes /\ p[i] \in Nodes /\ ArcCosts(graph, p[i - 1], p[i]) # {}
      BY <2>2, <3>2 DEF Paths
    <3>5. PICK w \in ArcCosts(graph, p[i - 1], p[i]) :
             w \in Nat /\ w = Least(ArcCosts(graph, p[i - 1], p[i]))
      BY <3>4, ArcCostsAre
    <3>6. C[i] = SatAdd(C[i - 1], w) /\ C[i - 1] \in 0..MaxCost /\ C[i] \in 0..MaxCost
      BY <2>3, <3>2, <3>5 DEF Along
    <3>7. f[p[i]] <= SatAdd(f[p[i - 1]], w)
      BY <3>4
    <3>8. f[p[i - 1]] \in 0..MaxCost /\ f[p[i]] \in 0..MaxCost
      BY <3>4
    <3>9. /\ SatAdd(f[p[i - 1]], w) <= SatAdd(C[i - 1], w)
          /\ SatAdd(f[p[i - 1]], w) \in 0..MaxCost
      BY <3>3, <3>5, <3>6, <3>8, SatAddIs
    <3>10. f[p[i]] <= C[i]
      BY <3>6, <3>7, <3>8, <3>9
    <3> QED BY <3>1, <3>10
  <2> HIDE DEF S
  <2>6. 0..k \subseteq S
    BY <2>4, <2>5, UpTo
  <2>7. k - 1 \in S /\ (k - 1) + 1 = k /\ k \in 1..k
    BY <2>6
  <2>8. f[p[k]] <= C[k] /\ p[k] = n
    BY <2>2, <2>7 DEF S, Paths
  <2> QED BY <1>3, <1>4, <2>2, <2>3, <2>8
<1>6. CASE ~(d < MaxCost)
  BY <1>3, <1>4, <1>6, MaxCostPositive
<1> QED BY <1>5, <1>6

\* A node is at no distance from itself.
LEMMA DistToSelf ==
    ASSUME NEW graph, GraphOK(graph), NEW s \in Nodes
    PROVE  Dist(graph)[s][s] = 0
<1>1. PICK p : p = [i \in 1..1 |-> s]
  OBVIOUS
<1>2. p \in Paths(graph, 1, s, s)
  BY <1>1 DEF Paths
<1>3. PICK C : Along(graph, 1, p, C) /\ PathCost(graph, 1, p) = C[1]
  BY <1>2, PathCostIs
<1>4. PathCost(graph, 1, p) = 0
  BY <1>3 DEF Along
<1>5. IsDist(graph, Dist(graph)[s][s], s, s)
  BY DistIs
<1>6. Dist(graph)[s][s] <= 0 /\ Dist(graph)[s][s] \in 0..MaxCost
  BY <1>2, <1>4, <1>5 DEF IsDist
<1> QED BY <1>6

\* The way over a third node is no shorter.
LEMMA TriangleOver ==
    ASSUME NEW graph, GraphOK(graph), NEW dist, dist = Dist(graph),
           NEW s \in Nodes, NEW m \in Nodes, NEW t \in Nodes
    PROVE  dist[s][t] <= SatAdd(dist[s][m], dist[m][t])
<1>1. \A u, v \in Nodes : dist[u][v] \in 0..MaxCost
  BY DistIs
<1>2. \A x \in 0..MaxCost : x \in Nat
  BY MaxCostPositive
<1> DEFINE less(x) == IF x <= dist[s][m] THEN 0 ELSE x - dist[s][m]
<1>3. PICK f : f = [n \in Nodes |-> less(dist[s][n])]
  OBVIOUS
<1>4. \A x, y, z \in 0..MaxCost : x <= y => (IF x <= z THEN 0 ELSE x - z) \in 0..MaxCost
  BY MaxCostPositive
<1>5. f \in [Nodes -> 0..MaxCost]
  BY <1>1, <1>3, <1>4
<1>6. f[m] = 0
  BY <1>1, <1>3, MaxCostPositive
<1>7. ASSUME NEW u \in Nodes, NEW v \in Nodes, NEW c \in ArcCosts(graph, u, v)
      PROVE  f[v] <= SatAdd(f[u], c)
  <2>1. dist[s][v] <= SatAdd(dist[s][u], c) /\ c \in Nat
    BY Triangle, ArcCostsAre
  <2>2. \A x, y, z \in 0..MaxCost : \A b \in Nat : x <= SatAdd(y, b) =>
           (IF x <= z THEN 0 ELSE x - z) <= SatAdd(IF y <= z THEN 0 ELSE y - z, b)
    BY MaxCostPositive DEF SatAdd
  <2>3. f[v] = less(dist[s][v]) /\ f[u] = less(dist[s][u])
    BY <1>3
  <2> QED BY <1>1, <2>1, <2>2, <2>3
<1>8. f[t] <= dist[m][t]
  BY <1>5, <1>6, <1>7, DistIsGreatest
<1>9. \A x, y, z \in 0..MaxCost : (IF x <= z THEN 0 ELSE x - z) <= y => x <= SatAdd(z, y)
  BY MaxCostPositive DEF SatAdd
<1>10. f[t] = less(dist[s][t])
  BY <1>3
<1> QED BY <1>1, <1>8, <1>9, <1>10

\* Arcs there and back.
Symmetric(graph) == \A u, n \in Nodes : ArcCosts(graph, u, n) = ArcCosts(graph, n, u)

\* Then the distances there and back are the same.
LEMMA DistIsSymmetric ==
    ASSUME NEW graph, GraphOK(graph), Symmetric(graph), NEW dist, dist = Dist(graph),
           NEW s \in Nodes, NEW t \in Nodes
    PROVE  dist[s][t] = dist[t][s]
<1>1. \A u, v \in Nodes : dist[u][v] \in 0..MaxCost
  BY DistIs
<1>2. ASSUME NEW a \in Nodes, NEW b \in Nodes PROVE dist[b][a] <= dist[a][b]
  <2>1. PICK f : f = [n \in Nodes |-> dist[n][a]]
    OBVIOUS
  <2>2. f \in [Nodes -> 0..MaxCost] /\ f[a] = 0
    BY <1>1, <2>1, DistToSelf
  <2>3. ASSUME NEW u \in Nodes, NEW m \in Nodes, NEW c \in ArcCosts(graph, u, m)
        PROVE  f[m] <= SatAdd(f[u], c)
    <3>1. c \in ArcCosts(graph, m, u) /\ c \in Nat
      BY ArcCostsAre DEF Symmetric
    <3>2. dist[m][u] <= SatAdd(dist[m][m], c) /\ dist[m][m] = 0
      BY <3>1, Triangle, DistToSelf
    <3>3. dist[m][a] <= SatAdd(dist[m][u], dist[u][a])
      BY TriangleOver
    <3>4. \A x, y, z \in 0..MaxCost : \A w \in Nat :
             x <= SatAdd(0, w) /\ y <= SatAdd(x, z) => y <= SatAdd(z, w)
      BY MaxCostPositive DEF SatAdd
    <3> QED BY <1>1, <2>1, <3>1, <3>2, <3>3, <3>4
  <2>4. f[b] <= dist[a][b]
    BY <2>2, <2>3, DistIsGreatest
  <2> QED BY <2>1, <2>4
<1>3. dist[s][t] <= dist[t][s] /\ dist[t][s] <= dist[s][t]
  BY <1>2
<1> QED BY <1>1, <1>3, MaxCostPositive

\* A reachable node is entered over the last arc of a shortest path.
LEMMA ReachableIsEntered ==
    ASSUME NEW graph, GraphOK(graph), NEW dist, dist = Dist(graph), NEW root \in Nodes, NEW n \in Nodes,
           Reachable(dist, root, n)
    PROVE  Entrances(graph, dist, root, n) # {}
<1> DEFINE d(m) == dist[root][m]
<1>1. \A m \in Nodes : IsDist(graph, d(m), root, m)
  BY DistIs
<1>2. n # root /\ d(n) < MaxCost
  BY DEF Reachable
<1> HIDE DEF d
<1>3. PICK k \in Nat \ {0} : \E p \in Paths(graph, k, root, n) : PathCost(graph, k, p) = d(n)
  BY <1>1, <1>2 DEF IsDist
<1>4. PICK p \in Paths(graph, k, root, n) : PathCost(graph, k, p) = d(n)
  BY <1>3
<1>5. PICK C : Along(graph, k, p, C) /\ PathCost(graph, k, p) = C[k]
  BY PathCostIs
<1>6. k # 1
  BY <1>2, <1>4 DEF Paths
<1>7. k - 1 \in 1..k /\ k - 1 \in Nat \ {0} /\ k - 1 \in 1..(k - 1) /\ (k - 1) + 1 = k /\ k \in 2..k /\ k \in 1..k
  BY <1>6
<1>8. PICK u \in Nodes : u = p[k - 1]
  BY <1>4, <1>7 DEF Paths
<1>9. p[k] = n /\ ArcCosts(graph, u, n) # {}
  BY <1>4, <1>7, <1>8 DEF Paths
<1>10. PICK w \in ArcCosts(graph, u, n) : w = Least(ArcCosts(graph, u, n)) /\ w \in Nat
  BY <1>9, ArcCostsAre
<1>11. d(n) = SatAdd(C[k - 1], w) /\ C[k - 1] \in 0..MaxCost
  BY <1>4, <1>5, <1>7, <1>8, <1>9, <1>10 DEF Along
<1>12. d(u) <= C[k - 1]
  <2>1. PICK q \in Paths(graph, k - 1, root, u) : PathCost(graph, k - 1, q) = C[k - 1]
    BY <1>4, <1>5, <1>7, <1>8, PrefixIsPath
  <2> QED BY <1>1, <1>7, <2>1 DEF IsDist
<1>13. d(u) \in 0..MaxCost /\ d(n) \in 0..MaxCost
  BY <1>1 DEF IsDist
<1>14. SatAdd(d(u), w) <= d(n) /\ d(u) <= SatAdd(d(u), w) /\ SatAdd(d(u), w) \in 0..MaxCost
  BY <1>10, <1>11, <1>12, <1>13, SatAddIs
<1>15. d(n) <= SatAdd(d(u), w)
  BY <1>10, Triangle DEF d
<1>16. SatAdd(d(u), w) = d(n)
  BY <1>13, <1>14, <1>15
<1> QED BY <1>10, <1>16 DEF Entrances, d

\* Of things of a cost each, and an order among them, one is better than the
\* others.
LEMMA BestExists ==
    ASSUME NEW E, E # {}, NEW K \in [E -> Nat], NEW R \in [E -> Nat],
           \A u, v \in E : R[u] = R[v] => u = v
    PROVE  \E x \in E : \A v \in E \ {x} : Better(K[x], R[x], K[v], R[v])
<1>2. PICK T : T = {K[u] : u \in E}
  OBVIOUS
<1>3. T \in SUBSET Nat /\ T # {}
  BY <1>2
<1>4. PICK c \in T : \A y \in T : c <= y
  BY <1>3, LeastNumber
<1>5. PICK F : F = {R[u] : u \in {v \in E : K[v] = c}}
  OBVIOUS
<1>6. F \in SUBSET Nat /\ F # {}
  BY <1>2, <1>4, <1>5
<1>7. PICK r \in F : \A y \in F : r <= y
  BY <1>6, LeastNumber
<1>8. PICK u \in E : K[u] = c /\ R[u] = r
  BY <1>5, <1>7
<1>9. \A v \in E : c <= K[v] /\ (K[v] = c => r <= R[v])
  BY <1>2, <1>4, <1>5, <1>7
<1>10. \A a, b, x, y \in Nat : y # x /\ a <= b /\ (b = a => x <= y) => Better(a, x, b, y)
  BY DEF Better
<1>11. \A v \in E \ {u} : Better(K[u], R[u], K[v], R[v])
  BY <1>8, <1>9, <1>10
<1> QED BY <1>11

\* One of the entrances is closest, by id among equals.
LEMMA TreeParentIs ==
    ASSUME NEW graph, NEW dist, NEW root \in Nodes, NEW n \in Nodes,
           dist \in [Nodes -> [Nodes -> 0..MaxCost]],
           Entrances(graph, dist, root, n) # {}
    PROVE  /\ TreeParent(graph, dist, root, n) \in Entrances(graph, dist, root, n)
           /\ \A v \in Entrances(graph, dist, root, n) \ {TreeParent(graph, dist, root, n)} :
                Better(dist[root][TreeParent(graph, dist, root, n)], TreeParent(graph, dist, root, n),
                       dist[root][v], v)
<1> DEFINE E == Entrances(graph, dist, root, n)
<1>1. E \subseteq Nodes /\ \A u \in E : dist[root][u] \in Nat /\ u \in Nat
  BY NodesAreOrdered, MaxCostPositive DEF Entrances
<1>2. TreeParent(graph, dist, root, n) =
         CHOOSE x \in E : \A v \in E \ {x} : Better(dist[root][x], x, dist[root][v], v)
  BY DEF TreeParent
<1>3. E # {}
  OBVIOUS
<1> HIDE DEF E
<1>4. PICK K : K = [u \in E |-> dist[root][u]]
  OBVIOUS
<1>5. PICK R : R = [u \in E |-> u]
  OBVIOUS
<1>6. K \in [E -> Nat] /\ R \in [E -> Nat] /\ \A u, v \in E : R[u] = R[v] => u = v
  BY <1>1, <1>4, <1>5
<1>7. PICK x \in E : \A v \in E \ {x} : Better(K[x], R[x], K[v], R[v])
  BY <1>3, <1>6, BestExists
<1>8. \A v \in E \ {x} : Better(dist[root][x], x, dist[root][v], v)
  BY <1>4, <1>5, <1>7
<1>9. PICK t : t = TreeParent(graph, dist, root, n)
  OBVIOUS
<1>10. t \in E /\ \A v \in E \ {t} : Better(dist[root][t], t, dist[root][v], v)
  BY <1>2, <1>8, <1>9
<1> QED BY <1>9, <1>10 DEF E

\* The children of root in the tree.
IsChild(graph, dist, root, n) ==
    n \in Nodes /\ Reachable(dist, root, n) /\ TreeParent(graph, dist, root, n) = root

\* H[k] goes up the tree by k steps at most, until it meets a child of root.
Climbs(graph, dist, root, H) ==
    \A k \in 0..Cardinality(Nodes) : H[k] = [n \in Nodes |->
        IF k = 0 \/ ~Reachable(dist, root, n) THEN root
        ELSE LET p == TreeParent(graph, dist, root, n)
             IN  IF p = root THEN n ELSE H[k - 1][p]]

\* That is how FirstHop is computed.
LEMMA FirstHopClimbs ==
    ASSUME NEW graph, GraphOK(graph), NEW dist, dist = Dist(graph), NEW root \in Nodes
    PROVE  /\ \A n \in Nodes : Reachable(dist, root, n) => TreeParent(graph, dist, root, n) \in Nodes
           /\ \E H : /\ Climbs(graph, dist, root, H)
                     /\ FirstHop(graph, dist, root) = H[Cardinality(Nodes)]
<1> DEFINE N == Cardinality(Nodes)
           parent(n) == TreeParent(graph, dist, root, n)
           far(n) == Reachable(dist, root, n)
           V == [Nodes -> Nodes]
           onward(h) == [n \in Nodes |-> IF ~far(n) THEN root
                                         ELSE IF parent(n) = root THEN n ELSE h[parent(n)]]
           Rec(H) == H = [k \in 0..N |-> [n \in Nodes |->
                             IF k = 0 \/ ~far(n) THEN root
                             ELSE LET p == parent(n) IN IF p = root THEN n ELSE H[k - 1][p]]]
<1>1. N \in Nat
  BY NodesAreFinite, FS_CardinalityType
<1>2. \A n \in Nodes : far(n) => parent(n) \in Nodes
  <2> SUFFICES ASSUME NEW n \in Nodes, far(n) PROVE parent(n) \in Nodes
    OBVIOUS
  <2>1. Entrances(graph, dist, root, n) # {}
    BY ReachableIsEntered
  <2>2. dist \in [Nodes -> [Nodes -> 0..MaxCost]]
    BY DistIs
  <2>3. parent(n) \in Entrances(graph, dist, root, n)
    BY <2>1, <2>2, TreeParentIs
  <2> QED BY <2>3 DEF Entrances
<1>3. FirstHop(graph, dist, root) = (CHOOSE H : Rec(H))[N]
  BY DEF FirstHop
<1> HIDE DEF N, parent, far
<1>4. \E H : Rec(H)
  <2>1. PICK step : step = [k \in 1..N |-> [h \in V |-> onward(h)]]
    OBVIOUS
  <2>2. \A h \in V : onward(h) \in V
    BY <1>2
  <2>3. step \in [1..N -> [V -> V]]
    BY <2>1, <2>2
  <2>4. PICK v0 \in V : v0 = [n \in Nodes |-> root]
    OBVIOUS
  <2> HIDE DEF V, onward
  <2>5. PICK g : IsRecursion(g, N, V, v0, step)
    BY <1>1, <2>3, <2>4, Recursion
  <2>6. \A k \in 0..N : k = 0 \/ (k \in 1..N /\ k - 1 \in 0..N)
    BY <1>1
  <2>7. ASSUME NEW k \in 0..N
        PROVE  g[k] = [n \in Nodes |->
                             IF k = 0 \/ ~far(n) THEN root
                             ELSE LET p == parent(n) IN IF p = root THEN n ELSE g[k - 1][p]]
    <3>1. CASE k = 0
      BY <2>4, <2>5, <3>1 DEF IsRecursion
    <3>2. CASE k # 0
      <4>1. k \in 1..N /\ k - 1 \in 0..N
        BY <2>6, <3>2
      <4>2. g[k] = step[k][g[k - 1]] /\ g[k - 1] \in V
        BY <2>5, <4>1 DEF IsRecursion
      <4>3. g[k] = onward(g[k - 1])
        BY <2>1, <4>1, <4>2
      <4> QED BY <3>2, <4>3 DEF onward
    <3> QED BY <3>1, <3>2
  <2>8. g = [k \in 0..N |-> g[k]]
    BY <2>5 DEF IsRecursion
  <2>9. Rec(g)
    BY <2>7, <2>8
  <2> QED BY <2>9
<1>5. PICK H : H = CHOOSE G : Rec(G)
  OBVIOUS
<1>6. Rec(H)
  BY <1>4, <1>5
<1>7. \A k \in 0..N : H[k] = [n \in Nodes |->
                             IF k = 0 \/ ~far(n) THEN root
                             ELSE LET p == parent(n) IN IF p = root THEN n ELSE H[k - 1][p]]
  BY <1>6
<1> HIDE DEF Rec
<1>8. Climbs(graph, dist, root, H)
  BY <1>7 DEF Climbs, N, far, parent
<1> QED BY <1>2, <1>3, <1>5, <1>8 DEF N, far, parent

\* A first hop is root, where there is none, or a child of root, whose first hop
\* is itself.
LEMMA FirstHopIs ==
    ASSUME NEW graph, GraphOK(graph), NEW dist, dist = Dist(graph), NEW root \in Nodes
    PROVE  /\ FirstHop(graph, dist, root) \in [Nodes -> Nodes]
           /\ \A m \in Nodes : \/ FirstHop(graph, dist, root)[m] = root
                               \/ IsChild(graph, dist, root, FirstHop(graph, dist, root)[m])
           /\ \A m \in Nodes : IsChild(graph, dist, root, m) => FirstHop(graph, dist, root)[m] = m
<1> DEFINE N == Cardinality(Nodes)
           parent(n) == TreeParent(graph, dist, root, n)
           far(n) == Reachable(dist, root, n)
<1>1. N \in Nat /\ N # 0
  BY NodesAreFinite, FS_CardinalityType, FS_EmptySet
<1>2. \A n \in Nodes : far(n) => parent(n) \in Nodes
  BY FirstHopClimbs
<1>3. PICK H : /\ Climbs(graph, dist, root, H)
               /\ FirstHop(graph, dist, root) = H[N]
  BY FirstHopClimbs
<1>7. \A k \in 0..N : H[k] = [n \in Nodes |->
                             IF k = 0 \/ ~far(n) THEN root
                             ELSE LET p == parent(n) IN IF p = root THEN n ELSE H[k - 1][p]]
  BY <1>3 DEF Climbs
<1> HIDE DEF N, parent, far
<1> DEFINE child(n) == n \in Nodes /\ far(n) /\ parent(n) = root
           S == {k \in Nat : k \in 0..N => \A n \in Nodes : H[k][n] = root \/ child(H[k][n])}
<1>8. 0 \in S
  BY <1>1, <1>7
<1>9. ASSUME NEW k \in 0..N, k \in S, k < N PROVE k + 1 \in S
  <2> SUFFICES ASSUME NEW n \in Nodes PROVE H[k + 1][n] = root \/ child(H[k + 1][n])
    BY <1>1
  <2>1. k + 1 \in 0..N /\ k + 1 # 0 /\ (k + 1) - 1 = k
    BY <1>1, <1>9
  <2>2. H[k + 1][n] = IF ~far(n) THEN root
                      ELSE IF parent(n) = root THEN n ELSE H[k][parent(n)]
    <3>1. PICK j \in 0..N : j = k + 1
      BY <2>1
    <3>2. j # 0 /\ j - 1 = k
      BY <2>1, <3>1
    <3>3. H[j] = [m \in Nodes |-> IF j = 0 \/ ~far(m) THEN root
                                  ELSE IF parent(m) = root THEN m ELSE H[j - 1][parent(m)]]
      BY <1>7
    <3>4. H[j][n] = IF ~far(n) THEN root
                    ELSE IF parent(n) = root THEN n ELSE H[j - 1][parent(n)]
      BY <3>2, <3>3
    <3> QED BY <3>1, <3>2, <3>4
  <2>3. CASE ~far(n)
    BY <2>2, <2>3
  <2>4. CASE far(n) /\ parent(n) = root
    BY <2>2, <2>4
  <2>5. CASE far(n) /\ parent(n) # root
    BY <1>2, <1>9, <2>2, <2>5
  <2> QED BY <2>3, <2>4, <2>5
<1> HIDE DEF S
<1>10. 0..N \subseteq S
  BY <1>1, <1>8, <1>9, UpTo
<1>11. N \in 0..N /\ N \in S
  BY <1>1, <1>10
<1>12. \A n \in Nodes : H[N][n] = root \/ child(H[N][n])
  BY <1>11 DEF S
<1>13. H[N] = [n \in Nodes |-> IF ~far(n) THEN root
                               ELSE IF parent(n) = root THEN n ELSE H[N - 1][parent(n)]]
  BY <1>1, <1>7, <1>11
<1>14. H[N] \in [Nodes -> Nodes]
  <2>1. H[N] = [n \in Nodes |-> H[N][n]]
    BY <1>13
  <2> QED BY <1>12, <2>1
<1>15. \A m \in Nodes : child(m) => H[N][m] = m
  BY <1>13
<1>16. \A m : child(m) <=> IsChild(graph, dist, root, m)
  BY DEF IsChild, far, parent
<1> QED BY <1>3, <1>12, <1>14, <1>15, <1>16 DEF N

\* No arc is free.
PositiveArcs(graph) == \A u, n \in Nodes : 0 \notin ArcCosts(graph, u, n)

\* A node's parent in the tree: the arc from it completes a shortest path.
ParentOf(graph, dist, root, n, p) ==
    /\ p \in Nodes
    /\ p = TreeParent(graph, dist, root, n)
    /\ \E c \in ArcCosts(graph, p, n) : c > 0 /\ dist[root][n] = dist[root][p] + c
    /\ p # root => Reachable(dist, root, p)

\* Every reachable node has one.
LEMMA ReachableHasParent ==
    ASSUME NEW graph, GraphOK(graph), PositiveArcs(graph), NEW dist, dist = Dist(graph),
           NEW root \in Nodes, NEW n \in Nodes, Reachable(dist, root, n)
    PROVE  \E p \in Nodes : ParentOf(graph, dist, root, n, p)
<1>1. dist \in [Nodes -> [Nodes -> 0..MaxCost]]
  BY DistIs
<1>2. PICK p : p = TreeParent(graph, dist, root, n)
  OBVIOUS
<1>3. p \in Entrances(graph, dist, root, n)
  BY <1>1, <1>2, ReachableIsEntered, TreeParentIs
<1>4. p \in Nodes
  BY <1>3 DEF Entrances
<1>5. PICK c \in ArcCosts(graph, p, n) : SatAdd(dist[root][p], c) = dist[root][n]
  BY <1>3 DEF Entrances
<1>6. c \in Nat /\ c # 0
  BY <1>4, ArcCostsAre DEF PositiveArcs
<1>7. \A x \in 0..MaxCost : \A y \in Nat \ {0} :
         SatAdd(x, y) < MaxCost => SatAdd(x, y) = x + y /\ x < MaxCost
  BY MaxCostPositive DEF SatAdd
<1>8. dist[root][n] = dist[root][p] + c /\ dist[root][p] < MaxCost
  BY <1>1, <1>4, <1>5, <1>6, <1>7 DEF Reachable
<1>9. c > 0
  BY <1>6
<1>10. ParentOf(graph, dist, root, n, p)
  BY <1>2, <1>4, <1>8, <1>9 DEF ParentOf, Reachable
<1> QED BY <1>4, <1>10

\* A child of root is a neighbour, at the distance of the arc to it.
LEMMA ChildIsNeighbour ==
    ASSUME NEW graph, GraphOK(graph), PositiveArcs(graph), NEW dist, dist = Dist(graph),
           NEW root \in Nodes, NEW h, IsChild(graph, dist, root, h)
    PROVE  /\ h \in Nodes /\ h # root
           /\ dist[root][h] \in ArcCosts(graph, root, h)
           /\ dist[root][h] > 0
<1>1. h \in Nodes /\ Reachable(dist, root, h) /\ TreeParent(graph, dist, root, h) = root
  BY DEF IsChild
<1>2. PICK p \in Nodes : ParentOf(graph, dist, root, h, p)
  BY <1>1, ReachableHasParent
<1>3. p = root
  BY <1>1, <1>2 DEF ParentOf
<1>4. PICK c \in ArcCosts(graph, root, h) : c > 0 /\ dist[root][h] = dist[root][root] + c
  BY <1>2, <1>3 DEF ParentOf
<1>5. dist[root][root] = 0 /\ c \in Nat
  BY <1>1, DistToSelf, ArcCostsAre
<1>6. dist[root][h] = c
  BY <1>4, <1>5
<1> QED BY <1>1, <1>4, <1>6 DEF Reachable

\* The nodes closer to root than n, of which there are fewer than nodes.
CloserTo(dist, root, n) == {v \in Nodes : dist[root][v] < dist[root][n]}

\* Fewer are closer than a closer node.
LEMMA CloserShrinks ==
    ASSUME NEW dist \in [Nodes -> [Nodes -> 0..MaxCost]], NEW root \in Nodes,
           NEW n \in Nodes, NEW p \in Nodes, dist[root][p] < dist[root][n]
    PROVE  /\ Cardinality(CloserTo(dist, root, n)) \in Nat
           /\ Cardinality(CloserTo(dist, root, n)) < Cardinality(Nodes)
           /\ Cardinality(CloserTo(dist, root, p)) \in Nat
           /\ Cardinality(CloserTo(dist, root, p)) < Cardinality(CloserTo(dist, root, n))
<1> DEFINE A == CloserTo(dist, root, n)
           B == CloserTo(dist, root, p)
<1>1. \A v \in Nodes : dist[root][v] \in Nat
  BY MaxCostPositive
<1>2. B \in SUBSET A /\ p \in A /\ p \notin B
  BY <1>1 DEF CloserTo
<1>3. A \in SUBSET Nodes /\ n \notin A
  BY <1>1 DEF CloserTo
<1> HIDE DEF A, B
<1>4. IsFiniteSet(A) /\ Cardinality(A) <= Cardinality(Nodes) /\ Cardinality(A) # Cardinality(Nodes)
  BY <1>3, NodesAreFinite, FS_Subset
<1>5. IsFiniteSet(B) /\ Cardinality(B) <= Cardinality(A) /\ Cardinality(B) # Cardinality(A)
  BY <1>2, <1>4, FS_Subset
<1>6. Cardinality(A) \in Nat /\ Cardinality(B) \in Nat /\ Cardinality(Nodes) \in Nat
  BY <1>4, <1>5, NodesAreFinite, FS_CardinalityType
<1>7. \A x, y \in Nat : x <= y /\ x # y => x < y
  OBVIOUS
<1>8. Cardinality(A) < Cardinality(Nodes) /\ Cardinality(B) < Cardinality(A)
  BY <1>4, <1>5, <1>6, <1>7
<1> QED BY <1>6, <1>8 DEF A, B

\* A first hop that lies on a shortest path to m: m itself or m's parent, where
\* they are children of root.
OnTheWay(graph, dist, root, m, h) ==
    /\ IsChild(graph, dist, root, h)
    /\ dist[root][m] = dist[root][h] + dist[h][m]
    /\ IsChild(graph, dist, root, m) => h = m
    /\ IsChild(graph, dist, root, TreeParent(graph, dist, root, m)) =>
         h = TreeParent(graph, dist, root, m)

\* A child of root is its own first hop.
LEMMA ChildOnTheWay ==
    ASSUME NEW graph, GraphOK(graph), NEW dist, dist = Dist(graph),
           NEW root \in Nodes, NEW m, IsChild(graph, dist, root, m)
    PROVE  OnTheWay(graph, dist, root, m, m)
<1>1. m \in Nodes /\ dist[m][m] = 0 /\ dist[root][m] \in 0..MaxCost
  BY DistToSelf, DistIs DEF IsChild
<1>2. dist[root][m] = dist[root][m] + dist[m][m]
  BY <1>1
<1>3. ~IsChild(graph, dist, root, root) /\ TreeParent(graph, dist, root, m) = root
  BY DEF IsChild, Reachable
<1> QED BY <1>2, <1>3 DEF OnTheWay

\* The first hop to a node's parent is on the way to the node.
LEMMA ParentOnTheWay ==
    ASSUME NEW graph, GraphOK(graph), PositiveArcs(graph), NEW dist, dist = Dist(graph),
           NEW root \in Nodes, NEW m \in Nodes, Reachable(dist, root, m),
           NEW p, ParentOf(graph, dist, root, m, p), p # root,
           NEW h, OnTheWay(graph, dist, root, p, h)
    PROVE  OnTheWay(graph, dist, root, m, h)
<1>1. \A u, v \in Nodes : dist[u][v] \in 0..MaxCost
  BY DistIs
<1>2. p \in Nodes /\ h \in Nodes /\ p = TreeParent(graph, dist, root, m)
  BY DEF ParentOf, OnTheWay, IsChild
<1>3. PICK c \in ArcCosts(graph, p, m) : c > 0 /\ dist[root][m] = dist[root][p] + c
  BY DEF ParentOf
<1>4. c \in Nat
  BY <1>2, ArcCostsAre
<1>5. dist[root][p] = dist[root][h] + dist[h][p] /\ dist[root][m] < MaxCost
  BY DEF OnTheWay, Reachable
<1>6. dist[h][m] <= SatAdd(dist[h][p], c)
  BY <1>2, Triangle
<1>7. dist[root][m] <= SatAdd(dist[root][h], dist[h][m])
  BY <1>2, TriangleOver
<1>8. \A x, y, z, a, b \in 0..MaxCost : \A w \in Nat :
         /\ x = a + b /\ y = x + w /\ y < MaxCost
         /\ z <= SatAdd(b, w) /\ y <= SatAdd(a, z)
         => y = a + z
  BY MaxCostPositive DEF SatAdd
<1>9. dist[root][m] = dist[root][h] + dist[h][m]
  <2>1. PICK x, y, z, a, b \in 0..MaxCost :
           /\ x = dist[root][p] /\ y = dist[root][m] /\ z = dist[h][m]
           /\ a = dist[root][h] /\ b = dist[h][p]
    BY <1>1, <1>2
  <2>2. /\ x = a + b /\ y = x + c /\ y < MaxCost
        /\ z <= SatAdd(b, c) /\ y <= SatAdd(a, z)
    BY <1>3, <1>5, <1>6, <1>7, <2>1
  <2>3. y = a + z
    BY <1>4, <1>8, <2>2
  <2> QED BY <2>1, <2>3
<1>10. ~IsChild(graph, dist, root, m)
  BY <1>2 DEF IsChild
<1> QED BY <1>2, <1>9, <1>10 DEF OnTheWay

\* First hops are on the way: by induction on the number of closer nodes.
LEMMA FirstHopOnTheWay ==
    ASSUME NEW graph, GraphOK(graph), PositiveArcs(graph), NEW dist, dist = Dist(graph),
           NEW root \in Nodes, NEW n \in Nodes, Reachable(dist, root, n)
    PROVE  OnTheWay(graph, dist, root, n, FirstHop(graph, dist, root)[n])
<1> DEFINE N == Cardinality(Nodes)
           far(m) == Reachable(dist, root, m)
           rank(m) == Cardinality(CloserTo(dist, root, m))
           up(m) == TreeParent(graph, dist, root, m)
<1>1. N \in Nat
  BY NodesAreFinite, FS_CardinalityType
<1>2. PICK H : Climbs(graph, dist, root, H) /\ FirstHop(graph, dist, root) = H[N]
  BY FirstHopClimbs
<1>3. \A k \in 0..N : H[k] = [m \in Nodes |->
                             IF k = 0 \/ ~far(m) THEN root
                             ELSE LET p == up(m) IN IF p = root THEN m ELSE H[k - 1][p]]
  BY <1>2 DEF Climbs
<1>4. dist \in [Nodes -> [Nodes -> 0..MaxCost]]
  BY DistIs
<1>5. ASSUME NEW m \in Nodes, far(m)
      PROVE  /\ ParentOf(graph, dist, root, m, up(m)) /\ up(m) \in Nodes
             /\ rank(m) \in Nat /\ rank(m) < N
             /\ rank(up(m)) \in Nat /\ rank(up(m)) < rank(m)
  <2>1. PICK p \in Nodes : ParentOf(graph, dist, root, m, p)
    BY <1>5, ReachableHasParent
  <2>2. p = up(m)
    BY <2>1 DEF ParentOf
  <2>3. PICK c \in ArcCosts(graph, p, m) : c > 0 /\ dist[root][m] = dist[root][p] + c
    BY <2>1 DEF ParentOf
  <2>4. dist[root][p] \in Nat /\ c \in Nat
    BY <1>4, ArcCostsAre, MaxCostPositive
  <2>5. dist[root][p] < dist[root][m]
    BY <2>3, <2>4
  <2>6. rank(m) \in Nat /\ rank(m) < N /\ rank(p) \in Nat /\ rank(p) < rank(m)
    BY <1>4, <2>5, CloserShrinks
  <2> QED BY <2>1, <2>2, <2>6
<1>6. ASSUME NEW m \in Nodes, far(m), up(m) = root PROVE OnTheWay(graph, dist, root, m, m)
  <2>1. IsChild(graph, dist, root, m)
    BY <1>6 DEF IsChild
  <2> QED BY <2>1, ChildOnTheWay
<1>7. ASSUME NEW m \in Nodes, far(m), up(m) # root
      PROVE  /\ far(up(m))
             /\ \A h : OnTheWay(graph, dist, root, up(m), h) => OnTheWay(graph, dist, root, m, h)
  <2>1. ParentOf(graph, dist, root, m, up(m))
    BY <1>5, <1>7
  <2>2. far(up(m))
    BY <1>7, <2>1 DEF ParentOf
  <2>3. ASSUME NEW h, OnTheWay(graph, dist, root, up(m), h) PROVE OnTheWay(graph, dist, root, m, h)
    BY <1>7, <2>1, <2>3, ParentOnTheWay
  <2> QED BY <2>2, <2>3
<1> HIDE DEF N, far, rank, up
<1> DEFINE S == {k \in Nat : k \in 0..N =>
                    \A m \in Nodes : far(m) /\ rank(m) < k => OnTheWay(graph, dist, root, m, H[k][m])}
<1>8. 0 \in S
  BY <1>5
<1>9. ASSUME NEW k \in 0..N, k \in S, k < N PROVE k + 1 \in S
  <2> SUFFICES ASSUME NEW m \in Nodes, far(m), rank(m) < k + 1
               PROVE  OnTheWay(graph, dist, root, m, H[k + 1][m])
    BY <1>1
  <2>1. PICK j \in 0..N : j = k + 1 /\ j # 0 /\ j - 1 = k
    BY <1>1, <1>9
  <2>2. H[j][m] = IF up(m) = root THEN m ELSE H[k][up(m)]
    <3>1. H[j] = [v \in Nodes |-> IF j = 0 \/ ~far(v) THEN root
                                  ELSE IF up(v) = root THEN v ELSE H[j - 1][up(v)]]
      BY <1>3
    <3> QED BY <2>1, <3>1
  <2>3. CASE up(m) = root
    <3>1. OnTheWay(graph, dist, root, m, m)
      BY <1>6, <2>3
    <3> QED BY <2>1, <2>2, <2>3, <3>1
  <2>4. CASE up(m) # root
    <3>1. up(m) \in Nodes /\ far(up(m)) /\ rank(up(m)) < k
      <4>1. up(m) \in Nodes /\ far(up(m))
        BY <1>5, <1>7, <2>4
      <4>2. rank(m) \in Nat /\ rank(up(m)) \in Nat /\ rank(up(m)) < rank(m)
        BY <1>5
      <4>3. rank(up(m)) < k
        BY <4>2
      <4> QED BY <4>1, <4>3
    <3>2. OnTheWay(graph, dist, root, up(m), H[k][up(m)])
      BY <1>9, <3>1
    <3>3. OnTheWay(graph, dist, root, m, H[k][up(m)])
      BY <1>7, <2>4, <3>2
    <3> QED BY <2>1, <2>2, <2>4, <3>3
  <2> QED BY <2>3, <2>4
<1> HIDE DEF S
<1>10. 0..N \subseteq S
  BY <1>1, <1>8, <1>9, UpTo
<1>11. N \in 0..N /\ N \in S
  BY <1>1, <1>10
<1>12. far(n)
  BY DEF far
<1>13. OnTheWay(graph, dist, root, n, H[N][n])
  BY <1>5, <1>11, <1>12 DEF S
<1> QED BY <1>2, <1>13
===============================================================================
