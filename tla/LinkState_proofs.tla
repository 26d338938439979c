-------------------------- MODULE LinkState_proofs --------------------------
(***************************************************************************)
(* Proofs about LinkState for every network.  First what holds whatever    *)
(* happens in it (types, realms, Router LSAs, routes and records); then,   *)
(* from "Networks without rings" on, that a network in which nothing is    *)
(* lost and nothing registered goes away converges.                        *)
(***************************************************************************)
EXTENDS LinkState, Routing_proofs

\* What an LSA tells of: a node, which everybody may know, or an endpoint of the
\* kind that a listener of its origin registers with; and adjacencies that every
\* connection lets pass.
Told(x) ==
    /\ \A a \in x.adj : "Global" \in a.realms
    /\ IF IsRouter(x) THEN x.info.kind = "Node" /\ x.info.realm = "Global"
       ELSE \E c \in Listeners : /\ Listener[c].node = x.origin /\ Listener[c].ep = x.ep
                                 /\ Listener[c].info.kind = x.info.kind

\* An LSA as it may be known at node n: well typed, and from a node that
\* connections of its realm lead from.
LsaAt(n, x) ==
    /\ x \in Lsa /\ Told(x)
    /\ Reaches(x.origin, x.info.realm, n)

OneEach(D) == \A r, s \in D : SameKey(r, s) => r = s

DbOK == db \in [Nodes -> SUBSET Lsa] /\ \A n \in Nodes : \A x \in db[n] : LsaAt(n, x)

Packet == [conn : Conns, to : Nodes, lsa : Lsa]

WireOK == wire \subseteq Packet /\ \A m \in wire : LsaAt(m.to, m.lsa)

LinksOK == links \in [Nodes -> SUBSET Conns] /\ \A n \in Nodes : links[n] \subseteq Attached(n)

\* What peers and receivers have told a router is about its own connections and
\* endpoints.
SpawnedOK ==
    \A m \in spawned :
        /\ m.node \in Nodes
        /\ \/ m.type \in {"RegisterPeer", "UnRegisterPeer"} /\ m.conn \in Attached(m.node)
           \/ m.type = "DeadLink" /\ m.ep \in Endpoints

KeysInv == \A n \in Nodes : OneEach(db[n])

LsaInv == scn \in Scenarios /\ DbOK /\ WireOK /\ LinksOK /\ SpawnedOK /\ KeysInv

-----------------------------------------------------------------------------
(* Networks.                                                               *)

\* The ends of a connection are two different nodes.
LEMMA NetTyped ==
    ASSUME scn \in Scenarios, NEW l \in Conns
    PROVE  /\ Net[l].a \in Nodes /\ Net[l].b \in Nodes /\ Net[l].a # Net[l].b
           /\ Net[l].cost \in Nat /\ "Global" \in Net[l].realms /\ Net[l].realms \subseteq Realms
  BY ScenariosTyped DEF ScenarioOK, Net, Conns

\* A connection of a node is a connection of the node at its other end.
LEMMA PeerAttached ==
    ASSUME scn \in Scenarios, NEW n \in Nodes, NEW l \in Attached(n)
    PROVE  /\ l \in Conns /\ Peer(l, n) \in Nodes /\ l \in Attached(Peer(l, n))
           /\ {n, Peer(l, n)} = {Net[l].a, Net[l].b}
  BY NetTyped DEF Attached, Peer

\* An LSA on a connection is a copy of what was sent, no adjacency missing.
LEMMA NarrowedIs ==
    ASSUME scn \in Scenarios, NEW l \in Conns, NEW x \in Lsa, Told(x)
    PROVE  LET y == Narrowed(x, l)
           IN  /\ y \in Lsa /\ Told(y) /\ Copy(y, x)
               /\ y.origin = x.origin /\ y.ep = x.ep /\ y.seq = x.seq /\ y.dead = x.dead
               /\ y.info = x.info /\ IsRouter(y) = IsRouter(x)
               /\ (y.adj = {}) = (x.adj = {})
               /\ \A a \in y.adj : \E b \in x.adj : /\ a.conn = b.conn /\ a.peer = b.peer
                                                   /\ a.cost = b.cost
  <1> DEFINE y == Narrowed(x, l)
             R == Net[l].realms
             thin(a) == [a EXCEPT !.realms = @ \cap R]
  <1>1. "Global" \in R /\ R \subseteq Realms
    BY NetTyped
  <1>2. x.adj \subseteq Adjacency /\ \A a \in x.adj : "Global" \in a.realms
    BY DEF Lsa, Told
  <1>3. y = [x EXCEPT !.adj = {thin(a) : a \in x.adj}]
    <2>1. {b \in x.adj : b.realms \cap R # {}} = x.adj
      BY <1>1, <1>2
    <2> QED BY <2>1 DEF Narrowed, Lsa
  <1> HIDE DEF y, R
  <1>4. \A a \in x.adj : /\ thin(a) \in Adjacency /\ "Global" \in thin(a).realms
                         /\ thin(a).conn = a.conn /\ thin(a).peer = a.peer /\ thin(a).cost = a.cost
    BY <1>1, <1>2 DEF Adjacency
  <1> HIDE DEF thin
  <1>5. /\ y.origin = x.origin /\ y.ep = x.ep /\ y.seq = x.seq /\ y.dead = x.dead
        /\ y.info = x.info /\ y.adj = {thin(a) : a \in x.adj}
    BY <1>3 DEF Lsa
  <1>6. y \in Lsa
    BY <1>3, <1>4 DEF Lsa
  <1>7. Bare(y) = Bare(x)
    BY <1>4, <1>5 DEF Bare
  <1>8. Told(y) /\ IsRouter(y) = IsRouter(x)
    BY <1>4, <1>5 DEF Told, IsRouter
  <1> QED BY <1>4, <1>5, <1>6, <1>7, <1>8 DEF y, Copy, SameKey

\* A Router LSA passes over a connection if it has adjacencies.
LEMMA PassesIs ==
    ASSUME scn \in Scenarios, NEW l \in Conns, NEW x \in Lsa, Told(x)
    PROVE  /\ IsRouter(x) => Passes(x, l) = (x.adj # {})
           /\ ~IsRouter(x) => Passes(x, l) = (x.info.realm \in Net[l].realms)
           /\ \A k \in Conns : Passes(Narrowed(x, l), k) = Passes(x, k)
  <1>1. ASSUME NEW z \in Lsa, Told(z), NEW k \in Conns
        PROVE  Passes(z, k) = IF IsRouter(z) THEN z.adj # {} ELSE z.info.realm \in Net[k].realms
    BY <1>1, NarrowedIs DEF Passes
  <1>2. PICK y : y = Narrowed(x, l)
    OBVIOUS
  <1>3. y \in Lsa /\ Told(y) /\ IsRouter(y) = IsRouter(x) /\ (y.adj = {}) = (x.adj = {}) /\ y.info = x.info
    BY <1>2, NarrowedIs
  <1> QED BY <1>1, <1>2, <1>3

\* What realm rules let over a connection may be known at its other end.
LEMMA PassesOn ==
    ASSUME scn \in Scenarios, NEW n \in Nodes, NEW l \in Attached(n), NEW x,
           LsaAt(n, x), Passes(x, l)
    PROVE  LsaAt(Peer(l, n), x) /\ LsaAt(Peer(l, n), Narrowed(x, l))
  <1>1. l \in Conns /\ {n, Peer(l, n)} = {Net[l].a, Net[l].b} /\ "Global" \in Net[l].realms
    BY PeerAttached, NetTyped
  <1>2. x.info.realm \in Net[l].realms
    BY <1>1 DEF Passes, LsaAt, Told
  <1>3. Reaches(x.origin, x.info.realm, Peer(l, n))
    <2> SUFFICES ASSUME NEW S \in SUBSET Nodes, x.origin \in S,
                        \A k \in Conns : x.info.realm \in Net[k].realms
                           => (Net[k].a \in S <=> Net[k].b \in S)
                 PROVE  Peer(l, n) \in S
      BY DEF Reaches
    <2>1. n \in S
      BY DEF LsaAt, Reaches
    <2> QED BY <1>1, <1>2, <2>1
  <1>4. LsaAt(Peer(l, n), x)
    BY <1>3 DEF LsaAt
  <1> QED BY <1>1, <1>4, NarrowedIs DEF LsaAt

\* A node may know what it originates itself.
LEMMA OwnLsaAt ==
    ASSUME NEW n \in Nodes, NEW x \in Lsa, x.origin = n, Told(x)
    PROVE  LsaAt(n, x)
  BY DEF LsaAt, Reaches

-----------------------------------------------------------------------------
(* What a step of one router does to its database and the wire.            *)

\* New on the wire are LSAs F from node n, over connections that let them pass.
SentFrom(n, F, w) ==
    \A m \in w \ wire : \E x \in F : \E l \in Attached(n) :
        m = [conn |-> l, to |-> Peer(l, n), lsa |-> Narrowed(x, l)] /\ Passes(x, l)

\* What a node sends over a connection.
LEMMA SentIs ==
    ASSUME NEW n, NEW l, NEW L, NEW m \in Sent(n, l, L)
    PROVE  \E x \in L : m = [conn |-> l, to |-> Peer(l, n), lsa |-> Narrowed(x, l)] /\ Passes(x, l)
  BY DEF Sent

\* What a node floods for one LSA.
LEMMA FloodIs ==
    ASSUME NEW n, NEW K, NEW lsa, NEW skip, NEW m \in Flood(n, K, lsa, skip)
    PROVE  \E l \in K : m = [conn |-> l, to |-> Peer(l, n), lsa |-> Narrowed(lsa, l)] /\ Passes(lsa, l)
  <1>1. PICK l \in K : m \in Sent(n, l, {lsa})
    BY DEF Flood
  <1> QED BY <1>1, SentIs

\* What a node floods for several.
LEMMA FloodAllIs ==
    ASSUME NEW n, NEW K, NEW L, NEW m \in FloodAll(n, K, L)
    PROVE  \E x \in L : \E l \in K :
              m = [conn |-> l, to |-> Peer(l, n), lsa |-> Narrowed(x, l)] /\ Passes(x, l)
  BY FloodIs DEF FloodAll

\* What only the scenario decides does not change with it fixed.
LEMMA StaticSame ==
    ASSUME scn' = scn
    PROVE  /\ Net' = Net /\ Conns' = Conns /\ Lsa' = Lsa /\ Packet' = Packet
           /\ \A n \in Nodes : Attached(n)' = Attached(n)
           /\ \A n \in Nodes : \A x : LsaAt(n, x)' = LsaAt(n, x)
  BY DEF Net, Conns, Lsa, Adjacency, Packet, Attached, LsaAt, Reaches, IsRouter,
         Told, Listeners, Listener

\* What a router that runs relies on: it has its own Router LSA, of which no
\* newer copy is anywhere.
OwnHeld == \A n \in Nodes \ stopped : \E r \in db[n] : r.origin = n /\ IsRouter(r)

OwnNewest ==
    \A n \in Nodes \ stopped : \A r \in db[n], x \in Everywhere :
        r.origin = n /\ IsRouter(r) /\ SameKey(r, x) => x.seq <= r.seq

OwnInv == OwnHeld /\ OwnNewest /\ RouterLsasAgree

\* The router of node n has D now and has sent F, all of which it may know.  The
\* only Router LSA in there that may be new is its own one, o, and then it has a
\* higher number than the one before; a router that goes on has it.
RouterDoes(n, D, F, o) ==
    /\ db' = [db EXCEPT ![n] = D]
    /\ SentFrom(n, F, wire')
    /\ OneEach(D)
    /\ \A x \in D \cup F : LsaAt(n, x)
    /\ \A x \in D \cup F : IsRouter(x) => x \in Everywhere \/ x = o
    /\ o.origin = n /\ IsRouter(o) /\ o.seq \in Nat
    /\ o \in db[n] \/ \A r \in db[n] : r.origin = n /\ IsRouter(r) => r.seq < o.seq
    /\ n \notin stopped' => o \in D

\* Then the others may know what they have, too.
LEMMA RouterKeeps ==
    ASSUME LsaInv, scn' = scn, NEW n \in Nodes, NEW D, NEW F, NEW o,
           RouterDoes(n, D, F, o), spawned' \subseteq spawned,
           links' \in [Nodes -> SUBSET Conns],
           \A k \in Nodes : links'[k] \subseteq Attached(k)
    PROVE  LsaInv'
  <1> USE StaticSame
  <1>1. DbOK'
    <2>1. D \subseteq Lsa
      BY DEF LsaAt, RouterDoes
    <2> QED BY <2>1 DEF LsaInv, DbOK, RouterDoes
  <1>2. WireOK'
    <2> SUFFICES ASSUME NEW m \in wire' PROVE m \in Packet /\ LsaAt(m.to, m.lsa)
      <3>1. wire' \subseteq Packet
        OBVIOUS
      <3>2. \A m \in wire' : m.to \in Nodes
        BY <3>1 DEF Packet
      <3> QED BY <3>1, <3>2 DEF WireOK
    <2>1. CASE m \in wire
      BY <2>1 DEF LsaInv, WireOK
    <2>2. CASE m \notin wire
      <3>1. PICK x \in F : \E l \in Attached(n) :
               m = [conn |-> l, to |-> Peer(l, n), lsa |-> Narrowed(x, l)] /\ Passes(x, l)
        BY <2>2 DEF SentFrom, RouterDoes
      <3>2. PICK l \in Attached(n) :
               m = [conn |-> l, to |-> Peer(l, n), lsa |-> Narrowed(x, l)] /\ Passes(x, l)
        BY <3>1
      <3>3. LsaAt(n, x)
        BY DEF RouterDoes
      <3>4. LsaAt(Peer(l, n), Narrowed(x, l)) /\ Peer(l, n) \in Nodes /\ l \in Conns
        BY <3>2, <3>3, PassesOn, PeerAttached DEF LsaInv
      <3>5. m \in Packet
        BY <3>2, <3>4 DEF Packet, LsaAt
      <3> QED BY <3>2, <3>4, <3>5
    <2> QED BY <2>1, <2>2
  <1>3. LinksOK'
    BY DEF LsaInv, LinksOK
  <1>4. SpawnedOK'
    BY DEF LsaInv, SpawnedOK
  <1>5. KeysInv'
    BY DEF LsaInv, KeysInv, OneEach, DbOK, SameKey, RouterDoes
  <1> QED BY <1>1, <1>2, <1>3, <1>4, <1>5 DEF LsaInv

\* And Router LSAs still agree: what is new has a number of its own.
LEMMA RouterAgrees ==
    ASSUME LsaInv, OwnInv, NEW n \in Nodes \ stopped, NEW D, NEW F, NEW o,
           RouterDoes(n, D, F, o), stopped \subseteq stopped'
    PROVE  OwnInv'
  <1>1. PICK own \in db[n] : own.origin = n /\ IsRouter(own)
    BY DEF OwnInv, OwnHeld
  <1>2. \A x \in Everywhere : x \in Lsa /\ x.seq \in Nat
    BY DEF Everywhere, LsaInv, DbOK, WireOK, Packet, Lsa
  <1>3. ASSUME NEW x \in Everywhere', IsRouter(x)
        PROVE  \E y : (y \in Everywhere \/ y = o) /\ IsRouter(y) /\ Copy(x, y)
    <2>1. CASE \E k \in Nodes : x \in db'[k]
      <3>1. PICK k \in Nodes : x \in db'[k]
        BY <2>1
      <3>2. CASE k = n
        BY <1>3, <3>1, <3>2 DEF RouterDoes, LsaInv, DbOK, Copy, SameKey
      <3>3. CASE k # n
        BY <1>3, <3>1, <3>3 DEF RouterDoes, LsaInv, DbOK, Everywhere, Copy, SameKey
      <3> QED BY <3>2, <3>3
    <2>2. CASE \E m \in wire' : x = m.lsa
      <3>1. PICK m \in wire' : x = m.lsa
        BY <2>2
      <3>2. CASE m \in wire
        BY <1>3, <3>1, <3>2 DEF Everywhere, Copy, SameKey
      <3>3. CASE m \notin wire
        <4>1. PICK y \in F, l \in Attached(n) :
                m = [conn |-> l, to |-> Peer(l, n), lsa |-> Narrowed(y, l)] /\ Passes(y, l)
          BY <3>1, <3>3 DEF RouterDoes, SentFrom
        <4>2. l \in Conns /\ y \in Lsa /\ Told(y)
          BY DEF RouterDoes, LsaAt, Attached
        <4>3. x = Narrowed(y, l)
          BY <3>1, <4>1
        <4>4. Copy(x, y) /\ IsRouter(y)
          BY <1>3, <4>2, <4>3, NarrowedIs DEF LsaInv
        <4> QED BY <4>4 DEF RouterDoes
      <3> QED BY <3>2, <3>3
    <2> QED BY <2>1, <2>2 DEF Everywhere
  <1>4. \A x \in Everywhere : SameKey(o, x) => Copy(x, o) \/ x.seq < o.seq
    <2> SUFFICES ASSUME NEW x \in Everywhere, SameKey(o, x) PROVE Copy(x, o) \/ x.seq < o.seq
      OBVIOUS
    <2>1. SameKey(own, x) /\ IsRouter(x)
      BY <1>1 DEF SameKey, IsRouter, RouterDoes
    <2>2. x.seq <= own.seq /\ own \in Everywhere
      BY <1>1, <2>1 DEF OwnInv, OwnNewest, Everywhere
    <2>3. CASE o \in db[n]
      <3>1. o = own
        BY <1>1, <2>3 DEF LsaInv, KeysInv, OneEach, SameKey, IsRouter, RouterDoes
      <3>2. x.seq = own.seq => Copy(x, own)
        BY <1>1, <2>1, <2>2 DEF OwnInv, RouterLsasAgree, SameKey
      <3> QED BY <1>2, <2>2, <3>1, <3>2
    <2>4. CASE o \notin db[n]
      <3>1. own.seq < o.seq
        BY <1>1, <2>4 DEF RouterDoes
      <3> QED BY <1>2, <2>2, <3>1 DEF RouterDoes
    <2> QED BY <2>3, <2>4
  <1>5. RouterLsasAgree'
    <2> SUFFICES ASSUME NEW r \in Everywhere', NEW s \in Everywhere', IsRouter(r), IsRouter(s),
                        SameKey(r, s), r.seq = s.seq
                 PROVE  Copy(r, s)
      BY DEF RouterLsasAgree, IsRouter, SameKey, Copy, Bare
    <2>1. PICK x : (x \in Everywhere \/ x = o) /\ IsRouter(x) /\ Copy(r, x)
      BY <1>3
    <2>2. PICK y : (y \in Everywhere \/ y = o) /\ IsRouter(y) /\ Copy(s, y)
      BY <1>3
    <2>3. SameKey(x, y) /\ x.seq = y.seq
      BY <2>1, <2>2 DEF Copy, SameKey
    <2>4. Copy(x, y)
      <3>1. CASE x \in Everywhere /\ y \in Everywhere
        BY <2>1, <2>2, <2>3, <3>1 DEF OwnInv, RouterLsasAgree
      <3>2. CASE x = o /\ y \in Everywhere
        BY <1>2, <1>4, <2>3, <3>2 DEF RouterDoes, Copy, SameKey
      <3>3. CASE y = o /\ x \in Everywhere
        BY <1>2, <1>4, <2>3, <3>3 DEF RouterDoes, SameKey
      <3>4. CASE x = o /\ y = o
        BY <3>4 DEF Copy, SameKey
      <3> QED BY <2>1, <2>2, <3>1, <3>2, <3>3, <3>4
    <2> QED BY <2>1, <2>2, <2>4 DEF Copy, SameKey
  <1>6. OwnHeld'
    <2> SUFFICES ASSUME NEW k \in Nodes \ stopped'
                 PROVE  \E r \in db'[k] : r.origin = k /\ IsRouter(r)
      BY DEF OwnHeld, IsRouter
    <2>1. CASE k = n
      BY <2>1 DEF RouterDoes, LsaInv, DbOK
    <2>2. CASE k # n
      BY <2>2 DEF RouterDoes, LsaInv, DbOK, OwnInv, OwnHeld
    <2> QED BY <2>1, <2>2
  <1>7. OwnNewest'
    <2> SUFFICES ASSUME NEW k \in Nodes \ stopped', NEW r \in db'[k], NEW x \in Everywhere',
                        r.origin = k, IsRouter(r), SameKey(r, x)
                 PROVE  x.seq <= r.seq
      BY DEF OwnNewest, IsRouter, SameKey
    <2>0. IsRouter(x)
      BY DEF SameKey, IsRouter
    <2>1. PICK y : (y \in Everywhere \/ y = o) /\ IsRouter(y) /\ Copy(x, y)
      BY <1>3, <2>0
    <2>a. SameKey(r, y) /\ x.seq = y.seq
      BY <2>1 DEF Copy, SameKey
    <2>2. CASE k = n
      <3>1. r = o
        BY <2>2 DEF RouterDoes, LsaInv, DbOK, OneEach, SameKey, IsRouter
      <3>2. CASE y = o
        BY <2>a, <3>1, <3>2 DEF RouterDoes
      <3>3. CASE y \in Everywhere
        BY <1>2, <1>4, <2>a, <3>1, <3>3 DEF RouterDoes, Copy
      <3> QED BY <2>1, <3>2, <3>3
    <2>3. CASE k # n
      <3>1. r \in db[k]
        BY <2>3 DEF RouterDoes, LsaInv, DbOK
      <3>2. y # o
        BY <2>3, <2>a DEF RouterDoes, SameKey
      <3> QED BY <2>1, <2>a, <3>1, <3>2 DEF OwnInv, OwnNewest
    <2> QED BY <2>2, <2>3
  <1> QED BY <1>5, <1>6, <1>7 DEF OwnInv

\* The LSA a running router has of itself.
LEMMA OwnIs ==
    ASSUME LsaInv, OwnInv, NEW n \in Nodes \ stopped
    PROVE  /\ Own(n) \in db[n] /\ Own(n).origin = n /\ IsRouter(Own(n))
           /\ Own(n) \in Lsa /\ Told(Own(n))
           /\ \A r \in db[n] : r.origin = n /\ IsRouter(r) => r = Own(n)
  <1>1. Own(n) \in db[n] /\ Own(n).origin = n /\ IsRouter(Own(n))
    BY DEF OwnInv, OwnHeld, Own
  <1>2. LsaAt(n, Own(n))
    BY <1>1 DEF LsaInv, DbOK
  <1>3. \A r \in db[n] : r.origin = n /\ IsRouter(r) => r = Own(n)
    BY <1>1 DEF LsaInv, KeysInv, OneEach, SameKey, IsRouter
  <1> QED BY <1>1, <1>2, <1>3 DEF LsaAt

\* Insert replaces the record with the same key.
LEMMA InsertIs ==
    ASSUME NEW D, NEW x, OneEach(D)
    PROVE  /\ OneEach(Insert(D, x)) /\ x \in Insert(D, x)
           /\ \A r \in Insert(D, x) : r = x \/ (r \in D /\ ~SameKey(r, x))
           /\ \A r \in D : SameKey(r, x) \/ r \in Insert(D, x)
  BY DEF OneEach, Insert, Held, SameKey

\* A refreshed LSA differs in its sequence number only.
LEMMA BumpedIs ==
    ASSUME NEW x \in Lsa
    PROVE  /\ Bumped(x) \in Lsa /\ Bumped(x).seq = x.seq + 1
           /\ Bumped(x).origin = x.origin /\ Bumped(x).ep = x.ep
           /\ Bumped(x).info = x.info /\ Bumped(x).dead = x.dead /\ Bumped(x).adj = x.adj
  BY DEF Bumped, Lsa

\* A router that gives its own Router LSA another content and the next number.
LEMMA OwnBumped ==
    ASSUME LsaInv, OwnInv, NEW n \in Nodes \ stopped, NEW x \in Lsa,
           x.origin = n, x.ep = n, x.seq = Own(n).seq, x.info = Own(n).info,
           \A a \in x.adj : "Global" \in a.realms
    PROVE  LET o == Bumped(x)
           IN  /\ LsaAt(n, o) /\ o.origin = n /\ IsRouter(o) /\ o.seq \in Nat
               /\ \A r \in db[n] : r.origin = n /\ IsRouter(r) => r.seq < o.seq
  <1> DEFINE o == Bumped(x)
  <1>1. /\ o \in Lsa /\ o.origin = n /\ o.ep = n /\ o.info = Own(n).info
        /\ o.seq = Own(n).seq + 1 /\ Own(n).seq \in Nat /\ o.adj = x.adj
    BY BumpedIs, OwnIs DEF Lsa
  <1> HIDE DEF o
  <1>2. IsRouter(o)
    BY <1>1 DEF IsRouter
  <1>3. LsaAt(n, o)
    BY <1>1, <1>2, OwnIs, OwnLsaAt DEF Told
  <1>4. \A r \in db[n] : r.origin = n /\ IsRouter(r) => r.seq < o.seq
    BY <1>1, OwnIs
  <1> QED BY <1>1, <1>2, <1>3, <1>4 DEF o

\* What an action sets in links.
LEMMA LinksSet ==
    ASSUME LsaInv, NEW n \in Nodes, NEW K, K \subseteq Attached(n),
           links' = [links EXCEPT ![n] = K] \/ (links' = links)
    PROVE  /\ links' \in [Nodes -> SUBSET Conns]
           /\ \A k \in Nodes : links'[k] \subseteq Attached(k)
  BY DEF LsaInv, LinksOK, Attached

-----------------------------------------------------------------------------
(* The steps.                                                              *)

\* RegisterPeer
LEMMA RegisterPeerStep ==
    ASSUME LsaInv, OwnInv, NEW n \in Nodes, NEW l, RegisterPeer(n, l)
    PROVE  LsaInv' /\ OwnInv'
  <1> DEFINE adj == [conn |-> l, peer |-> Peer(l, n), cost |-> Net[l].cost, realms |-> Net[l].realms]
             x == [Own(n) EXCEPT !.adj = @ \cup {adj}]
             own == Bumped(x)
             D == Insert(db[n], own)
             K == links[n] \cup {l}
  <1>0. n \in Nodes \ stopped /\ scn' = scn /\ stopped' = stopped /\ spawned' \subseteq spawned
    BY DEF RegisterPeer
  <1>1. l \in Attached(n)
    BY DEF RegisterPeer, PeerMsg, LsaInv, SpawnedOK
  <1>2. adj \in Adjacency
    BY <1>1, PeerAttached, NetTyped DEF Adjacency, LsaInv
  <1>3. Own(n) \in Lsa /\ Own(n).origin = n /\ Own(n).ep = n
    BY <1>0, OwnIs DEF IsRouter
  <1>4. x \in Lsa /\ x.origin = n /\ x.ep = n /\ x.seq = Own(n).seq /\ x.info = Own(n).info
    BY <1>2, <1>3 DEF Lsa
  <1>a. \A a \in x.adj : "Global" \in a.realms
    <2>1. x.adj = Own(n).adj \cup {adj} /\ "Global" \in adj.realms
      BY <1>1, <1>3, PeerAttached, NetTyped DEF LsaInv, Lsa
    <2> QED BY <1>0, <2>1, OwnIs DEF Told
  <1>5. /\ LsaAt(n, own) /\ own.origin = n /\ IsRouter(own) /\ own.seq \in Nat
        /\ \A r \in db[n] : r.origin = n /\ IsRouter(r) => r.seq < own.seq
    BY <1>0, <1>4, <1>a, OwnBumped
  <1>6. K \subseteq Attached(n)
    BY <1>1 DEF LsaInv, LinksOK
  <1>7. /\ db' = [db EXCEPT ![n] = D] /\ links' = [links EXCEPT ![n] = K]
        /\ wire' = (wire \cup Flood(n, K, own, {l})) \cup Sent(n, l, D)
    BY DEF RegisterPeer, Change
  <1> HIDE DEF own, K
  <1>8. OneEach(D) /\ own \in D /\ \A r \in D : r = own \/ r \in db[n]
    BY InsertIs DEF LsaInv, KeysInv
  <1> HIDE DEF D
  <1>9. SentFrom(n, D, wire')
    <2> SUFFICES ASSUME NEW m \in wire' \ wire
                 PROVE  \E y \in D : \E k \in Attached(n) :
                          m = [conn |-> k, to |-> Peer(k, n), lsa |-> Narrowed(y, k)] /\ Passes(y, k)
      BY DEF SentFrom
    <2>1. CASE m \in Flood(n, K, own, {l})
      BY <1>6, <1>8, <2>1, FloodIs
    <2>2. CASE m \in Sent(n, l, D)
      BY <1>1, <2>2, SentIs
    <2> QED BY <1>7, <2>1, <2>2
  <1>10. \A r \in D : LsaAt(n, r) /\ (r \in Everywhere \/ r = own)
    BY <1>5, <1>8 DEF LsaInv, DbOK, Everywhere
  <1>11. RouterDoes(n, D, D, own)
    BY <1>5, <1>7, <1>8, <1>9, <1>10 DEF RouterDoes
  <1> QED BY <1>0, <1>6, <1>7, <1>11, LinksSet, RouterKeeps, RouterAgrees

\* UnRegisterPeer
LEMMA UnRegisterPeerStep ==
    ASSUME LsaInv, OwnInv, NEW n \in Nodes, NEW l, UnRegisterPeer(n, l), l \in links[n]
    PROVE  LsaInv' /\ OwnInv'
  <1> DEFINE x == [Own(n) EXCEPT !.adj = {a \in @ : a.conn # l}]
             own == Bumped(x)
             D == Insert(db[n], own)
             K == links[n] \ {l}
  <1>0. n \in Nodes \ stopped /\ scn' = scn /\ stopped' = stopped /\ spawned' \subseteq spawned
    BY DEF UnRegisterPeer
  <1>3. Own(n) \in Lsa /\ Own(n).origin = n /\ Own(n).ep = n
    BY <1>0, OwnIs DEF IsRouter
  <1>4. x \in Lsa /\ x.origin = n /\ x.ep = n /\ x.seq = Own(n).seq /\ x.info = Own(n).info
    BY <1>3 DEF Lsa
  <1>a. \A a \in x.adj : "Global" \in a.realms
    <2>1. x.adj \subseteq Own(n).adj
      BY <1>3 DEF Lsa
    <2> QED BY <1>0, <2>1, OwnIs DEF Told
  <1>5. /\ LsaAt(n, own) /\ own.origin = n /\ IsRouter(own) /\ own.seq \in Nat
        /\ \A r \in db[n] : r.origin = n /\ IsRouter(r) => r.seq < own.seq
    BY <1>0, <1>4, <1>a, OwnBumped
  <1>6. K \subseteq Attached(n)
    BY DEF LsaInv, LinksOK
  <1>7. /\ db' = [db EXCEPT ![n] = D] /\ links' = [links EXCEPT ![n] = K]
        /\ wire' = wire \cup Flood(n, K, own, {})
    BY DEF UnRegisterPeer, Change
  <1> HIDE DEF own, K
  <1>8. OneEach(D) /\ own \in D /\ \A r \in D : r = own \/ r \in db[n]
    BY InsertIs DEF LsaInv, KeysInv
  <1> HIDE DEF D
  <1>9. SentFrom(n, D, wire')
    BY <1>6, <1>7, <1>8, FloodIs DEF SentFrom
  <1>10. \A r \in D : LsaAt(n, r) /\ (r \in Everywhere \/ r = own)
    BY <1>5, <1>8 DEF LsaInv, DbOK, Everywhere
  <1>11. RouterDoes(n, D, D, own)
    BY <1>5, <1>7, <1>8, <1>9, <1>10 DEF RouterDoes
  <1> QED BY <1>0, <1>6, <1>7, <1>11, LinksSet, RouterKeeps, RouterAgrees

\* A router that has D now and has sent F, among them no new Router LSA, and has
\* kept its own.
LEMMA OthersOnly ==
    ASSUME LsaInv, OwnInv, NEW n \in Nodes \ stopped, NEW D, NEW F,
           db' = [db EXCEPT ![n] = D], SentFrom(n, F, wire'), OneEach(D),
           \A x \in D \cup F : LsaAt(n, x) /\ (IsRouter(x) => x \in Everywhere),
           n \notin stopped' => Own(n) \in D,
           scn' = scn, links' = links \/ links' = [links EXCEPT ![n] = {}],
           stopped \subseteq stopped', spawned' \subseteq spawned
    PROVE  LsaInv' /\ OwnInv'
  <1>1. RouterDoes(n, D, F, Own(n))
    <2>1. /\ Own(n).origin = n /\ IsRouter(Own(n)) /\ Own(n) \in Lsa
          /\ Own(n) \in db[n]
      BY OwnIs
    <2>2. Own(n).seq \in Nat
      BY <2>1 DEF Lsa
    <2> QED BY <2>1, <2>2 DEF RouterDoes
  <1>2. /\ links' \in [Nodes -> SUBSET Conns]
        /\ \A k \in Nodes : links'[k] \subseteq Attached(k)
    BY DEF LsaInv, LinksOK
  <1> QED BY <1>1, <1>2, RouterKeeps, RouterAgrees

\* handle_lsa: replaced, refused or withdrawn, and flooded on.
LEMMA HandleLsaStep ==
    ASSUME LsaInv, OwnInv, NEW n \in Nodes, NEW in \in wire, HandleLsa(n, in)
    PROVE  LsaInv' /\ OwnInv'
  <1> DEFINE x == in.lsa
  <1>0. /\ n \in Nodes \ stopped /\ scn' = scn /\ stopped' = stopped
        /\ spawned' = spawned /\ in.to = n
    BY DEF HandleLsa
  <1>1. LsaAt(n, x) /\ x \in Lsa /\ x \in Everywhere
    BY <1>0 DEF LsaInv, WireOK, LsaAt, Everywhere
  <1>2. links[n] \subseteq Attached(n) /\ db \in [Nodes -> SUBSET Lsa] /\ OneEach(db[n])
    BY DEF LsaInv, LinksOK, DbOK, KeysInv
  <1>3. Own(n) \in db[n] /\ Own(n).origin = n
    BY <1>0, OwnIs
  <1>4. \A r \in db[n] : LsaAt(n, r) /\ r \in Everywhere
    BY DEF LsaInv, DbOK, Everywhere
  <1>5. CASE wire' = wire \ {in} /\ UNCHANGED <<db, links>>
    <2>1. db' = [db EXCEPT ![n] = db[n]]
      BY <1>2, <1>5
    <2>2. SentFrom(n, {}, wire')
      BY <1>5 DEF SentFrom
    <2> QED BY <1>0, <1>2, <1>3, <1>4, <1>5, <2>1, <2>2, OthersOnly
  <1>6. CASE ~Ignored(n, x) /\ x.dead /\ RemoveDead(n, x, in)
    <2> DEFINE held == Held(db[n], x)
               gone == IF IsRouter(x) THEN {r \in db[n] : r.origin = x.origin} ELSE held
               D == db[n] \ gone
    <2>1. CASE /\ Change(n, D, links[n])
               /\ wire' = (wire \ {in}) \cup Flood(n, links[n], x, {})
      <3>1. x.origin # n
        BY <1>6 DEF Ignored
      <3>2. Own(n) \in D
        BY <1>3, <3>1 DEF Held, SameKey
      <3>3. OneEach(D) /\ \A r \in D \cup {x} : LsaAt(n, r) /\ r \in Everywhere
        BY <1>1, <1>2, <1>4 DEF OneEach
      <3>4. SentFrom(n, {x}, wire')
        BY <1>2, <2>1, FloodIs DEF SentFrom
      <3>5. db' = [db EXCEPT ![n] = D] /\ links' = links
        BY <2>1 DEF Change, LsaInv, LinksOK
      <3> HIDE DEF D, x
      <3> QED BY <1>0, <3>2, <3>3, <3>4, <3>5, OthersOnly
    <2> QED BY <1>5, <1>6, <2>1 DEF RemoveDead
  <1>7. CASE ~Ignored(n, x) /\ ~x.dead /\ Upsert(n, x, in)
    <2> DEFINE D == Insert(db[n], x)
    <2>1. /\ db' = [db EXCEPT ![n] = D] /\ links' = links
          /\ wire' = (wire \ {in}) \cup Flood(n, links[n], x, {in.conn})
      BY <1>7 DEF Upsert, Change, LsaInv, LinksOK
    <2>2. x.origin # n
      BY <1>7 DEF Ignored
    <2> HIDE DEF x
    <2>3. /\ OneEach(D) /\ \A r \in D : r = x \/ r \in db[n]
          /\ \A r \in db[n] : SameKey(r, x) \/ r \in D
      BY <1>2, InsertIs
    <2> HIDE DEF D
    <2>4. Own(n) \in D
      BY <1>3, <2>2, <2>3 DEF SameKey
    <2>5. \A r \in D \cup {x} : LsaAt(n, r) /\ r \in Everywhere
      BY <1>1, <1>4, <2>3
    <2>6. SentFrom(n, {x}, wire')
      BY <1>2, <2>1, FloodIs DEF SentFrom
    <2> QED BY <1>0, <2>1, <2>3, <2>4, <2>5, <2>6, OthersOnly
  <1> QED BY <1>5, <1>6, <1>7 DEF HandleLsa

\* What an operation of the route table leaves to the database.
LEMMA CarryOutStep ==
    ASSUME LsaInv, OwnInv, NEW n \in Nodes \ stopped, NEW e \in Endpoints,
           NEW info \in EndpointInfo, NEW effect, EffectOK(effect),
           CarryOut(n, e, info, effect), effect.lsa = "Add" => Told(NewLsa(n, e, info)),
           scn' = scn, stopped' = stopped, spawned' \subseteq spawned
    PROVE  LsaInv' /\ OwnInv'
  <1> DEFINE old == Advertised(n, e)
             stale == {r \in old : r.info.cost \notin effect.cost}
             fresh == {Recosted(r, k) : r \in stale, k \in effect.cost}
             dead == {Withdrawn(r) : r \in old}
  <1>0. \/ /\ effect.lsa = "Add"
           /\ Change(n, Insert(db[n], NewLsa(n, e, info)), links[n])
           /\ wire' = wire \cup Flood(n, links[n], NewLsa(n, e, info), {})
        \/ /\ effect.lsa = "Update"
           /\ Change(n, (db[n] \ stale) \cup fresh, links[n])
           /\ wire' = wire \cup FloodAll(n, links[n], fresh)
        \/ /\ effect.lsa = "Remove"
           /\ Change(n, db[n] \ old, links[n])
           /\ wire' = wire \cup FloodAll(n, links[n], dead)
        \/ /\ effect.lsa \in {"Rebuild", "Noop"}
           /\ UNCHANGED <<db, links, hop, wire>>
    BY DEF CarryOut
  <1>1. links[n] \subseteq Attached(n) /\ db \in [Nodes -> SUBSET Lsa] /\ OneEach(db[n])
    BY DEF LsaInv, LinksOK, DbOK, KeysInv
  <1>2. Own(n) \in db[n] /\ Own(n).origin = n /\ Own(n).ep = n /\ e # n
    BY OwnIs, NamesDisjoint DEF IsRouter
  <1>3. \A r \in db[n] : LsaAt(n, r) /\ r \in Everywhere
    BY DEF LsaInv, DbOK, Everywhere
  <1>4. \A r \in Lsa : r.origin = n /\ r.ep = e /\ Told(r) => LsaAt(n, r) /\ ~IsRouter(r)
    BY <1>2, OwnLsaAt DEF IsRouter
  <1>5. \A r \in old : r \in Lsa /\ r \in db[n] /\ r.origin = n /\ r.ep = e /\ Told(r)
    BY <1>1, <1>3 DEF Advertised, LsaAt
  <1>6. \A r, s \in old : r = s
    BY <1>1, <1>5 DEF OneEach, SameKey
  <1>7. CASE effect.lsa = "Add"
    <2> DEFINE x == NewLsa(n, e, info)
               D == Insert(db[n], x)
    <2>1. /\ db' = [db EXCEPT ![n] = D] /\ links' = links
          /\ wire' = wire \cup Flood(n, links[n], x, {})
      BY <1>0, <1>7 DEF Change, LsaInv, LinksOK
    <2>2. x \in Lsa /\ x.origin = n /\ x.ep = e /\ Told(x)
      BY <1>7 DEF NewLsa, Lsa, Ids
    <2> HIDE DEF x
    <2>3. /\ OneEach(D) /\ \A r \in D : r = x \/ r \in db[n]
          /\ \A r \in db[n] : SameKey(r, x) \/ r \in D
      BY <1>1, InsertIs
    <2> HIDE DEF D
    <2>4. Own(n) \in D
      BY <1>2, <2>2, <2>3 DEF SameKey
    <2>5. \A r \in D \cup {x} : LsaAt(n, r) /\ (IsRouter(r) => r \in Everywhere)
      BY <1>3, <1>4, <2>2, <2>3
    <2>6. SentFrom(n, {x}, wire')
      BY <1>1, <2>1, FloodIs DEF SentFrom
    <2> QED BY <2>1, <2>3, <2>4, <2>5, <2>6, OthersOnly
  <1>8. CASE effect.lsa = "Update"
    <2> DEFINE D == (db[n] \ stale) \cup fresh
    <2>1. /\ db' = [db EXCEPT ![n] = D] /\ links' = links
          /\ wire' = wire \cup FloodAll(n, links[n], fresh)
      <3>1. Change(n, D, links[n]) /\ wire' = wire \cup FloodAll(n, links[n], fresh)
        BY <1>0, <1>8
      <3> HIDE DEF D, fresh
      <3> QED BY <3>1 DEF Change, LsaInv, LinksOK
    <2>2. ASSUME NEW r \in stale, NEW k \in effect.cost
          PROVE  /\ Recosted(r, k) \in Lsa /\ Recosted(r, k).origin = n
                 /\ Recosted(r, k).ep = e /\ Told(Recosted(r, k))
      <3> DEFINE y == [r EXCEPT !.info.cost = k]
      <3>1. r \in Lsa /\ r.origin = n /\ r.ep = e /\ Told(r) /\ k \in Nat
        BY <1>5 DEF EffectOK
      <3>2. [r.info EXCEPT !.cost = k] \in EndpointInfo
        BY <3>1 DEF Lsa, EndpointInfo
      <3>3. y \in Lsa /\ y.origin = n /\ y.ep = e /\ y.info.kind = r.info.kind /\ y.adj = r.adj
        BY <3>1, <3>2 DEF Lsa, EndpointInfo
      <3> HIDE DEF y
      <3>4. /\ Bumped(y) \in Lsa /\ Bumped(y).origin = n /\ Bumped(y).ep = e
            /\ Bumped(y).info.kind = r.info.kind /\ Bumped(y).adj = r.adj
        BY <3>3, BumpedIs
      <3>5. Told(Bumped(y))
        BY <1>2, <3>1, <3>4 DEF Told, IsRouter
      <3> QED BY <3>4, <3>5 DEF y, Recosted
    <2>3. \A y \in fresh : y \in Lsa /\ y.origin = n /\ y.ep = e /\ Told(y)
      BY <2>2
    <2>4. \A y, z \in fresh : y = z
      BY <1>6 DEF EffectOK
    <2>5. fresh # {} => \A r \in old : r \in stale
      BY <1>6
    <2> HIDE DEF fresh, stale
    <2>6. OneEach(D)
      <3> SUFFICES ASSUME NEW r \in D, NEW s \in D, SameKey(r, s) PROVE r = s
        BY DEF OneEach
      <3>1. \A y \in db[n] \ stale, z \in fresh : ~SameKey(y, z)
        BY <2>3, <2>5 DEF SameKey, Advertised
      <3> QED BY <1>1, <2>4, <3>1 DEF OneEach, SameKey
    <2>7. Own(n) \in D
      BY <1>2, <1>5 DEF stale
    <2>8. \A r \in D \cup fresh : LsaAt(n, r) /\ (IsRouter(r) => r \in Everywhere)
      BY <1>3, <1>4, <2>3
    <2>9. SentFrom(n, fresh, wire')
      BY <1>1, <2>1, FloodAllIs DEF SentFrom
    <2> HIDE DEF D
    <2> QED BY <2>1, <2>6, <2>7, <2>8, <2>9, OthersOnly
  <1>9. CASE effect.lsa = "Remove"
    <2> DEFINE D == db[n] \ old
    <2>1. /\ db' = [db EXCEPT ![n] = D] /\ links' = links
          /\ wire' = wire \cup FloodAll(n, links[n], dead)
      <3> HIDE DEF old, dead, fresh, stale
      <3>1. Change(n, D, links[n]) /\ wire' = wire \cup FloodAll(n, links[n], dead)
        BY <1>0, <1>9
      <3> HIDE DEF D, dead
      <3> QED BY <3>1 DEF Change, LsaInv, LinksOK
    <2>2. ASSUME NEW r \in old
          PROVE  /\ Withdrawn(r) \in Lsa /\ Withdrawn(r).origin = n
                 /\ Withdrawn(r).ep = e /\ Told(Withdrawn(r))
      <3> DEFINE y == [r EXCEPT !.dead = TRUE]
      <3>1. y \in Lsa /\ y.origin = n /\ y.ep = e /\ y.info = r.info /\ y.adj = r.adj
        BY <1>5 DEF Lsa
      <3> HIDE DEF y
      <3>2. /\ Bumped(y) \in Lsa /\ Bumped(y).origin = n /\ Bumped(y).ep = e
            /\ Bumped(y).info = r.info /\ Bumped(y).adj = r.adj
        BY <3>1, BumpedIs
      <3>3. Told(Bumped(y))
        BY <1>2, <1>5, <3>2 DEF Told, IsRouter
      <3> QED BY <3>2, <3>3 DEF y, Withdrawn
    <2>3. \A y \in dead : y \in Lsa /\ y.origin = n /\ y.ep = e /\ Told(y)
      BY <2>2
    <2> HIDE DEF dead
    <2>4. OneEach(D) /\ Own(n) \in D
      BY <1>1, <1>2, <1>5 DEF OneEach
    <2>5. \A r \in D \cup dead : LsaAt(n, r) /\ (IsRouter(r) => r \in Everywhere)
      BY <1>3, <1>4, <2>3
    <2>6. SentFrom(n, dead, wire')
      BY <1>1, <2>1, FloodAllIs DEF SentFrom
    <2> HIDE DEF D
    <2> QED BY <2>1, <2>4, <2>5, <2>6, OthersOnly
  <1>10. CASE UNCHANGED <<db, links, wire>>
    <2>1. db' = [db EXCEPT ![n] = db[n]] /\ SentFrom(n, {}, wire')
      BY <1>1, <1>10 DEF SentFrom
    <2> QED BY <1>1, <1>2, <1>3, <1>10, <2>1, OthersOnly
  <1> QED BY <1>0, <1>7, <1>8, <1>9, <1>10

\* Nothing changes in a database, and nothing is sent.
LEMMA QuietStep ==
    ASSUME LsaInv, OwnInv, UNCHANGED <<scn, db, links, stopped>>, wire' \subseteq wire, SpawnedOK'
    PROVE  LsaInv' /\ OwnInv'
  <1> USE StaticSame
  <1>1. DbOK' /\ LinksOK' /\ KeysInv'
    BY DEF LsaInv, DbOK, LinksOK, KeysInv, OneEach, SameKey
  <1>2. WireOK'
    <2>1. \A m \in wire' : m \in Packet /\ m.to \in Nodes /\ LsaAt(m.to, m.lsa)
      BY DEF LsaInv, WireOK, Packet
    <2> QED BY <2>1 DEF WireOK
  <1>3. Everywhere' \subseteq Everywhere
    BY DEF Everywhere
  <1>4. OwnInv'
    BY <1>3 DEF OwnInv, OwnHeld, OwnNewest, RouterLsasAgree, IsRouter, SameKey
  <1> QED BY <1>1, <1>2, <1>4 DEF LsaInv

\* The refresh timer.
LEMMA RefreshAndPurgeStep ==
    ASSUME LsaInv, OwnInv, NEW n \in Nodes, NEW S, NEW P, RefreshAndPurge(n, S, P)
    PROVE  LsaInv' /\ OwnInv'
  <1> DEFINE fresh == {Bumped(r) : r \in S}
             D == (db[n] \ (S \cup P)) \cup fresh
             o == IF Own(n) \in S THEN Bumped(Own(n)) ELSE Own(n)
  <1>0. /\ n \in Nodes \ stopped /\ scn' = scn /\ stopped' = stopped
        /\ spawned' = spawned
    BY DEF RefreshAndPurge
  <1>1. /\ S \subseteq db[n] /\ \A r \in S : r.origin = n
        /\ \A r \in P : r.origin # n
    BY DEF RefreshAndPurge
  <1>2. links[n] \subseteq Attached(n) /\ db \in [Nodes -> SUBSET Lsa] /\ OneEach(db[n])
    BY DEF LsaInv, LinksOK, DbOK, KeysInv
  <1>3. /\ Own(n) \in db[n] /\ Own(n).origin = n /\ Own(n) \in Lsa /\ IsRouter(Own(n))
        /\ \A r \in db[n] : r.origin = n /\ IsRouter(r) => r = Own(n)
    BY <1>0, OwnIs
  <1>4. /\ db' = [db EXCEPT ![n] = D] /\ links' = links
        /\ wire' = wire \cup FloodAll(n, links[n], fresh)
    <2>1. Change(n, D, links[n]) /\ wire' = wire \cup FloodAll(n, links[n], fresh)
      BY DEF RefreshAndPurge
    <2> HIDE DEF D, fresh
    <2> QED BY <2>1 DEF Change, LsaInv, LinksOK
  <1>5. \A r \in db[n] : LsaAt(n, r) /\ r \in Everywhere /\ r \in Lsa
    BY <1>2 DEF LsaInv, DbOK, Everywhere
  <1>6. ASSUME NEW r \in S
        PROVE  /\ LsaAt(n, Bumped(r)) /\ SameKey(r, Bumped(r))
               /\ IsRouter(Bumped(r)) => r = Own(n)
    <2>1. r \in Lsa /\ r.origin = n /\ LsaAt(n, r)
      BY <1>1, <1>5
    <2>2. /\ Bumped(r) \in Lsa /\ Bumped(r).origin = n /\ Bumped(r).ep = r.ep
          /\ Bumped(r).info = r.info /\ Bumped(r).adj = r.adj
      BY <2>1, BumpedIs
    <2>3. IsRouter(Bumped(r)) <=> IsRouter(r)
      BY <2>1, <2>2 DEF IsRouter
    <2>4. LsaAt(n, Bumped(r))
      BY <2>1, <2>2, <2>3, OwnLsaAt DEF LsaAt, Told
    <2>5. IsRouter(Bumped(r)) => r = Own(n)
      BY <1>1, <1>3, <2>1, <2>3
    <2> QED BY <2>1, <2>2, <2>4, <2>5 DEF SameKey
  <1>7. \A y \in fresh : \E r \in S : y = Bumped(r)
    OBVIOUS
  <1>8. OneEach(D)
    <2> SUFFICES ASSUME NEW r \in D, NEW s \in D, SameKey(r, s) PROVE r = s
      BY DEF OneEach
    <2>1. \A y \in fresh : \E z \in S : y = Bumped(z) /\ SameKey(z, y)
      BY <1>6
    <2>2. \A y \in S, z \in db[n] : SameKey(y, z) => y = z
      BY <1>1, <1>2 DEF OneEach
    <2> HIDE DEF fresh
    <2>3. \A y \in db[n] \ (S \cup P), z \in fresh : ~SameKey(y, z) /\ ~SameKey(z, y)
      BY <2>1, <2>2 DEF SameKey
    <2>4. \A y, z \in fresh : SameKey(y, z) => y = z
      BY <1>1, <2>1, <2>2 DEF SameKey
    <2> QED BY <1>2, <2>3, <2>4 DEF OneEach
  <1>9. o \in D /\ o.origin = n /\ IsRouter(o) /\ o.seq \in Nat
    <2>1. CASE Own(n) \in S
      <3>1. o = Bumped(Own(n)) /\ o \in D
        BY <2>1
      <3>2. LsaAt(n, o) /\ SameKey(Own(n), o)
        BY <1>6, <2>1, <3>1
      <3> QED BY <1>3, <3>1, <3>2 DEF LsaAt, Lsa, SameKey, IsRouter
    <2>2. CASE Own(n) \notin S
      <3>1. Own(n).seq \in Nat
        BY <1>3 DEF Lsa
      <3> QED BY <1>1, <1>3, <2>2, <3>1
    <2> QED BY <2>1, <2>2
  <1>10. o \in db[n] \/ \A r \in db[n] : r.origin = n /\ IsRouter(r) => r.seq < o.seq
    <2>1. CASE Own(n) \in S
      <3>1. o.seq = Own(n).seq + 1 /\ Own(n).seq \in Nat
        BY <1>3, <2>1, BumpedIs DEF Lsa
      <3> QED BY <1>3, <3>1
    <2>2. CASE Own(n) \notin S
      BY <1>3, <2>2
    <2> QED BY <2>1, <2>2
  <1>11. \A r \in D \cup fresh : LsaAt(n, r) /\ (IsRouter(r) => r \in Everywhere \/ r = o)
    <2> SUFFICES ASSUME NEW y \in fresh PROVE LsaAt(n, y) /\ (IsRouter(y) => y = o)
      BY <1>5
    <2>1. PICK r \in S : y = Bumped(r)
      BY <1>7
    <2> QED BY <1>6, <2>1
  <1>12. SentFrom(n, fresh, wire')
    <2> HIDE DEF fresh
    <2> QED BY <1>2, <1>4, FloodAllIs DEF SentFrom
  <1>13. RouterDoes(n, D, fresh, o)
    <2> HIDE DEF D, fresh, o
    <2> QED BY <1>4, <1>8, <1>9, <1>10, <1>11, <1>12 DEF RouterDoes
  <1>14. /\ links' \in [Nodes -> SUBSET Conns]
         /\ \A k \in Nodes : links'[k] \subseteq Attached(k)
    BY <1>4 DEF LsaInv, LinksOK
  <1> HIDE DEF D, fresh, o
  <1> QED BY <1>0, <1>13, <1>14, RouterKeeps, RouterAgrees

\* A node shuts down and withdraws what it announced.
LEMMA ShutdownStep ==
    ASSUME LsaInv, OwnInv, NEW n \in Nodes, Shutdown(n)
    PROVE  LsaInv' /\ OwnInv'
  <1> DEFINE x == [Own(n) EXCEPT !.dead = TRUE]
             o == Withdrawn(Own(n))
  <1>0. /\ n \in Nodes \ stopped /\ scn' = scn /\ stopped' = stopped \cup {n}
        /\ spawned' \subseteq spawned /\ db' = [db EXCEPT ![n] = {}]
        /\ links' = [links EXCEPT ![n] = {}]
        /\ wire' = wire \cup Flood(n, links[n], o, {})
    BY DEF Shutdown, Stop
  <1>1. Own(n) \in Lsa /\ Own(n).origin = n /\ Own(n).ep = n
    BY <1>0, OwnIs DEF IsRouter
  <1>2. x \in Lsa /\ x.origin = n /\ x.ep = n /\ x.seq = Own(n).seq /\ x.info = Own(n).info
    BY <1>1 DEF Lsa
  <1>3. o = Bumped(x)
    BY DEF Withdrawn
  <1>a. \A a \in x.adj : "Global" \in a.realms
    <2>1. x.adj = Own(n).adj
      BY <1>1 DEF Lsa
    <2> QED BY <1>0, <2>1, OwnIs DEF Told
  <1>4. /\ LsaAt(n, o) /\ o.origin = n /\ IsRouter(o) /\ o.seq \in Nat
        /\ \A r \in db[n] : r.origin = n /\ IsRouter(r) => r.seq < o.seq
    BY <1>0, <1>2, <1>3, <1>a, OwnBumped
  <1> HIDE DEF o
  <1>5. SentFrom(n, {o}, wire')
    BY <1>0, FloodIs DEF SentFrom, LsaInv, LinksOK
  <1>6. RouterDoes(n, {}, {o}, o)
    BY <1>0, <1>4, <1>5 DEF RouterDoes, OneEach
  <1>7. {} \subseteq Attached(n)
    OBVIOUS
  <1> QED BY <1>0, <1>6, <1>7, LinksSet, RouterKeeps, RouterAgrees

\* A node stops without a word.
LEMMA CrashStep ==
    ASSUME LsaInv, OwnInv, NEW n \in Nodes, Crash(n)
    PROVE  LsaInv' /\ OwnInv'
  <1>0. /\ n \in Nodes \ stopped /\ scn' = scn /\ stopped' = stopped \cup {n}
        /\ spawned' \subseteq spawned /\ db' = [db EXCEPT ![n] = {}]
        /\ links' = [links EXCEPT ![n] = {}]
        /\ wire' = wire
    BY DEF Crash, Stop
  <1>1. SentFrom(n, {}, wire')
    BY <1>0 DEF SentFrom
  <1> DEFINE none == {}
  <1>2. /\ OneEach(none) /\ \A x \in none \cup none : LsaAt(n, x) /\ (IsRouter(x) => x \in Everywhere)
        /\ db' = [db EXCEPT ![n] = none] /\ SentFrom(n, none, wire')
    BY <1>0, <1>1 DEF OneEach
  <1> HIDE DEF none
  <1>3. stopped \subseteq stopped' /\ n \in stopped'
    BY <1>0
  <1> QED BY <1>0, <1>2, <1>3, OthersOnly

-----------------------------------------------------------------------------
(* The other variables.                                                    *)

TablesOK ==
    /\ routes \in [Nodes -> [Ids -> LsRouteEntry]]
    /\ \A n \in Nodes, e \in Ids : routes[n][e].kind = "None" => routes[n][e].routes = {}

HopsOK == hop \in [Nodes -> [Nodes -> Nodes \cup {NoNode}]]

TasksOK ==
    /\ DOMAIN ends = Nodes
    /\ \A n \in Nodes : ends[n] \in [Attached(n) -> {"idle", "open", "closed"}]
    /\ lst \in [Listeners -> {"new", "open", "closed"}]
    /\ stopped \subseteq scn.mayStop

\* The fields of a listener.
LEMMA ListenerTyped ==
    ASSUME scn \in Scenarios, NEW c \in Listeners
    PROVE  /\ c \in Channels /\ c \notin Nodes
           /\ Listener[c].node \in Nodes /\ Listener[c].ep \in Endpoints
           /\ Listener[c].ep \in Ids /\ Listener[c].info \in EndpointInfo
  BY ScenariosTyped, TargetsDisjoint, NodesAreRemotes DEF ScenarioOK, Listeners, Listener, Ids

\* A computation of next hops yields neighbours, or none.
LEMMA NextHopsTyped ==
    ASSUME scn \in Scenarios, NEW n \in Nodes, NEW D, NEW K, K \subseteq Attached(n)
    PROVE  NextHops(n, D, K) \in [Nodes -> Nodes \cup {NoNode}]
  <1> DEFINE first == FirstHop(Graph(D), Dist(Graph(D)), n)
             is(m) == Reachable(Dist(Graph(D)), n, m) /\ \E l \in K : Peer(l, n) = first[m]
  <1>1. NextHops(n, D, K) = [m \in Nodes |-> IF is(m) THEN first[m] ELSE NoNode]
    BY DEF NextHops
  <1>2. \A m \in Nodes : is(m) => first[m] \in Nodes
    <2> SUFFICES ASSUME NEW m \in Nodes, NEW l \in K, Peer(l, n) = first[m]
                 PROVE  first[m] \in Nodes
      OBVIOUS
    <2> HIDE DEF first
    <2> QED BY PeerAttached
  <1> HIDE DEF is, first
  <1> QED BY <1>1, <1>2

\* Next hops are recomputed from the database and stay typed.
LEMMA ChangeHops ==
    ASSUME scn \in Scenarios, HopsOK, NEW n \in Nodes, NEW D, NEW K, K \subseteq Attached(n),
           Change(n, D, K)
    PROVE  HopsOK'
  BY NextHopsTyped DEF HopsOK, Change

\* An absent entry is an entry.
LEMMA NoEntryTyped ==
    NoEntry \in LsRouteEntry /\ NoEntry.routes = {} /\ NoEntry.kind = "None"
  BY DEF NoEntry, LsRouteEntry

\* handle_lsa keeps the route tables typed.
LEMMA HandleLsaTables ==
    ASSUME LsaInv, TablesOK, NEW n \in Nodes, NEW in \in wire, HandleLsa(n, in)
    PROVE  TablesOK'
  <1> DEFINE x == in.lsa
  <1>1. x \in Lsa /\ x.origin \in Nodes /\ x.ep \in Ids /\ x.info \in EndpointInfo
    BY DEF LsaInv, WireOK, Packet, Lsa
  <1>2. \A e \in Ids : routes[n][e] \in LsRouteEntry
    BY DEF TablesOK
  <1>3. ASSUME NEW E, routes' = [routes EXCEPT ![n] = Forget(@, E, x.origin)]
        PROVE  TablesOK'
    <2> DEFINE T == Forget(routes[n], E, x.origin)
    <2>1. \A e \in Ids : T[e] \in LsRouteEntry /\ (T[e].kind = "None" => T[e].routes = {})
      <3> SUFFICES ASSUME NEW e \in Ids
                   PROVE  T[e] \in LsRouteEntry /\ (T[e].kind = "None" => T[e].routes = {})
        OBVIOUS
      <3>1. T[e] = IF e \in E THEN RemoveRemoteEndpoint(routes[n][e], x.origin) ELSE routes[n][e]
        BY DEF Forget
      <3> QED BY <1>2, <3>1, RemoveRemoteEndpointResult DEF TablesOK
    <2>2. T \in [Ids -> LsRouteEntry]
      BY <2>1 DEF Forget
    <2>3. routes' = [routes EXCEPT ![n] = T]
      BY <1>3
    <2> HIDE DEF T
    <2> QED BY <2>1, <2>2, <2>3 DEF TablesOK
  <1>4. CASE RemoveDead(n, x, in)
    BY <1>3, <1>4 DEF RemoveDead
  <1>5. CASE Upsert(n, x, in)
    <2> DEFINE add == AddRemoteEndpoint(routes[n][x.ep], x.origin, x.info)
    <2>1. add.entry \in LsRouteEntry /\ add.entry.kind # "None"
      <3>1. /\ routes[n][x.ep] \in LsRouteEntry /\ x.origin \in Remotes
            /\ routes[n][x.ep].kind = "None" => routes[n][x.ep].routes = {}
        BY <1>1, NodesAreRemotes DEF TablesOK
      <3> HIDE DEF x
      <3> QED BY <1>1, <3>1, AddRemoteEndpointResult
    <2>2. routes' = [routes EXCEPT ![n][x.ep] = add.entry]
      BY <1>5 DEF Upsert
    <2> HIDE DEF add
    <2> QED BY <1>1, <2>1, <2>2 DEF TablesOK
  <1>6. CASE UNCHANGED routes
    BY <1>6 DEF TablesOK
  <1> QED BY <1>4, <1>5, <1>6 DEF HandleLsa

\* What an operation of the route table leaves behind.
LEMMA EntrySet ==
    ASSUME TablesOK, NEW n \in Nodes, NEW e \in Ids, NEW entry \in LsRouteEntry,
           entry.kind = "None" => entry.routes = {},
           routes' = [routes EXCEPT ![n][e] = entry]
    PROVE  TablesOK'
  BY DEF TablesOK

\* RegisterEndpoint keeps the route tables typed.
LEMMA RegisterEndpointTables ==
    ASSUME LsaInv, TablesOK, NEW c \in Listeners, RegisterEndpoint(c)
    PROVE  TablesOK'
  <1> DEFINE n == Listener[c].node
             e == Listener[c].ep
             add == AddEndpoint(routes[n][e], Listener[c].info, c)
  <1>1. c \in Channels /\ n \in Nodes /\ e \in Ids /\ Listener[c].info \in EndpointInfo
    BY ListenerTyped DEF LsaInv
  <1>2. routes[n][e] \in LsRouteEntry /\ (routes[n][e].kind = "None" => routes[n][e].routes = {})
    BY <1>1 DEF TablesOK
  <1>3. /\ add.entry \in LsRouteEntry
        /\ add.ok \in BOOLEAN
        /\ ~add.ok => add.entry = routes[n][e]
        /\ add.ok => add.entry.kind = Listener[c].info.kind
    BY <1>1, <1>2, AddEndpointResult
  <1>4. routes' = [routes EXCEPT ![n][e] = add.entry]
    BY DEF RegisterEndpoint
  <1>5. add.entry.kind = "None" => add.entry.routes = {}
    BY <1>1, <1>2, <1>3 DEF EndpointInfo, Kinds
  <1> HIDE DEF add, n, e
  <1> QED BY <1>1, <1>3, <1>4, <1>5, EntrySet

\* set_cost keeps the route tables typed.
LEMMA SetCostTables ==
    ASSUME LsaInv, TablesOK, NEW c \in Listeners, NEW k \in Nat, SetCost(c, k)
    PROVE  TablesOK'
  <1> DEFINE n == Listener[c].node
             e == Listener[c].ep
             set == SetAnycastCost(routes[n][e], c, k)
  <1>1. c \in Channels /\ n \in Nodes /\ e \in Ids
    BY ListenerTyped DEF LsaInv
  <1>2. routes[n][e] \in LsRouteEntry /\ (routes[n][e].kind = "None" => routes[n][e].routes = {})
    BY <1>1 DEF TablesOK
  <1>3. /\ set.entry \in LsRouteEntry /\ set.entry.kind = routes[n][e].kind
        /\ Targets(set.entry) = Targets(routes[n][e])
    BY <1>1, <1>2, SetAnycastCostResult
  <1>4. routes' = [routes EXCEPT ![n][e] = set.entry]
    BY DEF SetCost
  <1>5. set.entry.kind = "None" => set.entry.routes = {}
    BY <1>2, <1>3 DEF Targets
  <1> HIDE DEF set, n, e
  <1> QED BY <1>1, <1>3, <1>4, <1>5, EntrySet

\* dead_link keeps the route tables typed.
LEMMA DeadLinkTables ==
    ASSUME LsaInv, TablesOK, NEW n \in Nodes, NEW e \in Endpoints, DeadLink(n, e)
    PROVE  TablesOK'
  <1> DEFINE rem == RemoveEndpoint(routes[n][e], Closed)
  <1>1. e \in Ids /\ routes[n][e] \in LsRouteEntry
        /\ (routes[n][e].kind = "None" => routes[n][e].routes = {})
    BY DEF TablesOK, Ids
  <1>2. /\ rem.entry \in LsRouteEntry
        /\ rem.entry.routes = {r \in routes[n][e].routes : r.via \notin Closed}
        /\ rem.entry.routes = {} \/ rem.entry.kind = routes[n][e].kind
    BY <1>1, RemoveEndpointResult
  <1>3. routes' = [routes EXCEPT ![n][e] = rem.entry]
    BY DEF DeadLink
  <1>4. rem.entry.kind = "None" => rem.entry.routes = {}
    BY <1>1, <1>2
  <1> HIDE DEF rem
  <1> QED BY <1>1, <1>2, <1>3, <1>4, EntrySet

\* A node that stops keeps the route tables typed.
LEMMA StopTables ==
    ASSUME TablesOK, NEW n \in Nodes, Stop(n)
    PROVE  TablesOK'
  <1>1. [e \in Ids |-> NoEntry] \in [Ids -> LsRouteEntry]
    BY NoEntryTyped
  <1> QED BY <1>1, NoEntryTyped DEF TablesOK, Stop

\* Carrying out a route table's effect keeps the next hops typed.
LEMMA CarryOutHops ==
    ASSUME LsaInv, HopsOK, NEW n \in Nodes, NEW e, NEW info, NEW effect,
           CarryOut(n, e, info, effect)
    PROVE  HopsOK'
  <1>1. (\E D : Change(n, D, links[n])) \/ UNCHANGED hop
    BY DEF CarryOut
  <1>2. scn \in Scenarios /\ links[n] \subseteq Attached(n)
    BY DEF LsaInv, LinksOK
  <1> QED BY <1>1, <1>2, ChangeHops DEF HopsOK

\* Registration, change of cost and removal, with what they leave to the database.
LEMMA RegisterEndpointStep ==
    ASSUME LsaInv, OwnInv, TablesOK, NEW c \in Listeners, RegisterEndpoint(c)
    PROVE  LsaInv' /\ OwnInv'
  <1> DEFINE n == Listener[c].node
             e == Listener[c].ep
             info == Listener[c].info
             effect == AddEndpoint(routes[n][e], info, c).effect
  <1>1. c \in Channels /\ n \in Nodes \ stopped /\ e \in Endpoints /\ e \in Ids /\ info \in EndpointInfo
    BY ListenerTyped DEF LsaInv, RegisterEndpoint
  <1>2. routes[n][e] \in LsRouteEntry
    BY <1>1 DEF TablesOK
  <1>3. EffectOK(effect)
    BY <1>1, <1>2, AddEffectOK
  <1>4. Told(NewLsa(n, e, info))
    BY <1>1, NamesDisjoint DEF Told, NewLsa, IsRouter
  <1>5. CarryOut(n, e, info, effect) /\ scn' = scn /\ stopped' = stopped /\ spawned' = spawned
    BY DEF RegisterEndpoint
  <1> HIDE DEF n, e, info, effect
  <1> QED BY <1>1, <1>3, <1>4, <1>5, CarryOutStep

\* set_cost
LEMMA SetCostStep ==
    ASSUME LsaInv, OwnInv, TablesOK, NEW c \in Listeners, NEW k \in Nat, SetCost(c, k)
    PROVE  LsaInv' /\ OwnInv'
  <1> DEFINE n == Listener[c].node
             e == Listener[c].ep
             info == Listener[c].info
             effect == SetAnycastCost(routes[n][e], c, k).effect
  <1>1. c \in Channels /\ n \in Nodes \ stopped /\ e \in Endpoints /\ e \in Ids /\ info \in EndpointInfo
    BY ListenerTyped DEF LsaInv, SetCost
  <1>2. routes[n][e] \in LsRouteEntry
    BY <1>1 DEF TablesOK
  <1>3. EffectOK(effect)
    BY <1>1, <1>2, SetEffectOK
  <1>4. effect.lsa # "Add"
    BY DEF SetAnycastCost, UpdateLsa, Noop
  <1>5. CarryOut(n, e, info, effect) /\ scn' = scn /\ stopped' = stopped /\ spawned' = spawned
    BY DEF SetCost
  <1> HIDE DEF n, e, info, effect
  <1> QED BY <1>1, <1>3, <1>4, <1>5, CarryOutStep

\* dead_link
LEMMA DeadLinkStep ==
    ASSUME LsaInv, OwnInv, TablesOK, NEW n \in Nodes, NEW e \in Endpoints, DeadLink(n, e)
    PROVE  LsaInv' /\ OwnInv'
  <1> DEFINE effect == RemoveEndpoint(routes[n][e], Closed).effect
  <1>1. n \in Nodes \ stopped /\ routes[n][e] \in LsRouteEntry
    BY DEF DeadLink, TablesOK, Ids
  <1>2. NodeInfo \in EndpointInfo
    BY DEF NodeInfo, EndpointInfo, Kinds, Realms
  <1>3. EffectOK(effect)
    BY <1>1, RemoveEffectOK
  <1>4. effect.lsa # "Add"
    BY DEF RemoveEndpoint, UpdateLsa, Noop, RemoveLsa, RebuildFib
  <1>5. CarryOut(n, e, NodeInfo, effect) /\ scn' = scn /\ stopped' = stopped /\ spawned' \subseteq spawned
    BY DEF DeadLink
  <1> HIDE DEF effect
  <1> QED BY <1>1, <1>2, <1>3, <1>4, <1>5, CarryOutStep

-----------------------------------------------------------------------------
IInv == LsaInv /\ OwnInv /\ TablesOK /\ HopsOK /\ TasksOK

\* The invariant holds at the start.
LEMMA InitIInv == Init => IInv
  <1> SUFFICES ASSUME Init PROVE IInv
    OBVIOUS
  <1>1. scn \in Scenarios
    BY DEF Init
  <1>2. \A n \in Nodes : NewLsa(n, n, NodeInfo) \in Lsa /\ LsaAt(n, NewLsa(n, n, NodeInfo))
    <2> SUFFICES ASSUME NEW n \in Nodes
                 PROVE  NewLsa(n, n, NodeInfo) \in Lsa /\ LsaAt(n, NewLsa(n, n, NodeInfo))
      OBVIOUS
    <2>1. NodeInfo \in EndpointInfo
      BY DEF NodeInfo, EndpointInfo, Kinds, Realms
    <2>2. NewLsa(n, n, NodeInfo) \in Lsa
      BY <2>1 DEF NewLsa, Lsa, Ids
    <2>3. /\ Told(NewLsa(n, n, NodeInfo)) /\ NewLsa(n, n, NodeInfo).origin = n
      BY DEF NewLsa, Told, IsRouter, NodeInfo
    <2> QED BY <2>2, <2>3, OwnLsaAt
  <1>3. LsaInv
    BY <1>1, <1>2 DEF LsaInv, DbOK, WireOK, LinksOK, SpawnedOK, KeysInv, OneEach, Init
  <1>4. OwnInv
    <2>1. \A x \in Everywhere : x.origin \in Nodes /\ x = NewLsa(x.origin, x.origin, NodeInfo)
      BY DEF Init, Everywhere, NewLsa
    <2>2. \A n \in Nodes : NewLsa(n, n, NodeInfo).seq = 0
      BY DEF NewLsa
    <2>3. OwnHeld
      BY DEF OwnHeld, Init, IsRouter, NewLsa
    <2>4. OwnNewest
      <3>1. \A n \in Nodes : \A r \in db[n] : r.seq = 0
        BY <2>2 DEF Init
      <3>2. \A x \in Everywhere : x.seq = 0
        BY <2>1, <2>2
      <3> QED BY <3>1, <3>2 DEF OwnNewest
    <2>5. RouterLsasAgree
      BY <2>1 DEF RouterLsasAgree, SameKey, Copy
    <2> QED BY <2>3, <2>4, <2>5 DEF OwnInv
  <1>5. TablesOK
    BY NoEntryTyped DEF TablesOK, Init
  <1>6. HopsOK
    BY DEF HopsOK, Init
  <1>7. TasksOK
    BY DEF TasksOK, Init
  <1> QED BY <1>3, <1>4, <1>5, <1>6, <1>7 DEF IInv

\* Peer tasks and receivers only tell their router about themselves.
LEMMA TaskSteps ==
    ASSUME IInv,
           \/ \E n \in Nodes, l \in Conns : StartPeer(n, l) \/ StopPeer(n, l)
           \/ \E c \in Listeners : CloseListener(c)
    PROVE  IInv'
  <1> USE StaticSame
  <1>1. UNCHANGED <<scn, db, links, hop, routes, wire, stopped>>
    BY DEF StartPeer, StopPeer, CloseListener
  <1>2. SpawnedOK'
    <2>1. ASSUME NEW n \in Nodes, NEW l \in Attached(n), NEW t \in {"RegisterPeer", "UnRegisterPeer"}
          PROVE  LET m == PeerMsg(t, n, l)
                 IN  m.node \in Nodes /\ m.type = t /\ m.conn \in Attached(m.node)
      BY DEF PeerMsg
    <2>2. ASSUME NEW c \in Listeners
          PROVE  LET m == DeadLinkMsg(Listener[c].node, Listener[c].ep)
                 IN  m.node \in Nodes /\ m.type = "DeadLink" /\ m.ep \in Endpoints
      BY ListenerTyped DEF DeadLinkMsg, IInv, LsaInv
    <2>3. ASSUME NEW m \in spawned'
          PROVE  \/ m \in spawned
                 \/ \E n \in Nodes : \E l \in Attached(n) :
                       m \in {PeerMsg("RegisterPeer", n, l), PeerMsg("UnRegisterPeer", n, l)}
                 \/ \E c \in Listeners : m = DeadLinkMsg(Listener[c].node, Listener[c].ep)
      <3>1. CASE \E n \in Nodes, l \in Conns : StartPeer(n, l)
        BY <3>1 DEF StartPeer
      <3>2. CASE \E n \in Nodes, l \in Conns : StopPeer(n, l)
        BY <3>2 DEF StopPeer
      <3>3. CASE \E c \in Listeners : CloseListener(c)
        BY <3>3 DEF CloseListener
      <3> QED BY <3>1, <3>2, <3>3
    <2>4. ASSUME NEW m \in spawned'
          PROVE  /\ m.node \in Nodes
                 /\ \/ m.type \in {"RegisterPeer", "UnRegisterPeer"} /\ m.conn \in Attached(m.node)
                    \/ m.type = "DeadLink" /\ m.ep \in Endpoints
      <3>1. CASE m \in spawned
        BY <3>1 DEF IInv, LsaInv, SpawnedOK
      <3>2. CASE m \notin spawned
        BY <2>1, <2>2, <2>3, <3>2
      <3> QED BY <3>1, <3>2
    <2> QED BY <1>1, <2>4 DEF SpawnedOK
  <1>3. LsaInv' /\ OwnInv'
    BY <1>1, <1>2, QuietStep DEF IInv
  <1>4. TablesOK' /\ HopsOK'
    BY <1>1 DEF IInv, TablesOK, HopsOK
  <1>5. TasksOK'
    <2>1. CASE \E n \in Nodes, l \in Conns : StartPeer(n, l) \/ StopPeer(n, l)
      <3>1. PICK n \in Nodes, l \in Conns : StartPeer(n, l) \/ StopPeer(n, l)
        BY <2>1
      <3>2. PICK v \in {"open", "closed"} : ends' = [ends EXCEPT ![n][l] = v]
        BY <3>1 DEF StartPeer, StopPeer
      <3>3. lst' = lst
        BY <3>1 DEF StartPeer, StopPeer
      <3> QED BY <1>1, <3>2, <3>3 DEF TasksOK, IInv, Listeners, Listener
    <2>2. CASE \E c \in Listeners : CloseListener(c)
      BY <1>1, <2>2 DEF CloseListener, TasksOK, IInv, Listeners, Listener
    <2> QED BY <2>1, <2>2
  <1> QED BY <1>3, <1>4, <1>5 DEF IInv

\* Every step keeps the invariant.
LEMMA NextIInv == IInv /\ [Next]_vars => IInv'
  <1> SUFFICES ASSUME IInv, [Next]_vars PROVE IInv'
    OBVIOUS
  <1> USE DEF IInv
  <1>0. scn \in Scenarios /\ \A n \in Nodes : links[n] \subseteq Attached(n)
    BY DEF LsaInv, LinksOK
  <1>1. ASSUME UNCHANGED <<scn, ends, lst, stopped>> PROVE TasksOK'
    BY <1>1, StaticSame DEF TasksOK, Listeners, Listener
  <1>2. ASSUME NEW n \in Nodes, NEW l \in Conns, RegisterPeer(n, l) PROVE IInv'
    <2>1. l \in Attached(n)
      BY <1>2 DEF RegisterPeer, PeerMsg, LsaInv, SpawnedOK
    <2>2. \E D : Change(n, D, links[n] \cup {l})
      BY <1>2 DEF RegisterPeer
    <2>3. links[n] \cup {l} \subseteq Attached(n)
      BY <1>0, <2>1
    <2>4. HopsOK'
      BY <1>0, <2>2, <2>3, ChangeHops
    <2>5. TablesOK' /\ TasksOK'
      BY <1>1, <1>2 DEF RegisterPeer, TablesOK
    <2> QED BY <1>2, <2>4, <2>5, RegisterPeerStep
  <1>3. ASSUME NEW n \in Nodes, NEW l \in Conns, UnRegisterPeer(n, l) PROVE IInv'
    <2>1. TablesOK' /\ TasksOK'
      BY <1>1, <1>3 DEF UnRegisterPeer, TablesOK
    <2>2. CASE l \in links[n]
      <3>1. \E D : Change(n, D, links[n] \ {l})
        BY <1>3, <2>2 DEF UnRegisterPeer
      <3>2. links[n] \ {l} \subseteq Attached(n)
        BY <1>0
      <3>3. HopsOK'
        BY <1>0, <3>1, <3>2, ChangeHops
      <3> QED BY <1>3, <2>1, <2>2, <3>3, UnRegisterPeerStep
    <2>3. CASE l \notin links[n]
      <3>1. UNCHANGED <<scn, db, links, hop, wire, stopped>> /\ spawned' \subseteq spawned
        BY <1>3, <2>3 DEF UnRegisterPeer
      <3>2. SpawnedOK'
        BY <3>1, StaticSame DEF LsaInv, SpawnedOK
      <3>3. HopsOK'
        BY <3>1 DEF HopsOK
      <3> QED BY <2>1, <3>1, <3>2, <3>3, QuietStep
    <2> QED BY <2>2, <2>3
  <1>4. ASSUME NEW n \in Nodes, NEW in \in wire, HandleLsa(n, in) PROVE IInv'
    <2>1. (\E D : Change(n, D, links[n])) \/ UNCHANGED hop
      BY <1>4 DEF HandleLsa, RemoveDead, Upsert
    <2>2. HopsOK'
      BY <1>0, <2>1, ChangeHops DEF HopsOK
    <2>3. TasksOK'
      BY <1>1, <1>4 DEF HandleLsa
    <2> QED BY <1>4, <2>2, <2>3, HandleLsaStep, HandleLsaTables
  <1>5. ASSUME NEW n \in Nodes, NEW e \in Endpoints, DeadLink(n, e) PROVE IInv'
    <2>1. HopsOK'
      BY <1>5, CarryOutHops DEF DeadLink
    <2>2. TasksOK'
      BY <1>1, <1>5 DEF DeadLink
    <2> QED BY <1>5, <2>1, <2>2, DeadLinkStep, DeadLinkTables
  <1>6. ASSUME NEW n \in Nodes, NEW S, NEW P, RefreshAndPurge(n, S, P) PROVE IInv'
    <2>1. \E D : Change(n, D, links[n])
      BY <1>6 DEF RefreshAndPurge
    <2>2. HopsOK'
      BY <1>0, <2>1, ChangeHops
    <2>3. TablesOK' /\ TasksOK'
      BY <1>1, <1>6 DEF RefreshAndPurge, TablesOK
    <2> QED BY <1>6, <2>2, <2>3, RefreshAndPurgeStep
  <1>7. ASSUME NEW n \in Nodes, Shutdown(n) \/ Crash(n) PROVE IInv'
    <2>1. Stop(n)
      BY <1>7 DEF Shutdown, Crash
    <2>2. HopsOK' /\ TablesOK'
      BY <2>1, StopTables DEF HopsOK, Stop
    <2>3. TasksOK'
      <3>1. DOMAIN ends' = Nodes /\ \A k \in Nodes : ends'[k] \in [Attached(k) -> {"idle", "open", "closed"}]
        BY <1>7 DEF Shutdown, Crash, TasksOK
      <3>2. lst' \in [Listeners -> {"new", "open", "closed"}]
        BY <2>1 DEF Stop, TasksOK
      <3> QED BY <2>1, <3>1, <3>2, StaticSame DEF Stop, TasksOK, Listeners, Listener
    <2> QED BY <1>7, <2>2, <2>3, ShutdownStep, CrashStep
  <1>8. ASSUME NEW c \in Listeners, RegisterEndpoint(c) PROVE IInv'
    <2>0. Listener[c].node \in Nodes
      BY <1>0, ListenerTyped
    <2>1. HopsOK'
      BY <1>8, <2>0, CarryOutHops DEF RegisterEndpoint
    <2>2. TasksOK'
      BY <1>8, StaticSame DEF RegisterEndpoint, TasksOK, Listeners, Listener
    <2> QED BY <1>8, <2>1, <2>2, RegisterEndpointStep, RegisterEndpointTables
  <1>9. ASSUME NEW c \in Listeners, NEW k \in scn.costs, SetCost(c, k) PROVE IInv'
    <2>0. Listener[c].node \in Nodes /\ k \in Nat
      BY <1>0, ListenerTyped, ScenariosTyped DEF ScenarioOK
    <2>1. HopsOK'
      BY <1>9, <2>0, CarryOutHops DEF SetCost
    <2>2. TasksOK'
      BY <1>1, <1>9 DEF SetCost
    <2> QED BY <1>9, <2>0, <2>1, <2>2, SetCostStep, SetCostTables
  <1>10. ASSUME NEW in \in wire, Lose(in) PROVE IInv'
    <2>1. /\ UNCHANGED <<scn, db, links, hop, routes, ends, lst, stopped, spawned>>
          /\ wire' \subseteq wire
      BY <1>10 DEF Lose
    <2>2. SpawnedOK'
      BY <2>1, StaticSame DEF LsaInv, SpawnedOK
    <2>3. TablesOK' /\ HopsOK' /\ TasksOK'
      BY <1>1, <2>1 DEF TablesOK, HopsOK
    <2> QED BY <2>1, <2>2, <2>3, QuietStep
  <1>11. ASSUME UNCHANGED vars PROVE IInv'
    <2>1. UNCHANGED <<scn, db, links, hop, routes, ends, lst, stopped, spawned, wire>>
      BY <1>11 DEF vars
    <2>2. SpawnedOK'
      BY <2>1, StaticSame DEF LsaInv, SpawnedOK
    <2>3. TablesOK' /\ HopsOK' /\ TasksOK'
      BY <1>1, <2>1 DEF TablesOK, HopsOK
    <2> QED BY <2>1, <2>2, <2>3, QuietStep
  <1> HIDE DEF IInv
  <1> QED
    BY <1>2, <1>3, <1>4, <1>5, <1>6, <1>7, <1>8, <1>9, <1>10, <1>11, TaskSteps
    DEF Next, PeerNext, RouterNext, TimerNext, ListenerNext

\* The variables of every network keep their types, and a database one record
\* per key.
THEOREM TypeCorrect == Spec => []TypeOK
  <1>1. IInv => TypeOK
    <2> SUFFICES ASSUME IInv PROVE TypeOK
      OBVIOUS
    <2>1. \A n \in Nodes : db[n] \subseteq Lsa /\ links[n] \subseteq Attached(n)
      BY DEF IInv, LsaInv, DbOK, LinksOK
    <2>2. \A n \in Nodes : \A r, s \in db[n] : SameKey(r, s) => r = s
      BY DEF IInv, LsaInv, KeysInv, OneEach
    <2>3. \A m \in wire : m.conn \in Conns /\ m.to \in Nodes /\ m.lsa \in Lsa
      BY DEF IInv, LsaInv, WireOK, Packet
    <2> QED BY <2>1, <2>2, <2>3 DEF IInv, TypeOK, TablesOK, HopsOK, TasksOK
  <1> QED BY <1>1, InitIInv, NextIInv, PTL DEF Spec

\* An LSA never gets to a node that connections of its realm do not lead to, in
\* any network, whatever is flooded, lost, refreshed or synchronised
\* (Link::send_lsa).
THEOREM RealmsAreKept == Spec => []RealmConfinement
  <1>1. IInv => RealmConfinement
    BY DEF IInv, LsaInv, DbOK, LsaAt, RealmConfinement
  <1> QED BY <1>1, InitIInv, NextIInv, PTL DEF Spec

\* A node and a sequence number are one Router LSA, in every database and on
\* every wire, up to the realms of adjacencies, which Link::send_lsa narrows: what
\* a router refuses as not newer it has (LsDb::handle_lsa).
THEOREM RouterLsasAreOne == Spec => []RouterLsasAgree
  <1>1. IInv => RouterLsasAgree
    BY DEF IInv, OwnInv
  <1> QED BY <1>1, InitIInv, NextIInv, PTL DEF Spec

-----------------------------------------------------------------------------
(* Routes and the database.                                                *)

\* The listeners a node has for an endpoint are of one kind.
KindsAgree ==
    \A s \in Scenarios : \A c, d \in DOMAIN s.listener :
        s.listener[c].node = s.listener[d].node /\ s.listener[c].ep = s.listener[d].ep
            => s.listener[c].info.kind = s.listener[d].info.kind

BackedBy(x, e, r, kind) ==
    /\ x.origin = r.via /\ x.ep = e
    /\ x.info.cost = r.cost /\ x.info.realm = r.realm /\ x.info.kind = kind

\* A route to another node has its LSA, of the kind of the entry.
BackedAt(n) ==
    \A e \in Ids : \A r \in routes[n][e].routes :
        r.via \in Nodes => r.via # n /\ \E x \in db[n] : BackedBy(x, e, r, routes[n][e].kind)

Backed == scn.timers = {} => \A n \in Nodes : BackedAt(n)

\* Two LSAs of one node for one endpoint name one kind.
LEMMA KindsSame ==
    ASSUME KindsAgree, scn \in Scenarios, NEW x, NEW y, Told(x), Told(y), SameKey(x, y)
    PROVE  x.info.kind = y.info.kind
  BY DEF KindsAgree, Told, SameKey, IsRouter, Listeners, Listener

\* Nobody but node n has changed anything.
LEMMA BackedElsewhere ==
    ASSUME Backed, NEW n \in Nodes, scn' = scn,
           \A k \in Nodes \ {n} : db'[k] = db[k] /\ routes'[k] = routes[k],
           scn.timers = {} => BackedAt(n)'
    PROVE  Backed'
  <1> SUFFICES ASSUME scn.timers = {}, NEW k \in Nodes, k # n PROVE BackedAt(k)'
    BY DEF Backed
  <1>1. db'[k] = db[k] /\ routes'[k] = routes[k] /\ BackedAt(k)
    BY DEF Backed
  <1> QED BY <1>1 DEF BackedAt, BackedBy

\* No route to another node is new, and no LSA of another node goes.
LEMMA BackedStays ==
    ASSUME Backed, scn' = scn, NEW n \in Nodes,
           \A k \in Nodes \ {n} : db'[k] = db[k] /\ routes'[k] = routes[k],
           \A x \in db[n] : x.origin # n => x \in db'[n],
           \A e \in Ids : \A r \in routes'[n][e].routes :
              r.via \in Nodes => r \in routes[n][e].routes /\ routes'[n][e].kind = routes[n][e].kind
    PROVE  Backed'
  <1>1. ASSUME scn.timers = {} PROVE BackedAt(n)'
    <2>0. BackedAt(n)
      BY <1>1 DEF Backed
    <2> SUFFICES ASSUME NEW e \in Ids, NEW r \in routes'[n][e].routes, r.via \in Nodes
                 PROVE  r.via # n /\ \E x \in db'[n] : BackedBy(x, e, r, routes'[n][e].kind)
      BY DEF BackedAt, BackedBy
    <2>1. /\ r.via # n
          /\ routes'[n][e].kind = routes[n][e].kind
          /\ \E x \in db[n] : BackedBy(x, e, r, routes[n][e].kind)
      BY <2>0 DEF BackedAt
    <2>2. PICK x \in db[n] : BackedBy(x, e, r, routes[n][e].kind)
      BY <2>1
    <2>3. x \in db'[n]
      BY <2>1, <2>2 DEF BackedBy
    <2> QED BY <2>1, <2>2, <2>3
  <1> QED BY <1>1, BackedElsewhere

\* An LSA and its route come together.
LEMMA UpsertBacked ==
    ASSUME KindsAgree, IInv, Backed, scn' = scn, NEW n \in Nodes, NEW in \in wire, in.to = n,
           ~Ignored(n, in.lsa), Upsert(n, in.lsa, in)
    PROVE  Backed'
  <1>1. PICK x : x = in.lsa
    OBVIOUS
  <1>2. /\ x \in Lsa /\ x.origin \in Nodes /\ x.ep \in Ids /\ x.info \in EndpointInfo /\ Told(x)
        /\ x.origin # n
    BY <1>1 DEF IInv, LsaInv, WireOK, Packet, LsaAt, Lsa, Ignored
  <1>3. PICK entry : entry = routes[n][x.ep]
    OBVIOUS
  <1>4. entry \in LsRouteEntry /\ (entry.kind = "None" => entry.routes = {})
    BY <1>2, <1>3 DEF IInv, TablesOK
  <1>5. PICK new : new = AddRemoteEndpoint(entry, x.origin, x.info).entry
    OBVIOUS
  <1>6. /\ new.kind = entry.kind \/ entry.kind = "None"
        /\ \/ /\ new.routes = entry.routes
              /\ entry.kind = x.info.kind => \A r \in entry.routes : r.via # x.origin
           \/ /\ new.kind = x.info.kind
              /\ new.routes = {r \in entry.routes : r.via # x.origin} \cup {Route(x.origin, x.info)}
    BY <1>2, <1>4, <1>5, AddRemoteEndpointResult, NodesAreRemotes
  <1>7. /\ db' = [db EXCEPT ![n] = Insert(db[n], x)]
        /\ routes' = [routes EXCEPT ![n][x.ep] = new]
    BY <1>1, <1>3, <1>5 DEF Upsert, Change
  <1>8. /\ db'[n] = Insert(db[n], x)
        /\ routes'[n][x.ep] = new
        /\ \A e \in Ids \ {x.ep} : routes'[n][e] = routes[n][e]
        /\ \A k \in Nodes \ {n} : db'[k] = db[k] /\ routes'[k] = routes[k]
    BY <1>2, <1>7 DEF IInv, LsaInv, DbOK, TablesOK
  <1>9. x \in db'[n] /\ \A y \in db[n] : SameKey(y, x) \/ y \in db'[n]
    BY <1>8, InsertIs DEF IInv, LsaInv, KeysInv
  <1>10. \A y \in db[n] : SameKey(y, x) => y.info.kind = x.info.kind
    BY <1>2, KindsSame DEF IInv, LsaInv, DbOK, LsaAt
  <1>11. ASSUME scn.timers = {} PROVE BackedAt(n)'
    <2> SUFFICES ASSUME NEW e \in Ids, NEW r \in routes'[n][e].routes, r.via \in Nodes
                 PROVE  r.via # n /\ \E y \in db'[n] : BackedBy(y, e, r, routes'[n][e].kind)
      BY DEF BackedAt, BackedBy
    <2>0. BackedAt(n)
      BY <1>11 DEF Backed
    <2>1. CASE e # x.ep
      <3>1. r \in routes[n][e].routes /\ routes'[n][e] = routes[n][e]
        BY <1>8, <2>1
      <3>2. r.via # n /\ \E y \in db[n] : BackedBy(y, e, r, routes[n][e].kind)
        BY <2>0, <3>1 DEF BackedAt
      <3>3. PICK y \in db[n] : BackedBy(y, e, r, routes[n][e].kind)
        BY <3>2
      <3>4. ~SameKey(y, x)
        BY <2>1, <3>3 DEF SameKey, BackedBy
      <3> QED BY <1>9, <3>1, <3>2, <3>3, <3>4
    <2>2. CASE e = x.ep /\ r \in entry.routes
      <3>1. r.via # n /\ \E y \in db[n] : BackedBy(y, e, r, entry.kind)
        BY <1>3, <2>0, <2>2 DEF BackedAt
      <3>2. PICK y \in db[n] : BackedBy(y, e, r, entry.kind)
        BY <3>1
      <3>3. new.kind = entry.kind
        BY <1>4, <1>6, <2>2
      <3>4. r \in new.routes
        BY <1>8, <2>2
      <3>5. CASE r.via # x.origin
        <4>1. ~SameKey(y, x)
          BY <3>2, <3>5 DEF SameKey, BackedBy
        <4> QED BY <1>8, <1>9, <2>2, <3>1, <3>2, <3>3, <4>1
      <3>6. CASE r.via = x.origin
        <4>1. entry.kind = x.info.kind
          BY <1>10, <2>2, <3>2, <3>6 DEF SameKey, BackedBy
        <4>2. r = Route(x.origin, x.info)
          BY <1>6, <2>2, <3>4, <3>6, <4>1
        <4>3. BackedBy(x, e, r, new.kind)
          BY <1>2, <2>2, <3>3, <4>1, <4>2 DEF BackedBy, Route
        <4> QED BY <1>8, <1>9, <2>2, <3>1, <4>3
      <3> QED BY <3>5, <3>6
    <2>3. CASE e = x.ep /\ r \notin entry.routes
      <3>1. r = Route(x.origin, x.info) /\ new.kind = x.info.kind
        BY <1>6, <1>8, <2>3
      <3>2. BackedBy(x, e, r, new.kind) /\ r.via # n
        BY <1>2, <2>3, <3>1 DEF BackedBy, Route
      <3> QED BY <1>8, <1>9, <2>3, <3>2
    <2> QED BY <2>1, <2>2, <2>3
  <1> QED BY <1>8, <1>11, BackedElsewhere

\* An LSA takes its route along.
LEMMA RemoveDeadBacked ==
    ASSUME IInv, Backed, scn' = scn, NEW n \in Nodes, NEW in \in wire, in.to = n,
           ~Ignored(n, in.lsa), RemoveDead(n, in.lsa, in)
    PROVE  Backed'
  <1>1. PICK x : x = in.lsa
    OBVIOUS
  <1>2. x.origin # n
    BY <1>1 DEF Ignored
  <1>3. \A e \in Ids : routes[n][e] \in LsRouteEntry
    BY DEF IInv, TablesOK
  <1>4. ASSUME NEW E, routes' = [routes EXCEPT ![n] = Forget(@, E, x.origin)], NEW e \in Ids
        PROVE  \/ e \notin E /\ routes'[n][e] = routes[n][e]
               \/ /\ e \in E
                  /\ routes'[n][e].routes = {r \in routes[n][e].routes : r.via # x.origin}
                  /\ routes'[n][e].routes = {} \/ routes'[n][e].kind = routes[n][e].kind
    <2>1. routes'[n] = Forget(routes[n], E, x.origin)
      BY <1>4 DEF IInv, TablesOK
    <2>2. routes'[n][e] = IF e \in E THEN RemoveRemoteEndpoint(routes[n][e], x.origin)
                          ELSE routes[n][e]
      BY <2>1 DEF Forget
    <2> QED BY <1>3, <2>2, RemoveRemoteEndpointResult
  <1>5. CASE \E E : /\ db' = db
                    /\ routes' = [routes EXCEPT ![n] = Forget(@, E, x.origin)]
    <2>1. PICK E : /\ db' = db
                   /\ routes' = [routes EXCEPT ![n] = Forget(@, E, x.origin)]
      BY <1>5
    <2>2. \A k \in Nodes \ {n} : db'[k] = db[k] /\ routes'[k] = routes[k]
      BY <2>1 DEF IInv, TablesOK
    <2>3. \A e \in Ids : \A r \in routes'[n][e].routes :
             r \in routes[n][e].routes /\ routes'[n][e].kind = routes[n][e].kind
      <3> SUFFICES ASSUME NEW e \in Ids, NEW r \in routes'[n][e].routes
                   PROVE  r \in routes[n][e].routes /\ routes'[n][e].kind = routes[n][e].kind
        OBVIOUS
      <3>1. \/ e \notin E /\ routes'[n][e] = routes[n][e]
            \/ /\ e \in E
               /\ routes'[n][e].routes = {q \in routes[n][e].routes : q.via # x.origin}
               /\ routes'[n][e].routes = {} \/ routes'[n][e].kind = routes[n][e].kind
        BY <1>4, <2>1
      <3> QED BY <3>1
    <2> QED BY <2>1, <2>2, <2>3, BackedStays
  <1>6. CASE \E gone \in SUBSET db[n] :
                /\ db' = [db EXCEPT ![n] = db[n] \ gone]
                /\ routes' = [routes EXCEPT ![n] = Forget(@, {r.ep : r \in gone}, x.origin)]
                /\ \A r \in gone : r.origin = x.origin
    <2>1. PICK gone \in SUBSET db[n] :
                /\ db' = [db EXCEPT ![n] = db[n] \ gone]
                /\ routes' = [routes EXCEPT ![n] = Forget(@, {r.ep : r \in gone}, x.origin)]
                /\ \A r \in gone : r.origin = x.origin
      BY <1>6
    <2>2. PICK E : E = {r.ep : r \in gone}
      OBVIOUS
    <2>3. /\ db'[n] = db[n] \ gone
          /\ \A k \in Nodes \ {n} : db'[k] = db[k] /\ routes'[k] = routes[k]
      BY <2>1 DEF IInv, LsaInv, DbOK, TablesOK
    <2>4. ASSUME scn.timers = {} PROVE BackedAt(n)'
      <3> SUFFICES ASSUME NEW e \in Ids, NEW r \in routes'[n][e].routes, r.via \in Nodes
                   PROVE  r.via # n /\ \E y \in db'[n] : BackedBy(y, e, r, routes'[n][e].kind)
        BY DEF BackedAt, BackedBy
      <3>1. /\ r \in routes[n][e].routes /\ routes'[n][e].kind = routes[n][e].kind
            /\ e \in E => r.via # x.origin
        <4>1. routes' = [routes EXCEPT ![n] = Forget(@, E, x.origin)]
          BY <2>1, <2>2
        <4>2. \/ e \notin E /\ routes'[n][e] = routes[n][e]
              \/ /\ e \in E
                 /\ routes'[n][e].routes = {q \in routes[n][e].routes : q.via # x.origin}
                 /\ routes'[n][e].routes = {} \/ routes'[n][e].kind = routes[n][e].kind
          BY <1>4, <4>1
        <4> QED BY <4>2
      <3>2. r.via # n /\ \E y \in db[n] : BackedBy(y, e, r, routes[n][e].kind)
        BY <2>4, <3>1 DEF Backed, BackedAt
      <3>3. PICK y \in db[n] : BackedBy(y, e, r, routes[n][e].kind)
        BY <3>2
      <3>4. y \notin gone
        BY <2>1, <2>2, <3>1, <3>3 DEF BackedBy
      <3> QED BY <2>3, <3>1, <3>2, <3>3, <3>4
    <2> QED BY <2>3, <2>4, BackedElsewhere
  <1>7. CASE \E r \in Held(db[n], x) : r.seq < x.seq
    <2> DEFINE gone == IF IsRouter(x) THEN {r \in db[n] : r.origin = x.origin} ELSE Held(db[n], x)
    <2>1. gone \in SUBSET db[n] /\ \A r \in gone : r.origin = x.origin
      BY DEF Held, SameKey
    <2>2. /\ Change(n, db[n] \ gone, links[n])
          /\ routes' = [routes EXCEPT ![n] = Forget(@, {r.ep : r \in gone}, x.origin)]
      BY <1>1, <1>7 DEF RemoveDead
    <2> HIDE DEF gone
    <2>3. db' = [db EXCEPT ![n] = db[n] \ gone]
      BY <2>2 DEF Change
    <2> QED BY <1>6, <2>1, <2>2, <2>3
  <1>8. CASE ~ \E r \in Held(db[n], x) : r.seq < x.seq
    <2>1. db' = db /\ routes' = [routes EXCEPT ![n] = Forget(@, {x.ep}, x.origin)]
      BY <1>1, <1>8 DEF RemoveDead
    <2> QED BY <1>5, <2>1
  <1> QED BY <1>7, <1>8

\* Only LSAs of the node itself change with its listeners.
LEMMA CarryOutOthers ==
    ASSUME LsaInv, NEW n \in Nodes, NEW e, NEW info, NEW effect, CarryOut(n, e, info, effect)
    PROVE  /\ \A k \in Nodes \ {n} : db'[k] = db[k]
           /\ \A x \in db[n] : x.origin # n => x \in db'[n]
  <1>1. \/ \E old, D : /\ db' = [db EXCEPT ![n] = D] /\ db[n] \ old \subseteq D
                       /\ \A r \in old : r.origin = n
        \/ db' = db
    <2>1. ASSUME NEW old, \A r \in old : r.origin = n, NEW D, db[n] \ old \subseteq D,
                 Change(n, D, links[n])
          PROVE  \E o, d : /\ db' = [db EXCEPT ![n] = d] /\ db[n] \ o \subseteq d
                           /\ \A r \in o : r.origin = n
      BY <2>1 DEF Change
    <2> DEFINE new == NewLsa(n, e, info)
               old == Advertised(n, e)
               stale == {r \in old : r.info.cost \notin effect.cost}
               fresh == {Recosted(r, k) : r \in stale, k \in effect.cost}
    <2>2. \A r \in old : r.origin = n
      BY DEF Advertised
    <2>3. \A r \in Held(db[n], new) : r.origin = n
      BY DEF Held, SameKey, NewLsa
    <2>4. CASE effect.lsa = "Add"
      <3>1. Change(n, Insert(db[n], new), links[n])
        BY <2>4 DEF CarryOut
      <3>2. db[n] \ Held(db[n], new) \subseteq Insert(db[n], new)
        BY DEF Insert
      <3> HIDE DEF new
      <3> QED BY <2>1, <2>3, <3>1, <3>2
    <2>5. CASE effect.lsa = "Update"
      <3>1. Change(n, (db[n] \ stale) \cup fresh, links[n])
        BY <2>5 DEF CarryOut
      <3>2. \A r \in stale : r.origin = n
        BY <2>2
      <3> HIDE DEF stale, fresh
      <3>3. db[n] \ stale \subseteq (db[n] \ stale) \cup fresh
        OBVIOUS
      <3> QED BY <2>1, <3>1, <3>2, <3>3
    <2>6. CASE effect.lsa = "Remove"
      <3>1. Change(n, db[n] \ old, links[n])
        BY <2>6 DEF CarryOut
      <3> HIDE DEF old
      <3> QED BY <2>1, <2>2, <3>1
    <2>7. CASE effect.lsa \in {"Rebuild", "Noop"}
      BY <2>7 DEF CarryOut
    <2> QED BY <2>4, <2>5, <2>6, <2>7 DEF CarryOut
  <1>2. CASE db' = db
    BY <1>2
  <1>3. CASE \E old, D : /\ db' = [db EXCEPT ![n] = D] /\ db[n] \ old \subseteq D
                         /\ \A r \in old : r.origin = n
    BY <1>3 DEF LsaInv, DbOK
  <1> QED BY <1>1, <1>2, <1>3

\* A changed entry with no new remote route stays backed.
LEMMA EntryBacked ==
    ASSUME IInv, Backed, scn' = scn, NEW n \in Nodes, NEW e \in Ids, NEW entry,
           routes' = [routes EXCEPT ![n][e] = entry],
           \A r \in entry.routes : r.via \in Nodes =>
              r \in routes[n][e].routes /\ entry.kind = routes[n][e].kind,
           \A k \in Nodes \ {n} : db'[k] = db[k],
           \A x \in db[n] : x.origin # n => x \in db'[n]
    PROVE  Backed'
  <1>1. /\ \A k \in Nodes \ {n} : routes'[k] = routes[k]
        /\ routes'[n][e] = entry
        /\ \A f \in Ids \ {e} : routes'[n][f] = routes[n][f]
    BY DEF IInv, TablesOK
  <1>2. \A f \in Ids : \A r \in routes'[n][f].routes :
           r.via \in Nodes => r \in routes[n][f].routes /\ routes'[n][f].kind = routes[n][f].kind
    BY <1>1
  <1> QED BY <1>1, <1>2, BackedStays

\* The steps of listeners bring no remote route.
LEMMA ListenersBacked ==
    ASSUME IInv, Backed,
           \/ \E c \in Listeners : RegisterEndpoint(c) \/ \E k \in scn.costs : SetCost(c, k)
           \/ \E n \in Nodes, e \in Endpoints : DeadLink(n, e)
    PROVE  Backed'
  <1>0. scn \in Scenarios
    BY DEF IInv, LsaInv
  <1>1. ASSUME NEW n \in Nodes, NEW e \in Ids
        PROVE  /\ routes[n][e] \in LsRouteEntry
               /\ routes[n][e].kind = "None" => routes[n][e].routes = {}
    BY DEF IInv, TablesOK
  <1>2. ASSUME NEW c \in Listeners, RegisterEndpoint(c) PROVE Backed'
    <2>1. PICK n, e, info : n = Listener[c].node /\ e = Listener[c].ep /\ info = Listener[c].info
      OBVIOUS
    <2>2. c \in Channels /\ c \notin Nodes /\ n \in Nodes /\ e \in Ids /\ info \in EndpointInfo
      BY <1>0, <2>1, ListenerTyped
    <2>3. PICK add : add = AddEndpoint(routes[n][e], info, c)
      OBVIOUS
    <2>4. /\ add.ok \in BOOLEAN
          /\ ~add.ok => add.entry = routes[n][e]
          /\ add.ok => /\ add.entry.kind = info.kind
                       /\ add.entry.routes = routes[n][e].routes \cup {Route(c, info)}
                       /\ routes[n][e].routes = {} \/ routes[n][e].kind = info.kind
      BY <1>1, <2>2, <2>3, AddEndpointResult
    <2>5. Route(c, info).via = c
      BY DEF Route
    <2>6. \A r \in add.entry.routes : r.via \in Nodes =>
             r \in routes[n][e].routes /\ add.entry.kind = routes[n][e].kind
      BY <2>2, <2>4, <2>5
    <2>7. /\ routes' = [routes EXCEPT ![n][e] = add.entry]
          /\ CarryOut(n, e, info, add.effect) /\ scn' = scn
      BY <1>2, <2>1, <2>3 DEF RegisterEndpoint
    <2>8. /\ \A k \in Nodes \ {n} : db'[k] = db[k]
          /\ \A x \in db[n] : x.origin # n => x \in db'[n]
      BY <2>2, <2>7, CarryOutOthers DEF IInv
    <2> QED BY <2>2, <2>6, <2>7, <2>8, EntryBacked
  <1>3. ASSUME NEW c \in Listeners, NEW k \in scn.costs, SetCost(c, k) PROVE Backed'
    <2>1. PICK n, e : n = Listener[c].node /\ e = Listener[c].ep
      OBVIOUS
    <2>2. c \in Channels /\ c \notin Nodes /\ n \in Nodes /\ e \in Ids /\ k \in Nat
      BY <1>0, <2>1, ListenerTyped, ScenariosTyped DEF ScenarioOK
    <2>3. PICK set : set = SetAnycastCost(routes[n][e], c, k)
      OBVIOUS
    <2>4. set.entry.kind = routes[n][e].kind
      BY <1>1, <2>2, <2>3, SetAnycastCostResult
    <2>5. \A r \in set.entry.routes : r.via # c => r \in routes[n][e].routes
      BY <1>1, <2>2, <2>3, SetAnycastCostOthers
    <2>6. /\ routes' = [routes EXCEPT ![n][e] = set.entry]
          /\ CarryOut(n, e, Listener[c].info, set.effect) /\ scn' = scn
      BY <1>3, <2>1, <2>3 DEF SetCost
    <2>7. /\ \A m \in Nodes \ {n} : db'[m] = db[m]
          /\ \A x \in db[n] : x.origin # n => x \in db'[n]
      BY <2>2, <2>6, CarryOutOthers DEF IInv
    <2>8. \A r \in set.entry.routes : r.via \in Nodes =>
             r \in routes[n][e].routes /\ set.entry.kind = routes[n][e].kind
      BY <2>2, <2>4, <2>5
    <2> QED BY <2>2, <2>6, <2>7, <2>8, EntryBacked
  <1>4. ASSUME NEW n \in Nodes, NEW e \in Endpoints, DeadLink(n, e) PROVE Backed'
    <2>1. e \in Ids
      BY DEF Ids
    <2>2. PICK rem : rem = RemoveEndpoint(routes[n][e], Closed)
      OBVIOUS
    <2>3. /\ rem.entry.routes = {r \in routes[n][e].routes : r.via \notin Closed}
          /\ rem.entry.routes = {} \/ rem.entry.kind = routes[n][e].kind
      BY <1>1, <2>1, <2>2, RemoveEndpointResult
    <2>4. /\ routes' = [routes EXCEPT ![n][e] = rem.entry]
          /\ CarryOut(n, e, NodeInfo, rem.effect) /\ scn' = scn
      BY <1>4, <2>2 DEF DeadLink
    <2>5. /\ \A m \in Nodes \ {n} : db'[m] = db[m]
          /\ \A x \in db[n] : x.origin # n => x \in db'[n]
      BY <2>4, CarryOutOthers DEF IInv
    <2>6. \A r \in rem.entry.routes : r.via \in Nodes =>
             r \in routes[n][e].routes /\ rem.entry.kind = routes[n][e].kind
      BY <2>3
    <2> QED BY <2>1, <2>4, <2>5, <2>6, EntryBacked
  <1> QED BY <1>2, <1>3, <1>4

\* Nor do those of connections.
LEMMA PeersBacked ==
    ASSUME IInv, Backed, NEW n \in Nodes, NEW l, RegisterPeer(n, l) \/ UnRegisterPeer(n, l)
    PROVE  Backed'
  <1>1. n \in Nodes \ stopped /\ scn' = scn /\ routes' = routes
    BY DEF RegisterPeer, UnRegisterPeer
  <1>2. Own(n) \in Lsa /\ Own(n).origin = n
    BY <1>1, OwnIs DEF IInv
  <1>3. ASSUME NEW A PROVE Bumped([Own(n) EXCEPT !.adj = A]).origin = n
    BY <1>2 DEF Bumped, Lsa
  <1>4. (\E x : x.origin = n /\ db' = [db EXCEPT ![n] = Insert(db[n], x)]) \/ db' = db
    <2>1. CASE RegisterPeer(n, l)
      <3> DEFINE A == Own(n).adj \cup {[conn |-> l, peer |-> Peer(l, n), cost |-> Net[l].cost, realms |-> Net[l].realms]}
                 x == Bumped([Own(n) EXCEPT !.adj = A])
      <3>1. db' = [db EXCEPT ![n] = Insert(db[n], x)]
        BY <2>1 DEF RegisterPeer, Change
      <3> HIDE DEF A
      <3>2. x.origin = n
        BY <1>3
      <3> HIDE DEF x
      <3> QED BY <3>1, <3>2
    <2>2. CASE UnRegisterPeer(n, l)
      <3> DEFINE A == {a \in Own(n).adj : a.conn # l}
                 x == Bumped([Own(n) EXCEPT !.adj = A])
      <3>1. db' = [db EXCEPT ![n] = Insert(db[n], x)] \/ db' = db
        BY <2>2 DEF UnRegisterPeer, Change
      <3> HIDE DEF A
      <3>2. x.origin = n
        BY <1>3
      <3> HIDE DEF x
      <3> QED BY <3>1, <3>2
    <2> QED BY <2>1, <2>2
  <1>5. /\ \A k \in Nodes \ {n} : db'[k] = db[k]
        /\ \A x \in db[n] : x.origin # n => x \in db'[n]
    BY <1>4 DEF IInv, LsaInv, DbOK, Insert, Held, SameKey
  <1> QED BY <1>1, <1>5, BackedStays

\* Nor does a node that stops.
LEMMA StopBacked ==
    ASSUME IInv, Backed, NEW n \in Nodes, Stop(n)
    PROVE  Backed'
  <1>1. /\ scn' = scn
        /\ \A k \in Nodes \ {n} : db'[k] = db[k] /\ routes'[k] = routes[k]
        /\ \A e \in Ids : routes'[n][e].routes = {}
    BY NoEntryTyped DEF Stop, IInv, LsaInv, DbOK, TablesOK
  <1>2. BackedAt(n)'
    BY <1>1 DEF BackedAt
  <1> QED BY <1>1, <1>2, BackedElsewhere

\* Every step keeps routes backed.
LEMMA NextBacked ==
    ASSUME KindsAgree, IInv, Backed, [Next]_vars
    PROVE  Backed'
  <1>1. ASSUME UNCHANGED <<scn, db, routes>> PROVE Backed'
    BY <1>1 DEF Backed, BackedAt
  <1>2. ASSUME NEW n \in Nodes, NEW in \in wire, HandleLsa(n, in) PROVE Backed'
    <2>1. in.to = n /\ scn' = scn
      BY <1>2 DEF HandleLsa
    <2> QED BY <1>1, <1>2, <2>1, UpsertBacked, RemoveDeadBacked DEF HandleLsa
  <1>3. ASSUME NEW n \in Nodes, TimerNext(n) PROVE Backed'
    BY <1>3 DEF TimerNext, RefreshAndPurge, Backed
  <1>4. ASSUME NEW n \in Nodes, PeerNext(n) PROVE Backed'
    BY <1>1, <1>4 DEF PeerNext, StartPeer, StopPeer
  <1>5. ASSUME NEW n \in Nodes, RouterNext(n) PROVE Backed'
    BY <1>2, <1>5, PeersBacked, ListenersBacked DEF RouterNext
  <1>6. ASSUME NEW n \in Nodes, Shutdown(n) \/ Crash(n) PROVE Backed'
    BY <1>6, StopBacked DEF Shutdown, Crash
  <1>7. ASSUME NEW c \in Listeners, ListenerNext(c) PROVE Backed'
    BY <1>1, <1>7, ListenersBacked DEF ListenerNext, CloseListener
  <1>8. ASSUME NEW in \in wire, Lose(in) PROVE Backed'
    BY <1>1, <1>8 DEF Lose
  <1>9. CASE UNCHANGED vars
    BY <1>1, <1>9 DEF vars
  <1> QED BY <1>3, <1>4, <1>5, <1>6, <1>7, <1>8, <1>9 DEF Next

\* In every network in which a node does not mix the kinds of an endpoint's
\* listeners every route to another node has its LSA in the database, of the same
\* cost and realm, as long as no timer has purged one (LsDb::upsert_lsa,
\* remove_dead_lsa, RouteTable::add_remote_endpoint).
THEOREM RoutesAreBacked ==
    ASSUME KindsAgree
    PROVE  Spec => []RoutesBacked
  <1>1. Init => Backed
    BY DEF Init, Backed, BackedAt, NoEntry
  <1>2. IInv /\ Backed /\ [Next]_vars => Backed'
    BY NextBacked
  <1>3. Backed => RoutesBacked
    BY DEF Backed, BackedAt, BackedBy, RoutesBacked
  <1> QED BY <1>1, <1>2, <1>3, InitIInv, NextIInv, PTL DEF Spec

-----------------------------------------------------------------------------
(* Networks without rings.                                                 *)

\* The two sides of a connection: the peer is beyond it and the node is not, and
\* only connections between the two lead from one side to the other.
LEMMA BeyondIs ==
    ASSUME scn \in Scenarios, NoRings, NEW n \in Nodes, NEW l \in Attached(n)
    PROVE  /\ Peer(l, n) \in Beyond(l, n) /\ n \notin Beyond(l, n)
           /\ \A k \in Conns : {Net[k].a, Net[k].b} # {n, Peer(l, n)} =>
                 (Net[k].a \in Beyond(l, n) <=> Net[k].b \in Beyond(l, n))
  <1>1. Peer(l, n) \in Nodes
    BY PeerAttached
  <1>2. Peer(l, n) \in Beyond(l, n) /\ n \notin Beyond(l, n)
    BY <1>1 DEF Beyond, NoRings
  <1>3. ASSUME NEW k \in Conns, {Net[k].a, Net[k].b} # {n, Peer(l, n)},
               NEW u \in {Net[k].a, Net[k].b}, NEW v \in {Net[k].a, Net[k].b}, u \in Beyond(l, n)
        PROVE  v \in Beyond(l, n)
    <2>1. v \in Nodes
      BY <1>3, NetTyped
    <2> SUFFICES ASSUME NEW S \in SUBSET Nodes, Peer(l, n) \in S,
                        \A j \in Conns : {Net[j].a, Net[j].b} # {n, Peer(l, n)}
                                           => (Net[j].a \in S <=> Net[j].b \in S)
                 PROVE  v \in S
      BY <2>1 DEF Beyond
    <2>2. u \in S
      BY <1>3 DEF Beyond
    <2> QED BY <1>3, <2>2
  <1> QED BY <1>2, <1>3

\* What is beyond one neighbour is not beyond another.
LEMMA BeyondApart ==
    ASSUME scn \in Scenarios, NoRings, NEW n \in Nodes, NEW k \in Attached(n),
           NEW l \in Attached(n), Peer(k, n) # Peer(l, n),
           NEW m \in Beyond(k, n)
    PROVE  m \notin Beyond(l, n)
  <1> DEFINE S == Beyond(k, n) \ Beyond(l, n)
  <1>1. /\ Peer(k, n) \in Beyond(k, n) /\ n \notin Beyond(k, n)
        /\ \A j \in Conns : {Net[j].a, Net[j].b} # {n, Peer(k, n)} =>
              (Net[j].a \in Beyond(k, n) <=> Net[j].b \in Beyond(k, n))
    BY BeyondIs
  <1>2. /\ Peer(l, n) \in Beyond(l, n) /\ n \notin Beyond(l, n)
        /\ \A j \in Conns : {Net[j].a, Net[j].b} # {n, Peer(l, n)} =>
              (Net[j].a \in Beyond(l, n) <=> Net[j].b \in Beyond(l, n))
    BY BeyondIs
  <1>3. /\ k \in Conns /\ {Net[k].a, Net[k].b} = {n, Peer(k, n)}
        /\ l \in Conns /\ {Net[l].a, Net[l].b} = {n, Peer(l, n)}
        /\ n # Peer(k, n) /\ n # Peer(l, n)
    BY PeerAttached, <1>1, <1>2
  <1>4. Peer(k, n) \notin Beyond(l, n)
    <2>1. {Net[k].a, Net[k].b} # {n, Peer(l, n)}
      BY <1>3
    <2>2. (Net[k].a \in Beyond(l, n)) <=> (Net[k].b \in Beyond(l, n))
      BY <1>2, <1>3, <2>1
    <2> QED BY <1>2, <1>3, <2>2
  <1>5. Peer(l, n) \notin Beyond(k, n)
    <2>1. {Net[l].a, Net[l].b} # {n, Peer(k, n)}
      BY <1>3
    <2>2. (Net[l].a \in Beyond(k, n)) <=> (Net[l].b \in Beyond(k, n))
      BY <1>1, <1>3, <2>1
    <2> QED BY <1>1, <1>3, <2>2
  <1>6. ASSUME NEW j \in Conns, {Net[j].a, Net[j].b} # {n, Peer(k, n)}
        PROVE  Net[j].a \in S <=> Net[j].b \in S
    <2>1. CASE {Net[j].a, Net[j].b} = {n, Peer(l, n)}
      BY <1>1, <1>5, <2>1
    <2>2. CASE {Net[j].a, Net[j].b} # {n, Peer(l, n)}
      BY <1>1, <1>2, <1>6, <2>2
    <2> QED BY <2>1, <2>2
  <1>7. S \in SUBSET Nodes /\ Peer(k, n) \in S
    BY <1>1, <1>4 DEF Beyond
  <1>8. m \in S
    <2> HIDE DEF S
    <2> QED BY <1>6, <1>7 DEF Beyond
  <1> QED BY <1>8

\* Who is connected to an end of a connection is on one of its sides.
LEMMA BeyondBoth ==
    ASSUME scn \in Scenarios, NoRings, NEW n \in Nodes, NEW l \in Attached(n),
           NEW m \in Nodes, NEW realm, Reaches(m, realm, n)
    PROVE  m \in Beyond(l, n) \/ m \in Beyond(l, Peer(l, n))
  <1>1. PICK p : p = Peer(l, n)
    OBVIOUS
  <1>2. p \in Nodes /\ l \in Attached(p) /\ {n, p} = {Net[l].a, Net[l].b} /\ n # p
    <2>1. p \in Nodes /\ l \in Attached(p) /\ {n, p} = {Net[l].a, Net[l].b} /\ l \in Conns
      BY <1>1, PeerAttached
    <2>2. Net[l].a # Net[l].b
      BY <2>1, NetTyped
    <2> QED BY <2>1, <2>2
  <1>3. Peer(l, p) = n
    BY <1>2 DEF Peer
  <1> DEFINE S == Nodes \ (Beyond(l, n) \cup Beyond(l, p))
  <1>4. /\ p \in Beyond(l, n)
        /\ \A j \in Conns : {Net[j].a, Net[j].b} # {n, p} =>
              (Net[j].a \in Beyond(l, n) <=> Net[j].b \in Beyond(l, n))
    BY <1>1, BeyondIs
  <1>5. /\ n \in Beyond(l, p)
        /\ \A j \in Conns : {Net[j].a, Net[j].b} # {n, p} =>
              (Net[j].a \in Beyond(l, p) <=> Net[j].b \in Beyond(l, p))
    BY <1>2, <1>3, BeyondIs
  <1>6. ASSUME NEW j \in Conns PROVE Net[j].a \in S <=> Net[j].b \in S
    <2>1. CASE {Net[j].a, Net[j].b} = {n, p}
      BY <1>4, <1>5, <2>1
    <2>2. CASE {Net[j].a, Net[j].b} # {n, p}
      <3>1. Net[j].a \in Nodes /\ Net[j].b \in Nodes
        BY NetTyped
      <3> QED BY <1>4, <1>5, <2>2, <3>1
    <2> QED BY <2>1, <2>2
  <1>7. S \in SUBSET Nodes /\ n \notin S
    BY <1>5
  <1>8. m \notin S
    <2> HIDE DEF S
    <2> QED BY <1>6, <1>7 DEF Reaches
  <1> QED BY <1>1, <1>8

\* The adjacencies of an LSA are connections of its origin.
AdjOK(x) ==
    \A a \in x.adj : /\ a.conn \in Attached(x.origin)
                     /\ a.peer = Peer(a.conn, x.origin) /\ a.cost = Net[a.conn].cost

\* Then the arcs of the graph are connections, and none is free.
LEMMA ArcsAreConns ==
    ASSUME scn \in Scenarios, NEW D, D \subseteq Lsa, \A x \in D : IsRouter(x) => AdjOK(x)
    PROVE  /\ GraphOK(Graph(D)) /\ PositiveArcs(Graph(D))
           /\ \A u, v \in Nodes : ArcCosts(Graph(D), u, v) # {} =>
                 \E l \in Attached(u) : Peer(l, u) = v
  <1> DEFINE G == Graph(D)
  <1>1. ASSUME NEW u \in Nodes, NEW g \in G[u]
        PROVE  \E l \in Attached(u) : g = [peer |-> Peer(l, u), cost |-> Net[l].cost]
    <2>1. PICK r \in D : r.origin = u /\ IsRouter(r) /\ g \in {[peer |-> a.peer, cost |-> a.cost] : a \in r.adj}
      BY <1>1 DEF Graph
    <2>2. PICK a \in r.adj : g = [peer |-> a.peer, cost |-> a.cost]
      BY <2>1
    <2> QED BY <2>1, <2>2 DEF AdjOK
  <1>2. \A l \in Conns : Net[l].cost \in Nat /\ Net[l].cost # 0
    BY ScenariosTyped DEF ScenarioOK, Net, Conns
  <1>3. ASSUME NEW u \in Nodes, NEW g \in G[u]
        PROVE  /\ g \in [peer : Nodes, cost : Nat] /\ g.cost # 0
               /\ \E l \in Attached(u) : Peer(l, u) = g.peer
    <2>1. PICK l \in Attached(u) : g = [peer |-> Peer(l, u), cost |-> Net[l].cost]
      BY <1>1, <1>3
    <2>2. Peer(l, u) \in Nodes /\ l \in Conns
      BY PeerAttached
    <2> QED BY <1>2, <2>1, <2>2
  <1>4. GraphOK(G)
    BY <1>3 DEF GraphOK, Graph
  <1> HIDE DEF G
  <1>5. PositiveArcs(G)
    BY <1>3 DEF PositiveArcs, ArcCosts
  <1>6. \A u, v \in Nodes : ArcCosts(G, u, v) # {} => \E l \in Attached(u) : Peer(l, u) = v
    BY <1>3 DEF ArcCosts
  <1> QED BY <1>4, <1>5, <1>6 DEF G

\* A next hop leads to what is beyond it: the way from a neighbour to a node on
\* this side leads back over the node itself, and is no shorter than from there.
LEMMA HopsLeadBeyond ==
    ASSUME scn \in Scenarios, NoRings, NEW n \in Nodes, NEW l \in Attached(n),
           NEW D, D \subseteq Lsa, \A x \in D : IsRouter(x) => AdjOK(x),
           NEW K, NEW o \in Nodes, NextHops(n, D, K)[o] = Peer(l, n)
    PROVE  o \in Beyond(l, n)
  <1> SUFFICES ASSUME o \notin Beyond(l, n) PROVE FALSE
    OBVIOUS
  <1>1. PICK g : g = Graph(D)
    OBVIOUS
  <1>2. PICK dist : dist = Dist(g)
    OBVIOUS
  <1>3. PICK p : p = Peer(l, n)
    OBVIOUS
  <1>4. /\ p \in Nodes /\ p \in Beyond(l, n) /\ n \notin Beyond(l, n) /\ p # NoNode
        /\ \A k \in Conns : {Net[k].a, Net[k].b} # {n, p} =>
              (Net[k].a \in Beyond(l, n) <=> Net[k].b \in Beyond(l, n))
    BY <1>3, BeyondIs, PeerAttached, NodesAreOrdered DEF NoNode
  <1>5. /\ GraphOK(g) /\ PositiveArcs(g)
        /\ \A u, v \in Nodes : ArcCosts(g, u, v) # {} => \E k \in Attached(u) : Peer(k, u) = v
    BY <1>1, ArcsAreConns
  <1>6. NextHops(n, D, K) = [m \in Nodes |->
           IF Reachable(dist, n, m) /\ \E k \in K : Peer(k, n) = FirstHop(g, dist, n)[m]
           THEN FirstHop(g, dist, n)[m] ELSE NoNode]
    BY <1>1, <1>2 DEF NextHops
  <1>7. Reachable(dist, n, o) /\ FirstHop(g, dist, n)[o] = p
    BY <1>3, <1>4, <1>6
  <1>8. OnTheWay(g, dist, n, o, p)
    BY <1>2, <1>5, <1>7, FirstHopOnTheWay
  <1>9. dist[n][o] = dist[n][p] + dist[p][o] /\ dist[n][p] > 0
    BY <1>2, <1>5, <1>8, ChildIsNeighbour DEF OnTheWay
  <1>10. \A u, v \in Nodes : dist[u][v] \in 0..MaxCost
    BY <1>2, <1>5, DistIs
  <1>11. PICK f : f = [m \in Nodes |-> IF m \in Beyond(l, n) THEN 0 ELSE dist[n][m]]
    OBVIOUS
  <1>12. f \in [Nodes -> 0..MaxCost] /\ f[p] = 0 /\ f[o] = dist[n][o] /\ f[n] = 0
    <2>1. 0 \in 0..MaxCost
      BY MaxCostPositive
    <2>2. dist[n][n] = 0
      BY <1>2, <1>5, DistToSelf
    <2> QED BY <1>4, <1>10, <1>11, <2>1, <2>2
  <1>13. ASSUME NEW u \in Nodes, NEW v \in Nodes, NEW c \in ArcCosts(g, u, v)
         PROVE  f[v] <= SatAdd(f[u], c)
    <2>1. c \in Nat /\ SatAdd(f[u], c) \in 0..MaxCost
      BY <1>5, <1>12, ArcCostsAre, SatAddIs
    <2>2. CASE f[v] = 0
      BY <2>1, <2>2
    <2>3. CASE f[v] # 0
      <3>1. v \notin Beyond(l, n) /\ v # n /\ f[v] = dist[n][v]
        BY <1>11, <1>12, <2>3
      <3>2. PICK k \in Attached(u) : Peer(k, u) = v
        BY <1>5, <1>13
      <3>3. k \in Conns /\ {Net[k].a, Net[k].b} = {u, v}
        BY <3>2, PeerAttached
      <3>4. v # p
        BY <1>4, <3>1
      <3>5. {Net[k].a, Net[k].b} # {n, p}
        BY <3>1, <3>3, <3>4
      <3>6. (Net[k].a \in Beyond(l, n)) <=> (Net[k].b \in Beyond(l, n))
        BY <1>4, <3>3, <3>5
      <3>7. u \notin Beyond(l, n)
        BY <3>1, <3>3, <3>6
      <3>8. f[u] = dist[n][u]
        BY <1>11, <3>7
      <3> QED BY <1>2, <1>5, <3>1, <3>8, Triangle
    <2> QED BY <2>2, <2>3
  <1>14. f[o] <= dist[p][o]
    BY <1>2, <1>4, <1>5, <1>12, <1>13, DistIsGreatest
  <1>15. \A x, y, z \in 0..MaxCost : x = y + z /\ y > 0 => ~(x <= z)
    BY MaxCostPositive
  <1> QED BY <1>4, <1>9, <1>10, <1>12, <1>14, <1>15

-----------------------------------------------------------------------------
(* How LSAs spread while nothing is lost and nothing registered goes away. *)

Benign == Undisturbed /\ NoRings /\ Compatible

\* A database has this LSA or a newer one of its key.
AtLeast(D, r) == \E s \in D : SameKey(s, r) /\ r.seq <= s.seq

\* An LSA in force, of connections there are and of the realm of its listeners.
Genuine(x) ==
    /\ ~x.dead
    /\ IsRouter(x) => AdjOK(x)
    /\ ~IsRouter(x) =>
         \A c \in Listeners : Listener[c].ep = x.ep => Listener[c].info.realm = x.info.realm

AllGenuine == \A x \in Everywhere : Genuine(x)

\* Copies of an LSA that also tell the same of the endpoint.
TrueCopy(x, y) == Copy(x, y) /\ x.info = y.info

\* A copy of a genuine LSA is genuine.
LEMMA GenuineCopy ==
    ASSUME NEW x, NEW y, TrueCopy(x, y), Genuine(y)
    PROVE  Genuine(x)
  <1>1. x.origin = y.origin /\ x.ep = y.ep /\ x.dead = y.dead /\ x.info = y.info /\ Bare(x) = Bare(y)
    BY DEF TrueCopy, Copy, SameKey
  <1>2. AdjOK(y) => AdjOK(x)
    <2> SUFFICES ASSUME AdjOK(y), NEW a \in x.adj
                 PROVE  \E b \in y.adj : a.conn = b.conn /\ a.peer = b.peer /\ a.cost = b.cost
      BY <1>1 DEF AdjOK
    <2>1. [conn |-> a.conn, peer |-> a.peer, cost |-> a.cost] \in Bare(y)
      BY <1>1 DEF Bare
    <2>2. PICK b \in y.adj : [conn |-> a.conn, peer |-> a.peer, cost |-> a.cost]
                              = [conn |-> b.conn, peer |-> b.peer, cost |-> b.cost]
      BY <2>1 DEF Bare
    <2> QED BY <2>2
  <1> QED BY <1>1, <1>2 DEF Genuine, IsRouter

\* The origin of an LSA has the newest one of its key.
NewestAtHome ==
    \A x \in Everywhere : \E o \in db[x.origin] :
        SameKey(o, x) /\ x.seq <= o.seq /\ (x.seq = o.seq => TrueCopy(x, o))

\* A Router LSA that has left its origin, or could, has adjacencies.
Linked ==
    \A n \in Nodes : \A r \in db[n] :
        IsRouter(r) /\ (r.origin # n \/ links[n] # {}) => r.adj # {}

\* What is under way its sender has, too.
WireUp ==
    \A m \in wire :
        /\ m.conn \in Attached(m.to) /\ Passes(m.lsa, m.conn)
        /\ ends[Peer(m.conn, m.to)][m.conn] = "open"
        /\ AtLeast(db[Peer(m.conn, m.to)], m.lsa)

\* This LSA, or a newer one, is under way to node n.
UnderWay(n, r) == \E m \in wire : m.to = n /\ SameKey(m.lsa, r) /\ r.seq <= m.lsa.seq

\* Away from its origin an LSA is handed on ...
Away ==
    \A n \in Nodes : \A l \in links[n] : \A r \in db[n] :
        Passes(r, l) /\ r.origin \notin Beyond(l, n)
            => AtLeast(db[Peer(l, n)], r) \/ UnderWay(Peer(l, n), r)

\* ... and towards its origin the next node has it already.
Towards ==
    \A n \in Nodes : \A l \in Attached(n) : \A r \in db[n] :
        r.origin \in Beyond(l, n) => AtLeast(db[Peer(l, n)], r)

Crosses(l, S) == {Net[l].a, Net[l].b} \cap S # {} /\ ~({Net[l].a, Net[l].b} \subseteq S)

\* Connections that let an LSA pass and are in use lead from its origin to n.
HasWay(n, r) ==
    \A S \in SUBSET Nodes : n \in S /\ r.origin \notin S =>
        \E l \in Conns : /\ Crosses(l, S) /\ Passes(r, l)
                         /\ ends[Net[l].a][l] = "open" /\ ends[Net[l].b][l] = "open"

Ways == \A n \in Nodes : \A r \in db[n] : HasWay(n, r)

SpreadInv == AllGenuine /\ NewestAtHome /\ Linked /\ WireUp /\ Away /\ Towards /\ Ways

\* What these say of an LSA and a connection depends on the scenario only.
LEMMA StaticToo ==
    ASSUME scn' = scn
    PROVE  /\ \A l, n : Peer(l, n)' = Peer(l, n) /\ Beyond(l, n)' = Beyond(l, n)
           /\ \A r, l : Passes(r, l)' = Passes(r, l)
           /\ \A x : Genuine(x)' = Genuine(x)
           /\ Benign' = Benign
  BY DEF Peer, Beyond, Passes, Narrowed, Genuine, Net, Conns, IsRouter, AdjOK, Attached, Listeners,
         Listener, Benign, Undisturbed, NoRings, Compatible

\* What is at least as new as something at least as new.
LEMMA AtLeastOver ==
    ASSUME NEW D, NEW E, NEW r, D \subseteq Lsa, E \subseteq Lsa, r \in Lsa,
           AtLeast(D, r), \A x \in D : AtLeast(E, x)
    PROVE  AtLeast(E, r)
  <1>1. PICK s \in D : SameKey(s, r) /\ r.seq <= s.seq
    BY DEF AtLeast
  <1>2. PICK t \in E : SameKey(t, s) /\ s.seq <= t.seq
    BY DEF AtLeast
  <1>3. r.seq \in Nat /\ s.seq \in Nat /\ t.seq \in Nat
    BY DEF Lsa
  <1> QED BY <1>1, <1>2, <1>3 DEF AtLeast, SameKey

\* Two genuine LSAs of one key pass over the same connections once they have
\* passed over one.
LEMMA PassesAlike ==
    ASSUME NEW x, NEW y, Genuine(x), Genuine(y), Told(x), Told(y), SameKey(x, y),
           x \in Lsa, y \in Lsa, scn \in Scenarios,
           NEW k \in Conns, NEW l \in Conns, Passes(x, k), Passes(y, l)
    PROVE  Passes(x, l)
  <1>1. CASE IsRouter(x)
    BY <1>1, PassesIs
  <1>2. CASE ~IsRouter(x)
    <2>1. ~IsRouter(y)
      BY <1>2 DEF SameKey, IsRouter
    <2>2. PICK c \in Listeners : Listener[c].ep = x.ep
      BY <1>2 DEF Told
    <2>3. x.info.realm = y.info.realm
      BY <1>2, <2>1, <2>2 DEF Genuine, SameKey
    <2> QED BY <1>2, <2>1, <2>3 DEF Passes
  <1> QED BY <1>1, <1>2

\* What is news to a node comes from its origin's side.
LEMMA NewsIsFromBeyond ==
    ASSUME IInv, Benign, SpreadInv, NEW m \in wire, NEW n \in Nodes, m.to = n, m.lsa.origin # n,
           \A r \in db[n] : SameKey(r, m.lsa) => r.seq < m.lsa.seq
    PROVE  /\ m.conn \in Attached(n) /\ Peer(m.conn, n) \in Nodes /\ Peer(m.conn, n) # n
           /\ {n, Peer(m.conn, n)} = {Net[m.conn].a, Net[m.conn].b}
           /\ m.lsa.origin \in Beyond(m.conn, n)
  <1>0. scn \in Scenarios /\ NoRings
    BY DEF IInv, LsaInv, Benign
  <1>1. \A k \in Nodes : \A x \in db[k] : x \in Lsa
    BY DEF IInv, LsaInv, DbOK
  <1>2. PICK k, r : k = m.conn /\ r = m.lsa
    OBVIOUS
  <1>3. k \in Attached(n) /\ AtLeast(db[Peer(k, n)], r)
    BY <1>2 DEF SpreadInv, WireUp
  <1>4. /\ k \in Conns /\ Peer(k, n) \in Nodes /\ k \in Attached(Peer(k, n))
        /\ {n, Peer(k, n)} = {Net[k].a, Net[k].b}
    BY <1>0, <1>3, PeerAttached
  <1>5. Net[k].a # Net[k].b
    BY <1>0, <1>4, NetTyped
  <1>6. Peer(k, n) # n /\ Peer(k, Peer(k, n)) = n
    BY <1>4, <1>5 DEF Peer
  <1>7. r \in Lsa /\ r.origin \in Nodes /\ Reaches(r.origin, r.info.realm, n)
    BY <1>2 DEF IInv, LsaInv, WireOK, Packet, LsaAt, Lsa
  <1>8. r.origin \in Beyond(k, n)
    <2> SUFFICES ASSUME r.origin \in Beyond(k, Peer(k, n)) PROVE FALSE
      BY <1>0, <1>3, <1>7, BeyondBoth
    <2>1. PICK s \in db[Peer(k, n)] : SameKey(s, r) /\ r.seq <= s.seq
      BY <1>3 DEF AtLeast
    <2>2. AtLeast(db[n], s)
      BY <1>4, <1>6, <2>1 DEF SpreadInv, Towards, SameKey
    <2>3. PICK t \in db[n] : SameKey(t, s) /\ s.seq <= t.seq
      BY <2>2 DEF AtLeast
    <2>4. t.seq < r.seq
      BY <1>2, <2>1, <2>3 DEF SameKey
    <2>5. t.seq \in Nat /\ s.seq \in Nat /\ r.seq \in Nat
      BY <1>1, <1>4, <1>7, <2>1, <2>3 DEF Lsa
    <2> QED BY <2>1, <2>3, <2>4, <2>5
  <1> QED BY <1>2, <1>3, <1>4, <1>6, <1>8

\* A node's router has D and the links K now: for each record it had one that is
\* no older; what is new is its own or was under way to it, and newer than what it
\* had.  It has taken from the wire what it has or originated, and has sent what
\* is new over its links, everything over a new one.
Spreads(n, D, K) ==
    /\ db' = [db EXCEPT ![n] = D] /\ links' = [links EXCEPT ![n] = K]
    /\ links[n] \subseteq K /\ K \subseteq Attached(n) /\ \A l \in K : ends[n][l] = "open"
    /\ \A r \in db[n] : AtLeast(D, r)
    /\ \A x \in D \ db[n] :
         /\ Genuine(x) /\ LsaAt(n, x)
         /\ \A r \in db[n] : SameKey(r, x) => r.seq < x.seq
         /\ \/ x.origin = n
            \/ \E m \in wire : m.to = n /\ m.lsa = x /\ ends[n][m.conn] = "open"
    /\ \A r \in D : IsRouter(r) /\ r.origin = n /\ K # {} => r.adj # {}
    /\ \A m \in wire' \ wire : \E l \in K, x \in D :
         m = [conn |-> l, to |-> Peer(l, n), lsa |-> Narrowed(x, l)] /\ Passes(x, l)
    /\ \A m \in wire \ wire' : m.to = n /\ (m.lsa.origin = n \/ AtLeast(D, m.lsa))
    /\ \A l \in K, r \in D : Passes(r, l) /\ r.origin \notin Beyond(l, n) =>
         \/ r \in db[n] /\ l \in links[n]
         \/ [conn |-> l, to |-> Peer(l, n), lsa |-> Narrowed(r, l)] \in wire'

\* Such a step keeps things spreading.
LEMMA SpreadStep ==
    ASSUME IInv, Benign, SpreadInv, scn' = scn, ends' = ends,
           NEW n \in Nodes, NEW D, NEW K, Spreads(n, D, K)
    PROVE  SpreadInv'
  <1> USE StaticSame, StaticToo
  <1>0. /\ scn \in Scenarios /\ NoRings /\ db \in [Nodes -> SUBSET Lsa]
        /\ links \in [Nodes -> SUBSET Conns] /\ \A k \in Nodes : links[k] \subseteq Attached(k)
    BY DEF IInv, LsaInv, DbOK, LinksOK, Benign
  <1>1. /\ db'[n] = D /\ links'[n] = K
        /\ \A k \in Nodes \ {n} : db'[k] = db[k] /\ links'[k] = links[k]
    BY <1>0 DEF Spreads
  <1>2. \A k \in Nodes : \A x \in db[k] : LsaAt(k, x) /\ x \in Lsa /\ x.origin \in Nodes /\ x \in Everywhere
    BY <1>0 DEF IInv, LsaInv, DbOK, Everywhere, Lsa
  <1>3. \A m \in wire : LsaAt(m.to, m.lsa) /\ m.lsa \in Lsa /\ m.to \in Nodes /\ m.lsa.origin \in Nodes
                        /\ m.conn \in Conns /\ m.lsa \in Everywhere
    BY DEF IInv, LsaInv, WireOK, Packet, Everywhere, Lsa
  <1>4. \A x \in D : LsaAt(n, x) /\ x \in Lsa
    BY <1>2 DEF Spreads, LsaAt
  <1>5. \A k \in Nodes : db'[k] \subseteq Lsa /\ \A x \in db[k] : AtLeast(db'[k], x)
    <2> SUFFICES ASSUME NEW k \in Nodes
                 PROVE  db'[k] \subseteq Lsa /\ \A x \in db[k] : AtLeast(db'[k], x)
      OBVIOUS
    <2>1. CASE k = n
      BY <1>1, <1>4, <2>1 DEF Spreads
    <2>2. CASE k # n
      <3>1. db'[k] = db[k]
        BY <1>1, <2>2
      <3>2. \A x \in db[k] : x.seq \in Nat /\ SameKey(x, x)
        BY <1>2 DEF Lsa, SameKey
      <3> QED BY <1>2, <3>1, <3>2 DEF AtLeast
    <2> QED BY <2>1, <2>2
  <1>6. ASSUME NEW k \in Nodes, NEW r \in Lsa, AtLeast(db[k], r) PROVE AtLeast(db'[k], r)
    <2>1. db[k] \subseteq Lsa
      BY <1>2
    <2> QED BY <1>5, <1>6, <2>1, AtLeastOver
  <1>7. ASSUME NEW x \in Everywhere'
        PROVE  \E y : /\ TrueCopy(x, y)
                      /\ y \in Everywhere \/ (y \in D \ db[n] /\ y.origin = n)
    <2>0. TrueCopy(x, x)
      BY DEF TrueCopy, Copy, SameKey
    <2>1. ASSUME NEW y \in D PROVE y \in Everywhere \/ (y \in D \ db[n] /\ y.origin = n)
      <3>1. CASE y \in db[n]
        BY <1>2, <3>1
      <3>2. CASE y \notin db[n]
        BY <1>3, <2>1, <3>2 DEF Spreads
      <3> QED BY <3>1, <3>2
    <2>2. CASE \E k \in Nodes : x \in db'[k]
      <3>1. PICK k \in Nodes : x \in db'[k]
        BY <2>2
      <3> QED BY <1>1, <1>2, <2>0, <2>1, <3>1
    <2>3. CASE \E m \in wire' : x = m.lsa
      <3>1. PICK m \in wire' : x = m.lsa
        BY <2>3
      <3>2. CASE m \in wire
        BY <1>3, <2>0, <3>1, <3>2
      <3>3. CASE m \notin wire
        <4>1. PICK l \in K, y \in D : m = [conn |-> l, to |-> Peer(l, n), lsa |-> Narrowed(y, l)]
          BY <3>1, <3>3 DEF Spreads
        <4>2. x = Narrowed(y, l)
          BY <3>1, <4>1
        <4>3. l \in Conns /\ y \in Lsa /\ Told(y)
          BY <1>4 DEF Spreads, Attached, LsaAt
        <4>4. TrueCopy(x, y)
          BY <1>0, <4>2, <4>3, NarrowedIs DEF TrueCopy
        <4> QED BY <2>1, <4>4
      <3> QED BY <3>2, <3>3
    <2> QED BY <2>2, <2>3 DEF Everywhere
  <1>8. AllGenuine'
    <2> SUFFICES ASSUME NEW x \in Everywhere' PROVE Genuine(x)
      BY DEF AllGenuine
    <2>1. PICK y : TrueCopy(x, y) /\ (y \in Everywhere \/ (y \in D \ db[n] /\ y.origin = n))
      BY <1>7
    <2>2. Genuine(y)
      BY <2>1 DEF AllGenuine, SpreadInv, Spreads
    <2> QED BY <2>1, <2>2, GenuineCopy
  <1>9. NewestAtHome'
    <2> SUFFICES ASSUME NEW z \in Everywhere'
                 PROVE  \E o \in db'[z.origin] :
                           SameKey(o, z) /\ z.seq <= o.seq /\ (z.seq = o.seq => TrueCopy(z, o))
      BY DEF NewestAtHome, SameKey, TrueCopy, Copy, Bare
    <2>a. PICK x : TrueCopy(z, x) /\ (x \in Everywhere \/ (x \in D \ db[n] /\ x.origin = n))
      BY <1>7
    <2>b. SUFFICES \E o \in db'[x.origin] :
                     SameKey(o, x) /\ x.seq <= o.seq /\ (x.seq = o.seq => TrueCopy(x, o))
      BY <2>a DEF TrueCopy, Copy, SameKey
    <2>1. CASE x \in D \ db[n] /\ x.origin = n
      <3>1. SameKey(x, x) /\ x.seq \in Nat /\ TrueCopy(x, x)
        BY <1>4, <2>1 DEF SameKey, Lsa, TrueCopy, Copy
      <3> QED BY <1>1, <2>1, <3>1
    <2>2. CASE x \in Everywhere
      <3>1. PICK o \in db[x.origin] : SameKey(o, x) /\ x.seq <= o.seq /\ (x.seq = o.seq => TrueCopy(x, o))
        BY <2>2 DEF SpreadInv, NewestAtHome
      <3>2. x.origin \in Nodes /\ x.seq \in Nat
        BY <1>2, <1>3, <2>2 DEF Everywhere, Lsa
      <3>3. CASE x.origin # n
        BY <1>1, <3>1, <3>2, <3>3
      <3>4. CASE x.origin = n
        <4>1. PICK s \in D : SameKey(s, o) /\ o.seq <= s.seq
          BY <3>1, <3>4 DEF Spreads, AtLeast
        <4>2. CASE s \in db[n]
          <5>1. s = o
            BY <3>1, <3>4, <4>1, <4>2 DEF IInv, LsaInv, KeysInv, OneEach
          <5> QED BY <1>1, <3>1, <3>4, <4>1, <5>1
        <4>3. CASE s \notin db[n]
          <5>1. o.seq < s.seq
            BY <3>1, <3>4, <4>1, <4>3 DEF Spreads, SameKey
          <5>2. o.seq \in Nat /\ s.seq \in Nat
            BY <1>2, <1>4, <3>1, <3>4, <4>1 DEF Lsa
          <5>3. x.seq < s.seq
            BY <3>1, <3>2, <5>1, <5>2
          <5>4. SameKey(s, x)
            BY <3>1, <4>1 DEF SameKey
          <5> QED BY <1>1, <3>2, <3>4, <4>1, <5>2, <5>3, <5>4
        <4> QED BY <4>2, <4>3
      <3> QED BY <3>3, <3>4
    <2> QED BY <2>a, <2>1, <2>2
  <1>10. Linked'
    <2> SUFFICES ASSUME NEW k \in Nodes, NEW r \in db'[k], IsRouter(r), r.origin # k \/ links'[k] # {}
                 PROVE  r.adj # {}
      BY DEF Linked, IsRouter
    <2>1. CASE k # n
      BY <1>1, <2>1 DEF SpreadInv, Linked
    <2>2. CASE k = n /\ r.origin = n
      BY <1>1, <2>2 DEF Spreads
    <2>3. CASE k = n /\ r.origin # n /\ r \in db[n]
      BY <1>1, <2>3 DEF SpreadInv, Linked
    <2>4. CASE k = n /\ r.origin # n /\ r \notin db[n]
      <3>1. PICK m \in wire : m.lsa = r
        BY <1>1, <2>4 DEF Spreads
      <3>2. Passes(r, m.conn)
        BY <3>1 DEF SpreadInv, WireUp
      <3> QED BY <1>0, <1>3, <3>1, <3>2, PassesIs DEF LsaAt
    <2> QED BY <2>1, <2>2, <2>3, <2>4
  <1>11. \A l \in K : /\ Peer(l, n) \in Nodes /\ Peer(l, n) # n /\ l \in Attached(Peer(l, n))
                      /\ Peer(l, Peer(l, n)) = n
    <2> SUFFICES ASSUME NEW l \in K
                 PROVE  /\ Peer(l, n) \in Nodes /\ Peer(l, n) # n /\ l \in Attached(Peer(l, n))
                        /\ Peer(l, Peer(l, n)) = n
      OBVIOUS
    <2>1. l \in Attached(n)
      BY DEF Spreads
    <2>2. /\ l \in Conns /\ Peer(l, n) \in Nodes /\ l \in Attached(Peer(l, n))
          /\ {n, Peer(l, n)} = {Net[l].a, Net[l].b}
      BY <1>0, <2>1, PeerAttached
    <2>3. Net[l].a # Net[l].b
      BY <1>0, <2>2, NetTyped
    <2> QED BY <2>2, <2>3 DEF Peer
  <1>12. WireUp'
    <2> SUFFICES ASSUME NEW m \in wire'
                 PROVE  /\ m.conn \in Attached(m.to) /\ Passes(m.lsa, m.conn)
                        /\ ends[Peer(m.conn, m.to)][m.conn] = "open"
                        /\ AtLeast(db'[Peer(m.conn, m.to)], m.lsa)
                        /\ m.to \in Nodes
      BY DEF WireUp, AtLeast, SameKey
    <2>1. CASE m \in wire
      <3>1. /\ m.conn \in Attached(m.to) /\ Passes(m.lsa, m.conn)
            /\ ends[Peer(m.conn, m.to)][m.conn] = "open"
            /\ AtLeast(db[Peer(m.conn, m.to)], m.lsa)
        BY <2>1 DEF SpreadInv, WireUp
      <3>2. Peer(m.conn, m.to) \in Nodes
        BY <1>0, <1>3, <2>1, <3>1, PeerAttached
      <3> QED BY <1>3, <1>6, <2>1, <3>1, <3>2
    <2>2. CASE m \notin wire
      <3>1. PICK l \in K, x \in D : m = [conn |-> l, to |-> Peer(l, n), lsa |-> Narrowed(x, l)] /\ Passes(x, l)
        BY <2>2 DEF Spreads
      <3>2. x.seq \in Nat /\ SameKey(x, x) /\ ends[n][l] = "open"
        BY <1>4 DEF Lsa, SameKey, Spreads
      <3>3. AtLeast(db'[n], x)
        BY <1>1, <3>2 DEF AtLeast
      <3>4. l \in Conns /\ Told(x) /\ x \in Lsa
        BY <1>4 DEF Spreads, Attached, LsaAt
      <3>5. PICK y : y = Narrowed(x, l)
        OBVIOUS
      <3>6. SameKey(y, x) /\ y.seq = x.seq /\ Passes(y, l)
        BY <1>0, <3>1, <3>4, <3>5, NarrowedIs, PassesIs DEF Copy
      <3>7. AtLeast(db'[n], y)
        BY <3>3, <3>6 DEF AtLeast, SameKey
      <3> QED BY <1>11, <3>1, <3>2, <3>5, <3>6, <3>7
    <2> QED BY <2>1, <2>2
  <1>13. Away'
    <2> SUFFICES ASSUME NEW k \in Nodes, NEW l \in links'[k], NEW r \in db'[k],
                        Passes(r, l), r.origin \notin Beyond(l, k)
                 PROVE  AtLeast(db'[Peer(l, k)], r) \/ UnderWay(Peer(l, k), r)'
      BY DEF Away, AtLeast, SameKey
    <2>0. l \in Attached(k) /\ Peer(l, k) \in Nodes /\ Peer(l, k) \in Beyond(l, k) /\ r \in Lsa
      <3>1. l \in Attached(k)
        BY <1>0, <1>1 DEF Spreads
      <3> QED BY <1>0, <1>5, <3>1, PeerAttached, BeyondIs
    <2>1. CASE r \in db[k] /\ l \in links[k]
      <3>1. CASE AtLeast(db[Peer(l, k)], r)
        BY <1>6, <2>0, <3>1
      <3>2. CASE UnderWay(Peer(l, k), r)
        <4>1. PICK m \in wire : m.to = Peer(l, k) /\ SameKey(m.lsa, r) /\ r.seq <= m.lsa.seq
          BY <3>2 DEF UnderWay
        <4>2. CASE m \in wire'
          BY <4>1, <4>2 DEF UnderWay, SameKey
        <4>3. CASE m \notin wire'
          <5>1. Peer(l, k) = n /\ (m.lsa.origin = n \/ AtLeast(D, m.lsa))
            BY <4>1, <4>3 DEF Spreads
          <5>2. m.lsa.origin # n
            BY <2>0, <4>1, <5>1 DEF SameKey
          <5>3. PICK s \in D : SameKey(s, m.lsa) /\ m.lsa.seq <= s.seq
            BY <5>1, <5>2 DEF AtLeast
          <5>4. s.seq \in Nat /\ m.lsa.seq \in Nat /\ r.seq \in Nat
            BY <1>3, <1>4, <2>0 DEF Lsa
          <5>5. SameKey(s, r) /\ r.seq <= s.seq
            BY <4>1, <5>3, <5>4 DEF SameKey
          <5> QED BY <1>1, <5>1, <5>5 DEF AtLeast
        <4> QED BY <4>2, <4>3
      <3> QED BY <2>1, <3>1, <3>2 DEF SpreadInv, Away
    <2>2. CASE ~(r \in db[k] /\ l \in links[k])
      <3>1. k = n /\ l \in K /\ r \in D
        BY <1>1, <2>2
      <3>2. [conn |-> l, to |-> Peer(l, n), lsa |-> Narrowed(r, l)] \in wire'
        BY <2>2, <3>1 DEF Spreads
      <3>3. l \in Conns /\ Told(r) /\ r.seq <= r.seq
        BY <1>4, <2>0, <3>1 DEF Attached, LsaAt, Lsa
      <3>4. PICK y : y = Narrowed(r, l)
        OBVIOUS
      <3>5. SameKey(y, r) /\ y.seq = r.seq
        BY <1>0, <2>0, <3>3, <3>4, NarrowedIs DEF Copy
      <3> QED BY <3>1, <3>2, <3>3, <3>4, <3>5 DEF UnderWay, SameKey
    <2> QED BY <2>1, <2>2
  <1>14. ASSUME NEW r \in D \ db[n], r.origin # n
         PROVE  \E k \in Attached(n) :
                  /\ Peer(k, n) \in Nodes /\ Peer(k, n) # n /\ k \in Conns
                  /\ {n, Peer(k, n)} = {Net[k].a, Net[k].b}
                  /\ ends[n][k] = "open" /\ ends[Peer(k, n)][k] = "open" /\ Passes(r, k)
                  /\ AtLeast(db[Peer(k, n)], r) /\ r.origin \in Beyond(k, n)
    <2>1. PICK m \in wire : m.to = n /\ m.lsa = r /\ ends[n][m.conn] = "open"
      BY <1>14 DEF Spreads
    <2>2. /\ m.conn \in Attached(n) /\ Peer(m.conn, n) \in Nodes /\ Peer(m.conn, n) # n
          /\ {n, Peer(m.conn, n)} = {Net[m.conn].a, Net[m.conn].b} /\ r.origin \in Beyond(m.conn, n)
      <3>1. \A s \in db[n] : SameKey(s, m.lsa) => s.seq < m.lsa.seq
        BY <1>14, <2>1 DEF Spreads
      <3>2. m.lsa.origin # n /\ m.lsa.origin = r.origin
        BY <1>14, <2>1
      <3> QED BY <2>1, <3>1, <3>2, NewsIsFromBeyond
    <2>3. /\ Passes(r, m.conn) /\ ends[Peer(m.conn, n)][m.conn] = "open"
          /\ AtLeast(db[Peer(m.conn, n)], r) /\ m.conn \in Conns
      BY <1>3, <2>1 DEF SpreadInv, WireUp
    <2> QED BY <2>1, <2>2, <2>3
  <1>15. Towards'
    <2> SUFFICES ASSUME NEW x \in Nodes, NEW l \in Attached(x), NEW r \in db'[x], r.origin \in Beyond(l, x)
                 PROVE  AtLeast(db'[Peer(l, x)], r)
      BY DEF Towards, AtLeast, SameKey
    <2>0. Peer(l, x) \in Nodes /\ r \in Lsa /\ x \notin Beyond(l, x)
      BY <1>0, <1>5, PeerAttached, BeyondIs
    <2>1. CASE r \in db[x]
      BY <1>6, <2>0, <2>1 DEF SpreadInv, Towards
    <2>2. CASE r \notin db[x]
      <3>1. x = n /\ r \in D \ db[n] /\ r.origin # n
        BY <1>1, <2>0, <2>2
      <3>2. PICK k \in Attached(n) : AtLeast(db[Peer(k, n)], r) /\ r.origin \in Beyond(k, n)
        BY <1>14, <3>1
      <3>3. Peer(k, n) = Peer(l, n)
        BY <1>0, <3>1, <3>2, BeyondApart
      <3> QED BY <1>6, <2>0, <3>1, <3>2, <3>3
    <2> QED BY <2>1, <2>2
  <1>16. Ways'
    <2> SUFFICES ASSUME NEW x \in Nodes, NEW r \in db'[x], NEW S \in SUBSET Nodes,
                        x \in S, r.origin \notin S
                 PROVE  \E l \in Conns : /\ Crosses(l, S) /\ Passes(r, l)
                                         /\ ends[Net[l].a][l] = "open" /\ ends[Net[l].b][l] = "open"
      BY DEF Ways, HasWay, Crosses
    <2>1. CASE r \in db[x]
      BY <2>1 DEF SpreadInv, Ways, HasWay
    <2>2. CASE r \notin db[x]
      <3>1. x = n /\ r \in D \ db[n] /\ r.origin # n
        BY <1>1, <2>2
      <3>2. PICK k \in Attached(n) :
               /\ Peer(k, n) \in Nodes /\ Peer(k, n) # n /\ k \in Conns
               /\ {n, Peer(k, n)} = {Net[k].a, Net[k].b}
               /\ ends[n][k] = "open" /\ ends[Peer(k, n)][k] = "open" /\ Passes(r, k)
               /\ AtLeast(db[Peer(k, n)], r)
        BY <1>14, <3>1
      <3>3. CASE Peer(k, n) \notin S
        <4>1. Crosses(k, S)
          BY <3>1, <3>2, <3>3 DEF Crosses
        <4>2. ends[Net[k].a][k] = "open" /\ ends[Net[k].b][k] = "open"
          BY <3>2
        <4> QED BY <3>2, <4>1, <4>2
      <3>4. CASE Peer(k, n) \in S
        <4>1. PICK s \in db[Peer(k, n)] : SameKey(s, r)
          BY <3>2 DEF AtLeast
        <4>2. HasWay(Peer(k, n), s) /\ s.origin \notin S
          BY <3>2, <4>1 DEF SpreadInv, Ways, SameKey
        <4>3. PICK l \in Conns : /\ Crosses(l, S) /\ Passes(s, l)
                                 /\ ends[Net[l].a][l] = "open" /\ ends[Net[l].b][l] = "open"
          BY <3>4, <4>2 DEF HasWay
        <4>4. Genuine(s) /\ Told(s) /\ Genuine(r) /\ Told(r) /\ SameKey(r, s)
          BY <1>2, <1>4, <3>1, <3>2, <4>1 DEF SpreadInv, AllGenuine, Spreads, LsaAt, SameKey
        <4>5. Passes(r, l)
          <5>1. r \in Lsa /\ s \in Lsa
            BY <1>2, <1>4, <3>1, <3>2, <4>1
          <5> QED BY <1>0, <3>2, <4>3, <4>4, <5>1, PassesAlike
        <4> QED BY <4>3, <4>5
      <3> QED BY <3>3, <3>4
    <2> QED BY <2>1, <2>2
  <1> QED BY <1>8, <1>9, <1>10, <1>12, <1>13, <1>15, <1>16 DEF SpreadInv

-----------------------------------------------------------------------------
(* Peers, and what the routers send.                                       *)

\* Peer tasks have not ended, and links are those of peers that have begun.
PeersUp ==
    /\ \A n \in Nodes : \A l \in Attached(n) : ends[n][l] # "closed"
    /\ \A n \in Nodes : \A l \in links[n] : ends[n][l] = "open"
    /\ \A m \in spawned : m.type = "RegisterPeer" /\ ends[m.node][m.conn] = "open"

\* A next hop leads to nodes on its side only.
HopsLead ==
    \A n, o \in Nodes : \A l \in Attached(n) : hop[n][o] = Peer(l, n) => o \in Beyond(l, n)

CalmInv == PeersUp /\ HopsLead /\ SpreadInv

\* Next hops that are computed anew.
LEMMA ChangeLeads ==
    ASSUME IInv, Benign, HopsLead, scn' = scn, NEW n \in Nodes, NEW D, NEW K,
           D \subseteq Lsa, \A x \in D : Genuine(x), Change(n, D, K)
    PROVE  HopsLead'
  <1> USE StaticSame, StaticToo
  <1>0. scn \in Scenarios /\ NoRings /\ hop \in [Nodes -> [Nodes -> Nodes \cup {NoNode}]]
    BY DEF IInv, LsaInv, Benign, HopsOK
  <1> SUFFICES ASSUME NEW k \in Nodes, NEW o \in Nodes, NEW l \in Attached(k),
                      hop'[k][o] = Peer(l, k)
               PROVE  o \in Beyond(l, k)
    BY DEF HopsLead
  <1>1. CASE hop'[k] = hop[k]
    BY <1>1 DEF HopsLead
  <1>2. CASE hop'[k] # hop[k]
    <2>1. k = n /\ hop'[n] = NextHops(n, D, K)
      BY <1>0, <1>2 DEF Change
    <2>2. \A x \in D : IsRouter(x) => AdjOK(x)
      BY DEF Genuine
    <2> QED BY <1>0, <2>1, <2>2, HopsLeadBeyond
  <1> QED BY <1>1, <1>2

\* A connection in use takes what is sent over it.
LEMMA LinkCarries ==
    ASSUME IInv, PeersUp, NEW n \in Nodes, NEW l \in Attached(n), ends[n][l] = "open"
    PROVE  Carries(l, n)
  <1>1. Peer(l, n) \in Nodes /\ l \in Attached(Peer(l, n))
    BY PeerAttached DEF IInv, LsaInv
  <1> QED BY <1>1 DEF Carries, PeersUp

\* What is flooded is sent over every link that leads away from its origin.
LEMMA FloodReaches ==
    ASSUME IInv, Benign, CalmInv, NEW n \in Nodes, NEW K, NEW l \in K, l \in Attached(n),
           ends[n][l] = "open", NEW x \in Lsa, NEW skip, l \notin skip,
           Passes(x, l), x.origin \notin Beyond(l, n)
    PROVE  [conn |-> l, to |-> Peer(l, n), lsa |-> Narrowed(x, l)] \in Flood(n, K, x, skip)
  <1>1. Peer(l, n) \in Beyond(l, n)
    BY BeyondIs DEF IInv, LsaInv, Benign
  <1>2. Carries(l, n)
    BY LinkCarries DEF CalmInv
  <1>3. x.origin \in Nodes
    BY DEF Lsa
  <1>4. Peer(l, n) \notin {x.origin, hop[n][x.origin]}
    BY <1>1, <1>3 DEF CalmInv, HopsLead
  <1>5. [conn |-> l, to |-> Peer(l, n), lsa |-> Narrowed(x, l)] \in Sent(n, l, {x})
    BY <1>2 DEF Sent
  <1> QED BY <1>4, <1>5 DEF Flood

\* A router brings out LSAs F of its own in the place of older ones.
LEMMA OwnSpreads ==
    ASSUME IInv, Benign, CalmInv, NEW n \in Nodes, NEW D, NEW F, F \subseteq D,
           db' = [db EXCEPT ![n] = D], links' = links,
           wire' = wire \cup FloodAll(n, links[n], F),
           \A r \in db[n] : r \in D \/ \E x \in F : SameKey(x, r),
           \A x \in D : x \in db[n] \/ x \in F,
           \A x \in F : /\ Genuine(x) /\ LsaAt(n, x) /\ x.origin = n
                        /\ \A r \in db[n] : SameKey(r, x) => r.seq < x.seq
                        /\ IsRouter(x) => \E r \in db[n] : SameKey(r, x) /\ x.adj = r.adj
    PROVE  Spreads(n, D, links[n])
  <1>1. /\ links[n] \subseteq Attached(n) /\ \A l \in links[n] : ends[n][l] = "open"
        /\ links' = [links EXCEPT ![n] = links[n]]
    BY DEF IInv, LsaInv, LinksOK, CalmInv, PeersUp
  <1>2. \A r \in db[n] : r \in Lsa /\ r.seq \in Nat
    BY DEF IInv, LsaInv, DbOK, Lsa
  <1>3. ASSUME NEW r \in db[n] PROVE AtLeast(D, r)
    <2>1. CASE r \in D
      BY <1>2, <2>1 DEF AtLeast, SameKey
    <2>2. CASE r \notin D
      <3>1. PICK x \in F : SameKey(x, r)
        BY <2>2
      <3>2. r.seq < x.seq /\ x \in D
        BY <3>1 DEF SameKey
      <3>3. x.seq \in Nat /\ r.seq \in Nat
        BY <1>2 DEF LsaAt, Lsa
      <3>4. r.seq <= x.seq
        BY <3>2, <3>3
      <3> QED BY <3>1, <3>2, <3>4 DEF AtLeast
    <2> QED BY <2>1, <2>2
  <1>4. ASSUME NEW r \in D, IsRouter(r), r.origin = n, links[n] # {} PROVE r.adj # {}
    <2>1. ASSUME NEW s \in db[n], SameKey(s, r) PROVE s.adj # {}
      BY <1>4, <2>1 DEF CalmInv, SpreadInv, Linked, SameKey, IsRouter
    <2>2. CASE r \in db[n]
      BY <2>1, <2>2 DEF SameKey
    <2>3. CASE r \in F
      BY <1>4, <2>1, <2>3
    <2> QED BY <2>2, <2>3
  <1>5. ASSUME NEW m \in wire' \ wire
        PROVE  \E l \in links[n], x \in D :
                 m = [conn |-> l, to |-> Peer(l, n), lsa |-> Narrowed(x, l)] /\ Passes(x, l)
    BY <1>5, FloodAllIs
  <1>6. ASSUME NEW l \in links[n], NEW r \in D, Passes(r, l), r.origin \notin Beyond(l, n), r \notin db[n]
        PROVE  [conn |-> l, to |-> Peer(l, n), lsa |-> Narrowed(r, l)] \in wire'
    <2>1. r \in F /\ r \in Lsa
      BY <1>6 DEF LsaAt
    <2>2. [conn |-> l, to |-> Peer(l, n), lsa |-> Narrowed(r, l)] \in Flood(n, links[n], r, {})
      BY <1>1, <1>6, <2>1, FloodReaches
    <2> QED BY <2>1, <2>2 DEF FloodAll
  <1> HIDE DEF LsaInv
  <1> QED BY <1>1, <1>3, <1>4, <1>5, <1>6 DEF Spreads

\* A node that begins to use a connection.
LEMMA RegisterPeerCalm ==
    ASSUME IInv, Benign, CalmInv, NEW n \in Nodes, NEW l, RegisterPeer(n, l)
    PROVE  CalmInv'
  <1> DEFINE adj == [conn |-> l, peer |-> Peer(l, n), cost |-> Net[l].cost, realms |-> Net[l].realms]
             A == Own(n).adj \cup {adj}
             x == [Own(n) EXCEPT !.adj = A]
  <1>1. /\ n \in Nodes \ stopped /\ scn' = scn /\ ends' = ends /\ spawned' \subseteq spawned
        /\ PeerMsg("RegisterPeer", n, l) \in spawned
    BY DEF RegisterPeer
  <1>2. l \in Attached(n) /\ ends[n][l] = "open"
    BY <1>1 DEF PeerMsg, IInv, LsaInv, SpawnedOK, CalmInv, PeersUp
  <1>3. /\ Own(n) \in Lsa /\ Own(n).origin = n /\ Own(n).ep = n /\ Own(n) \in db[n]
        /\ \A r \in db[n] : r.origin = n /\ IsRouter(r) => r = Own(n)
    BY <1>1, OwnIs DEF IsRouter, IInv
  <1>4. adj \in Adjacency
    BY <1>2, PeerAttached, NetTyped DEF Adjacency, IInv, LsaInv
  <1>5. /\ x \in Lsa /\ x.origin = n /\ x.ep = n /\ x.seq = Own(n).seq /\ x.info = Own(n).info
        /\ x.adj = A /\ x.dead = Own(n).dead
    BY <1>3, <1>4 DEF Lsa
  <1>6. PICK own : own = Bumped(x)
    OBVIOUS
  <1>a. \A a \in x.adj : "Global" \in a.realms
    <2>1. "Global" \in adj.realms
      BY <1>2, PeerAttached, NetTyped DEF IInv, LsaInv
    <2> QED BY <1>1, <1>5, <2>1, OwnIs DEF Told, IInv
  <1>7. LsaAt(n, own) /\ IsRouter(own) /\ \A r \in db[n] : r.origin = n /\ IsRouter(r) => r.seq < own.seq
    BY <1>1, <1>5, <1>6, <1>a, OwnBumped DEF IInv
  <1>8. /\ own \in Lsa /\ own.origin = n /\ own.ep = n /\ own.adj = A /\ own.dead = Own(n).dead
    BY <1>5, <1>6, BumpedIs
  <1>9. PICK D, K : D = Insert(db[n], own) /\ K = links[n] \cup {l}
    OBVIOUS
  <1>10. Change(n, D, K) /\ wire' = (wire \cup Flood(n, K, own, {l})) \cup Sent(n, l, D)
    BY <1>6, <1>9 DEF RegisterPeer
  <1>11. /\ own \in D /\ \A r \in D : r = own \/ r \in db[n]
         /\ \A r \in db[n] : SameKey(r, own) \/ r \in D
    BY <1>9, InsertIs DEF IInv, LsaInv, KeysInv
  <1>12. \A r \in db[n] : Genuine(r) /\ r \in Lsa /\ r.seq \in Nat
    BY DEF IInv, LsaInv, DbOK, CalmInv, SpreadInv, AllGenuine, Everywhere, Lsa
  <1>13. Genuine(own)
    <2>1. AdjOK(Own(n)) /\ ~Own(n).dead
      BY <1>3, <1>12 DEF Genuine, IsRouter
    <2>2. AdjOK(own)
      BY <1>2, <1>3, <1>8, <2>1 DEF AdjOK
    <2> QED BY <1>7, <1>8, <2>1, <2>2 DEF Genuine
  <1>14. /\ K \subseteq Attached(n) /\ \A k \in K : ends[n][k] = "open"
    BY <1>2, <1>9 DEF IInv, LsaInv, LinksOK, CalmInv, PeersUp
  <1>15. \A r \in db[n] : SameKey(r, own) => r.origin = n /\ IsRouter(r) /\ r.seq < own.seq
    BY <1>7, <1>8 DEF SameKey, IsRouter
  <1>16. ASSUME NEW r \in db[n] PROVE AtLeast(D, r)
    <2>1. CASE r \in D
      BY <1>12, <2>1 DEF AtLeast, SameKey
    <2>2. CASE r \notin D
      <3>1. SameKey(own, r) /\ r.seq < own.seq
        BY <1>11, <1>15, <2>2 DEF SameKey
      <3>2. r.seq <= own.seq
        BY <1>8, <1>12, <3>1 DEF Lsa
      <3> QED BY <1>11, <3>1, <3>2 DEF AtLeast
    <2> QED BY <2>1, <2>2
  <1>17. \A r \in D : IsRouter(r) /\ r.origin = n => r.adj # {}
    <2> SUFFICES ASSUME NEW r \in D, IsRouter(r), r.origin = n PROVE r = own
      BY <1>8
    <2>1. r \in D /\ SameKey(r, own)
      BY <1>8 DEF SameKey, IsRouter
    <2>2. OneEach(D)
      BY <1>9, InsertIs DEF IInv, LsaInv, KeysInv
    <2> QED BY <1>11, <2>1, <2>2 DEF OneEach
  <1>18. \A m \in wire' \ wire : \E k \in K, y \in D :
           m = [conn |-> k, to |-> Peer(k, n), lsa |-> Narrowed(y, k)] /\ Passes(y, k)
    <2> SUFFICES ASSUME NEW m \in wire' \ wire
                 PROVE  \E k \in K, y \in D :
                          m = [conn |-> k, to |-> Peer(k, n), lsa |-> Narrowed(y, k)] /\ Passes(y, k)
      OBVIOUS
    <2>1. CASE m \in Flood(n, K, own, {l})
      BY <1>11, <2>1, FloodIs
    <2>2. CASE m \in Sent(n, l, D)
      BY <1>9, <2>2, SentIs
    <2> QED BY <1>10, <2>1, <2>2
  <1>19. ASSUME NEW k \in K, NEW r \in D, Passes(r, k), r.origin \notin Beyond(k, n)
         PROVE  \/ r \in db[n] /\ k \in links[n]
                \/ [conn |-> k, to |-> Peer(k, n), lsa |-> Narrowed(r, k)] \in wire'
    <2>1. CASE k = l
      <3>1. Carries(l, n)
        BY <1>2, LinkCarries DEF CalmInv
      <3>2. [conn |-> l, to |-> Peer(l, n), lsa |-> Narrowed(r, l)] \in Sent(n, l, D)
        BY <1>19, <2>1, <3>1 DEF Sent
      <3> QED BY <1>10, <2>1, <3>2
    <2>2. CASE k # l /\ r = own
      <3>1. [conn |-> k, to |-> Peer(k, n), lsa |-> Narrowed(r, k)] \in Flood(n, K, own, {l})
        BY <1>8, <1>14, <1>19, <2>2, FloodReaches
      <3> QED BY <1>10, <3>1
    <2> QED BY <1>9, <1>11, <2>1, <2>2
  <1>20. \A y \in D \ db[n] : y = own
    BY <1>11
  <1>21. Spreads(n, D, K)
    BY <1>7, <1>8, <1>9, <1>10, <1>13, <1>14, <1>15, <1>16, <1>17, <1>18, <1>19, <1>20
    DEF Spreads, Change
  <1>22. SpreadInv'
    BY <1>1, <1>21, SpreadStep DEF CalmInv
  <1>23. D \subseteq Lsa /\ \A y \in D : Genuine(y)
    BY <1>8, <1>11, <1>12, <1>13
  <1>24. HopsLead'
    BY <1>1, <1>10, <1>23, ChangeLeads DEF CalmInv
  <1>25. PeersUp'
    <2>1. \A k \in Nodes : \A j \in links'[k] : ends[k][j] = "open"
      BY <1>9, <1>10, <1>14 DEF Change, IInv, LsaInv, LinksOK, CalmInv, PeersUp
    <2> QED BY <1>1, <2>1, StaticSame DEF CalmInv, PeersUp
  <1> QED BY <1>22, <1>24, <1>25 DEF CalmInv

\* A step that leaves the peers alone.
LEMMA PeersUpSame ==
    ASSUME PeersUp, UNCHANGED <<scn, links, ends, spawned>>
    PROVE  PeersUp'
  BY StaticSame DEF PeersUp

\* An LSA that arrives: ignored, or taken and handed on.
LEMMA HandleLsaCalm ==
    ASSUME IInv, Benign, CalmInv, NEW n \in Nodes, NEW in \in wire, HandleLsa(n, in)
    PROVE  CalmInv'
  <1>1. /\ scn' = scn /\ ends' = ends /\ spawned' = spawned /\ in.to = n
        /\ ends[n][in.conn] # "idle"
    BY DEF HandleLsa
  <1>2. PICK x, k : x = in.lsa /\ k = in.conn
    OBVIOUS
  <1>3. /\ LsaAt(n, x) /\ x \in Lsa /\ Genuine(x) /\ k \in Attached(n)
    BY <1>1, <1>2 DEF IInv, LsaInv, WireOK, LsaAt, CalmInv, SpreadInv, AllGenuine, Everywhere, WireUp
  <1>4. ends[n][k] = "open"
    BY <1>1, <1>2, <1>3 DEF IInv, TasksOK, CalmInv, PeersUp
  <1>5. /\ links[n] \subseteq Attached(n) /\ \A l \in links[n] : ends[n][l] = "open"
        /\ links = [links EXCEPT ![n] = links[n]] /\ db = [db EXCEPT ![n] = db[n]]
    BY DEF IInv, LsaInv, LinksOK, DbOK, CalmInv, PeersUp
  <1>6. \A r \in db[n] : Genuine(r) /\ r \in Lsa /\ r.seq \in Nat /\ AtLeast(db[n], r)
    <2>1. \A r \in db[n] : Genuine(r) /\ r \in Lsa /\ r.seq \in Nat
      BY DEF IInv, LsaInv, DbOK, CalmInv, SpreadInv, AllGenuine, Everywhere, Lsa
    <2> QED BY <2>1 DEF AtLeast, SameKey
  <1>7. \A r \in db[n] : IsRouter(r) /\ r.origin = n /\ links[n] # {} => r.adj # {}
    BY DEF CalmInv, SpreadInv, Linked
  <1>8. CASE Ignored(n, x) /\ wire' = wire \ {in} /\ UNCHANGED <<db, links, hop>>
    <2>1. x.origin = n \/ AtLeast(db[n], x)
      BY <1>8 DEF Ignored, AtLeast, Held
    <2>2. Spreads(n, db[n], links[n])
      BY <1>1, <1>2, <1>5, <1>6, <1>7, <1>8, <2>1 DEF Spreads
    <2>3. SpreadInv'
      BY <1>1, <2>2, SpreadStep DEF CalmInv
    <2>4. HopsLead' /\ PeersUp'
      BY <1>1, <1>8, StaticSame, StaticToo, PeersUpSame DEF CalmInv, HopsLead
    <2> QED BY <2>3, <2>4 DEF CalmInv
  <1>9. CASE ~Ignored(n, x) /\ Upsert(n, x, in)
    <2>1. PICK D : D = Insert(db[n], x)
      OBVIOUS
    <2>2. /\ Change(n, D, links[n])
          /\ wire' = (wire \ {in}) \cup Flood(n, links[n], x, {k})
          /\ \A r \in db[n] : SameKey(r, x) => r.seq < x.seq
      BY <1>2, <1>9, <2>1 DEF Upsert, Held, SameKey
    <2>3. x.origin # n
      BY <1>9 DEF Ignored
    <2>4. /\ x \in D /\ \A r \in D : r = x \/ r \in db[n]
          /\ \A r \in db[n] : SameKey(r, x) \/ r \in D
      BY <2>1, InsertIs DEF IInv, LsaInv, KeysInv
    <2>5. x.origin \in Beyond(k, n)
      BY <1>1, <1>2, <2>2, <2>3, NewsIsFromBeyond DEF CalmInv
    <2>6. ASSUME NEW r \in db[n] PROVE AtLeast(D, r)
      <3>1. CASE r \in D
        BY <1>6, <3>1 DEF AtLeast, SameKey
      <3>2. CASE r \notin D
        <4>1. SameKey(x, r) /\ r.seq < x.seq
          BY <2>2, <2>4, <3>2 DEF SameKey
        <4>2. r.seq <= x.seq
          BY <1>3, <1>6, <4>1 DEF Lsa
        <4> QED BY <2>4, <4>1, <4>2 DEF AtLeast
      <3> QED BY <3>1, <3>2
    <2>7. \A r \in D : IsRouter(r) /\ r.origin = n /\ links[n] # {} => r.adj # {}
      BY <1>7, <2>3, <2>4
    <2>8. \A m \in wire' \ wire : \E l \in links[n], y \in D :
             m = [conn |-> l, to |-> Peer(l, n), lsa |-> Narrowed(y, l)] /\ Passes(y, l)
      BY <2>2, <2>4, FloodIs
    <2>9. AtLeast(D, x)
      BY <1>3, <2>4 DEF AtLeast, SameKey, Lsa
    <2>10. \A m \in wire \ wire' : m.to = n /\ (m.lsa.origin = n \/ AtLeast(D, m.lsa))
      BY <1>1, <1>2, <2>2, <2>9
    <2>11. ASSUME NEW l \in links[n], NEW r \in D, Passes(r, l), r.origin \notin Beyond(l, n), r \notin db[n]
           PROVE  [conn |-> l, to |-> Peer(l, n), lsa |-> Narrowed(r, l)] \in wire'
      <3>1. r = x /\ l # k
        BY <2>4, <2>5, <2>11
      <3>2. [conn |-> l, to |-> Peer(l, n), lsa |-> Narrowed(r, l)] \in Flood(n, links[n], x, {k})
        BY <1>3, <1>5, <2>11, <3>1, FloodReaches
      <3> QED BY <2>2, <3>2
    <2>12. \A y \in D \ db[n] : y = x
      BY <2>4
    <2>13. Spreads(n, D, links[n])
      BY <1>1, <1>2, <1>3, <1>4, <1>5, <2>2, <2>6, <2>7, <2>8, <2>10, <2>11, <2>12
      DEF Spreads, Change
    <2>14. SpreadInv'
      BY <1>1, <2>13, SpreadStep DEF CalmInv
    <2>15. D \subseteq Lsa /\ \A y \in D : Genuine(y)
      BY <1>3, <1>6, <2>4
    <2>16. HopsLead'
      BY <1>1, <2>2, <2>15, ChangeLeads DEF CalmInv
    <2>17. links' = links
      BY <1>5, <2>2 DEF Change
    <2>18. PeersUp'
      BY <1>1, <2>17, PeersUpSame DEF CalmInv
    <2> QED BY <2>14, <2>16, <2>18 DEF CalmInv
  <1>10. ~x.dead
    BY <1>3 DEF Genuine
  <1> QED BY <1>2, <1>8, <1>9, <1>10 DEF HandleLsa

\* A router brings out LSAs F of its own: the whole step.
LEMMA OwnCalm ==
    ASSUME IInv, Benign, CalmInv, NEW n \in Nodes, NEW D, NEW F, F \subseteq D,
           UNCHANGED <<scn, ends, spawned>>, Change(n, D, links[n]),
           wire' = wire \cup FloodAll(n, links[n], F),
           \A r \in db[n] : r \in D \/ \E x \in F : SameKey(x, r),
           \A x \in D : x \in db[n] \/ x \in F,
           \A x \in F : /\ Genuine(x) /\ LsaAt(n, x) /\ x.origin = n
                        /\ \A r \in db[n] : SameKey(r, x) => r.seq < x.seq
                        /\ IsRouter(x) => \E r \in db[n] : SameKey(r, x) /\ x.adj = r.adj
    PROVE  CalmInv'
  <1>1. links' = links /\ db' = [db EXCEPT ![n] = D]
    BY DEF Change, IInv, LsaInv, LinksOK
  <1>2. Spreads(n, D, links[n])
    BY <1>1, OwnSpreads
  <1>3. SpreadInv'
    BY <1>2, SpreadStep DEF CalmInv
  <1>4. \A r \in db[n] : Genuine(r) /\ r \in Lsa
    BY DEF IInv, LsaInv, DbOK, CalmInv, SpreadInv, AllGenuine, Everywhere
  <1>5. D \subseteq Lsa /\ \A y \in D : Genuine(y)
    BY <1>4 DEF LsaAt
  <1>6. HopsLead'
    BY <1>5, ChangeLeads DEF CalmInv
  <1>7. PeersUp'
    BY <1>1, PeersUpSame DEF CalmInv
  <1> QED BY <1>3, <1>6, <1>7 DEF CalmInv

\* A genuine LSA stays so when it is sent again.
LEMMA BumpedGenuine ==
    ASSUME NEW x \in Lsa, Genuine(x)
    PROVE  Genuine(Bumped(x)) /\ SameKey(x, Bumped(x)) /\ (IsRouter(Bumped(x)) <=> IsRouter(x))
  <1>1. PICK y : y = Bumped(x)
    OBVIOUS
  <1>2. /\ y.origin = x.origin /\ y.ep = x.ep /\ y.info = x.info /\ y.dead = x.dead /\ y.adj = x.adj
    BY <1>1, BumpedIs
  <1>3. AdjOK(x) => AdjOK(y)
    BY <1>2 DEF AdjOK
  <1> QED BY <1>1, <1>2, <1>3 DEF Genuine, SameKey, IsRouter

\* Two databases that say the same of every endpoint.
Alike(D, E) ==
    /\ \A x \in D : \E y \in E : SameKey(y, x) /\ y.info = x.info
    /\ \A x \in E : \E y \in D : SameKey(y, x) /\ y.info = x.info

\* Nothing is too old as long as there is a way for it: timers only refresh.
LEMMA RefreshCalm ==
    ASSUME IInv, Benign, CalmInv, stopped = {}, NEW n \in Nodes, NEW S, NEW P, RefreshAndPurge(n, S, P)
    PROVE  CalmInv' /\ \A k \in Nodes : Alike(db[k], db'[k])
  <1>1. P = {}
    <2> SUFFICES ASSUME NEW r \in P PROVE FALSE
      OBVIOUS
    <2>1. r \in db[n] /\ Silent(n, r)
      BY DEF RefreshAndPurge
    <2>2. PICK T \in SUBSET Nodes :
            /\ n \in T /\ r.origin \notin T
            /\ \A l \in Conns :
                 {Net[l].a, Net[l].b} \cap T # {} /\ ~({Net[l].a, Net[l].b} \subseteq T)
                   => \/ ends[Net[l].a][l] # "open" \/ ends[Net[l].b][l] # "open"
                      \/ ~Passes(r, l)
      BY <2>1 DEF Silent
    <2>3. HasWay(n, r)
      BY <2>1 DEF CalmInv, SpreadInv, Ways
    <2> QED BY <2>2, <2>3 DEF HasWay, Crosses
  <1>2. PICK F : F = {Bumped(r) : r \in S}
    OBVIOUS
  <1>3. PICK D : D = (db[n] \ S) \cup F
    OBVIOUS
  <1>4. /\ S \subseteq db[n] /\ \A r \in S : r.origin = n
        /\ UNCHANGED <<scn, ends, spawned>>
    BY DEF RefreshAndPurge
  <1>5. Change(n, D, links[n]) /\ wire' = wire \cup FloodAll(n, links[n], F)
    BY <1>1, <1>2, <1>3 DEF RefreshAndPurge
  <1>6. \A r \in db[n] : Genuine(r) /\ r \in Lsa /\ LsaAt(n, r) /\ r.seq \in Nat
    BY DEF IInv, LsaInv, DbOK, CalmInv, SpreadInv, AllGenuine, Everywhere, Lsa
  <1>7. ASSUME NEW r \in S
        PROVE  LET x == Bumped(r)
               IN  /\ Genuine(x) /\ LsaAt(n, x) /\ x.origin = n /\ SameKey(x, r)
                   /\ \A s \in db[n] : SameKey(s, x) => s.seq < x.seq
                   /\ x.adj = r.adj /\ x.info = r.info /\ SameKey(r, x)
    <2>1. PICK x : x = Bumped(r)
      OBVIOUS
    <2>2. r \in db[n] /\ r.origin = n /\ r \in Lsa /\ LsaAt(n, r) /\ r.seq \in Nat
      BY <1>4, <1>6
    <2>3. Genuine(x) /\ SameKey(r, x) /\ (IsRouter(x) <=> IsRouter(r))
      BY <1>6, <2>1, <2>2, BumpedGenuine
    <2>4. /\ x \in Lsa /\ x.seq = r.seq + 1 /\ x.origin = n /\ x.ep = r.ep
          /\ x.info = r.info /\ x.adj = r.adj
      BY <2>1, <2>2, BumpedIs
    <2>5. Told(x)
      BY <2>2, <2>3, <2>4 DEF LsaAt, Told
    <2>6. LsaAt(n, x)
      BY <2>4, <2>5, OwnLsaAt
    <2>7. \A s \in db[n] : SameKey(s, x) => s = r
      BY <2>2, <2>3 DEF IInv, LsaInv, KeysInv, OneEach, SameKey
    <2>8. \A s \in db[n] : SameKey(s, x) => s.seq < x.seq
      BY <2>2, <2>4, <2>7
    <2> QED BY <2>1, <2>3, <2>4, <2>6, <2>8 DEF SameKey
  <1>8. \A x \in F : /\ Genuine(x) /\ LsaAt(n, x) /\ x.origin = n
                     /\ \A r \in db[n] : SameKey(r, x) => r.seq < x.seq
                     /\ IsRouter(x) => \E r \in db[n] : SameKey(r, x) /\ x.adj = r.adj
    <2> SUFFICES ASSUME NEW x \in F
                 PROVE  /\ Genuine(x) /\ LsaAt(n, x) /\ x.origin = n
                        /\ \A r \in db[n] : SameKey(r, x) => r.seq < x.seq
                        /\ \E r \in db[n] : SameKey(r, x) /\ x.adj = r.adj
      OBVIOUS
    <2>1. PICK r \in S : x = Bumped(r)
      BY <1>2
    <2> QED BY <1>4, <1>7, <2>1
  <1>9. \A r \in db[n] : r \in D \/ \E x \in F : SameKey(x, r)
    BY <1>2, <1>3, <1>7
  <1>10. F \subseteq D /\ \A x \in D : x \in db[n] \/ x \in F
    BY <1>3
  <1>11. CalmInv'
    BY <1>4, <1>5, <1>8, <1>9, <1>10, OwnCalm
  <1>12. db'[n] = D /\ \A k \in Nodes \ {n} : db'[k] = db[k]
    BY <1>5 DEF Change, IInv, LsaInv, DbOK
  <1>13. Alike(db[n], D)
    <2>1. ASSUME NEW x \in db[n] PROVE \E y \in D : SameKey(y, x) /\ y.info = x.info
      <3>1. CASE x \in S
        BY <1>2, <1>3, <1>7, <3>1
      <3>2. CASE x \notin S
        BY <1>3, <3>2 DEF SameKey
      <3> QED BY <3>1, <3>2
    <2>2. ASSUME NEW x \in D PROVE \E y \in db[n] : SameKey(y, x) /\ y.info = x.info
      <3>1. CASE x \in F
        BY <1>2, <1>4, <1>7, <3>1
      <3>2. CASE x \notin F
        BY <1>3, <3>2 DEF SameKey
      <3> QED BY <3>1, <3>2
    <2> QED BY <2>1, <2>2 DEF Alike
  <1>14. \A k \in Nodes \ {n} : Alike(db[k], db[k])
    BY DEF Alike, SameKey
  <1> QED BY <1>11, <1>12, <1>13, <1>14

-----------------------------------------------------------------------------
(* Local listeners and the route tables, in a network of this kind.        *)

\* A genuine LSA stays so with another cost.
LEMMA RecostedIs ==
    ASSUME NEW x \in Lsa, Genuine(x), NEW k \in Nat
    PROVE  LET y == Recosted(x, k)
           IN  /\ y \in Lsa /\ y.origin = x.origin /\ y.ep = x.ep /\ y.seq = x.seq + 1
               /\ y.info.kind = x.info.kind /\ y.info.cost = k /\ y.adj = x.adj
               /\ Genuine(y)
  <1>1. PICK z : z = [x EXCEPT !.info.cost = k]
    OBVIOUS
  <1>2. [x.info EXCEPT !.cost = k] \in EndpointInfo
    BY DEF Lsa, EndpointInfo
  <1>3. /\ z \in Lsa /\ z.origin = x.origin /\ z.ep = x.ep /\ z.seq = x.seq /\ z.adj = x.adj
        /\ z.dead = x.dead
        /\ z.info.kind = x.info.kind /\ z.info.realm = x.info.realm /\ z.info.cost = k
    BY <1>1, <1>2 DEF Lsa, EndpointInfo
  <1>4. AdjOK(x) => AdjOK(z)
    BY <1>3 DEF AdjOK
  <1>5. Genuine(z)
    BY <1>3, <1>4 DEF Genuine, IsRouter
  <1>6. Genuine(Bumped(z))
    BY <1>3, <1>5, BumpedGenuine
  <1>7. PICK y : y = Bumped(z)
    OBVIOUS
  <1>8. /\ y \in Lsa /\ y.origin = z.origin /\ y.ep = z.ep /\ y.seq = z.seq + 1
        /\ y.info = z.info /\ y.adj = z.adj
    BY <1>3, <1>7, BumpedIs
  <1>9. Recosted(x, k) = y
    BY <1>1, <1>7 DEF Recosted
  <1> QED BY <1>3, <1>6, <1>7, <1>8, <1>9

\* What the LSA work of an effect comes to: node n's advertisement of e.
CarriedOut(n, e, info, effect) ==
    /\ \A k \in Nodes \ {n} : db'[k] = db[k]
    /\ \A x : ~(x.origin = n /\ x.ep = e) => (x \in db'[n] <=> x \in db[n])
    /\ effect.lsa = "Add" =>
         /\ \E x \in db'[n] : x.origin = n /\ x.ep = e
         /\ \A x \in db'[n] : x.origin = n /\ x.ep = e => x.info = info
    /\ effect.lsa = "Update" =>
         /\ \A x \in db'[n] : x.origin = n /\ x.ep = e => x.info.cost \in effect.cost
         /\ effect.cost # {} /\ Advertised(n, e) # {} => \E x \in db'[n] : x.origin = n /\ x.ep = e
    /\ effect.lsa = "Noop" => db' = db

\* A new listener, or another cost.
LEMMA CarryOutCalm ==
    ASSUME IInv, Benign, CalmInv, NEW n \in Nodes, NEW e \in Endpoints, NEW info \in EndpointInfo,
           NEW effect, EffectOK(effect), CarryOut(n, e, info, effect),
           UNCHANGED <<scn, ends, spawned>>,
           effect.lsa \in {"Add", "Update", "Noop"}, effect.lsa = "Update" => effect.cost # {},
           effect.lsa = "Add" => /\ Advertised(n, e) = {}
                                 /\ Told(NewLsa(n, e, info)) /\ Genuine(NewLsa(n, e, info))
    PROVE  CalmInv' /\ CarriedOut(n, e, info, effect)
  <1>1. \A r \in db[n] : Genuine(r) /\ r \in Lsa /\ LsaAt(n, r) /\ r.seq \in Nat
    BY DEF IInv, LsaInv, DbOK, CalmInv, SpreadInv, AllGenuine, Everywhere, Lsa
  <1>2. OneEach(db[n]) /\ db \in [Nodes -> SUBSET Lsa] /\ e # n
    BY NamesDisjoint DEF IInv, LsaInv, KeysInv, DbOK
  <1>3. ASSUME NEW D, Change(n, D, links[n])
        PROVE  db'[n] = D /\ \A k \in Nodes \ {n} : db'[k] = db[k]
    BY <1>2, <1>3 DEF Change
  <1>4. CASE effect.lsa = "Add"
    <2>1. PICK x : x = NewLsa(n, e, info)
      OBVIOUS
    <2>2. /\ x \in Lsa /\ x.origin = n /\ x.ep = e /\ x.info = info /\ Told(x) /\ Genuine(x)
          /\ ~IsRouter(x)
      BY <1>2, <1>4, <2>1 DEF NewLsa, Lsa, Ids, IsRouter
    <2>3. PICK D : D = Insert(db[n], x)
      OBVIOUS
    <2>4. Change(n, D, links[n]) /\ wire' = wire \cup Flood(n, links[n], x, {})
      BY <1>4, <2>1, <2>3 DEF CarryOut
    <2>5. \A r \in db[n] : ~SameKey(r, x)
      BY <1>4, <2>2 DEF SameKey, Advertised
    <2>6. D = db[n] \cup {x}
      BY <2>3, <2>5 DEF Insert, Held
    <2>7. wire' = wire \cup FloodAll(n, links[n], {x})
      BY <2>4 DEF FloodAll
    <2>8. LsaAt(n, x)
      BY <2>2, OwnLsaAt
    <2>9. CalmInv'
      <3>0. PICK F : F = {x}
        OBVIOUS
      <3>1. \A y \in F : /\ Genuine(y) /\ LsaAt(n, y) /\ y.origin = n
                         /\ \A r \in db[n] : SameKey(r, y) => r.seq < y.seq
                         /\ IsRouter(y) => \E r \in db[n] : SameKey(r, y) /\ y.adj = r.adj
        BY <2>2, <2>5, <2>8, <3>0
      <3>2. /\ F \subseteq D /\ \A y \in D : y \in db[n] \/ y \in F
            /\ \A r \in db[n] : r \in D \/ \E y \in F : SameKey(y, r)
        BY <2>6, <3>0
      <3>3. wire' = wire \cup FloodAll(n, links[n], F)
        BY <2>7, <3>0
      <3> QED BY <2>4, <3>3, <3>1, <3>2, OwnCalm
    <2>10. CarriedOut(n, e, info, effect)
      <3>1. db'[n] = D /\ \A k \in Nodes \ {n} : db'[k] = db[k]
        BY <1>3, <2>4
      <3> QED BY <1>4, <2>2, <2>5, <2>6, <3>1 DEF CarriedOut, SameKey
    <2> QED BY <2>9, <2>10
  <1>5. CASE effect.lsa = "Update"
    <2>1. PICK k : effect.cost = {k} /\ k \in Nat
      BY <1>5 DEF EffectOK
    <2>2. PICK stale : stale = {r \in Advertised(n, e) : r.info.cost \notin effect.cost}
      OBVIOUS
    <2>3. PICK F : F = {Recosted(r, k) : r \in stale}
      OBVIOUS
    <2>4. PICK D : D = (db[n] \ stale) \cup F
      OBVIOUS
    <2>5. F = {Recosted(r, j) : r \in stale, j \in effect.cost}
      BY <2>1, <2>3
    <2>6. Change(n, D, links[n]) /\ wire' = wire \cup FloodAll(n, links[n], F)
      BY <1>5, <2>2, <2>4, <2>5 DEF CarryOut
    <2>7. \A r \in stale : r \in db[n] /\ r.origin = n /\ r.ep = e
      BY <2>2 DEF Advertised
    <2>8. ASSUME NEW x \in F
          PROVE  /\ x.origin = n /\ x.ep = e /\ x.info.cost = k /\ Genuine(x) /\ LsaAt(n, x)
                 /\ ~IsRouter(x)
                 /\ \A s \in db[n] : SameKey(s, x) => s.seq < x.seq
      <3>1. PICK r \in stale : x = Recosted(r, k)
        BY <2>3
      <3>2. r \in db[n] /\ r.origin = n /\ r.ep = e /\ r \in Lsa /\ Genuine(r) /\ Told(r) /\ r.seq \in Nat
        BY <1>1, <2>7 DEF LsaAt
      <3>3. /\ x \in Lsa /\ x.origin = n /\ x.ep = e /\ x.seq = r.seq + 1
            /\ x.info.kind = r.info.kind /\ x.info.cost = k /\ Genuine(x)
        BY <2>1, <3>1, <3>2, RecostedIs
      <3>4. ~IsRouter(x) /\ ~IsRouter(r)
        BY <1>2, <3>2, <3>3 DEF IsRouter
      <3>5. Told(x)
        <4>1. x.adj = r.adj
          BY <3>1, <3>2 DEF Recosted, Bumped, Lsa
        <4> QED BY <3>2, <3>3, <3>4, <4>1 DEF Told
      <3>6. LsaAt(n, x)
        BY <3>3, <3>5, OwnLsaAt
      <3>7. \A s \in db[n] : SameKey(s, x) => s = r
        BY <1>2, <3>2, <3>3 DEF OneEach, SameKey
      <3>8. \A s \in db[n] : SameKey(s, x) => s.seq < x.seq
        BY <3>2, <3>3, <3>7
      <3> QED BY <3>3, <3>4, <3>6, <3>8
    <2>9. \A r \in stale : \E x \in F : SameKey(x, r)
      <3> SUFFICES ASSUME NEW r \in stale PROVE \E x \in F : SameKey(x, r)
        OBVIOUS
      <3>1. PICK x \in F : x = Recosted(r, k)
        BY <2>3
      <3> QED BY <2>7, <2>8, <3>1 DEF SameKey
    <2>10. CalmInv'
      <3>1. F \subseteq D /\ \A x \in D : x \in db[n] \/ x \in F
        BY <2>4
      <3>2. \A r \in db[n] : r \in D \/ \E x \in F : SameKey(x, r)
        BY <2>4, <2>9
      <3> QED BY <2>6, <2>8, <3>1, <3>2, OwnCalm
    <2>11. CarriedOut(n, e, info, effect)
      <3>1. db'[n] = D /\ \A j \in Nodes \ {n} : db'[j] = db[j]
        BY <1>3, <2>6
      <3>2. \A x : ~(x.origin = n /\ x.ep = e) => (x \in D <=> x \in db[n])
        BY <2>4, <2>7, <2>8
      <3>3. \A x \in D : x.origin = n /\ x.ep = e => x.info.cost \in effect.cost
        BY <2>1, <2>2, <2>4, <2>8 DEF Advertised
      <3>4. Advertised(n, e) # {} => \E x \in D : x.origin = n /\ x.ep = e
        <4> SUFFICES ASSUME NEW r \in Advertised(n, e) PROVE \E x \in D : x.origin = n /\ x.ep = e
          OBVIOUS
        <4>1. CASE r \in stale
          BY <2>4, <2>8, <2>9, <4>1
        <4>2. CASE r \notin stale
          BY <2>4, <4>2 DEF Advertised
        <4> QED BY <4>1, <4>2
      <3> QED BY <1>5, <3>1, <3>2, <3>3, <3>4 DEF CarriedOut
    <2> QED BY <2>10, <2>11
  <1>6. CASE effect.lsa = "Noop"
    <2>1. UNCHANGED <<db, links, hop, wire>>
      BY <1>6 DEF CarryOut
    <2>2. CalmInv'
      <3>1. Change(n, db[n], links[n])
        BY <2>1 DEF Change, IInv, LsaInv, DbOK, LinksOK
      <3>2. wire' = wire \cup FloodAll(n, links[n], {})
        BY <2>1 DEF FloodAll
      <3> QED BY <3>1, <3>2, OwnCalm
    <2>3. CarriedOut(n, e, info, effect)
      BY <1>6, <2>1 DEF CarriedOut
    <2> QED BY <2>2, <2>3
  <1> QED BY <1>4, <1>5, <1>6

\* What the entry T of an endpoint e at node n says: the routes of the LSAs of
\* other nodes in the database D, those of the listeners L there, of their kind,
\* and the node's own LSA names the least cost of these.
TableIs(n, e, T, D, L) ==
    /\ \A r \in T.routes : r.via \in Nodes =>
         r.via # n /\ \E x \in D : x.origin = r.via /\ x.ep = e /\ r = Route(x.origin, x.info)
    /\ \A x \in D : x.origin # n /\ x.ep = e => Route(x.origin, x.info) \in T.routes
    /\ \A c \in Listeners : Listener[c].ep = e => T.kind \in {"None", Listener[c].info.kind}
    /\ \A r \in T.routes : r.via \in Channels =>
         /\ r.via \in L
         /\ Listener[r.via].info.kind # "Anycast" => r.cost = Listener[r.via].info.cost
    /\ \A c \in L : \E r \in T.routes : r.via = c
    /\ \A x \in D : x.origin = n /\ x.ep = e => x.info.cost \in MinLocalCost(T.routes)
    /\ MinLocalCost(T.routes) # {} => \E x \in D : x.origin = n /\ x.ep = e

TableAt(n, e) == TableIs(n, e, routes[n][e], db[n], Listening(n, e))

TablesTell == \A n \in Nodes, e \in Endpoints : TableAt(n, e)

\* An entry as a step leaves it.
LEMMA TableSet ==
    ASSUME scn' = scn, NEW n, NEW e, NEW T, NEW D, NEW L, TableIs(n, e, T, D, L),
           routes'[n][e] = T, db'[n] = D, Listening(n, e)' = L
    PROVE  TableAt(n, e)'
  <1>1. Listeners' = Listeners /\ Listener' = Listener
    BY DEF Listeners, Listener
  <1>2. TableIs(n, e, T, D, L)'
    BY <1>1 DEF TableIs
  <1> QED BY <1>1 DEF TableAt, TableIs

\* A step that leaves an endpoint at a node alone.
LEMMA TableSame ==
    ASSUME scn' = scn, NEW n \in Nodes, NEW e \in Endpoints, TableAt(n, e),
           routes'[n][e] = routes[n][e], Listening(n, e)' = Listening(n, e),
           \A x \in db[n] : x.ep = e =>
              \E y \in db'[n] : y.origin = x.origin /\ y.ep = e /\ y.info = x.info,
           \A x \in db'[n] : x.ep = e =>
              \E y \in db[n] : y.origin = x.origin /\ y.ep = e /\ y.info = x.info
    PROVE  TableAt(n, e)'
  <1>1. PICK T, D, E, L : T = routes[n][e] /\ D = db[n] /\ E = db'[n] /\ L = Listening(n, e)
    OBVIOUS
  <1>2. TableIs(n, e, T, D, L)
    BY <1>1 DEF TableAt
  <1>3. /\ \A x \in D : x.ep = e => \E y \in E : y.origin = x.origin /\ y.ep = e /\ y.info = x.info
        /\ \A x \in E : x.ep = e => \E y \in D : y.origin = x.origin /\ y.ep = e /\ y.info = x.info
    BY <1>1
  <1>4. ASSUME NEW r \in T.routes, r.via \in Nodes
        PROVE  r.via # n /\ \E x \in E : x.origin = r.via /\ x.ep = e /\ r = Route(x.origin, x.info)
    <2>1. r.via # n /\ \E x \in D : x.origin = r.via /\ x.ep = e /\ r = Route(x.origin, x.info)
      BY <1>2, <1>4 DEF TableIs
    <2>2. PICK x \in D : x.origin = r.via /\ x.ep = e /\ r = Route(x.origin, x.info)
      BY <2>1
    <2>3. PICK y \in E : y.origin = x.origin /\ y.ep = e /\ y.info = x.info
      BY <1>3, <2>2
    <2> QED BY <2>1, <2>2, <2>3
  <1>5. ASSUME NEW x \in E, x.ep = e
        PROVE  /\ x.origin # n => Route(x.origin, x.info) \in T.routes
               /\ x.origin = n => x.info.cost \in MinLocalCost(T.routes)
    <2>1. PICK y \in D : y.origin = x.origin /\ y.ep = e /\ y.info = x.info
      BY <1>3, <1>5
    <2> QED BY <1>2, <2>1 DEF TableIs
  <1>6. ASSUME MinLocalCost(T.routes) # {} PROVE \E x \in E : x.origin = n /\ x.ep = e
    <2>1. PICK x \in D : x.origin = n /\ x.ep = e
      BY <1>2, <1>6 DEF TableIs
    <2> QED BY <1>3, <2>1
  <1>7. TableIs(n, e, T, E, L)
    BY <1>2, <1>4, <1>5, <1>6 DEF TableIs
  <1> QED BY <1>1, <1>7, TableSet

\* An LSA of another node and its route come together.
LEMMA UpsertTable ==
    ASSUME IInv, Benign, CalmInv, TablesTell, UNCHANGED <<scn, lst>>, NEW n \in Nodes, NEW in \in wire,
           in.to = n, in.lsa.origin # n, NEW e \in Endpoints, in.lsa.ep = e, Upsert(n, in.lsa, in)
    PROVE  TableAt(n, e)'
  <1>1. PICK x : x = in.lsa
    OBVIOUS
  <1>2. /\ x \in Lsa /\ x.origin \in Nodes \ {n} /\ x.ep = e /\ e \in Ids /\ x.info \in EndpointInfo
        /\ Told(x) /\ ~IsRouter(x) /\ scn \in Scenarios
    BY <1>1, NamesDisjoint DEF IInv, LsaInv, WireOK, Packet, LsaAt, Lsa, IsRouter, Ids
  <1>3. PICK T : T = routes[n][e]
    OBVIOUS
  <1>4. T \in LsRouteEntry /\ (T.kind = "None" => T.routes = {})
    BY <1>2, <1>3 DEF IInv, TablesOK
  <1>5. PICK c \in Listeners : /\ Listener[c].node = x.origin /\ Listener[c].ep = e
                               /\ Listener[c].info.kind = x.info.kind
    BY <1>2 DEF Told
  <1>6. T.kind \in {"None", x.info.kind}
    BY <1>3, <1>5 DEF TablesTell, TableAt, TableIs
  <1>7. PICK add : add = AddRemoteEndpoint(T, x.origin, x.info)
    OBVIOUS
  <1>8. PICK U : U = add.entry
    OBVIOUS
  <1>9. x.info.kind = "Unicast" => \A r \in T.routes : r.via = x.origin
    <2> SUFFICES ASSUME x.info.kind = "Unicast", NEW r \in T.routes PROVE r.via = x.origin
      OBVIOUS
    <2>1. \A d \in Listeners : Listener[d].ep = e => Listener[d].node = x.origin
      BY <1>5 DEF Benign, Compatible
    <2>2. CASE r.via \in Nodes
      <3>1. PICK y \in db[n] : y.origin = r.via /\ y.ep = e
        BY <1>3, <2>2 DEF TablesTell, TableAt, TableIs
      <3>2. Told(y) /\ ~IsRouter(y)
        BY <2>2, <3>1, NamesDisjoint DEF IInv, LsaInv, DbOK, LsaAt, IsRouter
      <3> QED BY <2>1, <3>1, <3>2 DEF Told
    <2>3. CASE r.via \in Channels
      <3>1. r.via \in Listening(n, e)
        BY <1>3, <2>3 DEF TablesTell, TableAt, TableIs
      <3> QED BY <1>2, <2>1, <3>1 DEF Listening
    <2>4. r.via \in Channels \cup Nodes
      BY <1>4, NodesAreRemotes DEF LsRouteEntry, LsRoute
    <2> QED BY <2>2, <2>3, <2>4
  <1>10. /\ U.kind = x.info.kind
         /\ U.routes = {r \in T.routes : r.via # x.origin} \cup {Route(x.origin, x.info)}
    <2>1. PICK E : E = OrInsert(T, x.info.kind)
      OBVIOUS
    <2>2. E.kind = x.info.kind /\ E.routes = T.routes /\ E \in LsRouteEntry
      BY <1>2, <1>4, <1>6, <2>1 DEF OrInsert, LsRouteEntry, EndpointInfo
    <2>3. PICK old : old = {r \in E.routes : r.via = x.origin}
      OBVIOUS
    <2>4. ~(old = {} /\ AddRefused(E, x.info))
      BY <1>9, <2>2, <2>3 DEF AddRefused
    <2>5. U = [E EXCEPT !.routes = (E.routes \ old) \cup {Route(x.origin, x.info)}]
      BY <1>7, <1>8, <2>1, <2>2, <2>3, <2>4 DEF AddRemoteEndpoint
    <2>6. U.kind = E.kind /\ U.routes = (E.routes \ old) \cup {Route(x.origin, x.info)}
      BY <2>2, <2>5 DEF LsRouteEntry
    <2> QED BY <2>2, <2>3, <2>6
  <1>11. PICK D, E, L : D = db[n] /\ E = Insert(D, x) /\ L = Listening(n, e)
    OBVIOUS
  <1>12. db'[n] = E /\ routes'[n][e] = U /\ Listening(n, e)' = L
    <2>1. db'[n] = E /\ routes'[n][e] = U
      BY <1>1, <1>2, <1>3, <1>7, <1>8, <1>11 DEF Upsert, Change, IInv, LsaInv, DbOK, TablesOK
    <2>2. Listening(n, e)' = L
      BY <1>11 DEF Listeners, Listener, Listening
    <2> QED BY <2>1, <2>2
  <1>13. /\ x \in E /\ \A y \in E : y = x \/ (y \in D /\ ~SameKey(y, x))
         /\ \A y \in D : SameKey(y, x) \/ y \in E
    BY <1>11 DEF Insert, Held
  <1>14. TableIs(n, e, T, D, L)
    BY <1>3, <1>11 DEF TablesTell, TableAt
  <1>15. Locals(U.routes) = Locals(T.routes)
    BY <1>2, <1>10, TargetsDisjoint, NodesAreRemotes DEF Locals, IsLocal, Route
  <1>16. MinLocalCost(U.routes) = MinLocalCost(T.routes)
    BY <1>15 DEF MinLocalCost
  <1>17. ASSUME NEW r \in U.routes, r.via \in Nodes
         PROVE  r.via # n /\ \E y \in E : y.origin = r.via /\ y.ep = e /\ r = Route(y.origin, y.info)
    <2>1. CASE r = Route(x.origin, x.info)
      BY <1>2, <1>13, <2>1 DEF Route
    <2>2. CASE r # Route(x.origin, x.info)
      <3>1. r \in T.routes /\ r.via # x.origin
        BY <1>10, <2>2
      <3>2. r.via # n /\ \E y \in D : y.origin = r.via /\ y.ep = e /\ r = Route(y.origin, y.info)
        BY <1>14, <1>17, <3>1 DEF TableIs
      <3>3. PICK y \in D : y.origin = r.via /\ y.ep = e /\ r = Route(y.origin, y.info)
        BY <3>2
      <3>4. y \in E
        BY <1>13, <3>1, <3>3 DEF SameKey
      <3> QED BY <3>2, <3>3, <3>4
    <2> QED BY <2>1, <2>2
  <1>18. ASSUME NEW y \in E, y.origin # n, y.ep = e PROVE Route(y.origin, y.info) \in U.routes
    <2>1. CASE y = x
      BY <1>10, <2>1
    <2>2. CASE y # x
      <3>1. y \in D /\ y.origin # x.origin
        BY <1>2, <1>13, <1>18, <2>2 DEF SameKey
      <3>2. Route(y.origin, y.info) \in T.routes
        BY <1>14, <1>18, <3>1 DEF TableIs
      <3>3. Route(y.origin, y.info).via = y.origin
        BY DEF Route
      <3> QED BY <1>10, <3>1, <3>2, <3>3
    <2> QED BY <2>1, <2>2
  <1>19. \A y : y.origin = n => (y \in E <=> y \in D)
    BY <1>2, <1>13 DEF SameKey
  <1>20. \A r : r.via \in Channels => (r \in U.routes <=> r \in T.routes)
    BY <1>2, <1>10, TargetsDisjoint, NodesAreRemotes DEF Route
  <1>21. \A d \in Listeners : Listener[d].ep = e => U.kind = Listener[d].info.kind
    BY <1>5, <1>10 DEF Benign, Compatible
  <1>22. \A d \in L : d \in Channels
    BY <1>2, <1>11, ListenerTyped DEF Listening
  <1>23. ASSUME NEW d \in L PROVE \E r \in U.routes : r.via = d
    <2>1. PICK r \in T.routes : r.via = d
      BY <1>14 DEF TableIs
    <2> QED BY <1>20, <1>22, <2>1
  <1>24. ASSUME NEW r \in U.routes, r.via \in Channels
         PROVE  r.via \in L /\ (Listener[r.via].info.kind # "Anycast" => r.cost = Listener[r.via].info.cost)
    BY <1>14, <1>20, <1>24 DEF TableIs
  <1>25. /\ \A y \in E : y.origin = n /\ y.ep = e => y.info.cost \in MinLocalCost(U.routes)
         /\ MinLocalCost(U.routes) # {} => \E y \in E : y.origin = n /\ y.ep = e
    BY <1>14, <1>16, <1>19 DEF TableIs
  <1>26. TableIs(n, e, U, E, L)
    BY <1>17, <1>18, <1>21, <1>23, <1>24, <1>25 DEF TableIs
  <1> QED BY <1>12, <1>26, TableSet

\* There is a least cost where there is a local route.
LEMMA MinLocalCostSome ==
    ASSUME NEW R \in SUBSET LsRoute, Locals(R) # {}
    PROVE  MinLocalCost(R) # {}
  <1>1. PICK C : C = {r.cost : r \in Locals(R)}
    OBVIOUS
  <1>2. C \in SUBSET Nat /\ C # {}
    BY <1>1 DEF Locals, LsRoute
  <1>3. PICK k \in C : \A j \in C : k <= j
    BY <1>2, LeastNumber
  <1>4. PICK r \in Locals(R) : r.cost = k
    BY <1>1
  <1>5. r \in Cheapest(Locals(R))
    BY <1>1, <1>3, <1>4 DEF Cheapest
  <1> QED BY <1>5 DEF MinLocalCost

\* The least cost with one more local route.
LEMMA MinLocalCostWith ==
    ASSUME NEW R \in SUBSET LsRoute, NEW q \in LsRoute, IsLocal(q)
    PROVE  /\ Locals(R) = {} => MinLocalCost(R \cup {q}) = {q.cost}
           /\ \A p \in MinLocalCost(R) :
                /\ q.cost < p => MinLocalCost(R \cup {q}) = {q.cost}
                /\ ~(q.cost < p) => MinLocalCost(R \cup {q}) = MinLocalCost(R)
  <1>1. Locals(R \cup {q}) = Locals(R) \cup {q} /\ Locals(R) \subseteq LsRoute
    BY DEF Locals
  <1>2. PICK S : S = Locals(R)
    OBVIOUS
  <1>3. \A r \in S \cup {q} : r.cost \in Nat
    BY <1>1, <1>2 DEF LsRoute
  <1>4. S = {} => Cheapest(S \cup {q}) = {q}
    BY <1>3 DEF Cheapest
  <1>5. ASSUME NEW s \in Cheapest(S)
        PROVE  /\ q.cost < s.cost => Cheapest(S \cup {q}) = {q}
               /\ ~(q.cost < s.cost) => Cheapest(S) \subseteq Cheapest(S \cup {q})
               /\ ~(q.cost < s.cost) => \A r \in Cheapest(S \cup {q}) : r.cost = s.cost
    <2>1. s \in S /\ s.cost \in Nat /\ \A r \in S : s.cost <= r.cost
      BY <1>3, <1>5 DEF Cheapest
    <2>2. q.cost < s.cost => Cheapest(S \cup {q}) = {q}
      <3> SUFFICES ASSUME q.cost < s.cost PROVE Cheapest(S \cup {q}) = {q}
        OBVIOUS
      <3>1. \A r \in S : q.cost <= r.cost /\ ~(r.cost <= q.cost)
        BY <1>3, <2>1
      <3>2. q.cost <= q.cost
        BY <1>3
      <3> QED BY <3>1, <3>2 DEF Cheapest
    <2>3. ASSUME ~(q.cost < s.cost)
          PROVE  /\ \A r \in Cheapest(S) : r \in Cheapest(S \cup {q})
                 /\ \A r \in Cheapest(S \cup {q}) : r.cost = s.cost
      <3>1. s.cost <= q.cost
        BY <1>3, <2>1, <2>3
      <3>2. \A r \in Cheapest(S) : r \in S /\ r.cost <= s.cost /\ \A t \in S : r.cost <= t.cost
        BY <2>1 DEF Cheapest
      <3>3. \A r \in Cheapest(S) : r.cost <= q.cost
        BY <1>3, <2>1, <3>1, <3>2
      <3>4. \A r \in Cheapest(S) : r \in Cheapest(S \cup {q})
        BY <3>2, <3>3 DEF Cheapest
      <3>5. \A r \in Cheapest(S \cup {q}) : r \in S \cup {q} /\ r.cost <= s.cost
        BY <2>1 DEF Cheapest
      <3>6. \A r \in Cheapest(S \cup {q}) : r.cost = s.cost
        BY <1>3, <2>1, <3>1, <3>5
      <3> QED BY <3>4, <3>6
    <2> QED BY <2>2, <2>3
  <1>6. /\ MinLocalCost(R) = {r.cost : r \in Cheapest(S)}
        /\ MinLocalCost(R \cup {q}) = {r.cost : r \in Cheapest(S \cup {q})}
    BY <1>1, <1>2 DEF MinLocalCost
  <1>7. S = {} => MinLocalCost(R \cup {q}) = {q.cost}
    BY <1>4, <1>6
  <1>8. ASSUME NEW p \in MinLocalCost(R)
        PROVE  /\ q.cost < p => MinLocalCost(R \cup {q}) = {q.cost}
               /\ ~(q.cost < p) => MinLocalCost(R \cup {q}) = MinLocalCost(R)
    <2>1. PICK s \in Cheapest(S) : p = s.cost
      BY <1>6
    <2>2. CASE q.cost < p
      BY <1>5, <1>6, <2>1, <2>2
    <2>3. CASE ~(q.cost < p)
      <3>1. \A k \in MinLocalCost(R) : k \in MinLocalCost(R \cup {q})
        BY <1>5, <1>6, <2>1, <2>3
      <3>2. \A k \in MinLocalCost(R \cup {q}) : k = p
        BY <1>5, <1>6, <2>1, <2>3
      <3> QED BY <2>3, <3>1, <3>2
    <2> QED BY <2>2, <2>3
  <1> QED BY <1>2, <1>7, <1>8

\* The other endpoints and nodes are left alone.
LEMMA OthersTell ==
    ASSUME IInv, TablesTell, scn' = scn, NEW n \in Nodes, NEW e \in Endpoints, NEW info, NEW effect,
           CarriedOut(n, e, info, effect), NEW U, routes' = [routes EXCEPT ![n][e] = U],
           \A k \in Nodes, f \in Endpoints : k # n \/ f # e => Listening(k, f)' = Listening(k, f),
           TableAt(n, e)'
    PROVE  TablesTell'
  <1> SUFFICES ASSUME NEW k \in Nodes, NEW f \in Endpoints, k # n \/ f # e PROVE TableAt(k, f)'
    BY DEF TablesTell
  <1>1. routes'[k][f] = routes[k][f]
    BY DEF IInv, TablesOK, Ids
  <1>2. \A x : x.ep = f => (x \in db'[k] <=> x \in db[k])
    BY DEF CarriedOut
  <1>3. TableAt(k, f) /\ Listening(k, f)' = Listening(k, f)
    BY DEF TablesTell
  <1> QED BY <1>1, <1>2, <1>3, TableSame

\* What the table makes of a new listener.
AddMeans(T, info, c, add) ==
    \/ ~add.ok /\ add.entry = T /\ add.effect = Noop
    \/ /\ add.ok /\ add.entry.kind = info.kind
       /\ add.entry.routes = T.routes \cup {Route(c, info)}
       /\ \/ add.effect = AddLsa /\ Locals(T.routes) = {}
          \/ add.effect = UpdateLsa({info.cost}) /\ \E p \in MinLocalCost(T.routes) : info.cost < p
          \/ add.effect = Noop /\ \E p \in MinLocalCost(T.routes) : ~(info.cost < p)

\* It is what AddEndpoint does with a listener's registration where kinds and costs
\* are compatible.
LEMMA AddIs ==
    ASSUME scn \in Scenarios, Compatible, NEW c \in Listeners,
           NEW T \in LsRouteEntry, T.kind = "None" => T.routes = {}, NEW D,
           TableIs(Listener[c].node, Listener[c].ep, T, D, Listening(Listener[c].node, Listener[c].ep))
    PROVE  AddMeans(T, Listener[c].info, c, AddEndpoint(T, Listener[c].info, c))
  <1>0. PICK n, e, info, add : /\ n = Listener[c].node /\ e = Listener[c].ep /\ info = Listener[c].info
                               /\ add = AddEndpoint(T, info, c)
    OBVIOUS
  <1> SUFFICES AddMeans(T, info, c, add)
    BY <1>0
  <1>1. /\ c \in Channels /\ info \in EndpointInfo /\ info.kind \in {"Unicast", "Anycast", "Broadcast"}
    BY <1>0, ListenerTyped, ScenariosTyped DEF ScenarioOK, Listeners, Listener, EndpointInfo, Kinds
  <1>2. /\ add.ok \in BOOLEAN
        /\ ~add.ok => add.entry = T
        /\ add.ok =>
             /\ add.entry.kind = info.kind
             /\ add.entry.routes = T.routes \cup {Route(c, info)}
             /\ T.routes = {} \/ (T.kind = info.kind /\ info.kind # "Unicast")
    BY <1>0, <1>1, AddEndpointResult
  <1>3. PICK E : E = OrInsert(T, info.kind)
    OBVIOUS
  <1>4. E.routes = T.routes
    BY <1>3 DEF OrInsert
  <1>5. IF add.ok THEN add.effect = AddEffect(E, info) ELSE add.effect = Noop
    BY <1>0, <1>3 DEF AddEndpoint
  <1>6. T.routes \in SUBSET LsRoute /\ info.cost \in Nat
    BY <1>1 DEF LsRouteEntry, EndpointInfo
  <1>7. CASE add.ok /\ info.kind = "Unicast"
    <2>1. add.effect = AddLsa /\ Locals(T.routes) = {}
      BY <1>2, <1>5, <1>7 DEF AddEffect, Locals
    <2> QED BY <1>2, <1>7, <2>1 DEF AddMeans
  <1>8. CASE add.ok /\ info.kind = "Anycast"
    <2>1. add.effect = LET previous == MinLocalCost(T.routes)
                       IN  IF previous = {} THEN AddLsa
                           ELSE IF \A p \in previous : info.cost < p
                                THEN UpdateLsa({info.cost}) ELSE Noop
      BY <1>4, <1>5, <1>8 DEF AddEffect
    <2>2. MinLocalCost(T.routes) = {} => Locals(T.routes) = {}
      BY <1>6, MinLocalCostSome
    <2> QED BY <1>2, <1>8, <2>1, <2>2 DEF AddMeans
  <1>9. CASE add.ok /\ info.kind = "Broadcast"
    <2>1. add.effect = IF Locals(T.routes) = {} THEN AddLsa ELSE Noop
      BY <1>4, <1>5, <1>9 DEF AddEffect
    <2>2. ASSUME Locals(T.routes) # {} PROVE \E p \in MinLocalCost(T.routes) : ~(info.cost < p)
      <3>1. PICK p \in MinLocalCost(T.routes) : TRUE
        BY <1>6, <2>2, MinLocalCostSome
      <3>2. PICK r \in T.routes : r.via \in Channels /\ r.cost = p
        BY <3>1 DEF MinLocalCost, Cheapest, Locals, IsLocal
      <3>3. /\ r.via \in Listeners /\ Listener[r.via].node = n /\ Listener[r.via].ep = e
            /\ Listener[r.via].info.kind # "Anycast" => r.cost = Listener[r.via].info.cost
        BY <1>0, <3>2 DEF TableIs, Listening
      <3>4. Listener[r.via].info.kind = "Broadcast" /\ Listener[r.via].info.cost = info.cost
        BY <1>0, <1>9, <3>3 DEF Compatible
      <3>5. p = info.cost
        BY <3>2, <3>3, <3>4
      <3> QED BY <1>6, <3>5
    <2> QED BY <1>2, <1>9, <2>1, <2>2 DEF AddMeans
  <1> QED BY <1>1, <1>2, <1>5, <1>7, <1>8, <1>9 DEF AddMeans

\* A listener registers.
LEMMA RegisterEndpointCalm ==
    ASSUME IInv, Benign, CalmInv, TablesTell, NEW c \in Listeners, RegisterEndpoint(c)
    PROVE  CalmInv' /\ TablesTell'
  <1>1. PICK n, e, info : n = Listener[c].node /\ e = Listener[c].ep /\ info = Listener[c].info
    OBVIOUS
  <1>2. /\ c \in Channels /\ c \notin Nodes /\ n \in Nodes /\ e \in Endpoints /\ e \in Ids /\ e # n
        /\ info \in EndpointInfo /\ scn \in Scenarios
    BY <1>1, ListenerTyped, NamesDisjoint DEF IInv, LsaInv
  <1>3. PICK T, D, L : T = routes[n][e] /\ D = db[n] /\ L = Listening(n, e)
    OBVIOUS
  <1>4. /\ T \in LsRouteEntry /\ (T.kind = "None" => T.routes = {}) /\ TableIs(n, e, T, D, L)
        /\ T.routes \in SUBSET LsRoute
    BY <1>2, <1>3 DEF IInv, TablesOK, TablesTell, TableAt, LsRouteEntry
  <1>5. PICK add : add = AddEndpoint(T, info, c)
    OBVIOUS
  <1>6. /\ lst[c] = "new" /\ lst' = [lst EXCEPT ![c] = IF add.ok THEN "open" ELSE "closed"]
        /\ routes' = [routes EXCEPT ![n][e] = add.entry]
        /\ CarryOut(n, e, info, add.effect) /\ UNCHANGED <<scn, ends, spawned>>
    BY <1>1, <1>3, <1>5 DEF RegisterEndpoint
  <1>7. PICK q : q = Route(c, info)
    OBVIOUS
  <1>8. q \in LsRoute /\ IsLocal(q) /\ q.via = c /\ q.cost = info.cost
    BY <1>2, <1>7 DEF Route, LsRoute, IsLocal, EndpointInfo
  <1>9. \/ ~add.ok /\ add.entry = T /\ add.effect = Noop
        \/ /\ add.ok /\ add.entry.kind = info.kind
           /\ add.entry.routes = T.routes \cup {q}
           /\ \/ add.effect = AddLsa /\ Locals(T.routes) = {}
              \/ add.effect = UpdateLsa({info.cost}) /\ \E p \in MinLocalCost(T.routes) : info.cost < p
              \/ add.effect = Noop /\ \E p \in MinLocalCost(T.routes) : ~(info.cost < p)
    <2>1. Compatible /\ TableIs(n, e, T, D, Listening(n, e))
      BY <1>3, <1>4 DEF Benign
    <2>2. AddMeans(T, info, c, add)
      BY <1>1, <1>2, <1>4, <1>5, <2>1, AddIs
    <2> QED BY <1>7, <2>2 DEF AddMeans
  <1>10. EffectOK(add.effect)
    BY <1>2, <1>4, <1>5, AddEffectOK
  <1>11. /\ AddLsa.lsa = "Add" /\ Noop.lsa = "Noop"
         /\ UpdateLsa({info.cost}).lsa = "Update" /\ UpdateLsa({info.cost}).cost = {info.cost}
    BY DEF AddLsa, Noop, UpdateLsa
  <1>12. Locals(T.routes) = {} => MinLocalCost(T.routes) = {} /\ Advertised(n, e) = {}
    <2>1. Locals(T.routes) = {} => MinLocalCost(T.routes) = {}
      BY DEF MinLocalCost, Cheapest
    <2>2. Advertised(n, e) # {} => MinLocalCost(T.routes) # {}
      BY <1>3, <1>4 DEF Advertised, TableIs
    <2> QED BY <2>1, <2>2
  <1>13. Told(NewLsa(n, e, info)) /\ Genuine(NewLsa(n, e, info))
    <2>1. PICK x : x = NewLsa(n, e, info)
      OBVIOUS
    <2>2. x.origin = n /\ x.ep = e /\ x.info = info /\ ~x.dead /\ ~IsRouter(x) /\ x.adj = {}
      BY <1>2, <2>1 DEF NewLsa, IsRouter
    <2>3. \A d \in Listeners : Listener[d].ep = e => Listener[d].info.realm = info.realm
      BY <1>1 DEF Benign, Compatible
    <2> QED BY <1>1, <2>1, <2>2, <2>3 DEF Told, Genuine
  <1>14. CalmInv' /\ CarriedOut(n, e, info, add.effect)
    <2>1. /\ add.effect.lsa \in {"Add", "Update", "Noop"}
          /\ add.effect.lsa = "Update" => add.effect.cost # {}
          /\ add.effect.lsa = "Add" => Advertised(n, e) = {}
      BY <1>9, <1>11, <1>12
    <2> QED BY <1>2, <1>6, <1>10, <1>13, <2>1, CarryOutCalm
  <1>15. \A k \in Nodes, f \in Endpoints : k # n \/ f # e => Listening(k, f)' = Listening(k, f)
    BY <1>1, <1>6 DEF Listening, Listeners, Listener, IInv, TasksOK
  <1>16. Listening(n, e)' = IF add.ok THEN L \cup {c} ELSE L
    BY <1>1, <1>3, <1>6, <1>9 DEF Listening, Listeners, Listener, IInv, TasksOK
  <1>17. PICK U, E, K : U = add.entry /\ E = db'[n] /\ K = Listening(n, e)'
    OBVIOUS
  <1>18. routes'[n][e] = U
    BY <1>2, <1>6, <1>17 DEF IInv, TablesOK
  <1>19. \A x : x.origin # n \/ x.ep # e => (x \in E <=> x \in D)
    BY <1>3, <1>14, <1>17 DEF CarriedOut
  <1>20. TableIs(n, e, U, E, K)
    <2>1. CASE ~add.ok
      <3>1. U = T /\ E = D /\ K = L
        BY <1>3, <1>9, <1>11, <1>14, <1>16, <1>17, <2>1 DEF CarriedOut
      <3> QED BY <1>4, <3>1
    <2>2. CASE add.ok
      <3>1. U.kind = info.kind /\ U.routes = T.routes \cup {q} /\ K = L \cup {c}
        BY <1>9, <1>16, <1>17, <2>2
      <3>2. ASSUME NEW r \in U.routes, r.via \in Nodes
            PROVE  r.via # n /\ \E x \in E : x.origin = r.via /\ x.ep = e /\ r = Route(x.origin, x.info)
        <4>1. r \in T.routes
          BY <1>2, <1>8, <3>1, <3>2
        <4>2. r.via # n /\ \E x \in D : x.origin = r.via /\ x.ep = e /\ r = Route(x.origin, x.info)
          BY <1>4, <3>2, <4>1 DEF TableIs
        <4> QED BY <1>19, <4>2
      <3>3. \A x \in E : x.origin # n /\ x.ep = e => Route(x.origin, x.info) \in U.routes
        BY <1>4, <1>19, <3>1 DEF TableIs
      <3>4. \A d \in Listeners : Listener[d].ep = e => U.kind = Listener[d].info.kind
        BY <1>1, <3>1 DEF Benign, Compatible
      <3>5. \A r \in U.routes : r.via \in Channels =>
              /\ r.via \in K
              /\ Listener[r.via].info.kind # "Anycast" => r.cost = Listener[r.via].info.cost
        BY <1>1, <1>4, <1>8, <3>1 DEF TableIs
      <3>6. \A d \in K : \E r \in U.routes : r.via = d
        BY <1>4, <1>8, <3>1 DEF TableIs
      <3>7. MinLocalCost(T.routes) # {} => Advertised(n, e) # {}
        BY <1>3, <1>4 DEF TableIs, Advertised
      <3>8. /\ \A x \in E : x.origin = n /\ x.ep = e => x.info.cost \in MinLocalCost(U.routes)
            /\ MinLocalCost(U.routes) # {} => \E x \in E : x.origin = n /\ x.ep = e
        <4>1. CASE add.effect = AddLsa /\ Locals(T.routes) = {}
          <5>1. MinLocalCost(U.routes) = {info.cost}
            BY <1>4, <1>8, <3>1, <4>1, MinLocalCostWith
          <5>2. /\ \E x \in E : x.origin = n /\ x.ep = e
                /\ \A x \in E : x.origin = n /\ x.ep = e => x.info = info
            BY <1>11, <1>14, <1>17, <4>1 DEF CarriedOut
          <5> QED BY <5>1, <5>2
        <4>2. CASE add.effect = UpdateLsa({info.cost}) /\ \E p \in MinLocalCost(T.routes) : info.cost < p
          <5>1. MinLocalCost(U.routes) = {info.cost}
            BY <1>4, <1>8, <3>1, <4>2, MinLocalCostWith
          <5>2. /\ \E x \in E : x.origin = n /\ x.ep = e
                /\ \A x \in E : x.origin = n /\ x.ep = e => x.info.cost \in {info.cost}
            BY <1>11, <1>14, <1>17, <3>7, <4>2 DEF CarriedOut
          <5> QED BY <5>1, <5>2
        <4>3. CASE add.effect = Noop /\ \E p \in MinLocalCost(T.routes) : ~(info.cost < p)
          <5>1. MinLocalCost(U.routes) = MinLocalCost(T.routes)
            BY <1>4, <1>8, <3>1, <4>3, MinLocalCostWith
          <5>2. E = D
            BY <1>3, <1>11, <1>14, <1>17, <4>3 DEF CarriedOut
          <5> QED BY <1>4, <5>1, <5>2 DEF TableIs
        <4> QED BY <1>9, <2>2, <4>1, <4>2, <4>3
      <3> QED BY <3>2, <3>3, <3>4, <3>5, <3>6, <3>8 DEF TableIs
    <2> QED BY <2>1, <2>2
  <1>21. TableAt(n, e)'
    BY <1>6, <1>17, <1>18, <1>20, TableSet
  <1>22. TablesTell'
    BY <1>2, <1>6, <1>14, <1>15, <1>21, OthersTell
  <1> QED BY <1>14, <1>22

\* What the table makes of another cost of an anycast listener.
LEMMA SetCostIs ==
    ASSUME NEW T \in LsRouteEntry, NEW c \in Channels, NEW k \in Nat, NEW set,
           set = SetAnycastCost(T, c, k), set.result = "Changed"
    PROVE  /\ set.entry.kind = T.kind /\ set.entry.routes \in SUBSET LsRoute
           /\ \A r : r.via # c => (r \in set.entry.routes <=> r \in T.routes)
           /\ \A d : (\E r \in set.entry.routes : r.via = d) <=> (\E r \in T.routes : r.via = d)
           /\ \/ set.effect = Noop /\ MinLocalCost(set.entry.routes) = MinLocalCost(T.routes)
              \/ set.effect = UpdateLsa(MinLocalCost(set.entry.routes))
  <1> DEFINE mine == {r \in T.routes : r.via = c}
             new == {[r EXCEPT !.cost = k] : r \in mine}
             U == [T EXCEPT !.routes = (@ \ mine) \cup new]
  <1>1. set.effect = IF set.result = "Changed" /\ MinLocalCost(U.routes) # MinLocalCost(T.routes)
                     THEN UpdateLsa(MinLocalCost(U.routes)) ELSE Noop
    BY DEF SetAnycastCost
  <1>2. set.entry = IF set.result = "Changed" THEN U ELSE T
    BY DEF SetAnycastCost
  <1>3. U.kind = T.kind /\ U.routes = (T.routes \ mine) \cup new /\ T.routes \subseteq LsRoute
    BY DEF LsRouteEntry
  <1>4. \A r \in mine : [r EXCEPT !.cost = k] \in LsRoute /\ [r EXCEPT !.cost = k].via = c
    BY <1>3 DEF LsRoute
  <1>5. new \subseteq LsRoute /\ (\A r \in new : r.via = c) /\ (mine # {} <=> new # {})
    BY <1>4
  <1> HIDE DEF new, U
  <1>6. /\ set.entry = U
        /\ set.effect = IF MinLocalCost(U.routes) # MinLocalCost(T.routes)
                        THEN UpdateLsa(MinLocalCost(U.routes)) ELSE Noop
    BY <1>1, <1>2
  <1>7. \A r : r.via # c => (r \in U.routes <=> r \in T.routes)
    BY <1>3, <1>5
  <1>8. ASSUME NEW d PROVE (\E r \in U.routes : r.via = d) <=> (\E r \in T.routes : r.via = d)
    <2>1. CASE d # c
      BY <1>7, <2>1
    <2>2. CASE d = c
      BY <1>3, <1>5, <2>2
    <2> QED BY <2>1, <2>2
  <1>9. U.routes \in SUBSET LsRoute
    BY <1>3, <1>5
  <1> QED BY <1>3, <1>6, <1>7, <1>8, <1>9

\* A listener changes its cost.
LEMMA SetCostCalm ==
    ASSUME IInv, Benign, CalmInv, TablesTell, NEW c \in Listeners, NEW k \in Nat, SetCost(c, k)
    PROVE  CalmInv' /\ TablesTell'
  <1>1. PICK n, e, info : n = Listener[c].node /\ e = Listener[c].ep /\ info = Listener[c].info
    OBVIOUS
  <1>2. /\ c \in Channels /\ c \notin Nodes /\ n \in Nodes /\ e \in Endpoints /\ e \in Ids /\ e # n
        /\ info \in EndpointInfo /\ scn \in Scenarios
    BY <1>1, ListenerTyped, NamesDisjoint DEF IInv, LsaInv
  <1>3. PICK T, D, L : T = routes[n][e] /\ D = db[n] /\ L = Listening(n, e)
    OBVIOUS
  <1>4. /\ T \in LsRouteEntry /\ TableIs(n, e, T, D, L) /\ T.routes \in SUBSET LsRoute
    BY <1>2, <1>3 DEF IInv, TablesOK, TablesTell, TableAt, LsRouteEntry
  <1>5. PICK set : set = SetAnycastCost(T, c, k)
    OBVIOUS
  <1>6. /\ lst[c] = "open" /\ set.result = "Changed" /\ info.kind = "Anycast"
        /\ routes' = [routes EXCEPT ![n][e] = set.entry]
        /\ CarryOut(n, e, info, set.effect) /\ UNCHANGED <<scn, lst, ends, spawned>>
    BY <1>1, <1>3, <1>5 DEF SetCost
  <1>7. PICK U, E, M : U = set.entry /\ E = db'[n] /\ M = MinLocalCost(U.routes)
    OBVIOUS
  <1>8. /\ U.kind = T.kind /\ U.routes \in SUBSET LsRoute
        /\ \A r : r.via # c => (r \in U.routes <=> r \in T.routes)
        /\ \A d : (\E r \in U.routes : r.via = d) <=> (\E r \in T.routes : r.via = d)
        /\ \/ set.effect = Noop /\ M = MinLocalCost(T.routes)
           \/ set.effect = UpdateLsa(M)
    BY <1>2, <1>4, <1>5, <1>6, <1>7, SetCostIs
  <1>9. c \in L
    BY <1>1, <1>3, <1>6 DEF Listening
  <1>10. M # {} /\ MinLocalCost(T.routes) # {}
    <2>1. (\E r \in T.routes : r.via = c) /\ (\E r \in U.routes : r.via = c)
      BY <1>4, <1>8, <1>9 DEF TableIs
    <2>2. Locals(T.routes) # {} /\ Locals(U.routes) # {}
      BY <1>2, <2>1 DEF Locals, IsLocal
    <2> QED BY <1>4, <1>7, <1>8, <2>2, MinLocalCostSome
  <1>11. EffectOK(set.effect)
    BY <1>2, <1>4, <1>5, SetEffectOK
  <1>12. Noop.lsa = "Noop" /\ UpdateLsa(M).lsa = "Update" /\ UpdateLsa(M).cost = M
    BY DEF Noop, UpdateLsa
  <1>13. CalmInv' /\ CarriedOut(n, e, info, set.effect)
    <2>1. /\ set.effect.lsa \in {"Add", "Update", "Noop"} /\ set.effect.lsa # "Add"
          /\ set.effect.lsa = "Update" => set.effect.cost # {}
      BY <1>8, <1>10, <1>12
    <2> QED BY <1>2, <1>6, <1>11, <2>1, CarryOutCalm
  <1>14. \A m \in Nodes, f \in Endpoints : Listening(m, f)' = Listening(m, f)
    BY <1>6 DEF Listening, Listeners, Listener
  <1>15. routes'[n][e] = U
    BY <1>2, <1>6, <1>7 DEF IInv, TablesOK
  <1>16. \A x : x.origin # n \/ x.ep # e => (x \in E <=> x \in D)
    BY <1>3, <1>7, <1>13 DEF CarriedOut
  <1>17. TableIs(n, e, U, E, L)
    <2>1. ASSUME NEW r \in U.routes, r.via \in Nodes
          PROVE  r.via # n /\ \E x \in E : x.origin = r.via /\ x.ep = e /\ r = Route(x.origin, x.info)
      <3>1. r \in T.routes
        BY <1>2, <1>8, <2>1
      <3>2. r.via # n /\ \E x \in D : x.origin = r.via /\ x.ep = e /\ r = Route(x.origin, x.info)
        BY <1>4, <2>1, <3>1 DEF TableIs
      <3> QED BY <1>16, <3>2
    <2>2. ASSUME NEW x \in E, x.origin # n, x.ep = e PROVE Route(x.origin, x.info) \in U.routes
      <3>1. x \in D
        BY <1>16, <2>2
      <3>2. Route(x.origin, x.info) \in T.routes
        BY <1>4, <2>2, <3>1 DEF TableIs
      <3>3. Route(x.origin, x.info).via = x.origin
        BY DEF Route
      <3>4. x.origin \in Nodes
        BY <1>2, <1>3, <3>1 DEF IInv, LsaInv, DbOK, Lsa
      <3> QED BY <1>2, <1>8, <3>2, <3>3, <3>4
    <2>3. \A d \in Listeners : Listener[d].ep = e => U.kind \in {"None", Listener[d].info.kind}
      BY <1>4, <1>8 DEF TableIs
    <2>4. ASSUME NEW r \in U.routes, r.via \in Channels
          PROVE  /\ r.via \in L
                 /\ Listener[r.via].info.kind # "Anycast" => r.cost = Listener[r.via].info.cost
      <3>1. CASE r.via = c
        BY <1>1, <1>6, <1>9, <3>1
      <3>2. CASE r.via # c
        BY <1>4, <1>8, <2>4, <3>2 DEF TableIs
      <3> QED BY <3>1, <3>2
    <2>5. \A d \in L : \E r \in U.routes : r.via = d
      BY <1>4, <1>8 DEF TableIs
    <2>6. /\ \A x \in E : x.origin = n /\ x.ep = e => x.info.cost \in M
          /\ \E x \in E : x.origin = n /\ x.ep = e
      <3>1. Advertised(n, e) # {}
        BY <1>3, <1>4, <1>10 DEF TableIs, Advertised
      <3>2. CASE set.effect = Noop /\ M = MinLocalCost(T.routes)
        <4>1. E = D
          BY <1>3, <1>7, <1>12, <1>13, <3>2 DEF CarriedOut
        <4> QED BY <1>4, <1>10, <3>2, <4>1 DEF TableIs
      <3>3. CASE set.effect = UpdateLsa(M)
        BY <1>7, <1>10, <1>12, <1>13, <3>1, <3>3 DEF CarriedOut
      <3> QED BY <1>8, <3>2, <3>3
    <2> QED BY <1>7, <2>1, <2>2, <2>3, <2>4, <2>5, <2>6 DEF TableIs
  <1>18. TableAt(n, e)'
    <2>1. Listening(n, e)' = L
      BY <1>2, <1>3, <1>14
    <2> QED BY <1>6, <1>7, <1>15, <1>17, <2>1, TableSet
  <1>19. routes' = [routes EXCEPT ![n][e] = U]
    BY <1>6, <1>7
  <1>20. TablesTell'
    BY <1>2, <1>6, <1>13, <1>14, <1>18, <1>19, OthersTell
  <1> QED BY <1>13, <1>20

\* A peer task begins.
LEMMA StartPeerCalm ==
    ASSUME IInv, CalmInv, NEW n \in Nodes, NEW l, StartPeer(n, l)
    PROVE  CalmInv'
  <1> USE StaticSame, StaticToo
  <1>1. /\ UNCHANGED <<scn, db, links, hop, wire>> /\ l \in Attached(n)
        /\ ends' = [ends EXCEPT ![n][l] = "open"]
        /\ spawned' = spawned \cup {PeerMsg("RegisterPeer", n, l)}
    BY DEF StartPeer
  <1>2. /\ \A k \in Nodes : \A j \in Attached(k) : ends'[k][j] = ends[k][j] \/ ends'[k][j] = "open"
        /\ ends'[n][l] = "open"
    BY <1>1 DEF IInv, TasksOK
  <1>3. PeersUp'
    <2>1. \A k \in Nodes : \A j \in Attached(k) : ends'[k][j] # "closed"
      BY <1>2 DEF CalmInv, PeersUp
    <2>2. \A k \in Nodes : \A j \in links[k] : ends'[k][j] = "open"
      BY <1>2 DEF CalmInv, PeersUp, IInv, LsaInv, LinksOK
    <2>3. ASSUME NEW m \in spawned' PROVE m.type = "RegisterPeer" /\ ends'[m.node][m.conn] = "open"
      <3>1. CASE m \in spawned
        <4>1. m.type = "RegisterPeer" /\ ends[m.node][m.conn] = "open"
          BY <3>1 DEF CalmInv, PeersUp
        <4>2. m.node \in Nodes /\ m.conn \in Attached(m.node)
          BY <3>1, <4>1 DEF IInv, LsaInv, SpawnedOK
        <4> QED BY <1>2, <4>1, <4>2
      <3>2. CASE m \notin spawned
        <4>1. m = PeerMsg("RegisterPeer", n, l)
          BY <1>1, <3>2
        <4> QED BY <1>2, <4>1 DEF PeerMsg
      <3> QED BY <3>1, <3>2
    <2> QED BY <1>1, <2>1, <2>2, <2>3 DEF PeersUp
  <1>4. HopsLead' /\ Away' /\ Towards' /\ Linked' /\ AllGenuine' /\ NewestAtHome'
    <2>1. Everywhere' = Everywhere
      BY <1>1 DEF Everywhere
    <2>2. AllGenuine' /\ NewestAtHome' /\ Linked'
      BY <1>1, <2>1 DEF CalmInv, SpreadInv, AllGenuine, NewestAtHome, Linked, SameKey, IsRouter
    <2>3. HopsLead' /\ Towards'
      BY <1>1 DEF CalmInv, SpreadInv, HopsLead, Towards, AtLeast, SameKey
    <2>4. Away'
      BY <1>1 DEF CalmInv, SpreadInv, Away, AtLeast, UnderWay, SameKey
    <2> QED BY <2>2, <2>3, <2>4
  <1>5. WireUp'
    <2> SUFFICES ASSUME NEW m \in wire
                 PROVE  /\ m.to \in Nodes /\ m.conn \in Attached(m.to) /\ Passes(m.lsa, m.conn)
                        /\ ends'[Peer(m.conn, m.to)][m.conn] = "open"
                        /\ AtLeast(db[Peer(m.conn, m.to)], m.lsa)
      BY <1>1 DEF WireUp, AtLeast, SameKey
    <2>1. /\ m.conn \in Attached(m.to) /\ Passes(m.lsa, m.conn)
          /\ ends[Peer(m.conn, m.to)][m.conn] = "open"
          /\ AtLeast(db[Peer(m.conn, m.to)], m.lsa)
      BY DEF CalmInv, SpreadInv, WireUp
    <2>2. m.to \in Nodes
      BY DEF IInv, LsaInv, WireOK, Packet
    <2>3. Peer(m.conn, m.to) \in Nodes /\ m.conn \in Attached(Peer(m.conn, m.to))
      BY <2>1, <2>2, PeerAttached DEF IInv, LsaInv
    <2> QED BY <1>2, <2>1, <2>2, <2>3
  <1>6. Ways'
    <2> SUFFICES ASSUME NEW k \in Nodes, NEW r \in db[k], NEW S \in SUBSET Nodes,
                        k \in S, r.origin \notin S
                 PROVE  \E j \in Conns : /\ Crosses(j, S) /\ Passes(r, j)
                                         /\ ends'[Net[j].a][j] = "open" /\ ends'[Net[j].b][j] = "open"
      BY <1>1 DEF Ways, HasWay, Crosses
    <2>1. HasWay(k, r)
      BY DEF CalmInv, SpreadInv, Ways
    <2>2. PICK j \in Conns : /\ Crosses(j, S) /\ Passes(r, j)
                             /\ ends[Net[j].a][j] = "open" /\ ends[Net[j].b][j] = "open"
      BY <2>1 DEF HasWay
    <2>3. /\ Net[j].a \in Nodes /\ Net[j].b \in Nodes
          /\ j \in Attached(Net[j].a) /\ j \in Attached(Net[j].b)
      BY NetTyped DEF Attached, IInv, LsaInv
    <2> QED BY <1>2, <2>2, <2>3
  <1> QED BY <1>3, <1>4, <1>5, <1>6 DEF CalmInv, SpreadInv

\* A step that leaves the tables alone, and what the databases say of endpoints.
LEMMA AlikeTell ==
    ASSUME TablesTell, UNCHANGED <<scn, routes, lst>>,
           \A n \in Nodes, e \in Endpoints :
              /\ \A x \in db[n] : x.ep = e =>
                    \E y \in db'[n] : y.origin = x.origin /\ y.ep = e /\ y.info = x.info
              /\ \A x \in db'[n] : x.ep = e =>
                    \E y \in db[n] : y.origin = x.origin /\ y.ep = e /\ y.info = x.info
    PROVE  TablesTell'
  <1> SUFFICES ASSUME NEW n \in Nodes, NEW e \in Endpoints PROVE TableAt(n, e)'
    BY DEF TablesTell
  <1>1. Listening(n, e)' = Listening(n, e) /\ routes'[n][e] = routes[n][e] /\ TableAt(n, e)
    BY DEF Listening, Listeners, Listener, TablesTell
  <1> QED BY <1>1, TableSame

\* A Router LSA says nothing of endpoints.
LEMMA RegisterPeerTell ==
    ASSUME IInv, TablesTell, NEW n \in Nodes, NEW l, RegisterPeer(n, l)
    PROVE  TablesTell'
  <1>1. n \in Nodes \ stopped /\ UNCHANGED <<scn, routes, lst>>
    BY DEF RegisterPeer
  <1>2. Own(n) \in Lsa /\ Own(n).origin = n /\ Own(n).ep = n
    BY <1>1, OwnIs DEF IInv, IsRouter
  <1>3. PICK x : x.ep = n /\ x.origin = n /\ db' = [db EXCEPT ![n] = Insert(db[n], x)]
    <2> DEFINE A == Own(n).adj \cup {[conn |-> l, peer |-> Peer(l, n), cost |-> Net[l].cost, realms |-> Net[l].realms]}
               x == Bumped([Own(n) EXCEPT !.adj = A])
    <2>1. db' = [db EXCEPT ![n] = Insert(db[n], x)]
      BY DEF RegisterPeer, Change
    <2> HIDE DEF A
    <2>2. x.origin = n /\ x.ep = n
      BY <1>2 DEF Bumped, Lsa
    <2> HIDE DEF x
    <2> QED BY <2>1, <2>2
  <1>4. /\ db'[n] = Insert(db[n], x) /\ \A k \in Nodes \ {n} : db'[k] = db[k]
    BY <1>3 DEF IInv, LsaInv, DbOK
  <1>5. \A y : y.ep # n => (y \in db'[n] <=> y \in db[n])
    BY <1>3, <1>4 DEF Insert, Held, SameKey
  <1>6. \A k \in Nodes, e \in Endpoints : \A y : y.ep = e => (y \in db'[k] <=> y \in db[k])
    BY <1>4, <1>5, NamesDisjoint
  <1>7. \A k \in Nodes, e \in Endpoints :
          /\ \A y \in db[k] : y.ep = e =>
                \E z \in db'[k] : z.origin = y.origin /\ z.ep = e /\ z.info = y.info
          /\ \A y \in db'[k] : y.ep = e =>
                \E z \in db[k] : z.origin = y.origin /\ z.ep = e /\ z.info = y.info
    BY <1>6
  <1> QED BY <1>1, <1>7, AlikeTell

\* An LSA that arrives changes the table of its endpoint.
LEMMA HandleLsaTell ==
    ASSUME IInv, Benign, CalmInv, TablesTell, NEW n \in Nodes, NEW in \in wire, HandleLsa(n, in)
    PROVE  TablesTell'
  <1>1. UNCHANGED <<scn, lst>> /\ in.to = n
    BY DEF HandleLsa
  <1>2. \A k \in Nodes, f \in Endpoints : Listening(k, f)' = Listening(k, f)
    BY <1>1 DEF Listening, Listeners, Listener
  <1>3. CASE UNCHANGED <<db, routes>>
    BY <1>1, <1>3, AlikeTell
  <1>4. CASE ~Ignored(n, in.lsa) /\ Upsert(n, in.lsa, in)
    <2>1. PICK x : x = in.lsa
      OBVIOUS
    <2>2. x.origin # n /\ x.ep \in Ids
      BY <1>4, <2>1 DEF Ignored, IInv, LsaInv, WireOK, Packet, Lsa
    <2>3. PICK U : routes' = [routes EXCEPT ![n][x.ep] = U]
      BY <1>4, <2>1 DEF Upsert
    <2>4. db' = [db EXCEPT ![n] = Insert(db[n], x)]
      BY <1>4, <2>1 DEF Upsert, Change
    <2>5. db'[n] = Insert(db[n], x) /\ \A k \in Nodes \ {n} : db'[k] = db[k]
      BY <2>4 DEF IInv, LsaInv, DbOK
    <2> SUFFICES ASSUME NEW k \in Nodes, NEW f \in Endpoints PROVE TableAt(k, f)'
      BY DEF TablesTell
    <2>6. CASE k = n /\ f = x.ep
      BY <1>1, <1>4, <2>1, <2>2, <2>6, UpsertTable
    <2>7. CASE k # n \/ f # x.ep
      <3>1. routes'[k][f] = routes[k][f]
        BY <2>3, <2>7 DEF IInv, TablesOK, Ids
      <3>2. \A y : y.ep = f => (y \in db'[k] <=> y \in db[k])
        BY <2>5, <2>7 DEF Insert, Held, SameKey
      <3>3. TableAt(k, f) /\ Listening(k, f)' = Listening(k, f)
        BY <1>2 DEF TablesTell
      <3> QED BY <1>1, <3>1, <3>2, <3>3, TableSame
    <2> QED BY <2>6, <2>7
  <1>5. ~in.lsa.dead
    BY DEF CalmInv, SpreadInv, AllGenuine, Everywhere, Genuine
  <1> QED BY <1>3, <1>4, <1>5 DEF HandleLsa

\* Nothing the timers do changes what the databases say.
LEMMA RefreshTell ==
    ASSUME IInv, Benign, CalmInv, TablesTell, stopped = {}, NEW n \in Nodes, NEW S, NEW P,
           RefreshAndPurge(n, S, P)
    PROVE  CalmInv' /\ TablesTell'
  <1>1. CalmInv' /\ \A k \in Nodes : Alike(db[k], db'[k])
    BY RefreshCalm
  <1>2. UNCHANGED <<scn, routes, lst>>
    BY DEF RefreshAndPurge
  <1>3. \A k \in Nodes, e \in Endpoints :
          /\ \A y \in db[k] : y.ep = e =>
                \E z \in db'[k] : z.origin = y.origin /\ z.ep = e /\ z.info = y.info
          /\ \A y \in db'[k] : y.ep = e =>
                \E z \in db[k] : z.origin = y.origin /\ z.ep = e /\ z.info = y.info
    BY <1>1 DEF Alike, SameKey
  <1> QED BY <1>1, <1>2, <1>3, AlikeTell

-----------------------------------------------------------------------------
(* Convergence.                                                            *)

\* What holds as long as nothing is lost, closed or stopped.
Calm == Benign /\ stopped = {} => CalmInv /\ TablesTell

\* It holds at the start: nobody knows of anybody.
LEMMA InitCalm == Init => Calm
  <1> SUFFICES ASSUME Init, Benign PROVE CalmInv /\ TablesTell
    BY DEF Calm
  <1> DEFINE me(n) == NewLsa(n, n, NodeInfo)
  <1>1. /\ scn \in Scenarios /\ NoRings
        /\ \A n \in Nodes : /\ db[n] = {me(n)} /\ links[n] = {}
                            /\ \A m \in Nodes : hop[n][m] = NoNode
                            /\ \A l \in Attached(n) : ends[n][l] = "idle"
        /\ spawned = {} /\ wire = {}
    BY DEF Init, Benign
  <1>2. \A n \in Nodes : /\ me(n).origin = n /\ me(n).ep = n /\ me(n).adj = {} /\ ~me(n).dead
                         /\ me(n).seq = 0
    BY DEF NewLsa
  <1> HIDE DEF me
  <1>3. PeersUp
    BY <1>1 DEF PeersUp
  <1>4. HopsLead
    <2> SUFFICES ASSUME NEW n \in Nodes, NEW o \in Nodes, NEW l \in Attached(n) PROVE hop[n][o] # Peer(l, n)
      BY DEF HopsLead
    <2>1. Peer(l, n) \in Nodes
      BY <1>1, PeerAttached
    <2>2. \A k \in Nodes : k # NoNode
      BY NodesAreOrdered DEF NoNode
    <2> QED BY <1>1, <2>1, <2>2
  <1>5. \A x \in Everywhere : x.origin \in Nodes /\ x = me(x.origin)
    BY <1>1, <1>2 DEF Everywhere
  <1>6. AllGenuine
    BY <1>2, <1>5 DEF AllGenuine, Genuine, IsRouter, AdjOK
  <1>7. NewestAtHome
    <2>1. \A x \in Everywhere : x \in db[x.origin] /\ SameKey(x, x) /\ x.seq <= x.seq /\ TrueCopy(x, x)
      BY <1>1, <1>2, <1>5 DEF SameKey, TrueCopy, Copy
    <2> QED BY <2>1 DEF NewestAtHome
  <1>8. Linked /\ WireUp /\ Away
    BY <1>1, <1>2 DEF Linked, WireUp, Away
  <1>9. Towards
    BY <1>1, <1>2 DEF Towards, NoRings
  <1>10. Ways
    BY <1>1, <1>2 DEF Ways, HasWay
  <1>11. CalmInv
    BY <1>3, <1>4, <1>6, <1>7, <1>8, <1>9, <1>10 DEF CalmInv, SpreadInv
  <1>12. TablesTell
    <2> SUFFICES ASSUME NEW n \in Nodes, NEW e \in Endpoints
                 PROVE  TableIs(n, e, routes[n][e], db[n], Listening(n, e))
      BY DEF TablesTell, TableAt
    <2>1. routes[n][e].routes = {} /\ routes[n][e].kind = "None"
      BY NoEntryTyped DEF Init, Ids
    <2>2. Listening(n, e) = {}
      BY DEF Listening, Init
    <2>3. \A x \in db[n] : x.ep # e
      BY <1>1, <1>2, NamesDisjoint
    <2>4. MinLocalCost({}) = {}
      BY DEF MinLocalCost, Cheapest, Locals
    <2> QED BY <2>1, <2>2, <2>3, <2>4 DEF TableIs
  <1> QED BY <1>11, <1>12

\* Every step keeps it.
LEMMA NextCalm ==
    ASSUME IInv, Calm, [Next]_vars
    PROVE  Calm'
  <1>1. scn' = scn /\ stopped \subseteq stopped'
    <2> USE DEF Change
    <2>1. ASSUME NEW n \in Nodes, PeerNext(n) \/ RouterNext(n) \/ TimerNext(n)
          PROVE  scn' = scn /\ stopped' = stopped
      BY <2>1 DEF PeerNext, RouterNext, TimerNext, StartPeer, StopPeer, RegisterPeer, UnRegisterPeer,
                  HandleLsa, DeadLink, RefreshAndPurge
    <2>2. ASSUME NEW n \in Nodes, Shutdown(n) \/ Crash(n)
          PROVE  scn' = scn /\ stopped \subseteq stopped'
      BY <2>2 DEF Shutdown, Crash, Stop
    <2>3. ASSUME NEW c \in Listeners, ListenerNext(c) PROVE scn' = scn /\ stopped' = stopped
      BY <2>3 DEF ListenerNext, RegisterEndpoint, SetCost, CloseListener
    <2>4. ASSUME NEW in \in wire, Lose(in) PROVE scn' = scn /\ stopped' = stopped
      BY <2>4 DEF Lose
    <2>5. ASSUME UNCHANGED vars PROVE scn' = scn /\ stopped' = stopped
      BY <2>5 DEF vars
    <2> QED BY <2>1, <2>2, <2>3, <2>4, <2>5 DEF Next
  <1> SUFFICES ASSUME Benign', stopped' = {} PROVE CalmInv' /\ TablesTell'
    BY DEF Calm
  <1>2. Benign /\ stopped = {} /\ CalmInv /\ TablesTell
    BY <1>1, StaticToo DEF Calm
  <1>3. scn \in Scenarios /\ ~scn.lossy /\ scn.mayBreak = {} /\ scn.mayClose = {}
    BY <1>2 DEF IInv, LsaInv, Benign, Undisturbed
  <1>4. \A n \in Nodes : \A l \in Attached(n) : ends[n][l] # "closed" /\ ends[Peer(l, n)][l] # "closed"
    BY <1>2, <1>3, PeerAttached DEF CalmInv, PeersUp
  <1>5. ASSUME UNCHANGED <<db, routes, lst>> PROVE TablesTell'
    BY <1>1, <1>2, <1>5, AlikeTell
  <1>6. ASSUME NEW n \in Nodes, NEW l, StartPeer(n, l) PROVE CalmInv' /\ TablesTell'
    BY <1>2, <1>5, <1>6, StartPeerCalm DEF StartPeer
  <1>7. ASSUME NEW n \in Nodes, NEW l, StopPeer(n, l) PROVE FALSE
    BY <1>2, <1>3, <1>4, <1>7 DEF StopPeer, HungUp
  <1>8. ASSUME NEW n \in Nodes, NEW l, RegisterPeer(n, l) PROVE CalmInv' /\ TablesTell'
    BY <1>2, <1>8, RegisterPeerCalm, RegisterPeerTell
  <1>9. ASSUME NEW n \in Nodes, NEW l, UnRegisterPeer(n, l) PROVE FALSE
    BY <1>2, <1>9 DEF UnRegisterPeer, PeerMsg, CalmInv, PeersUp
  <1>10. ASSUME NEW n \in Nodes, NEW in \in wire, HandleLsa(n, in) PROVE CalmInv' /\ TablesTell'
    BY <1>2, <1>10, HandleLsaCalm, HandleLsaTell
  <1>11. ASSUME NEW n \in Nodes, NEW e \in Endpoints, DeadLink(n, e) PROVE FALSE
    BY <1>2, <1>11 DEF DeadLink, DeadLinkMsg, CalmInv, PeersUp
  <1>12. ASSUME NEW n \in Nodes, NEW S, NEW P, RefreshAndPurge(n, S, P) PROVE CalmInv' /\ TablesTell'
    BY <1>2, <1>12, RefreshTell
  <1>13. ASSUME NEW n \in Nodes, Shutdown(n) \/ Crash(n) PROVE FALSE
    BY <1>13 DEF Shutdown, Crash, Stop
  <1>14. ASSUME NEW c \in Listeners, RegisterEndpoint(c) PROVE CalmInv' /\ TablesTell'
    BY <1>2, <1>14, RegisterEndpointCalm
  <1>15. ASSUME NEW c \in Listeners, NEW k \in scn.costs, SetCost(c, k) PROVE CalmInv' /\ TablesTell'
    <2>1. k \in Nat
      BY <1>3, ScenariosTyped DEF ScenarioOK
    <2> QED BY <1>2, <1>15, <2>1, SetCostCalm
  <1>16. ASSUME NEW c \in Listeners, CloseListener(c) PROVE FALSE
    BY <1>3, <1>16 DEF CloseListener
  <1>17. ASSUME NEW in \in wire, Lose(in) PROVE FALSE
    <2>1. in.to \in Nodes /\ in.conn \in Attached(in.to)
      BY <1>2 DEF CalmInv, SpreadInv, WireUp, IInv, LsaInv, WireOK, Packet
    <2> QED BY <1>2, <1>3, <1>4, <1>17, <2>1 DEF Lose
  <1>18. ASSUME UNCHANGED vars PROVE CalmInv' /\ TablesTell'
    <2>1. TablesTell'
      BY <1>5, <1>18 DEF vars
    <2>2. UNCHANGED <<scn, db, links, hop, ends, spawned, wire>>
      BY <1>18 DEF vars
    <2>3. PeersUp' /\ HopsLead'
      BY <1>2, <2>2, PeersUpSame, StaticSame, StaticToo DEF CalmInv, HopsLead
    <2>4. SpreadInv'
      <3>1. AllGenuine' /\ NewestAtHome' /\ Linked'
        BY <1>2, <2>2, StaticToo
        DEF CalmInv, SpreadInv, AllGenuine, NewestAtHome, Linked, SameKey, IsRouter, Everywhere
      <3>2. WireUp' /\ Away' /\ Towards'
        <4>1. \A m \in wire : m.to \in Nodes
          BY DEF IInv, LsaInv, WireOK, Packet
        <4> QED BY <1>2, <2>2, <4>1, StaticSame, StaticToo
                DEF CalmInv, SpreadInv, WireUp, Away, Towards, AtLeast, UnderWay, SameKey
      <3>3. Ways'
        BY <1>2, <2>2, StaticSame, StaticToo DEF CalmInv, SpreadInv, Ways, HasWay, Crosses
      <3> QED BY <3>1, <3>2, <3>3 DEF SpreadInv
    <2> QED BY <2>1, <2>3, <2>4 DEF CalmInv
  <1> QED
    BY <1>6, <1>7, <1>8, <1>9, <1>10, <1>11, <1>12, <1>13, <1>14, <1>15, <1>16, <1>17, <1>18
    DEF Next, PeerNext, RouterNext, TimerNext, ListenerNext

\* When all is quiet, every node that connections of its realm lead to has an LSA
\* of its origin: those who have it, or did have it, are closed under connections.
LEMMA QuietHasAll ==
    ASSUME IInv, Benign, CalmInv, Quiet, NEW m \in Nodes, NEW n \in Nodes, NEW x \in db[m],
           x.origin = m, Reaches(m, x.info.realm, n)
    PROVE  \E s \in db[n] : TrueCopy(s, x)
  <1>1. /\ scn \in Scenarios /\ wire = {} /\ \A k \in Nodes : links[k] = Attached(k)
    BY DEF IInv, LsaInv, Quiet
  <1>2. \A k \in Nodes : \A s \in db[k] : /\ s \in Lsa /\ s \in Everywhere /\ s.seq \in Nat
                                          /\ s.origin \in Nodes /\ Told(s) /\ Genuine(s)
    BY DEF IInv, LsaInv, DbOK, LsaAt, CalmInv, SpreadInv, AllGenuine, Everywhere, Lsa
  <1> DEFINE S == {k \in Nodes : AtLeast(db[k], x)}
  <1>3. m \in S
    BY <1>2 DEF AtLeast, SameKey
  <1>4. ASSUME NEW k \in S, NEW l \in Attached(k), x.info.realm \in Net[l].realms
        PROVE  Peer(l, k) \in S
    <2>1. PICK s \in db[k] : SameKey(s, x) /\ x.seq <= s.seq
      BY DEF AtLeast
    <2>2. Peer(l, k) \in Nodes /\ k \in Nodes
      BY <1>1, PeerAttached
    <2>3. s.origin = m /\ s \in Lsa
      BY <1>2, <2>1, <2>2 DEF SameKey
    <2>4. Passes(s, l)
      <3>1. CASE IsRouter(s)
        <4>1. s.adj # {}
          BY <1>1, <2>1, <2>2, <3>1 DEF CalmInv, SpreadInv, Linked
        <4> QED BY <1>1, <1>2, <2>1, <2>2, <3>1, <4>1, PassesIs DEF Attached
      <3>2. CASE ~IsRouter(s)
        <4>1. ~IsRouter(x)
          BY <2>1, <3>2 DEF SameKey, IsRouter
        <4>2. PICK c \in Listeners : Listener[c].ep = x.ep
          BY <1>2, <4>1 DEF Told
        <4>3. s.info.realm = x.info.realm
          BY <1>2, <2>1, <2>2, <3>2, <4>1, <4>2 DEF Genuine, SameKey
        <4> QED BY <1>4, <3>2, <4>3 DEF Passes
      <3> QED BY <3>1, <3>2
    <2>5. AtLeast(db[Peer(l, k)], s)
      <3>1. CASE m \in Beyond(l, k)
        BY <2>1, <2>2, <2>3, <3>1 DEF CalmInv, SpreadInv, Towards
      <3>2. CASE m \notin Beyond(l, k)
        <4>1. AtLeast(db[Peer(l, k)], s) \/ UnderWay(Peer(l, k), s)
          BY <1>1, <2>1, <2>2, <2>3, <2>4, <3>2 DEF CalmInv, SpreadInv, Away
        <4> QED BY <1>1, <4>1 DEF UnderWay
      <3> QED BY <3>1, <3>2
    <2>6. PICK t \in db[Peer(l, k)] : SameKey(t, s) /\ s.seq <= t.seq
      BY <2>5 DEF AtLeast
    <2>7. SameKey(t, x) /\ x.seq <= t.seq
      BY <1>2, <2>1, <2>2, <2>6 DEF SameKey
    <2> QED BY <2>2, <2>6, <2>7 DEF AtLeast
  <1>5. ASSUME NEW l \in Conns, x.info.realm \in Net[l].realms
        PROVE  Net[l].a \in S <=> Net[l].b \in S
    <2>1. /\ Net[l].a \in Nodes /\ Net[l].b \in Nodes
          /\ l \in Attached(Net[l].a) /\ l \in Attached(Net[l].b)
          /\ Peer(l, Net[l].a) = Net[l].b /\ Peer(l, Net[l].b) = Net[l].a
      BY <1>1, NetTyped DEF Attached, Peer
    <2> HIDE DEF S
    <2> QED BY <1>4, <1>5, <2>1
  <1>6. S \in SUBSET Nodes
    OBVIOUS
  <1>7. n \in S
    <2> HIDE DEF S
    <2> QED BY <1>3, <1>5, <1>6 DEF Reaches
  <1>8. PICK s \in db[n] : SameKey(s, x) /\ x.seq <= s.seq
    BY <1>7 DEF AtLeast
  <1>9. PICK o \in db[s.origin] : SameKey(o, s) /\ s.seq <= o.seq /\ (s.seq = o.seq => TrueCopy(s, o))
    BY <1>2 DEF CalmInv, SpreadInv, NewestAtHome
  <1>10. o = x
    <2>1. o \in db[m] /\ SameKey(o, x)
      BY <1>8, <1>9 DEF SameKey
    <2> QED BY <2>1 DEF IInv, LsaInv, KeysInv, OneEach
  <1>11. s.seq = x.seq
    BY <1>2, <1>8, <1>9, <1>10
  <1> QED BY <1>8, <1>9, <1>10, <1>11

\* In every network without rings, as long as nothing is lost or withdrawn and the
\* listeners of an endpoint are compatible: whenever all is quiet every node has the
\* latest Router LSA of every node it is connected to and the routes of exactly the
\* listeners that may reach it, at their latest cost (LsDb::handle_lsa, flood_peer,
\* flood_all_neighbors with its back-path rule, add_peer, RouteTable::add_endpoint,
\* set_anycast_cost and add_remote_endpoint).
THEOREM NetworksConverge == Spec => []Converged
  <1>1. IInv /\ Calm => Converged
    <2> SUFFICES ASSUME IInv, Calm, Undisturbed, Quiet, NoRings, Compatible, NEW n \in Nodes, NEW m \in Nodes
                 PROVE  /\ Reaches(m, "Global", n) => \E r \in db[n] : Copy(r, Own(m))
                        /\ \A e \in Endpoints :
                             LET via == {r \in routes[n][e].routes : r.via = m}
                             IN  n # m =>
                                   IF \E c \in Listening(m, e) : Reaches(m, Listener[c].info.realm, n)
                                   THEN {r.cost : r \in via} = MinLocalCost(routes[m][e].routes)
                                   ELSE via = {}
      BY DEF Converged
    <2>1. Benign /\ CalmInv /\ TablesTell /\ stopped = {} /\ scn \in Scenarios
      BY DEF Calm, Benign, Quiet, IInv, LsaInv
    <2>2. \A k \in Nodes : \A s \in db[k] : /\ s \in Everywhere /\ s.origin \in Nodes /\ Genuine(s)
                                            /\ LsaAt(k, s) /\ Told(s)
      BY <2>1 DEF IInv, LsaInv, DbOK, LsaAt, CalmInv, SpreadInv, AllGenuine, Everywhere, Lsa
    <2>3. Reaches(m, "Global", n) => \E r \in db[n] : Copy(r, Own(m))
      <3>1. Own(m) \in db[m] /\ Own(m).origin = m /\ IsRouter(Own(m))
        BY <2>1, OwnIs DEF IInv
      <3>2. Own(m).info.realm = "Global"
        BY <2>2, <3>1 DEF Told
      <3> QED BY <2>1, <3>1, <3>2, QuietHasAll DEF TrueCopy
    <2>4. ASSUME NEW e \in Endpoints, n # m,
                 NEW via, via = {r \in routes[n][e].routes : r.via = m},
                 NEW least, least = MinLocalCost(routes[m][e].routes)
          PROVE  IF \E c \in Listening(m, e) : Reaches(m, Listener[c].info.realm, n)
                 THEN {r.cost : r \in via} = least
                 ELSE via = {}
      <3>1. /\ TableIs(n, e, routes[n][e], db[n], Listening(n, e))
            /\ TableIs(m, e, routes[m][e], db[m], Listening(m, e))
        BY <2>1 DEF TablesTell, TableAt
      <3>2. ASSUME NEW r \in via
            PROVE  \E y \in db[n] : y.origin = m /\ y.ep = e /\ r = Route(m, y.info)
        BY <2>4, <3>1, <3>2 DEF TableIs
      <3>3. routes[m][e].routes \in SUBSET LsRoute
        BY DEF IInv, TablesOK, LsRouteEntry, Ids
      <3>4. CASE \E c \in Listening(m, e) : Reaches(m, Listener[c].info.realm, n)
        <4>1. PICK c \in Listening(m, e) : Reaches(m, Listener[c].info.realm, n)
          BY <3>4
        <4>2. c \in Listeners /\ Listener[c].ep = e /\ c \in Channels
          BY <2>1, ListenerTyped DEF Listening
        <4>3. PICK r \in routes[m][e].routes : r.via = c
          BY <3>1 DEF TableIs
        <4>4. least # {}
          <5>1. Locals(routes[m][e].routes) # {}
            BY <4>2, <4>3 DEF Locals, IsLocal
          <5> QED BY <2>4, <3>3, <5>1, MinLocalCostSome
        <4>5. PICK x \in db[m] : x.origin = m /\ x.ep = e /\ x.info.cost \in least
          BY <2>4, <3>1, <4>4 DEF TableIs
        <4>6. x.info.realm = Listener[c].info.realm
          <5>1. ~IsRouter(x)
            BY <4>5, NamesDisjoint DEF IsRouter
          <5> QED BY <2>2, <4>2, <4>5, <5>1 DEF Genuine
        <4>7. PICK s \in db[n] : TrueCopy(s, x)
          BY <2>1, <4>1, <4>5, <4>6, QuietHasAll
        <4>a. s.origin = m /\ s.ep = e /\ s.info = x.info
          BY <4>5, <4>7 DEF TrueCopy, Copy, SameKey
        <4>8. \A y \in db[n] : y.origin = m /\ y.ep = e => y = s
          BY <4>a DEF IInv, LsaInv, KeysInv, OneEach, SameKey
        <4>9. Route(m, x.info) \in via
          <5>1. Route(m, x.info) \in routes[n][e].routes
            BY <2>4, <3>1, <4>5, <4>a DEF TableIs
          <5> QED BY <2>4, <5>1 DEF Route
        <4>10. \A r2 \in via : r2.cost = x.info.cost
          BY <3>2, <4>8, <4>a DEF Route
        <4>11. {r2.cost : r2 \in via} = {x.info.cost}
          BY <4>9, <4>10
        <4>12. least = {x.info.cost}
          BY <2>4, <3>3, <4>5, MinLocalCostOne
        <4> QED BY <3>4, <4>11, <4>12
      <3>5. CASE ~ \E c \in Listening(m, e) : Reaches(m, Listener[c].info.realm, n)
        <4> SUFFICES ASSUME NEW r \in via PROVE FALSE
          BY <3>5
        <4>1. PICK y \in db[n] : y.origin = m /\ y.ep = e
          BY <3>2
        <4>2. PICK o \in db[m] : o.origin = m /\ o.ep = e
          BY <2>1, <2>2, <4>1 DEF CalmInv, SpreadInv, NewestAtHome, SameKey
        <4>3. PICK q \in routes[m][e].routes : q.via \in Channels
          <5>1. o.info.cost \in MinLocalCost(routes[m][e].routes)
            BY <3>1, <4>2 DEF TableIs
          <5> QED BY <5>1 DEF MinLocalCost, Cheapest, Locals, IsLocal
        <4>4. q.via \in Listening(m, e)
          BY <3>1, <4>3 DEF TableIs
        <4>5. q.via \in Listeners /\ Listener[q.via].ep = e
          BY <4>4 DEF Listening
        <4>6. Listener[q.via].info.realm = y.info.realm
          <5>1. ~IsRouter(y)
            BY <4>1, NamesDisjoint DEF IsRouter
          <5> QED BY <2>2, <4>1, <4>5, <5>1 DEF Genuine
        <4>7. Reaches(m, y.info.realm, n)
          BY <2>2, <4>1 DEF LsaAt
        <4> QED BY <3>5, <4>4, <4>6, <4>7
      <3> QED BY <3>4, <3>5
    <2> QED BY <2>3, <2>4
  <1>2. IInv /\ Calm /\ [Next]_vars => Calm'
    BY NextCalm
  <1> QED BY <1>1, <1>2, InitIInv, NextIInv, InitCalm, PTL DEF Spec
=============================================================================
