-------------------------- MODULE Forwarding_proofs --------------------------
(***************************************************************************)
(* What one packet does in any network.  No listener gets it twice, and an *)
(* anycast or unicast packet is received once at most: neither needs the   *)
(* next hops to be those of shortest paths, only that a node has one way   *)
(* back to the source and one entry for the endpoint.  That the tables     *)
(* have their types and lead to neighbours directly does need it, and so   *)
(* does what comes last: nothing lost, a packet reaches those it is for.   *)
(***************************************************************************)
EXTENDS Forwarding, Routing_proofs

\* The tables hold connections of their own node.
Tables ==
    /\ NetOK(net)
    /\ src \in Nodes
    /\ phase \in {"Lsas", "Spf", "Fib"}
    /\ hop \in [Nodes -> [Nodes -> Conns \cup {NoConn}]]
    /\ fib \in [Nodes -> [local : BOOLEAN, remote : SUBSET Conns]]
    /\ \A n \in Nodes : fib[n].remote \subseteq Attached(net, n)
    /\ \A n, m \in Nodes : hop[n][m] # NoConn => hop[n][m] \in Attached(net, n)

\* The packet's state has its type, and there is none before it is sent.
Packet ==
    /\ sent \in BOOLEAN
    /\ flight \in [Conns \X Nodes -> Nat]
    /\ handled \in [Nodes -> Nat]
    /\ phase # "Fib" => ~sent
    /\ ~sent => (\A n \in Nodes : handled[n] = 0) /\ (\A w \in Conns \X Nodes : flight[w] = 0)

\* What a node let in, or can still let in, over its way back to the source is
\* no more than its neighbour on that way handled; and nobody handled more
\* than one.
Way(n) == hop[n][src]

NoMoreThanUpstream ==
    \A n \in Nodes \ {src} :
        IF Way(n) = NoConn THEN handled[n] = 0
        ELSE handled[n] + flight[<<Way(n), n>>] <= handled[Peer(net, Way(n), n)]

AtMostOnce == \A n \in Nodes : handled[n] <= 1

IInv == Tables /\ Packet /\ NoMoreThanUpstream /\ AtMostOnce

-----------------------------------------------------------------------------
(* Facts about networks and tables.                                        *)

\* The ends of a connection are two nodes, each the other's peer.
LEMMA PeerIsMutual ==
    ASSUME NEW g, NetOK(g), NEW n \in Nodes, NEW l \in Attached(g, n)
    PROVE  /\ l \in Conns
           /\ Peer(g, l, n) \in Nodes
           /\ Peer(g, l, n) # n
           /\ Peer(g, l, Peer(g, l, n)) = n
<1>1. l \in Conns /\ n \in {g.a[l], g.b[l]}
  BY DEF Attached, Up
<1>2. g.a[l] \in Nodes /\ g.b[l] \in Nodes /\ g.a[l] # g.b[l]
  BY <1>1 DEF NetOK
<1> QED BY <1>1, <1>2 DEF Peer

\* A node's next hops are connections of its own.
LEMMA NextHopAttached ==
    ASSUME NetOK(net), NEW n \in Nodes
    PROVE  /\ NextHop(n) \in [Nodes -> Conns \cup {NoConn}]
           /\ \A m \in Nodes : NextHop(n)[m] # NoConn => NextHop(n)[m] \in Attached(net, n)
<1> DEFINE first == FirstHop(Graph, dist, n)
<1> HIDE DEF first
<1>1. ASSUME NEW m \in Nodes, NEW l \in Attached(net, n), Peer(net, l, n) = first[m]
      PROVE  net.find[<<n, first[m]>>] \in Attached(net, n)
  BY <1>1 DEF NetOK
<1>2. NextHop(n) = [m \in Nodes |->
           IF /\ Reachable(dist, n, m)
              /\ \E l \in Attached(net, n) : Peer(net, l, n) = first[m]
           THEN net.find[<<n, first[m]>>] ELSE NoConn]
  BY DEF NextHop, first
<1>3. \A m \in Nodes : NextHop(n)[m] = NoConn \/ NextHop(n)[m] \in Attached(net, n)
  BY <1>1, <1>2
<1>4. Attached(net, n) \subseteq Conns
  BY DEF Attached, Up
<1> QED
  BY <1>2, <1>3, <1>4

\* Table entries are entries over the node's own connections, and one for an
\* anycast or unicast endpoint names a local listener or one connection.
LEMMA EntriesAttached ==
    ASSUME NetOK(net), NEW n \in Nodes, NEW h \in [Nodes -> Conns \cup {NoConn}],
           \A m \in Nodes : h[m] # NoConn => h[m] \in Attached(net, n)
    PROVE  /\ FibEntryOf(h, n) \in [local : BOOLEAN, remote : SUBSET Conns]
           /\ FibEntryOf(h, n).remote \subseteq Attached(net, n)
<1>0. Attached(net, n) \subseteq Conns
  BY DEF Attached, Up
<1>1. Usable(h, n) \subseteq Nodes /\ \A t \in Usable(h, n) \ {n} : h[t] \in Attached(net, n)
  BY DEF Usable, NetOK
<1>2. /\ SingleEntry(h, n) \in [local : BOOLEAN, remote : SUBSET Conns]
      /\ SingleEntry(h, n).remote \subseteq Attached(net, n)
  <2> DEFINE to == {t \in Usable(h, n) : t = Chosen(h, n)}
  <2>1. {h[t] : t \in to \ {n}} \subseteq Attached(net, n)
    BY <1>1
  <2>2. SingleEntry(h, n) = [local |-> n \in to, remote |-> {h[t] : t \in to \ {n}}]
    BY DEF SingleEntry
  <2>3. (n \in to) \in BOOLEAN
    OBVIOUS
  <2> HIDE DEF to
  <2> QED
    BY <1>0, <2>1, <2>2, <2>3
<1>3. /\ MultiCastEntry(h, n) \in [local : BOOLEAN, remote : SUBSET Conns]
      /\ MultiCastEntry(h, n).remote \subseteq Attached(net, n)
  <2> DEFINE remotes == {Peer(net, h[t], n) : t \in Usable(h, n) \ {n}}
  <2>1. remotes \subseteq Nodes
    BY <1>1, PeerIsMutual
  <2>2. {h[p] : p \in remotes} \ {NoConn} \subseteq Attached(net, n)
    BY <2>1
  <2>3. MultiCastEntry(h, n) = [local  |-> n \in net.listeners,
                                remote |-> {h[p] : p \in remotes} \ {NoConn}]
    BY DEF MultiCastEntry
  <2>4. (n \in net.listeners) \in BOOLEAN
    OBVIOUS
  <2> HIDE DEF remotes
  <2> QED
    BY <1>0, <2>2, <2>3, <2>4
<1> QED
  BY <1>2, <1>3 DEF FibEntryOf

-----------------------------------------------------------------------------
(* The invariant.                                                          *)

\* It holds before anything is computed.
LEMMA InitHolds == Init => IInv
<1> SUFFICES ASSUME Init PROVE IInv
  OBVIOUS
<1>1. NetOK(net)
  BY NetsOK DEF Init
<1>2. Tables
  <2>1. \A n \in Nodes : fib[n].remote = {} /\ \A m \in Nodes : hop[n][m] = NoConn
    BY DEF Init, NoHops
  <2>2. hop \in [Nodes -> [Nodes -> Conns \cup {NoConn}]]
    BY DEF Init, NoHops
  <2>3. fib \in [Nodes -> [local : BOOLEAN, remote : SUBSET Conns]]
    BY DEF Init
  <2>4. src \in Nodes /\ phase = "Lsas"
    BY DEF Init
  <2> QED
    BY <1>1, <2>1, <2>2, <2>3, <2>4 DEF Tables
<1>3. Packet
  BY DEF Init, Packet
<1>4. NoMoreThanUpstream
  BY DEF Init, NoMoreThanUpstream, Way, NoHops
<1>5. AtMostOnce
  BY DEF Init, AtMostOnce
<1> QED
  BY <1>2, <1>3, <1>4, <1>5 DEF IInv

\* Building the tables, before anything is sent, keeps it.
LEMMA TablesKeepIInv == IInv /\ (ComputeSpf \/ BuildFib) => IInv'
<1> SUFFICES ASSUME IInv, ComputeSpf \/ BuildFib PROVE IInv'
  OBVIOUS
<1> USE DEF IInv
<1>1. net' = net /\ src' = src /\ sent' = sent /\ flight' = flight /\ handled' = handled
  BY DEF ComputeSpf, BuildFib
<1>2. ~sent
  BY DEF ComputeSpf, BuildFib, Packet
<1>3. Packet'
  BY <1>1, <1>2 DEF Packet
<1>4. Tables'
  <2>1. CASE ComputeSpf
    BY <1>1, <2>1 DEF ComputeSpf, Tables
  <2>2. CASE BuildFib
    <3>1. NetOK(net)
      BY DEF Tables
    <3>2. \A n \in Nodes : hop'[n] = NextHop(n) /\ fib'[n] = FibEntryOf(NextHop(n), n)
      BY <2>2 DEF BuildFib
    <3>3. \A n \in Nodes : /\ hop'[n] \in [Nodes -> Conns \cup {NoConn}]
                           /\ \A m \in Nodes : hop'[n][m] # NoConn => hop'[n][m] \in Attached(net, n)
      BY <3>1, <3>2, NextHopAttached
    <3>4. \A n \in Nodes : /\ fib'[n] \in [local : BOOLEAN, remote : SUBSET Conns]
                           /\ fib'[n].remote \subseteq Attached(net, n)
      BY <3>1, <3>2, <3>3, EntriesAttached
    <3>5. /\ hop' = [n \in Nodes |-> hop'[n]]
          /\ fib' = [n \in Nodes |-> fib'[n]]
      BY <2>2 DEF BuildFib
    <3>6. /\ hop' \in [Nodes -> [Nodes -> Conns \cup {NoConn}]]
          /\ fib' \in [Nodes -> [local : BOOLEAN, remote : SUBSET Conns]]
      BY <3>3, <3>4, <3>5
    <3>7. phase' \in {"Lsas", "Spf", "Fib"} /\ src' \in Nodes
      BY <1>1, <2>2 DEF BuildFib, Tables
    <3> QED
      BY <1>1, <3>1, <3>3, <3>4, <3>6, <3>7 DEF Tables
  <2> QED
    BY <2>1, <2>2
<1>5. NoMoreThanUpstream'
  <2> SUFFICES ASSUME NEW n \in Nodes \ {src}, hop'[n][src] # NoConn
               PROVE  handled[n] + flight[<<hop'[n][src], n>>]
                        <= handled[Peer(net, hop'[n][src], n)]
    BY <1>1, <1>2 DEF NoMoreThanUpstream, Way, Packet
  <2>1. hop'[n][src] \in Attached(net, n) /\ NetOK(net)
    BY <1>1, <1>4 DEF Tables
  <2>2. hop'[n][src] \in Conns /\ Peer(net, hop'[n][src], n) \in Nodes
    BY <2>1, PeerIsMutual
  <2> QED
    BY <1>2, <2>2 DEF Packet
<1>6. AtMostOnce'
  BY <1>1 DEF AtMostOnce
<1> QED
  BY <1>3, <1>4, <1>5, <1>6

\* Copies gl are copies fl with at most one more on each connection of node n,
\* towards the other end.
OneMore(fl, gl, n) ==
    \A m \in Nodes : \A k \in Conns :
        \/ gl[<<k, m>>] = fl[<<k, m>>]
        \/ gl[<<k, m>>] = fl[<<k, m>>] + 1 /\ Peer(net, k, m) = n /\ m # n

\* A transmission adds at most one copy to a connection, and only towards the
\* sender's peers.
LEMMA TransmitToPeers ==
    ASSUME NetOK(net), NEW n \in Nodes, NEW out, out \subseteq Attached(net, n),
           NEW fl \in [Conns \X Nodes -> Nat]
    PROVE  /\ Transmit(fl, n, out) \in [Conns \X Nodes -> Nat]
           /\ OneMore(fl, Transmit(fl, n, out), n)
<1>1. Transmit(fl, n, out) \in [Conns \X Nodes -> Nat]
  BY DEF Transmit
<1>2. ASSUME NEW m \in Nodes, NEW k \in Conns
      PROVE  Transmit(fl, n, out)[<<k, m>>] =
               IF k \in out /\ m = Peer(net, k, n) THEN fl[<<k, m>>] + 1 ELSE fl[<<k, m>>]
  BY DEF Transmit
<1>3. ASSUME NEW k \in out
      PROVE  Peer(net, k, n) # n /\ Peer(net, k, Peer(net, k, n)) = n
  BY PeerIsMutual
<1> QED
  BY <1>1, <1>2, <1>3 DEF OneMore

\* A node that handles the packet for the first time and passes it on keeps the
\* counts in order.
LEMMA HandlingKeepsOrder ==
    ASSUME IInv, NEW n \in Nodes,
           NEW fl \in [Conns \X Nodes -> Nat],
           \A m \in Nodes \ {src, n} : \A k \in Conns : fl[<<k, m>>] <= flight[<<k, m>>],
           n # src => /\ Way(n) # NoConn
                      /\ 1 + fl[<<Way(n), n>>] <= handled[Peer(net, Way(n), n)],
           handled[n] = 0,
           handled' = [handled EXCEPT ![n] = @ + 1],
           OneMore(fl, flight', n),
           net' = net, src' = src, hop' = hop
    PROVE  NoMoreThanUpstream' /\ AtMostOnce'
<1> USE DEF IInv
<1>0. NetOK(net) /\ src \in Nodes /\ handled \in [Nodes -> Nat]
  BY DEF Tables, Packet
<1>1. \A m \in Nodes : handled'[m] = IF m = n THEN 1 ELSE handled[m]
  BY <1>0
<1>2. AtMostOnce'
  BY <1>1 DEF AtMostOnce
<1>3. ASSUME NEW m \in Nodes \ {src}
      PROVE  IF Way(m) = NoConn THEN handled'[m] = 0
             ELSE handled'[m] + flight'[<<Way(m), m>>] <= handled'[Peer(net, Way(m), m)]
  <2>1. CASE Way(m) = NoConn
    BY <1>1, <2>1 DEF NoMoreThanUpstream
  <2>2. CASE Way(m) # NoConn
    <3>1. Way(m) \in Attached(net, m)
      BY <1>0, <2>2 DEF Tables, Way
    <3>2. Way(m) \in Conns /\ Peer(net, Way(m), m) \in Nodes /\ Peer(net, Way(m), m) # m
      BY <1>0, <3>1, PeerIsMutual
    <3>3. \/ flight'[<<Way(m), m>>] = fl[<<Way(m), m>>]
          \/ /\ flight'[<<Way(m), m>>] = fl[<<Way(m), m>>] + 1
             /\ Peer(net, Way(m), m) = n
             /\ m # n
      BY <3>2 DEF OneMore
    <3>4. fl[<<Way(m), m>>] \in Nat /\ flight[<<Way(m), m>>] \in Nat
      BY <3>2 DEF Packet
    <3>5. CASE m = n
      BY <1>1, <2>2, <3>2, <3>3, <3>4, <3>5
    <3>6. CASE m # n
      <4>1. handled[m] + flight[<<Way(m), m>>] <= handled[Peer(net, Way(m), m)]
        BY <2>2 DEF NoMoreThanUpstream
      <4>2. fl[<<Way(m), m>>] <= flight[<<Way(m), m>>]
        BY <3>2, <3>6
      <4>3. handled[m] \in Nat /\ handled[Peer(net, Way(m), m)] \in Nat
        BY <1>0, <3>2
      <4>4. handled'[m] = handled[m]
        BY <1>1, <3>6
      <4>5. CASE Peer(net, Way(m), m) = n
        <5>1. handled'[Peer(net, Way(m), m)] = 1 /\ handled[Peer(net, Way(m), m)] = 0
          BY <1>1, <4>5
        <5>2. flight'[<<Way(m), m>>] \in 0..1
          BY <3>3, <3>4, <4>1, <4>2, <4>3, <5>1
        <5>3. handled[m] = 0
          BY <3>4, <4>1, <4>3, <5>1
        <5> QED
          BY <2>2, <4>4, <5>1, <5>2, <5>3
      <4>6. CASE Peer(net, Way(m), m) # n
        <5>1. handled'[Peer(net, Way(m), m)] = handled[Peer(net, Way(m), m)]
          BY <1>1, <3>2, <4>6
        <5>2. flight'[<<Way(m), m>>] = fl[<<Way(m), m>>]
          BY <3>3, <4>6
        <5> QED
          BY <2>2, <3>4, <4>1, <4>2, <4>3, <4>4, <5>1, <5>2
      <4> QED
        BY <4>5, <4>6
    <3> QED
      BY <3>5, <3>6
  <2> QED
    BY <2>1, <2>2
<1>4. NoMoreThanUpstream'
  BY <1>3 DEF NoMoreThanUpstream, Way
<1> QED
  BY <1>2, <1>4

\* Sending keeps the invariant.
LEMMA SendKeepsIInv == IInv /\ Send => IInv'
<1> SUFFICES ASSUME IInv, Send PROVE IInv'
  OBVIOUS
<1>0. /\ NetOK(net) /\ src \in Nodes /\ phase = "Fib"
      /\ flight \in [Conns \X Nodes -> Nat] /\ handled \in [Nodes -> Nat]
      /\ \A n \in Nodes : handled[n] = 0
  BY DEF IInv, Tables, Packet, Send
<1>1. net' = net /\ src' = src /\ hop' = hop /\ fib' = fib /\ phase' = phase /\ dist' = dist
  BY DEF Send, tables
<1>2. Tables'
  BY <1>1 DEF IInv, Tables
<1>3. fib[src].remote \subseteq Attached(net, src)
  BY <1>0 DEF IInv, Tables
<1>4. flight' = Transmit(flight, src, fib[src].remote)
  BY DEF Send
<1>5. flight' \in [Conns \X Nodes -> Nat]
  BY <1>0, <1>3, <1>4, TransmitToPeers
<1>6. OneMore(flight, flight', src)
  BY <1>0, <1>3, <1>4, TransmitToPeers
<1>7. handled' = [handled EXCEPT ![src] = @ + 1] /\ sent' = TRUE
  BY DEF Send
<1>8. Packet'
  BY <1>0, <1>1, <1>5, <1>7 DEF Packet
<1>9. \A m \in Nodes \ {src} : \A k \in Conns : flight[<<k, m>>] <= flight[<<k, m>>]
  BY <1>0
<1>10. NoMoreThanUpstream' /\ AtMostOnce'
  BY <1>0, <1>1, <1>6, <1>7, <1>9, HandlingKeepsOrder
<1> QED
  BY <1>2, <1>8, <1>10 DEF IInv

\* Taking a copy off a connection lowers that count and no other.
LEMMA TakenTyped ==
    ASSUME flight \in [Conns \X Nodes -> Nat], NEW l \in Conns, NEW n \in Nodes,
           flight[<<l, n>>] > 0
    PROVE  /\ Taken(l, n) \in [Conns \X Nodes -> Nat]
           /\ Taken(l, n)[<<l, n>>] = flight[<<l, n>>] - 1
           /\ \A w \in Conns \X Nodes : Taken(l, n)[w] <= flight[w]
           /\ \A w \in Conns \X Nodes : w # <<l, n>> => Taken(l, n)[w] = flight[w]
<1>1. <<l, n>> \in Conns \X Nodes
  OBVIOUS
<1> QED
  BY <1>1 DEF Taken

\* Dropping a copy, refused or lost, keeps the invariant.
LEMMA DropKeepsIInv ==
    ASSUME IInv, NEW l \in Conns, NEW n \in Nodes, flight[<<l, n>>] > 0,
           flight' = Taken(l, n), UNCHANGED <<handled, sent, tables>>
    PROVE  IInv'
<1>0. /\ NetOK(net) /\ src \in Nodes
      /\ flight \in [Conns \X Nodes -> Nat] /\ handled \in [Nodes -> Nat]
  BY DEF IInv, Tables, Packet
<1>1. /\ net' = net /\ src' = src /\ hop' = hop /\ fib' = fib /\ phase' = phase
      /\ handled' = handled /\ sent' = sent
  BY DEF tables
<1>2. Tables'
  BY <1>1 DEF IInv, Tables
<1>3. sent
  BY <1>0 DEF IInv, Packet
<1>4. flight' \in [Conns \X Nodes -> Nat] /\ \A w \in Conns \X Nodes : flight'[w] <= flight[w]
  BY <1>0, TakenTyped
<1>5. Packet'
  BY <1>1, <1>3, <1>4 DEF IInv, Packet
<1>6. NoMoreThanUpstream'
  <2>1. ASSUME NEW m \in Nodes \ {src}, Way(m) # NoConn
        PROVE  handled[m] + flight'[<<Way(m), m>>] <= handled[Peer(net, Way(m), m)]
    <3>1. Way(m) \in Attached(net, m)
      BY <1>0, <2>1 DEF IInv, Tables, Way
    <3>2. Way(m) \in Conns /\ Peer(net, Way(m), m) \in Nodes
      BY <1>0, <3>1, PeerIsMutual
    <3>3. handled[m] + flight[<<Way(m), m>>] <= handled[Peer(net, Way(m), m)]
      BY <2>1 DEF IInv, NoMoreThanUpstream
    <3>4. <<Way(m), m>> \in Conns \X Nodes
      BY <3>2
    <3>5. /\ flight'[<<Way(m), m>>] \in Nat /\ flight[<<Way(m), m>>] \in Nat
          /\ flight'[<<Way(m), m>>] <= flight[<<Way(m), m>>]
          /\ handled[m] \in Nat /\ handled[Peer(net, Way(m), m)] \in Nat
      BY <1>0, <1>4, <3>2, <3>4
    <3> QED
      BY <3>3, <3>5
  <2> QED
    BY <1>1, <2>1 DEF IInv, NoMoreThanUpstream, Way
<1>7. AtMostOnce'
  BY <1>1 DEF IInv, AtMostOnce
<1> QED
  BY <1>2, <1>5, <1>6, <1>7 DEF IInv

\* Forwarding keeps the invariant: a node accepts over its way back only, and
\* what is on it is the first copy.
LEMMA ForwardKeepsIInv ==
    ASSUME IInv, NEW l \in Conns, NEW n \in Nodes, Forward(l, n)
    PROVE  IInv'
<1>0. /\ NetOK(net) /\ src \in Nodes
      /\ flight \in [Conns \X Nodes -> Nat] /\ handled \in [Nodes -> Nat]
      /\ flight[<<l, n>>] > 0
  BY DEF IInv, Tables, Packet, Forward
<1>1. /\ net' = net /\ src' = src /\ hop' = hop /\ fib' = fib /\ phase' = phase
      /\ sent' = sent
  BY DEF Forward, tables
<1>2. CASE ~Accepts(l, n)
  <2>1. flight' = Taken(l, n) /\ UNCHANGED <<handled, sent, tables>>
    BY <1>2 DEF Forward
  <2> QED
    BY <1>0, <2>1, DropKeepsIInv
<1>3. CASE Accepts(l, n)
  <2>1. n # src /\ Way(n) = l
    BY <1>3 DEF Accepts, Way
  <2>2. flight' = Transmit(Taken(l, n), n, Onward(n))
    BY <1>3 DEF Forward
  <2>3. handled' = [handled EXCEPT ![n] = @ + 1]
    BY <1>3 DEF Forward
  <2>4. Onward(n) \subseteq Attached(net, n)
    BY DEF Onward, IInv, Tables
  <2>5. Taken(l, n) \in [Conns \X Nodes -> Nat]
    BY <1>0, TakenTyped
  <2>6. flight' \in [Conns \X Nodes -> Nat]
    BY <1>0, <2>2, <2>4, <2>5, TransmitToPeers
  <2>7. OneMore(Taken(l, n), flight', n)
    BY <1>0, <2>2, <2>4, <2>5, TransmitToPeers
  <2>8. sent
    BY <1>0 DEF IInv, Packet
  <2>9. Packet'
    <3>1. handled' \in [Nodes -> Nat]
      BY <1>0, <2>3
    <3>2. sent' /\ sent' \in BOOLEAN
      BY <1>1, <2>8 DEF IInv, Packet
    <3>3. (phase # "Fib" => ~sent)'
      BY <1>1 DEF IInv, Packet
    <3> QED
      BY <2>6, <3>1, <3>2, <3>3 DEF Packet
  <2>10. Tables'
    BY <1>1 DEF IInv, Tables
  <2>11. l # NoConn /\ l \in Attached(net, n) /\ Peer(net, l, n) \in Nodes
    <3>1. l # NoConn
      BY NoConnIsNone
    <3>2. l \in Attached(net, n)
      BY <1>0, <2>1, <3>1 DEF IInv, Tables, Way
    <3> QED
      BY <1>0, <3>1, <3>2, PeerIsMutual
  <2>12. handled[n] + flight[<<l, n>>] <= handled[Peer(net, l, n)]
    BY <2>1, <2>11 DEF IInv, NoMoreThanUpstream
  <2>13. handled[Peer(net, l, n)] <= 1 /\ handled[Peer(net, l, n)] \in Nat
    BY <1>0, <2>11 DEF IInv, AtMostOnce
  <2>14. handled[n] \in Nat /\ flight[<<l, n>>] \in Nat
    BY <1>0
  <2>15. handled[n] = 0 /\ flight[<<l, n>>] = 1 /\ handled[Peer(net, l, n)] = 1
    BY <1>0, <2>12, <2>13, <2>14
  <2>16. Taken(l, n)[<<l, n>>] = 0
    BY <1>0, <2>15, TakenTyped
  <2>17. 1 + Taken(l, n)[<<Way(n), n>>] <= handled[Peer(net, Way(n), n)]
    BY <2>1, <2>15, <2>16
  <2>18. \A m \in Nodes \ {src, n} : \A k \in Conns : Taken(l, n)[<<k, m>>] <= flight[<<k, m>>]
    BY <1>0, TakenTyped
  <2>19. NoMoreThanUpstream' /\ AtMostOnce'
    BY <1>1, <2>1, <2>3, <2>5, <2>7, <2>11, <2>15, <2>17, <2>18, HandlingKeepsOrder
  <2> QED
    BY <2>9, <2>10, <2>19 DEF IInv
<1> QED
  BY <1>2, <1>3

\* Every step keeps the invariant.
LEMMA NextKeepsIInv == IInv /\ [Next]_vars => IInv'
<1> SUFFICES ASSUME IInv, [Next]_vars PROVE IInv'
  OBVIOUS
<1>1. CASE ComputeSpf \/ BuildFib
  BY <1>1, TablesKeepIInv
<1>2. CASE Send
  BY <1>2, SendKeepsIInv
<1>3. ASSUME NEW l \in Conns, NEW n \in Nodes, Forward(l, n) PROVE IInv'
  BY <1>3, ForwardKeepsIInv
<1>4. ASSUME NEW l \in Conns, NEW n \in Nodes, Lose(l, n) PROVE IInv'
  <2>1. /\ flight[<<l, n>>] > 0 /\ flight' = Taken(l, n)
        /\ UNCHANGED <<handled, sent, tables>>
    BY <1>4 DEF Lose
  <2> QED
    BY <2>1, DropKeepsIInv
<1>5. CASE UNCHANGED vars
  BY <1>5 DEF vars, IInv, Tables, Packet, NoMoreThanUpstream, AtMostOnce, Way
<1> QED
  BY <1>1, <1>2, <1>3, <1>4, <1>5 DEF Next

\* It always holds.
LEMMA InductiveInvariant == Spec => []IInv
  BY InitHolds, NextKeepsIInv, PTL DEF Spec

-----------------------------------------------------------------------------
(* One receiver.                                                           *)

\* An anycast or unicast entry leads to one place,
SingleHops ==
    net.kind # "Broadcast" =>
        \A n \in Nodes : /\ fib[n].local => fib[n].remote = {}
                         /\ \A k, l \in fib[n].remote : k = l

NoCopy(fl) == \A w \in Conns \X Nodes : fl[w] = 0

SingleCopy(fl) ==
    /\ \A w \in Conns \X Nodes : fl[w] \in 0..1
    /\ \A w, v \in Conns \X Nodes : fl[w] > 0 /\ fl[v] > 0 => w = v

\* so that there is one copy of such a packet, and none once it is received.
OneCopy ==
    net.kind # "Broadcast" =>
        /\ SingleCopy(flight)
        /\ \A n \in Receivers : NoCopy(flight)
        /\ \A n, m \in Receivers : n = m

OneInv == SingleHops /\ OneCopy

\* SingleEntry chooses one route.
LEMMA SingleEntryIsSingle ==
    ASSUME NEW h, NEW n
    PROVE  /\ SingleEntry(h, n).local => SingleEntry(h, n).remote = {}
           /\ \A k, l \in SingleEntry(h, n).remote : k = l
<1> DEFINE to == {t \in Usable(h, n) : t = Chosen(h, n)}
<1>1. \A t, u \in to : t = u
  OBVIOUS
<1>2. SingleEntry(h, n).local = (n \in to) /\ SingleEntry(h, n).remote = {h[t] : t \in to \ {n}}
  BY DEF SingleEntry
<1> HIDE DEF to
<1> QED
  BY <1>1, <1>2

\* Where nothing is under way, transmitting over one connection puts one copy
\* on its way, and transmitting over none puts none.
LEMMA TransmitOne ==
    ASSUME NEW n \in Nodes, NEW out, \A k, l \in out : k = l,
           NEW fl, NoCopy(fl)
    PROVE  /\ SingleCopy(Transmit(fl, n, out))
           /\ out = {} => NoCopy(Transmit(fl, n, out))
<1>1. \A w \in Conns \X Nodes :
         Transmit(fl, n, out)[w] = IF w[1] \in out /\ w[2] = Peer(net, w[1], n) THEN 1 ELSE 0
  BY DEF Transmit, NoCopy
<1>2. \A w, v \in Conns \X Nodes : w[1] = v[1] /\ w[2] = v[2] => w = v
  OBVIOUS
<1> QED
  BY <1>1, <1>2 DEF SingleCopy, NoCopy

\* A node that handles the packet when no copy is under way and nobody has
\* received it leaves one copy or one receiver.
LEMMA HandlingKeepsOneCopy ==
    ASSUME IInv, SingleHops, net.kind # "Broadcast", NEW n \in Nodes,
           NEW out, out \subseteq fib[n].remote,
           NEW fl, NoCopy(fl),
           Receivers = {},
           flight' = Transmit(fl, n, out),
           handled' = [handled EXCEPT ![n] = @ + 1],
           net' = net, fib' = fib
    PROVE  OneCopy'
<1>1. \A k, l \in out : k = l
  BY DEF SingleHops
<1>2. fib[n].local => out = {}
  BY DEF SingleHops
<1>3. handled \in [Nodes -> Nat]
  BY DEF IInv, Packet
<1>4. \A m \in Receivers' : m = n /\ fib[n].local
  BY <1>3 DEF Receivers
<1>5. SingleCopy(flight') /\ (out = {} => NoCopy(flight'))
  BY <1>1, TransmitOne
<1>6. \A m \in Receivers' : NoCopy(flight')
  BY <1>2, <1>4, <1>5
<1>7. \A m, k \in Receivers' : m = k
  BY <1>4
<1>8. OneCopy' = (net'.kind # "Broadcast" =>
                    /\ SingleCopy(flight')
                    /\ \A m \in Receivers' : NoCopy(flight')
                    /\ \A m, k \in Receivers' : m = k)
  BY DEF OneCopy, SingleCopy, NoCopy
<1> QED
  BY <1>5, <1>6, <1>7, <1>8

\* Dropping a copy adds neither a copy nor a receiver.
LEMMA DropKeepsOneCopy ==
    ASSUME IInv, OneCopy, NEW l \in Conns, NEW n \in Nodes, flight[<<l, n>>] > 0,
           flight' = Taken(l, n), UNCHANGED <<handled, sent, tables>>
    PROVE  OneCopy'
<1>1. flight \in [Conns \X Nodes -> Nat]
  BY DEF IInv, Packet
<1>2. \A w \in Conns \X Nodes : flight'[w] \in Nat /\ flight[w] \in Nat /\ flight'[w] <= flight[w]
  BY <1>1, TakenTyped
<1>3. net' = net /\ Receivers' = Receivers
  BY DEF tables, Receivers
<1> QED
  BY <1>2, <1>3 DEF OneCopy, SingleCopy, NoCopy

\* Every step keeps the two facts.
LEMMA NextKeepsOneInv == IInv /\ OneInv /\ [Next]_vars => OneInv'
<1> SUFFICES ASSUME IInv, OneInv, [Next]_vars PROVE OneInv'
  OBVIOUS
<1>0. /\ NetOK(net) /\ src \in Nodes
      /\ flight \in [Conns \X Nodes -> Nat] /\ handled \in [Nodes -> Nat]
  BY DEF IInv, Tables, Packet
<1>1. CASE ComputeSpf
  BY <1>1 DEF ComputeSpf, OneInv, SingleHops, OneCopy, Receivers, SingleCopy, NoCopy
<1>2. CASE BuildFib
  <2>1. /\ net' = net /\ flight' = flight /\ handled' = handled
        /\ \A n \in Nodes : handled[n] = 0
    BY <1>2 DEF BuildFib, IInv, Packet
  <2>2. OneCopy'
    <3>1. Receivers' = {}
      BY <2>1 DEF Receivers
    <3> QED
      BY <2>1, <3>1 DEF OneInv, OneCopy, SingleCopy, NoCopy
  <2>3. SingleHops'
    <3> SUFFICES ASSUME net.kind # "Broadcast", NEW n \in Nodes
                 PROVE  /\ fib'[n].local => fib'[n].remote = {}
                        /\ \A k, l \in fib'[n].remote : k = l
      BY <2>1 DEF SingleHops
    <3>1. fib'[n] = SingleEntry(NextHop(n), n)
      BY <1>2 DEF BuildFib, FibEntryOf
    <3> QED
      BY <3>1, SingleEntryIsSingle
  <2> QED
    BY <2>2, <2>3 DEF OneInv
<1>3. CASE Send
  <2>1. net' = net /\ fib' = fib
    BY <1>3 DEF Send, tables
  <2>2. SingleHops'
    BY <2>1 DEF OneInv, SingleHops
  <2>3. CASE net.kind = "Broadcast"
    BY <2>1, <2>2, <2>3 DEF OneInv, OneCopy
  <2>4. CASE net.kind # "Broadcast"
    <3>1. NoCopy(flight) /\ Receivers = {}
      BY <1>0, <1>3 DEF Send, IInv, Packet, NoCopy, Receivers
    <3>2. /\ flight' = Transmit(flight, src, fib[src].remote)
          /\ handled' = [handled EXCEPT ![src] = @ + 1]
      BY <1>3 DEF Send
    <3>3. fib[src].remote \subseteq fib[src].remote
      OBVIOUS
    <3>4. OneCopy'
      BY <1>0, <2>1, <2>4, <3>1, <3>2, <3>3, HandlingKeepsOneCopy DEF OneInv
    <3> QED
      BY <2>2, <3>4 DEF OneInv
  <2> QED
    BY <2>3, <2>4
<1>4. ASSUME NEW l \in Conns, NEW n \in Nodes, Forward(l, n) PROVE OneInv'
  <2>1. net' = net /\ fib' = fib /\ flight[<<l, n>>] > 0
    BY <1>4 DEF Forward, tables
  <2>2. SingleHops'
    BY <2>1 DEF OneInv, SingleHops
  <2>3. CASE ~Accepts(l, n)
    <3>1. flight' = Taken(l, n) /\ UNCHANGED <<handled, sent, tables>>
      BY <1>4, <2>3 DEF Forward
    <3> QED
      BY <2>1, <2>2, <3>1, DropKeepsOneCopy DEF OneInv
  <2>4. CASE Accepts(l, n) /\ net.kind = "Broadcast"
    BY <2>1, <2>2, <2>4 DEF OneInv, OneCopy
  <2>5. CASE Accepts(l, n) /\ net.kind # "Broadcast"
    <3>1. /\ flight' = Transmit(Taken(l, n), n, Onward(n))
          /\ handled' = [handled EXCEPT ![n] = @ + 1]
      BY <1>4, <2>5 DEF Forward
    <3>2. Onward(n) \subseteq fib[n].remote
      BY DEF Onward
    <3>3. <<l, n>> \in Conns \X Nodes
      OBVIOUS
    <3>4. Receivers = {}
      BY <2>1, <2>5, <3>3 DEF OneInv, OneCopy, NoCopy
    <3>5. NoCopy(Taken(l, n))
      <4>1. flight[<<l, n>>] = 1
        BY <1>0, <2>1, <2>5, <3>3 DEF OneInv, OneCopy, SingleCopy
      <4>2. ASSUME NEW w \in Conns \X Nodes, w # <<l, n>>
            PROVE  flight[w] = 0
        <5>1. flight[w] \in 0..1 /\ ~(flight[w] > 0)
          BY <2>1, <2>5, <3>3, <4>2 DEF OneInv, OneCopy, SingleCopy
        <5> QED
          BY <5>1
      <4>3. /\ Taken(l, n)[<<l, n>>] = 0
            /\ \A w \in Conns \X Nodes : w # <<l, n>> => Taken(l, n)[w] = flight[w]
        BY <1>0, <2>1, <4>1, TakenTyped
      <4> QED
        BY <4>2, <4>3 DEF NoCopy
    <3>6. OneCopy'
      BY <2>1, <2>5, <3>1, <3>2, <3>4, <3>5, HandlingKeepsOneCopy DEF OneInv
    <3> QED
      BY <2>2, <3>6 DEF OneInv
  <2> QED
    BY <2>3, <2>4, <2>5
<1>5. ASSUME NEW l \in Conns, NEW n \in Nodes, Lose(l, n) PROVE OneInv'
  <2>1. /\ flight[<<l, n>>] > 0 /\ flight' = Taken(l, n)
        /\ UNCHANGED <<handled, sent, tables>>
    BY <1>5 DEF Lose
  <2>2. SingleHops'
    BY <2>1 DEF OneInv, SingleHops, tables
  <2> QED
    BY <2>1, <2>2, DropKeepsOneCopy DEF OneInv
<1>6. CASE UNCHANGED vars
  BY <1>6 DEF vars, OneInv, SingleHops, OneCopy, Receivers, SingleCopy, NoCopy
<1> QED
  BY <1>1, <1>2, <1>3, <1>4, <1>5, <1>6 DEF Next

\* They hold before anything is computed.
LEMMA InitOneInv == Init => OneInv
<1> SUFFICES ASSUME Init PROVE OneInv
  OBVIOUS
<1>1. SingleHops
  BY DEF Init, SingleHops
<1>2. Receivers = {} /\ \A w \in Conns \X Nodes : flight[w] = 0
  BY DEF Init, Receivers
<1>3. OneCopy
  BY <1>2 DEF OneCopy, SingleCopy, NoCopy
<1> QED
  BY <1>1, <1>3 DEF OneInv

-----------------------------------------------------------------------------
(* The theorems.                                                           *)

\* No listener of any network is handed a packet twice by send and forward,
\* whatever the next hops and whatever is lost.
THEOREM PacketsAreNotDuplicated == Spec => []NoDuplicates
<1>1. IInv => NoDuplicates
  BY DEF IInv, AtMostOnce, NoDuplicates
<1> QED
  BY <1>1, InductiveInvariant, PTL

\* In any network at most one listener receives an anycast or unicast packet,
\* although every node chooses a route for it anew.
THEOREM AnycastHasOneReceiver == Spec => []OneReceiver
<1>1. IInv /\ OneInv => OneReceiver
  <2> SUFFICES ASSUME \A n, m \in Receivers : n = m
               PROVE  Cardinality(Receivers) <= 1
    BY DEF OneInv, OneCopy, OneReceiver
  <2>1. CASE Receivers = {}
    BY <2>1, FS_EmptySet
  <2>2. CASE \E n : Receivers = {n}
    BY <2>2, FS_Singleton
  <2> QED
    BY <2>1, <2>2
<1> QED
  BY <1>1, InitOneInv, NextKeepsOneInv, InductiveInvariant, PTL DEF Spec

-----------------------------------------------------------------------------
(* The tables.                                                             *)

\* The network's graph has arcs between nodes.
LEMMA GraphIsOK == NetOK(net) => GraphOK(Graph)
<1> SUFFICES ASSUME NetOK(net) PROVE GraphOK(Graph)
  OBVIOUS
<1>1. \A n \in Nodes : \A l \in Attached(net, n) :
          Peer(net, l, n) \in Nodes /\ net.cost[l] \in Nat
  <2> SUFFICES ASSUME NEW n \in Nodes, NEW l \in Attached(net, n)
               PROVE  Peer(net, l, n) \in Nodes /\ net.cost[l] \in Nat
    OBVIOUS
  <2>1. l \in Conns /\ Peer(net, l, n) \in Nodes
    BY PeerIsMutual
  <2> QED BY <2>1 DEF NetOK
<1> QED BY <1>1 DEF Graph, GraphOK

\* The next hop to the neighbour that a next hop leads to is the same connection.
LEMMA NextHopIsDirect ==
    ASSUME NetOK(net), dist = Dist(Graph), NEW n \in Nodes, NEW m \in Nodes,
           NextHop(n)[m] # NoConn
    PROVE  NextHop(n)[Peer(net, NextHop(n)[m], n)] = NextHop(n)[m]
<1>1. PICK first : first = FirstHop(Graph, dist, n)
  OBVIOUS
<1>2. /\ first \in [Nodes -> Nodes]
      /\ \A k \in Nodes : first[k] = n \/ IsChild(Graph, dist, n, first[k])
      /\ \A k \in Nodes : IsChild(Graph, dist, n, k) => first[k] = k
  BY <1>1, GraphIsOK, FirstHopIs
<1>3. NextHop(n) = [k \in Nodes |->
           IF /\ Reachable(dist, n, k)
              /\ \E l \in Attached(net, n) : Peer(net, l, n) = first[k]
           THEN net.find[<<n, first[k]>>] ELSE NoConn]
  BY <1>1 DEF NextHop
<1>4. PICK p \in Nodes : p = first[m]
  BY <1>2
<1>5. /\ \E l \in Attached(net, n) : Peer(net, l, n) = p
      /\ NextHop(n)[m] = net.find[<<n, p>>]
  BY <1>3, <1>4
<1>6. PICK l \in Attached(net, n) : Peer(net, l, n) = p
  BY <1>5
<1>7. p # n
  BY <1>6, PeerIsMutual
<1>8. IsChild(Graph, dist, n, p) /\ first[p] = p
  BY <1>2, <1>4, <1>7
<1>9. Reachable(dist, n, p)
  BY <1>8 DEF IsChild
<1>10. NextHop(n)[p] = net.find[<<n, p>>]
  BY <1>3, <1>5, <1>8, <1>9
<1>11. Peer(net, net.find[<<n, p>>], n) = p
  BY <1>6 DEF NetOK
<1> QED BY <1>5, <1>10, <1>11

\* The distances are those of shortest paths once they are computed, and next
\* hops stand for first hops.
HopInv ==
    /\ dist \in [Nodes -> [Nodes -> 0..MaxCost]]
    /\ phase # "Lsas" => dist = Dist(Graph)
    /\ phase # "Fib" => hop = [n \in Nodes |-> NoHops]
    /\ NeighboursAreDirect

\* It holds before anything is computed.
LEMMA InitHopInv == Init => HopInv
<1> SUFFICES ASSUME Init PROVE HopInv
  OBVIOUS
<1>1. dist \in [Nodes -> [Nodes -> 0..MaxCost]]
  BY MaxCostPositive DEF Init
<1>2. \A n, m \in Nodes : hop[n][m] = NoConn
  BY DEF Init, NoHops
<1> QED BY <1>1, <1>2 DEF Init, HopInv, NeighboursAreDirect

\* Every step keeps it.
LEMMA NextKeepsHopInv == IInv /\ HopInv /\ [Next]_vars => HopInv'
<1> SUFFICES ASSUME IInv, HopInv, [Next]_vars PROVE HopInv'
  OBVIOUS
<1>0. NetOK(net)
  BY DEF IInv, Tables
<1>1. CASE ComputeSpf
  <2>1. net' = net /\ hop' = hop /\ phase' = "Spf" /\ phase = "Lsas" /\ dist' = Dist(Graph)
    BY <1>1 DEF ComputeSpf
  <2>2. Graph' = Graph
    BY <2>1 DEF Graph, Attached, Up, Peer
  <2>3. dist' \in [Nodes -> [Nodes -> 0..MaxCost]]
    BY <1>0, <2>1, GraphIsOK, DistIs
  <2>4. \A n, m \in Nodes : hop'[n][m] = NoConn
    BY <2>1 DEF HopInv, NoHops
  <2>5. hop' = [n \in Nodes |-> NoHops]
    BY <2>1 DEF HopInv
  <2>6. NeighboursAreDirect'
    BY <2>4 DEF NeighboursAreDirect
  <2>7. [n \in Nodes |-> NoHops]' = [n \in Nodes |-> NoHops]
    BY DEF NoHops
  <2> QED BY <2>1, <2>2, <2>3, <2>5, <2>6, <2>7 DEF HopInv
<1>2. CASE BuildFib
  <2>1. net' = net /\ dist' = dist /\ phase' = "Fib" /\ phase = "Spf"
        /\ hop' = [n \in Nodes |-> NextHop(n)]
    BY <1>2 DEF BuildFib
  <2>2. Graph' = Graph
    BY <2>1 DEF Graph, Attached, Up, Peer
  <2>3. dist = Dist(Graph)
    BY <2>1 DEF HopInv
  <2>4. ASSUME NEW n \in Nodes, NEW m \in Nodes, hop'[n][m] # NoConn
        PROVE  hop'[n][Peer(net', hop'[n][m], n)] = hop'[n][m]
    <3>1. hop'[n] = NextHop(n)
      BY <2>1
    <3>2. NextHop(n)[Peer(net, NextHop(n)[m], n)] = NextHop(n)[m]
      BY <1>0, <2>3, <2>4, <3>1, NextHopIsDirect
    <3> QED BY <2>1, <3>1, <3>2
  <2>5. NeighboursAreDirect'
    BY <2>4 DEF NeighboursAreDirect
  <2> QED BY <2>1, <2>2, <2>3, <2>5 DEF HopInv
<1>3. CASE UNCHANGED <<net, phase, dist, hop>>
  <2>1. Graph' = Graph
    BY <1>3 DEF Graph, Attached, Up, Peer
  <2>2. [n \in Nodes |-> NoHops]' = [n \in Nodes |-> NoHops]
    BY DEF NoHops
  <2>3. NeighboursAreDirect'
    BY <1>3 DEF HopInv, NeighboursAreDirect, Peer
  <2> QED BY <1>3, <2>1, <2>2, <2>3 DEF HopInv
<1>4. ComputeSpf \/ BuildFib \/ UNCHANGED <<net, phase, dist, hop>>
  BY DEF Next, vars, tables, Send, Forward, Lose
<1> QED BY <1>1, <1>2, <1>3, <1>4

\* The types of the tables and the packet, distances included, in every network
\* (compute_spf, build_from_db).
THEOREM TypeCorrect == Spec => []TypeOK
<1>1. IInv /\ HopInv => TypeOK
  BY DEF IInv, HopInv, Tables, Packet, TypeOK
<1>2. Spec => []HopInv
  BY InductiveInvariant, InitHopInv, NextKeepsHopInv, PTL DEF Spec
<1> QED BY <1>1, <1>2, InductiveInvariant, PTL

\* A connection that leads anywhere over a neighbour is the way to that
\* neighbour, in every network: build_from_db lists no connection twice.
THEOREM NeighboursAreReachedDirectly == Spec => []NeighboursAreDirect
<1>1. HopInv => NeighboursAreDirect
  BY DEF HopInv
<1>2. Spec => []HopInv
  BY InductiveInvariant, InitHopInv, NextKeepsHopInv, PTL DEF Spec
<1> QED BY <1>1, <1>2, PTL

-----------------------------------------------------------------------------
(* Distances and next hops of the finished tables.                         *)

\* The tables are built, from the network's own graph.
FibInv ==
    phase = "Fib" => \A n \in Nodes : hop[n] = NextHop(n) /\ fib[n] = FibEntryOf(hop[n], n)

Ready ==
    /\ NetOK(net) /\ src \in Nodes
    /\ dist = Dist(Graph)
    /\ \A n \in Nodes : hop[n] = NextHop(n) /\ fib[n] = FibEntryOf(hop[n], n)

\* What next hops are made of changes only with the tables.
LEMMA NextHopStays ==
    ASSUME UNCHANGED <<net, dist>>
    PROVE  \A n : NextHop(n)' = NextHop(n)
  BY DEF NextHop, Graph, Attached, Up, Peer

\* They are built once and stay.
LEMMA NextKeepsFibInv == FibInv /\ [Next]_vars => FibInv'
<1> SUFFICES ASSUME FibInv, [Next]_vars PROVE FibInv'
  OBVIOUS
<1>1. CASE ComputeSpf
  BY <1>1 DEF ComputeSpf, FibInv
<1>2. CASE BuildFib
  <2>1. UNCHANGED <<net, dist>>
    BY <1>2 DEF BuildFib
  <2>2. ASSUME NEW n \in Nodes
        PROVE  hop'[n] = NextHop(n)' /\ fib'[n] = FibEntryOf(hop[n], n)'
    <3>1. hop'[n] = NextHop(n) /\ fib'[n] = FibEntryOf(NextHop(n), n)
      BY <1>2 DEF BuildFib
    <3>2. NextHop(n)' = NextHop(n)
      BY <2>1, NextHopStays
    <3>3. FibEntryOf(hop[n], n)' = FibEntryOf(hop'[n], n)
      BY <2>1 DEF FibEntryOf, MultiCastEntry, SingleEntry, Chosen, Usable, AnycastTotal, Peer
    <3> QED BY <3>1, <3>2, <3>3
  <2> QED BY <2>2 DEF FibInv
<1>3. CASE UNCHANGED <<net, phase, dist, hop, fib>>
  <2>1. ASSUME NEW n \in Nodes
        PROVE  NextHop(n)' = NextHop(n) /\ FibEntryOf(hop[n], n)' = FibEntryOf(hop[n], n)
    <3>1. NextHop(n)' = NextHop(n)
      BY <1>3, NextHopStays
    <3>2. FibEntryOf(hop[n], n)' = FibEntryOf(hop[n], n)
      BY <1>3 DEF FibEntryOf, MultiCastEntry, SingleEntry, Chosen, Usable, AnycastTotal, Peer
    <3> QED BY <3>1, <3>2
  <2> QED BY <1>3, <2>1 DEF FibInv
<1>4. ComputeSpf \/ BuildFib \/ UNCHANGED <<net, phase, dist, hop, fib>>
  BY DEF Next, vars, tables, Send, Forward, Lose
<1> QED BY <1>1, <1>2, <1>3, <1>4

\* Once a packet was sent, they are.
LEMMA SentIsReady == IInv /\ HopInv /\ FibInv /\ sent => Ready
  BY DEF IInv, Tables, Packet, HopInv, FibInv, Ready

\* The arcs of the graph are the network's connections, each with its cost, which
\* is not 0, in both directions.
LEMMA ArcsAreConnections ==
    ASSUME NetOK(net)
    PROVE  /\ \A n, m \in Nodes : \A c : c \in ArcCosts(Graph, n, m) <=>
                 \E l \in Attached(net, n) : Peer(net, l, n) = m /\ net.cost[l] = c
           /\ PositiveArcs(Graph)
           /\ Symmetric(Graph)
<1>1. ASSUME NEW n \in Nodes, NEW m \in Nodes, NEW c
      PROVE  c \in ArcCosts(Graph, n, m) <=>
                 \E l \in Attached(net, n) : Peer(net, l, n) = m /\ net.cost[l] = c
  <2>1. Graph[n] = {[peer |-> Peer(net, l, n), cost |-> net.cost[l]] : l \in Attached(net, n)}
    BY DEF Graph
  <2>2. ASSUME c \in ArcCosts(Graph, n, m)
        PROVE  \E l \in Attached(net, n) : Peer(net, l, n) = m /\ net.cost[l] = c
    BY <2>1, <2>2 DEF ArcCosts
  <2>3. ASSUME NEW l \in Attached(net, n), Peer(net, l, n) = m, net.cost[l] = c
        PROVE  c \in ArcCosts(Graph, n, m)
    <3>1. PICK a : a = [peer |-> Peer(net, l, n), cost |-> net.cost[l]]
      OBVIOUS
    <3>2. a \in Graph[n] /\ a.peer = m /\ a.cost = c
      BY <2>1, <2>3, <3>1
    <3> QED BY <3>2 DEF ArcCosts
  <2> QED BY <2>2, <2>3
<1>2. PositiveArcs(Graph)
  BY <1>1 DEF PositiveArcs, Attached, Up
<1>3. ASSUME NEW n \in Nodes, NEW m \in Nodes, NEW l \in Attached(net, n), Peer(net, l, n) = m
      PROVE  l \in Attached(net, m) /\ Peer(net, l, m) = n
  BY <1>3 DEF Attached, Peer, Up
<1>4. \A n, m \in Nodes : \A c : c \in ArcCosts(Graph, n, m) => c \in ArcCosts(Graph, m, n)
  BY <1>1, <1>3
<1>5. Symmetric(Graph)
  BY <1>4 DEF Symmetric
<1> QED BY <1>1, <1>2, <1>5

\* The next hop of n towards m leads to p over a connection of its own; p is on a
\* shortest path to m, and one of the connections to p is part of it.
Leads(n, m, p) ==
    /\ p \in Nodes /\ p # n
    /\ hop[n][m] = net.find[<<n, p>>]
    /\ hop[n][m] \in Attached(net, n)
    /\ Peer(net, hop[n][m], n) = p
    /\ dist[n][p] > 0
    /\ dist[n][m] = dist[n][p] + dist[p][m]
    /\ \E l \in Attached(net, n) : Peer(net, l, n) = p /\ net.cost[l] = dist[n][p]

\* There is a next hop to each reachable node, and no other.
LEMMA HopLeads ==
    ASSUME Ready, NEW n \in Nodes, NEW m \in Nodes
    PROVE  IF Reachable(dist, n, m) THEN Leads(n, m, FirstHop(Graph, dist, n)[m])
           ELSE hop[n][m] = NoConn
<1>1. PICK p : p = FirstHop(Graph, dist, n)[m]
  OBVIOUS
<1>2. hop[n][m] = IF /\ Reachable(dist, n, m)
                     /\ \E l \in Attached(net, n) : Peer(net, l, n) = p
                  THEN net.find[<<n, p>>] ELSE NoConn
  <2>1. hop[n] = NextHop(n)
    BY DEF Ready
  <2> QED BY <1>1, <2>1 DEF NextHop
<1>3. CASE Reachable(dist, n, m)
  <2>1. NetOK(net) /\ GraphOK(Graph) /\ PositiveArcs(Graph) /\ dist = Dist(Graph)
    BY GraphIsOK, ArcsAreConnections DEF Ready
  <2>2. OnTheWay(Graph, dist, n, m, p)
    BY <1>1, <1>3, <2>1, FirstHopOnTheWay
  <2>3. IsChild(Graph, dist, n, p) /\ dist[n][m] = dist[n][p] + dist[p][m]
    BY <2>2 DEF OnTheWay
  <2>4. p \in Nodes /\ p # n /\ dist[n][p] \in ArcCosts(Graph, n, p) /\ dist[n][p] > 0
    BY <2>1, <2>3, ChildIsNeighbour
  <2>5. PICK l \in Attached(net, n) : Peer(net, l, n) = p /\ net.cost[l] = dist[n][p]
    BY <2>1, <2>4, ArcsAreConnections
  <2>6. hop[n][m] = net.find[<<n, p>>]
    BY <1>2, <1>3, <2>5
  <2>7. net.find[<<n, p>>] \in Attached(net, n) /\ Peer(net, net.find[<<n, p>>], n) = p
    BY <2>1, <2>5 DEF NetOK
  <2>8. Leads(n, m, p)
    BY <2>3, <2>4, <2>5, <2>6, <2>7 DEF Leads
  <2> QED BY <1>1, <1>3, <2>8
<1>4. CASE ~Reachable(dist, n, m)
  BY <1>2, <1>4
<1> QED BY <1>3, <1>4

\* Distances are those of a metric, up to saturation.
Metric ==
    /\ \A s, t \in Nodes : dist[s][t] \in 0..MaxCost /\ dist[s][t] \in Nat
    /\ \A s, t \in Nodes : dist[s][t] = 0 <=> s = t
    /\ \A s, t \in Nodes : dist[s][t] = dist[t][s]
    /\ \A s, m, t \in Nodes : dist[s][t] <= SatAdd(dist[s][m], dist[m][t])
    /\ \A s, t \in Nodes : Reachable(dist, s, t) => Reachable(dist, t, s)

\* Those of every network are.
LEMMA DistancesAreMetric == Ready => Metric
<1> SUFFICES ASSUME Ready PROVE Metric
  OBVIOUS
<1>1. NetOK(net) /\ GraphOK(Graph) /\ Symmetric(Graph) /\ dist = Dist(Graph)
  BY GraphIsOK, ArcsAreConnections DEF Ready
<1>2. \A s, t \in Nodes : dist[s][t] \in 0..MaxCost /\ dist[s][t] \in Nat
  BY <1>1, DistIs, MaxCostPositive
<1>3. \A s, t \in Nodes : dist[s][t] = dist[t][s]
  BY <1>1, DistIsSymmetric
<1>4. \A s, m, t \in Nodes : dist[s][t] <= SatAdd(dist[s][m], dist[m][t])
  BY <1>1, TriangleOver
<1>5. ASSUME NEW s \in Nodes, NEW t \in Nodes PROVE dist[s][t] = 0 <=> s = t
  <2>1. CASE s = t
    BY <1>1, <2>1, DistToSelf
  <2>2. CASE s # t /\ ~(dist[s][t] < MaxCost)
    BY <1>2, <2>2, MaxCostPositive
  <2>3. CASE s # t /\ dist[s][t] < MaxCost
    <3>1. PICK p : Leads(s, t, p)
      BY <2>3, HopLeads DEF Reachable
    <3>2. dist[s][p] > 0 /\ dist[s][t] = dist[s][p] + dist[p][t] /\ p \in Nodes
      BY <3>1 DEF Leads
    <3>3. \A x, y, z \in Nat : x > 0 /\ z = x + y => z # 0
      OBVIOUS
    <3> QED BY <1>2, <2>3, <3>2, <3>3
  <2> QED BY <2>1, <2>2, <2>3
<1>6. \A s, t \in Nodes : Reachable(dist, s, t) => Reachable(dist, t, s)
  BY <1>3 DEF Reachable
<1> QED BY <1>2, <1>3, <1>4, <1>5, <1>6 DEF Metric

-----------------------------------------------------------------------------
(* Delivery.                                                               *)

\* The connections over which a node that handled the packet passed it on.
Copies(p) == IF p = src THEN fib[p].remote ELSE Onward(p)

\* A copy that its receiver would let in is still under way or was let in, where
\* nothing is lost; and the source has handled what it sent.
Delivery ==
    /\ sent => handled[src] > 0
    /\ ~net.lossy => \A p \in Nodes : handled[p] > 0 =>
         \A l \in Copies(p) : Accepts(l, Peer(net, l, p)) =>
            flight[<<l, Peer(net, l, p)>>] > 0 \/ handled[Peer(net, l, p)] > 0

\* It holds before anything is computed.
LEMMA InitDelivery == Init => Delivery
  BY DEF Init, Delivery

\* A transmission takes nothing away and reaches the other ends.
LEMMA TransmitAdds ==
    ASSUME NetOK(net), NEW n \in Nodes, NEW out, out \subseteq Attached(net, n),
           NEW fl \in [Conns \X Nodes -> Nat]
    PROVE  /\ \A w \in Conns \X Nodes : fl[w] > 0 => Transmit(fl, n, out)[w] > 0
           /\ \A l \in out : Transmit(fl, n, out)[<<l, Peer(net, l, n)>>] > 0
<1>1. \A w \in Conns \X Nodes : fl[w] > 0 => Transmit(fl, n, out)[w] > 0
  <2> SUFFICES ASSUME NEW w \in Conns \X Nodes, fl[w] > 0 PROVE Transmit(fl, n, out)[w] > 0
    OBVIOUS
  <2>1. Transmit(fl, n, out)[w] \in {fl[w], fl[w] + 1} /\ fl[w] \in Nat
    BY DEF Transmit
  <2> QED BY <2>1
<1>2. ASSUME NEW l \in out PROVE Transmit(fl, n, out)[<<l, Peer(net, l, n)>>] > 0
  <2>1. PICK w : w = <<l, Peer(net, l, n)>>
    OBVIOUS
  <2>2. w \in Conns \X Nodes /\ w[1] = l /\ w[2] = Peer(net, l, n)
    BY <2>1, PeerIsMutual
  <2>3. Transmit(fl, n, out)[w] = fl[w] + 1 /\ fl[w] \in Nat
    BY <2>2 DEF Transmit
  <2> QED BY <2>1, <2>3
<1> QED BY <1>1, <1>2

\* Every step keeps it.
LEMMA NextKeepsDelivery == IInv /\ Delivery /\ [Next]_vars => Delivery'
<1> SUFFICES ASSUME IInv, Delivery, [Next]_vars PROVE Delivery'
  OBVIOUS
<1>0. /\ NetOK(net) /\ src \in Nodes
      /\ flight \in [Conns \X Nodes -> Nat] /\ handled \in [Nodes -> Nat]
  BY DEF IInv, Tables, Packet
<1>1. ASSUME NEW p \in Nodes PROVE Copies(p) \subseteq Attached(net, p)
  BY DEF IInv, Tables, Copies, Onward
<1>2. ASSUME NEW p \in Nodes, NEW l \in Copies(p)
      PROVE  /\ l \in Conns /\ Peer(net, l, p) \in Nodes
             /\ <<l, Peer(net, l, p)>> \in Conns \X Nodes
  BY <1>0, <1>1, PeerIsMutual
<1>3. CASE ComputeSpf \/ BuildFib
  <2>1. sent' = sent /\ handled' = handled /\ ~sent
    BY <1>3 DEF ComputeSpf, BuildFib, IInv, Packet
  <2>2. \A p \in Nodes : ~(handled'[p] > 0)
    BY <2>1 DEF IInv, Packet
  <2> QED BY <2>1, <2>2 DEF Delivery
<1>4. ASSUME UNCHANGED tables,
             sent' => handled'[src] > 0,
             ~net.lossy => \A p \in Nodes : handled'[p] > 0 =>
                \A l \in Copies(p) : Accepts(l, Peer(net, l, p)) =>
                   flight'[<<l, Peer(net, l, p)>>] > 0 \/ handled'[Peer(net, l, p)] > 0
      PROVE  Delivery'
  <2>1. UNCHANGED <<net, src, hop, fib>>
    BY <1>4 DEF tables
  <2>2. \A p : Copies(p)' = Copies(p)
    BY <2>1 DEF Copies, Onward, Peer
  <2>3. \A l, p : Accepts(l, Peer(net, l, p))' = Accepts(l, Peer(net, l, p))
    BY <2>1 DEF Accepts, Peer
  <2> QED BY <1>4, <2>1, <2>2, <2>3 DEF Delivery
<1>5. CASE Send
  <2>1. /\ UNCHANGED tables /\ handled' = [handled EXCEPT ![src] = @ + 1]
        /\ flight' = Transmit(flight, src, fib[src].remote)
        /\ \A n \in Nodes : handled[n] = 0
    BY <1>5 DEF Send, IInv, Packet
  <2>2. \A n \in Nodes : handled'[n] = IF n = src THEN 1 ELSE 0
    BY <1>0, <2>1
  <2>3. Copies(src) = fib[src].remote
    BY DEF Copies
  <2>4. \A l \in Copies(src) : flight'[<<l, Peer(net, l, src)>>] > 0
    BY <1>0, <1>1, <2>1, <2>3, TransmitAdds
  <2>5. handled'[src] > 0 /\ \A p \in Nodes : handled'[p] > 0 => p = src
    BY <1>0, <2>2
  <2> QED BY <1>4, <2>1, <2>4, <2>5
<1>6. ASSUME NEW l \in Conns, NEW n \in Nodes, Forward(l, n), ~Accepts(l, n) PROVE Delivery'
  <2>1. /\ UNCHANGED tables /\ sent' = sent /\ handled' = handled
        /\ flight[<<l, n>>] > 0 /\ flight' = Taken(l, n)
    BY <1>6 DEF Forward
  <2>2. \A w \in Conns \X Nodes : w # <<l, n>> => flight'[w] = flight[w]
    BY <1>0, <2>1, TakenTyped
  <2>3. ASSUME ~net.lossy, NEW p \in Nodes, handled[p] > 0, NEW k \in Copies(p),
               Accepts(k, Peer(net, k, p))
        PROVE  flight'[<<k, Peer(net, k, p)>>] > 0 \/ handled[Peer(net, k, p)] > 0
    <3>1. flight[<<k, Peer(net, k, p)>>] > 0 \/ handled[Peer(net, k, p)] > 0
      BY <2>3 DEF Delivery
    <3>2. <<k, Peer(net, k, p)>> # <<l, n>>
      BY <1>6, <2>3
    <3> QED BY <1>2, <2>2, <3>1, <3>2
  <2> QED BY <1>4, <2>1, <2>3 DEF Delivery
<1>7. ASSUME NEW l \in Conns, NEW n \in Nodes, Forward(l, n), Accepts(l, n) PROVE Delivery'
  <2>1. /\ UNCHANGED tables /\ sent' = sent
        /\ handled' = [handled EXCEPT ![n] = @ + 1]
        /\ flight[<<l, n>>] > 0 /\ flight' = Transmit(Taken(l, n), n, Onward(n))
    BY <1>7 DEF Forward
  <2>2. /\ Taken(l, n) \in [Conns \X Nodes -> Nat]
        /\ \A w \in Conns \X Nodes : w # <<l, n>> => Taken(l, n)[w] = flight[w]
    BY <1>0, <2>1, TakenTyped
  <2>3. Copies(n) = Onward(n)
    BY <1>7 DEF Accepts, Copies
  <2>4. /\ \A w \in Conns \X Nodes : Taken(l, n)[w] > 0 => flight'[w] > 0
        /\ \A k \in Copies(n) : flight'[<<k, Peer(net, k, n)>>] > 0
    <3>1. Onward(n) \subseteq Attached(net, n)
      BY <1>1, <2>3
    <3> QED BY <1>0, <2>1, <2>2, <2>3, <3>1, TransmitAdds
  <2>5. /\ handled'[n] > 0
        /\ \A m \in Nodes : handled[m] > 0 => handled'[m] > 0
        /\ \A m \in Nodes : m # n => handled'[m] = handled[m]
    BY <1>0, <2>1
  <2>6. ASSUME ~net.lossy, NEW p \in Nodes, handled'[p] > 0, NEW k \in Copies(p),
               Accepts(k, Peer(net, k, p))
        PROVE  flight'[<<k, Peer(net, k, p)>>] > 0 \/ handled'[Peer(net, k, p)] > 0
    <3>1. CASE p = n
      BY <2>4, <3>1
    <3>2. CASE p # n
      <4>1. flight[<<k, Peer(net, k, p)>>] > 0 \/ handled[Peer(net, k, p)] > 0
        BY <2>5, <2>6, <3>2 DEF Delivery
      <4>2. CASE Peer(net, k, p) = n
        BY <2>5, <4>2
      <4>3. CASE Peer(net, k, p) # n
        <5>1. <<k, Peer(net, k, p)>> # <<l, n>>
          BY <4>3
        <5> QED BY <1>2, <2>2, <2>4, <2>5, <4>1, <5>1
      <4> QED BY <4>2, <4>3
    <3> QED BY <3>1, <3>2
  <2>7. sent' => handled'[src] > 0
    BY <1>0, <2>1, <2>5 DEF Delivery
  <2> QED BY <1>4, <2>1, <2>6, <2>7
<1>8. ASSUME NEW l \in Conns, NEW n \in Nodes, Lose(l, n) PROVE Delivery'
  BY <1>4, <1>8 DEF Lose, Delivery
<1>9. CASE UNCHANGED vars
  <2>1. UNCHANGED tables /\ UNCHANGED <<sent, flight, handled>>
    BY <1>9 DEF vars, tables
  <2> QED BY <1>4, <2>1 DEF Delivery
<1> QED BY <1>3, <1>5, <1>6, <1>7, <1>8, <1>9 DEF Next

\* What is known of a packet that has come to rest.
Rested == IInv /\ OneInv /\ HopInv /\ Ready /\ Metric /\ Delivery /\ Quiet /\ ~net.lossy

\* A node that let the packet in has a path back to the source.
LEMMA HandledIsReachable ==
    ASSUME Rested, NEW n \in Nodes, handled[n] > 0, n # src
    PROVE  Reachable(dist, n, src)
<1>1. src \in Nodes /\ n \in Nodes \ {src} /\ NoMoreThanUpstream
  BY DEF Rested, IInv, Tables
<1>2. Way(n) = NoConn => handled[n] = 0
  BY <1>1 DEF NoMoreThanUpstream
<1>3. hop[n][src] # NoConn
  BY <1>2 DEF Way
<1> QED BY <1>1, <1>3, HopLeads DEF Rested

\* A node that handled the packet and whose entry has its hop towards t has passed
\* it to the neighbour there, if that one's way back to the source is the same.
LEMMA PassedOn ==
    ASSUME Rested, SameLinks, NEW p \in Nodes, NEW t \in Nodes, NEW n \in Nodes,
           handled[p] > 0, Leads(p, t, n), Leads(n, src, p), hop[p][t] \in fib[p].remote
    PROVE  handled[n] > 0
<1>1. PICK l : l = hop[p][t]
  OBVIOUS
<1>2. l = net.find[<<p, n>>] /\ l \in Attached(net, p) /\ Peer(net, l, p) = n /\ l \in fib[p].remote
  BY <1>1 DEF Leads
<1>3. src \in Nodes /\ hop[n][src] = l
  BY <1>2 DEF Leads, SameLinks, Rested, Ready
<1>4. /\ \A u, v \in Nodes : dist[u][v] \in Nat
      /\ \A u, v \in Nodes : dist[u][v] = 0 <=> u = v
      /\ \A u, v \in Nodes : dist[u][v] = dist[v][u]
  BY DEF Rested, Metric
<1>5. dist[n][src] = dist[n][p] + dist[p][src] /\ dist[n][p] > 0
  BY DEF Leads
<1>6. n # src
  <2>1. \A x, y, z \in Nat : z > 0 /\ x = z + y => x # 0
    OBVIOUS
  <2> QED BY <1>3, <1>4, <1>5, <2>1
<1>7. Accepts(l, n)
  BY <1>3, <1>6 DEF Accepts
<1>8. l \in Copies(p)
  <2>1. CASE p = src
    BY <1>2, <2>1 DEF Copies
  <2>2. CASE p # src
    <3>1. PICK q : Leads(p, src, q)
      BY <1>3, <2>2, HandledIsReachable, HopLeads DEF Rested
    <3>2. q \in Nodes /\ Peer(net, hop[p][src], p) = q /\ dist[p][src] = dist[p][q] + dist[q][src]
      BY <3>1 DEF Leads
    <3>3. q # n
      <4>1. \A x, y, z \in Nat : ~(z > 0 /\ x = z + y /\ y = z + x)
        OBVIOUS
      <4> QED BY <1>3, <1>4, <1>5, <3>2, <4>1
    <3> QED BY <1>2, <2>2, <3>2, <3>3 DEF Copies, Onward
  <2> QED BY <2>1, <2>2
<1>9. flight[<<l, n>>] = 0
  BY <1>2 DEF Rested, Quiet, Attached, Up
<1> QED BY <1>2, <1>7, <1>8, <1>9 DEF Rested, Delivery

\* n is on a shortest path from s to t.
Between(s, n, t) == dist[s][t] = dist[s][n] + dist[n][t]

\* The step along a shortest path from the source to t, where such paths are
\* unique: the next node's way back leads over this one.
LEMMA AlongThePath ==
    ASSUME Rested, SameLinks, UniquePaths, NEW p \in Nodes, NEW t \in Nodes,
           Reachable(dist, src, t), Between(src, p, t), p # t,
           handled[p] > 0, hop[p][t] \in fib[p].remote
    PROVE  \E n \in Nodes : /\ handled[n] > 0
                            /\ Between(src, n, t)
                            /\ dist[n][t] < dist[p][t]
                            /\ dist[src][p] < dist[src][n]
<1>1. /\ \A u, v \in Nodes : dist[u][v] \in 0..MaxCost /\ dist[u][v] \in Nat
      /\ \A u, v \in Nodes : dist[u][v] = 0 <=> u = v
      /\ \A u, v \in Nodes : dist[u][v] = dist[v][u]
      /\ \A u, v, w \in Nodes : dist[u][v] <= SatAdd(dist[u][w], dist[w][v])
      /\ src \in Nodes /\ NetOK(net)
  BY DEF Rested, Metric, Ready
<1>2. dist[src][t] = dist[src][p] + dist[p][t] /\ dist[src][t] < MaxCost
  BY DEF Between, Reachable
<1>3. dist[p][t] < MaxCost
  <2>1. \A x, y, z \in Nat : x = y + z /\ x < MaxCost => z < MaxCost
    BY MaxCostPositive
  <2> QED BY <1>1, <1>2, <2>1
<1>4. PICK n : Leads(p, t, n)
  BY <1>3, HopLeads DEF Reachable, Rested
<1>5. n \in Nodes /\ n # p /\ dist[p][n] > 0 /\ dist[p][t] = dist[p][n] + dist[n][t]
  BY <1>4 DEF Leads
<1>6. /\ dist[src][n] = dist[src][p] + dist[p][n]
      /\ dist[src][t] = dist[src][n] + dist[n][t]
      /\ dist[n][t] < dist[p][t] /\ dist[src][p] < dist[src][n] /\ dist[src][n] < MaxCost
      /\ dist[src][n] > 0
  <2>1. PICK a, b, c, d, e, f \in 0..MaxCost :
           /\ a = dist[src][p] /\ b = dist[p][t] /\ c = dist[src][t]
           /\ d = dist[p][n] /\ e = dist[n][t] /\ f = dist[src][n]
    BY <1>1, <1>5
  <2>2. /\ c = a + b /\ c < MaxCost /\ b = d + e /\ d > 0
        /\ f <= SatAdd(a, d) /\ c <= SatAdd(f, e)
    BY <1>1, <1>2, <1>5, <2>1
  <2>3. f = a + d /\ c = f + e /\ e < b /\ a < f /\ f < MaxCost /\ f > 0
    BY <2>2, MaxCostPositive DEF SatAdd
  <2> QED BY <2>1, <2>3
<1>7. n # src /\ Reachable(dist, n, src)
  <2>1. n # src
    <3>1. dist[src][n] \in Nat /\ dist[src][n] # 0
      BY <1>1, <1>5, <1>6
    <3> QED BY <1>1, <3>1
  <2> QED BY <1>1, <1>5, <1>6, <2>1 DEF Reachable
<1>8. PICK q : Leads(n, src, q)
  BY <1>1, <1>5, <1>7, HopLeads DEF Rested
<1>9. q = p
  <2>1. PICK l \in Attached(net, n) : Peer(net, l, n) = q /\ net.cost[l] = dist[n][q]
    BY <1>8 DEF Leads
  <2>2. PICK k \in Attached(net, p) : Peer(net, k, p) = n /\ net.cost[k] = dist[p][n]
    BY <1>4 DEF Leads
  <2>3. k \in Attached(net, n) /\ Peer(net, k, n) = p
    BY <2>2 DEF Attached, Up, Peer
  <2>4. dist[n][src] = dist[n][q] + dist[q][src]
    BY <1>8 DEF Leads
  <2>5. dist[n][src] = dist[p][n] + dist[p][src]
    <3>1. dist[n][src] = dist[src][n] /\ dist[p][src] = dist[src][p]
      BY <1>1, <1>5
    <3>2. \A x, y \in Nat : x + y = y + x
      OBVIOUS
    <3> QED BY <1>1, <1>5, <1>6, <3>1, <3>2
  <2>6. /\ net.cost[l] + dist[Peer(net, l, n)][src] = dist[n][src]
        /\ net.cost[k] + dist[Peer(net, k, n)][src] = dist[n][src]
    BY <2>1, <2>2, <2>3, <2>4, <2>5
  <2>7. Peer(net, l, n) = Peer(net, k, n)
    BY <1>1, <1>5, <1>7, <2>1, <2>3, <2>6 DEF UniquePaths
  <2> QED BY <2>1, <2>3, <2>7
<1>10. handled[n] > 0
  BY <1>4, <1>5, <1>8, <1>9, PassedOn
<1> QED BY <1>5, <1>6, <1>10 DEF Between

-----------------------------------------------------------------------------
(* Broadcasts.                                                             *)

\* The entry of a broadcast has the next hop to every listener that the node can
\* reach, and a local part where there is a listener.
LEMMA BroadcastEntry ==
    ASSUME Rested, net.kind = "Broadcast", NEW p \in Nodes
    PROVE  /\ fib[p].local = (p \in net.listeners)
           /\ \A t \in net.listeners : Reachable(dist, p, t) => hop[p][t] \in fib[p].remote
<1>1. fib[p] = MultiCastEntry(hop[p], p)
  BY DEF Rested, Ready, FibEntryOf
<1>2. PICK R : R = {Peer(net, hop[p][u], p) : u \in Usable(hop[p], p) \ {p}}
  OBVIOUS
<1>3. fib[p].local = (p \in net.listeners) /\ fib[p].remote = {hop[p][q] : q \in R} \ {NoConn}
  BY <1>1, <1>2 DEF MultiCastEntry
<1>4. ASSUME NEW t \in net.listeners, Reachable(dist, p, t) PROVE hop[p][t] \in fib[p].remote
  <2>1. t \in Nodes /\ t # p
    BY <1>4 DEF Rested, Ready, NetOK, Reachable
  <2>2. PICK n : Leads(p, t, n)
    BY <1>4, <2>1, HopLeads DEF Rested
  <2>3. hop[p][t] \in Attached(net, p) /\ Peer(net, hop[p][t], p) = n
    BY <2>2 DEF Leads
  <2>4. hop[p][t] # NoConn
    BY <2>3, NoConnIsNone DEF Attached, Up
  <2>5. n \in R
    BY <1>2, <2>1, <2>3, <2>4 DEF Usable
  <2>6. hop[p][n] = hop[p][t]
    BY <2>1, <2>3, <2>4 DEF Rested, HopInv, NeighboursAreDirect
  <2> QED BY <1>3, <2>4, <2>5, <2>6
<1> QED BY <1>3, <1>4

\* Only listeners with a path to the source get a broadcast.
LEMMA ReceiversAreConnected ==
    ASSUME Rested, net.kind = "Broadcast"
    PROVE  Receivers \subseteq Connected
<1> SUFFICES ASSUME NEW n \in Receivers PROVE n \in Connected
  OBVIOUS
<1>1. n \in Nodes /\ fib[n].local /\ handled[n] > 0
  BY DEF Receivers
<1>2. n \in net.listeners
  BY <1>1, BroadcastEntry
<1>3. n # src => Reachable(dist, src, n)
  BY <1>1, HandledIsReachable DEF Rested, Metric, Ready
<1> QED BY <1>2, <1>3 DEF Connected

\* Along unique paths a broadcast reaches every connected listener: the node that
\* handled it closest to the listener is the listener.
LEMMA ReachedOverUniquePaths ==
    ASSUME Rested, SameLinks, UniquePaths, net.kind = "Broadcast",
           NEW t \in net.listeners, Reachable(dist, src, t)
    PROVE  handled[t] > 0
<1>1. t \in Nodes /\ src \in Nodes
  BY DEF Rested, Ready, NetOK
<1>2. \A u, v \in Nodes : dist[u][v] \in Nat
  BY DEF Rested, Metric
<1>3. PICK B : B = {n \in Nodes : handled[n] > 0 /\ Between(src, n, t)}
  OBVIOUS
<1>4. src \in B
  <2>1. handled[src] > 0
    BY DEF Rested, Quiet, Delivery
  <2>2. dist[src][src] = 0
    BY <1>1 DEF Rested, Metric
  <2>3. \A x \in Nat : x = 0 + x
    OBVIOUS
  <2>4. Between(src, src, t)
    BY <1>1, <1>2, <2>2, <2>3 DEF Between
  <2> QED BY <1>1, <1>3, <2>1, <2>4
<1>5. PICK D : D = {dist[n][t] : n \in B}
  OBVIOUS
<1>6. D \in SUBSET Nat /\ D # {}
  BY <1>1, <1>2, <1>3, <1>4, <1>5
<1>7. PICK x \in D : \A y \in D : x <= y
  BY <1>6, LeastNumber
<1>8. PICK p \in B : dist[p][t] = x
  BY <1>5, <1>7
<1>9. p \in Nodes /\ handled[p] > 0 /\ Between(src, p, t)
  BY <1>3, <1>8
<1>10. CASE p = t
  BY <1>9, <1>10
<1>11. CASE p # t
  <2>1. Reachable(dist, p, t)
    <3>1. \A a, b, c \in Nat : a = b + c /\ a < MaxCost => c < MaxCost
      BY MaxCostPositive
    <3> QED BY <1>1, <1>2, <1>9, <1>11, <3>1 DEF Between, Reachable
  <2>2. hop[p][t] \in fib[p].remote
    BY <1>9, <2>1, BroadcastEntry
  <2>3. PICK n \in Nodes : handled[n] > 0 /\ Between(src, n, t) /\ dist[n][t] < dist[p][t]
    BY <1>1, <1>9, <1>11, <2>2, AlongThePath
  <2>4. dist[n][t] \in D
    BY <1>3, <1>5, <2>3
  <2>5. x <= dist[n][t] /\ dist[n][t] < x /\ x \in Nat /\ dist[n][t] \in Nat
    BY <1>1, <1>2, <1>6, <1>7, <1>8, <2>3, <2>4
  <2> QED BY <2>5
<1> QED BY <1>10, <1>11

\* All connections cost c.
AllCost(c) == c \in Nat \ {0} /\ \A l \in Up(net) : net.cost[l] = c

\* Then the node that a hop leads to is at distance c.
LEMMA HopCosts ==
    ASSUME Rested, NEW c, AllCost(c), NEW s \in Nodes, NEW t \in Nodes, NEW p, Leads(s, t, p)
    PROVE  dist[s][p] = c
<1>1. PICK l \in Attached(net, s) : Peer(net, l, s) = p /\ net.cost[l] = dist[s][p]
  BY DEF Leads
<1> QED BY <1>1 DEF AllCost, Attached

\* A node at distance c is reached directly.
LEMMA OneHop ==
    ASSUME Rested, NEW c, AllCost(c), NEW s \in Nodes, NEW t \in Nodes,
           dist[s][t] = c, c < MaxCost
    PROVE  Leads(s, t, t)
<1>1. /\ \A u, v \in Nodes : dist[u][v] \in Nat
      /\ \A u, v \in Nodes : dist[u][v] = 0 <=> u = v
      /\ c \in Nat \ {0}
  BY DEF Rested, Metric, AllCost
<1>2. Reachable(dist, s, t)
  BY <1>1 DEF Reachable
<1>3. PICK p : Leads(s, t, p)
  BY <1>2, HopLeads DEF Rested
<1>4. p \in Nodes /\ dist[s][t] = dist[s][p] + dist[p][t] /\ dist[s][p] = c
  BY <1>3, HopCosts DEF Leads
<1>5. dist[p][t] = 0
  <2>1. \A x, y \in Nat : x = x + y => y = 0
    OBVIOUS
  <2> QED BY <1>1, <1>4, <2>1
<1>6. p = t
  BY <1>1, <1>4, <1>5
<1> QED BY <1>3, <1>6

\* The first hop to a node at distance 2c is the lowest id half-way.
LEMMA HalfWay ==
    ASSUME Rested, NEW c, AllCost(c), NEW s \in Nodes, NEW t \in Nodes,
           dist[s][t] = c + c, c + c < MaxCost
    PROVE  \E p \in Nodes : /\ Leads(s, t, p)
                            /\ dist[s][p] = c /\ dist[p][t] = c
                            /\ \A u \in Nodes : dist[s][u] = c /\ dist[u][t] = c => p <= u
<1>1. /\ \A u, v \in Nodes : dist[u][v] \in 0..MaxCost /\ dist[u][v] \in Nat
      /\ \A u, v \in Nodes : dist[u][v] = 0 <=> u = v
      /\ dist \in [Nodes -> [Nodes -> 0..MaxCost]]
      /\ c \in Nat \ {0}
  BY DEF Rested, Metric, AllCost, HopInv
<1>2. NetOK(net) /\ GraphOK(Graph) /\ PositiveArcs(Graph) /\ dist = Dist(Graph)
  BY GraphIsOK, ArcsAreConnections DEF Rested, Ready
<1>3. c < MaxCost /\ c + c # 0 /\ c + c # c
  BY <1>1, MaxCostPositive
<1>4. s # t /\ Reachable(dist, s, t)
  <2>1. s # t
    BY <1>1, <1>3
  <2> QED BY <2>1 DEF Reachable
<1>5. \A u, v \in Nodes : \A w \in ArcCosts(Graph, u, v) : w = c
  BY <1>2, ArcsAreConnections DEF AllCost, Attached
<1>6. PICK p \in Nodes : ParentOf(Graph, dist, s, t, p)
  BY <1>2, <1>4, ReachableHasParent
<1>7. dist[s][p] = c
  <2>1. PICK w \in ArcCosts(Graph, p, t) : dist[s][t] = dist[s][p] + w
    BY <1>6 DEF ParentOf
  <2>2. w = c
    BY <1>5
  <2>3. \A x \in Nat : c + c = x + c => x = c
    BY <1>1
  <2> QED BY <1>1, <2>1, <2>2, <2>3
<1>8. p # s /\ Reachable(dist, s, p)
  <2>1. p # s
    BY <1>1, <1>7
  <2> QED BY <1>3, <1>7, <2>1 DEF Reachable
<1>9. IsChild(Graph, dist, s, p)
  <2>1. PICK q \in Nodes : ParentOf(Graph, dist, s, p, q)
    BY <1>2, <1>8, ReachableHasParent
  <2>2. PICK w \in ArcCosts(Graph, q, p) : dist[s][p] = dist[s][q] + w
    BY <2>1 DEF ParentOf
  <2>3. w = c
    BY <1>5
  <2>4. \A x \in Nat : c = x + c => x = 0
    BY <1>1
  <2>5. dist[s][q] = 0
    BY <1>1, <1>7, <2>2, <2>3, <2>4
  <2>6. q = s
    BY <1>1, <2>5
  <2> QED BY <1>8, <2>1, <2>6 DEF IsChild, ParentOf
<1>10. FirstHop(Graph, dist, s)[t] = p
  <2>1. OnTheWay(Graph, dist, s, t, FirstHop(Graph, dist, s)[t])
    BY <1>2, <1>4, FirstHopOnTheWay
  <2> QED BY <1>6, <1>9, <2>1 DEF OnTheWay, ParentOf
<1>11. Leads(s, t, p)
  BY <1>4, <1>10, HopLeads DEF Rested
<1>12. dist[p][t] = c
  <2>1. dist[s][t] = dist[s][p] + dist[p][t]
    BY <1>11 DEF Leads
  <2>2. \A x \in Nat : c + c = c + x => x = c
    BY <1>1
  <2> QED BY <1>1, <1>7, <2>1, <2>2
<1>13. ASSUME NEW u \in Nodes, dist[s][u] = c, dist[u][t] = c PROVE p <= u
  <2>1. Leads(u, t, t)
    BY <1>3, <1>13, OneHop
  <2>2. PICK l \in Attached(net, u) : Peer(net, l, u) = t /\ net.cost[l] = c
    BY <1>13, <2>1 DEF Leads
  <2>3. c \in ArcCosts(Graph, u, t)
    BY <1>2, <2>2, ArcsAreConnections
  <2>4. SatAdd(dist[s][u], c) = dist[s][t]
    BY <1>13 DEF SatAdd
  <2>5. u \in Entrances(Graph, dist, s, t)
    BY <2>3, <2>4 DEF Entrances
  <2>6. p = TreeParent(Graph, dist, s, t)
    BY <1>6 DEF ParentOf
  <2>7. u # p => Better(dist[s][p], p, dist[s][u], u)
    BY <1>1, <2>5, <2>6, TreeParentIs
  <2>8. p \in Nat /\ u \in Nat
    BY NodesAreOrdered
  <2>9. u # p => Better(c, p, c, u)
    BY <1>7, <1>13, <2>7
  <2> QED BY <1>1, <2>8, <2>9 DEF Better
<1> QED BY <1>7, <1>11, <1>12, <1>13

\* Where paths are of two equal connections at most, both ends take the same one.
LEMMA ReachedOverTwoHops ==
    ASSUME Rested, SameLinks, TwoHops, net.kind = "Broadcast",
           NEW t \in net.listeners, Reachable(dist, src, t)
    PROVE  handled[t] > 0
<1>1. t \in Nodes /\ src \in Nodes /\ NetOK(net)
  BY DEF Rested, Ready, NetOK
<1>2. /\ \A u, v \in Nodes : dist[u][v] \in Nat
      /\ \A u, v \in Nodes : dist[u][v] = 0 <=> u = v
      /\ \A u, v \in Nodes : dist[u][v] = dist[v][u]
      /\ \A u, v \in Nodes : Reachable(dist, u, v) => Reachable(dist, v, u)
  BY DEF Rested, Metric
<1>3. handled[src] > 0
  BY DEF Rested, Quiet, Delivery
<1>4. PICK q : Leads(src, t, q)
  BY <1>1, HopLeads DEF Rested
<1>5. q \in Nodes /\ dist[src][t] = dist[src][q] + dist[q][t] /\ dist[src][q] > 0
  BY <1>4 DEF Leads
<1>6. PICK k \in Attached(net, src) : net.cost[k] = dist[src][q]
  BY <1>4 DEF Leads
<1>7. PICK c : c = net.cost[k]
  OBVIOUS
<1>8. AllCost(c) /\ dist[src][t] <= 2 * c /\ c = dist[src][q]
  <2>1. c \in Nat \ {0}
    BY <1>1, <1>2, <1>5, <1>6, <1>7
  <2>2. k \in Up(net)
    BY DEF Attached
  <2>3. (\A l \in Up(net) : net.cost[l] = c) /\ dist[src][t] <= 2 * c
    BY <1>1, <1>7, <2>2 DEF TwoHops
  <2> QED BY <1>6, <1>7, <2>1, <2>3 DEF AllCost
<1>9. c < MaxCost /\ c \in Nat \ {0}
  <2>1. \A x, y, z \in Nat : x = y + z /\ x < MaxCost => y < MaxCost
    BY MaxCostPositive
  <2> QED BY <1>1, <1>2, <1>5, <1>8, <2>1 DEF Reachable, AllCost
<1>10. ASSUME NEW n \in Nodes, dist[src][n] = c, NEW m \in net.listeners, Leads(src, m, n),
              Reachable(dist, src, m)
       PROVE  handled[n] > 0
  <2>1. Leads(n, src, src)
    BY <1>1, <1>2, <1>8, <1>9, <1>10, OneHop
  <2>2. hop[src][m] \in fib[src].remote /\ m \in Nodes
    BY <1>1, <1>10, BroadcastEntry DEF NetOK
  <2> QED BY <1>1, <1>3, <1>10, <2>1, <2>2, PassedOn
<1>11. handled[q] > 0
  BY <1>4, <1>5, <1>8, <1>10
<1>12. CASE q = t
  BY <1>11, <1>12
<1>13. CASE q # t
  <2>1. dist[q][t] = c
    <3>1. dist[q][t] # 0 /\ Reachable(dist, q, t)
      <4>1. \A x, y, z \in Nat : x = y + z /\ x < MaxCost => z < MaxCost
        BY MaxCostPositive
      <4> QED BY <1>1, <1>2, <1>5, <1>13, <4>1 DEF Reachable
    <3>2. PICK r : Leads(q, t, r)
      BY <1>1, <1>5, <3>1, HopLeads DEF Rested
    <3>3. r \in Nodes /\ dist[q][t] = dist[q][r] + dist[r][t] /\ dist[q][r] = c
      BY <1>1, <1>5, <1>8, <3>2, HopCosts DEF Leads
    <3>4. \A w, x, y \in Nat : w = c + x /\ w <= 2 * c /\ x = c + y => x = c
      BY <1>9
    <3> QED BY <1>1, <1>2, <1>5, <1>8, <3>3, <3>4
  <2>2. dist[src][t] = c + c /\ dist[t][src] = c + c /\ c + c < MaxCost
    BY <1>1, <1>2, <1>5, <1>8, <2>1 DEF Reachable
  <2>3. PICK p \in Nodes : /\ Leads(src, t, p) /\ dist[src][p] = c /\ dist[p][t] = c
                           /\ \A u \in Nodes : dist[src][u] = c /\ dist[u][t] = c => p <= u
    BY <1>1, <1>8, <2>2, HalfWay
  <2>4. PICK r \in Nodes : /\ Leads(t, src, r) /\ dist[t][r] = c /\ dist[r][src] = c
                           /\ \A u \in Nodes : dist[t][u] = c /\ dist[u][src] = c => r <= u
    BY <1>1, <1>8, <2>2, HalfWay
  <2>5. p = r
    <3>1. p <= r /\ r <= p
      BY <1>1, <1>2, <2>3, <2>4
    <3>2. p \in Nat /\ r \in Nat
      BY NodesAreOrdered
    <3> QED BY <3>1, <3>2
  <2>6. handled[p] > 0
    BY <1>10, <2>3
  <2>7. Leads(p, t, t)
    BY <1>1, <1>8, <1>9, <2>3, OneHop
  <2>8. hop[p][t] \in fib[p].remote
    <3>1. dist[p][t] < MaxCost /\ p # t
      BY <1>1, <1>2, <1>9, <2>3
    <3> QED BY <3>1, BroadcastEntry DEF Reachable
  <2> QED BY <1>1, <2>4, <2>5, <2>6, <2>7, <2>8, PassedOn
<1> QED BY <1>12, <1>13

\* What is needed to know that a packet is at rest.
DeliveryInv == IInv /\ OneInv /\ HopInv /\ FibInv /\ Delivery

\* It always holds.
LEMMA DeliveryInvariant == Spec => []DeliveryInv
<1>1. Init => FibInv
  BY DEF Init, FibInv
<1>2. Init => DeliveryInv
  BY <1>1, InitHolds, InitOneInv, InitHopInv, InitDelivery DEF DeliveryInv
<1>3. DeliveryInv /\ [Next]_vars => DeliveryInv'
  BY NextKeepsIInv, NextKeepsOneInv, NextKeepsHopInv, NextKeepsFibInv, NextKeepsDelivery
     DEF DeliveryInv
<1> QED BY <1>2, <1>3, PTL DEF Spec

\* A quiet packet that could not be lost is at rest.
LEMMA QuietIsRested == DeliveryInv /\ Quiet /\ ~net.lossy => Rested
<1> SUFFICES ASSUME DeliveryInv, Quiet, ~net.lossy PROVE Rested
  OBVIOUS
<1>1. Ready
  BY SentIsReady DEF DeliveryInv, Quiet
<1> QED BY <1>1, DistancesAreMetric DEF Rested, DeliveryInv

\* In every network that loses nothing and has unique shortest paths, or short
\* ones of equal connections, send and forward bring a broadcast to exactly the
\* listeners that its source has a path to.
THEOREM BroadcastsArrive == Spec => []BroadcastOverAgreedPaths
<1>1. DeliveryInv => BroadcastOverAgreedPaths
  <2> SUFFICES ASSUME DeliveryInv, ~net.lossy, SameLinks, UniquePaths \/ TwoHops,
                      Quiet, net.kind = "Broadcast"
               PROVE  Receivers = Connected
    BY DEF BroadcastOverAgreedPaths, BroadcastReachesAll
  <2>1. Rested
    BY QuietIsRested
  <2>2. Receivers \subseteq Connected
    BY <2>1, ReceiversAreConnected
  <2>3. ASSUME NEW t \in Connected PROVE t \in Receivers
    <3>1. t \in net.listeners /\ (t = src \/ Reachable(dist, src, t))
      BY DEF Connected
    <3>2. t \in Nodes
      BY <2>1, <3>1 DEF Rested, Ready, NetOK
    <3>3. handled[src] > 0
      BY <2>1 DEF Rested, Quiet, Delivery
    <3>4. handled[t] > 0
      BY <2>1, <3>1, <3>3, ReachedOverUniquePaths, ReachedOverTwoHops
    <3>5. fib[t].local
      BY <2>1, <3>1, <3>2, BroadcastEntry
    <3> QED BY <3>2, <3>4, <3>5 DEF Receivers
  <2> QED BY <2>2, <2>3
<1> QED BY <1>1, DeliveryInvariant, PTL

-----------------------------------------------------------------------------
(* Anycast and unicast packets.                                            *)

\* A listener's total cost at a node, also a local one's.
LEMMA TotalIs ==
    ASSUME Rested, NEW n \in Nodes, NEW t \in net.listeners
    PROVE  /\ AnycastTotal(n, t) = SatAdd(net.price[t], dist[n][t])
           /\ AnycastTotal(n, t) \in 0..MaxCost /\ AnycastTotal(n, t) \in Nat
           /\ net.price[t] \in 0..MaxCost /\ t \in Nodes
<1>1. t \in Nodes /\ net.price[t] \in 0..MaxCost
  BY DEF Rested, Ready, NetOK
<1>2. dist[n][t] \in 0..MaxCost /\ (t = n => dist[n][t] = 0)
  BY <1>1 DEF Rested, Metric
<1>3. \A x \in 0..MaxCost : SatAdd(x, 0) = x
  BY MaxCostPositive DEF SatAdd
<1>4. \A x, y \in 0..MaxCost : SatAdd(x, y) \in 0..MaxCost /\ SatAdd(x, y) \in Nat
  BY MaxCostPositive DEF SatAdd
<1>5. AnycastTotal(n, t) = SatAdd(net.price[t], dist[n][t])
  BY <1>1, <1>2, <1>3 DEF AnycastTotal
<1> QED BY <1>1, <1>2, <1>4, <1>5

\* The usable routes lead to the listeners that are there or reachable.
LEMMA UsableIs ==
    ASSUME Rested, NEW n \in Nodes
    PROVE  Usable(hop[n], n) = {t \in net.listeners : t = n \/ Reachable(dist, n, t)}
<1> SUFFICES ASSUME NEW t \in net.listeners PROVE hop[n][t] # NoConn <=> Reachable(dist, n, t)
  BY DEF Usable
<1>1. t \in Nodes
  BY DEF Rested, Ready, NetOK
<1>2. CASE Reachable(dist, n, t)
  <2>1. PICK p : Leads(n, t, p)
    BY <1>1, <1>2, HopLeads DEF Rested
  <2> QED BY <1>2, <2>1, NoConnIsNone DEF Leads, Attached, Up
<1>3. CASE ~Reachable(dist, n, t)
  BY <1>1, <1>3, HopLeads DEF Rested
<1> QED BY <1>2, <1>3

\* If there is one, a node chooses a usable route of the least total, and its
\* entry is that route.
LEMMA ChosenIs ==
    ASSUME Rested, net.kind # "Broadcast", NEW n \in Nodes, Usable(hop[n], n) # {}
    PROVE  \E t \in Usable(hop[n], n) :
              /\ \A u \in Usable(hop[n], n) : AnycastTotal(n, t) <= AnycastTotal(n, u)
              /\ t = n => fib[n].local
              /\ t # n => hop[n][t] \in fib[n].remote
<1> DEFINE E == Usable(hop[n], n)
<1>1. E \subseteq net.listeners
  BY DEF Usable
<1>2. PICK K : K = [t \in E |-> AnycastTotal(n, t)]
  OBVIOUS
<1>3. PICK R : R = [t \in E |-> net.rank[n][t]]
  OBVIOUS
<1>4. \A t \in E : AnycastTotal(n, t) \in Nat /\ t \in Nodes
  BY <1>1, TotalIs
<1>5. NetOK(net)
  BY DEF Rested, Ready
<1>6. \A t \in E : net.rank[n][t] \in Nat
  BY <1>4, <1>5 DEF NetOK
<1>7. \A t, u \in E : net.rank[n][t] = net.rank[n][u] => t = u
  BY <1>4, <1>5 DEF NetOK
<1>8. Chosen(hop[n], n) = CHOOSE t \in E : \A u \in E \ {t} :
         Better(AnycastTotal(n, t), net.rank[n][t], AnycastTotal(n, u), net.rank[n][u])
  BY DEF Chosen
<1>9. E # {}
  OBVIOUS
<1>10. SingleEntry(hop[n], n) = [local |-> n \in {t \in E : t = Chosen(hop[n], n)},
                                 remote |-> {hop[n][t] : t \in {u \in E : u = Chosen(hop[n], n)} \ {n}}]
  BY DEF SingleEntry
<1> HIDE DEF E
<1>11. K \in [E -> Nat] /\ R \in [E -> Nat] /\ \A t, u \in E : R[t] = R[u] => t = u
  BY <1>2, <1>3, <1>4, <1>6, <1>7
<1>12. PICK x \in E : \A v \in E \ {x} : Better(K[x], R[x], K[v], R[v])
  BY <1>9, <1>11, BestExists
<1>13. \A u \in E \ {x} :
         Better(AnycastTotal(n, x), net.rank[n][x], AnycastTotal(n, u), net.rank[n][u])
  BY <1>2, <1>3, <1>12
<1>14. PICK t : t = Chosen(hop[n], n)
  OBVIOUS
<1>15. /\ t \in E
       /\ \A u \in E \ {t} :
            Better(AnycastTotal(n, t), net.rank[n][t], AnycastTotal(n, u), net.rank[n][u])
  BY <1>8, <1>13, <1>14
<1>16. \A u \in E : AnycastTotal(n, t) <= AnycastTotal(n, u)
  <2>1. \A a, b \in Nat : \A r, s : Better(a, r, b, s) => a <= b
    BY DEF Better
  <2>2. \A a \in Nat : a <= a
    OBVIOUS
  <2> QED BY <1>4, <1>15, <2>1, <2>2
<1>17. fib[n] = SingleEntry(hop[n], n)
  BY DEF Rested, Ready, FibEntryOf
<1>18. (t = n => fib[n].local) /\ (t # n => hop[n][t] \in fib[n].remote)
  <2>1. PICK to : to = {u \in E : u = Chosen(hop[n], n)}
    OBVIOUS
  <2>2. t \in to
    BY <1>14, <1>15, <2>1
  <2>3. fib[n].local = (n \in to) /\ fib[n].remote = {hop[n][u] : u \in to \ {n}}
    BY <1>10, <1>17, <2>1
  <2> QED BY <2>2, <2>3
<1> QED BY <1>15, <1>16, <1>18 DEF E

\* Node p handled the packet; the listener t that it chooses is beyond p on a
\* shortest path from the source, and of the least total there.
Bound(p, t) ==
    /\ p \in Nodes /\ handled[p] > 0
    /\ t \in Connected
    /\ Between(src, p, t)
    /\ \A u \in Connected : AnycastTotal(src, t) <= AnycastTotal(src, u)
    /\ t = p => fib[p].local
    /\ t # p => hop[p][t] \in fib[p].remote

\* The source's choice is.
LEMMA SourceIsBound ==
    ASSUME Rested, net.kind # "Broadcast", Connected # {}
    PROVE  \E t : Bound(src, t)
<1>1. src \in Nodes /\ handled[src] > 0
  BY DEF Rested, Ready, Quiet, Delivery
<1>2. Usable(hop[src], src) = Connected
  BY <1>1, UsableIs DEF Connected
<1>3. PICK t \in Connected :
         /\ \A u \in Connected : AnycastTotal(src, t) <= AnycastTotal(src, u)
         /\ t = src => fib[src].local
         /\ t # src => hop[src][t] \in fib[src].remote
  BY <1>1, <1>2, ChosenIs
<1>4. Between(src, src, t)
  <2>1. t \in Nodes
    BY <1>1, TotalIs DEF Connected
  <2>2. dist[src][src] = 0 /\ dist[src][t] \in Nat
    BY <1>1, <2>1 DEF Rested, Metric
  <2>3. \A x \in Nat : x = 0 + x
    OBVIOUS
  <2> QED BY <2>2, <2>3 DEF Between
<1>5. Bound(src, t)
  BY <1>1, <1>3, <1>4 DEF Bound
<1> QED BY <1>5

\* What the next node chooses is as good: a listener that is closer to it than t
\* would have been closer to the source.
LEMMA ChoiceAgrees ==
    ASSUME Rested, net.kind # "Broadcast", HasChoice,
           NEW p, NEW t, Bound(p, t), t # src,
           NEW n \in Nodes, handled[n] > 0, Between(src, n, t)
    PROVE  \E u : Bound(n, u)
<1>1. /\ \A u, v \in Nodes : dist[u][v] \in 0..MaxCost /\ dist[u][v] \in Nat
      /\ \A u, v \in Nodes : dist[u][v] = 0 <=> u = v
      /\ \A u, v, w \in Nodes : dist[u][v] <= SatAdd(dist[u][w], dist[w][v])
      /\ src \in Nodes /\ NetOK(net)
  BY DEF Rested, Metric, Ready
<1>2. /\ t \in Connected /\ t \in net.listeners /\ Reachable(dist, src, t)
      /\ \A u \in Connected : AnycastTotal(src, t) <= AnycastTotal(src, u)
  BY DEF Bound, Connected
<1>3. t \in Nodes /\ net.price[t] \in 0..MaxCost
  BY <1>1, <1>2, TotalIs
<1>4. t = n \/ Reachable(dist, n, t)
  <2>1. \A a, b, c \in Nat : a = b + c /\ a < MaxCost => c < MaxCost
    BY MaxCostPositive
  <2> QED BY <1>1, <1>2, <1>3, <2>1 DEF Between, Reachable
<1>5. t \in Usable(hop[n], n)
  BY <1>2, <1>4, UsableIs
<1>6. PICK u \in Usable(hop[n], n) :
              /\ \A v \in Usable(hop[n], n) : AnycastTotal(n, u) <= AnycastTotal(n, v)
              /\ u = n => fib[n].local
              /\ u # n => hop[n][u] \in fib[n].remote
  BY <1>5, ChosenIs
<1>7. u \in net.listeners /\ u \in Nodes /\ net.price[u] \in 0..MaxCost
  BY <1>1, <1>6, TotalIs DEF Usable
<1>8. CASE net.kind = "Unicast"
  <2>1. u = t
    <3>1. net.listeners \in SUBSET Nodes /\ Cardinality(net.listeners) <= 1
      BY <1>1, <1>8 DEF NetOK
    <3>2. IsFiniteSet(net.listeners)
      BY <3>1, NodesAreFinite, FS_Subset
    <3>3. {t, u} \in SUBSET net.listeners
      BY <1>2, <1>7
    <3>4. Cardinality({t, u}) <= Cardinality(net.listeners)
      BY <3>2, <3>3, FS_Subset
    <3>5. u # t => Cardinality({t, u}) = 2
      <4>1. Cardinality({t}) = 1 /\ IsFiniteSet({t})
        BY FS_Singleton
      <4>2. u \notin {t} => Cardinality({t} \cup {u}) = Cardinality({t}) + 1
        BY <4>1, FS_AddElement
      <4>3. {t} \cup {u} = {t, u}
        OBVIOUS
      <4> QED BY <4>1, <4>2, <4>3
    <3>6. Cardinality(net.listeners) \in Nat
      BY <3>2, FS_CardinalityType
    <3> QED BY <3>1, <3>4, <3>5, <3>6
  <2> QED BY <1>2, <1>6, <2>1 DEF Bound
<1>9. CASE net.kind # "Unicast"
  <2>1. AnycastTotal(src, t) < MaxCost
    <3>1. PICK v \in Connected : AnycastTotal(src, v) < MaxCost
      BY <1>9 DEF HasChoice
    <3>2. v \in net.listeners
      BY DEF Connected
    <3>3. AnycastTotal(src, t) \in Nat /\ AnycastTotal(src, v) \in Nat
      BY <1>1, <1>2, <3>2, TotalIs
    <3> QED BY <1>2, <3>1, <3>3, MaxCostPositive
  <2>2. PICK k, j, a, b, c, d, e \in 0..MaxCost :
           /\ k = net.price[t] /\ j = net.price[u]
           /\ a = dist[src][n] /\ b = dist[n][t] /\ c = dist[src][t]
           /\ d = dist[n][u] /\ e = dist[src][u]
    BY <1>1, <1>3, <1>7
  <2>3. /\ AnycastTotal(src, t) = SatAdd(k, c) /\ AnycastTotal(n, t) = SatAdd(k, b)
        /\ AnycastTotal(src, u) = SatAdd(j, e) /\ AnycastTotal(n, u) = SatAdd(j, d)
    BY <1>1, <1>2, <1>7, <2>2, TotalIs
  <2>4. SatAdd(j, d) <= SatAdd(k, b)
    BY <1>5, <1>6, <2>3
  <2>5. c = a + b /\ e <= SatAdd(a, d) /\ SatAdd(k, c) < MaxCost
    BY <1>1, <1>7, <2>1, <2>2, <2>3 DEF Between
  <2>6. k + c < MaxCost /\ j + d <= k + b /\ e <= a + d
    BY <2>4, <2>5, MaxCostPositive DEF SatAdd
  <2>7. e < MaxCost /\ SatAdd(j, e) <= SatAdd(k, c)
    BY <2>5, <2>6, MaxCostPositive DEF SatAdd
  <2>8. u \in Connected
    BY <1>1, <1>7, <2>2, <2>7 DEF Connected, Reachable
  <2>9. SatAdd(k, c) <= SatAdd(j, e)
    BY <1>2, <2>3, <2>8
  <2>10. SatAdd(j, e) = SatAdd(k, c) /\ e = a + d
    BY <2>5, <2>6, <2>7, <2>9, MaxCostPositive DEF SatAdd
  <2>11. Between(src, n, u)
    BY <2>2, <2>10 DEF Between
  <2>12. \A v \in Connected : AnycastTotal(src, u) <= AnycastTotal(src, v)
    BY <1>2, <2>3, <2>10
  <2> QED BY <1>6, <2>8, <2>11, <2>12 DEF Bound
<1> QED BY <1>8, <1>9

\* In every network that loses nothing and has unique shortest paths, a unicast or
\* anycast packet is received, once, by a listener of the least total cost as the
\* source sees it, although every node on the way chooses again: of the nodes
\* that handled it the one farthest from the source has chosen itself.
THEOREM ClosestIsServed == Spec => []ClosestServed
<1>1. DeliveryInv => ClosestServed
  <2> SUFFICES ASSUME DeliveryInv, ~net.lossy, SameLinks, UniquePaths,
                      Quiet, net.kind # "Broadcast", HasChoice
               PROVE  \E t \in Connected :
                         /\ Receivers = {t}
                         /\ \A u \in Connected : AnycastTotal(src, t) <= AnycastTotal(src, u)
    BY DEF ClosestServed
  <2>1. Rested
    BY QuietIsRested
  <2>2. src \in Nodes /\ \A u, v \in Nodes : dist[u][v] \in 0..MaxCost /\ dist[u][v] \in Nat
    BY <2>1 DEF Rested, Ready, Metric
  <2>3. \A x \in 0..MaxCost : MaxCost - x \in Nat
    BY MaxCostPositive
  <2>4. PICK D : D = {MaxCost - dist[src][p] : p \in {n \in Nodes : \E t : Bound(n, t)}}
    OBVIOUS
  <2>5. D \in SUBSET Nat
    BY <2>2, <2>3, <2>4
  <2>6. D # {}
    <3>1. Connected # {}
      BY DEF HasChoice
    <3>2. \E t : Bound(src, t)
      BY <2>1, <3>1, SourceIsBound
    <3> QED BY <2>2, <2>4, <3>2
  <2>7. PICK x \in D : \A y \in D : x <= y
    BY <2>5, <2>6, LeastNumber
  <2>8. PICK p \in Nodes : x = MaxCost - dist[src][p] /\ \E t : Bound(p, t)
    BY <2>4, <2>7
  <2>9. PICK t : Bound(p, t)
    BY <2>8
  <2>10. ASSUME t # p PROVE FALSE
    <3>1. t \in net.listeners /\ t \in Nodes
      BY <2>1, <2>2, <2>9, TotalIs DEF Bound, Connected
    <3>2. t # src
      <4>1. \A a, b \in Nat : 0 = a + b => b = 0
        OBVIOUS
      <4>2. dist[src][src] = 0 /\ (dist[p][src] = 0 => p = src)
        BY <2>1, <2>2 DEF Rested, Metric
      <4> QED BY <2>2, <2>9, <2>10, <4>1, <4>2 DEF Bound, Between
    <3>3. Reachable(dist, src, t)
      BY <2>9, <3>2 DEF Bound, Connected
    <3>4. PICK n \in Nodes : /\ handled[n] > 0 /\ Between(src, n, t)
                             /\ dist[src][p] < dist[src][n]
      BY <2>1, <2>9, <2>10, <3>1, <3>3, AlongThePath DEF Bound
    <3>5. \E u : Bound(n, u)
      BY <2>1, <2>9, <3>2, <3>4, ChoiceAgrees
    <3>6. MaxCost - dist[src][n] \in D
      BY <2>4, <3>5
    <3>7. x <= MaxCost - dist[src][n]
      BY <2>7, <3>6
    <3> QED BY <2>2, <2>8, <3>4, <3>7, MaxCostPositive
  <2>11. p \in Receivers /\ p \in Connected
         /\ \A u \in Connected : AnycastTotal(src, p) <= AnycastTotal(src, u)
    BY <2>9, <2>10 DEF Bound, Receivers
  <2>12. \A n, m \in Receivers : n = m
    BY <2>1 DEF Rested, OneInv, OneCopy
  <2>13. Receivers = {p}
    BY <2>11, <2>12
  <2> QED BY <2>11, <2>13
<1> QED BY <1>1, DeliveryInvariant, PTL
=============================================================================
