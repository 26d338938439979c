--------------------------- MODULE LocalBus_proofs ---------------------------
(***************************************************************************)
(* Proofs about LocalBus for any number of listeners, endpoints and        *)
(* senders and any channel capacities.                                     *)
(***************************************************************************)
EXTENDS LocalBus, Routing_proofs

USE DEF Open

-----------------------------------------------------------------------------
(* Facts about the parts of the state.                                     *)

\* A message that names a listener names one of Channels, and a request for a
\* cost carries one of Costs.
LEMMA RouterMsgFields ==
    ASSUME NEW m \in RouterMsg
    PROVE  /\ m.type \in {"RegisterEndpoint", "DeadLink", "SetAnycastCost"} => m.ch \in Channels
           /\ m.type = "SetAnycastCost" => m.cost \in Costs
BY DEF RouterMsg, ShutdownMsg

\* What a listener asks for is an endpoint and an EndpointInfo.
LEMMA RequestFields ==
    ASSUME NEW r \in Requests
    PROVE  /\ r.ep \in Endpoints
           /\ r.info \in EndpointInfo
           /\ r.info.kind \in Kinds
           /\ r.info.cost \in Nat
<1>1. r \in [ep : Endpoints, info : EndpointInfo]
  BY RequestsTyped
<1>2. r.ep \in Endpoints /\ r.info \in EndpointInfo
  BY <1>1
<1> QED
  BY <1>2 DEF EndpointInfo

\* What the bus puts into the broker channel are router messages.
LEMMA RouterMsgMembers ==
    /\ ShutdownMsg \in RouterMsg
    /\ \A c \in Channels : RegisterEndpointMsg(c) \in RouterMsg
    /\ \A c \in Channels : DeadLinkMsg(c) \in RouterMsg
    /\ \A c \in Channels : \A k \in Costs : SetAnycastCostMsg(c, k) \in RouterMsg
BY DEF RouterMsg, ShutdownMsg, RegisterEndpointMsg, DeadLinkMsg, SetAnycastCostMsg

\* A message is appended to the broker channel only where there is room.
LEMMA EnqueueType ==
    ASSUME NEW q \in Seq(RouterMsg), Len(q) < BrokerCap, NEW m \in RouterMsg
    PROVE  Append(q, m) \in Seq(RouterMsg) /\ Len(Append(q, m)) <= BrokerCap
<1>1. Append(q, m) \in Seq(RouterMsg) /\ Len(Append(q, m)) = Len(q) + 1
  OBVIOUS
<1>2. BrokerCap \in Nat /\ Len(q) \in Nat
  BY BoundsTyped
<1> QED BY <1>1, <1>2

\* try_send keeps mailboxes within their type and capacity and changes only the
\* mailbox it is given.
LEMMA TrySendResult ==
    ASSUME NEW mb \in [Channels -> Seq(ClientMessage)],
           \A c \in Channels : Len(mb[c]) <= MailboxCap,
           NEW d \in Channels, NEW m \in ClientMessage
    PROVE  LET mb1 == TrySend(mb, d, m)
           IN  /\ mb1 \in [Channels -> Seq(ClientMessage)]
               /\ \A c \in Channels : Len(mb1[c]) <= MailboxCap
               /\ \A c \in Channels : c # d => mb1[c] = mb[c]
<1>1. MailboxCap \in Nat
  BY BoundsTyped
<1>2. CASE Open(d) /\ Len(mb[d]) < MailboxCap
  <2>1. TrySend(mb, d, m) = [mb EXCEPT ![d] = Append(@, m)]
    BY <1>2 DEF TrySend
  <2>2. Append(mb[d], m) \in Seq(ClientMessage) /\ Len(Append(mb[d], m)) = Len(mb[d]) + 1
    OBVIOUS
  <2>3. Len(mb[d]) \in Nat
    OBVIOUS
  <2> QED
    BY <1>1, <1>2, <2>1, <2>2, <2>3
<1>3. CASE ~(Open(d) /\ Len(mb[d]) < MailboxCap)
  <2>1. TrySend(mb, d, m) = mb
    BY <1>3 DEF TrySend
  <2> QED BY <2>1
<1> QED BY <1>2, <1>3

\* A try_send to a listener of a well-typed state leaves mailboxes well typed.
LEMMA TrySendType ==
    ASSUME TypeOK, NEW d \in Channels, NEW m \in ClientMessage
    PROVE  /\ TrySend(mailbox, d, m) \in [Channels -> Seq(ClientMessage)]
           /\ \A c \in Channels : Len(TrySend(mailbox, d, m)[c]) <= MailboxCap
<1>1. /\ mailbox \in [Channels -> Seq(ClientMessage)]
      /\ \A c \in Channels : Len(mailbox[c]) <= MailboxCap
  BY DEF TypeOK
<1> QED BY <1>1, TrySendResult

\* Nor does a message to several listeners.
LEMMA SendAllType ==
    ASSUME TypeOK, NEW targets, NEW m \in ClientMessage
    PROVE  /\ SendAll(targets, m) \in [Channels -> Seq(ClientMessage)]
           /\ \A c \in Channels : Len(SendAll(targets, m)[c]) <= MailboxCap
<1>1. /\ mailbox \in [Channels -> Seq(ClientMessage)]
      /\ \A c \in Channels : Len(mailbox[c]) <= MailboxCap
  BY DEF TypeOK
<1>2. ASSUME NEW c \in Channels
      PROVE  /\ SendAll(targets, m)[c] \in Seq(ClientMessage)
             /\ Len(SendAll(targets, m)[c]) <= MailboxCap
  <2>1. \/ SendAll(targets, m)[c] = mailbox[c]
        \/ SendAll(targets, m)[c] = TrySend(mailbox, c, m)[c]
    BY DEF SendAll
  <2>2. /\ TrySend(mailbox, c, m)[c] \in Seq(ClientMessage)
        /\ Len(TrySend(mailbox, c, m)[c]) <= MailboxCap
    BY TrySendType
  <2> QED BY <1>1, <2>1, <2>2
<1>3. SendAll(targets, m) = [c \in Channels |-> SendAll(targets, m)[c]]
  BY DEF SendAll
<1> QED
  BY <1>2, <1>3

\* The rebuilt forwarding table has the type of one.
LEMMA BuildFibType ==
    ASSUME table \in [Endpoints -> LsRouteEntry], NEW f, BuildFib(f)
    PROVE  f \in [Endpoints -> FibEntry]
<1>1. PICK pick \in [Endpoints -> Channels] :
         f = [e \in Endpoints |-> FibEntryOf(table[e], pick[e])]
  BY DEF BuildFib
<1>2. ASSUME NEW e \in Endpoints PROVE FibEntryOf(table[e], pick[e]) \in FibEntry
  <2>1. Targets(table[e]) \subseteq Channels
    BY LocalOnly DEF Targets, LsRouteEntry, LsRoute
  <2> QED BY <2>1 DEF FibEntryOf, FibEntry, NoFib
<1> QED BY <1>1, <1>2
-----------------------------------------------------------------------------
(* Type correctness.                                                       *)

\* The bus starts well typed.
LEMMA InitTypeOK == Init => TypeOK
<1> SUFFICES ASSUME Init PROVE TypeOK
  OBVIOUS
<1>1. NoEntry \in LsRouteEntry /\ NoFib \in FibEntry
  BY DEF NoEntry, LsRouteEntry, NoFib, FibEntry
<1>2. \A c \in Channels : req[c].info.cost \in Nat
  BY RequestFields DEF Init
<1>3. pc \in [Channels -> PcStates] /\ cost \in [Channels -> Nat]
  BY <1>2 DEF Init, PcStates
<1>4. /\ mailbox \in [Channels -> Seq(ClientMessage)]
      /\ \A c \in Channels : Len(mailbox[c]) <= MailboxCap
  BY BoundsTyped DEF Init
<1>5. queue \in Seq(RouterMsg) /\ Len(queue) <= BrokerCap /\ sends \in 0..MaxSends
  BY BoundsTyped DEF Init
<1> QED
  BY <1>1, <1>3, <1>4, <1>5 DEF Init, TypeOK

\* Every step of a listener, a sender, a spawned task or the router keeps the
\* state well typed; no channel grows past its capacity.
LEMMA NextTypeOK == TypeOK /\ [Next]_vars => TypeOK'
<1> SUFFICES ASSUME TypeOK, [Next]_vars PROVE TypeOK'
  OBVIOUS
<1> USE DEF TypeOK, routerVars
<1>1. ASSUME NEW c \in Channels, Register(c) PROVE TypeOK'
  <2>1. pc' \in [Channels -> PcStates]
    BY <1>1 DEF Register, PcStates
  <2>2. queue' \in Seq(RouterMsg) /\ Len(queue') <= BrokerCap
    BY <1>1, RouterMsgMembers, EnqueueType DEF Register
  <2>3. /\ mailbox' \in [Channels -> Seq(ClientMessage)]
        /\ \A d \in Channels : Len(mailbox'[d]) <= MailboxCap
    BY <1>1, BoundsTyped DEF Register
  <2> QED
    BY <1>1, <2>1, <2>2, <2>3 DEF Register
<1>2. ASSUME NEW c \in Channels, WaitForRegistration(c) PROVE TypeOK'
  <2>1. Len(Tail(mailbox[c])) <= MailboxCap /\ Tail(mailbox[c]) \in Seq(ClientMessage)
    BY <1>2, BoundsTyped DEF WaitForRegistration
  <2>2. pc' \in [Channels -> PcStates]
    BY <1>2 DEF WaitForRegistration, PcStates
  <2>3. /\ mailbox' \in [Channels -> Seq(ClientMessage)]
        /\ \A d \in Channels : Len(mailbox'[d]) <= MailboxCap
    <3>1. \/ mailbox' = [mailbox EXCEPT ![c] = Tail(@)]
          \/ mailbox' = [mailbox EXCEPT ![c] = <<>>]
      BY <1>2 DEF WaitForRegistration
    <3>2. <<>> \in Seq(ClientMessage) /\ Len(<<>>) <= MailboxCap
      BY BoundsTyped
    <3> QED
      BY <2>1, <3>1, <3>2
  <2>4. spawned' \subseteq RouterMsg
    BY <1>2, RouterMsgMembers DEF WaitForRegistration
  <2> QED
    BY <1>2, <2>2, <2>3, <2>4 DEF WaitForRegistration
<1>4. ASSUME NEW c \in Channels, Receive(c) PROVE TypeOK'
  <2>1. Len(Tail(mailbox[c])) <= MailboxCap /\ Tail(mailbox[c]) \in Seq(ClientMessage)
    BY <1>4, BoundsTyped DEF Receive
  <2> QED
    BY <1>4, <2>1 DEF Receive, PcStates
<1>5. ASSUME NEW c \in Channels, NEW k \in Costs, SetCost(c, k) PROVE TypeOK'
  BY <1>5, RouterMsgMembers, BoundsTyped DEF SetCost, PcStates
<1>6. ASSUME NEW c \in Channels, DropReceiver(c) PROVE TypeOK'
  BY <1>6, RouterMsgMembers DEF DropReceiver, PcStates
<1>7. ASSUME NEW c \in Channels, CloseChannel(c) PROVE TypeOK'
  BY <1>7, BoundsTyped DEF CloseChannel, PcStates
<1>8. ASSUME NEW m \in spawned, BrokerSend(m) PROVE TypeOK'
  <2>1. queue' \in Seq(RouterMsg) /\ Len(queue') <= BrokerCap
    BY <1>8, EnqueueType DEF BrokerSend
  <2> QED
    BY <1>8, <2>1 DEF BrokerSend
<1>9. CASE Shutdown
  <2>1. "Message" \in ClientMessage
    BY DEF ClientMessage
  <2>2. /\ mailbox' \in [Channels -> Seq(ClientMessage)]
        /\ \A d \in Channels : Len(mailbox'[d]) <= MailboxCap
    BY <1>9, <2>1, SendAllType DEF Shutdown
  <2> QED
    BY <1>9, <2>2, RouterMsgMembers DEF Shutdown
<1>10. ASSUME NEW s \in Senders, NEW e \in Endpoints, LoadFib(s, e) PROVE TypeOK'
  BY <1>10, BoundsTyped DEF LoadFib, FibEntry
<1>11. ASSUME NEW s \in Senders, NEW c \in Channels, Deliver(s, c) PROVE TypeOK'
  BY <1>11, TrySendResult DEF Deliver, ClientMessage
<1>12. CASE HandleRegisterEndpoint
  <2> DEFINE c == Head(queue).ch
             add == AddEndpoint(table[Ep(c)], req[c].info, c)
  <2>1. Head(queue) \in RouterMsg /\ Tail(queue) \in Seq(RouterMsg) /\ Len(Tail(queue)) <= BrokerCap
    BY <1>12, BoundsTyped DEF HandleRegisterEndpoint, Receives
  <2>2. c \in Channels
    BY <1>12, <2>1, RouterMsgFields DEF HandleRegisterEndpoint, Receives
  <2>3. table[Ep(c)] \in LsRouteEntry /\ req[c].info \in EndpointInfo
    BY <2>2, RequestFields DEF Ep
  <2>4. add.entry \in LsRouteEntry
    BY <2>2, <2>3, AddEndpointType
  <2>5. table' \in [Endpoints -> LsRouteEntry]
    BY <1>12, <2>4 DEF HandleRegisterEndpoint
  <2>6. /\ mailbox' \in [Channels -> Seq(ClientMessage)]
        /\ \A d \in Channels : Len(mailbox'[d]) <= MailboxCap
    <3>1. mailbox' = mailbox \/ mailbox' = TrySend(mailbox, c, "FailedRegistration")
      BY <1>12 DEF HandleRegisterEndpoint
    <3>2. "FailedRegistration" \in ClientMessage
      BY DEF ClientMessage
    <3> HIDE DEF c
    <3> QED
      BY <2>2, <3>1, <3>2, TrySendType
  <2>7. notify' \subseteq Channels /\ router' \in {"Listen", "RouteChange", "Notify", "Stopped"}
    BY <1>12, <2>2 DEF HandleRegisterEndpoint
  <2> QED
    BY <1>12, <2>1, <2>5, <2>6, <2>7 DEF HandleRegisterEndpoint
<1>13. CASE HandleDeadLink
  <2> DEFINE e == Ep(Head(queue).ch)
  <2>1. Head(queue) \in RouterMsg /\ Tail(queue) \in Seq(RouterMsg) /\ Len(Tail(queue)) <= BrokerCap
    BY <1>13, BoundsTyped DEF HandleDeadLink, Receives
  <2>2. Head(queue).ch \in Channels
    BY <1>13, <2>1, RouterMsgFields DEF HandleDeadLink, Receives
  <2>3. table[e] \in LsRouteEntry
    BY <2>2, RequestFields DEF Ep
  <2>4. RemoveEndpoint(table[e], Closed).entry \in LsRouteEntry
    BY <2>3, RemoveEndpointResult
  <2>5. table' \in [Endpoints -> LsRouteEntry]
    BY <1>13, <2>4 DEF HandleDeadLink
  <2> QED
    BY <1>13, <2>1, <2>5 DEF HandleDeadLink
<1>14. CASE HandleSetAnycastCost
  <2> DEFINE c == Head(queue).ch
             k == Head(queue).cost
             set == SetAnycastCost(table[Ep(c)], c, k)
  <2>1. Head(queue) \in RouterMsg /\ Tail(queue) \in Seq(RouterMsg) /\ Len(Tail(queue)) <= BrokerCap
    BY <1>14, BoundsTyped DEF HandleSetAnycastCost, Receives
  <2>2. c \in Channels /\ k \in Nat
    BY <1>14, <2>1, RouterMsgFields, BoundsTyped DEF HandleSetAnycastCost, Receives
  <2>3. table[Ep(c)] \in LsRouteEntry
    BY <2>2, RequestFields DEF Ep
  <2>4. set.entry \in LsRouteEntry
    BY <2>2, <2>3, SetAnycastCostResult
  <2>5. table' \in [Endpoints -> LsRouteEntry]
    BY <1>14, <2>4 DEF HandleSetAnycastCost
  <2>6. pc' \in [Channels -> PcStates] /\ cost' \in [Channels -> Nat]
    BY <1>14, <2>2 DEF HandleSetAnycastCost, PcStates
  <2>7. router' \in {"Listen", "RouteChange", "Notify", "Stopped"}
    BY <1>14 DEF HandleSetAnycastCost
  <2> QED
    BY <1>14, <2>1, <2>5, <2>6, <2>7 DEF HandleSetAnycastCost
<1>15. CASE HandleShutdown
  <2>1. /\ mailbox' \in [Channels -> Seq(ClientMessage)]
        /\ \A d \in Channels : Len(mailbox'[d]) <= MailboxCap
    <3>1. "Shutdown" \in ClientMessage
      BY DEF ClientMessage
    <3> QED
      BY <1>15, <3>1, SendAllType DEF HandleShutdown
  <2>2. pc' \in [Channels -> PcStates]
    BY <1>15 DEF HandleShutdown, PcStates
  <2>3. table' \in [Endpoints -> LsRouteEntry]
    BY <1>15 DEF HandleShutdown, NoEntry, LsRouteEntry
  <2>4. queue' \in Seq(RouterMsg) /\ Len(queue') <= BrokerCap
    BY <1>15, BoundsTyped DEF HandleShutdown
  <2> QED
    BY <1>15, <2>1, <2>2, <2>3, <2>4 DEF HandleShutdown
<1>16. CASE RouteChange
  BY <1>16, BuildFibType DEF RouteChange
<1>17. CASE Notify
  <2>1. PICK c \in notify : mailbox' = TrySend(mailbox, c, "SuccessfulRegistration")
    BY <1>17 DEF Notify
  <2>2. /\ mailbox' \in [Channels -> Seq(ClientMessage)]
        /\ \A d \in Channels : Len(mailbox'[d]) <= MailboxCap
    BY <2>1, TrySendResult DEF ClientMessage
  <2> QED
    BY <1>17, <2>2 DEF Notify
<1>18. CASE UNCHANGED vars
  BY <1>18 DEF vars
<1> QED
  BY <1>1, <1>2, <1>4, <1>5, <1>6, <1>7, <1>8, <1>9, <1>10, <1>11, <1>12,
     <1>13, <1>14, <1>15, <1>16, <1>17, <1>18
     DEF Next, RouterNext, ListenerNext, SenderNext

\* Every reachable state of the bus is well typed.
THEOREM TypeCorrect == Spec => []TypeOK
<1>1. Init => TypeOK
  BY InitTypeOK
<1>2. TypeOK /\ [Next]_vars => TypeOK'
  BY NextTypeOK
<1> QED
  BY <1>1, <1>2, PTL DEF Spec

-----------------------------------------------------------------------------
(* Exclusive registration and reachability.                                *)

\* A step that leaves the router's tables, its state and the requests alone
\* and makes no new holder keeps the invariant: the steps of listeners,
\* senders and spawned tasks.
LEMMA HoldersFrame ==
    ASSUME IInv, TypeOK', UNCHANGED <<req, table, fib, router, notify>>,
           \A c \in Channels : Holds(c)' => Holds(c)
    PROVE  IInv'
<1>1. TableConsistent' /\ NotifyConsistent'
  BY DEF IInv, TableConsistent, NotifyConsistent, InTable, InFib, Ep, Kind, Targets
<1>2. HoldersInTable'
  BY DEF IInv, HoldersInTable, InTable, Ep, Targets
<1>3. HoldersInFib'
  BY DEF IInv, HoldersInFib, InFib, Ep, Kind
<1>4. HoldersCompatible'
  BY DEF IInv, HoldersCompatible, Ep, Kind
<1> QED
  BY <1>1, <1>2, <1>3, <1>4 DEF IInv

\* Two listeners with a route in the table on the same endpoint are of the same
\* kind, and that kind is not unicast.
LEMMA TableExclusive ==
    ASSUME TypeOK, TableConsistent,
           NEW c \in Channels, NEW d \in Channels, c # d,
           InTable(c), InTable(d), Ep(c) = Ep(d)
    PROVE  Kind(c) = Kind(d) /\ Kind(c) # "Unicast"
<1>1. Ep(c) \in Endpoints
  BY RequestFields DEF TypeOK, Ep
<1>2. PICK r \in table[Ep(c)].routes : r.via = c
  BY DEF InTable, Targets
<1>3. PICK q \in table[Ep(c)].routes : q.via = d
  BY DEF InTable, Targets
<1> QED
  BY <1>1, <1>2, <1>3 DEF TableConsistent

\* A rebuilt forwarding table reaches every listener that has a route.
LEMMA BuildFibReaches ==
    ASSUME TypeOK, TableConsistent, NEW f, BuildFib(f),
           NEW c \in Channels, InTable(c)
    PROVE  /\ Kind(c) = "Unicast" => f[Ep(c)].to = {c}
           /\ Kind(c) = "Broadcast" => c \in f[Ep(c)].to
           /\ Kind(c) = "Anycast" => f[Ep(c)].to # {}
<1> DEFINE entry == table[Ep(c)]
<1>1. Ep(c) \in Endpoints
  BY RequestFields DEF TypeOK, Ep
<1>2. PICK r \in entry.routes : r.via = c
  BY DEF InTable, Targets
<1>3. entry.kind = Kind(c)
  BY <1>1, <1>2 DEF TableConsistent
<1>4. PICK pick \in [Endpoints -> Channels] :
         /\ pick[Ep(c)] \in {q.via : q \in Cheapest(entry.routes)}
         /\ f[Ep(c)] = FibEntryOf(entry, pick[Ep(c)])
  BY <1>1, <1>2 DEF BuildFib
<1>5. CASE Kind(c) = "Broadcast"
  <2>1. f[Ep(c)].to = Targets(entry)
    BY <1>2, <1>3, <1>4, <1>5 DEF FibEntryOf
  <2> QED BY <1>5, <2>1 DEF InTable
<1>6. CASE Kind(c) # "Broadcast"
  <2>1. f[Ep(c)].to = {pick[Ep(c)]}
    BY <1>2, <1>3, <1>4, <1>6 DEF FibEntryOf
  <2>2. ASSUME Kind(c) = "Unicast" PROVE pick[Ep(c)] = c
    BY <1>1, <1>2, <1>3, <1>4, <2>2 DEF TableConsistent, Cheapest
  <2> QED BY <1>6, <2>1, <2>2
<1> QED
  BY <1>5, <1>6

\* A message other than SuccessfulRegistration makes no new holder.
LEMMA TrySendHolds ==
    ASSUME TypeOK, NEW d \in Channels,
           NEW m \in ClientMessage, m # "SuccessfulRegistration",
           NEW c \in Channels,
           \E i \in 1..Len(TrySend(mailbox, d, m)[c]) :
               TrySend(mailbox, d, m)[c][i] = "SuccessfulRegistration"
    PROVE  \E i \in 1..Len(mailbox[c]) : mailbox[c][i] = "SuccessfulRegistration"
<1> DEFINE q == mailbox[c]
<1>1. mailbox \in [Channels -> Seq(ClientMessage)] /\ q \in Seq(ClientMessage)
  BY DEF TypeOK
<1>2. \/ TrySend(mailbox, d, m)[c] = q
      \/ TrySend(mailbox, d, m)[c] = Append(q, m)
  BY <1>1 DEF TrySend
<1>3. CASE TrySend(mailbox, d, m)[c] = q
  BY <1>3
<1>4. CASE TrySend(mailbox, d, m)[c] = Append(q, m)
  <2>1. PICK i \in 1..Len(Append(q, m)) : Append(q, m)[i] = "SuccessfulRegistration"
    BY <1>4
  <2> HIDE DEF q
  <2>2. Len(q) \in Nat /\ Len(Append(q, m)) = Len(q) + 1
    BY <1>1
  <2>3. Append(q, m)[Len(q) + 1] = m /\ \A j \in 1..Len(q) : Append(q, m)[j] = q[j]
    BY <1>1
  <2>4. i \in 1..Len(q) /\ q[i] = "SuccessfulRegistration"
    BY <2>1, <2>2, <2>3
  <2> QED BY <2>4 DEF q
<1> QED
  BY <1>2, <1>3, <1>4

\* Nor does such a message to several listeners.
LEMMA SendAllHolds ==
    ASSUME TypeOK, NEW targets,
           NEW m \in ClientMessage, m # "SuccessfulRegistration",
           NEW c \in Channels,
           \E i \in 1..Len(SendAll(targets, m)[c]) :
               SendAll(targets, m)[c][i] = "SuccessfulRegistration"
    PROVE  \E i \in 1..Len(mailbox[c]) : mailbox[c][i] = "SuccessfulRegistration"
<1>1. \/ SendAll(targets, m)[c] = mailbox[c]
      \/ SendAll(targets, m)[c] = TrySend(mailbox, c, m)[c]
  BY DEF SendAll
<1>2. CASE SendAll(targets, m)[c] = mailbox[c]
  BY <1>2
<1>3. CASE SendAll(targets, m)[c] = TrySend(mailbox, c, m)[c]
  BY <1>3, TrySendHolds
<1> QED
  BY <1>1, <1>2, <1>3

\* Nobody holds a registration when the bus starts.
LEMMA InitIInv == Init => IInv
<1> SUFFICES ASSUME Init PROVE IInv
  OBVIOUS
<1>1. TypeOK
  BY InitTypeOK
<1>2. \A c \in Channels : ~Holds(c)
  BY DEF Init, Holds, Registered, Answered
<1>3. TableConsistent
  BY DEF Init, TableConsistent, NoEntry
<1>4. NotifyConsistent
  BY DEF Init, NotifyConsistent
<1> QED
  BY <1>1, <1>2, <1>3, <1>4 DEF IInv, HoldersInTable, HoldersInFib, HoldersCompatible

\* Every step keeps the tables consistent and the holders of registrations in
\* them; only the six steps of the router can disturb it.
LEMMA NextIInv == IInv /\ [Next]_vars => IInv'
<1> SUFFICES ASSUME IInv, [Next]_vars PROVE IInv'
  OBVIOUS
<1>t. TypeOK /\ TypeOK'
  BY NextTypeOK DEF IInv
<1>m. /\ mailbox \in [Channels -> Seq(ClientMessage)]
      /\ pc \in [Channels -> PcStates]
      /\ \A c \in Channels : Ep(c) \in Endpoints
  BY <1>t, RequestFields DEF TypeOK, Ep
<1> USE DEF routerVars
<1> USE DEF Holds, Registered, Answered
<1>1. ASSUME NEW c \in Channels, Register(c) PROVE IInv'
  <2>1. \A d \in Channels : Holds(d)' => Holds(d)
    <3>1. \A d \in Channels : d # c => pc'[d] = pc[d] /\ mailbox'[d] = mailbox[d]
      BY <1>1, <1>m DEF Register
    <3>2. mailbox'[c] = <<>> /\ pc'[c] \in {"done", "waiting"}
      BY <1>1, <1>m DEF Register
    <3> QED BY <3>1, <3>2
  <2> QED
    BY <1>1, <1>t, <2>1, HoldersFrame DEF Register
<1>2. ASSUME NEW c \in Channels, WaitForRegistration(c) PROVE IInv'
  <2>1. \A d \in Channels : Holds(d)' => Holds(d)
    <3>1. \A d \in Channels : d # c => pc'[d] = pc[d] /\ mailbox'[d] = mailbox[d]
      BY <1>2, <1>m DEF WaitForRegistration
    <3>2. pc'[c] = "listening" => Holds(c)
      BY <1>2, <1>m DEF WaitForRegistration
    <3>3. pc'[c] \in {"listening", "done", "dropping"}
      BY <1>2, <1>m DEF WaitForRegistration
    <3> QED BY <3>1, <3>2, <3>3
  <2> QED
    BY <1>2, <1>t, <2>1, HoldersFrame DEF WaitForRegistration
<1>4. ASSUME NEW c \in Channels, Receive(c) PROVE IInv'
  <2>1. \A d \in Channels : Holds(d)' => Holds(d)
    BY <1>4, <1>m DEF Receive
  <2> QED
    BY <1>4, <1>t, <2>1, HoldersFrame DEF Receive
<1>5. ASSUME NEW c \in Channels, NEW k \in Costs, SetCost(c, k) PROVE IInv'
  <2>1. \A d \in Channels : Holds(d)' => Holds(d)
    BY <1>5, <1>m DEF SetCost
  <2> QED
    BY <1>5, <1>t, <2>1, HoldersFrame DEF SetCost
<1>6. ASSUME NEW c \in Channels, DropReceiver(c) PROVE IInv'
  <2>1. \A d \in Channels : Holds(d)' => Holds(d)
    BY <1>6, <1>m DEF DropReceiver
  <2> QED
    BY <1>6, <1>t, <2>1, HoldersFrame DEF DropReceiver
<1>7. ASSUME NEW c \in Channels, CloseChannel(c) PROVE IInv'
  <2>1. \A d \in Channels : Holds(d)' => Holds(d)
    BY <1>7, <1>m DEF CloseChannel
  <2> QED
    BY <1>7, <1>t, <2>1, HoldersFrame DEF CloseChannel
<1>8. ASSUME NEW m \in spawned, BrokerSend(m) PROVE IInv'
  BY <1>8, <1>t, HoldersFrame DEF BrokerSend
<1>9. CASE Shutdown
  <2>1. "Message" \in ClientMessage
    BY DEF ClientMessage
  <2>2. \A d \in Channels : Holds(d)' => Holds(d)
    BY <1>9, <1>t, <2>1, SendAllHolds DEF Shutdown
  <2> QED
    BY <1>9, <1>t, <2>2, HoldersFrame DEF Shutdown
<1>10. ASSUME NEW s \in Senders, NEW e \in Endpoints, LoadFib(s, e) PROVE IInv'
  BY <1>10, <1>t, HoldersFrame DEF LoadFib
<1>11. ASSUME NEW s \in Senders, NEW c \in Channels, Deliver(s, c) PROVE IInv'
  <2>1. "Message" \in ClientMessage
    BY DEF ClientMessage
  <2>2. \A d \in Channels : Holds(d)' => Holds(d)
    BY <1>11, <1>t, <2>1, TrySendHolds DEF Deliver
  <2> QED
    BY <1>11, <1>t, <2>2, HoldersFrame DEF Deliver
<1>12. CASE HandleRegisterEndpoint
  <2>1. PICK c \in Channels : c = Head(queue).ch
    <3>1. Head(queue) \in RouterMsg
      BY <1>12, <1>t DEF HandleRegisterEndpoint, Receives, TypeOK
    <3> QED BY <1>12, <3>1, RouterMsgFields DEF HandleRegisterEndpoint, Receives
  <2> DEFINE e == Ep(c)
             add == AddEndpoint(table[e], req[c].info, c)
  <2>2. /\ e \in Endpoints /\ table[e] \in LsRouteEntry
        /\ req[c].info \in EndpointInfo
        /\ table[e].kind = "None" => table[e].routes = {}
    BY <1>t, <2>1, RequestFields DEF IInv, TableConsistent, TypeOK, Ep
  <2>3. router = "Listen" /\ notify = {}
    BY <1>12 DEF HandleRegisterEndpoint, Receives, IInv, NotifyConsistent
  <2>4. UNCHANGED <<req, fib, pc>> /\ table' = [table EXCEPT ![e] = add.entry]
    BY <1>12, <2>1 DEF HandleRegisterEndpoint
  <2>5. \A d \in Channels : Ep(d)' = Ep(d) /\ Kind(d)' = Kind(d)
    BY <2>4 DEF Ep, Kind
  <2>6. CASE ~add.ok
    <3>1. add.entry = table[e]
      BY <2>1, <2>2, <2>6, AddEndpointResult
    <3>2. UNCHANGED <<req, table, fib, router, notify>>
      BY <1>12, <1>t, <2>1, <2>2, <2>4, <2>6, <3>1 DEF HandleRegisterEndpoint, TypeOK
    <3>3. mailbox' = TrySend(mailbox, c, "FailedRegistration")
      BY <1>12, <2>1, <2>6 DEF HandleRegisterEndpoint
    <3>4. "FailedRegistration" \in ClientMessage
      BY DEF ClientMessage
    <3>5. \A d \in Channels : Holds(d)' => Holds(d)
      BY <1>t, <2>1, <2>4, <3>3, <3>4, TrySendHolds
    <3> QED
      BY <1>t, <3>2, <3>5, HoldersFrame
  <2>7. CASE add.ok
    <3>1. /\ add.entry.kind = req[c].info.kind
          /\ add.entry.routes = table[e].routes \cup {Route(c, req[c].info)}
          /\ \/ table[e].routes = {}
             \/ table[e].kind = req[c].info.kind /\ req[c].info.kind # "Unicast"
      BY <2>1, <2>2, <2>7, AddEndpointResult
    <3>2. UNCHANGED mailbox /\ router' = "RouteChange" /\ notify' = {c}
      BY <1>12, <2>1, <2>7 DEF HandleRegisterEndpoint
    <3>3. Route(c, req[c].info).via = c
      BY DEF Route
    <3> HIDE DEF add
    <3>4. /\ table'[e] = add.entry
          /\ \A x \in Endpoints : x # e => table'[x] = table[x]
      BY <1>t, <2>2, <2>4 DEF TypeOK
    <3>5. \A d \in Channels : InTable(d) => InTable(d)'
      BY <1>m, <2>2, <2>5, <3>1, <3>4 DEF InTable, Targets
    <3>6. InTable(c)'
      BY <2>1, <2>5, <3>1, <3>3, <3>4 DEF InTable, Targets
    <3>7. TableConsistent'
      <4>1. ASSUME NEW x \in Endpoints, x # e
            PROVE  /\ table'[x].kind = "None" => table'[x].routes = {}
                   /\ \A r \in table'[x].routes : Ep(r.via)' = x /\ Kind(r.via)' = table'[x].kind
                   /\ table'[x].kind = "Unicast" => \A r, q \in table'[x].routes : r.via = q.via
        BY <2>4, <3>4, <4>1 DEF IInv, TableConsistent, Ep, Kind
      <4>2. table'[e].kind # "None"
        BY <1>t, <2>1, <3>1, <3>4, RequestFields DEF TypeOK, Kinds
      <4>3. ASSUME NEW r \in table'[e].routes
            PROVE  Ep(r.via)' = e /\ Kind(r.via)' = table'[e].kind
        <5>1. CASE r = Route(c, req[c].info)
          BY <2>1, <2>5, <3>1, <3>3, <3>4, <5>1 DEF Kind
        <5>2. CASE r \in table[e].routes
          BY <2>2, <2>4, <3>1, <3>4, <5>2 DEF IInv, TableConsistent, Ep, Kind
        <5> QED BY <3>1, <3>4, <5>1, <5>2
      <4>4. table'[e].kind = "Unicast" => \A r, q \in table'[e].routes : r.via = q.via
        BY <3>1, <3>4
      <4> QED
        BY <4>1, <4>2, <4>3, <4>4 DEF TableConsistent
    <3>8. NotifyConsistent'
      BY <3>2, <3>6 DEF NotifyConsistent
    <3>9. \A d \in Channels : Holds(d)' = Holds(d)
      BY <2>4, <3>2
    <3>10. HoldersInTable'
      BY <2>3, <3>5, <3>9 DEF IInv, HoldersInTable
    <3>11. HoldersInFib'
      BY <2>4, <3>9 DEF IInv, HoldersInFib, InFib, Ep, Kind
    <3>12. HoldersCompatible'
      BY <2>4, <3>9 DEF IInv, HoldersCompatible, Ep, Kind
    <3> QED
      BY <1>t, <3>7, <3>8, <3>10, <3>11, <3>12 DEF IInv
  <2>8. add.ok \in BOOLEAN
    BY <2>1, <2>2, AddEndpointResult
  <2> QED
    BY <2>6, <2>7, <2>8
<1>13. CASE HandleDeadLink
  <2>1. PICK b \in Channels : b = Head(queue).ch
    <3>1. Head(queue) \in RouterMsg
      BY <1>13, <1>t DEF HandleDeadLink, Receives, TypeOK
    <3> QED BY <1>13, <3>1, RouterMsgFields DEF HandleDeadLink, Receives
  <2>2. PICK e \in Endpoints : e = Ep(b)
    BY <1>m
  <2> DEFINE rem == RemoveEndpoint(table[e], Closed)
  <2>3. table[e] \in LsRouteEntry
    BY <1>t DEF TypeOK
  <2>4. /\ rem.entry.routes = {r \in table[e].routes : r.via \notin Closed}
        /\ rem.entry.routes = {} \/ rem.entry.kind = table[e].kind
        /\ rem.entry.kind = table[e].kind \/ rem.entry.kind = "None"
    BY <2>3, RemoveEndpointResult
  <2>5. UNCHANGED <<req, fib, pc, mailbox, notify>> /\ table' = [table EXCEPT ![e] = rem.entry]
    BY <1>13, <2>1, <2>2 DEF HandleDeadLink
  <2>6. router = "Listen" /\ router' = "RouteChange" /\ notify = {}
    BY <1>13 DEF HandleDeadLink, Receives, IInv, NotifyConsistent
  <2> HIDE DEF rem
  <2>7. /\ table'[e] = rem.entry
        /\ \A x \in Endpoints : x # e => table'[x] = table[x]
    BY <1>t, <2>5 DEF TypeOK
  <2>8. \A c \in Channels : Holds(c)' = Holds(c)
    BY <2>5
  <2>9. TableConsistent'
    <3>1. ASSUME NEW x \in Endpoints, x # e
          PROVE  /\ table'[x].kind = "None" => table'[x].routes = {}
                 /\ \A r \in table'[x].routes : Ep(r.via)' = x /\ Kind(r.via)' = table'[x].kind
                 /\ table'[x].kind = "Unicast" => \A r, q \in table'[x].routes : r.via = q.via
      BY <2>5, <2>7, <3>1 DEF IInv, TableConsistent, Ep, Kind
    <3>2. /\ table'[e].kind = "None" => table'[e].routes = {}
          /\ \A r \in table'[e].routes : Ep(r.via)' = e /\ Kind(r.via)' = table'[e].kind
          /\ table'[e].kind = "Unicast" => \A r, q \in table'[e].routes : r.via = q.via
      BY <2>4, <2>5, <2>7 DEF IInv, TableConsistent, Ep, Kind
    <3> QED BY <3>1, <3>2 DEF TableConsistent
  <2>10. NotifyConsistent'
    BY <2>5, <2>6 DEF NotifyConsistent
  <2>11. HoldersInTable'
    <3>1. ASSUME NEW c \in Channels, Holds(c) PROVE InTable(c)'
      <4>1. c \notin Closed
        BY <3>1 DEF Closed
      <4>2. PICK r \in table[Ep(c)].routes : r.via = c
        BY <2>6, <3>1 DEF IInv, HoldersInTable, InTable, Targets
      <4>3. r \in table'[Ep(c)].routes
        BY <1>m, <2>4, <2>7, <4>1, <4>2
      <4> QED BY <2>5, <4>2, <4>3 DEF InTable, Targets, Ep
    <3> QED BY <2>8, <3>1 DEF HoldersInTable
  <2>12. HoldersInFib'
    BY <2>5, <2>8 DEF IInv, HoldersInFib, InFib, Ep, Kind
  <2>13. HoldersCompatible'
    BY <2>5, <2>8 DEF IInv, HoldersCompatible, Ep, Kind
  <2> QED
    BY <1>t, <2>9, <2>10, <2>11, <2>12, <2>13 DEF IInv
<1>14. CASE HandleSetAnycastCost
  <2>1. PICK c \in Channels : c = Head(queue).ch /\ Head(queue).cost \in Nat
    <3>1. Head(queue) \in RouterMsg
      BY <1>14, <1>t DEF HandleSetAnycastCost, Receives, TypeOK
    <3> QED BY <1>14, <3>1, RouterMsgFields, BoundsTyped DEF HandleSetAnycastCost, Receives
  <2>2. PICK e \in Endpoints : e = Ep(c)
    BY <1>m
  <2> DEFINE set == SetAnycastCost(table[e], c, Head(queue).cost)
  <2>3. table[e] \in LsRouteEntry
    BY <1>t DEF TypeOK
  <2>4. /\ set.entry.kind = table[e].kind
        /\ Targets(set.entry) = Targets(table[e])
    BY <2>1, <2>3, SetAnycastCostResult
  <2>5. UNCHANGED <<req, fib, mailbox, notify>> /\ table' = [table EXCEPT ![e] = set.entry]
    BY <1>14, <2>1, <2>2 DEF HandleSetAnycastCost
  <2>6. router = "Listen" /\ router' # "Notify" /\ notify = {}
    BY <1>14 DEF HandleSetAnycastCost, Receives, IInv, NotifyConsistent
  <2> HIDE DEF set
  <2>7. /\ table'[e] = set.entry
        /\ \A x \in Endpoints : x # e => table'[x] = table[x]
    BY <1>t, <2>5 DEF TypeOK
  <2>8. \A d \in Channels : Holds(d)' = Holds(d)
    <3>1. pc' = [pc EXCEPT ![c] = IF @ = "setting" THEN "listening" ELSE @]
      BY <1>14, <2>1 DEF HandleSetAnycastCost
    <3> QED BY <1>m, <2>5, <3>1
  <2>9. TableConsistent'
    <3>1. \A x \in Endpoints :
             table'[x].kind = table[x].kind /\ Targets(table'[x]) = Targets(table[x])
      BY <2>4, <2>7
    <3>2. ASSUME NEW x \in Endpoints
          PROVE  /\ table'[x].kind = "None" => table'[x].routes = {}
                 /\ \A r \in table'[x].routes : Ep(r.via)' = x /\ Kind(r.via)' = table'[x].kind
                 /\ table'[x].kind = "Unicast" => \A r, q \in table'[x].routes : r.via = q.via
      <4>1. \A r \in table'[x].routes : \E p \in table[x].routes : p.via = r.via
        BY <3>1 DEF Targets
      <4> QED BY <2>5, <3>1, <4>1 DEF IInv, TableConsistent, Ep, Kind
    <3> QED BY <3>2 DEF TableConsistent
  <2>10. NotifyConsistent'
    BY <2>5, <2>6 DEF NotifyConsistent
  <2>11. HoldersInTable'
    <3>1. \A d \in Channels : InTable(d)' = InTable(d)
      BY <1>m, <2>4, <2>5, <2>7 DEF InTable, Ep
    <3> QED BY <2>6, <2>8, <3>1 DEF IInv, HoldersInTable
  <2>12. HoldersInFib'
    BY <2>5, <2>8 DEF IInv, HoldersInFib, InFib, Ep, Kind
  <2>13. HoldersCompatible'
    BY <2>5, <2>8 DEF IInv, HoldersCompatible, Ep, Kind
  <2> QED
    BY <1>t, <2>9, <2>10, <2>11, <2>12, <2>13 DEF IInv
<1>15. CASE HandleShutdown
  <2>1. /\ UNCHANGED <<req, fib, notify>> /\ router' = "Stopped" /\ notify = {}
        /\ table' = [e \in Endpoints |-> NoEntry]
    BY <1>15 DEF HandleShutdown, Receives, IInv, NotifyConsistent
  <2>2. ASSUME NEW c \in Channels, Holds(c)' PROVE Holds(c)
    <3>1. pc'[c] = IF pc[c] = "setting" THEN "listening" ELSE pc[c]
      BY <1>15 DEF HandleShutdown
    <3>2. "Shutdown" \in ClientMessage
      BY DEF ClientMessage
    <3>3. (\E i \in 1..Len(mailbox'[c]) : mailbox'[c][i] = "SuccessfulRegistration")
            => \E i \in 1..Len(mailbox[c]) : mailbox[c][i] = "SuccessfulRegistration"
      BY <1>15, <1>t, <3>2, SendAllHolds DEF HandleShutdown
    <3> QED BY <2>2, <3>1, <3>3
  <2>3. TableConsistent' /\ NotifyConsistent' /\ HoldersInTable'
    BY <2>1 DEF TableConsistent, NotifyConsistent, HoldersInTable, NoEntry
  <2>4. HoldersInFib'
    BY <2>1, <2>2 DEF IInv, HoldersInFib, InFib, Ep, Kind
  <2>5. HoldersCompatible'
    BY <2>1, <2>2 DEF IInv, HoldersCompatible, Ep, Kind
  <2> QED
    BY <1>t, <2>3, <2>4, <2>5 DEF IInv
<1>16. CASE RouteChange
  <2>1. /\ router = "RouteChange" /\ router' \in {"Listen", "Notify"}
        /\ router' = "Listen" => notify = {}
        /\ UNCHANGED <<pc, req, mailbox, notify, table>>
        /\ BuildFib(fib')
    BY <1>16 DEF RouteChange
  <2>2. \A c \in Channels : /\ Holds(c)' = Holds(c)
                            /\ InTable(c)' = InTable(c)
                            /\ Ep(c)' = Ep(c) /\ Kind(c)' = Kind(c)
    BY <2>1 DEF InTable, Targets, Ep, Kind
  <2>3. TableConsistent'
    BY <2>1 DEF IInv, TableConsistent, Ep, Kind
  <2>4. \A c \in Channels : InTable(c) => InFib(c)'
    <3>1. TableConsistent
      BY DEF IInv
    <3>2. ASSUME NEW c \in Channels, InTable(c) PROVE InFib(c)'
      BY <1>t, <2>1, <2>2, <3>1, <3>2, BuildFibReaches DEF InFib
    <3> QED BY <3>2
  <2>5. notify \subseteq Channels
    BY <1>t DEF TypeOK
  <2>6. NotifyConsistent'
    BY <2>1, <2>2, <2>4, <2>5 DEF IInv, NotifyConsistent
  <2>7. HoldersInTable' /\ HoldersInFib'
    BY <2>1, <2>2, <2>4 DEF IInv, HoldersInTable, HoldersInFib
  <2>8. HoldersCompatible'
    BY <2>2 DEF IInv, HoldersCompatible
  <2> QED
    BY <1>t, <2>3, <2>6, <2>7, <2>8 DEF IInv
<1>17. CASE Notify
  <2>1. PICK c \in notify : mailbox' = TrySend(mailbox, c, "SuccessfulRegistration")
    BY <1>17 DEF Notify
  <2>2. /\ router = "Notify" /\ router' = "Listen" /\ notify' = {}
        /\ UNCHANGED <<pc, req, table, fib>>
    BY <1>17 DEF Notify
  <2>3. c \in Channels /\ InTable(c) /\ InFib(c)
    BY <1>t, <2>1, <2>2 DEF IInv, NotifyConsistent, TypeOK
  <2>4. \A d \in Channels : Holds(d)' => Holds(d) \/ d = c
    <3>1. \A d \in Channels : d # c => mailbox'[d] = mailbox[d]
      BY <1>m, <2>1, <2>3 DEF TrySend
    <3> QED BY <2>2, <3>1
  <2>5. \A d \in Channels : /\ InTable(d)' = InTable(d) /\ InFib(d)' = InFib(d)
                            /\ Ep(d)' = Ep(d) /\ Kind(d)' = Kind(d)
    BY <2>2 DEF InTable, InFib, Targets, Ep, Kind
  <2>6. \A d \in Channels : Holds(d)' => InTable(d) /\ InFib(d)
    BY <2>2, <2>3, <2>4 DEF IInv, HoldersInTable, HoldersInFib
  <2>7. TableConsistent' /\ NotifyConsistent'
    BY <2>2 DEF IInv, TableConsistent, NotifyConsistent, Ep, Kind
  <2>8. HoldersInTable' /\ HoldersInFib'
    BY <2>5, <2>6 DEF HoldersInTable, HoldersInFib
  <2>9. HoldersCompatible'
    <3>1. TableConsistent
      BY DEF IInv
    <3> QED
      BY <1>t, <2>5, <2>6, <3>1, TableExclusive DEF HoldersCompatible
  <2> QED
    BY <1>t, <2>7, <2>8, <2>9 DEF IInv
<1>18. CASE UNCHANGED vars
  BY <1>18, <1>t, HoldersFrame DEF vars
<1> QED
  BY <1>1, <1>2, <1>4, <1>5, <1>6, <1>7, <1>8, <1>9, <1>10, <1>11, <1>12,
     <1>13, <1>14, <1>15, <1>16, <1>17, <1>18
     DEF Next, RouterNext, ListenerNext, SenderNext

\* The tables and the holders of registrations agree in every reachable state.
LEMMA InductiveInvariant == Spec => []IInv
<1>1. Init => IInv
  BY InitIInv
<1>2. IInv /\ [Next]_vars => IInv'
  BY NextIInv
<1> QED
  BY <1>1, <1>2, PTL DEF Spec

\* Whatever the interleaving of registrations, drops and DeadLinks, the router
\* never lets two listeners be registered on an endpoint that one of them has
\* for itself, and never mixes kinds on it.
THEOREM RegistrationsAreExclusive == Spec => []ExclusiveRegistration
<1>1. IInv => ExclusiveRegistration
  BY DEF IInv, HoldersCompatible, Holds, ExclusiveRegistration
<1> QED
  BY <1>1, InductiveInvariant, PTL

\* A listener whose registration has returned is reached through the published
\* forwarding table until it drops its receiver, also after a shutdown.
THEOREM RegisteredAreReachable == Spec => []ReachableOnceRegistered
<1>1. IInv => ReachableOnceRegistered
  BY DEF IInv, HoldersInFib, InFib, Holds, ReachableOnceRegistered
<1> QED
  BY <1>1, InductiveInvariant, PTL


-----------------------------------------------------------------------------
(* Anycast goes to the cheapest listener.  A listener asks for its endpoint *)
(* once, and nobody changes its cost before it is in the table.            *)

\* Where the broker channel holds the request of c.
Asks(q, c) == {i \in 1..Len(q) : q[i].type = "RegisterEndpoint" /\ q[i].ch = c}

Fresh(c) == cost[c] = req[c].info.cost /\ ~InTable(c)

FreshInv ==
    /\ \A c \in Channels :
         /\ pc[c] = "idle" => Fresh(c) /\ Asks(queue, c) = {}
         /\ Asks(queue, c) # {} => Fresh(c)
         /\ \A i, j \in Asks(queue, c) : i = j
    /\ \A m \in spawned : m.type # "RegisterEndpoint"

\* The route table holds the costs the listeners have been told are recorded.
CostsRecorded == \A e \in Endpoints : \A r \in table[e].routes : r.cost = cost[r.via]

\* Back in its loop, the router has published a cheapest route of the table.
FibCurrent ==
    router \in {"Listen", "Notify"} =>
        \A e \in Endpoints :
            table[e].kind = "Anycast" /\ table[e].routes # {} =>
                \E q \in Cheapest(table[e].routes) : fib[e].to = {q.via}

CheapInv == IInv /\ FreshInv /\ CostsRecorded /\ FibCurrent

\* A message that is no request leaves the requests in the channel as they are.
LEMMA AsksAppend ==
    ASSUME NEW q \in Seq(RouterMsg), NEW m \in RouterMsg, NEW c
    PROVE  /\ m.type # "RegisterEndpoint" \/ m.ch # c => Asks(Append(q, m), c) = Asks(q, c)
           /\ Asks(q, c) = {} => \A i, j \in Asks(Append(q, m), c) : i = j
<1>1. PICK p : p = Append(q, m)
  OBVIOUS
<1>2. /\ Len(q) \in Nat /\ Len(p) = Len(q) + 1 /\ p[Len(q) + 1] = m
      /\ \A i \in 1..Len(q) : p[i] = q[i]
  BY <1>1
<1>3. \A i : i \in 1..Len(p) <=> i \in 1..Len(q) \/ i = Len(q) + 1
  BY <1>2
<1>4. ASSUME NEW i \in Asks(p, c)
      PROVE  i \in Asks(q, c) \/ (i = Len(q) + 1 /\ m.type = "RegisterEndpoint" /\ m.ch = c)
  BY <1>2, <1>3 DEF Asks
<1>5. Asks(q, c) \subseteq Asks(p, c)
  BY <1>2, <1>3 DEF Asks
<1> QED BY <1>1, <1>4, <1>5

\* A request that is taken out was the only one.
LEMMA AsksTail ==
    ASSUME NEW q \in Seq(RouterMsg), q # <<>>, NEW c, \A i, j \in Asks(q, c) : i = j
    PROVE  /\ Asks(Tail(q), c) # {} => Asks(q, c) # {}
           /\ \A i, j \in Asks(Tail(q), c) : i = j
           /\ Head(q).type = "RegisterEndpoint" /\ Head(q).ch = c =>
                 Asks(Tail(q), c) = {} /\ Asks(q, c) # {}
<1>1. PICK p : p = Tail(q)
  OBVIOUS
<1>2. /\ Len(q) \in Nat /\ Len(q) > 0 /\ Len(p) = Len(q) - 1 /\ Head(q) = q[1]
      /\ \A i \in 1..Len(p) : p[i] = q[i + 1]
  BY <1>1
<1>3. ASSUME NEW i \in Asks(p, c) PROVE i + 1 \in Asks(q, c) /\ i \in Nat /\ i > 0
  <2>1. i \in 1..Len(p) /\ i + 1 \in 1..Len(q)
    BY <1>2 DEF Asks
  <2> QED BY <1>2, <2>1 DEF Asks
<1>4. ASSUME q[1].type = "RegisterEndpoint" /\ q[1].ch = c PROVE 1 \in Asks(q, c)
  BY <1>2, <1>4 DEF Asks
<1>5. ASSUME NEW i \in Asks(p, c), NEW j \in Asks(p, c) PROVE i = j
  <2>1. i + 1 = j + 1 /\ i \in Nat /\ j \in Nat
    BY <1>3
  <2> QED BY <2>1
<1>6. ASSUME 1 \in Asks(q, c), NEW i \in Asks(p, c) PROVE FALSE
  <2>1. i + 1 = 1 /\ i \in Nat /\ i > 0
    BY <1>3, <1>6
  <2> QED BY <2>1
<1> QED BY <1>1, <1>2, <1>3, <1>4, <1>5, <1>6

\* Nobody is registered and no table has a route.
LEMMA InitCheapInv == Init => CheapInv
<1> SUFFICES ASSUME Init PROVE CheapInv
  OBVIOUS
<1>1. \A e \in Endpoints : table[e].routes = {}
  BY DEF Init, NoEntry
<1>2. \A c \in Channels : Asks(queue, c) = {}
  <2>1. Len(queue) = 0
    BY DEF Init
  <2> QED BY <2>1 DEF Asks
<1>3. \A c \in Channels : Fresh(c)
  <2>1. \A c \in Channels : Ep(c) \in Endpoints
    BY RequestFields DEF Init, Ep
  <2> QED BY <1>1, <2>1 DEF Init, Fresh, InTable, Targets
<1>4. FreshInv
  BY <1>2, <1>3 DEF FreshInv, Init
<1> QED BY <1>1, <1>4, InitIInv DEF CheapInv, CostsRecorded, FibCurrent

\* A step of a listener, a sender or a spawned task: the router's tables and the
\* costs stay, and what is put into the broker channel is not a second request.
LEMMA CheapFrame ==
    ASSUME CheapInv, IInv', UNCHANGED <<req, table, fib, cost, router>>,
           \A c \in Channels : pc'[c] = "idle" => pc[c] = "idle",
           \/ queue' = queue
           \/ \E m \in RouterMsg : /\ queue' = Append(queue, m)
                                   /\ m.type # "RegisterEndpoint" \/ (pc[m.ch] = "idle" /\ pc'[m.ch] # "idle"),
           \A m \in spawned' : m \in spawned \/ m.type # "RegisterEndpoint"
    PROVE  CheapInv'
<1>1. CostsRecorded' /\ FibCurrent'
  BY DEF CheapInv, CostsRecorded, FibCurrent
<1>2. \A c \in Channels : Fresh(c)' = Fresh(c)
  BY DEF Fresh, InTable, Targets, Ep
<1>3. \A m \in spawned' : m.type # "RegisterEndpoint"
  BY DEF CheapInv, FreshInv
<1>4. ASSUME NEW c \in Channels
      PROVE  /\ pc'[c] = "idle" => Fresh(c) /\ Asks(queue', c) = {}
             /\ Asks(queue', c) # {} => Fresh(c)
             /\ \A i, j \in Asks(queue', c) : i = j
  <2>1. /\ pc[c] = "idle" => Fresh(c) /\ Asks(queue, c) = {}
        /\ Asks(queue, c) # {} => Fresh(c)
        /\ \A i, j \in Asks(queue, c) : i = j
    BY DEF CheapInv, FreshInv
  <2>2. CASE queue' = queue
    BY <2>1, <2>2
  <2>3. ASSUME NEW m \in RouterMsg, queue' = Append(queue, m),
               m.type # "RegisterEndpoint" \/ (pc[m.ch] = "idle" /\ pc'[m.ch] # "idle")
        PROVE  /\ pc'[c] = "idle" => Fresh(c) /\ Asks(queue', c) = {}
               /\ Asks(queue', c) # {} => Fresh(c)
               /\ \A i, j \in Asks(queue', c) : i = j
    <3>1. queue \in Seq(RouterMsg)
      BY DEF CheapInv, IInv, TypeOK
    <3>2. /\ m.type # "RegisterEndpoint" \/ m.ch # c => Asks(queue', c) = Asks(queue, c)
          /\ Asks(queue, c) = {} => \A i, j \in Asks(queue', c) : i = j
      BY <2>3, <3>1, AsksAppend
    <3>3. CASE m.type # "RegisterEndpoint" \/ m.ch # c
      BY <2>1, <3>2, <3>3
    <3>4. CASE m.type = "RegisterEndpoint" /\ m.ch = c
      BY <2>1, <2>3, <3>2, <3>4
    <3> QED BY <3>3, <3>4
  <2> QED BY <2>2, <2>3
<1>5. FreshInv'
  BY <1>2, <1>3, <1>4 DEF FreshInv
<1> QED BY <1>1, <1>5 DEF CheapInv

\* build_from_db publishes a cheapest route of every anycast endpoint.
LEMMA BuildFibCheapest ==
    ASSUME NEW f, BuildFib(f), NEW e \in Endpoints,
           table[e].kind = "Anycast", table[e].routes # {}
    PROVE  \E q \in Cheapest(table[e].routes) : f[e].to = {q.via}
<1>1. PICK pick \in [Endpoints -> Channels] :
         /\ pick[e] \in {q.via : q \in Cheapest(table[e].routes)}
         /\ f[e] = FibEntryOf(table[e], pick[e])
  BY DEF BuildFib
<1>2. PICK q \in Cheapest(table[e].routes) : pick[e] = q.via
  BY <1>1
<1>3. f[e].to = {pick[e]}
  BY <1>1 DEF FibEntryOf
<1> QED BY <1>2, <1>3

\* A handler of the router takes the first message; it may put the listener that
\* asked into the table, and change the cost of one that is in it.
LEMMA HandlerKeepsFresh ==
    ASSUME CheapInv, queue # <<>>, queue' = Tail(queue), UNCHANGED <<req, spawned>>,
           \A c \in Channels : pc'[c] = "idle" => pc[c] = "idle",
           \A c \in Channels : Fresh(c) =>
               Fresh(c)' \/ (Head(queue).type = "RegisterEndpoint" /\ Head(queue).ch = c)
    PROVE  FreshInv'
<1>1. queue \in Seq(RouterMsg)
  BY DEF CheapInv, IInv, TypeOK
<1>2. ASSUME NEW c \in Channels
      PROVE  /\ pc'[c] = "idle" => Fresh(c)' /\ Asks(queue', c) = {}
             /\ Asks(queue', c) # {} => Fresh(c)'
             /\ \A i, j \in Asks(queue', c) : i = j
  <2>1. /\ pc[c] = "idle" => Fresh(c) /\ Asks(queue, c) = {}
        /\ Asks(queue, c) # {} => Fresh(c)
        /\ \A i, j \in Asks(queue, c) : i = j
    BY DEF CheapInv, FreshInv
  <2>2. /\ Asks(queue', c) # {} => Asks(queue, c) # {}
        /\ \A i, j \in Asks(queue', c) : i = j
        /\ Head(queue).type = "RegisterEndpoint" /\ Head(queue).ch = c =>
              Asks(queue', c) = {} /\ Asks(queue, c) # {}
    BY <1>1, <2>1, AsksTail
  <2> QED BY <2>1, <2>2
<1>3. \A m \in spawned' : m.type # "RegisterEndpoint"
  BY DEF CheapInv, FreshInv
<1> QED BY <1>2, <1>3 DEF FreshInv

\* HandleRegisterEndpoint: the route has the cost of the request.
LEMMA RegisterKeepsCheap ==
    ASSUME CheapInv, IInv', HandleRegisterEndpoint
    PROVE  CheapInv'
<1>i. IInv /\ TypeOK /\ CostsRecorded /\ FreshInv
  BY DEF CheapInv, IInv
<1>t. /\ table \in [Endpoints -> LsRouteEntry] /\ queue \in Seq(RouterMsg) /\ queue # <<>>
      /\ \A c \in Channels : Ep(c) \in Endpoints /\ req[c].info \in EndpointInfo
  BY <1>i, RequestFields DEF TypeOK, Ep, HandleRegisterEndpoint, Receives
<1>1. PICK c \in Channels : c = Head(queue).ch /\ Head(queue).type = "RegisterEndpoint"
  <2>1. Head(queue) \in RouterMsg
    BY <1>t
  <2> QED BY <2>1, RouterMsgFields DEF HandleRegisterEndpoint, Receives
<1>2. PICK e \in Endpoints : e = Ep(c)
  BY <1>t
<1>3. PICK add : add = AddEndpoint(table[e], req[c].info, c)
  OBVIOUS
<1>4. /\ table[e] \in LsRouteEntry /\ req[c].info \in EndpointInfo
      /\ table[e].kind = "None" => table[e].routes = {}
  BY <1>i, <1>t DEF IInv, TableConsistent
<1>5. /\ add.ok \in BOOLEAN
      /\ ~add.ok => add.entry = table[e]
      /\ add.ok => add.entry.routes = table[e].routes \cup {Route(c, req[c].info)}
  BY <1>3, <1>4, AddEndpointResult
<1>6. /\ UNCHANGED <<req, fib, cost, pc, spawned>> /\ table' = [table EXCEPT ![e] = add.entry]
      /\ queue' = Tail(queue)
  BY <1>1, <1>2, <1>3 DEF HandleRegisterEndpoint
<1>7. \A d \in Channels : Ep(d)' = Ep(d)
  BY <1>6 DEF Ep
<1>8. cost[c] = req[c].info.cost
  <2>1. 1 \in Asks(queue, c)
    <3>1. 1 \in 1..Len(queue) /\ Head(queue) = queue[1]
      BY <1>t
    <3> QED BY <1>1, <3>1 DEF Asks
  <2> QED BY <1>i, <2>1 DEF FreshInv, Fresh
<1>9. /\ table'[e] = add.entry
      /\ \A x \in Endpoints : x # e => table'[x] = table[x]
  BY <1>t, <1>6
<1>10. \A d \in Channels : d # c => InTable(d)' = InTable(d)
  <2>1. ASSUME NEW d \in Channels, d # c PROVE InTable(d)' = InTable(d)
    <3>1. Ep(d) # e => InTable(d)' = InTable(d)
      BY <1>t, <1>7, <1>9 DEF InTable, Targets
    <3>2. Targets(add.entry) \cup {c} = Targets(table[e]) \cup {c}
      <4>1. Route(c, req[c].info).via = c
        BY DEF Route
      <4> QED BY <1>5, <4>1 DEF Targets
    <3>3. Ep(d) = e => InTable(d)' = InTable(d)
      <4>1. d \in Targets(add.entry) <=> d \in Targets(table[e])
        BY <2>1, <3>2
      <4> QED BY <1>7, <1>9, <4>1 DEF InTable
    <3> QED BY <3>1, <3>3
  <2> QED BY <2>1
<1>11. FreshInv'
  <2>1. \A d \in Channels : Fresh(d) => Fresh(d)' \/ d = c
    BY <1>6, <1>10 DEF Fresh
  <2> QED BY <1>1, <1>6, <1>t, <2>1, HandlerKeepsFresh
<1>12. CostsRecorded'
  <2>1. ASSUME NEW x \in Endpoints, NEW r \in table'[x].routes PROVE r.cost = cost[r.via]
    <3>1. CASE r \in table[x].routes
      BY <1>i, <3>1 DEF CostsRecorded
    <3>2. CASE r = Route(c, req[c].info)
      BY <1>8, <3>2 DEF Route
    <3> QED BY <1>5, <1>9, <2>1, <3>1, <3>2
  <2> QED BY <1>6, <2>1 DEF CostsRecorded
<1>13. FibCurrent'
  <2>1. CASE add.ok
    <3>1. router' = "RouteChange"
      BY <1>1, <1>2, <1>3, <2>1 DEF HandleRegisterEndpoint
    <3> QED BY <3>1 DEF FibCurrent
  <2>2. CASE ~add.ok
    <3>1. router' = router
      BY <1>1, <1>2, <1>3, <2>2 DEF HandleRegisterEndpoint
    <3>2. table' = table
      BY <1>5, <1>6, <1>t, <2>2
    <3> QED BY <1>6, <3>1, <3>2 DEF CheapInv, FibCurrent
  <2> QED BY <1>5, <2>1, <2>2
<1> QED BY <1>11, <1>12, <1>13 DEF CheapInv

\* HandleDeadLink: routes only go, and the forwarding table is to be rebuilt.
LEMMA DeadLinkKeepsCheap ==
    ASSUME CheapInv, IInv', HandleDeadLink
    PROVE  CheapInv'
<1>i. IInv /\ TypeOK /\ CostsRecorded /\ FreshInv
  BY DEF CheapInv, IInv
<1>t. /\ table \in [Endpoints -> LsRouteEntry] /\ queue \in Seq(RouterMsg) /\ queue # <<>>
      /\ \A c \in Channels : Ep(c) \in Endpoints
  BY <1>i, RequestFields DEF TypeOK, Ep, HandleDeadLink, Receives
<1>1. PICK b \in Channels : b = Head(queue).ch
  <2>1. Head(queue) \in RouterMsg
    BY <1>t
  <2> QED BY <2>1, RouterMsgFields DEF HandleDeadLink, Receives
<1>2. PICK e \in Endpoints : e = Ep(b)
  BY <1>t
<1>3. PICK rem : rem = RemoveEndpoint(table[e], Closed)
  OBVIOUS
<1>4. rem.entry.routes = {r \in table[e].routes : r.via \notin Closed}
  BY <1>3, <1>t, RemoveEndpointResult
<1>5. /\ UNCHANGED <<req, cost, pc, spawned>> /\ table' = [table EXCEPT ![e] = rem.entry]
      /\ queue' = Tail(queue) /\ router' = "RouteChange"
  BY <1>1, <1>2, <1>3 DEF HandleDeadLink
<1>6. \A x \in Endpoints : table'[x].routes \subseteq table[x].routes
  BY <1>4, <1>5, <1>t
<1>7. \A d \in Channels : Fresh(d) => Fresh(d)'
  BY <1>5, <1>6, <1>t DEF Fresh, InTable, Targets, Ep
<1>8. FreshInv'
  BY <1>5, <1>7, <1>t, HandlerKeepsFresh
<1>9. CostsRecorded' /\ FibCurrent'
  BY <1>5, <1>6, <1>i DEF CostsRecorded, FibCurrent
<1> QED BY <1>8, <1>9 DEF CheapInv

\* HandleSetAnycastCost: the cost of the route and what the listener is told
\* change together.
LEMMA SetCostKeepsCheap ==
    ASSUME CheapInv, IInv', HandleSetAnycastCost
    PROVE  CheapInv'
<1>i. IInv /\ TypeOK /\ CostsRecorded /\ FreshInv
  BY DEF CheapInv, IInv
<1>t. /\ table \in [Endpoints -> LsRouteEntry] /\ queue \in Seq(RouterMsg) /\ queue # <<>>
      /\ pc \in [Channels -> PcStates] /\ cost \in [Channels -> Nat]
      /\ \A c \in Channels : Ep(c) \in Endpoints
      /\ \A e \in Endpoints : \A r \in table[e].routes : Ep(r.via) = e
  <2>1. \A e \in Endpoints : \A r \in table[e].routes : Ep(r.via) = e
    BY <1>i DEF IInv, TableConsistent
  <2>2. \A c \in Channels : Ep(c) \in Endpoints
    BY <1>i, RequestFields DEF TypeOK, Ep
  <2> QED BY <1>i, <2>1, <2>2 DEF TypeOK, HandleSetAnycastCost, Receives
<1>1. PICK c \in Channels : c = Head(queue).ch /\ Head(queue).cost \in Nat
  <2>1. Head(queue) \in RouterMsg
    BY <1>t
  <2> QED BY <2>1, RouterMsgFields, BoundsTyped DEF HandleSetAnycastCost, Receives
<1>2. PICK e \in Endpoints : e = Ep(c)
  BY <1>t
<1>3. PICK k \in Nat : k = Head(queue).cost
  BY <1>1
<1>4. PICK set : set = SetAnycastCost(table[e], c, k)
  OBVIOUS
<1>5. /\ Targets(set.entry) = Targets(table[e])
      /\ set.result # "Changed" => set.entry = table[e]
      /\ set.result \in {"Changed", "Unchanged"} => \A r \in set.entry.routes : r.via = c => r.cost = k
      /\ \A r \in set.entry.routes : r.via # c => r \in table[e].routes
  <2>1. table[e] \in LsRouteEntry
    BY <1>t
  <2>2. Targets(set.entry) = Targets(table[e])
    BY <1>4, <2>1, SetAnycastCostResult
  <2>3. /\ set.result # "Changed" => set.entry = table[e]
        /\ set.result \in {"Changed", "Unchanged"} => \A r \in set.entry.routes : r.via = c => r.cost = k
    BY <1>4, <2>1, SetAnycastCostCosts
  <2>4. \A r \in set.entry.routes : r.via # c => r \in table[e].routes
    BY <1>4, <2>1, SetAnycastCostOthers
  <2> QED BY <2>2, <2>3, <2>4
<1>6. set.result \in {"Changed", "Unchanged"} => InTable(c)
  <2>1. set.result \in {"Changed", "Unchanged"} => \E r \in table[e].routes : r.via = c
    BY <1>4 DEF SetAnycastCost
  <2> QED BY <1>2, <2>1 DEF InTable, Targets
<1>7. /\ UNCHANGED <<req, fib, spawned>> /\ table' = [table EXCEPT ![e] = set.entry]
      /\ queue' = Tail(queue)
      /\ router' = IF set.result = "Changed" THEN "RouteChange" ELSE router
      /\ pc' = [pc EXCEPT ![c] = IF @ = "setting" THEN "listening" ELSE @]
      /\ cost' = IF set.result \in {"Changed", "Unchanged"} THEN [cost EXCEPT ![c] = k] ELSE cost
  BY <1>1, <1>2, <1>3, <1>4 DEF HandleSetAnycastCost
<1>8. /\ table'[e] = set.entry
      /\ \A x \in Endpoints : x # e => table'[x] = table[x]
  BY <1>t, <1>7
<1>9. FreshInv'
  <2>1. \A d \in Channels : InTable(d)' = InTable(d)
    BY <1>5, <1>7, <1>8, <1>t DEF InTable, Ep
  <2>2. \A d \in Channels : Fresh(d) => Fresh(d)'
    <3>1. ASSUME NEW d \in Channels, Fresh(d) PROVE cost'[d] = cost[d]
      BY <1>6, <1>7, <1>t, <3>1 DEF Fresh
    <3> QED BY <1>7, <2>1, <3>1 DEF Fresh
  <2>3. \A d \in Channels : pc'[d] = "idle" => pc[d] = "idle"
    BY <1>7, <1>t
  <2> QED BY <1>7, <1>t, <2>2, <2>3, HandlerKeepsFresh
<1>10. CostsRecorded'
  <2>1. ASSUME NEW x \in Endpoints, NEW r \in table'[x].routes PROVE r.cost = cost'[r.via]
    <3>1. CASE x # e
      <4>1. r \in table[x].routes /\ r.via # c
        BY <1>2, <1>8, <1>t, <3>1
      <4>2. cost'[r.via] = cost[r.via]
        BY <1>7, <1>t, <4>1
      <4> QED BY <1>i, <4>1, <4>2 DEF CostsRecorded
    <3>2. CASE x = e /\ r.via # c
      <4>1. r \in table[e].routes
        BY <1>5, <1>8, <3>2
      <4>2. cost'[r.via] = cost[r.via]
        BY <1>7, <1>t, <3>2
      <4> QED BY <1>i, <4>1, <4>2 DEF CostsRecorded
    <3>3. CASE x = e /\ r.via = c
      <4>1. CASE set.result \in {"Changed", "Unchanged"}
        BY <1>5, <1>7, <1>8, <1>t, <3>3, <4>1
      <4>2. CASE set.result \notin {"Changed", "Unchanged"}
        BY <1>5, <1>7, <1>8, <1>i, <3>3, <4>2 DEF CostsRecorded
      <4> QED BY <4>1, <4>2
    <3> QED BY <3>1, <3>2, <3>3
  <2> QED BY <2>1 DEF CostsRecorded
<1>11. FibCurrent'
  <2>1. CASE set.result = "Changed"
    BY <1>7, <2>1 DEF FibCurrent
  <2>2. CASE set.result # "Changed"
    <3>1. table' = table
      BY <1>5, <1>7, <1>t, <2>2
    <3> QED BY <1>7, <2>2, <3>1 DEF CheapInv, FibCurrent
  <2> QED BY <2>1, <2>2
<1> QED BY <1>9, <1>10, <1>11 DEF CheapInv

\* Every step keeps recorded costs and the published table in line.
LEMMA NextCheapInv == CheapInv /\ [Next]_vars => CheapInv'
<1> SUFFICES ASSUME CheapInv, [Next]_vars PROVE CheapInv'
  OBVIOUS
<1>i. IInv /\ IInv' /\ TypeOK
  BY NextIInv DEF CheapInv, IInv
<1>m. pc \in [Channels -> PcStates] /\ spawned \subseteq RouterMsg
  BY <1>i DEF TypeOK
<1> USE DEF routerVars
<1>1. ASSUME NEW c \in Channels, Register(c) PROVE CheapInv'
  <2>1. RegisterEndpointMsg(c) \in RouterMsg /\ RegisterEndpointMsg(c).ch = c
    BY RouterMsgMembers DEF RegisterEndpointMsg
  <2>2. \A d \in Channels : pc'[d] = "idle" => pc[d] = "idle"
    BY <1>1, <1>m DEF Register
  <2>3. pc[c] = "idle" /\ pc'[c] # "idle"
    BY <1>1, <1>m DEF Register
  <2>4. queue' = queue \/ queue' = Append(queue, RegisterEndpointMsg(c))
    BY <1>1 DEF Register
  <2>5. UNCHANGED <<req, cost, table, fib, router, spawned>>
    BY <1>1 DEF Register
  <2> QED BY <1>i, <2>1, <2>2, <2>3, <2>4, <2>5, CheapFrame
<1>2. ASSUME NEW c \in Channels,
             \/ WaitForRegistration(c) \/ Receive(c)
             \/ DropReceiver(c) \/ CloseChannel(c)
      PROVE  CheapInv'
  <2>1. \A d \in Channels : pc'[d] = "idle" => pc[d] = "idle"
    BY <1>2, <1>m DEF WaitForRegistration, Receive, DropReceiver, CloseChannel
  <2>2. UNCHANGED <<req, cost, table, fib, router, queue>>
    BY <1>2 DEF WaitForRegistration, Receive, DropReceiver, CloseChannel
  <2>3. spawned' = spawned \/ spawned' = spawned \cup {DeadLinkMsg(c)}
    BY <1>2 DEF WaitForRegistration, Receive, DropReceiver, CloseChannel
  <2>4. DeadLinkMsg(c).type # "RegisterEndpoint"
    BY DEF DeadLinkMsg
  <2> QED BY <1>i, <2>1, <2>2, <2>3, <2>4, CheapFrame
<1>3. ASSUME NEW c \in Channels, NEW k \in Costs, SetCost(c, k) PROVE CheapInv'
  <2>1. SetAnycastCostMsg(c, k) \in RouterMsg /\ SetAnycastCostMsg(c, k).type # "RegisterEndpoint"
    BY RouterMsgMembers DEF SetAnycastCostMsg
  <2>2. \A d \in Channels : pc'[d] = "idle" => pc[d] = "idle"
    BY <1>3, <1>m DEF SetCost
  <2>3. queue' = Append(queue, SetAnycastCostMsg(c, k)) /\ UNCHANGED <<req, cost, table, fib, router, spawned>>
    BY <1>3 DEF SetCost
  <2>4. \E m \in RouterMsg : /\ queue' = Append(queue, m)
                             /\ m.type # "RegisterEndpoint" \/ (pc[m.ch] = "idle" /\ pc'[m.ch] # "idle")
    BY <2>1, <2>3
  <2> QED BY <1>i, <2>2, <2>3, <2>4, CheapFrame
<1>4. ASSUME NEW m \in spawned, BrokerSend(m) PROVE CheapInv'
  <2>1. m \in RouterMsg /\ m.type # "RegisterEndpoint"
    BY <1>m DEF CheapInv, FreshInv
  <2>2. queue' = queue \/ queue' = Append(queue, m)
    BY <1>4 DEF BrokerSend
  <2>3. UNCHANGED <<req, cost, table, fib, router, pc>> /\ spawned' \subseteq spawned
    BY <1>4 DEF BrokerSend
  <2>4. \/ queue' = queue
        \/ \E n \in RouterMsg : /\ queue' = Append(queue, n)
                                /\ n.type # "RegisterEndpoint" \/ (pc[n.ch] = "idle" /\ pc'[n.ch] # "idle")
    BY <2>1, <2>2
  <2> QED BY <1>i, <2>3, <2>4, CheapFrame
<1>5. CASE Shutdown
  <2>1. UNCHANGED <<req, cost, table, fib, router, pc, queue>> /\ spawned' = spawned \cup {ShutdownMsg}
    BY <1>5 DEF Shutdown
  <2>2. ShutdownMsg.type # "RegisterEndpoint"
    BY DEF ShutdownMsg
  <2> QED BY <1>i, <2>1, <2>2, CheapFrame
<1>6. ASSUME NEW s \in Senders, SenderNext(s) PROVE CheapInv'
  <2>1. UNCHANGED <<req, cost, table, fib, router, pc, queue, spawned>>
    BY <1>6 DEF SenderNext, LoadFib, Deliver
  <2> QED BY <1>i, <2>1, CheapFrame
<1>7. CASE HandleRegisterEndpoint
  BY <1>7, <1>i, RegisterKeepsCheap
<1>8. CASE HandleDeadLink
  BY <1>8, <1>i, DeadLinkKeepsCheap
<1>9. CASE HandleSetAnycastCost
  BY <1>9, <1>i, SetCostKeepsCheap
<1>10. CASE HandleShutdown
  <2>1. /\ UNCHANGED <<req, cost, spawned>> /\ router' = "Stopped" /\ queue' = <<>>
        /\ \A e \in Endpoints : table'[e].routes = {}
        /\ \A c \in Channels : pc'[c] = "idle" => pc[c] = "idle"
    BY <1>10 DEF HandleShutdown, NoEntry
  <2>2. \A c \in Channels : Asks(queue', c) = {}
    <3>1. Len(queue') = 0
      BY <2>1
    <3> QED BY <3>1 DEF Asks
  <2>3. \A c \in Channels : Fresh(c) => Fresh(c)'
    <3>1. \A c \in Channels : Ep(c) \in Endpoints
      BY <1>i, RequestFields DEF TypeOK, Ep
    <3> QED BY <2>1, <3>1 DEF Fresh, InTable, Targets, Ep
  <2>4. FreshInv'
    BY <2>1, <2>2, <2>3 DEF CheapInv, FreshInv
  <2> QED BY <1>i, <2>1, <2>4 DEF CheapInv, CostsRecorded, FibCurrent
<1>11. CASE RouteChange
  <2>1. UNCHANGED <<req, cost, table, pc, queue, spawned>> /\ BuildFib(fib')
    BY <1>11 DEF RouteChange
  <2>2. FreshInv' /\ CostsRecorded'
    BY <2>1 DEF CheapInv, FreshInv, Fresh, InTable, Targets, Ep, CostsRecorded
  <2>3. FibCurrent'
    BY <2>1, BuildFibCheapest DEF FibCurrent
  <2> QED BY <1>i, <2>2, <2>3 DEF CheapInv
<1>12. CASE Notify
  <2>1. UNCHANGED <<req, cost, table, fib, pc, queue, spawned>> /\ router = "Notify"
    BY <1>12 DEF Notify
  <2>2. FreshInv' /\ CostsRecorded'
    BY <2>1 DEF CheapInv, FreshInv, Fresh, InTable, Targets, Ep, CostsRecorded
  <2>3. FibCurrent'
    BY <2>1 DEF CheapInv, FibCurrent
  <2> QED BY <1>i, <2>2, <2>3 DEF CheapInv
<1>13. CASE UNCHANGED vars
  BY <1>13, <1>i, CheapFrame DEF vars
<1> QED
  BY <1>1, <1>2, <1>3, <1>4, <1>5, <1>6, <1>7, <1>8, <1>9, <1>10, <1>11, <1>12, <1>13
     DEF Next, RouterNext, ListenerNext

\* Whenever the router is back in its loop, messages to an anycast endpoint go to
\* a listener whose recorded cost is no higher than that of any registered one,
\* however registrations, set_cost calls and drops interleave.
THEOREM AnycastGoesToCheapest == Spec => []AnycastPrefersCheapest
<1>1. CheapInv => AnycastPrefersCheapest
  <2> SUFFICES ASSUME CheapInv, NEW c \in Channels, Registered(c), Kind(c) = "Anycast",
                      router \in {"Listen", "Notify"}
               PROVE  \E t \in Channels : fib[Ep(c)].to = {t} /\ cost[t] <= cost[c]
    BY DEF AnycastPrefersCheapest
  <2>1. IInv /\ TypeOK /\ CostsRecorded /\ FibCurrent
    BY DEF CheapInv, IInv
  <2>2. Ep(c) \in Endpoints
    BY <2>1, RequestFields DEF TypeOK, Ep
  <2>3. PICK r \in table[Ep(c)].routes : r.via = c
    <3>1. InTable(c)
      BY <2>1 DEF IInv, HoldersInTable, Holds
    <3> QED BY <3>1 DEF InTable, Targets
  <2>4. table[Ep(c)].kind = "Anycast"
    BY <2>1, <2>2, <2>3 DEF IInv, TableConsistent
  <2>5. PICK q \in Cheapest(table[Ep(c)].routes) : fib[Ep(c)].to = {q.via}
    BY <2>1, <2>2, <2>3, <2>4 DEF FibCurrent
  <2>6. q \in table[Ep(c)].routes /\ q.cost <= r.cost
    BY <2>3, <2>5 DEF Cheapest
  <2>7. q.cost = cost[q.via] /\ r.cost = cost[c]
    BY <2>1, <2>2, <2>3, <2>6 DEF CostsRecorded
  <2>8. q.via \in Channels
    BY <2>1, <2>2, <2>6, LocalOnly DEF TypeOK, LsRouteEntry, LsRoute
  <2> QED BY <2>5, <2>6, <2>7, <2>8
<1> QED BY <1>1, InitCheapInv, NextCheapInv, PTL DEF Spec
=============================================================================
