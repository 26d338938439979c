------------------------------ MODULE LocalBus ------------------------------
(***************************************************************************)
(* The bus inside one process, as built without the `remote` feature: the  *)
(* router task (routing/router.rs) with its route table, the forwarding    *)
(* table it publishes in an ArcSwap, the listeners that register, receive, *)
(* change their cost and drop their receiver (handle.rs, receivers/), and  *)
(* the tasks that send to an endpoint.                                     *)
(*                                                                         *)
(* A listener is one registration and owns one mpsc channel, its mailbox;  *)
(* Channels names both.  The router owns the table and works on one broker *)
(* message at a time; listeners and senders run in parallel with it and    *)
(* see the forwarding table (fib) of the last swap.                        *)
(*                                                                         *)
(* The 50 ms tick does nothing here: rebuild_requested is set and cleared  *)
(* within the handling of one message, and this build keeps no LSAs.       *)
(***************************************************************************)
EXTENDS RouteTable, Sequences, FiniteSets

CONSTANTS Endpoints,    \* endpoint ids
          Requests,     \* what a listener may register: endpoint, info
          Costs,        \* arguments of set_cost
          Senders,      \* tasks that call Handle::send
          MaxSends,     \* bound: sends in a behaviour
          BrokerCap,    \* capacity of the broker channel (32 in the code)
          MailboxCap,   \* capacity of a listener's channel (32 in the code)
          MayShutdown,  \* does someone call AnyBus::shutdown?
          StatusEndpoint  \* the endpoint of AnyBusStatusMsg

ASSUME LocalOnly == Remotes = {}
ASSUME RequestsTyped ==
    Requests \subseteq [ep : Endpoints, info : EndpointInfo]
ASSUME NodeIsNotRequested == \A r \in Requests : r.info.kind # "Node"
ASSUME BoundsTyped ==
    /\ Costs \subseteq Nat
    /\ MaxSends \in Nat
    /\ BrokerCap \in Nat \ {0}
    /\ MailboxCap \in Nat \ {0}
    /\ MayShutdown \in BOOLEAN
    /\ StatusEndpoint \in Endpoints

VARIABLES
    pc,        \* where each listener is in its life cycle
    req,       \* what each listener asks for
    cost,      \* the cost each listener was last told is recorded
    mailbox,   \* contents of each listener's channel
    spawned,   \* router messages in tasks spawned by send_broker
    queue,     \* the broker channel
    router,    \* state of the router task
    notify,    \* whom RouteChange has to tell, at most one
    table,     \* RouteTable
    fib,       \* the published ForwardingTable
    snd,       \* targets each sender's loaded fib entry still holds
    sends,     \* sends so far
    down       \* has shutdown been called?

vars == <<pc, req, cost, mailbox, spawned, queue, router, notify, table, fib,
          snd, sends, down>>

routerVars == <<router, notify, table, fib>>

\* idle -> waiting -> listening <-> setting, told -> dropping -> done.
\* dropping: Drop has sent the DeadLink, the receiver still exists.
PcStates == {"idle", "waiting", "listening", "setting", "told", "dropping", "done"}

ClientMessage == {"Message", "FailedRegistration", "SuccessfulRegistration", "Shutdown"}

\* The endpoint of a DeadLink is that of the listener that sent it.
RegisterEndpointMsg(c)  == [type |-> "RegisterEndpoint", ch |-> c]
DeadLinkMsg(c)          == [type |-> "DeadLink", ch |-> c]
SetAnycastCostMsg(c, k) == [type |-> "SetAnycastCost", ch |-> c, cost |-> k]
ShutdownMsg             == [type |-> "Shutdown"]

RouterMsg == [type : {"RegisterEndpoint", "DeadLink"}, ch : Channels]
             \cup [type : {"SetAnycastCost"}, ch : Channels, cost : Costs]
             \cup {ShutdownMsg}

Ep(c)   == req[c].ep
Kind(c) == req[c].info.kind

\* The negation of Sender::is_closed.
Open(c) == pc[c] # "done"

\* Mutant of TrySend: the channel has no capacity.
TrySendUnbounded(mb, c, m) ==
    IF Open(c) THEN [mb EXCEPT ![c] = Append(@, m)] ELSE mb

\* try_send to a listener's channel: lost if it is full or closed.
TrySend(mb, c, m) ==
    IF Open(c) /\ Len(mb[c]) < MailboxCap
    THEN [mb EXCEPT ![c] = Append(@, m)]
    ELSE mb

\* One message to each of several listeners.
SendAll(targets, m) ==
    [c \in Channels |-> IF c \in targets THEN TrySend(mailbox, c, m)[c]
                                         ELSE mailbox[c]]

FibEntry == [kind : {"None", "Single", "MultiCast"}, to : SUBSET Channels]
NoFib    == [kind |-> "None", to |-> {}]

Init ==
    /\ pc = [c \in Channels |-> "idle"]
    /\ req \in [Channels -> Requests]
    /\ cost = [c \in Channels |-> req[c].info.cost]
    /\ mailbox = [c \in Channels |-> <<>>]
    /\ spawned = {}
    /\ queue = <<>>
    /\ router = "Listen"
    /\ notify = {}
    /\ table = [e \in Endpoints |-> NoEntry]
    /\ fib = [e \in Endpoints |-> NoFib]
    /\ snd = [s \in Senders |-> {}]
    /\ sends = 0
    /\ down = FALSE

-----------------------------------------------------------------------------
(* Listeners.                                                              *)

\* register_*_inner: a new channel is made and the request is sent in the
\* caller's task, which waits for room in the broker channel; with the router
\* gone the send fails.
Register(c) ==
    /\ pc[c] = "idle"
    /\ \/ /\ router # "Stopped"
          /\ Len(queue) < BrokerCap
          /\ queue' = Append(queue, RegisterEndpointMsg(c))
          /\ pc' = [pc EXCEPT ![c] = "waiting"]
       \/ /\ router = "Stopped"
          /\ pc' = [pc EXCEPT ![c] = "done"]
          /\ UNCHANGED queue
    /\ mailbox' = [mailbox EXCEPT ![c] = <<>>]
    /\ UNCHANGED <<req, cost, spawned, snd, sends, down, routerVars>>

\* wait_for_registration takes the first message of the new channel for the
\* answer.  A data message makes it give up and send a DeadLink.  recv() never
\* yields None: the caller itself holds a sender of the channel while it waits
\* (in the `_via` of its Route, and for anycast and RPC in `tx`).
WaitForRegistration(c) ==
    /\ pc[c] = "waiting"
    /\ mailbox[c] # <<>>
    /\ LET m == Head(mailbox[c])
       IN  \/ /\ m = "SuccessfulRegistration"
              /\ pc' = [pc EXCEPT ![c] = "listening"]
              /\ mailbox' = [mailbox EXCEPT ![c] = Tail(@)]
              /\ UNCHANGED spawned
           \/ /\ m \in {"FailedRegistration", "Shutdown"}
              /\ pc' = [pc EXCEPT ![c] = "done"]
              /\ mailbox' = [mailbox EXCEPT ![c] = <<>>]
              /\ UNCHANGED spawned
           \/ /\ m = "Message"
              /\ pc' = [pc EXCEPT ![c] = "dropping"]
              /\ mailbox' = [mailbox EXCEPT ![c] = Tail(@)]
              /\ spawned' = spawned \cup {DeadLinkMsg(c)}
    /\ UNCHANGED <<req, cost, queue, snd, sends, down, routerVars>>

\* PacketReceiver::recv.  A receiver's own Handle keeps its sender alive in
\* the published fib, so an empty channel is never seen closed.
Receive(c) ==
    /\ pc[c] = "listening"
    /\ mailbox[c] # <<>>
    /\ mailbox' = [mailbox EXCEPT ![c] = Tail(@)]
    /\ pc' = [pc EXCEPT ![c] = IF Head(mailbox[c]) = "Shutdown" THEN "told" ELSE @]
    /\ UNCHANGED <<req, cost, spawned, queue, snd, sends, down, routerVars>>

\* AnycastReceiver::set_cost waits for the router's reply.
SetCost(c, k) ==
    /\ pc[c] = "listening"
    /\ Kind(c) = "Anycast"
    /\ router # "Stopped"
    /\ Len(queue) < BrokerCap
    /\ queue' = Append(queue, SetAnycastCostMsg(c, k))
    /\ pc' = [pc EXCEPT ![c] = "setting"]
    /\ UNCHANGED <<req, cost, mailbox, spawned, snd, sends, down, routerVars>>

\* Drop for PacketReceiver runs before its fields are dropped: the DeadLink
\* is on its way while the channel is still open.
DropReceiver(c) ==
    /\ pc[c] \in {"listening", "told"}
    /\ pc' = [pc EXCEPT ![c] = "dropping"]
    /\ spawned' = spawned \cup {DeadLinkMsg(c)}
    /\ UNCHANGED <<req, cost, mailbox, queue, snd, sends, down, routerVars>>

CloseChannel(c) ==
    /\ pc[c] = "dropping"
    /\ pc' = [pc EXCEPT ![c] = "done"]
    /\ mailbox' = [mailbox EXCEPT ![c] = <<>>]
    /\ UNCHANGED <<req, cost, spawned, queue, snd, sends, down, routerVars>>

-----------------------------------------------------------------------------
(* Handle: send_broker's spawned tasks, shutdown and sends.                *)

\* Each spawned task waits on its own for room in the broker channel, so the
\* messages arrive in any order.  The send fails once the router is gone.
BrokerSend(m) ==
    /\ m \in spawned
    /\ \/ /\ router # "Stopped"
          /\ Len(queue) < BrokerCap
          /\ queue' = Append(queue, m)
       \/ /\ router = "Stopped"
          /\ UNCHANGED queue
    /\ spawned' = spawned \ {m}
    /\ UNCHANGED <<pc, req, cost, mailbox, snd, sends, down, routerVars>>

\* Handle::shutdown first announces AnyBusStatusMsg::ShuttingDown to whoever
\* listens for it, as any other send (here in one step).
Shutdown ==
    /\ MayShutdown
    /\ ~down
    /\ down' = TRUE
    /\ mailbox' = SendAll(fib[StatusEndpoint].to, "Message")
    /\ spawned' = spawned \cup {ShutdownMsg}
    /\ UNCHANGED <<pc, req, cost, queue, snd, sends, routerVars>>

\* Handle::send loads the published table ...
LoadFib(s, e) ==
    /\ snd[s] = {}
    /\ sends < MaxSends
    /\ fib[e].to # {}
    /\ snd' = [snd EXCEPT ![s] = fib[e].to]
    /\ sends' = sends + 1
    /\ UNCHANGED <<pc, req, cost, mailbox, spawned, queue, down, routerVars>>

\* ... and tries every target of the entry it found, one after the other,
\* with whatever has happened to the table and to the target since.
Deliver(s, c) ==
    /\ c \in snd[s]
    /\ snd' = [snd EXCEPT ![s] = @ \ {c}]
    /\ mailbox' = TrySend(mailbox, c, "Message")
    /\ UNCHANGED <<pc, req, cost, spawned, queue, sends, down, routerVars>>

-----------------------------------------------------------------------------
(* The router task.                                                        *)

Receives(type) ==
    /\ router = "Listen"
    /\ queue # <<>>
    /\ Head(queue).type = type

\* Mutant of Closed: remove_endpoint drops open channels too.
ClosedOrOpen == Channels

Closed == {c \in Channels : ~Open(c)}

\* Mutant of HandleRegisterEndpoint: the listener is told before the forwarding
\* table is rebuilt.
HandleRegisterEndpointNotifyFirst ==
    /\ Receives("RegisterEndpoint")
    /\ LET c   == Head(queue).ch
           add == AddEndpoint(table[Ep(c)], req[c].info, c)
       IN  /\ table' = [table EXCEPT ![Ep(c)] = add.entry]
           /\ \/ /\ add.ok
                 /\ mailbox' = TrySend(mailbox, c, "SuccessfulRegistration")
                 /\ router' = "RouteChange"
              \/ /\ ~add.ok
                 /\ mailbox' = TrySend(mailbox, c, "FailedRegistration")
                 /\ UNCHANGED router
    /\ queue' = Tail(queue)
    /\ UNCHANGED <<pc, req, cost, spawned, notify, fib, snd, sends, down>>

HandleRegisterEndpoint ==
    /\ Receives("RegisterEndpoint")
    /\ LET c   == Head(queue).ch
           add == AddEndpoint(table[Ep(c)], req[c].info, c)
       IN  /\ table' = [table EXCEPT ![Ep(c)] = add.entry]
           /\ \/ /\ add.ok
                 /\ router' = "RouteChange"
                 /\ notify' = {c}
                 /\ UNCHANGED mailbox
              \/ /\ ~add.ok
                 /\ mailbox' = TrySend(mailbox, c, "FailedRegistration")
                 /\ UNCHANGED <<router, notify>>
    /\ queue' = Tail(queue)
    /\ UNCHANGED <<pc, req, cost, spawned, fib, snd, sends, down>>

HandleDeadLink ==
    /\ Receives("DeadLink")
    /\ LET e == Ep(Head(queue).ch)
       IN  table' = [table EXCEPT ![e] = RemoveEndpoint(@, Closed).entry]
    /\ router' = "RouteChange"
    /\ queue' = Tail(queue)
    /\ UNCHANGED <<pc, req, cost, mailbox, spawned, notify, fib, snd, sends, down>>

\* Mutant of HandleSetAnycastCost: the forwarding table is not rebuilt.
HandleSetAnycastCostNoRebuild ==
    /\ Receives("SetAnycastCost")
    /\ LET c   == Head(queue).ch
           k   == Head(queue).cost
           set == SetAnycastCost(table[Ep(c)], c, k)
       IN  /\ table' = [table EXCEPT ![Ep(c)] = set.entry]
           /\ pc' = [pc EXCEPT ![c] = "listening"]
           /\ cost' = [cost EXCEPT ![c] = k]
    /\ queue' = Tail(queue)
    /\ UNCHANGED <<req, mailbox, spawned, router, notify, fib, snd, sends, down>>

\* The reply goes out before the forwarding table is rebuilt; the waiting
\* listener goes on as soon as it is sent.
HandleSetAnycastCost ==
    /\ Receives("SetAnycastCost")
    /\ LET c   == Head(queue).ch
           k   == Head(queue).cost
           set == SetAnycastCost(table[Ep(c)], c, k)
       IN  /\ table' = [table EXCEPT ![Ep(c)] = set.entry]
           /\ router' = IF set.result = "Changed" THEN "RouteChange" ELSE router
           /\ pc' = [pc EXCEPT ![c] = IF @ = "setting" THEN "listening" ELSE @]
           /\ cost' = IF set.result \in {"Changed", "Unchanged"}
                      THEN [cost EXCEPT ![c] = k] ELSE cost
    /\ queue' = Tail(queue)
    /\ UNCHANGED <<req, mailbox, spawned, notify, fib, snd, sends, down>>

\* lsdb.shutdown(): every local route is sent a Shutdown, if it has room for
\* it, and the table is cleared.  With the router go the broker channel, the
\* messages in it and the reply channels they carry; the fib stays published.
HandleShutdown ==
    /\ Receives("Shutdown")
    /\ mailbox' = SendAll(UNION {Targets(table[e]) : e \in Endpoints}, "Shutdown")
    /\ table' = [e \in Endpoints |-> NoEntry]
    /\ router' = "Stopped"
    /\ queue' = <<>>
    /\ pc' = [c \in Channels |-> IF pc[c] = "setting" THEN "listening" ELSE pc[c]]
    /\ UNCHANGED <<req, cost, spawned, notify, fib, snd, sends, down>>

\* build_from_db for one entry.  Of several cheapest routes any may be taken.
FibEntryOf(entry, pick) ==
    IF entry.routes = {} THEN NoFib
    ELSE IF entry.kind = "Broadcast"
         THEN [kind |-> "MultiCast", to |-> Targets(entry)]
         ELSE [kind |-> "Single", to |-> {pick}]

BuildFib(f) ==
    \E pick \in [Endpoints -> Channels] :
        /\ \A e \in Endpoints :
             table[e].routes # {} =>
                 pick[e] \in {r.via : r \in Cheapest(table[e].routes)}
        /\ f = [e \in Endpoints |-> FibEntryOf(table[e], pick[e])]

\* Mutant of RouteChange: the listener is not told.
RouteChangeSilent ==
    /\ router = "RouteChange"
    /\ BuildFib(fib')
    /\ router' = "Listen"
    /\ UNCHANGED <<pc, req, cost, mailbox, spawned, queue, notify, table, snd, sends, down>>

\* The new table is published first; only then is the listener told.
RouteChange ==
    /\ router = "RouteChange"
    /\ BuildFib(fib')
    /\ router' = IF notify = {} THEN "Listen" ELSE "Notify"
    /\ UNCHANGED <<pc, req, cost, mailbox, spawned, queue, notify, table, snd, sends, down>>

Notify ==
    /\ router = "Notify"
    /\ \E c \in notify : mailbox' = TrySend(mailbox, c, "SuccessfulRegistration")
    /\ router' = "Listen"
    /\ notify' = {}
    /\ UNCHANGED <<pc, req, cost, spawned, queue, table, fib, snd, sends, down>>

-----------------------------------------------------------------------------
RouterNext ==
    \/ HandleRegisterEndpoint
    \/ HandleDeadLink
    \/ HandleSetAnycastCost
    \/ HandleShutdown
    \/ RouteChange
    \/ Notify

ListenerNext(c) ==
    \/ Register(c)
    \/ WaitForRegistration(c)
    \/ Receive(c)
    \/ \E k \in Costs : SetCost(c, k)
    \/ DropReceiver(c)
    \/ CloseChannel(c)

SenderNext(s) ==
    \/ \E e \in Endpoints : LoadFib(s, e)
    \/ \E c \in Channels : Deliver(s, c)

Next ==
    \/ RouterNext
    \/ \E c \in Channels : ListenerNext(c)
    \/ \E s \in Senders : SenderNext(s)
    \/ \E m \in spawned : BrokerSend(m)
    \/ Shutdown

Spec == Init /\ [][Next]_vars

\* The tasks the tokio runtime schedules make progress: the router, spawned
\* sends (the semaphore of an mpsc channel is first-come first-served, so a
\* waiting send is not starved), a drop that has begun, a delivery that has
\* begun, and a listener in its receive loop.  Registering, sending, dropping
\* a receiver and shutting down are the user's choice.
Fairness ==
    /\ WF_vars(RouterNext)
    /\ \A c \in Channels : SF_vars(BrokerSend(DeadLinkMsg(c)))
    /\ SF_vars(BrokerSend(ShutdownMsg))
    /\ \A s \in Senders : WF_vars(\E c \in Channels : Deliver(s, c))
    /\ \A c \in Channels :
         /\ WF_vars(WaitForRegistration(c))
         /\ WF_vars(Receive(c))
         /\ WF_vars(CloseChannel(c))

FairSpec == Spec /\ Fairness

-----------------------------------------------------------------------------
(* Properties.                                                             *)

\* The types of the variables; mailboxes and the broker channel never exceed
\* their capacity (try_send, mpsc::channel).
TypeOK ==
    /\ pc \in [Channels -> PcStates]
    /\ req \in [Channels -> Requests]
    /\ cost \in [Channels -> Nat]
    /\ mailbox \in [Channels -> Seq(ClientMessage)]
    /\ \A c \in Channels : Len(mailbox[c]) <= MailboxCap
    /\ spawned \subseteq RouterMsg
    /\ queue \in Seq(RouterMsg)
    /\ Len(queue) <= BrokerCap
    /\ router \in {"Listen", "RouteChange", "Notify", "Stopped"}
    /\ notify \subseteq Channels
    /\ table \in [Endpoints -> LsRouteEntry]
    /\ fib \in [Endpoints -> FibEntry]
    /\ snd \in [Senders -> SUBSET Channels]
    /\ sends \in 0..MaxSends
    /\ down \in BOOLEAN

\* A listener whose registration call returned Ok and which has not begun to
\* drop its receiver.
Registered(c) == pc[c] \in {"listening", "setting", "told"}

\* Two listeners registered on the same endpoint agree on its kind and are not
\* unicast, whatever registrations, failed registrations, drops and DeadLinks
\* of other listeners the router has handled in between (the duplicate checks
\* of RouteTable::add_endpoint with the clean-up of remove_endpoint).
ExclusiveRegistration ==
    \A c, d \in Channels :
        c # d /\ Registered(c) /\ Registered(d) /\ Ep(c) = Ep(d)
          => Kind(c) = Kind(d) /\ Kind(c) # "Unicast"

\* From the moment its registration returns, a listener is in the published
\* forwarding table until it drops its receiver: alone for a unicast endpoint,
\* with the others for a broadcast one; for an anycast endpoint somebody is.
\* The router swaps the fib before it answers, and no DeadLink of another
\* listener, late or early, takes an open channel out of it.
ReachableOnceRegistered ==
    \A c \in Channels : Registered(c) =>
        /\ Kind(c) = "Unicast" => fib[Ep(c)].to = {c}
        /\ Kind(c) = "Broadcast" => c \in fib[Ep(c)].to
        /\ Kind(c) = "Anycast" => fib[Ep(c)].to # {}

\* Whenever the router is back in its loop, an anycast endpoint is forwarded to
\* one listener, and no registered listener of that endpoint has been told of a
\* recorded cost lower than that listener's: set_cost, registrations and drops
\* all end in a rebuilt fib (handle_broker_msg -> RouteChange).
AnycastPrefersCheapest ==
    \A c \in Channels :
        Registered(c) /\ Kind(c) = "Anycast" /\ router \in {"Listen", "Notify"}
          => \E t \in Channels : fib[Ep(c)].to = {t} /\ cost[t] <= cost[c]

\* The request of a listener is still in the broker channel.
Queued(c) == \E i \in 1..Len(queue) : queue[i] = RegisterEndpointMsg(c)

\* A registration call comes to an end (Handle::wait_for_registration), with
\* Ok, a refusal or a Shutdown, unless the router stops; and if the router has
\* taken the request from its channel, then even if it stops right after.
\* Only requests that lie behind the Shutdown in the channel get no answer.
RegistrationAnswered ==
    \A c \in Channels :
        /\ pc[c] = "waiting" ~> pc[c] # "waiting" \/ router = "Stopped"
        /\ pc[c] = "waiting" /\ ~Queued(c) /\ router # "Stopped" ~> pc[c] # "waiting"

-----------------------------------------------------------------------------
(* What one might expect of the bus as well, and the code does not keep; the *)
(* README tells how each of them fails.                                      *)

\* The registration of an endpoint fails only for the reason ReceiveError gives
\* for RegistrationFailed, an endpoint that is already registered: the first
\* thing a listener sees in its new channel is never a data message.
RegistrationNotPreempted ==
    \A c \in Channels :
        pc[c] = "waiting" /\ mailbox[c] # <<>> => Head(mailbox[c]) # "Message"

\* A listener that is gone is eventually forgotten, so that its endpoint can be
\* registered again (PacketReceiver::drop, RouteTable::remove_endpoint).
ReleasedAfterDrop ==
    \A c \in Channels :
        pc[c] = "done" ~> \A e \in Endpoints : c \notin Targets(table[e])

\* Once the router has stopped, every registered listener that keeps receiving
\* learns of it (AnyBus::shutdown, RouteTable::shutdown).
ShutdownReachesListeners ==
    \A c \in Channels :
        router = "Stopped" /\ pc[c] = "listening" ~> pc[c] # "listening"

-----------------------------------------------------------------------------
(* The inductive invariant behind ExclusiveRegistration and                *)
(* ReachableOnceRegistered.                                                *)

\* A SuccessfulRegistration is in the mailbox of a listener that still waits.
Answered(c) ==
    /\ pc[c] = "waiting"
    /\ \E i \in 1..Len(mailbox[c]) : mailbox[c][i] = "SuccessfulRegistration"

Holds(c) == Registered(c) \/ Answered(c)

InTable(c) == c \in Targets(table[Ep(c)])

InFib(c) ==
    /\ Kind(c) = "Unicast" => fib[Ep(c)].to = {c}
    /\ Kind(c) = "Broadcast" => c \in fib[Ep(c)].to
    /\ Kind(c) = "Anycast" => fib[Ep(c)].to # {}

\* The routes of an entry are of listeners that asked for that endpoint and
\* kind, and a unicast entry has one target.
TableConsistent ==
    \A e \in Endpoints :
        /\ table[e].kind = "None" => table[e].routes = {}
        /\ \A r \in table[e].routes : Ep(r.via) = e /\ Kind(r.via) = table[e].kind
        /\ table[e].kind = "Unicast" =>
             \A r, q \in table[e].routes : r.via = q.via

NotifyConsistent ==
    /\ router \in {"Listen", "Stopped"} => notify = {}
    /\ router \in {"RouteChange", "Notify"} => \A c \in notify : InTable(c)
    /\ router = "Notify" => \A c \in notify : InFib(c)

HoldersInTable == router # "Stopped" => \A c \in Channels : Holds(c) => InTable(c)

HoldersInFib == \A c \in Channels : Holds(c) => InFib(c)

HoldersCompatible ==
    \A c, d \in Channels :
        c # d /\ Holds(c) /\ Holds(d) /\ Ep(c) = Ep(d)
          => Kind(c) = Kind(d) /\ Kind(c) # "Unicast"

IInv ==
    /\ TypeOK
    /\ TableConsistent
    /\ NotifyConsistent
    /\ HoldersInTable
    /\ HoldersInFib
    /\ HoldersCompatible

=============================================================================
