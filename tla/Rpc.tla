-------------------------------- MODULE Rpc --------------------------------
(***************************************************************************)
(* Requests and replies over the bus: RequestHelper and rpc_once           *)
(* (handle.rs), RpcRequest (receivers/rpc_receiver.rs) and the task of a   *)
(* BusDepot (anybus.rs), which serves one request after the other and may  *)
(* itself make a request before it replies.                                *)
(*                                                                         *)
(* A reply is a message to the endpoint a helper registers for itself;     *)
(* nothing but that endpoint relates it to its request.  Depots have been  *)
(* registered; LocalBus has the steps of a registration and of a release.  *)
(***************************************************************************)
EXTENDS Naturals, Sequences, FiniteSets

CONSTANTS Clients, Depots,
          Uses,        \* the depot a depot makes a request to before it replies
          Patient,     \* clients that see a request through, and stop after a shutdown
          Once,        \* clients that use rpc_once
          Misfits,     \* requests, as <<client, number>>, the depots cannot read
          Mailed,      \* depots that are also sent messages which are no requests
          MaxCalls,    \* bound: requests of a client
          MailboxCap   \* capacity of a channel

None == 0
Callers == Clients \cup Depots
Reusing == Clients \ Once     \* those who keep a helper for several requests

ASSUME RpcTyped ==
    /\ None \notin Callers /\ Uses \in [Depots -> Depots \cup {None}]
    /\ Patient \subseteq Clients /\ Once \subseteq Clients
    /\ Misfits \subseteq Clients \X Nat /\ Mailed \subseteq Depots
    /\ MaxCalls \in Nat /\ MailboxCap \in Nat \ {0}

VARIABLES
    router,    \* "up" or "Stopped"
    helper,    \* a caller's RequestHelper
    gen,       \* helpers a caller has had: the last one's endpoint is <<c, gen[c]>>
    rx,        \* ClientMessages in its channel
    calls,     \* requests a caller has made; the number of the last one
    answer,    \* the request whose reply it took for the last one's
    inbox,     \* ClientMessages in a depot's channel
    serving,   \* the request a depot is at
    todo       \* has it yet to make a request for that?

call == <<helper, gen, rx, calls, answer>>
work == <<inbox, serving, todo>>
vars == <<router, call, work>>

Shutdown == [type |-> "Shutdown"]
Reply(k) == [type |-> "Message", id |-> k]
Plain    == [type |-> "Plain"]      \* a message without a reply_to
Idle     == [from |-> None, gen |-> 0, id |-> 0]

Init ==
    /\ router = "up"
    /\ helper = [c \in Callers |-> "none"]
    /\ gen = [c \in Callers |-> 0]
    /\ rx = [c \in Callers |-> <<>>]
    /\ calls = [c \in Callers |-> 0]
    /\ answer = [c \in Callers |-> None]
    /\ inbox = [e \in Depots |-> <<>>]
    /\ serving = [e \in Depots |-> Idle]
    /\ todo = [e \in Depots |-> FALSE]

\* Mutant of TrySend: the channel has no capacity.
TrySendUnbounded(q, m) == Append(q, m)

\* try_send: a message to a full channel is lost.
TrySend(q, m) == IF Len(q) < MailboxCap THEN Append(q, m) ELSE q

-----------------------------------------------------------------------------
(* RequestHelper.                                                          *)

\* rpc_helper asks the router for an endpoint of its own ...
RpcHelper(c) ==
    /\ helper[c] = "none"
    /\ helper' = [helper EXCEPT ![c] = "registering"]
    /\ gen' = [gen EXCEPT ![c] = @ + 1]
    /\ UNCHANGED <<router, rx, calls, answer, work>>

\* ... and waits for the answer, for ever if the router is gone: it keeps a
\* sender of its own channel, which does not close.
RegisterEndpoint(c) ==
    /\ router = "up"
    /\ helper[c] = "registering"
    /\ helper' = [helper EXCEPT ![c] = "ready"]
    /\ UNCHANGED <<router, gen, rx, calls, answer, work>>

\* After a call.  A helper may be used again also when the bus has shut down.
Returned(c, shutdown) ==
    helper' = [helper EXCEPT ![c] =
        IF c \in Reusing /\ ~(shutdown /\ c \in Patient) THEN "ready" ELSE "finished"]

\* request, request_to_uuid: the request is sent, or the call fails.
Request(c, e) ==
    /\ helper[c] = "ready"
    /\ calls' = [calls EXCEPT ![c] = @ + 1]
    /\ answer' = [answer EXCEPT ![c] = None]
    /\ IF Len(inbox[e]) < MailboxCap
       THEN /\ inbox' = [inbox EXCEPT ![e] =
                            Append(@, [from |-> c, gen |-> gen[c], id |-> calls'[c]])]
            /\ helper' = [helper EXCEPT ![c] = "waiting"]
       ELSE Returned(c, FALSE) /\ UNCHANGED inbox
    /\ UNCHANGED <<router, gen, rx, serving, todo>>

\* The first message is the answer, or the bus has shut down.  A reply that does
\* not deserialize ends the call as well.
Receive(c) ==
    /\ helper[c] = "waiting"
    /\ rx[c] # <<>>
    /\ LET m == Head(rx[c])
       IN  /\ Returned(c, m = Shutdown)
           /\ answer' = [answer EXCEPT ![c] = IF m = Shutdown THEN @ ELSE m.id]
    /\ rx' = [rx EXCEPT ![c] = Tail(@)]
    /\ UNCHANGED <<router, gen, calls, work>>

\* Drop for RequestHelper.
Dropped(c) ==
    /\ helper' = [helper EXCEPT ![c] = "none"]
    /\ rx' = [rx EXCEPT ![c] = <<>>]
    /\ UNCHANGED <<router, gen, calls, answer>>

\* The future of a request is dropped before the answer comes (a timeout, a
\* select); rpc_once takes its helper with it.
Abandons(c) ==
    /\ c \notin Patient
    /\ helper[c] = "waiting"
    /\ IF c \in Once THEN Dropped(c)
       ELSE Returned(c, FALSE) /\ UNCHANGED <<router, gen, rx, calls, answer>>
    /\ UNCHANGED work

Client(c) ==
    \/ /\ calls[c] < MaxCalls /\ gen[c] <= calls[c]  \* bound: not more helpers than calls
       /\ RpcHelper(c)
    \/ calls[c] < MaxCalls /\ \E e \in Depots : Request(c, e)
    \/ helper[c] \in {"ready", "finished"} /\ Dropped(c) /\ UNCHANGED work
    \/ Abandons(c)

-----------------------------------------------------------------------------
(* The task of a depot.                                                    *)

\* recv_rpc fails: Shutdown, RpcNoReplyTo or DeserializationError.
Unreadable(m) == m \in {Shutdown, Plain} \/ <<m.from, m.id>> \in Misfits

\* RpcReceiver::recv.  An error only ends the inner loop: the message is gone and
\* whoever waits for a reply to it gets none.
DepotRecv(e) ==
    /\ serving[e] = Idle
    /\ inbox[e] # <<>>
    /\ inbox' = [inbox EXCEPT ![e] = Tail(@)]
    /\ IF Unreadable(Head(inbox[e])) THEN UNCHANGED <<serving, todo>>
       ELSE /\ serving' = [serving EXCEPT ![e] = Head(inbox[e])]
            /\ todo' = [todo EXCEPT ![e] = Uses[e] # None]
    /\ UNCHANGED <<router, call>>

\* on_request makes its own request with rpc_once.
OnRequest(e) ==
    /\ todo[e]
    /\ \/ RpcHelper(e)
       \/ Request(e, Uses[e])
       \/ /\ helper[e] = "finished"
          /\ Dropped(e)
          /\ todo' = [todo EXCEPT ![e] = FALSE]
          /\ UNCHANGED <<inbox, serving>>

\* Mutant of Delivered: a caller's helpers share one endpoint.
DeliveredToLast(c, g, m) ==
    IF helper[c] # "none" THEN [rx EXCEPT ![c] = TrySend(@, m)] ELSE rx

\* Has the helper a route?
Routed(c) == helper[c] \notin {"none", "registering"}

\* m to the endpoint of a caller's g-th helper, if that is still there.
Delivered(c, g, m) ==
    IF g = gen[c] /\ Routed(c) THEN [rx EXCEPT ![c] = TrySend(@, m)] ELSE rx

\* Mutant of DepotReply: a request that made one itself gets no reply.
DepotReplyForgets(e) ==
    /\ serving[e] # Idle
    /\ ~todo[e]
    /\ rx' = IF Uses[e] # None THEN rx
             ELSE Delivered(serving[e].from, serving[e].gen, Reply(serving[e].id))
    /\ serving' = [serving EXCEPT ![e] = Idle]
    /\ UNCHANGED <<router, helper, gen, calls, answer, inbox, todo>>

\* RpcRequest::reply; a failure is ignored.
DepotReply(e) ==
    /\ serving[e] # Idle
    /\ ~todo[e]
    /\ rx' = Delivered(serving[e].from, serving[e].gen, Reply(serving[e].id))
    /\ serving' = [serving EXCEPT ![e] = Idle]
    /\ UNCHANGED <<router, helper, gen, calls, answer, inbox, todo>>

\* Handle::send to a depot's endpoint, by anybody.
Send(e) ==
    /\ inbox' = [inbox EXCEPT ![e] = TrySend(@, Plain)]
    /\ UNCHANGED <<router, call, serving, todo>>

\* The router tells everybody with a route; the published table stays, so that
\* requests and replies still arrive.
RouterShutdown ==
    /\ router = "up"
    /\ router' = "Stopped"
    /\ rx' = [c \in Callers |-> IF Routed(c) THEN TrySend(rx[c], Shutdown) ELSE rx[c]]
    /\ inbox' = [e \in Depots |-> TrySend(inbox[e], Shutdown)]
    /\ UNCHANGED <<helper, gen, calls, answer, serving, todo>>

-----------------------------------------------------------------------------
Depot(e) == DepotRecv(e) \/ OnRequest(e) \/ DepotReply(e)

Next ==
    \/ RouterShutdown
    \/ \E c \in Clients : Client(c)
    \/ \E e \in Depots : Depot(e)
    \/ \E e \in Mailed : Send(e)
    \/ \E c \in Callers : RegisterEndpoint(c) \/ Receive(c)

Spec == Init /\ [][Next]_vars

\* The router, depots and calls under way run on; a client need not go on.
FairSpec ==
    /\ Spec
    /\ \A e \in Depots : WF_vars(Depot(e))
    /\ \A c \in Callers : WF_vars(RegisterEndpoint(c) \/ Receive(c))

-----------------------------------------------------------------------------
(* Properties.                                                             *)

Replies == [type : {"Message"}, id : Nat]

\* The types of the variables, and the channels' capacity.
TypeOK ==
    /\ router \in {"up", "Stopped"}
    /\ helper \in [Callers -> {"none", "registering", "ready", "waiting", "finished"}]
    /\ gen \in [Callers -> Nat] /\ calls \in [Callers -> Nat] /\ answer \in [Callers -> Nat]
    /\ \A c \in Callers : /\ Len(rx[c]) <= MailboxCap
                          /\ rx[c] \in Seq(Replies \cup {Shutdown})
    /\ \A e \in Depots : /\ Len(inbox[e]) <= MailboxCap
                         /\ inbox[e] \in Seq([from : Callers, gen : Nat, id : Nat]
                                            \cup {Shutdown, Plain})
    /\ serving \in [Depots -> [from : Callers \cup {None}, gen : Nat, id : Nat]]
    /\ todo \in [Depots -> BOOLEAN]

Requests ==
    (UNION { {serving[e]} \cup { inbox[e][i] : i \in 1..Len(inbox[e]) } : e \in Depots })
        \ {Idle, Shutdown, Plain}

Abstract == INSTANCE RequestReply WITH
    waiting <- {c \in Callers : helper[c] = "waiting"},
    last    <- calls,
    result  <- answer,
    open    <- { <<r.from, r.id>> : r \in Requests }

\* Calls over helpers, channels and depots are calls of RequestReply: each request
\* is served once or cannot be read, its caller gets the reply only after it was
\* served, and the reply is to that request, also when replies to requests that
\* were given up come later or after a new helper has been made.
ImplementsRequestReply == Abstract!Spec

\* No depot comes to wait for itself by way of the requests depots make.
NoCircle ==
    \E rank \in [Depots -> 0..Cardinality(Depots)] :
        \A e \in Depots : Uses[e] # None => rank[Uses[e]] < rank[e]

\* A call whose request the depots can read ends: with the reply, also when the
\* depot waits for the reply of another one first and when messages that nobody
\* can read are ahead of the request, or because the bus shuts down.
CallsEnd ==
    NoCircle =>
        \A c \in Callers :
            helper[c] = "waiting" /\ <<c, calls[c]>> \notin Misfits ~> helper[c] # "waiting"
=============================================================================
