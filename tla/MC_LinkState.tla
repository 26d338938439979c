---------------------------- MODULE MC_LinkState ----------------------------
(* Small networks for LinkState, and what happens in them.                 *)
EXTENDS LinkState, TLC

CONSTANTS c1, c2, e1

IpcRealms == {"Userspace", "Global"}
WsRealms  == {"Global"}

Connection(a, b, cost, realms) == [a |-> a, b |-> b, cost |-> cost, realms |-> realms]

\* Node 1 and 2 share a user, node 3 is reached from node 2 over a WebSocket.
LineNet == 12 :> Connection(1, 2, 1, IpcRealms) @@ 23 :> Connection(2, 3, 2, WsRealms)

\* Two nodes and one connection, or two, one after the other or at once.
PairNet == 12 :> Connection(1, 2, 1, IpcRealms)
TwinNet == PairNet @@ 21 :> Connection(1, 2, 1, IpcRealms)

At(n, kind, realm, cost) ==
    [node |-> n, ep |-> e1, info |-> [kind |-> kind, realm |-> realm, cost |-> cost]]

\* One listener only the user may reach.
UserListener == c1 :> At(1, "Unicast", "Userspace", 0)

\* Anycast listeners on one node, or on two.
OneAnycast == c1 :> At(1, "Anycast", "Global", 1)
TwoAnycast == OneAnycast @@ c2 :> At(2, "Anycast", "Global", 2)

\* Nothing is lost, changes or goes away.
Calm(net, listener) ==
    [net |-> net, listener |-> listener, costs |-> {}, maxSeq |-> 0, lossy |-> FALSE,
     timers |-> {}, mayBreak |-> {}, mayClose |-> {}, mayStop |-> {}]

\* A listener of the user registers and drops while the line comes up.
Dropping == [Calm(LineNet, UserListener) EXCEPT !.mayClose = {c1}]

\* A listener whose cost changes while the line comes up.
Converge == [Calm(LineNet, OneAnycast) EXCEPT !.costs = {4}, !.maxSeq = 1]

\* LSAs are refreshed and change while the connection comes up.
Refresh == [Calm(PairNet, OneAnycast) EXCEPT !.costs = {4}, !.maxSeq = 2, !.timers = {1, 2}]

\* Two connections between the same nodes, one of which breaks.
Reconnect == [Calm(TwinNet, <<>>) EXCEPT !.mayBreak = {12}]

\* Two anycast listeners; costs change, one drops, and the connection breaks.
Break == [Calm(PairNet, TwoAnycast) EXCEPT
            !.costs = {2}, !.maxSeq = 1, !.lossy = TRUE, !.mayBreak = {12}, !.mayClose = {c1}]

\* Node 1 shuts down or dies; time passes on both nodes.
Stopping == [Calm(PairNet, OneAnycast) EXCEPT
            !.costs = {2}, !.maxSeq = 1, !.lossy = TRUE, !.timers = {1, 2},
            !.mayBreak = {12}, !.mayStop = {1}]

AllScenarios == {Dropping, Converge, Refresh, Reconnect, Break, Stopping}

\* Node 1 goes, and its listener with it.
DepartedScenarios ==
    {[Calm(PairNet, UserListener) EXCEPT !.timers = {1, 2}, !.mayStop = {1}]}

\* Of two anycast listeners on two nodes one drops.
ServedScenarios == {[Calm(PairNet, TwoAnycast) EXCEPT !.mayClose = {c1}]}
=============================================================================
