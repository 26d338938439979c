------------------------------ MODULE WsManager ------------------------------
(***************************************************************************)
(* The WebSocket manager (peers/ws/ws_manager.rs): it dials the configured *)
(* peers, takes what its listener accepts, keeps a list of the sessions    *)
(* and dials again, after a backoff, what has failed or was closed.        *)
(*                                                                         *)
(* A connection is followed through one slot, from the attempt to the end  *)
(* of its session (WsPeer has the session itself).  Waiting times are what *)
(* is left until when_ready; num_attempts counts up to MaxExponent, beyond *)
(* which it changes nothing.                                               *)
(***************************************************************************)
EXTENDS Integers, Sequences, FiniteSets, SequencesExt

CONSTANTS Configs,      \* WebSocketPeerConfigs
          Configured,   \* those the bus is started with
          Url,          \* the URL in each
          Remote,       \* the node found at each
          Nodes,        \* nodes that may dial in
          MaxExponent,  \* cap of the backoff's exponent (8 in the code)
          EqualInstants, \* may two instants be the same?
          Slots,        \* bound: connections at a time
          MaxIncidents  \* bound: configured peers, requests, accepted
                        \* connections and lost sessions

Inbound == "Inbound"   \* StreamDirection of an accepted connection

Backoff(n) == 2 ^ n

\* Inbound is no configuration, and every connection goes back to an incident.
ManagerTypes ==
    /\ Configured \subseteq Configs /\ IsFiniteSet(Configured) /\ Inbound \notin Configs
    /\ Url \in [Configs -> Range(Url)] /\ Remote \in [Configs -> Range(Remote)]
    /\ MaxExponent \in Nat \ {0} /\ MaxIncidents \in Nat /\ EqualInstants \in BOOLEAN
    /\ \A n \in 0..MaxExponent : Backoff(n) \in Nat
    /\ Cardinality(Configured) <= MaxIncidents
    /\ Slots = 1..MaxIncidents

ASSUME ManagerTyped == ManagerTypes

VARIABLES
    mode,          \* "Listen", or "gone" after Shutdown
    listening,     \* is the listener's task alive?
    pending,       \* pending_peers
    disconnected,  \* disconnected_peers
    current,       \* current_peers
    commands,      \* WsCommands in the manager's channel
    slots,         \* connections
    wanted,        \* history: configurations given and not removed
    incidents      \* how much has come from outside so far

lists == <<pending, disconnected, current>>
managerVars == <<mode, listening, lists, commands, slots, wanted, incidents>>

Ended == [stage |-> "ended"]

\* connect_to_peer and handshake_peer, on its way in a NewWsStream, run_ws_peer,
\* run_ws_peer before it sends PeerClosed, run_ws_peer with a Shutdown in its
\* channel.
Stage == {"dial", "new", "open", "telling", "ordered"}

\* Fields of WsCommand that a variant has not got.
Nobody == "Nobody"

NewWsStream(i) == [type |-> "NewWsStream", slot |-> i, peer |-> Nobody]
PeerClosed(n) == [type |-> "PeerClosed", slot |-> 0, peer |-> n]
QueueReconnect(p) == [type |-> "QueueReconnect", slot |-> 0, peer |-> p]

\* WsPendingPeer
Pending(c) == [config |-> c, attempts |-> 0]

ManagerInit ==
    /\ mode = "Listen"
    /\ listening \in BOOLEAN
    /\ wanted = Configured
    /\ pending \in SetToSeqs(Configured)
    /\ incidents = Cardinality(Configured)
    /\ disconnected = <<>>
    /\ current = <<>>
    /\ commands = <<>>
    /\ slots = [i \in Slots |-> Ended]

-----------------------------------------------------------------------------
(* Lists and slots.                                                        *)

\* A slot can be used again once nothing refers to it.
Usable(i) == slots[i] = Ended /\ \A k \in DOMAIN current : current[k].slot # i

Connection(stage, direction, n, node) ==
    [stage |-> stage, direction |-> direction, attempts |-> n, node |-> node]

\* A connection begins.
Begin(c) == \E i \in Slots : /\ Usable(i)
                             /\ \A j \in Slots : Usable(j) => i <= j
                             /\ slots' = [slots EXCEPT ![i] = c]

Stages(i, s) == slots' = [slots EXCEPT ![i].stage = s]
Frees(i) == slots' = [slots EXCEPT ![i] = Ended]

\* Vec::retain: the entries of s at these positions, in their order.
Retained(s, kept) ==
    {[j \in DOMAIN f |-> s[f[j]]] :
        f \in {g \in [1..Cardinality(kept) -> kept] :
                 \A i, j \in DOMAIN g : i < j => g[i] < g[j]}}

\* The command of a task that ends with it; nobody receives it after Shutdown.
Sends(c) == commands' = IF mode = "gone" THEN commands ELSE Append(commands, c)

\* Mutant of Ready: a peer is given up at the longest backoff.
ReadyGivesUp ==
    /\ disconnected # <<>> /\ disconnected[1].wait = 0
    /\ disconnected[1].attempts < MaxExponent

Ready == disconnected # <<>> /\ disconnected[1].wait = 0

\* What listen() does before it waits.
Busy == pending # <<>> \/ Ready

Waiting == mode = "Listen" /\ ~Busy

\* Mutant of Schedule: a new entry goes to the end.
ScheduleLast(p, t) ==
    disconnected' = Append(disconnected, [config |-> p.config, attempts |-> p.attempts,
                                          wait |-> t])

\* binary_search_by_key(..).err().map(insert): an entry with the same instant
\* as one that is there is not inserted.
Schedule(p, t) ==
    LET e == [config |-> p.config, attempts |-> p.attempts, wait |-> t]
        K == {k \in 1..Len(disconnected) + 1 :
                /\ \A i \in 1..k - 1 : disconnected[i].wait <= t
                /\ \A i \in k..Len(disconnected) : t <= disconnected[i].wait}
        same == EqualInstants /\ \E i \in DOMAIN disconnected : disconnected[i].wait = t
    IN  disconnected' \in {InsertAt(disconnected, k, e) : k \in K}
                          \cup IF same THEN {disconnected} ELSE {}

-----------------------------------------------------------------------------
(* The manager.                                                            *)

\* listen with a pending peer, then connect_remote.
ConnectPending ==
    /\ mode = "Listen"
    /\ pending # <<>>
    /\ pending' = Front(pending)
    /\ LET c == Last(pending) IN Begin(Connection("dial", c, 0, Remote[c]))
    /\ UNCHANGED <<mode, listening, disconnected, current, commands, wanted, incidents>>

\* get_next_ready_peer, then connect_remote.
ConnectReady ==
    /\ mode = "Listen"
    /\ pending = <<>>
    /\ Ready
    /\ disconnected' = Tail(disconnected)
    /\ LET p == Head(disconnected)
       IN  Begin(Connection("dial", p.config, p.attempts, Remote[p.config]))
    /\ UNCHANGED <<mode, listening, pending, current, commands, wanted, incidents>>

\* NewWsStream, new_ws_stream.
HandleNewWsStream(cmd) ==
    /\ cmd.type = "NewWsStream"
    /\ LET i == cmd.slot
       IN  /\ current' = Append(current, [peer |-> slots[i].node, slot |-> i,
                                          direction |-> slots[i].direction])
           /\ Stages(i, "open")
    /\ UNCHANGED disconnected

\* PeerClosed: the first entry of that node goes; if it is an outbound one it is
\* scheduled with a new backoff.
HandlePeerClosed(cmd) ==
    /\ cmd.type = "PeerClosed"
    /\ LET mine == {k \in DOMAIN current : current[k].peer = cmd.peer}
           first == CHOOSE k \in mine : \A j \in mine : k <= j
       IN  \/ mine = {} /\ UNCHANGED <<current, disconnected>>
           \/ /\ mine # {}
              /\ current' = RemoveAt(current, first)
              /\ IF current[first].direction = Inbound
                 THEN UNCHANGED disconnected
                 ELSE Schedule(Pending(current[first].direction), Backoff(0))
    /\ UNCHANGED slots

\* Mutant of HandleQueueReconnect: the exponent is not capped.
HandleQueueReconnectUncapped(cmd) ==
    /\ cmd.type = "QueueReconnect"
    /\ Schedule([cmd.peer EXCEPT !.attempts = @ + 1], Backoff(cmd.peer.attempts + 1))
    /\ UNCHANGED <<slots, current>>

\* QueueReconnect: record_attempt.
HandleQueueReconnect(cmd) ==
    /\ cmd.type = "QueueReconnect"
    /\ LET n == IF cmd.peer.attempts < MaxExponent THEN cmd.peer.attempts + 1
                                                   ELSE MaxExponent
       IN  Schedule([cmd.peer EXCEPT !.attempts = n], Backoff(n))
    /\ UNCHANGED <<slots, current>>

\* handle_command
HandleCommand ==
    /\ Waiting
    /\ commands # <<>>
    /\ commands' = Tail(commands)
    /\ LET cmd == Head(commands)
       IN  HandleNewWsStream(cmd) \/ HandlePeerClosed(cmd) \/ HandleQueueReconnect(cmd)
    /\ UNCHANGED <<mode, listening, pending, wanted, incidents>>

Incident ==
    /\ incidents < MaxIncidents
    /\ incidents' = incidents + 1

Known(c) ==
    \/ \E i \in DOMAIN pending : pending[i] = c
    \/ \E i \in DOMAIN disconnected : disconnected[i].config = c
    \/ \E i \in DOMAIN current : current[i].direction = c

\* add_ws_peer: a peer that is being dialled is not known.
AddWsPeer(c) ==
    /\ Waiting
    /\ Incident
    /\ \/ Known(c) /\ UNCHANGED <<pending, wanted>>
       \/ /\ ~Known(c)
          /\ pending' = Append(pending, c)
          /\ wanted' = wanted \cup {c}
    /\ UNCHANGED <<mode, listening, disconnected, current, commands, slots>>

Outbound(a, u) == a.direction # Inbound /\ Url[a.direction] = u

\* remove_ws_peer: all waiting entries and the first session with that URL go;
\* one that is being dialled is not found.
RemoveWsPeer(u) ==
    /\ Waiting
    /\ Incident
    /\ pending' \in Retained(pending, {k \in DOMAIN pending : Url[pending[k]] # u})
    /\ disconnected' \in Retained(disconnected,
                                  {k \in DOMAIN disconnected : Url[disconnected[k].config] # u})
    /\ LET mine == {k \in DOMAIN current : Outbound(current[k], u)}
           idx == CHOOSE k \in mine : \A j \in mine : k <= j
       IN  \/ mine = {} /\ UNCHANGED <<current, slots>>
           \/ /\ mine # {}
              /\ current' = RemoveAt(current, idx)
              /\ slots' = [slots EXCEPT ![current[idx].slot].stage =
                              IF @ = "open" THEN "ordered" ELSE @]
    /\ wanted' = IF lists' = lists THEN wanted ELSE {c \in wanted : Url[c] # u}
    /\ UNCHANGED <<mode, listening, commands>>

\* on_resume; what a session does with the Resume is in WsPeer.
OnResume ==
    /\ Waiting
    /\ Incident
    /\ disconnected' = [i \in DOMAIN disconnected |->
                          [disconnected[i] EXCEPT !.attempts = 0, !.wait = 0]]
    /\ UNCHANGED <<mode, listening, pending, current, commands, slots, wanted>>

\* Shutdown, notify_peers; the manager's lists and its channel are dropped.
Shutdown ==
    /\ Waiting
    /\ Incident
    /\ mode' = "gone"
    /\ slots' = [i \in Slots |->
                  IF /\ slots[i].stage = "open"
                     /\ \E k \in DOMAIN current : current[k].slot = i
                  THEN [slots[i] EXCEPT !.stage = "ordered"] ELSE slots[i]]
    /\ pending' = <<>> /\ disconnected' = <<>> /\ current' = <<>>
    /\ commands' = <<>>
    /\ wanted' = {}
    /\ UNCHANGED listening

-----------------------------------------------------------------------------
(* The tasks it spawns.                                                    *)

In(i, stage) == slots[i].stage = stage

\* A task ends and gives the peer back, if it was one to dial.
GivesUp(i) ==
    /\ Frees(i)
    /\ \/ slots[i].direction = Inbound /\ UNCHANGED commands
       \/ /\ slots[i].direction # Inbound
          /\ Sends(QueueReconnect([config |-> slots[i].direction,
                                   attempts |-> slots[i].attempts]))

\* Mutant of HandshakePeer: a failed attempt is not given back.
HandshakePeerForgets(i) ==
    /\ In(i, "dial")
    /\ \/ Stages(i, "new") /\ Sends(NewWsStream(i))
       \/ Frees(i) /\ UNCHANGED commands
    /\ UNCHANGED <<mode, listening, lists, wanted, incidents>>

\* connect_to_peer, which may fail, and handshake_peer: the other side's Hello
\* comes within 5 seconds, or not.
HandshakePeer(i) ==
    /\ In(i, "dial")
    /\ \/ /\ IF mode = "gone" THEN Frees(i) ELSE Stages(i, "new")
          /\ Sends(NewWsStream(i))
       \/ GivesUp(i)
    /\ UNCHANGED <<mode, listening, lists, wanted, incidents>>

\* run_ws_listener: a connection is accepted.
Accept(n) ==
    /\ listening
    /\ Incident
    /\ Begin(Connection("dial", Inbound, 0, n))
    /\ UNCHANGED <<mode, listening, lists, commands, wanted>>

\* The WebSocket handshake of a connection fails: with TLS the loop goes on,
\* without it the unwrap ends the task.
AcceptFails ==
    /\ listening
    /\ Incident
    /\ listening' \in BOOLEAN
    /\ UNCHANGED <<mode, lists, commands, slots, wanted>>

\* run_ws_peer: the other side closes, or the transport is dead.
SessionLost(i) ==
    /\ In(i, "open") \/ In(i, "ordered")
    /\ Incident
    /\ Stages(i, "telling")
    /\ UNCHANGED <<mode, listening, lists, commands, wanted>>

\* The heartbeat has timed out or a second Hello came: close(Local).
SessionCloses(i) ==
    /\ In(i, "open")
    /\ Incident
    /\ Frees(i)
    /\ UNCHANGED <<mode, listening, lists, commands, wanted>>

\* NotifyPeerClosed
Tell(i) ==
    /\ In(i, "telling")
    /\ Frees(i)
    /\ Sends(PeerClosed(slots[i].node))
    /\ UNCHANGED <<mode, listening, lists, wanted, incidents>>

\* The Shutdown is taken: close(Local).
Obey(i) ==
    /\ In(i, "ordered")
    /\ Frees(i)
    /\ UNCHANGED <<mode, listening, lists, commands, wanted, incidents>>

\* Time passes while the manager has nothing to do.
Elapse ==
    /\ Waiting
    /\ commands = <<>>
    /\ disconnected # <<>>
    /\ disconnected' = [i \in DOMAIN disconnected |->
                          [disconnected[i] EXCEPT !.wait = IF @ > 0 THEN @ - 1 ELSE 0]]
    /\ UNCHANGED <<mode, listening, pending, current, commands, slots, wanted, incidents>>

-----------------------------------------------------------------------------
Manage == ConnectPending \/ ConnectReady \/ HandleCommand

Task(i) == HandshakePeer(i) \/ Tell(i) \/ Obey(i)

ManagerNext ==
    \/ Manage \/ OnResume \/ Shutdown \/ AcceptFails \/ Elapse
    \/ \E c \in Configs : AddWsPeer(c) \/ RemoveWsPeer(Url[c])
    \/ \E n \in Nodes : Accept(n)
    \/ \E i \in Slots : Task(i) \/ SessionLost(i) \/ SessionCloses(i)

ManagerSpec == ManagerInit /\ [][ManagerNext]_managerVars

\* The runtime polls the manager and its tasks, attempts to connect end, and
\* time passes.
ManagerFairSpec ==
    /\ ManagerSpec
    /\ WF_managerVars(Manage) /\ WF_managerVars(Elapse)
    /\ \A i \in Slots : WF_managerVars(Task(i))

-----------------------------------------------------------------------------
(* Properties.                                                             *)

Dialled(c) == \E i \in Slots : /\ In(i, "dial") \/ In(i, "new")
                               /\ slots[i].direction = c

Returned(c) == \E k \in DOMAIN commands : /\ commands[k].type = "QueueReconnect"
                                          /\ commands[k].peer.config = c

\* The types of the variables.
ManagerTypeOK ==
    /\ mode \in {"Listen", "gone"} /\ listening \in BOOLEAN
    /\ pending \in Seq(Configs)
    /\ \A i \in DOMAIN disconnected :
          disconnected[i] \in [config : Configs, attempts : 0..MaxExponent, wait : Nat]
    /\ \A i \in DOMAIN current :
          current[i] \in [peer : Nodes \cup Range(Remote), slot : Slots,
                          direction : Configs \cup {Inbound}]
    /\ \A k \in DOMAIN commands :
          commands[k].type \in {"NewWsStream", "PeerClosed", "QueueReconnect"}
    /\ \A i \in Slots : slots[i] = Ended \/ slots[i].stage \in Stage
    /\ wanted \subseteq Configs /\ incidents \in 0..MaxIncidents

\* A peer that was configured or added and not removed is always somewhere: it
\* waits, is dialled, comes back from a failed attempt or has an entry, however
\* attempts, failures, close notifications and requests follow each other.
NoPeerForgotten ==
    \A c \in wanted : Known(c) \/ Dialled(c) \/ Returned(c)

\* The first entry of disconnected_peers is the one that is due first, which
\* get_next_timeout and get_next_ready_peer rely on.
EarliestFirst ==
    \A i \in DOMAIN disconnected : disconnected[1].wait <= disconnected[i].wait

\* A peer that waits is dialled again, unless it is removed or the bus shuts down
\* (listen, get_next_timeout).
WaitingIsDialled ==
    \A c \in Configs :
        (\E i \in DOMAIN disconnected : disconnected[i].config = c)
            ~> (Dialled(c) \/ c \notin wanted)

\* A session with a configured peer that has ended is followed by a new attempt
\* ("If the peer was a remote peer, schedule a reconnect", handle_command).
LostPeersAreRetried ==
    \A c \in Configs :
        (c \in wanted /\ \A i \in Slots : ~(In(i, "open") /\ slots[i].direction = c))
            ~> (Dialled(c) \/ c \notin wanted)
=============================================================================
