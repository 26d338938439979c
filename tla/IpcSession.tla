----------------------------- MODULE IpcSession -----------------------------
(***************************************************************************)
(* IPC connections between two nodes (peers/ipc/ipc_peer.rs) and what      *)
(* their managers know of them (HandleIpcCommand and DialPeers of          *)
(* peers/ipc/ipc_manager.rs).  Either node may dial the other, also both   *)
(* at once; a session begins with a Hello each way and ends with a close   *)
(* message, the end of the stream or a heartbeat timeout.                  *)
(*                                                                         *)
(* Sockets take what is written; time is left out: a timeout may happen    *)
(* whenever its cause is there.  Pings and node messages change nothing    *)
(* here, nor does what a session tells its router: RegisterPeer and        *)
(* UnRegisterPeer go out by tasks of their own, in any order, and nothing  *)
(* waits for them (LinkState has the routers' side).                       *)
(***************************************************************************)
EXTENDS Integers, Sequences, FiniteSets, SequencesExt

CONSTANTS Conns,       \* bound: connections at a time
          MaxDials,    \* bound: dials because of a directory
          MaxFaults    \* bound: timeouts, shutdowns

ASSUME SessionTyped ==
    Conns \subseteq Nat \ {0} /\ MaxDials \in Nat /\ MaxFaults \in Nat

Nodes == {1, 2}        \* NodeIds; the first is the older one
Other(n) == 3 - n

VARIABLES
    manager,   \* of each node: "on", "soft" (shutting_down) or "gone"
    peers,     \* the connection in the entry for the other node, or None
    pending,   \* is the other node in pending?
    commands,  \* IpcCommands in the manager's channel
    dialler,   \* who dialled a connection
    stage,     \* state of the session at each end of a connection
    wire,      \* IpcMessages to each end
    control,   \* IpcControls to each end
    late,      \* history: has a manager taken longer than HANDSHAKE_TIMEOUT?
    dials, faults

mgr  == <<manager, peers, pending>>
ends == <<dialler, stage, wire, control>>
vars == <<mgr, commands, ends, late, dials, faults>>

None == 0

IpcCommand == {"PeerClosed", "SessionReady", "HandshakeFailed", "LearnedPeers"}

\* Hello and KnownPeers name the sender; EOF is the end of the stream.
IpcMessage == {"Hello", "KnownPeers", "CloseConnection", "EOF"}

\* "backlog": not yet accepted; "Hello": sent ours and waits for theirs;
\* "Ready": waits for Accepted; "Open": established.
Stage == {"unused", "backlog", "Hello", "Ready", "Open", "done"}

Init ==
    /\ manager = [n \in Nodes |-> "on"]
    /\ peers = [n \in Nodes |-> None]
    /\ pending = [n \in Nodes |-> FALSE]
    /\ commands = [n \in Nodes |-> <<>>]
    /\ dialler = [c \in Conns |-> None]
    /\ stage = [c \in Conns |-> [n \in Nodes |-> "unused"]]
    /\ wire = [c \in Conns |-> [n \in Nodes |-> <<>>]]
    /\ control = [c \in Conns |-> [n \in Nodes |-> <<>>]]
    /\ late = FALSE /\ dials = 0 /\ faults = 0

Dial == dials < MaxDials /\ dials' = dials + 1 /\ UNCHANGED <<faults, late>>
Timeout == faults < MaxFaults /\ faults' = faults + 1 /\ UNCHANGED dials
Fault == Timeout /\ UNCHANGED late
Quietly == UNCHANGED <<dials, faults, late>>

\* To the manager; nobody receives it once that is gone.
Command(n, t, c) ==
    commands' = IF manager[n] = "gone" THEN commands
                ELSE [commands EXCEPT ![n] = Append(@, [type |-> t, conn |-> c])]

\* w with m written to the far end of n, unless that has closed.
Written(w, c, n, m) ==
    IF stage[c][Other(n)] = "done" THEN w
    ELSE [w EXCEPT ![c][Other(n)] = Append(@, m)]

-----------------------------------------------------------------------------
(* DialPeers, accept, spawn_peer.                                          *)

Unused(c) == \A n \in Nodes : /\ stage[c][n] \in {"unused", "done"} /\ peers[n] # c
                              /\ \A k \in DOMAIN commands[n] : commands[n][k].conn # c

\* A new session at n: it sends its Hello.
Spawned(st, w, c, n) ==
    /\ stage' = st
    /\ wire' = [w EXCEPT ![c][Other(n)] = Append(@, "Hello")]

\* Connects to the other node, if that listens.
Connect(n) ==
    LET C == {c \in Conns : Unused(c)}
        c == CHOOSE x \in C : TRUE
    IN  IF C # {} /\ manager[Other(n)] = "on"
        THEN /\ pending' = [pending EXCEPT ![n] = TRUE]
             /\ dialler' = [dialler EXCEPT ![c] = n]
             /\ Spawned([stage EXCEPT ![c] = [m \in Nodes |->
                                        IF m = n THEN "Hello" ELSE "backlog"]],
                        [wire EXCEPT ![c] = [m \in Nodes |-> <<>>]], c, n)
             /\ control' = [control EXCEPT ![c] = [m \in Nodes |-> <<>>]]
        ELSE UNCHANGED <<pending, ends>>

\* DialPeers with the other node's id.
DialPeers(n, fromDirectory) ==
    IF /\ manager[n] = "on"
       /\ peers[n] = None /\ ~pending[n]
       /\ fromDirectory \/ Other(n) > n
    THEN Connect(n) ELSE UNCHANGED <<pending, ends>>

\* A directory told n of the other node: QueryDirectory, DirectoryProbe.
FromDirectory(n) ==
    /\ manager[n] = "on"
    /\ peers[n] = None /\ ~pending[n]
    /\ Dial
    /\ DialPeers(n, TRUE)
    /\ UNCHANGED <<manager, peers, commands>>

\* Listen accepts a connection.
Accept(n, c) ==
    /\ manager[n] = "on"
    /\ stage[c][n] = "backlog"
    /\ IF stage[c][Other(n)] = "done"
       THEN stage' = [stage EXCEPT ![c][n] = "Hello"] /\ UNCHANGED wire
       ELSE Spawned([stage EXCEPT ![c][n] = "Hello"], wire, c, n)
    /\ Quietly
    /\ UNCHANGED <<mgr, commands, dialler, control>>

-----------------------------------------------------------------------------
(* The session.                                                            *)

\* The session at n ends: its stream is closed, what it leaves unread is lost.
Ends(n, c, w) ==
    /\ stage' = [stage EXCEPT ![c][n] = "done"]
    /\ wire' = Written([w EXCEPT ![c][n] = <<>>], c, n, "EOF")
    /\ control' = [control EXCEPT ![c][n] = <<>>]
    /\ UNCHANGED dialler

\* Mutant of AbortHandshake: the failure is not reported.
AbortHandshakeSilently(n, c) ==
    /\ Ends(n, c, wire)
    /\ UNCHANGED commands

\* HandshakeFailed names the other node if this end dialled.
AbortHandshake(n, c) ==
    /\ Ends(n, c, wire)
    /\ Command(n, "HandshakeFailed", IF dialler[c] = n THEN c ELSE None)

\* Mutant of ClosePeer: the manager is not told.
ClosePeerSilently(n, c, w) ==
    /\ Ends(n, c, w)
    /\ UNCHANGED commands

\* ClosePeer of an established session.
ClosePeer(n, c, w) ==
    /\ Ends(n, c, w)
    /\ Command(n, "PeerClosed", c)

\* Hello: theirs comes, or the stream ends, or ours could not be sent.
Hello(n, c) ==
    /\ stage[c][n] = "Hello"
    /\ wire[c][n] # <<>>
    /\ \/ /\ Head(wire[c][n]) = "Hello" /\ manager[n] # "gone"
          /\ wire' = [wire EXCEPT ![c][n] = Tail(@)]
          /\ stage' = [stage EXCEPT ![c][n] = "Ready"]
          /\ Command(n, "SessionReady", c)
          /\ UNCHANGED <<dialler, control>>
       \/ /\ \/ Head(wire[c][n]) # "Hello" \/ manager[n] = "gone"
             \/ stage[c][Other(n)] = "done"
          /\ AbortHandshake(n, c)
    /\ Quietly
    /\ UNCHANGED mgr

\* Nothing comes for HANDSHAKE_TIMEOUT.
HelloTimeout(n, c) ==
    /\ stage[c][n] = "Hello"
    /\ Fault
    /\ AbortHandshake(n, c)
    /\ UNCHANGED mgr

\* The manager's answer: Accepted leads on to SendPeers.
Ready(n, c) ==
    /\ stage[c][n] = "Ready"
    /\ control[c][n] # <<>>
    /\ \/ /\ Head(control[c][n]) = "Accepted"
          /\ control' = [control EXCEPT ![c][n] = Tail(@)]
          /\ stage' = [stage EXCEPT ![c][n] = "Open"]
          /\ wire' = Written(wire, c, n, "KnownPeers")
          /\ UNCHANGED <<commands, dialler>>
       \/ Head(control[c][n]) # "Accepted" /\ AbortHandshake(n, c)
    /\ Quietly
    /\ UNCHANGED mgr

\* The manager does not answer in time, or is gone.
AcceptTimeout(n, c) ==
    /\ stage[c][n] = "Ready"
    /\ control[c][n] = <<>>
    /\ IF manager[n] = "gone" THEN Quietly ELSE Timeout /\ late' = TRUE
    /\ AbortHandshake(n, c)
    /\ UNCHANGED mgr

\* IpcMessageReceived
Received(n, c) ==
    /\ stage[c][n] = "Open"
    /\ wire[c][n] # <<>>
    /\ LET m == Head(wire[c][n])
           w == [wire EXCEPT ![c][n] = Tail(@)]
       IN  \/ /\ m = "KnownPeers"
              /\ wire' = w
              /\ Command(n, "LearnedPeers", None)
              /\ UNCHANGED <<dialler, stage, control>>
           \/ m \in {"CloseConnection", "EOF"} /\ ClosePeer(n, c, w)
    /\ Quietly
    /\ UNCHANGED mgr

\* State Shutdown of the session: CloseConnection is sent before it closes.
SessionShutdown(n, c) == ClosePeer(n, c, Written(wire, c, n, "CloseConnection"))

\* IpcControlReceived
ControlReceived(n, c) ==
    /\ stage[c][n] = "Open"
    /\ control[c][n] # <<>>
    /\ Head(control[c][n]) = "Shutdown"
    /\ SessionShutdown(n, c)
    /\ Quietly
    /\ UNCHANGED mgr

\* HandleError: nobody is there to write to.
WriteFails(n, c) ==
    /\ stage[c][n] = "Open" /\ stage[c][Other(n)] = "done"
    /\ ClosePeer(n, c, wire)
    /\ Quietly
    /\ UNCHANGED mgr

\* HeartbeatTick after a silence.
HeartbeatTimeout(n, c) ==
    /\ stage[c][n] = "Open"
    /\ Fault
    /\ ClosePeer(n, c, wire)
    /\ UNCHANGED mgr

-----------------------------------------------------------------------------
(* The manager.                                                            *)

\* Mutant of HandlePeerClosed: any close notification takes the entry.
HandlePeerClosedAny(n, c) ==
    /\ peers' = [peers EXCEPT ![n] = None]
    /\ pending' = [pending EXCEPT ![n] = FALSE]
    /\ UNCHANGED ends

\* PeerClosed: only the entry with this connection goes.
HandlePeerClosed(n, c) ==
    /\ peers' = [peers EXCEPT ![n] = IF @ = c THEN None ELSE @]
    /\ pending' = [pending EXCEPT ![n] = @ /\ peers'[n] # None]
    /\ UNCHANGED ends

Tells(k, c, n, m) ==
    IF c # None /\ stage[c][n] # "done" THEN [k EXCEPT ![c][n] = Append(@, m)] ELSE k

\* Mutant of HandleSessionReady: the session it replaces goes on.
HandleSessionReadyKeepsOld(n, c) ==
    /\ pending' = [pending EXCEPT ![n] = FALSE]
    /\ peers' = [peers EXCEPT ![n] = c]
    /\ control' = Tells(control, c, n, "Accepted")
    /\ UNCHANGED <<dialler, stage, wire>>

\* Mutant of HandleSessionReady: the new session is told to stop.
HandleSessionReadyStopsNew(n, c) ==
    /\ pending' = [pending EXCEPT ![n] = FALSE]
    /\ peers' = [peers EXCEPT ![n] = c]
    /\ control' = Tells(IF peers[n] # None THEN Tells(control, c, n, "Shutdown") ELSE control,
                        c, n, "Accepted")
    /\ UNCHANGED <<dialler, stage, wire>>

\* SessionReady: the last one wins.
HandleSessionReady(n, c) ==
    /\ pending' = [pending EXCEPT ![n] = FALSE]
    /\ peers' = [peers EXCEPT ![n] = c]
    /\ control' = Tells(Tells(control, peers[n], n, "Shutdown"), c, n, "Accepted")
    /\ UNCHANGED <<dialler, stage, wire>>

\* HandshakeFailed
HandleHandshakeFailed(n, c) ==
    /\ pending' = [pending EXCEPT ![n] = @ /\ c = None]
    /\ UNCHANGED <<peers, ends>>

\* HandleIpcCommand
HandleCommand(n) ==
    /\ manager[n] # "gone"
    /\ commands[n] # <<>>
    /\ commands' = [commands EXCEPT ![n] = Tail(@)]
    /\ LET m == Head(commands[n])
       IN  \/ m.type = "PeerClosed" /\ HandlePeerClosed(n, m.conn)
           \/ m.type = "SessionReady" /\ HandleSessionReady(n, m.conn)
           \/ m.type = "HandshakeFailed" /\ HandleHandshakeFailed(n, m.conn)
           \/ m.type = "LearnedPeers" /\ DialPeers(n, FALSE) /\ UNCHANGED peers
    /\ Quietly
    /\ UNCHANGED manager

\* The listener is dropped, and with it what was not accepted.
NoBacklog(n) ==
    LET B == {c \in Conns : stage[c][n] = "backlog"}
    IN  /\ stage' = [c \in Conns |-> IF c \in B THEN [stage[c] EXCEPT ![n] = "done"]
                                                ELSE stage[c]]
        /\ wire' = [c \in Conns |->
                      IF c \in B THEN [wire[c] EXCEPT ![n] = <<>>,
                                         ![Other(n)] = IF stage[c][Other(n)] = "done"
                                                       THEN <<>> ELSE Append(@, "EOF")]
                                 ELSE wire[c]]

\* ShuttingDown
SoftShutdown(n) ==
    /\ manager[n] = "on"
    /\ Fault
    /\ manager' = [manager EXCEPT ![n] = "soft"]
    /\ NoBacklog(n)
    /\ UNCHANGED <<peers, pending, commands, dialler, control>>

\* The bus is dropped: every session in the list is told, the channel closed.
Shutdown(n) ==
    /\ manager[n] = "soft"
    /\ manager' = [manager EXCEPT ![n] = "gone"]
    /\ control' = Tells(control, peers[n], n, "Shutdown")
    /\ peers' = [peers EXCEPT ![n] = None]
    /\ pending' = [pending EXCEPT ![n] = FALSE]
    /\ commands' = [commands EXCEPT ![n] = <<>>]
    /\ Quietly
    /\ UNCHANGED <<dialler, stage, wire>>

-----------------------------------------------------------------------------
Session(n, c) ==
    \/ Accept(n, c) \/ Hello(n, c) \/ Ready(n, c)
    \/ Received(n, c) \/ ControlReceived(n, c) \/ WriteFails(n, c)

Next ==
    \/ \E n \in Nodes : FromDirectory(n) \/ HandleCommand(n) \/ SoftShutdown(n) \/ Shutdown(n)
    \/ \E n \in Nodes, c \in Conns :
          \/ Session(n, c)
          \/ HelloTimeout(n, c) \/ AcceptTimeout(n, c) \/ HeartbeatTimeout(n, c)

Spec == Init /\ [][Next]_vars

-----------------------------------------------------------------------------
(* Properties.                                                             *)

\* The types of the variables; a session is accepted at most once, before it is
\* told to stop.
TypeOK ==
    /\ manager \in [Nodes -> {"on", "soft", "gone"}]
    /\ peers \in [Nodes -> Conns \cup {None}] /\ pending \in [Nodes -> BOOLEAN]
    /\ \A n \in Nodes : \A k \in DOMAIN commands[n] :
          commands[n][k] \in [type : IpcCommand, conn : Conns \cup {None}]
    /\ dialler \in [Conns -> Nodes \cup {None}]
    /\ stage \in [Conns -> [Nodes -> Stage]]
    /\ \A c \in Conns, n \in Nodes :
          /\ wire[c][n] \in Seq(IpcMessage)
          /\ control[c][n] \in {<<>>, <<"Accepted">>, <<"Shutdown">>, <<"Accepted", "Shutdown">>}
    /\ late \in BOOLEAN /\ dials \in 0..MaxDials /\ faults \in 0..MaxFaults

Has(n, t, c) == \E k \in DOMAIN commands[n] : commands[n][k] = [type |-> t, conn |-> c]

\* As long as managers answer within HANDSHAKE_TIMEOUT, an entry in the list
\* stands for a session: one that runs, or whose close notification is on its
\* way (SessionReady, PeerClosed).
EntriesAreServed ==
    ~late => \A n \in Nodes : peers[n] # None =>
        stage[peers[n]][n] \in {"Ready", "Open"} \/ Has(n, "PeerClosed", peers[n])

\* An established session that was not told to stop is the one in the list, so
\* there is one session with a peer, and a shutdown reaches it.
OpenIsListed ==
    \A n \in Nodes, c \in Conns :
        stage[c][n] = "Open" /\ ~Contains(control[c][n], "Shutdown") => peers[n] = c

\* pending does not outlast the attempt: otherwise the node is never dialled
\* again (spawn_peer, HandshakeFailed, SessionReady).
PendingEnds ==
    \A n \in Nodes : pending[n] =>
        \E c \in Conns : /\ dialler[c] = n
                         /\ \/ stage[c][n] = "Hello"
                            \/ Has(n, "SessionReady", c) \/ Has(n, "HandshakeFailed", c)

Quiet ==
    /\ \A n \in Nodes : commands[n] = <<>>
    /\ \A c \in Conns, n \in Nodes : /\ stage[c][n] \in {"unused", "Open", "done"}
                                     /\ wire[c][n] = <<>> /\ control[c][n] = <<>>

\* When nothing is under way the managers and sessions of the two nodes agree,
\* unless a manager has been late and keeps the entry of a session that gave up:
\* both list the same connection, which is the only one that is established, at
\* either end, or neither lists any and no session runs (SessionReady, ClosePeer).
\* What their routers have of it is not said: see UnRegisterPeer in the README.
QuietAgreement ==
    Quiet /\ ~late =>
        /\ peers[1] = peers[2]
        /\ \A n \in Nodes, c \in Conns : stage[c][n] = "Open" <=> peers[n] = c

\* Nodes that learn of each other and meet no failure end up connected ("it gets
\* a list of all known nodes and connects to them as well").  It does not hold:
\* two nodes that dial each other at once may each close the connection that the
\* other one keeps, and are not connected until the next probe (README).
DialledAreConnected ==
    Quiet /\ dials > 0 /\ faults = 0 => \A n \in Nodes : peers[n] # None
=============================================================================
