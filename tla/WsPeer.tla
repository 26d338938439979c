------------------------------- MODULE WsPeer -------------------------------
(***************************************************************************)
(* The two ends of a WebSocket session (peers/ws/ws_peer.rs) with their    *)
(* heartbeats (peers/common.rs): run_ws_peer takes an event, steps the     *)
(* state machine and carries out its effects one by one, each of which may *)
(* fail.                                                                   *)
(*                                                                         *)
(* Time passes in units; instants are kept as the time since.  The loop    *)
(* takes no time and timers are punctual: what they need is part of the    *)
(* delay of messages.  A write never blocks.  Ping tokens are left out:    *)
(* nothing compares them.                                                  *)
(***************************************************************************)
EXTENDS Integers, Sequences

CONSTANTS Interval,   \* heartbeat interval
          Timeout,    \* heartbeat timeout
          MaxDelay,   \* bound: how long a message takes on a whole connection
          MaxInputs   \* bound: node messages, commands, failures, stray frames

ASSUME HeartbeatTyped ==
    /\ Interval \in Nat \ {0} /\ Timeout \in Nat \ {0} /\ MaxDelay \in Nat
    /\ MaxInputs \in Nat

\* A ping and its answer fit into the time left after a silent interval.
ASSUME RoundTripFits == Interval + 2 * MaxDelay < Timeout

Ends == {1, 2}
Other(s) == 3 - s

VARIABLES
    phase,     \* Phase of the state machine
    effects,   \* effects not yet applied
    followUp,  \* is a TransportDead to be handled?
    silence,   \* time since last_rx
    poked,     \* time since last_ping
    wire,      \* what is under way to each end, with its age
    conn,      \* the connection: "up", "cut" (nothing gets through), "reset"
    control,   \* WsControl commands on their way to the session
    manager,   \* of each end: "on", "let go" of this session, or "gone"
    inputs,    \* how much has come from outside so far
    registered,  \* is the connection registered with the router?
    told       \* was PeerClosed sent to the manager?

fsm  == <<phase, effects, followUp, silence, poked>>
env  == <<conn, control, manager, inputs>>
vars == <<fsm, wire, env, registered, told>>

\* last_ping is None.
NoPing == -1

WsMessage == {"Hello", "NodeMsg", "CloseConnection", "Ping", "Pong"}

\* What next_msg may return: a message, the end of the stream or an error, or a
\* frame that is none of ours.
Frame == WsMessage \cup {"WsPeerClosed", "Unknown"}

Send(m) == [type |-> "Send", msg |-> m]
Do(t) == [type |-> t, msg |-> "Unknown"]
CloseSocket == Do("CloseSocket")
HandleNodeMessage == Do("HandleNodeMessage")
Unregister == Do("Unregister")
NotifyPeerClosed == Do("NotifyPeerClosed")

Effect == {Send(m) : m \in WsMessage}
          \cup {CloseSocket, HandleNodeMessage, Unregister, NotifyPeerClosed}

Init ==
    /\ phase = [s \in Ends |-> "Open"]
    /\ effects = [s \in Ends |-> <<>>]
    /\ followUp = [s \in Ends |-> FALSE]
    /\ silence = [s \in Ends |-> 0]
    /\ poked = [s \in Ends |-> NoPing]
    /\ wire = [s \in Ends |-> <<>>]
    /\ conn = "up"
    /\ control = [s \in Ends |-> <<>>]
    /\ manager = [s \in Ends |-> "on"]
    /\ inputs = 0
    /\ registered = [s \in Ends |-> TRUE]
    /\ told = [s \in Ends |-> FALSE]

-----------------------------------------------------------------------------
(* Heartbeat.                                                              *)

\* Time until a ping is due.
PokeIn(s) == Interval - (IF poked[s] = NoPing THEN silence[s] ELSE poked[s])

PingDue(s) == PokeIn(s) <= 0

TimedOut(s) == silence[s] >= Timeout

\* Mutant of DeadlineIn: only the next ping counts.
DeadlineInPoke(s) == PokeIn(s)

\* next_deadline: the next ping, or the end of the timeout before it.
DeadlineIn(s) ==
    LET die == Timeout - silence[s]
    IN  IF PokeIn(s) < die THEN PokeIn(s) ELSE die

\* on_rx and note_resume.
OnRx(s) ==
    /\ silence' = [silence EXCEPT ![s] = 0]
    /\ poked' = [poked EXCEPT ![s] = NoPing]

-----------------------------------------------------------------------------
(* The state machine: one step takes an event.                             *)

Emit(s, E) == effects' = [effects EXCEPT ![s] = @ \o E]

\* What close() has to do for each reason, in this order.
CloseEffects ==
    [Local     |-> <<Send("CloseConnection"), CloseSocket, Unregister>>,
     Remote    |-> <<CloseSocket, NotifyPeerClosed, Unregister>>,
     Transport |-> <<NotifyPeerClosed, Unregister>>]

Close(s, reason) ==
    /\ Emit(s, CloseEffects[reason])
    /\ phase' = [phase EXCEPT ![s] = "Closing"]

Stay(s, E) ==
    /\ Emit(s, E)
    /\ UNCHANGED phase

\* Mutant of Selecting: events are taken before all effects are applied.
SelectingEarly(s) == phase[s] = "Open" /\ ~followUp[s]

\* Waiting in select: every effect is done and nothing has failed.
Selecting(s) == phase[s] = "Open" /\ effects[s] = <<>> /\ ~followUp[s]

\* Mutant of OnWire: a ping gets no answer.
OnWireNoPong(s, m) ==
    \/ m = "Hello" /\ Close(s, "Local")
    \/ m = "CloseConnection" /\ Close(s, "Remote")
    \/ m \in {"Ping", "Pong"} /\ Stay(s, <<>>)
    \/ m = "NodeMsg" /\ Stay(s, <<HandleNodeMessage>>)

\* on_wire, after on_rx.
OnWire(s, m) ==
    \/ m = "Hello" /\ Close(s, "Local")
    \/ m = "CloseConnection" /\ Close(s, "Remote")
    \/ m = "Ping" /\ Stay(s, <<Send("Pong")>>)
    \/ m = "Pong" /\ Stay(s, <<>>)
    \/ m = "NodeMsg" /\ Stay(s, <<HandleNodeMessage>>)

\* Something comes from the wire, a dead transport included.
FromWire(s) ==
    /\ Selecting(s)
    /\ wire[s] # <<>>
    /\ wire' = [wire EXCEPT ![s] = Tail(@)]
    /\ LET m == Head(wire[s]).msg
       IN  \/ m \in WsMessage /\ OnRx(s) /\ OnWire(s, m)
           \/ /\ m = "WsPeerClosed" /\ Close(s, "Transport")
              /\ UNCHANGED <<silence, poked>>
           \/ /\ m = "Unknown" /\ Stay(s, <<>>)
              /\ UNCHANGED <<silence, poked>>
    /\ UNCHANGED <<followUp, env, registered, told>>

\* A connection that was reset: next_msg returns an error.
TransportDead(s) ==
    /\ Selecting(s)
    /\ conn = "reset"
    /\ Close(s, "Transport")
    /\ UNCHANGED <<followUp, silence, poked, wire, env, registered, told>>

\* A command of the manager.
Control(s) ==
    /\ Selecting(s)
    /\ control[s] # <<>>
    /\ control' = [control EXCEPT ![s] = Tail(@)]
    /\ \/ /\ Head(control[s]) = "Shutdown"
          /\ Close(s, "Local")
          /\ UNCHANGED <<silence, poked>>
       \/ /\ Head(control[s]) = "Resume"
          /\ silence' = [silence EXCEPT ![s] = 0]
          /\ poked' = [poked EXCEPT ![s] = 0]
          /\ Stay(s, <<Send("Ping")>>)
    /\ UNCHANGED <<followUp, wire, conn, manager, inputs, registered, told>>

\* Something comes from outside.
Input ==
    /\ inputs < MaxInputs
    /\ inputs' = inputs + 1

\* The router has a message for the other node.
FromNode(s) ==
    /\ Selecting(s)
    /\ registered[s]
    /\ Input
    /\ Stay(s, <<Send("NodeMsg")>>)
    /\ UNCHANGED <<followUp, silence, poked, wire, conn, control, manager,
                   registered, told>>

\* Mutant of Tick: pings go on for ever.
TickPings(s) ==
    /\ Selecting(s)
    /\ DeadlineIn(s) <= 0
    /\ PingDue(s)
    /\ Stay(s, <<Send("Ping")>>)
    /\ poked' = [poked EXCEPT ![s] = 0]
    /\ UNCHANGED <<followUp, silence, wire, env, registered, told>>

\* The timer has run out: on_tick.
Tick(s) ==
    /\ Selecting(s)
    /\ DeadlineIn(s) <= 0
    /\ \/ /\ TimedOut(s)
          /\ Close(s, "Local")
          /\ UNCHANGED poked
       \/ /\ ~TimedOut(s) /\ PingDue(s)
          /\ Stay(s, <<Send("Ping")>>)
          /\ poked' = [poked EXCEPT ![s] = 0]
    /\ UNCHANGED <<followUp, silence, wire, env, registered, told>>

-----------------------------------------------------------------------------
(* Effects.                                                                *)

Done(s) == phase[s] = "Closed"

Onto(w, s, m) == [w EXCEPT ![s] = Append(@, [msg |-> m, age |-> 0])]

\* A frame reaches the wire, or is lost in a connection that is broken or that
\* the other end has left.
Arrives(s) == conn = "up" /\ ~Done(Other(s))
Write(s, m) == wire' = IF Arrives(s) THEN Onto(wire, Other(s), m) ELSE wire

\* Writes fail at the latest when the connection has been reset.
MayFail(s)    == ~Arrives(s)
MaySucceed(s) == conn # "reset"

\* The effect at the front could be applied.
Succeed(s) ==
    LET e == Head(effects[s])
    IN  /\ \/ /\ e.type = "Send" /\ MaySucceed(s)
              /\ Write(s, e.msg)
              /\ UNCHANGED <<registered, told>>
           \/ /\ e = CloseSocket
              /\ Write(s, "WsPeerClosed")
              /\ UNCHANGED <<registered, told>>
           \/ /\ e = HandleNodeMessage
              /\ UNCHANGED <<wire, registered, told>>
           \/ /\ e = Unregister
              /\ registered' = [registered EXCEPT ![s] = FALSE]
              /\ UNCHANGED <<wire, told>>
           \/ /\ e = NotifyPeerClosed /\ manager[s] # "gone"
              /\ told' = [told EXCEPT ![s] = TRUE]
              /\ UNCHANGED <<wire, registered>>
        /\ UNCHANGED followUp

\* It could not: close_conn's errors alone are ignored.
Fail(s) ==
    LET e == Head(effects[s])
    IN  /\ \/ e.type = "Send" /\ MayFail(s)
           \/ e = NotifyPeerClosed /\ manager[s] = "gone"
        /\ followUp' = [followUp EXCEPT ![s] = TRUE]
        /\ UNCHANGED <<wire, registered, told>>

\* apply_effect
ApplyEffect(s) ==
    /\ effects[s] # <<>>
    /\ ~followUp[s]
    /\ effects' = [effects EXCEPT ![s] = Tail(@)]
    /\ Succeed(s) \/ Fail(s)
    /\ UNCHANGED <<phase, silence, poked, env>>

\* The task ends: the socket is dropped, and with it what was not read.
End(s) ==
    /\ phase' = [phase EXCEPT ![s] = "Closed"]
    /\ wire' = LET w == [wire EXCEPT ![s] = <<>>]
               IN  IF Arrives(s) THEN Onto(w, Other(s), "WsPeerClosed") ELSE w
    /\ UNCHANGED <<silence, poked, env, registered, told>>

\* effects_flushed
EffectsFlushed(s) ==
    /\ phase[s] = "Closing"
    /\ effects[s] = <<>>
    /\ ~followUp[s]
    /\ End(s)
    /\ UNCHANGED <<effects, followUp>>

\* The TransportDead of a failed effect: an open session closes, one that was
\* closing forgets the rest of its effects.
FollowUp(s) ==
    /\ followUp[s]
    /\ followUp' = [followUp EXCEPT ![s] = FALSE]
    /\ \/ /\ phase[s] = "Open"
          /\ Close(s, "Transport")
          /\ UNCHANGED <<silence, poked, wire, env, registered, told>>
       \/ /\ phase[s] = "Closing"
          /\ effects' = [effects EXCEPT ![s] = <<>>]
          /\ End(s)

-----------------------------------------------------------------------------
(* Managers, the network and time.                                         *)

Command(s, c) == control' = [control EXCEPT ![s] = Append(@, c)]

\* on_resume
SendResume(s) ==
    /\ manager[s] = "on"
    /\ Input
    /\ Command(s, "Resume")
    /\ UNCHANGED <<fsm, wire, conn, manager, registered, told>>

\* remove_ws_peer, or notify_peers when the manager shuts down.
SendShutdown(s) ==
    /\ manager[s] = "on"
    /\ \E m \in {"let go", "gone"} : manager' = [manager EXCEPT ![s] = m]
    /\ Input
    /\ Command(s, "Shutdown")
    /\ UNCHANGED <<fsm, wire, conn, registered, told>>

\* Nothing gets through any more.
Cut ==
    /\ conn = "up"
    /\ Input
    /\ conn' = "cut"
    /\ wire' = [s \in Ends |-> <<>>]
    /\ UNCHANGED <<fsm, control, manager, registered, told>>

\* Both systems know that the connection is broken.
Reset ==
    /\ conn # "reset"
    /\ Input
    /\ conn' = "reset"
    /\ UNCHANGED <<fsm, wire, control, manager, registered, told>>

\* A frame that no session sends: one of the WebSocket protocol itself, or a
\* second Hello of some other program.
StrayFrame(s) ==
    /\ Arrives(Other(s))
    /\ Input
    /\ \E f \in {"Hello", "Unknown"} : wire' = Onto(wire, s, f)
    /\ UNCHANGED <<fsm, conn, control, manager, registered, told>>

Running == {s \in Ends : phase[s] = "Open"}

\* A unit of time: nobody is busy, no timer has run out and no message has been
\* on its way for too long.
Advance ==
    /\ \A s \in Ends : Done(s) \/ Selecting(s)
    /\ \A s \in Running : /\ DeadlineIn(s) > 0
                          /\ \A i \in DOMAIN wire[s] : wire[s][i].age < MaxDelay
    /\ Running # {}
    /\ silence' = [s \in Ends |-> IF s \in Running THEN silence[s] + 1 ELSE silence[s]]
    /\ poked' = [s \in Ends |-> IF s \in Running /\ poked[s] # NoPing
                                THEN poked[s] + 1 ELSE poked[s]]
    /\ wire' = [s \in Ends |-> [i \in DOMAIN wire[s] |-> [wire[s][i] EXCEPT !.age = @ + 1]]]
    /\ UNCHANGED <<phase, effects, followUp, env, registered, told>>

-----------------------------------------------------------------------------
Loop(s) ==
    \/ ApplyEffect(s) \/ EffectsFlushed(s) \/ FollowUp(s)
    \/ FromWire(s) \/ TransportDead(s) \/ Control(s) \/ Tick(s)

Next ==
    \/ \E s \in Ends : Loop(s) \/ FromNode(s)
    \/ \E s \in Ends : SendResume(s) \/ SendShutdown(s) \/ StrayFrame(s)
    \/ Cut \/ Reset \/ Advance

Spec == Init /\ [][Next]_vars

\* The runtime polls the sessions, and time passes.
FairSpec == Spec /\ WF_vars(Advance) /\ \A s \in Ends : WF_vars(Loop(s))

-----------------------------------------------------------------------------
(* Properties.                                                             *)

\* The types of the variables; between two events at most the effects of one
\* are waiting (step, close).
TypeOK ==
    /\ phase \in [Ends -> {"Open", "Closing", "Closed"}]
    /\ \A s \in Ends : \A i \in DOMAIN effects[s] : effects[s][i] \in Effect
    /\ \A s \in Ends : Len(effects[s]) <= 3
    /\ followUp \in [Ends -> BOOLEAN]
    /\ silence \in [Ends -> Nat]
    /\ poked \in [Ends -> Nat \cup {NoPing}]
    /\ \A s \in Ends : \A i \in DOMAIN wire[s] : wire[s][i] \in [msg : Frame, age : Nat]
    /\ conn \in {"up", "cut", "reset"}
    /\ \A s \in Ends : \A i \in DOMAIN control[s] : control[s][i] \in {"Shutdown", "Resume"}
    /\ manager \in [Ends -> {"on", "let go", "gone"}]
    /\ inputs \in 0..MaxInputs
    /\ registered \in [Ends -> BOOLEAN] /\ told \in [Ends -> BOOLEAN]

\* A heartbeat does not time out while the connection is whole and the session
\* at the other end is open, however pings, answers and other messages cross
\* (on_rx, take_ping_token, on_tick at both ends).
LivePeerIsHeard ==
    conn = "up" /\ (\A s \in Ends : phase[s] = "Open") => \A s \in Ends : ~TimedOut(s)

\* No session stays open when it has heard nothing for longer than the timeout
\* ("we still wake by then so we do not oversleep it", next_deadline).
SilenceIsNoticed == \A s \in Running : silence[s] <= Timeout

\* When one end of a session has ended the other one ends too, even if nothing
\* gets through to it.
EndsTogether == \A s \in Ends : Done(s) ~> Done(Other(s))
=============================================================================
