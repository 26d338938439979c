---------------------------- MODULE WsPeer_proofs ----------------------------
(***************************************************************************)
(* Proofs about the WebSocket peers: WsPeer, for every interval, timeout   *)
(* and delay, and, in the second half, WsManager, for every set of         *)
(* configurations and nodes and any number of requests and connections.    *)
(***************************************************************************)
EXTENDS WsPeer, WsManager, FiniteSetTheorems, SequenceTheorems, NaturalsInduction, WellFoundedInduction,
        TLAPS

ClockTypes ==
    /\ phase \in [Ends -> {"Open", "Closing", "Closed"}]
    /\ silence \in [Ends -> Nat]
    /\ poked \in [Ends -> Int]

\* The inductive invariant behind SilenceIsNoticed.
ClockInv == ClockTypes /\ SilenceIsNoticed

\* The next deadline is never later than the end of the timeout.
LEMMA DeadlineBeforeTimeout ==
    ASSUME ClockTypes, NEW s \in Ends, DeadlineIn(s) > 0
    PROVE  silence[s] + 1 <= Timeout
  BY HeartbeatTyped DEF ClockTypes, DeadlineIn, PokeIn

\* A step that leaves the clocks of open sessions alone, or sets them back.
LEMMA ClocksOnlyFall ==
    ASSUME ClockInv,
           phase' \in [Ends -> {"Open", "Closing", "Closed"}],
           silence' \in [Ends -> Nat], poked' \in [Ends -> Int],
           \A s \in Ends : phase'[s] = "Open" => phase[s] = "Open",
           \A s \in Ends : silence'[s] \in {0, silence[s]}
    PROVE  ClockInv'
  <1>1. SilenceIsNoticed'
    BY HeartbeatTyped DEF ClockInv, ClockTypes, SilenceIsNoticed, Running
  <1>2. QED
    BY <1>1 DEF ClockInv, ClockTypes

\* What a step of a session does to its clocks and its phase.
LEMMA ClosingFalls ==
    ASSUME ClockInv, NEW s \in Ends, NEW reason, Close(s, reason)
    PROVE  /\ phase' \in [Ends -> {"Open", "Closing", "Closed"}]
           /\ \A t \in Ends : phase'[t] = "Open" => phase[t] = "Open"
  BY DEF ClockInv, ClockTypes, Close

\* A session that stays as it is does not open again ...
LEMMA StayingFalls ==
    ASSUME ClockInv, NEW s \in Ends, NEW E, Stay(s, E)
    PROVE  /\ phase' \in [Ends -> {"Open", "Closing", "Closed"}]
           /\ \A t \in Ends : phase'[t] = "Open" => phase[t] = "Open"
  BY DEF ClockInv, ClockTypes, Stay

\* ... nor does one whose loop ends.
LEMMA EndingFalls ==
    ASSUME ClockInv, NEW s \in Ends, End(s)
    PROVE  ClockInv'
  <1>1. /\ phase' \in [Ends -> {"Open", "Closing", "Closed"}]
        /\ \A t \in Ends : phase'[t] = "Open" => phase[t] = "Open"
    BY DEF ClockInv, ClockTypes, End
  <1>2. silence' = silence /\ poked' = poked
    BY DEF End
  <1>3. QED
    BY <1>1, <1>2, ClocksOnlyFall DEF ClockInv, ClockTypes

\* Whatever comes over the wire sets the clock back or leaves it.
LEMMA WireFalls ==
    ASSUME ClockInv, NEW s \in Ends, FromWire(s)
    PROVE  ClockInv'
  <1> DEFINE m == Head(wire[s]).msg
  <1>1. CASE m \in WsMessage /\ OnRx(s) /\ OnWire(s, m)
    <2>1. /\ phase' \in [Ends -> {"Open", "Closing", "Closed"}]
          /\ \A t \in Ends : phase'[t] = "Open" => phase[t] = "Open"
      BY <1>1, ClosingFalls, StayingFalls DEF OnWire
    <2>2. /\ silence' \in [Ends -> Nat] /\ poked' \in [Ends -> Int]
          /\ \A t \in Ends : silence'[t] \in {0, silence[t]}
      BY <1>1 DEF OnRx, ClockInv, ClockTypes, NoPing
    <2>3. QED
      BY <2>1, <2>2, ClocksOnlyFall
  <1>2. CASE (Close(s, "Transport") \/ Stay(s, <<>>)) /\ UNCHANGED <<silence, poked>>
    <2>1. /\ phase' \in [Ends -> {"Open", "Closing", "Closed"}]
          /\ \A t \in Ends : phase'[t] = "Open" => phase[t] = "Open"
      BY <1>2, ClosingFalls, StayingFalls
    <2>2. QED
      BY <1>2, <2>1, ClocksOnlyFall DEF ClockInv, ClockTypes
  <1>3. QED
    BY <1>1, <1>2 DEF FromWire

\* So does a command of the manager.
LEMMA ControlFalls ==
    ASSUME ClockInv, NEW s \in Ends, Control(s)
    PROVE  ClockInv'
  <1>1. /\ phase' \in [Ends -> {"Open", "Closing", "Closed"}]
        /\ \A t \in Ends : phase'[t] = "Open" => phase[t] = "Open"
    BY ClosingFalls, StayingFalls DEF Control
  <1>2. /\ silence' \in [Ends -> Nat] /\ poked' \in [Ends -> Int]
        /\ \A t \in Ends : silence'[t] \in {0, silence[t]}
    BY DEF Control, ClockInv, ClockTypes
  <1>3. QED
    BY <1>1, <1>2, ClocksOnlyFall

\* A heartbeat tick leaves silence alone, or closes the session.
LEMMA TickFalls ==
    ASSUME ClockInv, NEW s \in Ends, Tick(s)
    PROVE  ClockInv'
  <1>1. /\ phase' \in [Ends -> {"Open", "Closing", "Closed"}]
        /\ \A t \in Ends : phase'[t] = "Open" => phase[t] = "Open"
    BY ClosingFalls, StayingFalls DEF Tick
  <1>2. /\ silence' = silence
        /\ poked' \in [Ends -> Int]
    BY DEF Tick, ClockInv, ClockTypes
  <1>3. QED
    BY <1>1, <1>2, ClocksOnlyFall DEF ClockInv, ClockTypes

\* Time passes only up to the next deadline.
LEMMA AdvanceIsBounded ==
    ASSUME ClockInv, Advance
    PROVE  ClockInv'
  <1>1. phase' = phase /\ silence' \in [Ends -> Nat] /\ poked' \in [Ends -> Int]
    BY DEF Advance, ClockInv, ClockTypes
  <1>2. \A s \in Running : silence'[s] <= Timeout
    <2>1. SUFFICES ASSUME NEW s \in Running PROVE silence'[s] <= Timeout
      OBVIOUS
    <2>2. s \in Ends /\ DeadlineIn(s) > 0 /\ silence'[s] = silence[s] + 1
      BY DEF Advance, Running
    <2>3. QED
      BY <2>2, DeadlineBeforeTimeout DEF ClockInv
  <1>3. Running' = Running
    BY <1>1 DEF Running
  <1>4. QED
    BY <1>1, <1>2, <1>3 DEF ClockInv, ClockTypes, SilenceIsNoticed

\* Every step, the passing of time included, keeps within the timeout.
LEMMA ClockStep == ClockInv /\ [Next]_vars => ClockInv'
  <1>1. SUFFICES ASSUME ClockInv, [Next]_vars PROVE ClockInv'
    OBVIOUS
  <1>2. CASE UNCHANGED <<phase, silence, poked>>
    BY <1>1, <1>2 DEF ClockInv, ClockTypes, SilenceIsNoticed, Running
  <1>3. ASSUME NEW s \in Ends, Loop(s) PROVE ClockInv'
    <2>1. CASE ApplyEffect(s)
      BY <1>2, <2>1 DEF ApplyEffect
    <2>2. CASE EffectsFlushed(s)
      BY <1>1, <2>2, EndingFalls DEF EffectsFlushed
    <2>3. CASE FollowUp(s)
      <3>1. CASE Close(s, "Transport") /\ UNCHANGED <<silence, poked>>
        <4>1. /\ phase' \in [Ends -> {"Open", "Closing", "Closed"}]
              /\ \A t \in Ends : phase'[t] = "Open" => phase[t] = "Open"
          BY <1>1, <3>1, ClosingFalls
        <4>2. QED
          BY <1>1, <3>1, <4>1, ClocksOnlyFall DEF ClockInv, ClockTypes
      <3>2. CASE End(s)
        BY <1>1, <3>2, EndingFalls
      <3>3. QED
        BY <2>3, <3>1, <3>2 DEF FollowUp
    <2>4. CASE FromWire(s)
      BY <1>1, <2>4, WireFalls
    <2>5. CASE TransportDead(s)
      <3>1. /\ phase' \in [Ends -> {"Open", "Closing", "Closed"}]
            /\ \A t \in Ends : phase'[t] = "Open" => phase[t] = "Open"
        BY <1>1, <2>5, ClosingFalls DEF TransportDead
      <3>2. QED
        BY <1>1, <2>5, <3>1, ClocksOnlyFall DEF TransportDead, ClockInv, ClockTypes
    <2>6. CASE Control(s)
      BY <1>1, <2>6, ControlFalls
    <2>7. CASE Tick(s)
      BY <1>1, <2>7, TickFalls
    <2>8. QED
      BY <1>3, <2>1, <2>2, <2>3, <2>4, <2>5, <2>6, <2>7 DEF Loop
  <1>4. ASSUME NEW s \in Ends, FromNode(s) PROVE ClockInv'
    BY <1>2, <1>4 DEF FromNode, Stay
  <1>5. ASSUME NEW s \in Ends, SendResume(s) \/ SendShutdown(s) \/ StrayFrame(s)
        PROVE  ClockInv'
    BY <1>2, <1>5 DEF SendResume, SendShutdown, StrayFrame, fsm
  <1>6. CASE Cut \/ Reset
    BY <1>2, <1>6 DEF Cut, Reset, fsm
  <1>7. CASE Advance
    BY <1>1, <1>7, AdvanceIsBounded
  <1>8. CASE UNCHANGED vars
    BY <1>2, <1>8 DEF vars, fsm
  <1>9. QED
    BY <1>1, <1>3, <1>4, <1>5, <1>6, <1>7, <1>8 DEF Next

\* Whatever the interval and the timeout, a session that has heard nothing for
\* longer than the timeout is no longer open: next_deadline wakes run_ws_peer in
\* time, in every interleaving of messages, commands and failures.
THEOREM SilenceNeverOverslept == Spec => []SilenceIsNoticed
  <1>1. Init => ClockInv
    BY HeartbeatTyped DEF Init, ClockInv, ClockTypes, SilenceIsNoticed, Running, NoPing
  <1>2. ClockInv => SilenceIsNoticed
    BY DEF ClockInv
  <1>3. QED
    BY <1>1, <1>2, ClockStep, PTL DEF Spec

-----------------------------------------------------------------------------
(* Types.                                                                  *)

Packet == [msg : Frame, age : Nat]

Types ==
    /\ phase \in [Ends -> {"Open", "Closing", "Closed"}]
    /\ effects \in [Ends -> Seq(Effect)]
    /\ followUp \in [Ends -> BOOLEAN]
    /\ silence \in [Ends -> Nat]
    /\ poked \in [Ends -> Nat \cup {NoPing}]
    /\ wire \in [Ends -> Seq(Packet)]
    /\ conn \in {"up", "cut", "reset"}
    /\ control \in [Ends -> Seq({"Shutdown", "Resume"})]
    /\ manager \in [Ends -> {"on", "let go", "gone"}]
    /\ inputs \in 0..MaxInputs
    /\ registered \in [Ends -> BOOLEAN] /\ told \in [Ends -> BOOLEAN]

\* An open session has one effect to apply at most, and none once that failed.
EffectsFew(s) ==
    /\ Len(effects[s]) <= 3
    /\ phase[s] = "Open" => Len(effects[s]) <= 1
    /\ phase[s] = "Open" /\ followUp[s] => effects[s] = <<>>

TypeInv == Types /\ \A s \in Ends : EffectsFew(s)

\* A session has two ends.
LEMMA OtherEnd ==
    ASSUME NEW s \in Ends
    PROVE  /\ Other(s) \in Ends /\ Other(s) # s /\ Other(Other(s)) = s
           /\ \A t \in Ends : t # s => t = Other(s)
  BY DEF Ends, Other

\* The effects of a close, and the others.
LEMMA EffectsTyped ==
    /\ Send("Ping") \in Effect /\ Send("Pong") \in Effect /\ Send("NodeMsg") \in Effect
    /\ HandleNodeMessage \in Effect
    /\ \A reason \in {"Local", "Remote", "Transport"} :
          CloseEffects[reason] \in Seq(Effect) /\ Len(CloseEffects[reason]) <= 3
  <1>1. /\ Send("Ping") \in Effect /\ Send("Pong") \in Effect /\ Send("NodeMsg") \in Effect
        /\ Send("CloseConnection") \in Effect
        /\ HandleNodeMessage \in Effect /\ CloseSocket \in Effect
        /\ Unregister \in Effect /\ NotifyPeerClosed \in Effect
    BY DEF Effect, WsMessage
  <1>2. /\ CloseEffects["Local"] = <<Send("CloseConnection"), CloseSocket, Unregister>>
        /\ CloseEffects["Remote"] = <<CloseSocket, NotifyPeerClosed, Unregister>>
        /\ CloseEffects["Transport"] = <<NotifyPeerClosed, Unregister>>
    BY DEF CloseEffects
  <1>3. \A a, b, c \in Effect : <<a, b, c>> \in Seq(Effect) /\ Len(<<a, b, c>>) = 3
    OBVIOUS
  <1>4. \A a, b \in Effect : <<a, b>> \in Seq(Effect) /\ Len(<<a, b>>) = 2
    OBVIOUS
  <1>5. CloseEffects["Local"] \in Seq(Effect) /\ Len(CloseEffects["Local"]) = 3
    BY <1>1, <1>2, <1>3, Zenon
  <1>6. CloseEffects["Remote"] \in Seq(Effect) /\ Len(CloseEffects["Remote"]) = 3
    BY <1>1, <1>2, <1>3, Zenon
  <1>7. CloseEffects["Transport"] \in Seq(Effect) /\ Len(CloseEffects["Transport"]) = 2
    BY <1>1, <1>2, <1>4, Zenon
  <1>8. 3 <= 3 /\ 2 <= 3
    OBVIOUS
  <1>9. ASSUME NEW reason \in {"Local", "Remote", "Transport"}
        PROVE  CloseEffects[reason] \in Seq(Effect) /\ Len(CloseEffects[reason]) <= 3
    <2>1. reason = "Local" \/ reason = "Remote" \/ reason = "Transport"
      OBVIOUS
    <2> QED BY <1>5, <1>6, <1>7, <1>8, <2>1, Zenon
  <1> QED BY <1>1, <1>9, Zenon

\* A session that has nothing to apply emits the effects of one event.
LEMMA EmitIs ==
    ASSUME Types, NEW s \in Ends, effects[s] = <<>>, NEW E \in Seq(Effect), Emit(s, E)
    PROVE  /\ effects' \in [Ends -> Seq(Effect)] /\ effects'[s] = E
           /\ \A t \in Ends : t # s => effects'[t] = effects[t]
  <1>1. <<>> \o E = E
    OBVIOUS
  <1>2. effects' = [effects EXCEPT ![s] = E]
    BY <1>1 DEF Emit
  <1> QED BY <1>2 DEF Types

\* close
LEMMA CloseTyped ==
    ASSUME TypeInv, NEW s \in Ends, effects[s] = <<>>,
           NEW reason \in {"Local", "Remote", "Transport"}, Close(s, reason)
    PROVE  /\ effects' \in [Ends -> Seq(Effect)] /\ phase' \in [Ends -> {"Open", "Closing", "Closed"}]
           /\ phase'[s] = "Closing" /\ Len(effects'[s]) <= 3
           /\ \A t \in Ends : t # s => phase'[t] = phase[t] /\ effects'[t] = effects[t]
  <1>1. PICK E : E = CloseEffects[reason]
    OBVIOUS
  <1>2. E \in Seq(Effect) /\ Len(E) <= 3
    BY <1>1, EffectsTyped
  <1>3. Emit(s, E)
    BY <1>1 DEF Close
  <1>4. /\ effects' \in [Ends -> Seq(Effect)] /\ effects'[s] = E
        /\ \A t \in Ends : t # s => effects'[t] = effects[t]
    BY <1>2, <1>3, EmitIs DEF TypeInv
  <1>5. phase' = [phase EXCEPT ![s] = "Closing"]
    BY DEF Close
  <1> QED BY <1>2, <1>4, <1>5 DEF TypeInv, Types

\* An event that leaves the session open.
LEMMA StayTyped ==
    ASSUME TypeInv, NEW s \in Ends, effects[s] = <<>>, NEW E, Stay(s, E),
           E = <<>> \/ \E e \in Effect : E = <<e>>
    PROVE  /\ effects' \in [Ends -> Seq(Effect)] /\ phase' = phase
           /\ effects'[s] = E /\ Len(effects'[s]) <= 1
           /\ \A t \in Ends : t # s => effects'[t] = effects[t]
  <1>1. E \in Seq(Effect) /\ Len(E) <= 1
    <2>1. CASE E = <<>>
      BY <2>1
    <2>2. CASE \E e \in Effect : E = <<e>>
      BY <2>2
    <2> QED BY <2>1, <2>2
  <1>2. Emit(s, E) /\ phase' = phase
    BY DEF Stay
  <1>3. /\ effects' \in [Ends -> Seq(Effect)] /\ effects'[s] = E
        /\ \A t \in Ends : t # s => effects'[t] = effects[t]
    BY <1>1, <1>2, EmitIs DEF TypeInv
  <1> QED BY <1>1, <1>2, <1>3

\* A packet joins those under way.
LEMMA OntoTyped ==
    ASSUME NEW w \in [Ends -> Seq(Packet)], NEW s \in Ends, NEW m \in Frame
    PROVE  Onto(w, s, m) \in [Ends -> Seq(Packet)]
  <1>1. PICK p : p = [msg |-> m, age |-> 0]
    OBVIOUS
  <1>2. p \in Packet /\ w[s] \in Seq(Packet)
    BY <1>1 DEF Packet
  <1>3. PICK q : q = Append(w[s], p)
    OBVIOUS
  <1>4. q \in Seq(Packet)
    BY <1>2, <1>3
  <1>5. Onto(w, s, m) = [w EXCEPT ![s] = q]
    BY <1>1, <1>3 DEF Onto
  <1> QED BY <1>4, <1>5

\* The task ends.
LEMMA EndTyped ==
    ASSUME TypeInv, NEW s \in Ends, End(s)
    PROVE  /\ wire' \in [Ends -> Seq(Packet)] /\ phase' \in [Ends -> {"Open", "Closing", "Closed"}]
           /\ phase'[s] = "Closed" /\ \A t \in Ends : t # s => phase'[t] = phase[t]
  <1>1. PICK w : w = [wire EXCEPT ![s] = <<>>]
    OBVIOUS
  <1>2. w \in [Ends -> Seq(Packet)]
    <2>1. PICK e : e = <<>> /\ e \in Seq(Packet)
      <3>1. <<>> \in Seq(Packet)
        OBVIOUS
      <3> QED BY <3>1, Zenon
    <2>2. w = [wire EXCEPT ![s] = e]
      BY <1>1, <2>1
    <2> QED BY <2>2, <2>1 DEF TypeInv, Types
  <1>3. wire' = w \/ wire' = Onto(w, Other(s), "WsPeerClosed")
    BY <1>1 DEF End
  <1>4. "WsPeerClosed" \in Frame /\ Other(s) \in Ends
    BY OtherEnd DEF Frame
  <1>5. wire' \in [Ends -> Seq(Packet)]
    BY <1>2, <1>3, <1>4, OntoTyped
  <1>6. phase' = [phase EXCEPT ![s] = "Closed"]
    BY DEF End
  <1> QED BY <1>5, <1>6 DEF TypeInv, Types

\* Nothing is waiting and nothing is under way at first.
LEMMA TypeInvInit == Init => TypeInv
  <1> SUFFICES ASSUME Init PROVE TypeInv
    OBVIOUS
  <1>1. <<>> \in Seq(Effect) /\ <<>> \in Seq(Packet) /\ <<>> \in Seq({"Shutdown", "Resume"})
    OBVIOUS
  <1>2. 0 \in 0..MaxInputs
    BY HeartbeatTyped
  <1>3. Types
    BY <1>1, <1>2 DEF Init, Types
  <1> QED BY <1>3 DEF Init, TypeInv, EffectsFew

\* The other session stays as it was.
OnlyAt(s) == \A t \in Ends : t # s => /\ phase'[t] = phase[t] /\ effects'[t] = effects[t]
                                      /\ followUp'[t] = followUp[t]

\* What an event leads to: a close, or one effect at most.
Reacts(s) ==
    \/ \E r \in {"Local", "Remote", "Transport"} : Close(s, r)
    \/ Stay(s, <<>>) \/ \E e \in Effect : Stay(s, <<e>>)

\* What an end does about an event leaves at most a close and its effects.
LEMMA ReactsTyped ==
    ASSUME TypeInv, NEW s \in Ends, effects[s] = <<>>, ~followUp'[s], Reacts(s),
           \A t \in Ends : t # s => followUp'[t] = followUp[t]
    PROVE  /\ effects' \in [Ends -> Seq(Effect)] /\ phase' \in [Ends -> {"Open", "Closing", "Closed"}]
           /\ EffectsFew(s)' /\ OnlyAt(s)
           /\ phase'[s] = "Open" => phase[s] = "Open"
  <1>1. CASE \E r \in {"Local", "Remote", "Transport"} : Close(s, r)
    <2>1. PICK r \in {"Local", "Remote", "Transport"} : Close(s, r)
      BY <1>1
    <2>2. /\ effects' \in [Ends -> Seq(Effect)] /\ phase' \in [Ends -> {"Open", "Closing", "Closed"}]
          /\ phase'[s] = "Closing" /\ Len(effects'[s]) <= 3
          /\ \A t \in Ends : t # s => phase'[t] = phase[t] /\ effects'[t] = effects[t]
      BY <2>1, CloseTyped
    <2> QED BY <2>2 DEF EffectsFew, OnlyAt
  <1>2. ASSUME NEW E, Stay(s, E), E = <<>> \/ \E e \in Effect : E = <<e>>
        PROVE  /\ effects' \in [Ends -> Seq(Effect)] /\ phase' = phase
               /\ EffectsFew(s)' /\ OnlyAt(s)
    <2>1. /\ effects' \in [Ends -> Seq(Effect)] /\ phase' = phase
          /\ Len(effects'[s]) <= 1
          /\ \A t \in Ends : t # s => effects'[t] = effects[t]
      BY <1>2, StayTyped
    <2>2. effects'[s] \in Seq(Effect)
      BY <2>1
    <2>3. Len(effects'[s]) <= 3
      BY <2>1, <2>2
    <2> QED BY <2>1, <2>3 DEF EffectsFew, OnlyAt
  <1>3. phase \in [Ends -> {"Open", "Closing", "Closed"}]
    BY DEF TypeInv, Types
  <1>4. CASE Stay(s, <<>>)
    BY <1>2, <1>3, <1>4
  <1>5. CASE \E e \in Effect : Stay(s, <<e>>)
    <2>1. PICK e \in Effect : Stay(s, <<e>>)
      BY <1>5
    <2> QED BY <1>2, <1>3, <2>1
  <1> QED BY <1>1, <1>4, <1>5 DEF Reacts

\* A step of one end leaves the effects of the other alone.
LEMMA TypeInvFrom ==
    ASSUME TypeInv, Types', NEW s \in Ends, EffectsFew(s)', OnlyAt(s)
    PROVE  TypeInv'
  BY DEF TypeInv, EffectsFew, OnlyAt

\* Something comes from outside.
LEMMA InputTyped ==
    ASSUME TypeInv, Input
    PROVE  inputs' \in 0..MaxInputs
  <1>1. inputs \in 0..MaxInputs
    BY DEF TypeInv, Types
  <1> QED BY <1>1, HeartbeatTyped DEF Input

\* FromWire
LEMMA FromWireTyped ==
    ASSUME TypeInv, NEW s \in Ends, FromWire(s)
    PROVE  TypeInv' /\ Reacts(s)
  <1>1. /\ effects[s] = <<>> /\ ~followUp[s] /\ phase[s] = "Open" /\ wire[s] # <<>>
        /\ wire' = [wire EXCEPT ![s] = Tail(@)]
        /\ UNCHANGED <<followUp, conn, control, manager, inputs, registered, told>>
    BY DEF FromWire, Selecting, env
  <1>2. wire' \in [Ends -> Seq(Packet)]
    <2>1. wire[s] \in Seq(Packet)
      BY DEF TypeInv, Types
    <2>2. Tail(wire[s]) \in Seq(Packet)
      BY <1>1, <2>1
    <2> QED BY <1>1, <2>2 DEF TypeInv, Types
  <1>3. silence' \in [Ends -> Nat] /\ poked' \in [Ends -> Nat \cup {NoPing}]
    <2>1. OnRx(s) \/ UNCHANGED <<silence, poked>>
      BY DEF FromWire
    <2>2. silence \in [Ends -> Nat] /\ poked \in [Ends -> Nat \cup {NoPing}]
      BY DEF TypeInv, Types
    <2> QED BY <2>1, <2>2 DEF OnRx
  <1>4. Reacts(s)
    <2>1. \/ Close(s, "Local") \/ Close(s, "Remote") \/ Close(s, "Transport")
          \/ Stay(s, <<>>) \/ Stay(s, <<Send("Pong")>>) \/ Stay(s, <<HandleNodeMessage>>)
      BY DEF FromWire, OnWire
    <2> QED BY <2>1, EffectsTyped DEF Reacts
  <1>5. /\ effects' \in [Ends -> Seq(Effect)] /\ phase' \in [Ends -> {"Open", "Closing", "Closed"}]
        /\ EffectsFew(s)' /\ OnlyAt(s)
    BY <1>1, <1>4, ReactsTyped
  <1>6. Types'
    BY <1>1, <1>2, <1>3, <1>5 DEF TypeInv, Types
  <1> QED BY <1>4, <1>5, <1>6, TypeInvFrom

\* The other events: TransportDead, Control, FromNode and Tick.
LEMMA EventTyped ==
    ASSUME TypeInv, NEW s \in Ends, TransportDead(s) \/ Control(s) \/ FromNode(s) \/ Tick(s)
    PROVE  TypeInv' /\ Reacts(s)
  <1>1. /\ effects[s] = <<>> /\ ~followUp[s] /\ phase[s] = "Open"
        /\ UNCHANGED <<followUp, wire, conn, manager, registered, told>>
    BY DEF TransportDead, Control, FromNode, Tick, Selecting, env
  <1>2. Reacts(s)
    <2>1. \/ Close(s, "Local") \/ Close(s, "Transport")
          \/ Stay(s, <<Send("Ping")>>) \/ Stay(s, <<Send("NodeMsg")>>)
      BY DEF TransportDead, Control, FromNode, Tick
    <2> QED BY <2>1, EffectsTyped DEF Reacts
  <1>3. /\ effects' \in [Ends -> Seq(Effect)] /\ phase' \in [Ends -> {"Open", "Closing", "Closed"}]
        /\ EffectsFew(s)' /\ OnlyAt(s)
    BY <1>1, <1>2, ReactsTyped
  <1>4. silence' \in [Ends -> Nat] /\ poked' \in [Ends -> Nat \cup {NoPing}]
    <2>1. silence \in [Ends -> Nat] /\ poked \in [Ends -> Nat \cup {NoPing}]
      BY DEF TypeInv, Types
    <2>2. /\ silence' = silence \/ silence' = [silence EXCEPT ![s] = 0]
          /\ poked' = poked \/ poked' = [poked EXCEPT ![s] = 0]
      BY DEF TransportDead, Control, FromNode, Tick
    <2> QED BY <2>1, <2>2
  <1>5. control' \in [Ends -> Seq({"Shutdown", "Resume"})]
    <2>1. control' = control \/ (control[s] # <<>> /\ control' = [control EXCEPT ![s] = Tail(@)])
      BY DEF TransportDead, Control, FromNode, Tick, env
    <2>2. control \in [Ends -> Seq({"Shutdown", "Resume"})] /\ control[s] \in Seq({"Shutdown", "Resume"})
      BY DEF TypeInv, Types
    <2>3. control[s] # <<>> => Tail(control[s]) \in Seq({"Shutdown", "Resume"})
      BY <2>2
    <2> QED BY <2>1, <2>2, <2>3
  <1>6. inputs' \in 0..MaxInputs
    <2>1. inputs' = inputs \/ Input
      BY DEF TransportDead, Control, FromNode, Tick, env
    <2> QED BY <2>1, InputTyped DEF TypeInv, Types
  <1>7. Types'
    BY <1>1, <1>3, <1>4, <1>5, <1>6 DEF TypeInv, Types
  <1> QED BY <1>2, <1>3, <1>7, TypeInvFrom

\* apply_effect
LEMMA ApplyEffectTyped ==
    ASSUME TypeInv, NEW s \in Ends, ApplyEffect(s)
    PROVE  TypeInv'
  <1>1. /\ effects[s] # <<>> /\ ~followUp[s] /\ effects' = [effects EXCEPT ![s] = Tail(@)]
        /\ Succeed(s) \/ Fail(s)
        /\ UNCHANGED <<phase, silence, poked, conn, control, manager, inputs>>
    BY DEF ApplyEffect, env
  <1>2. effects[s] \in Seq(Effect) /\ Len(effects[s]) <= 3
    BY DEF TypeInv, Types, EffectsFew
  <1>3. /\ Tail(effects[s]) \in Seq(Effect) /\ Head(effects[s]) \in Effect
        /\ Len(Tail(effects[s])) = Len(effects[s]) - 1
    BY <1>1, <1>2
  <1>4. /\ effects' \in [Ends -> Seq(Effect)] /\ effects'[s] = Tail(effects[s])
        /\ \A t \in Ends : t # s => effects'[t] = effects[t]
    BY <1>1, <1>3 DEF TypeInv, Types
  <1>5. Len(effects'[s]) <= 3 /\ (phase[s] = "Open" => effects'[s] = <<>>)
    <2>1. phase[s] = "Open" => Len(effects[s]) <= 1
      BY DEF TypeInv, EffectsFew
    <2>2. Len(effects[s]) \in Nat /\ effects'[s] \in Seq(Effect)
      BY <1>2, <1>3, <1>4
    <2>3. phase[s] = "Open" => Len(effects'[s]) = 0
      BY <1>1, <1>2, <1>3, <1>4, <2>1, <2>2
    <2> QED BY <1>2, <1>3, <1>4, <2>2, <2>3
  <1>6. /\ followUp' \in [Ends -> BOOLEAN]
        /\ \A t \in Ends : t # s => followUp'[t] = followUp[t]
    <2>1. followUp' = followUp \/ followUp' = [followUp EXCEPT ![s] = TRUE]
      BY <1>1 DEF Succeed, Fail
    <2> QED BY <2>1 DEF TypeInv, Types
  <1>7. registered' \in [Ends -> BOOLEAN] /\ told' \in [Ends -> BOOLEAN]
    <2>1. /\ registered' = registered \/ registered' = [registered EXCEPT ![s] = FALSE]
          /\ told' = told \/ told' = [told EXCEPT ![s] = TRUE]
      BY <1>1 DEF Succeed, Fail
    <2> QED BY <2>1 DEF TypeInv, Types
  <1>8. wire' \in [Ends -> Seq(Packet)]
    <2>1. \A e \in Effect : e.msg \in Frame
      BY DEF Effect, Send, CloseSocket, HandleNodeMessage, Unregister, NotifyPeerClosed, Do, Frame
    <2>2. "WsPeerClosed" \in Frame /\ Other(s) \in Ends /\ Head(effects[s]).msg \in Frame
      BY <1>3, <2>1, OtherEnd DEF Frame
    <2>3. \/ wire' = wire \/ wire' = Onto(wire, Other(s), "WsPeerClosed")
          \/ wire' = Onto(wire, Other(s), Head(effects[s]).msg)
      BY <1>1 DEF Succeed, Fail, Write
    <2>4. wire \in [Ends -> Seq(Packet)]
      BY DEF TypeInv, Types
    <2>5. Onto(wire, Other(s), "WsPeerClosed") \in [Ends -> Seq(Packet)]
      BY <2>2, <2>4, OntoTyped
    <2>6. PICK m : m = Head(effects[s]).msg
      OBVIOUS
    <2>7. Onto(wire, Other(s), m) \in [Ends -> Seq(Packet)]
      BY <2>2, <2>4, <2>6, OntoTyped
    <2> QED BY <2>3, <2>4, <2>5, <2>6, <2>7, Zenon
  <1>9. Types'
    BY <1>1, <1>4, <1>6, <1>7, <1>8 DEF TypeInv, Types
  <1>10. EffectsFew(s)' /\ OnlyAt(s)
    <2>1. Len(<<>>) <= 1
      OBVIOUS
    <2> QED BY <1>1, <1>4, <1>5, <1>6, <2>1 DEF EffectsFew, OnlyAt
  <1> QED BY <1>9, <1>10, TypeInvFrom

\* effects_flushed
LEMMA EffectsFlushedTyped ==
    ASSUME TypeInv, NEW s \in Ends, EffectsFlushed(s)
    PROVE  TypeInv'
  <1>1. /\ End(s) /\ UNCHANGED <<effects, followUp, silence, poked, conn, control, manager, inputs,
                                 registered, told>>
    BY DEF EffectsFlushed, End, env
  <1>2. /\ wire' \in [Ends -> Seq(Packet)] /\ phase' \in [Ends -> {"Open", "Closing", "Closed"}]
        /\ phase'[s] = "Closed" /\ \A t \in Ends : t # s => phase'[t] = phase[t]
    BY <1>1, EndTyped
  <1>3. Types'
    BY <1>1, <1>2 DEF TypeInv, Types
  <1>4. EffectsFew(s)' /\ OnlyAt(s)
    BY <1>1, <1>2 DEF TypeInv, EffectsFew, OnlyAt
  <1> QED BY <1>3, <1>4, TypeInvFrom

\* TransportDead after a failed effect.
LEMMA FollowUpTyped ==
    ASSUME TypeInv, NEW s \in Ends, FollowUp(s)
    PROVE  TypeInv'
  <1>1. /\ followUp[s] /\ followUp' = [followUp EXCEPT ![s] = FALSE]
        /\ UNCHANGED <<silence, poked, conn, control, manager, inputs, registered, told>>
    BY DEF FollowUp, End, env
  <1>2. /\ followUp' \in [Ends -> BOOLEAN] /\ ~followUp'[s]
        /\ \A t \in Ends : t # s => followUp'[t] = followUp[t]
    BY <1>1 DEF TypeInv, Types
  <1>3. CASE phase[s] = "Open"
    <2>1. Close(s, "Transport") /\ wire' = wire /\ effects[s] = <<>>
      BY <1>1, <1>3 DEF FollowUp, TypeInv, EffectsFew
    <2>2. Reacts(s)
      BY <2>1 DEF Reacts
    <2>3. /\ effects' \in [Ends -> Seq(Effect)] /\ phase' \in [Ends -> {"Open", "Closing", "Closed"}]
          /\ EffectsFew(s)' /\ OnlyAt(s)
      BY <1>2, <2>1, <2>2, ReactsTyped
    <2>4. Types'
      BY <1>1, <1>2, <2>1, <2>3 DEF TypeInv, Types
    <2> QED BY <2>3, <2>4, TypeInvFrom
  <1>4. CASE phase[s] # "Open"
    <2>1. End(s) /\ effects' = [effects EXCEPT ![s] = <<>>]
      BY <1>4 DEF FollowUp
    <2>2. /\ wire' \in [Ends -> Seq(Packet)] /\ phase' \in [Ends -> {"Open", "Closing", "Closed"}]
          /\ phase'[s] = "Closed" /\ \A t \in Ends : t # s => phase'[t] = phase[t]
      BY <2>1, EndTyped
    <2>3. <<>> \in Seq(Effect) /\ Len(<<>>) <= 3
      OBVIOUS
    <2>4. /\ effects' \in [Ends -> Seq(Effect)] /\ effects'[s] = <<>>
          /\ \A t \in Ends : t # s => effects'[t] = effects[t]
      BY <2>1, <2>3 DEF TypeInv, Types
    <2>5. Types'
      BY <1>1, <1>2, <2>2, <2>4 DEF TypeInv, Types
    <2>6. EffectsFew(s)' /\ OnlyAt(s)
      BY <1>2, <2>2, <2>3, <2>4 DEF EffectsFew, OnlyAt
    <2> QED BY <2>5, <2>6, TypeInvFrom
  <1> QED BY <1>3, <1>4

\* SendResume, SendShutdown, StrayFrame: what comes from outside to one end.
LEMMA OutsideTyped ==
    ASSUME TypeInv, NEW s \in Ends, SendResume(s) \/ SendShutdown(s) \/ StrayFrame(s)
    PROVE  TypeInv'
  <1>1. /\ Input /\ UNCHANGED <<phase, effects, followUp, silence, poked, conn, registered, told>>
    BY DEF SendResume, SendShutdown, StrayFrame, fsm
  <1>2. inputs' \in 0..MaxInputs
    BY <1>1, InputTyped
  <1>3. control' \in [Ends -> Seq({"Shutdown", "Resume"})]
    <2>1. control' = control \/ \E c \in {"Shutdown", "Resume"} : Command(s, c)
      BY DEF SendResume, SendShutdown, StrayFrame
    <2>2. control \in [Ends -> Seq({"Shutdown", "Resume"})]
      BY DEF TypeInv, Types
    <2>3. ASSUME NEW c \in {"Shutdown", "Resume"}, Command(s, c)
          PROVE  control' \in [Ends -> Seq({"Shutdown", "Resume"})]
      <3>1. PICK q : q = Append(control[s], c)
        OBVIOUS
      <3>2. q \in Seq({"Shutdown", "Resume"})
        BY <2>2, <3>1
      <3>3. control' = [control EXCEPT ![s] = q]
        BY <2>3, <3>1 DEF Command
      <3> QED BY <2>2, <3>2, <3>3
    <2> QED BY <2>1, <2>2, <2>3
  <1>4. manager' \in [Ends -> {"on", "let go", "gone"}]
    <2>1. manager \in [Ends -> {"on", "let go", "gone"}]
      BY DEF TypeInv, Types
    <2>2. manager' = manager \/ \E m \in {"let go", "gone"} : manager' = [manager EXCEPT ![s] = m]
      BY DEF SendResume, SendShutdown, StrayFrame
    <2> QED BY <2>1, <2>2
  <1>5. wire' \in [Ends -> Seq(Packet)]
    <2>1. wire \in [Ends -> Seq(Packet)]
      BY DEF TypeInv, Types
    <2>2. wire' = wire \/ \E f \in {"Hello", "Unknown"} : wire' = Onto(wire, s, f)
      BY DEF SendResume, SendShutdown, StrayFrame
    <2>3. ASSUME NEW f \in {"Hello", "Unknown"}, wire' = Onto(wire, s, f)
          PROVE  wire' \in [Ends -> Seq(Packet)]
      <3>1. f \in Frame
        BY DEF Frame, WsMessage
      <3> QED BY <2>1, <2>3, <3>1, OntoTyped
    <2> QED BY <2>1, <2>2, <2>3
  <1>6. Types'
    BY <1>1, <1>2, <1>3, <1>4, <1>5 DEF TypeInv, Types
  <1> QED BY <1>1, <1>6 DEF TypeInv, EffectsFew

\* The connection breaks.
LEMMA BreakTyped ==
    ASSUME TypeInv, Cut \/ Reset
    PROVE  TypeInv'
  <1>1. /\ Input /\ conn' \in {"cut", "reset"}
        /\ UNCHANGED <<phase, effects, followUp, silence, poked, control, manager, registered, told>>
    BY DEF Cut, Reset, fsm
  <1>2. inputs' \in 0..MaxInputs
    BY <1>1, InputTyped
  <1>3. wire' \in [Ends -> Seq(Packet)]
    <2>1. <<>> \in Seq(Packet)
      OBVIOUS
    <2>2. wire' = wire \/ wire' = [t \in Ends |-> <<>>]
      BY DEF Cut, Reset
    <2> QED BY <2>1, <2>2 DEF TypeInv, Types
  <1>4. Types'
    BY <1>1, <1>2, <1>3 DEF TypeInv, Types
  <1> QED BY <1>1, <1>4 DEF TypeInv, EffectsFew

\* The packets of q, a unit of time older.
Aged(q) == [i \in DOMAIN q |-> [q[i] EXCEPT !.age = @ + 1]]

\* Messages under way grow older and stay in order.
LEMMA AgedIs ==
    ASSUME NEW q \in Seq(Packet)
    PROVE  /\ Aged(q) \in Seq(Packet) /\ Len(Aged(q)) = Len(q)
           /\ \A i \in 1..Len(q) : Aged(q)[i].msg = q[i].msg /\ Aged(q)[i].age = q[i].age + 1
  <1>1. DOMAIN q = 1..Len(q) /\ Len(q) \in Nat
    OBVIOUS
  <1>2. \A i \in 1..Len(q) : q[i] \in Packet
    OBVIOUS
  <1>3. ASSUME NEW i \in 1..Len(q)
        PROVE  /\ Aged(q)[i].msg = q[i].msg /\ Aged(q)[i].age = q[i].age + 1
               /\ Aged(q)[i] \in Packet
    <2>1. PICK p \in Packet : p = q[i]
      BY <1>2
    <2>2. Aged(q)[i] = [p EXCEPT !.age = @ + 1]
      BY <1>1, <2>1 DEF Aged
    <2>3. /\ [p EXCEPT !.age = @ + 1].msg = p.msg /\ [p EXCEPT !.age = @ + 1].age = p.age + 1
          /\ [p EXCEPT !.age = @ + 1] \in Packet
      BY DEF Packet
    <2> QED BY <2>1, <2>2, <2>3
  <1>4. Aged(q) \in [1..Len(q) -> Packet]
    BY <1>1, <1>3 DEF Aged
  <1> QED BY <1>1, <1>3, <1>4

\* Time passes.
LEMMA AdvanceTyped ==
    ASSUME TypeInv, Advance
    PROVE  TypeInv'
  <1>1. UNCHANGED <<phase, effects, followUp, conn, control, manager, inputs, registered, told>>
    BY DEF Advance, env
  <1>2. silence' \in [Ends -> Nat]
    <2>1. \A t \in Ends : silence[t] \in Nat
      BY DEF TypeInv, Types
    <2>2. silence' = [t \in Ends |-> IF t \in Running THEN silence[t] + 1 ELSE silence[t]]
      BY DEF Advance
    <2> QED BY <2>1, <2>2
  <1>3. poked' \in [Ends -> Nat \cup {NoPing}]
    <2>1. \A t \in Ends : poked[t] \in Nat \cup {NoPing}
      BY DEF TypeInv, Types
    <2>2. poked' = [t \in Ends |-> IF t \in Running /\ poked[t] # NoPing THEN poked[t] + 1 ELSE poked[t]]
      BY DEF Advance
    <2> QED BY <2>1, <2>2 DEF NoPing
  <1>4. wire' \in [Ends -> Seq(Packet)]
    <2>1. wire' = [t \in Ends |-> Aged(wire[t])]
      BY DEF Advance, Aged
    <2>2. \A t \in Ends : wire[t] \in Seq(Packet)
      BY DEF TypeInv, Types
    <2>3. \A t \in Ends : Aged(wire[t]) \in Seq(Packet)
      BY <2>2, AgedIs
    <2> QED BY <2>1, <2>3, Zenon
  <1>5. Types'
    BY <1>1, <1>2, <1>3, <1>4 DEF TypeInv, Types
  <1> QED BY <1>1, <1>5 DEF TypeInv, EffectsFew

\* Every step keeps types and bounds on waiting effects.
LEMMA TypeInvStep == TypeInv /\ [Next]_vars => TypeInv'
  <1> SUFFICES ASSUME TypeInv, [Next]_vars PROVE TypeInv'
    OBVIOUS
  <1>1. ASSUME NEW s \in Ends, Loop(s) \/ FromNode(s) PROVE TypeInv'
    <2>1. CASE ApplyEffect(s) \/ EffectsFlushed(s) \/ FollowUp(s)
      BY <2>1, ApplyEffectTyped, EffectsFlushedTyped, FollowUpTyped
    <2>2. CASE FromWire(s)
      BY <2>2, FromWireTyped
    <2>3. CASE TransportDead(s) \/ Control(s) \/ FromNode(s) \/ Tick(s)
      BY <2>3, EventTyped
    <2> QED BY <1>1, <2>1, <2>2, <2>3 DEF Loop
  <1>2. ASSUME NEW s \in Ends, SendResume(s) \/ SendShutdown(s) \/ StrayFrame(s) PROVE TypeInv'
    BY <1>2, OutsideTyped
  <1>3. CASE Cut \/ Reset
    BY <1>3, BreakTyped
  <1>4. CASE Advance
    BY <1>4, AdvanceTyped
  <1>5. CASE UNCHANGED vars
    BY <1>5 DEF vars, fsm, env, TypeInv, Types, EffectsFew
  <1> QED BY <1>1, <1>2, <1>3, <1>4, <1>5 DEF Next

\* They are what TypeOK asks for.
LEMMA TypeInvMeaning == TypeInv => TypeOK
  <1> SUFFICES ASSUME TypeInv PROVE TypeOK
    OBVIOUS
  <1>1. ASSUME NEW s \in Ends
        PROVE  /\ \A i \in DOMAIN effects[s] : effects[s][i] \in Effect
               /\ Len(effects[s]) <= 3
               /\ \A i \in DOMAIN wire[s] : wire[s][i] \in [msg : Frame, age : Nat]
               /\ \A i \in DOMAIN control[s] : control[s][i] \in {"Shutdown", "Resume"}
    <2>1. effects[s] \in Seq(Effect) /\ wire[s] \in Seq(Packet) /\ control[s] \in Seq({"Shutdown", "Resume"})
      BY DEF TypeInv, Types
    <2>2. \A i \in DOMAIN effects[s] : effects[s][i] \in Effect
      BY <2>1
    <2>3. \A i \in DOMAIN wire[s] : wire[s][i] \in Packet
      BY <2>1
    <2>4. \A i \in DOMAIN control[s] : control[s][i] \in {"Shutdown", "Resume"}
      BY <2>1
    <2> QED BY <2>2, <2>3, <2>4 DEF TypeInv, EffectsFew, Packet
  <1> QED BY <1>1 DEF TypeInv, Types, TypeOK

\* In every interleaving the variables keep their types, and between two events
\* only the effects of one wait: run_ws_peer applies them all before it selects.
THEOREM TypeCorrect == Spec => []TypeOK
  <1>1. QED
    BY TypeInvInit, TypeInvStep, TypeInvMeaning, PTL DEF Spec

-----------------------------------------------------------------------------
(* A live peer is heard: since the last time a session heard something, an *)
(* interval at most has passed, or a ping or an answer is on its way, and  *)
(* how old that is bounds the silence.                                     *)

\* One of the messages M is under way in q, and has been since the silence,
\* which is now t, was s at most.
Coming(q, M, t, s) == \E i \in DOMAIN q : q[i].msg \in M /\ t <= s + q[i].age

Heard(s) ==
    \/ poked[s] = NoPing /\ silence[s] <= Interval
    \/ Coming(wire[s], WsMessage, silence[s], Interval + MaxDelay)
    \/ Coming(wire[Other(s)], {"Ping"}, silence[s], Interval)
    \/ effects[Other(s)] = <<Send("Pong")>> /\ silence[s] <= Interval + MaxDelay
    \/ effects[s] = <<Send("Ping")>> /\ silence[s] <= Interval

\* No message has been on its way for longer than MaxDelay.
Young(q) == \A i \in DOMAIN q : q[i].age <= MaxDelay

\* The connection is whole and both sessions are open.
Talking == conn = "up" /\ \A s \in Ends : phase[s] = "Open"

HeardInv ==
    /\ TypeInv
    /\ Talking => \A s \in Ends : Young(wire[s]) /\ Heard(s)

\* What is coming still comes after another message was sent,
LEMMA ComingAppend ==
    ASSUME NEW q \in Seq(Packet), NEW p \in Packet, NEW M, NEW t \in Nat, NEW s \in Nat
    PROVE  /\ Coming(q, M, t, s) => Coming(Append(q, p), M, t, s)
           /\ p.msg \in M /\ t <= s + p.age => Coming(Append(q, p), M, t, s)
           /\ Young(q) /\ p.age <= MaxDelay => Young(Append(q, p))
  <1>1. PICK r : r = Append(q, p)
    OBVIOUS
  <1>2. /\ DOMAIN r = 1..(Len(q) + 1) /\ DOMAIN q = 1..Len(q) /\ Len(q) \in Nat
        /\ \A i \in 1..Len(q) : r[i] = q[i]
        /\ r[Len(q) + 1] = p
    BY <1>1
  <1>3. \A i \in DOMAIN q : i \in DOMAIN r
    BY <1>2
  <1>4. Len(q) + 1 \in DOMAIN r /\ \A i \in DOMAIN r : i \in DOMAIN q \/ i = Len(q) + 1
    BY <1>2
  <1>5. Coming(q, M, t, s) => Coming(r, M, t, s)
    BY <1>2, <1>3 DEF Coming
  <1>6. p.msg \in M /\ t <= s + p.age => Coming(r, M, t, s)
    BY <1>2, <1>4 DEF Coming
  <1>7. Young(q) /\ p.age <= MaxDelay => Young(r)
    BY <1>2, <1>4 DEF Young
  <1> QED BY <1>1, <1>5, <1>6, <1>7

\* and after the first one arrived, unless it was the one,
LEMMA ComingTail ==
    ASSUME NEW q \in Seq(Packet), q # <<>>, NEW M, NEW t \in Nat, NEW s \in Nat
    PROVE  /\ Coming(q, M, t, s) => \/ Head(q).msg \in M /\ t <= s + Head(q).age
                                    \/ Coming(Tail(q), M, t, s)
           /\ Young(q) => Head(q).age <= MaxDelay /\ Young(Tail(q))
  <1>1. PICK r : r = Tail(q)
    OBVIOUS
  <1>2. /\ DOMAIN r = 1..(Len(q) - 1) /\ DOMAIN q = 1..Len(q) /\ Len(q) \in Nat /\ Len(q) > 0
        /\ \A i \in 1..(Len(q) - 1) : r[i] = q[i + 1]
        /\ Head(q) = q[1]
    BY <1>1
  <1>3. ASSUME NEW i \in DOMAIN q, i # 1
        PROVE  i - 1 \in DOMAIN r /\ r[i - 1] = q[i]
    BY <1>2, <1>3
  <1>4. ASSUME NEW i \in DOMAIN r
        PROVE  i + 1 \in DOMAIN q /\ r[i] = q[i + 1]
    BY <1>2, <1>4
  <1>5. Coming(q, M, t, s) => (q[1].msg \in M /\ t <= s + q[1].age) \/ Coming(r, M, t, s)
    BY <1>3 DEF Coming
  <1>6. Young(q) => q[1].age <= MaxDelay /\ Young(r)
    <2>1. 1 \in DOMAIN q
      BY <1>2
    <2> QED BY <1>4, <2>1 DEF Young
  <1> QED BY <1>1, <1>2, <1>5, <1>6

\* and is one unit of time closer when time has passed.
LEMMA ComingAged ==
    ASSUME NEW q \in Seq(Packet), NEW M, NEW t \in Nat, NEW s \in Nat, Coming(q, M, t, s)
    PROVE  Coming(Aged(q), M, t + 1, s)
  <1>1. PICK r : r = Aged(q)
    OBVIOUS
  <1>2. /\ r \in Seq(Packet) /\ Len(r) = Len(q)
        /\ \A i \in 1..Len(q) : r[i].msg = q[i].msg /\ r[i].age = q[i].age + 1
    BY <1>1, AgedIs
  <1>3. DOMAIN q = 1..Len(q) /\ DOMAIN r = 1..Len(q)
    BY <1>2
  <1>4. PICK i \in DOMAIN q : q[i].msg \in M /\ t <= s + q[i].age
    BY DEF Coming
  <1>5. q[i] \in Packet
    OBVIOUS
  <1>6. q[i].age \in Nat
    BY <1>5 DEF Packet
  <1>7. r[i].msg \in M /\ r[i].age = q[i].age + 1 /\ i \in DOMAIN r
    BY <1>2, <1>3, <1>4
  <1>8. t + 1 <= s + r[i].age
    BY <1>4, <1>6, <1>7
  <1> QED BY <1>1, <1>7, <1>8 DEF Coming

\* No message gets older than the delay allows.
LEMMA YoungAged ==
    ASSUME NEW q \in Seq(Packet), \A i \in DOMAIN q : q[i].age < MaxDelay
    PROVE  Young(Aged(q))
  <1>1. PICK r : r = Aged(q)
    OBVIOUS
  <1>2. /\ r \in Seq(Packet) /\ Len(r) = Len(q)
        /\ \A i \in 1..Len(q) : r[i].msg = q[i].msg /\ r[i].age = q[i].age + 1
    BY <1>1, AgedIs
  <1>3. DOMAIN q = 1..Len(q) /\ DOMAIN r = 1..Len(q)
    BY <1>2
  <1>4. ASSUME NEW i \in DOMAIN r PROVE r[i].age <= MaxDelay
    <2>1. q[i] \in Packet /\ r[i].age = q[i].age + 1 /\ q[i].age < MaxDelay
      BY <1>2, <1>3
    <2>2. q[i].age \in Nat
      BY <2>1 DEF Packet
    <2> QED BY <2>1, <2>2, HeartbeatTyped
  <1> QED BY <1>1, <1>4 DEF Young

\* A step that leaves both sessions open and all but one packet as it was.
LEMMA HeardFrame ==
    ASSUME NEW s \in Ends, Heard(s), silence'[s] = silence[s],
           poked[s] = NoPing /\ silence[s] <= Interval => Heard(s)',
           Coming(wire[s], WsMessage, silence[s], Interval + MaxDelay) =>
               \/ Coming(wire'[s], WsMessage, silence[s], Interval + MaxDelay)
               \/ Heard(s)',
           Coming(wire[Other(s)], {"Ping"}, silence[s], Interval) =>
               \/ Coming(wire'[Other(s)], {"Ping"}, silence[s], Interval)
               \/ Heard(s)',
           effects[Other(s)] = <<Send("Pong")>> /\ silence[s] <= Interval + MaxDelay =>
               \/ effects'[Other(s)] = <<Send("Pong")>>
               \/ Heard(s)',
           effects[s] = <<Send("Ping")>> /\ silence[s] <= Interval =>
               \/ effects'[s] = <<Send("Ping")>>
               \/ Heard(s)'
    PROVE  Heard(s)'
  <1>1. CASE poked[s] = NoPing /\ silence[s] <= Interval
    BY <1>1
  <1>2. CASE Coming(wire[s], WsMessage, silence[s], Interval + MaxDelay)
    BY <1>2 DEF Heard
  <1>3. CASE Coming(wire[Other(s)], {"Ping"}, silence[s], Interval)
    BY <1>3 DEF Heard
  <1>4. CASE effects[Other(s)] = <<Send("Pong")>> /\ silence[s] <= Interval + MaxDelay
    BY <1>4 DEF Heard
  <1>5. CASE effects[s] = <<Send("Ping")>> /\ silence[s] <= Interval
    BY <1>5 DEF Heard
  <1> QED BY <1>1, <1>2, <1>3, <1>4, <1>5 DEF Heard

\* A sequence of one effect is not empty.
LEMMA SendsAreSome == <<Send("Ping")>> # <<>> /\ <<Send("Pong")>> # <<>>
  OBVIOUS

\* FromWire: what is received ends the silence; a ping is answered.
LEMMA FromWireHeard ==
    ASSUME HeardInv, TypeInv', NEW s \in Ends, FromWire(s)
    PROVE  HeardInv'
  <1> SUFFICES ASSUME Talking' PROVE \A t \in Ends : Young(wire'[t]) /\ Heard(t)'
    BY DEF HeardInv
  <1> DEFINE u == Other(s)
             m == Head(wire[s]).msg
  <1>1. /\ u \in Ends /\ u # s /\ Other(u) = s /\ \A t \in Ends : t = s \/ t = u
    BY OtherEnd
  <1>2. /\ phase[s] = "Open" /\ effects[s] = <<>> /\ wire[s] # <<>>
        /\ wire' = [wire EXCEPT ![s] = Tail(@)] /\ conn' = conn
    BY DEF FromWire, Selecting, env
  <1>3. TypeInv /\ wire \in [Ends -> Seq(Packet)] /\ effects \in [Ends -> Seq(Effect)]
        /\ phase \in [Ends -> {"Open", "Closing", "Closed"}]
        /\ silence \in [Ends -> Nat] /\ poked \in [Ends -> Nat \cup {NoPing}]
    BY DEF HeardInv, TypeInv, Types
  <1>4. ~Close(s, "Local") /\ ~Close(s, "Remote") /\ ~Close(s, "Transport")
    BY <1>3 DEF Close, Talking
  <1>5. \/ m \in WsMessage /\ OnRx(s) /\ \/ m = "Ping" /\ Stay(s, <<Send("Pong")>>)
                                         \/ m # "Ping" /\ Stay(s, <<>>)
                                         \/ m # "Ping" /\ Stay(s, <<HandleNodeMessage>>)
        \/ m = "Unknown" /\ Stay(s, <<>>) /\ UNCHANGED <<silence, poked>>
    BY <1>4 DEF FromWire, OnWire
  <1>6. /\ phase' = phase /\ effects'[u] = effects[u]
        /\ m = "Ping" => effects'[s] = <<Send("Pong")>>
    <2>1. Send("Pong") \in Effect /\ HandleNodeMessage \in Effect
      BY EffectsTyped
    <2>2. ASSUME NEW E, Stay(s, E), E = <<>> \/ \E e \in Effect : E = <<e>>
          PROVE  phase' = phase /\ effects'[s] = E /\ effects'[u] = effects[u]
      BY <1>1, <1>2, <1>3, <2>2, StayTyped
    <2>3. CASE m = "Ping"
      <3>1. Stay(s, <<Send("Pong")>>)
        BY <1>5, <2>3
      <3> QED BY <2>1, <2>2, <3>1
    <2>4. CASE Stay(s, <<>>) /\ m # "Ping"
      BY <2>2, <2>4
    <2>5. CASE Stay(s, <<HandleNodeMessage>>) /\ m # "Ping"
      BY <2>1, <2>2, <2>5
    <2> QED BY <1>5, <2>3, <2>4, <2>5
  <1>7. Talking /\ \A t \in Ends : Young(wire[t]) /\ Heard(t)
    BY <1>2, <1>6 DEF Talking, HeardInv
  <1>8. wire'[u] = wire[u] /\ wire'[s] = Tail(wire[s])
    BY <1>1, <1>2, <1>3
  <1>9. Young(wire'[s]) /\ Young(wire'[u]) /\ Head(wire[s]).age <= MaxDelay
    <2>1. wire[s] \in Seq(Packet) /\ Young(wire[s])
      BY <1>3, <1>7
    <2>2. Young(wire[s]) => Head(wire[s]).age <= MaxDelay /\ Young(Tail(wire[s]))
      BY <1>2, <2>1, ComingTail
    <2> QED BY <1>1, <1>7, <1>8, <2>1, <2>2
  <1>10. Heard(s)'
    <2>1. CASE OnRx(s)
      <3>1. poked'[s] = NoPing /\ silence'[s] = 0
        BY <1>3, <2>1 DEF OnRx
      <3> QED BY <3>1, HeartbeatTyped DEF Heard
    <2>2. CASE m = "Unknown" /\ UNCHANGED <<silence, poked>>
      <3>1. Coming(wire[s], WsMessage, silence[s], Interval + MaxDelay) =>
               Coming(wire'[s], WsMessage, silence[s], Interval + MaxDelay)
        <4>1. "Unknown" \notin WsMessage
          BY DEF WsMessage
        <4>2. Interval + MaxDelay \in Nat /\ silence[s] \in Nat /\ wire[s] \in Seq(Packet)
          BY <1>3, HeartbeatTyped
        <4>3. Coming(wire[s], WsMessage, silence[s], Interval + MaxDelay) =>
                \/ Head(wire[s]).msg \in WsMessage
                \/ Coming(Tail(wire[s]), WsMessage, silence[s], Interval + MaxDelay)
          BY <1>2, <4>2, ComingTail
        <4> QED BY <1>8, <2>2, <4>1, <4>3
      <3>2. effects[s] # <<Send("Ping")>>
        BY <1>2, SendsAreSome
      <3>3. poked[s] = NoPing /\ silence[s] <= Interval => Heard(s)'
        BY <2>2 DEF Heard
      <3> QED BY <1>6, <1>7, <1>8, <2>2, <3>1, <3>2, <3>3, HeardFrame
    <2> QED BY <1>5, <2>1, <2>2
  <1>11. Heard(u)'
    <2>1. silence'[u] = silence[u] /\ poked'[u] = poked[u]
      BY <1>1, <1>3, <1>5 DEF OnRx
    <2>2. Coming(wire[s], {"Ping"}, silence[u], Interval) =>
             \/ Coming(wire'[s], {"Ping"}, silence[u], Interval)
             \/ Heard(u)'
      <3>1. Interval \in Nat /\ silence[u] \in Nat /\ wire[s] \in Seq(Packet) /\ MaxDelay \in Nat
        BY <1>1, <1>3, HeartbeatTyped
      <3>2. Coming(wire[s], {"Ping"}, silence[u], Interval) =>
              \/ Head(wire[s]).msg \in {"Ping"} /\ silence[u] <= Interval + Head(wire[s]).age
              \/ Coming(Tail(wire[s]), {"Ping"}, silence[u], Interval)
        BY <1>2, <3>1, ComingTail
      <3>3. ASSUME m = "Ping", silence[u] <= Interval + Head(wire[s]).age
            PROVE  Heard(u)'
        <4>1. Head(wire[s]) \in Packet
          BY <1>2, <3>1
        <4>2. Head(wire[s]).age \in Nat
          BY <4>1 DEF Packet
        <4>3. silence'[u] <= Interval + MaxDelay
          BY <1>9, <2>1, <3>1, <3>3, <4>2
        <4> QED BY <1>1, <1>6, <3>3, <4>3 DEF Heard
      <3> QED BY <1>8, <3>2, <3>3
    <2>3. effects[s] # <<Send("Pong")>>
      BY <1>2, SendsAreSome
    <2>4. poked[u] = NoPing /\ silence[u] <= Interval => Heard(u)'
      BY <2>1 DEF Heard
    <2> QED BY <1>1, <1>6, <1>7, <1>8, <2>1, <2>2, <2>3, <2>4, HeardFrame
  <1> QED BY <1>1, <1>9, <1>10, <1>11

\* TransportDead, Control, FromNode and Tick: a ping goes out before the silence
\* is longer than an interval.
LEMMA EventHeard ==
    ASSUME HeardInv, TypeInv', NEW s \in Ends,
           TransportDead(s) \/ Control(s) \/ FromNode(s) \/ Tick(s)
    PROVE  HeardInv'
  <1> SUFFICES ASSUME Talking' PROVE \A t \in Ends : Young(wire'[t]) /\ Heard(t)'
    BY DEF HeardInv
  <1> DEFINE u == Other(s)
  <1>1. /\ u \in Ends /\ u # s /\ Other(u) = s /\ \A t \in Ends : t = s \/ t = u
    BY OtherEnd
  <1>2. /\ phase[s] = "Open" /\ effects[s] = <<>> /\ wire' = wire /\ conn' = conn
    BY DEF TransportDead, Control, FromNode, Tick, Selecting, env
  <1>3. TypeInv /\ wire \in [Ends -> Seq(Packet)] /\ effects \in [Ends -> Seq(Effect)]
        /\ phase \in [Ends -> {"Open", "Closing", "Closed"}]
        /\ silence \in [Ends -> Nat] /\ poked \in [Ends -> Nat \cup {NoPing}]
    BY DEF HeardInv, TypeInv, Types
  <1>4. ~Close(s, "Local") /\ ~Close(s, "Remote") /\ ~Close(s, "Transport")
    BY <1>3 DEF Close, Talking
  <1>5. \/ Stay(s, <<Send("NodeMsg")>>) /\ UNCHANGED <<silence, poked>>
        \/ /\ Stay(s, <<Send("Ping")>>)
           /\ silence' = [silence EXCEPT ![s] = 0] \/ silence' = silence
           /\ poked' = [poked EXCEPT ![s] = 0]
    BY <1>4 DEF TransportDead, Control, FromNode, Tick
  <1>6. /\ phase' = phase /\ effects'[u] = effects[u]
        /\ Stay(s, <<Send("Ping")>>) => effects'[s] = <<Send("Ping")>>
    <2>1. Send("Ping") \in Effect /\ Send("NodeMsg") \in Effect
      BY EffectsTyped
    <2>2. ASSUME NEW E, Stay(s, E), E = <<>> \/ \E e \in Effect : E = <<e>>
          PROVE  phase' = phase /\ effects'[s] = E /\ effects'[u] = effects[u]
      BY <1>1, <1>2, <1>3, <2>2, StayTyped
    <2>3. Stay(s, <<Send("NodeMsg")>>) => phase' = phase /\ effects'[u] = effects[u]
      BY <2>1, <2>2
    <2>4. Stay(s, <<Send("Ping")>>) =>
             phase' = phase /\ effects'[u] = effects[u] /\ effects'[s] = <<Send("Ping")>>
      BY <2>1, <2>2
    <2> QED BY <1>5, <2>3, <2>4
  <1>7. Talking /\ \A t \in Ends : Young(wire[t]) /\ Heard(t)
    BY <1>2, <1>6 DEF Talking, HeardInv
  <1>8. effects[s] # <<Send("Ping")>> /\ effects[s] # <<Send("Pong")>>
    BY <1>2, SendsAreSome
  <1>9. Heard(s)'
    <2>1. CASE UNCHANGED <<silence, poked>>
      <3>1. poked[s] = NoPing /\ silence[s] <= Interval => Heard(s)'
        BY <2>1 DEF Heard
      <3> QED BY <1>2, <1>6, <1>7, <1>8, <2>1, <3>1, HeardFrame
    <2>2. CASE effects'[s] = <<Send("Ping")>> /\ silence' = [silence EXCEPT ![s] = 0]
      <3>1. silence'[s] = 0
        BY <1>3, <2>2
      <3> QED BY <2>2, <3>1, HeartbeatTyped DEF Heard
    <2>3. CASE effects'[s] = <<Send("Ping")>> /\ silence' = silence
      <3>1. poked[s] = NoPing /\ silence[s] <= Interval => Heard(s)'
        BY <2>3 DEF Heard
      <3> QED BY <1>2, <1>6, <1>7, <1>8, <2>3, <3>1, HeardFrame
    <2> QED BY <1>5, <1>6, <2>1, <2>2, <2>3
  <1>10. Heard(u)'
    <2>1. silence'[u] = silence[u] /\ poked'[u] = poked[u]
      BY <1>1, <1>3, <1>5
    <2>2. poked[u] = NoPing /\ silence[u] <= Interval => Heard(u)'
      BY <2>1 DEF Heard
    <2> QED BY <1>1, <1>2, <1>6, <1>7, <1>8, <2>1, <2>2, HeardFrame
  <1> QED BY <1>1, <1>2, <1>7, <1>9, <1>10

\* A packet joins those on their way to t; with it an effect may be done.
LEMMA OntoHeard ==
    ASSUME TypeInv, \A x \in Ends : Young(wire[x]) /\ Heard(x),
           NEW t \in Ends, NEW f \in Frame, wire' = Onto(wire, t, f),
           UNCHANGED <<silence, poked>>,
           effects' = effects \/
              (/\ effects[Other(t)] = <<Send("Ping")>> => f = "Ping"
               /\ effects[Other(t)] = <<Send("Pong")>> => f = "Pong"
               /\ effects'[t] = effects[t])
    PROVE  \A x \in Ends : Young(wire'[x]) /\ Heard(x)'
  <1> DEFINE u == Other(t)
             p == [msg |-> f, age |-> 0]
  <1>1. /\ u \in Ends /\ u # t /\ Other(u) = t /\ \A x \in Ends : x = t \/ x = u
    BY OtherEnd
  <1>2. wire \in [Ends -> Seq(Packet)] /\ silence \in [Ends -> Nat]
    BY DEF TypeInv, Types
  <1>3. p \in Packet /\ p.msg = f /\ p.age = 0 /\ wire[t] \in Seq(Packet) /\ silence[t] \in Nat
        /\ silence[u] \in Nat /\ Interval \in Nat /\ MaxDelay \in Nat
    BY <1>1, <1>2, HeartbeatTyped DEF Packet
  <1>4. wire'[t] = Append(wire[t], p) /\ wire'[u] = wire[u]
    BY <1>1, <1>2 DEF Onto
  <1>5. Young(wire'[t]) /\ Young(wire'[u])
    <2>1. Young(wire[t]) /\ p.age <= MaxDelay => Young(Append(wire[t], p))
      BY <1>3, ComingAppend
    <2>2. p.age <= MaxDelay
      BY <1>3
    <2> QED BY <1>1, <1>4, <2>1, <2>2
  <1>6. Heard(t)'
    <2>1. Interval + MaxDelay \in Nat
      BY <1>3
    <2>2. /\ Coming(wire[t], WsMessage, silence[t], Interval + MaxDelay) =>
                Coming(wire'[t], WsMessage, silence[t], Interval + MaxDelay)
          /\ p.msg \in WsMessage /\ silence[t] <= (Interval + MaxDelay) + p.age =>
                Coming(wire'[t], WsMessage, silence[t], Interval + MaxDelay)
      BY <1>3, <1>4, <2>1, ComingAppend
    <2>3. effects[u] = <<Send("Pong")>> /\ silence[t] <= Interval + MaxDelay =>
             effects'[u] = <<Send("Pong")>> \/ Heard(t)'
      <3>1. CASE effects' = effects
        BY <3>1
      <3>2. ASSUME f = "Pong", silence[t] <= Interval + MaxDelay PROVE Heard(t)'
        <4>1. p.msg \in WsMessage /\ silence[t] <= (Interval + MaxDelay) + p.age
          BY <1>3, <3>2 DEF WsMessage
        <4> QED BY <2>2, <4>1 DEF Heard
      <3> QED BY <3>1, <3>2
    <2>4. poked[t] = NoPing /\ silence[t] <= Interval => Heard(t)'
      BY DEF Heard
    <2>5. effects'[t] = effects[t]
      OBVIOUS
    <2> QED BY <1>4, <2>2, <2>3, <2>4, <2>5, HeardFrame
  <1>7. Heard(u)'
    <2>1. /\ Coming(wire[t], {"Ping"}, silence[u], Interval) =>
                Coming(wire'[t], {"Ping"}, silence[u], Interval)
          /\ p.msg \in {"Ping"} /\ silence[u] <= Interval + p.age =>
                Coming(wire'[t], {"Ping"}, silence[u], Interval)
      BY <1>3, <1>4, ComingAppend
    <2>2. effects[u] = <<Send("Ping")>> /\ silence[u] <= Interval =>
             effects'[u] = <<Send("Ping")>> \/ Heard(u)'
      <3>1. CASE effects' = effects
        BY <3>1
      <3>2. ASSUME f = "Ping", silence[u] <= Interval PROVE Heard(u)'
        <4>1. p.msg \in {"Ping"} /\ silence[u] <= Interval + p.age
          BY <1>3, <3>2
        <4> QED BY <1>1, <2>1, <4>1 DEF Heard
      <3> QED BY <3>1, <3>2
    <2>3. poked[u] = NoPing /\ silence[u] <= Interval => Heard(u)'
      BY DEF Heard
    <2>4. effects'[t] = effects[t]
      OBVIOUS
    <2> QED BY <1>1, <1>4, <2>1, <2>2, <2>3, <2>4, HeardFrame
  <1> QED BY <1>1, <1>5, <1>6, <1>7

\* apply_effect: on a whole connection a ping and its answer reach the wire.
LEMMA ApplyEffectHeard ==
    ASSUME HeardInv, TypeInv', NEW s \in Ends, ApplyEffect(s)
    PROVE  HeardInv'
  <1> SUFFICES ASSUME Talking' PROVE \A t \in Ends : Young(wire'[t]) /\ Heard(t)'
    BY DEF HeardInv
  <1> DEFINE u == Other(s)
             e == Head(effects[s])
  <1>1. /\ u \in Ends /\ u # s /\ Other(u) = s /\ \A t \in Ends : t = s \/ t = u
    BY OtherEnd
  <1>2. /\ effects[s] # <<>> /\ effects' = [effects EXCEPT ![s] = Tail(@)]
        /\ Succeed(s) \/ Fail(s)
        /\ UNCHANGED <<phase, silence, poked, conn>>
    BY DEF ApplyEffect, env
  <1>3. Talking /\ TypeInv /\ \A t \in Ends : Young(wire[t]) /\ Heard(t)
    BY <1>2 DEF Talking, HeardInv
  <1>4. effects \in [Ends -> Seq(Effect)] /\ effects[s] \in Seq(Effect)
    BY <1>3 DEF TypeInv, Types
  <1>5. Arrives(s)
    BY <1>1, <1>3 DEF Arrives, Done, Talking
  <1>6. e \in Effect /\ effects'[u] = effects[u]
    BY <1>1, <1>2, <1>4
  <1>7. /\ effects[s] = <<Send("Ping")>> => e.type = "Send" /\ e.msg = "Ping"
        /\ effects[s] = <<Send("Pong")>> => e.type = "Send" /\ e.msg = "Pong"
    BY DEF Send
  <1>8. e.type = "Send" => e.msg \in WsMessage
    BY <1>6 DEF Effect, Send, CloseSocket, HandleNodeMessage, Unregister, NotifyPeerClosed, Do
  <1>9. \/ e.type = "Send" /\ wire' = Onto(wire, u, e.msg)
        \/ e.type # "Send" /\ wire' = Onto(wire, u, "WsPeerClosed")
        \/ e.type # "Send" /\ wire' = wire
    BY <1>2, <1>5 DEF Succeed, Fail, Write, MayFail, CloseSocket, HandleNodeMessage, Unregister,
       NotifyPeerClosed, Do
  <1>10. CASE e.type = "Send" /\ wire' = Onto(wire, u, e.msg)
    <2>1. PICK f \in Frame : f = e.msg
      BY <1>8, <1>10 DEF Frame
    <2>2. wire' = Onto(wire, u, f)
      BY <1>10, <2>1
    <2>3. /\ effects[Other(u)] = <<Send("Ping")>> => f = "Ping"
          /\ effects[Other(u)] = <<Send("Pong")>> => f = "Pong"
      BY <1>1, <1>7, <2>1
    <2> QED BY <1>1, <1>2, <1>3, <1>6, <2>2, <2>3, OntoHeard
  <1>11. CASE e.type # "Send" /\ wire' = Onto(wire, u, "WsPeerClosed")
    <2>1. "WsPeerClosed" \in Frame
      BY DEF Frame
    <2>2. effects[Other(u)] # <<Send("Ping")>> /\ effects[Other(u)] # <<Send("Pong")>>
      BY <1>1, <1>7, <1>11
    <2> QED BY <1>1, <1>2, <1>3, <1>6, <1>11, <2>1, <2>2, OntoHeard
  <1>12. CASE e.type # "Send" /\ wire' = wire
    <2>1. effects[s] # <<Send("Ping")>> /\ effects[s] # <<Send("Pong")>>
      BY <1>7, <1>12
    <2>2. ASSUME NEW t \in Ends PROVE Heard(t)'
      <3>1. poked[t] = NoPing /\ silence[t] <= Interval => Heard(t)'
        BY <1>2 DEF Heard
      <3>2. /\ effects[t] = <<Send("Ping")>> => effects'[t] = effects[t]
            /\ effects[Other(t)] = <<Send("Pong")>> => effects'[Other(t)] = effects[Other(t)]
        BY <1>1, <1>6, <2>1
      <3> QED BY <1>2, <1>3, <1>12, <3>1, <3>2, HeardFrame
    <2> QED BY <1>3, <1>12, <2>2
  <1> QED BY <1>9, <1>10, <1>11, <1>12

\* A session that ends, or closes after a failure, is no longer open.
LEMMA EndHeard ==
    ASSUME HeardInv, TypeInv', NEW s \in Ends, EffectsFlushed(s) \/ FollowUp(s)
    PROVE  HeardInv'
  <1>1. phase \in [Ends -> {"Open", "Closing", "Closed"}]
    BY DEF HeardInv, TypeInv, Types
  <1>2. phase'[s] # "Open"
    BY <1>1 DEF EffectsFlushed, FollowUp, End, Close
  <1> QED BY <1>2 DEF HeardInv, Talking

\* What comes from outside leaves everything on its way.
LEMMA OutsideHeard ==
    ASSUME HeardInv, TypeInv', NEW s \in Ends, SendResume(s) \/ SendShutdown(s) \/ StrayFrame(s)
    PROVE  HeardInv'
  <1> SUFFICES ASSUME Talking' PROVE \A t \in Ends : Young(wire'[t]) /\ Heard(t)'
    BY DEF HeardInv
  <1>1. UNCHANGED <<phase, effects, silence, poked, conn>>
    BY DEF SendResume, SendShutdown, StrayFrame, fsm
  <1>2. TypeInv /\ \A t \in Ends : Young(wire[t]) /\ Heard(t)
    BY <1>1 DEF Talking, HeardInv
  <1>3. wire' = wire \/ \E f \in {"Hello", "Unknown"} : wire' = Onto(wire, s, f)
    BY DEF SendResume, SendShutdown, StrayFrame
  <1>4. CASE wire' = wire
    BY <1>1, <1>2, <1>4 DEF Heard
  <1>5. ASSUME NEW f \in {"Hello", "Unknown"}, wire' = Onto(wire, s, f)
        PROVE  \A t \in Ends : Young(wire'[t]) /\ Heard(t)'
    <2>1. f \in Frame
      BY DEF Frame, WsMessage
    <2> QED BY <1>1, <1>2, <1>5, <2>1, OntoHeard
  <1> QED BY <1>3, <1>4, <1>5

\* Time passes for the silence and for what is on its way alike.
LEMMA AdvanceHeard ==
    ASSUME HeardInv, TypeInv', Advance
    PROVE  HeardInv'
  <1> SUFFICES ASSUME Talking' PROVE \A t \in Ends : Young(wire'[t]) /\ Heard(t)'
    BY DEF HeardInv
  <1>1. UNCHANGED <<phase, effects, conn>>
    BY DEF Advance, env
  <1>2. Talking /\ TypeInv /\ \A t \in Ends : Young(wire[t]) /\ Heard(t)
    BY <1>1 DEF Talking, HeardInv
  <1>3. Running = Ends
    BY <1>2 DEF Running, Talking
  <1>4. ASSUME NEW t \in Ends
        PROVE  /\ wire[t] \in Seq(Packet) /\ silence[t] \in Nat
               /\ wire'[t] = Aged(wire[t]) /\ silence'[t] = silence[t] + 1
               /\ poked[t] = NoPing => poked'[t] = NoPing
               /\ effects[t] = <<>> /\ DeadlineIn(t) > 0
               /\ \A i \in DOMAIN wire[t] : wire[t][i].age < MaxDelay
    <2>1. wire[t] \in Seq(Packet) /\ silence[t] \in Nat
      BY <1>2 DEF TypeInv, Types
    <2>2. wire' = [x \in Ends |-> Aged(wire[x])]
      BY DEF Advance, Aged
    <2>3. /\ silence' = [x \in Ends |-> IF x \in Running THEN silence[x] + 1 ELSE silence[x]]
          /\ poked' = [x \in Ends |-> IF x \in Running /\ poked[x] # NoPing
                                      THEN poked[x] + 1 ELSE poked[x]]
      BY DEF Advance
    <2>4. wire'[t] = Aged(wire[t]) /\ silence'[t] = silence[t] + 1
          /\ (poked[t] = NoPing => poked'[t] = NoPing)
      BY <1>3, <2>2, <2>3
    <2>5. effects[t] = <<>>
      BY <1>2 DEF Advance, Talking, Done, Selecting
    <2>6. DeadlineIn(t) > 0 /\ \A i \in DOMAIN wire[t] : wire[t][i].age < MaxDelay
      BY <1>3 DEF Advance
    <2> QED BY <2>1, <2>4, <2>5, <2>6
  <1>5. ASSUME NEW t \in Ends PROVE Young(wire'[t])
    <2>1. wire[t] \in Seq(Packet) /\ \A i \in DOMAIN wire[t] : wire[t][i].age < MaxDelay
      BY <1>4
    <2>2. Young(Aged(wire[t]))
      BY <2>1, YoungAged
    <2> QED BY <1>4, <2>2
  <1>6. ASSUME NEW t \in Ends PROVE Heard(t)'
    <2>1. Other(t) \in Ends /\ Interval \in Nat /\ MaxDelay \in Nat /\ Timeout \in Nat
          /\ Interval + MaxDelay \in Nat
      BY OtherEnd, HeartbeatTyped
    <2>2. /\ silence[t] \in Nat /\ silence'[t] = silence[t] + 1
          /\ wire[t] \in Seq(Packet) /\ wire'[t] = Aged(wire[t])
          /\ wire[Other(t)] \in Seq(Packet) /\ wire'[Other(t)] = Aged(wire[Other(t)])
      BY <1>4, <2>1
    <2>3. effects[t] # <<Send("Ping")>> /\ effects[Other(t)] # <<Send("Pong")>>
      <3>1. effects[t] = <<>> /\ effects[Other(t)] = <<>>
        BY <1>4, <2>1
      <3> QED BY <3>1, SendsAreSome
    <2>4. CASE poked[t] = NoPing /\ silence[t] <= Interval
      <3>1. Interval - silence[t] > 0
        <4>1. DeadlineIn(t) > 0
          BY <1>4
        <4> QED BY <2>1, <2>2, <2>4, <4>1 DEF DeadlineIn, PokeIn
      <3>2. silence'[t] <= Interval
        BY <2>1, <2>2, <3>1
      <3> QED BY <1>4, <2>4, <3>2 DEF Heard
    <2>5. CASE Coming(wire[t], WsMessage, silence[t], Interval + MaxDelay)
      <3>1. Coming(Aged(wire[t]), WsMessage, silence[t] + 1, Interval + MaxDelay)
        BY <2>1, <2>2, <2>5, ComingAged
      <3> QED BY <2>2, <3>1 DEF Heard
    <2>6. CASE Coming(wire[Other(t)], {"Ping"}, silence[t], Interval)
      <3>1. Coming(Aged(wire[Other(t)]), {"Ping"}, silence[t] + 1, Interval)
        BY <2>1, <2>2, <2>6, ComingAged
      <3> QED BY <2>2, <3>1 DEF Heard
    <2>7. Heard(t)
      BY <1>2
    <2> QED BY <2>3, <2>4, <2>5, <2>6, <2>7 DEF Heard
  <1> QED BY <1>5, <1>6

\* Every step keeps word from a live peer on its way in time.
LEMMA HeardStep == HeardInv /\ [Next]_vars => HeardInv'
  <1> SUFFICES ASSUME HeardInv, [Next]_vars PROVE HeardInv'
    OBVIOUS
  <1>1. TypeInv'
    BY TypeInvStep DEF HeardInv
  <1>2. ASSUME NEW s \in Ends, Loop(s) \/ FromNode(s) PROVE HeardInv'
    <2>1. CASE ApplyEffect(s)
      BY <1>1, <2>1, ApplyEffectHeard
    <2>2. CASE EffectsFlushed(s) \/ FollowUp(s)
      BY <1>1, <2>2, EndHeard
    <2>3. CASE FromWire(s)
      BY <1>1, <2>3, FromWireHeard
    <2>4. CASE TransportDead(s) \/ Control(s) \/ FromNode(s) \/ Tick(s)
      BY <1>1, <2>4, EventHeard
    <2> QED BY <1>2, <2>1, <2>2, <2>3, <2>4 DEF Loop
  <1>3. ASSUME NEW s \in Ends, SendResume(s) \/ SendShutdown(s) \/ StrayFrame(s) PROVE HeardInv'
    BY <1>1, <1>3, OutsideHeard
  <1>4. CASE Cut \/ Reset
    <2>1. conn' # "up"
      BY <1>4 DEF Cut, Reset
    <2> QED BY <1>1, <2>1 DEF HeardInv, Talking
  <1>5. CASE Advance
    BY <1>1, <1>5, AdvanceHeard
  <1>6. CASE UNCHANGED vars
    BY <1>1, <1>6 DEF vars, fsm, env, HeardInv, Talking, Heard
  <1> QED BY <1>2, <1>3, <1>4, <1>5, <1>6 DEF Next

\* A session begins with both ends just heard.
LEMMA HeardInit == Init => HeardInv
  <1> SUFFICES ASSUME Init PROVE HeardInv
    OBVIOUS
  <1>1. TypeInv
    BY TypeInvInit
  <1>2. ASSUME NEW s \in Ends PROVE Young(wire[s]) /\ Heard(s)
    <2>1. wire[s] = <<>> /\ poked[s] = NoPing /\ silence[s] = 0
      BY DEF Init
    <2>2. DOMAIN (<<>>) = {}
      OBVIOUS
    <2> QED BY <2>1, <2>2, HeartbeatTyped DEF Young, Heard
  <1> QED BY <1>1, <1>2 DEF HeardInv

\* What the silence is bounded by.
LEMMA SilenceIsShort ==
    ASSUME TypeInv, NEW s \in Ends, Heard(s), Young(wire[s]), Young(wire[Other(s)])
    PROVE  silence[s] <= Interval + 2 * MaxDelay
  <1>1. /\ silence[s] \in Nat /\ Interval \in Nat /\ MaxDelay \in Nat
        /\ wire[s] \in Seq(Packet) /\ wire[Other(s)] \in Seq(Packet)
    BY HeartbeatTyped, OtherEnd DEF TypeInv, Types
  <1>2. ASSUME NEW q \in Seq(Packet), NEW M, NEW x \in Nat, Young(q), Coming(q, M, silence[s], x)
        PROVE  silence[s] <= x + MaxDelay
    <2>1. PICK i \in DOMAIN q : silence[s] <= x + q[i].age
      BY <1>2 DEF Coming
    <2>2. q[i] \in Packet /\ q[i].age <= MaxDelay
      BY <1>2 DEF Young
    <2>3. q[i].age \in Nat
      BY <2>2 DEF Packet
    <2> QED BY <1>1, <2>1, <2>2, <2>3
  <1>3. CASE Coming(wire[s], WsMessage, silence[s], Interval + MaxDelay)
    <2>1. Interval + MaxDelay \in Nat
      BY <1>1
    <2>2. silence[s] <= (Interval + MaxDelay) + MaxDelay
      BY <1>1, <1>2, <1>3, <2>1
    <2> QED BY <1>1, <2>2
  <1>4. CASE Coming(wire[Other(s)], {"Ping"}, silence[s], Interval)
    <2>1. silence[s] <= Interval + MaxDelay
      BY <1>1, <1>2, <1>4
    <2> QED BY <1>1, <2>1
  <1>5. CASE silence[s] <= Interval + MaxDelay \/ silence[s] <= Interval
    BY <1>1, <1>5
  <1> QED BY <1>3, <1>4, <1>5 DEF Heard

\* Whatever the interval, and however pings, answers and other messages cross, a
\* session whose connection is whole and whose peer is open does not time out,
\* as long as a ping and its answer fit into the timeout (on_rx, on_tick).
THEOREM LivePeersAreHeard == Spec => []LivePeerIsHeard
  <1>1. HeardInv => LivePeerIsHeard
    <2> SUFFICES ASSUME HeardInv, conn = "up" /\ (\A s \in Ends : phase[s] = "Open"), NEW s \in Ends
                 PROVE  ~TimedOut(s)
      BY DEF LivePeerIsHeard
    <2>1. TypeInv /\ \A t \in Ends : Young(wire[t]) /\ Heard(t)
      BY DEF HeardInv, Talking
    <2>2. silence[s] <= Interval + 2 * MaxDelay
      BY <2>1, OtherEnd, SilenceIsShort
    <2>3. silence[s] \in Nat
      BY <2>1 DEF TypeInv, Types
    <2> QED BY <2>2, <2>3, HeartbeatTyped, RoundTripFits DEF TimedOut
  <1> QED BY <1>1, HeardInit, HeardStep, PTL DEF Spec

-----------------------------------------------------------------------------
(***************************************************************************)
(* The manager.                                                            *)
(***************************************************************************)
\* A set of numbers has a least one ...
LEMMA LeastPosition ==
    ASSUME NEW T \in SUBSET Nat, T # {}
    PROVE  \E x \in T : \A y \in T : x <= y
<1>1. PICK R : R = OpToRel(<, Nat)
  OBVIOUS
<1>2. IsWellFoundedOn(R, Nat)
  BY <1>1, NatLessThanWellFounded
<1>3. PICK x \in T : \A y \in T : ~(<<y, x>> \in R)
  BY <1>2, WFMin
<1>4. \A y \in T : ~(y < x)
  BY <1>1, <1>3 DEF OpToRel
<1> QED BY <1>4

\* The l entries of s from position a + 1.
Part(r, s, a, l) == Len(r) = l /\ \A i \in 1..l : r[i] = s[a + i]

\* Two lists of lengths m and n, one after the other.
Joins(r, s, m, t, n) ==
    /\ Len(r) = m + n
    /\ \A i \in 1..m : r[i] = s[i]
    /\ \A i \in 1..n : r[m + i] = t[i]

\* e at position k of a list of length n.
Inserted(r, s, n, k, e) ==
    /\ Len(r) = n + 1
    /\ r[k] = e
    /\ \A i \in 1..k - 1 : r[i] = s[i]
    /\ \A i \in k..n : r[i + 1] = s[i]

\* Position k of a list of length n taken out.
Removed(r, s, n, k) ==
    /\ Len(r) = n - 1
    /\ \A i \in 1..k - 1 : r[i] = s[i]
    /\ \A i \in k + 1..n : r[i - 1] = s[i]

\* The entries at the positions kept, in their order.
Selected(r, s, kept) ==
    \E g \in [DOMAIN r -> kept] :
        /\ \A i, j \in DOMAIN r : i < j => g[i] < g[j]
        /\ \A i \in DOMAIN r : r[i] = s[g[i]]
        /\ \A k \in kept : \E i \in DOMAIN r : g[i] = k

\* SubSeq and \o, in these terms.
LEMMA PartOf ==
    ASSUME NEW S, NEW s \in Seq(S), NEW a \in Nat, NEW l \in Nat, NEW n \in Nat,
           n = Len(s), a + l <= n,
           NEW b \in Nat, NEW c \in Nat, b = a + 1, c = a + l,
           NEW r, r = SubSeq(s, b, c)
    PROVE  r \in Seq(S) /\ Part(r, s, a, l)
<1>1. \A i \in 1..n : s[i] \in S
  OBVIOUS
<1>2. \A i \in b..c : s[i] \in S
  BY <1>1
<1>3. /\ r \in Seq(S)
      /\ Len(r) = IF b <= c THEN c - b + 1 ELSE 0
      /\ \A i \in 1..c - b + 1 : r[i] = s[b + i - 1]
  BY <1>2, SubSeqProperties
<1>4. Len(r) = l
  BY <1>3
<1>5. ASSUME NEW i \in 1..l PROVE r[i] = s[a + i]
  <2>1. i \in 1..c - b + 1 /\ b + i - 1 = a + i
    OBVIOUS
  <2> QED BY <1>3, <2>1
<1> QED BY <1>3, <1>4, <1>5 DEF Part

\* One list after the other.
LEMMA Joined ==
    ASSUME NEW S, NEW s \in Seq(S), NEW t \in Seq(S), NEW m \in Nat, NEW n \in Nat,
           m = Len(s), n = Len(t), NEW r, r = s \o t
    PROVE  r \in Seq(S) /\ Joins(r, s, m, t, n)
<1>1. /\ r \in Seq(S)
      /\ Len(r) = m + n
      /\ \A i \in 1..m + n : r[i] = IF i <= m THEN s[i] ELSE t[i - m]
  BY ConcatProperties
<1>2. \A i \in 1..m : i \in 1..m + n /\ i <= m
  OBVIOUS
<1>3. \A i \in 1..n : m + i \in 1..m + n /\ ~(m + i <= m) /\ m + i - m = i
  OBVIOUS
<1> QED BY <1>1, <1>2, <1>3 DEF Joins

\* Vec::insert at position k.
LEMMA InsertedAt ==
    ASSUME NEW S, NEW s \in Seq(S), NEW e \in S, NEW n \in Nat, n = Len(s),
           NEW k \in 1..n + 1, NEW r, r = InsertAt(s, k, e)
    PROVE  r \in Seq(S) /\ Inserted(r, s, n, k, e)
<1>1. PICK m \in Nat : m + 1 = k
  <2>1. k - 1 \in Nat /\ k - 1 + 1 = k
    OBVIOUS
  <2> QED BY <2>1
<1>2. PICK l \in Nat : m + l = n
  <2>1. n - m \in Nat /\ m + (n - m) = n
    BY <1>1
  <2> QED BY <2>1
<1>3. k \in Nat /\ k - 1 = m /\ k + l = n + 1
  BY <1>1, <1>2
<1>4. PICK a : a = SubSeq(s, 1, m)
  OBVIOUS
<1>5. PICK b : b = <<e>>
  OBVIOUS
<1>6. PICK c : c = SubSeq(s, k, n)
  OBVIOUS
<1>7. PICK d : d = a \o b
  OBVIOUS
<1>8. r = d \o c
  BY <1>3, <1>4, <1>5, <1>6, <1>7 DEF InsertAt
<1>9. a \in Seq(S) /\ Part(a, s, 0, m)
  <2>1. 0 + m <= n /\ 1 = 0 + 1 /\ m = 0 + m
    BY <1>2
  <2> QED BY <1>4, <2>1, PartOf
<1>10. c \in Seq(S) /\ Part(c, s, m, l)
  <2>1. m + l <= n /\ k = m + 1 /\ n = m + l
    BY <1>1, <1>2
  <2> QED BY <1>3, <1>6, <2>1, PartOf
<1>11. b \in Seq(S) /\ Len(b) = 1 /\ b[1] = e
  BY <1>5
<1>12. d \in Seq(S) /\ Joins(d, a, m, b, 1)
  <2>1. m = Len(a)
    BY <1>9 DEF Part
  <2>2. PICK o \in Nat : o = 1
    OBVIOUS
  <2>3. d \in Seq(S) /\ Joins(d, a, m, b, o)
    BY <1>7, <1>9, <1>11, <2>1, <2>2, Joined
  <2> QED BY <2>2, <2>3
<1>13. r \in Seq(S) /\ Joins(r, d, k, c, l)
  <2>1. k = Len(d) /\ l = Len(c)
    BY <1>1, <1>10, <1>12 DEF Part, Joins
  <2> QED BY <1>3, <1>8, <1>10, <1>12, <2>1, Joined
<1>14. Len(r) = n + 1
  BY <1>3, <1>13 DEF Joins
<1>15. r[k] = e
  <2>1. k \in 1..k /\ 1 \in 1..1
    BY <1>3
  <2>2. r[k] = d[k] /\ d[m + 1] = b[1]
    BY <1>12, <1>13, <2>1 DEF Joins
  <2> QED BY <1>1, <1>11, <2>2
<1>16. ASSUME NEW i \in 1..k - 1 PROVE r[i] = s[i]
  <2>1. i \in 1..m /\ i \in 1..k /\ 0 + i = i
    BY <1>1, <1>3
  <2>2. r[i] = d[i] /\ d[i] = a[i] /\ a[i] = s[0 + i]
    BY <1>9, <1>12, <1>13, <2>1 DEF Part, Joins
  <2> QED BY <2>1, <2>2
<1>17. ASSUME NEW i \in k..n PROVE r[i + 1] = s[i]
  <2>1. PICK j \in 1..l : m + j = i /\ k + j = i + 1
    <3>1. i - m \in 1..l /\ m + (i - m) = i /\ k + (i - m) = i + 1
      BY <1>1, <1>2, <1>3
    <3> QED BY <3>1
  <2>2. r[k + j] = c[j] /\ c[j] = s[m + j]
    BY <1>10, <1>13 DEF Part, Joins
  <2> QED BY <2>1, <2>2
<1> QED BY <1>13, <1>14, <1>15, <1>16, <1>17 DEF Inserted

\* Vec::remove of position k.
LEMMA RemovedAt ==
    ASSUME NEW S, NEW s \in Seq(S), NEW n \in Nat, n = Len(s), NEW k \in 1..n,
           NEW r, r = RemoveAt(s, k)
    PROVE  r \in Seq(S) /\ Removed(r, s, n, k)
<1>1. PICK m \in Nat : m + 1 = k
  <2>1. k - 1 \in Nat /\ k - 1 + 1 = k
    OBVIOUS
  <2> QED BY <2>1
<1>2. PICK l \in Nat : k + l = n
  <2>1. n - k \in Nat /\ k + (n - k) = n
    OBVIOUS
  <2> QED BY <2>1
<1>3. k \in Nat /\ k - 1 = m /\ m + l = n - 1
  BY <1>1, <1>2
<1>4. PICK a : a = SubSeq(s, 1, m)
  OBVIOUS
<1>5. PICK c : c = SubSeq(s, k + 1, n)
  OBVIOUS
<1>6. r = a \o c
  BY <1>3, <1>4, <1>5 DEF RemoveAt
<1>7. a \in Seq(S) /\ Part(a, s, 0, m)
  <2>1. 0 + m <= n /\ 1 = 0 + 1 /\ m = 0 + m
    BY <1>1, <1>2
  <2> QED BY <1>4, <2>1, PartOf
<1>8. c \in Seq(S) /\ Part(c, s, k, l)
  <2>1. k + l <= n /\ n = k + l /\ k + 1 \in Nat
    BY <1>2, <1>3
  <2> QED BY <1>3, <1>5, <2>1, PartOf
<1>9. r \in Seq(S) /\ Joins(r, a, m, c, l)
  <2>1. m = Len(a) /\ l = Len(c)
    BY <1>7, <1>8 DEF Part
  <2> QED BY <1>6, <1>7, <1>8, <2>1, Joined
<1>10. Len(r) = n - 1
  BY <1>3, <1>9 DEF Joins
<1>11. ASSUME NEW i \in 1..k - 1 PROVE r[i] = s[i]
  <2>1. i \in 1..m /\ 0 + i = i
    BY <1>3
  <2>2. r[i] = a[i] /\ a[i] = s[0 + i]
    BY <1>7, <1>9, <2>1 DEF Part, Joins
  <2> QED BY <2>1, <2>2
<1>12. ASSUME NEW i \in k + 1..n PROVE r[i - 1] = s[i]
  <2>1. PICK j \in 1..l : k + j = i /\ m + j = i - 1
    <3>1. i - k \in 1..l /\ k + (i - k) = i /\ m + (i - k) = i - 1
      BY <1>1, <1>2
    <3> QED BY <3>1
  <2>2. r[m + j] = c[j] /\ c[j] = s[k + j]
    BY <1>8, <1>9 DEF Part, Joins
  <2> QED BY <2>1, <2>2
<1> QED BY <1>9, <1>10, <1>11, <1>12 DEF Removed

\* Vec::pop.
LEMMA Popped ==
    ASSUME NEW S, NEW s \in Seq(S), s # <<>>,
           NEW r, r = Front(s)
    PROVE  /\ r \in Seq(S)
           /\ \A i \in DOMAIN s : i = Len(s) \/ (i \in DOMAIN r /\ r[i] = s[i])
           /\ Last(s) \in S /\ Last(s) = s[Len(s)]
<1>1. PICK n : n = Len(s)
  OBVIOUS
<1>2. n \in Nat \ {0} /\ DOMAIN s = 1..n /\ \A i \in 1..n : s[i] \in S
  BY <1>1, EmptySeq
<1>3. PICK m \in Nat : m = n - 1
  <2>1. n - 1 \in Nat
    BY <1>2
  <2> QED BY <2>1
<1>4. r \in Seq(S) /\ Part(r, s, 0, m)
  <2>1. 0 + m <= n /\ 1 = 0 + 1 /\ m = 0 + m
    BY <1>2, <1>3
  <2> QED BY <1>1, <1>2, <1>3, <2>1, PartOf DEF Front
<1>5. DOMAIN r = 1..m /\ \A i \in 1..m : r[i] = s[i]
  BY <1>4 DEF Part
<1>6. \A i \in 1..n : i = n \/ i \in 1..m
  BY <1>2, <1>3
<1>7. n \in 1..n
  BY <1>2
<1> QED BY <1>1, <1>2, <1>4, <1>5, <1>6, <1>7 DEF Last

\* Vec::retain keeps exactly the chosen entries, and their order.
LEMMA RetainedAre ==
    ASSUME NEW S, NEW s \in Seq(S), NEW kept \in SUBSET DOMAIN s,
           NEW r \in Retained(s, kept)
    PROVE  r \in Seq(S) /\ Selected(r, s, kept)
<1>1. PICK n : n = Cardinality(kept)
  OBVIOUS
<1>2. /\ Len(s) \in Nat /\ DOMAIN s = 1..Len(s)
      /\ \A i \in DOMAIN s : i \in Nat /\ s[i] \in S
  OBVIOUS
<1>3. IsFiniteSet(kept) /\ n \in Nat
  <2>1. IsFiniteSet(1..Len(s))
    BY <1>2, FS_Interval
  <2>2. IsFiniteSet(kept)
    BY <2>1, FS_Subset
  <2> QED BY <1>1, <2>2, FS_CardinalityType
<1>4. PICK g \in [1..n -> kept] : /\ \A i, j \in 1..n : i < j => g[i] < g[j]
                                  /\ r = [j \in DOMAIN g |-> s[g[j]]]
  <2>1. PICK g \in [1..n -> kept] : /\ \A i, j \in DOMAIN g : i < j => g[i] < g[j]
                                    /\ r = [j \in DOMAIN g |-> s[g[j]]]
    BY <1>1 DEF Retained
  <2>2. DOMAIN g = 1..n
    OBVIOUS
  <2> QED BY <2>1, <2>2
<1>5. r = [j \in 1..n |-> s[g[j]]]
  BY <1>4
<1>6. \A j \in 1..n : s[g[j]] \in S
  BY <1>2, <1>4
<1>7. r \in Seq(S) /\ Len(r) = n
  BY <1>3, <1>5, <1>6
<1>8. \A i, j \in 1..n : g[i] = g[j] => i = j
  <2>1. \A i \in 1..n : g[i] \in Nat
    BY <1>2, <1>4
  <2>2. \A i, j \in 1..n : i # j => i < j \/ j < i
    BY <1>3
  <2>3. \A x, y \in Nat : x < y => x # y
    OBVIOUS
  <2> QED BY <1>4, <2>1, <2>2, <2>3
<1>9. g \in Injection(1..n, kept)
  BY <1>4, <1>8, Zenon DEF Injection, IsInjective
<1>10. Cardinality(1..n) = n
  BY <1>3, FS_Interval
<1>11. g \in Surjection(1..n, kept)
  BY <1>1, <1>3, <1>9, <1>10, FS_Injection
<1>12. \A k \in kept : \E i \in 1..n : g[i] = k
  BY <1>11 DEF Surjection
<1>13. DOMAIN r = 1..n /\ \A i \in 1..n : r[i] = s[g[i]]
  BY <1>5
<1>14. Selected(r, s, kept)
  <2>1. g \in [DOMAIN r -> kept]
    BY <1>4, <1>13
  <2> SUFFICES /\ \A i, j \in DOMAIN r : i < j => g[i] < g[j]
               /\ \A i \in DOMAIN r : r[i] = s[g[i]]
               /\ \A k \in kept : \E i \in DOMAIN r : g[i] = k
    BY <2>1, Zenon DEF Selected
  <2> QED BY <1>4, <1>12, <1>13
<1> QED BY <1>7, <1>14

-----------------------------------------------------------------------------
(* The invariant.                                                          *)

Peers == Nodes \cup Range(Remote)
Directions == Configs \cup {Inbound}
Attempt == [config : Configs, attempts : 0..MaxExponent]
Waiter == [config : Configs, attempts : 0..MaxExponent, wait : Nat]
Entry == [peer : Peers, slot : Slots, direction : Directions]
WsCommand == {NewWsStream(i) : i \in Slots} \cup {PeerClosed(n) : n \in Peers}
               \cup {QueueReconnect(p) : p \in Attempt}
Live == [stage : Stage, direction : Directions, attempts : 0..MaxExponent, node : Peers]

ListTypes ==
    /\ pending \in Seq(Configs)
    /\ disconnected \in Seq(Waiter)
    /\ current \in Seq(Entry)
    /\ commands \in Seq(WsCommand)

OtherTypes ==
    /\ mode \in {"Listen", "gone"} /\ listening \in BOOLEAN
    /\ slots \in [Slots -> {Ended} \cup Live]
    /\ wanted \subseteq Configs
    /\ incidents \in 0..MaxIncidents

\* A list that is in order of when_ready.
InOrder(d) == \A i, j \in DOMAIN d : i < j => d[i].wait <= d[j].wait

\* A connection that is announced waits to be taken, and is announced once.
NewStreams ==
    /\ \A k \in DOMAIN commands :
          commands[k].type = "NewWsStream" => slots[commands[k].slot].stage = "new"
    /\ \A k, l \in DOMAIN commands :
          commands[k].type = "NewWsStream" /\ commands[l].type = "NewWsStream"
             /\ commands[k].slot = commands[l].slot => k = l

\* Where a configuration may be.
Queued == {pending[i] : i \in DOMAIN pending}
Resting == {disconnected[i].config : i \in DOMAIN disconnected}
Listed == {current[i].direction : i \in DOMAIN current}
Dialling == {slots[i].direction : i \in {j \in Slots : slots[j].stage \in {"dial", "new"}}}
Returning == {commands[k].peer.config :
                k \in {l \in DOMAIN commands : commands[l].type = "QueueReconnect"}}

Somewhere == Queued \cup Resting \cup Listed \cup Dialling \cup Returning

KeeperInv ==
    /\ ListTypes /\ OtherTypes
    /\ mode = "gone" => wanted = {}
    /\ InOrder(disconnected)
    /\ NewStreams
    /\ ~EqualInstants => wanted \subseteq Somewhere

\* No wanted peer is forgotten if each is somewhere.
LEMMA SomewhereMeans == NoPeerForgotten <=> wanted \subseteq Somewhere
  BY DEF NoPeerForgotten, Known, Dialled, Returned, In,
         Somewhere, Queued, Resting, Listed, Dialling, Returning

\* What a list of commands or a connection looks like.
LEMMA CommandIs ==
    ASSUME NEW c \in WsCommand
    PROVE  \/ c.type = "NewWsStream" /\ c.slot \in Slots
           \/ c.type = "PeerClosed" /\ c.peer \in Peers
           \/ c.type = "QueueReconnect" /\ c.peer \in Attempt
  BY DEF WsCommand, NewWsStream, PeerClosed, QueueReconnect

\* The parts of a connection that has not ended.
LEMMA LiveIs ==
    ASSUME OtherTypes, NEW i \in Slots, slots[i].stage # "ended"
    PROVE  /\ slots[i] \in Live
           /\ slots[i].direction \in Directions /\ slots[i].attempts \in 0..MaxExponent
           /\ slots[i].node \in Peers
  <1>1. slots[i] \in {Ended} \cup Live
    BY DEF OtherTypes
  <1>2. slots[i] \in Live
    BY <1>1 DEF Ended
  <1> QED BY <1>2 DEF Live

\* One that has.
LEMMA EndedIs == Ended.stage = "ended"
  BY DEF Ended

\* Schedule inserts in order; what waits still waits and, with instants that
\* differ, so does the new one.
LEMMA Scheduled ==
    ASSUME disconnected \in Seq(Waiter), InOrder(disconnected),
           NEW p \in Attempt, NEW t \in Nat, Schedule(p, t)
    PROVE  /\ disconnected' \in Seq(Waiter) /\ InOrder(disconnected')
           /\ Resting \subseteq Resting'
           /\ ~EqualInstants => p.config \in Resting'
<1>1. PICK e : e = [config |-> p.config, attempts |-> p.attempts, wait |-> t]
  OBVIOUS
<1>2. e \in Waiter /\ e.wait = t /\ e.config = p.config
  BY <1>1 DEF Waiter, Attempt
<1>3. CASE disconnected' = disconnected /\ EqualInstants
  BY <1>3 DEF Resting
<1>4. ASSUME NEW k \in 1..Len(disconnected) + 1,
             \A i \in 1..k - 1 : disconnected[i].wait <= t,
             \A i \in k..Len(disconnected) : t <= disconnected[i].wait,
             disconnected' = InsertAt(disconnected, k, e)
      PROVE  /\ disconnected' \in Seq(Waiter) /\ InOrder(disconnected')
             /\ Resting \subseteq Resting' /\ p.config \in Resting'
  <2>1. PICK n \in Nat : n = Len(disconnected)
    OBVIOUS
  <2>2. PICK r : r = disconnected'
    OBVIOUS
  <2>3. /\ r \in Seq(Waiter)
        /\ Len(r) = n + 1
        /\ r[k] = e
        /\ \A i \in 1..k - 1 : r[i] = disconnected[i]
        /\ \A i \in k..n : r[i + 1] = disconnected[i]
    <3>1. r \in Seq(Waiter) /\ Inserted(r, disconnected, n, k, e)
      BY <1>2, <1>4, <2>1, <2>2, InsertedAt
    <3> QED BY <3>1 DEF Inserted
  <2>4. DOMAIN r = 1..n + 1 /\ DOMAIN disconnected = 1..n
    BY <2>1, <2>3
  <2>5. \A i \in 1..n : disconnected[i].wait \in Nat
    <3>1. \A i \in 1..n : disconnected[i] \in Waiter
      BY <2>1
    <3> QED BY <3>1 DEF Waiter
  <2>6. ASSUME NEW i \in 1..n + 1, NEW j \in 1..n + 1, i < j
        PROVE  r[i].wait <= r[j].wait
    <3>0. k \in 1..n + 1
      BY <1>4, <2>1
    <3>1. CASE j < k
      <4>1. i \in 1..k - 1 /\ j \in 1..k - 1 /\ i \in 1..n /\ j \in 1..n
        BY <2>6, <3>0, <3>1
      <4> QED BY <2>3, <2>4, <2>6, <4>1 DEF InOrder
    <3>2. CASE j = k
      <4>1. i \in 1..k - 1
        BY <2>6, <3>0, <3>2
      <4> QED BY <1>2, <1>4, <2>3, <3>2, <4>1
    <3>3. CASE j > k /\ i < k
      <4>1. i \in 1..k - 1 /\ j - 1 \in k..n /\ j - 1 + 1 = j /\ i \in 1..n /\ j - 1 \in 1..n /\ i < j - 1
        BY <2>6, <3>0, <3>3
      <4>2. r[i] = disconnected[i] /\ r[j] = disconnected[j - 1]
        BY <2>3, <4>1
      <4> QED BY <2>4, <4>1, <4>2 DEF InOrder
    <3>4. CASE j > k /\ i = k
      <4>1. j - 1 \in k..n /\ j - 1 + 1 = j
        BY <2>6, <3>0, <3>4
      <4>2. r[j] = disconnected[j - 1] /\ t <= disconnected[j - 1].wait
        BY <1>4, <2>1, <2>3, <4>1
      <4> QED BY <1>2, <2>3, <3>4, <4>2
    <3>5. CASE j > k /\ i > k
      <4>1. i - 1 \in k..n /\ i - 1 + 1 = i /\ j - 1 \in k..n /\ j - 1 + 1 = j /\ i - 1 \in 1..n /\ j - 1 \in 1..n /\ i - 1 < j - 1
        BY <2>6, <3>0, <3>5
      <4>2. r[i] = disconnected[i - 1] /\ r[j] = disconnected[j - 1]
        BY <2>3, <4>1
      <4> QED BY <2>4, <4>1, <4>2 DEF InOrder
    <3> QED BY <3>0, <3>1, <3>2, <3>3, <3>4, <3>5
  <2>7. ASSUME NEW i \in 1..n PROVE \E j \in 1..n + 1 : r[j] = disconnected[i]
    <3>1. i \in 1..k - 1 \/ i \in k..n
      BY <1>4, <2>1
    <3>2. i \in 1..n + 1 /\ i + 1 \in 1..n + 1
      BY <2>1
    <3> QED BY <2>3, <3>1, <3>2
  <2>8. k \in 1..n + 1
    BY <1>4, <2>1
  <2>9. Resting \subseteq Resting' /\ p.config \in Resting'
    <3>1. Resting' = {r[i].config : i \in 1..n + 1}
      BY <2>2, <2>4 DEF Resting
    <3>2. Resting = {disconnected[i].config : i \in 1..n}
      BY <2>4 DEF Resting
    <3>3. r[k].config = p.config
      BY <1>2, <2>3
    <3> QED BY <2>7, <2>8, <3>1, <3>2, <3>3
  <2>10. InOrder(r)
    BY <2>4, <2>6 DEF InOrder
  <2> QED BY <2>2, <2>3, <2>9, <2>10
<1>5. \/ disconnected' = disconnected /\ EqualInstants
      \/ \E k \in 1..Len(disconnected) + 1 :
            /\ \A i \in 1..k - 1 : disconnected[i].wait <= t
            /\ \A i \in k..Len(disconnected) : t <= disconnected[i].wait
            /\ disconnected' = InsertAt(disconnected, k, e)
  BY <1>1 DEF Schedule
<1> QED BY <1>3, <1>4, <1>5

-----------------------------------------------------------------------------
(* The steps of the manager.                                               *)

\* A configuration leads to some node, or to none.
LEMMA RemoteIs ==
    ASSUME ManagerTypes, NEW c \in Configs
    PROVE  Remote[c] \in Peers
  BY DEF ManagerTypes, Range, Peers

\* A connection takes a slot that has ended.
LEMMA Begun ==
    ASSUME OtherTypes, NEW c \in Live, c.stage = "dial", Begin(c)
    PROVE  /\ slots' \in [Slots -> {Ended} \cup Live]
           /\ \A i \in Slots : slots[i].stage # "ended" => slots'[i] = slots[i]
           /\ Dialling \cup {c.direction} \subseteq Dialling'
<1>1. PICK i \in Slots : slots[i] = Ended /\ slots' = [slots EXCEPT ![i] = c]
  BY DEF Begin, Usable
<1>2. slots \in [Slots -> {Ended} \cup Live]
  BY DEF OtherTypes
<1>3. slots' \in [Slots -> {Ended} \cup Live]
  BY <1>1, <1>2
<1>4. slots'[i] = c /\ \A j \in Slots : j # i => slots'[j] = slots[j]
  BY <1>1, <1>2
<1>5. \A j \in Slots : slots[j].stage # "ended" => slots'[j] = slots[j]
  BY <1>1, <1>4, EndedIs
<1>6. c.direction \in Dialling'
  BY <1>4 DEF Dialling
<1>7. ASSUME NEW j \in Slots, slots[j].stage \in {"dial", "new"}
      PROVE  slots[j].direction \in Dialling'
  <2>1. slots'[j] = slots[j]
    BY <1>5, <1>7
  <2> QED BY <1>7, <2>1 DEF Dialling
<1>8. Dialling \subseteq Dialling'
  BY <1>7 DEF Dialling
<1> QED BY <1>3, <1>5, <1>6, <1>8

\* What is announced stays announced while the connections are left alone.
LEMMA StillAnnounced ==
    ASSUME ListTypes, NewStreams, commands' = commands,
           \A i \in Slots : slots[i].stage = "new" => slots'[i].stage = "new"
    PROVE  NewStreams'
<1>1. \A k \in DOMAIN commands :
          commands[k].type = "NewWsStream" => commands[k].slot \in Slots
  <2>1. \A k \in DOMAIN commands : commands[k] \in WsCommand
    BY DEF ListTypes
  <2> QED BY <2>1, CommandIs
<1> QED BY <1>1 DEF NewStreams

\* The connection to dial.
LEMMA ToDial ==
    ASSUME ManagerTypes, NEW d \in Directions, NEW n \in 0..MaxExponent, NEW p \in Peers,
           NEW c, c = Connection("dial", d, n, p)
    PROVE  c \in Live /\ c.stage = "dial" /\ c.direction = d
  BY DEF Live, Connection, Stage

\* The last pending peer is dialled.
LEMMA ConnectPendingKeeps ==
    ASSUME ManagerTypes, KeeperInv, ConnectPending
    PROVE  KeeperInv'
<1>1. PICK c : c = Last(pending)
  OBVIOUS
<1>2. /\ pending \in Seq(Configs) /\ pending # <<>>
      /\ mode' = mode /\ listening' = listening /\ disconnected' = disconnected
      /\ current' = current /\ commands' = commands /\ wanted' = wanted /\ incidents' = incidents
  BY DEF KeeperInv, ListTypes, ConnectPending
<1>3. PICK r : r = pending' /\ r = Front(pending)
  BY DEF ConnectPending
<1>4. /\ r \in Seq(Configs)
      /\ \A i \in DOMAIN pending : i = Len(pending) \/ (i \in DOMAIN r /\ r[i] = pending[i])
      /\ c \in Configs /\ c = pending[Len(pending)]
  BY <1>1, <1>2, <1>3, Popped
<1>5. Queued \subseteq Queued' \cup {c}
  BY <1>3, <1>4 DEF Queued
<1>6. PICK d : d = Connection("dial", c, 0, Remote[c]) /\ Begin(d)
  BY <1>1 DEF ConnectPending
<1>7. d \in Live /\ d.stage = "dial" /\ d.direction = c
  <2>1. 0 \in 0..MaxExponent
    BY DEF ManagerTypes
  <2>2. c \in Directions
    BY <1>4 DEF Directions
  <2> QED BY <1>4, <1>6, <2>1, <2>2, RemoteIs, ToDial
<1>8. /\ slots' \in [Slots -> {Ended} \cup Live]
      /\ \A i \in Slots : slots[i].stage # "ended" => slots'[i] = slots[i]
      /\ Dialling \cup {c} \subseteq Dialling'
  BY <1>6, <1>7, Begun DEF KeeperInv
<1>9. NewStreams'
  BY <1>2, <1>8, StillAnnounced DEF KeeperInv
<1>10. Resting' = Resting /\ Listed' = Listed /\ Returning' = Returning
  BY <1>2 DEF Resting, Listed, Returning
<1>11. Somewhere \subseteq Somewhere'
  BY <1>5, <1>8, <1>10 DEF Somewhere
<1>12. ListTypes' /\ OtherTypes'
  BY <1>2, <1>3, <1>4, <1>8 DEF KeeperInv, ListTypes, OtherTypes
<1> QED BY <1>2, <1>9, <1>11, <1>12 DEF KeeperInv

\* Taking the first entry of a list.
LEMMA Shifted ==
    ASSUME NEW S, NEW s \in Seq(S), s # <<>>, NEW r, r = Tail(s)
    PROVE  /\ r \in Seq(S) /\ Head(s) \in S /\ Head(s) = s[1] /\ 1 \in DOMAIN s
           /\ \A i \in DOMAIN r : i + 1 \in DOMAIN s /\ r[i] = s[i + 1]
           /\ \A i \in DOMAIN s : i = 1 \/ (i - 1 \in DOMAIN r /\ r[i - 1] = s[i])
<1>1. PICK n : n = Len(s)
  OBVIOUS
<1>2. n \in Nat /\ n >= 1 /\ DOMAIN s = 1..n
  BY <1>1, EmptySeq
<1>3. /\ r \in Seq(S) /\ Len(r) = n - 1 /\ Head(s) \in S
      /\ \A i \in 1..Len(r) : r[i] = s[i + 1]
  BY <1>1, HeadTailProperties
<1>4. PICK m \in Nat : m = n - 1
  <2>1. n - 1 \in Nat
    BY <1>2
  <2> QED BY <2>1
<1>5. DOMAIN r = 1..m /\ \A i \in 1..m : r[i] = s[i + 1]
  BY <1>3, <1>4
<1>6. \A i \in 1..m : i + 1 \in 1..n
  BY <1>2, <1>4
<1>7. ASSUME NEW i \in 1..n, i # 1 PROVE i - 1 \in 1..m /\ r[i - 1] = s[i]
  <2>1. i - 1 \in 1..m /\ i - 1 + 1 = i
    BY <1>2, <1>4, <1>7
  <2> QED BY <1>5, <2>1
<1>8. Head(s) = s[1] /\ 1 \in 1..n
  BY <1>2
<1> QED BY <1>2, <1>3, <1>5, <1>6, <1>7, <1>8

\* The first disconnected peer is due, and dialled.
LEMMA ConnectReadyKeeps ==
    ASSUME ManagerTypes, KeeperInv, ConnectReady
    PROVE  KeeperInv'
<1>1. PICK p : p = Head(disconnected)
  OBVIOUS
<1>2. /\ disconnected \in Seq(Waiter) /\ disconnected # <<>>
      /\ mode' = mode /\ listening' = listening /\ pending' = pending
      /\ current' = current /\ commands' = commands /\ wanted' = wanted /\ incidents' = incidents
  BY DEF KeeperInv, ListTypes, ConnectReady, Ready
<1>3. PICK r : r = disconnected' /\ r = Tail(disconnected)
  BY DEF ConnectReady
<1>4. /\ r \in Seq(Waiter) /\ p \in Waiter /\ p = disconnected[1] /\ 1 \in DOMAIN disconnected
      /\ \A i \in DOMAIN r : i + 1 \in DOMAIN disconnected /\ r[i] = disconnected[i + 1]
      /\ \A i \in DOMAIN disconnected : i = 1 \/ (i - 1 \in DOMAIN r /\ r[i - 1] = disconnected[i])
  BY <1>1, <1>2, <1>3, Shifted
<1>5. Resting \subseteq Resting' \cup {p.config}
  <2>1. Resting' = {r[i].config : i \in DOMAIN r}
    BY <1>3 DEF Resting
  <2>2. ASSUME NEW i \in DOMAIN disconnected
        PROVE  disconnected[i].config \in {r[j].config : j \in DOMAIN r} \cup {p.config}
    BY <1>4
  <2> QED BY <2>1, <2>2 DEF Resting
<1>6. PICK d : d = Connection("dial", p.config, p.attempts, Remote[p.config]) /\ Begin(d)
  BY <1>1 DEF ConnectReady
<1>7. d \in Live /\ d.stage = "dial" /\ d.direction = p.config
  <2>1. p.attempts \in 0..MaxExponent /\ p.config \in Configs
    BY <1>4 DEF Waiter
  <2>2. p.config \in Directions
    BY <2>1 DEF Directions
  <2> QED BY <1>6, <2>1, <2>2, RemoteIs, ToDial
<1>8. /\ slots' \in [Slots -> {Ended} \cup Live]
      /\ \A i \in Slots : slots[i].stage # "ended" => slots'[i] = slots[i]
      /\ Dialling \cup {p.config} \subseteq Dialling'
  BY <1>6, <1>7, Begun DEF KeeperInv
<1>9. NewStreams'
  BY <1>2, <1>8, StillAnnounced DEF KeeperInv
<1>10. Queued' = Queued /\ Listed' = Listed /\ Returning' = Returning
  BY <1>2 DEF Queued, Listed, Returning
<1>11. Somewhere \subseteq Somewhere'
  BY <1>5, <1>8, <1>10 DEF Somewhere
<1>12. ListTypes' /\ OtherTypes'
  BY <1>2, <1>3, <1>4, <1>8 DEF KeeperInv, ListTypes, OtherTypes
<1>13. InOrder(r)
  <2>1. InOrder(disconnected)
    BY DEF KeeperInv
  <2>2. \A i, j \in DOMAIN r : i \in Int /\ j \in Int
    BY <1>4
  <2>3. \A i, j \in Int : i < j => i + 1 < j + 1
    OBVIOUS
  <2> QED BY <1>4, <2>1, <2>2, <2>3 DEF InOrder
<1> QED BY <1>2, <1>3, <1>9, <1>11, <1>12, <1>13 DEF KeeperInv

\* The first command is taken; if it announces a connection, that one may change.
LEMMA CommandTaken ==
    ASSUME ListTypes, NewStreams, commands # <<>>, commands' = Tail(commands),
           NEW cmd, cmd = Head(commands),
           \A i \in Slots : /\ slots[i].stage = "new"
                            /\ ~(cmd.type = "NewWsStream" /\ cmd.slot = i)
                            => slots'[i].stage = "new"
    PROVE  /\ commands' \in Seq(WsCommand) /\ cmd \in WsCommand
           /\ NewStreams'
           /\ cmd.type = "NewWsStream" => slots[cmd.slot].stage = "new"
           /\ Returning \subseteq Returning'
                 \cup IF cmd.type = "QueueReconnect" THEN {cmd.peer.config} ELSE {}
<1>1. PICK r : r = commands'
  OBVIOUS
<1>2. commands \in Seq(WsCommand)
  BY DEF ListTypes
<1>3. /\ r \in Seq(WsCommand) /\ cmd \in WsCommand /\ cmd = commands[1] /\ 1 \in DOMAIN commands
      /\ \A i \in DOMAIN r : i + 1 \in DOMAIN commands /\ r[i] = commands[i + 1]
      /\ \A i \in DOMAIN commands : i = 1 \/ (i - 1 \in DOMAIN r /\ r[i - 1] = commands[i])
  BY <1>1, <1>2, Shifted
<1>4. \A i \in DOMAIN r : i \in Nat /\ i >= 1
  BY <1>3
<1>5. \A k \in DOMAIN commands :
          commands[k].type = "NewWsStream" => commands[k].slot \in Slots
  <2>1. \A k \in DOMAIN commands : commands[k] \in WsCommand
    BY <1>2
  <2> QED BY <2>1, CommandIs
<1>6. ASSUME NEW k \in DOMAIN r, r[k].type = "NewWsStream"
      PROVE  slots'[r[k].slot].stage = "new"
  <2>1. PICK j \in DOMAIN commands : j = k + 1 /\ r[k] = commands[j]
    BY <1>3
  <2>2. j # 1
    BY <1>4, <2>1
  <2>3. slots[r[k].slot].stage = "new" /\ r[k].slot \in Slots
    BY <1>5, <1>6, <2>1 DEF NewStreams
  <2>4. ~(cmd.type = "NewWsStream" /\ cmd.slot = r[k].slot)
    BY <1>3, <1>6, <2>1, <2>2 DEF NewStreams
  <2> QED BY <2>3, <2>4
<1>7. ASSUME NEW k \in DOMAIN r, NEW l \in DOMAIN r,
             r[k].type = "NewWsStream", r[l].type = "NewWsStream", r[k].slot = r[l].slot
      PROVE  k = l
  <2>1. k + 1 = l + 1
    BY <1>3, <1>7 DEF NewStreams
  <2> QED BY <1>4, <2>1
<1>8. NewStreams'
  BY <1>1, <1>6, <1>7 DEF NewStreams
<1>9. Returning' = {r[k].peer.config : k \in {l \in DOMAIN r : r[l].type = "QueueReconnect"}}
  BY <1>1 DEF Returning
<1>10. ASSUME NEW k \in DOMAIN commands, commands[k].type = "QueueReconnect"
       PROVE  \/ commands[k].peer.config \in Returning'
              \/ cmd.type = "QueueReconnect" /\ commands[k].peer.config = cmd.peer.config
  <2>1. CASE k = 1
    BY <1>3, <1>10, <2>1
  <2>2. CASE k # 1
    <3>1. PICK l \in DOMAIN r : r[l] = commands[k]
      BY <1>3, <2>2
    <3> QED BY <1>9, <1>10, <3>1
  <2> QED BY <2>1, <2>2
<1>11. Returning \subseteq Returning'
          \cup IF cmd.type = "QueueReconnect" THEN {cmd.peer.config} ELSE {}
  BY <1>10 DEF Returning
<1>12. cmd.type = "NewWsStream" => slots[cmd.slot].stage = "new"
  BY <1>3 DEF NewStreams
<1> QED BY <1>1, <1>3, <1>8, <1>11, <1>12

\* Appending to a list.
LEMMA Pushed ==
    ASSUME NEW S, NEW s \in Seq(S), NEW e \in S, NEW r, r = Append(s, e)
    PROVE  /\ r \in Seq(S)
           /\ \A i \in DOMAIN s : i \in DOMAIN r /\ r[i] = s[i]
           /\ \E n \in DOMAIN r : r[n] = e /\ \A i \in DOMAIN r : i = n \/ i \in DOMAIN s
<1>1. PICK n \in Nat : n = Len(s)
  OBVIOUS
<1>2. /\ r \in Seq(S) /\ Len(r) = n + 1 /\ r[n + 1] = e
      /\ \A i \in 1..n : r[i] = s[i]
  BY <1>1, AppendProperties
<1>3. DOMAIN s = 1..n /\ DOMAIN r = 1..n + 1
  BY <1>1, <1>2
<1>4. n + 1 \in 1..n + 1 /\ \A i \in 1..n + 1 : i = n + 1 \/ i \in 1..n
  OBVIOUS
<1>5. \A i \in 1..n : i \in 1..n + 1
  OBVIOUS
<1> QED BY <1>2, <1>3, <1>4, <1>5

\* A connection is ready and becomes a session.
LEMMA NewWsStreamKeeps ==
    ASSUME ManagerTypes, KeeperInv, HandleCommand,
           HandleNewWsStream(Head(commands))
    PROVE  KeeperInv'
<1>1. PICK cmd : cmd = Head(commands)
  OBVIOUS
<1>2. PICK i : i = cmd.slot
  OBVIOUS
<1>3. /\ mode' = mode /\ listening' = listening /\ pending' = pending /\ wanted' = wanted
      /\ incidents' = incidents /\ disconnected' = disconnected
      /\ commands # <<>> /\ commands' = Tail(commands) /\ cmd.type = "NewWsStream"
  BY <1>1 DEF HandleCommand, HandleNewWsStream
<1>4. PICK e : e = [peer |-> slots[i].node, slot |-> i, direction |-> slots[i].direction]
  OBVIOUS
<1>5. current' = Append(current, e) /\ slots' = [slots EXCEPT ![i].stage = "open"]
  BY <1>1, <1>2, <1>4 DEF HandleNewWsStream, Stages
<1>6. OtherTypes /\ ListTypes /\ NewStreams
  BY DEF KeeperInv
<1>7. slots \in [Slots -> {Ended} \cup Live]
  BY <1>6 DEF OtherTypes
<1>8. \A j \in Slots : j # i => slots'[j] = slots[j]
  BY <1>5, <1>7
<1>9. /\ commands' \in Seq(WsCommand) /\ cmd \in WsCommand
      /\ NewStreams'
      /\ cmd.type = "NewWsStream" => slots[cmd.slot].stage = "new"
      /\ Returning \subseteq Returning'
            \cup IF cmd.type = "QueueReconnect" THEN {cmd.peer.config} ELSE {}
  <2>1. \A j \in Slots : /\ slots[j].stage = "new"
                         /\ ~(cmd.type = "NewWsStream" /\ cmd.slot = j)
                         => slots'[j].stage = "new"
    BY <1>2, <1>3, <1>8
  <2> QED BY <1>1, <1>3, <1>6, <2>1, CommandTaken
<1>10. i \in Slots
  BY <1>2, <1>3, <1>9, CommandIs
<1>11. slots[i].stage = "new" /\ slots[i] \in Live /\ e \in Entry
  <2>1. slots[i].stage = "new"
    BY <1>2, <1>3, <1>9
  <2>2. /\ slots[i] \in Live /\ slots[i].direction \in Directions /\ slots[i].node \in Peers
    BY <1>6, <1>10, <2>1, LiveIs
  <2> QED BY <1>4, <1>10, <2>1, <2>2 DEF Entry
<1>12. slots' \in [Slots -> {Ended} \cup Live]
  <2>1. [slots[i] EXCEPT !.stage = "open"] \in Live
    BY <1>11 DEF Live, Stage
  <2> QED BY <1>5, <1>7, <1>10, <2>1
<1>13. current \in Seq(Entry)
  BY <1>6 DEF ListTypes
<1>14. PICK r : r = current'
  OBVIOUS
<1>15. /\ r \in Seq(Entry)
       /\ \A k \in DOMAIN current : k \in DOMAIN r /\ r[k] = current[k]
       /\ \E n \in DOMAIN r : r[n] = e
  BY <1>5, <1>11, <1>13, <1>14, Pushed
<1>16. Listed \cup {slots[i].direction} \subseteq Listed'
  <2>1. Listed' = {r[k].direction : k \in DOMAIN r}
    BY <1>14 DEF Listed
  <2>2. e.direction = slots[i].direction
    BY <1>4
  <2> QED BY <1>15, <2>1, <2>2 DEF Listed
<1>17. Dialling \subseteq Dialling' \cup {slots[i].direction}
  BY <1>8 DEF Dialling
<1>18. Queued' = Queued /\ Resting' = Resting
  BY <1>3 DEF Queued, Resting
<1>19. Returning \subseteq Returning'
  BY <1>3, <1>9
<1>20. Somewhere \subseteq Somewhere'
  BY <1>16, <1>17, <1>18, <1>19 DEF Somewhere
<1>21. ListTypes' /\ OtherTypes'
  BY <1>3, <1>6, <1>9, <1>12, <1>14, <1>15 DEF ListTypes, OtherTypes
<1> QED BY <1>3, <1>9, <1>20, <1>21 DEF KeeperInv

\* The first position in a set of them.
LEMMA FirstOf ==
    ASSUME NEW S, NEW s \in Seq(S), NEW mine \in SUBSET DOMAIN s, mine # {}
    PROVE  (CHOOSE k \in mine : \A j \in mine : k <= j) \in mine
<1>1. mine \in SUBSET Nat
  OBVIOUS
<1>2. \E k \in mine : \A j \in mine : k <= j
  BY <1>1, LeastPosition
<1> QED BY <1>2

\* What is left when one entry is taken out.
LEMMA AllButOne ==
    ASSUME NEW S, NEW s \in Seq(S), NEW k \in DOMAIN s, NEW r, r = RemoveAt(s, k)
    PROVE  /\ r \in Seq(S)
           /\ \A i \in DOMAIN s : i = k \/ \E j \in DOMAIN r : r[j] = s[i]
<1>1. PICK n \in Nat : n = Len(s)
  OBVIOUS
<1>2. DOMAIN s = 1..n /\ k \in 1..n
  BY <1>1
<1>3. r \in Seq(S) /\ Removed(r, s, n, k)
  BY <1>1, <1>2, RemovedAt
<1>4. DOMAIN r = 1..n - 1
  BY <1>1, <1>2, <1>3 DEF Removed
<1>5. ASSUME NEW i \in 1..n, i # k PROVE \E j \in 1..n - 1 : r[j] = s[i]
  <2>1. CASE i < k
    <3>1. i \in 1..k - 1 /\ i \in 1..n - 1
      BY <1>2, <2>1
    <3> QED BY <1>3, <3>1 DEF Removed
  <2>2. CASE i > k
    <3>1. i \in k + 1..n /\ i - 1 \in 1..n - 1
      BY <1>2, <2>2
    <3> QED BY <1>3, <3>1 DEF Removed
  <2> QED BY <1>2, <1>5, <2>1, <2>2
<1> QED BY <1>2, <1>3, <1>4, <1>5

\* Waiting times are numbers.
LEMMA BackoffIs ==
    ASSUME ManagerTypes, NEW n \in 0..MaxExponent
    PROVE  Backoff(n) \in Nat
  BY DEF ManagerTypes

\* A session has ended, and its peer waits to be dialled again.
LEMMA PeerClosedKeeps ==
    ASSUME ManagerTypes, KeeperInv, HandleCommand,
           HandlePeerClosed(Head(commands))
    PROVE  KeeperInv'
<1>1. PICK cmd : cmd = Head(commands)
  OBVIOUS
<1>2. PICK mine : mine = {k \in DOMAIN current : current[k].peer = cmd.peer}
  OBVIOUS
<1>3. PICK first : first = CHOOSE k \in mine : \A j \in mine : k <= j
  OBVIOUS
<1>4. /\ mode' = mode /\ listening' = listening /\ pending' = pending /\ wanted' = wanted
      /\ incidents' = incidents /\ slots' = slots
      /\ commands # <<>> /\ commands' = Tail(commands) /\ cmd.type = "PeerClosed"
  BY <1>1 DEF HandleCommand, HandlePeerClosed
<1>5. \/ current' = current /\ disconnected' = disconnected
      \/ /\ mine # {}
         /\ current' = RemoveAt(current, first)
         /\ IF current[first].direction = Inbound
            THEN disconnected' = disconnected
            ELSE Schedule(Pending(current[first].direction), Backoff(0))
  BY <1>1, <1>2, <1>3 DEF HandlePeerClosed
<1>6. /\ OtherTypes /\ ListTypes /\ NewStreams /\ current \in Seq(Entry)
      /\ disconnected \in Seq(Waiter) /\ InOrder(disconnected)
  BY DEF KeeperInv, ListTypes
<1>7. commands' \in Seq(WsCommand) /\ NewStreams' /\ Returning \subseteq Returning'
  <2>1. \A j \in Slots : /\ slots[j].stage = "new"
                         /\ ~(cmd.type = "NewWsStream" /\ cmd.slot = j)
                         => slots'[j].stage = "new"
    BY <1>4
  <2>2. /\ commands' \in Seq(WsCommand) /\ NewStreams'
        /\ Returning \subseteq Returning'
              \cup IF cmd.type = "QueueReconnect" THEN {cmd.peer.config} ELSE {}
    BY <1>1, <1>4, <1>6, <2>1, CommandTaken
  <2> QED BY <1>4, <2>2
<1>8. Queued' = Queued /\ Dialling' = Dialling
  BY <1>4 DEF Queued, Dialling
<1>9. OtherTypes'
  BY <1>4, <1>6 DEF OtherTypes
<1>10. CASE current' = current /\ disconnected' = disconnected
  <2>1. Listed' = Listed /\ Resting' = Resting
    BY <1>10 DEF Listed, Resting
  <2>2. Somewhere \subseteq Somewhere'
    BY <1>7, <1>8, <2>1 DEF Somewhere
  <2>3. ListTypes'
    BY <1>4, <1>6, <1>7, <1>10 DEF ListTypes
  <2> QED BY <1>4, <1>6, <1>7, <1>9, <1>10, <2>2, <2>3 DEF KeeperInv
<1>11. ASSUME mine # {}, current' = RemoveAt(current, first),
              IF current[first].direction = Inbound
              THEN disconnected' = disconnected
              ELSE Schedule(Pending(current[first].direction), Backoff(0))
       PROVE  KeeperInv'
  <2>1. first \in DOMAIN current
    <3>1. mine \in SUBSET DOMAIN current
      BY <1>2
    <3> QED BY <1>3, <1>6, <1>11, <3>1, FirstOf
  <2>2. PICK r : r = current'
    OBVIOUS
  <2>3. r \in Seq(Entry) /\ \A i \in DOMAIN current : i = first \/ \E j \in DOMAIN r : r[j] = current[i]
    BY <1>6, <1>11, <2>1, <2>2, AllButOne
  <2>4. PICK c : c = current[first].direction
    OBVIOUS
  <2>5. c \in Directions
    <3>1. current[first] \in Entry
      BY <1>6, <2>1
    <3> QED BY <2>4, <3>1 DEF Entry
  <2>6. Listed \subseteq Listed' \cup {c}
    <3>1. Listed' = {r[i].direction : i \in DOMAIN r}
      BY <2>2 DEF Listed
    <3>2. ASSUME NEW i \in DOMAIN current
          PROVE  current[i].direction \in {r[j].direction : j \in DOMAIN r} \cup {c}
      BY <2>3, <2>4
    <3> QED BY <3>1, <3>2 DEF Listed
  <2>7. /\ disconnected' \in Seq(Waiter) /\ InOrder(disconnected') /\ Resting \subseteq Resting'
        /\ ~EqualInstants => (c = Inbound \/ c \in Resting')
    <3>1. CASE c = Inbound
      <4>1. disconnected' = disconnected
        BY <1>11, <2>4, <3>1
      <4> QED BY <1>6, <3>1, <4>1 DEF Resting
    <3>2. CASE c # Inbound
      <4>1. PICK p : p = Pending(c)
        OBVIOUS
      <4>2. 0 \in 0..MaxExponent
        BY DEF ManagerTypes
      <4>3. p \in Attempt /\ p.config = c
        BY <2>5, <3>2, <4>1, <4>2 DEF Attempt, Directions, Pending
      <4>4. PICK t \in Nat : t = Backoff(0)
        BY <4>2, BackoffIs
      <4>5. Schedule(p, t)
        BY <1>11, <2>4, <3>2, <4>1, <4>4
      <4>6. /\ disconnected' \in Seq(Waiter) /\ InOrder(disconnected')
            /\ Resting \subseteq Resting'
            /\ ~EqualInstants => p.config \in Resting'
        BY <1>6, <4>3, <4>5, Scheduled
      <4> QED BY <4>3, <4>6
    <3> QED BY <3>1, <3>2
  <2>8. Inbound \notin Configs /\ wanted \subseteq Configs
    BY <1>6 DEF ManagerTypes, OtherTypes
  <2>9. ~EqualInstants => wanted' \subseteq Somewhere'
    <3>1. SUFFICES ASSUME ~EqualInstants PROVE wanted \subseteq Somewhere'
      BY <1>4
    <3>2. wanted \subseteq Somewhere
      BY <3>1 DEF KeeperInv
    <3> QED BY <1>7, <1>8, <2>6, <2>7, <2>8, <3>1, <3>2 DEF Somewhere
  <2>10. ListTypes'
    BY <1>4, <1>6, <1>7, <2>2, <2>3, <2>7 DEF ListTypes
  <2> QED BY <1>4, <1>7, <1>9, <2>7, <2>9, <2>10 DEF KeeperInv
<1> QED BY <1>5, <1>10, <1>11

\* An attempt has failed.
LEMMA QueueReconnectKeeps ==
    ASSUME ManagerTypes, KeeperInv, HandleCommand,
           HandleQueueReconnect(Head(commands))
    PROVE  KeeperInv'
<1>1. PICK cmd : cmd = Head(commands)
  OBVIOUS
<1>2. /\ mode' = mode /\ listening' = listening /\ pending' = pending /\ wanted' = wanted
      /\ incidents' = incidents /\ slots' = slots /\ current' = current
      /\ commands # <<>> /\ commands' = Tail(commands) /\ cmd.type = "QueueReconnect"
  BY <1>1 DEF HandleCommand, HandleQueueReconnect
<1>3. /\ OtherTypes /\ ListTypes /\ NewStreams
      /\ disconnected \in Seq(Waiter) /\ InOrder(disconnected)
  BY DEF KeeperInv, ListTypes
<1>4. /\ commands' \in Seq(WsCommand) /\ cmd \in WsCommand /\ NewStreams'
      /\ Returning \subseteq Returning' \cup {cmd.peer.config}
  <2>1. \A j \in Slots : /\ slots[j].stage = "new"
                         /\ ~(cmd.type = "NewWsStream" /\ cmd.slot = j)
                         => slots'[j].stage = "new"
    BY <1>2
  <2>2. /\ commands' \in Seq(WsCommand) /\ cmd \in WsCommand /\ NewStreams'
        /\ Returning \subseteq Returning'
              \cup IF cmd.type = "QueueReconnect" THEN {cmd.peer.config} ELSE {}
    BY <1>1, <1>2, <1>3, <2>1, CommandTaken
  <2> QED BY <1>2, <2>2
<1>5. cmd.peer \in Attempt
  BY <1>2, <1>4, CommandIs
<1>6. PICK n : n = IF cmd.peer.attempts < MaxExponent THEN cmd.peer.attempts + 1 ELSE MaxExponent
  OBVIOUS
<1>7. n \in 0..MaxExponent
  BY <1>5, <1>6 DEF Attempt, ManagerTypes
<1>8. PICK p : p = [cmd.peer EXCEPT !.attempts = n]
  OBVIOUS
<1>9. p \in Attempt /\ p.config = cmd.peer.config
  BY <1>5, <1>7, <1>8 DEF Attempt
<1>10. PICK t \in Nat : t = Backoff(n)
  BY <1>7, BackoffIs
<1>11. Schedule(p, t)
  BY <1>1, <1>6, <1>8, <1>10 DEF HandleQueueReconnect
<1>12. /\ disconnected' \in Seq(Waiter) /\ InOrder(disconnected')
       /\ Resting \subseteq Resting'
       /\ ~EqualInstants => p.config \in Resting'
  BY <1>3, <1>9, <1>11, Scheduled
<1>13. Queued' = Queued /\ Dialling' = Dialling /\ Listed' = Listed
  BY <1>2 DEF Queued, Dialling, Listed
<1>14. ~EqualInstants => wanted' \subseteq Somewhere'
  <2>1. SUFFICES ASSUME ~EqualInstants PROVE wanted \subseteq Somewhere'
    BY <1>2
  <2>2. wanted \subseteq Somewhere
    BY <2>1 DEF KeeperInv
  <2> QED BY <1>4, <1>9, <1>12, <1>13, <2>1, <2>2 DEF Somewhere
<1>15. ListTypes' /\ OtherTypes'
  BY <1>2, <1>3, <1>4, <1>12 DEF ListTypes, OtherTypes
<1> QED BY <1>2, <1>4, <1>12, <1>14, <1>15 DEF KeeperInv

\* What comes from outside is counted.
LEMMA Counted ==
    ASSUME ManagerTypes, OtherTypes, Incident
    PROVE  incidents' \in 0..MaxIncidents
  BY DEF ManagerTypes, OtherTypes, Incident

\* A peer is added.
LEMMA AddWsPeerKeeps ==
    ASSUME ManagerTypes, KeeperInv, NEW c \in Configs, AddWsPeer(c)
    PROVE  KeeperInv'
<1>1. /\ mode' = mode /\ listening' = listening /\ disconnected' = disconnected
      /\ current' = current /\ commands' = commands /\ slots' = slots
      /\ mode = "Listen"
  BY DEF AddWsPeer, Waiting
<1>2. OtherTypes /\ ListTypes /\ NewStreams /\ pending \in Seq(Configs)
  BY DEF KeeperInv, ListTypes
<1>3. incidents' \in 0..MaxIncidents
  BY <1>2, Counted DEF AddWsPeer
<1>4. PICK r : r = pending'
  OBVIOUS
<1>5. /\ r \in Seq(Configs) /\ \A i \in DOMAIN pending : i \in DOMAIN r /\ r[i] = pending[i]
      /\ wanted' \subseteq Configs
      /\ wanted' = wanted \/ (wanted' = wanted \cup {c} /\ \E i \in DOMAIN r : r[i] = c)
  <2>1. CASE pending' = pending /\ wanted' = wanted
    BY <1>2, <1>4, <2>1 DEF OtherTypes
  <2>2. CASE pending' = Append(pending, c) /\ wanted' = wanted \cup {c}
    <3>1. /\ r \in Seq(Configs) /\ \A i \in DOMAIN pending : i \in DOMAIN r /\ r[i] = pending[i]
          /\ \E n \in DOMAIN r : r[n] = c
      BY <1>2, <1>4, <2>2, Pushed
    <3> QED BY <1>2, <2>2, <3>1 DEF OtherTypes
  <2> QED BY <2>1, <2>2 DEF AddWsPeer
<1>6. Queued' = {r[i] : i \in DOMAIN r}
  BY <1>4 DEF Queued
<1>7. Queued \subseteq Queued' /\ (wanted' = wanted \/ (wanted' = wanted \cup {c} /\ c \in Queued'))
  BY <1>5, <1>6 DEF Queued
<1>8. Resting' = Resting /\ Listed' = Listed /\ Dialling' = Dialling /\ Returning' = Returning
  BY <1>1 DEF Resting, Listed, Dialling, Returning
<1>9. (wanted \subseteq Somewhere) => (wanted' \subseteq Somewhere')
  BY <1>7, <1>8 DEF Somewhere
<1>10. ListTypes' /\ OtherTypes'
  BY <1>1, <1>2, <1>3, <1>4, <1>5 DEF ListTypes, OtherTypes
<1>11. NewStreams'
  BY <1>1, <1>2 DEF NewStreams
<1> QED BY <1>1, <1>9, <1>10, <1>11 DEF KeeperInv

\* The entries of a list that are left, and what they were.
LEMMA Kept ==
    ASSUME NEW S, NEW s \in Seq(S), NEW kept \in SUBSET DOMAIN s,
           NEW r \in Retained(s, kept)
    PROVE  /\ r \in Seq(S)
           /\ \A k \in kept : \E i \in DOMAIN r : r[i] = s[k]
<1>1. r \in Seq(S) /\ Selected(r, s, kept)
  BY RetainedAre
<1> QED BY <1>1 DEF Selected

\* Taking entries out leaves the others in order.
LEMMA KeptInOrder ==
    ASSUME NEW s \in Seq(Waiter), InOrder(s), NEW kept \in SUBSET DOMAIN s,
           NEW r \in Retained(s, kept)
    PROVE  InOrder(r)
<1>1. r \in Seq(Waiter) /\ Selected(r, s, kept)
  BY RetainedAre
<1>2. PICK g \in [DOMAIN r -> kept] :
        /\ \A i, j \in DOMAIN r : i < j => g[i] < g[j]
        /\ \A i \in DOMAIN r : r[i] = s[g[i]]
  BY <1>1 DEF Selected
<1>3. \A i \in DOMAIN r : g[i] \in DOMAIN s
  BY <1>2
<1>4. ASSUME NEW i \in DOMAIN r, NEW j \in DOMAIN r, i < j PROVE r[i].wait <= r[j].wait
  <2>1. g[i] < g[j] /\ r[i] = s[g[i]] /\ r[j] = s[g[j]] /\ g[i] \in DOMAIN s /\ g[j] \in DOMAIN s
    BY <1>2, <1>3, <1>4
  <2> QED BY <2>1 DEF InOrder
<1> QED BY <1>4 DEF InOrder

\* A peer is removed.
LEMMA RemoveWsPeerKeeps ==
    ASSUME ManagerTypes, KeeperInv, NEW u, RemoveWsPeer(u)
    PROVE  KeeperInv'
<1>1. /\ mode' = mode /\ listening' = listening /\ commands' = commands /\ mode = "Listen"
  BY DEF RemoveWsPeer, Waiting
<1>2. /\ OtherTypes /\ ListTypes /\ NewStreams /\ InOrder(disconnected)
      /\ pending \in Seq(Configs) /\ disconnected \in Seq(Waiter) /\ current \in Seq(Entry)
      /\ slots \in [Slots -> {Ended} \cup Live] /\ wanted \subseteq Configs
  BY DEF KeeperInv, ListTypes, OtherTypes
<1>3. incidents' \in 0..MaxIncidents
  BY <1>2, Counted DEF RemoveWsPeer
<1>4. PICK kp : kp = {k \in DOMAIN pending : Url[pending[k]] # u}
  OBVIOUS
<1>5. PICK kd : kd = {k \in DOMAIN disconnected : Url[disconnected[k].config] # u}
  OBVIOUS
<1>6. PICK p : p = pending' /\ p \in Retained(pending, kp)
  BY <1>4 DEF RemoveWsPeer
<1>7. PICK d : d = disconnected' /\ d \in Retained(disconnected, kd)
  BY <1>5 DEF RemoveWsPeer
<1>8. p \in Seq(Configs) /\ \A k \in kp : \E i \in DOMAIN p : p[i] = pending[k]
  <2>1. kp \in SUBSET DOMAIN pending
    BY <1>4
  <2> QED BY <1>2, <1>6, <2>1, Kept
<1>9. /\ d \in Seq(Waiter) /\ InOrder(d)
      /\ \A k \in kd : \E i \in DOMAIN d : d[i] = disconnected[k]
  <2>1. kd \in SUBSET DOMAIN disconnected
    BY <1>5
  <2> QED BY <1>2, <1>7, <2>1, Kept, KeptInOrder
<1>10. \A c \in Queued : Url[c] # u => c \in Queued'
  <2>1. Queued' = {p[i] : i \in DOMAIN p}
    BY <1>6 DEF Queued
  <2> QED BY <1>4, <1>8, <2>1 DEF Queued
<1>11. \A c \in Resting : Url[c] # u => c \in Resting'
  <2>1. Resting' = {d[i].config : i \in DOMAIN d}
    BY <1>7 DEF Resting
  <2>2. ASSUME NEW k \in DOMAIN disconnected, Url[disconnected[k].config] # u
        PROVE  disconnected[k].config \in {d[i].config : i \in DOMAIN d}
    <3>1. PICK i \in DOMAIN d : d[i] = disconnected[k]
      BY <1>5, <1>9, <2>2
    <3> QED BY <3>1
  <2> QED BY <2>1, <2>2 DEF Resting
<1>12. PICK mine : mine = {k \in DOMAIN current : Outbound(current[k], u)}
  OBVIOUS
<1>13. PICK idx : idx = CHOOSE k \in mine : \A j \in mine : k <= j
  OBVIOUS
<1>14. \/ current' = current /\ slots' = slots
       \/ /\ mine # {}
          /\ current' = RemoveAt(current, idx)
          /\ slots' = [slots EXCEPT ![current[idx].slot].stage = IF @ = "open" THEN "ordered" ELSE @]
  BY <1>12, <1>13 DEF RemoveWsPeer
<1>15. /\ current' \in Seq(Entry)
       /\ slots' \in [Slots -> {Ended} \cup Live]
       /\ \A i \in Slots : slots[i].stage \in {"dial", "new"} => slots'[i] = slots[i]
       /\ \A c \in Listed : c = Inbound \/ Url[c] # u => c \in Listed'
  <2>1. CASE current' = current /\ slots' = slots
    BY <1>2, <2>1 DEF Listed
  <2>2. ASSUME mine # {}, current' = RemoveAt(current, idx),
               slots' = [slots EXCEPT ![current[idx].slot].stage = IF @ = "open" THEN "ordered" ELSE @]
        PROVE  /\ current' \in Seq(Entry)
               /\ slots' \in [Slots -> {Ended} \cup Live]
               /\ \A i \in Slots : slots[i].stage \in {"dial", "new"} => slots'[i] = slots[i]
               /\ \A c \in Listed : c = Inbound \/ Url[c] # u => c \in Listed'
    <3>1. idx \in mine /\ idx \in DOMAIN current
      <4>1. mine \in SUBSET DOMAIN current
        BY <1>12
      <4> QED BY <1>2, <1>13, <2>2, <4>1, FirstOf
    <3>2. PICK r : r = current'
      OBVIOUS
    <3>3. r \in Seq(Entry) /\ \A i \in DOMAIN current : i = idx \/ \E j \in DOMAIN r : r[j] = current[i]
      BY <1>2, <2>2, <3>1, <3>2, AllButOne
    <3>4. current[idx].direction # Inbound /\ Url[current[idx].direction] = u
      BY <1>12, <3>1 DEF Outbound
    <3>5. \A c \in Listed : c = Inbound \/ Url[c] # u => c \in Listed'
      <4>1. Listed' = {r[i].direction : i \in DOMAIN r}
        BY <3>2 DEF Listed
      <4>2. ASSUME NEW i \in DOMAIN current,
                   current[i].direction = Inbound \/ Url[current[i].direction] # u
            PROVE  current[i].direction \in {r[j].direction : j \in DOMAIN r}
        <5>1. PICK j \in DOMAIN r : r[j] = current[i]
          BY <3>3, <3>4, <4>2
        <5> QED BY <5>1
      <4> QED BY <4>1, <4>2 DEF Listed
    <3>6. PICK s : s = current[idx].slot
      OBVIOUS
    <3>7. s \in Slots
      <4>1. current[idx] \in Entry
        BY <1>2, <3>1
      <4> QED BY <3>6, <4>1 DEF Entry
    <3>8. PICK v : v = [slots[s] EXCEPT !.stage = IF @ = "open" THEN "ordered" ELSE @]
      OBVIOUS
    <3>9. slots' = [slots EXCEPT ![s] = v]
      BY <2>2, <3>6, <3>8
    <3>10. CASE slots[s].stage = "open"
      <4>1. slots[s] \in Live
        BY <1>2, <3>7, <3>10, LiveIs
      <4>2. v \in Live
        BY <3>8, <4>1 DEF Live, Stage
      <4>3. slots' \in [Slots -> {Ended} \cup Live]
        BY <1>2, <3>7, <3>9, <4>2
      <4>4. \A i \in Slots : slots[i].stage \in {"dial", "new"} => slots'[i] = slots[i]
        BY <1>2, <3>7, <3>9, <3>10
      <4> QED BY <3>2, <3>3, <3>5, <4>3, <4>4
    <3>11. CASE slots[s].stage # "open"
      <4>1. slots[s] \in {Ended} \cup Live
        BY <1>2, <3>7
      <4>2. v = slots[s]
        BY <3>8, <3>11, <4>1 DEF Live, Ended
      <4>3. slots' = slots
        BY <1>2, <3>7, <3>9, <4>2
      <4> QED BY <1>2, <3>2, <3>3, <3>5, <4>3
    <3> QED BY <3>10, <3>11
  <2> QED BY <1>14, <2>1, <2>2
<1>16. Dialling \subseteq Dialling' /\ Returning' = Returning
  <2>1. ASSUME NEW i \in Slots, slots[i].stage \in {"dial", "new"}
        PROVE  slots[i].direction \in Dialling'
    <3>1. slots'[i] = slots[i]
      BY <1>15, <2>1
    <3> QED BY <2>1, <3>1 DEF Dialling
  <2> QED BY <1>1, <2>1 DEF Dialling, Returning
<1>17. NewStreams'
  BY <1>1, <1>2, <1>15, StillAnnounced
<1>18. wanted' \subseteq Configs
  BY <1>2 DEF RemoveWsPeer
<1>19. (wanted \subseteq Somewhere) => (wanted' \subseteq Somewhere')
  <2>1. CASE lists' = lists
    <3>1. pending' = pending /\ disconnected' = disconnected /\ current' = current
      BY <2>1 DEF lists
    <3>2. Queued' = Queued /\ Resting' = Resting /\ Listed' = Listed
      BY <3>1 DEF Queued, Resting, Listed
    <3>3. wanted' = wanted
      BY <2>1 DEF RemoveWsPeer
    <3> QED BY <1>16, <3>2, <3>3 DEF Somewhere
  <2>2. CASE lists' # lists
    <3>1. wanted' = {c \in wanted : Url[c] # u}
      BY <2>2 DEF RemoveWsPeer
    <3> QED BY <1>10, <1>11, <1>15, <1>16, <3>1 DEF Somewhere
  <2> QED BY <2>1, <2>2
<1>20. ListTypes' /\ OtherTypes'
  BY <1>1, <1>2, <1>3, <1>6, <1>7, <1>8, <1>9, <1>15, <1>18 DEF ListTypes, OtherTypes
<1> QED BY <1>1, <1>7, <1>9, <1>17, <1>19, <1>20 DEF KeeperInv

\* disconnected_peers with other times: the same peers, and no later.
LEMMA Retimed ==
    ASSUME disconnected \in Seq(Waiter), NEW r, r = disconnected', DOMAIN r = DOMAIN disconnected,
           \A i \in DOMAIN disconnected : r[i] \in Waiter /\ r[i].config = disconnected[i].config,
           NEW f, r = [i \in DOMAIN disconnected |-> f[i]]
    PROVE  r \in Seq(Waiter) /\ Resting' = Resting
<1>1. Len(disconnected) \in Nat /\ DOMAIN disconnected = 1..Len(disconnected)
  OBVIOUS
<1>2. r \in [1..Len(disconnected) -> Waiter]
  BY <1>1
<1>3. r \in Seq(Waiter)
  BY <1>1, <1>2
<1>4. Resting' = {r[i].config : i \in DOMAIN disconnected}
  BY DEF Resting
<1>5. Resting' = Resting
  BY <1>4 DEF Resting
<1> QED BY <1>3, <1>5

\* After a resume everybody is due.
LEMMA OnResumeKeeps ==
    ASSUME ManagerTypes, KeeperInv, OnResume
    PROVE  KeeperInv'
<1>1. /\ mode' = mode /\ listening' = listening /\ pending' = pending
      /\ current' = current /\ commands' = commands /\ slots' = slots /\ wanted' = wanted
  BY DEF OnResume
<1>2. /\ OtherTypes /\ ListTypes /\ NewStreams /\ disconnected \in Seq(Waiter)
  BY DEF KeeperInv, ListTypes
<1>3. incidents' \in 0..MaxIncidents
  BY <1>2, Counted DEF OnResume
<1>4. PICK r : r = disconnected'
  OBVIOUS
<1>5. PICK f : f = [i \in DOMAIN disconnected |-> [disconnected[i] EXCEPT !.attempts = 0, !.wait = 0]]
  OBVIOUS
<1>6. r = f /\ r = [i \in DOMAIN disconnected |-> f[i]]
  BY <1>4, <1>5 DEF OnResume
<1>7. ASSUME NEW i \in DOMAIN disconnected
      PROVE  r[i] \in Waiter /\ r[i].config = disconnected[i].config /\ r[i].wait = 0
  <2>1. disconnected[i] \in Waiter
    BY <1>2
  <2>2. 0 \in 0..MaxExponent
    BY DEF ManagerTypes
  <2>3. r[i] = [disconnected[i] EXCEPT !.attempts = 0, !.wait = 0]
    BY <1>5, <1>6
  <2>4. PICK v : v = [disconnected[i] EXCEPT !.attempts = 0]
    OBVIOUS
  <2>5. v \in Waiter /\ v.config = disconnected[i].config
    BY <2>1, <2>2, <2>4 DEF Waiter
  <2>6. r[i] = [v EXCEPT !.wait = 0]
    BY <2>3, <2>4
  <2> QED BY <2>5, <2>6 DEF Waiter
<1>8. r \in Seq(Waiter) /\ Resting' = Resting
  <2>1. DOMAIN r = DOMAIN disconnected
    BY <1>6
  <2> QED BY <1>2, <1>4, <1>6, <1>7, <2>1, Retimed
<1>9. InOrder(r)
  <2>1. DOMAIN r = DOMAIN disconnected
    BY <1>6
  <2> QED BY <1>7, <2>1 DEF InOrder
<1>10. /\ Queued' = Queued /\ Listed' = Listed /\ Dialling' = Dialling /\ Returning' = Returning
  BY <1>1 DEF Queued, Listed, Dialling, Returning
<1>11. Somewhere' = Somewhere
  BY <1>8, <1>10 DEF Somewhere
<1>12. ListTypes' /\ OtherTypes'
  BY <1>1, <1>2, <1>3, <1>4, <1>8 DEF ListTypes, OtherTypes
<1>13. NewStreams'
  BY <1>1, <1>2 DEF NewStreams
<1> QED BY <1>1, <1>4, <1>9, <1>11, <1>12, <1>13 DEF KeeperInv

\* Time passes.
LEMMA AdvanceKeeps ==
    ASSUME ManagerTypes, KeeperInv, Elapse
    PROVE  KeeperInv'
<1>1. /\ mode' = mode /\ listening' = listening /\ pending' = pending /\ incidents' = incidents
      /\ current' = current /\ commands' = commands /\ slots' = slots /\ wanted' = wanted
  BY DEF Elapse
<1>2. /\ OtherTypes /\ ListTypes /\ NewStreams /\ disconnected \in Seq(Waiter) /\ InOrder(disconnected)
  BY DEF KeeperInv, ListTypes
<1>3. PICK r : r = disconnected'
  OBVIOUS
<1>4. PICK f : f = [i \in DOMAIN disconnected |->
                      [disconnected[i] EXCEPT !.wait = IF @ > 0 THEN @ - 1 ELSE 0]]
  OBVIOUS
<1>5. r = f /\ r = [i \in DOMAIN disconnected |-> f[i]]
  BY <1>3, <1>4 DEF Elapse
<1>6. ASSUME NEW i \in DOMAIN disconnected
      PROVE  /\ r[i] \in Waiter /\ r[i].config = disconnected[i].config
             /\ disconnected[i].wait \in Nat
             /\ r[i].wait = IF disconnected[i].wait > 0 THEN disconnected[i].wait - 1 ELSE 0
  <2>1. disconnected[i] \in Waiter
    BY <1>2
  <2>2. r[i] = [disconnected[i] EXCEPT !.wait = IF @ > 0 THEN @ - 1 ELSE 0]
    BY <1>4, <1>5
  <2>3. PICK w \in Nat : w = disconnected[i].wait
    BY <2>1 DEF Waiter
  <2>4. PICK v \in Nat : v = IF w > 0 THEN w - 1 ELSE 0
    <3>1. (IF w > 0 THEN w - 1 ELSE 0) \in Nat
      OBVIOUS
    <3> QED BY <3>1
  <2>5. r[i] = [disconnected[i] EXCEPT !.wait = v]
    BY <2>2, <2>3, <2>4
  <2> QED BY <2>1, <2>3, <2>4, <2>5 DEF Waiter
<1>7. DOMAIN r = DOMAIN disconnected
  BY <1>5
<1>8. r \in Seq(Waiter) /\ Resting' = Resting
  BY <1>2, <1>3, <1>5, <1>6, <1>7, Retimed
<1>9. InOrder(r)
  <2>1. \A a, b \in Nat : a <= b => (IF a > 0 THEN a - 1 ELSE 0) <= (IF b > 0 THEN b - 1 ELSE 0)
    OBVIOUS
  <2>2. ASSUME NEW i \in DOMAIN disconnected, NEW j \in DOMAIN disconnected, i < j
        PROVE  r[i].wait <= r[j].wait
    <3>1. disconnected[i].wait <= disconnected[j].wait
      BY <1>2, <2>2 DEF InOrder
    <3> QED BY <1>6, <2>1, <3>1
  <2> QED BY <1>7, <2>2 DEF InOrder
<1>10. /\ Queued' = Queued /\ Listed' = Listed /\ Dialling' = Dialling /\ Returning' = Returning
  BY <1>1 DEF Queued, Listed, Dialling, Returning
<1>11. Somewhere' = Somewhere
  BY <1>8, <1>10 DEF Somewhere
<1>12. ListTypes' /\ OtherTypes'
  BY <1>1, <1>2, <1>3, <1>8 DEF ListTypes, OtherTypes
<1>13. NewStreams'
  BY <1>1, <1>2 DEF NewStreams
<1> QED BY <1>1, <1>3, <1>9, <1>11, <1>12, <1>13 DEF KeeperInv

\* The manager shuts down.
LEMMA ShutdownKeeps ==
    ASSUME ManagerTypes, KeeperInv, Shutdown
    PROVE  KeeperInv'
<1>1. /\ mode' = "gone" /\ listening' = listening /\ pending' = <<>> /\ disconnected' = <<>>
      /\ current' = <<>> /\ commands' = <<>> /\ wanted' = {}
  BY DEF Shutdown
<1>2. OtherTypes
  BY DEF KeeperInv
<1>3. incidents' \in 0..MaxIncidents
  BY <1>2, Counted DEF Shutdown
<1>4. slots' \in [Slots -> {Ended} \cup Live]
  <2>1. ASSUME NEW i \in Slots
        PROVE  (IF /\ slots[i].stage = "open"
                   /\ \E k \in DOMAIN current : current[k].slot = i
                THEN [slots[i] EXCEPT !.stage = "ordered"] ELSE slots[i])
                 \in {Ended} \cup Live
    <3>1. slots[i] \in {Ended} \cup Live
      BY <1>2 DEF OtherTypes
    <3>2. slots[i].stage = "open" => [slots[i] EXCEPT !.stage = "ordered"] \in Live
      BY <1>2, LiveIs DEF Live, Stage
    <3> QED BY <3>1, <3>2
  <2> QED BY <2>1 DEF Shutdown
<1>5. ListTypes'
  BY <1>1, EmptySeq DEF ListTypes
<1>6. OtherTypes'
  BY <1>1, <1>2, <1>3, <1>4 DEF OtherTypes
<1>7. NewStreams' /\ InOrder(disconnected')
  BY <1>1 DEF NewStreams, InOrder
<1> QED BY <1>1, <1>5, <1>6, <1>7 DEF KeeperInv

-----------------------------------------------------------------------------
(* The steps of the tasks.                                                 *)

\* A command is sent; one that announces a connection does so for the first time.
LEMMA CommandSent ==
    ASSUME ListTypes, NewStreams, NEW cmd \in WsCommand, Sends(cmd),
           \A i \in Slots : slots[i].stage = "new" => slots'[i].stage = "new",
           mode # "gone" /\ cmd.type = "NewWsStream"
              => slots[cmd.slot].stage = "dial" /\ slots'[cmd.slot].stage = "new"
    PROVE  /\ commands' \in Seq(WsCommand) /\ NewStreams'
           /\ Returning \subseteq Returning'
           /\ mode # "gone" /\ cmd.type = "QueueReconnect" => cmd.peer.config \in Returning'
<1>1. commands \in Seq(WsCommand)
  BY DEF ListTypes
<1>2. CASE mode = "gone"
  <2>1. commands' = commands
    BY <1>2 DEF Sends
  <2>2. NewStreams' /\ Returning' = Returning
    BY <2>1, StillAnnounced DEF Returning
  <2> QED BY <1>1, <1>2, <2>1, <2>2
<1>3. CASE mode # "gone"
  <2>1. PICK r : r = commands' /\ r = Append(commands, cmd)
    BY <1>3 DEF Sends
  <2>2. /\ r \in Seq(WsCommand)
        /\ \A i \in DOMAIN commands : i \in DOMAIN r /\ r[i] = commands[i]
        /\ \E n \in DOMAIN r : r[n] = cmd /\ \A i \in DOMAIN r : i = n \/ i \in DOMAIN commands
    BY <1>1, <2>1, Pushed
  <2>3. PICK n \in DOMAIN r : r[n] = cmd /\ \A i \in DOMAIN r : i = n \/ i \in DOMAIN commands
    BY <2>2
  <2>4. \A k \in DOMAIN commands :
            commands[k].type = "NewWsStream" =>
                commands[k].slot \in Slots /\ slots[commands[k].slot].stage = "new"
    <3>1. \A k \in DOMAIN commands : commands[k] \in WsCommand
      BY <1>1
    <3> QED BY <3>1, CommandIs DEF NewStreams
  <2>5. ASSUME NEW k \in DOMAIN r, r[k].type = "NewWsStream"
        PROVE  slots'[r[k].slot].stage = "new"
    <3>1. CASE k = n
      BY <1>3, <2>3, <2>5, <3>1
    <3>2. CASE k \in DOMAIN commands
      BY <2>2, <2>4, <2>5, <3>2
    <3> QED BY <2>3, <3>1, <3>2
  <2>6. ASSUME NEW k \in DOMAIN r, NEW l \in DOMAIN r, r[k].type = "NewWsStream",
               r[l].type = "NewWsStream", r[k].slot = r[l].slot
        PROVE  k = l
    <3>1. CASE k \in DOMAIN commands /\ l \in DOMAIN commands
      BY <2>2, <2>6, <3>1 DEF NewStreams
    <3>2. CASE k = n /\ l = n
      BY <3>2
    <3>3. ASSUME NEW a \in DOMAIN commands, commands[a].type = "NewWsStream",
                 cmd.type = "NewWsStream", commands[a].slot = cmd.slot
          PROVE  FALSE
      BY <1>3, <2>4, <3>3
    <3>4. CASE k \in DOMAIN commands /\ l = n
      BY <2>2, <2>3, <2>6, <3>3, <3>4
    <3>5. CASE k = n /\ l \in DOMAIN commands
      BY <2>2, <2>3, <2>6, <3>3, <3>5
    <3> QED BY <2>3, <3>1, <3>2, <3>4, <3>5
  <2>7. NewStreams'
    BY <2>1, <2>5, <2>6 DEF NewStreams
  <2>8. Returning' = {r[k].peer.config : k \in {l \in DOMAIN r : r[l].type = "QueueReconnect"}}
    BY <2>1 DEF Returning
  <2>9. Returning \subseteq Returning'
    <3>1. ASSUME NEW k \in DOMAIN commands, commands[k].type = "QueueReconnect"
          PROVE  commands[k].peer.config \in Returning'
      <4>1. k \in DOMAIN r /\ r[k] = commands[k]
        BY <2>2
      <4> QED BY <2>8, <3>1, <4>1
    <3> QED BY <3>1 DEF Returning
  <2>10. cmd.type = "QueueReconnect" => cmd.peer.config \in Returning'
    BY <2>3, <2>8
  <2> QED BY <2>1, <2>2, <2>7, <2>9, <2>10
<1> QED BY <1>2, <1>3

\* A connection changes its stage, or ends.
LEMMA Staged ==
    ASSUME OtherTypes, NEW i \in Slots, slots[i].stage # "ended", NEW s \in Stage,
           Stages(i, s)
    PROVE  /\ slots' \in [Slots -> {Ended} \cup Live]
           /\ slots'[i].stage = s /\ slots'[i].direction = slots[i].direction
           /\ \A j \in Slots : j # i => slots'[j] = slots[j]
<1>1. PICK v : v = [slots[i] EXCEPT !.stage = s]
  OBVIOUS
<1>2. slots' = [slots EXCEPT ![i] = v]
  BY <1>1 DEF Stages
<1>3. v \in Live /\ v.stage = s /\ v.direction = slots[i].direction
  BY <1>1, LiveIs DEF Live
<1>4. slots \in [Slots -> {Ended} \cup Live]
  BY DEF OtherTypes
<1> QED BY <1>2, <1>3, <1>4

\* A connection ends.
LEMMA EndsIs ==
    ASSUME OtherTypes, NEW i \in Slots, Frees(i)
    PROVE  /\ slots' \in [Slots -> {Ended} \cup Live]
           /\ \A j \in Slots : j # i => slots'[j] = slots[j]
  BY DEF OtherTypes, Frees

\* A step of a task that leaves the manager's lists alone.
LEMMA TaskKeeps ==
    ASSUME KeeperInv, pending' = pending, disconnected' = disconnected, current' = current,
           mode' = mode, listening' \in BOOLEAN, wanted' = wanted, incidents' \in 0..MaxIncidents,
           slots' \in [Slots -> {Ended} \cup Live], commands' \in Seq(WsCommand),
           NewStreams',
           mode # "gone" => Dialling \cup Returning \subseteq
                                Dialling' \cup Returning' \cup {Inbound},
           ManagerTypes
    PROVE  KeeperInv'
<1>1. Queued' = Queued /\ Resting' = Resting /\ Listed' = Listed
  BY DEF Queued, Resting, Listed
<1>2. Inbound \notin wanted
  BY DEF KeeperInv, OtherTypes, ManagerTypes
<1>3. mode # "gone" /\ (wanted \subseteq Somewhere) => (wanted \subseteq Somewhere')
  BY <1>1, <1>2 DEF Somewhere
<1>4. ~EqualInstants => wanted' \subseteq Somewhere'
  BY <1>3 DEF KeeperInv
<1>5. ListTypes' /\ OtherTypes'
  BY DEF KeeperInv, ListTypes, OtherTypes
<1> QED BY <1>4, <1>5 DEF KeeperInv

\* A task that ends gives its peer back.
LEMMA GivesUpKeeps ==
    ASSUME ManagerTypes, KeeperInv, NEW i \in Slots, slots[i].stage = "dial",
           GivesUp(i), mode' = mode, listening' = listening, pending' = pending,
           disconnected' = disconnected, current' = current, wanted' = wanted, incidents' = incidents
    PROVE  KeeperInv'
<1>1. OtherTypes /\ ListTypes /\ NewStreams
  BY DEF KeeperInv
<1>2. PICK c : c = slots[i].direction
  OBVIOUS
<1>3. c \in Directions /\ slots[i].attempts \in 0..MaxExponent
  BY <1>1, <1>2, LiveIs
<1>4. /\ slots' \in [Slots -> {Ended} \cup Live]
      /\ \A j \in Slots : j # i => slots'[j] = slots[j]
  BY <1>1, EndsIs DEF GivesUp
<1>5. \A j \in Slots : slots[j].stage = "new" => slots'[j].stage = "new"
  BY <1>4
<1>6. Dialling \subseteq Dialling' \cup {c}
  BY <1>2, <1>4 DEF Dialling
<1>7. /\ commands' \in Seq(WsCommand) /\ NewStreams' /\ Returning \subseteq Returning'
      /\ mode # "gone" => c = Inbound \/ c \in Returning'
  <2>1. CASE c = Inbound
    <3>1. commands' = commands
      BY <1>2, <2>1 DEF GivesUp
    <3>2. NewStreams' /\ Returning' = Returning
      BY <1>1, <1>5, <3>1, StillAnnounced DEF Returning
    <3> QED BY <1>1, <2>1, <3>1, <3>2 DEF ListTypes
  <2>2. CASE c # Inbound
    <3>1. PICK p : p = [config |-> c, attempts |-> slots[i].attempts]
      OBVIOUS
    <3>2. p \in Attempt /\ p.config = c
      BY <1>3, <2>2, <3>1 DEF Attempt, Directions
    <3>3. PICK cmd : cmd = QueueReconnect(p)
      OBVIOUS
    <3>4. cmd \in WsCommand /\ cmd.type = "QueueReconnect" /\ cmd.peer = p
      BY <3>2, <3>3 DEF WsCommand, QueueReconnect
    <3>5. Sends(cmd)
      BY <1>2, <2>2, <3>1, <3>3 DEF GivesUp
    <3>6. /\ commands' \in Seq(WsCommand) /\ NewStreams'
          /\ Returning \subseteq Returning'
          /\ mode # "gone" /\ cmd.type = "QueueReconnect" => cmd.peer.config \in Returning'
      BY <1>1, <1>5, <3>4, <3>5, CommandSent
    <3> QED BY <3>2, <3>4, <3>6
  <2> QED BY <2>1, <2>2
<1>8. incidents' \in 0..MaxIncidents /\ listening' \in BOOLEAN
  BY <1>1 DEF OtherTypes
<1> QED BY <1>4, <1>6, <1>7, <1>8, TaskKeeps

\* The task of a dial succeeds or fails.
LEMMA HandshakePeerKeeps ==
    ASSUME ManagerTypes, KeeperInv, NEW i \in Slots, HandshakePeer(i)
    PROVE  KeeperInv'
<1>1. /\ slots[i].stage = "dial"
      /\ mode' = mode /\ listening' = listening /\ pending' = pending
      /\ disconnected' = disconnected /\ current' = current /\ wanted' = wanted
      /\ incidents' = incidents
  BY DEF HandshakePeer, In, lists
<1>2. OtherTypes /\ ListTypes /\ NewStreams
  BY DEF KeeperInv
<1>3. CASE GivesUp(i)
  BY <1>1, <1>3, GivesUpKeeps
<1>4. ASSUME IF mode = "gone" THEN Frees(i) ELSE Stages(i, "new"),
             Sends(NewWsStream(i))
      PROVE  KeeperInv'
  <2>1. PICK cmd : cmd = NewWsStream(i)
    OBVIOUS
  <2>2. cmd \in WsCommand /\ cmd.type = "NewWsStream" /\ cmd.slot = i
    BY <2>1 DEF WsCommand, NewWsStream
  <2>3. /\ slots' \in [Slots -> {Ended} \cup Live]
        /\ \A j \in Slots : j # i => slots'[j] = slots[j]
        /\ mode # "gone" => slots'[i].stage = "new" /\ slots'[i].direction = slots[i].direction
    <3>1. CASE mode = "gone"
      BY <1>2, <1>4, <3>1, EndsIs
    <3>2. CASE mode # "gone"
      <4>1. "new" \in Stage
        BY DEF Stage
      <4>2. Stages(i, "new")
        BY <1>4, <3>2
      <4> QED BY <1>1, <1>2, <4>1, <4>2, Staged
    <3> QED BY <3>1, <3>2
  <2>4. \A j \in Slots : slots[j].stage = "new" => slots'[j].stage = "new"
    BY <1>1, <2>3
  <2>5. /\ commands' \in Seq(WsCommand) /\ NewStreams' /\ Returning \subseteq Returning'
    <3>1. Sends(cmd)
      BY <1>4, <2>1
    <3>2. mode # "gone" /\ cmd.type = "NewWsStream"
              => slots[cmd.slot].stage = "dial" /\ slots'[cmd.slot].stage = "new"
      BY <1>1, <2>2, <2>3
    <3> QED BY <1>2, <2>2, <2>4, <3>1, <3>2, CommandSent
  <2>6. mode # "gone" => Dialling \subseteq Dialling'
    <3> SUFFICES ASSUME mode # "gone", NEW j \in Slots, slots[j].stage \in {"dial", "new"}
                 PROVE  slots[j].direction \in Dialling'
      BY DEF Dialling
    <3>1. slots'[j].stage \in {"dial", "new"} /\ slots'[j].direction = slots[j].direction
      BY <2>3
    <3> QED BY <3>1 DEF Dialling
  <2>7. incidents' \in 0..MaxIncidents /\ listening' \in BOOLEAN
    BY <1>1, <1>2 DEF OtherTypes
  <2> QED BY <1>1, <2>3, <2>5, <2>6, <2>7, TaskKeeps
<1> QED BY <1>3, <1>4 DEF HandshakePeer

\* A session tells the manager of its end.
LEMMA TellKeeps ==
    ASSUME ManagerTypes, KeeperInv, NEW i \in Slots, Tell(i)
    PROVE  KeeperInv'
<1>1. /\ slots[i].stage = "telling" /\ Frees(i)
      /\ mode' = mode /\ listening' = listening /\ pending' = pending
      /\ disconnected' = disconnected /\ current' = current /\ wanted' = wanted
      /\ incidents' = incidents
  BY DEF Tell, In, lists
<1>2. OtherTypes /\ ListTypes /\ NewStreams
  BY DEF KeeperInv
<1>3. PICK cmd : cmd = PeerClosed(slots[i].node) /\ Sends(cmd)
  BY DEF Tell
<1>4. cmd \in WsCommand /\ cmd.type = "PeerClosed"
  <2>1. slots[i].node \in Peers
    BY <1>1, <1>2, LiveIs
  <2> QED BY <1>3, <2>1 DEF WsCommand, PeerClosed
<1>5. /\ slots' \in [Slots -> {Ended} \cup Live]
      /\ \A j \in Slots : j # i => slots'[j] = slots[j]
  BY <1>1, <1>2, EndsIs
<1>6. \A j \in Slots : slots[j].stage = "new" => slots'[j].stage = "new"
  BY <1>1, <1>5
<1>7. /\ commands' \in Seq(WsCommand) /\ NewStreams' /\ Returning \subseteq Returning'
  BY <1>2, <1>3, <1>4, <1>6, CommandSent
<1>8. Dialling \subseteq Dialling'
  <2> SUFFICES ASSUME NEW j \in Slots, slots[j].stage \in {"dial", "new"}
               PROVE  slots[j].direction \in Dialling'
    BY DEF Dialling
  <2>1. slots'[j] = slots[j]
    BY <1>1, <1>5
  <2> QED BY <2>1 DEF Dialling
<1>9. incidents' \in 0..MaxIncidents /\ listening' \in BOOLEAN
  BY <1>1, <1>2 DEF OtherTypes
<1> QED BY <1>1, <1>5, <1>7, <1>8, <1>9, TaskKeeps

\* A session goes on to another stage, or ends without a word.
LEMMA SessionKeeps ==
    ASSUME ManagerTypes, KeeperInv, NEW i \in Slots,
           slots[i].stage \in {"open", "ordered"},
           Frees(i) \/ Stages(i, "telling"),
           mode' = mode, listening' = listening, pending' = pending, commands' = commands,
           disconnected' = disconnected, current' = current, wanted' = wanted,
           incidents' \in 0..MaxIncidents
    PROVE  KeeperInv'
<1>1. OtherTypes /\ ListTypes /\ NewStreams
  BY DEF KeeperInv
<1>2. /\ slots' \in [Slots -> {Ended} \cup Live]
      /\ \A j \in Slots : j # i => slots'[j] = slots[j]
  <2>1. CASE Frees(i)
    BY <1>1, <2>1, EndsIs
  <2>2. CASE Stages(i, "telling")
    <3>1. "telling" \in Stage
      BY DEF Stage
    <3> QED BY <1>1, <2>2, <3>1, Staged
  <2> QED BY <2>1, <2>2
<1>3. \A j \in Slots : slots[j].stage \in {"dial", "new"} => slots'[j] = slots[j]
  BY <1>2
<1>4. NewStreams'
  BY <1>1, <1>3, StillAnnounced
<1>5. Dialling \subseteq Dialling'
  <2> SUFFICES ASSUME NEW j \in Slots, slots[j].stage \in {"dial", "new"}
               PROVE  slots[j].direction \in Dialling'
    BY DEF Dialling
  <2>1. slots'[j] = slots[j]
    BY <1>3
  <2> QED BY <2>1 DEF Dialling
<1>6. listening' \in BOOLEAN /\ commands' \in Seq(WsCommand) /\ Returning' = Returning
  BY <1>1 DEF OtherTypes, ListTypes, Returning
<1> QED BY <1>2, <1>4, <1>5, <1>6, TaskKeeps

\* A node dials in.
LEMMA AcceptKeeps ==
    ASSUME ManagerTypes, KeeperInv, NEW n \in Nodes, Accept(n)
    PROVE  KeeperInv'
<1>1. /\ mode' = mode /\ listening' = listening /\ pending' = pending /\ commands' = commands
      /\ disconnected' = disconnected /\ current' = current /\ wanted' = wanted
  BY DEF Accept, lists
<1>2. OtherTypes /\ ListTypes /\ NewStreams
  BY DEF KeeperInv
<1>3. incidents' \in 0..MaxIncidents
  BY <1>2, Counted DEF Accept
<1>4. PICK d : d = Connection("dial", Inbound, 0, n) /\ Begin(d)
  BY DEF Accept
<1>5. d \in Live /\ d.stage = "dial"
  <2>1. 0 \in 0..MaxExponent /\ Inbound \in Directions /\ n \in Peers
    BY DEF ManagerTypes, Directions, Peers
  <2> QED BY <1>4, <2>1, ToDial
<1>6. /\ slots' \in [Slots -> {Ended} \cup Live]
      /\ \A i \in Slots : slots[i].stage # "ended" => slots'[i] = slots[i]
      /\ Dialling \subseteq Dialling'
  BY <1>2, <1>4, <1>5, Begun
<1>7. NewStreams'
  BY <1>1, <1>2, <1>6, StillAnnounced
<1>8. listening' \in BOOLEAN /\ commands' \in Seq(WsCommand) /\ Returning' = Returning
  BY <1>1, <1>2 DEF OtherTypes, ListTypes, Returning
<1> QED BY <1>1, <1>3, <1>6, <1>7, <1>8, TaskKeeps

\* A node dials in and fails.
LEMMA AcceptFailsKeeps ==
    ASSUME ManagerTypes, KeeperInv, AcceptFails
    PROVE  KeeperInv'
<1>1. /\ mode' = mode /\ listening' \in BOOLEAN /\ pending' = pending /\ commands' = commands
      /\ disconnected' = disconnected /\ current' = current /\ wanted' = wanted /\ slots' = slots
  BY DEF AcceptFails, lists
<1>2. OtherTypes /\ ListTypes /\ NewStreams
  BY DEF KeeperInv
<1>3. incidents' \in 0..MaxIncidents
  BY <1>2, Counted DEF AcceptFails
<1>4. NewStreams' /\ Dialling' = Dialling /\ Returning' = Returning
  BY <1>1, <1>2 DEF NewStreams, Dialling, Returning
<1>5. slots' \in [Slots -> {Ended} \cup Live] /\ commands' \in Seq(WsCommand)
  BY <1>1, <1>2 DEF OtherTypes, ListTypes
<1> QED BY <1>1, <1>3, <1>4, <1>5, TaskKeeps

\* Every step keeps the invariant.
LEMMA KeeperStep ==
    ASSUME ManagerTypes, KeeperInv, [ManagerNext]_managerVars
    PROVE  KeeperInv'
<1>1. CASE UNCHANGED managerVars
  <2>1. /\ mode' = mode /\ listening' = listening /\ pending' = pending /\ commands' = commands
        /\ disconnected' = disconnected /\ current' = current /\ wanted' = wanted /\ slots' = slots
        /\ incidents' = incidents
    BY <1>1 DEF managerVars, lists
  <2> QED BY <2>1 DEF KeeperInv, ListTypes, OtherTypes, NewStreams, Somewhere, Queued, Resting,
                      Listed, Dialling, Returning
<1>2. CASE Manage
  <2>1. CASE HandleCommand
    BY <2>1, NewWsStreamKeeps, PeerClosedKeeps, QueueReconnectKeeps DEF HandleCommand
  <2> QED BY <1>2, <2>1, ConnectPendingKeeps, ConnectReadyKeeps DEF Manage
<1>3. CASE OnResume \/ Shutdown \/ AcceptFails \/ Elapse
  BY <1>3, OnResumeKeeps, ShutdownKeeps, AcceptFailsKeeps, AdvanceKeeps
<1>4. ASSUME NEW c \in Configs, AddWsPeer(c) \/ RemoveWsPeer(Url[c])
      PROVE  KeeperInv'
  BY <1>4, AddWsPeerKeeps, RemoveWsPeerKeeps
<1>5. ASSUME NEW n \in Nodes, Accept(n)
      PROVE  KeeperInv'
  BY <1>5, AcceptKeeps
<1>6. ASSUME NEW i \in Slots, Task(i) \/ SessionLost(i) \/ SessionCloses(i)
      PROVE  KeeperInv'
  <2>1. OtherTypes
    BY DEF KeeperInv
  <2>2. CASE HandshakePeer(i) \/ Tell(i)
    BY <2>2, HandshakePeerKeeps, TellKeeps
  <2>3. CASE Obey(i)
    <3>1. incidents' \in 0..MaxIncidents
      BY <2>1, <2>3 DEF OtherTypes, Obey
    <3> QED BY <2>3, <3>1, SessionKeeps DEF Obey, In, lists
  <2>4. CASE SessionLost(i)
    <3>1. incidents' \in 0..MaxIncidents
      BY <2>1, <2>4, Counted DEF SessionLost
    <3> QED BY <2>4, <3>1, SessionKeeps DEF SessionLost, In, lists
  <2>5. CASE SessionCloses(i)
    <3>1. incidents' \in 0..MaxIncidents
      BY <2>1, <2>5, Counted DEF SessionCloses
    <3> QED BY <2>5, <3>1, SessionKeeps DEF SessionCloses, In, lists
  <2> QED BY <1>6, <2>2, <2>3, <2>4, <2>5 DEF Task
<1> QED BY <1>1, <1>2, <1>3, <1>4, <1>5, <1>6 DEF ManagerNext

\* At the start every configured peer is pending.
LEMMA KeeperInit ==
    ASSUME ManagerTypes, ManagerInit
    PROVE  KeeperInv
<1>1. PICK n : n = Cardinality(Configured)
  OBVIOUS
<1>2. /\ IsFiniteSet(Configured) /\ Configured \subseteq Configs /\ n <= MaxIncidents
      /\ MaxIncidents \in Nat
  BY <1>1 DEF ManagerTypes
<1>3. n \in Nat
  BY <1>1, <1>2, FS_CardinalityType
<1>4. /\ pending \in [1..n -> Configured]
      /\ \A i, j \in 1..n : i # j => pending[i] # pending[j]
  BY <1>1 DEF ManagerInit, SetToSeqs
<1>5. pending \in Seq(Configs)
  BY <1>2, <1>3, <1>4
<1>6. Configured \subseteq Queued
  <2>1. pending \in Injection(1..n, Configured)
    BY <1>4, Zenon DEF Injection, IsInjective
  <2>2. Cardinality(1..n) = n
    BY <1>3, FS_Interval
  <2>3. pending \in Surjection(1..n, Configured)
    BY <1>1, <1>2, <2>1, <2>2, FS_Injection
  <2>4. DOMAIN pending = 1..n
    BY <1>4
  <2> QED BY <2>3, <2>4 DEF Surjection, Queued
<1>7. /\ mode = "Listen" /\ listening \in BOOLEAN /\ wanted = Configured
      /\ disconnected = <<>> /\ current = <<>> /\ commands = <<>>
      /\ slots = [i \in Slots |-> Ended]
  BY DEF ManagerInit
<1>8. incidents \in 0..MaxIncidents
  <2>1. incidents = n
    BY <1>1 DEF ManagerInit
  <2> QED BY <1>2, <1>3, <2>1
<1>9. ListTypes
  BY <1>5, <1>7, EmptySeq DEF ListTypes
<1>10. OtherTypes
  BY <1>2, <1>7, <1>8 DEF OtherTypes
<1>11. NewStreams /\ InOrder(disconnected)
  BY <1>7 DEF NewStreams, InOrder
<1> QED BY <1>6, <1>7, <1>9, <1>10, <1>11 DEF KeeperInv, Somewhere

\* It holds in every behaviour of the manager.
LEMMA KeeperInvariant ==
    ASSUME ManagerTypes
    PROVE  ManagerSpec => []KeeperInv
<1>1. ManagerInit => KeeperInv
  BY KeeperInit
<1>2. KeeperInv /\ [ManagerNext]_managerVars => KeeperInv'
  BY KeeperStep
<1> QED BY <1>1, <1>2, PTL DEF ManagerSpec

\* The manager's lists, its commands and its connections have their types, for
\* any number of peers, requests and connections: an entry of disconnected_peers
\* never counts more attempts than the cap, however often an attempt fails.
THEOREM ManagerTypeCorrect == ManagerSpec => []ManagerTypeOK
<1>1. KeeperInv => ManagerTypeOK
  <2> SUFFICES ASSUME KeeperInv PROVE ManagerTypeOK
    OBVIOUS
  <2>1. ListTypes /\ OtherTypes
    BY DEF KeeperInv
  <2>2. \A i \in DOMAIN disconnected : disconnected[i] \in Waiter
    BY <2>1 DEF ListTypes
  <2>3. \A i \in DOMAIN current : current[i] \in Entry
    BY <2>1 DEF ListTypes
  <2>4. \A k \in DOMAIN commands :
            commands[k].type \in {"NewWsStream", "PeerClosed", "QueueReconnect"}
    <3>1. \A k \in DOMAIN commands : commands[k] \in WsCommand
      BY <2>1 DEF ListTypes
    <3> QED BY <3>1, CommandIs
  <2>5. \A i \in Slots : slots[i] = Ended \/ slots[i].stage \in Stage
    BY <2>1 DEF OtherTypes, Live
  <2> QED BY <2>1, <2>2, <2>3, <2>4, <2>5
          DEF ManagerTypeOK, ListTypes, OtherTypes, Waiter, Entry, Peers, Directions
<1> QED BY <1>1, KeeperInvariant, ManagerTyped, PTL

\* disconnected_peers is in order of when_ready whatever is inserted, removed,
\* resumed or passes, so that its first entry is the one that is due first:
\* get_next_timeout and get_next_ready_peer look at no other.
THEOREM DueComesFirst == ManagerSpec => []EarliestFirst
<1>1. KeeperInv => EarliestFirst
  <2> SUFFICES ASSUME KeeperInv, NEW i \in DOMAIN disconnected
               PROVE  disconnected[1].wait <= disconnected[i].wait
    BY DEF EarliestFirst
  <2>1. disconnected \in Seq(Waiter) /\ InOrder(disconnected)
    BY DEF KeeperInv, ListTypes
  <2>2. 1 \in DOMAIN disconnected /\ (i = 1 \/ 1 < i) /\ disconnected[i] \in Waiter
    BY <2>1
  <2>3. disconnected[i].wait \in Nat
    BY <2>2 DEF Waiter
  <2> QED BY <2>1, <2>2, <2>3 DEF InOrder
<1> QED BY <1>1, KeeperInvariant, ManagerTyped, PTL

\* A peer that was configured or added and not removed is always in one of the
\* manager's lists, being dialled or on its way back from a failed attempt, when no
\* two instants are the same (an equal one is not inserted, see Schedule).
THEOREM PeersAreKept ==
    ASSUME ~EqualInstants
    PROVE  ManagerSpec => []NoPeerForgotten
<1>1. KeeperInv => NoPeerForgotten
  BY SomewhereMeans DEF KeeperInv
<1> QED BY <1>1, KeeperInvariant, ManagerTyped, PTL
=============================================================================
