-------------------------- MODULE IpcSession_proofs --------------------------
(* Proofs about IpcSession for any number of connections, dials and faults, *)
(* and about IpcDirectory, at the end.                                      *)
EXTENDS IpcSession, IpcDirectory, SequenceTheorems, TLAPS

\* A session that runs, before or after its manager's answer.
Running == {"Ready", "Open"}

CommandRecord == [type : IpcCommand, conn : Conns \cup {None}]

Types ==
    /\ manager \in [Nodes -> {"on", "soft", "gone"}]
    /\ peers \in [Nodes -> Conns \cup {None}]
    /\ pending \in [Nodes -> BOOLEAN]
    /\ commands \in [Nodes -> Seq(CommandRecord)]
    /\ dialler \in [Conns -> Nodes \cup {None}]
    /\ stage \in [Conns -> [Nodes -> Stage]]
    /\ control \in [Conns -> [Nodes -> Seq({"Accepted", "Shutdown"})]]

WiresTyped == wire \in [Conns -> [Nodes -> Seq(IpcMessage)]]

CountersOK == late \in BOOLEAN /\ dials \in 0..MaxDials /\ faults \in 0..MaxFaults

Msg(t, c) == [type |-> t, conn |-> c]

\* What is in a manager's channel.
Inbox(n) == {commands[n][k] : k \in DOMAIN commands[n]}

\* Nobody asks a manager that is gone.
GoneInv ==
    \A n \in Nodes : manager[n] = "gone" =>
        peers[n] = None /\ ~pending[n] /\ commands[n] = <<>>

\* A session is ready once.
ReadyOnce ==
    \A n \in Nodes : \A j, k \in DOMAIN commands[n] :
        commands[n][j].type = "SessionReady" /\ commands[n][j] = commands[n][k] => j = k

\* What a command tells of its session: one that is ready has no answer yet, and
\* still waits unless the manager is late; the others have ended.
CommandOK(n, m) ==
    /\ m.type = "SessionReady" =>
         /\ m.conn \in Conns /\ peers[n] # m.conn /\ control[m.conn][n] = <<>>
         /\ \/ stage[m.conn][n] = "Ready"
            \/ stage[m.conn][n] = "done" /\ late
    /\ m.type = "PeerClosed" => m.conn \in Conns /\ stage[m.conn][n] = "done"
    /\ m.type = "HandshakeFailed" /\ m.conn # None => stage[m.conn][n] = "done"
    /\ m.type = "LearnedPeers" => m.conn = None

CommandInv == \A n \in Nodes : \A m \in Inbox(n) : CommandOK(n, m)

\* What a manager has told a session, and which session is in its list.
ControlOK(c, n) ==
    /\ stage[c][n] \notin Running => control[c][n] = <<>>
    /\ stage[c][n] = "Ready" =>
         /\ control[c][n] \in {<<>>, <<"Accepted">>, <<"Accepted", "Shutdown">>}
         /\ control[c][n] = <<"Accepted">> <=> peers[n] = c
    /\ stage[c][n] = "Open" =>
         /\ control[c][n] \in {<<>>, <<"Shutdown">>}
         /\ control[c][n] = <<>> <=> peers[n] = c
    /\ peers[n] = c => stage[c][n] \in Running \cup {"done"}

ControlInv == \A c \in Conns, n \in Nodes : ControlOK(c, n)

\* EntriesAreServed and PendingEnds, in terms of the channel.
ServedInv ==
    ~late => \A n \in Nodes : peers[n] # None =>
        stage[peers[n]][n] \in Running \/ Msg("PeerClosed", peers[n]) \in Inbox(n)

PendingInv ==
    \A n \in Nodes : pending[n] =>
        \E c \in Conns : /\ dialler[c] = n
                         /\ \/ stage[c][n] = "Hello"
                            \/ Msg("SessionReady", c) \in Inbox(n)
                            \/ Msg("HandshakeFailed", c) \in Inbox(n)

\* A stream that was closed at the other end says so.
EofInv ==
    \A c \in Conns, n \in Nodes :
        /\ stage[c][n] = "unused" <=> stage[c][Other(n)] = "unused"
        /\ stage[c][n] \in {"backlog", "Hello"} \cup Running /\ stage[c][Other(n)] = "done"
             => \E k \in DOMAIN wire[c][n] : wire[c][n][k] = "EOF"

\* Managers and sessions; and the streams between them.
Core ==
    /\ Types /\ GoneInv /\ ReadyOnce /\ CommandInv /\ ControlInv
    /\ ServedInv /\ PendingInv

Streams == WiresTyped /\ EofInv

IInv == Core /\ Streams /\ CountersOK

-----------------------------------------------------------------------------
\* The two nodes are each other's other node.
LEMMA OtherIs ==
    ASSUME NEW n \in Nodes
    PROVE  /\ Other(n) \in Nodes /\ Other(n) # n /\ Other(Other(n)) = n
           /\ \A m \in Nodes : m # n => m = Other(n)
  BY DEF Nodes, Other

\* None is no connection.
LEMMA NoneIsNone == None \notin Conns
  BY SessionTyped DEF None

\* The invariant holds when both managers start.
LEMMA InitIInv == Init => IInv
  <1> SUFFICES ASSUME Init PROVE IInv
    OBVIOUS
  <1> USE DEF Init
  <1>1. Types /\ WiresTyped
    BY DEF Types, WiresTyped, Stage
  <1>2. CountersOK
    <2>1. late \in BOOLEAN
      OBVIOUS
    <2>2. dials \in 0..MaxDials /\ faults \in 0..MaxFaults
      BY SessionTyped
    <2> QED BY <2>1, <2>2, Zenon DEF CountersOK
  <1>3. GoneInv /\ ReadyOnce /\ CommandInv
    BY DEF GoneInv, ReadyOnce, CommandInv, Inbox
  <1>4. ControlInv
    BY NoneIsNone DEF ControlInv, ControlOK, Running
  <1>5. EofInv
    BY OtherIs DEF EofInv, Running
  <1>6. ServedInv /\ PendingInv
    BY DEF ServedInv, PendingInv
  <1> QED BY <1>1, <1>2, <1>3, <1>4, <1>5, <1>6 DEF IInv, Core, Streams

-----------------------------------------------------------------------------
(* The managers' channels.                                                 *)

\* What Append keeps and adds.
LEMMA AppendIs ==
    ASSUME NEW S, NEW s \in Seq(S), NEW x \in S
    PROVE  /\ Append(s, x) \in Seq(S)
           /\ \A k \in DOMAIN s : k \in DOMAIN Append(s, x) /\ Append(s, x)[k] = s[k]
           /\ Len(s) + 1 \in DOMAIN Append(s, x) /\ Append(s, x)[Len(s) + 1] = x
           /\ Len(s) + 1 \notin DOMAIN s
           /\ \A k \in DOMAIN Append(s, x) : k \in DOMAIN s \/ k = Len(s) + 1
  OBVIOUS

\* What Tail takes and keeps.
LEMMA TailIs ==
    ASSUME NEW S, NEW s \in Seq(S), s # <<>>
    PROVE  /\ Tail(s) \in Seq(S) /\ Head(s) \in S /\ 1 \in DOMAIN s /\ s[1] = Head(s)
           /\ \A k \in DOMAIN Tail(s) : k \in Nat /\ k # 0 /\ k + 1 \in DOMAIN s /\ Tail(s)[k] = s[k + 1]
           /\ \A k \in DOMAIN s : k \in Nat
           /\ \A k \in DOMAIN s : k # 1 => k - 1 \in DOMAIN Tail(s) /\ Tail(s)[k - 1] = s[k]
  OBVIOUS

\* A command in a channel is a command record.
LEMMA InboxTyped ==
    ASSUME Types, NEW n \in Nodes, NEW m \in Inbox(n)
    PROVE  m \in CommandRecord /\ m.type \in IpcCommand /\ m.conn \in Conns \cup {None}
  <1>1. commands[n] \in Seq(CommandRecord)
    BY DEF Types
  <1>2. m \in CommandRecord
    BY <1>1 DEF Inbox
  <1> QED BY <1>2 DEF CommandRecord

\* A channel that does not change holds the same commands.
LEMMA InboxSame ==
    ASSUME UNCHANGED commands
    PROVE  \A n \in Nodes : Inbox(n)' = Inbox(n)
  BY DEF Inbox

\* A command joins the others, unless nobody receives it.
LEMMA CommandAdds ==
    ASSUME Types, GoneInv, ReadyOnce, NEW n \in Nodes, NEW t \in IpcCommand,
           NEW c \in Conns \cup {None}, Command(n, t, c),
           t = "SessionReady" => Msg(t, c) \notin Inbox(n)
    PROVE  /\ commands' \in [Nodes -> Seq(CommandRecord)]
           /\ \A m \in Nodes : Inbox(m) \subseteq Inbox(m)'
           /\ \A m \in Nodes : \A x \in Inbox(m)' : x \in Inbox(m) \/ (m = n /\ x = Msg(t, c))
           /\ manager[n] # "gone" => Msg(t, c) \in Inbox(n)'
           /\ \A m \in Nodes : manager[m] = "gone" => commands'[m] = <<>>
           /\ ReadyOnce'
  <1>1. PICK x : x = Msg(t, c)
    OBVIOUS
  <1>2. x \in CommandRecord /\ commands[n] \in Seq(CommandRecord) /\ x.type = t
    BY <1>1 DEF CommandRecord, Types, Msg
  <1>3. CASE manager[n] = "gone"
    <2>1. commands' = commands
      BY <1>3 DEF Command
    <2> QED BY <1>3, <2>1, InboxSame DEF Types, GoneInv, ReadyOnce
  <1>4. CASE manager[n] # "gone"
    <2>1. commands' = [commands EXCEPT ![n] = Append(commands[n], x)]
      BY <1>1, <1>4 DEF Command, Msg
    <2>2. /\ commands'[n] = Append(commands[n], x)
          /\ \A m \in Nodes : m # n => commands'[m] = commands[m]
      BY <2>1 DEF Types
    <2>3. /\ commands'[n] \in Seq(CommandRecord)
          /\ \A k \in DOMAIN commands[n] : k \in DOMAIN commands'[n] /\ commands'[n][k] = commands[n][k]
          /\ Len(commands[n]) + 1 \in DOMAIN commands'[n] /\ commands'[n][Len(commands[n]) + 1] = x
          /\ \A k \in DOMAIN commands'[n] : k \in DOMAIN commands[n] \/ k = Len(commands[n]) + 1
      BY <1>2, <2>2, AppendIs
    <2>4. commands' \in [Nodes -> Seq(CommandRecord)]
      BY <2>1, <2>2, <2>3 DEF Types
    <2>5. /\ Inbox(n) \subseteq Inbox(n)' /\ x \in Inbox(n)'
          /\ \A y \in Inbox(n)' : y \in Inbox(n) \/ y = x
      BY <2>3 DEF Inbox
    <2>6. \A m \in Nodes : m # n => Inbox(m)' = Inbox(m)
      BY <2>2 DEF Inbox
    <2>7. ReadyOnce'
      <3> SUFFICES ASSUME NEW m \in Nodes, NEW j \in DOMAIN commands'[m], NEW k \in DOMAIN commands'[m],
                          commands'[m][j].type = "SessionReady", commands'[m][j] = commands'[m][k]
                   PROVE  j = k
        BY DEF ReadyOnce
      <3>1. CASE m # n
        BY <2>2, <3>1 DEF ReadyOnce
      <3>2. CASE m = n
        <4>1. \A i \in DOMAIN commands[n] : commands[n][i] \in Inbox(n)
          BY DEF Inbox
        <4> QED BY <1>1, <1>2, <2>3, <3>2, <4>1 DEF ReadyOnce
      <3> QED BY <3>1, <3>2
    <2> QED BY <1>1, <1>4, <2>2, <2>4, <2>5, <2>6, <2>7 DEF GoneInv
  <1> QED BY <1>3, <1>4

\* The manager takes the first command; a session that is ready is not there twice.
LEMMA CommandTaken ==
    ASSUME Types, ReadyOnce, NEW n \in Nodes, commands[n] # <<>>,
           commands' = [commands EXCEPT ![n] = Tail(@)]
    PROVE  /\ commands' \in [Nodes -> Seq(CommandRecord)]
           /\ \A m \in Nodes : m # n => Inbox(m)' = Inbox(m) /\ commands'[m] = commands[m]
           /\ Head(commands[n]) \in Inbox(n)
           /\ \A x \in Inbox(n)' : x \in Inbox(n)
           /\ \A x \in Inbox(n) : x = Head(commands[n]) \/ x \in Inbox(n)'
           /\ Head(commands[n]).type = "SessionReady" => Head(commands[n]) \notin Inbox(n)'
           /\ ReadyOnce'
  <1>1. /\ commands'[n] = Tail(commands[n])
        /\ \A m \in Nodes : m # n => commands'[m] = commands[m]
        /\ commands[n] \in Seq(CommandRecord)
    BY DEF Types
  <1>2. /\ commands'[n] \in Seq(CommandRecord) /\ 1 \in DOMAIN commands[n]
        /\ commands[n][1] = Head(commands[n])
        /\ \A k \in DOMAIN commands'[n] :
              k \in Nat /\ k # 0 /\ k + 1 \in DOMAIN commands[n] /\ commands'[n][k] = commands[n][k + 1]
        /\ \A k \in DOMAIN commands[n] : k \in Nat
        /\ \A k \in DOMAIN commands[n] :
              k # 1 => k - 1 \in DOMAIN commands'[n] /\ commands'[n][k - 1] = commands[n][k]
    <2>1. PICK s : s = commands[n]
      OBVIOUS
    <2>2. s \in Seq(CommandRecord) /\ s # <<>> /\ commands'[n] = Tail(s)
      BY <1>1, <2>1
    <2>3. /\ Tail(s) \in Seq(CommandRecord) /\ 1 \in DOMAIN s /\ s[1] = Head(s)
          /\ \A k \in DOMAIN Tail(s) : k \in Nat /\ k # 0 /\ k + 1 \in DOMAIN s /\ Tail(s)[k] = s[k + 1]
          /\ \A k \in DOMAIN s : k \in Nat
          /\ \A k \in DOMAIN s : k # 1 => k - 1 \in DOMAIN Tail(s) /\ Tail(s)[k - 1] = s[k]
      BY <2>2, TailIs, Zenon
    <2> QED BY <2>1, <2>2, <2>3, Zenon
  <1>3. commands' \in [Nodes -> Seq(CommandRecord)]
    BY <1>1, <1>2 DEF Types
  <1>4. \A m \in Nodes : m # n => Inbox(m)' = Inbox(m)
    BY <1>1 DEF Inbox
  <1>5. /\ Head(commands[n]) \in Inbox(n)
        /\ \A x \in Inbox(n)' : x \in Inbox(n)
        /\ \A x \in Inbox(n) : x = Head(commands[n]) \/ x \in Inbox(n)'
    <2>1. Head(commands[n]) \in Inbox(n)
      BY <1>2 DEF Inbox
    <2>2. \A x \in Inbox(n)' : x \in Inbox(n)
      BY <1>2 DEF Inbox
    <2>3. ASSUME NEW k \in DOMAIN commands[n], k # 1
          PROVE  commands[n][k] \in Inbox(n)'
      <3>1. k - 1 \in DOMAIN commands'[n] /\ commands'[n][k - 1] = commands[n][k]
        BY <1>2, <2>3
      <3> QED BY <3>1, Zenon DEF Inbox
    <2>4. \A x \in Inbox(n) : x = Head(commands[n]) \/ x \in Inbox(n)'
      BY <1>2, <2>3, Zenon DEF Inbox
    <2> QED BY <2>1, <2>2, <2>4
  <1>6. Head(commands[n]).type = "SessionReady" => Head(commands[n]) \notin Inbox(n)'
    <2> SUFFICES ASSUME Head(commands[n]).type = "SessionReady", NEW k \in DOMAIN commands'[n],
                        commands'[n][k] = Head(commands[n])
                 PROVE  FALSE
      BY DEF Inbox
    <2>1. k + 1 = 1
      BY <1>2 DEF ReadyOnce
    <2> QED BY <1>2, <2>1
  <1>7. ReadyOnce'
    <2> SUFFICES ASSUME NEW m \in Nodes, NEW j \in DOMAIN commands'[m], NEW k \in DOMAIN commands'[m],
                        commands'[m][j].type = "SessionReady", commands'[m][j] = commands'[m][k]
                 PROVE  j = k
      BY DEF ReadyOnce
    <2>1. CASE m # n
      BY <1>1, <2>1 DEF ReadyOnce
    <2>2. CASE m = n
      <3>1. /\ j + 1 \in DOMAIN commands[n] /\ k + 1 \in DOMAIN commands[n]
            /\ commands[n][j + 1].type = "SessionReady" /\ commands[n][j + 1] = commands[n][k + 1]
        BY <1>2, <2>2
      <3>2. j + 1 = k + 1
        BY <3>1, Zenon DEF ReadyOnce
      <3> QED BY <1>2, <2>2, <3>2
    <2> QED BY <2>1, <2>2
  <1> QED BY <1>1, <1>3, <1>4, <1>5, <1>6, <1>7

-----------------------------------------------------------------------------
(* The sessions.                                                           *)

\* A step at n's end of connection c, and at no other end.
EndFrame(n, c) ==
    /\ UNCHANGED <<manager, peers, pending, dialler>>
    /\ late \in BOOLEAN /\ late' \in BOOLEAN /\ (late => late')
    /\ stage' \in [Conns -> [Nodes -> Stage]]
    /\ control' \in [Conns -> [Nodes -> Seq({"Accepted", "Shutdown"})]]
    /\ \A d \in Conns, m \in Nodes : d # c \/ m # n =>
          /\ stage'[d][m] = stage[d][m] /\ control'[d][m] = control[d][m]

\* It may tell n's manager something that is true.
CommandsGrow(n) ==
    /\ commands' \in [Nodes -> Seq(CommandRecord)] /\ ReadyOnce'
    /\ \A m \in Nodes : manager[m] = "gone" => commands'[m] = <<>>
    /\ \A m \in Nodes : Inbox(m) \subseteq Inbox(m)'
    /\ \A m \in Nodes : \A x \in Inbox(m)' : x \in Inbox(m) \/ (m = n /\ CommandOK(n, x)')

\* What was true of that end stays true.
EndKept(n, c) ==
    /\ ControlOK(c, n)'
    /\ \A x \in Inbox(n) : x.conn = c => CommandOK(n, x)'
    /\ peers[n] = c /\ ~late' => stage'[c][n] \in Running \/ Msg("PeerClosed", c) \in Inbox(n)'
    /\ pending[n] /\ dialler[c] = n /\ stage[c][n] = "Hello" =>
          \/ stage'[c][n] = "Hello" \/ Msg("SessionReady", c) \in Inbox(n)'
          \/ Msg("HandshakeFailed", c) \in Inbox(n)'

\* Such a step leaves the rest as it was.
LEMMA SessionStep ==
    ASSUME Core, NEW n \in Nodes, NEW c \in Conns,
           EndFrame(n, c), CommandsGrow(n), EndKept(n, c)
    PROVE  Core'
  <1> USE DEF Core, EndFrame, CommandsGrow, EndKept
  <1>1. Types'
    BY DEF Types
  <1>2. GoneInv'
    BY DEF GoneInv
  <1>3. CommandInv'
    <2> SUFFICES ASSUME NEW m \in Nodes, NEW x \in Inbox(m)'
                 PROVE  CommandOK(m, x)'
      BY DEF CommandInv
    <2>1. CASE x \notin Inbox(m) \/ (m = n /\ x.conn = c)
      BY <2>1
    <2>2. CASE x \in Inbox(m) /\ (m # n \/ x.conn # c)
      <3>1. CommandOK(m, x) /\ x.conn \in Conns \cup {None}
        BY <2>2, InboxTyped DEF CommandInv
      <3> QED BY <2>2, <3>1, NoneIsNone DEF CommandOK
    <2> QED BY <2>1, <2>2
  <1>4. ControlInv'
    <2> SUFFICES ASSUME NEW d \in Conns, NEW m \in Nodes, d # c \/ m # n
                 PROVE  ControlOK(d, m)'
      BY DEF ControlInv
    <2>1. ControlOK(d, m)
      BY DEF ControlInv
    <2> QED BY <2>1 DEF ControlOK
  <1>5. ServedInv'
    <2> SUFFICES ASSUME ~late', NEW m \in Nodes, peers[m] # None
                 PROVE  stage'[peers[m]][m] \in Running \/ Msg("PeerClosed", peers[m]) \in Inbox(m)'
      BY DEF ServedInv
    <2>1. peers[m] \in Conns
      BY DEF Types
    <2>2. stage[peers[m]][m] \in Running \/ Msg("PeerClosed", peers[m]) \in Inbox(m)
      BY DEF ServedInv
    <2>3. CASE peers[m] # c \/ m # n
      <3>1. stage'[peers[m]][m] = stage[peers[m]][m]
        BY <2>1, <2>3
      <3> QED BY <2>2, <3>1
    <2>4. CASE peers[m] = c /\ m = n
      BY <2>4
    <2> QED BY <2>3, <2>4
  <1>6. PendingInv'
    <2> SUFFICES ASSUME NEW m \in Nodes, pending[m]
                 PROVE  \E d \in Conns : /\ dialler[d] = m
                                         /\ \/ stage'[d][m] = "Hello"
                                            \/ Msg("SessionReady", d) \in Inbox(m)'
                                            \/ Msg("HandshakeFailed", d) \in Inbox(m)'
      BY DEF PendingInv
    <2>1. PICK d \in Conns : /\ dialler[d] = m
                             /\ \/ stage[d][m] = "Hello"
                                \/ Msg("SessionReady", d) \in Inbox(m)
                                \/ Msg("HandshakeFailed", d) \in Inbox(m)
      BY DEF PendingInv
    <2>2. \/ stage'[d][m] = "Hello" \/ Msg("SessionReady", d) \in Inbox(m)'
          \/ Msg("HandshakeFailed", d) \in Inbox(m)'
      <3>1. CASE d = c /\ m = n
        BY <2>1, <3>1
      <3>2. CASE d # c \/ m # n
        BY <2>1, <3>2
      <3> QED BY <3>1, <3>2
    <2> QED BY <2>1, <2>2
  <1> QED BY <1>1, <1>2, <1>3, <1>4, <1>5, <1>6

\* The fields that a session step may change.
LEMMA EndChanged ==
    ASSUME NEW S, NEW f \in [Conns -> [Nodes -> S]], NEW g, NEW n \in Nodes, NEW c \in Conns,
           NEW v \in S, g = [f EXCEPT ![c][n] = v]
    PROVE  /\ g \in [Conns -> [Nodes -> S]] /\ g[c][n] = v
           /\ \A d \in Conns, m \in Nodes : d # c \/ m # n => g[d][m] = f[d][m]
  OBVIOUS

\* A session step may tell its manager nothing.
LEMMA CommandsKept ==
    ASSUME Core, NEW n \in Nodes, UNCHANGED commands
    PROVE  CommandsGrow(n) /\ \A m \in Nodes : Inbox(m)' = Inbox(m)
  BY InboxSame DEF Core, Types, ReadyOnce, GoneInv, CommandsGrow

\* Accept
LEMMA AcceptCore ==
    ASSUME Core, late \in BOOLEAN, NEW n \in Nodes, NEW c \in Conns, Accept(n, c)
    PROVE  Core'
  <1>1. /\ UNCHANGED <<manager, peers, pending, dialler, late, commands, control>>
        /\ stage[c][n] = "backlog" /\ stage' = [stage EXCEPT ![c][n] = "Hello"]
    BY DEF Accept, Spawned, Quietly, mgr
  <1>2. /\ stage' \in [Conns -> [Nodes -> Stage]] /\ stage'[c][n] = "Hello"
        /\ \A d \in Conns, m \in Nodes : d # c \/ m # n => stage'[d][m] = stage[d][m]
    BY <1>1, EndChanged, "Hello" \in Stage DEF Core, Types, Stage
  <1>3. ControlOK(c, n)'
    <2>1. ControlOK(c, n)
      BY DEF Core, ControlInv
    <2> QED BY <1>1, <1>2, <2>1 DEF ControlOK, Running
  <1>4. \A x \in Inbox(n) : x.conn # c
    <2> SUFFICES ASSUME NEW x \in Inbox(n), x.conn = c PROVE FALSE
      OBVIOUS
    <2>1. CommandOK(n, x) /\ x.type \in IpcCommand
      BY InboxTyped DEF Core, CommandInv
    <2> QED BY <1>1, <2>1, NoneIsNone DEF CommandOK, IpcCommand
  <1>5. peers[n] # c
    BY <1>1 DEF Core, ControlInv, ControlOK, Running
  <1>6. EndFrame(n, c)
    BY <1>1, <1>2 DEF EndFrame, Core, Types
  <1>7. EndKept(n, c)
    BY <1>2, <1>3, <1>4, <1>5 DEF EndKept
  <1> QED BY <1>1, <1>6, <1>7, CommandsKept, SessionStep

\* Hello: theirs came, the manager is asked.
LEMMA ReadyCore ==
    ASSUME Core, late \in BOOLEAN, NEW n \in Nodes, NEW c \in Conns, manager[n] # "gone",
           UNCHANGED <<manager, peers, pending, dialler, control, late>>,
           stage[c][n] = "Hello", stage' = [stage EXCEPT ![c][n] = "Ready"],
           Command(n, "SessionReady", c)
    PROVE  Core'
  <1>1. /\ stage' \in [Conns -> [Nodes -> Stage]] /\ stage'[c][n] = "Ready"
        /\ \A d \in Conns, m \in Nodes : d # c \/ m # n => stage'[d][m] = stage[d][m]
    BY EndChanged, "Ready" \in Stage DEF Core, Types, Stage
  <1>2. control \in [Conns -> [Nodes -> Seq({"Accepted", "Shutdown"})]]
    BY DEF Core, Types
  <1>3. peers[n] # c /\ control[c][n] = <<>>
    BY DEF Core, ControlInv, ControlOK, Running
  <1>4. \A x \in Inbox(n) : x.conn # c
    <2> SUFFICES ASSUME NEW x \in Inbox(n), x.conn = c PROVE FALSE
      OBVIOUS
    <2>1. CommandOK(n, x) /\ x.type \in IpcCommand
      BY InboxTyped DEF Core, CommandInv
    <2> QED BY <2>1, NoneIsNone DEF CommandOK, IpcCommand
  <1>5. Msg("SessionReady", c) \notin Inbox(n)
    BY <1>4 DEF Msg
  <1>6. CommandOK(n, Msg("SessionReady", c))'
    BY <1>1, <1>3 DEF CommandOK, Msg
  <1>7. CommandsGrow(n) /\ Msg("SessionReady", c) \in Inbox(n)'
    <2>1. "SessionReady" \in IpcCommand /\ c \in Conns \cup {None}
      BY DEF IpcCommand
    <2> QED BY <1>5, <1>6, <2>1, CommandAdds DEF CommandsGrow, Core
  <1>8. ControlOK(c, n)'
    BY <1>1, <1>2, <1>3 DEF ControlOK, Running
  <1>9. EndFrame(n, c)
    BY <1>1, <1>2 DEF EndFrame, Core, Types
  <1>10. EndKept(n, c)
    BY <1>1, <1>3, <1>4, <1>7, <1>8 DEF EndKept
  <1> QED BY <1>7, <1>9, <1>10, SessionStep

\* A session ends and tells its manager so.
LEMMA EndsCore ==
    ASSUME Core, late \in BOOLEAN, late' \in BOOLEAN, late => late',
           NEW n \in Nodes, NEW c \in Conns, NEW t, NEW d, Command(n, t, d),
           UNCHANGED <<manager, peers, pending, dialler>>,
           stage' = [stage EXCEPT ![c][n] = "done"],
           control' = [control EXCEPT ![c][n] = <<>>],
           \/ stage[c][n] = "Open" /\ t = "PeerClosed" /\ d = c
           \/ /\ t = "HandshakeFailed" /\ d = (IF dialler[c] = n THEN c ELSE None)
              /\ \/ stage[c][n] = "Hello"
                 \/ /\ stage[c][n] = "Ready" /\ control[c][n] = <<>>
                    /\ manager[n] = "gone" \/ late'
    PROVE  Core'
  <1>1. /\ stage' \in [Conns -> [Nodes -> Stage]] /\ stage'[c][n] = "done"
        /\ \A e \in Conns, m \in Nodes : e # c \/ m # n => stage'[e][m] = stage[e][m]
    BY EndChanged, "done" \in Stage DEF Core, Types, Stage
  <1>2. ControlOK(c, n)
    BY DEF Core, ControlInv
  <1>3. /\ control' \in [Conns -> [Nodes -> Seq({"Accepted", "Shutdown"})]] /\ control'[c][n] = <<>>
        /\ \A e \in Conns, m \in Nodes : e # c \/ m # n => control'[e][m] = control[e][m]
    BY EndChanged, <<>> \in Seq({"Accepted", "Shutdown"}) DEF Core, Types
  <1>4. EndFrame(n, c)
    BY <1>1, <1>2, <1>3 DEF EndFrame
  <1>5. t \in IpcCommand /\ d \in Conns \cup {None} /\ t # "SessionReady"
    BY DEF IpcCommand
  <1>6. CommandOK(n, Msg(t, d))'
    BY <1>1 DEF CommandOK, Msg
  <1>7. CommandsGrow(n) /\ (manager[n] # "gone" => Msg(t, d) \in Inbox(n)')
    BY <1>5, <1>6, CommandAdds DEF CommandsGrow, Core
  <1>8. ControlOK(c, n)'
    BY <1>1, <1>2, <1>3 DEF ControlOK, Running
  <1>9. ASSUME NEW x \in Inbox(n), x.conn = c PROVE CommandOK(n, x)'
    <2>1. CommandOK(n, x)
      BY DEF Core, CommandInv
    <2>2. manager[n] # "gone"
      BY DEF Core, GoneInv, Inbox
    <2>3. x.type = "SessionReady" => late'
      BY <1>9, <2>1, <2>2 DEF CommandOK
    <2> QED BY <1>1, <1>3, <1>9, <2>1, <2>3 DEF CommandOK
  <1>10. peers[n] = c => stage[c][n] = "Open" /\ manager[n] # "gone"
    <2>1. ControlOK(c, n)
      BY DEF Core, ControlInv
    <2>2. manager[n] = "gone" => peers[n] = None
      BY DEF Core, GoneInv
    <2> QED BY <2>1, <2>2, NoneIsNone DEF ControlOK, Running
  <1>11. pending[n] => manager[n] # "gone"
    BY DEF Core, GoneInv
  <1>12. EndKept(n, c)
    BY <1>1, <1>7, <1>8, <1>9, <1>10, <1>11 DEF EndKept
  <1> QED BY <1>4, <1>7, <1>12, SessionStep

\* Ready: the manager's Accepted.
LEMMA OpenCore ==
    ASSUME Core, late \in BOOLEAN, NEW n \in Nodes, NEW c \in Conns,
           UNCHANGED <<manager, peers, pending, dialler, commands, late>>,
           stage[c][n] = "Ready", control[c][n] # <<>>,
           control' = [control EXCEPT ![c][n] = Tail(@)],
           stage' = [stage EXCEPT ![c][n] = "Open"]
    PROVE  Core'
  <1>1. /\ stage' \in [Conns -> [Nodes -> Stage]] /\ stage'[c][n] = "Open"
        /\ \A d \in Conns, m \in Nodes : d # c \/ m # n => stage'[d][m] = stage[d][m]
    BY EndChanged, "Open" \in Stage DEF Core, Types, Stage
  <1>2. ControlOK(c, n)
    BY DEF Core, ControlInv
  <1>3. \/ control[c][n] = <<"Accepted">> /\ peers[n] = c
        \/ control[c][n] = <<"Accepted", "Shutdown">> /\ peers[n] # c
    BY <1>2 DEF ControlOK
  <1>4. /\ Tail(<<"Accepted">>) = <<>>
        /\ Tail(<<"Accepted", "Shutdown">>) = <<"Shutdown">>
    OBVIOUS
  <1>5. PICK k : k = Tail(control[c][n])
    OBVIOUS
  <1>6. /\ k \in {<<>>, <<"Shutdown">>} /\ (k = <<>> <=> peers[n] = c)
        /\ k \in Seq({"Accepted", "Shutdown"})
    <2>1. \/ k = <<>> /\ peers[n] = c
          \/ k = <<"Shutdown">> /\ peers[n] # c
      BY <1>3, <1>4, <1>5, Zenon
    <2>2. <<"Shutdown">> # <<>> /\ <<"Shutdown">> \in Seq({"Accepted", "Shutdown"})
          /\ <<>> \in Seq({"Accepted", "Shutdown"})
      OBVIOUS
    <2> QED BY <2>1, <2>2, Zenon
  <1>7. /\ control' \in [Conns -> [Nodes -> Seq({"Accepted", "Shutdown"})]] /\ control'[c][n] = k
        /\ \A d \in Conns, m \in Nodes : d # c \/ m # n => control'[d][m] = control[d][m]
    BY <1>5, <1>6, EndChanged DEF Core, Types
  <1>8. ControlOK(c, n)'
    BY <1>1, <1>2, <1>6, <1>7 DEF ControlOK, Running
  <1>9. \A x \in Inbox(n) : x.conn = c => CommandOK(n, x)'
    <2> SUFFICES ASSUME NEW x \in Inbox(n), x.conn = c PROVE CommandOK(n, x)'
      OBVIOUS
    <2>1. CommandOK(n, x) /\ x.type \in IpcCommand
      BY InboxTyped DEF Core, CommandInv
    <2> QED BY <2>1, NoneIsNone DEF CommandOK, IpcCommand
  <1>10. EndFrame(n, c)
    BY <1>1, <1>7 DEF EndFrame, Core, Types
  <1>11. EndKept(n, c)
    BY <1>1, <1>8, <1>9 DEF EndKept, Running
  <1> QED BY <1>10, <1>11, CommandsKept, SessionStep

\* IpcMessageReceived: KnownPeers.
LEMMA KnownPeersCore ==
    ASSUME Core, late \in BOOLEAN, NEW n \in Nodes, NEW c \in Conns,
           UNCHANGED <<manager, peers, pending, dialler, stage, control, late>>,
           Command(n, "LearnedPeers", None)
    PROVE  Core'
  <1>1. CommandOK(n, Msg("LearnedPeers", None))'
    BY DEF CommandOK, Msg
  <1>2. CommandsGrow(n)
    <2>1. "LearnedPeers" \in IpcCommand /\ None \in Conns \cup {None}
      BY DEF IpcCommand
    <2> QED BY <1>1, <2>1, CommandAdds DEF CommandsGrow, Core
  <1>3. EndFrame(n, c)
    BY DEF EndFrame, Core, Types
  <1>4. EndKept(n, c)
    <2>1. ControlOK(c, n)'
      BY DEF Core, ControlInv, ControlOK
    <2>2. \A x \in Inbox(n) : CommandOK(n, x)'
      BY DEF Core, CommandInv, CommandOK
    <2>3. peers[n] = c /\ ~late' => stage'[c][n] \in Running \/ Msg("PeerClosed", c) \in Inbox(n)'
      BY <1>2, NoneIsNone DEF Core, ServedInv, CommandsGrow
    <2> QED BY <2>1, <2>2, <2>3 DEF EndKept
  <1> QED BY <1>2, <1>3, <1>4, SessionStep

-----------------------------------------------------------------------------
(* The managers.                                                           *)

\* A step of n's manager that touches only n's list, channel and sessions.
ManagerFrame(n) ==
    /\ UNCHANGED <<dialler, stage, late>> /\ Types' /\ ReadyOnce'
    /\ \A m \in Nodes : m # n =>
          /\ manager'[m] = manager[m] /\ peers'[m] = peers[m] /\ pending'[m] = pending[m]
          /\ commands'[m] = commands[m] /\ Inbox(m)' = Inbox(m)
          /\ \A c \in Conns : control'[c][m] = control[c][m]

ManagerKept(n) ==
    /\ manager'[n] = "gone" => peers'[n] = None /\ ~pending'[n] /\ commands'[n] = <<>>
    /\ \A x \in Inbox(n)' : CommandOK(n, x)'
    /\ \A c \in Conns : ControlOK(c, n)'
    /\ ~late /\ peers'[n] # None =>
          stage[peers'[n]][n] \in Running \/ Msg("PeerClosed", peers'[n]) \in Inbox(n)'
    /\ pending'[n] =>
          \E c \in Conns : /\ dialler[c] = n
                           /\ \/ stage[c][n] = "Hello"
                              \/ Msg("SessionReady", c) \in Inbox(n)'
                              \/ Msg("HandshakeFailed", c) \in Inbox(n)'

\* Such a step of a manager leaves the other node as it was.
LEMMA ManagerStep ==
    ASSUME Core, NEW n \in Nodes, ManagerFrame(n), ManagerKept(n)
    PROVE  Core'
  <1> USE DEF Core, ManagerFrame, ManagerKept
  <1>2. GoneInv'
    BY DEF GoneInv
  <1>3. CommandInv'
    <2> SUFFICES ASSUME NEW m \in Nodes, m # n, NEW x \in Inbox(m)'
                 PROVE  CommandOK(m, x)'
      BY DEF CommandInv
    <2>1. CommandOK(m, x) /\ x.conn \in Conns \cup {None}
      BY InboxTyped DEF CommandInv
    <2> QED BY <2>1, NoneIsNone DEF CommandOK
  <1>4. ControlInv'
    <2> SUFFICES ASSUME NEW d \in Conns, NEW m \in Nodes, m # n
                 PROVE  ControlOK(d, m)'
      BY DEF ControlInv
    <2>1. ControlOK(d, m)
      BY DEF ControlInv
    <2> QED BY <2>1 DEF ControlOK
  <1>5. ServedInv'
    BY DEF ServedInv
  <1>6. PendingInv'
    <2> SUFFICES ASSUME NEW m \in Nodes, m # n, pending[m]
                 PROVE  \E d \in Conns : /\ dialler[d] = m
                                         /\ \/ stage[d][m] = "Hello"
                                            \/ Msg("SessionReady", d) \in Inbox(m)'
                                            \/ Msg("HandshakeFailed", d) \in Inbox(m)'
      BY DEF PendingInv
    <2> QED BY DEF PendingInv
  <1> QED BY <1>2, <1>3, <1>4, <1>5, <1>6

\* PeerClosed
LEMMA PeerClosedCore ==
    ASSUME Core, NEW n \in Nodes, manager[n] # "gone", commands[n] # <<>>,
           commands' = [commands EXCEPT ![n] = Tail(@)], NEW c, Head(commands[n]).conn = c,
           Head(commands[n]).type = "PeerClosed", HandlePeerClosed(n, c), UNCHANGED <<manager, late>>
    PROVE  Core'
  <1>1. PICK h : h = Head(commands[n])
    OBVIOUS
  <1>2. /\ commands' \in [Nodes -> Seq(CommandRecord)] /\ ReadyOnce'
        /\ \A m \in Nodes : m # n => Inbox(m)' = Inbox(m) /\ commands'[m] = commands[m]
        /\ h \in Inbox(n) /\ \A x \in Inbox(n)' : x \in Inbox(n)
        /\ \A x \in Inbox(n) : x = h \/ x \in Inbox(n)'
    BY <1>1, CommandTaken DEF Core
  <1>3. c \in Conns /\ stage[c][n] = "done"
    BY <1>1, <1>2 DEF Core, CommandInv, CommandOK
  <1>4. UNCHANGED <<dialler, stage, control>>
    BY DEF HandlePeerClosed, ends
  <1>5. PICK p : p = IF peers[n] = c THEN None ELSE peers[n]
    OBVIOUS
  <1>6. /\ peers' \in [Nodes -> Conns \cup {None}] /\ peers'[n] = p
        /\ \A m \in Nodes : m # n => peers'[m] = peers[m]
    BY <1>5 DEF HandlePeerClosed, Core, Types
  <1>7. /\ pending' \in [Nodes -> BOOLEAN] /\ (pending'[n] => pending[n])
        /\ \A m \in Nodes : m # n => pending'[m] = pending[m]
    BY DEF HandlePeerClosed, Core, Types
  <1>8. ManagerFrame(n)
    BY <1>2, <1>4, <1>6, <1>7 DEF ManagerFrame, Core, Types
  <1>9. \A x \in Inbox(n)' : CommandOK(n, x)'
    <2> SUFFICES ASSUME NEW x \in Inbox(n)' PROVE CommandOK(n, x)'
      OBVIOUS
    <2>1. CommandOK(n, x)
      BY <1>2 DEF Core, CommandInv
    <2> QED BY <1>4, <1>5, <1>6, <2>1, NoneIsNone DEF CommandOK
  <1>10. \A d \in Conns : ControlOK(d, n)'
    <2> SUFFICES ASSUME NEW d \in Conns PROVE ControlOK(d, n)'
      OBVIOUS
    <2>1. ControlOK(d, n)
      BY DEF Core, ControlInv
    <2> QED BY <1>3, <1>4, <1>5, <1>6, <2>1, NoneIsNone DEF ControlOK, Running
  <1>11. ~late /\ p # None => stage[p][n] \in Running \/ Msg("PeerClosed", p) \in Inbox(n)'
    <2>1. p # None => p = peers[n] /\ Msg("PeerClosed", p).conn # h.conn
      BY <1>1, <1>5 DEF Msg
    <2> QED BY <1>2, <2>1 DEF Core, ServedInv
  <1>12. \A d : h # Msg("SessionReady", d) /\ h # Msg("HandshakeFailed", d)
    BY <1>1 DEF Msg
  <1>13. pending'[n] => \E d \in Conns : /\ dialler[d] = n
                                         /\ \/ stage[d][n] = "Hello"
                                            \/ Msg("SessionReady", d) \in Inbox(n)'
                                            \/ Msg("HandshakeFailed", d) \in Inbox(n)'
    BY <1>2, <1>7, <1>12 DEF Core, PendingInv
  <1>14. ManagerKept(n)
    BY <1>6, <1>9, <1>10, <1>11, <1>13 DEF ManagerKept
  <1> QED BY <1>8, <1>14, ManagerStep

\* HandshakeFailed
LEMMA HandshakeFailedCore ==
    ASSUME Core, NEW n \in Nodes, manager[n] # "gone", commands[n] # <<>>,
           commands' = [commands EXCEPT ![n] = Tail(@)], NEW c, Head(commands[n]).conn = c,
           Head(commands[n]).type = "HandshakeFailed", HandleHandshakeFailed(n, c),
           UNCHANGED <<manager, late>>
    PROVE  Core'
  <1>1. PICK h : h = Head(commands[n])
    OBVIOUS
  <1>2. /\ commands' \in [Nodes -> Seq(CommandRecord)] /\ ReadyOnce'
        /\ \A m \in Nodes : m # n => Inbox(m)' = Inbox(m) /\ commands'[m] = commands[m]
        /\ h \in Inbox(n) /\ \A x \in Inbox(n)' : x \in Inbox(n)
        /\ \A x \in Inbox(n) : x = h \/ x \in Inbox(n)'
    BY <1>1, CommandTaken DEF Core
  <1>3. UNCHANGED <<dialler, stage, control, peers>>
    BY DEF HandleHandshakeFailed, ends
  <1>4. /\ pending' \in [Nodes -> BOOLEAN] /\ (pending'[n] => pending[n] /\ c = None)
        /\ \A m \in Nodes : m # n => pending'[m] = pending[m]
    BY DEF HandleHandshakeFailed, Core, Types
  <1>5. ManagerFrame(n)
    BY <1>2, <1>3, <1>4 DEF ManagerFrame, Core, Types
  <1>6. \A x \in Inbox(n)' : CommandOK(n, x)'
    <2> SUFFICES ASSUME NEW x \in Inbox(n)' PROVE CommandOK(n, x)'
      OBVIOUS
    <2>1. CommandOK(n, x)
      BY <1>2 DEF Core, CommandInv
    <2> QED BY <1>3, <2>1 DEF CommandOK
  <1>7. \A d \in Conns : ControlOK(d, n)'
    BY <1>3 DEF Core, ControlInv, ControlOK
  <1>8. \A d : h # Msg("SessionReady", d) /\ h # Msg("PeerClosed", d)
    BY <1>1 DEF Msg
  <1>9. ~late /\ peers[n] # None => stage[peers[n]][n] \in Running \/ Msg("PeerClosed", peers[n]) \in Inbox(n)'
    BY <1>2, <1>8 DEF Core, ServedInv
  <1>10. c = None => \A d \in Conns : h # Msg("HandshakeFailed", d)
    BY <1>1, NoneIsNone DEF Msg
  <1>11. pending'[n] => \E d \in Conns : /\ dialler[d] = n
                                         /\ \/ stage[d][n] = "Hello"
                                            \/ Msg("SessionReady", d) \in Inbox(n)'
                                            \/ Msg("HandshakeFailed", d) \in Inbox(n)'
    BY <1>2, <1>4, <1>8, <1>10 DEF Core, PendingInv
  <1>12. ManagerKept(n)
    BY <1>3, <1>6, <1>7, <1>9, <1>11 DEF ManagerKept
  <1> QED BY <1>5, <1>12, ManagerStep

Controls == [Conns -> [Nodes -> Seq({"Accepted", "Shutdown"})]]

\* k with m for the session at n's end of c; one that has ended hears nothing.
IsTold(t, k, c, n, m) ==
    /\ t \in Controls
    /\ \A d \in Conns, j \in Nodes : d # c \/ j # n => t[d][j] = k[d][j]
    /\ c # None /\ stage[c][n] = "done" => t[c][n] = k[c][n]
    /\ c # None /\ stage[c][n] # "done" => t[c][n] = Append(k[c][n], m)

\* Tells does what IsTold says.
LEMMA TellsIs ==
    ASSUME NEW k \in Controls, NEW c \in Conns \cup {None},
           NEW n \in Nodes, NEW m \in {"Accepted", "Shutdown"}, NEW t, t = Tells(k, c, n, m)
    PROVE  IsTold(t, k, c, n, m)
  <1> USE DEF IsTold, Controls
  <1>1. CASE c # None /\ stage[c][n] # "done"
    <2>1. k[c][n] \in Seq({"Accepted", "Shutdown"})
      BY <1>1
    <2>2. PICK s : s = Append(k[c][n], m)
      OBVIOUS
    <2>3. s \in Seq({"Accepted", "Shutdown"})
      BY <2>1, <2>2
    <2>4. PICK g : g = [k EXCEPT ![c][n] = s]
      OBVIOUS
    <2>5. t = g
      BY <1>1, <2>2, <2>4 DEF Tells
    <2>6. /\ g \in [Conns -> [Nodes -> Seq({"Accepted", "Shutdown"})]] /\ g[c][n] = s
          /\ \A d \in Conns, j \in Nodes : d # c \/ j # n => g[d][j] = k[d][j]
      BY <1>1, <2>3, <2>4, EndChanged
    <2> QED BY <1>1, <2>2, <2>5, <2>6
  <1>2. CASE c = None \/ stage[c][n] = "done"
    <2>1. t = k
      BY <1>2 DEF Tells
    <2> QED BY <1>2, <2>1, NoneIsNone
  <1> QED BY <1>1, <1>2

\* The answers a session can have been given, and what a further one makes of them.
LEMMA Appended ==
    /\ Append(<<>>, "Accepted") = <<"Accepted">> /\ Append(<<>>, "Shutdown") = <<"Shutdown">>
    /\ Append(<<"Accepted">>, "Shutdown") = <<"Accepted", "Shutdown">>
    /\ <<"Accepted">> # <<>> /\ <<"Shutdown">> # <<>> /\ <<"Accepted", "Shutdown">> # <<>>
    /\ <<"Accepted", "Shutdown">> # <<"Accepted">>
  <1>1. Append(<<>>, "Accepted") = <<"Accepted">>
    OBVIOUS
  <1>2. Append(<<>>, "Shutdown") = <<"Shutdown">>
    OBVIOUS
  <1>3. Append(<<"Accepted">>, "Shutdown") = <<"Accepted", "Shutdown">>
    <2>1. PICK s, u : s = Append(<<"Accepted">>, "Shutdown") /\ u = <<"Accepted", "Shutdown">>
      OBVIOUS
    <2>2. /\ s \in Seq({"Accepted", "Shutdown"}) /\ Len(s) = 2
          /\ s[1] = "Accepted" /\ s[2] = "Shutdown"
      BY <2>1
    <2>3. /\ u \in Seq({"Accepted", "Shutdown"}) /\ Len(u) = 2
          /\ u[1] = "Accepted" /\ u[2] = "Shutdown"
      BY <2>1
    <2>4. Len(s) = Len(u) /\ \A i \in 1 .. Len(s) : s[i] = u[i]
      BY <2>2, <2>3
    <2>5. s = u
      BY <2>2, <2>3, <2>4, SeqEqual, Zenon
    <2> QED BY <2>1, <2>5
  <1>4. /\ <<"Accepted">> # <<>> /\ <<"Shutdown">> # <<>> /\ <<"Accepted", "Shutdown">> # <<>>
        /\ <<"Accepted", "Shutdown">> # <<"Accepted">>
    <2>1. Len(<<>>) = 0 /\ Len(<<"Accepted">>) = 1 /\ Len(<<"Shutdown">>) = 1
          /\ Len(<<"Accepted", "Shutdown">>) = 2
      OBVIOUS
    <2> QED BY <2>1
  <1> QED BY <1>1, <1>2, <1>3, <1>4

\* k is control after the session in n's list was told to stop.
OldStopped(k, n) ==
    /\ k \in Controls
    /\ \A d \in Conns, j \in Nodes : d # peers[n] \/ j # n => k[d][j] = control[d][j]
    /\ \A d \in Conns :
          /\ stage[d][n] \notin Running => k[d][n] = <<>>
          /\ stage[d][n] = "Ready" => k[d][n] \in {<<>>, <<"Accepted", "Shutdown">>}
          /\ stage[d][n] = "Open" => k[d][n] = <<"Shutdown">>

\* Told to stop, the session in the list is left with an answer that ends it.
LEMMA OldIsTold ==
    ASSUME Core, NEW n \in Nodes, NEW k, k = Tells(control, peers[n], n, "Shutdown")
    PROVE  OldStopped(k, n)
  <1>1. /\ peers[n] \in Conns \cup {None} /\ control \in Controls
        /\ "Shutdown" \in {"Accepted", "Shutdown"}
    BY DEF Core, Types, Controls
  <1>2. IsTold(k, control, peers[n], n, "Shutdown")
    BY <1>1, TellsIs, Zenon
  <1>3. ASSUME NEW d \in Conns
        PROVE  /\ stage[d][n] \notin Running => k[d][n] = <<>>
               /\ stage[d][n] = "Ready" => k[d][n] \in {<<>>, <<"Accepted", "Shutdown">>}
               /\ stage[d][n] = "Open" => k[d][n] = <<"Shutdown">>
    <2>1. ControlOK(d, n)
      BY DEF Core, ControlInv
    <2>2. CASE d # peers[n]
      <3>1. k[d][n] = control[d][n]
        BY <1>2, <2>2 DEF IsTold
      <3> QED BY <2>1, <2>2, <3>1 DEF ControlOK
    <2>3. CASE d = peers[n]
      <3>1. /\ stage[d][n] = "done" => k[d][n] = control[d][n]
            /\ stage[d][n] # "done" => k[d][n] = Append(control[d][n], "Shutdown")
        BY <1>2, <2>3, NoneIsNone DEF IsTold
      <3>2. stage[d][n] = "Ready" => control[d][n] = <<"Accepted">>
        BY <2>1, <2>3 DEF ControlOK
      <3>3. stage[d][n] = "Open" => control[d][n] = <<>>
        BY <2>1, <2>3 DEF ControlOK
      <3>4. stage[d][n] \in {"Ready", "Open", "done"}
        BY <2>1, <2>3 DEF ControlOK, Running
      <3>5. stage[d][n] = "done" => control[d][n] = <<>>
        BY <2>1 DEF ControlOK, Running
      <3> QED BY <3>1, <3>2, <3>3, <3>4, <3>5, Appended DEF Running
    <2> QED BY <2>2, <2>3
  <1> QED BY <1>2, <1>3 DEF IsTold, OldStopped

\* SessionReady
LEMMA SessionReadyCore ==
    ASSUME Core, NEW n \in Nodes, manager[n] # "gone", commands[n] # <<>>,
           commands' = [commands EXCEPT ![n] = Tail(@)], NEW c, Head(commands[n]).conn = c,
           Head(commands[n]).type = "SessionReady", HandleSessionReady(n, c), UNCHANGED <<manager, late>>
    PROVE  Core'
  <1>1. PICK h : h = Head(commands[n])
    OBVIOUS
  <1>2. /\ commands' \in [Nodes -> Seq(CommandRecord)] /\ ReadyOnce'
        /\ \A m \in Nodes : m # n => Inbox(m)' = Inbox(m) /\ commands'[m] = commands[m]
        /\ h \in Inbox(n) /\ \A x \in Inbox(n)' : x \in Inbox(n)
        /\ h \notin Inbox(n)'
    BY <1>1, CommandTaken DEF Core
  <1>3. /\ c \in Conns /\ peers[n] # c /\ control[c][n] = <<>>
        /\ stage[c][n] = "Ready" \/ (stage[c][n] = "done" /\ late)
    BY <1>1, <1>2 DEF Core, CommandInv, CommandOK
  <1>4. UNCHANGED <<dialler, stage>>
    BY DEF HandleSessionReady
  <1>5. /\ peers' \in [Nodes -> Conns \cup {None}] /\ peers'[n] = c
        /\ \A m \in Nodes : m # n => peers'[m] = peers[m]
    BY <1>3 DEF HandleSessionReady, Core, Types
  <1>6. /\ pending' \in [Nodes -> BOOLEAN] /\ ~pending'[n]
        /\ \A m \in Nodes : m # n => pending'[m] = pending[m]
    BY DEF HandleSessionReady, Core, Types
  <1>7. PICK k : k = Tells(control, peers[n], n, "Shutdown")
    OBVIOUS
  <1>8. /\ k \in [Conns -> [Nodes -> Seq({"Accepted", "Shutdown"})]]
        /\ \A d \in Conns, j \in Nodes : d # peers[n] \/ j # n => k[d][j] = control[d][j]
        /\ \A d \in Conns :
                /\ stage[d][n] \notin Running => k[d][n] = <<>>
                /\ stage[d][n] = "Ready" => k[d][n] \in {<<>>, <<"Accepted", "Shutdown">>}
                /\ stage[d][n] = "Open" => k[d][n] = <<"Shutdown">>
    <2>1. OldStopped(k, n)
      BY <1>7, OldIsTold, Zenon
    <2> QED BY <2>1 DEF OldStopped, Controls
  <1>9. control' = Tells(k, c, n, "Accepted")
    BY <1>7 DEF HandleSessionReady
  <1>10. /\ control' \in [Conns -> [Nodes -> Seq({"Accepted", "Shutdown"})]]
         /\ \A d \in Conns, j \in Nodes : d # c \/ j # n => control'[d][j] = k[d][j]
         /\ stage[c][n] = "done" => control'[c][n] = k[c][n]
         /\ stage[c][n] # "done" => control'[c][n] = Append(k[c][n], "Accepted")
    <2>1. "Accepted" \in {"Accepted", "Shutdown"} /\ c \in Conns \cup {None} /\ c # None
      BY <1>3, NoneIsNone
    <2>2. k \in Controls
      BY <1>8 DEF Controls
    <2>3. IsTold(control', k, c, n, "Accepted")
      BY <1>9, <2>1, <2>2, TellsIs, Zenon
    <2> QED BY <2>1, <2>3 DEF IsTold, Controls
  <1>11. control'[c][n] = IF stage[c][n] = "done" THEN <<>> ELSE <<"Accepted">>
    <2>1. k[c][n] = <<>>
      BY <1>3, <1>8
    <2> QED BY <1>10, <2>1, Appended
  <1>12. ManagerFrame(n)
    <2>1. Types'
      BY <1>2, <1>4, <1>5, <1>6, <1>10 DEF Core, Types
    <2>2. \A m \in Nodes : m # n => \A d \in Conns : control'[d][m] = control[d][m]
      BY <1>8, <1>10
    <2> QED BY <1>2, <1>4, <1>5, <1>6, <2>1, <2>2 DEF ManagerFrame
  <1>13. \A x \in Inbox(n)' : CommandOK(n, x)'
    <2> SUFFICES ASSUME NEW x \in Inbox(n)' PROVE CommandOK(n, x)'
      OBVIOUS
    <2>1. CommandOK(n, x) /\ x \in CommandRecord /\ h \in CommandRecord
      BY <1>2, InboxTyped DEF Core, CommandInv
    <2>2. x # h
      BY <1>2
    <2>3. x.type = "SessionReady" => x.conn # c
      BY <1>1, <2>1, <2>2 DEF CommandRecord
    <2>4. x.type = "SessionReady" => control'[x.conn][n] = <<>>
      <3> SUFFICES ASSUME x.type = "SessionReady" PROVE control'[x.conn][n] = <<>>
        OBVIOUS
      <3>1. x.conn \in Conns /\ peers[n] # x.conn /\ control[x.conn][n] = <<>> /\ x.conn # c
        BY <2>1, <2>3 DEF CommandOK
      <3>2. k[x.conn][n] = <<>>
        BY <1>8, <3>1
      <3> QED BY <1>10, <3>1, <3>2
    <2> QED BY <1>4, <1>5, <2>1, <2>3, <2>4 DEF CommandOK
  <1>14. \A d \in Conns : ControlOK(d, n)'
    <2> SUFFICES ASSUME NEW d \in Conns PROVE ControlOK(d, n)'
      OBVIOUS
    <2>1. ControlOK(d, n)
      BY DEF Core, ControlInv
    <2>2. CASE d = c
      BY <1>3, <1>4, <1>5, <1>11, <2>1, <2>2, Appended DEF ControlOK, Running
    <2>3. CASE d # c
      <3>1. control'[d][n] = k[d][n]
        BY <1>10, <2>3
      <3> QED BY <1>4, <1>5, <1>8, <2>1, <2>3, <3>1, Appended DEF ControlOK
    <2> QED BY <2>2, <2>3
  <1>15. ManagerKept(n)
    BY <1>3, <1>5, <1>6, <1>13, <1>14 DEF ManagerKept, Running
  <1> QED BY <1>12, <1>15, ManagerStep

\* Shutdown
LEMMA ShutdownCore ==
    ASSUME Core, NEW n \in Nodes, Shutdown(n)
    PROVE  Core'
  <1>1. PICK k : k = Tells(control, peers[n], n, "Shutdown")
    OBVIOUS
  <1>2. UNCHANGED <<dialler, stage, late>> /\ control' = k
    BY <1>1 DEF Shutdown, Quietly
  <1>3. /\ manager' \in [Nodes -> {"on", "soft", "gone"}] /\ manager'[n] = "gone"
        /\ \A m \in Nodes : m # n => manager'[m] = manager[m]
    BY DEF Shutdown, Core, Types
  <1>4. /\ peers' \in [Nodes -> Conns \cup {None}] /\ peers'[n] = None
        /\ \A m \in Nodes : m # n => peers'[m] = peers[m]
    BY DEF Shutdown, Core, Types
  <1>5. /\ pending' \in [Nodes -> BOOLEAN] /\ ~pending'[n]
        /\ \A m \in Nodes : m # n => pending'[m] = pending[m]
    BY DEF Shutdown, Core, Types
  <1>6. /\ commands' \in [Nodes -> Seq(CommandRecord)] /\ commands'[n] = <<>>
        /\ \A m \in Nodes : m # n => commands'[m] = commands[m]
    BY DEF Shutdown, Core, Types
  <1>7. Inbox(n)' = {} /\ \A m \in Nodes : m # n => Inbox(m)' = Inbox(m)
    BY <1>6 DEF Inbox
  <1>8. ReadyOnce'
    BY <1>6 DEF Core, ReadyOnce
  <1>9. /\ k \in [Conns -> [Nodes -> Seq({"Accepted", "Shutdown"})]]
        /\ \A d \in Conns, j \in Nodes : d # peers[n] \/ j # n => k[d][j] = control[d][j]
        /\ \A d \in Conns :
                /\ stage[d][n] \notin Running => k[d][n] = <<>>
                /\ stage[d][n] = "Ready" => k[d][n] \in {<<>>, <<"Accepted", "Shutdown">>}
                /\ stage[d][n] = "Open" => k[d][n] = <<"Shutdown">>
    <2>1. OldStopped(k, n)
      BY <1>1, OldIsTold, Zenon
    <2> QED BY <2>1 DEF OldStopped, Controls
  <1>10. ManagerFrame(n)
    <2>1. Types'
      BY <1>2, <1>3, <1>4, <1>5, <1>6, <1>9 DEF Core, Types
    <2>2. \A m \in Nodes : m # n => \A d \in Conns : control'[d][m] = control[d][m]
      BY <1>2, <1>9
    <2> QED BY <1>2, <1>3, <1>4, <1>5, <1>6, <1>7, <1>8, <2>1, <2>2 DEF ManagerFrame
  <1>11. \A d \in Conns : ControlOK(d, n)'
    <2> SUFFICES ASSUME NEW d \in Conns PROVE ControlOK(d, n)'
      OBVIOUS
    <2>1. ControlOK(d, n)
      BY DEF Core, ControlInv
    <2> QED BY <1>2, <1>4, <1>9, <2>1, Appended, NoneIsNone DEF ControlOK
  <1>12. ManagerKept(n)
    BY <1>4, <1>5, <1>6, <1>7, <1>11 DEF ManagerKept
  <1> QED BY <1>10, <1>12, ManagerStep

\* The channels without a LearnedPeers, or as they were.
CommandsShrink ==
    /\ commands' \in [Nodes -> Seq(CommandRecord)] /\ ReadyOnce'
    /\ \A m \in Nodes : manager[m] = "gone" => commands'[m] = <<>>
    /\ \A m \in Nodes : Inbox(m)' \subseteq Inbox(m)
    /\ \A m \in Nodes : \A x \in Inbox(m) : x.type # "LearnedPeers" => x \in Inbox(m)'

\* What an unused connection is: nothing refers to it.
LEMMA UnusedIs ==
    ASSUME Core, NEW c \in Conns, Unused(c), NEW n \in Nodes
    PROVE  /\ stage[c][n] \in {"unused", "done"} /\ peers[n] # c
           /\ \A x \in Inbox(n) : x.conn # c
           /\ control[c][n] = <<>>
  <1>1. stage[c][n] \in {"unused", "done"} /\ peers[n] # c
    BY DEF Unused
  <1>2. \A x \in Inbox(n) : x.conn # c
    BY DEF Unused, Inbox
  <1>3. ControlOK(c, n)
    BY DEF Core, ControlInv
  <1> QED BY <1>1, <1>2, <1>3 DEF ControlOK, Running

\* A connection that nothing refers to begins.
LEMMA BegunCore ==
    ASSUME Core, CommandsShrink, NEW n \in Nodes, NEW c \in Conns, Unused(c),
           manager[n] # "gone", UNCHANGED <<manager, peers, late>>,
           pending' = [pending EXCEPT ![n] = TRUE],
           dialler' = [dialler EXCEPT ![c] = n],
           stage' = [stage EXCEPT ![c] = [m \in Nodes |-> IF m = n THEN "Hello" ELSE "backlog"]],
           control' = [control EXCEPT ![c] = [m \in Nodes |-> <<>>]]
    PROVE  Core'
  <1>1. /\ pending' \in [Nodes -> BOOLEAN] /\ pending'[n]
        /\ \A m \in Nodes : m # n => pending'[m] = pending[m]
    BY DEF Core, Types
  <1>2. /\ dialler' \in [Conns -> Nodes \cup {None}] /\ dialler'[c] = n
        /\ \A d \in Conns : d # c => dialler'[d] = dialler[d]
    BY DEF Core, Types
  <1>3. /\ stage' \in [Conns -> [Nodes -> Stage]] /\ stage'[c][n] = "Hello"
        /\ \A m \in Nodes : m # n => stage'[c][m] = "backlog"
        /\ \A d \in Conns : d # c => stage'[d] = stage[d]
    BY DEF Core, Types, Stage
  <1>4. /\ control' \in [Conns -> [Nodes -> Seq({"Accepted", "Shutdown"})]]
        /\ \A m \in Nodes : control'[c][m] = <<>>
        /\ \A d \in Conns : d # c => control'[d] = control[d]
    BY DEF Core, Types
  <1>5. Types'
    BY <1>1, <1>2, <1>3, <1>4 DEF Core, Types, CommandsShrink
  <1>6. GoneInv'
    BY <1>1 DEF Core, GoneInv, CommandsShrink
  <1>7. CommandInv'
    <2> SUFFICES ASSUME NEW m \in Nodes, NEW x \in Inbox(m)'
                 PROVE  CommandOK(m, x)'
      BY DEF CommandInv
    <2>1. x \in Inbox(m)
      BY DEF CommandsShrink
    <2>2. CommandOK(m, x) /\ x.conn \in Conns \cup {None}
      BY <2>1, InboxTyped DEF Core, CommandInv
    <2>3. x.conn # c
      <3>1. \A y \in Inbox(m) : y.conn # c
        BY UnusedIs, Zenon
      <3> QED BY <2>1, <3>1
    <2> QED BY <1>3, <1>4, <2>2, <2>3 DEF CommandOK
  <1>8. ControlInv'
    <2> SUFFICES ASSUME NEW d \in Conns, NEW m \in Nodes
                 PROVE  ControlOK(d, m)'
      BY DEF ControlInv
    <2>1. CASE d = c
      <3>1. peers[m] # c
        BY UnusedIs, Zenon
      <3>2. stage'[c][m] \in {"Hello", "backlog"}
        BY <1>3
      <3> QED BY <1>4, <2>1, <3>1, <3>2 DEF ControlOK, Running
    <2>2. CASE d # c
      <3>1. ControlOK(d, m)
        BY DEF Core, ControlInv
      <3> QED BY <1>3, <1>4, <2>2, <3>1 DEF ControlOK
    <2> QED BY <2>1, <2>2
  <1>9. ServedInv'
    <2> SUFFICES ASSUME ~late, NEW m \in Nodes, peers[m] # None
                 PROVE  stage'[peers[m]][m] \in Running \/ Msg("PeerClosed", peers[m]) \in Inbox(m)'
      BY DEF ServedInv
    <2>1. peers[m] \in Conns /\ peers[m] # c
      <3>1. peers[m] # c
        BY UnusedIs, Zenon
      <3> QED BY <3>1 DEF Core, Types
    <2>2. stage[peers[m]][m] \in Running \/ Msg("PeerClosed", peers[m]) \in Inbox(m)
      BY DEF Core, ServedInv
    <2>3. Msg("PeerClosed", peers[m]).type # "LearnedPeers"
      BY DEF Msg
    <2> QED BY <1>3, <2>1, <2>2, <2>3 DEF CommandsShrink
  <1>10. PendingInv'
    <2> SUFFICES ASSUME NEW m \in Nodes, pending'[m]
                 PROVE  \E d \in Conns : /\ dialler'[d] = m
                                         /\ \/ stage'[d][m] = "Hello"
                                            \/ Msg("SessionReady", d) \in Inbox(m)'
                                            \/ Msg("HandshakeFailed", d) \in Inbox(m)'
      BY DEF PendingInv
    <2>1. CASE m = n
      BY <1>2, <1>3, <2>1
    <2>2. CASE m # n
      <3>1. PICK d \in Conns : /\ dialler[d] = m
                               /\ \/ stage[d][m] = "Hello"
                                  \/ Msg("SessionReady", d) \in Inbox(m)
                                  \/ Msg("HandshakeFailed", d) \in Inbox(m)
        BY <1>1, <2>2 DEF Core, PendingInv
      <3>2. /\ Msg("SessionReady", d).conn = d /\ Msg("SessionReady", d).type # "LearnedPeers"
            /\ Msg("HandshakeFailed", d).conn = d /\ Msg("HandshakeFailed", d).type # "LearnedPeers"
        BY DEF Msg
      <3>3. /\ stage[c][m] \in {"unused", "done"}
            /\ \A x \in Inbox(m) : x.conn # c
        BY UnusedIs, Zenon
      <3>4. d # c
        BY <3>1, <3>2, <3>3
      <3> QED BY <1>2, <1>3, <3>1, <3>2, <3>4 DEF CommandsShrink
    <2> QED BY <2>1, <2>2
  <1> QED BY <1>5, <1>6, <1>7, <1>8, <1>9, <1>10 DEF Core, CommandsShrink

\* Nothing but a LearnedPeers goes.
LEMMA ShrinkCore ==
    ASSUME Core, CommandsShrink,
           UNCHANGED <<manager, peers, pending, dialler, stage, control, late>>
    PROVE  Core'
  <1>1. Types' /\ GoneInv' /\ ReadyOnce'
    BY DEF Core, Types, GoneInv, CommandsShrink
  <1>2. CommandInv'
    <2> SUFFICES ASSUME NEW m \in Nodes, NEW x \in Inbox(m)'
                 PROVE  CommandOK(m, x)'
      BY DEF CommandInv
    <2>1. CommandOK(m, x)
      BY DEF CommandsShrink, Core, CommandInv
    <2> QED BY <2>1 DEF CommandOK
  <1>3. ControlInv'
    BY DEF Core, ControlInv, ControlOK
  <1>4. \A d : /\ Msg("PeerClosed", d).type # "LearnedPeers"
               /\ Msg("SessionReady", d).type # "LearnedPeers"
               /\ Msg("HandshakeFailed", d).type # "LearnedPeers"
    BY DEF Msg
  <1>5. ServedInv'
    BY <1>4 DEF Core, ServedInv, CommandsShrink
  <1>6. PendingInv'
    BY <1>4 DEF Core, PendingInv, CommandsShrink
  <1> QED BY <1>1, <1>2, <1>3, <1>5, <1>6 DEF Core

\* DialPeers
LEMMA DialPeersCore ==
    ASSUME Core, CommandsShrink, NEW n \in Nodes, NEW fromDirectory,
           DialPeers(n, fromDirectory), UNCHANGED <<manager, peers, late>>
    PROVE  Core'
  <1>1. CASE UNCHANGED <<pending, ends>>
    BY <1>1, ShrinkCore DEF ends
  <1>2. CASE ~UNCHANGED <<pending, ends>>
    <2>1. manager[n] # "gone" /\ Connect(n)
      BY <1>2 DEF DialPeers
    <2>2. PICK C : C = {c \in Conns : Unused(c)}
      OBVIOUS
    <2>3. PICK c : c = CHOOSE x \in C : TRUE
      OBVIOUS
    <2>4. /\ C # {}
          /\ pending' = [pending EXCEPT ![n] = TRUE]
          /\ dialler' = [dialler EXCEPT ![c] = n]
          /\ stage' = [stage EXCEPT ![c] = [m \in Nodes |-> IF m = n THEN "Hello" ELSE "backlog"]]
          /\ control' = [control EXCEPT ![c] = [m \in Nodes |-> <<>>]]
      BY <1>2, <2>1, <2>2, <2>3 DEF Connect, Spawned
    <2>5. c \in Conns /\ Unused(c)
      BY <2>2, <2>3, <2>4
    <2> QED BY <2>1, <2>4, <2>5, BegunCore
  <1> QED BY <1>1, <1>2

\* SoftShutdown
LEMMA SoftShutdownCore ==
    ASSUME Core, NEW n \in Nodes, SoftShutdown(n)
    PROVE  Core'
  <1>1. /\ UNCHANGED <<peers, pending, commands, dialler, control, late>>
        /\ manager[n] = "on" /\ manager' = [manager EXCEPT ![n] = "soft"]
        /\ NoBacklog(n)
    BY DEF SoftShutdown, Fault
  <1>2. /\ stage' \in [Conns -> [Nodes -> Stage]]
        /\ \A d \in Conns, m \in Nodes :
              stage'[d][m] = stage[d][m] \/ (stage[d][m] = "backlog" /\ stage'[d][m] = "done")
    <2>1. stage' = [c \in Conns |-> IF stage[c][n] = "backlog" THEN [stage[c] EXCEPT ![n] = "done"]
                                                              ELSE stage[c]]
      BY <1>1 DEF NoBacklog
    <2> QED BY <2>1 DEF Core, Types, Stage
  <1>3. /\ manager' \in [Nodes -> {"on", "soft", "gone"}]
        /\ \A m \in Nodes : manager'[m] = "gone" => manager[m] = "gone"
    BY <1>1 DEF Core, Types
  <1>4. Types' /\ GoneInv' /\ ReadyOnce'
    BY <1>1, <1>2, <1>3 DEF Core, Types, GoneInv, ReadyOnce
  <1>5. \A m \in Nodes : Inbox(m)' = Inbox(m)
    BY <1>1, InboxSame
  <1>6. CommandInv'
    <2> SUFFICES ASSUME NEW m \in Nodes, NEW x \in Inbox(m)
                 PROVE  CommandOK(m, x)'
      BY <1>5 DEF CommandInv
    <2>1. CommandOK(m, x) /\ x.conn \in Conns \cup {None}
      BY InboxTyped DEF Core, CommandInv
    <2> QED BY <1>1, <1>2, <2>1 DEF CommandOK
  <1>7. ControlInv'
    <2> SUFFICES ASSUME NEW d \in Conns, NEW m \in Nodes
                 PROVE  ControlOK(d, m)'
      BY DEF ControlInv
    <2>1. ControlOK(d, m) /\ (stage'[d][m] = stage[d][m] \/ (stage[d][m] = "backlog" /\ stage'[d][m] = "done"))
      BY <1>2 DEF Core, ControlInv
    <2> QED BY <1>1, <2>1 DEF ControlOK, Running
  <1>8. ServedInv'
    <2> SUFFICES ASSUME ~late, NEW m \in Nodes, peers[m] # None
                 PROVE  stage'[peers[m]][m] \in Running \/ Msg("PeerClosed", peers[m]) \in Inbox(m)
      BY <1>1, <1>5 DEF ServedInv
    <2>1. peers[m] \in Conns
      BY DEF Core, Types
    <2> QED BY <1>2, <2>1 DEF Core, ServedInv, Running
  <1>9. PendingInv'
    <2> SUFFICES ASSUME NEW m \in Nodes, pending[m]
                 PROVE  \E d \in Conns : /\ dialler[d] = m
                                         /\ \/ stage'[d][m] = "Hello"
                                            \/ Msg("SessionReady", d) \in Inbox(m)
                                            \/ Msg("HandshakeFailed", d) \in Inbox(m)
      BY <1>1, <1>5 DEF PendingInv
    <2> QED BY <1>2 DEF Core, PendingInv
  <1> QED BY <1>4, <1>6, <1>7, <1>8, <1>9 DEF Core

-----------------------------------------------------------------------------
(* The streams.                                                            *)

Wires == [Conns -> [Nodes -> Seq(IpcMessage)]]

\* A stream that is still read says so when the other end has closed.
Closed(s) == \E k \in DOMAIN s : s[k] = "EOF"

\* What is written does not hide the end of a stream.
LEMMA ClosedAppend ==
    ASSUME NEW s \in Seq(IpcMessage), NEW m \in IpcMessage
    PROVE  /\ Append(s, m) \in Seq(IpcMessage)
           /\ Closed(s) => Closed(Append(s, m))
           /\ m = "EOF" => Closed(Append(s, m))
  <1>1. /\ Append(s, m) \in Seq(IpcMessage)
        /\ \A k \in DOMAIN s : k \in DOMAIN Append(s, m) /\ Append(s, m)[k] = s[k]
        /\ Len(s) + 1 \in DOMAIN Append(s, m) /\ Append(s, m)[Len(s) + 1] = m
    BY AppendIs
  <1> QED BY <1>1 DEF Closed

\* Reading anything else does not lose the end of a stream.
LEMMA ClosedTail ==
    ASSUME NEW s \in Seq(IpcMessage), s # <<>>
    PROVE  /\ Tail(s) \in Seq(IpcMessage)
           /\ Closed(s) /\ Head(s) # "EOF" => Closed(Tail(s))
  <1>1. /\ Tail(s) \in Seq(IpcMessage) /\ s[1] = Head(s)
        /\ \A k \in DOMAIN s : k # 1 => k - 1 \in DOMAIN Tail(s) /\ Tail(s)[k - 1] = s[k]
    BY TailIs
  <1>2. ASSUME NEW k \in DOMAIN s, s[k] = "EOF", Head(s) # "EOF" PROVE Closed(Tail(s))
    <2>1. k # 1
      BY <1>1, <1>2
    <2>2. k - 1 \in DOMAIN Tail(s) /\ Tail(s)[k - 1] = "EOF"
      BY <1>1, <1>2, <2>1
    <2> QED BY <2>2, Zenon DEF Closed
  <1> QED BY <1>1, <1>2 DEF Closed

\* One end of c changes, and what is written to either end.
StreamFrame(n, c) ==
    /\ wire' \in Wires
    /\ \A d \in Conns, m \in Nodes : d # c \/ m # n => stage'[d][m] = stage[d][m]
    /\ \A d \in Conns : d # c => wire'[d] = wire[d]
    /\ stage[c][n] # "unused" /\ stage'[c][n] # "unused"
    /\ stage[c][n] = "done" => stage'[c][n] = "done"
    \* Unless it ends, it reads on to the end of the stream.
    /\ stage'[c][n] # "done" /\ Closed(wire[c][n]) => Closed(wire'[c][n])
    \* What is written to the other end is added; the end of the stream when this one ends.
    /\ Closed(wire[c][Other(n)]) => Closed(wire'[c][Other(n)])
    /\ stage[c][n] # "done" /\ stage'[c][n] = "done" /\ stage[c][Other(n)] # "done"
         => Closed(wire'[c][Other(n)])

\* Such a step keeps the streams right.
LEMMA StreamStep ==
    ASSUME Core, Streams, NEW n \in Nodes, NEW c \in Conns, StreamFrame(n, c)
    PROVE  Streams'
  <1>1. WiresTyped'
    BY DEF StreamFrame, WiresTyped, Wires
  <1>2. EofInv'
    <2> SUFFICES ASSUME NEW d \in Conns, NEW m \in Nodes
                 PROVE  /\ stage'[d][m] = "unused" <=> stage'[d][Other(m)] = "unused"
                        /\ stage'[d][m] \in {"backlog", "Hello"} \cup Running
                             /\ stage'[d][Other(m)] = "done" => Closed(wire'[d][m])
      BY DEF EofInv, Closed
    <2>1. /\ stage[d][m] = "unused" <=> stage[d][Other(m)] = "unused"
          /\ stage[d][m] \in {"backlog", "Hello"} \cup Running /\ stage[d][Other(m)] = "done"
               => Closed(wire[d][m])
      BY DEF Streams, EofInv, Closed
    <2>2. /\ Other(m) \in Nodes /\ Other(m) # m /\ Other(Other(m)) = m
          /\ m # n => m = Other(n) /\ Other(m) = n
      BY OtherIs
    <2>3. CASE d # c
      BY <2>1, <2>2, <2>3 DEF StreamFrame
    <2>4. CASE d = c /\ m = n
      <3>1. stage'[c][Other(n)] = stage[c][Other(n)]
        BY <2>2, <2>4 DEF StreamFrame
      <3>2. stage[c][n] \in Stage /\ stage[c][n] # "unused" /\ stage'[c][n] # "unused"
        BY DEF Core, Types, StreamFrame
      <3>3. stage'[c][n] # "done" /\ stage[c][Other(n)] = "done" => Closed(wire'[c][n])
        <4> SUFFICES ASSUME stage'[c][n] # "done", stage[c][Other(n)] = "done"
                     PROVE  Closed(wire'[c][n])
          OBVIOUS
        <4>1. stage[c][n] # "done"
          BY DEF StreamFrame
        <4>2. stage[c][n] \in {"backlog", "Hello"} \cup Running
          BY <3>2, <4>1 DEF Stage, Running
        <4>3. Closed(wire[c][n])
          BY <2>1, <2>4, <4>2
        <4> QED BY <4>3 DEF StreamFrame
      <3> QED BY <2>1, <2>4, <3>1, <3>2, <3>3 DEF Running
    <2>5. CASE d = c /\ m # n
      <3>1. m = Other(n) /\ Other(m) = n /\ stage'[c][m] = stage[c][m]
        BY <2>2, <2>5 DEF StreamFrame
      <3>2. stage[c][n] # "unused" /\ stage'[c][n] # "unused"
        BY DEF StreamFrame
      <3>3. stage[c][m] \in {"backlog", "Hello"} \cup Running /\ stage'[c][n] = "done" => Closed(wire'[c][m])
        <4> SUFFICES ASSUME stage[c][m] \in {"backlog", "Hello"} \cup Running, stage'[c][n] = "done"
                     PROVE  Closed(wire'[c][m])
          OBVIOUS
        <4>1. CASE stage[c][n] = "done"
          <5>1. Closed(wire[c][m])
            BY <2>1, <2>5, <3>1, <4>1
          <5> QED BY <3>1, <5>1 DEF StreamFrame
        <4>2. CASE stage[c][n] # "done"
          BY <3>1, <4>2 DEF StreamFrame, Running
        <4> QED BY <4>1, <4>2
      <3> QED BY <2>1, <2>5, <3>1, <3>2, <3>3
    <2> QED BY <2>3, <2>4, <2>5
  <1> QED BY <1>1, <1>2 DEF Streams

\* u is w with m written to the far end of n, unless that has closed.
IsWritten(u, w, c, n, m) ==
    /\ u \in Wires
    /\ \A d \in Conns : d # c => u[d] = w[d]
    /\ u[c][n] = w[c][n]
    /\ stage[c][Other(n)] = "done" => u[c][Other(n)] = w[c][Other(n)]
    /\ stage[c][Other(n)] # "done" => u[c][Other(n)] = Append(w[c][Other(n)], m)

\* Written does what IsWritten says.
LEMMA WrittenIs ==
    ASSUME NEW w \in Wires, NEW c \in Conns, NEW n \in Nodes, NEW m \in IpcMessage,
           NEW u, u = Written(w, c, n, m)
    PROVE  IsWritten(u, w, c, n, m)
  <1>1. CASE stage[c][Other(n)] = "done"
    <2>1. u = w
      BY <1>1 DEF Written
    <2> QED BY <1>1, <2>1 DEF IsWritten
  <1>2. CASE stage[c][Other(n)] # "done"
    <2>1. Other(n) \in Nodes /\ Other(Other(n)) = n
      BY OtherIs
    <2>2. PICK s : s = Append(w[c][Other(n)], m)
      OBVIOUS
    <2>3. s \in Seq(IpcMessage)
      <3>1. w[c][Other(n)] \in Seq(IpcMessage)
        BY <2>1 DEF Wires
      <3> QED BY <2>2, <3>1, AppendIs
    <2>4. u = [w EXCEPT ![c][Other(n)] = s]
      BY <1>2, <2>2 DEF Written
    <2>5. /\ u \in Wires /\ u[c][Other(n)] = s /\ u[c][n] = w[c][n]
          /\ \A d \in Conns : d # c => u[d] = w[d]
      BY <2>1, <2>3, <2>4, OtherIs DEF Wires
    <2> QED BY <1>2, <2>2, <2>5 DEF IsWritten
  <1> QED BY <1>1, <1>2

\* The types of the streams.
LEMMA WiresAre ==
    ASSUME Streams
    PROVE  wire \in Wires /\ \A c \in Conns, n \in Nodes : wire[c][n] \in Seq(IpcMessage)
  BY DEF Streams, WiresTyped, Wires

\* A session ends: it says so to the other end.
LEMMA EndsStreams ==
    ASSUME Core, Streams, NEW n \in Nodes, NEW c \in Conns, NEW w \in Wires, Ends(n, c, w),
           stage[c][n] \in {"Hello", "Ready", "Open"},
           \A d \in Conns : d # c => w[d] = wire[d],
           Closed(wire[c][Other(n)]) => Closed(w[c][Other(n)])
    PROVE  Streams'
  <1>1. /\ stage'[c][n] = "done"
        /\ \A d \in Conns, m \in Nodes : d # c \/ m # n => stage'[d][m] = stage[d][m]
    <2>1. stage' = [stage EXCEPT ![c][n] = "done"]
      BY DEF Ends
    <2> QED BY <2>1 DEF Core, Types
  <1>2. PICK v : v = [w EXCEPT ![c][n] = <<>>]
    OBVIOUS
  <1>3. /\ v \in Wires /\ v[c][Other(n)] = w[c][Other(n)]
        /\ \A d \in Conns : d # c => v[d] = w[d]
    <2>1. PICK e \in Seq(IpcMessage) : e = <<>>
      <3>1. <<>> \in Seq(IpcMessage)
        OBVIOUS
      <3> QED BY <3>1, Zenon
    <2>2. v = [w EXCEPT ![c][n] = e]
      BY <1>2, <2>1
    <2> QED BY <2>2, OtherIs DEF Wires
  <1>4. wire' = Written(v, c, n, "EOF")
    BY <1>2 DEF Ends
  <1>5. IsWritten(wire', v, c, n, "EOF")
    <2>1. "EOF" \in IpcMessage
      BY DEF IpcMessage
    <2> QED BY <1>3, <1>4, <2>1, WrittenIs, Zenon
  <1>6. Other(n) \in Nodes /\ w[c][Other(n)] \in Seq(IpcMessage) /\ "EOF" \in IpcMessage
    BY OtherIs DEF Wires, IpcMessage
  <1>7. /\ Closed(w[c][Other(n)]) => Closed(Append(w[c][Other(n)], "EOF"))
        /\ Closed(Append(w[c][Other(n)], "EOF"))
    BY <1>6, ClosedAppend
  <1>8. StreamFrame(n, c)
    BY <1>1, <1>3, <1>5, <1>6, <1>7 DEF StreamFrame, IsWritten
  <1> QED BY <1>8, StreamStep

\* w is what is left to read at n's end of c, the end of the stream included.
ReadsOn(w, c, n) ==
    /\ \A d \in Conns : d # c => w[d] = wire[d]
    /\ w[c][Other(n)] = wire[c][Other(n)]
    /\ Closed(wire[c][n]) => Closed(w[c][n])

\* Something may be written to the other end while the session goes on.
LEMMA WrittenStreams ==
    ASSUME Core, Streams, NEW n \in Nodes, NEW c \in Conns, NEW w \in Wires,
           NEW m \in IpcMessage, NEW s, s \notin {"done", "unused"},
           stage' = [stage EXCEPT ![c][n] = s], stage[c][n] \notin {"done", "unused"},
           ReadsOn(w, c, n), wire' = w \/ wire' = Written(w, c, n, m)
    PROVE  Streams'
  <1>1. /\ stage'[c][n] = s
        /\ \A d \in Conns, j \in Nodes : d # c \/ j # n => stage'[d][j] = stage[d][j]
    BY DEF Core, Types
  <1>2. Other(n) \in Nodes /\ w[c][Other(n)] \in Seq(IpcMessage)
    BY OtherIs DEF Wires
  <1>3. Closed(w[c][Other(n)]) => Closed(Append(w[c][Other(n)], m))
    BY <1>2, ClosedAppend
  <1>4. StreamFrame(n, c)
    <2>1. CASE wire' = w
      BY <1>1, <1>2, <2>1 DEF StreamFrame, ReadsOn
    <2>2. CASE wire' = Written(w, c, n, m)
      <3>1. IsWritten(wire', w, c, n, m)
        BY <2>2, WrittenIs, Zenon
      <3> QED BY <1>1, <1>2, <1>3, <3>1 DEF StreamFrame, ReadsOn, IsWritten
    <2> QED BY <2>1, <2>2
  <1> QED BY <1>4, StreamStep

\* w is what is left when one message was read at n's end of c.
IsRead(w, c, n) ==
    /\ w \in Wires /\ (Head(wire[c][n]) # "EOF" => ReadsOn(w, c, n))
    /\ w[c][Other(n)] = wire[c][Other(n)]
    /\ \A d \in Conns : d # c => w[d] = wire[d]

\* Taking the first message does what IsRead says.
LEMMA ReadIs ==
    ASSUME Streams, NEW n \in Nodes, NEW c \in Conns, wire[c][n] # <<>>,
           NEW w, w = [wire EXCEPT ![c][n] = Tail(@)]
    PROVE  IsRead(w, c, n)
  <1>1. wire \in Wires /\ wire[c][n] \in Seq(IpcMessage)
    BY WiresAre
  <1>2. PICK s : s = Tail(wire[c][n])
    OBVIOUS
  <1>3. s \in Seq(IpcMessage) /\ (Closed(wire[c][n]) /\ Head(wire[c][n]) # "EOF" => Closed(s))
    BY <1>1, <1>2, ClosedTail
  <1>4. w = [wire EXCEPT ![c][n] = s]
    BY <1>2
  <1>5. /\ w \in Wires /\ w[c][n] = s /\ w[c][Other(n)] = wire[c][Other(n)]
        /\ \A d \in Conns : d # c => w[d] = wire[d]
    BY <1>1, <1>3, <1>4, OtherIs DEF Wires
  <1> QED BY <1>3, <1>5 DEF ReadsOn, IsRead

\* A step that touches no stage and no stream.
LEMMA StreamsKept ==
    ASSUME Streams, UNCHANGED <<stage, wire>>
    PROVE  Streams'
  BY DEF Streams, WiresTyped, EofInv

\* Connect: the streams of a new connection.
LEMMA BegunStreams ==
    ASSUME Core, Streams, NEW n \in Nodes, NEW c \in Conns,
           Spawned([stage EXCEPT ![c] = [m \in Nodes |-> IF m = n THEN "Hello" ELSE "backlog"]],
                   [wire EXCEPT ![c] = [m \in Nodes |-> <<>>]], c, n)
    PROVE  Streams'
  <1>1. /\ \A m \in Nodes : stage'[c][m] \in {"Hello", "backlog"}
        /\ \A d \in Conns : d # c => stage'[d] = stage[d]
    BY DEF Spawned, Core, Types
  <1>2. PICK v : v = [wire EXCEPT ![c] = [m \in Nodes |-> <<>>]]
    OBVIOUS
  <1>3. /\ v \in Wires /\ v[c][Other(n)] = <<>> /\ \A d \in Conns : d # c => v[d] = wire[d]
    BY <1>2, WiresAre, OtherIs DEF Wires
  <1>4. PICK s : s = Append(<<>>, "Hello")
    OBVIOUS
  <1>5. s \in Seq(IpcMessage)
    BY <1>4 DEF IpcMessage
  <1>6. wire' = [v EXCEPT ![c][Other(n)] = s]
    BY <1>2, <1>3, <1>4 DEF Spawned
  <1>7. wire' \in Wires /\ \A d \in Conns : d # c => wire'[d] = wire[d]
    BY <1>3, <1>5, <1>6, OtherIs DEF Wires
  <1>8. EofInv'
    <2> SUFFICES ASSUME NEW d \in Conns, NEW m \in Nodes
                 PROVE  /\ stage'[d][m] = "unused" <=> stage'[d][Other(m)] = "unused"
                        /\ stage'[d][m] \in {"backlog", "Hello"} \cup Running
                             /\ stage'[d][Other(m)] = "done" => Closed(wire'[d][m])
      BY DEF EofInv, Closed
    <2>1. /\ stage[d][m] = "unused" <=> stage[d][Other(m)] = "unused"
          /\ stage[d][m] \in {"backlog", "Hello"} \cup Running /\ stage[d][Other(m)] = "done"
               => Closed(wire[d][m])
      BY DEF Streams, EofInv, Closed
    <2>2. Other(m) \in Nodes
      BY OtherIs
    <2> QED BY <1>1, <1>7, <2>1, <2>2
  <1> QED BY <1>7, <1>8 DEF Streams, WiresTyped, Wires

\* NoBacklog: whoever dialled finds the stream closed.
LEMMA NoBacklogStreams ==
    ASSUME Core, Streams, NEW n \in Nodes, NoBacklog(n)
    PROVE  Streams'
  <1>1. \A c \in Conns : stage[c][n] # "backlog" => stage'[c] = stage[c] /\ wire'[c] = wire[c]
    BY DEF NoBacklog
  <1>2. Other(n) \in Nodes /\ Other(n) # n
    BY OtherIs
  <1>3. ASSUME NEW c \in Conns, stage[c][n] = "backlog"
        PROVE  /\ stage'[c] \in [Nodes -> Stage]
               /\ stage'[c][n] = "done" /\ stage'[c][Other(n)] = stage[c][Other(n)]
               /\ wire'[c] \in [Nodes -> Seq(IpcMessage)]
               /\ stage[c][Other(n)] # "done" => Closed(wire'[c][Other(n)])
    <2>1. stage'[c] = [stage[c] EXCEPT ![n] = "done"]
      BY <1>3 DEF NoBacklog
    <2>2. PICK s : s = IF stage[c][Other(n)] = "done" THEN <<>> ELSE Append(wire[c][Other(n)], "EOF")
      OBVIOUS
    <2>3. /\ wire[c] \in [Nodes -> Seq(IpcMessage)] /\ wire[c][Other(n)] \in Seq(IpcMessage)
          /\ "EOF" \in IpcMessage
      BY <1>2 DEF Streams, WiresTyped, IpcMessage
    <2>4. /\ Append(wire[c][Other(n)], "EOF") \in Seq(IpcMessage)
          /\ Closed(Append(wire[c][Other(n)], "EOF"))
      BY <2>3, ClosedAppend
    <2>5. s \in Seq(IpcMessage) /\ (stage[c][Other(n)] # "done" => Closed(s))
      BY <2>2, <2>4
    <2>6. PICK e : e = <<>> /\ e \in Seq(IpcMessage)
      <3>1. <<>> \in Seq(IpcMessage)
        OBVIOUS
      <3> QED BY <3>1, Zenon
    <2>7. wire'[c] = [wire[c] EXCEPT ![n] = e, ![Other(n)] = s]
      BY <1>2, <1>3, <2>2, <2>6 DEF NoBacklog
    <2>8. wire'[c] \in [Nodes -> Seq(IpcMessage)] /\ wire'[c][Other(n)] = s
      BY <1>2, <2>3, <2>5, <2>6, <2>7
    <2>9. /\ stage'[c] \in [Nodes -> Stage]
          /\ stage'[c][n] = "done" /\ stage'[c][Other(n)] = stage[c][Other(n)]
      BY <1>2, <2>1 DEF Core, Types, Stage
    <2> QED BY <2>5, <2>8, <2>9
  <1>4. wire' \in Wires
    <2>1. DOMAIN wire' = Conns /\ wire' = [c \in Conns |-> wire'[c]]
      BY DEF NoBacklog
    <2>2. \A c \in Conns : wire'[c] \in [Nodes -> Seq(IpcMessage)]
      BY <1>1, <1>3 DEF Streams, WiresTyped
    <2> QED BY <2>1, <2>2 DEF Wires
  <1>5. EofInv'
    <2> SUFFICES ASSUME NEW d \in Conns, NEW m \in Nodes
                 PROVE  /\ stage'[d][m] = "unused" <=> stage'[d][Other(m)] = "unused"
                        /\ stage'[d][m] \in {"backlog", "Hello"} \cup Running
                             /\ stage'[d][Other(m)] = "done" => Closed(wire'[d][m])
      BY DEF EofInv, Closed
    <2>1. /\ stage[d][m] = "unused" <=> stage[d][Other(m)] = "unused"
          /\ stage[d][m] \in {"backlog", "Hello"} \cup Running /\ stage[d][Other(m)] = "done"
               => Closed(wire[d][m])
      BY DEF Streams, EofInv, Closed
    <2>2. CASE stage[d][n] # "backlog"
      BY <1>1, <2>1, <2>2
    <2>3. CASE stage[d][n] = "backlog"
      <3>1. /\ m = n \/ (m = Other(n) /\ Other(m) = n)
        BY OtherIs
      <3>2. stage[d][Other(n)] # "unused"
        BY <2>1, <2>3, <3>1
      <3> QED BY <1>3, <2>3, <3>1, <3>2 DEF Running
    <2> QED BY <2>2, <2>3
  <1> QED BY <1>4, <1>5 DEF Streams, WiresTyped, Wires

-----------------------------------------------------------------------------
(* The steps.                                                              *)

\* The bounds hold, and a late manager stays known as late.
LEMMA CountersKept ==
    ASSUME CountersOK, \/ Dial \/ Fault \/ Quietly \/ (Timeout /\ late' = TRUE)
    PROVE  /\ CountersOK' /\ late \in BOOLEAN /\ late' \in BOOLEAN
           /\ late => late'
  <1>1. late \in BOOLEAN /\ dials \in 0..MaxDials /\ faults \in 0..MaxFaults
    BY Zenon DEF CountersOK
  <1>2. dials' \in 0..MaxDials /\ faults' \in 0..MaxFaults
    BY <1>1, SessionTyped DEF Dial, Fault, Timeout, Quietly
  <1>3. late' = late \/ late' = TRUE
    BY DEF Dial, Fault, Quietly
  <1>4. late' \in BOOLEAN /\ (late => late')
    BY <1>1, <1>3
  <1> QED BY <1>1, <1>2, <1>4, Zenon DEF CountersOK

\* AbortHandshake
LEMMA AbortStep ==
    ASSUME IInv, NEW n \in Nodes, NEW c \in Conns, UNCHANGED mgr, AbortHandshake(n, c),
           late' \in BOOLEAN, late => late',
           \/ stage[c][n] = "Hello"
           \/ stage[c][n] = "Ready" /\ control[c][n] = <<>> /\ (manager[n] = "gone" \/ late')
    PROVE  Core' /\ Streams'
  <1>1. late \in BOOLEAN
    BY Zenon DEF IInv, CountersOK
  <1>2. PICK d : d = IF dialler[c] = n THEN c ELSE None
    OBVIOUS
  <1>3. /\ Ends(n, c, wire) /\ Command(n, "HandshakeFailed", d)
        /\ UNCHANGED <<manager, peers, pending, dialler>>
        /\ stage' = [stage EXCEPT ![c][n] = "done"]
        /\ control' = [control EXCEPT ![c][n] = <<>>]
    BY <1>2 DEF AbortHandshake, Ends, mgr
  <1>4. Core'
    BY <1>1, <1>2, <1>3, EndsCore DEF IInv
  <1>5. Streams'
    BY <1>3, WiresAre, EndsStreams DEF IInv
  <1> QED BY <1>4, <1>5

\* ClosePeer
LEMMA CloseStep ==
    ASSUME IInv, NEW n \in Nodes, NEW c \in Conns, UNCHANGED <<mgr, late>>, NEW w \in Wires,
           ClosePeer(n, c, w), stage[c][n] = "Open",
           \A d \in Conns : d # c => w[d] = wire[d],
           Closed(wire[c][Other(n)]) => Closed(w[c][Other(n)])
    PROVE  Core' /\ Streams'
  <1>1. late \in BOOLEAN
    BY Zenon DEF IInv, CountersOK
  <1>3. /\ Ends(n, c, w) /\ Command(n, "PeerClosed", c)
        /\ UNCHANGED <<manager, peers, pending, dialler>> /\ late' \in BOOLEAN /\ (late => late')
        /\ stage' = [stage EXCEPT ![c][n] = "done"]
        /\ control' = [control EXCEPT ![c][n] = <<>>]
    BY <1>1 DEF ClosePeer, Ends, mgr
  <1>4. Core'
    BY <1>1, <1>3, EndsCore DEF IInv
  <1>5. Streams'
    BY <1>3, EndsStreams DEF IInv
  <1> QED BY <1>4, <1>5

\* Accept
LEMMA AcceptStep ==
    ASSUME IInv, NEW n \in Nodes, NEW c \in Conns, Accept(n, c)
    PROVE  Core' /\ Streams'
  <1>1. late \in BOOLEAN
    BY Zenon DEF IInv, CountersOK
  <1>2. Core'
    BY <1>1, AcceptCore DEF IInv
  <1>3. wire \in Wires /\ "Hello" \in IpcMessage
    BY WiresAre DEF IInv, IpcMessage
  <1>4. wire' = wire \/ wire' = Written(wire, c, n, "Hello")
    BY DEF Accept, Spawned, Written
  <1>5. stage' = [stage EXCEPT ![c][n] = "Hello"] /\ stage[c][n] = "backlog"
    BY DEF Accept, Spawned
  <1>6. ReadsOn(wire, c, n)
    BY DEF ReadsOn
  <1>7. Streams'
    BY <1>3, <1>4, <1>5, <1>6, WrittenStreams DEF IInv
  <1> QED BY <1>2, <1>7

\* Hello, both ways it can end.
LEMMA HelloStep ==
    ASSUME IInv, NEW n \in Nodes, NEW c \in Conns, Hello(n, c)
    PROVE  Core' /\ Streams'
  <1>1. late \in BOOLEAN
    BY Zenon DEF IInv, CountersOK
  <1>2. CASE AbortHandshake(n, c)
    <2>1. UNCHANGED <<mgr, late>> /\ stage[c][n] = "Hello"
      BY DEF Hello, Quietly
    <2> QED BY <1>1, <1>2, <2>1, AbortStep
  <1>3. CASE ~AbortHandshake(n, c)
    <2>1. /\ UNCHANGED <<manager, peers, pending, dialler, control, late>>
          /\ stage[c][n] = "Hello" /\ wire[c][n] # <<>>
          /\ Head(wire[c][n]) = "Hello" /\ manager[n] # "gone"
          /\ wire' = [wire EXCEPT ![c][n] = Tail(@)]
          /\ stage' = [stage EXCEPT ![c][n] = "Ready"]
          /\ Command(n, "SessionReady", c)
      BY <1>3 DEF Hello, Quietly, mgr
    <2>2. Core'
      BY <1>1, <2>1, ReadyCore DEF IInv
    <2>3. PICK w : w = wire'
      OBVIOUS
    <2>4. w \in Wires /\ ReadsOn(w, c, n)
      <3>1. IsRead(w, c, n)
        BY <2>1, <2>3, ReadIs DEF IInv
      <3> QED BY <2>1, <3>1 DEF IsRead
    <2>5. "Hello" \in IpcMessage /\ "Ready" \notin {"done", "unused"}
          /\ "Hello" \notin {"done", "unused"}
      BY DEF IpcMessage
    <2>6. Streams'
      BY <2>1, <2>3, <2>4, <2>5, WrittenStreams DEF IInv
    <2> QED BY <2>2, <2>6
  <1> QED BY <1>2, <1>3

\* Ready: a session that waits has only been told Accepted first.
LEMMA ReadyStep ==
    ASSUME IInv, NEW n \in Nodes, NEW c \in Conns, Ready(n, c)
    PROVE  Core' /\ Streams'
  <1>1. late \in BOOLEAN
    BY Zenon DEF IInv, CountersOK
  <1>2. stage[c][n] = "Ready" /\ control[c][n] # <<>>
    BY DEF Ready
  <1>3. Head(control[c][n]) = "Accepted"
    <2>1. control[c][n] \in {<<"Accepted">>, <<"Accepted", "Shutdown">>}
      BY <1>2 DEF IInv, Core, ControlInv, ControlOK
    <2>2. Head(<<"Accepted">>) = "Accepted" /\ Head(<<"Accepted", "Shutdown">>) = "Accepted"
      OBVIOUS
    <2> QED BY <2>1, <2>2
  <1>4. /\ UNCHANGED <<manager, peers, pending, dialler, commands, late>>
        /\ control' = [control EXCEPT ![c][n] = Tail(@)]
        /\ stage' = [stage EXCEPT ![c][n] = "Open"]
        /\ wire' = Written(wire, c, n, "KnownPeers")
    BY <1>3 DEF Ready, Quietly, mgr
  <1>5. Core'
    BY <1>1, <1>2, <1>4, OpenCore DEF IInv
  <1>6. wire \in Wires /\ "KnownPeers" \in IpcMessage /\ ReadsOn(wire, c, n)
    BY WiresAre DEF IInv, IpcMessage, ReadsOn
  <1>7. Streams'
    <2>1. "Open" \notin {"done", "unused"} /\ stage[c][n] \notin {"done", "unused"}
      BY <1>2
    <2> QED BY <1>4, <1>6, <2>1, WrittenStreams, Zenon DEF IInv
  <1> QED BY <1>5, <1>7

\* IpcMessageReceived
LEMMA ReceivedStep ==
    ASSUME IInv, NEW n \in Nodes, NEW c \in Conns, Received(n, c)
    PROVE  Core' /\ Streams'
  <1>1. late \in BOOLEAN
    BY Zenon DEF IInv, CountersOK
  <1>2. PICK w : w = [wire EXCEPT ![c][n] = Tail(@)]
    OBVIOUS
  <1>3. /\ UNCHANGED <<mgr, late>> /\ stage[c][n] = "Open" /\ wire[c][n] # <<>>
        /\ \/ /\ Head(wire[c][n]) = "KnownPeers" /\ wire' = w
              /\ Command(n, "LearnedPeers", None)
              /\ UNCHANGED <<dialler, stage, control>>
           \/ ClosePeer(n, c, w)
    BY <1>2 DEF Received, Quietly
  <1>4. /\ w \in Wires /\ (Head(wire[c][n]) # "EOF" => ReadsOn(w, c, n))
        /\ w[c][Other(n)] = wire[c][Other(n)] /\ \A d \in Conns : d # c => w[d] = wire[d]
    <2>1. IsRead(w, c, n)
      BY <1>2, <1>3, ReadIs, Zenon DEF IInv
    <2> QED BY <2>1 DEF IsRead
  <1>5. CASE ClosePeer(n, c, w)
    BY <1>3, <1>4, <1>5, CloseStep
  <1>6. CASE ~ClosePeer(n, c, w)
    <2>1. Core'
      BY <1>1, <1>3, <1>6, KnownPeersCore DEF IInv, mgr
    <2>2. stage' = [stage EXCEPT ![c][n] = "Open"]
      BY <1>3, <1>6 DEF IInv, Core, Types
    <2>3. "Hello" \in IpcMessage
      BY DEF IpcMessage
    <2>4. Streams'
      BY <1>3, <1>4, <1>6, <2>2, <2>3, WrittenStreams DEF IInv
    <2> QED BY <2>1, <2>4
  <1> QED BY <1>5, <1>6

\* DialPeers: the streams of the connection it may open.
LEMMA DialPeersStreams ==
    ASSUME Core, Streams, NEW n \in Nodes, NEW fromDirectory, DialPeers(n, fromDirectory)
    PROVE  Streams'
  <1>1. CASE UNCHANGED <<pending, ends>>
    BY <1>1, StreamsKept DEF ends
  <1>2. CASE ~UNCHANGED <<pending, ends>>
    <2>1. Connect(n)
      BY <1>2 DEF DialPeers
    <2>2. PICK C : C = {c \in Conns : Unused(c)}
      OBVIOUS
    <2>3. PICK c : c = CHOOSE x \in C : TRUE
      OBVIOUS
    <2>4. /\ C # {}
          /\ Spawned([stage EXCEPT ![c] = [m \in Nodes |-> IF m = n THEN "Hello" ELSE "backlog"]],
                     [wire EXCEPT ![c] = [m \in Nodes |-> <<>>]], c, n)
      BY <1>2, <2>1, <2>2, <2>3 DEF Connect
    <2>5. c \in Conns
      BY <2>2, <2>3, <2>4
    <2> QED BY <2>4, <2>5, BegunStreams
  <1> QED BY <1>1, <1>2

\* IpcControlReceived
LEMMA ControlReceivedStep ==
    ASSUME IInv, NEW n \in Nodes, NEW c \in Conns, ControlReceived(n, c)
    PROVE  Core' /\ Streams'
  <1>1. PICK w : w = Written(wire, c, n, "CloseConnection")
    OBVIOUS
  <1>2. UNCHANGED <<mgr, late>> /\ stage[c][n] = "Open" /\ ClosePeer(n, c, w)
    BY <1>1 DEF ControlReceived, SessionShutdown, Quietly
  <1>3. wire \in Wires /\ "CloseConnection" \in IpcMessage
    BY WiresAre DEF IInv, IpcMessage
  <1>4. IsWritten(w, wire, c, n, "CloseConnection")
    BY <1>1, <1>3, WrittenIs, Zenon
  <1>5. Other(n) \in Nodes /\ wire[c][Other(n)] \in Seq(IpcMessage)
    BY OtherIs, WiresAre DEF IInv
  <1>6. Closed(wire[c][Other(n)]) => Closed(Append(wire[c][Other(n)], "CloseConnection"))
    BY <1>3, <1>5, ClosedAppend
  <1>7. /\ w \in Wires /\ \A d \in Conns : d # c => w[d] = wire[d]
        /\ Closed(wire[c][Other(n)]) => Closed(w[c][Other(n)])
    BY <1>4, <1>6 DEF IsWritten
  <1> QED BY <1>2, <1>7, CloseStep

\* HandleCommand
LEMMA HandleCommandStep ==
    ASSUME IInv, NEW n \in Nodes, HandleCommand(n)
    PROVE  Core' /\ Streams'
  <1>1. /\ manager[n] # "gone" /\ commands[n] # <<>>
        /\ commands' = [commands EXCEPT ![n] = Tail(@)] /\ UNCHANGED <<manager, late>>
    BY DEF HandleCommand, Quietly
  <1>2. PICK h : h = Head(commands[n])
    OBVIOUS
  <1>3. \/ h.type = "PeerClosed" /\ HandlePeerClosed(n, h.conn)
        \/ h.type = "SessionReady" /\ HandleSessionReady(n, h.conn)
        \/ h.type = "HandshakeFailed" /\ HandleHandshakeFailed(n, h.conn)
        \/ h.type = "LearnedPeers" /\ DialPeers(n, FALSE) /\ UNCHANGED peers
    BY <1>2 DEF HandleCommand
  <1>4. Core /\ Streams
    BY DEF IInv
  <1>5. CASE h.type = "PeerClosed" /\ HandlePeerClosed(n, h.conn)
    <2>1. Core'
      BY <1>1, <1>2, <1>4, <1>5, PeerClosedCore
    <2> QED BY <1>4, <1>5, <2>1, StreamsKept DEF HandlePeerClosed, ends
  <1>6. CASE h.type = "SessionReady" /\ HandleSessionReady(n, h.conn)
    <2>1. Core'
      BY <1>1, <1>2, <1>4, <1>6, SessionReadyCore
    <2> QED BY <1>4, <1>6, <2>1, StreamsKept DEF HandleSessionReady
  <1>7. CASE h.type = "HandshakeFailed" /\ HandleHandshakeFailed(n, h.conn)
    <2>1. Core'
      BY <1>1, <1>2, <1>4, <1>7, HandshakeFailedCore
    <2> QED BY <1>4, <1>7, <2>1, StreamsKept DEF HandleHandshakeFailed, ends
  <1>8. CASE h.type = "LearnedPeers" /\ DialPeers(n, FALSE) /\ UNCHANGED peers
    <2>1. CommandsShrink
      <3>1. /\ commands' \in [Nodes -> Seq(CommandRecord)] /\ ReadyOnce'
            /\ \A m \in Nodes : m # n => Inbox(m)' = Inbox(m) /\ commands'[m] = commands[m]
            /\ \A x \in Inbox(n)' : x \in Inbox(n)
            /\ \A x \in Inbox(n) : x = h \/ x \in Inbox(n)'
        BY <1>1, <1>2, <1>4, CommandTaken DEF Core
      <3> QED BY <1>1, <1>4, <1>8, <3>1 DEF CommandsShrink, Core, GoneInv
    <2> QED BY <1>1, <1>4, <1>8, <2>1, DialPeersCore, DialPeersStreams
  <1> QED BY <1>3, <1>5, <1>6, <1>7, <1>8

\* FromDirectory
LEMMA FromDirectoryStep ==
    ASSUME IInv, NEW n \in Nodes, FromDirectory(n)
    PROVE  Core' /\ Streams'
  <1>1. Core /\ Streams
    BY DEF IInv
  <1>2. DialPeers(n, TRUE) /\ UNCHANGED <<manager, peers, commands, late>>
    BY DEF FromDirectory, Dial
  <1>3. CommandsShrink
    BY <1>1, <1>2, InboxSame DEF CommandsShrink, Core, Types, GoneInv, ReadyOnce
  <1> QED BY <1>1, <1>2, <1>3, DialPeersCore, DialPeersStreams

\* Every step keeps the invariant.
LEMMA StepIInv ==
    ASSUME IInv, [Next]_vars
    PROVE  IInv'
  <1> USE DEF IInv
  <1>1. CASE UNCHANGED vars
    <2>1. UNCHANGED <<manager, peers, pending, commands, dialler, stage, wire, control>>
      BY <1>1 DEF vars, mgr, ends
    <2>2. CountersOK'
      BY <1>1, Zenon DEF vars, CountersOK
    <2>3. CommandsShrink
      BY <2>1, InboxSame DEF CommandsShrink, Core, Types, GoneInv, ReadyOnce
    <2>4. Core'
      BY <1>1, <2>1, <2>3, ShrinkCore DEF vars
    <2>5. Streams'
      BY <2>1, StreamsKept
    <2> QED BY <2>2, <2>4, <2>5
  <1>2. ASSUME NEW n \in Nodes, FromDirectory(n) \/ HandleCommand(n) \/ SoftShutdown(n) \/ Shutdown(n)
        PROVE  IInv'
    <2>1. CountersOK'
      BY <1>2, CountersKept DEF FromDirectory, HandleCommand, SoftShutdown, Shutdown
    <2>2. CASE FromDirectory(n)
      BY <2>1, <2>2, FromDirectoryStep
    <2>3. CASE HandleCommand(n)
      BY <2>1, <2>3, HandleCommandStep
    <2>4. CASE SoftShutdown(n)
      <3>1. NoBacklog(n)
        BY <2>4 DEF SoftShutdown
      <3> QED BY <2>1, <2>4, <3>1, SoftShutdownCore, NoBacklogStreams
    <2>5. CASE Shutdown(n)
      <3>1. UNCHANGED <<stage, wire>>
        BY <2>5 DEF Shutdown
      <3> QED BY <2>1, <2>5, <3>1, ShutdownCore, StreamsKept
    <2> QED BY <1>2, <2>2, <2>3, <2>4, <2>5
  <1>3. ASSUME NEW n \in Nodes, NEW c \in Conns,
               Session(n, c) \/ HelloTimeout(n, c) \/ AcceptTimeout(n, c) \/ HeartbeatTimeout(n, c)
        PROVE  IInv'
    <2>1. CASE Accept(n, c) \/ Hello(n, c) \/ Ready(n, c) \/ Received(n, c) \/ ControlReceived(n, c)
      <3>1. CountersOK'
        BY <2>1, CountersKept DEF Accept, Hello, Ready, Received, ControlReceived
      <3> QED BY <2>1, <3>1, AcceptStep, HelloStep, ReadyStep, ReceivedStep, ControlReceivedStep
    <2>2. CASE WriteFails(n, c) \/ HeartbeatTimeout(n, c)
      <3>1. CountersOK'
        BY <2>2, CountersKept DEF WriteFails, HeartbeatTimeout
      <3>2. UNCHANGED <<mgr, late>> /\ stage[c][n] = "Open" /\ ClosePeer(n, c, wire)
        BY <2>2 DEF WriteFails, HeartbeatTimeout, Quietly, Fault
      <3>3. wire \in Wires
        BY WiresAre
      <3> QED BY <3>1, <3>2, <3>3, CloseStep
    <2>3. CASE HelloTimeout(n, c)
      <3>1. CountersOK' /\ late' \in BOOLEAN /\ (late => late')
        BY <2>3, CountersKept DEF HelloTimeout
      <3> QED BY <2>3, <3>1, AbortStep DEF HelloTimeout
    <2>4. CASE AcceptTimeout(n, c)
      <3>1. CountersOK' /\ late' \in BOOLEAN /\ (late => late')
        BY <2>4, CountersKept DEF AcceptTimeout
      <3>2. manager[n] = "gone" \/ late'
        BY <2>4 DEF AcceptTimeout
      <3> QED BY <2>4, <3>1, <3>2, AbortStep DEF AcceptTimeout
    <2> QED BY <1>3, <2>1, <2>2, <2>3, <2>4 DEF Session
  <1> QED BY <1>1, <1>2, <1>3 DEF Next

\* The invariant holds in every reachable state.
LEMMA Invariance == Spec => []IInv
  BY InitIInv, StepIInv, PTL DEF Spec

\* Has, in terms of the channel.
LEMMA HasIs ==
    ASSUME NEW n \in Nodes, NEW t, NEW c
    PROVE  Has(n, t, c) <=> Msg(t, c) \in Inbox(n)
  BY DEF Has, Msg, Inbox

\* The properties follow from the invariant.
LEMMA InvImplies ==
    ASSUME IInv
    PROVE  /\ TypeOK /\ OpenIsListed /\ EntriesAreServed
           /\ PendingEnds /\ QuietAgreement
  <1> USE DEF IInv, Core, Streams
  <1>1. \A c \in Conns, n \in Nodes :
           control[c][n] \in {<<>>, <<"Accepted">>, <<"Shutdown">>, <<"Accepted", "Shutdown">>}
    BY DEF ControlInv, ControlOK, Running, Types, Stage
  <1>2. TypeOK
    <2>1. \A n \in Nodes : \A k \in DOMAIN commands[n] :
             commands[n][k] \in [type : IpcCommand, conn : Conns \cup {None}]
      <3> SUFFICES ASSUME NEW n \in Nodes, NEW k \in DOMAIN commands[n]
                   PROVE  commands[n][k] \in CommandRecord
        BY DEF CommandRecord
      <3>1. commands[n] \in Seq(CommandRecord)
        BY DEF Types
      <3> QED BY <3>1
    <2>2. \A c \in Conns, n \in Nodes : wire[c][n] \in Seq(IpcMessage)
      BY DEF WiresTyped
    <2>3. late \in BOOLEAN /\ dials \in 0..MaxDials /\ faults \in 0..MaxFaults
      BY Zenon DEF CountersOK
    <2> QED BY <1>1, <2>1, <2>2, <2>3, Zenon DEF TypeOK, Types
  <1>3. OpenIsListed
    BY DEF OpenIsListed, Contains, ControlInv, ControlOK
  <1>4. EntriesAreServed
    <2> SUFFICES ASSUME ~late, NEW n \in Nodes, peers[n] # None
                 PROVE  stage[peers[n]][n] \in {"Ready", "Open"} \/ Has(n, "PeerClosed", peers[n])
      BY DEF EntriesAreServed
    <2>1. Has(n, "PeerClosed", peers[n]) <=> Msg("PeerClosed", peers[n]) \in Inbox(n)
      BY HasIs
    <2> QED BY <2>1 DEF ServedInv, Running
  <1>5. PendingEnds
    <2>1. \A n \in Nodes, c \in Conns :
             /\ Msg("SessionReady", c) \in Inbox(n) => Has(n, "SessionReady", c)
             /\ Msg("HandshakeFailed", c) \in Inbox(n) => Has(n, "HandshakeFailed", c)
      BY HasIs
    <2> QED BY <2>1, Zenon DEF PendingEnds, PendingInv
  <1>6. QuietAgreement
    <2> SUFFICES ASSUME Quiet, ~late
                 PROVE  /\ peers[1] = peers[2]
                        /\ \A n \in Nodes, c \in Conns : stage[c][n] = "Open" <=> peers[n] = c
      BY DEF QuietAgreement
    <2>1. \A n \in Nodes, c \in Conns : peers[n] = c <=> stage[c][n] = "Open"
      <3> SUFFICES ASSUME NEW n \in Nodes, NEW c \in Conns
                   PROVE  peers[n] = c <=> stage[c][n] = "Open"
        OBVIOUS
      <3>1. commands[n] = <<>> /\ control[c][n] = <<>> /\ stage[c][n] \in {"unused", "Open", "done"}
        BY DEF Quiet
      <3>2. peers[n] = c => stage[c][n] \in {"Ready", "Open"}
        <4>1. DOMAIN commands[n] = {}
          BY <3>1
        <4>2. ~Has(n, "PeerClosed", peers[n])
          BY <4>1, Zenon DEF Has
        <4> QED BY <1>4, <4>2, NoneIsNone DEF EntriesAreServed
      <3> QED BY <3>1, <3>2 DEF ControlInv, ControlOK
    <2>3. \A n \in Nodes, c \in Conns : stage[c][n] = "Open" => stage[c][Other(n)] = "Open"
      BY OtherIs DEF Quiet, EofInv, Running
    <2>4. 1 \in Nodes /\ 2 \in Nodes /\ Other(1) = 2 /\ Other(2) = 1
      BY DEF Nodes, Other
    <2>5. peers[1] = peers[2]
      <3>1. \A n \in Nodes, c \in Conns : peers[n] = c => peers[Other(n)] = c
        BY <2>1, <2>3, OtherIs
      <3>2. peers[1] \in Conns \cup {None} /\ peers[2] \in Conns \cup {None}
        BY <2>4 DEF Types
      <3> QED BY <2>4, <3>1, <3>2
    <2> QED BY <2>1, <2>5
  <1> QED BY <1>2, <1>3, <1>4, <1>5, <1>6

\* Every variable keeps its type; a session is accepted at most once, before it
\* is told to stop (IpcControl), whatever the managers and the sessions do.
THEOREM TypeCorrect == Spec => []TypeOK
  BY Invariance, InvImplies, PTL

\* As long as managers answer in time, an entry of the peer list stands for a
\* session that runs, or whose close notification is in the manager's channel.
THEOREM EntriesStandForSessions == Spec => []EntriesAreServed
  BY Invariance, InvImplies, PTL

\* An established session that was not told to stop is the one in its manager's
\* list: a node has at most one with a peer, and a shutdown reaches it.
THEOREM SessionsAreListed == Spec => []OpenIsListed
  BY Invariance, InvImplies, PTL

\* A node is in pending only while a session dials it or the news of how that
\* ended is in the manager's channel: pending never blocks a peer for good.
THEOREM PendingIsServed == Spec => []PendingEnds
  BY Invariance, InvImplies, PTL

\* When nothing is under way and no manager has been late, both nodes list the
\* same connection, the only one established at either end, or neither lists
\* any and no session runs.
THEOREM QuietNodesAgree == Spec => []QuietAgreement
  BY Invariance, InvImplies, PTL

-----------------------------------------------------------------------------
(***************************************************************************)
(* The directories.                                                        *)
(***************************************************************************)
ProbeState ==
    [at : {"idle", "asks", "done"}, self : SUBSET Names,
     primary : View, backup : View]

DirState ==
    [held : SUBSET Names, misses : 0..PRIMARY_TAKEOVER_MISSES,
     inUse : [Names -> 0..DIRECTORY_OVERWRITE_AFTER],
     wake : {"none", "probe", "reconcile"}, soon : BOOLEAN, probe : ProbeState]

NameMap == [Names -> NodeIds \cup {Nobody}]

\* What a step of a manager works on.
Desk == [d : DirState, name : NameMap]

\* The two parts of a desk.
LEMMA DeskIs ==
    ASSUME NEW s \in Desk
    PROVE  s.d \in DirState /\ s.name \in NameMap
  BY DEF Desk

\* The parts of a directory state, and what replaces one of them.
LEMMA DirStateIs ==
    ASSUME NEW d \in DirState
    PROVE  /\ d.held \in SUBSET Names /\ d.misses \in 0..PRIMARY_TAKEOVER_MISSES
           /\ d.inUse \in [Names -> 0..DIRECTORY_OVERWRITE_AFTER]
           /\ d.wake \in {"none", "probe", "reconcile"} /\ d.soon \in BOOLEAN /\ d.probe \in ProbeState
           /\ \A v \in SUBSET Names : [d EXCEPT !.held = v] \in DirState
           /\ \A v \in 0..PRIMARY_TAKEOVER_MISSES : [d EXCEPT !.misses = v] \in DirState
           /\ \A v \in [Names -> 0..DIRECTORY_OVERWRITE_AFTER] : [d EXCEPT !.inUse = v] \in DirState
           /\ \A v \in {"none", "probe", "reconcile"} : [d EXCEPT !.wake = v] \in DirState
           /\ \A v \in BOOLEAN : [d EXCEPT !.soon = v] \in DirState
           /\ \A v \in ProbeState : [d EXCEPT !.probe = v] \in DirState
  BY DEF DirState

\* A manager's directory state when it begins.
LEMMA NoDirectoryIs ==
    ASSUME DirectoryTypes
    PROVE  /\ NoView \in View /\ Idle \in ProbeState
           /\ NoDirectory \in DirState /\ NoDirectory.wake = "none"
  BY DEF DirectoryTypes, NoView, View, Idle, NoDirectory,
         ProbeState, DirState, Names

\* Counters stop at their limit.
LEMMA AtMostIs ==
    ASSUME NEW max \in Nat, NEW i \in 0..max
    PROVE  AtMost(i + 1, max) \in 0..max
  BY DEF AtMost

\* Dropping listeners leaves a desk.
LEMMA DroppedIs ==
    ASSUME NEW s \in Desk, NEW n \in NodeIds, NEW X
    PROVE  Dropped(s, n, X) \in Desk
  <1>1. s.d \in DirState /\ s.name \in NameMap /\ s.d.held \in SUBSET Names
    BY DeskIs, DirStateIs
  <1>2. [s.d EXCEPT !.held = @ \ X] \in DirState
    <2>1. s.d.held \ X \in SUBSET Names
      BY <1>1
    <2> QED BY <1>1, <2>1, DirStateIs
  <1>3. [x \in Names |-> IF x \in X \cap s.d.held /\ (paths \/ s.name[x] = n)
                         THEN Nobody ELSE s.name[x]] \in NameMap
    BY <1>1 DEF NameMap
  <1> QED BY <1>2, <1>3 DEF Dropped, Desk, Names

\* So does binding a name.
LEMMA BoundIs ==
    ASSUME NEW s \in Desk, NEW n \in NodeIds, NEW x \in Names, DirectoryTypes
    PROVE  Bound(s, n, x) \in Desk
  <1>1. s.d \in DirState /\ s.name \in NameMap /\ s.d.held \in SUBSET Names
        /\ s.d.inUse \in [Names -> 0..DIRECTORY_OVERWRITE_AFTER]
    BY DeskIs, DirStateIs
  <1>2. PICK d, h, u : d = s.d /\ h = s.d.held \cup {x} /\ u = [s.d.inUse EXCEPT ![x] = 0]
    OBVIOUS
  <1>3. u \in [Names -> 0..DIRECTORY_OVERWRITE_AFTER] /\ h \in SUBSET Names
    BY <1>1, <1>2 DEF DirectoryTypes
  <1>4. [[d EXCEPT !.held = h] EXCEPT !.inUse = u] \in DirState
    BY <1>1, <1>2, <1>3, DirStateIs
  <1>5. [d EXCEPT !.held = h].inUse = d.inUse
    BY <1>1, <1>2 DEF DirState
  <1>6. [d EXCEPT !.held = @ \cup {x}, !.inUse[x] = 0] = [[d EXCEPT !.held = h] EXCEPT !.inUse = u]
    BY <1>2, <1>5
  <1>7. [d EXCEPT !.held = @ \cup {x}, !.inUse[x] = 0] \in DirState
    BY <1>4, <1>6
  <1>8. [s.name EXCEPT ![x] = n] \in NameMap
    BY <1>1 DEF NameMap
  <1> QED BY <1>2, <1>7, <1>8 DEF Bound, Desk

\* Another directory state on a desk.
LEMMA DeskWith ==
    ASSUME NEW s \in Desk, NEW d \in DirState
    PROVE  [s EXCEPT !.d = d] \in Desk /\ [s EXCEPT !.d = d].d = d
  BY DEF Desk

\* A failed bind is counted up to the limit.
LEMMA InUseIs ==
    ASSUME NEW s \in Desk, NEW x \in Names, DirectoryTypes
    PROVE  InUse(s, x) \in Desk
  <1>1. s.d \in DirState /\ s.d.inUse \in [Names -> 0..DIRECTORY_OVERWRITE_AFTER]
    BY DeskIs, DirStateIs
  <1>2. PICK k : k = AtMost(s.d.inUse[x] + 1, DIRECTORY_OVERWRITE_AFTER)
    OBVIOUS
  <1>3. k \in 0..DIRECTORY_OVERWRITE_AFTER
    BY <1>1, <1>2, AtMostIs DEF DirectoryTypes
  <1>4. PICK e : e = [s.d EXCEPT !.inUse = [@ EXCEPT ![x] = k]]
    OBVIOUS
  <1>5. e \in DirState
    <2>1. [s.d.inUse EXCEPT ![x] = k] \in [Names -> 0..DIRECTORY_OVERWRITE_AFTER]
      BY <1>1, <1>3
    <2> QED BY <1>1, <1>4, <2>1, DirStateIs
  <1>6. InUse(s, x) = [s EXCEPT !.d = e]
    BY <1>2, <1>4 DEF InUse
  <1> QED BY <1>5, <1>6, DeskWith

\* schedule_directory_health leaves a wake-up that probes.
LEMMA HealthIs ==
    ASSUME NEW s \in Desk
    PROVE  Health(s) \in Desk /\ Health(s).d.wake = "probe"
  <1>1. PICK e : e = [s.d EXCEPT !.wake = "probe"]
    OBVIOUS
  <1>2. e \in DirState /\ e.wake = "probe"
    <2>1. s.d \in DirState
      BY DeskIs
    <2>2. e \in DirState
      BY <1>1, <2>1, DirStateIs
    <2> QED BY <1>1, <2>1, <2>2 DEF DirState
  <1>3. Health(s) = [s EXCEPT !.d = e]
    BY <1>1 DEF Health
  <1> QED BY <1>2, <1>3, DeskWith

\* schedule_directory_wake.
LEMMA RetryIs ==
    ASSUME NEW s \in Desk
    PROVE  Retry(s) \in Desk
  <1>1. PICK w : w = IF s.d.wake = "none" THEN "reconcile" ELSE s.d.wake
    OBVIOUS
  <1>2. s.d \in DirState /\ w \in {"none", "probe", "reconcile"}
    BY <1>1, DeskIs, DirStateIs
  <1>3. [s.d EXCEPT !.wake = w] \in DirState
    BY <1>2, DirStateIs
  <1>4. Retry(s) = [s EXCEPT !.d = [s.d EXCEPT !.wake = w]]
    BY <1>1 DEF Retry
  <1> QED BY <1>3, <1>4, DeskWith

\* A probe that is spawned knows what is held.
LEMMA SpawnProbeIs ==
    ASSUME NEW s \in Desk, DirectoryTypes
    PROVE  SpawnProbe(s) \in Desk
  <1>1. PICK p : p = [Idle EXCEPT !.at = "asks", !.self = s.d.held]
    OBVIOUS
  <1>2. s.d \in DirState /\ s.d.held \in SUBSET Names /\ Idle \in ProbeState
    BY DeskIs, DirStateIs, NoDirectoryIs
  <1>3. p \in ProbeState
    BY <1>1, <1>2 DEF ProbeState
  <1>4. [s.d EXCEPT !.probe = p] \in DirState
    BY <1>2, <1>3, DirStateIs
  <1>5. SpawnProbe(s) = s \/ SpawnProbe(s) = [s EXCEPT !.d = [s.d EXCEPT !.probe = p]]
    BY <1>1 DEF SpawnProbe
  <1> QED BY <1>4, <1>5, DeskWith

\* The primary name is taken, or tried again later.
LEMMA BindPrimaryIs ==
    ASSUME NEW s \in Desk, NEW n \in NodeIds, DirectoryTypes
    PROVE  BindPrimary(s, n) \in Desk
  <1>1. "primary" \in Names /\ "backup" \in Names
    BY DEF Names
  <1>2. PICK t : t = Dropped(Bound(s, n, "primary"), n, {"backup"})
    OBVIOUS
  <1>3. t \in Desk
    BY <1>1, <1>2, BoundIs, DroppedIs
  <1>4. PICK u : u = [t EXCEPT !.d.misses = 0]
    OBVIOUS
  <1>5. u \in Desk
    <2>1. t.d \in DirState /\ 0 \in 0..PRIMARY_TAKEOVER_MISSES
      BY <1>3, DeskIs DEF DirectoryTypes
    <2>2. [t.d EXCEPT !.misses = 0] \in DirState
      BY <2>1, DirStateIs
    <2>3. u = [t EXCEPT !.d = [t.d EXCEPT !.misses = 0]]
      BY <1>4
    <2> QED BY <1>3, <2>2, <2>3, DeskWith
  <1>6. Health(u) \in Desk
    BY <1>5, HealthIs
  <1>7. Retry(SpawnProbe(InUse(s, "primary"))) \in Desk
    BY <1>1, InUseIs, SpawnProbeIs, RetryIs
  <1> QED BY <1>2, <1>4, <1>6, <1>7 DEF BindPrimary

\* The backup name is taken, or tried again later.
LEMMA BindBackupIs ==
    ASSUME NEW s \in Desk, NEW n \in NodeIds, DirectoryTypes
    PROVE  BindBackup(s, n) \in Desk
  <1>1. "backup" \in Names
    BY DEF Names
  <1>2. PICK t : t = Dropped(s, n, {"primary"})
    OBVIOUS
  <1>3. t \in Desk
    BY <1>2, DroppedIs
  <1>4. Health(Bound(t, n, "backup")) \in Desk
    BY <1>1, <1>3, BoundIs, HealthIs
  <1>5. Retry(InUse(t, "backup")) \in Desk
    BY <1>1, <1>3, InUseIs, RetryIs
  <1> QED BY <1>2, <1>4, <1>5 DEF BindBackup

\* Both names are given up.
LEMMA DropListenersIs ==
    ASSUME NEW s \in Desk, NEW n \in NodeIds, DirectoryTypes
    PROVE  DropDirectoryListeners(s, n) \in Desk
  <1>1. PICK t : t = Dropped(s, n, Names)
    OBVIOUS
  <1>2. t \in Desk
    BY <1>1, DroppedIs
  <1>3. PICK e : e = [NoDirectory EXCEPT !.probe = t.d.probe]
    OBVIOUS
  <1>4. e \in DirState
    BY <1>2, <1>3, DeskIs, DirStateIs, NoDirectoryIs
  <1>5. DropDirectoryListeners(s, n) = [t EXCEPT !.d = e]
    BY <1>1, <1>3 DEF DropDirectoryListeners, Names
  <1> QED BY <1>2, <1>4, <1>5, DeskWith

\* The directory a manager keeps after another rank.
LEMMA ReconcileIs ==
    ASSUME NEW s \in Desk, NEW n \in NodeIds, NEW K, DirectoryTypes
    PROVE  Reconcile(s, n, K) \in Desk
  <1>1. \/ Reconcile(s, n, K) = BindPrimary(s, n)
        \/ Reconcile(s, n, K) = BindBackup(s, n)
        \/ Reconcile(s, n, K) = DropDirectoryListeners(s, n)
    BY DEF Reconcile
  <1> QED BY <1>1, BindPrimaryIs, BindBackupIs, DropListenersIs

-----------------------------------------------------------------------------
(* The steps of the managers.                                              *)

Phases == Names \cup {"off", "listen", "soft", "gone"}

\* Who listens has a wake-up, and nobody else.
Awake == \A n \in NodeIds : phase[n] = "listen" <=> dir[n].wake # "none"

SessionsTyped ==
    /\ link \subseteq NodeIds \X NodeIds /\ greet \subseteq NodeIds \X NodeIds
    /\ known \in [NodeIds -> SUBSET NodeIds]

DirectoryInv ==
    /\ paths \in Paths /\ name \in NameMap
    /\ phase \in [NodeIds -> Phases] /\ dir \in [NodeIds -> DirState]
    /\ Awake /\ SessionsTyped
    /\ due \subseteq Live /\ troubles \in 0..MaxTroubles

\* This is what TypeOK says.
LEMMA DirectoryInvIs ==
    DirectoryInv <=> DirectoryTypeOK
  BY DEF DirectoryInv, DirectoryTypeOK, NameMap, Phases, DirState, ProbeState, Names, Awake, SessionsTyped

\* One manager's phase and directory change.
LEMMA OneManager ==
    ASSUME DirectoryInv, NEW n \in NodeIds,
           phase' \in [NodeIds -> Phases], dir' \in [NodeIds -> DirState],
           \A m \in NodeIds : m # n => phase'[m] = phase[m] /\ dir'[m] = dir[m],
           phase'[n] = "listen" <=> dir'[n].wake # "none"
    PROVE  Awake' /\ (phase[n] # "listen" \/ phase'[n] = "listen" => Live \subseteq Live')
  <1>1. ASSUME NEW m \in NodeIds PROVE phase'[m] = "listen" <=> dir'[m].wake # "none"
    <2>1. CASE m = n
      BY <2>1
    <2>2. CASE m # n
      BY <2>2 DEF DirectoryInv, Awake
    <2> QED BY <2>1, <2>2
  <1> QED BY <1>1 DEF Awake, Live

\* A manager's desk.
LEMMA StateIs ==
    ASSUME DirectoryInv, NEW n \in NodeIds
    PROVE  State(n) \in Desk /\ State(n).d = dir[n]
  BY DEF State, DirectoryInv, Desk

\* Back in Listen with a desk.
LEMMA ListensIs ==
    ASSUME DirectoryInv, NEW n \in NodeIds, NEW s \in Desk, Listens(s, n)
    PROVE  /\ dir' \in [NodeIds -> DirState] /\ name' \in NameMap
           /\ \A m \in NodeIds : m # n => dir'[m] = dir[m]
           /\ dir'[n].wake # "none"
  <1>1. PICK t : t = IF s.d.wake = "none" THEN Health(s) ELSE s
    OBVIOUS
  <1>2. t \in Desk /\ t.d.wake # "none"
    BY <1>1, HealthIs
  <1>3. t.d \in DirState /\ t.name \in NameMap
    BY <1>2, DeskIs
  <1>4. dir' = [dir EXCEPT ![n] = t.d] /\ name' = t.name
    BY <1>1 DEF Listens
  <1>5. dir \in [NodeIds -> DirState]
    BY DEF DirectoryInv
  <1> QED BY <1>2, <1>3, <1>4, <1>5

\* What a directory answers.
LEMMA AnswerIs ==
    ASSUME DirectoryInv, NEW x \in Names, DirectoryTypes
    PROVE  Answer(x) \in View
  <1>1. NoView \in View
    BY NoDirectoryIs
  <1>2. name[x] \in NodeIds \cup {Nobody} /\ known \in [NodeIds -> SUBSET NodeIds]
    BY DEF DirectoryInv, SessionsTyped, NameMap
  <1>3. ASSUME name[x] # Nobody
        PROVE  [owner |-> name[x], ids |-> known[name[x]] \cup {name[x]}] \in View
    BY <1>2, <1>3 DEF View
  <1> QED BY <1>1, <1>3 DEF Answer

\* Dialling adds links between nodes.
LEMMA DialIs ==
    ASSUME DirectoryInv, NEW n \in NodeIds, NEW I \in SUBSET NodeIds, Dials(n, I)
    PROVE  link' \subseteq NodeIds \X NodeIds
  <1>1. PICK M : M = {k \in Strangers(n, I) : phase[k] = "listen"}
    OBVIOUS
  <1>2. M \subseteq NodeIds
    BY <1>1 DEF Strangers
  <1>3. \A m \in M : <<n, m>> \in NodeIds \X NodeIds
    BY <1>2
  <1>4. link' = link \cup {<<n, m>> : m \in M} /\ link \subseteq NodeIds \X NodeIds
    BY <1>1 DEF Dials, DirectoryInv, SessionsTyped
  <1> QED BY <1>3, <1>4

\* A fault counts.
LEMMA FaultIs ==
    ASSUME DirectoryInv, Trouble, DirectoryTypes
    PROVE  troubles' \in 0..MaxTroubles
  BY DEF Trouble, DirectoryInv, DirectoryTypes

\* A manager in Listen works on its desk and stays there.
LEMMA ListenStep ==
    ASSUME DirectoryInv, NEW n \in NodeIds, phase[n] = "listen",
           NEW s \in Desk, Listens(s, n), UNCHANGED <<paths, phase>>,
           SessionsTyped', due' \subseteq due, troubles' \in 0..MaxTroubles
    PROVE  DirectoryInv'
  <1>1. /\ dir' \in [NodeIds -> DirState] /\ name' \in NameMap
        /\ \A m \in NodeIds : m # n => dir'[m] = dir[m]
        /\ dir'[n].wake # "none"
    BY ListensIs
  <1>2. phase' \in [NodeIds -> Phases] /\ phase' = phase
    BY DEF DirectoryInv
  <1>3. Awake' /\ Live \subseteq Live'
    BY <1>1, <1>2, OneManager
  <1> QED BY <1>1, <1>2, <1>3 DEF DirectoryInv

\* Nothing but sessions, due wake-ups and faults changes.
LEMMA QuietStep ==
    ASSUME DirectoryInv, UNCHANGED <<paths, phase, dir, name>>,
           SessionsTyped', due' \subseteq Live, troubles' \in 0..MaxTroubles
    PROVE  DirectoryInv'
  BY DEF DirectoryInv, Awake, Live

\* A manager begins.
LEMMA StartDirectory ==
    ASSUME DirectoryInv, DirectoryTypes, NEW n \in NodeIds, Start(n)
    PROVE  DirectoryInv'
  <1>1. /\ phase[n] = "off" /\ UNCHANGED <<paths, due, name, dir, link, known, greet>>
        /\ \E p \in {"primary", "gone"} : phase' = [phase EXCEPT ![n] = p]
        /\ troubles' = troubles \/ Trouble
    BY DEF Start, sessions
  <1>2. "primary" \in Names
    BY DEF Names
  <1>3. /\ phase' \in [NodeIds -> Phases] /\ phase'[n] # "listen"
        /\ \A m \in NodeIds : m # n => phase'[m] = phase[m]
    BY <1>1, <1>2 DEF DirectoryInv, Phases
  <1>4. dir' \in [NodeIds -> DirState] /\ dir[n].wake = "none"
    BY <1>1 DEF DirectoryInv, Awake
  <1>5. Awake' /\ Live \subseteq Live'
    BY <1>1, <1>3, <1>4, OneManager
  <1>6. troubles' \in 0..MaxTroubles
    BY <1>1, FaultIs DEF DirectoryInv
  <1> QED BY <1>1, <1>3, <1>4, <1>5, <1>6 DEF DirectoryInv, SessionsTyped

\* Looking for a directory at the start.
LEMMA QueryDirectoryStep ==
    ASSUME DirectoryInv, DirectoryTypes, NEW n \in NodeIds, NEW late0 \in BOOLEAN,
           QueryDirectory(n, late0)
    PROVE  DirectoryInv'
  <1>1. PICK v : v = IF late0 THEN NoView ELSE Answer(phase[n])
    OBVIOUS
  <1>2. /\ phase[n] \in Names
        /\ IF v # NoView
           THEN /\ phase' = [phase EXCEPT ![n] = "listen"]
                /\ Dials(n, v.ids) /\ Listens(Health(State(n)), n)
           ELSE IF phase[n] = "primary"
           THEN phase' = [phase EXCEPT ![n] = "backup"] /\ UNCHANGED <<link, dir, name>>
           ELSE /\ phase' = [phase EXCEPT ![n] = "listen"]
                /\ Listens(BindPrimary(State(n), n), n)
                /\ UNCHANGED link
        /\ Trouble \/ UNCHANGED troubles
        /\ UNCHANGED <<paths, due, known, greet>>
    BY <1>1 DEF QueryDirectory, Names
  <1>3. v \in View /\ v.ids \in SUBSET NodeIds
    <2>1. v \in View
      BY <1>1, <1>2, AnswerIs, NoDirectoryIs
    <2> QED BY <2>1 DEF View
  <1>4. troubles' \in 0..MaxTroubles
    BY <1>2, FaultIs DEF DirectoryInv
  <1>5. phase[n] # "listen"
    BY <1>2 DEF Names
  <1>6. ASSUME NEW s \in Desk, Listens(s, n), phase' = [phase EXCEPT ![n] = "listen"],
               link' \subseteq NodeIds \X NodeIds
        PROVE  DirectoryInv'
    <2>1. /\ dir' \in [NodeIds -> DirState] /\ name' \in NameMap
          /\ \A m \in NodeIds : m # n => dir'[m] = dir[m]
          /\ dir'[n].wake # "none"
      BY <1>6, ListensIs
    <2>2. /\ phase' \in [NodeIds -> Phases] /\ phase'[n] = "listen"
          /\ \A m \in NodeIds : m # n => phase'[m] = phase[m]
      BY <1>6 DEF DirectoryInv, Phases
    <2>3. Awake' /\ Live \subseteq Live'
      BY <2>1, <2>2, OneManager
    <2>4. SessionsTyped'
      BY <1>2, <1>6 DEF DirectoryInv, SessionsTyped
    <2> QED BY <1>2, <1>4, <2>1, <2>2, <2>3, <2>4 DEF DirectoryInv
  <1>7. CASE v # NoView
    <2>1. link' \subseteq NodeIds \X NodeIds
      BY <1>2, <1>3, <1>7, DialIs
    <2>2. Health(State(n)) \in Desk
      BY StateIs, HealthIs
    <2> QED BY <1>2, <1>6, <1>7, <2>1, <2>2
  <1>8. CASE v = NoView /\ phase[n] = "primary"
    <2>1. phase' = [phase EXCEPT ![n] = "backup"] /\ UNCHANGED <<link, dir, name>>
      BY <1>2, <1>8
    <2>2. /\ phase' \in [NodeIds -> Phases] /\ phase'[n] = "backup"
          /\ \A m \in NodeIds : m # n => phase'[m] = phase[m]
      BY <2>1 DEF DirectoryInv, Phases, Names
    <2>3. dir' \in [NodeIds -> DirState] /\ dir[n].wake = "none"
      BY <1>5, <2>1 DEF DirectoryInv, Awake
    <2>4. Awake' /\ Live \subseteq Live'
      BY <1>5, <2>1, <2>2, <2>3, OneManager
    <2>5. SessionsTyped'
      BY <1>2, <2>1 DEF DirectoryInv, SessionsTyped
    <2> QED BY <1>2, <1>4, <2>1, <2>2, <2>3, <2>4, <2>5 DEF DirectoryInv
  <1>9. CASE v = NoView /\ phase[n] # "primary"
    <2>1. link' \subseteq NodeIds \X NodeIds
      BY <1>2, <1>9 DEF DirectoryInv, SessionsTyped
    <2>2. BindPrimary(State(n), n) \in Desk
      BY StateIs, BindPrimaryIs
    <2> QED BY <1>2, <1>6, <1>9, <2>1, <2>2
  <1> QED BY <1>7, <1>8, <1>9

\* A manager that looks at its rank again.
LEMMA ReconciledStep ==
    ASSUME DirectoryInv, DirectoryTypes, NEW n \in NodeIds, NEW K,
           Reconciled(n, K), SessionsTyped', UNCHANGED <<paths, due, phase, troubles>>
    PROVE  DirectoryInv'
  <1>1. troubles' \in 0..MaxTroubles /\ due' \subseteq due /\ due' \subseteq Live
    BY DEF DirectoryInv
  <1>2. CASE phase[n] = "listen"
    <2>1. Reconcile(State(n), n, K) \in Desk
      BY StateIs, ReconcileIs
    <2>2. Listens(Reconcile(State(n), n, K), n)
      BY <1>2 DEF Reconciled
    <2> QED BY <1>1, <1>2, <2>1, <2>2, ListenStep
  <1>3. CASE phase[n] # "listen"
    <2>1. UNCHANGED <<dir, name>>
      BY <1>3 DEF Reconciled
    <2> QED BY <1>1, <2>1, QuietStep
  <1> QED BY <1>2, <1>3

\* Sessions begin and end.
LEMMA SessionReadyDirectory ==
    ASSUME DirectoryInv, DirectoryTypes, NEW n \in NodeIds, NEW m \in NodeIds,
           SessionReady(n, m) \/ PeerClosed(n, m) \/ Replaced(n, m)
    PROVE  DirectoryInv'
  <1>1. /\ \/ known' = [known EXCEPT ![n] = @ \cup {m}] /\ greet' = greet \cup {<<n, m>>}
           \/ known' = [known EXCEPT ![n] = @ \ {m}] /\ greet' = greet
           \/ known' = known /\ greet' = greet
        /\ Reconciled(n, known'[n])
        /\ UNCHANGED <<paths, due, phase, link, troubles>>
    BY DEF SessionReady, PeerClosed, Replaced, sessions
  <1>2. SessionsTyped'
    BY <1>1 DEF DirectoryInv, SessionsTyped
  <1> QED BY <1>1, <1>2, ReconciledStep

\* What a session tells of other nodes.
LEMMA LearnedPeersDirectory ==
    ASSUME DirectoryInv, DirectoryTypes, NEW n \in NodeIds, NEW m \in NodeIds,
           LearnedPeers(n, m)
    PROVE  DirectoryInv'
  <1>1. greet' \subseteq greet /\ UNCHANGED <<paths, due, phase, known, troubles>>
    BY DEF LearnedPeers
  <1>2. troubles' \in 0..MaxTroubles /\ due' \subseteq due /\ due' \subseteq Live
    BY <1>1 DEF DirectoryInv
  <1>3. CASE phase[m] = "listen"
    <2>1. PICK K : K = {k \in known[n] : k > m}
      OBVIOUS
    <2>2. /\ Dials(m, K) /\ Listens(Health(State(m)), m)
          /\ K \in SUBSET NodeIds
      BY <1>3, <2>1 DEF LearnedPeers, DirectoryInv, SessionsTyped
    <2>3. link' \subseteq NodeIds \X NodeIds
      BY <2>2, DialIs
    <2>4. SessionsTyped'
      BY <1>1, <2>3 DEF DirectoryInv, SessionsTyped
    <2>5. Health(State(m)) \in Desk
      BY StateIs, HealthIs
    <2> QED BY <1>1, <1>2, <1>3, <2>2, <2>4, <2>5, ListenStep
  <1>4. CASE phase[m] # "listen"
    <2>1. UNCHANGED <<link, dir, name>>
      BY <1>4 DEF LearnedPeers
    <2>2. SessionsTyped'
      BY <1>1, <2>1 DEF DirectoryInv, SessionsTyped
    <2> QED BY <1>1, <1>2, <2>1, <2>2, QuietStep
  <1> QED BY <1>3, <1>4

\* The wake-up.
LEMMA WakeStep ==
    ASSUME DirectoryInv, DirectoryTypes, NEW n \in NodeIds, Wake(n)
    PROVE  DirectoryInv'
  <1>1. PICK s : s = [State(n) EXCEPT !.d.wake = "none", !.d.soon = FALSE]
    OBVIOUS
  <1>2. PICK t : t = IF dir[n].wake = "probe" THEN SpawnProbe(s)
                     ELSE Reconcile(s, n, known[n])
    OBVIOUS
  <1>3. /\ phase[n] = "listen" /\ due' \subseteq due /\ Listens(t, n)
        /\ UNCHANGED <<paths, phase, link, known, greet, troubles>>
    BY <1>1, <1>2 DEF Wake, sessions
  <1>4. s \in Desk
    <2>1. PICK w : w = State(n)
      OBVIOUS
    <2>2. w \in Desk /\ w.d \in DirState
      BY <2>1, StateIs, DeskIs
    <2>3. PICK d : d = [w.d EXCEPT !.wake = "none"]
      OBVIOUS
    <2>4. d \in DirState
      BY <2>2, <2>3, DirStateIs
    <2>5. [d EXCEPT !.soon = FALSE] \in DirState
      BY <2>4, DirStateIs
    <2>6. PICK r : r = [w EXCEPT !.d = d]
      OBVIOUS
    <2>7. r \in Desk /\ r.d = d
      BY <2>2, <2>4, <2>6, DeskWith
    <2>8. s = [r EXCEPT !.d = [d EXCEPT !.soon = FALSE]]
      BY <1>1, <2>1, <2>3, <2>6, <2>7
    <2> QED BY <2>5, <2>7, <2>8, DeskWith
  <1>5. t \in Desk
    BY <1>2, <1>4, SpawnProbeIs, ReconcileIs
  <1>6. SessionsTyped' /\ troubles' \in 0..MaxTroubles
    BY <1>3 DEF DirectoryInv, SessionsTyped
  <1> QED BY <1>3, <1>5, <1>6, ListenStep

\* The probe task asks.
LEMMA ProbeStep ==
    ASSUME DirectoryInv, DirectoryTypes, NEW n \in NodeIds, NEW L, Probe(n, L)
    PROVE  DirectoryInv'
  <1> DEFINE p == dir[n].probe
             Found(x) == IF x \in L THEN NoView ELSE Answer(x)
             v == Found("primary")
             w == IF "backup" \in p.self THEN Found("backup") ELSE NoView
             q == [p EXCEPT !.at = "done", !.primary = v, !.backup = w]
  <1>1. /\ phase[n] = "listen" /\ dir' = [dir EXCEPT ![n].probe = q]
        /\ UNCHANGED troubles \/ Trouble
        /\ UNCHANGED <<paths, due, name, phase, link, known, greet>>
    BY DEF Probe, sessions
  <1>2. dir[n] \in DirState /\ p \in ProbeState
    BY DirStateIs DEF DirectoryInv
  <1>3. v \in View /\ w \in View
    <2>1. "primary" \in Names /\ "backup" \in Names
      BY DEF Names
    <2> QED BY <2>1, AnswerIs, NoDirectoryIs
  <1> HIDE DEF v, w
  <1>4. q \in ProbeState
    BY <1>2, <1>3 DEF ProbeState
  <1> HIDE DEF q, p
  <1>5. PICK d : d = [dir[n] EXCEPT !.probe = q]
    OBVIOUS
  <1>6. d \in DirState /\ d.wake = dir[n].wake
    <2>1. d \in DirState
      BY <1>2, <1>4, <1>5, DirStateIs
    <2> QED BY <1>2, <1>5, <2>1 DEF DirState
  <1>7. dir' = [dir EXCEPT ![n] = d] /\ dir \in [NodeIds -> DirState]
    BY <1>1, <1>5 DEF DirectoryInv
  <1>8. /\ dir' \in [NodeIds -> DirState] /\ dir'[n].wake = dir[n].wake
        /\ \A m \in NodeIds : m # n => dir'[m] = dir[m]
    BY <1>6, <1>7
  <1>9. Awake' /\ Live' = Live
    BY <1>1, <1>8 DEF DirectoryInv, Awake, Live
  <1>10. troubles' \in 0..MaxTroubles
    BY <1>1, FaultIs DEF DirectoryInv
  <1> QED BY <1>1, <1>8, <1>9, <1>10 DEF DirectoryInv, SessionsTyped

\* The result of a probe.
LEMMA DirectoryProbeStep ==
    ASSUME DirectoryInv, DirectoryTypes, NEW n \in NodeIds, DirectoryProbe(n)
    PROVE  DirectoryInv'
  <1> DEFINE p == dir[n].probe
             view == [x \in Names |-> IF x = "primary" THEN p.primary ELSE p.backup]
             lost == {x \in p.self : view[x].owner # n}
             ids(X) == UNION {view[x].ids : x \in X}
             r == [State(n) EXCEPT !.d.probe = Idle]
             s == Dropped(r, n, lost)
             missed == "primary" \notin p.self /\ p.primary = NoView
             t == [s EXCEPT !.d.misses =
                       IF "primary" \in p.self THEN @
                       ELSE IF missed THEN AtMost(@ + 1, PRIMARY_TAKEOVER_MISSES) ELSE 0]
             gone == ids(lost)
             all == ids(Names)
  <1>1. /\ phase[n] = "listen"
        /\ \/ Dials(n, gone) /\ Listens(Health(s), n)
           \/ Listens(Reconcile(s, n, known[n]), n) /\ UNCHANGED link
           \/ Listens(BindPrimary(t, n), n) /\ UNCHANGED link
           \/ Dials(n, all) /\ Listens(Health(t), n)
        /\ UNCHANGED <<paths, due, phase, known, greet, troubles>>
    BY DEF DirectoryProbe
  <1>2. dir[n] \in DirState /\ p \in ProbeState /\ Idle \in ProbeState
    BY DirStateIs, NoDirectoryIs DEF DirectoryInv
  <1>3. p.self \in SUBSET Names /\ \A x \in Names : view[x] \in View
    BY <1>2 DEF ProbeState, Names
  <1>4. gone \in SUBSET NodeIds /\ all \in SUBSET NodeIds
    <2>1. lost \subseteq Names /\ \A x \in Names : view[x].ids \in SUBSET NodeIds
      BY <1>3 DEF View
    <2> QED BY <2>1 DEF Names
  <1>5. s \in Desk
    <2>1. PICK u, d : u = State(n) /\ d = [u.d EXCEPT !.probe = Idle]
      OBVIOUS
    <2>2. u \in Desk /\ u.d = dir[n]
      BY <2>1, StateIs
    <2>3. d \in DirState
      BY <1>2, <2>1, <2>2, DirStateIs
    <2>4. r = [u EXCEPT !.d = d]
      BY <2>1
    <2>5. r \in Desk
      BY <2>2, <2>3, <2>4, DeskWith
    <2> QED BY <2>5, DroppedIs
  <1>6. t \in Desk
    <2> HIDE DEF s, missed
    <2>1. s.d \in DirState /\ s.d.misses \in 0..PRIMARY_TAKEOVER_MISSES
      BY <1>5, DeskIs, DirStateIs
    <2>2. PICK k : k = IF "primary" \in p.self THEN s.d.misses
                       ELSE IF missed THEN AtMost(s.d.misses + 1, PRIMARY_TAKEOVER_MISSES) ELSE 0
      OBVIOUS
    <2>3. k \in 0..PRIMARY_TAKEOVER_MISSES
      BY <2>1, <2>2, AtMostIs DEF DirectoryTypes
    <2>4. [s.d EXCEPT !.misses = k] \in DirState
      BY <2>1, <2>3, DirStateIs
    <2>5. t = [s EXCEPT !.d = [s.d EXCEPT !.misses = k]]
      BY <2>2
    <2> QED BY <1>5, <2>4, <2>5, DeskWith
  <1> HIDE DEF s, t, gone, all
  <1>7. troubles' \in 0..MaxTroubles /\ due' \subseteq due
    BY <1>1 DEF DirectoryInv
  <1>8. link' \subseteq NodeIds \X NodeIds
    BY <1>1, <1>4, DialIs DEF DirectoryInv, SessionsTyped
  <1>9. SessionsTyped'
    BY <1>1, <1>8 DEF DirectoryInv, SessionsTyped
  <1>10. \E u \in Desk : Listens(u, n)
    BY <1>1, <1>5, <1>6, HealthIs, ReconcileIs, BindPrimaryIs
  <1> QED BY <1>1, <1>7, <1>9, <1>10, ListenStep

\* Links go, and some nodes are to look at their rank soon.
LEMMA CutIs ==
    ASSUME DirectoryInv, NEW L, NEW D \in [NodeIds -> DirState],
           phase' \in [NodeIds -> Phases],
           \A n \in NodeIds : phase'[n] = "listen" <=> D[n].wake # "none",
           known' \in [NodeIds -> SUBSET NodeIds],
           NEW G, G \subseteq NodeIds \X NodeIds, Cut(L, D, G)
    PROVE  dir' \in [NodeIds -> DirState] /\ Awake' /\ SessionsTyped'
  <1> DEFINE alone == {n \in NodeIds : /\ phase'[n] = "listen" /\ known[n] = {}
                                             /\ "primary" \notin D[n].held
                                             /\ \E l \in L \cap link : n \in {l[1], l[2]}}
             E == [n \in NodeIds |-> [D[n] EXCEPT !.wake = "reconcile", !.soon = TRUE]]
  <1>1. /\ link' = link \ L /\ greet' \subseteq G
        /\ \E S \in SUBSET alone :
              dir' = [n \in NodeIds |->
                        IF n \in S THEN [D[n] EXCEPT !.wake = "reconcile", !.soon = TRUE] ELSE D[n]]
    BY DEF Cut
  <1>2. \A n \in alone : phase'[n] = "listen"
    OBVIOUS
  <1> HIDE DEF alone
  <1>3. PICK S : /\ \A n \in S : phase'[n] = "listen"
                 /\ dir' = [n \in NodeIds |-> IF n \in S THEN E[n] ELSE D[n]]
    BY <1>1, <1>2
  <1>4. E \in [NodeIds -> DirState] /\ \A n \in NodeIds : E[n].wake = "reconcile"
    BY DEF DirState
  <1> HIDE DEF E
  <1>5. dir' \in [NodeIds -> DirState]
    BY <1>3, <1>4
  <1>6. ASSUME NEW n \in NodeIds PROVE phase'[n] = "listen" <=> dir'[n].wake # "none"
    <2>1. CASE n \in S
      BY <1>3, <1>4, <2>1
    <2>2. CASE n \notin S
      BY <1>3, <2>2
    <2> QED BY <2>1, <2>2
  <1>7. SessionsTyped'
    BY <1>1 DEF DirectoryInv, SessionsTyped
  <1> QED BY <1>5, <1>6, <1>7 DEF Awake

\* A session is lost.
LEMMA LoseLinkStep ==
    ASSUME DirectoryInv, DirectoryTypes, NEW l, LoseLink(l)
    PROVE  DirectoryInv'
  <1>1. Trouble /\ UNCHANGED <<paths, due, name, phase, known>> /\ Cut({l}, dir, greet)
    BY DEF LoseLink
  <1>2. dir' \in [NodeIds -> DirState] /\ Awake' /\ SessionsTyped'
    <2>1. /\ dir \in [NodeIds -> DirState] /\ phase' \in [NodeIds -> Phases]
          /\ \A n \in NodeIds : phase'[n] = "listen" <=> dir[n].wake # "none"
          /\ known' \in [NodeIds -> SUBSET NodeIds] /\ greet \subseteq NodeIds \X NodeIds
      BY <1>1 DEF DirectoryInv, Awake, SessionsTyped
    <2> QED BY <1>1, <2>1, CutIs
  <1>3. troubles' \in 0..MaxTroubles
    BY <1>1, FaultIs
  <1> QED BY <1>1, <1>2, <1>3 DEF DirectoryInv, Live

\* One of two sessions goes, or both.
LEMMA SettleStep ==
    ASSUME DirectoryInv, NEW n \in NodeIds, NEW m \in NodeIds, Settle(n, m)
    PROVE  DirectoryInv'
  <1>1. /\ UNCHANGED <<paths, due, name, phase, known, troubles>>
        /\ \E L, G : G \subseteq NodeIds \X NodeIds /\ Cut(L, dir, G)
    <2>1. UNCHANGED <<paths, due, name, phase, known, troubles>>
      BY DEF Settle
    <2>2. greet \subseteq NodeIds \X NodeIds
      BY DEF DirectoryInv, SessionsTyped
    <2>3. PICK S : S = {g \in {<<n, m>>, <<m, n>>} : g[2] \in known[g[1]]}
      OBVIOUS
    <2>4. greet \cup S \subseteq NodeIds \X NodeIds
      BY <2>2, <2>3
    <2>5. \/ \E l \in {<<n, m>>, <<m, n>>} : Cut({l}, dir, greet \cup S)
          \/ Cut({<<n, m>>, <<m, n>>}, dir, greet)
      BY <2>3 DEF Settle
    <2>6. ASSUME NEW L, NEW G, Cut(L, dir, G), G \subseteq NodeIds \X NodeIds
          PROVE  \E M, H : H \subseteq NodeIds \X NodeIds /\ Cut(M, dir, H)
      BY <2>6
    <2> QED BY <2>1, <2>2, <2>4, <2>5, <2>6
  <1>2. PICK L, G : G \subseteq NodeIds \X NodeIds /\ Cut(L, dir, G)
    BY <1>1
  <1>3. dir' \in [NodeIds -> DirState] /\ Awake' /\ SessionsTyped'
    <2>1. /\ dir \in [NodeIds -> DirState] /\ phase' \in [NodeIds -> Phases]
          /\ \A k \in NodeIds : phase'[k] = "listen" <=> dir[k].wake # "none"
          /\ known' \in [NodeIds -> SUBSET NodeIds]
      BY <1>1 DEF DirectoryInv, Awake, SessionsTyped
    <2> QED BY <1>2, <2>1, CutIs
  <1> QED BY <1>1, <1>3 DEF DirectoryInv, Live

\* A manager shuts down but keeps its sessions.
LEMMA SoftShutdownDirectory ==
    ASSUME DirectoryInv, DirectoryTypes, NEW n \in NodeIds, SoftShutdownOf(n)
    PROVE  DirectoryInv'
  <1>1. /\ Trouble /\ phase' = [phase EXCEPT ![n] = "soft"]
        /\ name' = Dropped(State(n), n, Names).name
        /\ dir' = [dir EXCEPT ![n] = NoDirectory] /\ due' = due \ {n}
        /\ UNCHANGED <<paths, link, known, greet>>
    BY DEF SoftShutdownOf, sessions, Names
  <1>2. name' \in NameMap
    BY <1>1, StateIs, DroppedIs, DeskIs
  <1>3. /\ phase' \in [NodeIds -> Phases] /\ phase'[n] = "soft"
        /\ \A m \in NodeIds : m # n => phase'[m] = phase[m]
    BY <1>1 DEF DirectoryInv, Phases
  <1>4. /\ dir' \in [NodeIds -> DirState] /\ dir'[n].wake = "none"
        /\ \A m \in NodeIds : m # n => dir'[m] = dir[m]
    BY <1>1, NoDirectoryIs DEF DirectoryInv
  <1>5. Awake'
    BY <1>3, <1>4, OneManager
  <1>6. due' \subseteq Live'
    BY <1>1, <1>3 DEF DirectoryInv, Live
  <1>7. troubles' \in 0..MaxTroubles
    BY <1>1, FaultIs
  <1> QED BY <1>1, <1>2, <1>3, <1>4, <1>5, <1>6, <1>7 DEF DirectoryInv, SessionsTyped

\* A process ends.
LEMMA LeavesIs ==
    ASSUME DirectoryInv, DirectoryTypes, NEW n \in NodeIds, Leaves(n, dir)
    PROVE  /\ phase' \in [NodeIds -> Phases] /\ dir' \in [NodeIds -> DirState]
           /\ Awake' /\ SessionsTyped' /\ Live \ {n} \subseteq Live'
  <1> DEFINE D == [dir EXCEPT ![n] = NoDirectory]
  <1>1. /\ phase' = [phase EXCEPT ![n] = "gone"] /\ known' = [known EXCEPT ![n] = {}]
        /\ Cut(LinksOf(n), D, greet)
    BY DEF Leaves
  <1>2. /\ D \in [NodeIds -> DirState] /\ D[n].wake = "none"
        /\ \A m \in NodeIds : m # n => D[m] = dir[m]
    BY NoDirectoryIs DEF DirectoryInv
  <1>3. /\ phase' \in [NodeIds -> Phases] /\ phase'[n] = "gone"
        /\ \A m \in NodeIds : m # n => phase'[m] = phase[m]
    BY <1>1 DEF DirectoryInv, Phases
  <1>4. known' \in [NodeIds -> SUBSET NodeIds]
    BY <1>1 DEF DirectoryInv, SessionsTyped
  <1>5. ASSUME NEW m \in NodeIds PROVE phase'[m] = "listen" <=> D[m].wake # "none"
    <2>1. CASE m = n
      BY <1>2, <1>3, <2>1
    <2>2. CASE m # n
      BY <1>2, <1>3, <2>2 DEF DirectoryInv, Awake
    <2> QED BY <2>1, <2>2
  <1>6. dir' \in [NodeIds -> DirState] /\ Awake' /\ SessionsTyped'
    <2> HIDE DEF D
    <2>1. greet \subseteq NodeIds \X NodeIds
      BY DEF DirectoryInv, SessionsTyped
    <2> QED BY <1>1, <1>2, <1>3, <1>4, <1>5, <2>1, CutIs
  <1> QED BY <1>3, <1>6 DEF Live

\* The end of a node that has shut down, or of one that crashes.
LEMMA DepartureStep ==
    ASSUME DirectoryInv, DirectoryTypes, NEW n \in NodeIds,
           ShutdownOf(n) \/ Crash(n)
    PROVE  DirectoryInv'
  <1>1. Leaves(n, dir) /\ UNCHANGED paths
    BY DEF ShutdownOf, Crash
  <1>2. /\ phase' \in [NodeIds -> Phases] /\ dir' \in [NodeIds -> DirState]
        /\ Awake' /\ SessionsTyped' /\ Live \ {n} \subseteq Live'
    BY <1>1, LeavesIs
  <1>3. CASE ShutdownOf(n)
    <2>1. phase[n] = "soft" /\ UNCHANGED <<due, name, troubles>>
      BY <1>3 DEF ShutdownOf
    <2>2. n \notin Live
      BY <2>1 DEF Live
    <2> QED BY <1>1, <1>2, <2>1, <2>2 DEF DirectoryInv
  <1>4. CASE Crash(n)
    <2>1. /\ Trouble /\ due' = due \ {n}
          /\ name' = IF paths THEN name
                     ELSE [x \in Names |-> IF name[x] = n THEN Nobody ELSE name[x]]
      BY <1>4 DEF Crash, Names
    <2>2. name' \in NameMap
      BY <2>1 DEF DirectoryInv, NameMap
    <2>3. troubles' \in 0..MaxTroubles
      BY <2>1, FaultIs
    <2> QED BY <1>1, <1>2, <2>1, <2>2, <2>3 DEF DirectoryInv
  <1> QED BY <1>3, <1>4

\* Every step.
LEMMA DirectoryStep ==
    ASSUME DirectoryInv, DirectoryTypes, [DirectoryNext]_directoryVars
    PROVE  DirectoryInv'
  <1>1. CASE UNCHANGED directoryVars
    BY <1>1 DEF directoryVars, sessions, DirectoryInv, Awake, SessionsTyped, Live
  <1>2. CASE \E l \in link : LoseLink(l)
    BY <1>2, LoseLinkStep
  <1>a. CASE \E n, m \in NodeIds : Settle(n, m)
    BY <1>a, SettleStep
  <1>3. CASE Tick
    <2>1. due' = Live /\ UNCHANGED <<paths, name, phase, dir, link, known, greet, troubles>>
      BY <1>3 DEF Tick, sessions
    <2>2. SessionsTyped' /\ troubles' \in 0..MaxTroubles
      BY <2>1 DEF DirectoryInv, SessionsTyped
    <2> QED BY <2>1, <2>2, QuietStep
  <1>4. ASSUME NEW n \in NodeIds,
               \/ Start(n) \/ Manager(n)
               \/ QueryDirectory(n, TRUE) \/ (\E x \in Names : Probe(n, {x}))
               \/ SoftShutdownOf(n) \/ Crash(n)
        PROVE  DirectoryInv'
    <2>1. CASE Start(n)
      BY <2>1, StartDirectory
    <2>2. CASE Manager(n)
      <3>1. \/ QueryDirectory(n, FALSE) \/ Wake(n) \/ Probe(n, {})
            \/ DirectoryProbe(n) \/ ShutdownOf(n)
            \/ \E m \in NodeIds : \/ SessionReady(n, m) \/ PeerClosed(n, m)
                                  \/ Replaced(n, m) \/ LearnedPeers(m, n)
        BY <2>2 DEF Manager
      <3> QED BY <3>1, QueryDirectoryStep, WakeStep, ProbeStep, DirectoryProbeStep, DepartureStep,
                 SessionReadyDirectory, LearnedPeersDirectory
    <2>3. CASE QueryDirectory(n, TRUE)
      BY <2>3, QueryDirectoryStep
    <2>4. CASE \E x \in Names : Probe(n, {x})
      BY <2>4, ProbeStep
    <2>5. CASE SoftShutdownOf(n)
      BY <2>5, SoftShutdownDirectory
    <2>6. CASE Crash(n)
      BY <2>6, DepartureStep
    <2> QED BY <1>4, <2>1, <2>2, <2>3, <2>4, <2>5, <2>6
  <1> QED BY <1>1, <1>2, <1>a, <1>3, <1>4 DEF DirectoryNext

\* At the start nobody runs and no name is held.
LEMMA DirectoryInvInit ==
    ASSUME DirectoryTypes, DirectoryInit
    PROVE  DirectoryInv
  <1>1. Awake
    BY NoDirectoryIs DEF Awake, DirectoryInit
  <1>2. dir \in [NodeIds -> DirState] /\ name \in NameMap /\ phase \in [NodeIds -> Phases]
    BY NoDirectoryIs DEF DirectoryInit, NameMap, Phases, Names
  <1> QED BY <1>1, <1>2 DEF DirectoryInit, DirectoryTypes, DirectoryInv, SessionsTyped

\* Names, managers, probes and sessions keep their types for any number of nodes
\* and faults; the counters of misses and failed binds stop at their limits, and a
\* manager that listens always has a wake-up (schedule_directory_health), through
\* every takeover, shutdown and crash: no manager waits without a timer.
THEOREM DirectoryTypeCorrect == DirectorySpec => []DirectoryTypeOK
  <1>1. DirectoryInit => DirectoryInv
    BY DirectoryInvInit, DirectoryTyped
  <1>2. DirectoryInv /\ [DirectoryNext]_directoryVars => DirectoryInv'
    BY DirectoryStep, DirectoryTyped
  <1>3. DirectoryInv => DirectoryTypeOK
    BY DirectoryInvIs
  <1> QED BY <1>1, <1>2, <1>3, PTL DEF DirectorySpec
=============================================================================
