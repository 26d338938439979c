---------------------------- MODULE IpcDirectory ----------------------------
(***************************************************************************)
(* How the nodes of one machine find each other (peers/ipc/ipc_manager.rs).*)
(* Two well-known socket names, the primary and the backup directory, are  *)
(* held by the oldest node and the next; who connects to one is told its   *)
(* owner and the owner's peers.  A manager looks at the directories when   *)
(* it starts and then with a probe task whenever its wake-up comes.        *)
(*                                                                         *)
(* A session is a link, each end of which hears of its beginning and its   *)
(* end in its own time (IpcSession has its handshake).  Two nodes that     *)
(* dial each other at once have two links for a while, of which one stays, *)
(* or none.  Time is a sequence of rounds, the DIRECTORY_HEALTH_INTERVAL:  *)
(* everybody's wake-up comes once in a round, in any order and between any *)
(* two steps, and the next round begins when nothing is under way (queries *)
(* and handshakes time out well before).                                   *)
(***************************************************************************)
EXTENDS Naturals, FiniteSets

CONSTANTS N,                          \* nodes 1..N start in this order
          MaxLive,                    \* bound: nodes at a time
          Paths,                      \* kinds of names: may they be paths?
          PRIMARY_TAKEOVER_MISSES, DIRECTORY_OVERWRITE_AFTER,
          MaxTroubles                 \* bound: departures, timeouts, lost links

DirectoryTypes ==
    /\ N \in Nat /\ MaxLive \in Nat /\ Paths \subseteq BOOLEAN
    /\ PRIMARY_TAKEOVER_MISSES \in Nat /\ DIRECTORY_OVERWRITE_AFTER \in Nat /\ MaxTroubles \in Nat

ASSUME DirectoryTyped == DirectoryTypes

NodeIds == 1..N    \* older is smaller
Names == {"primary", "backup"}
Nobody == 0

VARIABLES
    paths,    \* are the names paths in the file system (or abstract ones)?
    name,     \* the node whose listener a name leads to
    phase,    \* of a node: "off", the directory it queries first, "listen",
              \* "soft" (shutting_down) or "gone"
    dir,      \* a manager's directory state
    link,     \* <<n, m>>: a session that n has dialled with m
    known,    \* nodes in a manager's list
    greet,    \* <<n, m>>: the session of n with m has yet to send its KnownPeers
    due,      \* nodes whose wake-up comes in this round
    troubles

sessions == <<link, known, greet>>
directoryVars == <<paths, name, phase, dir, sessions, due, troubles>>

NoView == [owner |-> Nobody, ids |-> {}]
View == [owner : NodeIds \cup {Nobody}, ids : SUBSET NodeIds]

\* The probe task: what the manager held when it was spawned, what was found.
Idle == [at |-> "idle", self |-> {}, primary |-> NoView, backup |-> NoView]

NoDirectory == [held |-> {}, misses |-> 0, inUse |-> [x \in Names |-> 0],
                wake |-> "none", soon |-> FALSE, probe |-> Idle]

DirectoryInit ==
    /\ paths \in Paths
    /\ name = [x \in Names |-> Nobody]
    /\ phase = [n \in NodeIds |-> "off"]
    /\ dir = [n \in NodeIds |-> NoDirectory]
    /\ link = {} /\ greet = {} /\ due = {}
    /\ known = [n \in NodeIds |-> {}]
    /\ troubles = 0

Trouble == troubles < MaxTroubles /\ troubles' = troubles + 1

AtMost(i, max) == IF i > max THEN max ELSE i

-----------------------------------------------------------------------------
(* The names.  A step works on the manager's directory state d and the     *)
(* names, in a record s.                                                   *)

State(n) == [d |-> dir[n], name |-> name]

\* Listeners are dropped.  A path is removed, whoever it leads to by now.
Dropped(s, n, X) ==
    [d |-> [s.d EXCEPT !.held = @ \ X],
     name |-> [x \in Names |-> IF x \in X \cap s.d.held /\ (paths \/ s.name[x] = n)
                               THEN Nobody ELSE s.name[x]]]

\* bind_named: only a path can be overwritten.  A bind fails with AddrInUse only.
CanBind(s, x) ==
    \/ s.name[x] = Nobody
    \/ paths /\ s.d.inUse[x] >= DIRECTORY_OVERWRITE_AFTER

Bound(s, n, x) ==
    IF x \in s.d.held THEN s
    ELSE [d |-> [s.d EXCEPT !.held = @ \cup {x}, !.inUse[x] = 0],
          name |-> [s.name EXCEPT ![x] = n]]

\* Mutant of InUse: nothing is counted.
InUseUncounted(s, x) == s

InUse(s, x) == [s EXCEPT !.d.inUse[x] = AtMost(@ + 1, DIRECTORY_OVERWRITE_AFTER)]

\* schedule_directory_health: no wake-up is later than this one, so it only
\* turns the one there is into one that probes.
Health(s) == [s EXCEPT !.d.wake = "probe"]

\* schedule_directory_wake for a bind to be tried again.
Retry(s) == [s EXCEPT !.d.wake = IF @ = "none" THEN "reconcile" ELSE @]

SpawnProbe(s) ==
    IF s.d.probe.at # "idle" THEN s
    ELSE [s EXCEPT !.d.probe = [Idle EXCEPT !.at = "asks", !.self = s.d.held]]

BindPrimary(s, n) ==
    IF "primary" \in s.d.held \/ CanBind(s, "primary")
    THEN Health([Dropped(Bound(s, n, "primary"), n, {"backup"}) EXCEPT !.d.misses = 0])
    ELSE Retry(SpawnProbe(InUse(s, "primary")))

BindBackup(s, n) ==
    LET t == Dropped(s, n, {"primary"})
    IN  IF "backup" \in t.d.held \/ CanBind(t, "backup")
        THEN Health(Bound(t, n, "backup"))
        ELSE Retry(InUse(t, "backup"))

DropDirectoryListeners(s, n) ==
    LET t == Dropped(s, n, Names) IN [t EXCEPT !.d = [NoDirectory EXCEPT !.probe = t.d.probe]]

\* ReconcileDirectory: who is the oldest of those it knows of holds the primary.
Reconcile(s, n, members) ==
    LET rank == Cardinality({m \in members : m < n})
    IN  IF rank = 0 THEN BindPrimary(s, n)
        ELSE IF rank = 1 THEN BindBackup(s, n)
        ELSE DropDirectoryListeners(s, n)

\* Mutant of Listens: without a timer.
ListensIdle(s, n) ==
    /\ dir' = [dir EXCEPT ![n] = s.d]
    /\ name' = s.name

\* Back in Listen, which never waits without a wake-up.
Listens(s, n) ==
    LET t == IF s.d.wake = "none" THEN Health(s) ELSE s
    IN  /\ dir' = [dir EXCEPT ![n] = t.d]
        /\ name' = t.name

\* query_directory: the owner serves it from Listen.
Answer(x) ==
    IF name[x] # Nobody /\ phase[name[x]] = "listen" /\ x \in dir[name[x]].held
    THEN [owner |-> name[x], ids |-> known[name[x]] \cup {name[x]}]
    ELSE NoView

-----------------------------------------------------------------------------
(* Dialling.                                                               *)

\* Mutant of Strangers: only the younger are dialled, from a directory too.
StrangersYounger(n, ids) == {m \in ids \ (known[n] \cup {n}) : <<n, m>> \notin link /\ m > n}

\* Neither in the list nor in pending, which has those that n itself has dialled.
Strangers(n, ids) == {m \in ids \ (known[n] \cup {n}) : <<n, m>> \notin link}

\* DialPeers: connects to those that listen.
Dials(n, ids) == link' = link \cup {<<n, m>> : m \in {k \in Strangers(n, ids) : phase[k] = "listen"}}

\* Creation, StartPeerListener; without a socket of its own the manager ends.
Start(n) ==
    /\ phase[n] = "off"
    /\ \A m \in NodeIds : m < n => phase[m] # "off"
    /\ Cardinality({m \in NodeIds : phase[m] \notin {"off", "gone"}}) < MaxLive
    /\ \/ phase' = [phase EXCEPT ![n] = "primary"] /\ UNCHANGED troubles
       \/ phase' = [phase EXCEPT ![n] = "gone"] /\ Trouble
    /\ UNCHANGED <<paths, due, name, dir, sessions>>

\* QueryDirectory: the primary, then the backup, then be the directory.  Late:
\* the answer takes longer than DIRECTORY_IO_TIMEOUT.
QueryDirectory(n, late) ==
    /\ phase[n] \in Names
    /\ LET v == IF late THEN NoView ELSE Answer(phase[n])
       IN  IF v # NoView
           THEN /\ phase' = [phase EXCEPT ![n] = "listen"]
                /\ Dials(n, v.ids) /\ Listens(Health(State(n)), n)
           ELSE IF phase[n] = "primary"
           THEN phase' = [phase EXCEPT ![n] = "backup"] /\ UNCHANGED <<link, dir, name>>
           ELSE /\ phase' = [phase EXCEPT ![n] = "listen"]
                /\ Listens(BindPrimary(State(n), n), n)
                /\ UNCHANGED link
    /\ IF late THEN Trouble ELSE UNCHANGED troubles
    /\ UNCHANGED <<paths, due, known, greet>>

-----------------------------------------------------------------------------
(* Listen, HandleIpcCommand.                                               *)

Reconciled(n, members) ==
    IF phase[n] = "listen" THEN Listens(Reconcile(State(n), n, members), n)
    ELSE UNCHANGED <<dir, name>>

Runs(n) == phase[n] \in {"listen", "soft"}

Linked(n, m) == <<n, m>> \in link \/ <<m, n>> \in link

\* Each has dialled the other.
Doubled(n, m) == <<n, m>> \in link /\ <<m, n>> \in link

SessionReady(n, m) ==
    /\ Runs(n)
    /\ Linked(n, m) /\ m \in NodeIds \ (known[n] \cup {n})
    /\ known' = [known EXCEPT ![n] = @ \cup {m}]
    /\ greet' = greet \cup {<<n, m>>}
    /\ Reconciled(n, known'[n])
    /\ UNCHANGED <<paths, due, phase, link, troubles>>

PeerClosed(n, m) ==
    /\ Runs(n)
    /\ m \in known[n] /\ ~Linked(n, m)
    /\ known' = [known EXCEPT ![n] = @ \ {m}]
    /\ Reconciled(n, known'[n])
    /\ UNCHANGED <<paths, due, phase, link, greet, troubles>>

\* SessionReady of a second session with a node, PeerClosed of the one that it
\* has replaced: the list names the same nodes.
Replaced(n, m) ==
    /\ Runs(n)
    /\ m \in known[n] /\ Doubled(n, m)
    /\ Reconciled(n, known[n])
    /\ UNCHANGED <<paths, due, phase, sessions, troubles>>

\* SendPeers of the session of n with m, and LearnedPeers at m, which dials the
\* nodes younger than itself.
LearnedPeers(n, m) ==
    /\ <<n, m>> \in greet
    /\ greet' = greet \ {<<n, m>>}
    /\ IF phase[m] = "listen"
       THEN Dials(m, {k \in known[n] : k > m}) /\ Listens(Health(State(m)), m)
       ELSE UNCHANGED <<link, dir, name>>
    /\ UNCHANGED <<paths, due, phase, known, troubles>>

\* The wake-up: time for a probe, or to bind again.
Wake(n) ==
    /\ phase[n] = "listen"
    /\ n \in due \/ dir[n].soon
    /\ due' = IF dir[n].soon THEN due ELSE due \ {n}
    /\ LET s == [State(n) EXCEPT !.d.wake = "none", !.d.soon = FALSE]
       IN  Listens(IF dir[n].wake = "probe" THEN SpawnProbe(s) ELSE Reconcile(s, n, known[n]), n)
    /\ UNCHANGED <<paths, phase, sessions, troubles>>

\* The probe task queries the primary, and the backup if that was held.
Probe(n, late) ==
    LET p == dir[n].probe
        Found(x) == IF x \in late THEN NoView ELSE Answer(x)
    IN  /\ phase[n] = "listen" /\ p.at = "asks"
        /\ dir' = [dir EXCEPT ![n].probe =
                [p EXCEPT !.at = "done", !.primary = Found("primary"),
                          !.backup = IF "backup" \in p.self THEN Found("backup") ELSE NoView]]
        /\ IF late = {} THEN UNCHANGED troubles ELSE Trouble
        /\ UNCHANGED <<paths, due, name, phase, sessions>>

\* Its result.  A name that leads elsewhere is given up; a primary that is not
\* there for PRIMARY_TAKEOVER_MISSES is taken over; whoever is new is dialled.
DirectoryProbe(n) ==
    LET p == dir[n].probe
        view == [x \in Names |-> IF x = "primary" THEN p.primary ELSE p.backup]
        lost == {x \in p.self : view[x].owner # n}
        ids(X) == UNION {view[x].ids : x \in X}
        s == Dropped([State(n) EXCEPT !.d.probe = Idle], n, lost)
        missed == "primary" \notin p.self /\ p.primary = NoView
        t == [s EXCEPT !.d.misses = IF "primary" \in p.self THEN @
                                    ELSE IF missed THEN AtMost(@ + 1, PRIMARY_TAKEOVER_MISSES)
                                    ELSE 0]
    IN  /\ phase[n] = "listen" /\ p.at = "done"
        /\ IF Strangers(n, ids(lost)) # {}
           THEN Dials(n, ids(lost)) /\ Listens(Health(s), n)
           ELSE IF lost # {}
           THEN Listens(Reconcile(s, n, known[n]), n) /\ UNCHANGED link
           ELSE IF missed /\ t.d.misses >= PRIMARY_TAKEOVER_MISSES
           THEN Listens(BindPrimary(t, n), n) /\ UNCHANGED link
           ELSE Dials(n, ids(Names)) /\ Listens(Health(t), n)
        /\ UNCHANGED <<paths, due, phase, known, greet, troubles>>

-----------------------------------------------------------------------------
(* Departures and lost sessions.                                           *)

\* Links go; an end that was not yet ready gets HandshakeFailed, and may then
\* have to be the directory soon if it is alone.  G are the sessions that have
\* yet to send.
Cut(L, D, G) ==
    LET alone == {n \in NodeIds : /\ phase'[n] = "listen" /\ known[n] = {}
                                /\ "primary" \notin D[n].held
                                /\ \E l \in L \cap link : n \in {l[1], l[2]}}
    IN  /\ link' = link \ L
        /\ greet' = {g \in G : Linked(g[1], g[2])'}
        /\ \E S \in SUBSET alone : \* those whose wake-up is later than that
              dir' = [n \in NodeIds |-> IF n \in S THEN [D[n] EXCEPT !.wake = "reconcile", !.soon = TRUE] ELSE D[n]]

LinksOf(n) == {<<n, m>> : m \in NodeIds} \cup {<<m, n>> : m \in NodeIds}

\* Both ends stop the session that another one replaces.  If that is the same
\* one, the other goes on, and with it the nodes tell each other of their peers;
\* otherwise each of them stops the one that the other keeps.
Settle(n, m) ==
    /\ Runs(n)
    /\ m \in known[n] /\ Doubled(n, m)
    /\ UNCHANGED <<paths, due, name, phase, known, troubles>>
    /\ \/ \E l \in {<<n, m>>, <<m, n>>} :
             Cut({l}, dir, greet \cup {g \in {<<n, m>>, <<m, n>>} : g[2] \in known[g[1]]})
       \/ n \in known[m] /\ Cut({<<n, m>>, <<m, n>>}, dir, greet)

LoseLink(l) ==
    /\ l \in link
    /\ Trouble
    /\ UNCHANGED <<paths, due, name, phase, known>>
    /\ Cut({l}, dir, greet)

\* ShuttingDown: the listeners go, the sessions stay.
SoftShutdownOf(n) ==
    /\ phase[n] = "listen"
    /\ Trouble
    /\ phase' = [phase EXCEPT ![n] = "soft"]
    /\ LET s == Dropped(State(n), n, Names)
       IN  name' = s.name /\ dir' = [dir EXCEPT ![n] = NoDirectory]
    /\ due' = due \ {n}
    /\ UNCHANGED <<paths, sessions>>

\* A node without sessions: the process has ended.
Leaves(n, D) ==
    /\ phase' = [phase EXCEPT ![n] = "gone"]
    /\ Cut(LinksOf(n), [D EXCEPT ![n] = NoDirectory], greet)
    /\ known' = [known EXCEPT ![n] = {}]

ShutdownOf(n) ==
    /\ phase[n] = "soft"
    /\ Leaves(n, dir)
    /\ UNCHANGED <<paths, due, name, troubles>>

\* A path stays behind.
Crash(n) ==
    /\ phase[n] = "listen"
    /\ Trouble
    /\ Leaves(n, dir)
    /\ name' = IF paths THEN name ELSE [x \in Names |-> IF name[x] = n THEN Nobody ELSE name[x]]
    /\ due' = due \ {n}
    /\ UNCHANGED paths

-----------------------------------------------------------------------------
Live == {n \in NodeIds : phase[n] = "listen"}

\* The next round.
Tick ==
    /\ Live # {} /\ due = {}
    /\ \A n \in NodeIds : phase[n] \notin Names /\ ~dir[n].soon
                       /\ dir[n].probe.at = "idle"
    /\ greet = {}
    /\ \A n, m \in NodeIds : Runs(n) /\ n # m => ~Doubled(n, m) /\ (Linked(n, m) <=> m \in known[n])
    /\ due' = Live
    /\ UNCHANGED <<paths, name, phase, dir, sessions, troubles>>

\* What a node does by itself.
Manager(n) ==
    \/ QueryDirectory(n, FALSE) \/ Wake(n) \/ Probe(n, {}) \/ DirectoryProbe(n) \/ ShutdownOf(n)
    \/ \E m \in NodeIds : \/ SessionReady(n, m) \/ PeerClosed(n, m) \/ Replaced(n, m)
                         \/ LearnedPeers(m, n)

DirectoryNext ==
    \/ \E n \in NodeIds :
          \/ Start(n) \/ Manager(n)
          \/ QueryDirectory(n, TRUE) \/ (\E x \in Names : Probe(n, {x}))
          \/ SoftShutdownOf(n) \/ Crash(n)
    \/ \E n, m \in NodeIds : Settle(n, m)
    \/ \E l \in link : LoseLink(l)
    \/ Tick

DirectorySpec == DirectoryInit /\ [][DirectoryNext]_directoryVars

\* Timers, tasks and sessions run on.  What there is to do in a round is finite,
\* except that a manager may be busy while a doubled connection lasts, so that it
\* is enough that something is done as long as anything can be.
DirectoryFairSpec ==
    /\ DirectorySpec
    /\ WF_directoryVars(Tick \/ \E n \in NodeIds : Manager(n))
    /\ WF_directoryVars(\E n, m \in NodeIds : Settle(n, m))

-----------------------------------------------------------------------------
(* Properties.                                                             *)

\* The types of the variables; a manager in Listen has a wake-up.
DirectoryTypeOK ==
    /\ paths \in Paths
    /\ name \in [Names -> NodeIds \cup {Nobody}]
    /\ phase \in [NodeIds -> Names \cup {"off", "listen", "soft", "gone"}]
    /\ dir \in [NodeIds ->
          [held : SUBSET Names, misses : 0..PRIMARY_TAKEOVER_MISSES,
           inUse : [Names -> 0..DIRECTORY_OVERWRITE_AFTER],
           wake : {"none", "probe", "reconcile"}, soon : BOOLEAN,
           probe : [at : {"idle", "asks", "done"}, self : SUBSET Names,
                    primary : View, backup : View]]]
    /\ \A n \in NodeIds : phase[n] = "listen" <=> dir[n].wake # "none"
    /\ link \subseteq NodeIds \X NodeIds /\ greet \subseteq NodeIds \X NodeIds
    /\ known \in [NodeIds -> SUBSET NodeIds]
    /\ due \subseteq Live /\ troubles \in 0..MaxTroubles

Directory == name["primary"] \in Live /\ "primary" \in dir[name["primary"]].held

Colliding == \E n, m \in NodeIds : Doubled(n, m)
Meshed == \A n, m \in Live : n # m => m \in known[n]

\* In the end every node that listens has a session with every other, those that
\* start at once, whose directory leaves or whose session is lost included
\* (DialPeers, DirectoryProbe), unless there is no end to nodes that dial each
\* other at once: nothing in the code keeps them from losing both connections,
\* and from doing so again with the next probes.
EventuallyMeshed == <>[]~Colliding => <>[]Meshed

\* The primary name leads, time and again, to a node that serves it, so that a
\* node that starts finds the others; for good where a name cannot be taken from
\* its holder.
DirectoryReturns ==
    /\ []<>(Directory \/ Live = {})
    /\ ~paths => <>[](Directory \/ Live = {})
=============================================================================
