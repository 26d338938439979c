----------------------------- MODULE RouteTable -----------------------------
(***************************************************************************)
(* The route table of one node (routing/linkstate/db/route_table.rs): for  *)
(* every endpoint the kind it was first registered with and the routes to  *)
(* it.  A route leads to a local mpsc channel or to a remote node; the two *)
(* are told apart by membership of Channels.  The operations are pure: they *)
(* return the changed entry and the effect the LsDb has to carry out.      *)
(*                                                                         *)
(* The code keeps the routes of an entry in a Vec.  A channel is created   *)
(* for one registration and add_remote_endpoint updates an origin's route  *)
(* in place, so no two routes of an entry have the same target and a set   *)
(* loses only the insertion order, which the code uses for nothing but the *)
(* choice among routes of equal cost.                                      *)
(***************************************************************************)
EXTENDS Integers

CONSTANTS Channels,   \* the local mpsc channels, one per registration
          Remotes     \* the other nodes

ASSUME TargetsDisjoint == Channels \cap Remotes = {}

Kinds  == {"Unicast", "Anycast", "Broadcast", "Node"}
Realms == {"Process", "Userspace", "LocalNet", "Global"}

\* EndpointInfo: what a registration asks for and what an LSA advertises.
EndpointInfo == [kind : Kinds, realm : Realms, cost : Nat]

LsRoute      == [via : Channels \cup Remotes, cost : Nat, realm : Realms]
LsRouteEntry == [kind : Kinds \cup {"None"}, routes : SUBSET LsRoute]

\* No entry in the HashMap.
NoEntry == [kind |-> "None", routes |-> {}]

IsLocal(r) == r.via \in Channels

Locals(routes) == {r \in routes : IsLocal(r)}

\* RouteTable::routes(): the targets an entry leads to.
Targets(entry) == {r.via : r \in entry.routes}

Cheapest(routes) == {r \in routes : \A q \in routes : r.cost <= q.cost}

\* min_local_cost as a set: empty for None, a singleton for Some(cost).
MinLocalCost(routes) == {r.cost : r \in Cheapest(Locals(routes))}

-----------------------------------------------------------------------------
(* Effects: the LSA work an operation leaves to the LsDb.                  *)
AddLsa       == [lsa |-> "Add", cost |-> {}]
UpdateLsa(c) == [lsa |-> "Update", cost |-> c]
RemoveLsa    == [lsa |-> "Remove", cost |-> {}]
RebuildFib   == [lsa |-> "Rebuild", cost |-> {}]
Noop         == [lsa |-> "Noop", cost |-> {}]

Route(via, info) == [via |-> via, cost |-> info.cost, realm |-> info.realm]

\* table.entry(endpoint).or_insert(..)
OrInsert(entry, kind) ==
    IF entry.kind = "None" THEN [kind |-> kind, routes |-> {}] ELSE entry

PushRoute(entry, r) == [entry EXCEPT !.routes = @ \cup {r}]

\* Mutant of AddRefused: the DuplicateUnicast check is missing.
AddRefusedOnKindOnly(entry, info) == entry.kind # info.kind

\* MismatchedRouteKind and DuplicateUnicast.
AddRefused(entry, info) ==
    \/ entry.kind # info.kind
    \/ entry.kind = "Unicast" /\ entry.routes # {}

AddEffect(entry, info) ==
    CASE info.kind = "Unicast"   -> AddLsa
      [] info.kind = "Anycast"   ->
            LET previous == MinLocalCost(entry.routes)
            IN  IF previous = {} THEN AddLsa
                ELSE IF \A p \in previous : info.cost < p
                     THEN UpdateLsa({info.cost})
                     ELSE Noop
      [] info.kind = "Broadcast" ->
            IF Locals(entry.routes) = {} THEN AddLsa ELSE Noop
      [] OTHER                   -> Noop

\* A local listener registers; a client never asks for kind Node.
AddEndpoint(entry0, info, sender) ==
    LET entry == OrInsert(entry0, info.kind)
    IN  IF AddRefused(entry, info)
        THEN [ok |-> FALSE, entry |-> entry, effect |-> Noop]
        ELSE [ok     |-> TRUE,
              entry  |-> PushRoute(entry, Route(sender, info)),
              effect |-> AddEffect(entry, info)]

\* The route of one channel gets another cost; the effect says whether the
\* cheapest local cost, which is the advertised one, has changed.
SetAnycastCost(entry, sender, cost) ==
    LET mine    == {r \in entry.routes : r.via = sender}
        changed == [entry EXCEPT !.routes =
                      (@ \ mine) \cup {[r EXCEPT !.cost = cost] : r \in mine}]
        now     == MinLocalCost(changed.routes)
        result  == IF entry.kind \notin {"None", "Anycast"} THEN "NotAnycast"
                   ELSE IF mine = {}      THEN "NotRegistered"
                   ELSE IF changed = entry THEN "Unchanged"
                   ELSE "Changed"
    IN  [result |-> result,
         entry  |-> IF result = "Changed" THEN changed ELSE entry,
         effect |-> IF result = "Changed" /\ now # MinLocalCost(entry.routes)
                    THEN UpdateLsa(now) ELSE Noop]

\* DeadLink: every local route whose receiver is gone is dropped, whichever
\* listener sent the message.  A remaining route, local or remote, keeps the
\* entry (and the endpoint's LSA).
RemoveEndpoint(entry, closed) ==
    LET kept == {r \in entry.routes : r.via \notin closed}
        now  == MinLocalCost(kept)
    IN  [entry  |-> IF kept = {} THEN NoEntry ELSE [entry EXCEPT !.routes = kept],
         effect |-> IF entry.kind = "None" THEN Noop
                    ELSE IF kept = {} THEN RemoveLsa
                    ELSE IF /\ entry.kind = "Anycast" /\ now # {}
                            /\ now # MinLocalCost(entry.routes)
                         THEN UpdateLsa(now)
                    ELSE IF kept # entry.routes THEN RebuildFib ELSE Noop]

\* An LSA of another node: its route is updated in place or pushed.
AddRemoteEndpoint(entry0, origin, info) ==
    LET entry == OrInsert(entry0, info.kind)
        old   == {r \in entry.routes : r.via = origin}
    IN  IF \/ entry.kind # info.kind
           \/ old = {} /\ AddRefused(entry, info)
        THEN [ok |-> FALSE, entry |-> entry]
        ELSE [ok    |-> TRUE,
              entry |-> [entry EXCEPT !.routes = (@ \ old) \cup {Route(origin, info)}]]

RemoveRemoteEndpoint(entry, origin) ==
    LET kept == {r \in entry.routes : r.via # origin}
    IN  IF kept = {} THEN NoEntry ELSE [entry EXCEPT !.routes = kept]

=============================================================================
