----------------------------- MODULE Rpc_proofs -----------------------------
(* Proofs about Rpc for any number of clients, depots, calls and messages. *)
EXTENDS Rpc, TLAPS

Message == Replies \cup {Shutdown}
Asked   == [from : Callers, gen : Nat, id : Nat]
Mail    == Asked \cup {Shutdown, Plain}

\* The types of the variables as functions.
Types ==
    /\ router \in {"up", "Stopped"}
    /\ helper \in [Callers -> {"none", "registering", "ready", "waiting", "finished"}]
    /\ gen \in [Callers -> Nat] /\ calls \in [Callers -> Nat] /\ answer \in [Callers -> Nat]
    /\ rx \in [Callers -> Seq(Message)]
    /\ inbox \in [Depots -> Seq(Mail)]
    /\ serving \in [Depots -> Asked \cup {Idle}]
    /\ todo \in [Depots -> BOOLEAN]

\* No channel holds more than it may.
Bounded ==
    /\ \A c \in Callers : Len(rx[c]) <= MailboxCap
    /\ \A e \in Depots : Len(inbox[e]) <= MailboxCap

\* A depot that has a request to make has somebody to make it to.
Chained == \A e \in Depots : todo[e] => Uses[e] # None

TypeInv == Types /\ Bounded /\ Chained

-----------------------------------------------------------------------------
(* Sequences and messages.                                                 *)

\* What Tail takes and keeps.
LEMMA TailOf ==
    ASSUME NEW S, NEW q \in Seq(S), q # <<>>
    PROVE  /\ Tail(q) \in Seq(S) /\ Len(Tail(q)) = Len(q) - 1
           /\ Head(q) = q[1] /\ Head(q) \in S /\ 1 \in 1..Len(q)
           /\ \A i \in 1..Len(Tail(q)) : Tail(q)[i] = q[i + 1] /\ i + 1 \in 1..Len(q)
  OBVIOUS

\* What Append keeps and adds.
LEMMA AppendTo ==
    ASSUME NEW S, NEW q \in Seq(S), NEW x \in S
    PROVE  /\ Append(q, x) \in Seq(S) /\ Len(Append(q, x)) = Len(q) + 1
           /\ \A i \in 1..Len(q) : Append(q, x)[i] = q[i]
           /\ Append(q, x)[Len(q) + 1] = x
  OBVIOUS

\* A request is neither a Shutdown, nor a plain message, nor the mark of an idle
\* depot.
LEMMA AskedIsAsked ==
    ASSUME NEW r \in Asked
    PROVE  r # Shutdown /\ r # Plain /\ r # Idle /\ r.from \in Callers /\ r.gen \in Nat /\ r.id \in Nat
  BY RpcTyped DEF Asked, Shutdown, Plain, Idle

\* Nor are they requests.
LEMMA MarksAreNotAsked == Shutdown \notin Asked /\ Plain \notin Asked /\ Idle \notin Asked
  BY AskedIsAsked

\* A reply is a message and names the request it answers.
LEMMA ReplyIsReply ==
    ASSUME NEW k \in Nat
    PROVE  Reply(k) \in Message /\ Reply(k) # Shutdown /\ Reply(k).id = k
  BY DEF Reply, Message, Replies, Shutdown

\* A message other than Shutdown names a request.
LEMMA MessageIsReply ==
    ASSUME NEW m \in Message, m # Shutdown
    PROVE  m.id \in Nat
  BY DEF Message, Replies

\* A try_send keeps a channel within its type and its capacity; a message that
\* fits is behind the others.
LEMMA TrySendTo ==
    ASSUME NEW S, NEW q \in Seq(S), NEW m \in S, Len(q) <= MailboxCap
    PROVE  /\ TrySend(q, m) \in Seq(S) /\ Len(TrySend(q, m)) <= MailboxCap
           /\ \A i \in 1..Len(TrySend(q, m)) :
                 \/ i \in 1..Len(q) /\ TrySend(q, m)[i] = q[i]
                 \/ i = Len(q) + 1 /\ TrySend(q, m)[i] = m
           /\ \A i \in 1..Len(q) : i \in 1..Len(TrySend(q, m)) /\ TrySend(q, m)[i] = q[i]
  <1>1. CASE Len(q) < MailboxCap
    BY <1>1, AppendTo, RpcTyped DEF TrySend
  <1>2. CASE ~(Len(q) < MailboxCap)
    BY <1>2 DEF TrySend
  <1> QED BY <1>1, <1>2

-----------------------------------------------------------------------------
(* Types.                                                                  *)

\* The types hold at the start.
LEMMA TypeInvInit == Init => TypeInv
  <1> SUFFICES ASSUME Init PROVE TypeInv
    OBVIOUS
  <1>1. Types
    BY DEF Init, Types, None
  <1>2. Bounded /\ Chained
    BY RpcTyped DEF Init, Bounded, Chained
  <1> QED BY <1>1, <1>2 DEF TypeInv

\* Where a reply goes the channel stays well typed.
LEMMA DeliveredTypes ==
    ASSUME TypeInv, NEW c \in Callers, NEW g \in Nat, NEW m \in Message
    PROVE  /\ Delivered(c, g, m) \in [Callers -> Seq(Message)]
           /\ \A d \in Callers : Len(Delivered(c, g, m)[d]) <= MailboxCap
  <1>1. rx \in [Callers -> Seq(Message)] /\ \A d \in Callers : Len(rx[d]) <= MailboxCap
    BY DEF TypeInv, Types, Bounded
  <1>2. TrySend(rx[c], m) \in Seq(Message) /\ Len(TrySend(rx[c], m)) <= MailboxCap
    BY <1>1, TrySendTo
  <1> QED BY <1>1, <1>2 DEF Delivered

\* request keeps the types.
LEMMA RequestTypes ==
    ASSUME TypeInv, NEW c \in Callers, NEW e \in Depots, Request(c, e)
    PROVE  TypeInv'
  <1> USE DEF TypeInv, Types, Bounded, Chained
  <1>1. calls' \in [Callers -> Nat] /\ answer' \in [Callers -> Nat]
    BY DEF Request, None
  <1>2. helper' \in [Callers -> {"none", "registering", "ready", "waiting", "finished"}]
    BY DEF Request, Returned
  <1>3. CASE Len(inbox[e]) < MailboxCap
    <2> DEFINE r == [from |-> c, gen |-> gen[c], id |-> calls'[c]]
    <2>1. r \in Mail
      BY <1>1 DEF Asked, Mail
    <2>2. inbox' = [inbox EXCEPT ![e] = Append(@, r)]
      BY <1>3 DEF Request
    <2>3. /\ Append(inbox[e], r) \in Seq(Mail)
          /\ Len(Append(inbox[e], r)) = Len(inbox[e]) + 1
          /\ Len(inbox[e]) \in Nat
      BY <2>1
    <2> HIDE DEF r
    <2>4. Len(Append(inbox[e], r)) <= MailboxCap
      BY <1>3, <2>3, RpcTyped
    <2> QED BY <1>1, <1>2, <2>2, <2>3, <2>4 DEF Request
  <1>4. CASE ~(Len(inbox[e]) < MailboxCap)
    BY <1>1, <1>2, <1>4 DEF Request
  <1> QED BY <1>3, <1>4

\* Every step keeps the types.
LEMMA TypeInvStep == TypeInv /\ [Next]_vars => TypeInv'
  <1> SUFFICES ASSUME TypeInv, [Next]_vars PROVE TypeInv'
    OBVIOUS
  <1> USE DEF TypeInv, Types, Bounded, Chained
  <1>1. CASE RouterShutdown
    <2>1. ASSUME NEW c \in Callers
          PROVE  TrySend(rx[c], Shutdown) \in Seq(Message)
                 /\ Len(TrySend(rx[c], Shutdown)) <= MailboxCap
      BY TrySendTo DEF Message
    <2>2. ASSUME NEW e \in Depots
          PROVE  TrySend(inbox[e], Shutdown) \in Seq(Mail)
                 /\ Len(TrySend(inbox[e], Shutdown)) <= MailboxCap
      BY TrySendTo DEF Mail
    <2> QED BY <1>1, <2>1, <2>2 DEF RouterShutdown
  <1>2. ASSUME NEW c \in Callers, RpcHelper(c) PROVE TypeInv'
    BY <1>2 DEF RpcHelper, work
  <1>3. ASSUME NEW c \in Callers, RegisterEndpoint(c) PROVE TypeInv'
    BY <1>3 DEF RegisterEndpoint, work
  <1>4. ASSUME NEW c \in Callers, Receive(c) PROVE TypeInv'
    <2>1. /\ Head(rx[c]) \in Message /\ Tail(rx[c]) \in Seq(Message)
          /\ Len(Tail(rx[c])) <= MailboxCap
      BY <1>4, TailOf, RpcTyped DEF Receive
    <2>2. Head(rx[c]) # Shutdown => Head(rx[c]).id \in Nat
      BY <2>1, MessageIsReply
    <2> QED BY <1>4, <2>1, <2>2 DEF Receive, Returned, work
  <1>5. ASSUME NEW c \in Callers, Dropped(c), UNCHANGED <<inbox, serving>>,
               todo' \in [Depots -> BOOLEAN], \A e \in Depots : todo'[e] => todo[e]
        PROVE  TypeInv'
    BY <1>5, RpcTyped DEF Dropped
  <1>6. ASSUME NEW c \in Clients, Client(c) PROVE TypeInv'
    <2>1. c \in Callers
      BY DEF Callers
    <2>2. CASE Abandons(c)
      BY <1>5, <2>1, <2>2 DEF Abandons, Returned, work
    <2> QED BY <1>2, <1>5, <1>6, <2>1, <2>2, RequestTypes DEF Client, work
  <1>7. ASSUME NEW e \in Depots, DepotRecv(e) PROVE TypeInv'
    <2>1. /\ Head(inbox[e]) \in Mail
          /\ Tail(inbox[e]) \in Seq(Mail)
          /\ Len(Tail(inbox[e])) <= MailboxCap
      BY <1>7, TailOf, RpcTyped DEF DepotRecv
    <2>2. Unreadable(Head(inbox[e])) \/ Head(inbox[e]) \in Asked
      BY <2>1 DEF Unreadable, Mail
    <2> QED BY <1>7, <2>1, <2>2 DEF DepotRecv, call
  <1>8. ASSUME NEW e \in Depots, OnRequest(e) PROVE TypeInv'
    <2>1. e \in Callers /\ Uses[e] \in Depots
      BY <1>8, RpcTyped DEF OnRequest, Callers
    <2> QED BY <1>2, <1>5, <1>8, <2>1, RequestTypes DEF OnRequest
  <1>9. ASSUME NEW e \in Depots, DepotReply(e) PROVE TypeInv'
    <2> DEFINE r == serving[e]
    <2>1. r \in Asked
      BY <1>9 DEF DepotReply
    <2>2. r.from \in Callers /\ r.gen \in Nat /\ Reply(r.id) \in Message
      BY <2>1, AskedIsAsked, ReplyIsReply
    <2>3. rx' \in [Callers -> Seq(Message)] /\ \A c \in Callers : Len(rx'[c]) <= MailboxCap
      BY <1>9, <2>2, DeliveredTypes DEF DepotReply
    <2> QED BY <1>9, <2>3 DEF DepotReply
  <1>10. ASSUME NEW e \in Depots, Send(e) PROVE TypeInv'
    <2>1. TrySend(inbox[e], Plain) \in Seq(Mail) /\ Len(TrySend(inbox[e], Plain)) <= MailboxCap
      BY TrySendTo DEF Mail
    <2> QED BY <1>10, <2>1 DEF Send, call
  <1>11. CASE UNCHANGED vars
    BY <1>11 DEF vars, call, work
  <1> QED
    BY <1>1, <1>3, <1>4, <1>6, <1>7, <1>8, <1>9, <1>10, <1>11, RpcTyped DEF Next, Depot

\* The variables keep their types and no channel holds more than it may, also
\* when a request, a reply and the shutdown meet in a full one (try_send).
THEOREM TypeCorrect == Spec => []TypeOK
  <1>1. TypeInv => TypeOK
    BY DEF TypeInv, Types, Bounded, TypeOK, Message, Mail, Asked, Idle
  <1> QED BY <1>1, TypeInvInit, TypeInvStep, PTL DEF Spec

-----------------------------------------------------------------------------
(* What keeps requests and replies apart.                                  *)

\* A request in a depot's channel, or at 0 the one that it serves.
At(e, i) == IF i = 0 THEN serving[e] ELSE inbox[e][i]
Places(e) == 0..Len(inbox[e])

SameCall(r, s) == r.from = s.from /\ r.id = s.id

\* A request is in one place only.
Unique ==
    \A e, f \in Depots : \A i \in Places(e), j \in Places(f) :
        /\ At(e, i) \in Asked /\ At(f, j) \in Asked
        /\ SameCall(At(e, i), At(f, j))
        => e = f /\ i = j

\* Requests carry the number of a call that was made and of a helper that was.
Numbered ==
    \A r \in Requests : r.gen <= gen[r.from] /\ r.id <= calls[r.from]

\* While a helper may still be used there is no other request of it than the one
\* it waits for.
Current ==
    \A r \in Requests :
        r.gen = gen[r.from] /\ helper[r.from] \in {"registering", "ready", "waiting"}
            => helper[r.from] = "waiting" /\ r.id = calls[r.from]

\* In the channel of such a helper there is no reply but to that request, only
\* one, and only if the request has been served.
Answers ==
    \A c \in Callers :
        /\ helper[c] \in {"none", "registering"} => rx[c] = <<>>
        /\ \A i \in 1..Len(rx[c]) : rx[c][i] # Shutdown =>
             /\ helper[c] # "ready"
             /\ helper[c] = "waiting" =>
                  /\ rx[c][i].id = calls[c]
                  /\ \A j \in 1..Len(rx[c]) : rx[c][j] # Shutdown => i = j
                  /\ \A r \in Requests : r.from = c => r.id # calls[c]

IInv == TypeInv /\ Unique /\ Numbered /\ Current /\ Answers

\* Requests are what is in these places.
LEMMA RequestsAt ==
    ASSUME Types
    PROVE  Requests = {r \in Asked : \E e \in Depots : \E i \in Places(e) : At(e, i) = r}
  <1>1. ASSUME NEW r \in Requests
        PROVE  r \in Asked /\ \E e \in Depots : \E i \in Places(e) : At(e, i) = r
    <2>1. PICK e \in Depots :
             r \in {serving[e]} \cup { inbox[e][i] : i \in 1..Len(inbox[e]) }
      BY DEF Requests
    <2>2. r # Idle /\ r # Shutdown /\ r # Plain
      BY DEF Requests
    <2>3. CASE r = serving[e]
      <3>1. 0 \in Places(e) /\ At(e, 0) = serving[e]
        BY DEF Types, At, Places
      <3>2. serving[e] \in Asked \cup {Idle}
        BY DEF Types
      <3> QED BY <2>2, <2>3, <3>1, <3>2
    <2>4. CASE r # serving[e]
      <3>1. PICK i \in 1..Len(inbox[e]) : r = inbox[e][i]
        BY <2>1, <2>4
      <3>2. i \in Places(e) /\ At(e, i) = inbox[e][i]
        BY DEF Types, At, Places
      <3>3. inbox[e][i] \in Mail
        BY DEF Types
      <3> QED BY <2>2, <3>1, <3>2, <3>3 DEF Mail
    <2> QED BY <2>3, <2>4
  <1>2. ASSUME NEW r \in Asked, NEW e \in Depots, NEW i \in Places(e), At(e, i) = r
        PROVE  r \in Requests
    <2>1. r # Idle /\ r # Shutdown /\ r # Plain
      BY AskedIsAsked
    <2>2. r \in {serving[e]} \cup { inbox[e][j] : j \in 1..Len(inbox[e]) }
      BY <1>2 DEF At, Places, Types
    <2> QED BY <2>1, <2>2 DEF Requests
  <1> QED BY <1>1, <1>2

\* The requests on their way after a step are those found at some place of a depot.
LEMMA RequestsAtNext ==
    ASSUME Types'
    PROVE  Requests' = {r \in Asked : \E e \in Depots : \E i \in Places(e)' : At(e, i)' = r}
  <1>1. ASSUME NEW r \in Requests'
        PROVE  r \in Asked /\ \E e \in Depots : \E i \in Places(e)' : At(e, i)' = r
    <2>1. PICK e \in Depots :
             r \in {serving'[e]} \cup { inbox'[e][i] : i \in 1..Len(inbox'[e]) }
      BY DEF Requests
    <2>2. r # Idle /\ r # Shutdown /\ r # Plain
      BY DEF Requests
    <2>3. CASE r = serving'[e]
      <3>1. 0 \in Places(e)' /\ At(e, 0)' = serving'[e]
        BY DEF Types, At, Places
      <3>2. serving'[e] \in Asked \cup {Idle}
        BY DEF Types
      <3> QED BY <2>2, <2>3, <3>1, <3>2
    <2>4. CASE r # serving'[e]
      <3>1. PICK i \in 1..Len(inbox'[e]) : r = inbox'[e][i]
        BY <2>1, <2>4
      <3>2. i \in Places(e)' /\ At(e, i)' = inbox'[e][i]
        BY DEF Types, At, Places
      <3>3. inbox'[e][i] \in Mail
        BY DEF Types
      <3> QED BY <2>2, <3>1, <3>2, <3>3 DEF Mail
    <2> QED BY <2>3, <2>4
  <1>2. ASSUME NEW r \in Asked, NEW e \in Depots, NEW i \in Places(e)', At(e, i)' = r
        PROVE  r \in Requests'
    <2>1. r # Idle /\ r # Shutdown /\ r # Plain
      BY AskedIsAsked
    <2>2. r \in {serving'[e]} \cup { inbox'[e][j] : j \in 1..Len(inbox'[e]) }
      BY <1>2 DEF At, Places, Types
    <2> QED BY <2>1, <2>2 DEF Requests
  <1> QED BY <1>1, <1>2

\* The invariant holds at the start.
LEMMA IInvInit == Init => IInv
  <1> SUFFICES ASSUME Init PROVE IInv
    OBVIOUS
  <1>1. TypeInv
    BY TypeInvInit
  <1>2. \A e \in Depots : \A i \in Places(e) : At(e, i) = Idle
    BY DEF Init, Places, At
  <1>3. Unique
    BY <1>2, MarksAreNotAsked DEF Unique
  <1>4. Requests = {}
    BY <1>1, <1>2, RequestsAt, MarksAreNotAsked DEF TypeInv
  <1>5. Numbered /\ Current
    BY <1>4 DEF Numbered, Current
  <1>6. Answers
    BY DEF Answers, Init
  <1> QED BY <1>1, <1>3, <1>5, <1>6 DEF IInv

\* A step that leaves the depots alone.
LEMMA DepotsAlone ==
    ASSUME IInv, UNCHANGED <<inbox, serving>>
    PROVE  Requests' = Requests /\ Unique'
  <1>1. Requests' = Requests
    BY DEF Requests
  <1>2. Unique'
    BY DEF IInv, Unique, At, Places
  <1> QED BY <1>1, <1>2

\* The fields of the request a caller makes.
LEMMA RequestFields ==
    ASSUME Types, NEW r \in Requests
    PROVE  r \in Asked /\ r.from \in Callers /\ r.gen \in Nat /\ r.id \in Nat
  BY RequestsAt, AskedIsAsked

-----------------------------------------------------------------------------
(* The steps of a caller.                                                  *)

\* rpc_helper keeps the invariant.
LEMMA RpcHelperStep ==
    ASSUME IInv, TypeInv', NEW c \in Callers, RpcHelper(c), UNCHANGED <<inbox, serving>>
    PROVE  IInv'
  <1>1. Requests' = Requests /\ Unique'
    BY DepotsAlone
  <1>2. \A r \in Requests : r.from \in Callers /\ r.gen \in Nat
    BY RequestFields DEF IInv, TypeInv
  <1>3. Numbered'
    BY <1>1, <1>2 DEF IInv, TypeInv, Types, Numbered, RpcHelper
  <1>4. Current'
    BY <1>1, <1>2 DEF IInv, TypeInv, Types, Numbered, Current, RpcHelper
  <1>5. Answers'
    BY <1>1 DEF IInv, TypeInv, Types, Answers, RpcHelper
  <1> QED BY <1>1, <1>3, <1>4, <1>5 DEF IInv

\* The registration of a caller's reply endpoint keeps the invariant.
LEMMA RegisterStep ==
    ASSUME IInv, TypeInv', NEW c \in Callers, RegisterEndpoint(c)
    PROVE  IInv'
  <1>1. Requests' = Requests /\ Unique'
    BY DepotsAlone DEF RegisterEndpoint, work
  <1>2. \A r \in Requests : r.from \in Callers /\ r.gen \in Nat
    BY RequestFields DEF IInv, TypeInv
  <1>3. Numbered'
    BY <1>1, <1>2 DEF IInv, Numbered, RegisterEndpoint
  <1>4. Current'
    BY <1>1, <1>2 DEF IInv, TypeInv, Types, Current, RegisterEndpoint
  <1>5. Answers'
    BY <1>1 DEF IInv, TypeInv, Types, Answers, RegisterEndpoint
  <1> QED BY <1>1, <1>3, <1>4, <1>5 DEF IInv

\* Dropping a helper keeps the invariant.
LEMMA DroppedStep ==
    ASSUME IInv, TypeInv', NEW c \in Callers, Dropped(c), UNCHANGED <<inbox, serving>>
    PROVE  IInv'
  <1>1. Requests' = Requests /\ Unique'
    BY DepotsAlone
  <1>2. \A r \in Requests : r.from \in Callers /\ r.gen \in Nat
    BY RequestFields DEF IInv, TypeInv
  <1>3. Numbered'
    BY <1>1, <1>2 DEF IInv, Numbered, Dropped
  <1>4. Current'
    BY <1>1, <1>2 DEF IInv, TypeInv, Types, Current, Dropped
  <1>5. Answers'
    BY <1>1 DEF IInv, TypeInv, Types, Answers, Dropped
  <1> QED BY <1>1, <1>3, <1>4, <1>5 DEF IInv

\* Clients that keep a helper see their requests through and stop after a shutdown.
\* A helper that is used again after a request was given up, or after it was told
\* of the shutdown, takes the late reply for the next one's.
HelpersAreSeenThrough == Reusing \subseteq Patient

\* A caller's receive keeps the invariant.
LEMMA ReceiveStep ==
    ASSUME HelpersAreSeenThrough, IInv, TypeInv', NEW c \in Callers, Receive(c)
    PROVE  IInv'
  <1>1. Requests' = Requests /\ Unique'
    BY DepotsAlone DEF Receive, work
  <1>2. \A r \in Requests : r.from \in Callers /\ r.gen \in Nat
    BY RequestFields DEF IInv, TypeInv
  <1>3. Numbered'
    BY <1>1, <1>2 DEF IInv, Numbered, Receive
  <1>4. /\ Head(rx[c]) = rx[c][1] /\ 1 \in 1..Len(rx[c])
        /\ \A i \in 1..Len(Tail(rx[c])) :
              Tail(rx[c])[i] = rx[c][i + 1] /\ i + 1 \in 1..Len(rx[c]) /\ i + 1 # 1
    BY TailOf DEF IInv, TypeInv, Types, Receive
  <1>5. helper' \in [Callers -> {"none", "registering", "ready", "waiting", "finished"}]
    BY DEF TypeInv, Types
  <1>6. /\ helper[c] = "waiting" /\ helper'[c] \in {"ready", "finished"}
        /\ helper'[c] = "ready" => Head(rx[c]) # Shutdown
        /\ \A d \in Callers : d # c => helper'[d] = helper[d]
    BY DEF Receive, Returned, HelpersAreSeenThrough, IInv, TypeInv, Types
  <1>7. Current'
    <2> SUFFICES ASSUME NEW r \in Requests, r.gen = gen[r.from],
                        helper'[r.from] \in {"registering", "ready", "waiting"}
                 PROVE  helper'[r.from] = "waiting" /\ r.id = calls[r.from]
      BY <1>1 DEF Current, Receive
    <2>1. CASE r.from = c
      BY <1>4, <1>6, <2>1 DEF IInv, Current, Answers
    <2>2. CASE r.from # c
      BY <1>2, <1>6, <2>2 DEF IInv, Current
    <2> QED BY <2>1, <2>2
  <1>8. Answers'
    <2> SUFFICES ASSUME NEW d \in Callers
                 PROVE  /\ helper'[d] \in {"none", "registering"} => rx'[d] = <<>>
                        /\ \A i \in 1..Len(rx'[d]) : rx'[d][i] # Shutdown =>
                             /\ helper'[d] # "ready"
                             /\ helper'[d] = "waiting" =>
                                  /\ rx'[d][i].id = calls[d]
                                  /\ \A j \in 1..Len(rx'[d]) : rx'[d][j] # Shutdown => i = j
                                  /\ \A r \in Requests : r.from = d => r.id # calls[d]
      BY <1>1 DEF Answers, Receive
    <2>1. CASE d # c
      <3>1. rx'[d] = rx[d] /\ helper'[d] = helper[d]
        BY <1>6, <2>1 DEF Receive, IInv, TypeInv, Types
      <3> QED BY <3>1 DEF IInv, Answers
    <2>2. CASE d = c
      <3>1. rx'[c] = Tail(rx[c])
        BY DEF Receive, IInv, TypeInv, Types
      <3>2. ASSUME NEW i \in 1..Len(Tail(rx[c])), Tail(rx[c])[i] # Shutdown
            PROVE  helper'[c] # "ready"
        BY <1>4, <1>6, <3>2 DEF IInv, Answers
      <3> QED BY <1>6, <2>2, <3>1, <3>2
    <2> QED BY <2>1, <2>2
  <1> QED BY <1>1, <1>3, <1>7, <1>8 DEF IInv

\* The effect of a request on the depots: it is refused, or is in a new place with
\* a number that no other request of its caller has.
LEMMA RequestPlaces ==
    ASSUME IInv, TypeInv', NEW c \in Callers, NEW e \in Depots, Request(c, e),
           Len(inbox[e]) < MailboxCap
    PROVE  LET new == [from |-> c, gen |-> gen[c], id |-> calls[c] + 1]
           IN  Requests' = Requests \cup {new} /\ new \in Asked /\ Unique'
  <1>0. PICK new, k : /\ new = [from |-> c, gen |-> gen[c], id |-> calls[c] + 1]
                      /\ k = Len(inbox[e]) + 1
    OBVIOUS
  <1>1. new \in Asked /\ new.from = c /\ new.id = calls[c] + 1
    BY <1>0 DEF IInv, TypeInv, Types, Asked
  <1>2. inbox' = [inbox EXCEPT ![e] = Append(@, new)] /\ serving' = serving
    BY <1>0 DEF Request, IInv, TypeInv, Types
  <1>3. /\ inbox[e] \in Seq(Mail) /\ Len(inbox[e]) \in Nat
        /\ inbox \in [Depots -> Seq(Mail)]
    BY DEF IInv, TypeInv, Types
  <1>4. /\ inbox'[e] = Append(inbox[e], new)
        /\ \A f \in Depots : f # e => inbox'[f] = inbox[f]
    BY <1>2, <1>3
  <1>5. /\ \A f \in Depots : \A i \in Places(f)' :
              \/ f = e /\ i = k /\ At(f, i)' = new
              \/ i \in Places(f) /\ At(f, i)' = At(f, i)
        /\ \A f \in Depots : \A i \in Places(f) : i \in Places(f)' /\ At(f, i)' = At(f, i)
        /\ k \in Places(e)' /\ At(e, k)' = new
    <2>1. ASSUME NEW f \in Depots, f # e
          PROVE  Places(f)' = Places(f) /\ \A i \in Places(f) : At(f, i)' = At(f, i)
      BY <1>2, <1>4, <2>1 DEF Places, At
    <2>2. /\ Len(inbox'[e]) = k
          /\ \A i \in 1..Len(inbox[e]) : inbox'[e][i] = inbox[e][i]
          /\ inbox'[e][k] = new
      BY <1>0, <1>1, <1>3, <1>4, AppendTo DEF Mail
    <2>3. \A i \in Places(e)' : \/ i = k /\ At(e, i)' = new
                                \/ i \in Places(e) /\ At(e, i)' = At(e, i)
      BY <1>0, <1>2, <1>3, <2>2 DEF Places, At
    <2>4. \A i \in Places(e) : i \in Places(e)' /\ At(e, i)' = At(e, i)
      BY <1>0, <1>2, <1>3, <2>2 DEF Places, At
    <2>5. k \in Places(e)' /\ At(e, k)' = new
      BY <1>0, <1>3, <2>2 DEF Places, At
    <2> QED BY <2>1, <2>3, <2>4, <2>5
  <1>6. Requests = {r \in Asked : \E f \in Depots : \E i \in Places(f) : At(f, i) = r}
    BY RequestsAt DEF IInv, TypeInv
  <1>7. Requests' = {r \in Asked : \E f \in Depots : \E i \in Places(f)' : At(f, i)' = r}
    BY RequestsAtNext DEF TypeInv
  <1>8. Requests' = Requests \cup {new}
    <2>1. ASSUME NEW r \in Requests' PROVE r \in Requests \cup {new}
      BY <1>5, <1>6, <1>7
    <2>2. ASSUME NEW r \in Requests PROVE r \in Requests'
      BY <1>5, <1>6, <1>7
    <2>3. new \in Requests'
      BY <1>1, <1>5, <1>7
    <2> QED BY <2>1, <2>2, <2>3
  <1>9. \A r \in Requests : ~SameCall(r, new) /\ ~SameCall(new, r)
    <2> SUFFICES ASSUME NEW r \in Requests, r.from = c, r.id = calls[c] + 1 PROVE FALSE
      BY <1>1 DEF SameCall
    <2>1. r.id <= calls[c]
      BY DEF IInv, Numbered
    <2> QED BY <2>1 DEF IInv, TypeInv, Types
  <1>10. Unique'
    <2> SUFFICES ASSUME NEW f \in Depots, NEW g \in Depots, NEW i \in Places(f)',
                        NEW j \in Places(g)', At(f, i)' \in Asked, At(g, j)' \in Asked,
                        SameCall(At(f, i)', At(g, j)')
                 PROVE  f = g /\ i = j
      BY DEF Unique, SameCall
    <2>1. CASE f = e /\ i = k /\ At(f, i)' = new /\ g = e /\ j = k
      BY <2>1
    <2>2. CASE At(f, i)' = new /\ j \in Places(g) /\ At(g, j)' = At(g, j)
      BY <1>6, <1>9, <2>2
    <2>3. CASE At(g, j)' = new /\ i \in Places(f) /\ At(f, i)' = At(f, i)
      BY <1>6, <1>9, <2>3
    <2>4. CASE /\ i \in Places(f) /\ At(f, i)' = At(f, i)
               /\ j \in Places(g) /\ At(g, j)' = At(g, j)
      BY <2>4 DEF IInv, Unique
    <2> QED BY <1>5, <2>1, <2>2, <2>3, <2>4
  <1> QED BY <1>0, <1>1, <1>8, <1>10

\* Another call does not take the number of an earlier request.
LEMMA CallsGrow ==
    ASSUME IInv, NEW c \in Callers, NEW e \in Depots, Request(c, e), NEW r \in Requests
    PROVE  r.id <= calls'[r.from]
  <1>1. r.from \in Callers /\ r.id \in Nat /\ r.id <= calls[r.from]
    BY RequestFields DEF IInv, TypeInv, Numbered
  <1>2. calls[r.from] \in Nat /\ calls'[r.from] \in {calls[r.from], calls[r.from] + 1}
    BY <1>1 DEF Request, IInv, TypeInv, Types
  <1> QED BY <1>1, <1>2

\* request keeps the invariant: its message has a new generation or id.
LEMMA RequestStep ==
    ASSUME IInv, TypeInv', NEW c \in Callers, NEW e \in Depots, Request(c, e)
    PROVE  IInv'
  <1>1. \A r \in Requests : r.from \in Callers /\ r.gen \in Nat /\ r.id \in Nat
    BY RequestFields DEF IInv, TypeInv
  <1>2. /\ calls[c] \in Nat /\ calls'[c] = calls[c] + 1
        /\ \A d \in Callers : d # c => calls'[d] = calls[d]
        /\ gen' = gen /\ rx' = rx /\ helper[c] = "ready"
        /\ \A d \in Callers : d # c => helper'[d] = helper[d]
    BY DEF Request, Returned, IInv, TypeInv, Types
  <1>3. \A i \in 1..Len(rx[c]) : rx[c][i] = Shutdown
    BY <1>2 DEF IInv, Answers
  <1>4. \A r \in Requests : r.from = c => r.gen # gen[c]
    BY <1>2 DEF IInv, Current
  <1>5. CASE Len(inbox[e]) < MailboxCap
    <2> DEFINE new == [from |-> c, gen |-> gen[c], id |-> calls[c] + 1]
    <2>1. Requests' = Requests \cup {new} /\ Unique'
      BY <1>5, RequestPlaces
    <2>2. new.from = c /\ new.gen = gen[c] /\ new.id = calls[c] + 1
      OBVIOUS
    <2> HIDE DEF new
    <2>3. helper'[c] = "waiting"
      BY <1>5 DEF Request, IInv, TypeInv, Types
    <2>4. Numbered'
      <3> SUFFICES ASSUME NEW r \in Requests \cup {new}
                   PROVE  r.gen <= gen[r.from] /\ r.id <= calls'[r.from]
        BY <1>2, <2>1 DEF Numbered
      <3>1. CASE r \in Requests
        BY <3>1, CallsGrow DEF IInv, Numbered
      <3>2. CASE r = new
        BY <1>2, <2>2, <3>2 DEF IInv, TypeInv, Types
      <3> QED BY <3>1, <3>2
    <2>5. Current'
      BY <1>1, <1>2, <1>4, <2>1, <2>2, <2>3 DEF IInv, Current
    <2>6. Answers'
      <3> SUFFICES ASSUME NEW d \in Callers
                   PROVE  /\ helper'[d] \in {"none", "registering"} => rx[d] = <<>>
                          /\ \A i \in 1..Len(rx[d]) : rx[d][i] # Shutdown =>
                               /\ helper'[d] # "ready"
                               /\ helper'[d] = "waiting" =>
                                    /\ rx[d][i].id = calls'[d]
                                    /\ \A j \in 1..Len(rx[d]) : rx[d][j] # Shutdown => i = j
                                    /\ \A r \in Requests' : r.from = d => r.id # calls'[d]
        BY <1>2 DEF Answers
      <3>1. CASE d = c
        BY <1>3, <2>3, <3>1
      <3>2. CASE d # c
        BY <1>2, <2>1, <2>2, <3>2 DEF IInv, Answers
      <3> QED BY <3>1, <3>2
    <2> QED BY <2>1, <2>4, <2>5, <2>6 DEF IInv
  <1>6. CASE ~(Len(inbox[e]) < MailboxCap)
    <2>1. Requests' = Requests /\ Unique'
      BY <1>6, DepotsAlone DEF Request
    <2>2. helper'[c] \in {"ready", "finished"}
      BY <1>6 DEF Request, Returned, IInv, TypeInv, Types
    <2>3. Numbered'
      BY <1>2, <2>1, CallsGrow DEF IInv, Numbered
    <2>4. Current'
      BY <1>1, <1>2, <1>4, <2>1, <2>2 DEF IInv, Current
    <2>5. Answers'
      BY <1>2, <1>3, <2>1, <2>2 DEF IInv, Answers
    <2> QED BY <2>1, <2>3, <2>4, <2>5 DEF IInv
  <1> QED BY <1>5, <1>6

-----------------------------------------------------------------------------
(* The steps of a depot and of the router.                                 *)

\* Does the depot throw a request away?
Throws(e) == Head(inbox[e]) \in Asked /\ Unreadable(Head(inbox[e]))

\* A request that a depot takes from its channel is the one it serves then, or is
\* nowhere any more.
LEMMA DepotRecvPlaces ==
    ASSUME IInv, TypeInv', NEW e \in Depots, DepotRecv(e)
    PROVE  /\ Unique' /\ Requests' \subseteq Requests
           /\ ~Throws(e) => Requests' = Requests
           /\ Throws(e) => /\ Head(inbox[e]) \in Requests
                           /\ Requests' = Requests \ {Head(inbox[e])}
                           /\ \A r \in Requests' : ~SameCall(r, Head(inbox[e]))
  <1>1. /\ inbox \in [Depots -> Seq(Mail)] /\ Len(inbox[e]) \in Nat
        /\ serving \in [Depots -> Asked \cup {Idle}]
    BY DEF IInv, TypeInv, Types
  <1>2. /\ inbox'[e] = Tail(inbox[e]) /\ serving[e] = Idle
        /\ \A f \in Depots : f # e => inbox'[f] = inbox[f] /\ serving'[f] = serving[f]
        /\ serving'[e] = IF Unreadable(Head(inbox[e])) THEN Idle ELSE Head(inbox[e])
    BY <1>1 DEF DepotRecv
  <1>3. /\ Len(Tail(inbox[e])) = Len(inbox[e]) - 1
        /\ Head(inbox[e]) = inbox[e][1] /\ 1 \in 1..Len(inbox[e])
        /\ \A i \in 1..Len(Tail(inbox[e])) : /\ Tail(inbox[e])[i] = inbox[e][i + 1]
                                             /\ i + 1 \in 1..Len(inbox[e])
    BY <1>1, TailOf DEF DepotRecv
  <1>4. \A f \in Depots : f # e =>
           Places(f)' = Places(f) /\ \A i \in Places(f) : At(f, i)' = At(f, i)
    BY <1>2 DEF Places, At
  <1>5. \A i \in Places(e)' : At(e, i)' \in Asked =>
           i \in Nat /\ i + 1 \in Places(e) /\ At(e, i)' = At(e, i + 1)
    BY <1>1, <1>2, <1>3, MarksAreNotAsked DEF Places, At
  <1>6. \A i \in Places(e) : At(e, i) \in Asked /\ (i # 1 \/ ~Throws(e)) =>
           i - 1 \in Places(e)' /\ At(e, i - 1)' = At(e, i)
    <2> SUFFICES ASSUME NEW i \in Places(e), At(e, i) \in Asked, i # 1 \/ ~Throws(e)
                 PROVE  i - 1 \in Places(e)' /\ At(e, i - 1)' = At(e, i)
      OBVIOUS
    <2>1. i # 0 /\ i \in 1..Len(inbox[e]) /\ At(e, i) = inbox[e][i]
      BY <1>1, <1>2, MarksAreNotAsked DEF Places, At
    <2>2. CASE i = 1
      BY <1>1, <1>2, <1>3, <2>1, <2>2 DEF Places, At, Throws
    <2>3. CASE i # 1
      <3>1. i - 1 \in 1..Len(Tail(inbox[e])) /\ Tail(inbox[e])[i - 1] = inbox[e][(i - 1) + 1]
        BY <1>1, <1>3, <2>1, <2>3
      <3>2. (i - 1) + 1 = i /\ i - 1 # 0
        BY <2>1, <2>3
      <3>3. At(e, i - 1)' = inbox'[e][i - 1]
        BY <3>2 DEF At
      <3> QED BY <1>1, <1>2, <1>3, <2>1, <3>1, <3>2, <3>3 DEF Places
    <2> QED BY <2>2, <2>3
  <1>7. ASSUME NEW r \in Requests'
        PROVE  \E f \in Depots : \E i \in Places(f) :
                  At(f, i) = r /\ r \in Asked /\ (f = e => i # 1 \/ ~Throws(e))
    <2>0. PICK f \in Depots : \E i \in Places(f)' : r \in Asked /\ At(f, i)' = r
      BY RequestsAtNext DEF TypeInv
    <2>1. PICK i \in Places(f)' : r \in Asked /\ At(f, i)' = r
      BY <2>0
    <2>2. CASE f # e
      BY <1>4, <2>1, <2>2
    <2>3. CASE f = e
      <3>1. i \in Nat /\ i + 1 \in Places(e) /\ At(e, i + 1) = r
        BY <1>5, <2>1, <2>3
      <3>2. i = 0 => ~Throws(e)
        BY <1>2, <2>1, <2>3, MarksAreNotAsked DEF At, Throws
      <3> QED BY <2>1, <2>3, <3>1, <3>2
    <2> QED BY <2>2, <2>3
  <1>9. Requests' \subseteq Requests
    BY <1>7, RequestsAt DEF IInv, TypeInv
  <1>10. ASSUME NEW f \in Depots, NEW i \in Places(f), At(f, i) \in Asked,
                f = e => i # 1 \/ ~Throws(e)
         PROVE  At(f, i) \in Requests'
    <2>1. \E j \in Places(f)' : At(f, j)' = At(f, i)
      BY <1>4, <1>6, <1>10
    <2> QED BY <1>10, <2>1, RequestsAtNext DEF TypeInv
  <1>11. ASSUME ~Throws(e), NEW r \in Requests PROVE r \in Requests'
    <2>1. PICK f \in Depots : \E i \in Places(f) : r \in Asked /\ At(f, i) = r
      BY RequestsAt DEF IInv, TypeInv
    <2>2. PICK i \in Places(f) : r \in Asked /\ At(f, i) = r
      BY <2>1
    <2> QED BY <1>10, <1>11, <2>2
  <1>12. ASSUME Throws(e)
         PROVE  /\ Head(inbox[e]) \in Requests
                /\ Requests' = Requests \ {Head(inbox[e])}
                /\ \A r \in Requests' : ~SameCall(r, Head(inbox[e]))
    <2>0. PICK h : h = Head(inbox[e])
      OBVIOUS
    <2>1. h \in Asked /\ 1 \in Places(e) /\ At(e, 1) = h
      BY <1>1, <1>3, <1>12, <2>0 DEF Throws, Places, At
    <2>2. h \in Requests
      BY <2>1, RequestsAt DEF IInv, TypeInv
    <2>3. ASSUME NEW r \in Requests' PROVE ~SameCall(r, h)
      <3>1. PICK f \in Depots : \E i \in Places(f) :
                   At(f, i) = r /\ r \in Asked /\ (f = e => i # 1)
        BY <1>7, <1>12
      <3>2. PICK i \in Places(f) : At(f, i) = r /\ r \in Asked /\ (f = e => i # 1)
        BY <3>1
      <3> QED BY <2>1, <3>2 DEF IInv, Unique
    <2>4. ASSUME NEW r \in Requests, r # h PROVE r \in Requests'
      <3>1. PICK f \in Depots : \E i \in Places(f) : r \in Asked /\ At(f, i) = r
        BY RequestsAt DEF IInv, TypeInv
      <3>2. PICK i \in Places(f) : r \in Asked /\ At(f, i) = r
        BY <3>1
      <3>3. f = e => i # 1
        BY <2>1, <2>4, <3>2
      <3> QED BY <1>10, <3>2, <3>3
    <2>5. SameCall(h, h)
      BY DEF SameCall
    <2>6. Requests' = Requests \ {h}
      BY <1>9, <2>3, <2>4, <2>5
    <2> QED BY <2>0, <2>2, <2>3, <2>6
  <1>8. Unique'
    <2> SUFFICES ASSUME NEW f \in Depots, NEW g \in Depots, NEW i \in Places(f)',
                        NEW j \in Places(g)', At(f, i)' \in Asked, At(g, j)' \in Asked,
                        SameCall(At(f, i)', At(g, j)')
                 PROVE  f = g /\ i = j
      BY DEF Unique, SameCall
    <2>1. CASE f = e /\ g = e
      <3>1. i + 1 = j + 1 /\ i \in Nat /\ j \in Nat
        BY <1>5, <2>1 DEF IInv, Unique
      <3> QED BY <2>1, <3>1
    <2>2. CASE f = e /\ g # e
      BY <1>4, <1>5, <2>2 DEF IInv, Unique
    <2>3. CASE f # e /\ g = e
      BY <1>4, <1>5, <2>3 DEF IInv, Unique
    <2>4. CASE f # e /\ g # e
      BY <1>4, <2>4 DEF IInv, Unique
    <2> QED BY <2>1, <2>2, <2>3, <2>4
  <1> QED BY <1>8, <1>9, <1>11, <1>12

\* A depot that takes a request from its channel keeps the invariant.
LEMMA DepotRecvStep ==
    ASSUME IInv, TypeInv', NEW e \in Depots, DepotRecv(e)
    PROVE  IInv'
  <1>1. Requests' \subseteq Requests /\ Unique'
    BY DepotRecvPlaces
  <1>2. UNCHANGED <<helper, gen, rx, calls>>
    BY DEF DepotRecv, call
  <1> QED BY <1>1, <1>2 DEF IInv, Numbered, Current, Answers

\* A request that has been served is nowhere any more.
LEMMA DepotReplyPlaces ==
    ASSUME IInv, TypeInv', NEW e \in Depots, DepotReply(e)
    PROVE  /\ serving[e] \in Requests
           /\ Requests' = Requests \ {serving[e]} /\ Unique'
           /\ \A r \in Requests' : ~SameCall(r, serving[e])
  <1>1. /\ inbox \in [Depots -> Seq(Mail)]
        /\ serving \in [Depots -> Asked \cup {Idle}]
    BY DEF IInv, TypeInv, Types
  <1>2. /\ inbox' = inbox /\ serving'[e] = Idle /\ serving[e] \in Asked
        /\ \A f \in Depots : f # e => serving'[f] = serving[f]
    BY <1>1 DEF DepotReply
  <1>3. 0 \in Places(e) /\ At(e, 0) = serving[e]
    BY <1>1 DEF Places, At
  <1>4. \A f \in Depots : Places(f)' = Places(f)
    BY <1>2 DEF Places
  <1>5. \A f \in Depots : \A i \in Places(f) :
           \/ f = e /\ i = 0 /\ At(f, i)' = Idle
           \/ (f # e \/ i # 0) /\ At(f, i)' = At(f, i)
    BY <1>2 DEF At
  <1>6. serving[e] \in Requests
    BY <1>2, <1>3, RequestsAt DEF IInv, TypeInv
  <1>7. ASSUME NEW f \in Depots, NEW i \in Places(f), f # e \/ i # 0, At(f, i) \in Asked
        PROVE  ~SameCall(At(f, i), serving[e])
    BY <1>2, <1>3, <1>7 DEF IInv, Unique
  <1>8. Requests' = Requests \ {serving[e]} /\ \A r \in Requests' : ~SameCall(r, serving[e])
    <2>1. ASSUME NEW r \in Requests' PROVE r \in Requests /\ ~SameCall(r, serving[e])
      <3>0. PICK f \in Depots : \E i \in Places(f) : r \in Asked /\ At(f, i)' = r
        BY <1>4, RequestsAtNext DEF TypeInv
      <3>1. PICK i \in Places(f) : r \in Asked /\ At(f, i)' = r
        BY <3>0
      <3>2. At(f, i) = r /\ (f # e \/ i # 0)
        BY <1>5, <3>1, MarksAreNotAsked
      <3> QED BY <1>7, <3>1, <3>2, RequestsAt DEF IInv, TypeInv
    <2>2. ASSUME NEW r \in Requests, r # serving[e] PROVE r \in Requests'
      <3>0. PICK f \in Depots : \E i \in Places(f) : r \in Asked /\ At(f, i) = r
        BY RequestsAt DEF IInv, TypeInv
      <3>1. PICK i \in Places(f) : r \in Asked /\ At(f, i) = r
        BY <3>0
      <3>2. At(f, i)' = r
        BY <1>3, <1>5, <2>2, <3>1
      <3> QED BY <1>4, <3>1, <3>2, RequestsAtNext DEF TypeInv
    <2>3. SameCall(serving[e], serving[e])
      BY DEF SameCall
    <2> QED BY <2>1, <2>2, <2>3
  <1>9. Unique'
    <2> SUFFICES ASSUME NEW f \in Depots, NEW g \in Depots, NEW i \in Places(f),
                        NEW j \in Places(g), At(f, i)' \in Asked, At(g, j)' \in Asked,
                        SameCall(At(f, i)', At(g, j)')
                 PROVE  f = g /\ i = j
      BY <1>4 DEF Unique, SameCall
    <2>1. At(f, i)' = At(f, i) /\ At(g, j)' = At(g, j)
      BY <1>5, MarksAreNotAsked
    <2> QED BY <2>1 DEF IInv, Unique
  <1> QED BY <1>6, <1>8, <1>9

\* A depot's reply goes to the caller that made the request.
LEMMA DepotReplyStep ==
    ASSUME IInv, TypeInv', NEW e \in Depots, DepotReply(e)
    PROVE  IInv'
  <1> DEFINE c == serving[e].from
             k == serving[e].id
             g == serving[e].gen
  <1>1. /\ serving[e] \in Requests /\ Requests' = Requests \ {serving[e]} /\ Unique'
        /\ \A r \in Requests' : ~SameCall(r, serving[e])
    BY DepotReplyPlaces
  <1>2. c \in Callers /\ k \in Nat /\ g \in Nat
    BY <1>1, RequestFields DEF IInv, TypeInv
  <1>3. /\ UNCHANGED <<helper, gen, calls>>
        /\ rx' = Delivered(c, g, Reply(k))
    BY DEF DepotReply
  <1>4. Numbered' /\ Current'
    BY <1>1, <1>3 DEF IInv, Numbered, Current
  <1>5. ASSUME NEW d \in Callers
        PROVE  /\ helper[d] \in {"none", "registering"} => rx'[d] = <<>>
               /\ \A i \in 1..Len(rx'[d]) : rx'[d][i] # Shutdown =>
                    /\ helper[d] # "ready"
                    /\ helper[d] = "waiting" =>
                         /\ rx'[d][i].id = calls[d]
                         /\ \A j \in 1..Len(rx'[d]) : rx'[d][j] # Shutdown => i = j
                         /\ \A r \in Requests' : r.from = d => r.id # calls[d]
    <2>1. CASE rx'[d] = rx[d]
      BY <1>1, <2>1 DEF IInv, Answers
    <2>2. CASE rx'[d] # rx[d]
      <3>1. d = c /\ g = gen[c] /\ Routed(c) /\ rx'[c] = TrySend(rx[c], Reply(k))
        BY <1>2, <1>3, <2>2 DEF Delivered, IInv, TypeInv, Types
      <3>2. /\ rx[c] \in Seq(Message) /\ Len(rx[c]) <= MailboxCap
            /\ Reply(k) \in Message /\ Reply(k).id = k
        BY <1>2, ReplyIsReply DEF IInv, TypeInv, Types, Bounded
      <3>3. helper[c] \in {"waiting", "finished"} /\ (helper[c] = "waiting" => k = calls[c])
        BY <1>1, <1>2, <3>1 DEF IInv, Current, Routed, TypeInv, Types
      <3>4. CASE helper[c] = "finished"
        BY <3>1, <3>4
      <3>5. CASE helper[c] = "waiting"
        <4>1. \A i \in 1..Len(rx[c]) : rx[c][i] = Shutdown
          BY <1>1, <1>2, <3>3, <3>5 DEF IInv, Answers
        <4>2. \A i \in 1..Len(rx'[c]) : \/ rx'[c][i] = Shutdown
                                        \/ i = Len(rx[c]) + 1 /\ rx'[c][i] = Reply(k)
          <5> HIDE DEF c, k
          <5>1. \A i \in 1..Len(TrySend(rx[c], Reply(k))) :
                   \/ i \in 1..Len(rx[c]) /\ TrySend(rx[c], Reply(k))[i] = rx[c][i]
                   \/ i = Len(rx[c]) + 1 /\ TrySend(rx[c], Reply(k))[i] = Reply(k)
            BY <3>2, TrySendTo
          <5> QED BY <3>1, <4>1, <5>1
        <4>3. \A r \in Requests' : r.from = c => r.id # calls[c]
          BY <1>1, <3>3, <3>5 DEF SameCall
        <4> QED BY <3>1, <3>2, <3>3, <3>5, <4>2, <4>3
      <3> QED BY <3>3, <3>4, <3>5
    <2> QED BY <2>1, <2>2
  <1>6. Answers'
    BY <1>3, <1>5 DEF Answers
  <1> QED BY <1>1, <1>4, <1>6 DEF IInv

\* Messages that are no requests change nothing about those that are.
LEMMA MarksPlaces ==
    ASSUME IInv, TypeInv', UNCHANGED serving, NEW m \in {Shutdown, Plain},
           \A e \in Depots : inbox'[e] \in {inbox[e], TrySend(inbox[e], m)}
    PROVE  Requests' = Requests /\ Unique'
  <1>1. m \in Mail /\ m \notin Asked
    BY MarksAreNotAsked DEF Mail
  <1>2. ASSUME NEW e \in Depots
        PROVE  /\ \A i \in Places(e)' : At(e, i)' \in Asked =>
                     i \in Places(e) /\ At(e, i)' = At(e, i)
               /\ \A i \in Places(e) : i \in Places(e)' /\ At(e, i)' = At(e, i)
    <2>1. inbox[e] \in Seq(Mail) /\ Len(inbox[e]) <= MailboxCap
      BY DEF IInv, TypeInv, Types, Bounded
    <2>2. /\ \A i \in 1..Len(TrySend(inbox[e], m)) :
                \/ i \in 1..Len(inbox[e]) /\ TrySend(inbox[e], m)[i] = inbox[e][i]
                \/ i = Len(inbox[e]) + 1 /\ TrySend(inbox[e], m)[i] = m
          /\ \A i \in 1..Len(inbox[e]) :
                i \in 1..Len(TrySend(inbox[e], m)) /\ TrySend(inbox[e], m)[i] = inbox[e][i]
          /\ TrySend(inbox[e], m) \in Seq(Mail)
      BY <1>1, <2>1, TrySendTo
    <2>3. CASE inbox'[e] = inbox[e]
      BY <2>3 DEF Places, At
    <2>4. CASE inbox'[e] = TrySend(inbox[e], m)
      <3>1. Len(inbox[e]) \in Nat /\ Len(inbox'[e]) \in Nat
        BY <2>1, <2>2, <2>4
      <3>2. /\ \A i \in 1..Len(inbox'[e]) :
                  \/ i \in 1..Len(inbox[e]) /\ inbox'[e][i] = inbox[e][i]
                  \/ i = Len(inbox[e]) + 1 /\ inbox'[e][i] = m
            /\ \A i \in 1..Len(inbox[e]) :
                  i \in 1..Len(inbox'[e]) /\ inbox'[e][i] = inbox[e][i]
        BY <2>2, <2>4
      <3> QED BY <1>1, <3>1, <3>2 DEF Places, At
    <2> QED BY <2>3, <2>4
  <1>3. Requests' = Requests
    <2>1. ASSUME NEW r \in Requests PROVE r \in Requests'
      BY <1>2, RequestsAt, RequestsAtNext DEF IInv, TypeInv
    <2>2. ASSUME NEW r \in Requests' PROVE r \in Requests
      BY <1>2, RequestsAt, RequestsAtNext DEF IInv, TypeInv
    <2> QED BY <2>1, <2>2
  <1>4. Unique'
    <2> SUFFICES ASSUME NEW f \in Depots, NEW g \in Depots, NEW i \in Places(f)',
                        NEW j \in Places(g)', At(f, i)' \in Asked, At(g, j)' \in Asked,
                        SameCall(At(f, i)', At(g, j)')
                 PROVE  f = g /\ i = j
      BY DEF Unique, SameCall
    <2> QED BY <1>2 DEF IInv, Unique
  <1> QED BY <1>3, <1>4

\* The Shutdowns of a stopping router are no requests.
LEMMA ShutdownPlaces ==
    ASSUME IInv, TypeInv', RouterShutdown
    PROVE  Requests' = Requests /\ Unique'
  BY MarksPlaces DEF RouterShutdown

\* Nor is a plain message.
LEMMA SendPlaces ==
    ASSUME IInv, TypeInv', NEW e \in Depots, Send(e)
    PROVE  Requests' = Requests /\ Unique'
  <1>1. \A f \in Depots : inbox'[f] \in {inbox[f], TrySend(inbox[f], Plain)}
    BY DEF Send, IInv, TypeInv, Types
  <1> QED BY <1>1, MarksPlaces DEF Send

\* A plain message keeps the invariant.
LEMMA SendStep ==
    ASSUME IInv, TypeInv', NEW e \in Depots, Send(e)
    PROVE  IInv'
  <1>1. Requests' = Requests /\ Unique'
    BY SendPlaces
  <1> QED BY <1>1 DEF Send, call, IInv, Numbered, Current, Answers

\* A stopping router keeps the invariant.
LEMMA RouterShutdownStep ==
    ASSUME IInv, TypeInv', RouterShutdown
    PROVE  IInv'
  <1>1. UNCHANGED <<helper, gen, calls>>
    BY DEF RouterShutdown
  <1>3. Requests' = Requests /\ Unique'
    BY ShutdownPlaces
  <1>5. Numbered' /\ Current'
    BY <1>1, <1>3 DEF IInv, Numbered, Current
  <1>6. ASSUME NEW c \in Callers
        PROVE  /\ helper[c] \in {"none", "registering"} => rx'[c] = <<>>
               /\ \A i \in 1..Len(rx'[c]) : rx'[c][i] # Shutdown =>
                     i \in 1..Len(rx[c]) /\ rx'[c][i] = rx[c][i]
    <2>1. rx'[c] = IF Routed(c) THEN TrySend(rx[c], Shutdown) ELSE rx[c]
      BY DEF RouterShutdown
    <2>2. rx[c] \in Seq(Message) /\ Len(rx[c]) <= MailboxCap /\ Shutdown \in Message
      BY DEF IInv, TypeInv, Types, Bounded, Message
    <2>3. \A i \in 1..Len(TrySend(rx[c], Shutdown)) : TrySend(rx[c], Shutdown)[i] # Shutdown =>
              i \in 1..Len(rx[c]) /\ TrySend(rx[c], Shutdown)[i] = rx[c][i]
      BY <2>2, TrySendTo
    <2> QED BY <2>1, <2>3 DEF Routed, IInv, Answers
  <1>7. Answers'
    BY <1>1, <1>3, <1>6 DEF IInv, Answers
  <1> QED BY <1>3, <1>5, <1>7 DEF IInv

-----------------------------------------------------------------------------
(* The refinement.                                                         *)

\* Every step keeps the invariant.
LEMMA IInvStep ==
    ASSUME HelpersAreSeenThrough, IInv, [Next]_vars
    PROVE  IInv'
  <1>1. TypeInv'
    BY TypeInvStep DEF IInv
  <1>2. CASE RouterShutdown
    BY <1>1, <1>2, RouterShutdownStep
  <1>3. ASSUME NEW c \in Clients, Client(c) PROVE IInv'
    <2>1. c \in Callers
      BY DEF Callers
    <2>2. CASE RpcHelper(c)
      BY <1>1, <2>1, <2>2, RpcHelperStep DEF RpcHelper, work
    <2>3. CASE \E e \in Depots : Request(c, e)
      BY <1>1, <2>1, <2>3, RequestStep
    <2>4. CASE Dropped(c) /\ UNCHANGED work
      BY <1>1, <2>1, <2>4, DroppedStep DEF work
    <2>5. CASE Abandons(c)
      <3>1. c \in Once
        BY <2>5 DEF Abandons, HelpersAreSeenThrough, Reusing
      <3> QED BY <1>1, <2>1, <2>5, <3>1, DroppedStep DEF Abandons, work
    <2> QED BY <1>3, <2>2, <2>3, <2>4, <2>5 DEF Client
  <1>4. ASSUME NEW e \in Depots, Depot(e) PROVE IInv'
    <2>1. e \in Callers
      BY DEF Callers
    <2>2. CASE OnRequest(e)
      <3>1. Uses[e] \in Depots
        BY <2>2, RpcTyped DEF OnRequest, IInv, TypeInv, Chained
      <3>2. CASE RpcHelper(e)
        BY <1>1, <2>1, <3>2, RpcHelperStep DEF RpcHelper, work
      <3>3. CASE Request(e, Uses[e])
        BY <1>1, <2>1, <3>1, <3>3, RequestStep
      <3>4. CASE Dropped(e) /\ UNCHANGED <<inbox, serving>>
        BY <1>1, <2>1, <3>4, DroppedStep
      <3> QED BY <2>2, <3>2, <3>3, <3>4 DEF OnRequest
    <2> QED BY <1>1, <1>4, <2>2, DepotRecvStep, DepotReplyStep DEF Depot
  <1>5. ASSUME NEW c \in Callers, RegisterEndpoint(c) \/ Receive(c) PROVE IInv'
    BY <1>1, <1>5, RegisterStep, ReceiveStep
  <1>6. CASE UNCHANGED vars
    <2>1. Requests' = Requests /\ Unique'
      BY <1>6, DepotsAlone DEF vars, call, work
    <2> QED BY <1>1, <1>6, <2>1 DEF vars, call, work, IInv, Numbered, Current, Answers
  <1>7. ASSUME NEW e \in Mailed, Send(e) PROVE IInv'
    BY <1>1, <1>7, SendStep, RpcTyped
  <1> QED BY <1>2, <1>3, <1>4, <1>5, <1>6, <1>7 DEF Next

-----------------------------------------------------------------------------
(* What cannot be read has no reply.                                       *)

Misfit(r) == <<r.from, r.id>> \in Misfits

\* Requests that depots serve could be read, and so could those that were replied
\* to.
Readable ==
    /\ \A e \in Depots : serving[e] \in Asked => ~Misfit(serving[e])
    /\ \A c \in Callers : \A i \in 1..Len(rx[c]) :
          rx[c][i] # Shutdown => <<c, rx[c][i].id>> \notin Misfits

\* It holds at the start.
LEMMA ReadableInit == Init => Readable
  BY MarksAreNotAsked DEF Init, Readable

\* Every step keeps it: what a depot takes to serve it could read, and what it
\* replies to it served.
LEMMA ReadableStep ==
    ASSUME TypeInv, Readable, [Next]_vars
    PROVE  Readable'
  <1> USE DEF TypeInv, Types
  <1>1. ASSUME UNCHANGED serving,
               \A c \in Callers : \A i \in 1..Len(rx'[c]) : rx'[c][i] # Shutdown =>
                  \E j \in 1..Len(rx[c]) : rx'[c][i] = rx[c][j]
        PROVE  Readable'
    <2>1. \A e \in Depots : serving'[e] \in Asked => ~Misfit(serving[e])'
      BY <1>1 DEF Readable, Misfit
    <2>2. ASSUME NEW c \in Callers, NEW i \in 1..Len(rx'[c]), rx'[c][i] # Shutdown
          PROVE  <<c, rx'[c][i].id>> \notin Misfits
      <3>1. PICK j \in 1..Len(rx[c]) : rx'[c][i] = rx[c][j]
        BY <1>1, <2>2
      <3> QED BY <2>2, <3>1 DEF Readable
    <2> QED BY <2>1, <2>2 DEF Readable
  <1>2. CASE UNCHANGED <<serving, rx>>
    BY <1>2 DEF Readable
  <1>3. CASE RouterShutdown
    <2>1. ASSUME NEW c \in Callers, NEW i \in 1..Len(rx'[c]), rx'[c][i] # Shutdown
          PROVE  \E j \in 1..Len(rx[c]) : rx'[c][i] = rx[c][j]
      <3>1. rx'[c] = IF Routed(c) THEN TrySend(rx[c], Shutdown) ELSE rx[c]
        BY <1>3 DEF RouterShutdown
      <3>2. rx[c] \in Seq(Message) /\ Len(rx[c]) <= MailboxCap /\ Shutdown \in Message
        BY DEF Bounded, Message
      <3>3. \A k \in 1..Len(TrySend(rx[c], Shutdown)) :
               TrySend(rx[c], Shutdown)[k] # Shutdown =>
                  k \in 1..Len(rx[c]) /\ TrySend(rx[c], Shutdown)[k] = rx[c][k]
        BY <3>2, TrySendTo
      <3> QED BY <2>1, <3>1, <3>3
    <2> QED BY <1>1, <1>3, <2>1 DEF RouterShutdown
  <1>4. ASSUME NEW c \in Callers, Receive(c) PROVE Readable'
    <2>1. ASSUME NEW d \in Callers, NEW i \in 1..Len(rx'[d])
          PROVE  \E j \in 1..Len(rx[d]) : rx'[d][i] = rx[d][j]
      <3>1. \A k \in 1..Len(Tail(rx[c])) :
               Tail(rx[c])[k] = rx[c][k + 1] /\ k + 1 \in 1..Len(rx[c])
        BY <1>4, TailOf DEF Receive
      <3>2. rx'[d] = IF d = c THEN Tail(rx[c]) ELSE rx[d]
        BY <1>4 DEF Receive
      <3> QED BY <3>1, <3>2
    <2> QED BY <1>1, <1>4, <2>1 DEF Receive, work
  <1>5. ASSUME NEW c \in Callers, Dropped(c), UNCHANGED serving PROVE Readable'
    <2>1. \A d \in Callers : rx'[d] = IF d = c THEN <<>> ELSE rx[d]
      BY <1>5 DEF Dropped
    <2> QED BY <1>5, <2>1 DEF Readable
  <1>6. ASSUME NEW c \in Clients, Client(c) PROVE Readable'
    BY <1>2, <1>5, <1>6
       DEF Client, Callers, RpcHelper, Request, Abandons, Returned, work
  <1>7. ASSUME NEW e \in Depots, OnRequest(e) PROVE Readable'
    BY <1>2, <1>5, <1>7 DEF OnRequest, Callers, RpcHelper, Request, work
  <1>8. ASSUME NEW e \in Depots, DepotRecv(e) PROVE Readable'
    <2>1. /\ rx' = rx
          /\ \A f \in Depots : \/ serving'[f] = serving[f]
                                \/ ~Unreadable(serving'[f])
      BY <1>8 DEF DepotRecv, call
    <2> QED BY <2>1 DEF Readable, Unreadable, Misfit
  <1>9. ASSUME NEW e \in Depots, DepotReply(e) PROVE Readable'
    <2>0. PICK c, k : c = serving[e].from /\ k = serving[e].id
      OBVIOUS
    <2>1. serving[e] \in Asked
      BY <1>9 DEF DepotReply
    <2>2. c \in Callers /\ k \in Nat /\ <<c, k>> \notin Misfits
      BY <2>0, <2>1, AskedIsAsked DEF Readable, Misfit
    <2>3. \A f \in Depots : serving'[f] \in Asked => serving'[f] = serving[f]
      BY <1>9, MarksAreNotAsked DEF DepotReply
    <2>4. \A d \in Callers : \/ rx'[d] = rx[d]
                             \/ d = c /\ rx'[d] = TrySend(rx[c], Reply(k))
      BY <1>9, <2>0, <2>2 DEF DepotReply, Delivered
    <2>5. Reply(k) \in Message /\ Reply(k).id = k
      BY <2>2, ReplyIsReply
    <2>6. \A i \in 1..Len(TrySend(rx[c], Reply(k))) :
             \/ i \in 1..Len(rx[c]) /\ TrySend(rx[c], Reply(k))[i] = rx[c][i]
             \/ TrySend(rx[c], Reply(k))[i] = Reply(k)
      BY <2>2, <2>5, TrySendTo DEF Bounded
    <2>7. ASSUME NEW d \in Callers, NEW i \in 1..Len(rx'[d]), rx'[d][i] # Shutdown
          PROVE  <<d, rx'[d][i].id>> \notin Misfits
      <3>1. CASE rx'[d] = rx[d]
        BY <2>7, <3>1 DEF Readable
      <3>2. CASE d = c /\ rx'[d] = TrySend(rx[c], Reply(k))
        BY <2>2, <2>5, <2>6, <2>7, <3>2 DEF Readable
      <3> QED BY <2>4, <3>1, <3>2
    <2> QED BY <2>3, <2>7 DEF Readable, Misfit
  <1> QED
    BY <1>2, <1>3, <1>4, <1>6, <1>7, <1>8, <1>9
       DEF Next, Depot, Send, RegisterEndpoint, vars, call, work

-----------------------------------------------------------------------------
(* The mapping.                                                            *)

\* The mapped variables.
Waiting == {c \in Callers : helper[c] = "waiting"}
Open    == { <<r.from, r.id>> : r \in Requests }

\* The initial states map to initial states.
LEMMA InitRefines == Init => Abstract!Init
  <1> SUFFICES ASSUME Init PROVE Abstract!Init
    OBVIOUS
  <1>1. Requests = {}
    <2>1. \A e \in Depots : serving[e] = Idle /\ Len(inbox[e]) = 0
      BY DEF Init
    <2> QED BY <2>1 DEF Requests
  <1>2. {c \in Callers : helper[c] = "waiting"} = {}
    BY DEF Init
  <1> QED BY <1>1, <1>2 DEF Init, Abstract!Init, None

\* A step of a caller or of the router that the abstract specification does not
\* see.
LEMMA Unseen ==
    ASSUME \A c \in Callers : helper'[c] = "waiting" <=> helper[c] = "waiting",
           UNCHANGED <<calls, answer>>, Requests' = Requests
    PROVE  UNCHANGED Abstract!vars
  BY DEF Abstract!vars

\* request maps to a request of the abstract specification.
LEMMA RequestRefines ==
    ASSUME IInv, IInv', NEW c \in Callers, NEW e \in Depots, Request(c, e)
    PROVE  Abstract!Next
  <1> USE DEF IInv, TypeInv, Types
  <1>1. /\ helper[c] = "ready" /\ calls' = [calls EXCEPT ![c] = @ + 1]
        /\ answer' = [answer EXCEPT ![c] = 0]
    BY DEF Request, None
  <1>2. CASE Len(inbox[e]) < MailboxCap
    <2> DEFINE new == [from |-> c, gen |-> gen[c], id |-> calls[c] + 1]
    <2>1. Requests' = Requests \cup {new}
      BY <1>2, RequestPlaces
    <2>2. <<new.from, new.id>> = <<c, calls[c] + 1>>
      OBVIOUS
    <2> HIDE DEF new
    <2>3. Open' = Open \cup {<<c, calls[c] + 1>>}
      BY <2>1, <2>2 DEF Open
    <2>4. helper' = [helper EXCEPT ![c] = "waiting"]
      BY <1>2 DEF Request
    <2>5. Waiting' = Waiting \cup {c} /\ c \notin Waiting
      BY <1>1, <2>4 DEF Waiting
    <2>6. Abstract!Call(c)
      BY <1>1, <2>3, <2>5 DEF Abstract!Call, Waiting, Open
    <2> QED BY <2>6 DEF Abstract!Next
  <1>3. CASE ~(Len(inbox[e]) < MailboxCap)
    <2>1. Requests' = Requests
      BY <1>3, DepotsAlone DEF Request
    <2>2. helper'[c] # "waiting" /\ \A d \in Callers : d # c => helper'[d] = helper[d]
      BY <1>3 DEF Request, Returned
    <2>3. Waiting' = Waiting /\ c \notin Waiting
      BY <1>1, <2>2 DEF Waiting
    <2>4. Abstract!Refused(c)
      BY <1>1, <2>1, <2>3 DEF Abstract!Refused, Waiting
    <2> QED BY <2>4 DEF Abstract!Next
  <1> QED BY <1>2, <1>3

\* A helper that waits gets the reply to its own request, or the shutdown.
LEMMA ReceiveRefines ==
    ASSUME IInv, IInv', Readable, NEW c \in Callers, Receive(c)
    PROVE  Abstract!Next
  <1> USE DEF IInv, TypeInv, Types
  <1>1. /\ helper[c] = "waiting" /\ helper'[c] # "waiting"
        /\ \A d \in Callers : d # c => helper'[d] = helper[d]
        /\ calls' = calls
    BY DEF Receive, Returned
  <1>2. Requests' = Requests
    BY DepotsAlone DEF Receive, work
  <1>3. c \in Waiting /\ Waiting' = Waiting \ {c}
    BY <1>1 DEF Waiting
  <1>4. CASE Head(rx[c]) = Shutdown
    <2>1. answer' = answer
      BY <1>4 DEF Receive
    <2>2. Abstract!Ended(c)
      BY <1>1, <1>2, <1>3, <2>1 DEF Abstract!Ended, Waiting
    <2> QED BY <2>2 DEF Abstract!Next
  <1>5. CASE Head(rx[c]) # Shutdown
    <2>1. Head(rx[c]) = rx[c][1] /\ 1 \in 1..Len(rx[c])
      BY TailOf DEF Receive
    <2>2. Head(rx[c]).id = calls[c] /\ \A r \in Requests : r.from = c => r.id # calls[c]
      BY <1>1, <1>5, <2>1 DEF Answers
    <2>3. answer' = [answer EXCEPT ![c] = calls[c]]
      BY <1>5, <2>2 DEF Receive
    <2>4. <<c, calls[c]>> \notin Open \cup Misfits
      BY <1>5, <2>1, <2>2 DEF Open, Readable
    <2>5. Abstract!Answered(c)
      BY <1>1, <1>2, <1>3, <2>3, <2>4 DEF Abstract!Answered, Waiting, Open
    <2> QED BY <2>5 DEF Abstract!Next
  <1> QED BY <1>4, <1>5

\* A request that is given up ends for its caller.
LEMMA AbandonsRefines ==
    ASSUME IInv, NEW c \in Callers, Abandons(c)
    PROVE  Abstract!Next
  <1>1. /\ helper[c] = "waiting" /\ helper'[c] # "waiting"
        /\ \A d \in Callers : d # c => helper'[d] = helper[d]
        /\ UNCHANGED <<calls, answer>>
    BY DEF Abandons, Dropped, Returned, IInv, TypeInv, Types
  <1>2. Requests' = Requests
    BY DepotsAlone DEF Abandons, work
  <1>3. c \in Waiting /\ Waiting' = Waiting \ {c}
    BY <1>1 DEF Waiting
  <1>4. Abstract!Ended(c)
    BY <1>1, <1>2, <1>3 DEF Abstract!Ended, Waiting
  <1> QED BY <1>4 DEF Abstract!Next

\* A reply is the service of a request that is open.
LEMMA ReplyRefines ==
    ASSUME IInv, IInv', Readable, NEW e \in Depots, DepotReply(e)
    PROVE  Abstract!Next
  <1>0. PICK x : x = <<serving[e].from, serving[e].id>>
    OBVIOUS
  <1>1. /\ serving[e] \in Requests /\ Requests' = Requests \ {serving[e]}
        /\ \A r \in Requests' : ~SameCall(r, serving[e])
    BY DepotReplyPlaces DEF IInv
  <1>2. x \in Open /\ Open' = Open \ {x}
    BY <1>0, <1>1 DEF Open, SameCall
  <1>5. x \notin Misfits
    BY <1>0, <1>1, RequestFields DEF Readable, Misfit, IInv, TypeInv
  <1>3. UNCHANGED <<helper, calls, answer>>
    BY DEF DepotReply
  <1>4. Abstract!Served(x)
    BY <1>2, <1>3, <1>5 DEF Abstract!Served, Open
  <1> QED BY <1>2, <1>4 DEF Abstract!Next, Open

\* A request that is taken from a channel is served later, or is one that cannot
\* be read and is thrown away.
LEMMA RecvRefines ==
    ASSUME IInv, IInv', NEW e \in Depots, DepotRecv(e)
    PROVE  [Abstract!Next]_(Abstract!vars)
  <1>1. UNCHANGED <<helper, calls, answer>>
    BY DEF DepotRecv, call
  <1>2. CASE ~Throws(e)
    <2>1. Requests' = Requests
      BY <1>2, DepotRecvPlaces DEF IInv
    <2> QED BY <1>1, <2>1, Unseen
  <1>3. CASE Throws(e)
    <2>0. PICK h, x : h = Head(inbox[e]) /\ x = <<h.from, h.id>>
      OBVIOUS
    <2>1. /\ h \in Requests /\ Requests' = Requests \ {h}
          /\ \A r \in Requests' : ~SameCall(r, h)
      BY <1>3, <2>0, DepotRecvPlaces DEF IInv
    <2>2. x \in Open /\ Open' = Open \ {x}
      BY <2>0, <2>1 DEF Open, SameCall
    <2>3. x \in Misfits
      BY <1>3, <2>0, AskedIsAsked DEF Throws, Unreadable
    <2>4. Abstract!Thrown(x)
      BY <1>1, <2>2, <2>3 DEF Abstract!Thrown, Open
    <2> QED BY <2>2, <2>4 DEF Abstract!Next, Open
  <1> QED BY <1>2, <1>3

\* Every step maps to a step of the abstract specification or to a stutter.
LEMMA StepRefines ==
    ASSUME IInv, IInv', Readable, [Next]_vars
    PROVE  [Abstract!Next]_(Abstract!vars)
  <1> USE DEF IInv, TypeInv, Types
  <1>1. CASE RouterShutdown
    <2>1. Requests' = Requests
      BY <1>1, ShutdownPlaces
    <2> QED BY <1>1, <2>1, Unseen DEF RouterShutdown
  <1>2. ASSUME NEW c \in Callers, RpcHelper(c) PROVE UNCHANGED Abstract!vars
    BY <1>2, DepotsAlone, Unseen DEF RpcHelper, work
  <1>3. ASSUME NEW c \in Callers, RegisterEndpoint(c) PROVE UNCHANGED Abstract!vars
    BY <1>3, DepotsAlone, Unseen DEF RegisterEndpoint, work
  <1>4. ASSUME NEW c \in Callers, Dropped(c), helper[c] # "waiting",
               UNCHANGED <<inbox, serving>>
        PROVE  UNCHANGED Abstract!vars
    BY <1>4, DepotsAlone, Unseen DEF Dropped
  <1>5. ASSUME NEW c \in Clients, Client(c) PROVE [Abstract!Next]_(Abstract!vars)
    <2>1. c \in Callers
      BY DEF Callers
    <2> QED BY <1>2, <1>4, <1>5, <2>1, RequestRefines, AbandonsRefines DEF Client, work
  <1>6. ASSUME NEW e \in Mailed, Send(e) PROVE UNCHANGED Abstract!vars
    <2>1. Requests' = Requests
      BY <1>6, SendPlaces, RpcTyped
    <2> QED BY <1>6, <2>1, Unseen DEF Send, call
  <1>7. ASSUME NEW e \in Depots, OnRequest(e) PROVE [Abstract!Next]_(Abstract!vars)
    <2>1. e \in Callers /\ Uses[e] \in Depots
      BY <1>7, RpcTyped DEF OnRequest, Callers, Chained
    <2> QED BY <1>2, <1>4, <1>7, <2>1, RequestRefines DEF OnRequest
  <1>8. CASE UNCHANGED vars
    BY <1>8, DepotsAlone, Unseen DEF vars, call, work
  <1> QED
    BY <1>1, <1>3, <1>5, <1>6, <1>7, <1>8, ReceiveRefines, ReplyRefines, RecvRefines
       DEF Next, Depot

\* For any number of clients, depots, calls and messages: if no client goes on
\* using a helper whose request it has given up or that was told of the shutdown,
\* calls over the bus are calls of RequestReply.  A call returns the reply to that
\* very request, after it has been served, once; a request the depot cannot read is
\* never replied to (RequestHelper, rpc_once, recv_rpc, RpcRequest::reply).
THEOREM Refinement ==
    ASSUME HelpersAreSeenThrough
    PROVE  Spec => ImplementsRequestReply
  <1>1. IInv /\ [Next]_vars => IInv'
    BY IInvStep
  <1>2. IInv /\ Readable /\ [Next]_vars => Readable'
    BY ReadableStep DEF IInv
  <1>3. IInv /\ IInv' /\ Readable /\ [Next]_vars => [Abstract!Next]_(Abstract!vars)
    BY StepRefines
  <1> QED
    BY <1>1, <1>2, <1>3, IInvInit, ReadableInit, InitRefines, PTL
       DEF Spec, ImplementsRequestReply, Abstract!Spec
=============================================================================
