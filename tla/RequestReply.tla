---------------------------- MODULE RequestReply ----------------------------
(***************************************************************************)
(* What a request over the bus promises its caller, whatever carries it: a *)
(* call returns the reply to that very request, and only after the request *)
(* has been served, once; or it fails, or its caller gives it up.  One     *)
(* that nobody can read is thrown away.  Rpc implements this.              *)
(***************************************************************************)
EXTENDS Naturals

CONSTANTS Callers, Misfits   \* Misfits: requests, as <<caller, number>>, nobody can read

VARIABLES
    waiting,   \* those whose call is under way
    last,      \* the number of a caller's last request
    result,    \* the request whose reply that call returned, or 0
    open       \* requests that have been accepted and not yet been served

vars == <<waiting, last, result, open>>

Init ==
    /\ waiting = {}
    /\ last = [c \in Callers |-> 0]
    /\ result = [c \in Callers |-> 0]
    /\ open = {}

\* A request is accepted ...
Call(c) ==
    /\ c \notin waiting
    /\ waiting' = waiting \cup {c}
    /\ last' = [last EXCEPT ![c] = @ + 1]
    /\ result' = [result EXCEPT ![c] = 0]
    /\ open' = open \cup {<<c, last[c] + 1>>}

\* ... or refused at once.
Refused(c) ==
    /\ c \notin waiting
    /\ last' = [last EXCEPT ![c] = @ + 1]
    /\ result' = [result EXCEPT ![c] = 0]
    /\ UNCHANGED <<waiting, open>>

\* A request is served, also one that nobody waits for any more.
Served(r) ==
    /\ r \in open \ Misfits
    /\ open' = open \ {r}
    /\ UNCHANGED <<waiting, last, result>>

\* A request that nobody can read is thrown away.  Its caller is not told.
Thrown(r) ==
    /\ r \in open \cap Misfits
    /\ open' = open \ {r}
    /\ UNCHANGED <<waiting, last, result>>

\* The reply to a request that has been served comes back.
Answered(c) ==
    /\ c \in waiting
    /\ <<c, last[c]>> \notin open \cup Misfits
    /\ waiting' = waiting \ {c}
    /\ result' = [result EXCEPT ![c] = last[c]]
    /\ UNCHANGED <<last, open>>

\* The bus shuts down or the caller gives up.
Ended(c) ==
    /\ c \in waiting
    /\ waiting' = waiting \ {c}
    /\ UNCHANGED <<last, result, open>>

Next ==
    \/ \E c \in Callers : Call(c) \/ Refused(c) \/ Answered(c) \/ Ended(c)
    \/ \E r \in open : Served(r) \/ Thrown(r)

Spec == Init /\ [][Next]_vars
=============================================================================
