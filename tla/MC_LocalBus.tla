----------------------------- MODULE MC_LocalBus -----------------------------
(* Small instances of LocalBus for TLC.                                    *)
EXTENDS LocalBus, TLC

CONSTANTS c1, c2, c3, e1, e2

Request(kind, k) ==
    [ep |-> e1, info |-> [kind |-> kind, realm |-> "Global", cost |-> k]]

\* One endpoint contested by listeners of all three kinds.
MixedRequests == {Request("Unicast", 0), Request("Broadcast", 0),
                  Request("Anycast", 1)}

Symmetry == Permutations(Channels)
=============================================================================
