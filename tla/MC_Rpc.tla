------------------------------- MODULE MC_Rpc -------------------------------
(* Small instances of Rpc for TLC.                                         *)
EXTENDS Rpc, TLC

CONSTANTS c1, c2, d1, d2

\* The first depot asks the second one.
Chain == (d1 :> d2) @@ (d2 :> None)

\* The second request of a client is of a type its depot does not read.
Second == {<<c2, 2>>}
=============================================================================
