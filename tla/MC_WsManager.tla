---------------------------- MODULE MC_WsManager ----------------------------
(* Small instances of WsManager for TLC.                                   *)
EXTENDS WsManager, TLC

CONSTANTS c1, c2, n1, n2

\* Two configurations at different URLs; the first node also dials in.
TwoUrls == c1 :> "u1" @@ c2 :> "u2"
TwoNodes == c1 :> n1 @@ c2 :> n2

\* One configuration.
OneUrl == c1 :> "u1"
OneNode == c1 :> n1
=============================================================================
