---------------------------- MODULE MCForwarder ----------------------------
(***************************************************************************)
(* The longest routes, for TLC.                                            *)
(***************************************************************************)
EXTENDS Forwarder

\* The longest routes SendPacket accepts and the ones next to them, over slot 1.
LongRoutes == {[i \in 1 .. k |-> 1] : k \in {RouteLimit - 1, RouteLimit, RouteLimit + 1}}
=============================================================================
