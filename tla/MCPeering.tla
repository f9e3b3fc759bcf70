----------------------------- MODULE MCPeering -----------------------------
(***************************************************************************)
(* Instances of Peering for TLC.                                           *)
(***************************************************************************)
EXTENDS Peering, TLC

\* Nodes and calls are interchangeable.
Symmetry == Permutations(Nodes) \cup Permutations(Conns)

AnyRequest == Conns \X Nodes \X Nodes

\* Two calls between two nodes, up to the names of the nodes: the first goes
\* one way, the second either way.
CONSTANTS a, b, c1, c2
TwoRequests == {<<c1, a, b>>, <<c2, a, b>>, <<c2, b, a>>}
=============================================================================
