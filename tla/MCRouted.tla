------------------------------ MODULE MCRouted ------------------------------
(***************************************************************************)
(* An instance of Routed for TLC.                                          *)
(***************************************************************************)
EXTENDS Routed, TLC

\* All routes of two hops over the slots of peers, which with three nodes include
\* the one back to the sender, and two of three hops.
Routes23 == [1 .. 2 -> Slot \ {0}] \cup {<<1, 2, 1>>, <<2, 2, 2>>}

\* Nodes are interchangeable.
NodeSymmetry == Permutations(Nodes)
=============================================================================
