----------------------------- MODULE MCSession -----------------------------
(***************************************************************************)
(* Instances of Session for TLC.                                           *)
(***************************************************************************)
EXTENDS Session, TLC

\* Sessions, indexes and nodes are interchangeable.
Symmetry == Permutations(Sid) \cup Permutations(Idx) \cup Permutations(Nodes)
=============================================================================
