------------------------------ MODULE MCPing ------------------------------
(***************************************************************************)
(* Instances of Ping for TLC.                                              *)
(***************************************************************************)
EXTENDS Ping

CONSTANTS a, b, c, d

\* A triangle with a tail: b has two ways to a, of which the one through c
\* comes up first, and d is behind b.
Triangle == <<<<a, c>>, <<c, a>>, <<c, b>>, <<b, c>>, <<b, d>>, <<d, b>>, <<b, a>>, <<a, b>>>>

\* All routes of two hops.
Routes2 == [1 .. 2 -> Slot \ {0}]

\* And of three: from a round to d, the way back, and once round the triangle.
Routes23 == Routes2 \cup {<<1, 2, 2>>, <<1, 1, 1>>, <<2, 1, 1>>}
=============================================================================
