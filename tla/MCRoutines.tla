----------------------------- MODULE MCRoutines -----------------------------
(***************************************************************************)
(* An instance of Routines for TLC.                                        *)
(***************************************************************************)
EXTENDS Routines

\* Routines that wait for room, and those they wait for; helloRecv, lowerMux
\* and upperMux wait for the same ones.
Waiting == {"upperSend", "helloSend", "lowerSend", "tptSend"}
=============================================================================
