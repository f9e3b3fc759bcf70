----------------------------- MODULE MCRingBuf -----------------------------
(***************************************************************************)
(* The instance of RingBuf that TLC checks: two goroutines that call Put   *)
(* race for a queue of two, a third one calls PutWithBackpressure.         *)
(***************************************************************************)
EXTENDS RingBuf

CONSTANTS p1, p2, b1

RacingPutters == {p1, p2}
OnePusher == {b1}
=============================================================================
