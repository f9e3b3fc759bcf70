----------------------------- MODULE LossyFifo -----------------------------
(***************************************************************************)
(* What a packet queue of the node promises to the routine behind it: the  *)
(* packets of one producer come out at most once and in the order in which *)
(* they went in.  Packets may be skipped, because a full queue makes room  *)
(* by dropping.  Nothing is promised about two different producers.        *)
(***************************************************************************)
EXTENDS Naturals

CONSTANT Producers

VARIABLES
    sent,       \* sent[p]: how many packets p has handed over; they are 1..sent[p]
    last,       \* last[p]: the newest packet of p that came out, 0 for none
    received    \* how many packets came out

vars == <<sent, last, received>>

Init ==
    /\ sent = [p \in Producers |-> 0]
    /\ last = [p \in Producers |-> 0]
    /\ received = 0

Send(p) ==
    /\ sent' = [sent EXCEPT ![p] = @ + 1]
    /\ UNCHANGED <<last, received>>

Deliver(p) ==
    /\ \E n \in (last[p] + 1) .. sent[p] : last' = [last EXCEPT ![p] = n]
    /\ received' = received + 1
    /\ UNCHANGED sent

Next == \E p \in Producers : Send(p) \/ Deliver(p)

Spec == Init /\ [][Next]_vars
=============================================================================
