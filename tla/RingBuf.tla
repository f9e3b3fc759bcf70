------------------------------ MODULE RingBuf ------------------------------
(***************************************************************************)
(* The packet queue between two routines of the node                       *)
(* (node/util/ringbuf/ringbuf.go): a buffered Go channel with a Put that   *)
(* drops the oldest packet of a full queue and a PutWithBackpressure that  *)
(* blocks.  Put is not atomic.  It is a non-blocking send and, when that   *)
(* fails, a blocking receive, an unsynchronised increment of `dropped` and *)
(* a blocking send; the consumer and the other producers run in between.   *)
(*                                                                         *)
(* A packet is the pair of its producer and its number.                    *)
(***************************************************************************)
EXTENDS Naturals, Sequences, FiniteSets

CONSTANTS
    Putters,    \* goroutines that call Put
    Pushers,    \* goroutines that call PutWithBackpressure
    Capacity,   \* capacity of the channel
    MaxPuts     \* bound: how many packets one goroutine hands over

Producers == Putters \cup Pushers

\* NewRingBuffer is only called with sizes of 1024, so Capacity is positive.
ASSUME RingBufAssumption ==
    /\ Capacity \in Nat \ {0}
    /\ MaxPuts \in Nat
    /\ IsFiniteSet(Putters)

VARIABLES
    ch,         \* the packets in the channel, oldest first
    dropped,    \* the field `dropped`
    reg,        \* reg[p]: what p read from `dropped` and has not written back
    pc,         \* pc[p]: where p is inside Put
    sent,       \* sent[p]: how many packets p has handed over
    last,       \* last[p]: number of the newest packet of p that was received
    handed,     \* how many packets all of them have handed over
    evicted,    \* how many packets Put calls have taken out to make space
    received    \* how many packets the consumer has taken out

vars == <<ch, dropped, reg, pc, sent, last, handed, evicted, received>>

Packet == [from : Producers, n : Nat]

\* The packet p has handed over last.
Held(p) == [from |-> p, n |-> sent[p]]

Full == Len(ch) = Capacity

Init ==
    /\ ch = <<>>
    /\ dropped = 0
    /\ reg = [p \in Producers |-> 0]
    /\ pc = [p \in Producers |-> "idle"]
    /\ sent = [p \in Producers |-> 0]
    /\ last = [p \in Producers |-> 0]
    /\ handed = 0
    /\ evicted = 0
    /\ received = 0

----------------------------------------------------------------------------
\* A goroutine is about to hand over its next packet.
Begin(p) ==
    /\ pc[p] = "idle"
    /\ sent[p] < MaxPuts
    /\ sent' = [sent EXCEPT ![p] = @ + 1]
    /\ handed' = handed + 1

\* Put, the send case of the select.
PutSend(p) ==
    /\ Begin(p)
    /\ ~Full
    /\ ch' = Append(ch, [from |-> p, n |-> sent[p] + 1])
    /\ UNCHANGED <<dropped, reg, pc, last, evicted, received>>

\* Put that gives up its own packet when the queue is full.
PutDropsNewest(p) ==
    /\ Begin(p)
    /\ Full
    /\ UNCHANGED <<ch, dropped, reg, pc, last, evicted, received>>

\* Put, the default case of the select: the queue was full at this moment.
PutDefault(p) ==
    /\ Begin(p)
    /\ Full
    /\ pc' = [pc EXCEPT ![p] = "evict"]
    /\ UNCHANGED <<ch, dropped, reg, last, evicted, received>>

\* The blocking receive that takes the oldest packet.
Evict(p) ==
    /\ pc[p] = "evict"
    /\ ch # <<>>
    /\ ch' = Tail(ch)
    /\ evicted' = evicted + 1
    /\ pc' = [pc EXCEPT ![p] = "load"]
    /\ UNCHANGED <<dropped, reg, sent, last, handed, received>>

\* An increment that is done twice.
LoadCountsTwice(p) ==
    /\ pc[p] = "load"
    /\ reg' = [reg EXCEPT ![p] = dropped + 1]
    /\ pc' = [pc EXCEPT ![p] = "store"]
    /\ UNCHANGED <<ch, dropped, sent, last, handed, evicted, received>>

\* rb.dropped += 1, a load and a store that no lock protects.
LoadDropped(p) ==
    /\ pc[p] = "load"
    /\ reg' = [reg EXCEPT ![p] = dropped]
    /\ pc' = [pc EXCEPT ![p] = "store"]
    /\ UNCHANGED <<ch, dropped, sent, last, handed, evicted, received>>

\* A Put that starts over instead of sending once it has made space.
StoreStartsOver(p) ==
    /\ pc[p] = "store"
    /\ dropped' = reg[p] + 1
    /\ pc' = [pc EXCEPT ![p] = "evict"]
    /\ UNCHANGED <<ch, reg, sent, last, handed, evicted, received>>

StoreDropped(p) ==
    /\ pc[p] = "store"
    /\ dropped' = reg[p] + 1
    /\ pc' = [pc EXCEPT ![p] = "send"]
    /\ UNCHANGED <<ch, reg, sent, last, handed, evicted, received>>

\* A last send that puts the packet where the evicted one was.
RetryInFront(p) ==
    /\ pc[p] = "send"
    /\ ~Full
    /\ ch' = <<Held(p)>> \o ch
    /\ pc' = [pc EXCEPT ![p] = "idle"]
    /\ UNCHANGED <<dropped, reg, sent, last, handed, evicted, received>>

\* A last send that sends the packet twice.
RetryTwice(p) ==
    /\ pc[p] = "send"
    /\ Len(ch) + 2 <= Capacity
    /\ ch' = ch \o <<Held(p), Held(p)>>
    /\ pc' = [pc EXCEPT ![p] = "idle"]
    /\ UNCHANGED <<dropped, reg, sent, last, handed, evicted, received>>

\* The blocking send that ends a Put which had to make space.
PutRetry(p) ==
    /\ pc[p] = "send"
    /\ ~Full
    /\ ch' = Append(ch, Held(p))
    /\ pc' = [pc EXCEPT ![p] = "idle"]
    /\ UNCHANGED <<dropped, reg, sent, last, handed, evicted, received>>

PutWithBackpressure(p) ==
    /\ Begin(p)
    /\ ~Full
    /\ ch' = Append(ch, [from |-> p, n |-> sent[p] + 1])
    /\ UNCHANGED <<dropped, reg, pc, last, evicted, received>>

\* Get, and a receive from Channel(): the routine behind the queue.
Get ==
    /\ ch # <<>>
    /\ last' = [last EXCEPT ![Head(ch).from] = Head(ch).n]
    /\ ch' = Tail(ch)
    /\ received' = received + 1
    /\ UNCHANGED <<dropped, reg, pc, sent, handed, evicted>>

Put(p) ==
    \/ PutSend(p)
    \/ PutDefault(p)
    \/ Evict(p)
    \/ LoadDropped(p)
    \/ StoreDropped(p)
    \/ PutRetry(p)

Next ==
    \/ \E p \in Putters : Put(p)
    \/ \E p \in Pushers : PutWithBackpressure(p)
    \/ Get

Spec == Init /\ [][Next]_vars

\* The routine behind the queue loops on its receive, and a goroutine inside
\* Put keeps running.  The Go runtime serves blocked senders first come, first
\* served, so a send that is possible again and again happens.  Nothing makes
\* a goroutine call Put.
Fairness ==
    /\ WF_vars(Get)
    /\ \A p \in Putters :
        /\ WF_vars(Evict(p))
        /\ WF_vars(LoadDropped(p))
        /\ WF_vars(StoreDropped(p))
        /\ SF_vars(PutRetry(p))

FairSpec == Spec /\ Fairness

----------------------------------------------------------------------------
\* Every variable of the queue keeps its type; the channel never holds more
\* packets than make(chan rovy.Packet, capacity) gave it room for.
TypeOK ==
    /\ ch \in Seq(Packet)
    /\ Len(ch) <= Capacity
    /\ dropped \in Nat
    /\ reg \in [Producers -> Nat]
    /\ pc \in [Producers -> {"idle", "evict", "load", "store", "send"}]
    /\ sent \in [Producers -> Nat]
    /\ last \in [Producers -> Nat]
    /\ handed \in Nat
    /\ evicted \in Nat
    /\ received \in Nat

\* p has handed over its newest packet but it is not in the channel yet: p is
\* between the default case of Put and the send at its end.
Busy(p) == pc[p] # "idle"

\* The packets of one producer wait in the order in which it handed them over,
\* all of them newer than what the consumer already has and older than the
\* packet the producer still holds in its hands inside Put.
InOrder ==
    /\ \A i \in 1 .. Len(ch) :
        /\ last[ch[i].from] < ch[i].n
        /\ ch[i].n <= sent[ch[i].from]
        /\ Busy(ch[i].from) => ch[i].n < sent[ch[i].from]
    /\ \A i, j \in 1 .. Len(ch) :
        i < j /\ ch[i].from = ch[j].from => ch[i].n < ch[j].n
    /\ \A p \in Producers :
        /\ last[p] <= sent[p]
        /\ Busy(p) => last[p] < sent[p]

\* The Put calls that hold their packet in their hands.
BusyPutters == {p \in Putters : Busy(p)}

\* Put loses nothing silently: every packet that was handed over is in the
\* channel, was received, was evicted by a Put, or is in the hands of a Put.
Accounted ==
    handed = Len(ch) + received + evicted + Cardinality(BusyPutters)

\* Evicting producers that have not stored their increment of `dropped` yet.
Counting == {p \in Putters : pc[p] \in {"load", "store"}}

\* Dropped() never reports more than was evicted, whatever the race of the
\* unsynchronised increments does.
DroppedCount == dropped + Cardinality(Counting) <= evicted

\* The queue implements a lossy first-in first-out link for every producer,
\* whatever the interleaving of Put, PutWithBackpressure and Get.
Fifo == INSTANCE LossyFifo WITH Producers <- Producers, sent <- sent, last <- last,
                              received <- received
ImplementsLossyFifo == Fifo!Spec

\* A Put that has taken out a packet also puts its own one in: the send after
\* the eviction cannot be shut out for ever by the other producers.
PutCompletes ==
    \A p \in Putters : pc[p] \in {"load", "store", "send"} ~> pc[p] = "idle"
=============================================================================
