---------------------------- MODULE QueueProofs ----------------------------
(***************************************************************************)
(* Proofs about the queues of a node and the routines that serve them:     *)
(* RingBuf for every capacity, every set of producers and every bound on   *)
(* their calls; Routines for any set of routines, any capacity of the      *)
(* queues and any number of starts.                                        *)
(***************************************************************************)
EXTENDS RingBuf, Routines, SequenceTheorems, FiniteSetTheorems, TLAPS

\* The provers that a leaf is tried with, in turn, unless it names its own.
USE SMT, Zenon, SMTT(30), ZenonT(60), Z3T(30)

(***************************************************************************)
(* The packet queue keeps its type and the order of each producer's        *)
(* packets, and so implements a lossy first-in first-out link.             *)
(***************************************************************************)
\* What taking the oldest packet out of the channel leaves behind.
LEMMA TailFacts ==
    ASSUME NEW S, NEW s \in Seq(S), s # <<>>
    PROVE  /\ Head(s) = s[1]
           /\ Head(s) \in S
           /\ Tail(s) \in Seq(S)
           /\ Len(Tail(s)) = Len(s) - 1
           /\ Len(s) \in Nat \ {0}
           /\ \A i \in 1 .. Len(Tail(s)) : Tail(s)[i] = s[i + 1]
  OBVIOUS

\* What a send adds to the channel.
LEMMA AppendFacts ==
    ASSUME NEW S, NEW s \in Seq(S), NEW e \in S
    PROVE  /\ Append(s, e) \in Seq(S)
           /\ Len(Append(s, e)) = Len(s) + 1
           /\ Len(s) \in Nat
           /\ \A i \in 1 .. Len(s) : Append(s, e)[i] = s[i]
           /\ Append(s, e)[Len(s) + 1] = e
  OBVIOUS

\* Every variable keeps its type and the channel its capacity (TypeOK), for
\* every step of Put, PutWithBackpressure and Get.
THEOREM TypeCorrect == Spec => []TypeOK
<1>1. Init => TypeOK
  BY RingBufAssumption DEF Init, TypeOK
<1>2. TypeOK /\ [Next]_vars => TypeOK'
  <2> SUFFICES ASSUME TypeOK, [Next]_vars PROVE TypeOK'
    OBVIOUS
  <2> USE RingBufAssumption DEF TypeOK
  <2>1. ASSUME NEW p \in Producers, Begin(p), ~Full, 
               ch' = Append(ch, [from |-> p, n |-> sent[p] + 1]),
               UNCHANGED <<dropped, reg, pc, last, evicted, received>>
        PROVE  TypeOK'
    <3>1. [from |-> p, n |-> sent[p] + 1] \in Packet
      BY DEF Packet
    <3>2. Len(ch') = Len(ch) + 1 /\ ch' \in Seq(Packet) /\ Len(ch) \in Nat
      BY <2>1, <3>1, AppendFacts
    <3>3. QED
      BY <2>1, <3>2 DEF Begin, Full
  <2>2. ASSUME NEW p \in Putters, PutDefault(p) PROVE TypeOK'
    BY <2>2 DEF PutDefault, Begin, Producers
  <2>3. ASSUME NEW p \in Putters, Evict(p) PROVE TypeOK'
    <3>1. ch' \in Seq(Packet) /\ Len(ch') <= Capacity
      BY <2>3, TailFacts DEF Evict
    <3>2. QED
      BY <2>3, <3>1 DEF Evict, Producers
  <2>4. ASSUME NEW p \in Putters, LoadDropped(p) PROVE TypeOK'
    BY <2>4 DEF LoadDropped, Producers
  <2>5. ASSUME NEW p \in Putters, StoreDropped(p) PROVE TypeOK'
    BY <2>5 DEF StoreDropped, Producers
  <2>6. ASSUME NEW p \in Putters, PutRetry(p) PROVE TypeOK'
    <3>1. Held(p) \in Packet
      BY DEF Held, Packet, Producers
    <3>2. Len(ch') = Len(ch) + 1 /\ ch' \in Seq(Packet) /\ Len(ch) \in Nat
      BY <2>6, <3>1, AppendFacts DEF PutRetry
    <3>3. QED
      BY <2>6, <3>2 DEF PutRetry, Full, Producers
  <2>7. CASE Get
    <3>1. Head(ch) \in Packet /\ ch' \in Seq(Packet) /\ Len(ch') <= Capacity
      BY <2>7, TailFacts DEF Get
    <3>2. last' \in [Producers -> Nat]
      <4>1. Head(ch).from \in Producers /\ Head(ch).n \in Nat
        BY <3>1, ZenonT(60) DEF Packet
      <4>2. QED
        BY <2>7, <4>1 DEF Get
    <3>3. QED
      BY <2>7, <3>1, <3>2 DEF Get
  <2>8. CASE UNCHANGED vars
    BY <2>8 DEF vars
  <2>9. QED
    BY <2>1, <2>2, <2>3, <2>4, <2>5, <2>6, <2>7, <2>8, ZenonT(60)
       DEF Next, Put, PutSend, PutWithBackpressure, Producers
<1>3. QED
  BY <1>1, <1>2, PTL DEF Spec

\* Every element of the channel has a producer and a number.
LEMMA PacketFacts ==
    ASSUME NEW s \in Seq(Packet)
    PROVE  \A i \in 1 .. Len(s) : s[i].from \in Producers /\ s[i].n \in Nat
<1>1. \A i \in 1 .. Len(s) : s[i] \in Packet
  OBVIOUS
<1>2. \A m \in Packet : m.from \in Producers /\ m.n \in Nat
  BY ZenonT(60) DEF Packet
<1>3. QED
  BY <1>1, <1>2

\* A step of the queue that hands over a packet, shared by the three sends.
\* The new packet is the newest one of its producer.
LEMMA SendKeepsOrder ==
    ASSUME TypeOK, InOrder, NEW p \in Producers, NEW k \in Nat,
           ch' = Append(ch, [from |-> p, n |-> k]),
           last' = last,
           k = sent'[p], pc'[p] = "idle",
           \A q \in Producers : q # p => sent'[q] = sent[q] /\ pc'[q] = pc[q],
           \/ k = sent[p] + 1
           \/ pc[p] # "idle" /\ k = sent[p]
    PROVE  InOrder'
<1>1. [from |-> p, n |-> k] \in Packet
  BY DEF Packet
<1>2. /\ Len(ch') = Len(ch) + 1
      /\ Len(ch) \in Nat
      /\ \A i \in 1 .. Len(ch) : ch'[i] = ch[i]
      /\ ch'[Len(ch) + 1].from = p
      /\ ch'[Len(ch) + 1].n = k
  BY <1>1, AppendFacts DEF TypeOK
<1>3. \A i \in 1 .. Len(ch) : ch[i].from \in Producers /\ ch[i].n \in Nat
  BY PacketFacts DEF TypeOK
<1>4. \A q \in Producers : sent[q] \in Nat /\ last[q] \in Nat
  BY DEF TypeOK
<1>5. last[p] < k
  BY <1>4 DEF InOrder, Busy
<1>6. \A i \in 1 .. Len(ch) : ch[i].from = p => ch[i].n < k
  BY <1>3, <1>4 DEF InOrder, Busy
<1>7. ASSUME NEW i \in 1 .. Len(ch')
      PROVE  /\ last'[ch'[i].from] < ch'[i].n
             /\ ch'[i].n <= sent'[ch'[i].from]
             /\ pc'[ch'[i].from] # "idle" => ch'[i].n < sent'[ch'[i].from]
  <2>1. CASE i = Len(ch) + 1
    BY <1>2, <1>5, <2>1
  <2>2. CASE i # Len(ch) + 1
    <3>1. i \in 1 .. Len(ch) /\ ch'[i] = ch[i]
      BY <1>2, <1>7, <2>2
    <3>2. CASE ch[i].from = p
      BY <1>3, <1>5, <1>6, <3>1, <3>2 DEF InOrder, Busy
    <3>3. CASE ch[i].from # p
      BY <1>3, <3>1, <3>3 DEF InOrder, Busy
    <3>4. QED
      BY <3>2, <3>3
  <2>3. QED
    BY <2>1, <2>2
<1>8. ASSUME NEW i \in 1 .. Len(ch'), NEW j \in 1 .. Len(ch'),
             i < j, ch'[i].from = ch'[j].from
      PROVE  ch'[i].n < ch'[j].n
  <2>1. i \in 1 .. Len(ch) /\ ch'[i] = ch[i]
    BY <1>2, <1>8
  <2>2. CASE j = Len(ch) + 1
    BY <1>2, <1>6, <1>8, <2>1, <2>2, ZenonT(60)
  <2>3. CASE j # Len(ch) + 1
    <3>1. j \in 1 .. Len(ch) /\ ch'[j] = ch[j]
      BY <1>2, <1>8, <2>3
    <3>2. QED
      BY <1>8, <2>1, <3>1 DEF InOrder
  <2>4. QED
    BY <2>2, <2>3
<1>9. ASSUME NEW q \in Producers
      PROVE  last'[q] <= sent'[q] /\ (pc'[q] # "idle" => last'[q] < sent'[q])
  BY <1>4, <1>5, <1>9 DEF InOrder, Busy
<1>10. QED
  BY <1>7, <1>8, <1>9 DEF InOrder, Busy

\* Taking the oldest packet out, by the consumer or by a Put, keeps the order
\* of what is left.
LEMMA RemoveKeepsOrder ==
    ASSUME TypeOK, InOrder, ch # <<>>, ch' = Tail(ch), sent' = sent,
           \A q \in Producers : pc'[q] = "idle" <=> pc[q] = "idle",
           \/ last' = last
           \/ last' = [last EXCEPT ![Head(ch).from] = Head(ch).n]
    PROVE  InOrder'
<1>1. /\ Len(ch') = Len(ch) - 1
      /\ Len(ch) \in Nat \ {0}
      /\ Head(ch) = ch[1]
      /\ \A i \in 1 .. Len(ch') : ch'[i] = ch[i + 1]
  BY TailFacts DEF TypeOK
<1>2. \A i \in 1 .. Len(ch) : ch[i].from \in Producers /\ ch[i].n \in Nat
  BY PacketFacts DEF TypeOK
<1>3. \A q \in Producers :
        /\ sent[q] \in Nat
        /\ last[q] \in Nat
        /\ last'[q] = IF q = ch[1].from /\ last' # last THEN ch[1].n ELSE last[q]
  BY <1>1 DEF TypeOK
<1>4. 1 \in 1 .. Len(ch) /\ ch[1].from \in Producers /\ ch[1].n \in Nat
  BY <1>1, <1>2
<1>5. ASSUME NEW i \in 1 .. Len(ch')
      PROVE  /\ last'[ch'[i].from] < ch'[i].n
             /\ ch'[i].n <= sent'[ch'[i].from]
             /\ pc'[ch'[i].from] # "idle" => ch'[i].n < sent'[ch'[i].from]
  <2>1. i + 1 \in 1 .. Len(ch) /\ 1 < i + 1 /\ ch'[i] = ch[i + 1]
    BY <1>1, <1>5
  <2>2. ch[1].from = ch[i + 1].from => ch[1].n < ch[i + 1].n
    BY <1>4, <2>1 DEF InOrder
  <2>3. last[ch[i + 1].from] < ch[i + 1].n
    BY <2>1 DEF InOrder
  <2>4. last'[ch'[i].from] < ch'[i].n
    BY <1>2, <1>3, <2>1, <2>2, <2>3, ZenonT(60)
  <2>5. QED
    BY <1>2, <2>1, <2>4, ZenonT(60) DEF InOrder, Busy
<1>6. ASSUME NEW i \in 1 .. Len(ch'), NEW j \in 1 .. Len(ch'),
             i < j, ch'[i].from = ch'[j].from
      PROVE  ch'[i].n < ch'[j].n
  <2>1. /\ i + 1 \in 1 .. Len(ch) /\ ch'[i] = ch[i + 1]
        /\ j + 1 \in 1 .. Len(ch) /\ ch'[j] = ch[j + 1]
        /\ i + 1 < j + 1
    BY <1>1, <1>6
  <2>2. QED
    BY <1>6, <2>1 DEF InOrder
<1>7. ASSUME NEW q \in Producers
      PROVE  last'[q] <= sent'[q] /\ (pc'[q] # "idle" => last'[q] < sent'[q])
  <2>1. /\ ch[1].n <= sent[ch[1].from]
        /\ pc[ch[1].from] # "idle" => ch[1].n < sent[ch[1].from]
    BY <1>4 DEF InOrder, Busy
  <2>2. last[q] <= sent[q] /\ (pc[q] # "idle" => last[q] < sent[q])
    BY <1>7 DEF InOrder, Busy
  <2>3. QED
    BY <1>3, <1>4, <1>7, <2>1, <2>2, ZenonT(60)
<1>8. QED
  BY <1>5, <1>6, <1>7 DEF InOrder, Busy

\* The packets of each producer stay in order (InOrder), for every interleaving
\* of Put, PutWithBackpressure and Get.
THEOREM OrderKept == Spec => []InOrder
<1>1. Init => InOrder
  BY DEF Init, InOrder, Busy
<1>2. TypeOK /\ InOrder /\ [Next]_vars => InOrder'
  <2> SUFFICES ASSUME TypeOK, InOrder, [Next]_vars PROVE InOrder'
    OBVIOUS
  <2>1. ASSUME NEW p \in Producers, Begin(p),
               ch' = Append(ch, [from |-> p, n |-> sent[p] + 1]),
               UNCHANGED <<dropped, reg, pc, last, evicted, received>>
        PROVE  InOrder'
    <3>1. sent[p] + 1 \in Nat /\ sent'[p] = sent[p] + 1 /\ pc'[p] = "idle"
      BY <2>1 DEF Begin, TypeOK
    <3>2. \A q \in Producers : q # p => sent'[q] = sent[q] /\ pc'[q] = pc[q]
      BY <2>1 DEF Begin, TypeOK
    <3>3. QED
      BY <2>1, <3>1, <3>2, SendKeepsOrder
  <2>2. ASSUME NEW p \in Putters, PutDefault(p) PROVE InOrder'
    <3>1. \A i \in 1 .. Len(ch) : ch[i].from \in Producers /\ ch[i].n \in Nat
      BY PacketFacts DEF TypeOK
    <3>2. p \in Producers /\ pc[p] = "idle" /\ ch' = ch /\ last' = last
      BY <2>2 DEF PutDefault, Begin, Producers
    <3>3. \A q \in Producers :
            /\ sent[q] \in Nat /\ last[q] \in Nat
            /\ sent'[q] = IF q = p THEN sent[q] + 1 ELSE sent[q]
            /\ pc'[q] = IF q = p THEN "evict" ELSE pc[q]
      BY <2>2, <3>2, ZenonT(60) DEF PutDefault, Begin, TypeOK
    <3>4. ASSUME NEW i \in 1 .. Len(ch)
          PROVE  /\ last[ch[i].from] < ch[i].n
                 /\ ch[i].n <= sent'[ch[i].from]
                 /\ pc'[ch[i].from] # "idle" => ch[i].n < sent'[ch[i].from]
      <4>1. /\ ch[i].from \in Producers /\ ch[i].n \in Nat
            /\ last[ch[i].from] < ch[i].n
            /\ ch[i].n <= sent[ch[i].from]
            /\ pc[ch[i].from] # "idle" => ch[i].n < sent[ch[i].from]
        BY <3>1, <3>4 DEF InOrder, Busy
      <4>2. QED
        BY <3>3, <4>1
    <3>5. ASSUME NEW q \in Producers
          PROVE  last[q] <= sent'[q] /\ (pc'[q] # "idle" => last[q] < sent'[q])
      <4>1. last[q] <= sent[q] /\ (pc[q] # "idle" => last[q] < sent[q])
        BY <3>5 DEF InOrder, Busy
      <4>2. QED
        BY <3>3, <3>5, <4>1
    <3>6. QED
      BY <3>2, <3>4, <3>5 DEF InOrder, Busy
  <2>3. ASSUME NEW p \in Putters, Evict(p) PROVE InOrder'
    BY <2>3, RemoveKeepsOrder, ZenonT(60) DEF Evict, TypeOK, Producers
  <2>4. ASSUME NEW p \in Putters, LoadDropped(p) \/ StoreDropped(p)
        PROVE  InOrder'
    <3>1. /\ ch' = ch /\ sent' = sent /\ last' = last
          /\ \A q \in Producers : pc'[q] = "idle" <=> pc[q] = "idle"
      BY <2>4 DEF LoadDropped, StoreDropped, TypeOK, Producers
    <3>2. \A i \in 1 .. Len(ch) : ch[i].from \in Producers
      BY PacketFacts DEF TypeOK
    <3>3. QED
      BY <3>1, <3>2 DEF InOrder, Busy
  <2>5. ASSUME NEW p \in Putters, PutRetry(p) PROVE InOrder'
    <3>1. /\ p \in Producers
          /\ sent[p] \in Nat
          /\ ch' = Append(ch, [from |-> p, n |-> sent[p]])
          /\ last' = last
          /\ sent[p] = sent'[p]
          /\ pc[p] # "idle"
          /\ pc'[p] = "idle"
          /\ \A q \in Producers : q # p => sent'[q] = sent[q] /\ pc'[q] = pc[q]
      BY <2>5 DEF PutRetry, Held, TypeOK, Producers
    <3>2. QED
      BY <3>1, SendKeepsOrder
  <2>6. CASE Get
    BY <2>6, RemoveKeepsOrder, ZenonT(60) DEF Get, TypeOK
  <2>7. CASE UNCHANGED vars
    BY <2>7 DEF vars, InOrder, Busy
  <2>8. QED
    BY <2>1, <2>2, <2>3, <2>4, <2>5, <2>6, <2>7, ZenonT(60)
       DEF Next, Put, PutSend, PutWithBackpressure, Producers
<1>3. QED
  BY <1>1, <1>2, TypeCorrect, PTL DEF Spec

\* The queue implements the lossy first-in first-out link (LossyFifo): every
\* packet comes out at most once, in the order of its producer, and nothing
\* comes out that was not handed over.
THEOREM QueueImplementsLossyFifo == Spec => ImplementsLossyFifo
<1>1. Init => Fifo!Init
  BY DEF Init, Fifo!Init
<1>2. TypeOK /\ InOrder /\ [Next]_vars => [Fifo!Next]_(Fifo!vars)
  <2> SUFFICES ASSUME TypeOK, InOrder, [Next]_vars
               PROVE  [Fifo!Next]_(Fifo!vars)
    OBVIOUS
  <2>1. ASSUME NEW p \in Producers, Begin(p), last' = last, received' = received
        PROVE  Fifo!Next
    BY <2>1, ZenonT(60) DEF Begin, Fifo!Next, Fifo!Send
  <2>2. CASE Get
    <3>1. /\ Head(ch) = ch[1] /\ 1 \in 1 .. Len(ch)
          /\ ch[1].from \in Producers /\ ch[1].n \in Nat
      <4>1. Head(ch) = ch[1] /\ Len(ch) \in Nat \ {0}
        BY <2>2, TailFacts DEF Get, TypeOK
      <4>2. QED
        BY <4>1, PacketFacts DEF TypeOK
    <3>2. ch[1].n \in (last[ch[1].from] + 1) .. sent[ch[1].from]
      <4>1. last[ch[1].from] < ch[1].n /\ ch[1].n <= sent[ch[1].from]
        BY <3>1 DEF InOrder
      <4>2. QED
        BY <3>1, <4>1 DEF TypeOK
    <3>3. Fifo!Deliver(ch[1].from)
      BY <2>2, <3>1, <3>2, ZenonT(60) DEF Get, Fifo!Deliver
    <3>4. QED
      BY <3>1, <3>3 DEF Fifo!Next
  <2>3. ASSUME sent' = sent, last' = last, received' = received
        PROVE  UNCHANGED Fifo!vars
    BY <2>3 DEF Fifo!vars
  <2>4. QED
    BY <2>1, <2>2, <2>3, ZenonT(60)
       DEF Next, vars, Put, PutSend, PutDefault, Evict, LoadDropped,
           StoreDropped, PutRetry, PutWithBackpressure, Producers
<1>3. QED
  BY <1>1, <1>2, TypeCorrect, OrderKept, PTL
     DEF Spec, ImplementsLossyFifo, Fifo!Spec
----------------------------------------------------------------------------
\* The Put calls at some place of Put are finitely many.
LEMMA FiniteCalls ==
    ASSUME NEW S \in SUBSET Putters
    PROVE  IsFiniteSet(S) /\ Cardinality(S) \in Nat
  BY RingBufAssumption, FS_Subset, FS_CardinalityType

\* One more, or one fewer, Put call at some place of Put.
LEMMA CallComesOrGoes ==
    ASSUME NEW S \in SUBSET Putters, NEW T \in SUBSET Putters, NEW p \in Putters
    PROVE  /\ p \notin S /\ T = S \cup {p} => Cardinality(T) = Cardinality(S) + 1
           /\ p \in S /\ T = S \ {p} => Cardinality(T) = Cardinality(S) - 1
  BY FiniteCalls, FS_AddElement, FS_RemoveElement, ZenonT(60)

\* Every packet that was handed over is in the channel, was received, was
\* evicted or is in the hands of a Put (Accounted), in every interleaving of
\* Put, PutWithBackpressure and Get.
THEOREM NothingLost == Spec => []Accounted
<1>1. Init => Accounted
  <2>1. Init => BusyPutters = {}
    BY DEF Init, BusyPutters, Busy, Producers
  <2>2. Init => Cardinality(BusyPutters) = 0
    BY <2>1, FS_EmptySet, ZenonT(60)
  <2>3. QED
    BY <2>2 DEF Init, Accounted
<1>2. TypeOK /\ Accounted /\ [Next]_vars => Accounted'
  <2> SUFFICES ASSUME TypeOK, Accounted, [Next]_vars PROVE Accounted'
    OBVIOUS
  <2>1. /\ BusyPutters \in SUBSET Putters /\ BusyPutters' \in SUBSET Putters
        /\ Cardinality(BusyPutters) \in Nat
        /\ handed \in Nat /\ received \in Nat /\ evicted \in Nat
        /\ ch \in Seq(Packet) /\ Len(ch) \in Nat
    BY FiniteCalls DEF BusyPutters, TypeOK
  <2>2. ASSUME NEW p \in Producers, Begin(p),
               ch' = Append(ch, [from |-> p, n |-> sent[p] + 1]),
               UNCHANGED <<dropped, reg, pc, last, evicted, received>>
        PROVE  Accounted'
    <3>1. [from |-> p, n |-> sent[p] + 1] \in Packet
      BY <2>2 DEF Packet, TypeOK
    <3>2. Len(ch') = Len(ch) + 1
      BY <2>1, <2>2, <3>1, AppendFacts, ZenonT(60)
    <3>3. BusyPutters' = BusyPutters /\ handed' = handed + 1
      BY <2>2 DEF Begin, BusyPutters, Busy
    <3>4. QED
      BY <2>1, <2>2, <3>2, <3>3 DEF Accounted
  <2>3. ASSUME NEW p \in Putters, PutDefault(p) PROVE Accounted'
    <3>1. p \notin BusyPutters /\ BusyPutters' = BusyPutters \cup {p}
      BY <2>3 DEF PutDefault, Begin, BusyPutters, Busy, TypeOK, Producers
    <3>2. Cardinality(BusyPutters') = Cardinality(BusyPutters) + 1
      BY <2>1, <3>1, CallComesOrGoes, ZenonT(60)
    <3>3. QED
      BY <2>1, <2>3, <3>2 DEF PutDefault, Begin, Accounted
  <2>4. ASSUME NEW p \in Putters, Evict(p) PROVE Accounted'
    <3>1. BusyPutters' = BusyPutters
      BY <2>4 DEF Evict, BusyPutters, Busy, TypeOK, Producers
    <3>2. Len(ch') = Len(ch) - 1
      BY <2>1, <2>4, TailFacts DEF Evict
    <3>3. QED
      BY <2>1, <2>4, <3>1, <3>2 DEF Evict, Accounted
  <2>5. ASSUME NEW p \in Putters, LoadDropped(p) \/ StoreDropped(p)
        PROVE  Accounted'
    <3>1. BusyPutters' = BusyPutters
      BY <2>5 DEF LoadDropped, StoreDropped, BusyPutters, Busy, TypeOK, Producers
    <3>2. QED
      BY <2>5, <3>1 DEF LoadDropped, StoreDropped, Accounted
  <2>6. ASSUME NEW p \in Putters, PutRetry(p) PROVE Accounted'
    <3>1. p \in BusyPutters /\ BusyPutters' = BusyPutters \ {p}
      BY <2>6 DEF PutRetry, BusyPutters, Busy, TypeOK, Producers
    <3>2. Cardinality(BusyPutters') = Cardinality(BusyPutters) - 1
      BY <2>1, <3>1, CallComesOrGoes
    <3>3. Held(p) \in Packet
      BY DEF Held, Packet, TypeOK, Producers
    <3>4. Len(ch') = Len(ch) + 1
      BY <2>1, <2>6, <3>3, AppendFacts DEF PutRetry
    <3>5. QED
      BY <2>1, <2>6, <3>2, <3>4 DEF PutRetry, Accounted
  <2>7. CASE Get
    <3>1. BusyPutters' = BusyPutters
      BY <2>7 DEF Get, BusyPutters, Busy
    <3>2. Len(ch') = Len(ch) - 1
      BY <2>1, <2>7, TailFacts DEF Get
    <3>3. QED
      BY <2>1, <2>7, <3>1, <3>2 DEF Get, Accounted
  <2>8. CASE UNCHANGED vars
    BY <2>8 DEF vars, Accounted, BusyPutters, Busy
  <2>9. QED
    BY <2>2, <2>3, <2>4, <2>5, <2>6, <2>7, <2>8, ZenonT(60)
       DEF Next, Put, PutSend, PutWithBackpressure, Producers
<1>3. QED
  BY <1>1, <1>2, TypeCorrect, PTL DEF Spec

\* What a Put has read from `dropped` is not ahead of the evictions either,
\* when the ones that are still to be counted are added.
RegisterCount ==
    \A p \in Putters :
        pc[p] = "store" => reg[p] + Cardinality(Counting) <= evicted

\* The inductive form of DroppedCount: the store of a Put writes back what it
\* read, so the bound must hold of every value that was read and not stored.
CountInv == DroppedCount /\ RegisterCount

\* Dropped() never reports more than was evicted (DroppedCount), whatever the
\* loads and stores of the racing Put calls overwrite.
THEOREM DroppedNeverAhead == Spec => []DroppedCount
<1>1. Init => CountInv
  <2>1. Init => Counting = {}
    BY DEF Init, Counting, Producers
  <2>2. QED
    BY <2>1, FS_EmptySet DEF Init, CountInv, DroppedCount, RegisterCount, Producers
<1>2. TypeOK /\ CountInv /\ [Next]_vars => CountInv'
  <2> SUFFICES ASSUME TypeOK, CountInv, [Next]_vars PROVE CountInv'
    OBVIOUS
  <2>1. /\ Counting \in SUBSET Putters /\ Counting' \in SUBSET Putters
        /\ Cardinality(Counting) \in Nat /\ Cardinality(Counting') \in Nat
        /\ dropped \in Nat /\ evicted \in Nat
        /\ \A q \in Putters : q \in Producers /\ reg[q] \in Nat
    BY FiniteCalls DEF Counting, TypeOK, Producers
  <2>2. ASSUME Counting' = Counting, dropped' = dropped, evicted' = evicted,
               reg' = reg, \A q \in Putters : pc'[q] = "store" => pc[q] = "store"
        PROVE  CountInv'
    BY <2>2 DEF CountInv, DroppedCount, RegisterCount
  <2>3. ASSUME NEW p \in Putters, PutDefault(p) \/ PutRetry(p) PROVE CountInv'
    <3>1. Counting' = Counting /\ \A q \in Putters : pc'[q] = "store" => pc[q] = "store"
      BY <2>3, ZenonT(60) DEF PutDefault, PutRetry, Begin, Counting, TypeOK, Producers
    <3>2. QED
      BY <2>2, <2>3, <3>1 DEF PutDefault, PutRetry
  <2>4. ASSUME NEW p \in Putters, Evict(p) PROVE CountInv'
    <3>1. /\ p \notin Counting /\ Counting' = Counting \cup {p}
          /\ \A q \in Putters : pc'[q] = "store" => pc[q] = "store"
      BY <2>4 DEF Evict, Counting, TypeOK, Producers
    <3>2. Cardinality(Counting') = Cardinality(Counting) + 1
      BY <2>1, <3>1, CallComesOrGoes, ZenonT(60)
    <3>3. QED
      <4>1. /\ dropped' = dropped /\ evicted' = evicted + 1
            /\ \A q \in Putters : reg'[q] = reg[q]
        BY <2>4 DEF Evict
      <4>2. DroppedCount'
        BY <2>1, <3>2, <4>1 DEF CountInv, DroppedCount
      <4>3. ASSUME NEW q \in Putters, pc'[q] = "store"
            PROVE  reg'[q] + Cardinality(Counting') <= evicted'
        <5>1. reg[q] \in Nat /\ reg[q] + Cardinality(Counting) <= evicted
          BY <2>1, <3>1, <4>3, ZenonT(60) DEF CountInv, RegisterCount
        <5>2. QED
          BY <2>1, <3>2, <4>1, <5>1
      <4>4. QED
        BY <4>2, <4>3 DEF CountInv, RegisterCount
  <2>5. ASSUME NEW p \in Putters, LoadDropped(p) PROVE CountInv'
    <3>1. /\ Counting' = Counting /\ reg'[p] = dropped
          /\ \A q \in Putters : q # p => reg'[q] = reg[q] /\ pc'[q] = pc[q]
      BY <2>1, <2>5 DEF LoadDropped, Counting, TypeOK
    <3>2. QED
      BY <2>1, <2>5, <3>1, ZenonT(60) DEF LoadDropped, CountInv, DroppedCount, RegisterCount
  <2>6. ASSUME NEW p \in Putters, StoreDropped(p) PROVE CountInv'
    <3>1. /\ p \in Counting /\ Counting' = Counting \ {p}
          /\ \A q \in Putters : pc'[q] = "store" => pc[q] = "store"
      BY <2>6 DEF StoreDropped, Counting, TypeOK, Producers
    <3>2. Cardinality(Counting') = Cardinality(Counting) - 1
      BY <2>1, <3>1, CallComesOrGoes
    <3>3. QED
      <4>1. /\ dropped' = reg[p] + 1 /\ evicted' = evicted /\ pc[p] = "store"
            /\ \A q \in Putters : reg'[q] = reg[q]
        BY <2>6 DEF StoreDropped
      <4>2. reg[p] \in Nat /\ reg[p] + Cardinality(Counting) <= evicted
        BY <2>1, <4>1 DEF CountInv, RegisterCount
      <4>3. DroppedCount'
        BY <2>1, <3>2, <4>1, <4>2 DEF DroppedCount
      <4>4. ASSUME NEW q \in Putters, pc'[q] = "store"
            PROVE  reg'[q] + Cardinality(Counting') <= evicted'
        <5>1. reg[q] \in Nat /\ reg[q] + Cardinality(Counting) <= evicted
          BY <2>1, <3>1, <4>4, ZenonT(60) DEF CountInv, RegisterCount
        <5>2. QED
          BY <2>1, <3>2, <4>1, <5>1
      <4>5. QED
        BY <4>3, <4>4 DEF CountInv, RegisterCount
  <2>7. ASSUME UNCHANGED <<dropped, reg, pc, evicted>> PROVE CountInv'
    BY <2>2, <2>7 DEF Counting
  <2>8. QED
    BY <2>3, <2>4, <2>5, <2>6, <2>7, ZenonT(60)
       DEF Next, Put, PutSend, PutWithBackpressure, Get, vars
<1>3. CountInv => DroppedCount
  BY DEF CountInv
<1>4. QED
  BY <1>1, <1>2, <1>3, TypeCorrect, PTL DEF Spec

(***************************************************************************)
(* Served says that some routine of each kind stays.  The invariant names  *)
(* it: the one of the latest Start, which can only have read the latest    *)
(* channel, and that one is open while the node runs.                      *)
(***************************************************************************)
Where ==
    {None, Loop, Gone} \cup {Select(c) : c \in Starts} \cup {Waits(q) : q \in Queues}

\* A routine that stays while channel c is open.
Stays(w, c) == w = Loop \/ w = Select(c) \/ w.at = "put"

ServeInv ==
    /\ NodeTypeOK
    /\ running = 0 => \A k \in Kinds, g \in Starts : inst[k][g] = None
    /\ Running => \A k \in Kinds : Stays(inst[k][running], running)

\* The places of a routine differ.
LEMMA WhereDiffer ==
    /\ \A c, q : /\ Select(c).at = "select" /\ Select(c).ch = c
                 /\ Waits(q).at = "put" /\ Waits(q).q = q
    /\ None.at = "none" /\ Loop.at = "loop" /\ Gone.at = "gone"
BY DEF None, Loop, Gone, Select, Waits

\* Put never makes a queue longer than its capacity.
LEMMA PutToType ==
    ASSUME NEW lens \in [Queues -> 0 .. Cap], NEW q \in Queues
    PROVE  PutTo(lens, q) \in [Queues -> 0 .. Cap]
<1>0. Cap \in Nat /\ lens[q] \in 0 .. Cap
  BY RoutinesAssumption
<1> DEFINE b == lens[q] + 1
           S == {Cap, b}
           w == IF Cap <= b THEN Cap ELSE b
<1>1. w \in S /\ \A x \in S : w <= x
  BY <1>0
<1>2. Min(S) \in S /\ \A x \in S : Min(S) <= x
  <2> HIDE DEF S, w
  <2> QED
    BY <1>1 DEF Min
<1>3. Min(S) \in 0 .. Cap
  <2> DEFINE m == Min(S)
  <2>1. m \in S /\ m <= Cap
    BY <1>2
  <2> HIDE DEF m
  <2>2. m \in 0 .. Cap
    BY <2>1, <1>0
  <2> QED
    BY <2>2 DEF m
<1>4. PutTo(lens, q) = [lens EXCEPT ![q] = Min(S)]
  BY DEF PutTo
<1> HIDE DEF S
<1> QED
  BY <1>3, <1>4

\* A step of one routine keeps the invariant if where it goes is allowed.
LEMMA MoveKeepsServing ==
    ASSUME ServeInv, NEW k \in Kinds, NEW g \in Starts, NEW w \in Where,
           inst' = [inst EXCEPT ![k][g] = w], UNCHANGED <<running, closed>>,
           len' \in [Queues -> 0 .. Cap], inst[k][g] # None,
           Running /\ g = running => Stays(w, running)
    PROVE  ServeInv'
<1>1. inst \in [Kinds -> [Starts -> Where]]
  BY DEF ServeInv, NodeTypeOK, Where
<1>2. /\ inst' \in [Kinds -> [Starts -> Where]]
      /\ \A x \in Kinds, y \in Starts :
            inst'[x][y] = IF x = k /\ y = g THEN w ELSE inst[x][y]
  BY <1>1
<1>3. NodeTypeOK'
  BY <1>2 DEF ServeInv, NodeTypeOK, Where
<1>4. running # 0
  BY DEF ServeInv
<1>5. ASSUME Running, NEW x \in Kinds PROVE Stays(inst'[x][running], running)
  <2>1. running \in Starts
    BY <1>4, RoutinesAssumption DEF ServeInv, NodeTypeOK, Starts
  <2>2. Stays(inst[x][running], running)
    BY <1>5 DEF ServeInv
  <2> QED
    BY <1>2, <1>5, <2>1, <2>2, ZenonT(60)
<1> QED
  BY <1>3, <1>4, <1>5, ZenonT(60) DEF ServeInv, Running

LEMMA EnterKeepsServing ==
    ASSUME ServeInv, NEW k \in Kinds, NEW g \in Starts, Enter(k, g)
    PROVE  ServeInv'
<1>1. inst[k][g] # None
  BY WhereDiffer DEF Enter
<1>2. running \in Starts
  BY <1>1, RoutinesAssumption DEF ServeInv, NodeTypeOK, Starts
<1>3. Select(running) \in Where /\ Stays(Select(running), running)
  BY <1>2 DEF Where, Stays
<1>4. len' \in [Queues -> 0 .. Cap] /\ UNCHANGED <<running, closed>>
  BY DEF Enter, ServeInv, NodeTypeOK
<1>5. PICK w \in Where : w = Select(running)
  BY <1>3
<1>6. inst' = [inst EXCEPT ![k][g] = w] /\ Stays(w, running)
  BY <1>3, <1>5 DEF Enter
<1> QED
  BY <1>1, <1>4, <1>6, MoveKeepsServing, ZenonT(60)

LEMMA ExitKeepsServing ==
    ASSUME ServeInv, NEW k \in Kinds, NEW g \in Starts, Exit(k, g)
    PROVE  ServeInv'
<1>1. inst[k][g].at = "select" /\ inst[k][g].ch \in closed
  BY DEF Exit
<1>2. inst[k][g] # None /\ Gone \in Where
  BY <1>1, WhereDiffer, ZenonT(60) DEF Where
<1>3. ~(Running /\ g = running)
  <2> SUFFICES ASSUME Running, g = running PROVE FALSE
    OBVIOUS
  <2>1. Stays(inst[k][g], g)
    BY DEF ServeInv
  <2>2. inst[k][g] = Select(g)
    BY <1>1, <2>1, WhereDiffer DEF Stays
  <2> QED
    BY <1>1, <2>2, WhereDiffer DEF Running
<1>4. len' \in [Queues -> 0 .. Cap] /\ UNCHANGED <<running, closed>>
  BY DEF Exit, ServeInv, NodeTypeOK
<1>5. inst' = [inst EXCEPT ![k][g] = Gone]
  BY DEF Exit
<1> QED
  BY <1>2, <1>3, <1>4, <1>5, MoveKeepsServing, ZenonT(60)

LEMMA TakeKeepsServing ==
    ASSUME ServeInv, NEW k \in Kinds, NEW g \in Starts, Take(k, g)
    PROVE  ServeInv'
<1> DEFINE rest == IF k = "tptRecv" THEN len ELSE [len EXCEPT ![Reads[k]] = @ - 1]
<1>1. inst[k][g] # None /\ UNCHANGED <<running, closed>>
  BY WhereDiffer DEF Take
<1>2. rest \in [Queues -> 0 .. Cap]
  <2>1. CASE k = "tptRecv"
    BY <2>1 DEF ServeInv, NodeTypeOK
  <2>2. CASE k # "tptRecv"
    <3>1. Reads[k] \in Queues /\ Cap \in Nat
      BY RoutinesAssumption DEF Queues
    <3>2. len \in [Queues -> 0 .. Cap] /\ len[Reads[k]] > 0
      BY <2>2 DEF ServeInv, NodeTypeOK, Take
    <3>3. len[Reads[k]] - 1 \in 0 .. Cap
      BY <3>1, <3>2
    <3> QED
      BY <2>2, <3>1, <3>2, <3>3
  <2> QED
    BY <2>1, <2>2
<1> HIDE DEF rest
<1>3. CASE /\ \E lens \in {rest} \cup {PutTo(rest, q) : q \in Puts[k] \cap Queues} : len' = lens
           /\ inst' = [inst EXCEPT ![k][g] = Loop]
  <2>1. len' \in [Queues -> 0 .. Cap]
    BY <1>2, <1>3, PutToType
  <2>2. Loop \in Where /\ Stays(Loop, running)
    BY DEF Where, Stays
  <2> QED
    BY <1>1, <1>3, <2>1, <2>2, MoveKeepsServing, ZenonT(60)
<1>4. CASE /\ len' = rest
           /\ \E q \in Backpressure[k] \cap Queues : inst' = [inst EXCEPT ![k][g] = Waits(q)]
  <2>1. PICK q \in Queues : inst' = [inst EXCEPT ![k][g] = Waits(q)]
    BY <1>4, ZenonT(60)
  <2>2. Waits(q) \in Where /\ Stays(Waits(q), running)
    BY WhereDiffer DEF Where, Stays
  <2> QED
    BY <1>1, <1>2, <1>4, <2>1, <2>2, MoveKeepsServing, ZenonT(60)
<1> QED
  BY <1>3, <1>4, ZenonT(60) DEF Take, rest

LEMMA PutKeepsServing ==
    ASSUME ServeInv, NEW k \in Kinds, NEW g \in Starts, PutAfterWait(k, g)
    PROVE  ServeInv'
<1>1. inst[k][g].at = "put"
  BY DEF PutAfterWait
<1>2. inst[k][g] # None /\ inst[k][g] \in Where
  BY <1>1, WhereDiffer DEF ServeInv, NodeTypeOK, Where
<1>3. PICK q \in Queues : inst[k][g] = Waits(q)
  BY <1>1, <1>2, WhereDiffer DEF Where
<1>4. /\ len[q] < Cap /\ len' = [len EXCEPT ![q] = @ + 1]
      /\ inst' = [inst EXCEPT ![k][g] = Loop] /\ UNCHANGED <<running, closed>>
  BY <1>3, WhereDiffer, ZenonT(60) DEF PutAfterWait
<1>5. len \in [Queues -> 0 .. Cap] /\ Cap \in Nat
  BY RoutinesAssumption DEF ServeInv, NodeTypeOK
<1>6. len[q] + 1 \in 0 .. Cap
  BY <1>4, <1>5
<1>7. len' \in [Queues -> 0 .. Cap]
  BY <1>4, <1>5, <1>6
<1>8. Loop \in Where /\ Stays(Loop, running)
  BY DEF Where, Stays
<1> QED
  BY <1>2, <1>4, <1>7, <1>8, MoveKeepsServing, ZenonT(60)

LEMMA StartKeepsServing ==
    ASSUME ServeInv, Start
    PROVE  ServeInv'
<1>1. /\ running < MaxStarts /\ running' = running + 1 /\ UNCHANGED <<closed, len>>
      /\ inst' = [k \in Kinds |-> [inst[k] EXCEPT ![running + 1] = Loop]]
  BY DEF Start
<1>2. running' \in Starts /\ running' \in 0 .. MaxStarts /\ running' # 0
  BY <1>1, RoutinesAssumption DEF ServeInv, NodeTypeOK, Starts
<1>3. inst \in [Kinds -> [Starts -> Where]] /\ Loop \in Where
  BY DEF ServeInv, NodeTypeOK, Where
<1>4. /\ inst' \in [Kinds -> [Starts -> Where]]
      /\ \A k \in Kinds : inst'[k][running'] = Loop
  BY <1>1, <1>2, <1>3, ZenonT(60)
<1>5. NodeTypeOK'
  BY <1>1, <1>2, <1>4, ZenonT(60) DEF ServeInv, NodeTypeOK, Where
<1> QED
  BY <1>2, <1>4, <1>5 DEF ServeInv, Stays

LEMMA StopKeepsServing ==
    ASSUME ServeInv, Stop
    PROVE  ServeInv'
<1>1. /\ Running /\ closed' = closed \cup {running} /\ UNCHANGED <<running, inst, len>>
  BY DEF Stop
<1>2. running \in Starts
  BY <1>1, RoutinesAssumption DEF ServeInv, NodeTypeOK, Starts, Running
<1>3. NodeTypeOK'
  BY <1>1, <1>2, ZenonT(60) DEF ServeInv, NodeTypeOK
<1> QED
  BY <1>1, <1>3 DEF ServeInv, Running

\* Steps that only add to a queue.
LEMMA QueueKeepsServing ==
    ASSUME ServeInv, len' \in [Queues -> 0 .. Cap], UNCHANGED <<running, closed, inst>>
    PROVE  ServeInv'
BY DEF ServeInv, NodeTypeOK, Running, Stays

LEMMA InitServes == NodeInit => ServeInv
<1> SUFFICES ASSUME NodeInit PROVE ServeInv
  OBVIOUS
<1>1. NodeTypeOK
  BY RoutinesAssumption DEF NodeInit, NodeTypeOK
<1> QED
  BY <1>1 DEF NodeInit, ServeInv, Running

LEMMA NextServes == ServeInv /\ [NodeNext]_nodeVars => ServeInv'
<1> SUFFICES ASSUME ServeInv, [NodeNext]_nodeVars PROVE ServeInv'
  OBVIOUS
<1>0. len \in [Queues -> 0 .. Cap]
  BY DEF ServeInv, NodeTypeOK
<1>1. CASE Start
  BY <1>1, StartKeepsServing
<1>2. CASE Stop
  BY <1>2, StopKeepsServing
<1>3. ASSUME NEW k \in Kinds, NEW g \in Starts, Step(k, g) PROVE ServeInv'
  BY <1>3, EnterKeepsServing, ExitKeepsServing, TakeKeepsServing, PutKeepsServing DEF Step
<1>4. CASE Send
  BY <1>0, <1>4, PutToType, QueueKeepsServing DEF Send
<1>5. CASE Connect
  BY <1>0, <1>5, PutToType, QueueKeepsServing, ZenonT(60) DEF Connect
<1>6. ASSUME NEW q \in Queues, Outside(q) PROVE ServeInv'
  BY <1>0, <1>6, PutToType, QueueKeepsServing DEF Outside
<1>7. CASE UNCHANGED nodeVars
  BY <1>0, <1>7, QueueKeepsServing DEF nodeVars
<1> QED
  BY <1>1, <1>2, <1>3, <1>4, <1>5, <1>6, <1>7, ZenonT(60) DEF NodeNext

----------------------------------------------------------------------------
\* The invariant holds in every state of a node that is started and stopped.
THEOREM RoutinesInvariant == NodeSpec => []ServeInv
<1>1. NodeInit => ServeInv
  BY InitServes
<1>2. ServeInv /\ [NodeNext]_nodeVars => ServeInv'
  BY NextServes
<1> QED
  BY <1>1, <1>2, PTL DEF NodeSpec

\* No queue gets longer than its capacity, and routines are where NodeTypeOK says.
THEOREM RoutinesTypes == NodeSpec => []NodeTypeOK
<1>1. ServeInv => NodeTypeOK
  BY DEF ServeInv
<1> QED
  BY <1>1, RoutinesInvariant, PTL

\* While the node runs every queue has a routine that reads it, however Stop
\* and Start interleave with the selects of the routines.
THEOREM QueuesServed == NodeSpec => []Served
<1>1. ServeInv => Served
  <2> SUFFICES ASSUME ServeInv, Running, NEW k \in Kinds
               PROVE  \E g \in Starts : \/ inst[k][g].at \in {"loop", "put"}
                                        \/ inst[k][g] = Select(running)
    BY DEF Served
  <2>1. running \in Starts
    BY RoutinesAssumption DEF ServeInv, NodeTypeOK, Starts, Running
  <2>2. Stays(inst[k][running], running)
    BY DEF ServeInv
  <2> QED
    BY <2>1, <2>2, WhereDiffer DEF Stays
<1> QED
  BY <1>1, RoutinesInvariant, PTL
=============================================================================
