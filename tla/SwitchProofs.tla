---------------------------- MODULE SwitchProofs ----------------------------
(***************************************************************************)
(* Proofs about the label switch, the routing tables and the pings on top  *)
(* of them, for any number of nodes and slots and any routes.              *)
(*                                                                         *)
(* The invariant ties every packet to the slot tables: the labels a packet *)
(* has used up name, at each hop, the slot of the hop before, the labels   *)
(* of its route named, at each hop, the slot of the hop after.  It is kept *)
(* because a slot that has a peer keeps it (without Detach), so that what  *)
(* was true of a hop when it was made stays true.                          *)
(***************************************************************************)
EXTENDS Ping, TLAPS

\* The provers that a leaf is tried with, in turn, unless it names its own.
USE SMT, Zenon, SMTT(30), ZenonT(60), Z3T(30)

(***************************************************************************)
(* Facts about sequences.                                                  *)
(***************************************************************************)
LEMMA ElementOfSeq ==
    ASSUME NEW S, NEW s \in Seq(S), NEW i \in 1 .. Len(s)
    PROVE  s[i] \in S
OBVIOUS

LEMMA EmptySeq ==
    ASSUME NEW S, NEW s \in Seq(S), s # <<>>
    PROVE  Len(s) \in Nat \ {0}
OBVIOUS

LEMMA AppendProperties ==
    ASSUME NEW S, NEW s \in Seq(S), NEW e \in S
    PROVE  /\ Append(s, e) \in Seq(S)
           /\ Len(Append(s, e)) = Len(s) + 1
           /\ \A i \in 1 .. Len(s) : Append(s, e)[i] = s[i]
           /\ Append(s, e)[Len(s) + 1] = e
OBVIOUS

LEMMA SubSeqProperties ==
    ASSUME NEW S, NEW s \in Seq(S), NEW n \in 0 .. Len(s)
    PROVE  /\ SubSeq(s, 1, n) \in Seq(S)
           /\ Len(SubSeq(s, 1, n)) = n
           /\ \A i \in 1 .. n : SubSeq(s, 1, n)[i] = s[i]
OBVIOUS

LEMMA ExceptSeq ==
    ASSUME NEW S, NEW s \in Seq(S), NEW i \in 1 .. Len(s), NEW e \in S
    PROVE  /\ [s EXCEPT ![i] = e] \in Seq(S)
           /\ Len([s EXCEPT ![i] = e]) = Len(s)
           /\ \A j \in 1 .. Len(s) : [s EXCEPT ![i] = e][j] = IF j = i THEN e ELSE s[j]
OBVIOUS

LEMMA SeqEqual ==
    ASSUME NEW S, NEW s \in Seq(S), NEW t \in Seq(S), Len(s) = Len(t),
           \A i \in 1 .. Len(s) : s[i] = t[i]
    PROVE  s = t
OBVIOUS

\* Slot 0, and only slot 0, is the node itself.
OwnSlot ==
    /\ \A n \in Nodes, i \in Slot : slots[n][i] = n <=> i = 0
    /\ \A n \in Nodes : bypeer[n][n] = 0

\* The hops a packet has made, backwards and forwards, and its plan.
Visited(m) ==
    /\ m.route \in Seq(Slot \ {0})
    /\ Len(m.label) = Len(m.route)
    /\ m.path # <<>>
    /\ Hops(m) <= Len(m.route)
    /\ \A i \in 1 .. Hops(m) : /\ slots[m.path[i + 1]][m.label[i]] = m.path[i]
                               /\ slots[m.path[i]][m.route[i]] = m.path[i + 1]
    /\ m.plan # <<>> =>
          /\ Len(m.plan) = Len(m.route) + 1
          /\ \A i \in 1 .. Len(m.route) : slots[m.plan[i]][m.route[i]] = m.plan[i + 1]
          /\ \A i \in 1 .. Len(m.path) : m.path[i] = m.plan[i]

OnWire(m) ==
    /\ Visited(m)
    /\ m.pos = Hops(m)
    /\ m.pos < Len(m.route)
    /\ m.src = m.path[m.pos + 1]
    /\ slots[m.src][m.route[m.pos + 1]] = m.at
    /\ \A i \in (m.pos + 1) .. Len(m.route) : m.label[i] = m.route[i]

Consumed(m) ==
    /\ Visited(m)
    /\ Hops(m) = Len(m.route)
    /\ m.pos = Len(m.route) - 1
    /\ m.at = m.path[Hops(m) + 1]

SwitchInv ==
    /\ TypeOK
    /\ SlotTable
    /\ OwnSlot
    /\ \A m \in wire : OnWire(m)
    /\ \A m \in up : Consumed(m)

\* A slot that has a peer keeps it.
SlotsGrow ==
    \A n \in Nodes, i \in Slot : slots[n][i] # NoPeer => slots'[n][i] = slots[n][i]

----------------------------------------------------------------------------
\* What the packets of the switch and the pings have in common.
Fields(m) ==
    /\ m.at \in Nodes /\ m.src \in Nodes /\ m.pos \in Nat
    /\ m.label \in Seq(Slot) /\ m.route \in Seq(Slot)
    /\ m.path \in Seq(Nodes) /\ m.plan \in Seq(Nodes)

LEMMA PacketFields ==
    ASSUME NEW m \in Packet
    PROVE  Fields(m)
BY DEF Packet, Fields

\* The hops of a packet that has a path.
LEMMA HopsFacts ==
    ASSUME NEW m, Fields(m), m.path # <<>>
    PROVE  /\ Hops(m) \in Nat
           /\ Len(m.path) = Hops(m) + 1
           /\ \A i \in 1 .. (Hops(m) + 1) : m.path[i] \in Nodes
<1>1. m.path \in Seq(Nodes)
  BY DEF Fields
<1>2. Len(m.path) \in Nat /\ Len(m.path) # 0
  BY <1>1, EmptySeq
<1>3. \A i \in 1 .. Len(m.path) : m.path[i] \in Nodes
  BY <1>1, ElementOfSeq
<1> QED
  BY <1>2, <1>3 DEF Hops

\* A hop that slots lead through, they lead through when they have grown.
LEMMA HopStays ==
    ASSUME SlotsGrow, NoPeer \notin Nodes,
           NEW x \in Nodes, NEW i \in Slot, NEW y \in Nodes, slots[x][i] = y
    PROVE  slots'[x][i] = y
BY ZenonT(60) DEF SlotsGrow

\* What is known of a packet's past stays true when slots only grow.
LEMMA VisitedStays ==
    ASSUME NEW m, Fields(m), Visited(m), SlotsGrow, NoPeer \notin Nodes
    PROVE  Visited(m)'
<1> DEFINE h == Hops(m)
<1>1. h \in Nat /\ Len(m.path) = h + 1 /\ \A i \in 1 .. (h + 1) : m.path[i] \in Nodes
  BY HopsFacts DEF Visited
<1>2. /\ m.label \in Seq(Slot) /\ m.route \in Seq(Slot) /\ m.plan \in Seq(Nodes)
      /\ Len(m.label) = Len(m.route) /\ h <= Len(m.route) /\ Len(m.route) \in Nat
  BY DEF Fields, Visited
<1>3. \A i \in 1 .. Len(m.route) : m.label[i] \in Slot /\ m.route[i] \in Slot
  BY <1>2, ElementOfSeq
<1>4. \A i \in 1 .. Len(m.plan) : m.plan[i] \in Nodes
  BY <1>2, ElementOfSeq
<1>5. ASSUME NEW i \in 1 .. h
      PROVE  /\ slots'[m.path[i + 1]][m.label[i]] = m.path[i]
             /\ slots'[m.path[i]][m.route[i]] = m.path[i + 1]
  <2>1. /\ slots[m.path[i + 1]][m.label[i]] = m.path[i]
        /\ slots[m.path[i]][m.route[i]] = m.path[i + 1]
    BY <1>5 DEF Visited
  <2>2. i \in 1 .. Len(m.route) /\ i \in 1 .. (h + 1) /\ i + 1 \in 1 .. (h + 1)
    BY <1>1, <1>2
  <2>3. /\ m.path[i] \in Nodes /\ m.path[i + 1] \in Nodes
        /\ m.label[i] \in Slot /\ m.route[i] \in Slot
    BY <2>2, <1>1, <1>3
  <2> QED
    BY <2>1, <2>3, HopStays
<1>6. ASSUME m.plan # <<>>, NEW i \in 1 .. Len(m.route)
      PROVE  slots'[m.plan[i]][m.route[i]] = m.plan[i + 1]
  <2>0. Len(m.plan) = Len(m.route) + 1
    BY <1>6 DEF Visited
  <2>1. slots[m.plan[i]][m.route[i]] = m.plan[i + 1]
    BY <1>6 DEF Visited
  <2>2. i \in 1 .. Len(m.plan) /\ i + 1 \in 1 .. Len(m.plan)
    BY <2>0, <1>2
  <2>3. m.plan[i] \in Nodes /\ m.plan[i + 1] \in Nodes /\ m.route[i] \in Slot
    <3>1. m.plan[i] \in Nodes
      BY <2>2, <1>4
    <3>2. m.plan[i + 1] \in Nodes
      BY <2>2, <1>4
    <3> QED
      BY <3>1, <3>2, <1>3
  <2> QED
    BY <2>1, <2>3, HopStays
<1> QED
  BY <1>5, <1>6 DEF Visited, Hops

LEMMA OnWireStays ==
    ASSUME NEW m, Fields(m), OnWire(m), SlotsGrow, NoPeer \notin Nodes
    PROVE  OnWire(m)'
<1>1. Visited(m)'
  BY VisitedStays DEF OnWire
<1>2. m.src \in Nodes /\ m.at \in Nodes /\ m.route \in Seq(Slot) /\ m.pos \in Nat
  BY DEF Fields
<1>3. m.pos + 1 \in 1 .. Len(m.route)
  BY <1>2 DEF OnWire
<1>4. m.route[m.pos + 1] \in Slot
  BY <1>2, <1>3, ElementOfSeq
<1>5. slots'[m.src][m.route[m.pos + 1]] = m.at
  BY <1>2, <1>4 DEF OnWire, SlotsGrow
<1> QED
  BY <1>1, <1>5 DEF OnWire, Hops

LEMMA ConsumedStays ==
    ASSUME NEW m, Fields(m), Consumed(m), SlotsGrow, NoPeer \notin Nodes
    PROVE  Consumed(m)'
BY VisitedStays DEF Consumed, Hops

\* All packets there are stay as described when slots only grow.
LEMMA PacketsStay ==
    ASSUME SwitchInv, SlotsGrow
    PROVE  /\ \A m \in wire : OnWire(m)'
           /\ \A m \in up : Consumed(m)'
<1>1. NoPeer \notin Nodes
  BY ForwarderAssumption
<1>2. wire \subseteq Packet /\ up \subseteq Packet
  BY DEF SwitchInv, TypeOK
<1> QED
  BY <1>1, <1>2, PacketFields, OnWireStays, ConsumedStays DEF SwitchInv
----------------------------------------------------------------------------
\* Attach gives a free slot to a peer and touches no other.
LEMMA AttachFacts ==
    ASSUME SwitchInv, NEW n \in Nodes, NEW p \in Nodes, NEW i \in Slot, Attach(n, p, i)
    PROVE  /\ slots' \in [Nodes -> [Slot -> Nodes \cup {NoPeer}]]
           /\ bypeer' \in [Nodes -> [Nodes -> Slot \cup {NoSlot}]]
           /\ slots[n][i] = NoPeer
           /\ \A x \in Nodes, j \in Slot :
                slots'[x][j] = IF x = n /\ j = i THEN p ELSE slots[x][j]
           /\ \A x, y \in Nodes :
                bypeer'[x][y] = IF x = n /\ y = p THEN i ELSE bypeer[x][y]
<1>1. /\ slots \in [Nodes -> [Slot -> Nodes \cup {NoPeer}]]
      /\ bypeer \in [Nodes -> [Nodes -> Slot \cup {NoSlot}]]
  BY DEF SwitchInv, TypeOK
<1>2. slots' = [slots EXCEPT ![n][i] = p] /\ bypeer' = [bypeer EXCEPT ![n][p] = i]
  BY DEF Attach
<1>3. slots[n][i] = NoPeer
  BY DEF Attach
<1>4. slots' \in [Nodes -> [Slot -> Nodes \cup {NoPeer}]]
  BY <1>1, <1>2
<1>5. bypeer' \in [Nodes -> [Nodes -> Slot \cup {NoSlot}]]
  BY <1>1, <1>2
<1>6. ASSUME NEW x \in Nodes, NEW j \in Slot
      PROVE  slots'[x][j] = IF x = n /\ j = i THEN p ELSE slots[x][j]
  BY <1>1, <1>2
<1>7. ASSUME NEW x \in Nodes, NEW y \in Nodes
      PROVE  bypeer'[x][y] = IF x = n /\ y = p THEN i ELSE bypeer[x][y]
  BY <1>1, <1>2
<1> QED
  BY <1>3, <1>4, <1>5, <1>6, <1>7

\* A connection to another node keeps the invariant.
LEMMA AttachKeepsInv ==
    ASSUME SwitchInv, NEW n \in Nodes, NEW p \in Nodes, NEW i \in Slot,
           p # n, Attach(n, p, i), UNCHANGED <<wire, up, crashed, sends>>
    PROVE  SwitchInv'
<1>a. slots[n][i] = NoPeer
  BY AttachFacts
<1>b. ASSUME NEW x \in Nodes, NEW j \in Slot
      PROVE  slots'[x][j] = IF x = n /\ j = i THEN p ELSE slots[x][j]
  BY AttachFacts
<1>c. ASSUME NEW x \in Nodes, NEW y \in Nodes
      PROVE  bypeer'[x][y] = IF x = n /\ y = p THEN i ELSE bypeer[x][y]
  BY AttachFacts
<1>1. TypeOK'
  BY AttachFacts DEF SwitchInv, TypeOK
<1>2. SlotTable'
  <2>1. ASSUME NEW x \in Nodes, NEW y \in Nodes, bypeer'[x][y] # NoSlot
        PROVE  slots'[x][bypeer'[x][y]] = y
    <3>1. CASE x = n /\ y = p
      BY <3>1, <1>b, <1>c
    <3>2. CASE ~(x = n /\ y = p)
      <4>1. bypeer'[x][y] = bypeer[x][y]
        BY <3>2, <1>c
      <4>2. bypeer[x][y] \in Slot
        BY <4>1, <2>1 DEF SwitchInv, TypeOK
      <4>3. slots[x][bypeer[x][y]] = y
        BY <4>1, <2>1 DEF SwitchInv, SlotTable
      <4>4. y # NoPeer
        BY ForwarderAssumption
      <4> QED
        BY <4>1, <4>2, <4>3, <4>4, <1>a, <1>b
    <3> QED
      BY <3>1, <3>2
  <2> QED
    BY <2>1 DEF SlotTable
<1>3. OwnSlot'
  <2>1. 0 \in Slot /\ NoPeer \notin Nodes
    BY ForwarderAssumption DEF Slot
  <2>2. OwnSlot
    BY DEF SwitchInv
  <2>3. i # 0
    BY <2>1, <2>2, <1>a DEF OwnSlot
  <2>4. ASSUME NEW x \in Nodes, NEW j \in Slot
        PROVE  slots'[x][j] = x <=> j = 0
    BY <2>2, <2>3, <1>b DEF OwnSlot
  <2>5. ASSUME NEW x \in Nodes PROVE bypeer'[x][x] = 0
    BY <2>2, <1>c DEF OwnSlot
  <2> QED
    BY <2>4, <2>5 DEF OwnSlot
<1>4. SlotsGrow
  BY <1>a, <1>b DEF SlotsGrow
<1>5. wire' = wire /\ up' = up
  OBVIOUS
<1> QED
  BY <1>1, <1>2, <1>3, <1>4, <1>5, PacketsStay DEF SwitchInv

\* A step that leaves the slots alone keeps the invariant if the packets it
\* adds are as the invariant says.
LEMMA PacketsKeepInv ==
    ASSUME SwitchInv, UNCHANGED <<slots, bypeer>>, crashed' \subseteq Nodes, sends' \in Nat,
           wire' \subseteq Packet, up' \subseteq Packet,
           \A m \in wire' : m \in wire \/ OnWire(m),
           \A m \in up' : m \in up \/ Consumed(m)
    PROVE  SwitchInv'
<1>1. TypeOK' /\ SlotTable' /\ OwnSlot'
  BY DEF SwitchInv, TypeOK, SlotTable, OwnSlot
<1>2. \A m \in wire' : OnWire(m)
  BY DEF SwitchInv
<1>3. \A m \in up' : Consumed(m)
  BY ZenonT(60) DEF SwitchInv
<1>4. \A m \in wire' : OnWire(m)'
  BY <1>2 DEF OnWire, Visited, Hops
<1>5. \A m \in up' : Consumed(m)'
  BY <1>3 DEF Consumed, Visited, Hops
<1> QED
  BY <1>1, <1>4, <1>5 DEF SwitchInv
----------------------------------------------------------------------------
\* A packet that has just been sent, with a plan that the slots of the moment
\* bear out.
LEMMA FirstHop ==
    ASSUME NEW n, NEW r \in Seq(Slot \ {0}), NEW plan, Len(r) # 0,
           plan # <<>> => Leads(plan, r) /\ plan[1] = n,
           NEW m, m.at = slots[n][r[1]], m.src = n, m.pos = 0, m.label = r,
           m.route = r, m.path = <<n>>, m.plan = plan
    PROVE  OnWire(m)
<1>1. Len(m.path) = 1 /\ m.path[1] = n /\ m.path # <<>> /\ Hops(m) = 0 /\ Len(r) \in Nat
  BY DEF Hops
<1>2. ASSUME plan # <<>>
      PROVE  /\ Len(plan) = Len(r) + 1
             /\ \A i \in 1 .. Len(r) : slots[plan[i]][r[i]] = plan[i + 1]
             /\ plan[1] = n
  BY <1>2 DEF Leads
<1>3. plan # <<>> => \A i \in 1 .. Len(m.path) : m.path[i] = plan[i]
  BY <1>1, <1>2
<1>4. Visited(m)
  BY <1>1, <1>2, <1>3 DEF Visited
<1> QED
  BY <1>1, <1>4 DEF OnWire

\* SendPacket along a route of peers' slots, with a plan that the slots of the
\* moment bear out, keeps the invariant.
LEMMA SendKeepsInv ==
    ASSUME SwitchInv, NEW n \in Nodes, NEW r \in Seq(Slot \ {0}), NEW plan \in Seq(Nodes),
           plan # <<>> => Leads(plan, r) /\ plan[1] = n,
           SendPacket(n, r, plan), sends' \in Nat
    PROVE  SwitchInv'
<1> DEFINE q == slots[n][r[1]]
           m0 == [at |-> n, src |-> n, pos |-> 0, label |-> r,
                  route |-> r, path |-> <<n>>, plan |-> plan]
           m == [m0 EXCEPT !.at = q, !.src = n]
<1>1. r \in Seq(Slot) /\ Len(r) \in Nat /\ Len(r) # 0
  BY DEF SendPacket
<1>2. r[1] \in Slot \ {0}
  BY <1>1, ElementOfSeq
<1>3. /\ q # NoPeer
      /\ wire' = wire \cup {m}
      /\ up' = up
  <2>1. SlotSend(n, r[1], m0)
    BY DEF SendPacket
  <2> HIDE DEF m0
  <2> QED
    BY <1>2, <2>1 DEF SlotSend
<1>4. q \in Nodes
  BY <1>2, <1>3 DEF SwitchInv, TypeOK
<1>5. m \in Packet
  <2>1. m0 \in Packet
    BY <1>1 DEF Packet
  <2> HIDE DEF m0
  <2> QED
    BY <1>4, <2>1, ZenonT(60) DEF Packet
<1>6. UNCHANGED <<slots, bypeer, crashed>>
  BY DEF SendPacket
<1>7. /\ m.at = q /\ m.src = n /\ m.pos = 0 /\ m.label = r
      /\ m.route = r /\ m.path = <<n>> /\ m.plan = plan
  OBVIOUS
<1> HIDE DEF m, m0
<1>8. OnWire(m)
  BY <1>1, <1>7, FirstHop, ZenonT(60)
<1>9. wire \subseteq Packet /\ up \subseteq Packet /\ crashed \subseteq Nodes
  BY DEF SwitchInv, TypeOK
<1> QED
  BY <1>3, <1>5, <1>6, <1>8, <1>9, PacketsKeepInv

\* The hop HandlePacket makes for a packet: the label byte it overwrites names
\* the slot of the hop before.
LEMMA HopMade ==
    ASSUME SwitchInv, NEW m, Fields(m), OnWire(m), NEW mm, bypeer[m.at][m.src] # NoSlot,
           mm.label = [m.label EXCEPT ![m.pos + 1] = bypeer[m.at][m.src]],
           mm.path = Append(m.path, m.at), mm.route = m.route, mm.plan = m.plan
    PROVE  Visited(mm) /\ Hops(mm) = m.pos + 1
<1> DEFINE k == m.pos + 1
<1>1. OnWire(m) /\ Visited(m)
  BY DEF OnWire
<1>2. /\ m.at \in Nodes /\ m.src \in Nodes /\ m.pos \in Nat
      /\ m.label \in Seq(Slot) /\ m.route \in Seq(Slot)
      /\ m.path \in Seq(Nodes) /\ m.plan \in Seq(Nodes)
  BY DEF Fields
<1>3. /\ Hops(m) = m.pos /\ Len(m.path) = k
      /\ m.route \in Seq(Slot \ {0})
      /\ Len(m.label) = Len(m.route) /\ Len(m.route) \in Nat /\ k <= Len(m.route)
  <2>1. Hops(m) = m.pos /\ m.pos < Len(m.route)
    BY <1>1 DEF OnWire
  <2>2. m.path # <<>> /\ m.route \in Seq(Slot \ {0}) /\ Len(m.label) = Len(m.route)
    BY <1>1 DEF Visited
  <2>3. Len(m.path) = Hops(m) + 1
    BY <2>2, HopsFacts
  <2>4. Len(m.route) \in Nat
    BY <1>2
  <2> QED
    BY <1>2, <2>1, <2>2, <2>3, <2>4
<1>4. Len(mm.path) = k + 1 /\ mm.path # <<>>
  BY <1>2, <1>3
<1>5. Hops(mm) = k
  BY <1>2, <1>4 DEF Hops
<1>6. /\ \A i \in 1 .. k : mm.path[i] = m.path[i]
      /\ mm.path[k + 1] = m.at
  BY <1>2, <1>3
<1>7. /\ Len(mm.label) = Len(mm.route)
      /\ mm.label[k] = bypeer[m.at][m.src]
      /\ \A i \in 1 .. m.pos : mm.label[i] = m.label[i]
  BY <1>2, <1>3
<1>8. slots[m.at][bypeer[m.at][m.src]] = m.src
  BY <1>2 DEF SwitchInv, SlotTable
<1>9. m.src = m.path[k] /\ slots[m.src][m.route[k]] = m.at
  BY <1>1 DEF OnWire
<1>10. ASSUME NEW i \in 1 .. k
       PROVE  /\ slots[mm.path[i + 1]][mm.label[i]] = mm.path[i]
              /\ slots[mm.path[i]][mm.route[i]] = mm.path[i + 1]
  <2>1. CASE i = k
    BY <2>1, <1>6, <1>7, <1>8, <1>9, ZenonT(60)
  <2>2. CASE i # k
    <3>1. i \in 1 .. m.pos /\ i + 1 \in 1 .. k
      BY <2>2, <1>2
    <3>2. /\ slots[m.path[i + 1]][m.label[i]] = m.path[i]
          /\ slots[m.path[i]][m.route[i]] = m.path[i + 1]
      BY <3>1, <1>1, <1>3 DEF Visited
    <3> QED
      BY <3>1, <3>2, <1>6, <1>7, ZenonT(60)
  <2> QED
    BY <2>1, <2>2, ZenonT(60)
<1>11. ASSUME m.plan # <<>>
       PROVE  /\ Len(m.plan) = Len(m.route) + 1
              /\ \A i \in 1 .. Len(m.route) : slots[m.plan[i]][m.route[i]] = m.plan[i + 1]
              /\ \A i \in 1 .. (k + 1) : mm.path[i] = m.plan[i]
  <2>1. /\ Len(m.plan) = Len(m.route) + 1
        /\ \A i \in 1 .. Len(m.route) : slots[m.plan[i]][m.route[i]] = m.plan[i + 1]
        /\ \A i \in 1 .. k : m.path[i] = m.plan[i]
    BY <1>1, <1>3, <1>11 DEF Visited
  <2>2. k \in 1 .. Len(m.route) /\ k \in 1 .. k
    BY <1>2, <1>3
  <2>3. m.path[k] = m.plan[k] /\ slots[m.plan[k]][m.route[k]] = m.plan[k + 1]
    BY <2>1, <2>2, ZenonT(60)
  <2>4. mm.path[k + 1] = m.plan[k + 1]
    BY <2>3, <1>6, <1>9
  <2>5. \A i \in 1 .. (k + 1) : i = k + 1 \/ i \in 1 .. k
    BY <1>2
  <2> QED
    BY <2>1, <2>4, <2>5, <1>6, ZenonT(60)
<1> QED
  BY <1>3, <1>4, <1>5, <1>7, <1>10, <1>11, ZenonT(60) DEF Visited

\* The packet that HandlePacket sends on.
LEMMA HopOn ==
    ASSUME SwitchInv, NEW m, Fields(m), OnWire(m), bypeer[m.at][m.src] # NoSlot,
           m.pos + 1 # Len(m.label), NEW u,
           u.at = slots[m.at][NextLabel(m)], u.src = m.at, u.pos = m.pos + 1,
           u.label = [m.label EXCEPT ![m.pos + 1] = bypeer[m.at][m.src]],
           u.path = Append(m.path, m.at), u.route = m.route, u.plan = m.plan
    PROVE  OnWire(u)
<1> DEFINE k == m.pos + 1
<1>1. /\ m.pos \in Nat /\ m.label \in Seq(Slot) /\ m.path \in Seq(Nodes)
      /\ Len(m.label) = Len(m.route)
      /\ Len(m.route) \in Nat /\ m.pos < Len(m.route) /\ Hops(m) = m.pos
      /\ \A i \in (m.pos + 1) .. Len(m.route) : m.label[i] = m.route[i]
  <2>1. /\ Visited(m) /\ Hops(m) = m.pos /\ m.pos < Len(m.route)
        /\ \A i \in (m.pos + 1) .. Len(m.route) : m.label[i] = m.route[i]
    BY DEF OnWire
  <2>2. Len(m.label) = Len(m.route)
    BY <2>1 DEF Visited
  <2>3. /\ m.pos \in Nat /\ m.label \in Seq(Slot) /\ m.path \in Seq(Nodes)
        /\ m.route \in Seq(Slot)
    BY DEF Fields
  <2>4. Len(m.route) \in Nat
    BY <2>3
  <2> QED BY <2>1, <2>2, <2>3, <2>4
<1>2. k + 1 \in 1 .. Len(m.route) /\ k + 1 \in (m.pos + 1) .. Len(m.route)
  BY <1>1
<1>3. NextLabel(m) = m.route[k + 1]
  BY <1>1, <1>2 DEF NextLabel
<1>4. Visited(u) /\ Hops(u) = k
  BY HopMade, ZenonT(60)
<1>5. Len(m.path) = k
  <2>1. m.path # <<>>
    BY DEF OnWire, Visited
  <2>2. Len(m.path) = Hops(m) + 1
    BY <2>1, HopsFacts
  <2> QED BY <1>1, <2>2
<1>6. u.path[k + 1] = m.at
  BY <1>1, <1>5
<1>7. ASSUME NEW i \in (k + 1) .. Len(m.route) PROVE u.label[i] = m.route[i]
  <2>1. i \in (m.pos + 1) .. Len(m.route) /\ i # k /\ i \in 1 .. Len(m.label)
    BY <1>1
  <2>2. u.label[i] = m.label[i]
    BY <1>1, <2>1
  <2> QED
    BY <1>1, <2>1, <2>2
<1> HIDE DEF k
<1> QED
  BY <1>1, <1>2, <1>3, <1>4, <1>6, <1>7 DEF OnWire, k

\* HandlePacket keeps the invariant.
LEMMA HandleKeepsInv ==
    ASSUME SwitchInv, NEW m \in wire, HandlePacket(m), sends' \in Nat
    PROVE  SwitchInv'
<1> DEFINE n == m.at
           k == m.pos + 1
           prev == bypeer[n][m.src]
           mm == [m EXCEPT !.label[k] = prev, !.path = Append(@, n)]
<1>1. m \in Packet /\ OnWire(m) /\ Visited(m)
  BY DEF SwitchInv, TypeOK, OnWire
<1>2. /\ m.at \in Nodes /\ m.src \in Nodes /\ m.pos \in Nat
      /\ m.label \in Seq(Slot) /\ m.route \in Seq(Slot)
      /\ m.path \in Seq(Nodes) /\ m.plan \in Seq(Nodes)
  BY <1>1, PacketFields DEF Fields
<1>3. UNCHANGED <<slots, bypeer>>
  BY DEF HandlePacket
<1>4. wire \subseteq Packet /\ up \subseteq Packet /\ crashed \subseteq Nodes
  BY DEF SwitchInv, TypeOK
<1>5. CASE OutOfWindow(m)
  <2>1. wire' = wire /\ up' = up /\ crashed' = crashed \cup {n}
    BY <1>5 DEF HandlePacket
  <2> QED
    BY <2>1, <1>2, <1>3, <1>4, PacketsKeepInv
<1>6. CASE ~OutOfWindow(m)
  <2>1. /\ prev # NoSlot
        /\ IF k = Len(m.label)
           THEN SlotSend(n, 0, mm)
           ELSE SlotSend(n, NextLabel(m), [mm EXCEPT !.pos = k])
        /\ crashed' = crashed
    BY <1>6 DEF HandlePacket, PrevKnown, LastHop, Stamp
  <2>2. prev \in Slot
    BY <1>2, <2>1 DEF SwitchInv, TypeOK
  <2>3. /\ m.route \in Seq(Slot \ {0}) /\ Len(m.label) = Len(m.route)
        /\ Len(m.route) \in Nat /\ m.pos < Len(m.route)
        /\ \A i \in (m.pos + 1) .. Len(m.route) : m.label[i] = m.route[i]
    <3>1. m.route \in Seq(Slot \ {0}) /\ Len(m.label) = Len(m.route)
      BY <1>1 DEF Visited
    <3>2. /\ m.pos < Len(m.route)
          /\ \A i \in (m.pos + 1) .. Len(m.route) : m.label[i] = m.route[i]
      BY <1>1 DEF OnWire
    <3>3. Len(m.route) \in Nat
      BY <1>2
    <3> QED BY <3>1, <3>2, <3>3
  <2>4. mm \in Packet
    <3>1. k \in 1 .. Len(m.label)
      BY <1>2, <2>3
    <3>2. [m.label EXCEPT ![k] = prev] \in Seq(Slot)
      BY <1>2, <2>2, <3>1, ExceptSeq
    <3>3. Append(m.path, n) \in Seq(Nodes)
      BY <1>2
    <3> HIDE DEF prev, k
    <3> QED
      BY <1>1, <3>2, <3>3, ZenonT(60) DEF Packet
  <2>5. /\ mm.label = [m.label EXCEPT ![k] = prev]
        /\ mm.path = Append(m.path, n)
        /\ mm.route = m.route /\ mm.plan = m.plan /\ mm.pos = m.pos
    BY <1>1 DEF Packet
  <2>6. mm.path[k + 1] = n
    <3>1. Len(m.path) = k
      <4>1. m.path # <<>>
        BY <1>1 DEF Visited
      <4>2. Len(m.path) = Hops(m) + 1
        BY <1>1, <4>1, PacketFields, HopsFacts
      <4>3. m.pos = Hops(m)
        BY <1>1 DEF OnWire
      <4> QED BY <4>2, <4>3
    <3> QED
      BY <1>2, <2>5, <3>1
  <2> HIDE DEF mm
  <2>7. CASE k = Len(m.label)
    <3> DEFINE u == [mm EXCEPT !.at = n]
    <3>1. up' = up \cup {u} /\ wire' = wire
      BY <2>1, <2>7 DEF SlotSend
    <3>2. u \in Packet
      BY <2>4, <1>2, ZenonT(60) DEF Packet
    <3>3. /\ u.at = n /\ u.label = mm.label /\ u.path = mm.path /\ u.route = mm.route
          /\ u.plan = mm.plan /\ u.pos = mm.pos
      BY <2>4 DEF Packet
    <3> HIDE DEF u
    <3>4. Visited(u) /\ Hops(u) = k
      BY <3>2, <3>3, <1>1, <2>1, <2>5, PacketFields, HopMade, ZenonT(60)
    <3>5. Consumed(u)
      <4>1. Hops(u) = Len(u.route)
        BY <3>3, <3>4, <2>3, <2>5, <2>7
      <4>2. u.pos = Len(u.route) - 1
        BY <3>3, <2>3, <2>5, <2>7, <1>2
      <4>3. u.at = u.path[Hops(u) + 1]
        BY <3>3, <3>4, <2>6
      <4> QED
        BY <3>4, <4>1, <4>2, <4>3 DEF Consumed
    <3> QED
      BY <3>1, <3>2, <3>5, <2>1, <1>3, <1>4, PacketsKeepInv
  <2>8. CASE k # Len(m.label)
    <3> DEFINE x == NextLabel(m)
               q == slots[n][x]
               m1 == [mm EXCEPT !.pos = k]
               u == [m1 EXCEPT !.at = q, !.src = n]
    <3>1. k + 1 \in 1 .. Len(m.route) /\ k + 1 \in (m.pos + 1) .. Len(m.route)
      BY <2>3, <2>8, <1>2
    <3>2. x = m.route[k + 1]
      BY <3>1, <2>3, <1>2 DEF NextLabel
    <3>3. x \in Slot \ {0}
      BY <3>1, <3>2, <2>3, ElementOfSeq
    <3>4. q # NoPeer /\ wire' = wire \cup {u} /\ up' = up
      <4> HIDE DEF m1
      <4> QED
        BY <2>1, <2>8, <3>3 DEF SlotSend, m1
    <3>5. q \in Nodes
      BY <1>2, <3>3, <3>4 DEF SwitchInv, TypeOK
    <3>6. m1 \in Packet
      <4>1. k \in Nat
        BY <1>2
      <4> HIDE DEF k
      <4> QED
        BY <4>1, <2>4, ZenonT(60) DEF Packet
    <3>7. u \in Packet
      BY <3>5, <3>6, <1>2, ZenonT(60) DEF Packet
    <3>8. /\ u.at = q /\ u.src = n /\ u.pos = k /\ u.label = mm.label
          /\ u.path = mm.path /\ u.route = mm.route /\ u.plan = mm.plan
      BY <2>4 DEF Packet
    <3> HIDE DEF u, m1
    <3>10. OnWire(u)
      BY <1>1, <2>1, <2>5, <2>8, <3>8, PacketFields, HopOn, ZenonT(60)
    <3> QED
      BY <3>4, <3>7, <3>10, <2>1, <1>3, <1>4, PacketsKeepInv
  <2> QED
    BY <2>7, <2>8
<1> QED
  BY <1>5, <1>6
----------------------------------------------------------------------------
\* A new switch knows only itself.
LEMMA InitInv == Init => SwitchInv
<1> SUFFICES ASSUME Init PROVE SwitchInv
  OBVIOUS
<1>1. 0 \in Slot /\ NoPeer \notin Nodes /\ NoSlot \notin Slot
  BY ForwarderAssumption DEF Slot, NoSlot
<1>2. TypeOK
  BY <1>1 DEF Init, TypeOK
<1>3. SlotTable
  BY <1>1 DEF Init, SlotTable
<1>4. OwnSlot
  BY <1>1 DEF Init, OwnSlot
<1>5. wire = {} /\ up = {}
  BY DEF Init
<1> QED
  BY <1>2, <1>3, <1>4, <1>5 DEF SwitchInv

\* Every step of the switch keeps the invariant.
LEMMA NextInv == SwitchInv /\ [Next]_fvars => SwitchInv'
<1> SUFFICES ASSUME SwitchInv, [Next]_fvars PROVE SwitchInv'
  OBVIOUS
<1>1. sends \in Nat
  BY DEF SwitchInv, TypeOK
<1>2. ASSUME NEW n \in Nodes, NEW p \in Nodes, NEW i \in Slot, Connected(n, p, i)
      PROVE  SwitchInv'
  BY <1>2, AttachKeepsInv DEF Connected
<1>3. ASSUME NEW n \in Nodes, NEW r \in Routes, UserSend(n, r)
      PROVE  SwitchInv'
  <2>1. r \in Seq(Slot \ {0})
    BY ForwarderAssumption
  <2>2. SendPacket(n, r, <<>>) /\ sends' \in Nat
    BY <1>1, <1>3 DEF UserSend
  <2>3. <<>> \in Seq(Nodes)
    OBVIOUS
  <2> QED
    BY <2>1, <2>2, <2>3, SendKeepsInv, ZenonT(60)
<1>4. ASSUME NEW m \in wire, Receive(m)
      PROVE  SwitchInv'
  BY <1>1, <1>4, HandleKeepsInv DEF Receive
<1>5. CASE UNCHANGED fvars
  <2>1. UNCHANGED <<slots, bypeer, wire, up, crashed, sends>>
    BY <1>5 DEF fvars
  <2>2. TypeOK' /\ SlotTable' /\ OwnSlot'
    BY <2>1 DEF SwitchInv, TypeOK, SlotTable, OwnSlot
  <2>3. SlotsGrow
    BY <2>1 DEF SlotsGrow
  <2> QED
    BY <2>1, <2>2, <2>3, PacketsStay DEF SwitchInv
<1> QED
  BY <1>2, <1>3, <1>4, <1>5 DEF Next

LEMMA SwitchInvariant == Spec => []SwitchInv
BY InitInv, NextInv, PTL DEF Spec

\* What the invariant says of the way back, in the terms of ReverseRoute.
LEMMA InvReverse == SwitchInv => ReverseRoute
<1> SUFFICES ASSUME SwitchInv, NEW m \in wire \cup up
             PROVE  Leads(Reverse(m.path), Reverse(SubSeq(m.label, 1, Hops(m))))
  BY DEF ReverseRoute
<1> DEFINE h == Hops(m)
           ls == SubSeq(m.label, 1, h)
<1>1. m \in Packet /\ Visited(m)
  BY DEF SwitchInv, TypeOK, OnWire, Consumed
<1>2. h \in Nat /\ Len(m.path) = h + 1
  BY <1>1, PacketFields, HopsFacts DEF Visited
<1>3. m.label \in Seq(Slot) /\ Len(m.label) \in Nat /\ h <= Len(m.label)
  BY <1>1, PacketFields DEF Fields, Visited
<1>4. ls \in Seq(Slot) /\ Len(ls) = h /\ \A i \in 1 .. h : ls[i] = m.label[i]
  BY <1>2, <1>3, SubSeqProperties
<1>5. \A i \in 1 .. h : slots[m.path[i + 1]][m.label[i]] = m.path[i]
  BY <1>1 DEF Visited
<1> HIDE DEF h, ls
<1>6. Len(Reverse(m.path)) = h + 1 /\ Len(Reverse(ls)) = h
  BY <1>2, <1>4 DEF Reverse
<1>7. ASSUME NEW i \in 1 .. h
      PROVE  slots[Reverse(m.path)[i]][Reverse(ls)[i]] = Reverse(m.path)[i + 1]
  <2> DEFINE j == h - i + 1
  <2>1. j \in 1 .. h /\ i \in 1 .. (h + 1) /\ i + 1 \in 1 .. (h + 1)
    BY <1>2
  <2>2. Reverse(m.path)[i] = m.path[j + 1]
    BY <1>2, <2>1 DEF Reverse
  <2>3. Reverse(m.path)[i + 1] = m.path[j]
    BY <1>2, <2>1 DEF Reverse
  <2>4. Reverse(ls)[i] = ls[j]
    BY <1>2, <1>4 DEF Reverse
  <2>5. slots[m.path[j + 1]][m.label[j]] = m.path[j]
    BY <2>1, <1>5
  <2>6. ls[j] = m.label[j]
    BY <2>1, <1>4
  <2> HIDE DEF j
  <2> QED
    BY <2>2, <2>3, <2>4, <2>5, <2>6
<1> QED
  BY <1>6, <1>7 DEF Leads, h, ls
\* What the invariant says of the way on, in the terms of ForwardRoute.
LEMMA InvForward == SwitchInv => ForwardRoute
<1> SUFFICES ASSUME SwitchInv PROVE ForwardRoute
  OBVIOUS
<1>1. ASSUME NEW m \in wire
      PROVE  /\ Leads(Append(m.path, m.at), SubSeq(m.route, 1, Hops(m) + 1))
             /\ \A i \in (Hops(m) + 1) .. Len(m.route) : m.label[i] = m.route[i]
  <2> DEFINE h == Hops(m)
             ls == SubSeq(m.route, 1, h + 1)
             path == Append(m.path, m.at)
  <2>1. m \in Packet /\ OnWire(m) /\ Visited(m)
    BY DEF SwitchInv, TypeOK, OnWire
  <2>2. h \in Nat /\ Len(m.path) = h + 1
    BY <2>1, PacketFields, HopsFacts DEF Visited
  <2>3. /\ m.route \in Seq(Slot) /\ m.path \in Seq(Nodes) /\ m.at \in Nodes
        /\ Len(m.route) \in Nat
    BY <2>1, PacketFields DEF Fields
  <2>4. h + 1 <= Len(m.route) /\ m.pos = h
    BY <2>1, <2>2, <2>3 DEF OnWire
  <2>5. Len(ls) = h + 1 /\ \A i \in 1 .. (h + 1) : ls[i] = m.route[i]
    BY <2>2, <2>3, <2>4, SubSeqProperties
  <2>6. /\ Len(path) = h + 2
        /\ \A i \in 1 .. (h + 1) : path[i] = m.path[i]
        /\ path[h + 2] = m.at
    BY <2>2, <2>3
  <2>7. slots[m.path[h + 1]][m.route[h + 1]] = m.at
    BY <2>1, <2>4 DEF OnWire
  <2>8. \A i \in 1 .. h : slots[m.path[i]][m.route[i]] = m.path[i + 1]
    BY <2>1 DEF Visited
  <2>9. \A i \in (h + 1) .. Len(m.route) : m.label[i] = m.route[i]
    BY <2>1, <2>4 DEF OnWire
  <2> HIDE DEF h, ls, path
  <2>10. ASSUME NEW i \in 1 .. (h + 1)
         PROVE  slots[path[i]][ls[i]] = path[i + 1]
    <3>1. CASE i = h + 1
      <4>1. i + 1 = h + 2
        BY <3>1, <2>2
      <4> QED
        BY <3>1, <4>1, <2>5, <2>6, <2>7
    <3>2. CASE i # h + 1
      <4>1. i \in 1 .. h /\ i + 1 \in 1 .. (h + 1)
        BY <3>2, <2>2
      <4> QED
        BY <4>1, <2>5, <2>6, <2>8
    <3> QED
      BY <3>1, <3>2
  <2>11. Leads(path, ls)
    BY <2>2, <2>5, <2>6, <2>10 DEF Leads
  <2> QED
    BY <2>9, <2>11 DEF h, ls, path
<1>2. ASSUME NEW m \in up PROVE Leads(m.path, m.route)
  <2>1. m \in Packet /\ Consumed(m) /\ Visited(m)
    BY DEF SwitchInv, TypeOK, Consumed
  <2>2. Len(m.path) = Hops(m) + 1
    BY <2>1, PacketFields, HopsFacts DEF Visited
  <2> QED
    BY <2>1, <2>2 DEF Leads, Consumed, Visited
<1> QED
  BY <1>1, <1>2 DEF ForwardRoute

----------------------------------------------------------------------------
\* The switch keeps its types: no step writes a label byte that is no slot, or
\* files a packet under a node that does not exist.
THEOREM SwitchTypes == Spec => []TypeOK
<1>1. SwitchInv => TypeOK
  BY DEF SwitchInv
<1> QED
  BY <1>1, SwitchInvariant, PTL

\* At every hop the used part of the label, read backwards, leads back to the
\* origin of the packet (forwarder.go, HandlePacket), for any network, any
\* routes and any order of connections and deliveries.
THEOREM LabelsLeadBack == Spec => []ReverseRoute
BY SwitchInvariant, InvReverse, PTL

\* A packet is where the route of its sender leads.
THEOREM LabelsLeadForward == Spec => []ForwardRoute
BY SwitchInvariant, InvForward, PTL

\* HandlePacket never meets a packet past its last hop, and consumes a packet
\* only there.
THEOREM PositionsInRange == Spec => []PosInRange
<1>1. SwitchInv => PosInRange
  <2> SUFFICES ASSUME SwitchInv PROVE PosInRange
    OBVIOUS
  <2>1. ASSUME NEW m \in wire PROVE m.pos = Hops(m) /\ m.pos < Len(m.label)
    BY DEF SwitchInv, OnWire, Visited
  <2>2. ASSUME NEW m \in up
        PROVE  m.pos = Len(m.label) - 1 /\ Hops(m) = Len(m.label)
    BY DEF SwitchInv, Consumed, Visited
  <2> QED
    BY <2>1, <2>2, ZenonT(60) DEF PosInRange
<1> QED
  BY <1>1, SwitchInvariant, PTL

----------------------------------------------------------------------------
\* The two maps of the Forwarder agree also when peers are detached.
Tables ==
    /\ slots \in [Nodes -> [Slot -> Nodes \cup {NoPeer}]]
    /\ bypeer \in [Nodes -> [Nodes -> Slot \cup {NoSlot}]]
    /\ SlotTable

LEMMA AttachKeepsTables ==
    ASSUME Tables, NEW n \in Nodes, NEW p \in Nodes, NEW i \in Slot, Attach(n, p, i)
    PROVE  Tables'
<1>1. /\ slots' = [slots EXCEPT ![n][i] = p] /\ bypeer' = [bypeer EXCEPT ![n][p] = i]
      /\ slots[n][i] = NoPeer
  BY DEF Attach
<1>2. /\ slots' \in [Nodes -> [Slot -> Nodes \cup {NoPeer}]]
      /\ bypeer' \in [Nodes -> [Nodes -> Slot \cup {NoSlot}]]
  BY <1>1 DEF Tables
<1>3. ASSUME NEW x \in Nodes, NEW y \in Nodes, bypeer'[x][y] # NoSlot
      PROVE  slots'[x][bypeer'[x][y]] = y
  <2>1. CASE x = n /\ y = p
    BY <1>1, <2>1 DEF Tables
  <2>2. CASE ~(x = n /\ y = p)
    <3>1. bypeer'[x][y] = bypeer[x][y]
      BY <1>1, <2>2 DEF Tables
    <3>2. bypeer[x][y] \in Slot /\ slots[x][bypeer[x][y]] = y
      BY <3>1, <1>3 DEF Tables, SlotTable
    <3>3. y # NoPeer
      BY ForwarderAssumption
    <3> QED
      BY <1>1, <3>1, <3>2, <3>3 DEF Tables
  <2> QED
    BY <2>1, <2>2
<1> QED
  BY <1>2, <1>3 DEF Tables, SlotTable

LEMMA DetachKeepsTables ==
    ASSUME Tables, NEW n \in Nodes, NEW p \in Nodes, NEW i \in Slot, Detach(n, p, i)
    PROVE  Tables'
<1>1. /\ slots' = [slots EXCEPT ![n][i] = NoPeer] /\ bypeer' = [bypeer EXCEPT ![n][p] = NoSlot]
      /\ slots[n][i] = p
  BY DEF Detach
<1>2. /\ slots' \in [Nodes -> [Slot -> Nodes \cup {NoPeer}]]
      /\ bypeer' \in [Nodes -> [Nodes -> Slot \cup {NoSlot}]]
  BY <1>1 DEF Tables
<1>3. ASSUME NEW x \in Nodes, NEW y \in Nodes, bypeer'[x][y] # NoSlot
      PROVE  slots'[x][bypeer'[x][y]] = y
  <2>1. ~(x = n /\ y = p)
    BY <1>1, <1>3 DEF Tables
  <2>2. bypeer'[x][y] = bypeer[x][y]
    BY <1>1, <2>1 DEF Tables
  <2>3. bypeer[x][y] \in Slot /\ slots[x][bypeer[x][y]] = y
    BY <2>2, <1>3 DEF Tables, SlotTable
  <2>4. ~(x = n /\ bypeer[x][y] = i)
    BY <1>1, <2>1, <2>3
  <2> QED
    BY <1>1, <2>2, <2>3, <2>4 DEF Tables
<1> QED
  BY <1>2, <1>3 DEF Tables, SlotTable

\* Attach and Detach, in any order, keep bypeer pointing at slots of the peer,
\* so that HandlePacket never writes a label byte that leads elsewhere.
THEOREM SlotTableKept == DetachSpec => []SlotTable
<1>1. Init => Tables
  BY InitInv DEF SwitchInv, TypeOK, Tables
<1>2. Tables /\ [DetachNext]_fvars => Tables'
  <2> SUFFICES ASSUME Tables, [DetachNext]_fvars PROVE Tables'
    OBVIOUS
  <2>1. ASSUME UNCHANGED <<slots, bypeer>> PROVE Tables'
    BY <2>1 DEF Tables, SlotTable
  <2>2. ASSUME NEW n \in Nodes, NEW p \in Nodes, NEW i \in Slot, Connected(n, p, i)
        PROVE  Tables'
    BY <2>2, AttachKeepsTables DEF Connected
  <2>3. ASSUME NEW n \in Nodes, NEW r \in Routes, UserSend(n, r) PROVE Tables'
    BY <2>1, <2>3 DEF UserSend, SendPacket
  <2>4. ASSUME NEW m \in wire, Receive(m) PROVE Tables'
    BY <2>1, <2>4 DEF Receive, HandlePacket
  <2>5. ASSUME NEW n \in Nodes, NEW p \in Nodes, NEW i \in Slot, Disconnected(n, p, i)
        PROVE  Tables'
    BY <2>5, DetachKeepsTables DEF Disconnected
  <2>6. CASE UNCHANGED fvars
    BY <2>1, <2>6 DEF fvars
  <2> QED
    BY <2>2, <2>3, <2>4, <2>5, <2>6 DEF DetachNext, Next
<1>3. Tables => SlotTable
  BY DEF Tables
<1> QED
  BY <1>1, <1>2, <1>3, PTL DEF DetachSpec
----------------------------------------------------------------------------
(***************************************************************************)
(* The switch and the routing tables together, on top of the invariant of  *)
(* the switch: the label of a packet that was consumed leads back, so what *)
(* doUpperRecv adds to the table leads to the origin, and a packet sent    *)
(* along a route of the table makes the hops the slots had when the route  *)
(* was learned.                                                            *)
(***************************************************************************)
\* An entry that node n may have for peer p, when the slots are sl.
Good(sl, n, p, e) ==
    /\ e.route \in Seq(Slot \ {0})
    /\ Len(e.via) = Len(e.route) + 1
    /\ \A i \in 1 .. Len(e.route) : sl[e.via[i]][e.route[i]] = e.via[i + 1]
    /\ e.via[1] = n
    /\ e.via[Len(e.via)] = p

TableInv ==
    /\ table \in [Nodes -> [Nodes -> Seq(Entry)]]
    /\ \A n, p \in Nodes : \A k \in 1 .. Len(table[n][p]) : Good(slots, n, p, table[n][p][k])

RoutedInv == SwitchInv /\ TableInv

----------------------------------------------------------------------------
\* A good entry stays good when slots only grow.
LEMMA GoodStays ==
    ASSUME SlotsGrow, NoPeer \notin Nodes, NEW n, NEW p, NEW e \in Entry, Good(slots, n, p, e)
    PROVE  Good(slots', n, p, e)
<1>1. e.via \in Seq(Nodes) /\ e.route \in Seq(Slot) /\ Len(e.route) \in Nat
  BY DEF Entry
<1>2. Len(e.via) = Len(e.route) + 1
  BY ZenonT(60) DEF Good
<1>3. ASSUME NEW i \in 1 .. Len(e.route)
      PROVE  slots'[e.via[i]][e.route[i]] = e.via[i + 1]
  <2>1. i \in 1 .. Len(e.via) /\ i + 1 \in 1 .. Len(e.via)
    BY <1>1, <1>2
  <2>2. e.via[i] \in Nodes
    BY <1>1, <2>1, ElementOfSeq
  <2>3. e.via[i + 1] \in Nodes
    BY <1>1, <2>1, ElementOfSeq
  <2>4. e.route[i] \in Slot
    BY <1>1, ElementOfSeq
  <2>5. slots[e.via[i]][e.route[i]] = e.via[i + 1]
    BY DEF Good
  <2> QED
    BY <2>2, <2>3, <2>4, <2>5, HopStays
<1> QED
  BY <1>3 DEF Good

\* An element of the table is an entry.
LEMMA EntryFacts ==
    ASSUME table \in [Nodes -> [Nodes -> Seq(Entry)]],
           NEW n \in Nodes, NEW p \in Nodes, NEW k \in 1 .. Len(table[n][p])
    PROVE  table[n][p][k] \in Entry
<1>1. table[n][p] \in Seq(Entry)
  OBVIOUS
<1> QED
  BY <1>1, ElementOfSeq

\* The table stays as described when it is left alone and slots only grow.
LEMMA TableStays ==
    ASSUME TableInv, SlotsGrow
    PROVE  \A n, p \in Nodes : \A k \in 1 .. Len(table[n][p]) : Good(slots', n, p, table[n][p][k])
<1> SUFFICES ASSUME NEW n \in Nodes, NEW p \in Nodes, NEW k \in 1 .. Len(table[n][p])
             PROVE  Good(slots', n, p, table[n][p][k])
  OBVIOUS
<1>1. table[n][p][k] \in Entry
  BY EntryFacts DEF TableInv
<1>2. Good(slots, n, p, table[n][p][k])
  BY ZenonT(60) DEF TableInv
<1> QED
  BY <1>1, <1>2, GoodStays, ForwarderAssumption, ZenonT(60)

\* AddRoute of a good route keeps the table good.
LEMMA AddRouteKeepsInv ==
    ASSUME TableInv, SlotsGrow, NEW n \in Nodes, NEW p \in Nodes,
           NEW r \in Seq(Slot), NEW via \in Seq(Nodes), AddRoute(n, p, r, via),
           Good(slots', n, p, [route |-> r, via |-> via])
    PROVE  TableInv'
<1> DEFINE e == [route |-> r, via |-> via]
<1>1. e \in Entry
  BY ZenonT(60) DEF Entry
<1>2. table \in [Nodes -> [Nodes -> Seq(Entry)]]
  BY DEF TableInv
<1>3. CASE table' = table
  <2>1. \A x, y \in Nodes : \A k \in 1 .. Len(table'[x][y]) : Good(slots', x, y, table'[x][y][k])
    BY <1>3, TableStays
  <2> QED
    BY <1>2, <1>3, <2>1, ZenonT(60) DEF TableInv, Good
<1>4. CASE table' = [table EXCEPT ![n][p] = Append(@, e)]
  <2> HIDE DEF e
  <2>1. table[n][p] \in Seq(Entry)
    BY <1>2, ZenonT(60)
  <2>2. /\ Append(table[n][p], e) \in Seq(Entry)
        /\ Len(Append(table[n][p], e)) = Len(table[n][p]) + 1
        /\ \A k \in 1 .. Len(table[n][p]) : Append(table[n][p], e)[k] = table[n][p][k]
        /\ Append(table[n][p], e)[Len(table[n][p]) + 1] = e
    BY <1>1, <2>1, AppendProperties
  <2>3. table' \in [Nodes -> [Nodes -> Seq(Entry)]]
    BY <1>2, <1>4, <2>2
  <2>4. ASSUME NEW x \in Nodes, NEW y \in Nodes
        PROVE  table'[x][y] = IF x = n /\ y = p THEN Append(table[n][p], e) ELSE table[x][y]
    BY <1>2, <1>4, ZenonT(60)
  <2>5. ASSUME NEW x \in Nodes, NEW y \in Nodes, NEW k \in 1 .. Len(table'[x][y])
        PROVE  Good(slots', x, y, table'[x][y][k])
    <3>1. CASE ~(x = n /\ y = p)
      <4>1. table'[x][y] = table[x][y]
        BY <2>4, <3>1, ZenonT(60)
      <4> QED
        BY <4>1, TableStays, ZenonT(60)
    <3>2. CASE x = n /\ y = p
      <4>1. table'[x][y] = Append(table[n][p], e)
        BY <2>4, <3>2, ZenonT(60)
      <4>2. CASE k = Len(table[n][p]) + 1
        BY <2>2, <3>2, <4>1, <4>2, ZenonT(60) DEF e
      <4>3. CASE k # Len(table[n][p]) + 1
        <5>1. Len(table[n][p]) \in Nat
          BY <2>1
        <5>2. k \in 1 .. (Len(table[n][p]) + 1)
          BY <2>2, <4>1
        <5>3. k \in 1 .. Len(table[n][p])
          BY <4>3, <5>1, <5>2
        <5> QED
          BY <2>2, <3>2, <4>1, <5>3, TableStays, ZenonT(60)
      <4> QED
        BY <4>2, <4>3
    <3> QED
      BY <3>1, <3>2, ZenonT(60)
  <2> QED
    BY <2>3, <2>5, ZenonT(60) DEF TableInv, Good
<1> QED
  BY <1>3, <1>4 DEF AddRoute
----------------------------------------------------------------------------
\* A turned label and a turned path are label and path again.
LEMMA TurnedTypes ==
    ASSUME NEW h \in Nat, NEW ls \in Seq(Slot \ {0}), NEW path \in Seq(Nodes),
           Len(ls) = h, Len(path) = h + 1
    PROVE  /\ Reverse(ls) \in Seq(Slot \ {0}) /\ Reverse(path) \in Seq(Nodes)
           /\ Len(Reverse(ls)) = h /\ Len(Reverse(path)) = h + 1
           /\ \A i \in 1 .. h : Reverse(ls)[i] = ls[h - i + 1]
           /\ \A i \in 1 .. (h + 1) : Reverse(path)[i] = path[h + 1 - i + 1]
           /\ Reverse(path)[1] = path[h + 1] /\ Reverse(path)[h + 1] = path[1]
<1>1. ASSUME NEW S, NEW n \in Nat, NEW s \in Seq(S), Len(s) = n
      PROVE  /\ Reverse(s) \in Seq(S) /\ Len(Reverse(s)) = n
             /\ \A i \in 1 .. n : Reverse(s)[i] = s[n - i + 1]
  <2>1. \A i \in 1 .. n : n - i + 1 \in 1 .. n
    OBVIOUS
  <2>2. \A i \in 1 .. n : s[n - i + 1] \in S
    BY <1>1, <2>1, ElementOfSeq
  <2>3. Reverse(s) = [i \in 1 .. n |-> s[n - i + 1]]
    BY <1>1 DEF Reverse
  <2> QED
    BY <2>2, <2>3
<1>2. /\ Reverse(ls) \in Seq(Slot \ {0}) /\ Len(Reverse(ls)) = h
      /\ \A i \in 1 .. h : Reverse(ls)[i] = ls[h - i + 1]
  BY <1>1
<1>3. /\ Reverse(path) \in Seq(Nodes) /\ Len(Reverse(path)) = h + 1
      /\ \A i \in 1 .. (h + 1) : Reverse(path)[i] = path[h + 1 - i + 1]
  <2>1. h + 1 \in Nat
    OBVIOUS
  <2> QED
    BY <1>1, <2>1
<1>4. Reverse(path)[1] = path[h + 1] /\ Reverse(path)[h + 1] = path[1]
  <2>1. /\ 1 \in 1 .. (h + 1) /\ h + 1 \in 1 .. (h + 1)
        /\ h + 1 - 1 + 1 = h + 1 /\ h + 1 - (h + 1) + 1 = 1
    OBVIOUS
  <2> QED
    BY <1>3, <2>1, ZenonT(60)
<1> QED
  BY <1>2, <1>3, <1>4

\* A label whose bytes name the hops before, turned round, is a good route to
\* the beginning of the path.
LEMMA TurnedRoute ==
    ASSUME NEW h \in Nat, NEW ls \in Seq(Slot \ {0}), NEW path \in Seq(Nodes),
           Len(ls) = h, Len(path) = h + 1,
           \A i \in 1 .. h : slots[path[i + 1]][ls[i]] = path[i]
    PROVE  Good(slots, path[h + 1], path[1],
                [route |-> Reverse(ls), via |-> Reverse(path)])
<1> DEFINE rl == Reverse(ls)
           rp == Reverse(path)
<1>1. /\ rl \in Seq(Slot \ {0}) /\ Len(rl) = h /\ Len(rp) = h + 1
      /\ \A i \in 1 .. h : rl[i] = ls[h - i + 1]
      /\ \A i \in 1 .. (h + 1) : rp[i] = path[h + 1 - i + 1]
      /\ rp[1] = path[h + 1] /\ rp[h + 1] = path[1]
  BY TurnedTypes, ZenonT(60)
<1> HIDE DEF rl, rp
<1>2. ASSUME NEW i \in 1 .. h PROVE slots[rp[i]][rl[i]] = rp[i + 1]
  <2> DEFINE j == h - i + 1
  <2>1. j \in 1 .. h /\ i \in 1 .. (h + 1) /\ i + 1 \in 1 .. (h + 1)
    OBVIOUS
  <2>2. h + 1 - i + 1 = j + 1 /\ h + 1 - (i + 1) + 1 = j
    OBVIOUS
  <2>3. rp[i] = path[j + 1]
    BY <1>1, <2>1, <2>2, ZenonT(60)
  <2>4. rp[i + 1] = path[j]
    BY <1>1, <2>1, <2>2
  <2>5. rl[i] = ls[j]
    BY <1>1
  <2> HIDE DEF j
  <2> QED
    BY <2>1, <2>3, <2>4, <2>5
<1> QED
  BY <1>1, <1>2 DEF Good, rl, rp

\* The turned label of a consumed packet is a good route to its origin.
LEMMA TurnedLabel ==
    ASSUME SwitchInv, NEW m \in up
    PROVE  /\ Reverse(m.label) \in Seq(Slot \ {0})
           /\ Reverse(m.path) \in Seq(Nodes)
           /\ m.at \in Nodes /\ m.path[1] \in Nodes
           /\ Good(slots, m.at, m.path[1], [route |-> Reverse(m.label), via |-> Reverse(m.path)])
<1> DEFINE h == Hops(m)
<1>1. m \in Packet /\ Consumed(m) /\ Visited(m)
  BY DEF SwitchInv, TypeOK, Consumed
<1>2. h \in Nat /\ Len(m.path) = h + 1 /\ \A i \in 1 .. (h + 1) : m.path[i] \in Nodes
  BY <1>1, PacketFields, HopsFacts DEF Visited
<1>3. /\ m.label \in Seq(Slot) /\ Len(m.label) = h /\ m.path \in Seq(Nodes)
      /\ m.route \in Seq(Slot \ {0}) /\ Len(m.route) = h
  BY <1>1, PacketFields DEF Fields, Consumed, Visited
<1>4. m.at = m.path[h + 1] /\ m.at \in Nodes /\ m.path[1] \in Nodes
  <2>1. 1 \in 1 .. (h + 1)
    BY <1>2
  <2> QED
    BY <1>1, <1>2, <2>1, PacketFields DEF Fields, Consumed
<1>5. ASSUME NEW i \in 1 .. h
      PROVE  m.label[i] \in Slot \ {0} /\ slots[m.path[i + 1]][m.label[i]] = m.path[i]
  <2>1. /\ slots[m.path[i + 1]][m.label[i]] = m.path[i]
        /\ slots[m.path[i]][m.route[i]] = m.path[i + 1]
    BY <1>1, ZenonT(60) DEF Visited
  <2>2. m.label[i] \in Slot /\ m.route[i] \in Slot \ {0}
    BY <1>3, ElementOfSeq
  <2>3. m.path[i] \in Nodes /\ m.path[i + 1] \in Nodes
    <3>1. i \in 1 .. (h + 1) /\ i + 1 \in 1 .. (h + 1)
      BY <1>2
    <3> QED
      BY <1>2, <3>1
  <2>4. m.path[i + 1] # m.path[i]
    BY <2>1, <2>2, <2>3 DEF SwitchInv, OwnSlot
  <2>5. m.label[i] # 0
    BY <2>1, <2>2, <2>3, <2>4 DEF SwitchInv, OwnSlot
  <2> QED
    BY <2>1, <2>2, <2>5, ZenonT(60)
<1> HIDE DEF h
<1>6. m.label \in Seq(Slot \ {0})
  BY <1>2, <1>3, <1>5
<1> QED
  BY <1>2, <1>3, <1>4, <1>5, <1>6, TurnedTypes, TurnedRoute, ZenonT(60)

\* Steps that leave the slots alone let them grow, trivially.
LEMMA SameSlots == UNCHANGED slots => SlotsGrow
BY DEF SlotsGrow

\* A step that leaves table and slots alone keeps the table good.
LEMMA TableUnchanged ==
    ASSUME TableInv, UNCHANGED <<slots, table>>
    PROVE  TableInv'
<1>1. \A x, y \in Nodes : \A k \in 1 .. Len(table'[x][y]) : Good(slots', x, y, table'[x][y][k])
  BY SameSlots, TableStays
<1>2. table' \in [Nodes -> [Nodes -> Seq(Entry)]]
  BY DEF TableInv
<1> QED
  BY <1>1, <1>2, ZenonT(60) DEF TableInv, Good
----------------------------------------------------------------------------
LEMMA RoutedInitInv == RInit => RoutedInv
<1> SUFFICES ASSUME RInit PROVE RoutedInv
  OBVIOUS
<1>1. SwitchInv
  BY InitInv DEF RInit
<1>2. table = [n \in Nodes |-> [p \in Nodes |-> <<>>]]
  BY DEF RInit
<1>3. \A n, p \in Nodes : table[n][p] = <<>>
  BY <1>2
<1>4. table \in [Nodes -> [Nodes -> Seq(Entry)]]
  BY <1>2
<1>5. \A n, p \in Nodes : \A k \in 1 .. Len(table[n][p]) : FALSE
  BY <1>3
<1> QED
  BY <1>1, <1>4, <1>5 DEF RoutedInv, TableInv

\* connectedCallback: the slot that Attach has just given to p leads to p.
LEMMA ConnectedKeepsInv ==
    ASSUME RoutedInv, NEW n \in Nodes, NEW p \in Nodes, NEW i \in Slot, ConnectedCallback(n, p, i)
    PROVE  RoutedInv'
<1>1. /\ SwitchInv /\ TableInv /\ p # n /\ Attach(n, p, i)
      /\ UNCHANGED <<wire, up, crashed, sends>>
      /\ AddRoute(n, p, <<i>>, <<n, p>>)
  BY DEF RoutedInv, ConnectedCallback, Connected
<1>2. SwitchInv'
  BY <1>1, AttachKeepsInv, ZenonT(60)
<1>3. slots[n][i] = NoPeer
  BY <1>1, AttachFacts
<1>4. ASSUME NEW x \in Nodes, NEW j \in Slot
      PROVE  slots'[x][j] = IF x = n /\ j = i THEN p ELSE slots[x][j]
  BY <1>1, AttachFacts
<1>5. SlotsGrow
  BY <1>3, <1>4, ZenonT(60) DEF SlotsGrow
<1>6. i # 0
  BY <1>1, <1>3, ForwarderAssumption DEF SwitchInv, OwnSlot
<1>7. Good(slots', n, p, [route |-> <<i>>, via |-> <<n, p>>])
  <2>1. slots'[n][i] = p
    BY <1>4
  <2>2. <<i>> \in Seq(Slot \ {0}) /\ Len(<<i>>) = 1 /\ <<i>>[1] = i
    BY <1>6
  <2>3. Len(<<n, p>>) = 2 /\ <<n, p>>[1] = n /\ <<n, p>>[2] = p
    OBVIOUS
  <2> QED
    BY <2>1, <2>2, <2>3 DEF Good
<1>8. <<i>> \in Seq(Slot) /\ <<n, p>> \in Seq(Nodes)
  OBVIOUS
<1>9. TableInv'
  BY <1>1, <1>5, <1>7, <1>8, AddRouteKeepsInv, ZenonT(60)
<1> QED
  BY <1>2, <1>9 DEF RoutedInv

\* GetRoute returns a good entry.
LEMMA FirstRoute ==
    ASSUME TableInv, NEW n \in Nodes, NEW p \in Nodes, table[n][p] # <<>>
    PROVE  GetRoute(n, p) \in Entry /\ Good(slots, n, p, GetRoute(n, p))
<1>1. 1 \in 1 .. Len(table[n][p])
  <2>1. table[n][p] \in Seq(Entry)
    BY DEF TableInv
  <2> QED
    BY <2>1, EmptySeq
<1> QED
  BY <1>1, EntryFacts DEF TableInv, GetRoute

\* Send: the first route of the table bears out its plan.
LEMMA SendKeepsRoutedInv ==
    ASSUME RoutedInv, NEW n \in Nodes, NEW p \in Nodes, Send(n, p)
    PROVE  RoutedInv'
<1> DEFINE e == GetRoute(n, p)
<1>1. SwitchInv /\ TableInv /\ sends \in Nat
  BY DEF RoutedInv, SwitchInv, TypeOK
<1>2. /\ table[n][p] # <<>> /\ SendPacket(n, e.route, e.via)
      /\ sends' = sends + 1 /\ table' = table
  BY ZenonT(60) DEF Send
<1>4. e \in Entry /\ Good(slots, n, p, e)
  BY <1>1, <1>2, FirstRoute, ZenonT(60)
<1> HIDE DEF e
<1>5. e.route \in Seq(Slot \ {0}) /\ e.via \in Seq(Nodes) /\ Leads(e.via, e.route) /\ e.via[1] = n
  BY <1>4, ZenonT(60) DEF Good, Leads, Entry
<1>6. SwitchInv'
  <2>1. sends' \in Nat
    BY <1>1, <1>2
  <2>2. e.via # <<>> => Leads(e.via, e.route) /\ e.via[1] = n
    BY <1>5
  <2>3. SendPacket(n, e.route, e.via)
    BY <1>2, ZenonT(60)
  <2> QED
    BY <1>1, <1>5, <2>1, <2>2, <2>3, SendKeepsInv, ZenonT(60)
<1>7. slots' = slots
  BY <1>2 DEF SendPacket
<1> QED
  BY <1>1, <1>2, <1>6, <1>7, TableUnchanged DEF RoutedInv

\* doUpperRecv learns a route that leads to the origin.
LEMMA RecvKeepsInv ==
    ASSUME RoutedInv, NEW m \in up, DoUpperRecv(m)
    PROVE  RoutedInv'
<1>1. SwitchInv /\ TableInv
  BY ZenonT(60) DEF RoutedInv
<1>2. /\ AddRoute(m.at, m.path[1], Reverse(m.label), Reverse(m.path))
      /\ UNCHANGED <<slots, bypeer, wire, up, crashed, sends>>
  BY DEF DoUpperRecv, fvars
<1>3. SwitchInv'
  <2>1. UNCHANGED fvars
    BY <1>2 DEF fvars
  <2> QED
    BY <1>1, <2>1, NextInv, ZenonT(60)
<1>4. /\ Reverse(m.label) \in Seq(Slot) /\ Reverse(m.path) \in Seq(Nodes)
      /\ m.at \in Nodes /\ m.path[1] \in Nodes
  <2> DEFINE rl == Reverse(m.label)
  <2>1. /\ rl \in Seq(Slot \ {0}) /\ Reverse(m.path) \in Seq(Nodes)
        /\ m.at \in Nodes /\ m.path[1] \in Nodes
    BY <1>1, TurnedLabel, ZenonT(60)
  <2> HIDE DEF rl
  <2>2. rl \in Seq(Slot)
    BY <2>1
  <2> QED
    BY <2>1, <2>2 DEF rl
<1>5. Good(slots', m.at, m.path[1], [route |-> Reverse(m.label), via |-> Reverse(m.path)])
  BY <1>1, <1>2, TurnedLabel
<1>6. SlotsGrow
  BY <1>2, SameSlots, ZenonT(60)
<1>7. TableInv'
  BY <1>1, <1>2, <1>4, <1>5, <1>6, AddRouteKeepsInv
<1> QED
  BY <1>3, <1>7 DEF RoutedInv

\* doUpperHelloRecv answers along the turned label.
LEMMA HelloKeepsInv ==
    ASSUME RoutedInv, NEW m \in up, DoUpperHelloRecv(m)
    PROVE  RoutedInv'
<1> DEFINE rl == Reverse(m.label)
           rp == Reverse(m.path)
<1>1. SwitchInv /\ TableInv /\ sends \in Nat
  BY DEF RoutedInv, SwitchInv, TypeOK
<1>2. SendPacket(m.at, rl, rp) /\ sends' = sends + 1 /\ table' = table
  BY ZenonT(60) DEF DoUpperHelloRecv
<1>3. /\ rl \in Seq(Slot \ {0}) /\ rp \in Seq(Nodes) /\ m.at \in Nodes
      /\ Good(slots, m.at, m.path[1], [route |-> rl, via |-> rp])
  BY <1>1, TurnedLabel, ZenonT(60)
<1> HIDE DEF rl, rp
<1>4. Leads(rp, rl) /\ rp[1] = m.at
  BY <1>3 DEF Good, Leads
<1>5. SwitchInv'
  <2>1. sends' \in Nat
    BY <1>1, <1>2
  <2>2. rp # <<>> => Leads(rp, rl) /\ rp[1] = m.at
    BY <1>4, ZenonT(60)
  <2> QED
    BY <1>1, <1>2, <1>3, <2>1, <2>2, SendKeepsInv, ZenonT(60)
<1>6. slots' = slots
  BY <1>2 DEF SendPacket
<1> QED
  BY <1>1, <1>2, <1>5, <1>6, TableUnchanged DEF RoutedInv

LEMMA RoutedNextInv == RoutedInv /\ [RNext]_vars => RoutedInv'
<1> SUFFICES ASSUME RoutedInv, [RNext]_vars PROVE RoutedInv'
  OBVIOUS
<1>0. SwitchInv /\ TableInv
  BY DEF RoutedInv
<1>1. ASSUME NEW n \in Nodes, NEW r \in Routes, UserSend(n, r), UNCHANGED table
      PROVE  RoutedInv'
  <2>1. SwitchInv'
    <3>1. Next
      BY <1>1 DEF Next
    <3> QED
      BY <1>0, <3>1, NextInv
  <2>2. slots' = slots
    BY <1>1 DEF UserSend, SendPacket
  <2> QED
    BY <1>0, <1>1, <2>1, <2>2, TableUnchanged DEF RoutedInv
<1>2. ASSUME NEW m \in wire, Receive(m), UNCHANGED table
      PROVE  RoutedInv'
  <2>1. SwitchInv'
    <3>1. Next
      BY <1>2 DEF Next
    <3> QED
      BY <1>0, <3>1, NextInv
  <2>2. slots' = slots
    BY <1>2 DEF Receive, HandlePacket
  <2> QED
    BY <1>0, <1>2, <2>1, <2>2, TableUnchanged DEF RoutedInv
<1>3. CASE UNCHANGED vars
  <2>1. SwitchInv'
    BY <1>0, <1>3, NextInv DEF vars, fvars
  <2> QED
    BY <1>0, <1>3, <2>1, TableUnchanged DEF RoutedInv, vars
<1> QED
  BY <1>1, <1>2, <1>3, ConnectedKeepsInv, SendKeepsRoutedInv, RecvKeepsInv, HelloKeepsInv DEF RNext

LEMMA RoutedInvariant == RSpec => []RoutedInv
BY RoutedInitInv, RoutedNextInv, PTL DEF RSpec

----------------------------------------------------------------------------
\* Switch and routing table keep their types.
THEOREM RoutedTypes == RSpec => []RTypeOK
<1>1. RoutedInv => RTypeOK
  BY DEF RoutedInv, SwitchInv, TableInv, RTypeOK
<1> QED
  BY <1>1, RoutedInvariant, PTL

\* Every route a node has learned leads to the peer it is filed under
\* (routing.go AddRoute, recv.go doUpperRecv, node.go connectedCallback).
THEOREM LearnedRoutesLead == RSpec => []RoutesLead
<1>1. RoutedInv => RoutesLead
  <2>1. ASSUME TableInv, NEW n \in Nodes, NEW p \in Nodes, NEW k \in 1 .. Len(table[n][p])
        PROVE  /\ Leads(table[n][p][k].via, table[n][p][k].route)
               /\ table[n][p][k].via[1] = n
               /\ table[n][p][k].via[Len(table[n][p][k].via)] = p
    <3>1. Good(slots, n, p, table[n][p][k])
      BY <2>1 DEF TableInv
    <3> QED
      BY <3>1, ZenonT(60) DEF Good, Leads
  <2>2. TableInv => RoutesLead
    BY <2>1, ZenonT(60) DEF RoutesLead
  <2> QED
    BY <2>2 DEF RoutedInv
<1> QED
  BY <1>1, RoutedInvariant, PTL

\* A packet sent along a learned route, or in answer to a hello, is consumed by
\* the peer it is meant for, after the hops its sender took the route to have.
THEOREM PacketsArriveAsPlanned == RSpec => []ArrivesAsPlanned
<1>1. RoutedInv => ArrivesAsPlanned
  <2> SUFFICES ASSUME SwitchInv, NEW m \in up, m.plan # <<>> PROVE m.path = m.plan
    BY DEF RoutedInv, ArrivesAsPlanned
  <2>1. m \in Packet /\ Consumed(m) /\ Visited(m)
    BY ZenonT(60) DEF SwitchInv, TypeOK, Consumed
  <2>2. m.path \in Seq(Nodes) /\ m.plan \in Seq(Nodes) /\ Len(m.path) = Hops(m) + 1
    BY <2>1, PacketFields, HopsFacts, ZenonT(60) DEF Fields, Visited
  <2>3. Len(m.plan) = Len(m.path) /\ \A i \in 1 .. Len(m.path) : m.path[i] = m.plan[i]
    BY <2>1, <2>2 DEF Consumed, Visited
  <2> QED
    BY <2>2, <2>3, SeqEqual
<1> QED
  BY <1>1, RoutedInvariant, PTL
----------------------------------------------------------------------------
(***************************************************************************)
(* Pings on top of switch and routing tables.  A ping, and a pong whose    *)
(* sender had a direct route to the hop before, is on its way as a packet  *)
(* with a plan is; of any other pong only its sender and its fields are    *)
(* known.                                                                  *)
(***************************************************************************)
\* The slots lead where the maker of the packet took them to lead.
Planned(m) == ~m.reply \/ m.direct

OnItsWay(m) ==
    /\ m.src # m.at
    /\ m.plan # <<>> /\ m.sender = m.plan[1]
    /\ Planned(m) => OnWire(m)
    /\ ~m.reply => m.orig = m.plan[1]
    /\ m.reply /\ m.direct => m.orig = m.plan[Len(m.plan)]

Written(m) == m.orig = m.at /\ (m.direct => m.path = m.plan)

PingInv ==
    /\ RoutedInv
    /\ linked \in 0 .. Len(Links)
    /\ pings \subseteq PingPacket /\ pongs \subseteq PingPacket
    /\ \A m \in pings : OnItsWay(m)
    /\ \A m \in pongs : Written(m)

LEMMA PingFields ==
    ASSUME NEW m \in PingPacket
    PROVE  /\ Fields(m) /\ m.at \in Nodes /\ m.src \in Nodes /\ m.pos \in Nat
           /\ m.label \in Seq(Slot \ {0}) /\ m.path \in Seq(Nodes) /\ m.plan \in Seq(Nodes)
           /\ m.orig \in Nodes
<1>1. /\ m.at \in Nodes /\ m.src \in Nodes /\ m.pos \in Nat
      /\ m.label \in Seq(Slot \ {0}) /\ m.route \in Seq(Slot \ {0})
      /\ m.path \in Seq(Nodes) /\ m.plan \in Seq(Nodes) /\ m.orig \in Nodes
  BY DEF PingPacket
<1>2. m.label \in Seq(Slot) /\ m.route \in Seq(Slot)
  BY <1>1
<1> QED
  BY <1>1, <1>2 DEF Fields

\* A packet with a plan is for the next node of the plan.
LEMMA NextOfPlan ==
    ASSUME NEW m, Fields(m), OnWire(m), m.plan # <<>>
    PROVE  /\ Len(m.path) = m.pos + 1 /\ Len(m.label) = Len(m.route)
           /\ Len(m.plan) = Len(m.route) + 1 /\ m.pos + 1 <= Len(m.route)
           /\ Len(Append(m.path, m.at)) = m.pos + 2
           /\ \A i \in 1 .. (m.pos + 2) : Append(m.path, m.at)[i] = m.plan[i]
<1>1. /\ m.pos \in Nat /\ m.path \in Seq(Nodes) /\ m.route \in Seq(Slot) /\ Len(m.route) \in Nat
      /\ m.at \in Nodes
  BY DEF Fields
<1>2. Visited(m) /\ Hops(m) = m.pos /\ m.pos < Len(m.route) /\ m.path # <<>>
  BY ZenonT(60) DEF OnWire, Visited
<1>3. Len(m.path) = m.pos + 1
  BY <1>2, HopsFacts
<1>4. /\ Len(m.label) = Len(m.route) /\ Len(m.plan) = Len(m.route) + 1
      /\ \A i \in 1 .. Len(m.route) : slots[m.plan[i]][m.route[i]] = m.plan[i + 1]
      /\ \A i \in 1 .. (m.pos + 1) : m.path[i] = m.plan[i]
  BY <1>2, <1>3 DEF Visited
<1>5. m.pos + 1 \in 1 .. Len(m.route) /\ m.pos + 1 \in 1 .. (m.pos + 1)
  BY <1>1, <1>2
<1>6. m.src = m.plan[m.pos + 1] /\ slots[m.src][m.route[m.pos + 1]] = m.at
  BY <1>4, <1>5, ZenonT(60) DEF OnWire
<1>7. m.at = m.plan[m.pos + 2]
  <2>1. slots[m.plan[m.pos + 1]][m.route[m.pos + 1]] = m.plan[(m.pos + 1) + 1]
    BY <1>4, <1>5, ZenonT(60)
  <2>2. (m.pos + 1) + 1 = m.pos + 2
    BY <1>1
  <2> QED
    BY <1>6, <2>1, <2>2
<1>8. /\ Len(Append(m.path, m.at)) = m.pos + 2
      /\ \A i \in 1 .. (m.pos + 1) : Append(m.path, m.at)[i] = m.path[i]
      /\ Append(m.path, m.at)[m.pos + 2] = m.at
  BY <1>1, <1>3
<1>9. \A i \in 1 .. (m.pos + 2) : i \in 1 .. (m.pos + 1) \/ i = m.pos + 2
  BY <1>1
<1>10. \A i \in 1 .. (m.pos + 2) : Append(m.path, m.at)[i] = m.plan[i]
  BY <1>4, <1>7, <1>8, <1>9, ZenonT(60)
<1> QED
  BY <1>1, <1>3, <1>4, <1>5, <1>8, <1>10

\* Pings stay on their way when slots only grow.
LEMMA OnItsWayStays ==
    ASSUME NEW m \in PingPacket, OnItsWay(m), SlotsGrow
    PROVE  OnItsWay(m)'
<1>1. NoPeer \notin Nodes /\ Fields(m)
  BY ForwarderAssumption, PingFields, ZenonT(60)
<1>2. Planned(m) => OnWire(m)'
  BY <1>1, OnWireStays DEF OnItsWay
<1> QED
  BY <1>2 DEF OnItsWay, Planned

\* A step keeps the invariant if what it adds to pings and pongs is as the
\* invariant says.
LEMMA PingsKeepInv ==
    ASSUME PingInv, RoutedInv', SlotsGrow, linked' \in 0 .. Len(Links),
           pings' \subseteq PingPacket, pongs' \subseteq PingPacket,
           \A m \in pings' : m \in pings \/ OnItsWay(m)',
           \A m \in pongs' : m \in pongs \/ Written(m)
    PROVE  PingInv'
<1>1. \A m \in pings : OnItsWay(m)'
  BY OnItsWayStays DEF PingInv
<1>2. \A m \in pings' : OnItsWay(m)'
  BY <1>1
<1>3. \A m \in pongs' : Written(m)'
  BY DEF PingInv, Written
<1> QED
  BY <1>2, <1>3 DEF PingInv

\* A packet for a slot that is not the node's own leaves the node.
LEMMA LeavesNode ==
    ASSUME SwitchInv, NEW n \in Nodes, NEW i \in Slot \ {0}, slots[n][i] # NoPeer
    PROVE  slots[n][i] \in Nodes /\ slots[n][i] # n
BY DEF SwitchInv, TypeOK, OwnSlot

\* SendRaw of a new ping whose plan the slots bear out, or of a pong.
LEMMA SendRawKeepsInv ==
    ASSUME PingInv, RoutedInv', UNCHANGED <<slots, linked, pongs>>,
           NEW n \in Nodes, NEW r \in Seq(Slot \ {0}), NEW plan \in Seq(Nodes),
           NEW reply \in BOOLEAN, NEW orig \in Nodes, NEW direct \in BOOLEAN,
           Len(r) # 0, plan # <<>>, plan[1] = n,
           ~reply \/ direct => Leads(plan, r),
           ~reply => orig = n,
           reply /\ direct => orig = plan[Len(plan)],
           SendRaw(n, r, NewPing(n, r, plan, reply, orig, direct))
    PROVE  PingInv'
<1> DEFINE q == slots[n][r[1]]
           m0 == NewPing(n, r, plan, reply, orig, direct)
           m == [m0 EXCEPT !.at = q, !.src = n]
<1>1. SwitchInv /\ SlotsGrow
  BY SameSlots DEF PingInv, RoutedInv
<1>2. r[1] \in Slot \ {0}
  <2>1. Len(r) \in Nat
    OBVIOUS
  <2> QED
    BY <2>1, ElementOfSeq
<1>3. CASE q = NoPeer
  <2>1. pings' = pings
    BY <1>3 DEF SendRaw
  <2> QED
    BY <1>1, <2>1, PingsKeepInv DEF PingInv
<1>4. CASE q # NoPeer
  <2>1. q \in Nodes /\ q # n
    BY <1>1, <1>2, <1>4, LeavesNode
  <2>2. pings' = pings \cup {m}
    <3> HIDE DEF m0
    <3> QED
      BY <1>4 DEF SendRaw, m0
  <2>3. m0 \in PingPacket
    <3>1. <<n>> \in Seq(Nodes) /\ 0 \in Nat
      OBVIOUS
    <3> QED
      BY <3>1, ZenonT(60) DEF NewPing, PingPacket
  <2>4. /\ m0.pos = 0 /\ m0.label = r /\ m0.route = r /\ m0.path = <<n>> /\ m0.plan = plan
        /\ m0.reply = reply /\ m0.sender = n /\ m0.orig = orig /\ m0.direct = direct
    BY DEF NewPing
  <2> HIDE DEF m0
  <2>5. m \in PingPacket
    BY <2>1, <2>3, ZenonT(60) DEF PingPacket
  <2>6. /\ m.at = q /\ m.src = n
        /\ m.pos = 0 /\ m.label = r /\ m.route = r /\ m.path = <<n>> /\ m.plan = plan
        /\ m.reply = reply /\ m.sender = n /\ m.orig = orig /\ m.direct = direct
    BY <2>3, <2>4 DEF PingPacket
  <2> HIDE DEF m
  <2>7. Planned(m) => OnWire(m)
    BY <2>6, FirstHop, ZenonT(60) DEF Planned
  <2>8. OnItsWay(m)
    <3>1. m.src # m.at /\ m.plan # <<>> /\ m.sender = m.plan[1]
      BY <2>1, <2>6
    <3>2. ~m.reply => m.orig = m.plan[1]
      BY <2>6, ZenonT(60)
    <3>3. m.reply /\ m.direct => m.orig = m.plan[Len(m.plan)]
      BY <2>6
    <3> QED
      BY <2>7, <3>1, <3>2, <3>3, ZenonT(60) DEF OnItsWay
  <2>9. ASSUME NEW x \in pings' PROVE x \in PingPacket /\ (x \in pings \/ OnItsWay(x)')
    <3>1. CASE x \in pings
      BY <3>1 DEF PingInv
    <3>2. CASE x = m
      <4>1. x \in PingPacket /\ OnItsWay(x)
        BY <2>5, <2>8, <3>2
      <4> QED
        BY <1>1, <4>1, OnItsWayStays
    <3> QED
      BY <2>2, <3>1, <3>2, ZenonT(60)
  <2>10. /\ pings' \subseteq PingPacket
         /\ \A x \in pings' : x \in pings \/ OnItsWay(x)'
    BY <2>9
  <2> QED
    BY <1>1, <2>10, PingsKeepInv, ZenonT(60) DEF PingInv
<1> QED
  BY <1>3, <1>4
----------------------------------------------------------------------------
\* A step that leaves switch and table alone, but for the count of packets.
LEMMA RoutedStays ==
    ASSUME RoutedInv, UNCHANGED <<slots, bypeer, wire, up, crashed, table>>, sends' \in Nat
    PROVE  RoutedInv'
<1>1. SwitchInv /\ TableInv
  BY DEF RoutedInv
<1>2. wire \subseteq Packet /\ up \subseteq Packet /\ crashed \subseteq Nodes
  BY <1>1 DEF SwitchInv, TypeOK
<1>3. SwitchInv'
  BY <1>1, <1>2, PacketsKeepInv
<1> QED
  BY <1>1, <1>3, TableUnchanged DEF RoutedInv

\* handleTunPacket: the first hops of a route lead along the beginning of what
\* the route leads along.
LEMMA TunKeepsInv ==
    ASSUME PingInv, NEW n \in Nodes, NEW p \in Nodes, NEW h \in HopLimits,
           HandleTunPacket(n, p, h)
    PROVE  PingInv'
<1> DEFINE e == GetRoute(n, p)
           r == SubSeq(e.route, 1, h)
           plan == SubSeq(e.via, 1, h + 1)
<1>1. /\ RoutedInv /\ SwitchInv /\ TableInv /\ sends \in Nat
      /\ h \in Nat \ {0} /\ UNCHANGED <<linked, pongs>> /\ table[n][p] # <<>>
  BY PingAssumption, ZenonT(60) DEF PingInv, RoutedInv, SwitchInv, TypeOK, HandleTunPacket
<1>2. e \in Entry /\ Good(slots, n, p, e)
  BY <1>1, FirstRoute, ZenonT(60)
<1>3. CASE h >= Len(e.route)
  <2>1. Send(n, p) /\ UNCHANGED pings
    BY <1>3, ZenonT(60) DEF HandleTunPacket
  <2>2. RoutedInv' /\ SlotsGrow
    BY <1>1, <2>1, SendKeepsRoutedInv, SameSlots DEF Send, SendPacket
  <2> QED
    BY <1>1, <2>1, <2>2, PingsKeepInv DEF PingInv
<1>4. CASE ~(h >= Len(e.route))
  <2>1. /\ sends' = sends + 1 /\ UNCHANGED <<slots, bypeer, wire, up, crashed, table>>
        /\ SendRaw(n, r, NewPing(n, r, plan, FALSE, n, TRUE))
    BY <1>4, ZenonT(60) DEF HandleTunPacket, Cut
  <2>2. RoutedInv'
    <3>1. UNCHANGED <<slots, bypeer, wire, up, crashed, table>>
      BY <2>1, ZenonT(60)
    <3>2. RoutedInv /\ sends' \in Nat
      BY <1>1, <2>1
    <3> QED
      BY <3>1, <3>2, RoutedStays, ZenonT(60)
  <2> HIDE DEF e
  <2>3. /\ e.route \in Seq(Slot \ {0}) /\ e.via \in Seq(Nodes)
        /\ Len(e.route) \in Nat /\ Len(e.via) = Len(e.route) + 1
        /\ \A i \in 1 .. Len(e.route) : slots[e.via[i]][e.route[i]] = e.via[i + 1]
        /\ e.via[1] = n
    BY <1>2 DEF Good, Entry
  <2>4. h < Len(e.route) /\ h + 1 <= Len(e.via)
    BY <1>1, <1>4, <2>3
  <2>5. r \in Seq(Slot \ {0}) /\ Len(r) = h /\ \A i \in 1 .. h : r[i] = e.route[i]
    BY <1>1, <2>3, <2>4, SubSeqProperties
  <2>6. /\ plan \in Seq(Nodes) /\ Len(plan) = h + 1
        /\ \A i \in 1 .. (h + 1) : plan[i] = e.via[i]
    <3>1. h + 1 \in 1 .. Len(e.via)
      BY <1>1, <2>4
    <3> QED
      BY <1>1, <2>3, <3>1, SubSeqProperties
  <2> HIDE DEF r, plan
  <2>7. plan # <<>> /\ plan[1] = n
    <3>1. 1 \in 1 .. (h + 1)
      BY <1>1
    <3> QED
      BY <1>1, <2>3, <2>6, <3>1
  <2>8. ASSUME NEW i \in 1 .. h PROVE slots[plan[i]][r[i]] = plan[i + 1]
    <3>1. i \in 1 .. (h + 1) /\ i + 1 \in 1 .. (h + 1) /\ i \in 1 .. Len(e.route)
      BY <1>1, <2>3, <2>4
    <3> QED
      BY <2>3, <2>5, <2>6, <3>1, ZenonT(60)
  <2>9. Leads(plan, r)
    BY <2>5, <2>6, <2>8 DEF Leads
  <2>10. FALSE \in BOOLEAN /\ TRUE \in BOOLEAN /\ Len(r) # 0
    BY <1>1, <2>5, ZenonT(60)
  <2> QED
    BY <1>1, <2>1, <2>2, <2>5, <2>6, <2>7, <2>9, <2>10, SendRawKeepsInv, ZenonT(60)
<1> QED
  BY <1>3, <1>4

\* HandlePacket of a ping on the way.
LEMMA ForwardKeepsInv ==
    ASSUME PingInv, NEW m \in pings, ForwardPing(m)
    PROVE  PingInv'
<1> DEFINE k == m.pos + 1
           prev == bypeer[m.at][m.src]
           q == slots[m.at][NextLabel(m)]
           u == [Stamp(m) EXCEPT !.pos = m.pos + 1, !.src = m.at, !.at = q]
<1>1. /\ RoutedInv /\ SwitchInv /\ m \in PingPacket /\ OnItsWay(m)
  BY DEF PingInv, RoutedInv
<1>2. /\ prev # NoSlot /\ q # NoPeer /\ ~IsDestination(m)
      /\ pings' = pings \cup {u} /\ UNCHANGED <<vars, linked, pongs>>
  BY ZenonT(60) DEF ForwardPing, PrevKnown
<1>3. /\ Fields(m) /\ m.at \in Nodes /\ m.src \in Nodes /\ m.pos \in Nat
      /\ m.label \in Seq(Slot \ {0}) /\ m.path \in Seq(Nodes) /\ Len(m.label) \in Nat
  BY <1>1, PingFields
<1>4. k \in 1 .. Len(m.label) /\ k + 1 \in 1 .. Len(m.label) /\ k # Len(m.label)
  BY <1>2, <1>3 DEF IsDestination
<1>5. NextLabel(m) \in Slot \ {0}
  <2>1. NextLabel(m) = m.label[k + 1]
    BY <1>3, <1>4 DEF NextLabel
  <2> QED
    BY <1>3, <1>4, <2>1, ElementOfSeq
<1>6. prev \in Slot \ {0}
  <2>1. prev \in Slot /\ slots[m.at][prev] = m.src /\ m.src # m.at
    BY <1>1, <1>2, <1>3 DEF SwitchInv, TypeOK, SlotTable, OnItsWay
  <2> QED
    BY <1>1, <1>3, <2>1 DEF SwitchInv, OwnSlot
<1>7. q \in Nodes /\ q # m.at
  BY <1>1, <1>2, <1>3, <1>5, LeavesNode, ZenonT(60)
<1>8. [m.label EXCEPT ![k] = prev] \in Seq(Slot \ {0}) /\ Append(m.path, m.at) \in Seq(Nodes)
  BY <1>3, <1>4, <1>6, ExceptSeq
<1>9. /\ u.at = q /\ u.src = m.at /\ u.pos = k /\ u.label = [m.label EXCEPT ![k] = prev]
      /\ u.path = Append(m.path, m.at) /\ u.route = m.route /\ u.plan = m.plan
      /\ u.reply = m.reply /\ u.sender = m.sender /\ u.orig = m.orig /\ u.direct = m.direct
  BY <1>1 DEF Stamp, PingPacket
<1>10. u \in PingPacket
  <2>1. k \in Nat
    BY <1>3
  <2> DEFINE lab == [m.label EXCEPT ![k] = prev]
             w == [m EXCEPT !.label = lab, !.path = Append(m.path, m.at)]
  <2>2. u = [w EXCEPT !.pos = k, !.src = m.at, !.at = q]
    BY <1>1 DEF Stamp, PingPacket
  <2> HIDE DEF k, q, lab
  <2>3. w \in PingPacket
    BY <1>1, <1>8, ZenonT(60) DEF PingPacket, lab
  <2> HIDE DEF w
  <2> QED
    BY <1>3, <1>7, <2>1, <2>2, <2>3, ZenonT(60) DEF PingPacket
<1> HIDE DEF u
<1>11. OnItsWay(u)
  <2>1. Planned(u) => OnWire(u)
    <3>1. Planned(u) => OnWire(m)
      BY <1>1, <1>9, ZenonT(60) DEF OnItsWay, Planned
    <3> QED
      BY <1>1, <1>2, <1>3, <1>4, <1>9, <3>1, HopOn, ZenonT(60)
  <2> QED
    BY <1>1, <1>7, <1>9, <2>1, ZenonT(60) DEF OnItsWay
<1>12. RoutedInv' /\ SlotsGrow
  BY <1>1, <1>2, RoutedNextInv, SameSlots, ZenonT(60) DEF vars
<1>13. ASSUME NEW x \in pings' PROVE x \in PingPacket /\ (x \in pings \/ OnItsWay(x)')
  <2>1. CASE x \in pings
    BY <2>1 DEF PingInv
  <2>2. CASE x = u
    <3>1. x \in PingPacket /\ OnItsWay(x)
      BY <1>10, <1>11, <2>2
    <3> QED
      BY <1>12, <3>1, OnItsWayStays
  <2> QED
    BY <1>2, <2>1, <2>2
<1>14. /\ pings' \subseteq PingPacket
       /\ \A x \in pings' : x \in pings \/ OnItsWay(x)'
  BY <1>13
<1> QED
  BY <1>2, <1>12, <1>14, PingsKeepInv DEF PingInv

\* A node at the end of a label answers along the turned label.
LEMMA AnswerKeepsInv ==
    ASSUME PingInv, NEW m \in pings, AnswerPing(m)
    PROVE  PingInv'
<1> DEFINE e == GetRoute(m.at, m.src)
           h == m.pos + 1
           ls == [SubSeq(m.label, 1, h) EXCEPT ![h] = e.route[1]]
           path == Append(m.path, m.at)
           direct == Len(e.route) = 1
<1>1. /\ RoutedInv /\ SwitchInv /\ TableInv /\ m \in PingPacket /\ OnItsWay(m)
  BY DEF PingInv, RoutedInv
<1>2. /\ IsDestination(m) /\ ~m.reply /\ table[m.at][m.src] # <<>>
      /\ UNCHANGED <<vars, linked, pongs>>
      /\ SendRaw(m.at, Reverse(ls), NewPing(m.at, Reverse(ls), Reverse(path), TRUE, m.orig, direct))
  BY ZenonT(60) DEF AnswerPing, Turned
<1>3. /\ Fields(m) /\ m.at \in Nodes /\ m.src \in Nodes /\ m.pos \in Nat
      /\ m.label \in Seq(Slot \ {0}) /\ m.path \in Seq(Nodes) /\ m.orig \in Nodes
  BY <1>1, PingFields
<1>4. /\ OnWire(m) /\ m.plan # <<>> /\ m.src # m.at /\ m.orig = m.plan[1]
  BY <1>1, <1>2, ZenonT(60) DEF OnItsWay, Planned
<1>5. /\ Len(m.path) = h /\ h \in Nat /\ h = Len(m.label) /\ Len(path) = h + 1
      /\ path \in Seq(Nodes) /\ path[h + 1] = m.at /\ \A i \in 1 .. h : path[i] = m.path[i]
  <2>1. Len(m.path) = m.pos + 1 /\ m.pos + 1 <= Len(m.label)
    BY <1>3, <1>4, NextOfPlan, ZenonT(60)
  <2>2. h = Len(m.label)
    BY <1>2, <1>3, <2>1 DEF IsDestination
  <2> QED
    BY <1>3, <2>1, <2>2
<1>6. /\ e.route \in Seq(Slot \ {0}) /\ Len(e.route) \in Nat \ {0}
      /\ e.route[1] \in Slot \ {0}
      /\ direct => slots[m.at][e.route[1]] = m.src
  <2>1. e \in Entry /\ Good(slots, m.at, m.src, e)
    BY <1>1, <1>2, <1>3, FirstRoute, ZenonT(60)
  <2> HIDE DEF e
  <2>2. /\ e.route \in Seq(Slot \ {0}) /\ Len(e.route) \in Nat
        /\ Len(e.via) = Len(e.route) + 1 /\ e.via[1] = m.at /\ e.via[Len(e.via)] = m.src
        /\ \A i \in 1 .. Len(e.route) : slots[e.via[i]][e.route[i]] = e.via[i + 1]
    BY <2>1 DEF Good, Entry
  <2>3. Len(e.route) # 0
    BY <1>4, <2>2
  <2>4. 1 \in 1 .. Len(e.route)
    BY <2>2, <2>3
  <2>5. e.route[1] \in Slot \ {0} /\ slots[m.at][e.route[1]] = e.via[2]
    BY <2>2, <2>4, ElementOfSeq
  <2> QED
    BY <2>2, <2>3, <2>5
<1> HIDE DEF e, direct
<1>7. /\ ls \in Seq(Slot \ {0}) /\ Len(ls) = h /\ ls[h] = e.route[1]
      /\ \A i \in 1 .. h : i # h => ls[i] = m.label[i]
  <2>1. /\ SubSeq(m.label, 1, h) \in Seq(Slot \ {0}) /\ Len(SubSeq(m.label, 1, h)) = h
        /\ \A i \in 1 .. h : SubSeq(m.label, 1, h)[i] = m.label[i]
    BY <1>3, <1>5, SubSeqProperties
  <2>2. h \in 1 .. h
    BY <1>3
  <2> DEFINE sub == SubSeq(m.label, 1, h)
  <2>3. ls = [sub EXCEPT ![h] = e.route[1]] /\ e.route[1] \in Slot \ {0} /\ h \in Nat
    BY <1>5, <1>6
  <2>4. sub \in Seq(Slot \ {0}) /\ Len(sub) = h /\ h \in 1 .. Len(sub)
    BY <2>1, <2>2
  <2>5. \A i \in 1 .. h : sub[i] = m.label[i]
    BY <2>1
  <2> HIDE DEF sub, h, ls
  <2>6. ls \in Seq(Slot \ {0}) /\ Len(ls) = h
    BY <2>3, <2>4, ExceptSeq
  <2>7. \A i \in 1 .. h : ls[i] = IF i = h THEN e.route[1] ELSE sub[i]
    BY <2>3, <2>4, ExceptSeq
  <2> QED
    BY <2>2, <2>5, <2>6, <2>7, ZenonT(60)
<1> HIDE DEF ls, path, h
<1>8. /\ Reverse(ls) \in Seq(Slot \ {0}) /\ Reverse(path) \in Seq(Nodes)
      /\ Len(Reverse(ls)) = h /\ Len(Reverse(path)) = h + 1
      /\ Reverse(path)[1] = m.at /\ Reverse(path)[h + 1] = path[1]
  <2>1. /\ h \in Nat /\ ls \in Seq(Slot \ {0}) /\ path \in Seq(Nodes)
        /\ Len(ls) = h /\ Len(path) = h + 1 /\ path[h + 1] = m.at
    BY <1>5, <1>7
  <2> QED
    BY <2>1, TurnedTypes, ZenonT(60)
<1>9. path[1] = m.orig /\ h # 0
  <2>1. h # 0 /\ 1 \in 1 .. (m.pos + 2)
    BY <1>3 DEF h
  <2>2. path[1] = m.plan[1]
    BY <1>3, <1>4, <2>1, NextOfPlan, ZenonT(60) DEF path
  <2> QED
    BY <1>4, <2>1, <2>2
<1>10. ASSUME direct PROVE Leads(Reverse(path), Reverse(ls))
  <2>1. ASSUME NEW i \in 1 .. h PROVE slots[path[i + 1]][ls[i]] = path[i]
    <3>1. CASE i = h
      <4>1. m.src = m.path[h]
        BY <1>4, ZenonT(60) DEF OnWire, h
      <4> QED
        BY <1>5, <1>6, <1>7, <1>10, <3>1, <4>1, ZenonT(60)
    <3>2. CASE i # h
      <4>1. i \in 1 .. m.pos /\ i + 1 \in 1 .. h
        BY <1>3, <1>5, <3>2 DEF h
      <4>2. slots[m.path[i + 1]][m.label[i]] = m.path[i]
        BY <1>4, <4>1 DEF OnWire, Visited
      <4> QED
        BY <1>5, <1>7, <3>2, <4>1, <4>2, ZenonT(60)
    <3> QED
      BY <3>1, <3>2, ZenonT(60)
  <2>2. Good(slots, path[h + 1], path[1], [route |-> Reverse(ls), via |-> Reverse(path)])
    BY <1>5, <1>7, <2>1, TurnedRoute, ZenonT(60)
  <2> QED
    BY <2>2 DEF Good, Leads
<1>11. RoutedInv'
  BY <1>1, <1>2, RoutedNextInv, ZenonT(60)
<1>12. direct \in BOOLEAN /\ TRUE \in BOOLEAN
  BY ZenonT(60) DEF direct
<1>13. Len(Reverse(ls)) # 0 /\ Reverse(path) # <<>>
  BY <1>5, <1>8, <1>9
<1>14. direct => m.orig = Reverse(path)[Len(Reverse(path))]
  BY <1>8, <1>9, ZenonT(60)
<1>15. UNCHANGED <<slots, linked, pongs>>
  BY <1>2, ZenonT(60) DEF vars
<1> QED
  BY <1>2, <1>3, <1>8, <1>10, <1>11, <1>12, <1>13, <1>14, <1>15, SendRawKeepsInv, ZenonT(60)

\* A pong for a packet of this node is written to the tunnel.
LEMMA TakeKeepsInv ==
    ASSUME PingInv, NEW m \in pings, TakePong(m)
    PROVE  PingInv'
<1> DEFINE u == [m EXCEPT !.path = Append(@, m.at)]
<1>1. RoutedInv /\ m \in PingPacket /\ OnItsWay(m)
  BY DEF PingInv
<1>2. /\ IsDestination(m) /\ m.reply /\ m.orig = m.at
      /\ pongs' = pongs \cup {u} /\ UNCHANGED <<vars, linked, pings>>
  BY DEF TakePong
<1>3. /\ Fields(m) /\ m.at \in Nodes /\ m.pos \in Nat /\ Len(m.label) \in Nat
      /\ m.path \in Seq(Nodes) /\ m.plan \in Seq(Nodes)
  BY <1>1, PingFields
<1>4. Append(m.path, m.at) \in Seq(Nodes)
  BY <1>3
<1>5. u \in PingPacket
  BY <1>1, <1>4, ZenonT(60) DEF PingPacket
<1>6. u.orig = m.orig /\ u.at = m.at /\ u.direct = m.direct /\ u.plan = m.plan
      /\ u.path = Append(m.path, m.at)
  BY <1>1 DEF PingPacket
<1> HIDE DEF u
<1>7. ASSUME m.direct PROVE Append(m.path, m.at) = m.plan
  <2>1. OnWire(m) /\ m.plan # <<>>
    BY <1>1, <1>7 DEF OnItsWay, Planned
  <2>2. /\ Len(m.label) = Len(m.route)
        /\ Len(m.plan) = Len(m.route) + 1 /\ m.pos + 1 <= Len(m.route)
        /\ Len(Append(m.path, m.at)) = m.pos + 2
        /\ \A i \in 1 .. (m.pos + 2) : Append(m.path, m.at)[i] = m.plan[i]
    BY <1>3, <2>1, NextOfPlan, ZenonT(60)
  <2>3. Len(m.plan) = m.pos + 2
    BY <1>2, <1>3, <2>2 DEF IsDestination
  <2> QED
    BY <1>3, <1>4, <2>2, <2>3, SeqEqual, ZenonT(60)
<1>8. Written(u)
  BY <1>2, <1>6, <1>7 DEF Written
<1>9. RoutedInv' /\ SlotsGrow
  BY <1>1, <1>2, RoutedNextInv, SameSlots, ZenonT(60) DEF vars
<1>10. /\ pongs' \subseteq PingPacket
       /\ \A x \in pongs' : x \in pongs \/ Written(x)
  BY <1>2, <1>5, <1>8 DEF PingInv
<1> QED
  BY <1>2, <1>9, <1>10, PingsKeepInv DEF PingInv
----------------------------------------------------------------------------
LEMMA PingInitInv == PInit => PingInv
<1> SUFFICES ASSUME PInit PROVE PingInv
  OBVIOUS
<1>1. Len(Links) \in Nat
  BY PingAssumption
<1> QED
  BY <1>1, RoutedInitInv DEF PInit, PingInv

\* What comes up, is sent, forwarded or consumed besides the pings.
LEMMA OthersKeepInv ==
    ASSUME PingInv, RoutedInv', SlotsGrow, UNCHANGED <<pings, pongs>>,
           linked' \in 0 .. Len(Links)
    PROVE  PingInv'
BY PingsKeepInv DEF PingInv

LEMMA PingNextInv == PingInv /\ [PNext]_pvars => PingInv'
<1> SUFFICES ASSUME PingInv, [PNext]_pvars PROVE PingInv'
  OBVIOUS
<1>1. RoutedInv /\ linked \in 0 .. Len(Links)
  BY DEF PingInv
<1>2. ASSUME NEW i \in Slot, Link(i) PROVE PingInv'
  <2> DEFINE n == Links[linked + 1][1]
             p == Links[linked + 1][2]
  <2>1. Len(Links) \in Nat /\ linked < Len(Links) /\ linked' = linked + 1
    BY <1>2, PingAssumption DEF Link
  <2>2. linked + 1 \in 1 .. Len(Links) /\ linked' \in 0 .. Len(Links)
    BY <1>1, <2>1
  <2>3. n \in Nodes /\ p \in Nodes
    <3>1. Links[linked + 1] \in Nodes \X Nodes
      BY <2>2, PingAssumption, ElementOfSeq, ZenonT(60)
    <3> QED
      BY <3>1
  <2>4. ConnectedCallback(n, p, i) /\ UNCHANGED <<pings, pongs>>
    BY <1>2 DEF Link
  <2> HIDE DEF n, p
  <2>5. RoutedInv'
    BY <1>1, <2>3, <2>4, ConnectedKeepsInv, ZenonT(60)
  <2>6. SlotsGrow
    <3>1. SwitchInv /\ Attach(n, p, i)
      BY <1>1, <2>4 DEF RoutedInv, ConnectedCallback, Connected
    <3> QED
      BY <2>3, <3>1, AttachFacts DEF SlotsGrow
  <2> QED
    BY <2>2, <2>4, <2>5, <2>6, OthersKeepInv, ZenonT(60)
<1>3. CASE Traffic
  <2>1. UNCHANGED <<linked, pings, pongs>>
    BY <1>3 DEF Traffic
  <2>2. RNext
    BY <1>3, ZenonT(60) DEF Traffic, RNext
  <2>3. slots' = slots
    BY <1>3, ZenonT(60) DEF Traffic, UserSend, SendPacket, Receive, HandlePacket, DoUpperRecv, fvars
  <2> QED
    BY <1>1, <2>1, <2>2, <2>3, RoutedNextInv, SameSlots, OthersKeepInv
<1>4. CASE UNCHANGED pvars
  <2>1. UNCHANGED <<vars, linked, pings, pongs>> /\ slots' = slots
    BY <1>4, ZenonT(60) DEF pvars, vars
  <2> QED
    BY <1>1, <2>1, RoutedNextInv, SameSlots, OthersKeepInv
<1> QED
  BY <1>2, <1>3, <1>4, TunKeepsInv, ForwardKeepsInv, AnswerKeepsInv, TakeKeepsInv
     DEF PNext, HandlePingPacket

LEMMA PingInvariant == PSpec => []PingInv
BY PingInitInv, PingNextInv, PTL DEF PSpec

\* Pings and pongs keep their types; none names slot 0, so that SendRaw never
\* hands one to the upper layer of its own node.
THEOREM PingTypes == PSpec => []PTypeOK
<1>1. PingInv => PTypeOK
  BY DEF PingInv, RoutedInv, SwitchInv, TableInv, RTypeOK, PTypeOK
<1> QED
  BY <1>1, PingInvariant, PTL

\* A packet that the slots lead along its plan is on its plan.
LEMMA PlanKept ==
    ASSUME PingInv, NEW m \in pings, OnWire(m)
    PROVE  OnPlan(m)
<1>1. m \in PingPacket /\ m.plan # <<>>
  BY DEF PingInv, OnItsWay
<1>2. Fields(m) /\ m.pos \in Nat /\ m.plan \in Seq(Nodes) /\ m.path \in Seq(Nodes) /\ m.at \in Nodes
  BY <1>1, PingFields, ZenonT(60)
<1>3. /\ Len(m.path) = m.pos + 1 /\ Len(m.plan) = Len(m.route) + 1
      /\ m.pos + 1 <= Len(m.route) /\ Len(m.route) \in Nat
      /\ Len(Append(m.path, m.at)) = m.pos + 2
      /\ \A i \in 1 .. (m.pos + 2) : Append(m.path, m.at)[i] = m.plan[i]
  BY <1>1, <1>2, NextOfPlan DEF Fields
<1>4. /\ m.pos + 2 \in 1 .. Len(m.plan) /\ Len(m.path) + 1 = m.pos + 2
      /\ Len(m.path) < Len(m.plan)
  BY <1>2, <1>3
<1>5. /\ SubSeq(m.plan, 1, m.pos + 2) \in Seq(Nodes) /\ Len(SubSeq(m.plan, 1, m.pos + 2)) = m.pos + 2
      /\ \A i \in 1 .. (m.pos + 2) : SubSeq(m.plan, 1, m.pos + 2)[i] = m.plan[i]
  BY <1>2, <1>4, SubSeqProperties
<1>6. Append(m.path, m.at) \in Seq(Nodes)
  BY <1>2
<1>7. Append(m.path, m.at) = SubSeq(m.plan, 1, m.pos + 2)
  BY <1>3, <1>5, <1>6, SeqEqual
<1> QED
  BY <1>4, <1>7, ZenonT(60) DEF OnPlan

\* In any network a ping of hop limit h keeps to the first h hops of the route,
\* and the node that answers it is the one at their end (fcnet.go
\* handleTunPacket, ping.go handlePingPacket).
THEOREM PingsReachTheirHop == PSpec => []HopAnswers
<1>1. PingInv => HopAnswers
  <2> SUFFICES ASSUME PingInv, NEW m \in pings
               PROVE  IF m.reply THEN m.sender = m.plan[1]
                      ELSE OnPlan(m) /\ (IsDestination(m) <=> Len(m.path) + 1 = Len(m.plan))
    BY ZenonT(60) DEF HopAnswers
  <2>1. CASE m.reply
    BY <2>1 DEF PingInv, OnItsWay
  <2>2. CASE ~m.reply
    <3>1. m \in PingPacket /\ OnWire(m) /\ m.plan # <<>>
      BY <2>2, ZenonT(60) DEF PingInv, OnItsWay, Planned
    <3>2. Fields(m) /\ m.pos \in Nat
      BY <3>1, PingFields, ZenonT(60)
    <3>3. /\ Len(m.path) = m.pos + 1 /\ Len(m.label) = Len(m.route) /\ Len(m.route) \in Nat
          /\ Len(m.plan) = Len(m.route) + 1 /\ m.pos + 1 <= Len(m.route)
      BY <3>1, <3>2, NextOfPlan DEF Fields
    <3>4. IsDestination(m) <=> Len(m.path) + 1 = Len(m.plan)
      BY <3>2, <3>3 DEF IsDestination
    <3> QED
      BY <2>2, <3>1, <3>4, PlanKept, ZenonT(60)
  <2> QED
    BY <2>1, <2>2, ZenonT(60)
<1> QED
  BY <1>1, PingInvariant, PTL

\* In any network a pong of a node whose first route to the hop before is a
\* direct one goes back the way its ping came, to the node that sent the ping
\* (ping.go handlePingPacket).
THEOREM DirectPongsReturn == PSpec => []DirectPongReturns
<1>1. PingInv => DirectPongReturns
  <2> SUFFICES ASSUME PingInv, NEW m \in pings, m.reply, m.direct
               PROVE  OnPlan(m) /\ m.plan[Len(m.plan)] = m.orig
    BY ZenonT(60) DEF DirectPongReturns
  <2>1. OnWire(m) /\ m.orig = m.plan[Len(m.plan)]
    BY ZenonT(60) DEF PingInv, OnItsWay, Planned
  <2> QED
    BY <2>1, PlanKept
<1> QED
  BY <1>1, PingInvariant, PTL

\* In any network a node writes to its tunnel only pongs for packets of its own,
\* also when pongs go astray; one that did not has come all the way.
THEOREM OnlyOurPongs == PSpec => []PongsAreOurs
<1>1. PingInv => PongsAreOurs
  BY DEF PingInv, Written, PongsAreOurs
<1> QED
  BY <1>1, PingInvariant, PTL
=============================================================================
