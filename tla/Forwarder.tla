----------------------------- MODULE Forwarder -----------------------------
(***************************************************************************)
(* The label switch of every node (node/forwarder/forwarder.go) and the    *)
(* route label that packets carry (packet.go, route.go).                   *)
(*                                                                         *)
(* A node keeps a numbered slot for every peer it is connected to; slot 0  *)
(* is the node itself.  A packet names the slots to take, one per hop, and *)
(* every hop overwrites the label byte it has used with its own slot for   *)
(* the hop before, so that the label turns into the way back.              *)
(*                                                                         *)
(* The lower sessions below the switch deliver a packet for peer q to q,   *)
(* with the true sender in LowerSrc, or not at all; they may deliver it    *)
(* late, out of order or twice (there is no replay window).  So `wire` is  *)
(* a set that packets never leave.                                         *)
(***************************************************************************)
EXTENDS Naturals, Sequences, FiniteSets

CONSTANTS
    Nodes,
    NoPeer,       \* the zero PeerID of nullSlotEntry
    NumSlots,     \* 256 in the code
    Window,       \* bytes of the label header: pos, len and the label; 16
    RouteLimit,   \* longest route SendPacket accepts; 14
    Routes,       \* the routes users hand to SendPacket
    MaxSends      \* bound: how many packets users send

Slot == 0 .. (NumSlots - 1)

\* bypeer has no entry for this peer.
NoSlot == NumSlots

\* A route names slots of peers.  Attach never gives slot 0 to a peer, because
\* NewNode attaches the node itself first.
ASSUME ForwarderAssumption ==
    /\ NoPeer \notin Nodes
    /\ NumSlots \in Nat \ {0}
    /\ Window \in Nat
    /\ RouteLimit \in Nat
    /\ MaxSends \in Nat
    /\ Routes \subseteq Seq(Slot \ {0})

VARIABLES
    slots,      \* slots[n][i]: the peer in slot i of node n
    bypeer,     \* bypeer[n][p]: the slot n uses as its name for p
    wire,       \* packets between two nodes
    up,         \* packets a node has handed to its upper layer
    crashed,    \* nodes whose process has panicked
    sends       \* packets sent by users so far

fvars == <<slots, bypeer, wire, up, crashed, sends>>

(***************************************************************************)
(* A packet: `at` is the node it is for, `src` the LowerSrc, `pos` and     *)
(* `label` the header.  The rest is history: `route` is the route the      *)
(* sender set, `path` the nodes the packet has visited so far, and `plan`  *)
(* the nodes the sender takes the route to lead through, empty when a user *)
(* chose the route.                                                        *)
(***************************************************************************)
Packet == [at : Nodes, src : Nodes, pos : Nat, label : Seq(Slot),
           route : Seq(Slot), path : Seq(Nodes), plan : Seq(Nodes)]

\* Route.Reverse
Reverse(r) == [i \in 1 .. Len(r) |-> r[Len(r) - i + 1]]

\* NewForwarder, and the Attach of the node itself in NewNode.
Init ==
    /\ slots = [n \in Nodes |-> [i \in Slot |-> IF i = 0 THEN n ELSE NoPeer]]
    /\ bypeer = [n \in Nodes |-> [p \in Nodes |-> IF p = n THEN 0 ELSE NoSlot]]
    /\ wire = {}
    /\ up = {}
    /\ crashed = {}
    /\ sends = 0

----------------------------------------------------------------------------
\* Attach: peer p gets the first free slot i of node n, also when it has one.
Attach(n, p, i) ==
    /\ slots[n][i] = NoPeer
    /\ \A j \in Slot : j < i => slots[n][j] # NoPeer
    /\ slots' = [slots EXCEPT ![n][i] = p]
    /\ bypeer' = [bypeer EXCEPT ![n][p] = i]

\* Detach: the first slot of p is freed and p loses its entry in bypeer.
Detach(n, p, i) ==
    /\ slots[n][i] = p
    /\ \A j \in Slot : j < i => slots[n][j] # p
    /\ slots' = [slots EXCEPT ![n][i] = NoPeer]
    /\ bypeer' = [bypeer EXCEPT ![n][p] = NoSlot]

\* The send function of slot i of node n: slot 0 is the node's own upper
\* layer, a peer's slot leads to lowerSendQ with LowerDst set to that peer,
\* and the null entry drops the packet.
SlotSend(n, i, m) ==
    IF i = 0 THEN /\ up' = up \cup {[m EXCEPT !.at = n]}
                  /\ UNCHANGED wire
             ELSE /\ slots[n][i] # NoPeer
                  /\ wire' = wire \cup {[m EXCEPT !.at = slots[n][i], !.src = n]}
                  /\ UNCHANGED up

\* SetRoute and SendPacket with SendRaw: the route becomes the label, the
\* packet starts at position 0, and the first label byte picks the slot.
SendPacket(n, r, plan) ==
    /\ n \notin crashed
    /\ Len(r) # 0
    /\ Len(r) <= RouteLimit
    /\ SlotSend(n, r[1], [at |-> n, src |-> n, pos |-> 0, label |-> r,
                          route |-> r, path |-> <<n>>, plan |-> plan])
    /\ UNCHANGED <<slots, bypeer, crashed>>

\* The label byte of the current hop in place of the next one.
ThisLabel(m) == m.label[m.pos + 1]

\* The label byte after the current one, which HandlePacket reads before it
\* looks whether this is the last hop.  SetRoute pads the header with zeros.
NextLabel(m) == IF m.pos + 2 <= Len(m.label) THEN m.label[m.pos + 2] ELSE 0

\* buf[2+pos+1] lies outside the header.
OutOfWindow(m) == 2 + m.pos + 1 >= Window

\* The previous hop has a slot.
PrevKnown(m) == bypeer[m.at][m.src] # NoSlot

\* The label byte stays as it was.
StampNothing(m) == [m EXCEPT !.path = Append(@, m.at)]

\* The label byte that was used up is overwritten with the slot of the
\* previous hop.
Stamp(m) ==
    [m EXCEPT !.label[m.pos + 1] = bypeer[m.at][m.src], !.path = Append(@, m.at)]

\* The last hop is looked for one position too late.
PastLastHop(m) == m.pos = Len(m.label)

\* pos == length-1
LastHop(m) == m.pos + 1 = Len(m.label)

\* HandlePacket at the node m is for.
HandlePacket(m) ==
    /\ m.at \notin crashed
    /\ Len(m.label) # 0
    /\ m.pos <= Len(m.label)
    /\ IF OutOfWindow(m)
       THEN /\ crashed' = crashed \cup {m.at}
            /\ UNCHANGED <<wire, up>>
       ELSE /\ PrevKnown(m)
            /\ IF LastHop(m)
               THEN SlotSend(m.at, 0, Stamp(m))
               ELSE SlotSend(m.at, NextLabel(m), [Stamp(m) EXCEPT !.pos = m.pos + 1])
            /\ UNCHANGED crashed
    /\ UNCHANGED <<slots, bypeer>>

\* A lower connection to another node comes up; a user sends a packet along a
\* route of their own; a packet arrives.
Connected(n, p, i) ==
    /\ n \notin crashed
    /\ p # n
    /\ Attach(n, p, i)
    /\ UNCHANGED <<wire, up, crashed, sends>>

Disconnected(n, p, i) ==
    /\ n \notin crashed
    /\ p # n
    /\ Detach(n, p, i)
    /\ UNCHANGED <<wire, up, crashed, sends>>

UserSend(n, r) ==
    /\ sends < MaxSends
    /\ sends' = sends + 1
    /\ SendPacket(n, r, <<>>)

Receive(m) ==
    /\ HandlePacket(m)
    /\ UNCHANGED sends

Next ==
    \/ \E n, p \in Nodes, i \in Slot : Connected(n, p, i)
    \/ \E n \in Nodes, r \in Routes : UserSend(n, r)
    \/ \E m \in wire : Receive(m)

Spec == Init /\ [][Next]_fvars

\* The package also offers Detach, which no part of the node calls.
DetachNext ==
    \/ Next
    \/ \E n, p \in Nodes, i \in Slot : Disconnected(n, p, i)

DetachSpec == Init /\ [][DetachNext]_fvars

----------------------------------------------------------------------------
\* Every variable of the switch keeps its type.
TypeOK ==
    /\ slots \in [Nodes -> [Slot -> Nodes \cup {NoPeer}]]
    /\ bypeer \in [Nodes -> [Nodes -> Slot \cup {NoSlot}]]
    /\ wire \subseteq Packet
    /\ up \subseteq Packet
    /\ crashed \subseteq Nodes
    /\ sends \in Nat

\* The name a node has for a peer is a slot of that peer, also after it has
\* been attached twice or detached: Attach and Detach keep the two maps of the
\* Forwarder consistent.
SlotTable ==
    \A n, p \in Nodes : bypeer[n][p] # NoSlot => slots[n][bypeer[n][p]] = p

\* The nodes of `path` are what the labels `ls` lead through, hop by hop.
Leads(path, ls) ==
    /\ Len(path) = Len(ls) + 1
    /\ \A i \in 1 .. Len(ls) : slots[path[i]][ls[i]] = path[i + 1]

\* The hops a packet has made.
Hops(m) == Len(m.path) - 1

\* The forwarder.go promise "At any hop this label also describes the reverse
\* route": the label bytes used so far, read backwards, lead from the hop that
\* sent the packet on back to its origin along the path it has come.
ReverseRoute ==
    \A m \in wire \cup up :
        Leads(Reverse(m.path), Reverse(SubSeq(m.label, 1, Hops(m))))

\* The other half of the label: the packet is where the route of its sender
\* leads, and the bytes that are not used up are those of the route.
ForwardRoute ==
    /\ \A m \in wire :
        /\ Leads(Append(m.path, m.at), SubSeq(m.route, 1, Hops(m) + 1))
        /\ \A i \in (Hops(m) + 1) .. Len(m.route) : m.label[i] = m.route[i]
    /\ \A m \in up : Leads(m.path, m.route)

\* A packet between two nodes has a label byte left for the node it is for, so
\* HandlePacket never meets pos = len, and a node consumes a packet only at the
\* end of its route.
PosInRange ==
    /\ \A m \in wire : m.pos = Hops(m) /\ m.pos < Len(m.label)
    /\ \A m \in up : m.pos = Len(m.label) - 1 /\ Hops(m) = Len(m.label)

\* No route that SendPacket accepts makes HandlePacket index past the header:
\* forwarder.go:171 takes len <= 14 and pos <= 13 for good.
NoPanic == crashed = {}
=============================================================================
