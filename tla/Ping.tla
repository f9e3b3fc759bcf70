------------------------------- MODULE Ping -------------------------------
(***************************************************************************)
(* Hop-limited packets of the fcnet tunnel (fcnet/fcnet.go, fcnet/ping.go) *)
(* on top of the switch and the routing tables.  A packet whose hop limit  *)
(* ends before its route does becomes a ping along the first hops of that  *)
(* route, and the node at their end answers with a pong.                   *)
(*                                                                         *)
(* Pings are handled by a lower handler of their own: on the way they go   *)
(* through HandlePacket like any other packet, but the node at the end     *)
(* takes its name for the previous hop from the routing table.  As `wire`, *)
(* `pings` is a set that packets never leave.                              *)
(***************************************************************************)
EXTENDS Routed

CONSTANTS
    Links,      \* who becomes a peer of whom, in the order in which they do
    HopLimits   \* hop limits of the packets that come out of the tunnel

\* The operating system sends no packet with a hop limit of 0.
ASSUME PingAssumption ==
    /\ Links \in Seq(Nodes \X Nodes)
    /\ HopLimits \subseteq Nat \ {0}

VARIABLES
    linked,     \* how many of the Links are there
    pings,      \* pings and pongs between two nodes
    pongs       \* pongs that a node has written to its tunnel

pvars == <<vars, linked, pings, pongs>>

(***************************************************************************)
(* A ping is a packet of the switch with a request id and a sender key;    *)
(* `orig` is the source address of the packet it carries.  History: the    *)
(* `plan`, and in a pong `direct`, which tells whether the first route of  *)
(* its sender to the node before was the peer's own slot.                  *)
(***************************************************************************)
PingPacket ==
    [at : Nodes, src : Nodes, pos : Nat, label : Seq(Slot \ {0}), route : Seq(Slot \ {0}),
     path : Seq(Nodes), plan : Seq(Nodes), reply : BOOLEAN, sender : Nodes, orig : Nodes,
     direct : BOOLEAN]

PInit ==
    /\ RInit
    /\ linked = 0
    /\ pings = {}
    /\ pongs = {}

----------------------------------------------------------------------------
\* SendRaw of a ping with route r: the first label byte picks the slot.
SendRaw(n, r, m) ==
    pings' = IF slots[n][r[1]] = NoPeer THEN pings
             ELSE pings \cup {[m EXCEPT !.at = slots[n][r[1]], !.src = n]}

\* A ping that node n makes and sends along route r.
NewPing(n, r, plan, reply, orig, direct) ==
    [at |-> n, src |-> n, pos |-> 0, label |-> r, route |-> r, path |-> <<n>>,
     plan |-> plan, reply |-> reply, sender |-> n, orig |-> orig, direct |-> direct]

\* The route is cut one hop too late.
CutLate(r, h) == SubSeq(r, 1, h + 1)

\* r[:hops]
Cut(r, h) == SubSeq(r, 1, h)

\* handleTunPacket: a packet for p with hop limit h.
HandleTunPacket(n, p, h) ==
    /\ table[n][p] # <<>>
    /\ IF h >= Len(GetRoute(n, p).route)
       THEN Send(n, p) /\ UNCHANGED pings
       ELSE /\ n \notin crashed
            /\ sends < MaxSends
            /\ sends' = sends + 1
            /\ LET e == GetRoute(n, p)
                   r == Cut(e.route, h)
               IN  SendRaw(n, r, NewPing(n, r, SubSeq(e.via, 1, h + 1), FALSE, n, TRUE))
            /\ UNCHANGED <<slots, bypeer, wire, up, crashed, table>>
    /\ UNCHANGED <<linked, pongs>>

IsDestination(m) == m.pos + 1 >= Len(m.label)

\* handlePingPacket on the way: HandlePacket, of a label that has bytes left.
ForwardPing(m) ==
    /\ m.at \notin crashed
    /\ ~IsDestination(m)
    /\ PrevKnown(m)
    /\ slots[m.at][NextLabel(m)] # NoPeer
    /\ pings' = pings \cup {[Stamp(m) EXCEPT !.pos = m.pos + 1, !.src = m.at,
                                             !.at = slots[m.at][NextLabel(m)]]}
    /\ UNCHANGED <<vars, linked, pongs>>

\* The label as it was used, not turned round.
TurnedNot(m, prev) == [SubSeq(m.label, 1, m.pos + 1) EXCEPT ![m.pos + 1] = prev]

\* The label with `prev` for the hop before, turned round.
Turned(m, prev) == Reverse([SubSeq(m.label, 1, m.pos + 1) EXCEPT ![m.pos + 1] = prev])

\* handlePingPacket at the end of the label: a ping is answered along the
\* turned label, in which the byte for the hop before is that of GetRoute.
AnswerPing(m) ==
    /\ m.at \notin crashed
    /\ IsDestination(m)
    /\ ~m.reply
    /\ table[m.at][m.src] # <<>>
    /\ LET prev == GetRoute(m.at, m.src).route
           r == Turned(m, prev[1])
       IN  SendRaw(m.at, r, NewPing(m.at, r, Reverse(Append(m.path, m.at)), TRUE, m.orig,
                                    Len(prev) = 1))
    /\ UNCHANGED <<vars, linked, pongs>>

\* A pong is written to the tunnel without a look at whom it is for.
TakeAnyPong(m) ==
    /\ m.at \notin crashed
    /\ IsDestination(m)
    /\ m.reply
    /\ table[m.at][m.src] # <<>>
    /\ pongs' = pongs \cup {[m EXCEPT !.path = Append(@, m.at)]}
    /\ UNCHANGED <<vars, linked, pings>>

\* handlePingPacket of a pong: it must carry a packet of this node, and goes
\* on to handleFcnetPacket and the tunnel.
TakePong(m) ==
    /\ m.at \notin crashed
    /\ IsDestination(m)
    /\ m.reply
    /\ table[m.at][m.src] # <<>>
    /\ m.orig = m.at
    /\ pongs' = pongs \cup {[m EXCEPT !.path = Append(@, m.at)]}
    /\ UNCHANGED <<vars, linked, pings>>

HandlePingPacket(m) == ForwardPing(m) \/ AnswerPing(m) \/ TakePong(m)

\* The next of the Links comes up.
Link(i) ==
    /\ linked < Len(Links)
    /\ linked' = linked + 1
    /\ ConnectedCallback(Links[linked + 1][1], Links[linked + 1][2], i)
    /\ UNCHANGED <<pings, pongs>>

\* What happens in Routed apart from that.
Traffic ==
    /\ \/ \E n \in Nodes, r \in Routes : UserSend(n, r) /\ UNCHANGED table
       \/ \E m \in wire : Receive(m) /\ UNCHANGED table
       \/ \E m \in up : DoUpperRecv(m)
    /\ UNCHANGED <<linked, pings, pongs>>

PNext ==
    \/ \E i \in Slot : Link(i)
    \/ Traffic
    \/ \E n, p \in Nodes, h \in HopLimits : HandleTunPacket(n, p, h)
    \/ \E m \in pings : HandlePingPacket(m)

PSpec == PInit /\ [][PNext]_pvars
----------------------------------------------------------------------------
\* The types of the switch, the table and the pings; no ping names slot 0, so
\* that SendRaw never hands one to the upper layer of its own node.
PTypeOK ==
    /\ RTypeOK
    /\ linked \in 0 .. Len(Links)
    /\ pings \subseteq PingPacket
    /\ pongs \subseteq PingPacket

\* The visited nodes and the node a packet is for are the beginning of the plan.
OnPlan(m) ==
    /\ Len(m.path) < Len(m.plan)
    /\ Append(m.path, m.at) = SubSeq(m.plan, 1, Len(m.path) + 1)

\* What traceroute relies on: a ping of hop limit h keeps to the first h hops of
\* the route, and the node that answers it is the one at their end.
HopAnswers ==
    \A m \in pings :
        IF m.reply THEN m.sender = m.plan[1]
                   ELSE OnPlan(m) /\ (IsDestination(m) <=> Len(m.path) + 1 = Len(m.plan))

\* A pong of a node whose first route to the hop before is a direct one goes
\* back the way its ping came, hop by hop, to the node that sent the ping.
DirectPongReturns ==
    \A m \in pings : m.reply /\ m.direct =>
        OnPlan(m) /\ m.plan[Len(m.plan)] = m.orig

\* A node writes to its tunnel only pongs for packets of its own, also when
\* pongs go astray, and a pong that did not go astray has come all the way.
PongsAreOurs ==
    \A m \in pongs : m.orig = m.at /\ (m.direct => m.path = m.plan)

\* forwarder.go:5 "At any hop this label also describes the reverse route, so
\* that reply or error packets can be sent without any further lookups": the
\* reply to a ping goes back the way the ping came.
PongReturns == \A m \in pings : m.reply => OnPlan(m)
=============================================================================
