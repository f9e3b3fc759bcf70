------------------------------- MODULE Routed -------------------------------
(***************************************************************************)
(* The label switch together with the routing table of every node          *)
(* (node/routing/routing.go).  A node knows a route to a peer either       *)
(* because it is connected to it, and then the route is the peer's slot,   *)
(* or because a packet came in and the label it carried was turned round.  *)
(* Hellos are answered along the turned label, packets of the node's own   *)
(* are sent along the first route of the table.  Sessions are with other   *)
(* nodes, so a packet that comes back to its origin goes no further.       *)
(***************************************************************************)
EXTENDS Forwarder

VARIABLE table   \* table[n][p]: the routes n knows to p, oldest first

vars == <<slots, bypeer, wire, up, crashed, sends, table>>

(***************************************************************************)
(* An entry of the table is a route; `via` is history and names the nodes  *)
(* the route led through when it was learned.                              *)
(***************************************************************************)
Entry == [route : Seq(Slot), via : Seq(Nodes)]

RInit ==
    /\ Init
    /\ table = [n \in Nodes |-> [p \in Nodes |-> <<>>]]

\* AddRoute: a route that is known already is not added again.
AddRoute(n, p, r, via) ==
    table' = IF \E i \in 1 .. Len(table[n][p]) : table[n][p][i].route = r
             THEN table
             ELSE [table EXCEPT ![n][p] = Append(@, [route |-> r, via |-> via])]

----------------------------------------------------------------------------
\* connectedCallback for a lower connection that finds a free slot: the peer is
\* attached, and its slot becomes a route to it.
ConnectedCallback(n, p, i) ==
    /\ Connected(n, p, i)
    /\ AddRoute(n, p, <<i>>, <<n, p>>)

\* GetRoute: the oldest route of a peer that has one.
GetRoute(n, p) == table[n][p][1]

\* Send and doUpperSend, for a first route of several hops; the packet for a
\* direct neighbour does not go through the switch.
Send(n, p) ==
    /\ sends < MaxSends
    /\ sends' = sends + 1
    /\ table[n][p] # <<>>
    /\ Len(GetRoute(n, p).route) # 1
    /\ SendPacket(n, GetRoute(n, p).route, GetRoute(n, p).via)
    /\ UNCHANGED table

\* doUpperRecv that files the label as it came.
DoUpperRecvUnturned(m) ==
    /\ m.at \notin crashed
    /\ m.path[1] # m.at
    /\ AddRoute(m.at, m.path[1], m.label, Reverse(m.path))
    /\ UNCHANGED fvars

\* doUpperRecv: the packet has passed the upper session, which names its
\* origin, and the turned label becomes a route to that origin.
DoUpperRecv(m) ==
    /\ m.at \notin crashed
    /\ m.path[1] # m.at
    /\ AddRoute(m.at, m.path[1], Reverse(m.label), Reverse(m.path))
    /\ UNCHANGED fvars

\* A response that is sent along the label as it came.
DoUpperHelloRecvUnturned(m) ==
    /\ m.path[1] # m.at
    /\ sends < MaxSends
    /\ sends' = sends + 1
    /\ SendPacket(m.at, m.label, Reverse(m.path))
    /\ UNCHANGED table

\* doUpperHelloRecv: the response to a hello goes out along the turned label.
DoUpperHelloRecv(m) ==
    /\ m.path[1] # m.at
    /\ sends < MaxSends
    /\ sends' = sends + 1
    /\ SendPacket(m.at, Reverse(m.label), Reverse(m.path))
    /\ UNCHANGED table

RNext ==
    \/ \E n, p \in Nodes, i \in Slot : ConnectedCallback(n, p, i)
    \/ \E n \in Nodes, r \in Routes : UserSend(n, r) /\ UNCHANGED table
    \/ \E n, p \in Nodes : Send(n, p)
    \/ \E m \in wire : Receive(m) /\ UNCHANGED table
    \/ \E m \in up : DoUpperRecv(m)
    \/ \E m \in up : DoUpperHelloRecv(m)

RSpec == RInit /\ [][RNext]_vars

----------------------------------------------------------------------------
\* The types of the switch and of the table.
RTypeOK ==
    /\ TypeOK
    /\ table \in [Nodes -> [Nodes -> Seq(Entry)]]

\* Every route a node has learned for a peer leads to that peer: the slots it
\* names, node by node, are those of the path that AddRoute took it from.
RoutesLead ==
    \A n, p \in Nodes : \A k \in 1 .. Len(table[n][p]) :
        LET e == table[n][p][k]
        IN  /\ Leads(e.via, e.route)
            /\ e.via[1] = n
            /\ e.via[Len(e.via)] = p

\* A packet that Send or doUpperHelloRecv sends to a peer is consumed by that
\* peer, after exactly the hops its sender took the route to have, even if more
\* peers were attached while it was on its way.
ArrivesAsPlanned ==
    \A m \in up : m.plan # <<>> => m.path = m.plan
=============================================================================
