------------------------------ MODULE Peering ------------------------------
(***************************************************************************)
(* How two nodes become peers over a transport: Connect, WaitFor and       *)
(* connectedCallback (node/node.go), and the routines on their way         *)
(* (node/recv.go, node/send.go), each with the queue it reads.             *)
(*                                                                         *)
(* A Connect call c makes one session, with an end at either node; what    *)
(* the ends know is ini[c] and resp[c].  Session has the keys, the indexes *)
(* and the duplicated packets; here a session is only unfinished or        *)
(* finished, HandleResponse with its Swap is one step, and a packet comes  *)
(* at most once.  No queue gets as long as DefaultQueueSize: what a full   *)
(* queue does is in RingBuf.                                               *)
(***************************************************************************)
EXTENDS Naturals, Sequences, FiniteSets, Functions

CONSTANTS
    Nodes,
    NoNode,
    Conns,      \* calls of Connect: bounds how many are made
    Requests,   \* who may connect to whom in which call, <<call, from, to>>
    PeerSlots,  \* slots of a forwarder that are left for peers; 255 in the code
    MaxData,    \* bound: how many packets are sent
    MaxLost     \* bound: how many packets the network loses

ASSUME PeeringAssumption ==
    /\ NoNode \notin Nodes
    /\ PeerSlots \in Nat
    /\ MaxData \in Nat
    /\ MaxLost \in Nat

VARIABLES
    conn,       \* conn[c]: who connects to whom, and where the call is
    chan,       \* chan[c]: how many values the channel of the waiter holds
    waiters,    \* waiters[n]: the calls whose channels are in n's waiters
    ini,        \* ini[c]: stage of the initiator's session, 0 before it is made
    resp,       \* resp[c]: stage of the responder's session, 0 before it is made
    attached,   \* attached[n]: peer in each taken slot of the forwarder
    callback,   \* callback[n][r]: the connectedCallback routine r of n is in
    helloSendQ, lowerSendQ, lowerRecvQ, helloRecvQ, lowerMuxQ,
    net,        \* packets between the nodes, in no order
    sent,       \* how many packets were sent
    lost        \* how many packets the network has lost

queues == <<helloSendQ, lowerSendQ, lowerRecvQ, helloRecvQ, lowerMuxQ>>
calls == <<conn, chan, waiters>>
sessions == <<ini, resp>>
vars == <<calls, sessions, attached, callback, queues, net, sent, lost>>

----------------------------------------------------------------------------
\* Routines that run connectedCallback for a lower session.
Routines == {"helloRecv", "lowerRecv"}

NoCallback == [at |-> "none", peer |-> NoNode]

Msg ==
    [type : {"hello", "response"}, c : Conns, to : Nodes]
      \cup [type : {"data"}, c : Conns, to : Nodes, num : 1 .. MaxData]

Init ==
    /\ conn = [c \in Conns |-> [at |-> "idle", from |-> NoNode, to |-> NoNode]]
    /\ chan = [c \in Conns |-> 0]
    /\ waiters = [n \in Nodes |-> {}]
    /\ ini = [c \in Conns |-> 0]
    /\ resp = [c \in Conns |-> 0]
    /\ attached = [n \in Nodes |-> <<>>]
    /\ callback = [n \in Nodes |-> [r \in Routines |-> NoCallback]]
    /\ helloSendQ = [n \in Nodes |-> <<>>]
    /\ lowerSendQ = [n \in Nodes |-> <<>>]
    /\ lowerRecvQ = [n \in Nodes |-> <<>>]
    /\ helloRecvQ = [n \in Nodes |-> <<>>]
    /\ lowerMuxQ = [n \in Nodes |-> <<>>]
    /\ net = {}
    /\ sent = 0
    /\ lost = 0

Put(q, n, x) == [q EXCEPT ![n] = Append(@, x)]
Get(q, n) == [q EXCEPT ![n] = Tail(@)]

----------------------------------------------------------------------------
\* Connect: the hello is queued, WaitFor comes after that.
Connect(c, n, p) ==
    /\ conn[c].at = "idle"
    /\ <<c, n, p>> \in Requests
    /\ n # p
    /\ conn' = [conn EXCEPT ![c] = [at |-> "queued", from |-> n, to |-> p]]
    /\ helloSendQ' = Put(helloSendQ, n, c)
    /\ UNCHANGED <<chan, waiters, sessions, attached, callback, lowerSendQ, lowerRecvQ,
                   helloRecvQ, lowerMuxQ, net, sent, lost>>

\* WaitFor, up to the receive from the channel.
WaitFor(c) ==
    /\ conn[c].at = "queued"
    /\ conn' = [conn EXCEPT ![c].at = "waiting"]
    /\ waiters' = [waiters EXCEPT ![conn[c].from] = @ \cup {c}]
    /\ UNCHANGED <<chan, sessions, attached, callback, queues, net, sent, lost>>

\* The channel has a value: Connect returns it, and it is nil.
Return(c) ==
    /\ conn[c].at = "waiting"
    /\ chan[c] > 0
    /\ conn' = [conn EXCEPT ![c].at = "returned"]
    /\ chan' = [chan EXCEPT ![c] = @ - 1]
    /\ UNCHANGED <<waiters, sessions, attached, callback, queues, net, sent, lost>>

----------------------------------------------------------------------------
\* helloSendRoutine with doLowerHelloSend: the session is made and its hello
\* goes to the transport.
HelloSend(n) ==
    /\ helloSendQ[n] # <<>>
    /\ LET c == Head(helloSendQ[n])
       IN  /\ ini' = [ini EXCEPT ![c] = 1]
           /\ net' = net \cup {[type |-> "hello", c |-> c, to |-> conn[c].to]}
    /\ helloSendQ' = Get(helloSendQ, n)
    /\ UNCHANGED <<calls, resp, attached, callback, lowerSendQ, lowerRecvQ, helloRecvQ,
                   lowerMuxQ, sent, lost>>

\* RecvRoutine of the transport.
Recv(m) ==
    /\ net' = net \ {m}
    /\ lowerRecvQ' = Put(lowerRecvQ, m.to, m)
    /\ UNCHANGED <<calls, sessions, attached, callback, helloSendQ, lowerSendQ, helloRecvQ,
                   lowerMuxQ, sent, lost>>

\* The network loses a packet.
Lose(m) ==
    /\ lost < MaxLost
    /\ lost' = lost + 1
    /\ net' = net \ {m}
    /\ UNCHANGED <<calls, sessions, attached, callback, queues, sent>>

\* lowerRecvRoutine passes hellos and responses on.
LowerRecvHello(n) ==
    /\ lowerRecvQ[n] # <<>>
    /\ callback[n]["lowerRecv"] = NoCallback
    /\ Head(lowerRecvQ[n]).type # "data"
    /\ helloRecvQ' = Put(helloRecvQ, n, Head(lowerRecvQ[n]))
    /\ lowerRecvQ' = Get(lowerRecvQ, n)
    /\ UNCHANGED <<calls, sessions, attached, callback, helloSendQ, lowerSendQ, lowerMuxQ,
                   net, sent, lost>>

\* The responder's end reports its peer when the hello comes.
HelloRecvCallsBack(n) ==
    /\ helloRecvQ[n] # <<>>
    /\ callback[n]["helloRecv"] = NoCallback
    /\ LET m == Head(helloRecvQ[n])
       IN  /\ m.type = "hello"
           /\ resp' = [resp EXCEPT ![m.c] = 2]
           /\ net' = net \cup {[type |-> "response", c |-> m.c, to |-> conn[m.c].from]}
           /\ callback' = [callback EXCEPT ![n]["helloRecv"] =
                             [at |-> "attach", peer |-> conn[m.c].from]]
    /\ helloRecvQ' = Get(helloRecvQ, n)
    /\ UNCHANGED <<calls, ini, attached, helloSendQ, lowerSendQ, lowerRecvQ, lowerMuxQ,
                   sent, lost>>

\* doLowerHelloRecv of a hello: the responder's end is made.
HelloRecv(n) ==
    /\ helloRecvQ[n] # <<>>
    /\ callback[n]["helloRecv"] = NoCallback
    /\ LET m == Head(helloRecvQ[n])
       IN  /\ m.type = "hello"
           /\ resp' = [resp EXCEPT ![m.c] = 2]
           /\ net' = net \cup {[type |-> "response", c |-> m.c, to |-> conn[m.c].from]}
    /\ helloRecvQ' = Get(helloRecvQ, n)
    /\ UNCHANGED <<calls, ini, attached, callback, helloSendQ, lowerSendQ, lowerRecvQ,
                   lowerMuxQ, sent, lost>>

\* doLowerHelloRecv of a response, up to its connectedCallback.
ResponseRecv(n) ==
    /\ helloRecvQ[n] # <<>>
    /\ callback[n]["helloRecv"] = NoCallback
    /\ LET m == Head(helloRecvQ[n])
       IN  /\ m.type = "response"
           /\ ini' = [ini EXCEPT ![m.c] = 3]
           /\ callback' = [callback EXCEPT ![n]["helloRecv"] =
                             [at |-> "attach", peer |-> conn[m.c].to]]
    /\ helloRecvQ' = Get(helloRecvQ, n)
    /\ UNCHANGED <<calls, resp, attached, helloSendQ, lowerSendQ, lowerRecvQ, lowerMuxQ,
                   net, sent, lost>>

----------------------------------------------------------------------------
\* connectedCallback, first part: Attach, and AddRoute if there was a slot.
\* A full forwarder is an error that the shadowed err does not keep.
CallbackAttach(n, r) ==
    /\ callback[n][r].at = "attach"
    /\ attached' = IF Len(attached[n]) < PeerSlots
                   THEN Put(attached, n, callback[n][r].peer)
                   ELSE attached
    /\ callback' = [callback EXCEPT ![n][r].at = "wake"]
    /\ UNCHANGED <<calls, sessions, queues, net, sent, lost>>

Woken(n, p) == {c \in waiters[n] : conn[c].to = p}

\* What the routine does after its connectedCallback: doLowerRecv puts the
\* packet that brought the peer into lowerMuxQ.
AfterCallback(n, r, p) ==
    lowerMuxQ' = IF r = "lowerRecv" THEN Put(lowerMuxQ, n, p) ELSE lowerMuxQ

\* The waiters that were told stay registered.
CallbackWakeKeeps(n, r) ==
    LET p == callback[n][r].peer
    IN  /\ callback[n][r].at = "wake"
        /\ chan' = [c \in Conns |-> IF c \in Woken(n, p) THEN chan[c] + 1 ELSE chan[c]]
        /\ callback' = [callback EXCEPT ![n][r] = NoCallback]
        /\ AfterCallback(n, r, p)
        /\ UNCHANGED <<conn, waiters, sessions, attached, helloSendQ, lowerSendQ, lowerRecvQ,
                       helloRecvQ, net, sent, lost>>

\* Only one of the waiters is told.
CallbackWakeOne(n, r) ==
    LET p == callback[n][r].peer
    IN  /\ callback[n][r].at = "wake"
        /\ IF Woken(n, p) = {} THEN chan' = chan
           ELSE \E c \in Woken(n, p) : chan' = [chan EXCEPT ![c] = @ + 1]
        /\ waiters' = [waiters EXCEPT ![n] = @ \ Woken(n, p)]
        /\ callback' = [callback EXCEPT ![n][r] = NoCallback]
        /\ AfterCallback(n, r, p)
        /\ UNCHANGED <<conn, sessions, attached, helloSendQ, lowerSendQ, lowerRecvQ,
                       helloRecvQ, net, sent, lost>>

\* connectedCallback, second part, under waitersLock: every waiter for the
\* peer is told, and they are removed.
CallbackWake(n, r) ==
    LET p == callback[n][r].peer
    IN  /\ callback[n][r].at = "wake"
        /\ chan' = [c \in Conns |-> IF c \in Woken(n, p) THEN chan[c] + 1 ELSE chan[c]]
        /\ waiters' = [waiters EXCEPT ![n] = @ \ Woken(n, p)]
        /\ callback' = [callback EXCEPT ![n][r] = NoCallback]
        /\ AfterCallback(n, r, p)
        /\ UNCHANGED <<conn, sessions, attached, helloSendQ, lowerSendQ, lowerRecvQ,
                       helloRecvQ, net, sent, lost>>

----------------------------------------------------------------------------
\* The other end of session c, and the stage of n's own end.
Other(n, c) == IF conn[c].from = n THEN conn[c].to ELSE conn[c].from
Stage(n, c) == IF conn[c].from = n THEN ini[c] ELSE resp[c]

\* The sessions that n has with p, finished or not.
SessionsWith(n, p) ==
    {c \in Conns : n \in {conn[c].from, conn[c].to} /\ Other(n, c) = p /\ Stage(n, c) # 0}

\* The keys of n's end of c exist.
Keyed(n, c) == Stage(n, c) \in {2, 3}

\* Send and doUpperSend to a peer one hop away, for which GetRoute has a route.
Send(n, p) ==
    /\ sent < MaxData
    /\ p \in Range(attached[n])
    /\ lowerSendQ' = Put(lowerSendQ, n, [to |-> p, num |-> sent + 1])
    /\ sent' = sent + 1
    /\ UNCHANGED <<calls, sessions, attached, callback, helloSendQ, lowerRecvQ, helloRecvQ,
                   lowerMuxQ, net, lost>>

\* lowerSendRoutine with doLowerSend: Find returns some session c of the peer,
\* and CreateData fails if it is not finished.
LowerSend(n, c) ==
    /\ lowerSendQ[n] # <<>>
    /\ LET d == Head(lowerSendQ[n])
       IN  /\ c \in SessionsWith(n, d.to)
           /\ net' = IF Keyed(n, c)
                     THEN net \cup {[type |-> "data", c |-> c, to |-> d.to, num |-> d.num]}
                     ELSE net
    /\ lowerSendQ' = Get(lowerSendQ, n)
    /\ UNCHANGED <<calls, sessions, attached, callback, helloSendQ, lowerRecvQ, helloRecvQ,
                   lowerMuxQ, sent, lost>>

\* A packet of data that lowerRecvRoutine of n has in hand.
DataInHand(n) ==
    /\ lowerRecvQ[n] # <<>>
    /\ callback[n]["lowerRecv"] = NoCallback
    /\ Head(lowerRecvQ[n]).type = "data"

\* doLowerRecv: the session has no keys, or does not have its index yet.
DataUnknown(n) ==
    /\ DataInHand(n)
    /\ ~Keyed(n, Head(lowerRecvQ[n]).c)
    /\ lowerRecvQ' = Get(lowerRecvQ, n)
    /\ UNCHANGED <<calls, sessions, attached, callback, helloSendQ, lowerSendQ, helloRecvQ,
                   lowerMuxQ, net, sent, lost>>

\* The stage stays 2.
FirstDataAgain(n) ==
    LET c == Head(lowerRecvQ[n]).c
    IN  /\ DataInHand(n)
        /\ Stage(n, c) = 2
        /\ callback' = [callback EXCEPT ![n]["lowerRecv"] =
                          [at |-> "attach", peer |-> Other(n, c)]]
        /\ lowerRecvQ' = Get(lowerRecvQ, n)
        /\ UNCHANGED <<calls, sessions, attached, helloSendQ, lowerSendQ, helloRecvQ,
                       lowerMuxQ, net, sent, lost>>

\* The packet goes on without connectedCallback.
FirstDataSilent(n) ==
    LET c == Head(lowerRecvQ[n]).c
    IN  /\ DataInHand(n)
        /\ Stage(n, c) = 2
        /\ resp' = [resp EXCEPT ![c] = 3]
        /\ lowerMuxQ' = Put(lowerMuxQ, n, Other(n, c))
        /\ lowerRecvQ' = Get(lowerRecvQ, n)
        /\ UNCHANGED <<calls, ini, attached, callback, helloSendQ, lowerSendQ, helloRecvQ,
                       net, sent, lost>>

\* doLowerRecv of the first data the responder's end gets, up to its
\* connectedCallback.
FirstData(n) ==
    LET c == Head(lowerRecvQ[n]).c
    IN  /\ DataInHand(n)
        /\ Stage(n, c) = 2
        /\ resp' = [resp EXCEPT ![c] = 3]
        /\ callback' = [callback EXCEPT ![n]["lowerRecv"] =
                          [at |-> "attach", peer |-> Other(n, c)]]
        /\ lowerRecvQ' = Get(lowerRecvQ, n)
        /\ UNCHANGED <<calls, ini, attached, helloSendQ, lowerSendQ, helloRecvQ, lowerMuxQ,
                       net, sent, lost>>

\* doLowerRecv of data in a finished session.
Data(n) ==
    LET c == Head(lowerRecvQ[n]).c
    IN  /\ DataInHand(n)
        /\ Stage(n, c) = 3
        /\ lowerMuxQ' = Put(lowerMuxQ, n, Other(n, c))
        /\ lowerRecvQ' = Get(lowerRecvQ, n)
        /\ UNCHANGED <<calls, sessions, attached, callback, helloSendQ, lowerSendQ, helloRecvQ,
                       net, sent, lost>>

\* lowerMuxRoutine hands the packet to the forwarder or to a handler.
LowerMux(n) ==
    /\ lowerMuxQ[n] # <<>>
    /\ lowerMuxQ' = Get(lowerMuxQ, n)
    /\ UNCHANGED <<calls, sessions, attached, callback, helloSendQ, lowerSendQ, lowerRecvQ,
                   helloRecvQ, net, sent, lost>>

----------------------------------------------------------------------------
LowerRecv(n) == LowerRecvHello(n) \/ DataUnknown(n) \/ FirstData(n) \/ Data(n)
Callback(n, r) == CallbackAttach(n, r) \/ CallbackWake(n, r)

Next ==
    \/ \E c \in Conns, n, p \in Nodes : Connect(c, n, p)
    \/ \E c \in Conns : WaitFor(c) \/ Return(c)
    \/ \E n \in Nodes : HelloSend(n) \/ HelloRecv(n) \/ ResponseRecv(n)
    \/ \E m \in net : Recv(m) \/ Lose(m)
    \/ \E n \in Nodes, r \in Routines : Callback(n, r)
    \/ \E n, p \in Nodes : Send(n, p)
    \/ \E n \in Nodes, c \in Conns : LowerSend(n, c)
    \/ \E n \in Nodes : LowerRecv(n) \/ LowerMux(n)

Spec == Init /\ [][Next]_vars

(***************************************************************************)
(* Every routine goes on while its queue has something (what lowerMux      *)
(* does is not waited for), a caller of Connect goes on to WaitFor, and    *)
(* the network delivers what it does not lose.  Nobody has to call Connect *)
(* or Send.                                                                *)
(***************************************************************************)
Fairness ==
    /\ \A c \in Conns : WF_vars(WaitFor(c)) /\ WF_vars(Return(c))
    /\ WF_vars(\E m \in net : Recv(m))
    /\ \A n \in Nodes :
         /\ WF_vars(HelloSend(n)) /\ WF_vars(HelloRecv(n) \/ ResponseRecv(n))
         /\ WF_vars(LowerRecv(n)) /\ WF_vars(\E c \in Conns : LowerSend(n, c))
         /\ \A r \in Routines : WF_vars(Callback(n, r))

FairSpec == Spec /\ Fairness
----------------------------------------------------------------------------
\* Every variable keeps its type.
TypeOK ==
    /\ conn \in [Conns -> [at : {"idle", "queued", "waiting", "returned"},
                           from : Nodes \cup {NoNode}, to : Nodes \cup {NoNode}]]
    /\ chan \in [Conns -> 0 .. 1]
    /\ waiters \in [Nodes -> SUBSET Conns]
    /\ ini \in [Conns -> {0, 1, 3}]
    /\ resp \in [Conns -> {0, 2, 3}]
    /\ attached \in [Nodes -> Seq(Nodes)]
    /\ callback \in [Nodes -> [Routines -> [at : {"none", "attach", "wake"},
                                            peer : Nodes \cup {NoNode}]]]
    /\ helloSendQ \in [Nodes -> Seq(Conns)]
    /\ lowerSendQ \in [Nodes -> Seq([to : Nodes, num : 1 .. MaxData])]
    /\ lowerRecvQ \in [Nodes -> Seq(Msg)]
    /\ helloRecvQ \in [Nodes -> Seq(Msg)]
    /\ lowerMuxQ \in [Nodes -> Seq(Nodes)]
    /\ net \subseteq Msg
    /\ sent \in 0 .. MaxData
    /\ lost \in 0 .. MaxLost

\* connectedCallback holds waitersLock while it sends to the channels of the
\* waiters, each of capacity 1: no such send blocks, so the lock is released.
CallbackNeverBlocks ==
    \A n \in Nodes, r \in Routines :
        callback[n][r].at = "wake" => \A c \in Woken(n, callback[n][r].peer) : chan[c] = 0

\* When Connect returns nil the two nodes share a session that both of them
\* have keys for, be it the one this call made or another one.
ConnectedSound ==
    \A c \in Conns : conn[c].at = "returned" =>
        \E d \in SessionsWith(conn[c].from, conn[c].to) :
            Keyed(conn[d].from, d) /\ Keyed(conn[d].to, d)

\* A packet reaches the forwarder only when its previous hop has a slot, so
\* that HandlePacket does not drop it with ErrPrevHopUnknown; but for the time
\* in which helloRecv has finished a session with that peer and not attached
\* it yet, and for a forwarder that has no slot left.
PrevHopKnown ==
    \A n \in Nodes : \A p \in Range(lowerMuxQ[n]) :
        \/ p \in Range(attached[n])
        \/ callback[n]["helloRecv"] = [at |-> "attach", peer |-> p]
        \/ Len(attached[n]) = PeerSlots

\* Every session takes one slot of the forwarder at either node, once: as many
\* are taken as sessions are finished, but for the callbacks that are on their
\* way and the slots that were not free.
SlotPerSession ==
    \A n \in Nodes : Len(attached[n]) < PeerSlots =>
        Len(attached[n])
          + Cardinality({r \in Routines : callback[n][r].at = "attach"})
        = Cardinality({c \in Conns : n \in {conn[c].from, conn[c].to} /\ Stage(n, c) = 3})

\* A Connect whose waiter is registered while its hello is still queued returns,
\* unless the network loses a packet.
RegisteredReturns ==
    \A c \in Conns :
        (conn[c].at = "waiting" /\ ini[c] = 0) ~> (conn[c].at = "returned" \/ lost > 0)

\* The responder attaches the initiator once data of the initiator is on its
\* way, if a slot is free and no packet is lost: from then on either can reach
\* the other.
ResponderAttaches ==
    \A c \in Conns :
        (\E m \in net : m.type = "data" /\ m.c = c /\ m.to = conn[c].to)
          ~> \/ lost > 0
             \/ \E n \in Nodes : /\ n = conn[c].to
                                /\ \/ conn[c].from \in Range(attached[n])
                                   \/ Len(attached[n]) = PeerSlots

\* examples/echo_test.go:50 expects "nodeA.Connect(nodeB.PeerID(), addrB)" to
\* return: a Connect between nodes that run, on a network that loses nothing,
\* returns.
ConnectReturns ==
    \A c \in Conns : (conn[c].at = "queued") ~> (conn[c].at = "returned")

\* node.go:205 "connected to %s, but forwarder error": a Connect that returns
\* without error has a slot for the peer.
ConnectedMeansAttached ==
    \A c \in Conns : conn[c].at = "returned" => conn[c].to \in Range(attached[conn[c].from])
=============================================================================
