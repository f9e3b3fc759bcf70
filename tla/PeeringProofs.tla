--------------------------- MODULE PeeringProofs ---------------------------
(***************************************************************************)
(* Proofs about Peering, for any nodes, any number of calls, packets and   *)
(* losses and any number of slots: what the steps keep of the types, of a  *)
(* session and of its packets, that no callback blocks, and what the two   *)
(* ends of a Connect may rely on, which is the session that both have keys *)
(* for and the slot of the previous hop.                                   *)
(***************************************************************************)
EXTENDS Peering, TLAPS

\* The provers that a leaf is tried with, in turn, unless it names its own.
USE SMT, Zenon, SMTT(30), ZenonT(60), Z3T(30)

(***************************************************************************)
(* connectedCallback never blocks.  A waiter that is registered waits with *)
(* an empty channel, and it is registered at the node that called Connect. *)
(***************************************************************************)
CallTypes ==
    /\ conn \in [Conns -> [at : {"idle", "queued", "waiting", "returned"},
                           from : Nodes \cup {NoNode}, to : Nodes \cup {NoNode}]]
    /\ chan \in [Conns -> Nat]
    /\ waiters \in [Nodes -> SUBSET Conns]

WaitInv ==
    /\ CallTypes
    /\ \A c \in Conns : conn[c].at = "idle" => conn[c].from = NoNode
    /\ \A c \in Conns : conn[c].at # "idle" => conn[c].from \in Nodes /\ conn[c].to \in Nodes
    /\ \A c \in Conns : conn[c].at \in {"idle", "queued"} => chan[c] = 0
    /\ \A n \in Nodes : \A c \in waiters[n] :
          chan[c] = 0 /\ conn[c].at = "waiting" /\ conn[c].from = n

\* The steps that touch a call, its channel or the waiters.
LEMMA CallSteps ==
    ASSUME [Next]_vars
    PROVE  \/ \E c \in Conns, n, p \in Nodes : Connect(c, n, p)
           \/ \E c \in Conns : WaitFor(c) \/ Return(c)
           \/ \E n \in Nodes, r \in Routines : CallbackWake(n, r)
           \/ UNCHANGED calls
BY ZenonT(60) DEF Next, vars, calls, HelloSend, HelloRecv, ResponseRecv, Recv, Lose, Callback,
       CallbackAttach, Send, LowerSend, LowerRecv, LowerRecvHello, DataUnknown, FirstData, Data,
       LowerMux

LEMMA InitWait == Init => WaitInv
BY DEF Init, WaitInv, CallTypes

LEMMA StepKeepsWait == WaitInv /\ [Next]_vars => WaitInv'
<1> SUFFICES ASSUME WaitInv, [Next]_vars PROVE WaitInv'
  OBVIOUS
<1> USE DEF WaitInv, CallTypes
<1>1. ASSUME NEW c \in Conns, NEW n \in Nodes, NEW p \in Nodes, Connect(c, n, p) PROVE WaitInv'
  BY <1>1 DEF Connect
<1>2. ASSUME NEW c \in Conns, WaitFor(c) PROVE WaitInv'
  BY <1>2 DEF WaitFor
<1>3. ASSUME NEW c \in Conns, Return(c) PROVE WaitInv'
  <2>1. /\ conn' = [conn EXCEPT ![c].at = "returned"] /\ chan' = [chan EXCEPT ![c] = @ - 1]
        /\ waiters' = waiters /\ conn[c].at = "waiting" /\ chan[c] > 0
    BY <1>3 DEF Return
  <2>a. chan[c] - 1 \in Nat
    BY <2>1
  <2>b. chan' \in [Conns -> Nat]
    BY <2>1, <2>a, ZenonT(60)
  <2>2. CallTypes'
    BY <2>1, <2>b
  <2>3. \A d \in Conns : d # c => conn'[d] = conn[d] /\ chan'[d] = chan[d]
    BY <2>1
  <2>4. conn'[c].at = "returned" /\ conn'[c].from = conn[c].from /\ conn'[c].to = conn[c].to
    BY <2>1
  <2>5. \A n \in Nodes : c \notin waiters[n]
    BY <2>1
  <2> QED BY <2>1, <2>2, <2>3, <2>4, <2>5
<1>4. ASSUME NEW n \in Nodes, NEW r \in Routines, CallbackWake(n, r) PROVE WaitInv'
  BY <1>4 DEF CallbackWake, Woken
<1>5. ASSUME UNCHANGED calls PROVE WaitInv'
  BY <1>5 DEF calls
<1> QED
  BY <1>1, <1>2, <1>3, <1>4, <1>5, CallSteps

\* connectedCallback holds waitersLock while it sends to channels of capacity
\* 1: with any number of calls of Connect, none of these sends blocks.
THEOREM CallbacksNeverBlock == Spec => []CallbackNeverBlocks
<1>1. WaitInv => CallbackNeverBlocks
  BY DEF WaitInv, CallbackNeverBlocks, Woken
<1> QED
  BY <1>1, InitWait, StepKeepsWait, PTL DEF Spec

----------------------------------------------------------------------------
(***************************************************************************)
(* What a packet, a callback and a slot say of the session they come from. *)
(***************************************************************************)
LEMMA QueueFacts ==
    ASSUME NEW S, NEW q \in Seq(S)
    PROVE  /\ \A x \in S : Append(q, x) \in Seq(S) /\ Range(Append(q, x)) = Range(q) \cup {x}
           /\ Range(q) \subseteq S
           /\ q # <<>> => /\ Head(q) \in Range(q)
                          /\ Tail(q) \in Seq(S)
                          /\ Range(Tail(q)) \subseteq Range(q)
<1>1. DOMAIN q = 1..Len(q) /\ Range(q) \subseteq S
  BY DEF Range
<1>2. ASSUME NEW x \in S
      PROVE  Append(q, x) \in Seq(S) /\ Range(Append(q, x)) = Range(q) \cup {x}
  <2> DEFINE a == Append(q, x)
  <2>1. a \in Seq(S) /\ Len(a) = Len(q) + 1 /\ DOMAIN a = 1..(Len(q) + 1)
    OBVIOUS
  <2>2. a[Len(q) + 1] = x /\ \A i \in 1..Len(q) : a[i] = q[i]
    OBVIOUS
  <2>3. Len(q) \in Nat
    OBVIOUS
  <2> HIDE DEF a
  <2>4. Range(a) \subseteq Range(q) \cup {x}
    BY <1>1, <2>1, <2>2, <2>3 DEF Range
  <2>5. x \in Range(a)
    BY <2>1, <2>2, <2>3 DEF Range
  <2>6. Range(q) \subseteq Range(a)
    BY <1>1, <2>1, <2>2, <2>3 DEF Range
  <2> QED BY <2>1, <2>4, <2>5, <2>6 DEF a
<1>3. ASSUME q # <<>>
      PROVE  Head(q) \in Range(q) /\ Tail(q) \in Seq(S) /\ Range(Tail(q)) \subseteq Range(q)
  <2> USE <1>3
  <2>1. Len(q) \in Nat \ {0} /\ Head(q) = q[1] /\ Tail(q) \in Seq(S)
    OBVIOUS
  <2>2. DOMAIN Tail(q) = 1..(Len(q) - 1) /\ \A i \in 1..(Len(q) - 1) : Tail(q)[i] = q[i + 1]
    OBVIOUS
  <2>3. Head(q) \in Range(q)
    BY <1>1, <2>1 DEF Range
  <2>4. \A i \in 1..(Len(q) - 1) : i + 1 \in 1..Len(q)
    BY <2>1
  <2>5. Range(Tail(q)) \subseteq Range(q)
    BY <1>1, <2>2, <2>4 DEF Range
  <2> QED BY <2>1, <2>3, <2>5
<1> QED BY <1>1, <1>2, <1>3

LEMMA MsgFields ==
    /\ \A m \in Msg : m.c \in Conns /\ m.to \in Nodes /\ m.type \in {"hello", "response", "data"}
    /\ \A c \in Conns, n \in Nodes :
          /\ [type |-> "hello", c |-> c, to |-> n] \in Msg
          /\ [type |-> "response", c |-> c, to |-> n] \in Msg
          /\ \A k \in 1..MaxData : [type |-> "data", c |-> c, to |-> n, num |-> k] \in Msg
BY DEF Msg

LEMMA InitTypes == Init => TypeOK
<1> SUFFICES ASSUME Init PROVE TypeOK
  OBVIOUS
<1>1. callback \in [Nodes -> [Routines -> [at : {"none", "attach", "wake"},
                                            peer : Nodes \cup {NoNode}]]]
  BY DEF Init, NoCallback
<1> QED BY <1>1, PeeringAssumption DEF Init, TypeOK

\* An action that appends to a queue, or takes the head of one, keeps its type.
LEMMA QueueTypes ==
    ASSUME NEW S, NEW q \in [Nodes -> Seq(S)], NEW n \in Nodes
    PROVE  /\ \A x \in S : Put(q, n, x) \in [Nodes -> Seq(S)]
           /\ q[n] # <<>> => Get(q, n) \in [Nodes -> Seq(S)] /\ Head(q[n]) \in S
<1>1. q[n] \in Seq(S)
  OBVIOUS
<1>2. ASSUME NEW x \in S PROVE Put(q, n, x) \in [Nodes -> Seq(S)]
  BY <1>1 DEF Put
<1>3. ASSUME q[n] # <<>> PROVE Get(q, n) \in [Nodes -> Seq(S)] /\ Head(q[n]) \in S
  BY <1>1, <1>3 DEF Get
<1> QED BY <1>2, <1>3

\* The same for the queues of the model.
LEMMA QueuesTyped ==
    ASSUME TypeOK, NEW n \in Nodes
    PROVE  /\ \A c \in Conns : Put(helloSendQ, n, c) \in [Nodes -> Seq(Conns)]
           /\ \A d \in [to : Nodes, num : 1..MaxData] :
                 Put(lowerSendQ, n, d) \in [Nodes -> Seq([to : Nodes, num : 1..MaxData])]
           /\ \A m \in Msg : /\ Put(lowerRecvQ, n, m) \in [Nodes -> Seq(Msg)]
                             /\ Put(helloRecvQ, n, m) \in [Nodes -> Seq(Msg)]
           /\ \A p \in Nodes : /\ Put(lowerMuxQ, n, p) \in [Nodes -> Seq(Nodes)]
                               /\ Put(attached, n, p) \in [Nodes -> Seq(Nodes)]
           /\ helloSendQ[n] # <<>> =>
                 Get(helloSendQ, n) \in [Nodes -> Seq(Conns)] /\ Head(helloSendQ[n]) \in Conns
           /\ lowerSendQ[n] # <<>> =>
                 /\ Get(lowerSendQ, n) \in [Nodes -> Seq([to : Nodes, num : 1..MaxData])]
                 /\ Head(lowerSendQ[n]) \in [to : Nodes, num : 1..MaxData]
           /\ lowerRecvQ[n] # <<>> =>
                 Get(lowerRecvQ, n) \in [Nodes -> Seq(Msg)] /\ Head(lowerRecvQ[n]) \in Msg
           /\ helloRecvQ[n] # <<>> =>
                 Get(helloRecvQ, n) \in [Nodes -> Seq(Msg)] /\ Head(helloRecvQ[n]) \in Msg
           /\ lowerMuxQ[n] # <<>> => Get(lowerMuxQ, n) \in [Nodes -> Seq(Nodes)]
BY QueueTypes, ZenonT(60) DEF TypeOK

\* What a call, a session and the queue of hellos say of each other: the hello
\* of a session is queued once, at the node that connects, before ini[c] is 1.
Sessions ==
    /\ \A c \in Conns : conn[c].at = "idle" => ini[c] = 0 /\ resp[c] = 0
    /\ \A c \in Conns : conn[c].at # "idle" => conn[c].from # conn[c].to
    /\ \A c \in Conns : resp[c] # 0 => ini[c] # 0
    /\ \A n \in Nodes : \A i \in 1..Len(helloSendQ[n]) :
          /\ conn[helloSendQ[n][i]].at # "idle"
          /\ conn[helloSendQ[n][i]].from = n
          /\ ini[helloSendQ[n][i]] = 0
    /\ \A n \in Nodes : \A i, j \in 1..Len(helloSendQ[n]) :
          helloSendQ[n][i] = helloSendQ[n][j] => i = j

\* A packet of session m.c: where it goes, and what its sender must have.
MsgOK(m) ==
    /\ conn[m.c].at # "idle"
    /\ ini[m.c] # 0
    /\ m.type = "hello" => m.to = conn[m.c].to
    /\ m.type = "response" => m.to = conn[m.c].from /\ resp[m.c] \in {2, 3}
    /\ m.type = "data" => \/ m.to = conn[m.c].to /\ ini[m.c] = 3
                          \/ m.to = conn[m.c].from /\ resp[m.c] \in {2, 3}

Packets ==
    /\ \A m \in net : MsgOK(m)
    /\ \A n \in Nodes : \A m \in Range(lowerRecvQ[n]) : MsgOK(m) /\ m.to = n
    /\ \A n \in Nodes : \A m \in Range(helloRecvQ[n]) : MsgOK(m) /\ m.to = n

\* A connectedCallback is about a node.
Callbacks ==
    \A n \in Nodes, r \in Routines :
        callback[n][r].at # "none" => callback[n][r].peer \in Nodes

Base == TypeOK /\ WaitInv /\ Sessions /\ Packets /\ Callbacks

\* What Base says of the head of a queue.
LEMMA Heads ==
    ASSUME Base, NEW n \in Nodes
    PROVE  /\ \A c \in Conns : conn[c].at # "idle" => conn[c].from \in Nodes /\ conn[c].to \in Nodes
           /\ helloSendQ[n] # <<>> =>
                LET c == Head(helloSendQ[n])
                IN  c \in Conns /\ conn[c].at # "idle" /\ conn[c].from = n /\ ini[c] = 0
           /\ lowerRecvQ[n] # <<>> =>
                LET m == Head(lowerRecvQ[n]) IN m \in Msg /\ MsgOK(m) /\ m.to = n
           /\ helloRecvQ[n] # <<>> =>
                LET m == Head(helloRecvQ[n]) IN m \in Msg /\ MsgOK(m) /\ m.to = n
<1>1. \A c \in Conns : conn[c].at # "idle" => conn[c].from \in Nodes /\ conn[c].to \in Nodes
  BY DEF Base, WaitInv
<1>2. ASSUME helloSendQ[n] # <<>>
      PROVE  LET c == Head(helloSendQ[n])
             IN  c \in Conns /\ conn[c].at # "idle" /\ conn[c].from = n /\ ini[c] = 0
  <2> USE <1>2
  <2>1. helloSendQ[n] \in Seq(Conns)
    BY DEF Base, TypeOK
  <2>2. 1 \in 1..Len(helloSendQ[n]) /\ Head(helloSendQ[n]) = helloSendQ[n][1]
    BY <2>1
  <2> QED BY <2>1, <2>2, QueuesTyped DEF Base, Sessions
<1>3. ASSUME lowerRecvQ[n] # <<>>
      PROVE  LET m == Head(lowerRecvQ[n]) IN m \in Msg /\ MsgOK(m) /\ m.to = n
  <2>1. lowerRecvQ[n] \in Seq(Msg)
    BY DEF Base, TypeOK
  <2>2. Head(lowerRecvQ[n]) \in Range(lowerRecvQ[n]) /\ Head(lowerRecvQ[n]) \in Msg
    BY <1>3, <2>1, QueueFacts, QueuesTyped DEF Base
  <2> QED BY <2>2 DEF Base, Packets
<1>4. ASSUME helloRecvQ[n] # <<>>
      PROVE  LET m == Head(helloRecvQ[n]) IN m \in Msg /\ MsgOK(m) /\ m.to = n
  <2>1. helloRecvQ[n] \in Seq(Msg)
    BY DEF Base, TypeOK
  <2>2. Head(helloRecvQ[n]) \in Range(helloRecvQ[n]) /\ Head(helloRecvQ[n]) \in Msg
    BY <1>4, <2>1, QueueFacts, QueuesTyped DEF Base
  <2> QED BY <2>2 DEF Base, Packets
<1> QED BY <1>1, <1>2, <1>3, <1>4

LEMMA StepKeepsTypes == Base /\ [Next]_vars => TypeOK'
<1> SUFFICES ASSUME Base, [Next]_vars PROVE TypeOK'
  OBVIOUS
<1>0. TypeOK /\ WaitInv
  BY DEF Base
<1>a. conn \in [Conns -> [at : {"idle", "queued", "waiting", "returned"},
                          from : Nodes \cup {NoNode}, to : Nodes \cup {NoNode}]]
  BY <1>0 DEF TypeOK
<1>b. chan \in [Conns -> 0..1]
  BY <1>0 DEF TypeOK
<1>c. waiters \in [Nodes -> SUBSET Conns]
  BY <1>0 DEF TypeOK
<1>d. ini \in [Conns -> {0, 1, 3}] /\ resp \in [Conns -> {0, 2, 3}]
  BY <1>0 DEF TypeOK
<1>e. attached \in [Nodes -> Seq(Nodes)]
  BY <1>0 DEF TypeOK
<1>f. callback \in [Nodes -> [Routines -> [at : {"none", "attach", "wake"},
                                           peer : Nodes \cup {NoNode}]]]
  BY <1>0 DEF TypeOK
<1>g. net \subseteq Msg
  BY <1>0 DEF TypeOK
<1>h. sent \in 0..MaxData /\ lost \in 0..MaxLost
  BY <1>0 DEF TypeOK
<1> USE DEF calls, sessions, queues
<1>1. ASSUME NEW c \in Conns, NEW n \in Nodes, NEW p \in Nodes, Connect(c, n, p) PROVE TypeOK'
  <2> USE <1>1
  <2>1. conn' \in [Conns -> [at : {"idle", "queued", "waiting", "returned"},
                               from : Nodes \cup {NoNode}, to : Nodes \cup {NoNode}]]
    BY <1>a DEF Connect
  <2>2. helloSendQ' \in [Nodes -> Seq(Conns)]
    BY <1>0, QueuesTyped, ZenonT(60) DEF Connect
  <2> QED BY <1>0, <2>1, <2>2, ZenonT(60) DEF Connect, TypeOK
<1>2. ASSUME NEW c \in Conns, WaitFor(c) PROVE TypeOK'
  <2> USE <1>2
  <2>1. conn' \in [Conns -> [at : {"idle", "queued", "waiting", "returned"},
                               from : Nodes \cup {NoNode}, to : Nodes \cup {NoNode}]]
    BY <1>a DEF WaitFor
  <2>2. waiters' \in [Nodes -> SUBSET Conns]
    BY <1>c, ZenonT(60) DEF WaitFor
  <2> QED BY <1>0, <2>1, <2>2, ZenonT(60) DEF WaitFor, TypeOK
<1>3. ASSUME NEW c \in Conns, Return(c) PROVE TypeOK'
  <2> USE <1>3
  <2>1. conn' \in [Conns -> [at : {"idle", "queued", "waiting", "returned"},
                               from : Nodes \cup {NoNode}, to : Nodes \cup {NoNode}]]
    BY <1>a DEF Return
  <2>2. chan' \in [Conns -> 0..1]
    BY <1>b DEF Return
  <2> QED BY <1>0, <2>1, <2>2, ZenonT(60) DEF Return, TypeOK
<1>4. ASSUME NEW n \in Nodes, HelloSend(n) PROVE TypeOK'
  <2> USE <1>4
  <2>1. helloSendQ' \in [Nodes -> Seq(Conns)]
    BY <1>0, QueuesTyped DEF HelloSend
  <2>2. ini' \in [Conns -> {0, 1, 3}]
    BY Heads, <1>d DEF HelloSend
  <2>3. [type |-> "hello", c |-> Head(helloSendQ[n]), to |-> conn[Head(helloSendQ[n])].to] \in Msg
    BY Heads, MsgFields, ZenonT(60) DEF HelloSend
  <2>4. net' \subseteq Msg
    BY <2>3, <1>g DEF HelloSend
  <2> QED BY <1>0, <2>1, <2>2, <2>3, <2>4, ZenonT(60) DEF HelloSend, TypeOK
<1>5. ASSUME NEW n \in Nodes, HelloRecv(n) PROVE TypeOK'
  <2> USE <1>5
  <2>1. helloRecvQ' \in [Nodes -> Seq(Msg)]
    BY <1>0, QueuesTyped, ZenonT(60) DEF HelloRecv
  <2>2. resp' \in [Conns -> {0, 2, 3}]
    BY Heads, MsgFields, <1>d DEF HelloRecv
  <2>3. [type |-> "response", c |-> Head(helloRecvQ[n]).c,
          to |-> conn[Head(helloRecvQ[n]).c].from] \in Msg
    BY Heads, MsgFields, ZenonT(60) DEF HelloRecv, MsgOK
  <2>4. net' \subseteq Msg
    BY <2>3, <1>g DEF HelloRecv
  <2> QED BY <1>0, <2>1, <2>2, <2>3, <2>4, ZenonT(60) DEF HelloRecv, TypeOK
<1>6. ASSUME NEW n \in Nodes, ResponseRecv(n) PROVE TypeOK'
  <2> USE <1>6
  <2>1. helloRecvQ' \in [Nodes -> Seq(Msg)]
    BY <1>0, QueuesTyped, ZenonT(60) DEF ResponseRecv
  <2>2. ini' \in [Conns -> {0, 1, 3}]
    BY Heads, MsgFields, <1>d DEF ResponseRecv
  <2>3. callback' \in [Nodes -> [Routines -> [at : {"none", "attach", "wake"},
                                                peer : Nodes \cup {NoNode}]]]
    BY Heads, MsgFields, <1>f, ZenonT(60) DEF ResponseRecv, Routines, MsgOK
  <2> QED BY <1>0, <2>1, <2>2, <2>3, ZenonT(60) DEF ResponseRecv, TypeOK
<1>7. ASSUME NEW m \in net, Recv(m) PROVE TypeOK'
  <2> USE <1>7
  <2>1. lowerRecvQ' \in [Nodes -> Seq(Msg)]
    BY <1>0, QueuesTyped, MsgFields, <1>g, ZenonT(60) DEF Recv
  <2>2. net' \subseteq Msg
    BY <1>g DEF Recv
  <2> QED BY <1>0, <2>1, <2>2, ZenonT(60) DEF Recv, TypeOK
<1>8. ASSUME NEW m \in net, Lose(m) PROVE TypeOK'
  <2> USE <1>8
  <2>1. lost' \in 0..MaxLost
    BY PeeringAssumption, <1>h DEF Lose
  <2>2. net' \subseteq Msg
    BY <1>g DEF Lose
  <2> QED BY <1>0, <2>1, <2>2, ZenonT(60) DEF Lose, TypeOK
<1>9. ASSUME NEW n \in Nodes, NEW r \in Routines, CallbackAttach(n, r) PROVE TypeOK'
  <2> USE <1>9
  <2>1. callback' \in [Nodes -> [Routines -> [at : {"none", "attach", "wake"},
                                                peer : Nodes \cup {NoNode}]]]
    BY <1>f DEF CallbackAttach
  <2>2. callback[n][r].peer \in Nodes
    BY DEF CallbackAttach, Base, Callbacks
  <2>3. attached' \in [Nodes -> Seq(Nodes)]
    BY <1>0, <2>2, QueuesTyped, <1>e, ZenonT(60) DEF CallbackAttach
  <2> QED BY <1>0, <2>1, <2>2, <2>3, ZenonT(60) DEF CallbackAttach, TypeOK
<1>10. ASSUME NEW n \in Nodes, NEW r \in Routines, CallbackWake(n, r) PROVE TypeOK'
  <2> USE <1>10
  <2>1. callback' \in [Nodes -> [Routines -> [at : {"none", "attach", "wake"},
                                                peer : Nodes \cup {NoNode}]]]
    BY <1>f DEF CallbackWake, NoCallback
  <2>2. chan' \in [Conns -> 0..1]
    BY <1>0, <1>b DEF CallbackWake, Woken, WaitInv
  <2>3. waiters' \in [Nodes -> SUBSET Conns]
    BY <1>c DEF CallbackWake
  <2>4. callback[n][r].peer \in Nodes
    BY DEF CallbackWake, Base, Callbacks
  <2>5. lowerMuxQ \in [Nodes -> Seq(Nodes)]
    BY <1>0 DEF TypeOK
  <2>6. lowerMuxQ' \in [Nodes -> Seq(Nodes)]
    BY <1>0, <2>4, <2>5, QueuesTyped, ZenonT(60) DEF CallbackWake, AfterCallback
  <2> QED BY <1>0, <2>1, <2>2, <2>3, <2>4, <2>5, <2>6, ZenonT(60) DEF CallbackWake, TypeOK
<1>11. ASSUME NEW n \in Nodes, NEW p \in Nodes, Send(n, p) PROVE TypeOK'
  <2> USE <1>11
  <2>1. sent' \in 0..MaxData /\ sent' \in 1..MaxData
    BY PeeringAssumption, <1>h DEF Send
  <2>2. [to |-> p, num |-> sent + 1] \in [to : Nodes, num : 1..MaxData]
    BY <2>1 DEF Send
  <2>3. lowerSendQ' \in [Nodes -> Seq([to : Nodes, num : 1..MaxData])]
    BY <1>0, <2>2, QueuesTyped, ZenonT(60) DEF Send
  <2> QED BY <1>0, <2>1, <2>2, <2>3, ZenonT(60) DEF Send, TypeOK
<1>12. ASSUME NEW n \in Nodes, NEW c \in Conns, LowerSend(n, c) PROVE TypeOK'
  <2> USE <1>12
  <2>1. lowerSendQ' \in [Nodes -> Seq([to : Nodes, num : 1..MaxData])]
    BY <1>0, QueuesTyped, ZenonT(60) DEF LowerSend
  <2>2. Head(lowerSendQ[n]) \in [to : Nodes, num : 1..MaxData]
    BY <1>0, QueuesTyped DEF LowerSend
  <2>3. [type |-> "data", c |-> c, to |-> Head(lowerSendQ[n]).to,
          num |-> Head(lowerSendQ[n]).num] \in Msg
    BY <2>2, MsgFields, ZenonT(60)
  <2>4. net' \subseteq Msg
    BY <2>3, <1>g DEF LowerSend
  <2> QED BY <1>0, <2>1, <2>2, <2>3, <2>4, ZenonT(60) DEF LowerSend, TypeOK
<1>13. ASSUME NEW n \in Nodes, LowerRecvHello(n) PROVE TypeOK'
  <2> USE <1>13
  <2>1. lowerRecvQ' \in [Nodes -> Seq(Msg)] /\ helloRecvQ' \in [Nodes -> Seq(Msg)]
    BY <1>0, QueuesTyped, ZenonT(60) DEF LowerRecvHello
  <2> QED BY <1>0, <2>1, ZenonT(60) DEF LowerRecvHello, TypeOK
<1>14. ASSUME NEW n \in Nodes, DataUnknown(n) PROVE TypeOK'
  <2> USE <1>14
  <2>1. lowerRecvQ' \in [Nodes -> Seq(Msg)]
    BY <1>0, QueuesTyped DEF DataUnknown, DataInHand
  <2> QED BY <1>0, <2>1, ZenonT(60) DEF DataUnknown, TypeOK
<1>15. ASSUME NEW n \in Nodes, FirstData(n) PROVE TypeOK'
  <2> USE <1>15
  <2>1. lowerRecvQ' \in [Nodes -> Seq(Msg)]
    BY <1>0, QueuesTyped, ZenonT(60) DEF FirstData, DataInHand
  <2>2. resp' \in [Conns -> {0, 2, 3}]
    BY <1>0, QueuesTyped, MsgFields, <1>d DEF FirstData, DataInHand
  <2>3. Head(lowerRecvQ[n]).c \in Conns
    BY <1>0, QueuesTyped, MsgFields DEF FirstData, DataInHand
  <2>4. Other(n, Head(lowerRecvQ[n]).c) \in Nodes \cup {NoNode}
    BY <2>3, <1>a, ZenonT(60) DEF Other
  <2>5. callback' \in [Nodes -> [Routines -> [at : {"none", "attach", "wake"},
                                                peer : Nodes \cup {NoNode}]]]
    BY <2>4, <1>f DEF FirstData, Routines
  <2> QED BY <1>0, <2>1, <2>2, <2>3, <2>4, <2>5, ZenonT(60) DEF FirstData, TypeOK
<1>16. ASSUME NEW n \in Nodes, Data(n) PROVE TypeOK'
  <2> USE <1>16
  <2>1. lowerRecvQ' \in [Nodes -> Seq(Msg)]
    BY <1>0, QueuesTyped DEF Data, DataInHand
  <2>2. Other(n, Head(lowerRecvQ[n]).c) \in Nodes
    BY Heads, MsgFields, ZenonT(60) DEF Data, DataInHand, Other, MsgOK
  <2>3. lowerMuxQ' \in [Nodes -> Seq(Nodes)]
    BY <1>0, <2>2, QueuesTyped DEF Data
  <2> QED BY <1>0, <2>1, <2>2, <2>3, ZenonT(60) DEF Data, TypeOK
<1>17. ASSUME NEW n \in Nodes, LowerMux(n) PROVE TypeOK'
  <2> USE <1>17
  <2>1. lowerMuxQ' \in [Nodes -> Seq(Nodes)]
    BY <1>0, QueuesTyped, ZenonT(60) DEF LowerMux
  <2> QED BY <1>0, <2>1, ZenonT(60) DEF LowerMux, TypeOK
<1>18. CASE UNCHANGED vars
  BY <1>0, <1>18, ZenonT(60) DEF vars, TypeOK
<1> QED BY <1>1, <1>2, <1>3, <1>4, <1>5, <1>6, <1>7, <1>8, <1>9, <1>10, <1>11, <1>12, <1>13, <1>14, <1>15, <1>16, <1>17, <1>18
        DEF Next, Callback, LowerRecv

\* What the head of its queue gives each action that takes a packet.
LEMMA HelloSent ==
    ASSUME Base, NEW n \in Nodes, HelloSend(n)
    PROVE  \E c \in Conns :
              /\ c = Head(helloSendQ[n]) /\ conn[c].at # "idle" /\ conn[c].from = n
              /\ conn[c].to \in Nodes /\ ini[c] = 0
              /\ ini' = [ini EXCEPT ![c] = 1] /\ resp' = resp /\ conn' = conn
              /\ net' = net \cup {[type |-> "hello", c |-> c, to |-> conn[c].to]}
<1>1. helloSendQ[n] # <<>>
  BY DEF HelloSend
<1>2. PICK c \in Conns : /\ c = Head(helloSendQ[n]) /\ conn[c].at # "idle" /\ conn[c].from = n
                         /\ conn[c].to \in Nodes /\ ini[c] = 0
  BY <1>1, Heads
<1> QED BY <1>2, ZenonT(60) DEF HelloSend, calls

LEMMA HelloTaken ==
    ASSUME Base, NEW n \in Nodes, HelloRecv(n)
    PROVE  \E c \in Conns :
              /\ c = Head(helloRecvQ[n]).c /\ conn[c].at # "idle" /\ conn[c].to = n
              /\ conn[c].from \in Nodes /\ ini[c] # 0
              /\ resp' = [resp EXCEPT ![c] = 2] /\ ini' = ini /\ conn' = conn
              /\ net' = net \cup {[type |-> "response", c |-> c, to |-> conn[c].from]}
<1>1. helloRecvQ[n] # <<>> /\ Head(helloRecvQ[n]).type = "hello"
  BY DEF HelloRecv
<1>2. PICK m \in Msg : m = Head(helloRecvQ[n]) /\ MsgOK(m) /\ m.to = n
  BY <1>1, Heads
<1>3. m.type = "hello" /\ m.c \in Conns
  BY <1>1, <1>2, MsgFields, ZenonT(60)
<1>4. conn[m.c].at # "idle" /\ conn[m.c].to = n /\ ini[m.c] # 0
  BY <1>2, <1>3 DEF MsgOK
<1>5. conn[m.c].from \in Nodes
  BY <1>3, <1>4, Heads
<1> QED BY <1>2, <1>3, <1>4, <1>5, ZenonT(60) DEF HelloRecv, calls

LEMMA ResponseTaken ==
    ASSUME Base, NEW n \in Nodes, ResponseRecv(n)
    PROVE  \E c \in Conns :
              /\ c = Head(helloRecvQ[n]).c
              /\ conn[c].at # "idle" /\ conn[c].from = n /\ conn[c].to \in Nodes
              /\ ini[c] # 0 /\ resp[c] \in {2, 3}
              /\ ini' = [ini EXCEPT ![c] = 3] /\ resp' = resp /\ conn' = conn
              /\ callback[n]["helloRecv"] = NoCallback
              /\ callback' = [callback EXCEPT ![n]["helloRecv"] =
                                [at |-> "attach", peer |-> conn[c].to]]
<1>1. helloRecvQ[n] # <<>> /\ Head(helloRecvQ[n]).type = "response"
  BY DEF ResponseRecv
<1>2. PICK m \in Msg : m = Head(helloRecvQ[n]) /\ MsgOK(m) /\ m.to = n
  BY <1>1, Heads
<1>3. m.type = "response" /\ m.c \in Conns
  BY <1>1, <1>2, MsgFields, ZenonT(60)
<1>4. conn[m.c].at # "idle" /\ conn[m.c].from = n /\ ini[m.c] # 0 /\ resp[m.c] \in {2, 3}
  BY <1>2, <1>3 DEF MsgOK
<1>5. conn[m.c].to \in Nodes
  BY <1>3, <1>4, Heads, ZenonT(60)
<1> QED BY <1>2, <1>3, <1>4, <1>5, ZenonT(60) DEF ResponseRecv, calls

\* Data in hand is for one end of its session, and the other end has keys.
LEMMA DataTaken ==
    ASSUME Base, NEW n \in Nodes, DataInHand(n)
    PROVE  \E c \in Conns :
              /\ c = Head(lowerRecvQ[n]).c /\ conn[c].at # "idle" /\ ini[c] # 0
              /\ conn[c].from \in Nodes /\ conn[c].to \in Nodes /\ conn[c].from # conn[c].to
              /\ \/ n = conn[c].to /\ ini[c] = 3
                 \/ n = conn[c].from /\ resp[c] \in {2, 3}
<1>1. lowerRecvQ[n] # <<>> /\ Head(lowerRecvQ[n]).type = "data"
  BY DEF DataInHand
<1>2. PICK m \in Msg : m = Head(lowerRecvQ[n]) /\ MsgOK(m) /\ m.to = n
  BY <1>1, Heads
<1>3. m.type = "data" /\ m.c \in Conns
  BY <1>1, <1>2, MsgFields, ZenonT(60)
<1>4. /\ conn[m.c].at # "idle" /\ ini[m.c] # 0
      /\ \/ n = conn[m.c].to /\ ini[m.c] = 3
         \/ n = conn[m.c].from /\ resp[m.c] \in {2, 3}
  BY <1>2, <1>3, ZenonT(60) DEF MsgOK
<1>5. conn[m.c].from \in Nodes /\ conn[m.c].to \in Nodes /\ conn[m.c].from # conn[m.c].to
  BY <1>3, <1>4, Heads DEF Base, Sessions
<1> QED BY <1>2, <1>3, <1>4, <1>5

LEMMA FirstDataTaken ==
    ASSUME Base, NEW n \in Nodes, FirstData(n)
    PROVE  \E c \in Conns :
              /\ conn[c].at # "idle" /\ conn[c].from \in Nodes /\ conn[c].from # n
              /\ conn[c].to = n /\ ini[c] = 3 /\ resp[c] = 2
              /\ resp' = [resp EXCEPT ![c] = 3] /\ ini' = ini /\ conn' = conn
              /\ callback[n]["lowerRecv"] = NoCallback
              /\ callback' = [callback EXCEPT ![n]["lowerRecv"] =
                                [at |-> "attach", peer |-> conn[c].from]]
<1>1. DataInHand(n)
  BY DEF FirstData
<1>2. PICK c \in Conns : /\ c = Head(lowerRecvQ[n]).c /\ conn[c].at # "idle"
                         /\ conn[c].from \in Nodes /\ conn[c].to \in Nodes
                         /\ conn[c].from # conn[c].to
                         /\ \/ n = conn[c].to /\ ini[c] = 3
                            \/ n = conn[c].from /\ resp[c] \in {2, 3}
  BY <1>1, DataTaken, ZenonT(60)
<1>3. Stage(n, c) = 2 /\ ini[c] \in {0, 1, 3}
  BY <1>2, ZenonT(60) DEF FirstData, Base, TypeOK
<1>4. n = conn[c].to /\ n # conn[c].from /\ ini[c] = 3 /\ resp[c] = 2
  <2>1. Stage(n, c) = ini[c] \/ (conn[c].from # n /\ Stage(n, c) = resp[c])
    BY DEF Stage
  <2>2. ini[c] # 2
    BY <1>3
  <2>3. conn[c].from # n /\ resp[c] = 2
    BY <1>3, <2>1, <2>2
  <2> QED BY <1>2, <2>3
<1>5. Other(n, c) = conn[c].from
  BY <1>4 DEF Other
<1>6. callback[n]["lowerRecv"] = NoCallback
  BY <1>1 DEF DataInHand
<1> QED BY <1>2, <1>4, <1>5, <1>6, ZenonT(60) DEF FirstData, calls

\* A call that was made keeps its ends, and a session its keys.
Progress ==
    \A c \in Conns :
        /\ conn[c].at # "idle" => /\ conn'[c].at # "idle"
                                  /\ conn'[c].from = conn[c].from
                                  /\ conn'[c].to = conn[c].to
        /\ ini[c] # 0 => ini'[c] # 0
        /\ ini[c] = 3 => ini'[c] = 3
        /\ resp[c] \in {2, 3} => resp'[c] \in {2, 3}

\* The steps that touch a session or the queue of hellos.
LEMMA SessionSteps ==
    ASSUME [Next]_vars
    PROVE  \/ \E c \in Conns, n, p \in Nodes : Connect(c, n, p)
           \/ \E c \in Conns : WaitFor(c) \/ Return(c)
           \/ \E n \in Nodes : HelloSend(n) \/ HelloRecv(n) \/ ResponseRecv(n) \/ FirstData(n)
           \/ UNCHANGED <<conn, ini, resp, helloSendQ>>
BY ZenonT(60) DEF Next, vars, calls, sessions, queues, Recv, Lose, Callback, CallbackAttach, CallbackWake,
       Send, LowerSend, LowerRecv, LowerRecvHello, DataUnknown, Data, LowerMux

LEMMA StepProgress == Base /\ [Next]_vars => Progress
<1> SUFFICES ASSUME Base, [Next]_vars PROVE Progress
  OBVIOUS
<1>0. TypeOK
  BY DEF Base
<1>a. conn \in [Conns -> [at : {"idle", "queued", "waiting", "returned"},
                          from : Nodes \cup {NoNode}, to : Nodes \cup {NoNode}]]
  BY <1>0 DEF TypeOK
<1>b. ini \in [Conns -> {0, 1, 3}] /\ resp \in [Conns -> {0, 2, 3}]
  BY <1>0 DEF TypeOK
<1> USE DEF Progress, calls, sessions
<1>1. ASSUME NEW c \in Conns, NEW n \in Nodes, NEW p \in Nodes, Connect(c, n, p) PROVE Progress
  BY <1>1, <1>a DEF Connect
<1>2. ASSUME NEW c \in Conns, WaitFor(c) PROVE Progress
  BY <1>2, <1>a DEF WaitFor
<1>3. ASSUME NEW c \in Conns, Return(c) PROVE Progress
  BY <1>3, <1>a DEF Return
<1>4. ASSUME NEW n \in Nodes, HelloSend(n) PROVE Progress
  <2>1. PICK c \in Conns : /\ ini[c] = 0 /\ ini' = [ini EXCEPT ![c] = 1]
                           /\ resp' = resp /\ conn' = conn
    BY <1>4, HelloSent
  <2> QED BY <1>b, <2>1
<1>5. ASSUME NEW n \in Nodes, HelloRecv(n) PROVE Progress
  BY <1>5, <1>b DEF HelloRecv
<1>6. ASSUME NEW n \in Nodes, ResponseRecv(n) PROVE Progress
  BY <1>6, <1>b DEF ResponseRecv
<1>7. ASSUME NEW n \in Nodes, FirstData(n) PROVE Progress
  BY <1>7, <1>b DEF FirstData
<1>8. CASE UNCHANGED <<conn, ini, resp, helloSendQ>>
  BY <1>8, ZenonT(60)
<1> HIDE DEF Progress
<1> QED BY <1>1, <1>2, <1>3, <1>4, <1>5, <1>6, <1>7, <1>8, SessionSteps

LEMMA MsgKept ==
    ASSUME Base, Progress, NEW m \in Msg, MsgOK(m)
    PROVE  MsgOK(m)'
BY MsgFields DEF Progress, MsgOK

\* What is in a queue after one is put into it, or its head is taken.
LEMMA PutMsg ==
    ASSUME NEW q \in [Nodes -> Seq(Msg)], NEW n \in Nodes, NEW k \in Nodes, NEW x \in Msg
    PROVE  /\ Range(Put(q, n, x)[k]) \subseteq Range(q[k]) \cup {x}
           /\ Range(q[k]) \subseteq Range(Put(q, n, x)[k])
           /\ k # n => Put(q, n, x)[k] = q[k]
           /\ x \in Range(Put(q, n, x)[n])
<1>1. Put(q, n, x)[n] = Append(q[n], x)
  BY DEF Put
<1>2. k # n => Put(q, n, x)[k] = q[k]
  BY DEF Put
<1>3. q[n] \in Seq(Msg)
  OBVIOUS
<1>4. Range(Append(q[n], x)) = Range(q[n]) \cup {x}
  BY <1>3, QueueFacts
<1> QED BY <1>1, <1>2, <1>4, ZenonT(60)

LEMMA PutNode ==
    ASSUME NEW q \in [Nodes -> Seq(Nodes)], NEW n \in Nodes, NEW k \in Nodes, NEW x \in Nodes
    PROVE  /\ Range(Put(q, n, x)[k]) \subseteq Range(q[k]) \cup {x}
           /\ Range(q[k]) \subseteq Range(Put(q, n, x)[k])
           /\ k # n => Put(q, n, x)[k] = q[k]
           /\ x \in Range(Put(q, n, x)[n])
<1>1. Put(q, n, x)[n] = Append(q[n], x)
  BY DEF Put
<1>2. k # n => Put(q, n, x)[k] = q[k]
  BY DEF Put
<1>3. q[n] \in Seq(Nodes)
  OBVIOUS
<1>4. Range(Append(q[n], x)) = Range(q[n]) \cup {x}
  BY <1>3, QueueFacts
<1> QED BY <1>1, <1>2, <1>4, ZenonT(60)

LEMMA GetRange ==
    ASSUME NEW S, NEW q \in [Nodes -> Seq(S)], NEW n \in Nodes, NEW k \in Nodes, q[n] # <<>>
    PROVE  Range(Get(q, n)[k]) \subseteq Range(q[k])
<1>1. Get(q, n)[n] = Tail(q[n])
  BY DEF Get
<1>2. k # n => Get(q, n)[k] = q[k]
  BY DEF Get
<1>3. q[n] \in Seq(S)
  OBVIOUS
<1>4. Range(Tail(q[n])) \subseteq Range(q[n])
  BY <1>3, QueueFacts
<1> QED BY <1>1, <1>2, <1>4, ZenonT(60)

LEMMA StepKeepsSessions == Base /\ [Next]_vars => Sessions'
<1> SUFFICES ASSUME Base, [Next]_vars PROVE Sessions'
  OBVIOUS
<1>0. TypeOK /\ Sessions /\ WaitInv
  BY DEF Base
<1>a. conn \in [Conns -> [at : {"idle", "queued", "waiting", "returned"},
                          from : Nodes \cup {NoNode}, to : Nodes \cup {NoNode}]]
  BY <1>0 DEF TypeOK
<1>b. ini \in [Conns -> {0, 1, 3}] /\ resp \in [Conns -> {0, 2, 3}]
  BY <1>0 DEF TypeOK
<1>c. helloSendQ \in [Nodes -> Seq(Conns)]
  BY <1>0 DEF TypeOK
<1>d. \A n \in Nodes : \A i \in 1..Len(helloSendQ[n]) : helloSendQ[n][i] \in Conns
  BY <1>c
<1> USE DEF calls, sessions
<1>1. ASSUME NEW c \in Conns, NEW n \in Nodes, NEW p \in Nodes, Connect(c, n, p) PROVE Sessions'
  <2> USE <1>1
  <2> DEFINE q == helloSendQ[n]
  <2>1. helloSendQ'[n] = Append(q, c) /\ \A k \in Nodes : k # n => helloSendQ'[k] = helloSendQ[k]
    BY <1>c DEF Connect, Put
  <2>2. q \in Seq(Conns) /\ Len(q) \in Nat
    BY <1>c
  <2>3. /\ Len(Append(q, c)) = Len(q) + 1 /\ Append(q, c)[Len(q) + 1] = c
        /\ \A i \in 1..Len(q) : Append(q, c)[i] = q[i]
    BY <2>2
  <2>4. /\ conn'[c] = [at |-> "queued", from |-> n, to |-> p] /\ n # p /\ conn[c].at = "idle"
        /\ \A d \in Conns : d # c => conn'[d] = conn[d]
        /\ ini' = ini /\ resp' = resp
    BY <1>a, ZenonT(60) DEF Connect
  <2>5. \A k \in Nodes : \A i \in 1..Len(helloSendQ[k]) : helloSendQ[k][i] # c
    BY <1>0, <2>4 DEF Sessions
  <2>6. \A i \in 1..(Len(q) + 1) : i \in 1..Len(q) \/ i = Len(q) + 1
    BY <2>2
  <2> HIDE DEF q
  <2>7. \A d \in Conns : /\ conn'[d].at = "idle" => ini'[d] = 0 /\ resp'[d] = 0
                         /\ conn'[d].at # "idle" => conn'[d].from # conn'[d].to
                         /\ resp'[d] # 0 => ini'[d] # 0
    BY <1>0, <2>4 DEF Sessions
  <2>8. ASSUME NEW k \in Nodes, NEW i \in 1..Len(helloSendQ'[k])
        PROVE  /\ conn'[helloSendQ'[k][i]].at # "idle"
               /\ conn'[helloSendQ'[k][i]].from = k
               /\ ini'[helloSendQ'[k][i]] = 0
    <3>1. CASE k # n
      <4>1. helloSendQ'[k] = helloSendQ[k]
        BY <2>1, <3>1
      <4>2. helloSendQ[k][i] \in Conns /\ helloSendQ[k][i] # c
        BY <1>d, <2>5, <4>1, ZenonT(60)
      <4>3. /\ conn[helloSendQ[k][i]].at # "idle" /\ conn[helloSendQ[k][i]].from = k
            /\ ini[helloSendQ[k][i]] = 0
        BY <1>0, <4>1 DEF Sessions
      <4> QED BY <2>4, <4>1, <4>2, <4>3
    <3>2. CASE k = n /\ i \in 1..Len(q)
      <4> USE <3>2
      <4>1. helloSendQ'[k][i] = helloSendQ[n][i] /\ i \in 1..Len(helloSendQ[n])
        BY <2>1, <2>3 DEF q
      <4>2. helloSendQ[n][i] \in Conns /\ helloSendQ[n][i] # c
        BY <1>d, <2>5, <4>1, ZenonT(60)
      <4>3. /\ conn[helloSendQ[n][i]].at # "idle" /\ conn[helloSendQ[n][i]].from = n
            /\ ini[helloSendQ[n][i]] = 0
        BY <1>0, <4>1 DEF Sessions
      <4> QED BY <2>4, <4>1, <4>2, <4>3
    <3>3. CASE k = n /\ i = Len(q) + 1
      <4>1. helloSendQ'[k][i] = c
        BY <2>1, <2>3, <3>3
      <4>2. ini[c] = 0
        BY <1>0, <2>4 DEF Sessions
      <4> QED BY <2>4, <3>3, <4>1, <4>2
    <3> QED BY <2>1, <2>3, <2>6, <3>1, <3>2, <3>3, ZenonT(60)
  <2>9. ASSUME NEW k \in Nodes, NEW i \in 1..Len(helloSendQ'[k]), NEW j \in 1..Len(helloSendQ'[k]),
               helloSendQ'[k][i] = helloSendQ'[k][j]
        PROVE  i = j
    <3> USE <2>9
    <3>1. CASE k # n
      <4>1. helloSendQ'[k] = helloSendQ[k]
        BY <2>1, <3>1
      <4> QED BY <1>0, <4>1 DEF Sessions
    <3>2. CASE k = n
      <4> USE <3>2
      <4>1. i \in 1..(Len(q) + 1) /\ j \in 1..(Len(q) + 1)
        BY <2>1, <2>3
      <4>2. Append(q, c)[i] = Append(q, c)[j]
        BY <2>1
      <4>3. \A x, y \in 1..Len(q) : q[x] = q[y] => x = y
        BY <1>0, ZenonT(60) DEF Sessions, q
      <4>4. \A x \in 1..Len(q) : q[x] # c
        BY <2>5, ZenonT(60) DEF q
      <4> QED BY <2>3, <2>6, <4>1, <4>2, <4>3, <4>4, ZenonT(60)
    <3> QED BY <3>1, <3>2, ZenonT(60)
  <2> QED BY <2>7, <2>8, <2>9 DEF Sessions
<1>2. ASSUME NEW c \in Conns, WaitFor(c) \/ Return(c) PROVE Sessions'
  <2> USE <1>2
  <2>1. \A d \in Conns : /\ conn'[d].at = "idle" <=> conn[d].at = "idle"
                         /\ conn'[d].from = conn[d].from /\ conn'[d].to = conn[d].to
    BY <1>a DEF WaitFor, Return
  <2>2. ini' = ini /\ resp' = resp /\ helloSendQ' = helloSendQ
    BY ZenonT(60) DEF WaitFor, Return, queues
  <2> QED BY <1>0, <1>d, <2>1, <2>2 DEF Sessions
<1>3. ASSUME NEW n \in Nodes, HelloSend(n) PROVE Sessions'
  <2> USE <1>3
  <2> DEFINE q == helloSendQ[n]
             c == Head(q)
  <2>1. helloSendQ'[n] = Tail(q) /\ \A k \in Nodes : k # n => helloSendQ'[k] = helloSendQ[k]
    BY <1>c DEF HelloSend, Get
  <2>2. q \in Seq(Conns) /\ Len(q) \in Nat \ {0} /\ c = q[1]
    BY <1>c DEF HelloSend
  <2>3. Len(Tail(q)) = Len(q) - 1 /\ \A i \in 1..(Len(q) - 1) : Tail(q)[i] = q[i + 1]
    BY <2>2
  <2>4. \A i \in 1..(Len(q) - 1) : i + 1 \in 1..Len(q) /\ i + 1 # 1
    BY <2>2
  <2>5. c \in Conns /\ conn[c].at # "idle" /\ conn[c].from = n
    BY Heads, ZenonT(60) DEF HelloSend
  <2>6. conn' = conn /\ resp' = resp /\ ini'[c] = 1 /\ \A d \in Conns : d # c => ini'[d] = ini[d]
    BY <1>b, <2>5, ZenonT(60) DEF HelloSend
  <2>7. \A x, y \in 1..Len(q) : q[x] = q[y] => x = y
    BY <1>0 DEF Sessions
  <2>8. 1 \in 1..Len(q)
    BY <2>2
  <2> HIDE DEF q, c
  <2>9. ASSUME NEW k \in Nodes, NEW i \in 1..Len(helloSendQ'[k])
        PROVE  /\ conn'[helloSendQ'[k][i]].at # "idle"
               /\ conn'[helloSendQ'[k][i]].from = k
               /\ ini'[helloSendQ'[k][i]] = 0
    <3>1. CASE k # n
      <4> USE <3>1
      <4>1. helloSendQ[k][i] # c
        BY <1>0, <2>1, <2>5 DEF Sessions
      <4> QED BY <1>0, <1>d, <2>1, <2>6, <4>1 DEF Sessions
    <3>2. CASE k = n
      <4> USE <3>2
      <4>1. i \in 1..(Len(q) - 1) /\ helloSendQ'[k][i] = q[i + 1] /\ i + 1 \in 1..Len(q)
        BY <2>1, <2>3, <2>4
      <4>2. q[i + 1] # c
        BY <2>2, <2>4, <2>7, <2>8, <4>1
      <4> QED BY <1>0, <1>d, <2>6, <4>1, <4>2 DEF Sessions, q
    <3> QED BY <3>1, <3>2, ZenonT(60)
  <2>10. ASSUME NEW k \in Nodes, NEW i \in 1..Len(helloSendQ'[k]),
                NEW j \in 1..Len(helloSendQ'[k]), helloSendQ'[k][i] = helloSendQ'[k][j]
         PROVE  i = j
    <3> USE <2>10
    <3>1. CASE k # n
      BY <1>0, <2>1, <3>1 DEF Sessions
    <3>2. CASE k = n
      <4>1. i \in 1..(Len(q) - 1) /\ j \in 1..(Len(q) - 1) /\ q[i + 1] = q[j + 1]
        BY <2>1, <2>3, <3>2, ZenonT(60)
      <4>2. i + 1 = j + 1
        BY <2>4, <2>7, <4>1, ZenonT(60)
      <4> QED BY <4>1, <4>2
    <3> QED BY <3>1, <3>2, ZenonT(60)
  <2>11. \A d \in Conns : /\ conn'[d].at = "idle" => ini'[d] = 0 /\ resp'[d] = 0
                          /\ conn'[d].at # "idle" => conn'[d].from # conn'[d].to
                          /\ resp'[d] # 0 => ini'[d] # 0
    BY <1>0, <2>5, <2>6 DEF Sessions
  <2> QED BY <2>9, <2>10, <2>11 DEF Sessions
<1>4. ASSUME NEW n \in Nodes, HelloRecv(n) \/ ResponseRecv(n) \/ FirstData(n) PROVE Sessions'
  <2> USE <1>4
  <2>1. PICK c \in Conns : /\ conn[c].at # "idle" /\ ini[c] # 0
                           /\ \A d \in Conns : d # c => ini'[d] = ini[d] /\ resp'[d] = resp[d]
                           /\ ini'[c] # 0
    <3>1. CASE HelloRecv(n)
      <4>1. PICK c \in Conns : /\ conn[c].at # "idle" /\ ini[c] # 0 /\ ini' = ini
                               /\ resp' = [resp EXCEPT ![c] = 2]
        BY <3>1, HelloTaken
      <4> QED BY <1>b, <4>1, ZenonT(60)
    <3>2. CASE ResponseRecv(n)
      <4>1. PICK c \in Conns : /\ conn[c].at # "idle" /\ ini[c] # 0 /\ resp' = resp
                               /\ ini' = [ini EXCEPT ![c] = 3]
        BY <3>2, ResponseTaken
      <4> QED BY <1>b, <4>1
    <3>3. CASE FirstData(n)
      <4>1. PICK c \in Conns : /\ conn[c].at # "idle" /\ ini[c] = 3 /\ ini' = ini
                               /\ resp' = [resp EXCEPT ![c] = 3]
        BY <3>3, FirstDataTaken, ZenonT(60)
      <4> QED BY <1>b, <4>1
    <3> QED BY <3>1, <3>2, <3>3, ZenonT(60)
  <2>2. conn' = conn /\ helloSendQ' = helloSendQ
    BY ZenonT(60) DEF HelloRecv, ResponseRecv, FirstData
  <2>3. \A k \in Nodes : \A i \in 1..Len(helloSendQ[k]) : helloSendQ[k][i] # c
    BY <1>0, <2>1 DEF Sessions
  <2> QED BY <1>0, <1>d, <2>1, <2>2, <2>3 DEF Sessions
<1>5. CASE UNCHANGED <<conn, ini, resp, helloSendQ>>
  BY <1>0, <1>5 DEF Sessions
<1> QED BY <1>1, <1>2, <1>3, <1>4, <1>5, SessionSteps


\* Packets move from net to lowerRecvQ and on to helloRecvQ; what is said of
\* them stays true, and only the new ones are left to be looked at.
NetMoves == \A m \in net' : m \in net \/ MsgOK(m)'
RecvMoves ==
    \A k \in Nodes : \A m \in Range(lowerRecvQ'[k]) :
        m \in Range(lowerRecvQ[k]) \/ (m \in net /\ m.to = k)
HelloMoves ==
    \A k \in Nodes : \A m \in Range(helloRecvQ'[k]) :
        m \in Range(helloRecvQ[k]) \/ m \in Range(lowerRecvQ[k])

LEMMA MovesKeepPackets ==
    ASSUME Base, Progress, NetMoves, RecvMoves, HelloMoves
    PROVE  Packets'
<1>1. Packets /\ net \subseteq Msg
  BY DEF Base, TypeOK
<1>2. \A k \in Nodes : lowerRecvQ[k] \in Seq(Msg) /\ helloRecvQ[k] \in Seq(Msg)
  BY DEF Base, TypeOK
<1>3. \A k \in Nodes : Range(lowerRecvQ[k]) \subseteq Msg /\ Range(helloRecvQ[k]) \subseteq Msg
  BY <1>2, QueueFacts
<1>4. \A m \in Msg : MsgOK(m) => MsgOK(m)'
  BY MsgKept
<1>5. \A m \in net' : MsgOK(m)'
  BY <1>1, <1>4, ZenonT(60) DEF NetMoves, Packets
<1>6. \A k \in Nodes : \A m \in Range(lowerRecvQ'[k]) : MsgOK(m)' /\ m.to = k
  BY <1>1, <1>3, <1>4, ZenonT(60) DEF RecvMoves, Packets
<1>7. \A k \in Nodes : \A m \in Range(helloRecvQ'[k]) : MsgOK(m)' /\ m.to = k
  BY <1>1, <1>3, <1>4 DEF HelloMoves, Packets
<1> QED BY <1>5, <1>6, <1>7 DEF Packets

LEMMA StepKeepsPackets == Base /\ [Next]_vars => Packets'
<1> SUFFICES ASSUME Base, [Next]_vars PROVE Packets'
  OBVIOUS
<1>0. Progress /\ TypeOK
  BY StepProgress DEF Base
<1>a. ini \in [Conns -> {0, 1, 3}] /\ resp \in [Conns -> {0, 2, 3}]
  BY <1>0 DEF TypeOK
<1>b. ASSUME NEW n \in Nodes, lowerRecvQ[n] # <<>>, lowerRecvQ' = Get(lowerRecvQ, n)
      PROVE  RecvMoves
  BY <1>0, <1>b, GetRange, ZenonT(60) DEF RecvMoves, TypeOK
<1>c. ASSUME NEW n \in Nodes, helloRecvQ[n] # <<>>, helloRecvQ' = Get(helloRecvQ, n)
      PROVE  HelloMoves
  BY <1>0, <1>c, GetRange, ZenonT(60) DEF HelloMoves, TypeOK
<1>d. /\ net' = net => NetMoves
      /\ lowerRecvQ' = lowerRecvQ => RecvMoves
      /\ helloRecvQ' = helloRecvQ => HelloMoves
  BY DEF NetMoves, RecvMoves, HelloMoves
<1> USE DEF calls, sessions, queues
<1>1. ASSUME NEW n \in Nodes, HelloSend(n) PROVE Packets'
  <2> USE <1>1
  <2>1. PICK c \in Conns : c = Head(helloSendQ[n]) /\ conn[c].at # "idle"
    BY Heads DEF HelloSend
  <2>h. PICK h : h = [type |-> "hello", c |-> c, to |-> conn[c].to]
    BY ZenonT(60)
  <2>2. ini'[c] = 1 /\ conn' = conn /\ resp' = resp /\ net' = net \cup {h}
    BY <1>a, <2>1, <2>h DEF HelloSend
  <2>3. h.type = "hello" /\ h.c = c /\ h.to = conn[c].to
    BY <2>h, ZenonT(60)
  <2>4. MsgOK(h)'
    BY <2>1, <2>2, <2>3 DEF MsgOK
  <2>5. NetMoves /\ RecvMoves /\ HelloMoves
    BY <1>d, <2>2, <2>4, ZenonT(60) DEF NetMoves, HelloSend
  <2> QED BY <1>0, <2>5, MovesKeepPackets, ZenonT(60)
<1>2. ASSUME NEW n \in Nodes, HelloRecv(n) PROVE Packets'
  <2> USE <1>2
  <2>1. PICK c \in Conns : c = Head(helloRecvQ[n]).c /\ conn[c].at # "idle" /\ ini[c] # 0
    BY Heads, MsgFields, ZenonT(60) DEF HelloRecv, MsgOK
  <2>h. PICK h : h = [type |-> "response", c |-> c, to |-> conn[c].from]
    BY ZenonT(60)
  <2>2. resp'[c] = 2 /\ conn' = conn /\ ini' = ini /\ net' = net \cup {h}
    BY <1>a, <2>1, <2>h, ZenonT(60) DEF HelloRecv
  <2>3. h.type = "response" /\ h.c = c /\ h.to = conn[c].from
    BY <2>h, ZenonT(60)
  <2>4. MsgOK(h)'
    BY <2>1, <2>2, <2>3 DEF MsgOK
  <2>5. NetMoves /\ RecvMoves /\ HelloMoves
    BY <1>c, <1>d, <2>2, <2>4, ZenonT(60) DEF NetMoves, HelloRecv
  <2> QED BY <1>0, <2>5, MovesKeepPackets
<1>3. ASSUME NEW n \in Nodes, ResponseRecv(n) PROVE Packets'
  BY <1>0, <1>3, <1>c, <1>d, MovesKeepPackets DEF ResponseRecv
<1>4. ASSUME NEW m \in net, Recv(m) PROVE Packets'
  <2> USE <1>4
  <2>1. m \in Msg /\ m.to \in Nodes
    BY <1>0, MsgFields, ZenonT(60) DEF TypeOK
  <2>2. lowerRecvQ \in [Nodes -> Seq(Msg)] /\ lowerRecvQ' = Put(lowerRecvQ, m.to, m)
    BY <1>0 DEF TypeOK, Recv
  <2> DEFINE q == Put(lowerRecvQ, m.to, m)
  <2>3. ASSUME NEW k \in Nodes
        PROVE  Range(q[k]) \subseteq Range(lowerRecvQ[k]) \cup {m}
    BY <2>1, <2>2, PutMsg, ZenonT(60)
  <2>4. ASSUME NEW k \in Nodes, k # m.to PROVE q[k] = lowerRecvQ[k]
    BY <2>2, <2>4 DEF Put
  <2> HIDE DEF q
  <2>5. lowerRecvQ' = q
    BY <2>2 DEF q
  <2>6. RecvMoves
    BY <2>3, <2>4, <2>5 DEF RecvMoves
  <2>7. NetMoves /\ HelloMoves
    BY <1>d DEF NetMoves, Recv
  <2> QED BY <1>0, <2>6, <2>7, MovesKeepPackets, ZenonT(60)
<1>5. ASSUME NEW m \in net, Lose(m) PROVE Packets'
  <2>1. NetMoves /\ RecvMoves /\ HelloMoves
    BY <1>5, <1>d DEF NetMoves, Lose
  <2> QED BY <1>0, <2>1, MovesKeepPackets, ZenonT(60)
<1>6. ASSUME NEW n \in Nodes, NEW c \in Conns, LowerSend(n, c) PROVE Packets'
  <2> USE <1>6
  <2>d. PICK d : d = Head(lowerSendQ[n])
    OBVIOUS
  <2>h. PICK h : h = [type |-> "data", c |-> c, to |-> d.to, num |-> d.num]
    BY ZenonT(60)
  <2>1. c \in SessionsWith(n, d.to) /\ net' = IF Keyed(n, c) THEN net \cup {h} ELSE net
    BY <2>d, <2>h, ZenonT(60) DEF LowerSend
  <2>2. conn' = conn /\ ini' = ini /\ resp' = resp
    BY DEF LowerSend
  <2>3. h.type = "data" /\ h.c = c /\ h.to = d.to
    BY <2>h, ZenonT(60)
  <2>4. conn[c].at # "idle"
    BY <2>1, ZenonT(60) DEF SessionsWith, Stage, Base, Sessions
  <2>5. Keyed(n, c) => MsgOK(h)
    <3>1. \A x \in Conns : resp[x] # 0 => ini[x] # 0
      BY DEF Base, Sessions
    <3> QED BY <1>a, <2>1, <2>3, <2>4, <3>1, ZenonT(60)
            DEF SessionsWith, Keyed, Stage, Other, MsgOK
  <2>6. Keyed(n, c) => MsgOK(h)'
    BY <2>2, <2>5, ZenonT(60) DEF MsgOK
  <2>7. NetMoves /\ RecvMoves /\ HelloMoves
    BY <1>d, <2>1, <2>6, ZenonT(60) DEF NetMoves, LowerSend
  <2> QED BY <1>0, <2>7, MovesKeepPackets
<1>7. ASSUME NEW n \in Nodes, LowerRecvHello(n) PROVE Packets'
  <2>1. /\ lowerRecvQ[n] # <<>> /\ lowerRecvQ' = Get(lowerRecvQ, n)
        /\ helloRecvQ' = Put(helloRecvQ, n, Head(lowerRecvQ[n])) /\ net' = net
    BY <1>7 DEF LowerRecvHello
  <2>2. lowerRecvQ[n] \in Seq(Msg) /\ helloRecvQ \in [Nodes -> Seq(Msg)]
    BY <1>0, ZenonT(60) DEF TypeOK
  <2>3. Head(lowerRecvQ[n]) \in Range(lowerRecvQ[n]) /\ Head(lowerRecvQ[n]) \in Msg
    BY <2>1, <2>2, QueueFacts
  <2> DEFINE m == Head(lowerRecvQ[n])
             q == Put(helloRecvQ, n, m)
  <2>4. ASSUME NEW k \in Nodes
        PROVE  Range(q[k]) \subseteq Range(helloRecvQ[k]) \cup {m}
    BY <2>2, <2>3, PutMsg, ZenonT(60)
  <2>5. ASSUME NEW k \in Nodes, k # n PROVE q[k] = helloRecvQ[k]
    BY <2>2, <2>5 DEF Put
  <2> HIDE DEF q
  <2>6. helloRecvQ' = q
    BY <2>1 DEF q
  <2>7. HelloMoves
    BY <2>3, <2>4, <2>5, <2>6 DEF HelloMoves
  <2> QED BY <1>0, <1>b, <1>d, <2>1, <2>7, MovesKeepPackets, ZenonT(60)
<1>8. ASSUME NEW n \in Nodes, DataUnknown(n) \/ FirstData(n) \/ Data(n) PROVE Packets'
  <2>1. lowerRecvQ[n] # <<>> /\ lowerRecvQ' = Get(lowerRecvQ, n) /\ net' = net
        /\ helloRecvQ' = helloRecvQ
    BY <1>8 DEF DataUnknown, FirstData, Data, DataInHand
  <2> QED BY <1>0, <1>b, <1>d, <2>1, MovesKeepPackets, ZenonT(60)
<1>9. CASE UNCHANGED <<net, lowerRecvQ, helloRecvQ>>
  BY <1>0, <1>9, <1>d, MovesKeepPackets
<1>10. \/ \E n \in Nodes : HelloSend(n) \/ HelloRecv(n) \/ ResponseRecv(n)
       \/ \E m \in net : Recv(m) \/ Lose(m)
       \/ \E n \in Nodes, c \in Conns : LowerSend(n, c)
       \/ \E n \in Nodes : LowerRecvHello(n) \/ DataUnknown(n) \/ FirstData(n) \/ Data(n)
       \/ UNCHANGED <<net, lowerRecvQ, helloRecvQ>>
  BY ZenonT(60) DEF Next, vars, Connect, WaitFor, Return, Callback, CallbackAttach, CallbackWake, Send,
         LowerRecv, LowerMux
<1> QED BY <1>1, <1>2, <1>3, <1>4, <1>5, <1>6, <1>7, <1>8, <1>9, <1>10
----------------------------------------------------------------------------
(***************************************************************************)
(* When Connect returns, a session is keyed at both ends.  A callback is   *)
(* about a peer with which such a session exists, and so is a value in the *)
(* channel of a waiter.                                                    *)
(***************************************************************************)
Share(n, p) ==
    \E d \in Conns : /\ conn[d].at # "idle" /\ ini[d] = 3 /\ resp[d] \in {2, 3}
                     /\ \/ conn[d].from = n /\ conn[d].to = p
                        \/ conn[d].from = p /\ conn[d].to = n
Shared ==
    /\ \A n \in Nodes, r \in Routines :
          callback[n][r].at # "none" => Share(n, callback[n][r].peer)
    /\ \A c \in Conns :
          chan[c] > 0 \/ conn[c].at = "returned" => Share(conn[c].from, conn[c].to)

LEMMA ShareKept ==
    ASSUME Progress, NEW n, NEW p, Share(n, p)
    PROVE  Share(n, p)'
BY DEF Progress, Share

\* A new callback is about a peer with which a session is keyed.
LEMMA ResponseShares ==
    ASSUME Base, NEW n \in Nodes, ResponseRecv(n)
    PROVE  \E p \in Nodes : /\ Share(n, p)'
                            /\ callback' = [callback EXCEPT ![n]["helloRecv"] =
                                              [at |-> "attach", peer |-> p]]
<1>1. PICK c \in Conns : /\ conn[c].at # "idle" /\ conn[c].from = n /\ conn[c].to \in Nodes
                         /\ resp[c] \in {2, 3} /\ ini' = [ini EXCEPT ![c] = 3]
                         /\ resp' = resp /\ conn' = conn
                         /\ callback' = [callback EXCEPT ![n]["helloRecv"] =
                                           [at |-> "attach", peer |-> conn[c].to]]
  BY ResponseTaken
<1>2. ini'[c] = 3
  BY <1>1 DEF Base, TypeOK
<1>3. PICK p \in Nodes : p = conn[c].to
  BY <1>1, ZenonT(60)
<1>4. Share(n, p)'
  BY <1>1, <1>2, <1>3 DEF Share
<1> QED BY <1>1, <1>3, <1>4, ZenonT(60)

LEMMA FirstDataShares ==
    ASSUME Base, NEW n \in Nodes, FirstData(n)
    PROVE  \E p \in Nodes : /\ Share(n, p)'
                            /\ callback' = [callback EXCEPT ![n]["lowerRecv"] =
                                              [at |-> "attach", peer |-> p]]
<1>1. PICK c \in Conns : /\ conn[c].at # "idle" /\ conn[c].from \in Nodes
                         /\ conn[c].to = n /\ ini[c] = 3 /\ resp' = [resp EXCEPT ![c] = 3]
                         /\ ini' = ini /\ conn' = conn
                         /\ callback' = [callback EXCEPT ![n]["lowerRecv"] =
                                           [at |-> "attach", peer |-> conn[c].from]]
  BY FirstDataTaken
<1>2. resp'[c] = 3
  BY <1>1 DEF Base, TypeOK
<1>3. PICK p \in Nodes : p = conn[c].from
  BY <1>1
<1>4. Share(n, p)'
  BY <1>1, <1>2, <1>3 DEF Share
<1> QED BY <1>1, <1>3, <1>4, ZenonT(60)

\* The steps that touch a callback.
LEMMA CallbackSteps ==
    ASSUME [Next]_vars
    PROVE  \/ \E n \in Nodes : ResponseRecv(n) \/ FirstData(n)
           \/ \E n \in Nodes, r \in Routines : CallbackAttach(n, r) \/ CallbackWake(n, r)
           \/ UNCHANGED callback
BY ZenonT(60) DEF Next, vars, Connect, WaitFor, Return, HelloSend, HelloRecv, Recv, Lose, Callback, Send,
       LowerSend, LowerRecv, LowerRecvHello, DataUnknown, Data, LowerMux

\* What such a step does to the callbacks: they are about the same peer, or
\* about one with which a session is keyed now.
LEMMA CallbackKept ==
    ASSUME Base, [Next]_vars, NEW n \in Nodes, NEW r \in Routines, callback'[n][r].at # "none"
    PROVE  \/ callback[n][r].at # "none" /\ callback'[n][r].peer = callback[n][r].peer
           \/ (callback[n][r].peer \in Nodes /\ Share(n, callback[n][r].peer))'
<1>0. callback \in [Nodes -> [Routines -> [at : {"none", "attach", "wake"},
                                           peer : Nodes \cup {NoNode}]]]
  BY ZenonT(60) DEF Base, TypeOK
<1>1. ASSUME NEW k \in Nodes, NEW s \in Routines, NEW p \in Nodes, Share(k, p)',
             callback' = [callback EXCEPT ![k][s] = [at |-> "attach", peer |-> p]]
      PROVE  \/ callback[n][r].at # "none" /\ callback'[n][r].peer = callback[n][r].peer
             \/ (callback[n][r].peer \in Nodes /\ Share(n, callback[n][r].peer))'
  <2> USE <1>1
  <2>1. CASE n = k /\ r = s
    <3> USE <2>1
    <3>1. callback'[n][r].peer = p
      BY <1>0, ZenonT(60)
    <3> QED BY <3>1, ZenonT(60) DEF Share
  <2>2. CASE n # k \/ r # s
    <3>1. callback'[n][r] = callback[n][r]
      BY <1>0, <2>2, ZenonT(60)
    <3> QED BY <3>1, ZenonT(60)
  <2> QED BY <2>1, <2>2, ZenonT(60)
<1>2. CASE \E k \in Nodes : ResponseRecv(k)
  BY <1>1, <1>2, ResponseShares, ZenonT(60) DEF Routines
<1>3. CASE \E k \in Nodes : FirstData(k)
  BY <1>1, <1>3, FirstDataShares DEF Routines
<1>4. ASSUME NEW k \in Nodes, NEW s \in Routines, CallbackAttach(k, s)
      PROVE  callback[n][r].at # "none" /\ callback'[n][r].peer = callback[n][r].peer
  BY <1>0, <1>4 DEF CallbackAttach
<1>5. ASSUME NEW k \in Nodes, NEW s \in Routines, CallbackWake(k, s)
      PROVE  callback[n][r].at # "none" /\ callback'[n][r].peer = callback[n][r].peer
  BY <1>0, <1>5, ZenonT(60) DEF CallbackWake, NoCallback
<1>6. CASE UNCHANGED callback
  BY <1>6
<1> QED BY <1>2, <1>3, <1>4, <1>5, <1>6, CallbackSteps, ZenonT(60)

LEMMA StepKeepsBase == Base /\ [Next]_vars => Base'
<1> SUFFICES ASSUME Base, [Next]_vars PROVE Base'
  OBVIOUS
<1>1. Callbacks'
  BY CallbackKept, ZenonT(60) DEF Callbacks, Base
<1> QED BY <1>1, StepKeepsTypes, StepKeepsWait, StepKeepsSessions, StepKeepsPackets, ZenonT(60) DEF Base

LEMMA StepKeepsShared == Base /\ Shared /\ [Next]_vars => Shared'
<1> SUFFICES ASSUME Base, Shared, [Next]_vars PROVE Shared'
  OBVIOUS
<1>0. Progress /\ TypeOK /\ WaitInv
  BY StepProgress, ZenonT(60) DEF Base
<1>a. conn \in [Conns -> [at : {"idle", "queued", "waiting", "returned"},
                          from : Nodes \cup {NoNode}, to : Nodes \cup {NoNode}]]
  BY <1>0, ZenonT(60) DEF TypeOK
<1>1. ASSUME NEW n \in Nodes, NEW r \in Routines, callback'[n][r].at # "none"
      PROVE  Share(n, callback[n][r].peer)'
  <2>1. CASE callback[n][r].at # "none" /\ callback'[n][r].peer = callback[n][r].peer
    <3> USE <2>1
    <3>1. PICK p : p = callback[n][r].peer
      BY ZenonT(60)
    <3>2. Share(n, p)
      BY <3>1, ZenonT(60) DEF Shared
    <3>3. Share(n, p)'
      BY <1>0, <3>2, ShareKept, ZenonT(60)
    <3> QED BY <3>1, <3>3 DEF Share
  <2> QED BY <1>1, <2>1, CallbackKept, ZenonT(60)
<1>2. ASSUME NEW c \in Conns, chan'[c] > 0 \/ conn'[c].at = "returned"
      PROVE  Share(conn[c].from, conn[c].to)'
  <2> USE <1>2
  <2>1. /\ conn[c].at # "idle"
        /\ Share(conn[c].from, conn[c].to)
    <3>1. ASSUME NEW d \in Conns, NEW n \in Nodes, NEW p \in Nodes, Connect(d, n, p)
          PROVE  conn[c].at # "idle" /\ Share(conn[c].from, conn[c].to)
      <4>1. chan' = chan /\ chan[d] = 0
        BY <1>0, <3>1 DEF Connect, WaitInv
      <4>2. conn'[d].at = "queued" /\ (c # d => conn'[c] = conn[c])
        BY <1>a, <3>1 DEF Connect
      <4>3. c # d
        BY <4>1, <4>2
      <4>4. chan[c] > 0 \/ conn[c].at = "returned"
        BY <4>1, <4>2, <4>3
      <4>5. conn[c].at # "idle"
        BY <1>0, <4>4 DEF WaitInv
      <4> QED BY <4>4, <4>5 DEF Shared
    <3>2. ASSUME NEW d \in Conns, WaitFor(d) \/ Return(d)
          PROVE  conn[c].at # "idle" /\ Share(conn[c].from, conn[c].to)
      BY <1>0, <1>a, <3>2 DEF WaitFor, Return, WaitInv, CallTypes, Shared
    <3>3. ASSUME NEW n \in Nodes, NEW r \in Routines, CallbackWake(n, r)
          PROVE  conn[c].at # "idle" /\ Share(conn[c].from, conn[c].to)
      <4> USE <3>3
      <4>1. CASE c \in Woken(n, callback[n][r].peer)
        <5>1. conn[c].at = "waiting" /\ conn[c].from = n /\ conn[c].to = callback[n][r].peer
          BY <1>0, <4>1 DEF Woken, WaitInv
        <5>2. Share(n, callback[n][r].peer)
          BY ZenonT(60) DEF Shared, CallbackWake
        <5> QED BY <5>1, <5>2, ZenonT(60)
      <4>2. CASE c \notin Woken(n, callback[n][r].peer)
        <5>1. chan'[c] = chan[c] /\ conn' = conn
          BY <4>2, ZenonT(60) DEF CallbackWake
        <5>2. conn[c].at # "idle"
          BY <1>0, <5>1 DEF WaitInv
        <5> QED BY <5>1, <5>2 DEF Shared
      <4> QED BY <4>1, <4>2, ZenonT(60)
    <3>4. CASE UNCHANGED calls
      <4>1. conn' = conn /\ chan' = chan
        BY <3>4, ZenonT(60) DEF calls
      <4>2. chan[c] > 0 => conn[c].at # "idle"
        BY <1>0 DEF WaitInv, CallTypes
      <4>3. conn[c].at = "returned" => conn[c].at # "idle"
        OBVIOUS
      <4> QED BY <4>1, <4>2, <4>3, ZenonT(60) DEF Shared
    <3> QED BY <3>1, <3>2, <3>3, <3>4, CallSteps, ZenonT(60)
  <2>2. PICK n, p : n = conn[c].from /\ p = conn[c].to
    BY ZenonT(60)
  <2>3. Share(n, p)'
    BY <1>0, <2>1, <2>2, ShareKept, ZenonT(60)
  <2>4. conn'[c].from = n /\ conn'[c].to = p
    BY <1>0, <2>1, <2>2 DEF Progress
  <2> QED BY <2>3, <2>4 DEF Share
<1> QED BY <1>1, <1>2 DEF Shared

LEMMA InitBase == Init => Base /\ Shared
<1> SUFFICES ASSUME Init PROVE Base /\ Shared
  OBVIOUS
<1>1. TypeOK /\ WaitInv
  BY InitTypes, InitWait, ZenonT(60)
<1>2. Sessions
  BY DEF Init, Sessions
<1>3. Packets
  <2>1. Range(<<>>) = {}
    BY DEF Range
  <2> QED BY <2>1 DEF Init, Packets
<1>4. Callbacks /\ Shared
  BY DEF Init, Callbacks, Shared, NoCallback
<1> QED BY <1>1, <1>2, <1>3, <1>4 DEF Base

\* Calls, sessions, slots, callbacks, queues and packets keep their types.
THEOREM PeeringTypes == Spec => []TypeOK
<1>1. Base => TypeOK
  BY DEF Base
<1> QED
  BY <1>1, InitBase, StepKeepsBase, PTL DEF Spec

\* Connect returns nil only when the two nodes share a session that both ends
\* have keys for: with any number of calls in either direction, of packets and
\* of losses, whichever of the sessions woke the waiter.
THEOREM ConnectedIsSound == Spec => []ConnectedSound
<1>1. Base /\ Shared => ConnectedSound
  <2> SUFFICES ASSUME Base, Shared, NEW c \in Conns, conn[c].at = "returned"
               PROVE  \E d \in SessionsWith(conn[c].from, conn[c].to) :
                          Keyed(conn[d].from, d) /\ Keyed(conn[d].to, d)
    BY ZenonT(60) DEF ConnectedSound
  <2>1. PICK d \in Conns : /\ conn[d].at # "idle" /\ ini[d] = 3 /\ resp[d] \in {2, 3}
                           /\ \/ conn[d].from = conn[c].from /\ conn[d].to = conn[c].to
                              \/ conn[d].from = conn[c].to /\ conn[d].to = conn[c].from
    BY ZenonT(60) DEF Shared, Share
  <2>2. conn[d].from # conn[d].to
    BY <2>1, ZenonT(60) DEF Base, Sessions
  <2>3. Keyed(conn[d].from, d) /\ Keyed(conn[d].to, d)
    BY <2>1, <2>2, ZenonT(60) DEF Keyed, Stage
  <2>4. d \in SessionsWith(conn[c].from, conn[c].to)
    BY <2>1, <2>2 DEF SessionsWith, Other, Stage
  <2> QED BY <2>3, <2>4, ZenonT(60)
<1> QED
  BY <1>1, InitBase, StepKeepsBase, StepKeepsShared, PTL DEF Spec

----------------------------------------------------------------------------
(***************************************************************************)
(* The previous hop of a packet has a slot.  PrevHopKnown is not inductive *)
(* alone: it rests on what a finished session says of the slots, and that  *)
(* on where the callback of lowerRecv is.                                  *)
(***************************************************************************)
Attaching(p) == [at |-> "attach", peer |-> p]

Known(n, p) ==
    \/ p \in Range(attached[n])
    \/ callback[n]["helloRecv"] = Attaching(p)
    \/ Len(attached[n]) = PeerSlots

Slots ==
    /\ \A n \in Nodes : Len(attached[n]) <= PeerSlots
    /\ \A n \in Nodes : \A p \in Range(lowerMuxQ[n]) : Known(n, p)
    /\ \A n \in Nodes, c \in Conns :
          conn[c].at # "idle" /\ n \in {conn[c].from, conn[c].to} /\ Stage(n, c) = 3
            => Known(n, Other(n, c)) \/ callback[n]["lowerRecv"] = Attaching(Other(n, c))
    /\ \A n \in Nodes : callback[n]["lowerRecv"].at = "wake"
                          => Known(n, callback[n]["lowerRecv"].peer)

\* What CallbackAttach does to the slots.
LEMMA AttachSlots ==
    ASSUME Base, Slots, NEW n \in Nodes, NEW r \in Routines, CallbackAttach(n, r)
    PROVE  /\ callback[n][r].peer \in Range(attached'[n]) \/ Len(attached'[n]) = PeerSlots
           /\ Len(attached'[n]) <= PeerSlots
           /\ Range(attached[n]) \subseteq Range(attached'[n])
           /\ Len(attached[n]) = PeerSlots => Len(attached'[n]) = PeerSlots
           /\ \A k \in Nodes : k # n => attached'[k] = attached[k]
<1>1. PICK p \in Nodes : p = callback[n][r].peer
  BY DEF CallbackAttach, Base, Callbacks
<1>2. attached \in [Nodes -> Seq(Nodes)] /\ attached[n] \in Seq(Nodes) /\ Len(attached[n]) \in Nat
  BY DEF Base, TypeOK
<1>3. Len(attached[n]) <= PeerSlots
  BY ZenonT(60) DEF Slots
<1>4. CASE Len(attached[n]) < PeerSlots
  <2> USE <1>4
  <2>1. attached' = Put(attached, n, p)
    BY <1>1 DEF CallbackAttach
  <2>2. attached'[n] = Append(attached[n], p) /\ \A k \in Nodes : k # n => attached'[k] = attached[k]
    BY <1>2, <2>1 DEF Put
  <2>3. Len(Append(attached[n], p)) = Len(attached[n]) + 1
    BY <1>2
  <2>4. Range(Append(attached[n], p)) = Range(attached[n]) \cup {p}
    BY <1>2, QueueFacts
  <2>5. Len(attached'[n]) <= PeerSlots /\ Len(attached[n]) # PeerSlots
    BY <1>2, <2>2, <2>3, PeeringAssumption
  <2> QED BY <1>1, <2>2, <2>4, <2>5
<1>5. CASE ~(Len(attached[n]) < PeerSlots)
  <2> USE <1>5
  <2>1. attached' = attached
    BY DEF CallbackAttach
  <2>2. Len(attached[n]) = PeerSlots
    BY <1>2, <1>3, PeeringAssumption
  <2> QED BY <1>3, <2>1, <2>2
<1> QED BY <1>4, <1>5

\* Only CallbackAttach changes the slots.
LEMMA SlotSteps ==
    ASSUME [Next]_vars
    PROVE  \/ \E n \in Nodes, r \in Routines : CallbackAttach(n, r)
           \/ UNCHANGED attached
BY ZenonT(60) DEF Next, vars, Connect, WaitFor, Return, HelloSend, HelloRecv, ResponseRecv, Recv, Lose,
       Callback, CallbackWake, Send, LowerSend, LowerRecv, LowerRecvHello, DataUnknown, FirstData,
       Data, LowerMux

\* A callback that waits to attach a peer waits on, or attaches it.
LEMMA AttachingKept ==
    ASSUME Base, Slots, [Next]_vars, NEW n \in Nodes, NEW r \in Routines, NEW p \in Nodes,
           callback[n][r] = Attaching(p)
    PROVE  \/ callback'[n][r] = Attaching(p)
           \/ p \in Range(attached'[n])
           \/ Len(attached'[n]) = PeerSlots
<1>0. callback \in [Nodes -> [Routines -> [at : {"none", "attach", "wake"},
                                           peer : Nodes \cup {NoNode}]]]
  BY ZenonT(60) DEF Base, TypeOK
<1>1. callback[n][r].at = "attach" /\ callback[n][r].peer = p
  BY DEF Attaching
<1>2. ASSUME NEW k \in Nodes, ResponseRecv(k) PROVE callback'[n][r] = callback[n][r]
  <2> USE <1>2
  <2>1. PICK x : callback' = [callback EXCEPT ![k]["helloRecv"] = x]
    BY ResponseTaken
  <2>2. callback[k]["helloRecv"].at = "none"
    BY DEF ResponseRecv, NoCallback
  <2> QED BY <1>0, <1>1, <2>1, <2>2, ZenonT(60) DEF Routines
<1>3. ASSUME NEW k \in Nodes, FirstData(k) PROVE callback'[n][r] = callback[n][r]
  <2> USE <1>3
  <2>1. PICK x : callback' = [callback EXCEPT ![k]["lowerRecv"] = x]
    BY FirstDataTaken
  <2>2. callback[k]["lowerRecv"].at = "none"
    BY DEF FirstData, DataInHand, NoCallback
  <2> QED BY <1>0, <1>1, <2>1, <2>2, ZenonT(60) DEF Routines
<1>4. ASSUME NEW k \in Nodes, NEW s \in Routines, CallbackAttach(k, s)
      PROVE  \/ callback'[n][r] = Attaching(p)
             \/ p \in Range(attached'[n])
             \/ Len(attached'[n]) = PeerSlots
  <2> USE <1>4
  <2>1. CASE k = n /\ s = r
    BY <1>1, <2>1, AttachSlots
  <2>2. CASE k # n \/ s # r
    BY <1>0, <2>2 DEF CallbackAttach
  <2> QED BY <2>1, <2>2, ZenonT(60)
<1>5. ASSUME NEW k \in Nodes, NEW s \in Routines, CallbackWake(k, s)
      PROVE  callback'[n][r] = callback[n][r]
  BY <1>0, <1>1, <1>5, ZenonT(60) DEF CallbackWake
<1> QED BY <1>2, <1>3, <1>4, <1>5, CallbackSteps, ZenonT(60)

LEMMA KnownKept ==
    ASSUME Base, Slots, [Next]_vars, NEW n \in Nodes, NEW p \in Nodes, Known(n, p)
    PROVE  Known(n, p)'
<1>1. CASE p \in Range(attached[n]) \/ Len(attached[n]) = PeerSlots
  <2> USE <1>1
  <2>1. p \in Range(attached'[n]) \/ Len(attached'[n]) = PeerSlots
    <3>1. ASSUME NEW k \in Nodes, NEW r \in Routines, CallbackAttach(k, r)
          PROVE  p \in Range(attached'[n]) \/ Len(attached'[n]) = PeerSlots
      BY <3>1, AttachSlots
    <3>2. CASE UNCHANGED attached
      BY <3>2, ZenonT(60)
    <3> QED BY <3>1, <3>2, SlotSteps, ZenonT(60)
  <2> QED BY <2>1 DEF Known
<1>2. CASE callback[n]["helloRecv"] = Attaching(p)
  BY <1>2, AttachingKept, ZenonT(60) DEF Known, Routines, Attaching
<1> QED BY <1>1, <1>2, ZenonT(60) DEF Known

\* An end that is finished now was finished before, or its peer is being
\* attached.
LEMMA StageSteps ==
    ASSUME Base, [Next]_vars, NEW n \in Nodes, NEW c \in Conns,
           conn'[c].at # "idle", n \in {conn'[c].from, conn'[c].to}, Stage(n, c)' = 3
    PROVE  /\ conn[c].at # "idle"
           /\ conn'[c].from = conn[c].from /\ conn'[c].to = conn[c].to
           /\ \/ Stage(n, c) = 3
              \/ callback'[n]["helloRecv"] = Attaching(Other(n, c))
              \/ callback'[n]["lowerRecv"] = Attaching(Other(n, c))
<1>0. TypeOK /\ Sessions /\ Progress
  BY StepProgress DEF Base
<1>a. conn \in [Conns -> [at : {"idle", "queued", "waiting", "returned"},
                          from : Nodes \cup {NoNode}, to : Nodes \cup {NoNode}]]
  BY <1>0, ZenonT(60) DEF TypeOK
<1>b. ini \in [Conns -> {0, 1, 3}] /\ resp \in [Conns -> {0, 2, 3}]
  BY <1>0, ZenonT(60) DEF TypeOK
<1>c. callback \in [Nodes -> [Routines -> [at : {"none", "attach", "wake"},
                                           peer : Nodes \cup {NoNode}]]]
  BY <1>0, ZenonT(60) DEF TypeOK
<1> USE DEF calls, sessions
<1>1. conn[c].at # "idle"
  <2> SUFFICES ASSUME conn[c].at = "idle" PROVE FALSE
    BY ZenonT(60)
  <2>1. ini[c] = 0 /\ resp[c] = 0
    BY <1>0, ZenonT(60) DEF Sessions
  <2>2. ini'[c] = 3 \/ resp'[c] = 3
    BY DEF Stage
  <2>3. ASSUME NEW k \in Nodes, HelloSend(k) \/ HelloRecv(k) \/ ResponseRecv(k) \/ FirstData(k)
        PROVE  conn' = conn
    BY <2>3, ZenonT(60) DEF HelloSend, HelloRecv, ResponseRecv, FirstData
  <2>4. ASSUME NEW d \in Conns, NEW k \in Nodes, NEW p \in Nodes, Connect(d, k, p)
        PROVE  ini' = ini /\ resp' = resp
    BY <2>4 DEF Connect
  <2>5. ASSUME NEW d \in Conns, WaitFor(d) \/ Return(d) PROVE ini' = ini /\ resp' = resp
    BY <2>5, ZenonT(60) DEF WaitFor, Return
  <2>6. conn' = conn \/ (ini' = ini /\ resp' = resp)
    BY <2>3, <2>4, <2>5, SessionSteps, ZenonT(60)
  <2>7. ini'[c] # 3 /\ resp'[c] # 3
    BY <2>1, <2>6
  <2> QED BY <2>2, <2>7
<1>2. conn'[c].from = conn[c].from /\ conn'[c].to = conn[c].to /\ conn[c].from # conn[c].to
  BY <1>0, <1>1, ZenonT(60) DEF Progress, Sessions
<1>3. Stage(n, c)' = IF conn[c].from = n THEN ini'[c] ELSE resp'[c]
  BY <1>2, ZenonT(60) DEF Stage
<1> DEFINE New == \/ Stage(n, c) = 3
                  \/ callback'[n]["helloRecv"] = Attaching(Other(n, c))
                  \/ callback'[n]["lowerRecv"] = Attaching(Other(n, c))
<1>4. ASSUME ini' = ini, resp' = resp PROVE New
  BY <1>3, <1>4 DEF Stage
<1>5. ASSUME NEW k \in Nodes, HelloSend(k) PROVE New
  <2>0. PICK d \in Conns : resp' = resp /\ ini' = [ini EXCEPT ![d] = 1]
    BY <1>5, HelloSent
  <2>1. resp' = resp /\ (ini'[c] = 3 => ini[c] = 3)
    BY <1>b, <2>0
  <2> QED BY <1>3, <2>1, ZenonT(60) DEF Stage
<1>6. ASSUME NEW k \in Nodes, HelloRecv(k) PROVE New
  <2>0. PICK d \in Conns : ini' = ini /\ resp' = [resp EXCEPT ![d] = 2]
    BY <1>6, HelloTaken
  <2>1. ini' = ini /\ (resp'[c] = 3 => resp[c] = 3)
    BY <1>b, <2>0
  <2> QED BY <1>3, <2>1, ZenonT(60) DEF Stage
<1>7. ASSUME NEW k \in Nodes, ResponseRecv(k) PROVE New
  <2>1. PICK d \in Conns : /\ conn[d].from = k /\ resp' = resp
                           /\ ini' = [ini EXCEPT ![d] = 3]
                           /\ callback' = [callback EXCEPT ![k]["helloRecv"] =
                                             [at |-> "attach", peer |-> conn[d].to]]
    BY <1>7, ResponseTaken
  <2>2. \A x \in Conns : x # d => ini'[x] = ini[x]
    BY <1>b, <2>1, ZenonT(60)
  <2>3. callback'[k]["helloRecv"] = Attaching(conn[d].to)
    BY <1>c, <2>1, ZenonT(60) DEF Attaching, Routines
  <2>4. CASE c = d /\ n = k
    BY <2>1, <2>3, <2>4, ZenonT(60) DEF Other
  <2>5. CASE c # d \/ n # k
    BY <1>3, <2>1, <2>2, <2>5, ZenonT(60) DEF Stage
  <2> QED BY <2>4, <2>5, ZenonT(60)
<1>8. ASSUME NEW k \in Nodes, FirstData(k) PROVE New
  <2>1. PICK d \in Conns : /\ conn[d].to = k /\ conn[d].from # k /\ ini' = ini
                           /\ resp' = [resp EXCEPT ![d] = 3]
                           /\ callback' = [callback EXCEPT ![k]["lowerRecv"] =
                                             [at |-> "attach", peer |-> conn[d].from]]
    BY <1>8, FirstDataTaken
  <2>2. Other(k, d) = conn[d].from
    BY <2>1, ZenonT(60) DEF Other
  <2>3. \A x \in Conns : x # d => resp'[x] = resp[x]
    BY <1>b, <2>1, ZenonT(60)
  <2>4. callback'[k]["lowerRecv"] = Attaching(Other(k, d))
    BY <1>c, <2>1, <2>2, ZenonT(60) DEF Attaching, Routines
  <2>5. CASE c = d /\ n = k
    BY <2>4, <2>5
  <2>6. CASE c # d \/ n # k
    <3>1. c = d => conn[c].from = n
      BY <1>2, <2>1, <2>6
    <3> QED BY <1>3, <2>1, <2>3, <3>1, ZenonT(60) DEF Stage
  <2> QED BY <2>5, <2>6
<1>9. New
  <2>1. ASSUME NEW d \in Conns, NEW k \in Nodes, NEW p \in Nodes, Connect(d, k, p) PROVE New
    BY <1>4, <2>1 DEF Connect
  <2>2. ASSUME NEW d \in Conns, WaitFor(d) \/ Return(d) PROVE New
    BY <1>4, <2>2 DEF WaitFor, Return
  <2> QED BY <1>4, <1>5, <1>6, <1>7, <1>8, <2>1, <2>2, SessionSteps, ZenonT(60)
<1> QED BY <1>1, <1>2, <1>9, ZenonT(60)

\* What is put into lowerMuxQ is from a peer that is known.
LEMMA MuxSteps ==
    ASSUME Base, Slots, [Next]_vars, NEW n \in Nodes, NEW p \in Range(lowerMuxQ'[n])
    PROVE  p \in Nodes /\ Known(n, p)
<1>0. lowerMuxQ \in [Nodes -> Seq(Nodes)] /\ lowerMuxQ[n] \in Seq(Nodes)
  BY ZenonT(60) DEF Base, TypeOK
<1>1. \A x \in Range(lowerMuxQ[n]) : x \in Nodes /\ Known(n, x)
  BY <1>0, QueueFacts DEF Slots
<1>2. ASSUME NEW k \in Nodes, NEW x \in Nodes, Known(k, x), lowerMuxQ' = Put(lowerMuxQ, k, x)
      PROVE  p \in Nodes /\ Known(n, p)
  <2> USE <1>2
  <2>1. CASE k = n
    <3> USE <2>1
    <3>1. Range(Put(lowerMuxQ, n, x)[n]) \subseteq Range(lowerMuxQ[n]) \cup {x}
      BY <1>0, PutNode, ZenonT(60)
    <3>2. p = x \/ p \in Range(lowerMuxQ[n])
      BY <3>1
    <3> QED BY <1>1, <3>2
  <2>2. CASE k # n
    <3>1. lowerMuxQ'[n] = lowerMuxQ[n]
      BY <1>0, <2>2 DEF Put
    <3> QED BY <1>1, <3>1
  <2> QED BY <2>1, <2>2, ZenonT(60)
<1>3. ASSUME lowerMuxQ' = lowerMuxQ PROVE p \in Nodes /\ Known(n, p)
  BY <1>1, <1>3, ZenonT(60)
<1>4. ASSUME NEW k \in Nodes, LowerMux(k) PROVE p \in Nodes /\ Known(n, p)
  <2> USE <1>4
  <2>1. Range(Get(lowerMuxQ, k)[n]) \subseteq Range(lowerMuxQ[n])
    BY <1>0, GetRange, ZenonT(60) DEF LowerMux
  <2>2. lowerMuxQ' = Get(lowerMuxQ, k)
    BY DEF LowerMux
  <2> QED BY <1>1, <2>1, <2>2
<1>5. ASSUME NEW k \in Nodes, Data(k) PROVE p \in Nodes /\ Known(n, p)
  <2> USE <1>5
  <2>1. PICK c \in Conns : /\ c = Head(lowerRecvQ[k]).c
                           /\ k \in {conn[c].from, conn[c].to}
                           /\ conn[c].at # "idle" /\ conn[c].from \in Nodes /\ conn[c].to \in Nodes
    <3>1. DataInHand(k)
      BY DEF Data
    <3> QED BY <3>1, DataTaken, ZenonT(60)
  <2>2. Stage(k, c) = 3 /\ callback[k]["lowerRecv"] = NoCallback
    BY <2>1, ZenonT(60) DEF Data, DataInHand
  <2>3. callback[k]["lowerRecv"] # Attaching(Other(k, c))
    BY <2>2 DEF NoCallback, Attaching
  <2>4. Known(k, Other(k, c))
    BY <2>1, <2>2, <2>3, ZenonT(60) DEF Slots
  <2>5. Other(k, c) \in Nodes /\ lowerMuxQ' = Put(lowerMuxQ, k, Other(k, c))
    BY <2>1, ZenonT(60) DEF Other, Data
  <2> QED BY <1>2, <2>4, <2>5
<1>6. ASSUME NEW k \in Nodes, NEW r \in Routines, CallbackWake(k, r)
      PROVE  p \in Nodes /\ Known(n, p)
  <2> USE <1>6
  <2>1. CASE r = "lowerRecv"
    <3> USE <2>1
    <3>1. callback[k][r].peer \in Nodes
      BY ZenonT(60) DEF CallbackWake, Base, Callbacks
    <3>2. Known(k, callback[k][r].peer)
      BY ZenonT(60) DEF CallbackWake, Slots
    <3>3. lowerMuxQ' = Put(lowerMuxQ, k, callback[k][r].peer)
      BY DEF CallbackWake, AfterCallback
    <3> QED BY <1>2, <3>1, <3>2, <3>3, ZenonT(60)
  <2>2. CASE r # "lowerRecv"
    BY <1>3, <2>2 DEF CallbackWake, AfterCallback
  <2> QED BY <2>1, <2>2, ZenonT(60)
<1>7. \/ \E k \in Nodes : LowerMux(k) \/ Data(k)
      \/ \E k \in Nodes, r \in Routines : CallbackWake(k, r)
      \/ lowerMuxQ' = lowerMuxQ
  BY ZenonT(60) DEF Next, vars, queues, Connect, WaitFor, Return, HelloSend, HelloRecv, ResponseRecv, Recv,
         Lose, Callback, CallbackAttach, Send, LowerSend, LowerRecv, LowerRecvHello, DataUnknown,
         FirstData
<1> QED BY <1>3, <1>4, <1>5, <1>6, <1>7

LEMMA StepKeepsSlots == Base /\ Slots /\ [Next]_vars => Slots'
<1> SUFFICES ASSUME Base, Slots, [Next]_vars PROVE Slots'
  OBVIOUS
<1>0. callback \in [Nodes -> [Routines -> [at : {"none", "attach", "wake"},
                                           peer : Nodes \cup {NoNode}]]]
  BY DEF Base, TypeOK
<1>1. ASSUME NEW n \in Nodes PROVE Len(attached'[n]) <= PeerSlots
  <2>1. ASSUME NEW k \in Nodes, NEW r \in Routines, CallbackAttach(k, r)
        PROVE  Len(attached'[n]) <= PeerSlots
    <3> USE <2>1
    <3>1. CASE k = n
      BY <3>1, AttachSlots, ZenonT(60)
    <3>2. CASE k # n
      <4>1. attached'[n] = attached[n]
        BY <3>2, AttachSlots, ZenonT(60)
      <4> QED BY <4>1, ZenonT(60) DEF Slots
    <3> QED BY <3>1, <3>2
  <2>2. CASE UNCHANGED attached
    BY <2>2 DEF Slots
  <2> QED BY <2>1, <2>2, SlotSteps
<1>2. ASSUME NEW n \in Nodes, NEW p \in Range(lowerMuxQ'[n]) PROVE Known(n, p)'
  BY MuxSteps, KnownKept, ZenonT(60)
<1>3. ASSUME NEW n \in Nodes, NEW c \in Conns, conn'[c].at # "idle",
             n \in {conn'[c].from, conn'[c].to}, Stage(n, c)' = 3
      PROVE  (Known(n, Other(n, c)) \/ callback[n]["lowerRecv"] = Attaching(Other(n, c)))'
  <2> USE <1>3
  <2>1. /\ conn[c].at # "idle"
        /\ conn'[c].from = conn[c].from /\ conn'[c].to = conn[c].to
        /\ \/ Stage(n, c) = 3
           \/ callback'[n]["helloRecv"] = Attaching(Other(n, c))
           \/ callback'[n]["lowerRecv"] = Attaching(Other(n, c))
    BY StageSteps, ZenonT(60)
  <2>2. conn[c].from \in Nodes /\ conn[c].to \in Nodes
    BY <2>1 DEF Base, WaitInv
  <2>3. PICK p \in Nodes : p = Other(n, c)
    BY <2>2, ZenonT(60) DEF Other
  <2>4. Other(n, c)' = p
    BY <2>1, <2>3 DEF Other
  <2>5. Known(n, p)' \/ callback'[n]["lowerRecv"] = Attaching(p)
    <3>1. CASE Known(n, p)
      BY <3>1, KnownKept, ZenonT(60)
    <3>2. CASE callback[n]["lowerRecv"] = Attaching(p)
      BY <3>2, AttachingKept, ZenonT(60) DEF Known, Routines
    <3>3. CASE callback'[n]["helloRecv"] = Attaching(p)
      BY <3>3 DEF Known, Attaching
    <3>4. Stage(n, c) = 3 => Known(n, p) \/ callback[n]["lowerRecv"] = Attaching(p)
      BY <2>1, <2>3, ZenonT(60) DEF Slots
    <3> QED BY <2>1, <2>3, <3>1, <3>2, <3>3, <3>4, ZenonT(60)
  <2> QED BY <2>4, <2>5 DEF Known, Attaching
<1>4. ASSUME NEW n \in Nodes, callback'[n]["lowerRecv"].at = "wake"
      PROVE  Known(n, callback[n]["lowerRecv"].peer)'
  <2> USE <1>4
  <2>1. "lowerRecv" \in Routines
    BY ZenonT(60) DEF Routines
  <2>2. CASE callback'[n]["lowerRecv"] = callback[n]["lowerRecv"]
    <3> USE <2>2
    <3>1. PICK p \in Nodes : p = callback[n]["lowerRecv"].peer
      BY <2>1, ZenonT(60) DEF Base, Callbacks
    <3>2. Known(n, p)
      BY <3>1, ZenonT(60) DEF Slots
    <3>3. Known(n, p)'
      BY <3>2, KnownKept
    <3> QED BY <3>1, <3>3 DEF Known, Attaching
  <2>3. ASSUME NEW k \in Nodes, NEW r \in Routines, CallbackAttach(k, r)
        PROVE  Known(n, callback[n]["lowerRecv"].peer)'
    <3> USE <2>3
    <3>1. CASE k = n /\ r = "lowerRecv"
      <4> USE <3>1
      <4>1. callback'[n]["lowerRecv"].peer = callback[n]["lowerRecv"].peer
        BY <1>0, <2>1 DEF CallbackAttach
      <4>2. \/ callback[n]["lowerRecv"].peer \in Range(attached'[n])
            \/ Len(attached'[n]) = PeerSlots
        BY AttachSlots, ZenonT(60)
      <4> QED BY <4>1, <4>2 DEF Known
    <3>2. CASE k # n \/ r # "lowerRecv"
      <4>1. callback'[n]["lowerRecv"] = callback[n]["lowerRecv"]
        BY <1>0, <2>1, <3>2, ZenonT(60) DEF CallbackAttach
      <4> QED BY <2>2, <4>1
    <3> QED BY <3>1, <3>2, ZenonT(60)
  <2>4. ASSUME NEW k \in Nodes, ResponseRecv(k)
        PROVE  callback'[n]["lowerRecv"] = callback[n]["lowerRecv"]
    BY <1>0, <2>1, <2>4, ZenonT(60) DEF ResponseRecv
  <2>5. ASSUME NEW k \in Nodes, FirstData(k)
        PROVE  callback'[n]["lowerRecv"] = callback[n]["lowerRecv"]
    BY <1>0, <2>1, <2>5, ZenonT(60) DEF FirstData
  <2>6. ASSUME NEW k \in Nodes, NEW r \in Routines, CallbackWake(k, r)
        PROVE  callback'[n]["lowerRecv"] = callback[n]["lowerRecv"]
    BY <1>0, <2>1, <2>6, ZenonT(60) DEF CallbackWake, NoCallback
  <2> QED BY <2>2, <2>3, <2>4, <2>5, <2>6, CallbackSteps, ZenonT(60)
<1> QED BY <1>1, <1>2, <1>3, <1>4, ZenonT(60) DEF Slots

LEMMA InitSlots == Init => Slots
<1> SUFFICES ASSUME Init PROVE Slots
  OBVIOUS
<1>1. Range(<<>>) = {} /\ Len(<<>>) = 0
  BY DEF Range
<1>2. \A n \in Nodes, c \in Conns : Stage(n, c) # 3
  BY DEF Init, Stage
<1>3. \A n \in Nodes : callback[n]["lowerRecv"].at # "wake"
  BY DEF Init, NoCallback, Routines
<1> QED BY <1>1, <1>2, <1>3, PeeringAssumption DEF Init, Slots

\* A packet gets to the forwarder only when its previous hop has a slot, is
\* being given one by helloRecv, or no slot is left: for any number of nodes,
\* sessions and slots.
THEOREM PreviousHopsKnown == Spec => []PrevHopKnown
<1>1. Slots => PrevHopKnown
  BY ZenonT(60) DEF Slots, PrevHopKnown, Known, Attaching
<1> QED
  BY <1>1, InitBase, InitSlots, StepKeepsBase, StepKeepsSlots, PTL DEF Spec
=============================================================================
