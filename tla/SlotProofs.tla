----------------------------- MODULE SlotProofs -----------------------------
(***************************************************************************)
(* The proof that a session takes one slot of the forwarder at either      *)
(* node, for any nodes, sessions and slots.  It rests on the handshake:    *)
(* the hello and the response of a session are at most at one place each,  *)
(* and at none once they have been taken.                                  *)
(***************************************************************************)
EXTENDS PeeringProofs, FiniteSetTheorems

\* The provers that a leaf is tried with, in turn, unless it names its own.
USE SMT, Zenon, SMTT(30), ZenonT(60), Z3T(30)

Of(m, t, c) == m.type = t /\ m.c = c

None(q, t, c) == \A n \in Nodes : \A i \in 1..Len(q[n]) : ~Of(q[n][i], t, c)

Sole(q, t, c) ==
    \A n, k \in Nodes : \A i \in 1..Len(q[n]), j \in 1..Len(q[k]) :
        Of(q[n][i], t, c) /\ Of(q[k][j], t, c) => n = k /\ i = j

Gone(t, c) ==
    None(lowerRecvQ, t, c) /\ None(helloRecvQ, t, c) /\ \A m \in net : ~Of(m, t, c)

Alone(t, c) ==
    /\ Sole(lowerRecvQ, t, c) /\ Sole(helloRecvQ, t, c)
    /\ None(lowerRecvQ, t, c) \/ None(helloRecvQ, t, c)
    /\ \A m \in net : Of(m, t, c) => /\ None(lowerRecvQ, t, c) /\ None(helloRecvQ, t, c)
                                     /\ \A x \in net : Of(x, t, c) => x = m

Handshakes ==
    \A c \in Conns : /\ Alone("hello", c) /\ Alone("response", c)
                     /\ resp[c] # 0 => Gone("hello", c)
                     /\ ini[c] = 3 => resp[c] # 0 /\ Gone("response", c)

Finished(n) == {c \in Conns : n \in {conn[c].from, conn[c].to} /\ Stage(n, c) = 3}
AttachingAt(n) == {r \in Routines : callback[n][r].at = "attach"}

\* What is left of them when the head of a queue is taken.
LEMMA GetSole ==
    ASSUME NEW q \in [Nodes -> Seq(Msg)], NEW n \in Nodes, q[n] # <<>>, NEW t, NEW c
    PROVE  /\ None(q, t, c) => None(Get(q, n), t, c)
           /\ Sole(q, t, c) => Sole(Get(q, n), t, c)
           /\ Sole(q, t, c) /\ Of(Head(q[n]), t, c) => None(Get(q, n), t, c)
           /\ Of(Head(q[n]), t, c) => ~None(q, t, c)
<1> DEFINE g == Get(q, n)
           at(k, i) == IF k = n THEN i + 1 ELSE i
<1>1. g[n] = Tail(q[n]) /\ \A k \in Nodes : k # n => g[k] = q[k]
  BY DEF Get
<1>2. q[n] \in Seq(Msg) /\ Len(q[n]) \in Nat \ {0} /\ Head(q[n]) = q[n][1] /\ 1 \in 1..Len(q[n])
  OBVIOUS
<1>3. Len(Tail(q[n])) = Len(q[n]) - 1 /\ \A i \in 1..(Len(q[n]) - 1) : Tail(q[n])[i] = q[n][i + 1]
  BY <1>2
<1>4. ASSUME NEW k \in Nodes, NEW i \in 1..Len(g[k])
      PROVE  /\ i \in Nat \ {0} /\ at(k, i) \in 1..Len(q[k]) /\ g[k][i] = q[k][at(k, i)]
             /\ k = n => at(k, i) # 1
  <2>1. CASE k = n
    BY <1>1, <1>2, <1>3, <2>1
  <2>2. CASE k # n
    BY <1>1, <2>2
  <2> QED BY <2>1, <2>2
<1> HIDE DEF g
<1>5. ASSUME None(q, t, c) PROVE None(g, t, c)
  <2> SUFFICES ASSUME NEW k \in Nodes, NEW i \in 1..Len(g[k]), Of(g[k][i], t, c) PROVE FALSE
    BY DEF None
  <2>1. PICK a \in 1..Len(q[k]) : g[k][i] = q[k][a]
    BY <1>4, ZenonT(60)
  <2> QED BY <1>5, <2>1, ZenonT(60) DEF None
<1>6. ASSUME Sole(q, t, c) PROVE Sole(g, t, c)
  <2> SUFFICES ASSUME NEW k \in Nodes, NEW l \in Nodes, NEW i \in 1..Len(g[k]), NEW j \in 1..Len(g[l]),
                      Of(g[k][i], t, c), Of(g[l][j], t, c)
               PROVE  k = l /\ i = j
    BY DEF Sole
  <2>1. PICK a \in 1..Len(q[k]) : g[k][i] = q[k][a] /\ a = at(k, i)
    BY <1>4
  <2>2. PICK b \in 1..Len(q[l]) : g[l][j] = q[l][b] /\ b = at(l, j)
    BY <1>4
  <2>0. Of(q[k][a], t, c) /\ Of(q[l][b], t, c)
    BY <2>1, <2>2
  <2>3. k = l /\ a = b
    BY <1>6, <2>0, ZenonT(60) DEF Sole
  <2>4. i \in Nat /\ j \in Nat
    BY <1>4
  <2> QED BY <2>1, <2>2, <2>3, <2>4
<1>7. ASSUME Sole(q, t, c), Of(q[n][1], t, c) PROVE None(g, t, c)
  <2> SUFFICES ASSUME NEW k \in Nodes, NEW i \in 1..Len(g[k]), Of(g[k][i], t, c) PROVE FALSE
    BY DEF None
  <2>a. at(k, i) \in 1..Len(q[k]) /\ g[k][i] = q[k][at(k, i)] /\ (k = n => at(k, i) # 1)
    BY <1>4
  <2> HIDE DEF at
  <2>1. PICK a \in 1..Len(q[k]) : g[k][i] = q[k][a] /\ (k = n => a # 1)
    BY <2>a
  <2>2. k = n /\ a = 1
    BY <1>2, <1>7, <2>1, ZenonT(60) DEF Sole
  <2> QED BY <2>1, <2>2
<1> QED BY <1>2, <1>5, <1>6, <1>7 DEF g, None

\* And when one is put into it.
LEMMA PutSole ==
    ASSUME NEW q \in [Nodes -> Seq(Msg)], NEW n \in Nodes, NEW x \in Msg, NEW t, NEW c
    PROVE  /\ None(q, t, c) /\ ~Of(x, t, c) => None(Put(q, n, x), t, c)
           /\ Sole(q, t, c) /\ ~Of(x, t, c) => Sole(Put(q, n, x), t, c)
           /\ None(q, t, c) => Sole(Put(q, n, x), t, c)
<1> DEFINE p == Put(q, n, x)
           e == Len(q[n]) + 1
<1>1. p[n] = Append(q[n], x) /\ \A k \in Nodes : k # n => p[k] = q[k]
  BY DEF Put
<1>2. q[n] \in Seq(Msg) /\ Len(q[n]) \in Nat
  OBVIOUS
<1>3. /\ Len(Append(q[n], x)) = e /\ Append(q[n], x)[e] = x
      /\ \A i \in 1..Len(q[n]) : Append(q[n], x)[i] = q[n][i]
  BY <1>2
<1>4. ASSUME NEW k \in Nodes, NEW i \in 1..Len(p[k])
      PROVE  \/ i \in 1..Len(q[k]) /\ p[k][i] = q[k][i]
             \/ k = n /\ i = e /\ p[k][i] = x
  <2>1. CASE k = n
    BY <1>1, <1>2, <1>3, <2>1
  <2>2. CASE k # n
    BY <1>1, <2>2
  <2> QED BY <2>1, <2>2
<1> HIDE DEF p, e
<1>5. None(q, t, c) /\ ~Of(x, t, c) => None(p, t, c)
  BY <1>4 DEF None
<1>6. ASSUME Sole(q, t, c), ~Of(x, t, c) PROVE Sole(p, t, c)
  <2>1. \A k \in Nodes : \A i \in 1..Len(p[k]) :
            Of(p[k][i], t, c) => i \in 1..Len(q[k]) /\ p[k][i] = q[k][i]
    BY <1>4, <1>6
  <2> SUFFICES ASSUME NEW k \in Nodes, NEW l \in Nodes, NEW i \in 1..Len(p[k]), NEW j \in 1..Len(p[l]),
                      Of(p[k][i], t, c), Of(p[l][j], t, c)
               PROVE  k = l /\ i = j
    BY DEF Sole
  <2>2. i \in 1..Len(q[k]) /\ Of(q[k][i], t, c) /\ j \in 1..Len(q[l]) /\ Of(q[l][j], t, c)
    BY <2>1
  <2> QED BY <1>6, <2>2, ZenonT(60) DEF Sole
<1>7. ASSUME None(q, t, c) PROVE Sole(p, t, c)
  <2>1. \A k \in Nodes : \A i \in 1..Len(p[k]) : Of(p[k][i], t, c) => k = n /\ i = e
    BY <1>4, <1>7 DEF None
  <2> QED BY <2>1, ZenonT(60) DEF Sole
<1> QED BY <1>5, <1>6, <1>7 DEF p

\* A packet is put on its way while no other of its kind is.
LEMMA NewPacket ==
    ASSUME NEW t, NEW c, NEW h, Alone(t, c), ~Of(h, t, c) \/ Gone(t, c),
           net' = net \cup {h}, lowerRecvQ' = lowerRecvQ,
           None(helloRecvQ, t, c) => None(helloRecvQ', t, c),
           Sole(helloRecvQ, t, c) => Sole(helloRecvQ', t, c)
    PROVE  /\ Alone(t, c)'
           /\ Gone(t, c) /\ ~Of(h, t, c) => Gone(t, c)'
<1> DEFINE NL == None(lowerRecvQ, t, c)
           NH == None(helloRecvQ', t, c)
<1>1. /\ Sole(lowerRecvQ', t, c) /\ Sole(helloRecvQ', t, c)
      /\ NL \/ NH
      /\ None(lowerRecvQ', t, c) <=> NL
  BY DEF Alone
<1>2. ASSUME NEW m \in net', Of(m, t, c)
      PROVE  NL /\ NH /\ \A x \in net' : Of(x, t, c) => x = m
  BY <1>2, ZenonT(60) DEF Alone, Gone
<1>3. Gone(t, c) /\ ~Of(h, t, c) => NL /\ NH /\ \A m \in net' : ~Of(m, t, c)
  BY ZenonT(60) DEF Gone
<1> HIDE DEF NL, NH
<1> QED BY <1>1, <1>2, <1>3, ZenonT(60) DEF Alone, Gone, NL, NH

\* The steps that move a packet, or put data on its way.
Moving ==
    \/ \E m \in net : Recv(m) \/ Lose(m)
    \/ \E n \in Nodes, c \in Conns : LowerSend(n, c)
    \/ \E n \in Nodes : LowerRecvHello(n) \/ DataUnknown(n) \/ FirstData(n) \/ Data(n)
    \/ UNCHANGED <<net, lowerRecvQ, helloRecvQ>>

LEMMA PacketSteps ==
    ASSUME [Next]_vars
    PROVE  Moving \/ \E n \in Nodes : HelloSend(n) \/ HelloRecv(n) \/ ResponseRecv(n)
BY ZenonT(60) DEF Moving, Next, vars, queues, Connect, WaitFor, Return, Callback, CallbackAttach, CallbackWake,
       Send, LowerRecv, LowerMux

LEMMA MovingKeeps ==
    ASSUME TypeOK, Moving, NEW t \in {"hello", "response"}, NEW c \in Conns, Alone(t, c)
    PROVE  Alone(t, c)' /\ (Gone(t, c) => Gone(t, c)')
<1>0. /\ lowerRecvQ \in [Nodes -> Seq(Msg)] /\ helloRecvQ \in [Nodes -> Seq(Msg)]
      /\ net \subseteq Msg
  BY DEF TypeOK
<1>1. ASSUME NEW m \in net, Recv(m) PROVE Alone(t, c)' /\ (Gone(t, c) => Gone(t, c)')
  <2>1. m \in Msg /\ m.to \in Nodes
    BY <1>0, <1>1, MsgFields
  <2>2. net' = net \ {m} /\ lowerRecvQ' = Put(lowerRecvQ, m.to, m) /\ helloRecvQ' = helloRecvQ
    BY <1>1 DEF Recv
  <2>3. /\ None(lowerRecvQ, t, c) /\ ~Of(m, t, c) => None(lowerRecvQ', t, c)
        /\ Sole(lowerRecvQ, t, c) /\ ~Of(m, t, c) => Sole(lowerRecvQ', t, c)
        /\ None(lowerRecvQ, t, c) => Sole(lowerRecvQ', t, c)
    BY <1>0, <2>1, <2>2, PutSole, ZenonT(60)
  <2>4. CASE Of(m, t, c)
    BY <2>2, <2>3, <2>4, ZenonT(60) DEF Alone, Gone
  <2>5. CASE ~Of(m, t, c)
    BY <2>2, <2>3, <2>5, ZenonT(60) DEF Alone, Gone
  <2> QED BY <2>4, <2>5
<1>2. ASSUME NEW m \in net, Lose(m) PROVE Alone(t, c)' /\ (Gone(t, c) => Gone(t, c)')
  <2>1. net' = net \ {m} /\ lowerRecvQ' = lowerRecvQ /\ helloRecvQ' = helloRecvQ
    BY <1>2 DEF Lose, queues
  <2> QED BY <2>1, ZenonT(60) DEF Alone, Gone
<1>3. ASSUME NEW n \in Nodes, NEW d \in Conns, LowerSend(n, d)
      PROVE  Alone(t, c)' /\ (Gone(t, c) => Gone(t, c)')
  <2>1. lowerRecvQ' = lowerRecvQ /\ helloRecvQ' = helloRecvQ
    BY <1>3 DEF LowerSend
  <2>2. PICK h : /\ h = [type |-> "data", c |-> d, to |-> Head(lowerSendQ[n]).to, num |-> Head(lowerSendQ[n]).num]
                 /\ net' = net \/ net' = net \cup {h}
    BY <1>3, ZenonT(60) DEF LowerSend
  <2>3. ~Of(h, t, c)
    BY <2>2 DEF Of
  <2>4. CASE net' = net
    BY <2>1, <2>4, ZenonT(60) DEF Alone, Gone
  <2>5. CASE net' = net \cup {h}
    BY <2>1, <2>3, <2>5, NewPacket
  <2> QED BY <2>2, <2>4, <2>5
<1>4. ASSUME NEW n \in Nodes, lowerRecvQ[n] # <<>>, lowerRecvQ' = Get(lowerRecvQ, n), net' = net
      PROVE  /\ None(lowerRecvQ, t, c) => None(lowerRecvQ', t, c)
             /\ Sole(lowerRecvQ, t, c) => Sole(lowerRecvQ', t, c)
             /\ Sole(lowerRecvQ, t, c) /\ Of(Head(lowerRecvQ[n]), t, c) => None(lowerRecvQ', t, c)
             /\ Of(Head(lowerRecvQ[n]), t, c) => ~None(lowerRecvQ, t, c)
  BY <1>0, <1>4, GetSole, ZenonT(60)
<1>5. ASSUME NEW n \in Nodes, LowerRecvHello(n) PROVE Alone(t, c)' /\ (Gone(t, c) => Gone(t, c)')
  <2> DEFINE m == Head(lowerRecvQ[n])
  <2>1. /\ lowerRecvQ[n] # <<>> /\ lowerRecvQ' = Get(lowerRecvQ, n) /\ net' = net
        /\ helloRecvQ' = Put(helloRecvQ, n, m)
    BY <1>5 DEF LowerRecvHello
  <2>2. m \in Msg
    BY <1>0, <2>1
  <2>3. /\ None(helloRecvQ, t, c) /\ ~Of(m, t, c) => None(helloRecvQ', t, c)
        /\ Sole(helloRecvQ, t, c) /\ ~Of(m, t, c) => Sole(helloRecvQ', t, c)
        /\ None(helloRecvQ, t, c) => Sole(helloRecvQ', t, c)
    BY <1>0, <2>1, <2>2, PutSole, ZenonT(60)
  <2>4. /\ None(lowerRecvQ, t, c) => None(lowerRecvQ', t, c)
        /\ Sole(lowerRecvQ, t, c) => Sole(lowerRecvQ', t, c)
        /\ Sole(lowerRecvQ, t, c) /\ Of(m, t, c) => None(lowerRecvQ', t, c)
        /\ Of(m, t, c) => ~None(lowerRecvQ, t, c)
    BY <1>4, <2>1, ZenonT(60)
  <2> HIDE DEF m
  <2>5. CASE Of(m, t, c)
    BY <2>1, <2>3, <2>4, <2>5, ZenonT(60) DEF Alone, Gone
  <2>6. CASE ~Of(m, t, c)
    BY <2>1, <2>3, <2>4, <2>6, ZenonT(60) DEF Alone, Gone
  <2> QED BY <2>5, <2>6
<1>6. ASSUME NEW n \in Nodes, DataUnknown(n) \/ FirstData(n) \/ Data(n)
      PROVE  Alone(t, c)' /\ (Gone(t, c) => Gone(t, c)')
  <2>1. /\ lowerRecvQ[n] # <<>> /\ lowerRecvQ' = Get(lowerRecvQ, n) /\ net' = net
        /\ helloRecvQ' = helloRecvQ
    BY <1>6, ZenonT(60) DEF DataUnknown, FirstData, Data, DataInHand
  <2> QED BY <1>4, <2>1, ZenonT(60) DEF Alone, Gone
<1>7. CASE UNCHANGED <<net, lowerRecvQ, helloRecvQ>>
  BY <1>7, ZenonT(60) DEF Alone, Gone
<1> QED BY <1>1, <1>2, <1>3, <1>5, <1>6, <1>7, ZenonT(60) DEF Moving

\* A session that has not come so far has no such packets.
LEMMA GoneEarly ==
    ASSUME Base, NEW c \in Conns
    PROVE  /\ ini[c] = 0 => Gone("hello", c)
           /\ resp[c] = 0 => Gone("response", c)
<1>1. \A n \in Nodes : /\ \A i \in 1..Len(lowerRecvQ[n]) : lowerRecvQ[n][i] \in Range(lowerRecvQ[n])
                       /\ \A i \in 1..Len(helloRecvQ[n]) : helloRecvQ[n][i] \in Range(helloRecvQ[n])
  BY DEF Base, TypeOK, Range
<1>2. /\ \A m \in net : MsgOK(m)
      /\ \A n \in Nodes : /\ \A i \in 1..Len(lowerRecvQ[n]) : MsgOK(lowerRecvQ[n][i])
                          /\ \A i \in 1..Len(helloRecvQ[n]) : MsgOK(helloRecvQ[n][i])
  BY <1>1, ZenonT(60) DEF Base, Packets
<1>3. \A m : /\ MsgOK(m) /\ Of(m, "hello", c) => ini[c] # 0
             /\ MsgOK(m) /\ Of(m, "response", c) => resp[c] # 0
  BY DEF MsgOK, Of
<1> QED BY <1>2, <1>3, ZenonT(60) DEF Gone, None

\* Taking the hello or the response of a session takes the only one.
LEMMA HeadTaken ==
    ASSUME TypeOK, NEW n \in Nodes, helloRecvQ[n] # <<>>, NEW t, NEW c, Alone(t, c),
           Of(Head(helloRecvQ[n]), t, c)
    PROVE  /\ ~Gone(t, c) /\ None(lowerRecvQ, t, c) /\ None(Get(helloRecvQ, n), t, c)
           /\ \A m \in net : ~Of(m, t, c)
<1>1. helloRecvQ \in [Nodes -> Seq(Msg)]
  BY DEF TypeOK
<1>2. None(Get(helloRecvQ, n), t, c) /\ ~None(helloRecvQ, t, c)
  BY <1>1, GetSole, ZenonT(60) DEF Alone
<1> QED BY <1>2, ZenonT(60) DEF Alone, Gone

LEMMA StepKeepsHandshakes == Base /\ Handshakes /\ [Next]_vars => Handshakes'
<1> SUFFICES ASSUME Base, Handshakes, [Next]_vars PROVE Handshakes'
  OBVIOUS
<1>0. TypeOK /\ Sessions /\ helloRecvQ \in [Nodes -> Seq(Msg)]
  BY ZenonT(60) DEF Base, TypeOK
<1>a. ini \in [Conns -> {0, 1, 3}] /\ resp \in [Conns -> {0, 2, 3}]
  BY <1>0, ZenonT(60) DEF TypeOK
<1>b. \A c \in Conns : /\ Alone("hello", c) /\ Alone("response", c)
                       /\ resp[c] # 0 => Gone("hello", c)
                       /\ ini[c] = 3 => resp[c] # 0 /\ Gone("response", c)
  BY DEF Handshakes
<1>c. ASSUME NEW n \in Nodes, helloRecvQ[n] # <<>>, helloRecvQ' = Get(helloRecvQ, n), NEW t, NEW c
      PROVE  /\ None(helloRecvQ, t, c) => None(helloRecvQ', t, c)
             /\ Sole(helloRecvQ, t, c) => Sole(helloRecvQ', t, c)
  BY <1>0, <1>c, GetSole, ZenonT(60)
<1>1. ASSUME NEW n \in Nodes, HelloSend(n) PROVE Handshakes'
  <2>1. PICK d \in Conns : /\ conn[d].to \in Nodes /\ ini[d] = 0
                           /\ ini' = [ini EXCEPT ![d] = 1] /\ resp' = resp
                           /\ net' = net \cup {[type |-> "hello", c |-> d, to |-> conn[d].to]}
    BY <1>1, HelloSent
  <2>2. PICK h : h = [type |-> "hello", c |-> d, to |-> conn[d].to]
    BY ZenonT(60)
  <2>3. lowerRecvQ' = lowerRecvQ /\ helloRecvQ' = helloRecvQ /\ net' = net \cup {h}
    BY <1>1, <2>1, <2>2 DEF HelloSend
  <2>4. \A c \in Conns : ~Of(h, "response", c) /\ (c # d => ~Of(h, "hello", c))
    BY <2>2 DEF Of
  <2>5. Gone("hello", d) /\ resp[d] = 0
    BY <1>0, <2>1, GoneEarly DEF Sessions
  <2>6. ASSUME NEW c \in Conns
        PROVE  /\ Alone("hello", c)' /\ Alone("response", c)'
               /\ c # d /\ Gone("hello", c) => Gone("hello", c)'
               /\ Gone("response", c) => Gone("response", c)'
    BY <1>b, <2>3, <2>4, <2>5, NewPacket, ZenonT(60)
  <2>7. \A c \in Conns : resp'[c] = resp[c] /\ (ini'[c] = 3 => ini[c] = 3)
    BY <1>a, <2>1
  <2> QED BY <1>b, <2>5, <2>6, <2>7, ZenonT(60) DEF Handshakes
<1>2. ASSUME NEW n \in Nodes, HelloRecv(n) PROVE Handshakes'
  <2>1. PICK d \in Conns : /\ d = Head(helloRecvQ[n]).c
                           /\ resp' = [resp EXCEPT ![d] = 2] /\ ini' = ini
                           /\ net' = net \cup {[type |-> "response", c |-> d, to |-> conn[d].from]}
    BY <1>2, HelloTaken
  <2>2. PICK h : h = [type |-> "response", c |-> d, to |-> conn[d].from]
    BY ZenonT(60)
  <2>3. /\ lowerRecvQ' = lowerRecvQ /\ helloRecvQ[n] # <<>> /\ helloRecvQ' = Get(helloRecvQ, n)
        /\ net' = net \cup {h} /\ Head(helloRecvQ[n]).type = "hello"
    BY <1>2, <2>1, <2>2, ZenonT(60) DEF HelloRecv
  <2>4. \A c \in Conns : ~Of(h, "hello", c) /\ (c # d => ~Of(h, "response", c))
    BY <2>2 DEF Of
  <2>5. Of(Head(helloRecvQ[n]), "hello", d)
    BY <2>1, <2>3 DEF Of
  <2>6. /\ ~Gone("hello", d) /\ None(lowerRecvQ, "hello", d) /\ None(helloRecvQ', "hello", d)
        /\ \A m \in net : ~Of(m, "hello", d)
    BY <1>0, <1>b, <2>3, <2>5, HeadTaken, ZenonT(60)
  <2>7. resp[d] = 0 /\ ini[d] # 3 /\ Gone("response", d)
    BY <1>b, <2>6, GoneEarly
  <2>8. Gone("hello", d)'
    BY <2>3, <2>4, <2>6, ZenonT(60) DEF Gone
  <2>9. ASSUME NEW c \in Conns
        PROVE  /\ Alone("hello", c)' /\ Alone("response", c)'
               /\ Gone("hello", c) => Gone("hello", c)'
               /\ c # d /\ Gone("response", c) => Gone("response", c)'
    BY <1>b, <1>c, <2>3, <2>4, <2>7, NewPacket, ZenonT(60)
  <2>10. \A c \in Conns : (c # d => resp'[c] = resp[c]) /\ ini'[c] = ini[c]
    BY <1>a, <2>1
  <2> QED BY <1>b, <2>7, <2>8, <2>9, <2>10, ZenonT(60) DEF Handshakes
<1>3. ASSUME NEW n \in Nodes, ResponseRecv(n) PROVE Handshakes'
  <2>1. PICK d \in Conns : /\ d = Head(helloRecvQ[n]).c /\ resp[d] \in {2, 3}
                           /\ ini' = [ini EXCEPT ![d] = 3] /\ resp' = resp
    BY <1>3, ResponseTaken
  <2>2. /\ lowerRecvQ' = lowerRecvQ /\ helloRecvQ[n] # <<>> /\ helloRecvQ' = Get(helloRecvQ, n)
        /\ net' = net /\ Head(helloRecvQ[n]).type = "response"
    BY <1>3, ZenonT(60) DEF ResponseRecv
  <2>3. Of(Head(helloRecvQ[n]), "response", d)
    BY <2>1, <2>2 DEF Of
  <2>4. /\ None(lowerRecvQ, "response", d) /\ None(helloRecvQ', "response", d)
        /\ \A m \in net : ~Of(m, "response", d)
    BY <1>0, <1>b, <2>2, <2>3, HeadTaken, ZenonT(60)
  <2>5. Gone("response", d)'
    BY <2>2, <2>4, ZenonT(60) DEF Gone
  <2>6. ASSUME NEW t, NEW c PROVE (Alone(t, c) => Alone(t, c)') /\ (Gone(t, c) => Gone(t, c)')
    BY <1>c, <2>2, ZenonT(60) DEF Alone, Gone
  <2>11. ASSUME NEW c \in Conns
         PROVE  /\ Alone("hello", c)' /\ Alone("response", c)'
                /\ Gone("hello", c) => Gone("hello", c)'
                /\ Gone("response", c) => Gone("response", c)'
    <3>1. Alone("hello", c) /\ Alone("response", c)
      BY <1>b
    <3>2. Alone("hello", c)' /\ (Gone("hello", c) => Gone("hello", c)')
      BY <2>6, <3>1
    <3>3. Alone("response", c)' /\ (Gone("response", c) => Gone("response", c)')
      BY <2>6, <3>1, ZenonT(60)
    <3> QED BY <3>2, <3>3
  <2>7. \A c \in Conns : resp'[c] = resp[c] /\ (c # d => ini'[c] = ini[c])
    BY <1>a, <2>1, ZenonT(60)
  <2>8. resp[d] # 0
    BY <2>1
  <2>9. ASSUME NEW c \in Conns
        PROVE  /\ Alone("hello", c)' /\ Alone("response", c)'
               /\ resp'[c] # 0 => Gone("hello", c)'
    <3>1. resp[c] # 0 => Gone("hello", c)
      BY <1>b
    <3>2. resp'[c] = resp[c]
      BY <2>7
    <3> QED BY <2>11, <3>1, <3>2, ZenonT(60)
  <2>10. ASSUME NEW c \in Conns, ini'[c] = 3 PROVE resp'[c] # 0 /\ Gone("response", c)'
    <3>1. CASE c = d
      BY <2>5, <2>7, <2>8, <3>1, ZenonT(60)
    <3>2. CASE c # d
      BY <1>b, <2>7, <2>10, <2>11, <3>2, ZenonT(60)
    <3> QED BY <3>1, <3>2
  <2> QED BY <2>9, <2>10, ZenonT(60) DEF Handshakes
<1>4. ASSUME Moving, ~\E n \in Nodes : HelloSend(n) \/ HelloRecv(n) \/ ResponseRecv(n)
      PROVE  Handshakes'
  <2>1. \A c \in Conns : (resp'[c] # 0 <=> resp[c] # 0) /\ ini'[c] = ini[c]
    <3>1. ASSUME NEW n \in Nodes, FirstData(n) PROVE \A c \in Conns : (resp'[c] # 0 <=> resp[c] # 0) /\ ini'[c] = ini[c]
      <4>1. PICK d \in Conns : resp[d] = 2 /\ resp' = [resp EXCEPT ![d] = 3] /\ ini' = ini
        BY <3>1, FirstDataTaken
      <4> QED BY <1>a, <4>1
    <3>2. ASSUME NEW c \in Conns, WaitFor(c) \/ Return(c) PROVE resp' = resp /\ ini' = ini
      BY <3>2 DEF WaitFor, Return, sessions
    <3>3. ASSUME NEW c \in Conns, NEW n \in Nodes, NEW p \in Nodes, Connect(c, n, p)
          PROVE  resp' = resp /\ ini' = ini
      BY <3>3 DEF Connect, sessions
    <3> QED BY <1>4, <3>1, <3>2, <3>3, SessionSteps, ZenonT(60)
  <2>2. ASSUME NEW c \in Conns
        PROVE  /\ Alone("hello", c)' /\ Alone("response", c)'
               /\ Gone("hello", c) => Gone("hello", c)'
               /\ Gone("response", c) => Gone("response", c)'
    BY <1>0, <1>4, <1>b, MovingKeeps
  <2> QED BY <1>b, <2>1, <2>2, ZenonT(60) DEF Handshakes
<1> QED BY <1>1, <1>2, <1>3, <1>4, PacketSteps, ZenonT(60)

\* The session whose response is taken is not finished yet.
LEMMA ResponseFinishes ==
    ASSUME Base, Handshakes, NEW n \in Nodes, ResponseRecv(n)
    PROVE  \E c \in Conns :
              /\ conn[c].from = n /\ ini[c] # 3 /\ ini' = [ini EXCEPT ![c] = 3]
              /\ resp' = resp /\ conn' = conn
<1>1. PICK c \in Conns : /\ c = Head(helloRecvQ[n]).c /\ conn[c].from = n
                         /\ ini' = [ini EXCEPT ![c] = 3] /\ resp' = resp /\ conn' = conn
  BY ResponseTaken
<1>2. helloRecvQ[n] # <<>> /\ Head(helloRecvQ[n]).type = "response"
  BY DEF ResponseRecv
<1>3. Of(Head(helloRecvQ[n]), "response", c)
  BY <1>1, <1>2 DEF Of
<1>4. ~Gone("response", c)
  BY <1>2, <1>3, HeadTaken, ZenonT(60) DEF Base, Handshakes
<1> QED BY <1>1, <1>4, ZenonT(60) DEF Handshakes

\* The hello that is taken is the first one.
LEMMA HelloFirst ==
    ASSUME Base, Handshakes, NEW n \in Nodes, HelloRecv(n)
    PROVE  \E c \in Conns : /\ resp[c] = 0 /\ resp' = [resp EXCEPT ![c] = 2]
                            /\ ini' = ini /\ conn' = conn
<1>1. PICK c \in Conns : /\ c = Head(helloRecvQ[n]).c /\ resp' = [resp EXCEPT ![c] = 2]
                         /\ ini' = ini /\ conn' = conn
  BY HelloTaken
<1>2. helloRecvQ[n] # <<>> /\ Head(helloRecvQ[n]).type = "hello"
  BY DEF HelloRecv
<1>3. Of(Head(helloRecvQ[n]), "hello", c)
  BY <1>1, <1>2 DEF Of
<1>4. ~Gone("hello", c)
  BY <1>2, <1>3, HeadTaken, ZenonT(60) DEF Base, Handshakes
<1> QED BY <1>1, <1>4, ZenonT(60) DEF Handshakes

\* What a step does to the finished sessions of a node: it takes a response or
\* first data there and finishes one more, or it leaves them as they are.
LEMMA FinishedSteps ==
    ASSUME Base, Handshakes, [Next]_vars, NEW n \in Nodes
    PROVE  IF ResponseRecv(n) \/ FirstData(n)
           THEN \E c \in Conns : c \notin Finished(n) /\ Finished(n)' = Finished(n) \cup {c}
           ELSE Finished(n)' = Finished(n)
<1>0. TypeOK /\ Sessions /\ n # NoNode
  BY PeeringAssumption DEF Base
<1>a. ini \in [Conns -> {0, 1, 3}] /\ resp \in [Conns -> {0, 2, 3}]
  BY <1>0, ZenonT(60) DEF TypeOK
<1>b. conn \in [Conns -> [at : {"idle", "queued", "waiting", "returned"},
                          from : Nodes \cup {NoNode}, to : Nodes \cup {NoNode}]]
  BY <1>0, ZenonT(60) DEF TypeOK
<1> DEFINE Fin(c) == n \in {conn[c].from, conn[c].to} /\ Stage(n, c) = 3
<1>c. ASSUME \A c \in Conns : Fin(c)' <=> Fin(c) PROVE Finished(n)' = Finished(n)
  BY <1>c, ZenonT(60) DEF Finished
<1>d. ASSUME NEW d \in Conns, ~Fin(d), Fin(d)', \A c \in Conns : c # d => (Fin(c)' <=> Fin(c))
      PROVE  d \notin Finished(n) /\ Finished(n)' = Finished(n) \cup {d}
  BY <1>d, ZenonT(60) DEF Finished
<1>1. ASSUME NEW k \in Nodes, ResponseRecv(k)
      PROVE  IF k = n THEN \E c \in Conns : c \notin Finished(n) /\ Finished(n)' = Finished(n) \cup {c}
                      ELSE Finished(n)' = Finished(n)
  <2>1. PICK d \in Conns : /\ conn[d].from = k /\ ini[d] # 3 /\ ini' = [ini EXCEPT ![d] = 3]
                           /\ resp' = resp /\ conn' = conn
    BY <1>1, ResponseFinishes
  <2>2. ini'[d] = 3 /\ \A c \in Conns : c # d => ini'[c] = ini[c]
    BY <1>a, <2>1
  <2>3. \A c \in Conns : c # d => (Fin(c)' <=> Fin(c))
    BY <2>1, <2>2 DEF Stage
  <2>4. CASE k = n
    <3>1. ~Fin(d) /\ Fin(d)'
      BY <2>1, <2>2, <2>4 DEF Stage
    <3> HIDE DEF Fin
    <3> QED BY <1>d, <2>3, <2>4, <3>1
  <2>5. CASE k # n
    <3>1. Fin(d)' <=> Fin(d)
      BY <2>1, <2>5 DEF Stage
    <3> HIDE DEF Fin
    <3> QED BY <1>c, <2>3, <2>5, <3>1
  <2> QED BY <2>4, <2>5
<1>2. ASSUME NEW k \in Nodes, FirstData(k)
      PROVE  IF k = n THEN \E c \in Conns : c \notin Finished(n) /\ Finished(n)' = Finished(n) \cup {c}
                      ELSE Finished(n)' = Finished(n)
  <2>1. PICK d \in Conns : /\ conn[d].to = k /\ conn[d].from # k /\ resp[d] = 2
                           /\ resp' = [resp EXCEPT ![d] = 3] /\ ini' = ini /\ conn' = conn
    BY <1>2, FirstDataTaken
  <2>2. resp'[d] = 3 /\ \A c \in Conns : c # d => resp'[c] = resp[c]
    BY <1>a, <2>1
  <2>3. \A c \in Conns : c # d => (Fin(c)' <=> Fin(c))
    BY <2>1, <2>2, ZenonT(60) DEF Stage
  <2>4. CASE k = n
    <3>1. ~Fin(d) /\ Fin(d)'
      BY <2>1, <2>2, <2>4 DEF Stage
    <3> HIDE DEF Fin
    <3> QED BY <1>d, <2>3, <2>4, <3>1
  <2>5. CASE k # n
    <3>1. Fin(d)' <=> Fin(d)
      BY <2>1, <2>5 DEF Stage
    <3> HIDE DEF Fin
    <3> QED BY <1>c, <2>3, <2>5, <3>1
  <2> QED BY <2>4, <2>5
<1>3. ASSUME NEW k \in Nodes, HelloSend(k) \/ HelloRecv(k) PROVE Finished(n)' = Finished(n)
  <2>1. \A c \in Conns : (ini'[c] = 3 <=> ini[c] = 3) /\ (resp'[c] = 3 <=> resp[c] = 3)
    <3>1. CASE HelloSend(k)
      <4>1. PICK d \in Conns : ini[d] = 0 /\ ini' = [ini EXCEPT ![d] = 1] /\ resp' = resp
        BY <3>1, HelloSent
      <4> QED BY <1>a, <4>1
    <3>2. CASE HelloRecv(k)
      <4>1. PICK d \in Conns : resp[d] = 0 /\ resp' = [resp EXCEPT ![d] = 2] /\ ini' = ini
        BY <3>2, HelloFirst
      <4> QED BY <1>a, <4>1
    <3> QED BY <1>3, <3>1, <3>2
  <2>2. conn' = conn
    BY <1>3, ZenonT(60) DEF HelloSend, HelloRecv, calls
  <2>3. \A c \in Conns : Fin(c)' <=> Fin(c)
    BY <2>1, <2>2 DEF Stage
  <2> QED BY <1>c, <2>3
<1>4. ASSUME NEW d \in Conns, NEW k \in Nodes, NEW p \in Nodes, Connect(d, k, p)
      PROVE  Finished(n)' = Finished(n)
  <2>1. /\ conn[d].at = "idle" /\ ini' = ini /\ resp' = resp
        /\ \A c \in Conns : c # d => conn'[c] = conn[c]
    BY <1>4, <1>b DEF Connect, sessions
  <2>2. ini[d] = 0 /\ resp[d] = 0
    BY <1>0, <2>1 DEF Sessions
  <2>3. \A c \in Conns : Fin(c)' <=> Fin(c)
    BY <2>1, <2>2 DEF Stage
  <2> QED BY <1>c, <2>3
<1>5. ASSUME NEW d \in Conns, WaitFor(d) \/ Return(d) PROVE Finished(n)' = Finished(n)
  <2>1. /\ \A c \in Conns : conn'[c].from = conn[c].from /\ conn'[c].to = conn[c].to
        /\ ini' = ini /\ resp' = resp
    BY <1>5, <1>b DEF WaitFor, Return, sessions
  <2>2. \A c \in Conns : Fin(c)' <=> Fin(c)
    BY <2>1 DEF Stage
  <2> QED BY <1>c, <2>2
<1>6. ASSUME UNCHANGED <<conn, ini, resp, helloSendQ>> PROVE Finished(n)' = Finished(n)
  <2>1. \A c \in Conns : Fin(c)' <=> Fin(c)
    BY <1>6 DEF Stage
  <2> HIDE DEF Fin
  <2> QED BY <1>c, <2>1
<1> HIDE DEF Fin
<1> QED BY <1>1, <1>2, <1>3, <1>4, <1>5, <1>6, SessionSteps, ZenonT(60)

\* The callbacks that are to attach a peer.
LEMMA AttachingSteps ==
    ASSUME Base, [Next]_vars, NEW n \in Nodes
    PROVE  \/ \E r \in Routines : /\ ResponseRecv(n) \/ FirstData(n)
                                  /\ r \notin AttachingAt(n)
                                  /\ AttachingAt(n)' = AttachingAt(n) \cup {r}
                                  /\ attached' = attached
           \/ \E r \in Routines : /\ ~(ResponseRecv(n) \/ FirstData(n))
                                  /\ CallbackAttach(n, r)
                                  /\ r \in AttachingAt(n)
                                  /\ AttachingAt(n)' = AttachingAt(n) \ {r}
           \/ /\ ~(ResponseRecv(n) \/ FirstData(n))
              /\ AttachingAt(n)' = AttachingAt(n) /\ attached'[n] = attached[n]
<1> DEFINE Got == \E r \in Routines : /\ ResponseRecv(n) \/ FirstData(n)
                                     /\ r \notin AttachingAt(n)
                                     /\ AttachingAt(n)' = AttachingAt(n) \cup {r}
                                     /\ attached' = attached
           Same == AttachingAt(n)' = AttachingAt(n) /\ attached'[n] = attached[n]
           Done(r) == /\ CallbackAttach(n, r)
                      /\ r \in AttachingAt(n)
                      /\ AttachingAt(n)' = AttachingAt(n) \ {r}
<1>0. /\ callback \in [Nodes -> [Routines -> [at : {"none", "attach", "wake"},
                                             peer : Nodes \cup {NoNode}]]]
      /\ attached \in [Nodes -> Seq(Nodes)]
  BY ZenonT(60) DEF Base, TypeOK
<1>a. ASSUME NEW k \in Nodes, NEW s \in Routines, NEW p, callback[k][s] = NoCallback,
             callback' = [callback EXCEPT ![k][s] = [at |-> "attach", peer |-> p]]
      PROVE  IF k = n THEN s \notin AttachingAt(n) /\ AttachingAt(n)' = AttachingAt(n) \cup {s}
                      ELSE AttachingAt(n)' = AttachingAt(n)
  <2>1. CASE k = n
    <3>1. /\ callback[n][s].at = "none" /\ callback'[n][s].at = "attach"
          /\ \A r \in Routines : r # s => callback'[n][r] = callback[n][r]
      BY <1>0, <1>a, <2>1 DEF NoCallback
    <3> QED BY <2>1, <3>1 DEF AttachingAt
  <2>2. CASE k # n
    <3>1. callback'[n] = callback[n]
      BY <1>0, <1>a, <2>2
    <3> QED BY <2>2, <3>1 DEF AttachingAt
  <2> QED BY <2>1, <2>2
<1>1. ASSUME NEW k \in Nodes, ResponseRecv(k) PROVE IF k = n THEN Got ELSE Same
  <2>1. PICK c \in Conns : /\ callback[k]["helloRecv"] = NoCallback
                           /\ callback' = [callback EXCEPT ![k]["helloRecv"] =
                                             [at |-> "attach", peer |-> conn[c].to]]
    BY <1>1, ResponseTaken
  <2>2. attached' = attached /\ "helloRecv" \in Routines
    BY <1>1 DEF ResponseRecv, Routines
  <2> QED BY <1>1, <1>a, <2>1, <2>2, ZenonT(60)
<1>2. ASSUME NEW k \in Nodes, FirstData(k) PROVE IF k = n THEN Got ELSE Same
  <2>1. PICK c \in Conns : /\ callback[k]["lowerRecv"] = NoCallback
                           /\ callback' = [callback EXCEPT ![k]["lowerRecv"] =
                                             [at |-> "attach", peer |-> conn[c].from]]
    BY <1>2, FirstDataTaken
  <2>2. attached' = attached /\ "lowerRecv" \in Routines
    BY <1>2 DEF FirstData, Routines
  <2> QED BY <1>2, <1>a, <2>1, <2>2, ZenonT(60)
<1>3. ASSUME NEW k \in Nodes, NEW s \in Routines, CallbackAttach(k, s)
      PROVE  (\E r \in Routines : Done(r)) \/ Same
  <2>1. callback[k][s].at = "attach" /\ callback' = [callback EXCEPT ![k][s].at = "wake"]
    BY <1>3 DEF CallbackAttach
  <2>2. CASE k = n
    <3>1. /\ callback'[n][s].at = "wake"
          /\ \A r \in Routines : r # s => callback'[n][r] = callback[n][r]
      BY <1>0, <2>1, <2>2
    <3>2. Done(s)
      BY <1>3, <2>1, <2>2, <3>1, ZenonT(60) DEF AttachingAt
    <3> QED BY <3>2
  <2>3. CASE k # n
    <3>1. callback'[n] = callback[n]
      BY <1>0, <2>1, <2>3
    <3>2. attached'[n] = attached[n]
      BY <1>0, <1>3, <2>3 DEF CallbackAttach, Put
    <3> QED BY <3>1, <3>2 DEF AttachingAt
  <2> QED BY <2>2, <2>3
<1>4. ASSUME NEW k \in Nodes, NEW s \in Routines, CallbackWake(k, s) PROVE Same
  <2>1. /\ callback[k][s].at = "wake" /\ callback' = [callback EXCEPT ![k][s] = NoCallback]
        /\ attached' = attached
    BY <1>4 DEF CallbackWake
  <2>2. \A r \in Routines : callback'[n][r].at = "attach" <=> callback[n][r].at = "attach"
    BY <1>0, <2>1 DEF NoCallback
  <2> QED BY <2>1, <2>2 DEF AttachingAt
<1>5. ASSUME UNCHANGED <<callback, attached>> PROVE Same
  BY <1>5 DEF AttachingAt
<1>6. \/ \E k \in Nodes : ResponseRecv(k) \/ FirstData(k)
      \/ \E k \in Nodes, s \in Routines : CallbackAttach(k, s) \/ CallbackWake(k, s)
      \/ UNCHANGED <<callback, attached>>
  BY CallbackSteps, SlotSteps, ZenonT(60)
<1> QED BY <1>1, <1>2, <1>3, <1>4, <1>5, <1>6, ZenonT(60)

LEMMA AttachingFinite == \A n \in Nodes : IsFiniteSet(AttachingAt(n)) /\ Cardinality(AttachingAt(n)) \in Nat
<1>1. IsFiniteSet({} \cup {"helloRecv"})
  BY FS_EmptySet, FS_AddElement
<1>2. IsFiniteSet(({} \cup {"helloRecv"}) \cup {"lowerRecv"})
  BY <1>1, FS_AddElement
<1>3. Routines = ({} \cup {"helloRecv"}) \cup {"lowerRecv"}
  BY DEF Routines
<1>4. ASSUME NEW n \in Nodes PROVE IsFiniteSet(AttachingAt(n)) /\ Cardinality(AttachingAt(n)) \in Nat
  <2>1. AttachingAt(n) \in SUBSET Routines
    BY DEF AttachingAt
  <2>2. IsFiniteSet(AttachingAt(n))
    BY <1>2, <1>3, <2>1, FS_Subset, ZenonT(60)
  <2> QED BY <2>2, FS_CardinalityType
<1> QED BY <1>4

\* As many slots as finished sessions, but for the callbacks on their way.
Counted ==
    \A n \in Nodes : /\ IsFiniteSet(Finished(n))
                     /\ Len(attached[n]) < PeerSlots =>
                          Len(attached[n]) + Cardinality(AttachingAt(n)) = Cardinality(Finished(n))

LEMMA StepKeepsCounted == Base /\ Handshakes /\ Counted /\ [Next]_vars => Counted'
<1> SUFFICES ASSUME Base, Handshakes, Counted, [Next]_vars, NEW n \in Nodes
             PROVE  /\ IsFiniteSet(Finished(n)')
                    /\ Len(attached'[n]) < PeerSlots =>
                         Len(attached'[n]) + Cardinality(AttachingAt(n)') = Cardinality(Finished(n)')
  BY DEF Counted
<1> DEFINE A == AttachingAt(n)
           F == Finished(n)
           Ap == AttachingAt(n)'
           Fp == Finished(n)'
<1>1. /\ IsFiniteSet(F) /\ IsFiniteSet(A) /\ Cardinality(A) \in Nat /\ Cardinality(F) \in Nat
      /\ Len(attached[n]) < PeerSlots => Len(attached[n]) + Cardinality(A) = Cardinality(F)
  BY AttachingFinite, FS_CardinalityType DEF Counted
<1>2. attached \in [Nodes -> Seq(Nodes)] /\ attached[n] \in Seq(Nodes) /\ Len(attached[n]) \in Nat
  BY DEF Base, TypeOK
<1>3. CASE ResponseRecv(n) \/ FirstData(n)
  <2>1. PICK c \in Conns : c \notin F /\ Fp = F \cup {c}
    BY <1>3, FinishedSteps
  <2>2. PICK r \in Routines : r \notin A /\ Ap = A \cup {r} /\ attached' = attached
    BY <1>3, AttachingSteps, ZenonT(60)
  <2> HIDE DEF A, F, Ap, Fp
  <2>3. IsFiniteSet(Fp) /\ Cardinality(Fp) = Cardinality(F) + 1
    BY <1>1, <2>1, FS_AddElement
  <2>4. Cardinality(Ap) = Cardinality(A) + 1
    BY <1>1, <2>2, FS_AddElement, ZenonT(60)
  <2>5. Len(attached'[n]) < PeerSlots => Len(attached'[n]) + Cardinality(Ap) = Cardinality(Fp)
    BY <1>1, <1>2, <2>2, <2>3, <2>4
  <2> QED BY <2>3, <2>5 DEF Ap, Fp
<1>4. CASE ~(ResponseRecv(n) \/ FirstData(n))
  <2>1. Fp = F
    BY <1>4, FinishedSteps
  <2>2. ASSUME Ap = A, attached'[n] = attached[n]
        PROVE  Len(attached'[n]) < PeerSlots => Len(attached'[n]) + Cardinality(Ap) = Cardinality(Fp)
    <3> HIDE DEF A, F, Ap, Fp
    <3> QED BY <1>1, <2>1, <2>2, ZenonT(60)
  <2>3. ASSUME NEW r \in Routines, CallbackAttach(n, r), r \in A, Ap = A \ {r}
        PROVE  Len(attached'[n]) < PeerSlots => Len(attached'[n]) + Cardinality(Ap) = Cardinality(Fp)
    <3> HIDE DEF A, F, Ap, Fp
    <3>1. Cardinality(Ap) = Cardinality(A) - 1
      BY <1>1, <2>3, FS_RemoveElement, ZenonT(60)
    <3>2. PICK p \in Nodes : p = callback[n][r].peer
      BY <2>3 DEF CallbackAttach, Base, Callbacks
    <3>3. CASE Len(attached[n]) < PeerSlots
      <4>1. attached'[n] = Append(attached[n], p)
        BY <1>2, <2>3, <3>2, <3>3 DEF CallbackAttach, Put
      <4>2. Len(attached'[n]) = Len(attached[n]) + 1
        BY <1>2, <4>1
      <4> QED BY <1>1, <1>2, <2>1, <3>1, <3>3, <4>2
    <3>4. CASE ~(Len(attached[n]) < PeerSlots)
      BY <2>3, <3>4 DEF CallbackAttach
    <3> QED BY <3>3, <3>4
  <2>4. \/ \E r \in Routines : CallbackAttach(n, r) /\ r \in A /\ Ap = A \ {r}
        \/ Ap = A /\ attached'[n] = attached[n]
    BY <1>4, AttachingSteps, ZenonT(60)
  <2> HIDE DEF A, F, Ap, Fp
  <2>5. Len(attached'[n]) < PeerSlots => Len(attached'[n]) + Cardinality(Ap) = Cardinality(Fp)
    BY <2>2, <2>3, <2>4, ZenonT(60)
  <2> QED BY <1>1, <2>1, <2>5 DEF Ap, Fp
<1> QED BY <1>3, <1>4

LEMMA InitCounted == Init => Handshakes /\ Counted
<1> SUFFICES ASSUME Init PROVE Handshakes /\ Counted
  BY ZenonT(60)
<1>1. Handshakes
  BY DEF Init, Handshakes, Alone, Gone, None, Sole
<1>2. ASSUME NEW n \in Nodes PROVE Finished(n) = {} /\ AttachingAt(n) = {} /\ Len(attached[n]) = 0
  BY <1>2 DEF Init, Finished, Stage, AttachingAt, NoCallback
<1>3. ASSUME NEW n \in Nodes
      PROVE  /\ IsFiniteSet(Finished(n)) /\ Cardinality(Finished(n)) = 0
             /\ Cardinality(AttachingAt(n)) = 0 /\ Len(attached[n]) = 0
  BY <1>2, FS_EmptySet, ZenonT(60)
<1>4. 0 + 0 = 0
  OBVIOUS
<1> QED BY <1>1, <1>3, <1>4, ZenonT(60) DEF Counted

\* connectedCallback attaches a peer once for each session (node.go, recv.go):
\* for any number of nodes, sessions and slots, a node with a free slot has
\* taken one for every session it finished, but for the callbacks on their way.
THEOREM SlotsPerSession == Spec => []SlotPerSession
<1>1. Counted => SlotPerSession
  BY ZenonT(60) DEF Counted, SlotPerSession, Finished, AttachingAt
<1> QED
  BY <1>1, InitBase, InitCounted, StepKeepsBase, StepKeepsHandshakes, StepKeepsCounted, PTL DEF Spec
=============================================================================
