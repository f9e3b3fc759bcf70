------------------------------ MODULE Session ------------------------------
(***************************************************************************)
(* The session managers of all nodes (node/session/manager.go, session.go) *)
(* with the Noise IKpsk2 handshake below them (ikpsk2/handshake.go).       *)
(*                                                                         *)
(* The routines of a node share one manager: helloSend calls CreateHello,  *)
(* helloRecv HandleHello and HandleResponse, the two send routines         *)
(* CreateData, the lower and the upper receive routine HandleData.  The    *)
(* lock of the manager covers the store only, so the steps of these calls  *)
(* interleave wherever a session is used outside the lock.                 *)
(*                                                                         *)
(* Cryptography is symbolic.  The ephemeral key of a session is named by   *)
(* the session itself; a hello opens for the node it was made for; a       *)
(* response opens for the session whose hello it answers; and a data       *)
(* packet opens for a session with the same pair of ephemerals at the      *)
(* other end.  `net` is all that was ever sent: packets are lost,          *)
(* duplicated, delayed and reordered.                                      *)
(***************************************************************************)
EXTENDS Naturals, FiniteSets

CONSTANTS
    Nodes,
    Sid,        \* sessions: bounds how many can be made
    NoSid,      \* no session
    Idx,        \* session indexes; 2^32 in the code
    NoNode,
    Senders,    \* routines of a node that call CreateData
    Receivers,  \* routines of a node that call HandleData
    MaxData     \* bound: how many data packets are made

ASSUME SessionAssumption ==
    /\ NoSid \notin Sid
    /\ NoNode \notin Nodes
    /\ MaxData \in Nat

VARIABLES
    sess,       \* sess[s]: the session object s
    store,      \* store[n][i]: the session node n has under index i
    net,        \* every packet that was sent
    swapping,   \* swapping[n]: the Swap helloRecv of n is about to do
    sending,    \* sending[n][g]: where routine g of n is inside CreateData
    receiving,  \* receiving[n][r]: session whose first data r is handling
    firsts,     \* firsts[s][r]: how often r reported the first data of s
    made,       \* how many data packets were made
    drawn,      \* indexes that Insert has drawn
    collided    \* Insert has drawn an index a second time

vars == <<sess, store, net, swapping, sending, receiving, firsts, made, drawn, collided>>

(***************************************************************************)
(* A session: `ei` and `er` are the ephemerals of initiator and responder; *)
(* the keys for data exist once both are known.  Stage 0 is a session that *)
(* was not made yet.                                                       *)
(***************************************************************************)
SessionRec ==
    [owner : Nodes \cup {NoNode}, peer : Nodes \cup {NoNode}, initiator : BOOLEAN,
     stage : 0 .. 3, ei : Sid \cup {NoSid}, er : Sid \cup {NoSid}, nonce : Nat]

HelloMsg ==
    [type : {"hello"}, from : Nodes, to : Nodes, idx : Idx, ei : Sid]
ResponseMsg ==
    [type : {"response"}, from : Nodes, idx : Idx, sidx : Idx, ei : Sid, er : Sid]

\* by, to, sid and num are history: who made the packet in which session, for
\* which peer, and which packet of all it is.
DataMsg ==
    [type : {"data"}, by : Nodes, to : Nodes, sid : Sid, num : Nat, idx : Idx,
     ei : Sid, er : Sid, initiator : BOOLEAN, nonce : Nat]

Msg == HelloMsg \cup ResponseMsg \cup DataMsg

\* CreateData has found session sid under idx, and has come as far as `at`.
Sending == [at : {"found", "loaded", "stored"}, sid : Sid, idx : Idx, nonce : Nat, to : Nodes]

Swapping == [from : Idx, to : Idx, sid : Sid]

Idle == [at |-> "idle"]

\* newSession and newSessionIncoming.
NewSession(n, p, initiator, stage, ei, er) ==
    [owner |-> n, peer |-> p, initiator |-> initiator, stage |-> stage,
     ei |-> ei, er |-> er, nonce |-> 0]

NoSession == NewSession(NoNode, NoNode, FALSE, 0, NoSid, NoSid)

Init ==
    /\ sess = [s \in Sid |-> NoSession]
    /\ store = [n \in Nodes |-> [i \in Idx |-> NoSid]]
    /\ net = {}
    /\ swapping = [n \in Nodes |-> Idle]
    /\ sending = [n \in Nodes |-> [g \in Senders |-> Idle]]
    /\ receiving = [n \in Nodes |-> [r \in Receivers |-> NoSid]]
    /\ firsts = [s \in Sid |-> [r \in Receivers |-> 0]]
    /\ made = 0
    /\ drawn = {}
    /\ collided = FALSE

----------------------------------------------------------------------------
\* Insert: session s goes under an index i that node n does not use.
Insert(n, s, i) ==
    /\ store[n][i] = NoSid
    /\ store' = [store EXCEPT ![n][i] = s]
    /\ drawn' = drawn \cup {i}
    /\ collided' = (collided \/ i \in drawn)

\* CreateHello of the session, with MakeHello: the hello that session s of node
\* n, stored under index i, has for p.
MakeHello(n, p, s, i) ==
    [type |-> "hello", from |-> n, to |-> p, idx |-> i, ei |-> s]

\* CreateHello of the manager.
CreateHello(n, p, s, i) ==
    /\ sess[s].stage = 0
    /\ p # n
    /\ Insert(n, s, i)
    /\ sess' = [sess EXCEPT ![s] = NewSession(n, p, TRUE, 1, s, NoSid)]
    /\ net' = net \cup {MakeHello(n, p, s, i)}
    /\ UNCHANGED <<swapping, sending, receiving, firsts, made>>

\* ConsumeHello: the hello opens with the static key of node n.
ConsumeHello(n, m) == m.type = "hello" /\ m.to = n

\* CreateResponse of the session, with MakeResponse: how session s of node n,
\* stored under index i, answers hello m.
MakeResponse(n, m, s, i) ==
    [type |-> "response", from |-> n, idx |-> m.idx, sidx |-> i, ei |-> m.ei, er |-> s]

\* HandleHello of the manager and of the session: a session of its own for
\* every hello that opens.
HandleHello(n, m, s, i) ==
    /\ ConsumeHello(n, m)
    /\ sess[s].stage = 0
    /\ Insert(n, s, i)
    /\ sess' = [sess EXCEPT ![s] = NewSession(n, m.from, FALSE, 2, m.ei, s)]
    /\ net' = net \cup {MakeResponse(n, m, s, i)}
    /\ UNCHANGED <<swapping, sending, receiving, firsts, made>>

\* A response that is not tied to the hello it answers.
ConsumeAnyResponse(s, m) == sess[s].peer = m.from

\* The response opens in session s: ConsumeResponse.
ConsumeResponse(s, m) == sess[s].ei = m.ei /\ sess[s].peer = m.from

\* HandleHelloResponse gets as far as setting stage 3.
HandleHelloResponse(s, m) ==
    /\ sess[s].initiator
    /\ sess[s].stage = 1
    /\ ConsumeResponse(s, m)

\* HandleResponse up to the return of HandleHelloResponse.
HandleResponse(n, m) ==
    LET s == store[n][m.idx]
    IN  /\ m.type = "response"
        /\ swapping[n] = Idle
        /\ s # NoSid
        /\ HandleHelloResponse(s, m)
        /\ sess' = [sess EXCEPT ![s].er = m.er, ![s].stage = 3]
        /\ swapping' = [swapping EXCEPT ![n] = [from |-> m.idx, to |-> m.sidx, sid |-> s]]
        /\ UNCHANGED <<store, net, sending, receiving, firsts, made, drawn, collided>>

\* A Swap that leaves the session where it was.
SwapForgotten(n) ==
    /\ swapping[n] # Idle
    /\ swapping' = [swapping EXCEPT ![n] = Idle]
    /\ UNCHANGED <<sess, store, net, sending, receiving, firsts, made, drawn, collided>>

\* Swap: whatever is under the index of the responder is overwritten.
Swap(n) ==
    /\ swapping[n] # Idle
    /\ store' = [store EXCEPT ![n] =
                   [i \in Idx |-> IF i = swapping[n].to THEN store[n][swapping[n].from]
                                  ELSE IF i = swapping[n].from THEN NoSid
                                  ELSE store[n][i]]]
    /\ swapping' = [swapping EXCEPT ![n] = Idle]
    /\ UNCHANGED <<sess, net, sending, receiving, firsts, made, drawn, collided>>

----------------------------------------------------------------------------
\* The keys of session s exist.
Keyed(s) == sess[s].er # NoSid

\* CreateData, first step: Find returns some session of the peer, finished or
\* not, and its index.  The caller is routine g of node n.
Find(n, g, p, i) ==
    /\ made < MaxData
    /\ sending[n][g] = Idle
    /\ store[n][i] # NoSid
    /\ sess[store[n][i]].peer = p
    /\ sending' = [sending EXCEPT ![n][g] =
                     [at |-> "found", sid |-> store[n][i], idx |-> i, nonce |-> 0, to |-> p]]
    /\ UNCHANGED <<sess, store, net, swapping, receiving, firsts, made, drawn, collided>>

\* MakeMessage of a session that is not finished: CreateData fails.
NotFinished(n, g) ==
    /\ sending[n][g].at = "found"
    /\ ~Keyed(sending[n][g].sid)
    /\ sending' = [sending EXCEPT ![n][g] = Idle]
    /\ UNCHANGED <<sess, store, net, swapping, receiving, firsts, made, drawn, collided>>

\* MakeMessage: hs.sendNonce += 1 is a load and a store, and the nonce of the
\* header is loaded again.
LoadNonce(n, g) ==
    /\ sending[n][g].at = "found"
    /\ Keyed(sending[n][g].sid)
    /\ sending' = [sending EXCEPT ![n][g].at = "loaded",
                                  ![n][g].nonce = sess[sending[n][g].sid].nonce]
    /\ UNCHANGED <<sess, store, net, swapping, receiving, firsts, made, drawn, collided>>

\* The increment is not written back.
NonceNotStored(n, g) ==
    /\ sending[n][g].at = "loaded"
    /\ sending' = [sending EXCEPT ![n][g].at = "stored"]
    /\ UNCHANGED <<sess, store, net, swapping, receiving, firsts, made, drawn, collided>>

StoreNonce(n, g) ==
    /\ sending[n][g].at = "loaded"
    /\ sess' = [sess EXCEPT ![sending[n][g].sid].nonce = sending[n][g].nonce + 1]
    /\ sending' = [sending EXCEPT ![n][g].at = "stored"]
    /\ UNCHANGED <<store, net, swapping, receiving, firsts, made, drawn, collided>>

\* The rest of MakeMessage and CreateData: the packet is sealed with the nonce
\* the session has now and gets the index that Find returned.
Seal(n, g) ==
    LET c == sending[n][g]
        s == sess[c.sid]
    IN  /\ c.at = "stored"
        /\ made < MaxData
        /\ made' = made + 1
        /\ net' = net \cup {[type |-> "data", by |-> n, to |-> c.to, sid |-> c.sid,
                             num |-> made, idx |-> c.idx, ei |-> s.ei, er |-> s.er,
                             initiator |-> s.initiator, nonce |-> s.nonce]}
        /\ sending' = [sending EXCEPT ![n][g] = Idle]
        /\ UNCHANGED <<sess, store, swapping, receiving, firsts, drawn, collided>>

\* One key for both directions.
OpensBothWays(s, m) ==
    /\ s # NoSid
    /\ Keyed(s)
    /\ sess[s].ei = m.ei
    /\ sess[s].er = m.er

\* Data opens only in a session of stage 3.
OpensWhenFinished(s, m) ==
    /\ s # NoSid
    /\ sess[s].stage = 3
    /\ sess[s].ei = m.ei
    /\ sess[s].er = m.er
    /\ sess[s].initiator # m.initiator

\* ConsumeMessage: data packet m opens in session s.
Opens(s, m) ==
    /\ s # NoSid
    /\ Keyed(s)
    /\ sess[s].ei = m.ei
    /\ sess[s].er = m.er
    /\ sess[s].initiator # m.initiator

\* HandleData of a packet that opens, in a session whose stage is not 3 yet;
\* in a session with stage 3 it changes nothing here.
HandleData(n, r, m) ==
    LET s == store[n][m.idx]
    IN  /\ m.type = "data"
        /\ receiving[n][r] = NoSid
        /\ Opens(s, m)
        /\ sess[s].stage # 3
        /\ receiving' = [receiving EXCEPT ![n][r] = s]
        /\ UNCHANGED <<sess, store, net, swapping, sending, firsts, made, drawn, collided>>

\* The stage is left as it was.
FirstDataKeepsStage(n, r) ==
    LET s == receiving[n][r]
    IN  /\ s # NoSid
        /\ firsts' = [firsts EXCEPT ![s][r] = @ + 1]
        /\ receiving' = [receiving EXCEPT ![n][r] = NoSid]
        /\ UNCHANGED <<sess, store, net, swapping, sending, made, drawn, collided>>

\* The rest of HandleData: s.stage = 0x03 and firstdata.
FirstData(n, r) ==
    LET s == receiving[n][r]
    IN  /\ s # NoSid
        /\ sess' = [sess EXCEPT ![s].stage = 3]
        /\ firsts' = [firsts EXCEPT ![s][r] = @ + 1]
        /\ receiving' = [receiving EXCEPT ![n][r] = NoSid]
        /\ UNCHANGED <<store, net, swapping, sending, made, drawn, collided>>

Next ==
    \/ \E n, p \in Nodes, s \in Sid, i \in Idx : CreateHello(n, p, s, i)
    \/ \E n \in Nodes, m \in net, s \in Sid, i \in Idx : HandleHello(n, m, s, i)
    \/ \E n \in Nodes, m \in net : HandleResponse(n, m)
    \/ \E n \in Nodes : Swap(n)
    \/ \E n, p \in Nodes, g \in Senders, i \in Idx : Find(n, g, p, i)
    \/ \E n \in Nodes, g \in Senders : NotFinished(n, g) \/ LoadNonce(n, g) \/ StoreNonce(n, g) \/ Seal(n, g)
    \/ \E n \in Nodes, r \in Receivers, m \in net : HandleData(n, r, m)
    \/ \E n \in Nodes, r \in Receivers : FirstData(n, r)

Spec == Init /\ [][Next]_vars
----------------------------------------------------------------------------
\* Every variable keeps its type.
TypeOK ==
    /\ sess \in [Sid -> SessionRec]
    /\ store \in [Nodes -> [Idx -> Sid \cup {NoSid}]]
    /\ net \subseteq Msg
    /\ swapping \in [Nodes -> Swapping \cup {Idle}]
    /\ sending \in [Nodes -> [Senders -> Sending \cup {Idle}]]
    /\ receiving \in [Nodes -> [Receivers -> Sid \cup {NoSid}]]
    /\ firsts \in [Sid -> [Receivers -> Nat]]
    /\ made \in Nat
    /\ drawn \subseteq Idx
    /\ collided \in BOOLEAN

\* An initiator that has finished the handshake shares its keys with exactly
\* one session, a responder session of the peer it wanted to reach, and that
\* session takes the initiator for its peer; also when hellos and responses
\* are duplicated, delayed or crossed, and when indexes collide.
KeyAgreement ==
    \A s \in Sid : sess[s].initiator /\ Keyed(s) =>
        LET t == sess[s].er
        IN  /\ ~sess[t].initiator
            /\ sess[t].ei = s /\ sess[t].er = t
            /\ sess[t].owner = sess[s].peer
            /\ sess[t].peer = sess[s].owner
            /\ \A u \in Sid \ {s, t} : <<sess[u].ei, sess[u].er>> # <<s, t>>

\* HandleData names the true sender: a data packet that opens at a node was
\* made for this node by the peer the session names, whatever index it came
\* under.
DataAuthentic ==
    \A m \in net, n \in Nodes :
        m.type = "data" /\ Opens(store[n][m.idx], m) =>
            /\ m.to = n
            /\ m.by = sess[store[n][m.idx]].peer

\* The two ends of a finished session file it under the same index, if Insert
\* never draws an index twice: so what the initiator sends once its Swap is
\* done opens at the responder, and the answers open at the initiator.
IndexAgreement ==
    ~collided =>
        \A s \in Sid : sess[s].initiator /\ Keyed(s) =>
            \/ swapping[sess[s].owner] # Idle /\ swapping[sess[s].owner].sid = s
            \/ \E i \in Idx : /\ store[sess[s].owner][i] = s
                              /\ store[sess[s].peer][i] = sess[s].er

\* A data packet whose session both ends have finished opens at its receiver,
\* unless CreateData took the index of the session before the Swap, or an index
\* was drawn twice.
DataDeliverable ==
    ~collided =>
        \A m \in net :
            /\ m.type = "data"
            /\ store[m.by][m.idx] = m.sid
            /\ sess[m.ei].er = m.er
            /\ \A n \in Nodes : swapping[n] = Idle
            => Opens(store[m.to][m.idx], m)

\* A receive routine reports the first data of a session at most once, so it
\* runs connectedCallback at most once for it.
FirstDataOnce == \A s \in Sid, r \in Receivers : firsts[s][r] <= 1

\* No two data packets of one direction of a session have the same nonce.
NonceFresh ==
    \A m1, m2 \in net :
        /\ m1.type = "data" /\ m2.type = "data" /\ m1.num # m2.num
        /\ <<m1.ei, m1.er, m1.initiator>> = <<m2.ei, m2.er, m2.initiator>>
        => m1.nonce # m2.nonce
=============================================================================
