--------------------------- MODULE SessionProofs ---------------------------
(***************************************************************************)
(* Proofs about the session managers, for any number of nodes, sessions,   *)
(* indexes and routines.                                                   *)
(*                                                                         *)
(* The invariant says what packets and sessions know of each other.  It is *)
(* kept because a session, once made, never changes its owner, its peer,   *)
(* its role or its own ephemeral, and never changes its keys once it has   *)
(* them: what was true of it when a packet was made stays true.            *)
(***************************************************************************)
EXTENDS Session, TLAPS

\* The provers that a leaf is tried with, in turn, unless it names its own.
USE SMT, Zenon, SMTT(30), ZenonT(60), Z3T(30)

Made(s) == sess[s].stage # 0

\* The session that sent the hello with ephemeral s, from n to p.
Initiator(s, n, p) ==
    /\ Made(s) /\ sess[s].initiator
    /\ sess[s].owner = n /\ sess[s].peer = p /\ sess[s].ei = s

\* The session at p that answers the hello with ephemeral s from n.
Responder(t, s, n, p) ==
    /\ Made(t) /\ ~sess[t].initiator
    /\ sess[t].owner = p /\ sess[t].peer = n /\ sess[t].ei = s /\ sess[t].er = t

SessionInv(s) ==
    /\ sess[s].stage \in {0, 1} => ~Keyed(s)
    /\ Made(s) =>
        /\ sess[s].owner \in Nodes /\ sess[s].peer \in Nodes
        /\ sess[s].initiator =>
             /\ Initiator(s, sess[s].owner, sess[s].peer)
             /\ Keyed(s) => /\ sess[s].er \in Sid
                            /\ Responder(sess[s].er, s, sess[s].owner, sess[s].peer)
        /\ ~sess[s].initiator =>
             /\ sess[s].ei \in Sid
             /\ Responder(s, sess[s].ei, sess[s].peer, sess[s].owner)
             /\ Initiator(sess[s].ei, sess[s].peer, sess[s].owner)

MsgInv(m) ==
    /\ m.type = "hello" => Initiator(m.ei, m.from, m.to)
    /\ m.type = "response" =>
         /\ sess[m.ei].owner \in Nodes
         /\ Initiator(m.ei, sess[m.ei].owner, m.from)
         /\ Responder(m.er, m.ei, sess[m.ei].owner, m.from)
    /\ m.type = "data" =>
         /\ Made(m.sid)
         /\ sess[m.sid].owner = m.by /\ sess[m.sid].peer = m.to
         /\ sess[m.sid].ei = m.ei /\ sess[m.sid].er = m.er
         /\ sess[m.sid].initiator = m.initiator

\* A session that node n has in its store.
StoreInv(n, s) == s # NoSid => Made(s) /\ sess[s].owner = n

\* A session that a routine of node n has found for CreateData.
SendingInv(n, c) ==
    c # Idle => /\ Made(c.sid) /\ sess[c.sid].owner = n /\ sess[c.sid].peer = c.to
                /\ c.at # "found" => Keyed(c.sid)

Inv ==
    /\ TypeOK
    /\ \A s \in Sid : SessionInv(s)
    /\ \A m \in net : MsgInv(m)
    /\ \A n \in Nodes, i \in Idx : StoreInv(n, store[n][i])
    /\ \A n \in Nodes, g \in Senders : SendingInv(n, sending[n][g])
    /\ \A n \in Nodes, r \in Receivers : receiving[n][r] # NoSid => Made(receiving[n][r])

\* A routine that handles first data has not reported it yet, and whoever has
\* reported it has set stage 3.
FirstInv ==
    /\ \A s \in Sid, r \in Receivers :
         firsts[s][r] = 0 \/ (firsts[s][r] = 1 /\ sess[s].stage = 3)
    /\ \A n \in Nodes, r \in Receivers : receiving[n][r] # NoSid =>
         sess[receiving[n][r]].owner = n /\ firsts[receiving[n][r]][r] = 0

\* What a session keeps from one state to the next.
Keeps(s) ==
    Made(s) => /\ sess'[s].stage # 0
               /\ sess'[s].owner = sess[s].owner /\ sess'[s].peer = sess[s].peer
               /\ sess'[s].initiator = sess[s].initiator /\ sess'[s].ei = sess[s].ei
               /\ Keyed(s) => sess'[s].er = sess[s].er
               /\ sess[s].stage = 3 => sess'[s].stage = 3

SessionsKeep == \A s \in Sid : Keeps(s)

\* The step counts no nonce.
SameNonces == \A s \in Sid : Made(s) => sess'[s].nonce = sess[s].nonce

\* A step changes at most the nonce of s, or moves it to another stage.
SameSession(s) ==
    /\ sess'[s].owner = sess[s].owner /\ sess'[s].peer = sess[s].peer
    /\ sess'[s].initiator = sess[s].initiator
    /\ sess'[s].ei = sess[s].ei /\ sess'[s].er = sess[s].er
    /\ sess'[s].stage # 0 <=> sess[s].stage # 0
    /\ sess'[s].stage = 1 => sess[s].stage = 1

----------------------------------------------------------------------------
\* A message is of one of the three kinds, with the fields of its kind.
LEMMA MsgFields ==
    ASSUME NEW m \in Msg
    PROVE  /\ m.type \in {"hello", "response", "data"}
           /\ m.idx \in Idx /\ m.ei \in Sid
           /\ m.type = "hello" => m.from \in Nodes /\ m.to \in Nodes
           /\ m.type = "response" => m.from \in Nodes /\ m.sidx \in Idx /\ m.er \in Sid
           /\ m.type = "data" => /\ m.by \in Nodes /\ m.to \in Nodes /\ m.sid \in Sid
                                 /\ m.er \in Sid /\ m.initiator \in BOOLEAN
BY DEF Msg, HelloMsg, ResponseMsg, DataMsg

\* What a node finds under the index of a packet is a session of its own.
LEMMA StoredSession ==
    ASSUME Inv, NEW n \in Nodes, NEW m \in net, store[n][m.idx] # NoSid
    PROVE  \E s \in Sid : s = store[n][m.idx] /\ Made(s) /\ sess[s].owner = n
<1>1. m \in Msg /\ m.idx \in Idx
  BY MsgFields DEF Inv, TypeOK
<1>2. store[n][m.idx] \in Sid /\ StoreInv(n, store[n][m.idx])
  BY <1>1 DEF Inv, TypeOK
<1> QED BY <1>2 DEF StoreInv

LEMMA FirstTypes ==
    ASSUME Inv
    PROVE  /\ firsts \in [Sid -> [Receivers -> Nat]]
           /\ receiving \in [Nodes -> [Receivers -> Sid \cup {NoSid}]]
           /\ \A n \in Nodes, r \in Receivers : receiving[n][r] # NoSid => Made(receiving[n][r])
BY DEF Inv, TypeOK

LEMMA InitiatorStays ==
    ASSUME NEW s \in Sid, NEW n, NEW p, Initiator(s, n, p), Keeps(s)
    PROVE  Initiator(s, n, p)'
BY ZenonT(60) DEF Initiator, Keeps, Made

LEMMA ResponderStays ==
    ASSUME NEW t \in Sid, NEW s, NEW n, NEW p, Responder(t, s, n, p), Keeps(t), NoSid \notin Sid
    PROVE  Responder(t, s, n, p)'
BY DEF Responder, Keeps, Made, Keyed

\* What a message says of sessions stays true.
LEMMA MsgStays ==
    ASSUME SessionsKeep, NEW m \in Msg, MsgInv(m)
    PROVE  MsgInv(m)'
<1>1. NoSid \notin Sid
  BY SessionAssumption
<1>2. ASSUME m.type = "hello" PROVE Initiator(m.ei, m.from, m.to)'
  <2>1. Initiator(m.ei, m.from, m.to)
    BY <1>2 DEF MsgInv
  <2> QED
    BY <2>1, MsgFields, InitiatorStays DEF SessionsKeep
<1>3. ASSUME m.type = "response"
      PROVE  /\ sess'[m.ei].owner \in Nodes
             /\ Initiator(m.ei, sess[m.ei].owner, m.from)'
             /\ Responder(m.er, m.ei, sess[m.ei].owner, m.from)'
  <2> DEFINE o == sess[m.ei].owner
  <2>1. /\ o \in Nodes /\ Initiator(m.ei, o, m.from)
        /\ Responder(m.er, m.ei, o, m.from)
    BY <1>3 DEF MsgInv
  <2>2. m.ei \in Sid /\ m.er \in Sid
    BY <1>3, MsgFields
  <2>3. sess'[m.ei].owner = o
    BY <2>1, <2>2 DEF SessionsKeep, Keeps, Initiator
  <2>4. Keeps(m.ei) /\ Keeps(m.er)
    BY <2>2 DEF SessionsKeep
  <2>5. /\ sess'[m.ei].stage # 0 /\ sess'[m.ei].initiator
        /\ sess'[m.ei].peer = m.from /\ sess'[m.ei].ei = m.ei
    BY <2>1, <2>4, ZenonT(60) DEF Initiator, Keeps, Made
  <2>6. /\ sess'[m.er].stage # 0 /\ ~sess'[m.er].initiator /\ sess'[m.er].owner = m.from
        /\ sess'[m.er].peer = o /\ sess'[m.er].ei = m.ei /\ sess'[m.er].er = m.er
    BY <1>1, <2>1, <2>2, <2>4 DEF Responder, Keeps, Made, Keyed
  <2> QED
    BY <2>1, <2>3, <2>5, <2>6 DEF Initiator, Responder, Made
<1>4. ASSUME m.type = "data"
      PROVE  /\ sess'[m.sid].stage # 0
             /\ sess'[m.sid].owner = m.by /\ sess'[m.sid].peer = m.to
             /\ sess'[m.sid].ei = m.ei /\ sess'[m.sid].er = m.er
             /\ sess'[m.sid].initiator = m.initiator
  <2>1. m.sid \in Sid /\ m.er \in Sid
    BY <1>4, MsgFields
  <2>2. /\ Made(m.sid) /\ sess[m.sid].owner = m.by /\ sess[m.sid].peer = m.to
        /\ sess[m.sid].ei = m.ei /\ sess[m.sid].er = m.er
        /\ sess[m.sid].initiator = m.initiator
    BY <1>4 DEF MsgInv
  <2> QED
    BY <1>1, <2>1, <2>2 DEF SessionsKeep, Keeps, Keyed
<1> QED
  BY <1>2, <1>3, <1>4 DEF MsgInv, Made

\* A session that the step does not touch keeps its part of the invariant.
LEMMA SessionStays ==
    ASSUME SessionsKeep, NEW s \in Sid, SessionInv(s), SameSession(s)
    PROVE  SessionInv(s)'
<1>1. NoSid \notin Sid
  BY SessionAssumption
<1>2. CASE ~Made(s)
  BY <1>2, ZenonT(60) DEF SessionInv, Made, SameSession, Keyed
<1>3. CASE Made(s) /\ sess[s].initiator
  <2> DEFINE o == sess[s].owner
             p == sess[s].peer
             t == sess[s].er
  <2>1. o \in Nodes /\ p \in Nodes /\ Initiator(s, o, p)
    BY <1>3 DEF SessionInv
  <2>2. Keyed(s) => t \in Sid /\ Responder(t, s, o, p)
    BY <1>3 DEF SessionInv
  <2>3. ASSUME Keyed(s)
        PROVE  /\ sess'[t].stage # 0 /\ ~sess'[t].initiator /\ sess'[t].owner = p
               /\ sess'[t].peer = o /\ sess'[t].ei = s /\ sess'[t].er = t
    BY <1>1, <2>2, <2>3, ZenonT(60) DEF SessionsKeep, Keeps, Responder, Made, Keyed
  <2> QED
    BY <1>3, <2>1, <2>2, <2>3 DEF SessionInv, Initiator, Responder, Made, Keyed, SameSession
<1>4. CASE Made(s) /\ ~sess[s].initiator
  <2> DEFINE o == sess[s].owner
             p == sess[s].peer
             i == sess[s].ei
  <2>1. /\ o \in Nodes /\ p \in Nodes /\ i \in Sid
        /\ Responder(s, i, p, o) /\ Initiator(i, p, o)
    BY <1>4 DEF SessionInv
  <2>2. /\ sess'[i].stage # 0 /\ sess'[i].initiator /\ sess'[i].owner = p
        /\ sess'[i].peer = o /\ sess'[i].ei = i
    BY <2>1 DEF SessionsKeep, Keeps, Initiator
  <2> QED
    BY <1>4, <2>1, <2>2 DEF SessionInv, Initiator, Responder, Made, SameSession, Keyed
<1> QED
  BY <1>2, <1>3, <1>4
----------------------------------------------------------------------------
\* A step keeps the invariant if sessions keep what they are, and everything
\* the step adds is as the invariant says.
LEMMA StepKeepsInv ==
    ASSUME Inv, TypeOK', SessionsKeep,
           \A s \in Sid : SameSession(s) \/ SessionInv(s)',
           \A m \in net' : m \in net \/ MsgInv(m)',
           \A n \in Nodes, i \in Idx :
               \/ \E j \in Idx : store'[n][i] = store[n][j]
               \/ StoreInv(n, store[n][i])',
           \A n \in Nodes, g \in Senders :
               sending'[n][g] = sending[n][g] \/ SendingInv(n, sending[n][g])',
           \A n \in Nodes, r \in Receivers :
               \/ receiving'[n][r] = receiving[n][r]
               \/ receiving'[n][r] # NoSid => sess'[receiving'[n][r]].stage # 0
    PROVE  Inv'
<1>0. TypeOK /\ NoSid \notin Sid
  BY SessionAssumption DEF Inv
<1>1. \A s \in Sid : SessionInv(s)'
  <2>1. \A s \in Sid : SessionInv(s)
    BY DEF Inv
  <2> QED
    BY <2>1, SessionStays
<1>2. \A m \in net' : MsgInv(m)'
  <2>1. net \subseteq Msg /\ \A m \in net : MsgInv(m)
    BY DEF Inv, TypeOK
  <2> QED
    BY <2>1, MsgStays
<1>3. ASSUME NEW n \in Nodes, NEW i \in Idx PROVE StoreInv(n, store[n][i])'
  <2>1. CASE \E j \in Idx : store'[n][i] = store[n][j]
    <3>1. PICK j \in Idx : store'[n][i] = store[n][j]
      BY <2>1
    <3>2. StoreInv(n, store[n][j]) /\ store[n][j] \in Sid \cup {NoSid}
      BY <1>0 DEF Inv, TypeOK
    <3>3. store'[n][i] # NoSid =>
            sess'[store'[n][i]].stage # 0 /\ sess'[store'[n][i]].owner = n
      BY <3>1, <3>2 DEF StoreInv, SessionsKeep, Keeps, Made
    <3> QED
      BY <3>3 DEF StoreInv, Made
  <2> QED
    BY <2>1
<1>4. ASSUME NEW n \in Nodes, NEW g \in Senders PROVE SendingInv(n, sending[n][g])'
  <2>1. CASE sending'[n][g] = sending[n][g]
    <3> DEFINE c == sending[n][g]
    <3>1. SendingInv(n, c) /\ c \in Sending \cup {Idle}
      BY <1>0 DEF Inv, TypeOK
    <3>2. c # Idle => c.sid \in Sid
      BY <3>1, ZenonT(60) DEF Sending
    <3> HIDE DEF c
    <3>3. c # Idle => /\ sess'[c.sid].stage # 0 /\ sess'[c.sid].owner = n
                      /\ sess'[c.sid].peer = c.to
                      /\ c.at # "found" => sess'[c.sid].er # NoSid
      BY <3>1, <3>2 DEF SendingInv, SessionsKeep, Keeps, Made, Keyed
    <3> QED
      BY <2>1, <3>3 DEF SendingInv, Made, Keyed, c
  <2> QED
    BY <2>1, ZenonT(60)
<1>5. ASSUME NEW n \in Nodes, NEW r \in Receivers, receiving'[n][r] # NoSid
      PROVE  sess'[receiving'[n][r]].stage # 0
  <2>1. CASE receiving'[n][r] = receiving[n][r]
    <3>1. receiving[n][r] \in Sid /\ Made(receiving[n][r])
      BY <1>0, <1>5, <2>1 DEF Inv, TypeOK
    <3> QED
      BY <2>1, <3>1 DEF SessionsKeep, Keeps
  <2> QED
    BY <2>1, <1>5
<1> QED
  BY <1>1, <1>2, <1>3, <1>4, <1>5 DEF Inv, Made

\* Steps that leave the sessions alone.
LEMMA SessUnchanged ==
    ASSUME sess' = sess
    PROVE  SessionsKeep /\ SameNonces /\ \A s \in Sid : SameSession(s)
BY DEF SessionsKeep, SameNonces, Keeps, SameSession, Made
----------------------------------------------------------------------------
\* Making session s with record new touches no other session.
LEMMA MakeFacts ==
    ASSUME Inv, NEW s \in Sid, NEW new \in SessionRec, sess[s].stage = 0, new.stage # 0,
           sess' = [sess EXCEPT ![s] = new]
    PROVE  /\ sess' \in [Sid -> SessionRec]
           /\ sess'[s] = new
           /\ \A x \in Sid \ {s} : sess'[x] = sess[x]
           /\ SessionsKeep /\ SameNonces
           /\ \A x \in Sid \ {s} : SameSession(x)
<1>1. sess \in [Sid -> SessionRec]
  BY DEF Inv, TypeOK
<1>2. sess' \in [Sid -> SessionRec] /\ sess'[s] = new /\ \A x \in Sid \ {s} : sess'[x] = sess[x]
  BY <1>1
<1> QED
  BY <1>2 DEF SessionsKeep, SameNonces, Keeps, Made, SameSession

\* Insert puts s into a free index of n.
LEMMA InsertFacts ==
    ASSUME Inv, NEW n \in Nodes, NEW s \in Sid, NEW i \in Idx, Insert(n, s, i)
    PROVE  /\ store' \in [Nodes -> [Idx -> Sid \cup {NoSid}]]
           /\ drawn' \subseteq Idx /\ collided' \in BOOLEAN
           /\ \A x \in Nodes, j \in Idx :
                store'[x][j] = store[x][j] \/ (x = n /\ store'[x][j] = s)
<1>1. store \in [Nodes -> [Idx -> Sid \cup {NoSid}]] /\ drawn \subseteq Idx
  BY DEF Inv, TypeOK
<1>2. store' = [store EXCEPT ![n][i] = s]
  BY DEF Insert
<1>3. drawn' \subseteq Idx /\ collided' \in BOOLEAN
  BY <1>1 DEF Insert
<1> QED
  BY <1>1, <1>2, <1>3

LEMMA CreateHelloKeepsInv ==
    ASSUME Inv, NEW n \in Nodes, NEW p \in Nodes, NEW s \in Sid, NEW i \in Idx,
           CreateHello(n, p, s, i)
    PROVE  Inv' /\ SessionsKeep /\ SameNonces
<1> DEFINE new == NewSession(n, p, TRUE, 1, s, NoSid)
           h == [type |-> "hello", from |-> n, to |-> p, idx |-> i, ei |-> s]
<1>1. /\ sess[s].stage = 0 /\ Insert(n, s, i) /\ sess' = [sess EXCEPT ![s] = new]
      /\ net' = net \cup {h} /\ UNCHANGED <<swapping, sending, receiving, firsts, made>>
  BY DEF CreateHello, MakeHello
<1>2. /\ new \in SessionRec /\ new.stage # 0 /\ new.owner = n /\ new.peer = p
      /\ new.initiator /\ new.ei = s /\ new.er = NoSid
  BY DEF NewSession, SessionRec
<1>3. h \in Msg /\ h.type = "hello" /\ h.from = n /\ h.to = p /\ h.ei = s
  BY DEF Msg, HelloMsg
<1> HIDE DEF new, h
<1>4. /\ sess' \in [Sid -> SessionRec] /\ sess'[s] = new
      /\ SessionsKeep /\ SameNonces /\ \A x \in Sid \ {s} : SameSession(x)
  BY <1>1, <1>2, MakeFacts, ZenonT(60)
<1>5. TypeOK'
  BY <1>1, <1>3, <1>4, InsertFacts DEF Inv, TypeOK
<1>6. SessionInv(s)'
  BY <1>2, <1>4 DEF SessionInv, Initiator, Made, Keyed
<1>7. MsgInv(h)'
  BY <1>2, <1>3, <1>4 DEF MsgInv, Initiator, Made
<1>8. ASSUME NEW x \in Nodes, NEW j \in Idx
      PROVE  \/ \E k \in Idx : store'[x][j] = store[x][k]
             \/ StoreInv(x, store[x][j])'
  <2>1. store'[x][j] = store[x][j] \/ (x = n /\ store'[x][j] = s)
    BY <1>1, InsertFacts
  <2> QED
    BY <2>1, <1>2, <1>4 DEF StoreInv, Made
<1>9. /\ \A x \in Sid : SameSession(x) \/ SessionInv(x)'
      /\ \A m \in net' : m \in net \/ MsgInv(m)'
  BY <1>1, <1>4, <1>6, <1>7, ZenonT(60)
<1> QED
  BY <1>1, <1>4, <1>5, <1>8, <1>9, StepKeepsInv

LEMMA HandleHelloKeepsInv ==
    ASSUME Inv, NEW n \in Nodes, NEW m \in net, NEW s \in Sid, NEW i \in Idx,
           HandleHello(n, m, s, i)
    PROVE  Inv' /\ SessionsKeep /\ SameNonces
<1> DEFINE new == NewSession(n, m.from, FALSE, 2, m.ei, s)
           h == MakeResponse(n, m, s, i)
<1>0. m \in Msg /\ m.type = "hello" /\ m.to = n /\ MsgInv(m)
  BY DEF HandleHello, ConsumeHello, Inv, TypeOK
<1>a. m.from \in Nodes /\ m.idx \in Idx /\ m.ei \in Sid
  BY <1>0, MsgFields
<1>b. Initiator(m.ei, m.from, n)
  BY <1>0 DEF MsgInv
<1>1. /\ sess[s].stage = 0 /\ Insert(n, s, i) /\ sess' = [sess EXCEPT ![s] = new]
      /\ net' = net \cup {h} /\ UNCHANGED <<swapping, sending, receiving, firsts, made>>
  BY DEF HandleHello
<1>2. /\ new \in SessionRec /\ new.stage = 2 /\ new.stage # 0 /\ new.owner = n /\ new.peer = m.from
      /\ ~new.initiator /\ new.ei = m.ei /\ new.er = s
  BY <1>a DEF NewSession, SessionRec
<1>3. /\ h \in Msg /\ h.type = "response" /\ h.from = n /\ h.ei = m.ei /\ h.er = s
  BY <1>a DEF MakeResponse, Msg, ResponseMsg
<1> HIDE DEF new, h
<1>4. /\ sess' \in [Sid -> SessionRec] /\ sess'[s] = new
      /\ SessionsKeep /\ SameNonces /\ \A x \in Sid \ {s} : SameSession(x)
  BY <1>1, <1>2, MakeFacts, ZenonT(60)
<1>5. TypeOK'
  BY <1>1, <1>3, <1>4, <1>a, InsertFacts, ZenonT(60) DEF Inv, TypeOK
<1>6. /\ sess'[m.ei].stage # 0 /\ sess'[m.ei].initiator /\ sess'[m.ei].owner = m.from
      /\ sess'[m.ei].peer = n /\ sess'[m.ei].ei = m.ei
  BY <1>a, <1>b, <1>4, ZenonT(60) DEF Initiator, SessionsKeep, Keeps
<1>7. SessionInv(s)'
  <2>1. Responder(s, m.ei, m.from, n)'
    BY <1>2, <1>4 DEF Responder, Made
  <2>2. Initiator(m.ei, m.from, n)'
    BY <1>6 DEF Initiator, Made
  <2> QED BY <1>2, <1>4, <1>a, <2>1, <2>2 DEF SessionInv
<1>8. MsgInv(h)'
  BY <1>2, <1>3, <1>4, <1>6, <1>a DEF MsgInv, Initiator, Responder, Made
<1>9. ASSUME NEW x \in Nodes, NEW j \in Idx
      PROVE  \/ \E k \in Idx : store'[x][j] = store[x][k]
             \/ StoreInv(x, store[x][j])'
  <2>1. store'[x][j] = store[x][j] \/ (x = n /\ store'[x][j] = s)
    BY <1>1, <1>a, InsertFacts
  <2> QED
    BY <2>1, <1>2, <1>4 DEF StoreInv, Made
<1>10. /\ \A x \in Sid : SameSession(x) \/ SessionInv(x)'
       /\ \A y \in net' : y \in net \/ MsgInv(y)'
  BY <1>1, <1>4, <1>7, <1>8
<1> QED
  BY <1>1, <1>4, <1>5, <1>9, <1>10, StepKeepsInv

\* What the steps of a session write into its record.
LEMMA RecordWrites ==
    /\ \A r \in SessionRec, t \in Sid : [r EXCEPT !.er = t] \in SessionRec
    /\ \A r \in SessionRec : [r EXCEPT !.stage = 3] \in SessionRec
    /\ \A r \in SessionRec, c \in Nat : [r EXCEPT !.nonce = c] \in SessionRec
<1>1. \A r \in SessionRec, t \in Sid : [r EXCEPT !.er = t] \in SessionRec
  BY DEF SessionRec
<1>2. \A r \in SessionRec : [r EXCEPT !.stage = 3] \in SessionRec
  BY DEF SessionRec
<1>3. \A r \in SessionRec, c \in Nat : [r EXCEPT !.nonce = c] \in SessionRec
  BY DEF SessionRec
<1> QED
  BY <1>1, <1>2, <1>3

LEMMA HandleResponseKeepsInv ==
    ASSUME Inv, NEW n \in Nodes, NEW m \in net, HandleResponse(n, m)
    PROVE  Inv' /\ SessionsKeep /\ SameNonces
<1>0. m \in Msg /\ m.type = "response" /\ MsgInv(m) /\ NoSid \notin Sid
  BY SessionAssumption DEF HandleResponse, HandleHelloResponse, Inv, TypeOK
<1>a. m.from \in Nodes /\ m.idx \in Idx /\ m.sidx \in Idx /\ m.ei \in Sid /\ m.er \in Sid
  BY <1>0, MsgFields
<1>s. PICK s \in Sid : s = store[n][m.idx]
  BY <1>a DEF HandleResponse, HandleHelloResponse, Inv, TypeOK
<1> DEFINE new == [sess[s] EXCEPT !.er = m.er, !.stage = 3]
           w == [from |-> m.idx, to |-> m.sidx, sid |-> s]
<1>b. sess[s] \in SessionRec
  BY ZenonT(60) DEF Inv, TypeOK
<1>c. /\ sess[s].initiator /\ sess[s].stage = 1
      /\ sess[s].ei = m.ei /\ sess[s].peer = m.from
  BY <1>s DEF HandleResponse, HandleHelloResponse, ConsumeResponse
<1>d. /\ sess' = [sess EXCEPT ![s].er = m.er, ![s].stage = 3]
      /\ swapping' = [swapping EXCEPT ![n] = w]
      /\ UNCHANGED <<store, net, sending, receiving, firsts, made, drawn, collided>>
  BY <1>s, ZenonT(60) DEF HandleResponse, HandleHelloResponse
<1>e. /\ Initiator(s, sess[s].owner, sess[s].peer) /\ sess[s].owner \in Nodes
      /\ Keyed(s) => sess[s].er \in Sid /\ Responder(sess[s].er, s, sess[s].owner, sess[s].peer)
  <2>1. SessionInv(s) /\ Made(s)
    BY <1>c DEF Inv, Made
  <2> QED
    BY <1>c, <2>1 DEF SessionInv
<1>f. m.ei = s
  BY <1>c, <1>e DEF Initiator
<1>g. Responder(m.er, s, sess[s].owner, m.from)
  BY <1>0, <1>f DEF MsgInv
<1>h. w \in Swapping
  BY <1>a, <1>b DEF Swapping
<1> HIDE DEF w
<1>1. /\ new \in SessionRec /\ new.stage = 3 /\ new.er = m.er /\ new.owner = sess[s].owner
      /\ new.peer = sess[s].peer /\ new.initiator = sess[s].initiator /\ new.ei = sess[s].ei
      /\ new.nonce = sess[s].nonce
  <2> DEFINE r == sess[s]
  <2>1. r \in SessionRec /\ new = [r EXCEPT !.er = m.er, !.stage = 3]
    BY <1>b
  <2> HIDE DEF r, new
  <2>2. /\ new.stage = 3 /\ new.er = m.er /\ new.owner = r.owner
        /\ new.peer = r.peer /\ new.initiator = r.initiator /\ new.ei = r.ei
        /\ new.nonce = r.nonce
    BY <2>1 DEF SessionRec
  <2>3. new \in SessionRec
    <3>1. new = [[r EXCEPT !.er = m.er] EXCEPT !.stage = 3]
      BY <2>1
    <3>2. [r EXCEPT !.er = m.er] \in SessionRec
      BY <1>a, <2>1, RecordWrites
    <3>3. \A x \in SessionRec : [x EXCEPT !.stage = 3] \in SessionRec
      BY RecordWrites, ZenonT(60)
    <3> QED
      BY <3>1, <3>2, <3>3, ZenonT(60)
  <2> QED
    BY <2>2, <2>3 DEF r
<1>2. sess' = [sess EXCEPT ![s] = new]
  BY <1>b, <1>d, ZenonT(60) DEF Inv, TypeOK
<1> HIDE DEF new
<1>3. /\ sess' \in [Sid -> SessionRec] /\ sess'[s] = new
      /\ \A x \in Sid \ {s} : sess'[x] = sess[x]
  BY <1>1, <1>2, <1>b DEF Inv, TypeOK
<1>4. TypeOK'
  <2>1. swapping' \in [Nodes -> Swapping \cup {Idle}]
    BY <1>d, <1>h DEF Inv, TypeOK
  <2> QED
    BY <2>1, <1>3, <1>d DEF Inv, TypeOK
<1>5. SessionsKeep /\ SameNonces
  <2>1. ~Keyed(s)
    BY <1>b, <1>c DEF Inv, SessionInv
  <2>2. Keeps(s)
    BY <2>1, <1>1, <1>3 DEF Keeps, Made
  <2>3. \A x \in Sid \ {s} : Keeps(x)
    BY <1>3, ZenonT(60) DEF Keeps, Made
  <2> QED
    BY <2>2, <2>3, <1>1, <1>3, ZenonT(60) DEF SessionsKeep, SameNonces
<1>6. SessionInv(s)'
  <2>1. /\ sess'[m.er].stage # 0 /\ ~sess'[m.er].initiator /\ sess'[m.er].owner = m.from
        /\ sess'[m.er].peer = sess[s].owner /\ sess'[m.er].ei = s /\ sess'[m.er].er = m.er
    <3>1. m.er # s
      BY <1>g, <1>c DEF Responder
    <3> QED
      BY <3>1, <1>3, <1>g, <1>a DEF Responder, Made
  <2>2. sess'[s].owner \in Nodes /\ sess'[s].peer \in Nodes /\ sess'[s].initiator
    BY <1>1, <1>3, <1>e, <1>c, <1>a, ZenonT(60)
  <2>3. sess'[s].ei = s /\ sess'[s].stage = 3 /\ sess'[s].er = m.er
    BY <1>1, <1>3, <1>c, <1>f
  <2>4. sess'[s].owner = sess[s].owner /\ sess'[s].peer = m.from
    BY <1>1, <1>3, <1>c
  <2> QED
    BY <2>1, <2>2, <2>3, <2>4, <1>a DEF SessionInv, Initiator, Responder, Made, Keyed
<1>7. \A x \in Sid : SameSession(x) \/ SessionInv(x)'
  BY <1>3, <1>6 DEF SameSession
<1> QED
  BY <1>4, <1>5, <1>7, <1>d, StepKeepsInv

LEMMA SwapKeepsInv ==
    ASSUME Inv, NEW n \in Nodes, Swap(n)
    PROVE  Inv' /\ SessionsKeep /\ SameNonces /\ \A x \in Sid : SameSession(x)
<1> DEFINE w == swapping[n]
           st == [i \in Idx |-> IF i = w.to THEN store[n][w.from]
                                ELSE IF i = w.from THEN NoSid ELSE store[n][i]]
<1>1. /\ w # Idle /\ store' = [store EXCEPT ![n] = st]
      /\ swapping' = [swapping EXCEPT ![n] = Idle]
      /\ UNCHANGED <<sess, net, sending, receiving, firsts, made, drawn, collided>>
  BY DEF Swap
<1>2. w.from \in Idx /\ w.to \in Idx
  BY <1>1 DEF Inv, TypeOK, Swapping
<1>3. store \in [Nodes -> [Idx -> Sid \cup {NoSid}]]
  BY ZenonT(60) DEF Inv, TypeOK
<1>4. st \in [Idx -> Sid \cup {NoSid}]
  BY <1>2, <1>3
<1>5. \A j \in Idx : (\E k \in Idx : st[j] = store[n][k]) \/ st[j] = NoSid
  BY <1>2
<1> HIDE DEF st, w
<1>6. /\ store' \in [Nodes -> [Idx -> Sid \cup {NoSid}]] /\ store'[n] = st
      /\ \A x \in Nodes \ {n} : store'[x] = store[x]
  BY <1>1, <1>3, <1>4
<1>7. swapping' \in [Nodes -> Swapping \cup {Idle}]
  BY <1>1, ZenonT(60) DEF Inv, TypeOK
<1>8. TypeOK'
  BY <1>1, <1>6, <1>7 DEF Inv, TypeOK
<1>9. ASSUME NEW x \in Nodes, NEW j \in Idx
      PROVE  \/ \E k \in Idx : store'[x][j] = store[x][k]
             \/ StoreInv(x, store[x][j])'
  BY <1>5, <1>6 DEF StoreInv
<1>10. SessionsKeep /\ SameNonces /\ \A s \in Sid : SameSession(s)
  BY <1>1, SessUnchanged
<1> QED
  BY <1>1, <1>8, <1>9, <1>10, StepKeepsInv

\* A step of CreateData of routine g at node n that touches no session.
LEMMA SendingStep ==
    ASSUME Inv, NEW n \in Nodes, NEW g \in Senders, NEW c \in Sending \cup {Idle},
           sending' = [sending EXCEPT ![n][g] = c], SendingInv(n, c),
           UNCHANGED <<sess, store, net, swapping, receiving, firsts, made, drawn, collided>>
    PROVE  Inv' /\ SessionsKeep /\ SameNonces /\ \A x \in Sid : SameSession(x)
<1>1. sending \in [Nodes -> [Senders -> Sending \cup {Idle}]]
  BY DEF Inv, TypeOK
<1>2. /\ sending' \in [Nodes -> [Senders -> Sending \cup {Idle}]]
      /\ \A x \in Nodes, y \in Senders :
            sending'[x][y] = sending[x][y] \/ (x = n /\ sending'[x][y] = c)
  BY <1>1
<1>3. TypeOK'
  BY <1>2 DEF Inv, TypeOK
<1>4. SessionsKeep /\ SameNonces /\ \A s \in Sid : SameSession(s)
  BY SessUnchanged, ZenonT(60)
<1>5. ASSUME NEW x \in Nodes, NEW y \in Senders
      PROVE  sending'[x][y] = sending[x][y] \/ SendingInv(x, sending[x][y])'
  BY <1>2 DEF SendingInv, Made, Keyed
<1> QED
  BY <1>3, <1>4, <1>5, StepKeepsInv

LEMMA FindKeepsInv ==
    ASSUME Inv, NEW n \in Nodes, NEW p \in Nodes, NEW g \in Senders, NEW i \in Idx,
           Find(n, g, p, i)
    PROVE  Inv' /\ SessionsKeep /\ SameNonces /\ \A x \in Sid : SameSession(x)
<1> DEFINE c == [at |-> "found", sid |-> store[n][i], idx |-> i, nonce |-> 0, to |-> p]
<1>1. store[n][i] \in Sid /\ StoreInv(n, store[n][i])
  BY DEF Find, Inv, TypeOK
<1>2. c \in Sending /\ c.sid = store[n][i] /\ c.at = "found" /\ c.to = p
  BY <1>1 DEF Sending
<1>3. /\ sending' = [sending EXCEPT ![n][g] = c] /\ sess[store[n][i]].peer = p
      /\ store[n][i] # NoSid
      /\ UNCHANGED <<sess, store, net, swapping, receiving, firsts, made, drawn, collided>>
  BY DEF Find
<1> HIDE DEF c
<1>4. SendingInv(n, c)
  BY <1>1, <1>2, <1>3 DEF SendingInv, StoreInv
<1> QED
  BY <1>2, <1>3, <1>4, SendingStep, ZenonT(60)

LEMMA NotFinishedKeepsInv ==
    ASSUME Inv, NEW n \in Nodes, NEW g \in Senders, NotFinished(n, g)
    PROVE  Inv' /\ SessionsKeep /\ SameNonces /\ \A x \in Sid : SameSession(x)
<1>1. SendingInv(n, Idle)
  BY DEF SendingInv
<1> QED
  BY <1>1, SendingStep, ZenonT(60) DEF NotFinished

\* What is known of a routine that is inside CreateData.
LEMMA SendingFacts ==
    ASSUME Inv, NEW n \in Nodes, NEW g \in Senders, sending[n][g].at # "idle"
    PROVE  /\ sending[n][g] \in Sending /\ sending[n][g] # Idle
           /\ sending[n][g].sid \in Sid /\ sending[n][g].idx \in Idx
           /\ sending[n][g].to \in Nodes /\ sending[n][g].nonce \in Nat
           /\ SendingInv(n, sending[n][g])
<1>1. sending[n][g] \in Sending \cup {Idle} /\ SendingInv(n, sending[n][g])
  BY DEF Inv, TypeOK
<1>2. sending[n][g] # Idle
  BY DEF Idle
<1> QED
  BY <1>1, <1>2 DEF Sending

LEMMA LoadNonceKeepsInv ==
    ASSUME Inv, NEW n \in Nodes, NEW g \in Senders, LoadNonce(n, g)
    PROVE  Inv' /\ SessionsKeep /\ SameNonces /\ \A x \in Sid : SameSession(x)
<1>0. PICK c \in Sending : c = sending[n][g] /\ c.sid \in Sid /\ SendingInv(n, c) /\ c # Idle
  BY SendingFacts DEF LoadNonce
<1>1. PICK v \in Nat : v = sess[c.sid].nonce
  BY <1>0, ZenonT(60) DEF Inv, TypeOK, SessionRec
<1> DEFINE d == [c EXCEPT !.at = "loaded", !.nonce = v]
<1>2. /\ Keyed(c.sid) /\ sending' = [sending EXCEPT ![n][g].at = "loaded", ![n][g].nonce = v]
      /\ UNCHANGED <<sess, store, net, swapping, receiving, firsts, made, drawn, collided>>
  BY <1>0, <1>1 DEF LoadNonce
<1>3. sending' = [sending EXCEPT ![n][g] = d]
  BY <1>0, <1>2, ZenonT(60) DEF Inv, TypeOK
<1>4. d.sid = c.sid /\ d.to = c.to
  BY DEF Sending
<1>5. d \in Sending
  BY ZenonT(60) DEF Sending
<1> HIDE DEF d
<1>6. SendingInv(n, d)
  BY <1>0, <1>2, <1>4 DEF SendingInv
<1> QED
  BY <1>2, <1>3, <1>5, <1>6, SendingStep, ZenonT(60)

LEMMA StoreNonceKeepsInv ==
    ASSUME Inv, NEW n \in Nodes, NEW g \in Senders, StoreNonce(n, g)
    PROVE  Inv' /\ SessionsKeep /\ \A x \in Sid : SameSession(x)
<1>0. PICK c \in Sending : /\ c = sending[n][g] /\ c.sid \in Sid /\ c.nonce \in Nat
                           /\ SendingInv(n, c) /\ c # Idle
  BY SendingFacts, ZenonT(60) DEF StoreNonce
<1> DEFINE d == [c EXCEPT !.at = "stored"]
           new == [sess[c.sid] EXCEPT !.nonce = c.nonce + 1]
<1>1. /\ c.at = "loaded" /\ sess' = [sess EXCEPT ![c.sid].nonce = c.nonce + 1]
      /\ sending' = [sending EXCEPT ![n][g].at = "stored"]
      /\ UNCHANGED <<store, net, swapping, receiving, firsts, made, drawn, collided>>
  BY <1>0 DEF StoreNonce
<1>2. d \in Sending /\ d.sid = c.sid /\ d.to = c.to /\ d.at = "stored"
  BY DEF Sending
<1>3. /\ sending' \in [Nodes -> [Senders -> Sending \cup {Idle}]]
      /\ \A x \in Nodes, y \in Senders :
            sending'[x][y] = sending[x][y] \/ (x = n /\ y = g /\ sending'[x][y] = d)
  <2>1. sending \in [Nodes -> [Senders -> Sending \cup {Idle}]]
    BY DEF Inv, TypeOK
  <2>2. sending' = [sending EXCEPT ![n][g] = d]
    BY <1>0, <1>1, <2>1
  <2> HIDE DEF d
  <2> QED
    BY <1>2, <2>1, <2>2
<1>4. sess \in [Sid -> SessionRec] /\ sess[c.sid] \in SessionRec /\ c.nonce + 1 \in Nat
  BY <1>0 DEF Inv, TypeOK
<1>5. new \in SessionRec
  BY <1>4, RecordWrites
<1>6. /\ new.owner = sess[c.sid].owner /\ new.peer = sess[c.sid].peer
      /\ new.initiator = sess[c.sid].initiator /\ new.stage = sess[c.sid].stage
      /\ new.ei = sess[c.sid].ei /\ new.er = sess[c.sid].er
  BY <1>4 DEF SessionRec
<1>7. sess' = [sess EXCEPT ![c.sid] = new]
  BY <1>0, <1>1, <1>4, ZenonT(60)
<1> HIDE DEF d, new
<1>8. sess' \in [Sid -> SessionRec] /\ SessionsKeep /\ \A x \in Sid : SameSession(x)
  <2>1. /\ sess' \in [Sid -> SessionRec] /\ sess'[c.sid] = new
        /\ \A x \in Sid \ {c.sid} : sess'[x] = sess[x]
    BY <1>0, <1>4, <1>5, <1>7
  <2> QED
    BY <2>1, <1>6, ZenonT(60) DEF SessionsKeep, Keeps, SameSession, Made
<1>9. TypeOK'
  BY <1>1, <1>3, <1>8, ZenonT(60) DEF Inv, TypeOK
<1>10. SendingInv(n, d)'
  <2>1. Made(c.sid) /\ sess[c.sid].owner = n /\ sess[c.sid].peer = c.to /\ Keyed(c.sid)
    BY <1>0, <1>1 DEF SendingInv
  <2>2. SameSession(c.sid)
    BY <1>0, <1>8
  <2> QED
    BY <2>1, <2>2, <1>2, ZenonT(60) DEF SendingInv, SameSession, Made, Keyed
<1>11. ASSUME NEW x \in Nodes, NEW y \in Senders
       PROVE  sending'[x][y] = sending[x][y] \/ SendingInv(x, sending[x][y])'
  <2>1. CASE x = n /\ y = g /\ sending'[x][y] = d
    BY <1>10, <2>1, ZenonT(60) DEF SendingInv
  <2> QED
    BY <1>3, <2>1, ZenonT(60)
<1> QED
  BY <1>1, <1>8, <1>9, <1>11, StepKeepsInv

LEMMA SealKeepsInv ==
    ASSUME Inv, NEW n \in Nodes, NEW g \in Senders, Seal(n, g)
    PROVE  Inv' /\ SessionsKeep /\ SameNonces /\ \A x \in Sid : SameSession(x)
<1>0. PICK c \in Sending : /\ c = sending[n][g] /\ c.sid \in Sid /\ c.idx \in Idx
                           /\ c.to \in Nodes /\ SendingInv(n, c) /\ c # Idle
  BY SendingFacts DEF Seal
<1>1. PICK r \in SessionRec : r = sess[c.sid]
  BY <1>0, ZenonT(60) DEF Inv, TypeOK
<1> DEFINE d == [type |-> "data", by |-> n, to |-> c.to, sid |-> c.sid, num |-> made,
                 idx |-> c.idx, ei |-> r.ei, er |-> r.er, initiator |-> r.initiator,
                 nonce |-> r.nonce]
<1>2. /\ c.at = "stored" /\ made' = made + 1 /\ net' = net \cup {d}
      /\ sending' = [sending EXCEPT ![n][g] = Idle]
      /\ UNCHANGED <<sess, store, swapping, receiving, firsts, drawn, collided>>
  BY <1>0, <1>1, ZenonT(60) DEF Seal
<1>3. Made(c.sid) /\ r.owner = n /\ r.peer = c.to /\ Keyed(c.sid)
  BY <1>0, <1>1, <1>2, ZenonT(60) DEF SendingInv
<1>4. SessionInv(c.sid)
  BY <1>0 DEF Inv
<1>5. r.ei \in Sid /\ r.er \in Sid /\ r.initiator \in BOOLEAN /\ r.nonce \in Nat
  <2>1. r.er \in Sid \cup {NoSid} /\ r.initiator \in BOOLEAN /\ r.nonce \in Nat
    BY DEF SessionRec
  <2>2. r.er \in Sid
    BY <2>1, <1>1, <1>3 DEF Keyed
  <2>3. CASE r.initiator
    BY <2>1, <2>2, <2>3, <1>0, <1>1, <1>3, <1>4, ZenonT(60) DEF SessionInv, Initiator
  <2>4. CASE ~r.initiator
    BY <2>1, <2>2, <2>4, <1>1, <1>3, <1>4, ZenonT(60) DEF SessionInv
  <2> QED
    BY <2>3, <2>4
<1>6. made \in Nat
  BY ZenonT(60) DEF Inv, TypeOK
<1>7. d \in Msg
  BY <1>0, <1>5, <1>6, ZenonT(60) DEF Msg, DataMsg
<1>8. /\ d.type = "data" /\ d.sid = c.sid /\ d.by = n /\ d.to = c.to
      /\ d.ei = r.ei /\ d.er = r.er /\ d.initiator = r.initiator
  OBVIOUS
<1> HIDE DEF d
<1>9. /\ sending' \in [Nodes -> [Senders -> Sending \cup {Idle}]]
      /\ \A x \in Nodes, y \in Senders :
            sending'[x][y] = sending[x][y] \/ sending'[x][y] = Idle
  <2>1. sending \in [Nodes -> [Senders -> Sending \cup {Idle}]]
    BY ZenonT(60) DEF Inv, TypeOK
  <2> QED
    BY <1>2, <2>1
<1>10. TypeOK'
  BY <1>2, <1>6, <1>7, <1>9 DEF Inv, TypeOK
<1>11. \A m \in net' : m \in net \/ MsgInv(m)'
  <2>1. \A m \in net' : m = d => MsgInv(m)'
    <3>1. /\ sess'[d.sid].stage # 0 /\ sess'[d.sid].owner = d.by /\ sess'[d.sid].peer = d.to
          /\ sess'[d.sid].ei = d.ei /\ sess'[d.sid].er = d.er
          /\ sess'[d.sid].initiator = d.initiator
      BY <1>1, <1>2, <1>3, <1>8 DEF Made
    <3> QED
      BY <3>1, <1>8 DEF MsgInv, Made
  <2> QED
    BY <1>2, <2>1, ZenonT(60)
<1>12. SessionsKeep /\ SameNonces /\ \A s \in Sid : SameSession(s)
  BY <1>2, SessUnchanged, ZenonT(60)
<1>13. ASSUME NEW x \in Nodes, NEW y \in Senders
       PROVE  sending'[x][y] = sending[x][y] \/ SendingInv(x, sending[x][y])'
  BY <1>9, ZenonT(60) DEF SendingInv, Idle
<1> QED
  BY <1>2, <1>10, <1>11, <1>12, <1>13, StepKeepsInv, ZenonT(60)

LEMMA HandleDataKeepsInv ==
    ASSUME Inv, NEW n \in Nodes, NEW r \in Receivers, NEW m \in net, HandleData(n, r, m)
    PROVE  Inv' /\ SessionsKeep /\ SameNonces /\ \A x \in Sid : SameSession(x)
<1>1. PICK s \in Sid : s = store[n][m.idx] /\ Made(s)
  <2>1. store[n][m.idx] # NoSid
    BY DEF HandleData, Opens
  <2> QED BY <2>1, StoredSession, ZenonT(60)
<1>2. /\ receiving' = [receiving EXCEPT ![n][r] = s]
      /\ UNCHANGED <<sess, store, net, swapping, sending, firsts, made, drawn, collided>>
  BY <1>1 DEF HandleData
<1>4. /\ receiving' \in [Nodes -> [Receivers -> Sid \cup {NoSid}]]
      /\ \A x \in Nodes, y \in Receivers :
            receiving'[x][y] = receiving[x][y] \/ receiving'[x][y] = s
  <2>1. receiving \in [Nodes -> [Receivers -> Sid \cup {NoSid}]]
    BY ZenonT(60) DEF Inv, TypeOK
  <2> QED
    BY <1>2, <2>1
<1>5. TypeOK'
  BY <1>2, <1>4 DEF Inv, TypeOK
<1>6. SessionsKeep /\ SameNonces /\ \A x \in Sid : SameSession(x)
  BY <1>2, SessUnchanged, ZenonT(60)
<1>7. ASSUME NEW x \in Nodes, NEW y \in Receivers
      PROVE  \/ receiving'[x][y] = receiving[x][y]
             \/ receiving'[x][y] # NoSid => sess'[receiving'[x][y]].stage # 0
  BY <1>1, <1>2, <1>4 DEF Made
<1> QED
  BY <1>2, <1>5, <1>6, <1>7, StepKeepsInv, ZenonT(60)

LEMMA FirstDataKeepsInv ==
    ASSUME Inv, NEW n \in Nodes, NEW r \in Receivers, FirstData(n, r)
    PROVE  Inv' /\ SessionsKeep /\ SameNonces /\ \A x \in Sid : SameSession(x)
<1>1. PICK s \in Sid : s = receiving[n][r] /\ Made(s)
  BY DEF FirstData, Inv, TypeOK
<1> DEFINE new == [sess[s] EXCEPT !.stage = 3]
<1>2. /\ sess' = [sess EXCEPT ![s].stage = 3] /\ firsts' = [firsts EXCEPT ![s][r] = @ + 1]
      /\ receiving' = [receiving EXCEPT ![n][r] = NoSid]
      /\ UNCHANGED <<store, net, swapping, sending, made, drawn, collided>>
  BY <1>1 DEF FirstData
<1>3. sess \in [Sid -> SessionRec] /\ sess[s] \in SessionRec
  BY DEF Inv, TypeOK
<1>4. new \in SessionRec
  BY <1>3, RecordWrites
<1>5. /\ new.owner = sess[s].owner /\ new.peer = sess[s].peer
      /\ new.initiator = sess[s].initiator /\ new.stage = 3
      /\ new.ei = sess[s].ei /\ new.er = sess[s].er /\ new.nonce = sess[s].nonce
  BY <1>3 DEF SessionRec
<1>6. sess' = [sess EXCEPT ![s] = new]
  BY <1>2, <1>3
<1> HIDE DEF new
<1>7. /\ sess' \in [Sid -> SessionRec] /\ SessionsKeep /\ SameNonces
      /\ \A x \in Sid : SameSession(x)
  <2>1. /\ sess' \in [Sid -> SessionRec] /\ sess'[s] = new
        /\ \A x \in Sid \ {s} : sess'[x] = sess[x]
    BY <1>3, <1>4, <1>6
  <2> QED
    <3>1. ASSUME NEW x \in Sid
          PROVE  SameSession(x) /\ Keeps(x) /\ sess'[x].nonce = sess[x].nonce
      <4>1. CASE x = s
        <5>1. Keeps(x)
          BY <4>1, <2>1, <1>5 DEF Keeps
        <5>2. SameSession(x)
          BY <4>1, <2>1, <1>1, <1>5 DEF SameSession, Made
        <5> QED BY <4>1, <5>1, <5>2, <2>1, <1>5
      <4>2. CASE x # s
        BY <4>2, <2>1 DEF Keeps, SameSession, Made
      <4> QED
        BY <4>1, <4>2, ZenonT(60)
    <3> QED
      BY <2>1, <3>1 DEF SessionsKeep, SameNonces
<1>8. /\ receiving' \in [Nodes -> [Receivers -> Sid \cup {NoSid}]]
      /\ \A x \in Nodes, y \in Receivers :
            receiving'[x][y] = receiving[x][y] \/ receiving'[x][y] = NoSid
  <2>1. receiving \in [Nodes -> [Receivers -> Sid \cup {NoSid}]]
    BY DEF Inv, TypeOK
  <2> QED
    BY <1>2, <2>1
<1>9. firsts' \in [Sid -> [Receivers -> Nat]]
  <2>1. firsts \in [Sid -> [Receivers -> Nat]]
    BY DEF Inv, TypeOK
  <2> QED
    BY <1>2, <2>1
<1>10. TypeOK'
  BY <1>2, <1>7, <1>8, <1>9, ZenonT(60) DEF Inv, TypeOK
<1> QED
  BY <1>2, <1>7, <1>8, <1>10, StepKeepsInv

----------------------------------------------------------------------------
LEMMA InitInv == Init => Inv
<1> SUFFICES ASSUME Init PROVE Inv
  OBVIOUS
<1>1. /\ NoSession \in SessionRec /\ NoSession.stage = 0 /\ NoSession.er = NoSid
  BY DEF NoSession, NewSession, SessionRec
<1>2. \A s \in Sid : sess[s] = NoSession
  BY DEF Init
<1>3. TypeOK
  <2>1. sess \in [Sid -> SessionRec]
    BY <1>1, ZenonT(60) DEF Init
  <2> QED
    BY <2>1, ZenonT(60) DEF Init, TypeOK
<1>4. \A s \in Sid : SessionInv(s)
  BY <1>1, <1>2, ZenonT(60) DEF SessionInv, Made, Keyed
<1> QED
  BY <1>3, <1>4 DEF Init, Inv, StoreInv, SendingInv

LEMMA NextInv == Inv /\ [Next]_vars => Inv'
<1> SUFFICES ASSUME Inv, [Next]_vars PROVE Inv'
  OBVIOUS
<1>1. ASSUME NEW n \in Nodes, NEW p \in Nodes, NEW s \in Sid, NEW i \in Idx,
             CreateHello(n, p, s, i)
      PROVE  Inv'
  BY <1>1, CreateHelloKeepsInv
<1>2. ASSUME NEW n \in Nodes, NEW m \in net, NEW s \in Sid, NEW i \in Idx,
             HandleHello(n, m, s, i)
      PROVE  Inv'
  BY <1>2, HandleHelloKeepsInv
<1>3. ASSUME NEW n \in Nodes, NEW m \in net, HandleResponse(n, m) PROVE Inv'
  BY <1>3, HandleResponseKeepsInv
<1>4. ASSUME NEW n \in Nodes, Swap(n) PROVE Inv'
  BY <1>4, SwapKeepsInv
<1>5. ASSUME NEW n \in Nodes, NEW p \in Nodes, NEW g \in Senders, NEW i \in Idx,
             Find(n, g, p, i)
      PROVE  Inv'
  BY <1>5, FindKeepsInv
<1>6. ASSUME NEW n \in Nodes, NEW g \in Senders,
             NotFinished(n, g) \/ LoadNonce(n, g) \/ StoreNonce(n, g) \/ Seal(n, g)
      PROVE  Inv'
  BY <1>6, NotFinishedKeepsInv, LoadNonceKeepsInv, StoreNonceKeepsInv, SealKeepsInv
<1>7. ASSUME NEW n \in Nodes, NEW r \in Receivers, NEW m \in net, HandleData(n, r, m)
      PROVE  Inv'
  BY <1>7, HandleDataKeepsInv
<1>8. ASSUME NEW n \in Nodes, NEW r \in Receivers, FirstData(n, r) PROVE Inv'
  BY <1>8, FirstDataKeepsInv, ZenonT(60)
<1>9. CASE UNCHANGED vars
  <2>1. UNCHANGED <<sess, store, net, swapping, sending, receiving, firsts, made, drawn, collided>>
    BY <1>9 DEF vars
  <2>2. TypeOK'
    BY <2>1, ZenonT(60) DEF Inv, TypeOK
  <2> QED
    BY <2>1, <2>2, SessUnchanged, StepKeepsInv
<1> QED
  BY <1>1, <1>2, <1>3, <1>4, <1>5, <1>6, <1>7, <1>8, <1>9 DEF Next

----------------------------------------------------------------------------
\* The two ends of a key pair find each other through the ephemerals.
LEMMA InvKeyAgreement == Inv => KeyAgreement
<1> SUFFICES ASSUME Inv, NEW s \in Sid, sess[s].initiator, Keyed(s)
             PROVE  LET t == sess[s].er
                    IN  /\ ~sess[t].initiator
                        /\ sess[t].ei = s /\ sess[t].er = t
                        /\ sess[t].owner = sess[s].peer
                        /\ sess[t].peer = sess[s].owner
                        /\ \A u \in Sid \ {s, t} : <<sess[u].ei, sess[u].er>> # <<s, t>>
  BY DEF KeyAgreement
<1>1. \A u \in Sid : SessionInv(u) /\ sess[u].stage \in 0 .. 3
  BY DEF Inv, TypeOK, SessionRec
<1>2. PICK t \in Sid : t = sess[s].er /\ Responder(t, s, sess[s].owner, sess[s].peer)
  BY <1>1, ZenonT(60) DEF SessionInv, Made
<1>3. ASSUME NEW u \in Sid, sess[u].ei = s, sess[u].er = t
      PROVE  u \in {s, t}
  <2>1. Made(u)
    BY <1>1, <1>3, SessionAssumption, ZenonT(60) DEF SessionInv, Made, Keyed
  <2>2. CASE sess[u].initiator
    BY <1>1, <1>3, <2>1, <2>2, ZenonT(60) DEF SessionInv, Initiator
  <2>3. CASE ~sess[u].initiator
    BY <1>1, <1>3, <2>1, <2>3, ZenonT(60) DEF SessionInv, Responder
  <2> QED
    BY <2>2, <2>3, ZenonT(60)
<1> QED
  BY <1>2, <1>3, ZenonT(60) DEF Responder

\* A packet that opens was sealed at the other end of the session.
LEMMA InvDataAuthentic == Inv => DataAuthentic
<1> SUFFICES ASSUME Inv, NEW m \in net, NEW n \in Nodes, m.type = "data",
                    Opens(store[n][m.idx], m)
             PROVE  m.to = n /\ m.by = sess[store[n][m.idx]].peer
  BY ZenonT(60) DEF DataAuthentic
<1>0. m.idx \in Idx /\ m.sid \in Sid /\ m.initiator \in BOOLEAN /\ m.er \in Sid
  BY MsgFields, ZenonT(60) DEF Inv, TypeOK
<1>1. store[n][m.idx] # NoSid
  BY DEF Opens
<1>2. PICK s \in Sid : s = store[n][m.idx] /\ Made(s) /\ sess[s].owner = n
  BY <1>1, StoredSession, ZenonT(60)
<1>3. /\ Keyed(s) /\ sess[s].ei = m.ei /\ sess[s].er = m.er
      /\ sess[s].initiator # m.initiator
  BY <1>2 DEF Opens
<1> DEFINE x == m.sid
<1>4. /\ Made(x) /\ sess[x].owner = m.by /\ sess[x].peer = m.to
      /\ sess[x].ei = m.ei /\ sess[x].er = m.er /\ sess[x].initiator = m.initiator
  BY ZenonT(60) DEF Inv, MsgInv
<1>5. SessionInv(s) /\ SessionInv(x)
  BY <1>0, ZenonT(60) DEF Inv
<1> HIDE DEF x
<1>6. CASE sess[s].initiator
  <2>1. ~sess[x].initiator
    BY <1>0, <1>3, <1>4, <1>6, ZenonT(60)
  <2>2. x = m.er
    BY <1>4, <1>5, <2>1, ZenonT(60) DEF SessionInv, Responder
  <2>3. Responder(m.er, s, n, sess[s].peer)
    BY <1>2, <1>3, <1>5, <1>6, ZenonT(60) DEF SessionInv
  <2> QED
    BY <1>2, <1>4, <2>2, <2>3 DEF Responder
<1>7. CASE ~sess[s].initiator
  <2>0. sess[s].initiator \in BOOLEAN
    BY ZenonT(60) DEF Inv, TypeOK, SessionRec
  <2>1. sess[x].initiator
    BY <1>0, <1>3, <1>4, <1>7, <2>0
  <2>2. x = m.ei
    BY <1>4, <1>5, <2>1, ZenonT(60) DEF SessionInv, Initiator
  <2>3. Initiator(m.ei, sess[s].peer, n)
    BY <1>2, <1>3, <1>5, <1>7, ZenonT(60) DEF SessionInv
  <2> QED
    BY <1>2, <1>4, <2>2, <2>3 DEF Initiator
<1> QED
  BY <1>6, <1>7

\* The invariant holds in every state the session managers reach.
THEOREM SessionInvariant == Spec => []Inv
<1>1. Init => Inv
  BY InitInv
<1>2. Inv /\ [Next]_vars => Inv'
  BY NextInv
<1> QED
  BY <1>1, <1>2, PTL DEF Spec

\* Sessions, stores, packets and the calls in progress keep their types.
THEOREM SessionTypes == Spec => []TypeOK
<1>1. Inv => TypeOK
  BY ZenonT(60) DEF Inv
<1> QED
  BY <1>1, SessionInvariant, PTL

\* After HandleHelloResponse the initiator shares its keys with exactly one
\* session, which belongs to the peer it wanted and takes it for its peer.
THEOREM KeysAgree == Spec => []KeyAgreement
BY SessionInvariant, InvKeyAgreement, PTL

\* Whatever HandleData opens was made by the peer it reports, for this node.
THEOREM DataIsAuthentic == Spec => []DataAuthentic
BY SessionInvariant, InvDataAuthentic, PTL
----------------------------------------------------------------------------
\* Sessions stay what they are, and only one step counts a nonce.
LEMMA StepKeepsSessions ==
    ASSUME Inv, [Next]_vars
    PROVE  SessionsKeep /\ (SameNonces \/ \E n \in Nodes, g \in Senders : StoreNonce(n, g))
<1>1. ASSUME NEW n \in Nodes, NEW p \in Nodes, NEW s \in Sid, NEW i \in Idx,
             CreateHello(n, p, s, i)
      PROVE  SessionsKeep /\ SameNonces
  BY <1>1, CreateHelloKeepsInv
<1>2. ASSUME NEW n \in Nodes, NEW m \in net, NEW s \in Sid, NEW i \in Idx,
             HandleHello(n, m, s, i)
      PROVE  SessionsKeep /\ SameNonces
  BY <1>2, HandleHelloKeepsInv
<1>3. ASSUME NEW n \in Nodes, NEW m \in net, HandleResponse(n, m) PROVE SessionsKeep /\ SameNonces
  BY <1>3, HandleResponseKeepsInv
<1>4. ASSUME NEW n \in Nodes, NEW g \in Senders, StoreNonce(n, g) PROVE SessionsKeep
  BY <1>4, StoreNonceKeepsInv
<1>5. ASSUME NEW n \in Nodes, NEW r \in Receivers, FirstData(n, r) PROVE SessionsKeep /\ SameNonces
  BY <1>5, FirstDataKeepsInv
<1>6. CASE UNCHANGED sess
  BY <1>6, SessUnchanged
<1>7. \/ \E n, p \in Nodes, s \in Sid, i \in Idx : CreateHello(n, p, s, i)
      \/ \E n \in Nodes, m \in net, s \in Sid, i \in Idx : HandleHello(n, m, s, i)
      \/ \E n \in Nodes, m \in net : HandleResponse(n, m)
      \/ \E n \in Nodes, g \in Senders : StoreNonce(n, g)
      \/ \E n \in Nodes, r \in Receivers : FirstData(n, r)
      \/ UNCHANGED sess
  BY ZenonT(60) DEF Next, vars, Swap, Find, NotFinished, LoadNonce, Seal, HandleData
<1> QED BY <1>1, <1>2, <1>3, <1>4, <1>5, <1>6, <1>7, ZenonT(60)

\* A step that reports no first data.
LEMMA FrameKeepsFirst ==
    ASSUME Inv, FirstInv, SessionsKeep, UNCHANGED <<firsts, receiving>>
    PROVE  FirstInv'
<1>1. ASSUME NEW s \in Sid, NEW r \in Receivers
      PROVE  firsts'[s][r] = 0 \/ (firsts'[s][r] = 1 /\ sess'[s].stage = 3)
  BY DEF FirstInv, SessionsKeep, Keeps, Made
<1>2. ASSUME NEW n \in Nodes, NEW r \in Receivers, receiving[n][r] # NoSid
      PROVE  sess'[receiving[n][r]].owner = n /\ firsts[receiving[n][r]][r] = 0
  <2>1. receiving[n][r] \in Sid /\ Made(receiving[n][r])
    BY <1>2 DEF Inv, TypeOK
  <2> QED BY <1>2, <2>1, ZenonT(60) DEF FirstInv, SessionsKeep, Keeps
<1> QED BY <1>1, <1>2 DEF FirstInv

LEMMA HandleDataKeepsFirst ==
    ASSUME Inv, FirstInv, NEW n \in Nodes, NEW r \in Receivers, NEW m \in net, HandleData(n, r, m)
    PROVE  FirstInv'
<1>1. store[n][m.idx] # NoSid
  BY ZenonT(60) DEF HandleData, Opens
<1>2. PICK s \in Sid : s = store[n][m.idx] /\ sess[s].owner = n
  BY <1>1, StoredSession, ZenonT(60)
<1>3. /\ sess[s].stage # 3 /\ receiving' = [receiving EXCEPT ![n][r] = s]
      /\ UNCHANGED <<sess, firsts>>
  BY <1>2 DEF HandleData
<1>5. firsts[s][r] = 0
  BY <1>3 DEF FirstInv
<1>6. \A k \in Nodes, q \in Receivers :
        receiving'[k][q] = receiving[k][q] \/ (k = n /\ q = r /\ receiving'[k][q] = s)
  BY <1>3, FirstTypes
<1>7. ASSUME NEW k \in Nodes, NEW q \in Receivers, receiving'[k][q] # NoSid
      PROVE  sess[receiving'[k][q]].owner = k /\ firsts[receiving'[k][q]][q] = 0
  <2>1. CASE receiving'[k][q] = receiving[k][q]
    BY <1>7, <2>1 DEF FirstInv
  <2>2. CASE k = n /\ q = r /\ receiving'[k][q] = s
    BY <1>2, <1>5, <2>2
  <2> QED BY <1>6, <2>1, <2>2
<1> QED BY <1>3, <1>7 DEF FirstInv

LEMMA FirstDataKeepsFirst ==
    ASSUME Inv, FirstInv, NEW n \in Nodes, NEW r \in Receivers, FirstData(n, r)
    PROVE  FirstInv'
<1>1. PICK s \in Sid : s = receiving[n][r] /\ Made(s) /\ s # NoSid
  BY FirstTypes DEF FirstData
<1>2. /\ sess' = [sess EXCEPT ![s].stage = 3] /\ firsts' = [firsts EXCEPT ![s][r] = firsts[s][r] + 1]
      /\ receiving' = [receiving EXCEPT ![n][r] = NoSid]
  BY <1>1, FirstTypes DEF FirstData
<1>3. sess[s].owner = n /\ firsts[s][r] = 0
  BY <1>1, ZenonT(60) DEF FirstInv
<1>4. /\ sess'[s].stage = 3 /\ \A x \in Sid : sess'[x].owner = sess[x].owner
      /\ \A x \in Sid \ {s} : sess'[x].stage = sess[x].stage
  BY <1>2 DEF Inv, TypeOK, SessionRec
<1>5. /\ firsts'[s][r] = 1
      /\ \A x \in Sid, q \in Receivers : x # s \/ q # r => firsts'[x][q] = firsts[x][q]
  BY <1>2, <1>3, FirstTypes
<1>6. \A k \in Nodes, q \in Receivers :
        receiving'[k][q] = IF k = n /\ q = r THEN NoSid ELSE receiving[k][q]
  BY <1>2, FirstTypes, ZenonT(60)
<1>7. ASSUME NEW x \in Sid, NEW q \in Receivers
      PROVE  firsts'[x][q] = 0 \/ (firsts'[x][q] = 1 /\ sess'[x].stage = 3)
  BY <1>4, <1>5 DEF FirstInv
<1>8. ASSUME NEW k \in Nodes, NEW q \in Receivers, receiving'[k][q] # NoSid
      PROVE  sess'[receiving'[k][q]].owner = k /\ firsts'[receiving'[k][q]][q] = 0
  <2>1. PICK x \in Sid : x = receiving[k][q] /\ receiving'[k][q] = x /\ ~(k = n /\ q = r)
    BY <1>6, <1>8, FirstTypes
  <2>2. sess[x].owner = k /\ firsts[x][q] = 0
    BY <1>6, <1>8, <2>1 DEF FirstInv
  <2>3. x # s \/ q # r
    BY <1>3, <2>1, <2>2
  <2> QED BY <1>4, <1>5, <2>1, <2>2, <2>3
<1> QED BY <1>7, <1>8, ZenonT(60) DEF FirstInv

\* A receive routine sets stage 3 before it handles another packet, so it
\* reports the first data of a session only once.
THEOREM FirstDataOnlyOnce == Spec => []FirstDataOnce
<1>1. Init => Inv /\ FirstInv
  BY InitInv DEF Init, FirstInv
<1>2. (Inv /\ FirstInv) /\ [Next]_vars => (Inv /\ FirstInv)'
  <2> SUFFICES ASSUME Inv, FirstInv, [Next]_vars PROVE FirstInv'
    BY NextInv
  <2>1. CASE \E n \in Nodes, r \in Receivers, m \in net : HandleData(n, r, m)
    BY <2>1, HandleDataKeepsFirst
  <2>2. CASE \E n \in Nodes, r \in Receivers : FirstData(n, r)
    BY <2>2, FirstDataKeepsFirst
  <2>3. CASE UNCHANGED <<firsts, receiving>>
    BY <2>3, StepKeepsSessions, FrameKeepsFirst
  <2>4. ASSUME NEW n \in Nodes,
               \/ \E p \in Nodes, s \in Sid, i \in Idx : CreateHello(n, p, s, i)
               \/ \E m \in net, s \in Sid, i \in Idx : HandleHello(n, m, s, i)
               \/ \E m \in net : HandleResponse(n, m)
               \/ Swap(n)
        PROVE  UNCHANGED <<firsts, receiving>>
    BY <2>4, ZenonT(60) DEF CreateHello, HandleHello, HandleResponse, Swap
  <2>5. ASSUME NEW n \in Nodes, NEW g \in Senders,
               \/ \E p \in Nodes, i \in Idx : Find(n, g, p, i)
               \/ NotFinished(n, g) \/ LoadNonce(n, g) \/ StoreNonce(n, g) \/ Seal(n, g)
        PROVE  UNCHANGED <<firsts, receiving>>
    BY <2>5, ZenonT(60) DEF Find, NotFinished, LoadNonce, StoreNonce, Seal
  <2> QED BY <2>1, <2>2, <2>3, <2>4, <2>5, ZenonT(60) DEF Next, vars
<1>3. Inv /\ FirstInv => FirstDataOnce
  <2> SUFFICES ASSUME FirstInv, NEW s \in Sid, NEW r \in Receivers PROVE firsts[s][r] <= 1
    BY ZenonT(60) DEF FirstDataOnce
  <2>1. firsts[s][r] = 0 \/ firsts[s][r] = 1
    BY ZenonT(60) DEF FirstInv
  <2> QED BY <2>1
<1> QED BY <1>1, <1>2, <1>3, PTL DEF Spec

----------------------------------------------------------------------------
(***************************************************************************)
(* What sessions deliver: both ends of a session have it under the same    *)
(* index, so that data opens at the other end, and nonces are fresh.  The  *)
(* invariant about indexes follows an index from the Insert that drew it:  *)
(* the hello and the response of a session tell which one it was.          *)
(***************************************************************************)
\* Session s drew index i when Insert filed it: its hello or response says so.
Drew(s, i) ==
    \E m \in net : \/ m.type = "hello" /\ m.ei = s /\ m.idx = i
                   \/ m.type = "response" /\ m.er = s /\ m.sidx = i

\* The Swap of session s is still to come.
Pending(s) == swapping[sess[s].owner] # Idle /\ swapping[sess[s].owner].sid = s

\* Session s is filed under the index that h drew: an initiator with keys goes
\* under the index of its responder.
FiledAs(s, h) ==
    IF sess[s].initiator /\ Keyed(s) /\ ~Pending(s) THEN h = sess[s].er ELSE h = s

\* Every session that was made drew one index.
DrawInv ==
    /\ \A s \in Sid, i \in Idx : Drew(s, i) => Made(s) /\ i \in drawn
    /\ \A s \in Sid, i, j \in Idx : Drew(s, i) /\ Drew(s, j) => i = j
    /\ \A s \in Sid : Made(s) => \E i \in Idx : Drew(s, i)
    /\ \A m \in net : m.type = "response" => Drew(m.ei, m.idx)

\* A Swap goes from the index of the initiator to that of the responder.
SwapInv ==
    \A n \in Nodes : swapping[n] # Idle =>
        /\ sess[swapping[n].sid].initiator /\ Keyed(swapping[n].sid)
        /\ sess[swapping[n].sid].owner = n
        /\ Drew(swapping[n].sid, swapping[n].from)
        /\ Drew(sess[swapping[n].sid].er, swapping[n].to)

\* No two sessions drew the same index, and a session is under the index that
\* it is filed as, and nowhere else.
Filed ==
    /\ \A s, t \in Sid, i \in Idx : Drew(s, i) /\ Drew(t, i) => s = t
    /\ \A s, h \in Sid, i \in Idx :
          Made(s) /\ FiledAs(s, h) /\ Drew(h, i) => store[sess[s].owner][i] = s
    /\ \A n \in Nodes, s \in Sid, i \in Idx :
          store[n][i] = s => \E h \in Sid : FiledAs(s, h) /\ Drew(h, i)

PlaceInv ==
    /\ DrawInv
    /\ SwapInv
    /\ \A s \in Sid : Made(s) => sess[s].peer # sess[s].owner
    /\ ~collided => Filed

\* The nonces of the packets of a session are not above its counter.
NoncesBelow ==
    \A m \in net : m.type = "data" => m.num < made /\ m.nonce <= sess[m.sid].nonce

\* They are below it once CreateData has counted it up, and it has not moved
\* since CreateData loaded it.
Counting(n, g) ==
    /\ sending[n][g].at = "loaded" => sending[n][g].nonce = sess[sending[n][g].sid].nonce
    /\ sending[n][g].at = "stored" =>
         \A m \in net : m.type = "data" /\ m.sid = sending[n][g].sid =>
             m.nonce < sess[m.sid].nonce

NoncesDiffer ==
    \A m1, m2 \in net :
        m1.type = "data" /\ m2.type = "data" /\ m1.sid = m2.sid /\ m1.num # m2.num =>
            m1.nonce # m2.nonce

NonceInv ==
    /\ NoncesBelow
    /\ \A n \in Nodes, g \in Senders : Counting(n, g)
    /\ NoncesDiffer

----------------------------------------------------------------------------
\* What the invariant says of the sessions, in the form used below.
LEMMA SessionFacts ==
    ASSUME Inv, NEW s \in Sid
    PROVE  /\ Keyed(s) => Made(s)
           /\ sess[s].initiator \in BOOLEAN /\ sess[s].stage \in 0 .. 3
           /\ Made(s) => sess[s].owner \in Nodes /\ sess[s].peer \in Nodes
           /\ Made(s) /\ sess[s].initiator => sess[s].ei = s
           /\ Made(s) /\ sess[s].initiator /\ Keyed(s) =>
                /\ sess[s].er \in Sid /\ Made(sess[s].er) /\ ~sess[sess[s].er].initiator
                /\ sess[sess[s].er].owner = sess[s].peer /\ sess[sess[s].er].peer = sess[s].owner
                /\ sess[sess[s].er].ei = s
           /\ Made(s) /\ ~sess[s].initiator =>
                /\ sess[s].er = s /\ sess[s].ei \in Sid /\ Made(sess[s].ei)
                /\ sess[sess[s].ei].initiator /\ sess[sess[s].ei].owner = sess[s].peer
<1>1. SessionInv(s) /\ sess[s] \in SessionRec
  BY ZenonT(60) DEF Inv, TypeOK
<1>2. sess[s].initiator \in BOOLEAN /\ sess[s].stage \in 0 .. 3
  BY <1>1, ZenonT(60) DEF SessionRec
<1> QED
  BY <1>1, <1>2, ZenonT(60) DEF SessionInv, Initiator, Responder, Made

\* The other end of an initiator that has its keys.
LEMMA OtherEnd ==
    ASSUME Inv, NEW s \in Sid, sess[s].initiator, Keyed(s)
    PROVE  /\ Made(s) /\ sess[s].ei = s
           /\ sess[s].er \in Sid /\ Made(sess[s].er) /\ ~sess[sess[s].er].initiator
           /\ sess[sess[s].er].owner = sess[s].peer /\ sess[sess[s].er].ei = s
BY SessionFacts

\* What it says of the data packets, the counters and the calls of CreateData.
LEMMA DataFacts ==
    ASSUME Inv, NEW m \in net, m.type = "data"
    PROVE  m.sid \in Sid /\ Made(m.sid) /\ m.num \in Nat /\ m.nonce \in Nat
<1>1. m.sid \in Sid /\ m.num \in Nat /\ m.nonce \in Nat
  BY ZenonT(60) DEF Inv, TypeOK, Msg, HelloMsg, ResponseMsg, DataMsg
<1>2. Made(m.sid)
  BY ZenonT(60) DEF Inv, MsgInv
<1> QED BY <1>1, <1>2, ZenonT(60)

LEMMA CounterFacts ==
    ASSUME Inv
    PROVE  /\ made \in Nat /\ \A s \in Sid : sess[s].nonce \in Nat
           /\ sending \in [Nodes -> [Senders -> Sending \cup {Idle}]]
BY DEF Inv, TypeOK, SessionRec

\* CreateData is in a session of the routine's own node.
LEMMA OwnSession ==
    ASSUME Inv, NEW n \in Nodes, NEW g \in Senders, sending[n][g].at # "idle"
    PROVE  /\ sending[n][g] \in Sending /\ sending[n][g].sid \in Sid
           /\ Made(sending[n][g].sid) /\ sess[sending[n][g].sid].owner = n
BY SendingFacts, ZenonT(60) DEF SendingInv

LEMMA InitNonces == Init => NonceInv
BY DEF Init, NonceInv, NoncesBelow, NoncesDiffer, Counting, Idle

\* A step that inserts no session and swaps none keeps every session in its place.
LEMMA FrameKeepsPlace ==
    ASSUME Inv, PlaceInv, \A x \in Sid : SameSession(x),
           UNCHANGED <<store, swapping, drawn, collided>>,
           \A m \in net' : m \in net \/ m.type = "data", net \subseteq net',
           TypeOK'
    PROVE  PlaceInv'
<1>1. \A x \in Sid, j \in Idx : Drew(x, j)' <=> Drew(x, j)
  BY DEF Drew
<1>2. \A x \in Sid : Made(x)' <=> Made(x)
  BY ZenonT(60) DEF Made, SameSession
<1>3. \A x, h \in Sid : FiledAs(x, h)' <=> FiledAs(x, h)
  BY DEF FiledAs, SameSession, Keyed, Pending
<1>4. DrawInv'
  <2>1. DrawInv /\ net \subseteq Msg
    BY ZenonT(60) DEF PlaceInv, Inv, TypeOK
  <2>2. ASSUME NEW m \in net', m.type = "response" PROVE Drew(m.ei, m.idx)'
    <3>1. m \in net /\ m.ei \in Sid /\ m.idx \in Idx
      BY <2>1, <2>2, MsgFields, ZenonT(60)
    <3> QED BY <1>1, <2>1, <2>2, <3>1 DEF DrawInv
  <2> QED BY <1>1, <1>2, <2>1, <2>2, ZenonT(60) DEF DrawInv
<1>5. SwapInv'
  <2> SUFFICES ASSUME NEW n \in Nodes, swapping[n] # Idle
               PROVE  /\ sess'[swapping[n].sid].initiator /\ sess'[swapping[n].sid].er # NoSid
                      /\ sess'[swapping[n].sid].owner = n
                      /\ Drew(swapping[n].sid, swapping[n].from)'
                      /\ Drew(sess[swapping[n].sid].er, swapping[n].to)'
    BY ZenonT(60) DEF SwapInv, Keyed
  <2>1. PICK w \in Swapping : w = swapping[n]
    BY DEF Inv, TypeOK
  <2>2. w.sid \in Sid /\ w.from \in Idx /\ w.to \in Idx
    BY ZenonT(60) DEF Swapping
  <2>3. /\ sess[w.sid].initiator /\ Keyed(w.sid) /\ sess[w.sid].owner = n
        /\ Drew(w.sid, w.from) /\ Drew(sess[w.sid].er, w.to)
    BY <2>1, ZenonT(60) DEF PlaceInv, SwapInv
  <2>4. PICK t \in Sid : t = sess[w.sid].er
    BY <2>2, <2>3, SessionFacts, ZenonT(60)
  <2>5. Drew(w.sid, w.from)' /\ Drew(t, w.to)'
    BY <1>1, <2>2, <2>3, <2>4, ZenonT(60)
  <2>6. /\ sess'[w.sid].initiator /\ sess'[w.sid].er = t /\ t # NoSid /\ sess'[w.sid].owner = n
    BY <2>2, <2>3, <2>4 DEF SameSession, Keyed
  <2> QED BY <2>1, <2>5, <2>6, ZenonT(60) DEF Drew
<1>6. ASSUME NEW s \in Sid, Made(s)' PROVE sess'[s].peer # sess'[s].owner
  BY <1>2, <1>6, ZenonT(60) DEF PlaceInv, SameSession
<1>7. ASSUME ~collided PROVE Filed'
  <2>1. Filed
    BY <1>7, ZenonT(60) DEF PlaceInv
  <2>2. \A s \in Sid : sess'[s].owner = sess[s].owner
    BY DEF SameSession
  <2>3. \A s, t \in Sid, i \in Idx : Drew(s, i)' /\ Drew(t, i)' => s = t
    BY <1>1, <2>1, ZenonT(60) DEF Filed
  <2>4. \A s, h \in Sid, i \in Idx :
          Made(s)' /\ FiledAs(s, h)' /\ Drew(h, i)' => store'[sess'[s].owner][i] = s
    BY <1>1, <1>2, <1>3, <2>1, <2>2, ZenonT(60) DEF Filed
  <2>5. \A n \in Nodes, s \in Sid, i \in Idx :
          store'[n][i] = s => \E h \in Sid : FiledAs(s, h)' /\ Drew(h, i)'
    BY <1>1, <1>3, <2>1, ZenonT(60) DEF Filed
  <2> QED BY <2>3, <2>4, <2>5 DEF Filed
<1> QED BY <1>4, <1>5, <1>6, <1>7, ZenonT(60) DEF PlaceInv

\* Insert of a new session under an index that nobody drew keeps the others in
\* their places, and the new one is under its own index.
LEMMA InsertKeepsPlace ==
    ASSUME Inv, PlaceInv, NEW n \in Nodes, NEW s \in Sid, NEW i \in Idx, Insert(n, s, i),
           sess[s].stage = 0, \A x \in Sid \ {s} : sess'[x] = sess[x],
           sess'[s].stage # 0, sess'[s].owner = n, sess'[s].peer # n,
           ~(sess'[s].initiator /\ sess'[s].er # NoSid),
           swapping' = swapping,
           \A x \in Sid, j \in Idx : Drew(x, j)' <=> Drew(x, j) \/ (x = s /\ j = i),
           \A m \in net' : m.type = "response" => Drew(m.ei, m.idx)'
    PROVE  PlaceInv'
<1>0. DrawInv /\ SwapInv /\ ~Made(s) /\ (~collided => Filed)
  BY ZenonT(60) DEF PlaceInv, Made
<1>1. \A x \in Sid \ {s} : Made(x)' <=> Made(x)
  BY ZenonT(60) DEF Made
<1>a. Made(s)'
  BY DEF Made
<1>2. /\ store' = [store EXCEPT ![n][i] = s] /\ drawn' = drawn \cup {i}
      /\ store[n][i] = NoSid
      /\ ~collided' => ~collided /\ i \notin drawn
  BY ZenonT(60) DEF Insert, Inv, TypeOK
<1>3. DrawInv'
  <2>1. \A x \in Sid, j \in Idx : Drew(x, j)' => Made(x)' /\ j \in drawn'
    BY <1>0, <1>1, <1>a, <1>2, ZenonT(60) DEF DrawInv
  <2>2. ASSUME NEW x \in Sid, NEW j \in Idx, NEW k \in Idx, Drew(x, j)', Drew(x, k)' PROVE j = k
    <3>1. CASE x = s
      <4>1. ~Drew(s, j) /\ ~Drew(s, k)
        BY <1>0 DEF DrawInv
      <4> QED BY <2>2, <3>1, <4>1
    <3>2. CASE x # s
      <4>1. Drew(x, j) /\ Drew(x, k)
        BY <2>2, <3>2
      <4> QED BY <1>0, <4>1 DEF DrawInv
    <3> QED BY <3>1, <3>2
  <2>3. \A x \in Sid : Made(x)' => \E j \in Idx : Drew(x, j)'
    BY <1>0, <1>1, ZenonT(60) DEF DrawInv
  <2> QED BY <2>1, <2>2, <2>3, ZenonT(60) DEF DrawInv
<1>4. SwapInv'
  <2> SUFFICES ASSUME NEW k \in Nodes, swapping[k] # Idle
               PROVE  /\ sess'[swapping[k].sid].initiator /\ sess'[swapping[k].sid].er # NoSid
                      /\ sess'[swapping[k].sid].owner = k
                      /\ Drew(swapping[k].sid, swapping[k].from)'
                      /\ Drew(sess[swapping[k].sid].er, swapping[k].to)'
    BY ZenonT(60) DEF SwapInv, Keyed
  <2>1. PICK w \in Swapping : w = swapping[k]
    BY ZenonT(60) DEF Inv, TypeOK
  <2>2. w.sid \in Sid /\ w.from \in Idx /\ w.to \in Idx
    BY ZenonT(60) DEF Swapping
  <2>3. /\ sess[w.sid].initiator /\ Keyed(w.sid) /\ sess[w.sid].owner = k
        /\ Drew(w.sid, w.from) /\ Drew(sess[w.sid].er, w.to)
    BY <1>0, <2>1, ZenonT(60) DEF SwapInv
  <2>4. PICK t \in Sid : t = sess[w.sid].er
    BY <2>2, <2>3, SessionFacts, ZenonT(60)
  <2>5. Drew(w.sid, w.from)' /\ Drew(t, w.to)'
    BY <2>2, <2>3, <2>4, ZenonT(60)
  <2>6. w.sid # s
    BY <1>0, <2>2, <2>3, OtherEnd, ZenonT(60)
  <2>7. sess'[w.sid] = sess[w.sid]
    BY <2>2, <2>6, ZenonT(60)
  <2>8. /\ sess'[w.sid].initiator /\ sess'[w.sid].er = t /\ t # NoSid /\ sess'[w.sid].owner = k
    BY <2>3, <2>4, <2>7, ZenonT(60) DEF Keyed
  <2> QED BY <2>1, <2>5, <2>8, ZenonT(60) DEF Drew
<1>5. ASSUME NEW x \in Sid, Made(x)' PROVE sess'[x].peer # sess'[x].owner
  BY <1>1, <1>5, ZenonT(60) DEF PlaceInv
<1>6. ASSUME ~collided' PROVE Filed'
  <2>1. Filed /\ i \notin drawn
    BY <1>0, <1>2, <1>6
  <2>2. \A x \in Sid, j \in Idx : Drew(x, j) => Made(x) /\ j # i
    BY <1>0, <2>1, ZenonT(60) DEF DrawInv
  <2>3. ASSUME NEW x \in Sid, NEW t \in Sid, NEW j \in Idx, Drew(x, j)', Drew(t, j)' PROVE x = t
    <3>1. CASE j = i
      BY <2>2, <2>3, <3>1, ZenonT(60)
    <3>2. CASE j # i
      BY <2>1, <2>3, <3>2, ZenonT(60) DEF Filed
    <3> QED BY <3>1, <3>2
  <2>4. \A x \in Sid \ {s}, h \in Sid : FiledAs(x, h)' <=> FiledAs(x, h)
    BY DEF FiledAs, Keyed, Pending
  <2>5. \A h \in Sid : FiledAs(s, h)' <=> h = s
    BY ZenonT(60) DEF FiledAs, Keyed
  <2>6. ASSUME NEW x \in Sid \ {s}, NEW h \in Sid, Made(x), FiledAs(x, h) PROVE h # s
    <3>1. CASE sess[x].initiator /\ Keyed(x)
      <4>1. Made(sess[x].er)
        BY <3>1, OtherEnd, ZenonT(60)
      <4>2. h = x \/ h = sess[x].er
        BY <2>6 DEF FiledAs
      <4> QED BY <1>0, <4>1, <4>2
    <3>2. CASE ~(sess[x].initiator /\ Keyed(x))
      BY <2>6, <3>2, ZenonT(60) DEF FiledAs
    <3> QED BY <3>1, <3>2
  <2>7. store \in [Nodes -> [Idx -> Sid \cup {NoSid}]]
    BY ZenonT(60) DEF Inv, TypeOK
  <2>8. /\ store'[n][i] = s
        /\ \A k \in Nodes, j \in Idx : k # n \/ j # i => store'[k][j] = store[k][j]
    BY <1>2, <2>7, ZenonT(60)
  <2>9. ASSUME NEW x \in Sid, NEW h \in Sid, NEW j \in Idx,
               Made(x)', FiledAs(x, h)', Drew(h, j)'
        PROVE  store'[sess'[x].owner][j] = x
    <3>1. CASE x = s
      BY <1>0, <2>2, <2>5, <2>8, <2>9, <3>1, ZenonT(60)
    <3>2. CASE x # s
      <4>1. Made(x) /\ FiledAs(x, h) /\ sess'[x] = sess[x] /\ sess[x].owner \in Nodes
        BY <1>1, <2>4, <2>9, <3>2, SessionFacts, ZenonT(60)
      <4>2. h # s /\ Drew(h, j) /\ j # i
        BY <2>2, <2>6, <2>9, <3>2, <4>1, ZenonT(60)
      <4>3. store[sess[x].owner][j] = x
        BY <2>1, <4>1, <4>2 DEF Filed
      <4>4. store'[sess[x].owner][j] = store[sess[x].owner][j]
        BY <2>8, <4>1, <4>2
      <4> QED BY <4>1, <4>3, <4>4
    <3> QED BY <3>1, <3>2
  <2>a. \A k \in Nodes, x \in Sid, j \in Idx :
          store[k][j] = x => \E h \in Sid : FiledAs(x, h) /\ Drew(h, j)
    BY <2>1, ZenonT(60) DEF Filed
  <2>10. ASSUME NEW k \in Nodes, NEW x \in Sid, NEW j \in Idx, store'[k][j] = x
         PROVE  \E h \in Sid : FiledAs(x, h)' /\ Drew(h, j)'
    <3>1. CASE k = n /\ j = i
      BY <2>5, <2>8, <2>10, <3>1, ZenonT(60)
    <3>2. CASE k # n \/ j # i
      <4>1. store[k][j] = x
        BY <2>8, <2>10, <3>2, ZenonT(60)
      <4>2. Made(x)
        BY <4>1, SessionAssumption, ZenonT(60) DEF Inv, StoreInv
      <4>3. PICK h \in Sid : FiledAs(x, h) /\ Drew(h, j)
        BY <2>a, <4>1, ZenonT(60)
      <4> QED BY <1>0, <2>4, <4>2, <4>3
    <3> QED BY <3>1, <3>2, ZenonT(60)
  <2> QED BY <2>3, <2>9, <2>10, ZenonT(60) DEF Filed
<1> QED BY <1>3, <1>4, <1>5, <1>6, ZenonT(60) DEF PlaceInv

LEMMA CreateHelloKeepsPlace ==
    ASSUME Inv, PlaceInv, NEW n \in Nodes, NEW p \in Nodes, NEW s \in Sid, NEW i \in Idx,
           CreateHello(n, p, s, i)
    PROVE  PlaceInv'
<1> DEFINE new == NewSession(n, p, TRUE, 1, s, NoSid)
<1>1. PICK h : h = MakeHello(n, p, s, i)
  OBVIOUS
<1>2. /\ sess[s].stage = 0 /\ p # n /\ Insert(n, s, i) /\ sess' = [sess EXCEPT ![s] = new]
      /\ net' = net \cup {h} /\ swapping' = swapping
  BY <1>1, ZenonT(60) DEF CreateHello
<1>3. new.stage # 0 /\ new.owner = n /\ new.peer = p /\ new.er = NoSid
  BY DEF NewSession
<1>4. h.type = "hello" /\ h.idx = i /\ h.ei = s
  BY <1>1 DEF MakeHello
<1> HIDE DEF new
<1>5. sess'[s] = new /\ \A x \in Sid \ {s} : sess'[x] = sess[x]
  BY <1>2, ZenonT(60) DEF Inv, TypeOK
<1>6. \A x \in Sid, j \in Idx : Drew(x, j)' <=> Drew(x, j) \/ (x = s /\ j = i)
  BY <1>2, <1>4, ZenonT(60) DEF Drew
<1>7. ASSUME NEW m \in net', m.type = "response" PROVE Drew(m.ei, m.idx)'
  <2>1. m \in net
    BY <1>2, <1>4, <1>7, ZenonT(60)
  <2> QED BY <1>2, <1>7, <2>1 DEF Drew, PlaceInv, DrawInv
<1> QED BY <1>2, <1>3, <1>5, <1>6, <1>7, InsertKeepsPlace

LEMMA HandleHelloKeepsPlace ==
    ASSUME Inv, PlaceInv, NEW n \in Nodes, NEW m \in net, NEW s \in Sid, NEW i \in Idx,
           HandleHello(n, m, s, i)
    PROVE  PlaceInv'
<1> DEFINE new == NewSession(n, m.from, FALSE, 2, m.ei, s)
<1>0. /\ m \in Msg /\ m.type = "hello" /\ m.ei \in Sid /\ m.idx \in Idx
      /\ Initiator(m.ei, m.from, n)
  BY MsgFields, ZenonT(60) DEF HandleHello, ConsumeHello, Inv, TypeOK, MsgInv
<1>1. PICK h : h = MakeResponse(n, m, s, i)
  OBVIOUS
<1>2. /\ sess[s].stage = 0 /\ Insert(n, s, i) /\ sess' = [sess EXCEPT ![s] = new]
      /\ net' = net \cup {h} /\ swapping' = swapping
  BY <1>1 DEF HandleHello
<1>3. new.stage # 0 /\ new.owner = n /\ new.peer = m.from /\ ~new.initiator
  BY DEF NewSession
<1>4. h.type = "response" /\ h.sidx = i /\ h.er = s /\ h.ei = m.ei /\ h.idx = m.idx
  BY <1>1, ZenonT(60) DEF MakeResponse
<1>a. m.from # n
  BY <1>0 DEF PlaceInv, Initiator
<1> HIDE DEF new
<1>5. sess'[s] = new /\ \A x \in Sid \ {s} : sess'[x] = sess[x]
  BY <1>2, ZenonT(60) DEF Inv, TypeOK
<1>6. \A x \in Sid, j \in Idx : Drew(x, j)' <=> Drew(x, j) \/ (x = s /\ j = i)
  BY <1>2, <1>4 DEF Drew
<1>7. ASSUME NEW q \in net', q.type = "response" PROVE Drew(q.ei, q.idx)'
  <2>1. CASE q \in net
    BY <1>2, <1>7, <2>1, ZenonT(60) DEF Drew, PlaceInv, DrawInv
  <2>2. CASE q = h
    BY <1>0, <1>2, <1>4, <2>2 DEF Drew
  <2> QED BY <1>2, <2>1, <2>2, ZenonT(60)
<1>8. /\ sess'[s].stage # 0 /\ sess'[s].owner = n /\ sess'[s].peer # n
      /\ ~(sess'[s].initiator /\ sess'[s].er # NoSid)
  BY <1>3, <1>a, <1>5, ZenonT(60)
<1> QED BY <1>2, <1>5, <1>6, <1>7, <1>8, InsertKeepsPlace, ZenonT(60)

\* HandleResponse notes the Swap of a session that is still under its own index.
LEMMA HandleResponseKeepsPlace ==
    ASSUME Inv, PlaceInv, NEW n \in Nodes, NEW m \in net, HandleResponse(n, m)
    PROVE  PlaceInv'
<1>0. m \in Msg /\ m.type = "response" /\ m.idx \in Idx /\ m.sidx \in Idx /\ m.er \in Sid /\ m.ei \in Sid
  BY MsgFields DEF HandleResponse, Inv, TypeOK
<1>1. PICK s \in Sid : s = store[n][m.idx]
  BY <1>0 DEF HandleResponse, Inv, TypeOK
<1>2. PICK w : w = [from |-> m.idx, to |-> m.sidx, sid |-> s]
  BY ZenonT(60)
<1>3. /\ swapping[n] = Idle /\ sess[s].initiator /\ sess[s].stage = 1 /\ sess[s].ei = m.ei
      /\ sess' = [sess EXCEPT ![s].er = m.er, ![s].stage = 3]
      /\ swapping' = [swapping EXCEPT ![n] = w]
      /\ UNCHANGED <<store, net, drawn, collided>>
  BY <1>1, <1>2 DEF HandleResponse, HandleHelloResponse, ConsumeResponse
<1>4. w.from = m.idx /\ w.to = m.sidx /\ w.sid = s
  BY <1>2, ZenonT(60)
<1>5. w # Idle
  BY <1>2 DEF Idle
<1>6. Made(s) /\ sess[s].owner = n /\ s = m.ei /\ ~Keyed(s)
  <2>1. StoreInv(n, store[n][m.idx]) /\ NoSid \notin Sid
    BY <1>0, SessionAssumption, ZenonT(60) DEF Inv
  <2>2. Made(s) /\ sess[s].owner = n
    BY <1>1, <2>1 DEF StoreInv
  <2>3. ~Keyed(s)
    BY <1>3, ZenonT(60) DEF Inv, SessionInv
  <2> QED BY <1>3, <2>2, <2>3, SessionFacts, ZenonT(60)
<1>7. /\ sess'[s].er = m.er /\ sess'[s].stage = 3 /\ sess'[s].initiator
      /\ sess'[s].owner = n /\ sess'[s].peer = sess[s].peer
      /\ \A x \in Sid \ {s} : sess'[x] = sess[x]
  BY <1>3, <1>6 DEF Inv, TypeOK, SessionRec
<1>8. swapping'[n] = w /\ \A k \in Nodes \ {n} : swapping'[k] = swapping[k]
  BY <1>3 DEF Inv, TypeOK
<1>9. \A x \in Sid, j \in Idx : Drew(x, j)' <=> Drew(x, j)
  BY <1>3 DEF Drew
<1>10. \A x \in Sid : Made(x)' <=> Made(x)
  <2>1. Made(s)'
    BY <1>7 DEF Made
  <2> QED BY <1>6, <1>7, <2>1, ZenonT(60) DEF Made
<1>11. \A x, h \in Sid : Made(x) => (FiledAs(x, h)' <=> FiledAs(x, h))
  <2>1. \A h \in Sid : (FiledAs(s, h)' <=> h = s) /\ (FiledAs(s, h) <=> h = s)
    BY <1>4, <1>5, <1>6, <1>7, <1>8 DEF FiledAs, Pending
  <2>2. ASSUME NEW x \in Sid \ {s}, Made(x)
        PROVE  Pending(x)' <=> Pending(x)
    <3>1. sess[x].owner \in Nodes /\ sess'[x] = sess[x]
      BY <1>7, <2>2, SessionFacts
    <3>2. CASE sess[x].owner = n
      BY <1>3, <1>4, <1>8, <3>1, <3>2, ZenonT(60) DEF Pending
    <3>3. CASE sess[x].owner # n
      BY <1>8, <3>1, <3>3, ZenonT(60) DEF Pending
    <3> QED BY <3>2, <3>3, ZenonT(60)
  <2> QED BY <1>7, <2>1, <2>2, ZenonT(60) DEF FiledAs, Keyed
<1>12. DrawInv'
  <2>1. DrawInv /\ net \subseteq Msg
    BY ZenonT(60) DEF PlaceInv, Inv, TypeOK
  <2>2. ASSUME NEW q \in net, q.type = "response" PROVE Drew(q.ei, q.idx)'
    BY <1>9, <2>1, <2>2, MsgFields, ZenonT(60) DEF DrawInv
  <2> QED BY <1>3, <1>9, <1>10, <2>1, <2>2, ZenonT(60) DEF DrawInv
<1>13. SwapInv'
  <2> SUFFICES ASSUME NEW k \in Nodes, swapping'[k] # Idle
               PROVE  /\ sess'[swapping'[k].sid].initiator /\ sess'[swapping'[k].sid].er # NoSid
                      /\ sess'[swapping'[k].sid].owner = k
                      /\ Drew(swapping[k].sid, swapping[k].from)'
                      /\ Drew(sess[swapping[k].sid].er, swapping[k].to)'
    BY ZenonT(60) DEF SwapInv, Keyed
  <2>1. CASE k = n
    <3>1. Drew(s, m.idx) /\ Drew(m.er, m.sidx)
      BY <1>0, <1>6, ZenonT(60) DEF PlaceInv, DrawInv, Drew
    <3>2. Drew(s, m.idx)' /\ Drew(m.er, m.sidx)'
      BY <1>0, <1>9, <3>1, ZenonT(60)
    <3>3. swapping'[k].sid = s /\ swapping'[k].from = m.idx /\ swapping'[k].to = m.sidx
      BY <1>4, <1>8, <2>1, ZenonT(60)
    <3>4. sess'[s].initiator /\ sess'[s].er = m.er /\ m.er # NoSid /\ sess'[s].owner = k
      BY <1>0, <1>7, <2>1, SessionAssumption, ZenonT(60)
    <3> QED BY <3>2, <3>3, <3>4, ZenonT(60) DEF Drew
  <2>2. CASE k # n
    <3>1. PICK v \in Swapping : v = swapping[k] /\ swapping'[k] = v /\ swapping[k] # Idle
      BY <1>8, <2>2 DEF Inv, TypeOK
    <3>2. v.sid \in Sid /\ v.from \in Idx /\ v.to \in Idx
      BY DEF Swapping
    <3>3. /\ sess[v.sid].initiator /\ Keyed(v.sid) /\ sess[v.sid].owner = k
          /\ Drew(v.sid, v.from) /\ Drew(sess[v.sid].er, v.to)
      BY <3>1, ZenonT(60) DEF PlaceInv, SwapInv
    <3>4. PICK t \in Sid : t = sess[v.sid].er
      BY <3>2, <3>3, SessionFacts, ZenonT(60)
    <3>5. Drew(v.sid, v.from)' /\ Drew(t, v.to)'
      BY <1>9, <3>2, <3>3, <3>4, ZenonT(60)
    <3>6. sess'[v.sid] = sess[v.sid]
      BY <1>6, <1>7, <3>2, <3>3, ZenonT(60)
    <3>7. sess'[v.sid].initiator /\ sess'[v.sid].er = t /\ t # NoSid /\ sess'[v.sid].owner = k
      BY <3>3, <3>4, <3>6, ZenonT(60) DEF Keyed
    <3> QED BY <3>1, <3>5, <3>7, ZenonT(60) DEF Drew
  <2> QED BY <2>1, <2>2
<1>14. ASSUME NEW x \in Sid, Made(x)' PROVE sess'[x].peer # sess'[x].owner
  <2>1. sess'[x].peer = sess[x].peer /\ sess'[x].owner = sess[x].owner
    BY <1>6, <1>7, ZenonT(60)
  <2> QED BY <1>10, <1>14, <2>1, ZenonT(60) DEF PlaceInv
<1>15. ASSUME ~collided PROVE Filed'
  <2>1. Filed
    BY <1>15, ZenonT(60) DEF PlaceInv
  <2>2. \A x \in Sid : sess'[x].owner = sess[x].owner
    BY <1>6, <1>7, ZenonT(60)
  <2>3. \A x, t \in Sid, i \in Idx : Drew(x, i)' /\ Drew(t, i)' => x = t
    BY <1>9, <2>1 DEF Filed
  <2>4. ASSUME NEW x \in Sid, NEW h \in Sid, NEW i \in Idx,
               Made(x)', FiledAs(x, h)', Drew(h, i)'
        PROVE  store'[sess'[x].owner][i] = x
    <3>1. Made(x) /\ FiledAs(x, h) /\ Drew(h, i)
      BY <1>9, <1>10, <1>11, <2>4
    <3> QED BY <1>3, <2>1, <2>2, <3>1, ZenonT(60) DEF Filed
  <2>5. \A k \in Nodes, x \in Sid, i \in Idx :
          store'[k][i] = x => \E h \in Sid : FiledAs(x, h)' /\ Drew(h, i)'
    <3>1. ASSUME NEW k \in Nodes, NEW x \in Sid, NEW i \in Idx, store[k][i] = x
          PROVE  \E h \in Sid : FiledAs(x, h)' /\ Drew(h, i)'
      <4>1. Made(x)
        BY <3>1, SessionAssumption, ZenonT(60) DEF Inv, StoreInv
      <4>2. PICK h \in Sid : FiledAs(x, h) /\ Drew(h, i)
        BY <2>1, <3>1, ZenonT(60) DEF Filed
      <4> QED BY <1>9, <1>11, <4>1, <4>2
    <3> QED BY <1>3, <3>1
  <2> QED BY <2>3, <2>4, <2>5, ZenonT(60) DEF Filed
<1> QED BY <1>3, <1>12, <1>13, <1>14, <1>15, ZenonT(60) DEF PlaceInv

\* Swap files an initiator under the index of its responder.  Nobody else of
\* this node can be there: the index was drawn by the responder alone, which is
\* at the peer, and the initiator of that responder is this session.
LEMMA SwapKeepsPlace ==
    ASSUME Inv, PlaceInv, NEW n \in Nodes, Swap(n)
    PROVE  PlaceInv'
<1>0. /\ swapping[n] # Idle
      /\ store' = [store EXCEPT ![n] =
                    [i \in Idx |-> IF i = swapping[n].to THEN store[n][swapping[n].from]
                                   ELSE IF i = swapping[n].from THEN NoSid
                                   ELSE store[n][i]]]
      /\ swapping' = [swapping EXCEPT ![n] = Idle]
      /\ UNCHANGED <<sess, net, drawn, collided>>
  BY ZenonT(60) DEF Swap
<1>1. PICK w \in Swapping : w = swapping[n]
  BY <1>0, ZenonT(60) DEF Inv, TypeOK
<1>2. w.sid \in Sid /\ w.from \in Idx /\ w.to \in Idx
  BY DEF Swapping
<1>3. PICK s \in Sid, f \in Idx, o \in Idx : s = w.sid /\ f = w.from /\ o = w.to
  BY <1>2
<1>4. /\ sess[s].initiator /\ Keyed(s) /\ sess[s].owner = n
      /\ Drew(s, f) /\ Drew(sess[s].er, o)
  BY <1>0, <1>1, <1>3, ZenonT(60) DEF PlaceInv, SwapInv
<1>5. PICK t \in Sid : t = sess[s].er /\ Made(t) /\ ~sess[t].initiator /\ sess[t].ei = s
                       /\ sess[t].owner = sess[s].peer
  BY <1>4, SessionFacts
<1>6. Made(s) /\ sess[s].peer # n
  BY <1>4, SessionFacts, ZenonT(60) DEF PlaceInv
<1>7. /\ store' \in [Nodes -> [Idx -> Sid \cup {NoSid}]] /\ store \in [Nodes -> [Idx -> Sid \cup {NoSid}]]
      /\ store'[n][o] = store[n][f]
      /\ f # o => store'[n][f] = NoSid
      /\ \A i \in Idx \ {f, o} : store'[n][i] = store[n][i]
      /\ \A k \in Nodes \ {n} : store'[k] = store[k]
  BY <1>0, <1>1, <1>3, ZenonT(60) DEF Inv, TypeOK
<1>8. swapping'[n] = Idle /\ \A k \in Nodes \ {n} : swapping'[k] = swapping[k]
  BY <1>0, ZenonT(60) DEF Inv, TypeOK
<1>9. \A x \in Sid, j \in Idx : Drew(x, j)' <=> Drew(x, j)
  BY <1>0, ZenonT(60) DEF Drew
<1>10. DrawInv'
  <2>1. DrawInv /\ net \subseteq Msg
    BY ZenonT(60) DEF PlaceInv, Inv, TypeOK
  <2>2. ASSUME NEW q \in net, q.type = "response" PROVE Drew(q.ei, q.idx)'
    BY <1>9, <2>1, <2>2, MsgFields, ZenonT(60) DEF DrawInv
  <2> QED BY <1>0, <1>9, <2>1, <2>2, ZenonT(60) DEF DrawInv, Made
<1>11. SwapInv'
  BY <1>0, <1>8 DEF PlaceInv, SwapInv, Drew, Keyed
<1>12. ASSUME NEW x \in Sid, Made(x)' PROVE sess'[x].peer # sess'[x].owner
  BY <1>0, <1>12, ZenonT(60) DEF PlaceInv, Made
<1>13. ASSUME ~collided PROVE Filed'
  <2>1. Filed
    BY <1>13 DEF PlaceInv
  <2>2. \A h \in Sid : (FiledAs(s, h)' <=> h = t) /\ (FiledAs(s, h) <=> h = s)
    <3>1. Pending(s) /\ ~Pending(s)'
      BY <1>0, <1>1, <1>3, <1>4, <1>8 DEF Pending
    <3> QED BY <1>0, <1>4, <1>5, <3>1, ZenonT(60) DEF FiledAs, Keyed
  <2>3. ASSUME NEW x \in Sid \ {s}, NEW h \in Sid, Made(x)
        PROVE  FiledAs(x, h)' <=> FiledAs(x, h)
    <3>1. Pending(x)' <=> Pending(x)
      <4>1. sess' = sess /\ sess[x].owner \in Nodes
        BY <1>0, <2>3, SessionFacts
      <4>2. CASE sess[x].owner = n
        BY <1>1, <1>3, <1>8, <4>1, <4>2, ZenonT(60) DEF Pending
      <4>3. CASE sess[x].owner # n
        BY <1>8, <4>1, <4>3, ZenonT(60) DEF Pending
      <4> QED BY <4>2, <4>3, ZenonT(60)
    <3> QED BY <1>0, <3>1, ZenonT(60) DEF FiledAs, Keyed
  <2>4. store[n][f] = s /\ f # o
    <3>1. store[n][f] = s
      BY <1>4, <1>6, <2>1, <2>2, ZenonT(60) DEF Filed
    <3>2. s # t
      BY <1>4, <1>5, ZenonT(60)
    <3>3. f # o
      BY <1>4, <1>5, <2>1, <3>2 DEF Filed
    <3> QED BY <3>1, <3>3
  <2>5. \A j \in Idx : (Drew(s, j) => j = f) /\ (Drew(t, j) => j = o)
    BY <1>4, <1>5 DEF PlaceInv, DrawInv
  <2>6. ASSUME NEW x \in Sid \ {s}, NEW h \in Sid, NEW j \in Idx, Made(x), FiledAs(x, h), Drew(h, j),
               sess[x].owner = n
        PROVE  j # f /\ j # o
    <3>1. store[n][j] = x
      BY <2>1, <2>6 DEF Filed
    <3>2. j # f
      BY <2>4, <3>1, ZenonT(60)
    <3>3. ASSUME j = o PROVE FALSE
      <4>1. h = t
        BY <1>4, <1>5, <2>1, <2>6, <3>3, ZenonT(60) DEF Filed
      <4>2. CASE h = x
        BY <1>5, <1>6, <2>6, <4>1, <4>2, ZenonT(60)
      <4>3. CASE sess[x].initiator /\ Keyed(x) /\ h = sess[x].er
        <5>1. sess[sess[x].er].ei = x
          BY <4>3, OtherEnd, ZenonT(60)
        <5> QED BY <1>5, <2>6, <4>1, <4>3, <5>1, ZenonT(60)
      <4> QED BY <2>6, <4>2, <4>3, ZenonT(60) DEF FiledAs
    <3> QED BY <3>2, <3>3, ZenonT(60)
  <2>7. \A x, u \in Sid, i \in Idx : Drew(x, i)' /\ Drew(u, i)' => x = u
    BY <1>9, <2>1 DEF Filed
  <2>8. ASSUME NEW x \in Sid, NEW h \in Sid, NEW j \in Idx,
               Made(x)', FiledAs(x, h)', Drew(h, j)'
        PROVE  store'[sess'[x].owner][j] = x
    <3>1. Made(x) /\ Drew(h, j) /\ sess' = sess /\ sess[x].owner \in Nodes
      BY <1>0, <1>9, <2>8, SessionFacts, ZenonT(60) DEF Made
    <3>2. CASE x = s
      BY <1>4, <1>7, <2>2, <2>4, <2>5, <2>8, <3>1, <3>2, ZenonT(60)
    <3>3. CASE x # s
      <4>1. FiledAs(x, h)
        BY <2>3, <2>8, <3>1, <3>3, ZenonT(60)
      <4>2. store[sess[x].owner][j] = x
        BY <2>1, <3>1, <4>1, ZenonT(60) DEF Filed
      <4> QED BY <1>7, <2>6, <3>1, <3>3, <4>1, <4>2
    <3> QED BY <3>2, <3>3, ZenonT(60)
  <2>9. ASSUME NEW k \in Nodes, NEW x \in Sid, NEW j \in Idx, store'[k][j] = x
        PROVE  \E h \in Sid : FiledAs(x, h)' /\ Drew(h, j)'
    <3>0. NoSid \notin Sid
      BY SessionAssumption, ZenonT(60)
    <3>1. CASE k = n /\ j = o
      BY <1>4, <1>5, <1>7, <1>9, <2>2, <2>4, <2>9, <3>1
    <3>2. CASE ~(k = n /\ j = o)
      <4>1. store[k][j] = x /\ ~(k = n /\ j = f)
        BY <1>7, <2>4, <2>9, <3>0, <3>2, ZenonT(60)
      <4>2. Made(x) /\ sess[x].owner = k
        BY <3>0, <4>1, ZenonT(60) DEF Inv, StoreInv
      <4>3. PICK h \in Sid : FiledAs(x, h) /\ Drew(h, j)
        BY <2>1, <4>1, ZenonT(60) DEF Filed
      <4>4. x # s
        BY <1>4, <2>2, <2>5, <4>1, <4>2, <4>3, ZenonT(60)
      <4> QED BY <1>9, <2>3, <4>2, <4>3, <4>4, ZenonT(60)
    <3> QED BY <3>1, <3>2
  <2> QED BY <2>7, <2>8, <2>9, ZenonT(60) DEF Filed
<1> QED BY <1>0, <1>10, <1>11, <1>12, <1>13 DEF PlaceInv

LEMMA InitPlace == Init => PlaceInv
<1> SUFFICES ASSUME Init PROVE PlaceInv
  BY ZenonT(60)
<1>1. \A s \in Sid : ~Made(s) /\ \A i \in Idx : ~Drew(s, i)
  BY ZenonT(60) DEF Init, Made, NoSession, NewSession, Drew
<1>2. DrawInv
  BY <1>1, ZenonT(60) DEF DrawInv, Init
<1>3. SwapInv
  BY ZenonT(60) DEF SwapInv, Init
<1>4. \A n \in Nodes, i \in Idx : store[n][i] \notin Sid
  BY SessionAssumption, ZenonT(60) DEF Init
<1>5. Filed
  BY <1>1, <1>4, ZenonT(60) DEF Filed
<1> QED BY <1>1, <1>2, <1>3, <1>5 DEF PlaceInv

LEMMA NextPlace == Inv /\ PlaceInv /\ [Next]_vars => PlaceInv'
<1> SUFFICES ASSUME Inv, PlaceInv, [Next]_vars PROVE PlaceInv'
  BY ZenonT(60)
<1>0. TypeOK'
  BY NextInv, ZenonT(60) DEF Inv
<1>1. ASSUME NEW n \in Nodes, NEW p \in Nodes, NEW s \in Sid, NEW i \in Idx,
             CreateHello(n, p, s, i)
      PROVE  PlaceInv'
  BY <1>1, CreateHelloKeepsPlace
<1>2. ASSUME NEW n \in Nodes, NEW m \in net, NEW s \in Sid, NEW i \in Idx,
             HandleHello(n, m, s, i)
      PROVE  PlaceInv'
  BY <1>2, HandleHelloKeepsPlace
<1>3. ASSUME NEW n \in Nodes, NEW m \in net, HandleResponse(n, m) PROVE PlaceInv'
  BY <1>3, HandleResponseKeepsPlace
<1>4. ASSUME NEW n \in Nodes, Swap(n) PROVE PlaceInv'
  BY <1>4, SwapKeepsPlace
<1>5. ASSUME NEW n \in Nodes, NEW p \in Nodes, NEW g \in Senders, NEW i \in Idx,
             Find(n, g, p, i)
      PROVE  PlaceInv'
  <2>1. \A x \in Sid : SameSession(x)
    BY <1>5, FindKeepsInv, ZenonT(60)
  <2>2. UNCHANGED <<store, swapping, drawn, collided, net>>
    BY <1>5 DEF Find
  <2> QED BY <1>0, <2>1, <2>2, FrameKeepsPlace
<1>6. ASSUME NEW n \in Nodes, NEW g \in Senders, NotFinished(n, g) \/ LoadNonce(n, g) \/ StoreNonce(n, g)
      PROVE  PlaceInv'
  <2>1. \A x \in Sid : SameSession(x)
    BY <1>6, NotFinishedKeepsInv, LoadNonceKeepsInv, StoreNonceKeepsInv, ZenonT(60)
  <2>2. UNCHANGED <<store, swapping, drawn, collided, net>>
    BY <1>6 DEF NotFinished, LoadNonce, StoreNonce
  <2> QED BY <1>0, <2>1, <2>2, FrameKeepsPlace
<1>7. ASSUME NEW n \in Nodes, NEW g \in Senders, Seal(n, g) PROVE PlaceInv'
  <2>1. \A x \in Sid : SameSession(x)
    BY <1>7, SealKeepsInv, ZenonT(60)
  <2>2. UNCHANGED <<store, swapping, drawn, collided>>
    BY <1>7 DEF Seal
  <2>3. PICK d : d.type = "data" /\ net' = net \cup {d}
    BY <1>7, ZenonT(60) DEF Seal
  <2> QED BY <1>0, <2>1, <2>2, <2>3, FrameKeepsPlace
<1>8. ASSUME NEW n \in Nodes, NEW r \in Receivers, NEW m \in net, HandleData(n, r, m)
      PROVE  PlaceInv'
  <2>1. \A x \in Sid : SameSession(x)
    BY <1>8, HandleDataKeepsInv
  <2>2. UNCHANGED <<store, swapping, drawn, collided, net>>
    BY <1>8, ZenonT(60) DEF HandleData
  <2> QED BY <1>0, <2>1, <2>2, FrameKeepsPlace
<1>9. ASSUME NEW n \in Nodes, NEW r \in Receivers, FirstData(n, r) PROVE PlaceInv'
  <2>1. \A x \in Sid : SameSession(x)
    BY <1>9, FirstDataKeepsInv
  <2>2. UNCHANGED <<store, swapping, drawn, collided, net>>
    BY <1>9 DEF FirstData
  <2> QED BY <1>0, <2>1, <2>2, FrameKeepsPlace
<1>10. CASE UNCHANGED vars
  <2>1. UNCHANGED <<sess, store, swapping, drawn, collided, net>>
    BY <1>10 DEF vars
  <2> QED BY <1>0, <2>1, SessUnchanged, FrameKeepsPlace
<1> QED
  BY <1>1, <1>2, <1>3, <1>4, <1>5, <1>6, <1>7, <1>8, <1>9, <1>10 DEF Next

LEMMA PlaceInvariant == Spec => [](Inv /\ PlaceInv)
<1>1. Init => Inv /\ PlaceInv
  BY InitInv, InitPlace
<1>2. (Inv /\ PlaceInv) /\ [Next]_vars => (Inv /\ PlaceInv)'
  BY NextInv, NextPlace
<1> QED BY <1>1, <1>2, PTL DEF Spec

\* Once the Swap is done, the initiator and its responder are both under the
\* index that the responder drew.
THEOREM IndexesAgree == Spec => []IndexAgreement
<1>1. Inv /\ PlaceInv => IndexAgreement
  <2> SUFFICES ASSUME Inv, PlaceInv, ~collided, NEW s \in Sid, sess[s].initiator, Keyed(s), ~Pending(s)
               PROVE  \E i \in Idx : store[sess[s].owner][i] = s /\ store[sess[s].peer][i] = sess[s].er
    BY ZenonT(60) DEF IndexAgreement, Pending
  <2>1. PICK t \in Sid : /\ t = sess[s].er /\ Made(t) /\ ~sess[t].initiator
                         /\ sess[t].owner = sess[s].peer
    BY OtherEnd, ZenonT(60)
  <2>2. Made(s) /\ FiledAs(s, t) /\ FiledAs(t, t)
    BY <2>1, OtherEnd, ZenonT(60) DEF FiledAs
  <2>3. PICK i \in Idx : Drew(t, i)
    BY <2>1, ZenonT(60) DEF PlaceInv, DrawInv
  <2>4. Filed
    BY ZenonT(60) DEF PlaceInv
  <2>5. \A x \in Sid : Made(x) /\ FiledAs(x, t) => store[sess[x].owner][i] = x
    BY <2>3, <2>4, ZenonT(60) DEF Filed
  <2> QED BY <2>1, <2>2, <2>5, ZenonT(60)
<1> QED BY <1>1, PlaceInvariant, PTL

\* A packet with the index its session is filed under opens at the other end.
THEOREM DataIsDeliverable == Spec => []DataDeliverable
<1>1. Inv /\ PlaceInv => DataDeliverable
  <2> SUFFICES ASSUME Inv, PlaceInv, ~collided, NEW m \in net, m.type = "data",
                      store[m.by][m.idx] = m.sid, sess[m.ei].er = m.er,
                      \A n \in Nodes : swapping[n] = Idle
               PROVE  Opens(store[m.to][m.idx], m)
    BY DEF DataDeliverable
  <2>0. /\ m.idx \in Idx /\ m.sid \in Sid /\ m.er \in Sid /\ m.ei \in Sid /\ m.by \in Nodes
        /\ m.initiator \in BOOLEAN /\ NoSid \notin Sid
    BY MsgFields, SessionAssumption, ZenonT(60) DEF Inv, TypeOK
  <2>1. PICK s \in Sid : s = m.sid
    BY <2>0
  <2>2. /\ Made(s) /\ sess[s].owner = m.by /\ sess[s].peer = m.to
        /\ sess[s].ei = m.ei /\ sess[s].er = m.er /\ sess[s].initiator = m.initiator
    BY <2>1, ZenonT(60) DEF Inv, MsgInv
  <2>3. PICK h \in Sid : FiledAs(s, h) /\ Drew(h, m.idx)
    BY <2>0, <2>1 DEF PlaceInv, Filed
  <2>4. \A x \in Sid : Made(x) => ~Pending(x)
    BY SessionFacts, ZenonT(60) DEF Pending
  <2>5. CASE sess[s].initiator
    <3>1. PICK t \in Sid : /\ t = sess[s].er /\ Made(t) /\ ~sess[t].initiator /\ sess[t].er = t
                           /\ sess[t].owner = sess[s].peer /\ sess[t].ei = s /\ s = m.ei
      <4>1. Keyed(s)
        BY <2>0, <2>2, ZenonT(60) DEF Keyed
      <4>2. PICK t \in Sid : /\ t = sess[s].er /\ Made(t) /\ ~sess[t].initiator
                             /\ sess[t].owner = sess[s].peer /\ sess[t].ei = s /\ sess[s].ei = s
        BY <2>5, <4>1, OtherEnd, ZenonT(60)
      <4>3. sess[t].er = t
        BY <4>2, SessionFacts, ZenonT(60)
      <4> QED BY <2>2, <4>2, <4>3, ZenonT(60)
    <3>2. h = t /\ FiledAs(t, t)
      BY <2>0, <2>2, <2>3, <2>4, <2>5, <3>1, ZenonT(60) DEF FiledAs, Keyed
    <3>3. store[m.to][m.idx] = t
      BY <2>0, <2>2, <2>3, <3>1, <3>2 DEF PlaceInv, Filed
    <3> QED BY <2>0, <2>2, <2>5, <3>1, <3>3, ZenonT(60) DEF Opens, Keyed
  <2>6. CASE ~sess[s].initiator
    <3>1. PICK u \in Sid : /\ u = sess[s].ei /\ Made(u) /\ sess[u].initiator
                           /\ sess[u].owner = sess[s].peer /\ sess[u].ei = u /\ sess[s].er = s
      BY <2>0, <2>2, <2>6, SessionFacts, ZenonT(60)
    <3>2. h = s /\ sess[u].er = s /\ FiledAs(u, s)
      BY <2>0, <2>2, <2>3, <2>4, <2>6, <3>1, ZenonT(60) DEF FiledAs, Keyed
    <3>3. store[m.to][m.idx] = u
      BY <2>0, <2>2, <2>3, <3>1, <3>2 DEF PlaceInv, Filed
    <3> QED BY <2>0, <2>2, <2>6, <3>1, <3>2, <3>3, ZenonT(60) DEF Opens, Keyed
  <2> QED BY <2>5, <2>6, ZenonT(60)
<1> QED BY <1>1, PlaceInvariant, PTL

----------------------------------------------------------------------------
\* A step that counts no nonce and makes no data packet.
LEMMA FrameKeepsNonces ==
    ASSUME Inv, NonceInv, SameNonces, UNCHANGED <<sending, made>>,
           net \subseteq net', \A m \in net' : m.type = "data" => m \in net
    PROVE  NonceInv'
<1>0. NoncesBelow /\ NoncesDiffer /\ \A n \in Nodes, g \in Senders : Counting(n, g)
  BY DEF NonceInv
<1>1. ASSUME NEW m \in net, m.type = "data"
      PROVE  sess'[m.sid].nonce = sess[m.sid].nonce
  <2>1. m.sid \in Sid /\ Made(m.sid)
    BY <1>1, DataFacts
  <2> QED BY <2>1, ZenonT(60) DEF SameNonces
<1>2. ASSUME NEW n \in Nodes, NEW g \in Senders, sending[n][g].at # "idle"
      PROVE  sess'[sending[n][g].sid].nonce = sess[sending[n][g].sid].nonce
  <2>1. sending[n][g].sid \in Sid /\ Made(sending[n][g].sid)
    BY <1>2, OwnSession
  <2> QED BY <2>1, ZenonT(60) DEF SameNonces
<1>3. NoncesBelow'
  BY <1>0, <1>1, ZenonT(60) DEF NoncesBelow
<1>4. ASSUME NEW n \in Nodes, NEW g \in Senders PROVE Counting(n, g)'
  <2>1. Counting(n, g)
    BY <1>0
  <2> QED BY <1>1, <1>2, <2>1 DEF Counting
<1>5. NoncesDiffer'
  BY <1>0, ZenonT(60) DEF NoncesDiffer
<1> QED BY <1>3, <1>4, <1>5 DEF NonceInv

\* A step of CreateData before the count.
LEMMA SendingKeepsNonces ==
    ASSUME Inv, NonceInv, NEW n \in Nodes, NEW g \in Senders, NEW c,
           sending' = [sending EXCEPT ![n][g] = c], UNCHANGED <<sess, net, made>>,
           c.at # "stored", c.at = "loaded" => c.nonce = sess[c.sid].nonce
    PROVE  NonceInv'
<1>1. \A k \in Nodes, h \in Senders : sending'[k][h] = sending[k][h] \/ sending'[k][h] = c
  BY CounterFacts, ZenonT(60)
<1>2. ASSUME NEW k \in Nodes, NEW h \in Senders PROVE Counting(k, h)'
  <2>1. Counting(k, h)
    BY DEF NonceInv
  <2> QED BY <1>1, <2>1 DEF Counting
<1> QED BY <1>2 DEF NonceInv, NoncesBelow, NoncesDiffer

\* The count.  No other routine of the node is inside CreateData, and those of
\* other nodes have sessions of their own.
LEMMA StoreNonceKeepsNonces ==
    ASSUME Inv, NonceInv, \A g, h \in Senders : g = h, NEW n \in Nodes, NEW g \in Senders,
           StoreNonce(n, g)
    PROVE  NonceInv'
<1>a. NoncesBelow /\ NoncesDiffer /\ \A k \in Nodes, h \in Senders : Counting(k, h)
  BY DEF NonceInv
<1>0. PICK s \in Sid : /\ s = sending[n][g].sid /\ sess[s].owner = n
                       /\ sending[n][g].at = "loaded" /\ sending[n][g] \in Sending
  BY OwnSession, ZenonT(60) DEF StoreNonce
<1>1. PICK v \in Nat : v = sending[n][g].nonce /\ v = sess[s].nonce
  <2>1. Counting(n, g) /\ sending[n][g].nonce \in Nat
    BY <1>a, <1>0, ZenonT(60) DEF Sending
  <2> QED BY <1>0, <2>1 DEF Counting
<1>2. /\ sess' = [sess EXCEPT ![s].nonce = v + 1]
      /\ sending' = [sending EXCEPT ![n][g].at = "stored"] /\ UNCHANGED <<net, made>>
  BY <1>0, <1>1 DEF StoreNonce
<1>3. sess'[s].nonce = v + 1 /\ \A x \in Sid \ {s} : sess'[x].nonce = sess[x].nonce
  BY <1>2 DEF Inv, TypeOK, SessionRec
<1>4. /\ sending'[n][g].at = "stored" /\ sending'[n][g].sid = s
      /\ \A k \in Nodes \ {n}, h \in Senders : sending'[k][h] = sending[k][h]
  BY <1>0, <1>2, CounterFacts, ZenonT(60) DEF Sending
<1>5. ASSUME NEW m \in net, m.type = "data"
      PROVE  m.num < made /\ m.nonce <= sess'[m.sid].nonce /\ (m.sid = s => m.nonce < v + 1)
  <2>1. m.sid \in Sid /\ m.nonce \in Nat
    BY <1>5, DataFacts, ZenonT(60)
  <2>2. m.num < made /\ m.nonce <= sess[m.sid].nonce
    BY <1>a, <1>5, ZenonT(60) DEF NoncesBelow
  <2> QED BY <1>1, <1>3, <2>1, <2>2
<1>6. ASSUME NEW k \in Nodes, NEW h \in Senders PROVE Counting(k, h)'
  <2>1. CASE k = n
    <3>1. sending'[k][h].at = "stored" /\ sending'[k][h].sid = s
      BY <1>4, <2>1
    <3> QED BY <1>2, <1>3, <1>5, <3>1, ZenonT(60) DEF Counting
  <2>2. CASE k # n /\ sending[k][h].at \in {"loaded", "stored"}
    <3>1. sending[k][h].sid \in Sid /\ sess[sending[k][h].sid].owner = k
      BY <2>2, OwnSession
    <3>2. sess'[sending[k][h].sid].nonce = sess[sending[k][h].sid].nonce
      BY <1>0, <1>3, <2>2, <3>1, ZenonT(60)
    <3>3. Counting(k, h) /\ sending'[k][h] = sending[k][h]
      BY <1>a, <1>4, <2>2, ZenonT(60)
    <3> QED BY <1>2, <3>2, <3>3, ZenonT(60) DEF Counting
  <2>3. CASE k # n /\ sending[k][h].at \notin {"loaded", "stored"}
    BY <1>4, <2>3 DEF Counting
  <2> QED BY <2>1, <2>2, <2>3, ZenonT(60)
<1>7. NoncesBelow' /\ NoncesDiffer'
  BY <1>a, <1>2, <1>5 DEF NoncesBelow, NoncesDiffer
<1> QED BY <1>6, <1>7 DEF NonceInv

\* The packet gets the count, which is above the nonces of the session's packets.
LEMMA SealKeepsNonces ==
    ASSUME Inv, NonceInv, \A g, h \in Senders : g = h, NEW n \in Nodes, NEW g \in Senders,
           Seal(n, g)
    PROVE  NonceInv'
<1>a. NoncesBelow /\ NoncesDiffer /\ \A k \in Nodes, h \in Senders : Counting(k, h)
  BY DEF NonceInv
<1>0. PICK s \in Sid : s = sending[n][g].sid /\ sess[s].owner = n /\ sending[n][g].at = "stored"
  BY OwnSession DEF Seal
<1>1. PICK d : /\ d.type = "data" /\ d.sid = s /\ d.num = made /\ d.nonce = sess[s].nonce
               /\ net' = net \cup {d}
  BY <1>0, ZenonT(60) DEF Seal
<1>2. made' = made + 1 /\ sess' = sess /\ sending' = [sending EXCEPT ![n][g] = Idle]
  BY DEF Seal
<1>3. made \in Nat /\ sess[s].nonce \in Nat
  BY CounterFacts, ZenonT(60)
<1>4. ASSUME NEW m \in net, m.type = "data"
      PROVE  /\ m.num \in Nat /\ m.nonce \in Nat /\ m.num < made
             /\ m.nonce <= sess[m.sid].nonce /\ (m.sid = s => m.nonce < sess[s].nonce)
  <2>1. m.num \in Nat /\ m.nonce \in Nat
    BY <1>4, DataFacts, ZenonT(60)
  <2>2. m.num < made /\ m.nonce <= sess[m.sid].nonce
    BY <1>a, <1>4, ZenonT(60) DEF NoncesBelow
  <2>3. m.sid = s => m.nonce < sess[s].nonce
    BY <1>a, <1>0, <1>4 DEF Counting
  <2> QED BY <2>1, <2>2, <2>3
<1>5. /\ sending'[n][g] = Idle
      /\ \A k \in Nodes \ {n}, h \in Senders : sending'[k][h] = sending[k][h]
  BY <1>2, CounterFacts, ZenonT(60)
<1>6. NoncesBelow'
  BY <1>1, <1>2, <1>3, <1>4 DEF NoncesBelow
<1>7. ASSUME NEW k \in Nodes, NEW h \in Senders PROVE Counting(k, h)'
  <2>1. CASE k = n
    BY <1>5, <2>1 DEF Idle, Counting
  <2>2. CASE k # n /\ sending[k][h].at \in {"loaded", "stored"}
    <3>1. sess[sending[k][h].sid].owner = k
      BY <2>2, OwnSession, ZenonT(60)
    <3>2. sending[k][h].sid # s /\ Counting(k, h) /\ sending'[k][h] = sending[k][h]
      BY <1>a, <1>0, <1>5, <2>2, <3>1, ZenonT(60)
    <3> QED BY <1>1, <1>2, <3>2, ZenonT(60) DEF Counting
  <2>3. CASE k # n /\ sending[k][h].at \notin {"loaded", "stored"}
    BY <1>5, <2>3, ZenonT(60) DEF Counting
  <2> QED BY <2>1, <2>2, <2>3, ZenonT(60)
<1>8. NoncesDiffer'
  BY <1>a, <1>1, <1>3, <1>4 DEF NoncesDiffer
<1> QED BY <1>6, <1>7, <1>8, ZenonT(60) DEF NonceInv

LEMMA NextNonces ==
    ASSUME Inv, NonceInv, \A g, h \in Senders : g = h, [Next]_vars
    PROVE  NonceInv'
<1>1. CASE \E n \in Nodes, g \in Senders : StoreNonce(n, g) \/ Seal(n, g)
  BY <1>1, StoreNonceKeepsNonces, SealKeepsNonces, ZenonT(60)
<1>2. ASSUME NEW n \in Nodes, NEW p \in Nodes, NEW g \in Senders, NEW i \in Idx,
             Find(n, g, p, i)
      PROVE  NonceInv'
  <2>1. PICK c : c.at = "found" /\ sending' = [sending EXCEPT ![n][g] = c]
    BY <1>2, ZenonT(60) DEF Find
  <2>2. UNCHANGED <<sess, net, made>>
    BY <1>2, ZenonT(60) DEF Find
  <2> QED BY <2>1, <2>2, SendingKeepsNonces, ZenonT(60)
<1>3. ASSUME NEW n \in Nodes, NEW g \in Senders, NotFinished(n, g) PROVE NonceInv'
  <2>1. Idle.at = "idle"
    BY DEF Idle
  <2>2. sending' = [sending EXCEPT ![n][g] = Idle] /\ UNCHANGED <<sess, net, made>>
    BY <1>3, ZenonT(60) DEF NotFinished
  <2> QED BY <2>1, <2>2, SendingKeepsNonces, ZenonT(60)
<1>4. ASSUME NEW n \in Nodes, NEW g \in Senders, LoadNonce(n, g) PROVE NonceInv'
  <2>1. PICK c \in Sending : c = sending[n][g]
    BY <1>4, OwnSession DEF LoadNonce
  <2>2. PICK d : d = [c EXCEPT !.at = "loaded", !.nonce = sess[c.sid].nonce]
    OBVIOUS
  <2>3. d.at = "loaded" /\ d.sid = c.sid /\ d.nonce = sess[c.sid].nonce
    BY <2>2 DEF Sending
  <2>4. sending' = [sending EXCEPT ![n][g] = d] /\ UNCHANGED <<sess, net, made>>
    BY <1>4, <2>1, <2>2, CounterFacts, ZenonT(60) DEF LoadNonce
  <2> QED BY <2>3, <2>4, SendingKeepsNonces, ZenonT(60)
<1>5. CASE /\ UNCHANGED <<sending, made>> /\ net \subseteq net'
           /\ \A m \in net' : m.type = "data" => m \in net
  BY <1>1, <1>5, StepKeepsSessions, FrameKeepsNonces, ZenonT(60)
<1>6. ASSUME NEW n \in Nodes, NEW p \in Nodes, NEW s \in Sid, NEW i \in Idx,
             CreateHello(n, p, s, i)
      PROVE  NonceInv'
  <2>1. PICK h : h.type = "hello" /\ net' = net \cup {h}
    BY <1>6, ZenonT(60) DEF CreateHello, MakeHello
  <2> QED BY <1>5, <1>6, <2>1, ZenonT(60) DEF CreateHello
<1>7. ASSUME NEW n \in Nodes, NEW m \in net, NEW s \in Sid, NEW i \in Idx,
             HandleHello(n, m, s, i)
      PROVE  NonceInv'
  <2>1. PICK h : h.type = "response" /\ net' = net \cup {h}
    BY <1>7, ZenonT(60) DEF HandleHello, MakeResponse
  <2> QED BY <1>5, <1>7, <2>1, ZenonT(60) DEF HandleHello
<1>8. ASSUME \/ \E n \in Nodes, m \in net : HandleResponse(n, m)
             \/ \E n \in Nodes : Swap(n)
             \/ \E n \in Nodes, r \in Receivers, m \in net : HandleData(n, r, m)
             \/ \E n \in Nodes, r \in Receivers : FirstData(n, r)
             \/ UNCHANGED vars
      PROVE  NonceInv'
  <2>1. UNCHANGED <<sending, made, net>>
    BY <1>8, ZenonT(60) DEF HandleResponse, Swap, HandleData, FirstData, vars
  <2> QED BY <1>5, <2>1, ZenonT(60)
<1> QED
  BY <1>1, <1>2, <1>3, <1>4, <1>6, <1>7, <1>8, ZenonT(60) DEF Next

\* With one send routine per node CreateData gives every packet of a session a
\* nonce of its own.  The code has two, and with two it need not.
THEOREM NoncesAreFresh ==
    ASSUME \A g, h \in Senders : g = h
    PROVE  Spec => []NonceFresh
<1>1. Init => Inv /\ NonceInv
  BY InitInv, InitNonces
<1>2. (Inv /\ NonceInv) /\ [Next]_vars => (Inv /\ NonceInv)'
  BY NextInv, NextNonces
<1>3. Inv /\ NonceInv => NonceFresh
  <2> SUFFICES ASSUME Inv, NonceInv, NEW m1 \in net, NEW m2 \in net,
                      m1.type = "data", m2.type = "data", m1.num # m2.num,
                      m1.ei = m2.ei, m1.er = m2.er, m1.initiator = m2.initiator
               PROVE  m1.nonce # m2.nonce
    BY ZenonT(60) DEF NonceFresh
  <2>1. ASSUME NEW m \in net, m.type = "data"
        PROVE  m.sid = IF m.initiator THEN m.ei ELSE m.er
    <3>1. /\ m.sid \in Sid /\ Made(m.sid) /\ sess[m.sid].ei = m.ei /\ sess[m.sid].er = m.er
          /\ sess[m.sid].initiator = m.initiator
      BY <2>1, MsgFields, ZenonT(60) DEF Inv, TypeOK, MsgInv
    <3> QED BY <3>1, SessionFacts, ZenonT(60)
  <2>2. m1.sid = m2.sid
    BY <2>1, ZenonT(60)
  <2> QED BY <2>2 DEF NonceInv, NoncesDiffer
<1> QED BY <1>1, <1>2, <1>3, PTL DEF Spec
=============================================================================
