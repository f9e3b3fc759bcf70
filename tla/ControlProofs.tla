--------------------------- MODULE ControlProofs ---------------------------
(***************************************************************************)
(* Proofs about Control, for any number of requests: no panic without an   *)
(* overlap, no LinkLocal that is out of reach, and a call alone leaves the *)
(* node and its transports in agreement.                                   *)
(***************************************************************************)
EXTENDS Control, TLAPS

\* The provers that a leaf is tried with, in turn, unless it names its own.
USE SMT, Zenon, SMTT(30), ZenonT(60), Z3T(30)

\* What the proofs need of the types.
Types ==
    /\ op \in [Calls -> Operations \cup {"none"}]
    /\ pc \in [Calls -> Places \cup {"idle", "done"}]
    /\ result \in [Calls -> Results \cup {"none"}]
    /\ met \in [Calls -> SUBSET Calls]

\* Two calls in progress have met, and a call that was met has been made.
Met ==
    /\ \A c, d \in Active : c # d => d \in met[c]
    /\ \A c \in Calls : \A d \in met[c] : pc[d] # "idle"
    /\ \A c \in Calls : pc[c] = "idle" => op[c] = "none" /\ result[c] = "none"

CallInv == Types /\ Met

\* A step of the calls is one of these five.
CallStep ==
    \/ \E c \in Calls, o \in Operations, at \in Places : Begin(c, o, at)
    \/ \E c \in Calls, o \in Operations, res \in Results : BeginAndEnd(c, o, res)
    \/ \E c \in Active, at \in Places : Goto(c, at)
    \/ \E c \in Active, res \in Results : End(c, res)
    \/ UNCHANGED callVars

\* The bookkeeping of the calls is kept by each of the five.
LEMMA CallStepKeeps == CallInv /\ CallStep => CallInv'
<1> SUFFICES ASSUME CallInv, CallStep PROVE CallInv'
  OBVIOUS
<1> USE DEF CallInv, Types, Met, Active, Operations, Results, Places
<1>1. ASSUME NEW c \in Calls, NEW o \in Operations, NEW at \in Places, Begin(c, o, at)
      PROVE  CallInv'
  <2>1. Types'
    BY <1>1 DEF Begin
  <2>2. Met'
    BY <1>1 DEF Begin, Arrives
  <2> QED BY <2>1, <2>2
<1>2. ASSUME NEW c \in Calls, NEW o \in Operations, NEW res \in Results,
             BeginAndEnd(c, o, res)
      PROVE  CallInv'
  <2>1. Types'
    BY <1>2 DEF BeginAndEnd
  <2>2. ASSUME NEW x \in Calls, x \in Active' PROVE x \in Active /\ met'[x] = met[x]
    BY <1>2, <2>2 DEF BeginAndEnd
  <2>3. \A x \in Calls : (pc[x] # "idle" => pc'[x] # "idle") /\ met'[x] = met[x]
    BY <1>2 DEF BeginAndEnd
  <2>4. \A x \in Calls : pc'[x] = "idle" => op'[x] = "none" /\ result'[x] = "none"
    BY <1>2 DEF BeginAndEnd
  <2> QED BY <2>1, <2>2, <2>3, <2>4
<1>3. ASSUME NEW c \in Active, NEW at \in Places, Goto(c, at)
      PROVE  CallInv'
  BY <1>3 DEF Goto
<1>4. ASSUME NEW c \in Active, NEW res \in Results, End(c, res)
      PROVE  CallInv'
  <2>1. Types'
    BY <1>4 DEF End
  <2>2. ASSUME NEW x \in Calls, x \in Active' PROVE x \in Active /\ met'[x] = met[x]
    BY <1>4, <2>2 DEF End
  <2>3. \A x \in Calls : (pc[x] # "idle" => pc'[x] # "idle") /\ met'[x] = met[x]
    BY <1>4 DEF End
  <2>4. \A x \in Calls : pc'[x] = "idle" => op'[x] = "none" /\ result'[x] = "none"
    BY <1>4 DEF End
  <2> QED BY <2>1, <2>2, <2>3, <2>4
<1>5. CASE UNCHANGED callVars
  BY <1>5 DEF callVars
<1> HIDE DEF CallInv, Types, Met, Active, Operations, Results, Places
<1> QED BY <1>1, <1>2, <1>3, <1>4, <1>5 DEF CallStep

\* Every step of the node is such a step of the calls.
LEMMA NodeStepCalls == ASSUME NEW c \in Calls, LifecycleStep(c) PROVE CallStep
<1> USE DEF CallStep, Active, Operations, Results, Places
<1>1. CASE Start(c)
  BY <1>1 DEF Start
<1>2. CASE StartMake(c)
  BY <1>2 DEF StartMake
<1>3. CASE Stop(c)
  BY <1>3 DEF Stop
<1>4. CASE StopClose(c)
  BY <1>4 DEF StopClose
<1>5. CASE TakeTransports(c)
  BY <1>5 DEF TakeTransports, Onward
<1>6. CASE TptStart(c)
  BY <1>6 DEF TptStart, Onward
<1>7. CASE TptMake(c)
  BY <1>7 DEF TptMake, Onward
<1>8. CASE TptStop(c)
  BY <1>8 DEF TptStop, Onward
<1>9. CASE TptClose(c)
  BY <1>9 DEF TptClose, Onward
<1>10. ASSUME NEW a \in Addrs, Listen(c, a) PROVE CallStep
  BY <1>10 DEF Listen
<1>11. CASE ListenRead(c)
  BY <1>11 DEF ListenRead
<1>12. CASE ListenAppend(c)
  BY <1>12 DEF ListenAppend
<1>13. CASE ListenAsk(c)
  BY <1>13 DEF ListenAsk, Onward
<1> HIDE DEF CallStep
<1> QED BY <1>1, <1>2, <1>3, <1>4, <1>5, <1>6, <1>7, <1>8, <1>9, <1>10, <1>11, <1>12, <1>13
        DEF LifecycleStep

LEMMA ServiceStepCalls == ASSUME NEW c \in Calls, DiscoveryStep(c) PROVE CallStep
<1> USE DEF CallStep, Active, Operations, Results, Places
<1>1. CASE StartLinkLocal(c)
  BY <1>1 DEF StartLinkLocal
<1>2. CASE StopLinkLocal(c)
  BY <1>2 DEF StopLinkLocal
<1>3. CASE Seek(c)
  BY <1>3 DEF Seek
<1>4. CASE HaltCheck(c)
  BY <1>4 DEF HaltCheck
<1>5. CASE HaltClose(c)
  BY <1>5 DEF HaltClose
<1>6. CASE Add(c)
  BY <1>6 DEF Add
<1>7. CASE Lookup(c)
  BY <1>7 DEF Lookup
<1>8. CASE LLStart(c)
  BY <1>8 DEF LLStart
<1>9. CASE LLMake(c)
  BY <1>9 DEF LLMake
<1>10. CASE LLBind(c)
  BY <1>10 DEF LLBind
<1> HIDE DEF CallStep
<1> QED BY <1>1, <1>2, <1>3, <1>4, <1>5, <1>6, <1>7, <1>8, <1>9, <1>10 DEF DiscoveryStep

LEMMA RoutinesLeaveCalls ==
    ASSUME NEW k \in Calls, Routine(k) \/ Announce(k)
    PROVE  UNCHANGED <<callVars, nodeVars, service, chan, closed, hand, owner>>
BY DEF Routine, RoutineStep, Announce, ReceiveExit, AnnounceBegin, AnnounceExit, Tick, registry

LEMMA StepKeepsCalls == CallInv /\ [Next]_vars => CallInv'
<1>1. ASSUME CallInv, Next PROVE CallStep
  <2> USE <1>1 DEF Next
  <2> QED BY NodeStepCalls, ServiceStepCalls, RoutinesLeaveCalls DEF NodeStep, ServiceStep, CallStep
<1>2. UNCHANGED vars => CallStep
  BY DEF vars, CallStep
<1> QED BY <1>1, <1>2, CallStepKeeps

----------------------------------------------------------------------------
\* A call touches nothing that is another call's own.
Untouched(d) ==
    /\ pc'[d] = pc[d] /\ op'[d] = op[d] /\ result'[d] = result[d]
    /\ met[d] \subseteq met'[d]
    /\ walk'[d] = walk[d] /\ hand'[d] = hand[d]

Shapes ==
    /\ running \in States /\ trun \in [Calls -> States]
    /\ transports \in Seq(Calls) /\ walk \in [Calls -> Seq(Calls)]
    /\ \A c \in Calls : pc[c] \in {"walk", "tmake", "tclose"} => walk[c] # <<>>
    /\ chan \in [Calls -> Calls \cup {NoCall}]
    /\ hand \in [Calls -> Calls \cup {NoCall}]
    /\ service \in Calls \cup {NoCall}

LEMMA ArrivalTouches ==
    ASSUME CallInv, NEW c \in Calls, NEW d \in Calls, d # c, NEW o, NEW at, NEW res,
           Begin(c, o, at) \/ BeginAndEnd(c, o, res)
    PROVE  /\ pc'[d] = pc[d] /\ op'[d] = op[d] /\ result'[d] = result[d]
           /\ met[d] \subseteq met'[d]
<1> USE DEF CallInv, Types
<1>1. CASE Begin(c, o, at)
  BY <1>1 DEF Begin
<1>2. CASE BeginAndEnd(c, o, res)
  BY <1>2 DEF BeginAndEnd
<1> QED BY <1>1, <1>2

LEMMA OthersUntouched ==
    ASSUME CallInv, Shapes, NEW c \in Calls, NodeStep(c) \/ ServiceStep(c),
           NEW d \in Calls, d # c
    PROVE  Untouched(d)
<1> USE DEF CallInv, Types, Shapes, Untouched, Begin, BeginAndEnd, Goto, End,
            nodeVars, discoveryVars
<1>1. CASE NodeStep(c)
  <2> HIDE DEF Begin, BeginAndEnd
  <2>1. CASE Start(c)
    BY <1>1, <2>1, ArrivalTouches, ZenonT(60) DEF NodeStep, Start
  <2>2. CASE StartMake(c)
    BY <1>1, <2>2 DEF NodeStep, StartMake
  <2>3. CASE Stop(c)
    BY <1>1, <2>3, ArrivalTouches, ZenonT(60) DEF NodeStep, Stop
  <2>4. CASE StopClose(c)
    BY <1>1, <2>4 DEF NodeStep, StopClose
  <2>5. CASE TakeTransports(c)
    BY <1>1, <2>5 DEF NodeStep, TakeTransports, Onward
  <2>6. CASE TptStart(c)
    BY <1>1, <2>6 DEF NodeStep, TptStart, Onward
  <2>7. CASE TptMake(c)
    BY <1>1, <2>7 DEF NodeStep, TptMake, Onward
  <2>8. CASE TptStop(c)
    BY <1>1, <2>8 DEF NodeStep, TptStop, Onward
  <2>9. CASE TptClose(c)
    BY <1>1, <2>9 DEF NodeStep, TptClose, Onward
  <2>10. ASSUME NEW a \in Addrs, Listen(c, a) PROVE Untouched(d)
    BY <1>1, <2>10, ArrivalTouches, ZenonT(60) DEF NodeStep, Listen
  <2>11. CASE ListenRead(c)
    BY <1>1, <2>11 DEF NodeStep, ListenRead
  <2>12. CASE ListenAppend(c)
    BY <1>1, <2>12 DEF NodeStep, ListenAppend
  <2>13. CASE ListenAsk(c)
    BY <1>1, <2>13 DEF NodeStep, ListenAsk, Onward
  <2> HIDE DEF Untouched
  <2> QED BY <1>1, <2>1, <2>2, <2>3, <2>4, <2>5, <2>6, <2>7, <2>8, <2>9, <2>10, <2>11,
             <2>12, <2>13 DEF NodeStep, LifecycleStep
<1>2. CASE ServiceStep(c)
  <2>1. CASE StartLinkLocal(c)
    BY <1>2, <2>1 DEF ServiceStep, StartLinkLocal
  <2>2. CASE StopLinkLocal(c)
    BY <1>2, <2>2 DEF ServiceStep, StopLinkLocal
  <2>3. CASE Seek(c)
    BY <1>2, <2>3 DEF ServiceStep, Seek
  <2>4. CASE HaltCheck(c)
    BY <1>2, <2>4 DEF ServiceStep, HaltCheck
  <2>5. CASE HaltClose(c)
    BY <1>2, <2>5 DEF ServiceStep, HaltClose
  <2>6. CASE Add(c)
    BY <1>2, <2>6 DEF ServiceStep, Add
  <2>7. CASE Lookup(c)
    BY <1>2, <2>7 DEF ServiceStep, Lookup
  <2>8. CASE LLStart(c)
    BY <1>2, <2>8 DEF ServiceStep, LLStart
  <2>9. CASE LLMake(c)
    BY <1>2, <2>9 DEF ServiceStep, LLMake
  <2>10. CASE LLBind(c)
    BY <1>2, <2>10 DEF ServiceStep, LLBind
  <2> HIDE DEF Untouched
  <2> QED BY <1>2, <2>1, <2>2, <2>3, <2>4, <2>5, <2>6, <2>7, <2>8, <2>9, <2>10
          DEF ServiceStep, DiscoveryStep
<1> QED BY <1>1, <1>2

LEMMA OnwardShapes ==
    ASSUME Types, Shapes, NEW c \in Calls, NEW rest \in Seq(Calls), Onward(c, rest)
    PROVE  /\ walk' \in [Calls -> Seq(Calls)]
           /\ \A d \in Calls : pc'[d] \in {"walk", "tmake", "tclose"} => walk'[d] # <<>>
<1> USE DEF Types, Shapes, Onward
<1>1. CASE rest = <<>>
  BY <1>1 DEF End
<1>2. CASE rest # <<>>
  BY <1>2 DEF Goto
<1> QED BY <1>1, <1>2

LEMMA NodeStepShapes == ASSUME CallInv, Shapes, NEW c \in Calls, NodeStep(c) PROVE Shapes'
<1> USE DEF CallInv, Types, Shapes, States
<1>0. UNCHANGED <<chan, hand, service>>
  BY DEF NodeStep, discoveryVars
<1>a. pc[c] \in {"walk", "tmake", "tclose"}
        => Head(walk[c]) \in Calls /\ Tail(walk[c]) \in Seq(Calls)
  OBVIOUS
<1>1. CASE Start(c)
  BY <1>0, <1>1 DEF Start, Begin, BeginAndEnd, nodeVars
<1>2. CASE StartMake(c)
  BY <1>0, <1>2 DEF StartMake, Goto
<1>3. CASE Stop(c)
  BY <1>0, <1>3 DEF Stop, Begin, BeginAndEnd, nodeVars
<1>4. CASE StopClose(c)
  BY <1>0, <1>4 DEF StopClose, Goto, End
<1>5. CASE TakeTransports(c)
  BY <1>0, <1>5, OnwardShapes DEF TakeTransports
<1>6. CASE TptStart(c)
  <2>1. CASE Onward(c, Tail(walk[c]))
    BY <1>0, <1>6, <1>a, <2>1, OnwardShapes, ZenonT(60) DEF TptStart
  <2>2. CASE Goto(c, "tmake") /\ UNCHANGED walk
    BY <1>0, <1>6, <2>2 DEF TptStart, Goto
  <2> QED BY <1>6, <2>1, <2>2, ZenonT(60) DEF TptStart
<1>7. CASE TptMake(c)
  BY <1>0, <1>7, <1>a, OnwardShapes, ZenonT(60) DEF TptMake
<1>8. CASE TptStop(c)
  <2>1. CASE Onward(c, Tail(walk[c]))
    BY <1>0, <1>8, <1>a, <2>1, OnwardShapes, ZenonT(60) DEF TptStop
  <2>2. CASE Goto(c, "tclose") /\ UNCHANGED walk
    BY <1>0, <1>8, <2>2 DEF TptStop, Goto
  <2> QED BY <1>8, <2>1, <2>2 DEF TptStop
<1>9. CASE TptClose(c)
  <2>1. CASE Onward(c, Tail(walk[c]))
    BY <1>0, <1>9, <1>a, <2>1, OnwardShapes, ZenonT(60) DEF TptClose
  <2>2. CASE End(c, "panic") /\ UNCHANGED walk
    BY <1>0, <1>9, <2>2 DEF TptClose, End
  <2> QED BY <1>9, <2>1, <2>2, ZenonT(60) DEF TptClose
<1>10. ASSUME NEW a \in Addrs, Listen(c, a) PROVE Shapes'
  BY <1>0, <1>10 DEF Listen, Begin, BeginAndEnd
<1>11. CASE ListenRead(c)
  BY <1>0, <1>11 DEF ListenRead, Goto
<1>12. CASE ListenAppend(c)
  BY <1>0, <1>12 DEF ListenAppend, Goto
<1>13. CASE ListenAsk(c)
  <2>1. <<>> \in Seq(Calls) /\ <<c>> \in Seq(Calls)
    OBVIOUS
  <2> QED BY <1>0, <1>13, <2>1, OnwardShapes, ZenonT(60) DEF ListenAsk
<1> HIDE DEF Shapes
<1> QED BY <1>1, <1>2, <1>3, <1>4, <1>5, <1>6, <1>7, <1>8, <1>9, <1>10, <1>11, <1>12, <1>13, ZenonT(60)
        DEF NodeStep, LifecycleStep

LEMMA ServiceStepShapes == ASSUME CallInv, Shapes, NEW c \in Calls, ServiceStep(c) PROVE Shapes'
<1> USE DEF CallInv, Types, Shapes, States, Begin, Goto, End, nodeVars, discoveryVars
<1>0. UNCHANGED nodeVars
  BY DEF ServiceStep
<1>1. CASE StartLinkLocal(c)
  BY <1>0, <1>1 DEF StartLinkLocal
<1>2. CASE StopLinkLocal(c)
  BY <1>0, <1>2 DEF StopLinkLocal
<1>3. CASE Seek(c)
  BY <1>0, <1>3, ZenonT(60) DEF Seek
<1>4. CASE HaltCheck(c)
  BY <1>0, <1>4 DEF HaltCheck
<1>5. CASE HaltClose(c)
  BY <1>0, <1>5 DEF HaltClose
<1>6. CASE Add(c)
  BY <1>0, <1>6 DEF Add
<1>7. CASE Lookup(c)
  BY <1>0, <1>7 DEF Lookup
<1>8. CASE LLStart(c)
  BY <1>0, <1>8 DEF LLStart
<1>9. CASE LLMake(c)
  BY <1>0, <1>9, ZenonT(60) DEF LLMake
<1>10. CASE LLBind(c)
  BY <1>0, <1>10 DEF LLBind
<1> HIDE DEF Shapes
<1> QED BY <1>1, <1>2, <1>3, <1>4, <1>5, <1>6, <1>7, <1>8, <1>9, <1>10
        DEF ServiceStep, DiscoveryStep

LEMMA StepKeepsShapes == CallInv /\ Shapes /\ [Next]_vars => Shapes'
<1> SUFFICES ASSUME CallInv, Shapes, [Next]_vars PROVE Shapes'
  OBVIOUS
<1>1. UNCHANGED <<callVars, nodeVars, service, chan, closed, hand, owner>> => Shapes'
  BY DEF callVars, nodeVars, Shapes
<1>2. CASE Next
  BY <1>1, <1>2, NodeStepShapes, ServiceStepShapes, RoutinesLeaveCalls DEF Next
<1>3. CASE UNCHANGED vars
  BY <1>1, <1>3 DEF vars, discoveryVars, sockets
<1> QED BY <1>2, <1>3

----------------------------------------------------------------------------
(***************************************************************************)
(* No panic without an overlap.  A call that is about to close a channel   *)
(* has seen it open; if it is not open any more, then another call that    *)
(* was in progress has closed or replaced it.                              *)
(***************************************************************************)
MetOne(c, ops) == \E d \in met[c] : op[d] \in ops

LinkLocalPlaces == {"seek", "halt", "llclose", "add", "lookup", "llstart", "llmake", "bind"}

Safe(c) ==
    /\ pc[c] \in {"close", "tclose"} => op[c] = "stop"
    /\ pc[c] \in LinkLocalPlaces => op[c] \in LinkLocalCalls
    /\ pc[c] = "close" /\ running # "open" => MetOne(c, {"stop"})
    /\ pc[c] = "tclose" /\ trun[Head(walk[c])] # "open" => MetOne(c, {"stop"})
    /\ pc[c] = "llclose" /\ ~LLRunning(hand[c]) => MetOne(c, LinkLocalCalls)
    /\ result[c] = "panic" => \/ op[c] = "stop" /\ MetOne(c, {"stop"})
                              \/ op[c] \in LinkLocalCalls /\ MetOne(c, LinkLocalCalls)

AllSafe == \A c \in Calls : Safe(c)

\* The steps that can spoil another call's check.
LEMMA Spoilers ==
    ASSUME Shapes, NEW c \in Calls, NodeStep(c) \/ ServiceStep(c)
    PROVE  /\ pc[c] = "close" \/ running' = running \/ running' = "open"
           /\ pc[c] = "tclose" \/ \A t \in Calls : trun'[t] \in {trun[t], "open"}
           /\ pc[c] \in {"llclose", "llmake"} \/ UNCHANGED <<chan, closed>>
<1>1. CASE NodeStep(c)
  <2>1. UNCHANGED <<chan, closed>>
    BY <1>1 DEF NodeStep, discoveryVars
  <2>2. CASE pc[c] \notin {"close", "make", "tmake", "tclose"}
    BY <1>1, <2>1, <2>2, ZenonT(60)
       DEF NodeStep, LifecycleStep, Start, StartMake, Stop, StopClose, TakeTransports,
           TptStart, TptMake, TptStop, TptClose, Listen, ListenRead, ListenAppend, ListenAsk,
           nodeVars
  <2>3. CASE pc[c] = "close"
    BY <1>1, <2>1, <2>3, ZenonT(60)
       DEF NodeStep, LifecycleStep, Start, StartMake, Stop, StopClose, TakeTransports,
           TptStart, TptMake, TptStop, TptClose, Listen, ListenRead, ListenAppend, ListenAsk,
           nodeVars
  <2>4. CASE pc[c] = "make"
    BY <1>1, <2>1, <2>4, ZenonT(60)
       DEF NodeStep, LifecycleStep, Start, StartMake, Stop, StopClose, TakeTransports,
           TptStart, TptMake, TptStop, TptClose, Listen, ListenRead, ListenAppend, ListenAsk,
           nodeVars, Begin, BeginAndEnd, Arrives
  <2>5. CASE pc[c] = "tmake"
    <3>1. TptMake(c)
      BY <1>1, <2>5, ZenonT(60)
         DEF NodeStep, LifecycleStep, Start, StartMake, Stop, StopClose, TakeTransports,
             TptStart, TptStop, TptClose, Listen, ListenRead, ListenAppend, ListenAsk,
             Begin, BeginAndEnd, Arrives
    <3> QED BY <2>1, <3>1 DEF TptMake, Shapes
  <2>6. CASE pc[c] = "tclose"
    BY <1>1, <2>1, <2>6, ZenonT(60)
       DEF NodeStep, LifecycleStep, Start, StartMake, Stop, StopClose, TakeTransports,
           TptStart, TptMake, TptStop, TptClose, Listen, ListenRead, ListenAppend, ListenAsk,
           nodeVars
  <2> QED BY <2>2, <2>3, <2>4, <2>5, <2>6
<1>2. CASE ServiceStep(c)
  <2>1. UNCHANGED <<running, trun>>
    BY <1>2 DEF ServiceStep, nodeVars
  <2>2. pc[c] \in {"llclose", "llmake"} \/ UNCHANGED <<chan, closed>>
    BY <1>2, ZenonT(60) DEF ServiceStep, DiscoveryStep, StartLinkLocal, StopLinkLocal, Seek, HaltCheck,
                HaltClose, Add, Lookup, LLStart, LLMake, LLBind, discoveryVars
  <2> QED BY <2>1, <2>2, ZenonT(60)
<1> QED BY <1>1, <1>2

\* What a call has met, it has met for good, and with the same operation.
LEMMA MetForGood ==
    ASSUME CallInv, Shapes, NEW c \in Calls, NodeStep(c) \/ ServiceStep(c),
           NEW d \in Calls, pc[d] # "idle", NEW ops, MetOne(d, ops)
    PROVE  MetOne(d, ops)'
<1>1. CallStep
  BY NodeStepCalls, ServiceStepCalls DEF NodeStep, ServiceStep
<1>2. met[d] \subseteq met'[d]
  BY <1>1 DEF CallStep, Begin, BeginAndEnd, Goto, End, Arrives, CallInv, Types, callVars
<1>3. ASSUME NEW x \in met[d] PROVE op'[x] = op[x]
  <2>1. x \in Calls /\ pc[x] # "idle"
    BY ZenonT(60) DEF CallInv, Types, Met
  <2> QED BY <1>1, <2>1 DEF CallStep, Begin, BeginAndEnd, Goto, End, Arrives, CallInv, Types, callVars
<1> QED BY <1>2, <1>3 DEF MetOne

LEMMA OthersSafe ==
    ASSUME CallInv, Shapes, AllSafe, NEW c \in Calls, NodeStep(c) \/ ServiceStep(c),
           NEW d \in Calls, d # c
    PROVE  Safe(d)'
<1>1. Untouched(d)
  BY OthersUntouched
<1>2. \A ops : pc[d] # "idle" /\ MetOne(d, ops) => MetOne(d, ops)'
  BY MetForGood, ZenonT(60)
<1>3. ASSUME d \in Active, pc[c] \in Places, NEW ops, op[c] \in ops PROVE MetOne(d, ops)
  BY <1>3 DEF CallInv, Met, Active, MetOne, Places
<1>4. Safe(c) /\ Safe(d)
  BY DEF AllSafe
<1>5. pc[d] = "tclose" => Head(walk[d]) \in Calls
  BY DEF Shapes
<1>6. pc[d] = "close" /\ running' # "open" => MetOne(d, {"stop"})
  BY <1>3, <1>4, Spoilers, ZenonT(60) DEF Safe, Active, Places
<1>7. pc[d] = "tclose" /\ trun'[Head(walk[d])] # "open" => MetOne(d, {"stop"})
  BY <1>3, <1>4, <1>5, Spoilers DEF Safe, Active, Places
<1>8. pc[d] = "llclose" /\ ~LLRunning(hand[d])' => MetOne(d, LinkLocalCalls)
  <2>1. CASE UNCHANGED <<chan, closed>>
    BY <1>1, <1>4, <2>1, ZenonT(60) DEF Safe, LLRunning, Untouched
  <2>2. CASE pc[c] \in {"llclose", "llmake"}
    BY <1>3, <1>4, <2>2, ZenonT(60) DEF Safe, Active, Places, LinkLocalPlaces
  <2> QED BY <2>1, <2>2, Spoilers, ZenonT(60)
<1>9. result[d] = "panic" => pc[d] # "idle"
  BY DEF CallInv, Met
<1> QED BY <1>1, <1>2, <1>4, <1>6, <1>7, <1>8, <1>9 DEF Safe, Untouched

\* A call that goes on keeps what it has met.
LEMMA OwnMet ==
    ASSUME CallInv, NEW c \in Calls, UNCHANGED <<op, met>>, NEW ops
    PROVE  MetOne(c, ops)' <=> MetOne(c, ops)
BY DEF MetOne

LEMMA NodeStepSafe ==
    ASSUME CallInv, Shapes, AllSafe, NEW c \in Calls, NodeStep(c) PROVE Safe(c)'
<1> USE DEF CallInv, Types, Shapes, Safe, LinkLocalPlaces, Running, Goto, End
<1>0. Safe(c)
  BY ZenonT(60) DEF AllSafe
<1>1. CASE Start(c)
  BY <1>0, <1>1 DEF Start, Begin, BeginAndEnd, Arrives, Met
<1>2. CASE StartMake(c)
  BY <1>0, <1>2, OwnMet, ZenonT(60) DEF StartMake
<1>3. CASE Stop(c)
  BY <1>0, <1>3, ZenonT(60) DEF Stop, Begin, BeginAndEnd, Arrives, Met, nodeVars
<1>4. CASE StopClose(c)
  BY <1>0, <1>4, OwnMet, ZenonT(60) DEF StopClose
<1>5. CASE TakeTransports(c)
  BY <1>0, <1>5, OwnMet DEF TakeTransports, Onward
<1>6. CASE TptStart(c)
  BY <1>0, <1>6, OwnMet, ZenonT(60) DEF TptStart, Onward
<1>7. CASE TptMake(c)
  BY <1>0, <1>7, OwnMet DEF TptMake, Onward
<1>8. CASE TptStop(c)
  BY <1>0, <1>8, OwnMet, ZenonT(60) DEF TptStop, Onward
<1>9. CASE TptClose(c)
  BY <1>0, <1>9, OwnMet DEF TptClose, Onward
<1>10. ASSUME NEW a \in Addrs, Listen(c, a) PROVE Safe(c)'
  BY <1>0, <1>10 DEF Listen, Begin, BeginAndEnd, Arrives, Met
<1>11. CASE ListenRead(c)
  BY <1>0, <1>11, OwnMet, ZenonT(60) DEF ListenRead
<1>12. CASE ListenAppend(c)
  BY <1>0, <1>12, OwnMet, ZenonT(60) DEF ListenAppend
<1>13. CASE ListenAsk(c)
  BY <1>0, <1>13, OwnMet DEF ListenAsk, Onward
<1> HIDE DEF Safe
<1> QED BY <1>1, <1>2, <1>3, <1>4, <1>5, <1>6, <1>7, <1>8, <1>9, <1>10, <1>11, <1>12, <1>13, ZenonT(60)
        DEF NodeStep, LifecycleStep

LEMMA ServiceStepSafe ==
    ASSUME CallInv, Shapes, AllSafe, NEW c \in Calls, ServiceStep(c) PROVE Safe(c)'
<1> USE DEF CallInv, Types, Shapes, Safe, LinkLocalPlaces, LinkLocalCalls, Goto, End
<1>0. Safe(c)
  BY ZenonT(60) DEF AllSafe
<1>1. CASE StartLinkLocal(c)
  BY <1>0, <1>1, ZenonT(60) DEF StartLinkLocal, Begin, Arrives, Met
<1>2. CASE StopLinkLocal(c)
  BY <1>0, <1>2, ZenonT(60) DEF StopLinkLocal, Begin, Arrives, Met
<1>3. CASE Seek(c)
  BY <1>0, <1>3, OwnMet, ZenonT(60) DEF Seek
<1>4. CASE HaltCheck(c)
  <2>1. UNCHANGED <<chan, closed, hand>>
    BY <1>4, ZenonT(60) DEF HaltCheck, discoveryVars
  <2> QED BY <1>0, <1>4, <2>1, OwnMet DEF HaltCheck, LLRunning
<1>5. CASE HaltClose(c)
  BY <1>0, <1>5, OwnMet, ZenonT(60) DEF HaltClose
<1>6. CASE Add(c)
  BY <1>0, <1>6, OwnMet, ZenonT(60) DEF Add
<1>7. CASE Lookup(c)
  BY <1>0, <1>7, OwnMet, ZenonT(60) DEF Lookup
<1>8. CASE LLStart(c)
  BY <1>0, <1>8, OwnMet, ZenonT(60) DEF LLStart
<1>9. CASE LLMake(c)
  BY <1>0, <1>9, OwnMet, ZenonT(60) DEF LLMake
<1>10. CASE LLBind(c)
  BY <1>0, <1>10, OwnMet DEF LLBind
<1> HIDE DEF Safe
<1> QED BY <1>1, <1>2, <1>3, <1>4, <1>5, <1>6, <1>7, <1>8, <1>9, <1>10, ZenonT(60)
        DEF ServiceStep, DiscoveryStep

LEMMA StepKeepsSafe == CallInv /\ Shapes /\ AllSafe /\ [Next]_vars => AllSafe'
<1> SUFFICES ASSUME CallInv, Shapes, AllSafe, [Next]_vars, NEW d \in Calls PROVE Safe(d)'
  BY DEF AllSafe
<1>1. UNCHANGED <<callVars, nodeVars, service, chan, closed, hand, owner>> => Safe(d)'
  BY ZenonT(60) DEF callVars, nodeVars, AllSafe, Safe, MetOne, LLRunning
<1>2. CASE UNCHANGED vars
  BY <1>1, <1>2 DEF vars, discoveryVars, sockets
<1>3. ASSUME NEW c \in Calls, NodeStep(c) \/ ServiceStep(c) PROVE Safe(d)'
  BY <1>3, OthersSafe, NodeStepSafe, ServiceStepSafe
<1> QED BY <1>1, <1>2, <1>3, RoutinesLeaveCalls DEF Next

LEMMA InitSafe == Init => CallInv /\ Shapes /\ AllSafe
BY DEF Init, ApiInit, LifecycleInit, DiscoveryInit, CallInv, Types, Met, Shapes, States, AllSafe,
       Safe, LinkLocalPlaces, Operations, Results, Places, Active

\* close of a closed channel panics (node.go, transport.go, linklocal.go), and
\* none of these checks is under a lock: however many requests there are, a call
\* panics only if another one that closes the same channel overlapped it.
THEOREM PanicNeedsOverlap == Spec => []NoLonePanic
<1>1. CallInv /\ Shapes /\ AllSafe => NoLonePanic
  <2> SUFFICES ASSUME AllSafe, NEW c \in Calls, result[c] = "panic"
               PROVE  /\ op[c] \in {"stop"} \cup LinkLocalCalls
                      /\ \E d \in met[c] : \/ {op[c], op[d]} = {"stop"}
                                            \/ {op[c], op[d]} \subseteq LinkLocalCalls
    BY DEF NoLonePanic
  <2>1. CASE op[c] = "stop" /\ MetOne(c, {"stop"})
    BY <2>1 DEF MetOne
  <2>2. CASE op[c] \in LinkLocalCalls /\ MetOne(c, LinkLocalCalls)
    BY <2>2 DEF MetOne
  <2> QED BY <2>1, <2>2 DEF AllSafe, Safe
<1> QED BY <1>1, InitSafe, StepKeepsCalls, StepKeepsShapes, StepKeepsSafe, PTL DEF Spec

----------------------------------------------------------------------------
(***************************************************************************)
(* Only the registered LinkLocal runs.  While no two StartLinkLocal have   *)
(* overlapped, the one in progress has in hand what is registered, and     *)
(* nothing runs between its Add and its LinkLocal.Start.                   *)
(***************************************************************************)
Alone == ~Overlapped({"llstart"}, {"llstart"})

AddPlaces == {"add", "lookup", "llstart", "llmake", "bind"}

Registers(c) ==
    /\ pc[c] \in AddPlaces => op[c] = "llstart"
    /\ Alone /\ op[c] = "llstart" =>
         /\ pc[c] \in {"halt", "llclose"} => hand[c] = service
         /\ pc[c] \in {"add", "lookup", "llstart", "llmake"} => \A l \in Calls : ~LLRunning(l)
         /\ pc[c] = "lookup" => service = c
         /\ pc[c] \in {"llstart", "llmake", "bind"} => service = c /\ hand[c] = c

Reach == OnlyRegisteredRuns /\ \A c \in Calls : Registers(c)

LEMMA AloneBefore ==
    ASSUME CallInv, Shapes, NEW c \in Calls, NodeStep(c) \/ ServiceStep(c), Alone'
    PROVE  Alone
<1> SUFFICES ASSUME NEW x \in Calls, op[x] = "llstart", MetOne(x, {"llstart"}) PROVE FALSE
  BY DEF Alone, Overlapped, MetOne
<1>1. pc[x] # "idle"
  BY DEF CallInv, Met
<1>2. MetOne(x, {"llstart"})'
  BY <1>1, MetForGood
<1>3. CallStep
  BY NodeStepCalls, ServiceStepCalls DEF NodeStep, ServiceStep
<1>4. op'[x] = "llstart"
  BY <1>1, <1>3, ZenonT(60) DEF CallStep, Begin, BeginAndEnd, Goto, End, Arrives, CallInv, Types, callVars
<1> QED BY <1>2, <1>4 DEF Alone, Overlapped, MetOne

LEMMA OneStarts ==
    ASSUME CallInv, Alone, NEW c \in Calls, NEW d \in Calls, c # d,
           pc[c] \in Places, pc[d] \in Places, op[c] = "llstart", op[d] = "llstart"
    PROVE  FALSE
BY DEF CallInv, Met, Active, Alone, Overlapped, Places

LEMMA NodeStepPlaces ==
    ASSUME CallInv, NEW c \in Calls, NodeStep(c) PROVE pc'[c] \notin LinkLocalPlaces
BY ZenonT(60) DEF NodeStep, LifecycleStep, Start, StartMake, Stop, StopClose, TakeTransports, TptStart,
       TptMake, TptStop, TptClose, Listen, ListenRead, ListenAppend, ListenAsk, Onward, Begin,
       BeginAndEnd, Goto, End, CallInv, Types, LinkLocalPlaces

\* A step that leaves the registry alone, and the calls that others make.
LEMMA OthersRegister ==
    ASSUME CallInv, Shapes, Reach, NEW c \in Calls, NodeStep(c) \/ ServiceStep(c),
           NEW d \in Calls, d # c
    PROVE  Registers(d)'
<1> DEFINE doomed == op[d] = "llstart" /\ pc[d] \in LinkLocalPlaces /\ pc[c] \in AddPlaces
<1>1. Untouched(d)
  BY OthersUntouched
<1>2. Registers(c) /\ Registers(d)
  BY DEF Reach
<1>3. Alone' => Alone
  BY AloneBefore
<1>4. Alone => ~doomed
  BY <1>2, OneStarts DEF Registers, LinkLocalPlaces, AddPlaces, Places
<1>5. service' = service \/ pc[c] \in AddPlaces
  BY ZenonT(60) DEF NodeStep, ServiceStep, DiscoveryStep, StartLinkLocal, StopLinkLocal, Seek, HaltCheck,
         HaltClose, Add, Lookup, LLStart, LLMake, LLBind, discoveryVars, AddPlaces
<1>6. (chan' = chan /\ closed \subseteq closed') \/ pc[c] \in AddPlaces
  BY ZenonT(60) DEF NodeStep, ServiceStep, DiscoveryStep, StartLinkLocal, StopLinkLocal, Seek, HaltCheck,
         HaltClose, Add, Lookup, LLStart, LLMake, LLBind, discoveryVars, AddPlaces
<1>7. pc[c] \notin AddPlaces => \A l \in Calls : LLRunning(l)' => LLRunning(l)
  BY <1>6 DEF LLRunning
<1> QED BY <1>1, <1>2, <1>3, <1>4, <1>5, <1>7, ZenonT(60)
        DEF Registers, Untouched, LinkLocalPlaces, AddPlaces

LEMMA NodeStepReach ==
    ASSUME CallInv, Shapes, Reach, NEW c \in Calls, NodeStep(c) PROVE Reach'
<1>1. Registers(c)'
  BY NodeStepPlaces DEF Registers, LinkLocalPlaces, AddPlaces
<1>2. UNCHANGED <<service, chan, closed>>
  BY DEF NodeStep, discoveryVars
<1>3. OnlyRegisteredRuns'
  BY <1>2, AloneBefore, ZenonT(60) DEF Reach, OnlyRegisteredRuns, LLRunning, Alone
<1> QED BY <1>1, <1>3, OthersRegister, ZenonT(60) DEF Reach

LEMMA ServiceStepReach ==
    ASSUME CallInv, Shapes, Reach, NEW c \in Calls, ServiceStep(c)
    PROVE  Registers(c)' /\ OnlyRegisteredRuns'
<1> USE DEF CallInv, Types, Shapes, Registers, OnlyRegisteredRuns, Goto, End, AddPlaces
<1>0. Registers(c) /\ OnlyRegisteredRuns /\ (Alone' => Alone)
  BY AloneBefore DEF Reach
<1>a. NoCall \notin Calls
  BY DEF NoCall, Calls
<1>1. CASE StartLinkLocal(c)
  BY <1>0, <1>1, ZenonT(60) DEF StartLinkLocal, Begin, LLRunning, discoveryVars, Alone
<1>2. CASE StopLinkLocal(c)
  BY <1>0, <1>2, ZenonT(60) DEF StopLinkLocal, Begin, LLRunning, discoveryVars, Alone
<1>3. CASE Seek(c)
  BY <1>0, <1>3, <1>a DEF Seek, LLRunning, Alone
<1>4. CASE HaltCheck(c)
  BY <1>0, <1>4, ZenonT(60) DEF HaltCheck, LLRunning, discoveryVars, Alone
<1>5. CASE HaltClose(c)
  BY <1>0, <1>5, ZenonT(60) DEF HaltClose, LLRunning, Alone
<1>6. CASE Add(c)
  BY <1>0, <1>6, ZenonT(60) DEF Add, LLRunning, Alone
<1>7. CASE Lookup(c)
  BY <1>0, <1>7, ZenonT(60) DEF Lookup, LLRunning, Alone
<1>8. CASE LLStart(c)
  BY <1>0, <1>8, ZenonT(60) DEF LLStart, LLRunning, discoveryVars, Alone
<1>9. CASE LLMake(c)
  BY <1>0, <1>9, ZenonT(60) DEF LLMake, LLRunning, Alone
<1>10. CASE LLBind(c)
  BY <1>0, <1>10 DEF LLBind, LLRunning, Alone
<1> HIDE DEF Registers, OnlyRegisteredRuns
<1> QED BY <1>1, <1>2, <1>3, <1>4, <1>5, <1>6, <1>7, <1>8, <1>9, <1>10, ZenonT(60)
        DEF ServiceStep, DiscoveryStep

LEMMA StepKeepsReach == CallInv /\ Shapes /\ Reach /\ [Next]_vars => Reach'
<1> SUFFICES ASSUME CallInv, Shapes, Reach, [Next]_vars PROVE Reach'
  OBVIOUS
<1>1. UNCHANGED <<callVars, nodeVars, service, chan, closed, hand, owner>> => Reach'
  BY ZenonT(60) DEF callVars, Reach, OnlyRegisteredRuns, Registers, LLRunning, Alone, Overlapped
<1>2. CASE UNCHANGED vars
  BY <1>1, <1>2 DEF vars, discoveryVars, sockets
<1>3. ASSUME NEW c \in Calls, ServiceStep(c) PROVE Reach'
  BY <1>3, OthersRegister, ServiceStepReach DEF Reach
<1> QED BY <1>1, <1>2, <1>3, NodeStepReach, RoutinesLeaveCalls DEF Next

\* ServiceManager.Add stops the LinkLocal it replaces (service.go): for any
\* number of requests, one that runs is the one registered, and so within reach
\* of StopLinkLocal, unless two StartLinkLocal overlapped.
THEOREM RunningIsRegistered == Spec => []OnlyRegisteredRuns
<1>1. Init => Reach
  BY DEF Init, ApiInit, DiscoveryInit, Reach, OnlyRegisteredRuns, Registers, LLRunning, AddPlaces
<1>2. Reach => OnlyRegisteredRuns
  BY DEF Reach
<1> QED BY <1>1, <1>2, InitSafe, StepKeepsCalls, StepKeepsShapes, StepKeepsReach, PTL DEF Spec

----------------------------------------------------------------------------
(***************************************************************************)
(* A call alone.  A Start or Stop that has met no other has set the        *)
(* channel of the node, and the transports it still has to walk over are   *)
(* the only ones that need not agree.                                      *)
(***************************************************************************)
Agrees(t) == trun[t] = "open" <=> Running

Lone(c) ==
    /\ pc[c] = "make" => op[c] = "start"
    /\ pc[c] = "range" => op[c] \in {"start", "stop"}
    /\ pc[c] = "tmake" => op[c] # "stop"
    /\ pc[c] \in {"read", "append", "ask"} => op[c] = "listen"
    /\ met[c] = {} /\ op[c] \in {"start", "stop"} =>
         /\ pc[c] \in {"range", "walk", "tmake", "tclose"} => (Running <=> op[c] = "start")
         /\ pc[c] \in {"walk", "tmake", "tclose"} =>
              \A t \in Range(transports) : t \in Range(walk[c]) \/ Agrees(t)

AllLone == \A c \in Calls : Lone(c)

\* What LoneCallAgrees says of one call and one step.
LeavesAgreement(c) ==
    (pc'[c] = "done" /\ pc[c] # "done" /\ op'[c] \in {"start", "stop"}
       /\ result'[c] = "ok" /\ met'[c] = {})
    => Agree'

LEMMA RangeOfTail ==
    ASSUME NEW s \in Seq(Calls), s # <<>>
    PROVE  /\ \A t \in Range(s) : t = Head(s) \/ t \in Range(Tail(s))
           /\ Head(s) \in Calls /\ Tail(s) \in Seq(Calls)
<1>1. ASSUME NEW i \in 1..Len(s), i # 1 PROVE i - 1 \in 1..Len(Tail(s)) /\ s[i] = Tail(s)[i - 1]
  BY <1>1
<1>2. Head(s) \in Calls /\ Tail(s) \in Seq(Calls)
  OBVIOUS
<1>3. ASSUME NEW t \in Range(s) PROVE t = Head(s) \/ t \in Range(Tail(s))
  <2>1. PICK i \in 1..Len(s) : t = s[i]
    BY DEF Range
  <2>2. CASE i = 1
    BY <2>1, <2>2
  <2>3. CASE i # 1
    <3>1. i - 1 \in 1..Len(Tail(s)) /\ t = Tail(s)[i - 1]
      BY <1>1, <2>1, <2>3
    <3>2. DOMAIN Tail(s) = 1..Len(Tail(s))
      BY <1>2
    <3> QED BY <3>1, <3>2, ZenonT(60) DEF Range
  <2> QED BY <2>2, <2>3
<1> QED BY <1>2, <1>3

LEMMA RangeInCalls ==
    /\ \A s \in Seq(Calls) : Range(s) \subseteq Calls
    /\ Range(<<>>) = {}
BY DEF Range

LEMMA OthersLone ==
    ASSUME CallInv, Shapes, AllSafe, AllLone, NEW c \in Calls, NodeStep(c) \/ ServiceStep(c),
           NEW d \in Calls, d # c
    PROVE  Lone(d)' /\ LeavesAgreement(d)
<1>1. Untouched(d) /\ Lone(d)
  BY OthersUntouched DEF AllLone
<1>2. LeavesAgreement(d)
  BY <1>1 DEF LeavesAgreement, Untouched
<1>3. met'[d] = {} => met[d] = {}
  BY <1>1, ZenonT(60) DEF Untouched
<1>4. d \in Active /\ met[d] = {} => c \notin Active
  BY DEF CallInv, Met
<1>5. c \notin Active => UNCHANGED <<running, transports, trun>>
  BY ZenonT(60) DEF NodeStep, ServiceStep, LifecycleStep, Start, StartMake, Stop, StopClose, TakeTransports,
         TptStart, TptMake, TptStop, TptClose, Listen, ListenRead, ListenAppend, ListenAsk,
         nodeVars, Active
<1>6. pc[d] \in {"range", "walk", "tmake", "tclose"} => d \in Active
  BY ZenonT(60) DEF Active
<1> QED BY <1>1, <1>2, <1>3, <1>4, <1>5, <1>6 DEF Lone, Untouched, Agrees, Running

LEMMA ServiceStepLone ==
    ASSUME CallInv, Shapes, AllSafe, AllLone, NEW c \in Calls, ServiceStep(c)
    PROVE  Lone(c)' /\ LeavesAgreement(c)
<1>1. op'[c] \in LinkLocalCalls
  BY ZenonT(60) DEF ServiceStep, DiscoveryStep, StartLinkLocal, StopLinkLocal, Seek, HaltCheck, HaltClose,
         Add, Lookup, LLStart, LLMake, LLBind, Begin, Goto, End, AllSafe, Safe, LinkLocalPlaces,
         LinkLocalCalls, CallInv, Types
<1>2. pc'[c] \in LinkLocalPlaces \cup {"done"}
  BY ZenonT(60) DEF ServiceStep, DiscoveryStep, StartLinkLocal, StopLinkLocal, Seek, HaltCheck, HaltClose,
         Add, Lookup, LLStart, LLMake, LLBind, Begin, Goto, End, LinkLocalPlaces, CallInv, Types
<1>3. op'[c] # "start" /\ op'[c] # "stop"
  BY <1>1 DEF LinkLocalCalls
<1>4. pc'[c] \notin {"make", "range", "tmake", "read", "append", "ask"}
  BY <1>2, ZenonT(60) DEF LinkLocalPlaces
<1> QED BY <1>3, <1>4 DEF Lone, LeavesAgreement

LEMMA NodeStepLone ==
    ASSUME CallInv, Shapes, AllSafe, AllLone, NEW c \in Calls, NodeStep(c)
    PROVE  Lone(c)' /\ LeavesAgreement(c)
<1> USE DEF CallInv, Types, Shapes, States, Lone, LeavesAgreement, Agree, Agrees, Running
<1>0. Lone(c) /\ Safe(c)
  BY ZenonT(60) DEF AllLone, AllSafe
<1>a. Range(transports) \subseteq Calls
  BY RangeInCalls
<1>b. pc[c] \in {"walk", "tmake", "tclose"} =>
        /\ Head(walk[c]) \in Calls /\ Tail(walk[c]) \in Seq(Calls)
        /\ \A t \in Range(walk[c]) : t = Head(walk[c]) \/ t \in Range(Tail(walk[c]))
        /\ Tail(walk[c]) = <<>> => \A t \in Range(walk[c]) : t = Head(walk[c])
  BY RangeOfTail, RangeInCalls, ZenonT(60)
<1>1. CASE Start(c)
  BY <1>1 DEF Start, Begin, BeginAndEnd
<1>2. CASE StartMake(c)
  BY <1>0, <1>2, ZenonT(60) DEF StartMake, Goto
<1>3. CASE Stop(c)
  BY <1>3 DEF Stop, Begin, BeginAndEnd
<1>4. CASE StopClose(c)
  BY <1>0, <1>4 DEF StopClose, Goto, End, Safe
<1>5. CASE TakeTransports(c)
  BY <1>0, <1>5, RangeInCalls DEF TakeTransports, Onward, Goto, End
<1>6. CASE TptStart(c)
  <2>1. CASE trun[Head(walk[c])] = "open"
    BY <1>0, <1>6, <1>a, <1>b, <2>1, ZenonT(60) DEF TptStart, Onward, Goto, End
  <2>2. CASE trun[Head(walk[c])] # "open"
    BY <1>0, <1>6, <2>2 DEF TptStart, Goto
  <2> QED BY <2>1, <2>2, ZenonT(60)
<1>7. CASE TptMake(c)
  <2>1. op[c] # "stop" /\ running' = running /\ transports' = transports /\ UNCHANGED <<op, met>>
    BY <1>0, <1>7, ZenonT(60) DEF TptMake, Onward, Goto, End
  <2>2. ASSUME NEW t \in Calls PROVE trun'[t] = IF t = Head(walk[c]) THEN "open" ELSE trun[t]
    BY <1>7, <1>b, ZenonT(60) DEF TptMake
  <2>3. CASE Tail(walk[c]) = <<>>
    BY <1>0, <1>7, <1>a, <1>b, <2>1, <2>2, <2>3 DEF TptMake, Onward, End
  <2>4. CASE Tail(walk[c]) # <<>>
    BY <1>0, <1>7, <1>a, <1>b, <2>1, <2>2, <2>4 DEF TptMake, Onward, Goto
  <2> QED BY <2>3, <2>4, ZenonT(60)
<1>8. CASE TptStop(c)
  <2>1. CASE trun[Head(walk[c])] # "open"
    BY <1>0, <1>8, <1>a, <1>b, <2>1, ZenonT(60) DEF TptStop, Onward, Goto, End
  <2>2. CASE trun[Head(walk[c])] = "open"
    BY <1>0, <1>8, <2>2 DEF TptStop, Goto
  <2> QED BY <2>1, <2>2, ZenonT(60)
<1>9. CASE TptClose(c)
  <2>1. op[c] = "stop" /\ running' = running /\ transports' = transports /\ UNCHANGED <<op, met>>
    BY <1>0, <1>9, ZenonT(60) DEF TptClose, Onward, Goto, End, Safe
  <2>2. ASSUME NEW t \in Calls PROVE trun'[t] = IF t = Head(walk[c]) THEN "closed" ELSE trun[t]
    BY <1>9, <1>b, ZenonT(60) DEF TptClose
  <2>3. CASE trun[Head(walk[c])] # "open"
    BY <1>9, <2>1, <2>3 DEF TptClose, End
  <2>4. CASE trun[Head(walk[c])] = "open" /\ Tail(walk[c]) = <<>>
    BY <1>0, <1>9, <1>a, <1>b, <2>1, <2>2, <2>4 DEF TptClose, Onward, End
  <2>5. CASE trun[Head(walk[c])] = "open" /\ Tail(walk[c]) # <<>>
    BY <1>0, <1>9, <1>a, <1>b, <2>1, <2>2, <2>5, ZenonT(60) DEF TptClose, Onward, Goto
  <2> QED BY <2>3, <2>4, <2>5, ZenonT(60)
<1>10. ASSUME NEW a \in Addrs, Listen(c, a) PROVE Lone(c)' /\ LeavesAgreement(c)
  BY <1>10 DEF Listen, Begin, BeginAndEnd
<1>11. CASE ListenRead(c)
  BY <1>0, <1>11, ZenonT(60) DEF ListenRead, Goto
<1>12. CASE ListenAppend(c)
  BY <1>0, <1>12, ZenonT(60) DEF ListenAppend, Goto
<1>13. CASE ListenAsk(c)
  BY <1>0, <1>13 DEF ListenAsk, Onward, Goto, End
<1> HIDE DEF Lone, LeavesAgreement
<1> QED BY <1>1, <1>2, <1>3, <1>4, <1>5, <1>6, <1>7, <1>8, <1>9, <1>10, <1>11, <1>12, <1>13, ZenonT(60)
        DEF NodeStep, LifecycleStep

LEMMA StepKeepsLone ==
    ASSUME CallInv, Shapes, AllSafe, AllLone, [Next]_vars
    PROVE  AllLone' /\ \A d \in Calls : LeavesAgreement(d)
<1> SUFFICES ASSUME NEW d \in Calls PROVE Lone(d)' /\ LeavesAgreement(d)
  BY ZenonT(60) DEF AllLone
<1>1. UNCHANGED <<callVars, nodeVars, service, chan, closed, hand, owner>>
        => Lone(d)' /\ LeavesAgreement(d)
  BY DEF callVars, nodeVars, AllLone, Lone, LeavesAgreement, Agrees, Running
<1>2. CASE UNCHANGED vars
  BY <1>1, <1>2 DEF vars, discoveryVars, sockets
<1>3. ASSUME NEW c \in Calls, NodeStep(c) \/ ServiceStep(c) PROVE Lone(d)' /\ LeavesAgreement(d)
  BY <1>3, OthersLone, NodeStepLone, ServiceStepLone
<1> QED BY <1>1, <1>2, <1>3, RoutinesLeaveCalls DEF Next

\* Node.Start and Node.Stop walk over all transports (node.go), and their
\* errors are not looked at: for any number of requests, whatever overlapped
\* before, one that no other overlaps leaves every transport as the node is.
THEOREM LoneCallsAgree == Spec => LoneCallAgrees
<1>1. Init => AllLone
  BY DEF Init, ApiInit, AllLone, Lone
<1>2. CallInv /\ Shapes /\ AllSafe /\ AllLone /\ [Next]_vars
        => /\ AllLone'
           /\ [\A c \in Calls :
                  (pc'[c] = "done" /\ pc[c] # "done" /\ op'[c] \in {"start", "stop"}
                     /\ result'[c] = "ok" /\ met'[c] = {})
                  => Agree']_<<callVars, nodeVars>>
  BY StepKeepsLone DEF LeavesAgreement
<1> QED BY <1>1, <1>2, InitSafe, StepKeepsCalls, StepKeepsShapes, StepKeepsSafe, PTL
        DEF Spec, LoneCallAgrees
=============================================================================
