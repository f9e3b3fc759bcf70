---------------------------- MODULE QuietProofs ----------------------------
(***************************************************************************)
(* Proofs about what a node under its API comes to rest as, for any number *)
(* of requests in any interleaving: that a service which was started       *)
(* serves, that one address is announced, and that node and transports     *)
(* agree when all requests have returned.                                  *)
(***************************************************************************)
EXTENDS ControlProofs

\* The provers that a leaf is tried with, in turn, unless it names its own.
USE SMT, Zenon, SMTT(30), ZenonT(60), Z3T(30)

\* A call has a result when it has returned, and not before.
Pending == \A c \in Calls : pc[c] # "done" => result[c] = "none"

LEMMA StepKeepsPending == CallInv /\ Pending /\ [Next]_vars => Pending'
<1> SUFFICES ASSUME CallInv, Pending, [Next]_vars PROVE Pending'
  OBVIOUS
<1>1. CallStep
  BY NodeStepCalls, ServiceStepCalls, RoutinesLeaveCalls, ZenonT(60)
     DEF Next, NodeStep, ServiceStep, CallStep, vars
<1>2. ASSUME NEW c \in Calls, NEW o \in Operations, NEW at \in Places, Begin(c, o, at)
      PROVE  Pending'
  BY <1>2 DEF Begin, Arrives, Pending, CallInv, Types
<1>3. ASSUME NEW c \in Calls, NEW o \in Operations, NEW res \in Results,
             BeginAndEnd(c, o, res)
      PROVE  Pending'
  BY <1>3 DEF BeginAndEnd, Arrives, Pending, CallInv, Types
<1>4. ASSUME NEW c \in Active, NEW at \in Places, Goto(c, at)
      PROVE  Pending'
  BY <1>4 DEF Goto, Active, Pending, CallInv, Types
<1>5. ASSUME NEW c \in Active, NEW res \in Results, End(c, res)
      PROVE  Pending'
  BY <1>5 DEF End, Active, Pending, CallInv, Types
<1>6. CASE UNCHANGED callVars
  BY <1>6, ZenonT(60) DEF callVars, Pending
<1> QED BY <1>1, <1>2, <1>3, <1>4, <1>5, <1>6, ZenonT(60) DEF CallStep

----------------------------------------------------------------------------
(***************************************************************************)
(* A LinkLocal that runs has its socket.  While no two StartLinkLocal have *)
(* overlapped, a LinkLocal has the channel, the socket and the routines of *)
(* the call that made it, and of no other.                                 *)
(***************************************************************************)
SocketTypes ==
    /\ owner \in [Calls -> Calls \cup {NoCall}]
    /\ sock \in [Calls -> {"none", "open", "closed"}]
    /\ DOMAIN announcer = Calls

Serves(l) ==
    /\ pc[l] = "bind" => chan[l] = l
    /\ chan[l] # NoCall => chan[l] = l /\ pc[l] \in {"bind", "done"}
    /\ announcer[l].at # "gone" => owner[l] = l /\ chan[l] = l
    /\ announcer[l].at = "select" => announcer[l].ch = l
    /\ LLRunning(l) /\ result[l] = "ok"
         => owner[l] = l /\ sock[l] = "open" /\ announcer[l].at # "gone"

ServeInv == SocketTypes /\ (Alone => \A l \in Calls : Serves(l))

LEMMA StepKeepsSocketTypes == Shapes /\ SocketTypes /\ [Next]_vars => SocketTypes'
<1> SUFFICES ASSUME Shapes, SocketTypes, [Next]_vars PROVE SocketTypes'
  OBVIOUS
<1>1. ASSUME UNCHANGED sockets PROVE SocketTypes'
  BY <1>1, ZenonT(60) DEF sockets, SocketTypes
<1>2. ASSUME NEW c \in Calls, NodeStep(c) PROVE UNCHANGED sockets
  BY <1>2, ZenonT(60) DEF NodeStep, discoveryVars
<1>3. ASSUME NEW c \in Calls, ServiceStep(c) PROVE UNCHANGED sockets \/ LLBind(c)
  BY <1>3, ZenonT(60) DEF ServiceStep, DiscoveryStep, StartLinkLocal, StopLinkLocal, Seek,
     HaltCheck, HaltClose, Add, Lookup, LLStart, LLMake, discoveryVars
<1>4. ASSUME NEW c \in Calls, LLBind(c) PROVE SocketTypes'
  BY <1>4, ZenonT(60) DEF LLBind, Shapes, SocketTypes, sockets
<1>5. ASSUME NEW k \in Calls, Routine(k) \/ Announce(k) PROVE SocketTypes'
  BY <1>5 DEF Routine, RoutineStep, ReceiveExit, AnnounceBegin, AnnounceExit,
         Announce, Tick, SocketTypes, registry
<1> QED BY <1>1, <1>2, <1>3, <1>4, <1>5, ZenonT(60) DEF Next, vars, discoveryVars, sockets

\* What a step does to the sockets and channels of others.
LEMMA OthersServe ==
    ASSUME CallInv, Shapes, Reach, ServeInv, Alone',
           NEW c \in Calls, NodeStep(c) \/ ServiceStep(c), NEW l \in Calls, l # c
    PROVE  Serves(l)'
<1>1. Untouched(l)
  BY OthersUntouched
<1>2. Alone /\ Serves(l) /\ Registers(c)
  BY AloneBefore DEF ServeInv, Reach
<1>3. owner'[l] = owner[l] /\ sock'[l] = sock[l] /\ announcer'[l] = announcer[l]
  <2>1. CASE UNCHANGED sockets
    BY <2>1, ZenonT(60) DEF sockets
  <2>2. CASE LLBind(c)
    BY <2>2 DEF LLBind, ServeInv, SocketTypes, sockets
  <2> QED BY <2>1, <2>2, ZenonT(60) DEF NodeStep, ServiceStep, DiscoveryStep, StartLinkLocal,
          StopLinkLocal, Seek, HaltCheck, HaltClose, Add, Lookup, LLStart, LLMake, discoveryVars
<1>4. chan'[l] = chan[l]
  <2>1. CASE UNCHANGED chan
    BY <2>1
  <2>2. CASE LLMake(c)
    BY <1>2, <2>2 DEF LLMake, Shapes, Registers, AddPlaces
  <2> QED BY <2>1, <2>2, ZenonT(60) DEF NodeStep, ServiceStep, DiscoveryStep, StartLinkLocal,
          StopLinkLocal, Seek, HaltCheck, HaltClose, Add, Lookup, LLStart, LLBind, discoveryVars
<1>5. closed \subseteq closed'
  BY ZenonT(60) DEF NodeStep, ServiceStep, DiscoveryStep, StartLinkLocal,
     StopLinkLocal, Seek, HaltCheck, HaltClose, Add, Lookup, LLStart, LLMake, LLBind, discoveryVars
<1>6. LLRunning(l)' => LLRunning(l)
  BY <1>4, <1>5 DEF LLRunning
<1> QED BY <1>1, <1>2, <1>3, <1>4, <1>6, ZenonT(60) DEF Serves, Untouched

\* A call of the node leaves the LinkLocals alone, and has none.
LEMMA NodeStepServes ==
    ASSUME CallInv, Shapes, ServeInv, Pending, Alone', NEW c \in Calls, NodeStep(c)
    PROVE  Serves(c)'
<1>1. Serves(c)
  BY AloneBefore DEF ServeInv
<1>2. pc[c] \notin {"bind", "done"}
  BY ZenonT(60) DEF NodeStep, LifecycleStep, Start, StartMake, Stop, StopClose, TakeTransports, TptStart,
       TptMake, TptStop, TptClose, Listen, ListenRead, ListenAppend, ListenAsk, Begin, BeginAndEnd, Arrives
<1>3. chan[c] = NoCall /\ announcer[c].at = "gone"
  BY <1>1, <1>2 DEF Serves, NoCall, Calls
<1>4. UNCHANGED <<chan, closed, owner, sock, announcer>>
  BY ZenonT(60) DEF NodeStep, discoveryVars, sockets
<1>5. pc'[c] # "bind"
  BY NodeStepPlaces DEF LinkLocalPlaces
<1> QED BY <1>3, <1>4, <1>5 DEF Serves, LLRunning

LEMMA ServiceStepServes ==
    ASSUME CallInv, Shapes, Reach, ServeInv, Pending, Alone', NEW c \in Calls, ServiceStep(c)
    PROVE  Serves(c)'
<1>1. Serves(c) /\ Registers(c) /\ Alone
  BY AloneBefore DEF ServeInv, Reach
<1>2. CASE LLMake(c)
  <2>1. hand[c] = c /\ result[c] = "none" /\ chan[c] = NoCall /\ announcer[c].at = "gone"
    BY <1>1, <1>2 DEF LLMake, Registers, AddPlaces, Pending, Serves, NoCall, Calls
  <2>2. /\ chan'[c] = c /\ pc'[c] = "bind" /\ result'[c] = "none"
        /\ announcer' = announcer
    BY <1>2, <2>1 DEF LLMake, Goto, sockets, CallInv, Types, Shapes
  <2> QED BY <2>1, <2>2 DEF Serves
<1>3. CASE LLBind(c)
  <2>1. hand[c] = c /\ chan[c] = c
    BY <1>1, <1>3 DEF LLBind, Registers, AddPlaces, Serves
  <2>2. chan' = chan /\ pc'[c] = "done"
    BY <1>3 DEF LLBind, End, CallInv, Types
  <2>3. CASE PortTaken
    BY <1>1, <1>3, <2>1, <2>2, <2>3 DEF LLBind, End, Serves, CallInv, Types, sockets
  <2>4. CASE ~PortTaken
    <3>1. owner'[c] = c /\ sock'[c] = "open" /\ announcer'[c] = At("begin", NoCall)
      BY <1>3, <2>1, <2>4 DEF LLBind, ServeInv, SocketTypes
    <3> QED BY <2>1, <2>2, <3>1 DEF Serves, At
  <2> QED BY <2>3, <2>4
<1>4. CASE ~LLMake(c) /\ ~LLBind(c)
  <2>1. UNCHANGED <<chan, owner, sock, announcer>> /\ pc'[c] # "bind" /\ pc[c] \notin {"bind", "done"}
    BY <1>4, ZenonT(60) DEF ServiceStep, DiscoveryStep, StartLinkLocal, StopLinkLocal, Seek, HaltCheck,
       HaltClose, Add, Lookup, LLStart, Begin, Arrives, Goto, End, discoveryVars, sockets, CallInv, Types
  <2>2. chan[c] = NoCall /\ announcer[c].at = "gone"
    BY <1>1, <2>1 DEF Serves, NoCall, Calls
  <2> QED BY <2>1, <2>2 DEF Serves, LLRunning
<1> QED BY <1>2, <1>3, <1>4

LEMMA RoutineServes ==
    ASSUME ServeInv, Alone, NEW k \in Calls, Routine(k) \/ Announce(k), NEW l \in Calls
    PROVE  Serves(l)'
<1>1. UNCHANGED <<callVars, service, chan, closed, hand, owner>>
  BY RoutinesLeaveCalls, ZenonT(60)
<1>2. Serves(l) /\ Serves(k)
  BY DEF ServeInv
<1>3. CASE ReceiveExit(k)
  <2>1. announcer' = announcer /\ sock' = [sock EXCEPT ![k] = "closed"] /\ ~LLRunning(owner[k])
    BY <1>3 DEF ReceiveExit
  <2> QED BY <1>1, <1>2, <2>1 DEF Serves, LLRunning, callVars, ServeInv, SocketTypes
<1>4. CASE AnnounceBegin(k) \/ Tick(k)
  <2>1. /\ sock' = sock /\ announcer[k].at # "gone"
        /\ announcer' = [announcer EXCEPT ![k] = At("select", chan[owner[k]])]
    BY <1>4 DEF AnnounceBegin, Tick
  <2>2. chan[owner[k]] = k
    BY <1>2, <2>1 DEF Serves
  <2> QED BY <1>1, <1>2, <2>1, <2>2 DEF Serves, LLRunning, callVars, ServeInv, SocketTypes, At
<1>5. CASE AnnounceExit(k)
  <2>1. /\ sock' = sock /\ announcer[k].at = "select" /\ announcer[k].ch \in closed
        /\ announcer' = [announcer EXCEPT ![k] = Gone]
    BY <1>5 DEF AnnounceExit
  <2>2. ~LLRunning(k)
    BY <1>2, <2>1 DEF Serves, LLRunning
  <2> QED BY <1>1, <1>2, <2>1, <2>2 DEF Serves, LLRunning, callVars, ServeInv, SocketTypes, At, Gone
<1> QED BY <1>3, <1>4, <1>5 DEF Routine, RoutineStep, Announce

LEMMA StepKeepsServing ==
    CallInv /\ Shapes /\ Reach /\ Pending /\ ServeInv /\ [Next]_vars => ServeInv'
<1> SUFFICES ASSUME CallInv, Shapes, Reach, Pending, ServeInv, [Next]_vars, Alone',
                    NEW l \in Calls
             PROVE  Serves(l)'
  BY StepKeepsSocketTypes DEF ServeInv
<1>1. ASSUME NEW c \in Calls, NodeStep(c) \/ ServiceStep(c) PROVE Serves(l)'
  BY <1>1, OthersServe, NodeStepServes, ServiceStepServes
<1>2. ASSUME NEW k \in Calls, Routine(k) \/ Announce(k) PROVE Serves(l)'
  <2>1. Alone
    BY <1>2, RoutinesLeaveCalls, ZenonT(60) DEF callVars, Alone, Overlapped
  <2> QED BY <1>2, <2>1, RoutineServes
<1>3. CASE UNCHANGED vars
  BY <1>3, ZenonT(60) DEF vars, callVars, discoveryVars, sockets, ServeInv, Serves, LLRunning, Alone, Overlapped
<1> QED BY <1>1, <1>2, <1>3 DEF Next

\* LinkLocal.Start makes the channel before it binds the socket, and the
\* routines look at the channel in the field (linklocal.go): for any number of
\* requests, a LinkLocal that runs and whose Start returned no error has its
\* socket and its routines, unless two StartLinkLocal overlapped.
THEOREM StartedOnesServe == Spec => []StartedServes
<1>1. Init => ServeInv /\ Pending /\ Reach
  <2>1. Init => Reach
    BY DEF Init, ApiInit, DiscoveryInit, Reach, OnlyRegisteredRuns, Registers, LLRunning, AddPlaces
  <2> QED BY <2>1 DEF Init, ApiInit, DiscoveryInit, ServeInv, SocketTypes, Serves, Pending, Gone, At, LLRunning
<1>2. ServeInv => StartedServes
  BY DEF ServeInv, Serves, StartedServes, Alone, Gone, At
<1> QED BY <1>1, <1>2, InitSafe, StepKeepsCalls, StepKeepsShapes, StepKeepsReach,
           StepKeepsPending, StepKeepsServing, PTL DEF Spec
----------------------------------------------------------------------------
(***************************************************************************)
(* The transports the node knows.  While no two Listens have overlapped, a *)
(* Listen finds the slice as it has read it, so the slice only grows.      *)
(***************************************************************************)
Solo == ~Overlapped({"listen"}, {"listen"})

\* The Listens that have put their transport into the slice.
Appended == {c \in Calls : op[c] = "listen" /\ (pc[c] \in {"ask", "walk", "tmake"} \/ result[c] = "ok")}

Lists ==
    /\ Range(transports) = Appended
    /\ \A c \in Calls : pc[c] = "append" => walk[c] = transports

LEMMA SoloBefore ==
    ASSUME CallInv, Shapes, NEW c \in Calls, NodeStep(c) \/ ServiceStep(c),
           NEW ops1, NEW ops2, ~Overlapped(ops1, ops2)', "none" \notin ops1
    PROVE  ~Overlapped(ops1, ops2)
<1> SUFFICES ASSUME NEW x \in Calls, op[x] \in ops1, MetOne(x, ops2) PROVE FALSE
  BY DEF Overlapped, MetOne
<1>1. pc[x] # "idle"
  BY DEF CallInv, Met
<1>2. MetOne(x, ops2)'
  BY <1>1, MetForGood
<1>3. CallStep
  BY NodeStepCalls, ServiceStepCalls DEF NodeStep, ServiceStep
<1>4. op'[x] = op[x]
  BY <1>1, <1>3 DEF CallStep, Begin, BeginAndEnd, Goto, End, Arrives, CallInv, Types, callVars
<1> QED BY <1>2, <1>4 DEF Overlapped, MetOne

\* Two Listens in progress have overlapped.
LEMMA OneListens ==
    ASSUME CallInv, Solo, NEW c \in Calls, NEW d \in Calls, c # d,
           pc[c] \in Places, pc[d] \in Places, op[c] = "listen", op[d] = "listen"
    PROVE  FALSE
<1>1. c \in Active /\ d \in Active
  BY DEF Active, Places
<1>2. d \in met[c]
  BY <1>1, ZenonT(60) DEF CallInv, Met
<1> QED BY <1>2 DEF Solo, Overlapped

LEMMA RangeOfAppend ==
    ASSUME NEW s \in Seq(Calls), NEW c \in Calls
    PROVE  Range(Append(s, c)) = Range(s) \cup {c}
<1>1. DOMAIN Append(s, c) = (DOMAIN s) \cup {Len(s) + 1} /\ DOMAIN s = 1..Len(s)
  OBVIOUS
<1>2. /\ \A i \in DOMAIN s : Append(s, c)[i] = s[i]
      /\ Append(s, c)[Len(s) + 1] = c
  OBVIOUS
<1> QED BY <1>1, <1>2, ZenonT(60) DEF Range

\* What a step does to the slice, and to where its own call is.
LEMMA NodeStepListens ==
    ASSUME CallInv, Shapes, AllSafe, AllLone, Pending, NEW c \in Calls, NodeStep(c)
    PROVE  \/ ListenAppend(c)
           \/ /\ UNCHANGED transports
              /\ c \in Appended' <=> c \in Appended
              /\ pc'[c] = "append" => walk'[c] = transports
<1> USE DEF CallInv, Types, Appended
<1>0. Lone(c) /\ Safe(c) /\ (pc[c] # "done" => result[c] = "none")
  BY DEF AllLone, AllSafe, Pending
<1>1. CASE Start(c)
  BY <1>0, <1>1 DEF Start, Begin, BeginAndEnd, Arrives, nodeVars, Met
<1>2. CASE StartMake(c)
  BY <1>0, <1>2 DEF StartMake, Goto, Lone
<1>3. CASE Stop(c)
  BY <1>0, <1>3 DEF Stop, Begin, BeginAndEnd, Arrives, nodeVars, Met
<1>4. CASE StopClose(c)
  BY <1>0, <1>4 DEF StopClose, Goto, End, Safe
<1>5. CASE TakeTransports(c)
  BY <1>0, <1>5 DEF TakeTransports, Onward, Goto, End, Lone
<1>6. CASE TptStart(c)
  BY <1>0, <1>6, ZenonT(60) DEF TptStart, Onward, Goto, End
<1>7. CASE TptMake(c)
  BY <1>0, <1>7, ZenonT(60) DEF TptMake, Onward, Goto, End
<1>8. CASE TptStop(c)
  BY <1>0, <1>8, ZenonT(60) DEF TptStop, Onward, Goto, End
<1>9. CASE TptClose(c)
  BY <1>0, <1>9, ZenonT(60) DEF TptClose, Onward, Goto, End, Safe
<1>10. ASSUME NEW a \in Addrs, Listen(c, a)
       PROVE  UNCHANGED transports /\ (c \in Appended' <=> c \in Appended) /\ pc'[c] # "append"
  BY <1>0, <1>10 DEF Listen, Begin, BeginAndEnd, Arrives, Met
<1>11. CASE ListenRead(c)
  BY <1>0, <1>11 DEF ListenRead, Goto, Shapes, Lone
<1>13. CASE ListenAsk(c)
  BY <1>0, <1>13, ZenonT(60) DEF ListenAsk, Onward, Goto, End
<1> HIDE DEF Appended
<1> QED BY <1>1, <1>2, <1>3, <1>4, <1>5, <1>6, <1>7, <1>8, <1>9, <1>10, <1>11, <1>13, ZenonT(60)
        DEF NodeStep, LifecycleStep

LEMMA OthersAppended ==
    ASSUME CallInv, Shapes, NEW c \in Calls, NodeStep(c) \/ ServiceStep(c), NEW d \in Calls, d # c
    PROVE  (d \in Appended' <=> d \in Appended) /\ pc'[d] = pc[d] /\ walk'[d] = walk[d] /\ op'[d] = op[d]
BY OthersUntouched, ZenonT(60) DEF Untouched, Appended

LEMMA ServiceStepOps ==
    ASSUME CallInv, AllSafe, NEW c \in Calls, ServiceStep(c)
    PROVE  /\ op[c] \in LinkLocalCalls \cup {"none"} /\ op'[c] \in LinkLocalCalls
           /\ pc[c] \in LinkLocalPlaces \cup {"idle"}
           /\ pc'[c] \in LinkLocalPlaces \cup {"done"}
<1>1. op'[c] \in LinkLocalCalls
  BY ZenonT(60) DEF ServiceStep, DiscoveryStep, StartLinkLocal, StopLinkLocal, Seek, HaltCheck, HaltClose,
         Add, Lookup, LLStart, LLMake, LLBind, Begin, Goto, End, AllSafe, Safe, LinkLocalPlaces,
         LinkLocalCalls, CallInv, Types
<1>2. pc'[c] \in LinkLocalPlaces \cup {"done"} /\ pc[c] \in LinkLocalPlaces \cup {"idle"}
  BY ZenonT(60) DEF ServiceStep, DiscoveryStep, StartLinkLocal, StopLinkLocal, Seek, HaltCheck, HaltClose,
         Add, Lookup, LLStart, LLMake, LLBind, Begin, Goto, End, Arrives, LinkLocalPlaces, CallInv, Types
<1> QED BY <1>1, <1>2 DEF AllSafe, Safe, CallInv, Met

LEMMA StepKeepsLists ==
    ASSUME CallInv, Shapes, AllSafe, AllLone, Pending, Solo', Solo => Lists,
           NEW c \in Calls, NodeStep(c) \/ ServiceStep(c)
    PROVE  Solo /\ Lists'
<1>1. Solo /\ Lists
  BY SoloBefore DEF Solo
<1>2. CASE ListenAppend(c)
  <2>1. walk[c] = transports /\ transports' = Append(transports, c) /\ op[c] = "listen"
    BY <1>1, <1>2 DEF Lists, ListenAppend, AllLone, Lone
  <2>2. Range(transports') = Range(transports) \cup {c}
    BY <2>1, RangeOfAppend DEF Shapes
  <2>3. c \in Appended'
    BY <1>2, <2>1 DEF ListenAppend, Goto, Appended, CallInv, Types
  <2>4. Appended' = Appended \cup {c}
    BY <2>3, OthersAppended DEF Appended
  <2>5. ASSUME NEW d \in Calls, pc'[d] = "append" PROVE FALSE
    <3>1. pc'[c] = "ask"
      BY <1>2 DEF ListenAppend, Goto, CallInv, Types
    <3>2. d # c /\ pc[d] = "append"
      BY <2>5, <3>1, OthersAppended
    <3>3. op[d] = "listen"
      BY <3>2 DEF AllLone, Lone
    <3> QED BY <1>1, <1>2, <2>1, <3>2, <3>3, OneListens DEF Places, ListenAppend
  <2> QED BY <1>1, <2>2, <2>4, <2>5, ZenonT(60) DEF Lists
<1>3. CASE ~ListenAppend(c)
  <2>1. /\ UNCHANGED transports
        /\ c \in Appended' <=> c \in Appended
        /\ pc'[c] = "append" => walk'[c] = transports
    <3>1. CASE NodeStep(c)
      BY <1>3, <3>1, NodeStepListens, ZenonT(60)
    <3>2. CASE ServiceStep(c)
      <4>1. UNCHANGED transports
        BY <3>2, ZenonT(60) DEF ServiceStep, nodeVars
      <4>2. op'[c] \in LinkLocalCalls
        BY <3>2, ServiceStepOps
      <4>3. pc'[c] \in LinkLocalPlaces \cup {"done"}
        BY <3>2, ServiceStepOps
      <4>4. op[c] # "listen"
        BY <3>2, ServiceStepOps DEF LinkLocalCalls
      <4> QED BY <4>1, <4>2, <4>3, <4>4 DEF LinkLocalCalls, LinkLocalPlaces, Appended
    <3> QED BY <3>1, <3>2
  <2>2. Appended' = Appended
    BY <2>1, OthersAppended DEF Appended
  <2> QED BY <1>1, <2>1, <2>2, OthersAppended DEF Lists
<1> QED BY <1>1, <1>2, <1>3
----------------------------------------------------------------------------
(***************************************************************************)
(* One address is announced.  The first IPv6 listener stays the first when *)
(* others are appended, and what was announced is its address.             *)
(***************************************************************************)
IsFirst(i, S) == i \in S /\ \A j \in S : i <= j

PortInv ==
    /\ DOMAIN addr = Calls
    /\ Solo => /\ Listeners6 # {} => \E i \in Listeners6 : IsFirst(i, Listeners6)
               /\ announced # NoAddr => Listeners6 # {} /\ announced = ourport

LEMMA PortOfFirst ==
    ASSUME Shapes, NEW i \in Listeners6, IsFirst(i, Listeners6)
    PROVE  ourport = addr[transports[i]]
<1>1. Listeners6 \subseteq Nat
  BY DEF Listeners6, Shapes
<1>2. \A k \in Listeners6 : (\A j \in Listeners6 : k <= j) => k = i
  BY <1>1 DEF IsFirst
<1>3. (CHOOSE k \in Listeners6 : \A j \in Listeners6 : k <= j) = i
  BY <1>2 DEF IsFirst
<1> QED BY <1>3, ZenonT(60) DEF ourport

LEMMA AppendKeepsPort ==
    ASSUME Shapes, Shapes', Solo, PortInv, NEW c \in Calls,
           transports' = Append(transports, c), UNCHANGED <<addr, announced>>
    PROVE  /\ Listeners6' # {} => \E i \in Listeners6' : IsFirst(i, Listeners6')
           /\ announced' # NoAddr => Listeners6' # {} /\ announced' = ourport'
<1>1. /\ DOMAIN transports = 1..Len(transports) /\ Len(transports) \in Nat
      /\ DOMAIN transports' = 1..(Len(transports) + 1)
      /\ \A i \in DOMAIN transports : transports'[i] = transports[i]
  BY DEF Shapes
<1>2. /\ Listeners6 \subseteq Listeners6'
      /\ \A j \in Listeners6' : j \in Listeners6 \/ j = Len(transports) + 1
      /\ \A i \in Listeners6 : i \in 1..Len(transports) /\ transports'[i] = transports[i]
  BY <1>1 DEF Listeners6
<1>3. CASE Listeners6 = {}
  <2>1. \A j \in Listeners6' : j = Len(transports) + 1
    BY <1>2, <1>3
  <2>2. Listeners6' # {} => IsFirst(Len(transports) + 1, Listeners6')
    BY <1>1, <2>1 DEF IsFirst
  <2>3. announced' = NoAddr
    BY <1>3 DEF PortInv
  <2> QED BY <2>2, <2>3 DEF IsFirst
<1>4. CASE Listeners6 # {}
  <2>1. PICK i \in Listeners6 : IsFirst(i, Listeners6)
    BY <1>4 DEF PortInv
  <2>2. i \in Listeners6' /\ IsFirst(i, Listeners6')
    BY <1>1, <1>2, <2>1 DEF IsFirst
  <2>3. ourport = addr[transports[i]]
    BY <2>1, PortOfFirst
  <2>4. ourport' = addr'[transports'[i]]
    <3>1. ASSUME NEW k \in Listeners6', \A j \in Listeners6' : k <= j PROVE k = i
      BY <1>1, <1>2, <2>1, <2>2, <3>1 DEF IsFirst
    <3>2. (CHOOSE k \in Listeners6' : \A j \in Listeners6' : k <= j) = i
      BY <2>2, <3>1 DEF IsFirst
    <3> QED BY <2>2, <3>2, ZenonT(60) DEF ourport
  <2>5. ourport' = ourport
    BY <1>2, <2>3, <2>4
  <2> QED BY <2>2, <2>5 DEF PortInv
<1> QED BY <1>3, <1>4

LEMMA StepKeepsPort ==
    ASSUME CallInv, Shapes, Shapes', AllSafe, AllLone, Pending, Solo => Lists, PortInv, [Next]_vars
    PROVE  PortInv' /\ (Solo /\ announced # NoAddr => announced' = announced)
<1>1. ASSUME UNCHANGED <<transports, addr, announced>>, Solo' => Solo
      PROVE  PortInv'
  <2>1. Listeners6' = Listeners6 /\ ourport' = ourport
    BY <1>1 DEF Listeners6, ourport
  <2> QED BY <1>1, <2>1, ZenonT(60) DEF PortInv, IsFirst
<1>2. ASSUME NEW c \in Calls, NodeStep(c) PROVE PortInv' /\ announced' = announced
  <2>1. announced' = announced /\ (Solo' => Solo)
    BY <1>2, SoloBefore DEF NodeStep, Solo
  <2>2. CASE ListenAppend(c)
    <3>1. addr' = addr /\ transports' = Append(walk[c], c) /\ pc[c] = "append"
      BY <2>2 DEF ListenAppend
    <3>2. Solo => walk[c] = transports
      BY <3>1 DEF Lists
    <3> QED BY <2>1, <3>1, <3>2, AppendKeepsPort DEF PortInv
  <2>3. CASE ~ListenAppend(c) /\ UNCHANGED addr
    <3>1. UNCHANGED transports
      BY <1>2, <2>3, NodeStepListens, ZenonT(60)
    <3> QED BY <1>1, <2>1, <2>3, <3>1
  <2>4. ASSUME NEW a \in Addrs, Listen(c, a), ~UNCHANGED addr PROVE PortInv'
    <3>1. pc[c] = "idle" /\ addr' = [addr EXCEPT ![c] = a] /\ UNCHANGED transports
      BY <2>4, ZenonT(60) DEF Listen, Begin, BeginAndEnd, Arrives
    <3>2. c \notin Appended
      BY <3>1 DEF Appended, CallInv, Met
    <3>3. ASSUME Solo, NEW i \in DOMAIN transports PROVE addr'[transports[i]] = addr[transports[i]]
      <4>1. transports[i] # c /\ transports[i] \in Calls
        BY <3>2, <3>3 DEF Lists, Range, Shapes
      <4> QED BY <3>1, <4>1 DEF PortInv
    <3>4. ASSUME Solo PROVE Listeners6' = Listeners6 /\ ourport' = ourport
      <4>1. Listeners6' = Listeners6
        BY <3>1, <3>3, <3>4 DEF Listeners6
      <4>2. CASE Listeners6 = {}
        BY <4>1, <4>2 DEF ourport
      <4>3. CASE Listeners6 # {}
        <5>1. PICK i \in Listeners6 : IsFirst(i, Listeners6)
          BY <3>4, <4>3 DEF PortInv
        <5>2. (CHOOSE k \in Listeners6 : \A j \in Listeners6 : k <= j) \in DOMAIN transports
          BY <5>1 DEF IsFirst, Listeners6
        <5> QED BY <3>1, <3>3, <3>4, <4>1, <4>3, <5>2 DEF ourport
      <4> QED BY <4>2, <4>3
    <3> QED BY <2>1, <3>1, <3>4 DEF PortInv, IsFirst
  <2>5. UNCHANGED addr \/ \E a \in Addrs : Listen(c, a)
    BY <1>2, ZenonT(60) DEF NodeStep, LifecycleStep, Start, StartMake, Stop, StopClose, TakeTransports,
       TptStart, TptMake, TptStop, TptClose, ListenRead, ListenAppend, ListenAsk, nodeVars
  <2> QED BY <2>1, <2>2, <2>3, <2>4, <2>5
<1>3. ASSUME NEW c \in Calls, ServiceStep(c) PROVE PortInv' /\ announced' = announced
  <2>1. UNCHANGED <<transports, addr, announced>>
    BY <1>3, ZenonT(60) DEF ServiceStep, nodeVars
  <2>2. Solo' => Solo
    BY <1>3, SoloBefore DEF Solo
  <2> QED BY <1>1, <2>1, <2>2
<1>4. ASSUME NEW k \in Calls, Routine(k) PROVE PortInv' /\ announced' = announced
  <2>1. UNCHANGED <<transports, addr, announced>>
    BY <1>4, ZenonT(60) DEF Routine, nodeVars
  <2>2. Solo' => Solo
    BY <1>4, RoutinesLeaveCalls, ZenonT(60) DEF callVars, Solo, Overlapped
  <2> QED BY <1>1, <2>1, <2>2
<1>5. ASSUME NEW k \in Calls, Announce(k)
      PROVE  PortInv' /\ (Solo /\ announced # NoAddr => announced' = announced)
  <2>1. UNCHANGED <<transports, addr>> /\ announced' \in {announced, ourport}
    BY <1>5, ZenonT(60) DEF Announce, nodeVars
  <2>2. Solo' => Solo
    BY <1>5, RoutinesLeaveCalls, ZenonT(60) DEF callVars, Solo, Overlapped
  <2>3. Listeners6' = Listeners6 /\ ourport' = ourport
    BY <2>1 DEF Listeners6, ourport
  <2>4. Listeners6 = {} => ourport = NoAddr
    BY DEF ourport
  <2> QED BY <2>1, <2>2, <2>3, <2>4, ZenonT(60) DEF PortInv, IsFirst
<1>6. CASE UNCHANGED vars
  BY <1>1, <1>6, ZenonT(60) DEF vars, callVars, nodeVars, Solo, Overlapped
<1> QED BY <1>2, <1>3, <1>4, <1>5, <1>6, ZenonT(60) DEF Next
----------------------------------------------------------------------------
(***************************************************************************)
(* Node and transports agree between the calls.  While no Stop has         *)
(* overlapped a Start or a Listen, a transport that is not as the node is  *)
(* has a call in progress that will see to it: one that has yet to take    *)
(* the slice, one that has the transport in hand, or its own Listen.       *)
(***************************************************************************)
Calm == Solo /\ ~Overlapped({"stop"}, {"start", "listen"})

WalkPlaces == {"walk", "tmake", "tclose"}

Walking(c) == pc[c] = "range" \/ pc[c] \in WalkPlaces

SeesTo(c, t) ==
    \/ pc[c] = "range"
    \/ pc[c] \in WalkPlaces /\ t \in Range(walk[c])
    \/ pc[c] = "ask" /\ c = t /\ Running

Attended(t) == Agrees(t) \/ \E c \in Calls : SeesTo(c, t)

Walks(c) ==
    /\ Walking(c) => op[c] \in NodeCalls /\ (op[c] = "stop" <=> ~Running)
    /\ \A d \in Calls : Walking(c) /\ Walking(d) /\ op[c] = "stop" /\ op[d] = "stop" => c = d
    /\ pc[c] = "tclose" => trun[Head(walk[c])] = "open"
    /\ pc[c] \in WalkPlaces => Range(walk[c]) \subseteq Range(transports)

CalmInv ==
    /\ \A c \in Calls : Walks(c)
    /\ \A t \in Calls : t \notin Range(transports) => trun[t] = "nil"
    /\ \A t \in Range(transports) : Attended(t)

\* A Stop and a Start or Listen in progress have overlapped.
LEMMA OneSide ==
    ASSUME CallInv, Calm, NEW c \in Calls, NEW d \in Calls, pc[c] \in Places, pc[d] \in Places,
           op[c] = "stop"
    PROVE  op[d] \notin {"start", "listen"}
<1> SUFFICES ASSUME op[d] \in {"start", "listen"} PROVE FALSE
  OBVIOUS
<1>1. c \in Active /\ d \in Active /\ c # d
  BY DEF Active, Places
<1>2. d \in met[c]
  BY <1>1, ZenonT(60) DEF CallInv, Met
<1> QED BY <1>2 DEF Calm, Overlapped

\* A step of a call that sees to nothing, before or after it.
LEMMA BystanderCalm ==
    ASSUME CallInv, Shapes, CalmInv, NEW c \in Calls, NodeStep(c) \/ ServiceStep(c),
           UNCHANGED <<trun, transports>>, Running' = Running,
           ~Walking(c), pc[c] # "ask" \/ ~Running, ~Walking(c)', pc'[c] # "ask"
    PROVE  CalmInv'
<1>1. ASSUME NEW d \in Calls, d # c
      PROVE  pc'[d] = pc[d] /\ op'[d] = op[d] /\ walk'[d] = walk[d]
  BY <1>1, OthersUntouched, ZenonT(60) DEF Untouched
<1>2. ASSUME NEW d \in Calls, Walking(d)' PROVE d # c /\ Walking(d)
  BY <1>1, <1>2 DEF Walking
<1>3. ASSUME NEW d \in Calls PROVE Walks(d)'
  <2>1. CASE d = c
    BY <2>1, ZenonT(60) DEF Walks, Walking, WalkPlaces
  <2>2. CASE d # c
    <3>1. Walks(d) /\ pc'[d] = pc[d] /\ op'[d] = op[d] /\ walk'[d] = walk[d]
      BY <1>1, <2>2 DEF CalmInv
    <3>2. Walking(d)' => Walking(d)
      BY <1>2
    <3>3. ASSUME NEW e \in Calls, Walking(e)' PROVE Walking(e) /\ op'[e] = op[e]
      BY <1>1, <1>2, <3>3
    <3> QED BY <3>1, <3>2, <3>3, ZenonT(60) DEF Walks
  <2> QED BY <2>1, <2>2
<1>4. ASSUME NEW d \in Calls, NEW t \in Calls, SeesTo(d, t) PROVE SeesTo(d, t)'
  <2>1. d # c
    BY <1>4 DEF SeesTo, Walking
  <2> QED BY <1>1, <1>4, <2>1, ZenonT(60) DEF SeesTo
<1>5. Range(transports) \subseteq Calls
  BY RangeInCalls DEF Shapes
<1>6. ASSUME NEW t \in Range(transports) PROVE Attended(t)'
  BY <1>4, <1>5, ZenonT(60) DEF CalmInv, Attended, Agrees
<1> QED BY <1>3, <1>6, ZenonT(60) DEF CalmInv

\* A step of a call that goes through the transports it has in hand.
LEMMA WalkerCalm ==
    ASSUME CallInv, Shapes, CalmInv, NEW c \in Calls, NodeStep(c),
           UNCHANGED <<running, transports>>, Walking(c) \/ pc[c] = "ask",
           \A t \in Calls : t \notin Range(transports) => trun'[t] = "nil",
           \A t \in Calls : trun'[t] = trun[t] \/ Agrees(t)',
           \A d \in Calls : d # c /\ pc[d] = "tclose" => trun'[Head(walk[d])] = trun[Head(walk[d])],
           \A t \in Range(transports) : SeesTo(c, t) => Agrees(t)' \/ SeesTo(c, t)',
           Walking(c)' => (op[c] = "stop" <=> ~Running), UNCHANGED op,
           Walking(c)' => Walking(c) \/ op[c] = "listen",
           pc'[c] = "tclose" => trun'[Head(walk'[c])] = "open",
           pc'[c] \in WalkPlaces => Range(walk'[c]) \subseteq Range(transports)
    PROVE  CalmInv'
<1>1. ASSUME NEW d \in Calls, d # c
      PROVE  pc'[d] = pc[d] /\ op'[d] = op[d] /\ walk'[d] = walk[d]
  BY <1>1, OthersUntouched, ZenonT(60) DEF Untouched
<1>2. \A d \in Calls : Walks(d)
  BY DEF CalmInv
<1>3. ASSUME NEW d \in Calls, d # c PROVE Walks(d)'
  <2>1. Walking(d)' <=> Walking(d)
    BY <1>1, <1>3 DEF Walking
  <2>2. ASSUME NEW e \in Calls, Walking(e)', op[e] = "stop" PROVE Walking(e)
    BY <1>1, <2>2 DEF Walking
  <2>3. Running' = Running
    BY DEF Running
  <2>4. Walks(d)
    BY <1>2
  <2>5. \A e \in Calls : Walking(d)' /\ Walking(e)' /\ op'[d] = "stop" /\ op'[e] = "stop" => d = e
    BY <2>1, <2>2, <2>4, ZenonT(60) DEF Walks
  <2>6. Walking(d)' => op'[d] \in NodeCalls /\ (op'[d] = "stop" <=> ~Running')
    BY <2>1, <2>3, <2>4, ZenonT(60) DEF Walks
  <2> QED BY <1>1, <1>3, <2>4, <2>5, <2>6, ZenonT(60) DEF Walks
<1>4. Walks(c)'
  <2>2. ASSUME NEW e \in Calls, Walking(e)', op[e] = "stop" PROVE Walking(e)
    BY <1>1, <2>2, ZenonT(60) DEF Walking
  <2>3. Running' = Running
    BY ZenonT(60) DEF Running
  <2>4. Walking(c)' => op[c] \in NodeCalls
    BY <1>2, ZenonT(60) DEF Walks, NodeCalls
  <2> QED BY <1>1, <1>2, <2>2, <2>3, <2>4, ZenonT(60) DEF Walks
<1>5. Range(transports) \subseteq Calls
  BY RangeInCalls, ZenonT(60) DEF Shapes
<1>6. ASSUME NEW t \in Range(transports) PROVE Attended(t)'
  <2>1. CASE Agrees(t)
    BY <1>5, <2>1 DEF Agrees, Attended, Running
  <2>2. ASSUME NEW d \in Calls, SeesTo(d, t) PROVE Attended(t)'
    <3>1. CASE d = c
      BY <2>2, <3>1, ZenonT(60) DEF Attended
    <3>2. CASE d # c
      BY <1>1, <2>2, <3>2, ZenonT(60) DEF SeesTo, Attended, Running
    <3> QED BY <3>1, <3>2
  <2> QED BY <2>1, <2>2, ZenonT(60) DEF CalmInv, Attended
<1> QED BY <1>3, <1>4, <1>6, ZenonT(60) DEF CalmInv

LEMMA RangeOfTail2 ==
    ASSUME NEW s \in Seq(Calls), s # <<>>
    PROVE  Head(s) \in Range(s) /\ Range(Tail(s)) \subseteq Range(s)
<1>1. /\ 1 \in DOMAIN s /\ Head(s) = s[1]
      /\ \A i \in DOMAIN Tail(s) : i + 1 \in DOMAIN s /\ Tail(s)[i] = s[i + 1]
  OBVIOUS
<1>2. Head(s) \in Range(s)
  BY <1>1, ZenonT(60) DEF Range
<1>3. ASSUME NEW i \in DOMAIN Tail(s) PROVE Tail(s)[i] \in Range(s)
  <2>1. i + 1 \in DOMAIN s /\ Tail(s)[i] = s[i + 1]
    BY <1>1
  <2> QED BY <2>1, ZenonT(60) DEF Range
<1> QED BY <1>2, <1>3, ZenonT(60) DEF Range

\* The step of a call that walks over the transports: what it does to the one
\* at the head, and that it goes on with the rest.
LEMMA WalkSteps ==
    ASSUME CallInv, Shapes, AllSafe, AllLone, Solo => Lists, CalmInv, Calm, NEW c \in Calls, NodeStep(c),
           pc[c] \in WalkPlaces
    PROVE  CalmInv'
<1> DEFINE h == Head(walk[c])
<1>0. Walks(c) /\ Lone(c) /\ Safe(c)
  BY DEF CalmInv, AllLone, AllSafe
<1>1. /\ h \in Calls /\ Tail(walk[c]) \in Seq(Calls) /\ h \in Range(walk[c])
      /\ \A t \in Range(walk[c]) : t = h \/ t \in Range(Tail(walk[c]))
      /\ Range(Tail(walk[c])) \subseteq Range(walk[c])
      /\ Tail(walk[c]) = <<>> => \A t \in Range(walk[c]) : t = h
  BY RangeOfTail, RangeOfTail2, RangeInCalls, ZenonT(60) DEF Shapes, WalkPlaces
<1>2. /\ Walking(c) /\ (op[c] = "stop" <=> ~Running)
      /\ Range(walk[c]) \subseteq Range(transports)
  BY <1>0 DEF Walks, Walking
<1>3. h \in Range(transports)
  BY <1>1, <1>2
<1>4. TptStart(c) \/ TptMake(c) \/ TptStop(c) \/ TptClose(c)
  BY ZenonT(60) DEF NodeStep, LifecycleStep, Start, StartMake, Stop, StopClose, TakeTransports,
     Listen, ListenRead, ListenAppend, ListenAsk, Begin, BeginAndEnd, Arrives, WalkPlaces
<1>5. /\ UNCHANGED <<running, transports, op>>
      /\ trun' = trun \/ \E v : trun' = [trun EXCEPT ![h] = v]
  BY <1>4, ZenonT(60) DEF TptStart, TptMake, TptStop, TptClose, Onward, Goto, End
<1>6. ASSUME NEW t \in Calls, t # h PROVE trun'[t] = trun[t]
  BY <1>5, <1>6, <1>1 DEF Shapes
<1>7. ASSUME trun[h] = trun'[h] \/ (trun'[h] = "open" <=> Running),
             \A d \in Calls : d # c /\ pc[d] = "tclose" => trun' = trun,
             \/ pc'[c] = "done" /\ Tail(walk[c]) = <<>> /\ (trun'[h] = "open" <=> Running)
             \/ pc'[c] = "walk" /\ walk'[c] = Tail(walk[c]) /\ (trun'[h] = "open" <=> Running)
             \/ pc'[c] \in {"tmake", "tclose"} /\ walk' = walk /\ trun' = trun
                  /\ (pc'[c] = "tclose" => trun[h] = "open")
      PROVE  CalmInv'
  <2>1. \A t \in Calls : t \notin Range(transports) => trun'[t] = "nil"
    BY <1>3, <1>6 DEF CalmInv
  <2>2. \A t \in Calls : trun'[t] = trun[t] \/ Agrees(t)'
    BY <1>5, <1>6, <1>7, ZenonT(60) DEF Agrees, Running
  <2>3. \A d \in Calls : d # c /\ pc[d] = "tclose" => trun'[Head(walk[d])] = trun[Head(walk[d])]
    BY <1>7, ZenonT(60)
  <2>4. ASSUME NEW t \in Range(transports), SeesTo(c, t) PROVE Agrees(t)' \/ SeesTo(c, t)'
    <3>1. t \in Range(walk[c])
      BY <2>4 DEF SeesTo, WalkPlaces
    <3>2. CASE t = h /\ (trun'[h] = "open" <=> Running)
      BY <1>5, <3>2, ZenonT(60) DEF Agrees, Running
    <3>3. CASE t # h /\ pc'[c] = "walk" /\ walk'[c] = Tail(walk[c])
      BY <1>1, <3>1, <3>3 DEF SeesTo, WalkPlaces
    <3>4. CASE pc'[c] \in {"tmake", "tclose"} /\ walk' = walk
      BY <3>1, <3>4 DEF SeesTo, WalkPlaces
    <3> QED BY <1>1, <1>7, <3>1, <3>2, <3>3, <3>4, ZenonT(60)
  <2>5. /\ Walking(c)' => (op[c] = "stop" <=> ~Running)
        /\ Walking(c)' => Walking(c) \/ op[c] = "listen"
    BY <1>2
  <2>6. pc'[c] = "tclose" => trun'[Head(walk'[c])] = "open"
    BY <1>7
  <2>7. pc'[c] \in WalkPlaces => Range(walk'[c]) \subseteq Range(transports)
    BY <1>1, <1>2, <1>7, ZenonT(60) DEF WalkPlaces
  <2> QED BY <1>2, <1>5, <2>1, <2>2, <2>3, <2>4, <2>5, <2>6, <2>7, WalkerCalm, ZenonT(60)
<1>8. CASE TptStart(c)
  <2>1. Running /\ UNCHANGED trun
    BY <1>2, <1>8 DEF TptStart
  <2>2. CASE trun[h] = "open"
    <3>1. Onward(c, Tail(walk[c])) /\ (trun'[h] = "open" <=> Running)
      BY <1>5, <1>8, <2>1, <2>2 DEF TptStart, Agrees, Running
    <3>2. \/ pc'[c] = "done" /\ Tail(walk[c]) = <<>>
          \/ pc'[c] = "walk" /\ walk'[c] = Tail(walk[c])
      BY <3>1, ZenonT(60) DEF Onward, Goto, End, CallInv, Types, Shapes
    <3> QED BY <1>7, <2>1, <3>1, <3>2
  <2>3. CASE trun[h] # "open"
    <3>1. pc'[c] = "tmake" /\ walk' = walk
      BY <1>8, <2>3, ZenonT(60) DEF TptStart, Goto, CallInv, Types
    <3> QED BY <1>7, <2>1, <3>1
  <2> QED BY <2>2, <2>3, ZenonT(60)
<1>9. CASE TptMake(c)
  <2>1. Running /\ op[c] # "stop"
    BY <1>0, <1>2, <1>9, ZenonT(60) DEF TptMake, Lone
  <2>2. (trun'[h] = "open" <=> Running)
    BY <1>1, <1>5, <1>9, <2>1, ZenonT(60) DEF TptMake, Agrees, Running, Shapes
  <2>3. \/ pc'[c] = "done" /\ Tail(walk[c]) = <<>>
        \/ pc'[c] = "walk" /\ walk'[c] = Tail(walk[c])
    BY <1>9, ZenonT(60) DEF TptMake, Onward, Goto, End, CallInv, Types, Shapes
  <2>4. ASSUME NEW d \in Calls, d # c, pc[d] = "tclose" PROVE FALSE
    <3>1. op[d] = "stop" /\ Walking(d)
      BY <2>4 DEF AllSafe, Safe, Walking, WalkPlaces
    <3> QED BY <2>1, <3>1, ZenonT(60) DEF CalmInv, Walks
  <2> QED BY <1>7, <2>2, <2>3, <2>4, ZenonT(60)
<1>10. CASE TptStop(c)
  <2>1. ~Running /\ UNCHANGED trun
    BY <1>2, <1>10, ZenonT(60) DEF TptStop
  <2>2. CASE trun[h] # "open"
    <3>1. Onward(c, Tail(walk[c])) /\ (trun'[h] = "open" <=> Running)
      BY <1>5, <1>10, <2>1, <2>2, ZenonT(60) DEF TptStop, Agrees, Running
    <3>2. \/ pc'[c] = "done" /\ Tail(walk[c]) = <<>>
          \/ pc'[c] = "walk" /\ walk'[c] = Tail(walk[c])
      BY <3>1 DEF Onward, Goto, End, CallInv, Types, Shapes
    <3> QED BY <1>7, <2>1, <3>1, <3>2, ZenonT(60)
  <2>3. CASE trun[h] = "open"
    <3>1. pc'[c] = "tclose" /\ walk' = walk
      BY <1>10, <2>3, ZenonT(60) DEF TptStop, Goto, CallInv, Types
    <3> QED BY <1>7, <2>1, <2>3, <3>1
  <2> QED BY <2>2, <2>3
<1>11. CASE TptClose(c)
  <2>1. op[c] = "stop" /\ ~Running /\ trun[h] = "open"
    BY <1>0, <1>2, <1>11, ZenonT(60) DEF TptClose, Safe, Walks
  <2>2. (trun'[h] = "open" <=> Running)
    BY <1>1, <1>5, <1>11, <2>1, ZenonT(60) DEF TptClose, Agrees, Running, Shapes
  <2>3. \/ pc'[c] = "done" /\ Tail(walk[c]) = <<>>
        \/ pc'[c] = "walk" /\ walk'[c] = Tail(walk[c])
    BY <1>11, <2>1, ZenonT(60) DEF TptClose, Onward, Goto, End, CallInv, Types, Shapes
  <2>4. ASSUME NEW d \in Calls, d # c, pc[d] = "tclose" PROVE FALSE
    <3>1. op[d] = "stop" /\ Walking(d)
      BY <2>4 DEF AllSafe, Safe, Walking, WalkPlaces
    <3> QED BY <1>2, <2>1, <2>4, <3>1 DEF CalmInv, Walks
  <2> QED BY <1>7, <2>2, <2>3, <2>4
<1> QED BY <1>4, <1>8, <1>9, <1>10, <1>11

LEMMA CalmBefore ==
    ASSUME CallInv, Shapes, NEW c \in Calls, NodeStep(c) \/ ServiceStep(c), Calm' PROVE Calm
BY SoloBefore DEF Calm, Solo

\* Start and Stop once they set the channel of the node.
LEMMA SwitchSteps ==
    ASSUME CallInv, CallInv', Shapes, AllSafe, AllLone, CalmInv, Calm, Calm',
           NEW c \in Calls, NodeStep(c), StartMake(c) \/ StopClose(c)
    PROVE  CalmInv'
<1>0. Walks(c) /\ Lone(c) /\ Safe(c) /\ Range(transports) \subseteq Calls
  BY RangeInCalls DEF CalmInv, AllLone, AllSafe, Shapes
<1>1. ASSUME NEW d \in Calls, d # c
      PROVE  pc'[d] = pc[d] /\ op'[d] = op[d] /\ walk'[d] = walk[d] /\ Walks(d) /\ Lone(d) /\ Safe(d)
  BY <1>1, OthersUntouched, ZenonT(60) DEF Untouched, CalmInv, AllLone, AllSafe
<1>2. UNCHANGED <<transports, trun, op>> /\ ~Walking(c) /\ pc[c] # "ask"
  BY ZenonT(60) DEF StartMake, StopClose, Goto, End, Walking, WalkPlaces
<1>3. ASSUME pc'[c] = "range", \A d \in Calls : d # c /\ Walking(d) => op[d] # "stop" /\ Running',
             op[c] \in NodeCalls, op[c] = "stop" <=> ~Running'
      PROVE  CalmInv'
  <2>1. ASSUME NEW d \in Calls PROVE Walks(d)'
    <3>1. CASE d = c
      BY <1>1, <1>2, <1>3, <3>1, ZenonT(60) DEF Walks, Walking, WalkPlaces
    <3>2. CASE d # c
      <4>1. Walking(d)' => op'[d] \in NodeCalls /\ op'[d] # "stop" /\ Running'
        BY <1>1, <1>3, <3>2, ZenonT(60) DEF Walking, Walks
      <4>2. pc[d] = "tclose" => FALSE
        BY <1>1, <1>3, <3>2, ZenonT(60) DEF Safe, Walking, WalkPlaces
      <4> QED BY <1>1, <1>2, <3>2, <4>1, <4>2, ZenonT(60) DEF Walks
    <3> QED BY <3>1, <3>2
  <2>2. ASSUME NEW t \in Range(transports) PROVE Attended(t)'
    BY <1>0, <1>3, ZenonT(60) DEF Attended, SeesTo
  <2> QED BY <1>2, <2>1, <2>2, ZenonT(60) DEF CalmInv
<1>4. CASE StartMake(c)
  <2>1. Running' /\ pc'[c] = "range" /\ op[c] = "start" /\ pc[c] = "make"
    BY <1>0, <1>4, ZenonT(60) DEF StartMake, Goto, CallInv, Types, Lone, Running
  <2>2. ASSUME NEW d \in Calls, d # c, Walking(d) PROVE op[d] # "stop"
    BY <2>1, <2>2, OneSide DEF Walking, WalkPlaces, Places
  <2> QED BY <1>3, <2>1, <2>2, ZenonT(60) DEF NodeCalls
<1>5. CASE StopClose(c)
  <2>1. op[c] = "stop" /\ pc[c] = "close" /\ ~Running'
    BY <1>0, <1>5, ZenonT(60) DEF StopClose, Safe, Running
  <2>2. CASE Running
    <3>1. pc'[c] = "range"
      BY <1>5, <2>2, ZenonT(60) DEF StopClose, Goto, CallInv, Types
    <3>2. ASSUME NEW d \in Calls, d # c, Walking(d) PROVE FALSE
      <4>1. pc[d] \in Places
        BY <3>2 DEF Walking, WalkPlaces, Places
      <4>2. op[d] \notin {"start", "listen"}
        BY <2>1, <4>1, OneSide, ZenonT(60) DEF Places
      <4>3. op[d] # "stop"
        BY <1>1, <2>2, <3>2, ZenonT(60) DEF Walks
      <4> QED BY <1>1, <3>2, <4>2, <4>3, ZenonT(60) DEF Walks, NodeCalls
    <3> QED BY <1>3, <2>1, <3>1, <3>2, ZenonT(60) DEF NodeCalls
  <2>3. CASE ~Running
    <3>1. pc'[c] = "done"
      BY <1>5, <2>3, ZenonT(60) DEF StopClose, End, CallInv, Types
    <3>2. Running' = Running /\ ~Walking(c)' /\ pc'[c] # "ask"
      BY <2>1, <2>3, <3>1 DEF Running, Walking, WalkPlaces
    <3> QED BY <1>2, <3>2, BystanderCalm
  <2> QED BY <2>2, <2>3, ZenonT(60)
<1> QED BY <1>4, <1>5

\* The slice is taken.
LEMMA TakeCalm ==
    ASSUME CallInv, Shapes, AllSafe, CalmInv, NEW c \in Calls, NodeStep(c), TakeTransports(c)
    PROVE  CalmInv'
<1>1. /\ UNCHANGED <<running, transports, trun, op>> /\ Walking(c)
      /\ op[c] = "stop" <=> ~Running
  BY ZenonT(60) DEF TakeTransports, Onward, Goto, End, Walking, CalmInv, Walks
<1>2. \/ transports = <<>> /\ pc'[c] = "done"
      \/ pc'[c] = "walk" /\ walk'[c] = transports
  BY DEF TakeTransports, Onward, Goto, End, CallInv, Types, Shapes
<1>3. \A t \in Range(transports) : SeesTo(c, t)'
  BY <1>2, RangeInCalls DEF SeesTo, WalkPlaces
<1>4. /\ pc'[c] # "tclose"
      /\ pc'[c] \in WalkPlaces => Range(walk'[c]) \subseteq Range(transports)
  BY <1>2 DEF WalkPlaces
<1>5. /\ \A t \in Calls : t \notin Range(transports) => trun'[t] = "nil"
      /\ \A t \in Calls : trun'[t] = trun[t]
  BY <1>1, ZenonT(60) DEF CalmInv
<1> QED BY <1>1, <1>3, <1>4, <1>5, WalkerCalm, ZenonT(60)

\* A Listen asks whether the node runs.
LEMMA AskCalm ==
    ASSUME CallInv, Shapes, AllSafe, AllLone, Lists, Pending, CalmInv, NEW c \in Calls, NodeStep(c), ListenAsk(c)
    PROVE  CalmInv'
<1>1. /\ UNCHANGED <<running, transports, trun, op>> /\ pc[c] = "ask" /\ ~Walking(c)
      /\ op[c] = "listen"
  BY ZenonT(60) DEF ListenAsk, Onward, Goto, End, Walking, WalkPlaces, AllLone, Lone
<1>2. CASE ~Running
  <2>1. pc'[c] = "done" /\ Running' = Running
    BY <1>1, <1>2 DEF ListenAsk, Onward, End, CallInv, Types, Running
  <2> QED BY <1>1, <1>2, <2>1, BystanderCalm DEF Walking, WalkPlaces
<1>3. CASE Running
  <2>1. pc'[c] = "walk" /\ walk'[c] = <<c>>
    BY <1>3 DEF ListenAsk, Onward, Goto, CallInv, Types, Shapes
  <2>2. Range(<<c>>) = {c}
    BY DEF Range
  <2>3. c \in Range(transports)
    BY <1>1 DEF Lists, Appended
  <2>4. \A t \in Range(transports) : SeesTo(c, t) => SeesTo(c, t)'
    BY <1>1, <2>1, <2>2, ZenonT(60) DEF SeesTo, WalkPlaces
  <2>5. /\ pc'[c] # "tclose"
        /\ pc'[c] \in WalkPlaces => Range(walk'[c]) \subseteq Range(transports)
    BY <2>1, <2>2, <2>3
  <2>6. /\ \A t \in Calls : t \notin Range(transports) => trun'[t] = "nil"
        /\ \A t \in Calls : trun'[t] = trun[t]
    BY <1>1, ZenonT(60) DEF CalmInv
  <2>7. op[c] = "listen" /\ op[c] # "stop"
    BY <1>1
  <2> QED BY <1>1, <1>3, <2>4, <2>5, <2>6, <2>7, WalkerCalm, ZenonT(60)
<1> QED BY <1>2, <1>3

\* A Listen appends its transport.
LEMMA AppendCalm ==
    ASSUME CallInv, Shapes, AllSafe, AllLone, Lists, Pending, CalmInv, NEW c \in Calls, NodeStep(c), ListenAppend(c)
    PROVE  CalmInv'
<1>1. /\ UNCHANGED <<running, trun, op, walk>> /\ pc[c] = "append"
      /\ transports' = Append(transports, c) /\ pc'[c] = "ask"
  BY ZenonT(60) DEF ListenAppend, Goto, CallInv, Types, Lists
<1>2. Range(transports') = Range(transports) \cup {c} /\ Range(transports) \subseteq Calls
  BY <1>1, RangeOfAppend, RangeInCalls DEF Shapes
<1>3. ASSUME NEW d \in Calls, d # c PROVE pc'[d] = pc[d]
  BY <1>3, OthersUntouched, ZenonT(60) DEF Untouched
<1>4. ASSUME NEW d \in Calls
      PROVE  /\ Walking(d)' <=> Walking(d)
             /\ pc'[d] \in WalkPlaces => pc[d] \in WalkPlaces
             /\ pc'[d] = "tclose" => pc[d] = "tclose"
  BY <1>1, <1>3 DEF Walking, WalkPlaces
<1>5. Running' = Running
  BY <1>1 DEF Running
<1>6. ASSUME NEW d \in Calls PROVE Walks(d)'
  BY <1>1, <1>2, <1>4, <1>5, ZenonT(60) DEF Walks, CalmInv
<1>7. c \notin Range(transports)
  BY <1>1 DEF Lists, Appended, Pending
<1>8. ASSUME NEW t \in Range(transports) PROVE Attended(t)'
  <2>1. CASE Agrees(t)
    BY <1>1, <1>5, <2>1, ZenonT(60) DEF Agrees, Attended
  <2>2. ASSUME NEW d \in Calls, SeesTo(d, t) PROVE Attended(t)'
    <3>1. d # c
      BY <1>1, <2>2 DEF SeesTo, WalkPlaces
    <3> QED BY <1>1, <1>3, <1>5, <2>2, <3>1, ZenonT(60) DEF SeesTo, Attended
  <2> QED BY <2>1, <2>2 DEF CalmInv, Attended
<1>9. Attended(c)'
  <2>1. trun[c] = "nil"
    BY <1>7 DEF CalmInv
  <2>2. CASE Running
    BY <1>1, <1>5, <2>2, ZenonT(60) DEF Attended, SeesTo
  <2>3. CASE ~Running
    BY <1>1, <1>5, <2>1, <2>3 DEF Attended, Agrees
  <2> QED BY <2>2, <2>3
<1> QED BY <1>1, <1>2, <1>6, <1>8, <1>9, ZenonT(60) DEF CalmInv

LEMMA NodeStepCalm ==
    ASSUME CallInv, CallInv', Shapes, AllSafe, AllLone, Pending, Solo => Lists, CalmInv, Calm',
           NEW c \in Calls, NodeStep(c)
    PROVE  CalmInv'
<1>1. Calm /\ Lists
  BY CalmBefore DEF Calm
<1>2. CASE pc[c] \in WalkPlaces
  BY <1>1, <1>2, WalkSteps
<1>3. CASE StartMake(c) \/ StopClose(c)
  BY <1>1, <1>3, SwitchSteps
<1>4. CASE TakeTransports(c)
  BY <1>4, TakeCalm
<1>5. CASE ListenAppend(c)
  BY <1>1, <1>5, AppendCalm
<1>6. CASE ListenAsk(c)
  BY <1>1, <1>6, AskCalm, ZenonT(60)
<1>7. CASE Start(c) \/ Stop(c) \/ ListenRead(c) \/ \E a \in Addrs : Listen(c, a)
  <2>1. /\ UNCHANGED <<running, trun, transports>>
        /\ pc[c] \in {"idle", "read"} /\ pc'[c] \in {"make", "close", "read", "append", "done"}
    <3>1. CASE Start(c)
      BY <3>1, ZenonT(60) DEF Start, Begin, BeginAndEnd, Arrives, nodeVars, CallInv, Types
    <3>2. CASE Stop(c)
      BY <3>2, ZenonT(60) DEF Stop, Begin, BeginAndEnd, Arrives, nodeVars, CallInv, Types
    <3>3. CASE ListenRead(c)
      BY <3>3, ZenonT(60) DEF ListenRead, Goto, CallInv, Types
    <3>4. ASSUME NEW a \in Addrs, Listen(c, a)
          PROVE  /\ UNCHANGED <<running, trun, transports>>
                 /\ pc[c] \in {"idle", "read"} /\ pc'[c] \in {"make", "close", "read", "append", "done"}
      BY <3>4, ZenonT(60) DEF Listen, Begin, BeginAndEnd, Arrives, CallInv, Types
    <3> QED BY <1>7, <3>1, <3>2, <3>3, <3>4, ZenonT(60)
  <2>2. /\ Running' = Running /\ ~Walking(c) /\ pc[c] # "ask"
        /\ ~Walking(c)' /\ pc'[c] # "ask"
    BY <2>1 DEF Running, Walking, WalkPlaces
  <2> QED BY <2>1, <2>2, BystanderCalm
<1> QED BY <1>2, <1>3, <1>4, <1>5, <1>6, <1>7, ZenonT(60)
        DEF NodeStep, LifecycleStep, TptStart, TptMake, TptStop, TptClose, WalkPlaces

LEMMA ServiceStepCalm ==
    ASSUME CallInv, Shapes, AllSafe, CalmInv, NEW c \in Calls, ServiceStep(c) PROVE CalmInv'
<1>1. UNCHANGED <<running, trun, transports>>
  BY ZenonT(60) DEF ServiceStep, nodeVars
<1>2. pc[c] \in LinkLocalPlaces \cup {"idle"} /\ pc'[c] \in LinkLocalPlaces \cup {"done"}
  BY ServiceStepOps
<1>3. /\ Running' = Running /\ ~Walking(c) /\ pc[c] # "ask"
      /\ ~Walking(c)' /\ pc'[c] # "ask"
  BY <1>1, <1>2 DEF Running, Walking, WalkPlaces, LinkLocalPlaces
<1> QED BY <1>1, <1>3, BystanderCalm

\* The two together, and what the routines leave.
QuietInv == Pending /\ (Solo => Lists) /\ (Calm => CalmInv)

LEMMA StepKeepsQuiet ==
    CallInv /\ CallInv' /\ Shapes /\ AllSafe /\ AllLone /\ QuietInv /\ [Next]_vars => QuietInv'
<1> SUFFICES ASSUME CallInv, CallInv', Shapes, AllSafe, AllLone, QuietInv, [Next]_vars
             PROVE  QuietInv'
  OBVIOUS
<1>0. Pending'
  BY StepKeepsPending DEF QuietInv
<1>1. ASSUME UNCHANGED <<callVars, nodeVars>> PROVE QuietInv'
  <2>1. /\ Solo' <=> Solo
        /\ Calm' <=> Calm
    BY <1>1, ZenonT(60) DEF callVars, Solo, Calm, Overlapped
  <2>2. Lists => Lists'
    BY <1>1, ZenonT(60) DEF callVars, nodeVars, Lists, Appended
  <2>3. CalmInv => CalmInv'
    <3>1. UNCHANGED <<op, pc, walk, transports, trun, Running>>
      BY <1>1, ZenonT(60) DEF callVars, nodeVars, Running
    <3>2. ASSUME NEW c \in Calls, Walks(c) PROVE Walks(c)'
      BY <3>1, <3>2, ZenonT(60) DEF Walks, Walking
    <3>3. ASSUME NEW t \in Range(transports), Attended(t) PROVE Attended(t)'
      BY <3>1, <3>3, ZenonT(60) DEF Attended, Agrees, SeesTo
    <3> QED BY <3>1, <3>2, <3>3, ZenonT(60) DEF CalmInv
  <2> QED BY <1>0, <2>1, <2>2, <2>3, ZenonT(60) DEF QuietInv
<1>2. ASSUME NEW c \in Calls, NodeStep(c) \/ ServiceStep(c) PROVE QuietInv'
  <2>1. Solo' => Lists'
    BY <1>2, StepKeepsLists DEF QuietInv
  <2>2. ASSUME Calm' PROVE CalmInv'
    <3>1. Calm
      BY <1>2, <2>2, CalmBefore
    <3> QED BY <1>2, <2>2, <3>1, NodeStepCalm, ServiceStepCalm DEF QuietInv
  <2> QED BY <1>0, <2>1, <2>2 DEF QuietInv
<1> QED BY <1>1, <1>2, RoutinesLeaveCalls, ZenonT(60) DEF Next, vars

LEMMA InitQuiet == Init => AllLone /\ QuietInv /\ PortInv
<1> SUFFICES ASSUME Init PROVE AllLone /\ QuietInv /\ PortInv
  OBVIOUS
<1>1. AllLone
  BY DEF Init, ApiInit, AllLone, Lone
<1>2. Pending /\ Range(transports) = {} /\ Appended = {} /\ transports = <<>>
  BY RangeInCalls DEF Init, ApiInit, LifecycleInit, Pending, Appended
<1>3. Lists
  BY <1>2 DEF Lists, Init, ApiInit
<1>4. CalmInv
  BY <1>2 DEF CalmInv, Walks, Walking, WalkPlaces, Init, ApiInit, LifecycleInit
<1>5. Listeners6 = {}
  BY <1>2 DEF Listeners6
<1>6. PortInv
  BY <1>5 DEF PortInv, Init, LifecycleInit
<1> QED BY <1>1, <1>2, <1>3, <1>4, <1>6 DEF QuietInv

LEMMA QuietShows == CallInv /\ Shapes /\ AllSafe /\ AllLone /\ QuietInv => QuietAgrees
<1> SUFFICES ASSUME CallInv, Shapes, QuietInv, Quiet, Solo PROVE
        /\ Range(transports) = {c \in Calls : op[c] = "listen" /\ result[c] = "ok"}
        /\ ~Overlapped({"stop"}, {"start", "listen"}) => Agree
  BY DEF QuietAgrees, Solo
<1>1. \A c \in Calls : pc[c] \in {"idle", "done"}
  BY DEF Quiet, Active
<1>2. Range(transports) = {c \in Calls : op[c] = "listen" /\ result[c] = "ok"}
  BY <1>1 DEF QuietInv, Lists, Appended
<1>3. ASSUME Calm PROVE Agree
  BY <1>1, <1>3 DEF QuietInv, CalmInv, Attended, SeesTo, WalkPlaces, Agree, Agrees
<1> QED BY <1>2, <1>3 DEF Calm

\* Start, Stop and Listen hold no lock (node.go, peer.go): for any number of
\* requests, when all of them have returned the node knows the transport of
\* every Listen that succeeded, unless two Listens overlapped, and they all are
\* as the node is, unless a Stop overlapped a Start or a Listen.
THEOREM QuietNodesAgree == Spec => []QuietAgrees
<1>1. CallInv /\ Shapes /\ AllSafe /\ AllLone /\ [Next]_vars => AllLone'
  BY StepKeepsLone
<1> QED BY <1>1, InitSafe, InitQuiet, StepKeepsCalls, StepKeepsShapes, StepKeepsSafe,
           StepKeepsQuiet, QuietShows, PTL DEF Spec

\* Status lists the listeners in the order of node.transports, which Listen
\* appends to (linklocal.go, peer.go): for any number of requests, what is
\* announced once stays announced, unless two Listens overlapped.
THEOREM AnnouncementsStay == Spec => AnnouncedStable
<1>1. CallInv /\ Shapes /\ AllSafe /\ AllLone /\ [Next]_vars => AllLone'
  BY StepKeepsLone
<1>2. /\ CallInv /\ Shapes /\ Shapes' /\ AllSafe /\ AllLone /\ QuietInv /\ PortInv /\ [Next]_vars
      => /\ PortInv'
         /\ [announced # NoAddr /\ ~Overlapped({"listen"}, {"listen"})
                => announced' = announced]_vars
  BY StepKeepsPort DEF QuietInv, Solo
<1> QED BY <1>1, <1>2, InitSafe, InitQuiet, StepKeepsCalls, StepKeepsShapes, StepKeepsSafe,
           StepKeepsQuiet, PTL DEF Spec, AnnouncedStable
=============================================================================
